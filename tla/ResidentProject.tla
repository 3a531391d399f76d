--------------------------- MODULE ResidentProject ---------------------------
(***************************************************************************)
(* A resident TypeScript project, src/analysis/typescript/project/         *)
(* project.ts: one analyzer session at a time, the store the project owns, *)
(* the readers it has handed out, and a queue that runs its refreshes,     *)
(* openings and session replacements one after the other.                  *)
(*                                                                         *)
(* A refresh may commit several times before it fails; the next one that   *)
(* succeeds hands out what all of them committed.  Disposal comes between  *)
(* any two steps.  The store is createMemoryAnalysisStore with its bound   *)
(* on universes; what an analyzer answers is NativeLineage's concern, here *)
(* it is any universe and any content.                                     *)
(*                                                                         *)
(* A process that was told to end runs on until it exits, at a time of its *)
(* own: a session that is disposed is awaited, one that was aborted or has *)
(* failed has its process signalled and nobody waits for it.               *)
(*                                                                         *)
(* Calls of the store and of its readers are steps of one task of the      *)
(* event loop, an answer of the analyzer begins a task of its own.         *)
(***************************************************************************)
EXTENDS Naturals, Sequences, FiniteSets

CONSTANTS Universe,       \* project universes
          Source,         \* source files, one shard each
          Revision,       \* what a source that exists can hold
          Handle,         \* snapshots a caller can hold at the same time
          None,
          MaxUniverses,   \* maximumRetainedUniverses
          MaxCalls, MaxQueue,         \* bounds on the calls of each kind, on those that wait,
          MaxCommits, MaxFailures     \* on the commits and on the failures

Kinds == {"refresh", "open", "replace"}

\* A process serves a session, or its session was disposed and is waiting for its exit, or its
\* session was aborted or has failed and has only sent it a signal.
Fates == {"serving", "ending", "signalled"}

ASSUME ProjectAssumption ==
  /\ MaxUniverses \in Nat \ {0}
  /\ MaxCalls \in [Kinds -> Nat]
  /\ {MaxQueue, MaxCommits, MaxFailures} \subseteq Nat

VARIABLES head,       \* head[u]: the current generation of universe u in the store, or None
          resident,   \* the universes of the store, the least recently used one first
          processes,  \* processes[fate]: how many analyzer processes run
          service,    \* #service: None or the universe it is in and whether its session is
                      \* over: disposed of, aborted or failed
          universe,   \* #universe
          reader,     \* #currentReader: the generation it pins, or None
          snapshots,  \* #readers: the generation a handle pins, or None
          pending,    \* #pending: transactions not handed out
          moved,      \* #pendingSources
          shards,     \* #sourceShards[u]: the sources whose shards are known
          queue,      \* what is chained to #tail
          work,       \* the queued call that runs
          closing,    \* "open", then "stopping" when dispose has been called, then "done"
          mirror,     \* what a client has that applies all it is handed
          touched,    \* sources whose revision a commit changed since the last refresh returned
          published,  \* the generation the last successful refresh returned
          bounds

store == <<head, resident>>
owned == <<processes, service, universe>>
facts == <<pending, moved, shards>>
client == <<mirror, touched, published>>
vars == <<head, resident, processes, service, universe, reader, snapshots, pending, moved,
          shards, queue, work, closing, mirror, touched, published, bounds>>

Contents == [Source -> Revision \union {None}]
Generations == [universe : Universe, content : Contents, sequence : Nat \ {0}]
Transactions == [base : Generations \union {None}, next : Generations]
Idle == [kind |-> "idle", phase |-> "idle", generation |-> None, wrote |-> FALSE]

\* A call that awaits the exit of a process before it returns.
Awaiting(kind) == [Idle EXCEPT !.kind = kind, !.phase = "ending"]

ASSUME NoneAssumption ==
  None \notin Universe \union Revision \union Generations
              \union [universe : Universe \union {None}, over : BOOLEAN]

Present(content) == {s \in Source : content[s] # None}

-----------------------------------------------------------------------------
(* The store. *)

\* Mutant: the project's own reader does not count.
Leased_Snapshots(current, held, opened) ==
  {g.universe : g \in ({opened} \union {held[h] : h \in Handle}) \ {None}}

\* The universes somebody reads: the project, a snapshot, or a reader not yet handed out.
Leased(current, held, opened) ==
  {g.universe : g \in ({current, opened} \union {held[h] : h \in Handle}) \ {None}}

\* Universes beyond the bound go, the least recently used first, except the most recently
\* used one and those that are read.
Evicted(order, leased) ==
  LET idle == {i \in 1 .. Len(order) - 1 : order[i] \notin leased}
  IN {order[i] : i \in {j \in idle :
        Cardinality({k \in idle : k < j}) + MaxUniverses < Len(order)}}

Without(order, universes) == SelectSeq(order, LAMBDA u : u \notin universes)

\* Activation by an opening or a commit.
Used(order, u) == Append(Without(order, {u}), u)

Kept(heads, gone) == [u \in Universe |-> IF u \in gone THEN None ELSE heads[u]]

\* The store after commits and openings, once readers are released.
Collect(heads, order, leased) ==
  LET gone == Evicted(order, leased)
  IN /\ head' = Kept(heads, gone)
     /\ resident' = Without(order, gone)

\* collectSourceShards forgets the universes that the store has dropped.
Remembered == [u \in Universe |-> IF head'[u] = None THEN {} ELSE shards[u]]

-----------------------------------------------------------------------------
Init ==
  /\ head = [u \in Universe |-> None] /\ resident = <<>>
  /\ processes = [fate \in Fates |-> 0] /\ service = None /\ universe = None
  /\ reader = None /\ snapshots = [h \in Handle |-> None]
  /\ pending = <<>> /\ moved = {} /\ shards = [u \in Universe |-> {}]
  /\ queue = <<>> /\ work = Idle /\ closing = "open"
  /\ mirror = [u \in Universe |-> None] /\ touched = {} /\ published = None
  /\ bounds = [calls |-> [kind \in Kinds |-> 0], commits |-> 0, failures |-> 0]

Outstanding(kind) ==
  Cardinality({i \in DOMAIN queue : queue[i] = kind}) + IF work.kind = kind THEN 1 ELSE 0

\* A caller calls refresh, open or replaceSession; after dispose they are refused.
Call(kind) ==
  /\ closing = "open" /\ bounds.calls[kind] < MaxCalls[kind] /\ Len(queue) < MaxQueue
  /\ kind = "open" =>
       Outstanding("open") < Cardinality({h \in Handle : snapshots[h] = None})
  /\ queue' = Append(queue, kind)
  /\ bounds' = [bounds EXCEPT !.calls[kind] = @ + 1]
  /\ UNCHANGED <<store, owned, reader, snapshots, facts, work, closing, client>>

Turn(kind) == /\ work = Idle /\ queue # <<>> /\ Head(queue) = kind
               /\ queue' = Tail(queue)

\* What was queued before dispose is refused when its turn comes, and so is a refresh whose
\* caller has aborted it before.
Refuse ==
  /\ work = Idle /\ queue # <<>>
  /\ closing # "open" \/ Head(queue) = "refresh"
  /\ queue' = Tail(queue)
  /\ UNCHANGED <<store, owned, reader, snapshots, facts, work, closing, client, bounds>>

-----------------------------------------------------------------------------
(* The session and its process. *)

Serving == service # None /\ ~service.over
Lost == service # None /\ service.over

\* The session ends, unless it is over: to dispose of it again does nothing.
EndSession(fate) ==
  processes' = IF Serving THEN [processes EXCEPT !["serving"] = @ - 1, ![fate] = @ + 1]
                          ELSE processes

\* The process exits by itself, whatever the project does meanwhile.
Dies ==
  /\ Serving /\ bounds.failures < MaxFailures
  /\ processes' = [processes EXCEPT !["serving"] = @ - 1]
  /\ service' = [service EXCEPT !.over = TRUE]
  /\ bounds' = [bounds EXCEPT !.failures = @ + 1]
  /\ UNCHANGED <<store, universe, reader, snapshots, facts, queue, work, closing, client>>

\* A process told to end, or signalled, exits.
Exit(fate) ==
  /\ fate # "serving" /\ processes[fate] > 0
  /\ processes' = [processes EXCEPT ![fate] = @ - 1]
  /\ UNCHANGED <<store, service, universe, reader, snapshots, facts, queue, work, closing, client,
                 bounds>>

-----------------------------------------------------------------------------
(* refresh. *)

StartRefresh ==
  /\ closing = "open" /\ Turn("refresh")
  /\ work' = [Idle EXCEPT !.kind = "refresh",
                          !.phase = IF service = None THEN "opening" ELSE "asking"]
  /\ UNCHANGED <<store, owned, reader, snapshots, facts, closing, client, bounds>>

Opened ==
  /\ closing = "open" /\ work.phase = "opening"
  /\ processes' = [processes EXCEPT !["serving"] = @ + 1]
  /\ service' = [universe |-> universe, over |-> FALSE]
  /\ work' = [work EXCEPT !.phase = "asking"]
  /\ UNCHANGED <<store, universe, reader, snapshots, facts, queue, closing, client, bounds>>

\* The project was disposed, or the caller has aborted, while the session was opened.
LateOpening ==
  /\ work.phase = "opening"
  /\ closing = "open" => bounds.failures < MaxFailures
  /\ bounds' = [bounds EXCEPT !.failures = IF closing = "open" THEN @ + 1 ELSE @]
  /\ UNCHANGED <<store, service, universe, reader, snapshots, facts, queue, closing, client>>

\* Mutant: the session is thrown away with the refresh.
OpenedLate_Abandoned ==
  /\ LateOpening
  /\ processes' = [processes EXCEPT !["serving"] = @ + 1]
  /\ work' = Idle

\* A provider may finish an opening that was aborted.  The session becomes the service, the
\* refresh throws on its signal, and disposes of the service it finds.
OpenedLate ==
  /\ LateOpening
  /\ processes' = [processes EXCEPT !["ending"] = @ + 1]
  /\ work' = Awaiting("refresh")

\* The writer's commit: the store's, then the records of what it changed.  The analyzer sends
\* a difference to the base, or a complete snapshot that is rebased on what the store has.
Commit(u, content, complete) ==
  LET base == head[u]
      before == IF base = None THEN [s \in Source |-> None] ELSE base.content
      next == [universe |-> u, content |-> content,
               sequence |-> IF base = None THEN 1 ELSE base.sequence + 1]
      upserts == {s \in Present(content) : complete \/ content[s] # before[s]}
      deletes == Present(before) \ Present(content)
  IN /\ work.phase = "asking" /\ Serving /\ bounds.commits < MaxCommits
     /\ base = None \/ content # before
     /\ complete \/ (base # None /\ u = service.universe)
     /\ Collect([head EXCEPT ![u] = next], Used(resident, u), Leased(reader, snapshots, None))
     /\ pending' = Append(pending, [base |-> base, next |-> next])
     /\ moved' = moved \union upserts \union (deletes \intersect shards[u])
     /\ shards' = [shards EXCEPT ![u] = (@ \ deletes) \union upserts]
     /\ touched' = touched \union {s \in Source : content[s] # before[s]}
     /\ work' = [work EXCEPT !.phase = "acknowledging", !.generation = next, !.wrote = TRUE]
     /\ bounds' = [bounds EXCEPT !.commits = @ + 1]
     /\ UNCHANGED <<owned, reader, snapshots, queue, closing, mirror, published>>

\* A complete snapshot of what the store already has: no transaction.
Join(u) ==
  /\ work.phase = "asking" /\ Serving /\ head[u] # None
  /\ work' = [work EXCEPT !.phase = "acknowledging", !.generation = head[u], !.wrote = FALSE]
  /\ UNCHANGED <<store, owned, reader, snapshots, facts, queue, closing, client, bounds>>

Unchanged ==
  /\ work.phase = "asking" /\ Serving
  /\ service.universe # None /\ head[service.universe] # None
  /\ work' = [work EXCEPT !.phase = "answered", !.generation = head[service.universe]]
  /\ UNCHANGED <<store, owned, reader, snapshots, facts, queue, closing, client, bounds>>

\* A refresh with discovery asks again after a transaction.
Acknowledged(discover) ==
  /\ work.phase = "acknowledging" /\ Serving
  /\ service' = [service EXCEPT !.universe = work.generation.universe]
  /\ work' = [work EXCEPT !.phase = IF discover /\ work.wrote THEN "asking" ELSE "answered"]
  /\ UNCHANGED <<store, processes, universe, reader, snapshots, facts, queue, closing, client,
                 bounds>>

\* The universe of the session is kept, not the session.
Caught ==
  /\ universe' = IF service = None \/ service.universe = None THEN universe
                                                               ELSE service.universe
  /\ service' = None
  /\ UNCHANGED <<reader, snapshots, pending, moved, queue, closing, client>>

\* Mutant: a refresh that fails takes its transactions with it.
Fail_Forgets ==
  /\ EndSession("ending")
  /\ universe' = IF service = None \/ service.universe = None THEN universe
                                                               ELSE service.universe
  /\ service' = None
  /\ pending' = <<>>
  /\ work' = IF Serving THEN Awaiting("refresh") ELSE Idle
  /\ shards' = IF Serving THEN shards ELSE Remembered
  /\ UNCHANGED <<reader, snapshots, moved, queue, closing, client>>

\* The catch of a refresh disposes of the session, and awaits its exit unless it is over.
Fail ==
  /\ Caught
  /\ EndSession("ending")
  /\ work' = IF Serving THEN Awaiting("refresh") ELSE Idle
  /\ shards' = IF Serving THEN shards ELSE Remembered

\* The caller aborts, or the answer breaks the protocol: the session signals its process, so
\* that there is nothing left for the catch to await.
Abort ==
  /\ Serving /\ Caught
  /\ EndSession("signalled")
  /\ work' = Idle
  /\ shards' = Remembered

\* The process has exited: the refresh forgets what the store has dropped, a replacement is done.
Ended ==
  /\ work.phase = "ending" /\ processes["ending"] = 0
  /\ UNCHANGED <<store, owned, reader, snapshots, pending, moved, queue, closing, client, bounds>>
  /\ work' = Idle
  /\ shards' = IF work.kind = "refresh" THEN Remembered ELSE shards

Waiting == work.phase \in {"opening", "asking", "acknowledging"}

\* The session fails to open, answers with an error, is aborted or breaks the protocol.
Failure ==
  /\ Waiting /\ ~Lost /\ bounds.failures < MaxFailures
  /\ bounds' = [bounds EXCEPT !.failures = @ + 1]
  /\ UNCHANGED store
  /\ Fail \/ Abort

\* Mutant: an opening does not carry the project's signal.
Interrupted_Requests ==
  /\ Waiting /\ Lost
  /\ UNCHANGED <<store, bounds>>
  /\ Fail

\* Disposal has aborted the opening, or the session that is asked is over.
Interrupted ==
  /\ Waiting /\ (Lost \/ (work.phase = "opening" /\ closing # "open"))
  /\ UNCHANGED <<store, bounds>>
  /\ Fail

SameId(g, h) == g # None /\ g.universe = h.universe /\ g.content = h.content

\* What a client has of universe u before the i-th transaction.
Latest(have, transactions, i, u) ==
  LET earlier == {j \in 1 .. i - 1 : transactions[j].next.universe = u}
  IN IF earlier = {} THEN have[u]
     ELSE transactions[CHOOSE j \in earlier : \A k \in earlier : k <= j].next

\* The refresh returns and hands out all transactions and sources.
Return ==
  /\ pending' = <<>> /\ moved' = {}
  /\ shards' = Remembered
  /\ mirror' = [u \in Universe |-> Latest(mirror, pending, Len(pending) + 1, u)]
  /\ touched' = {}
  /\ published' = work.generation
  /\ work' = Idle

\* The reader in use is kept when the generation is the same.
ReturnSame ==
  /\ work.kind = "refresh" /\ work.phase = "answered" /\ SameId(reader, work.generation)
  /\ universe' = work.generation.universe
  /\ UNCHANGED <<store, processes, service, reader, snapshots, queue, closing, bounds>>
  /\ Return

OpenCurrent ==
  /\ work.kind = "refresh" /\ work.phase = "answered" /\ ~SameId(reader, work.generation)
  /\ head[work.generation.universe] # None
  /\ universe' = work.generation.universe
  /\ resident' = Used(resident, work.generation.universe)
  /\ work' = [work EXCEPT !.phase = "reading"]
  /\ UNCHANGED <<head, processes, service, reader, snapshots, facts, queue, closing, client,
                 bounds>>

\* The store has dropped the universe since the analyzer was asked: a snapshot of it was
\* released, and only a commit or an opening makes a universe the most recently used one.
Dropped ==
  /\ work.kind = "refresh" /\ work.phase = "answered" /\ ~SameId(reader, work.generation)
  /\ head[work.generation.universe] = None
  /\ UNCHANGED <<store, bounds>>
  /\ Fail

ReturnNew ==
  /\ work.kind = "refresh" /\ work.phase = "reading" /\ closing = "open"
  /\ reader' = work.generation
  /\ IF reader = None THEN UNCHANGED store
     ELSE Collect(head, resident, Leased(work.generation, snapshots, None))
  /\ UNCHANGED <<owned, snapshots, queue, closing, bounds>>
  /\ Return

\* The reader was opened while the project was disposed.
TooLate ==
  /\ work.kind = "refresh" /\ work.phase = "reading" /\ closing # "open"
  /\ Collect(head, resident, Leased(reader, snapshots, None))
  /\ UNCHANGED bounds
  /\ Fail

-----------------------------------------------------------------------------
(* open, replaceSession and dispose. *)

\* The store opens the current generation of #universe, if it has one.
StartOpen ==
  LET served == universe # None /\ head[universe] # None IN
  /\ closing = "open" /\ Turn("open")
  /\ resident' = IF served THEN Used(resident, universe) ELSE resident
  /\ work' = IF served THEN [Idle EXCEPT !.kind = "open", !.phase = "reading",
                                         !.generation = head[universe]]
                       ELSE Idle
  /\ UNCHANGED <<head, owned, reader, snapshots, facts, closing, client, bounds>>

HandOut(h) ==
  /\ work.kind = "open" /\ closing = "open" /\ snapshots[h] = None
  /\ snapshots' = [snapshots EXCEPT ![h] = work.generation]
  /\ work' = Idle
  /\ UNCHANGED <<store, owned, reader, facts, queue, closing, client, bounds>>

TakeBack ==
  /\ work.kind = "open" /\ closing # "open"
  /\ Collect(head, resident, Leased(reader, snapshots, None))
  /\ work' = Idle
  /\ UNCHANGED <<owned, reader, snapshots, facts, queue, closing, client, bounds>>

\* A caller disposes a snapshot, at any time.
Release(h) ==
  /\ closing # "done" /\ snapshots[h] # None
  /\ snapshots' = [snapshots EXCEPT ![h] = None]
  /\ Collect(head, resident,
             Leased(reader, snapshots', IF work.phase = "reading" THEN work.generation ELSE None))
  /\ shards' = Remembered
  /\ UNCHANGED <<owned, reader, pending, moved, queue, work, closing, client, bounds>>

ReplaceSession ==
  /\ closing = "open" /\ Turn("replace")
  /\ EndSession("ending")
  /\ service' = None
  /\ work' = IF Serving THEN Awaiting("replace") ELSE Idle
  /\ UNCHANGED <<store, universe, reader, snapshots, facts, closing, client, bounds>>

\* The session is over at once, so that a refresh that waits for it fails: the signal aborts
\* the request that is pending, if there is one, before the session is disposed.
Dispose ==
  /\ closing = "open"
  /\ closing' = "stopping"
  /\ \E fate \in {"ending", "signalled"} :
       /\ fate = "signalled" => Waiting
       /\ EndSession(fate)
  /\ service' = IF service = None THEN None ELSE [service EXCEPT !.over = TRUE]
  /\ UNCHANGED <<store, universe, reader, snapshots, facts, queue, work, client, bounds>>

\* Once the queue has drained and the session's exit was awaited, the session is disposed again,
\* and the readers and the store are released.
Cleanup ==
  /\ closing = "stopping" /\ queue = <<>> /\ work = Idle /\ processes["ending"] = 0
  /\ closing' = "done"
  /\ EndSession("ending")
  /\ service' = None /\ reader' = None /\ snapshots' = [h \in Handle |-> None]
  /\ head' = [u \in Universe |-> None] /\ resident' = <<>>
  /\ pending' = <<>> /\ moved' = {} /\ shards' = [u \in Universe |-> {}]
  /\ UNCHANGED <<universe, queue, work, client, bounds>>

-----------------------------------------------------------------------------
Answer == \/ Opened \/ OpenedLate \/ Unchanged
          \/ \E u \in Universe : Join(u)
          \/ \E u \in Universe, content \in Contents, complete \in BOOLEAN :
               Commit(u, content, complete)
          \/ \E discover \in BOOLEAN : Acknowledged(discover)

Run == \/ Refuse \/ StartRefresh \/ StartOpen \/ ReplaceSession
       \/ Interrupted \/ Ended \/ ReturnSame \/ OpenCurrent \/ Dropped \/ ReturnNew \/ TooLate
       \/ \E h \in Handle : HandOut(h)
       \/ TakeBack \/ Cleanup

Caller == \/ \E kind \in Kinds : Call(kind)
          \/ \E h \in Handle : Release(h)
          \/ Dispose

Process == Dies \/ \E fate \in Fates : Exit(fate)

Next == Answer \/ Run \/ Caller \/ Failure \/ Process

Spec == Init /\ [][Next]_vars

\* The event loop runs what is queued and what has been interrupted; an analyzer need not answer,
\* but a process that is told to end, or is signalled, exits.
FairSpec == Spec /\ WF_vars(Run) /\ \A fate \in Fates : WF_vars(Exit(fate))
-----------------------------------------------------------------------------
\* The order of the store's universes, resident, apart.
TypeOK ==
  /\ head \in [Universe -> Generations \union {None}]
  /\ processes \in [Fates -> Nat]
  /\ service \in [universe : Universe \union {None}, over : BOOLEAN] \union {None}
  /\ universe \in Universe \union {None}
  /\ reader \in Generations \union {None}
  /\ snapshots \in [Handle -> Generations \union {None}]
  /\ pending \in Seq(Transactions) /\ moved \subseteq Source
  /\ shards \in [Universe -> SUBSET Source]
  /\ queue \in Seq(Kinds)
  /\ work \in [kind : {"idle"} \union Kinds, generation : Generations \union {None},
               phase : {"idle", "opening", "asking", "acknowledging", "answered", "reading",
                        "ending"},
               wrote : BOOLEAN]
  /\ closing \in {"open", "stopping", "done"}
  /\ mirror \in [Universe -> Generations \union {None}] /\ touched \subseteq Source
  /\ published \in Generations \union {None}

Returning == ReturnSame \/ ReturnNew

\* What a refresh returns accounts for all commits since the last one that returned, those of
\* refreshes that failed included: a client that applies the transactions in their order, each
\* to the base it names, has the generation returned, and every source that has another
\* revision than before is reported.
UpdatesExact ==
  [][Returning =>
       /\ \A i \in DOMAIN pending :
            pending[i].base \in {None, Latest(mirror, pending, i, pending[i].next.universe)}
       /\ mirror'[published'.universe] = published'
       /\ touched \subseteq moved]_vars

\* The generation returned last can be opened until another one is returned, and what a caller
\* reads stays in the store, whatever later refreshes commit before they fail.
ReadersRetained ==
  closing # "done" =>
    /\ published # None => SameId(reader, published)
    /\ \A g \in ({reader} \union {snapshots[h] : h \in Handle}) \ {None} : head[g.universe] # None

\* A process whose session is not over serves the project's service, and a session is opened only
\* when the one before was awaited or its process signalled.  When a disposal is done, at whatever
\* step of an opening, a refresh or a replacement it came, no session is left and no reader, and
\* every process has exited or, where a request was aborted or a session had failed, has been
\* signalled: such a process may still run then, and beside the next session's.
NothingLeaks ==
  /\ processes["serving"] = IF Serving THEN 1 ELSE 0
  /\ processes["serving"] + processes["ending"] <= 1
  /\ closing = "done" => /\ service = None /\ processes["ending"] = 0
                         /\ work = Idle /\ reader = None
                         /\ \A h \in Handle : snapshots[h] = None

\* A disposal ends, although an analyzer that was asked may never answer, and at last no process
\* of the project runs.
DisposalEnds ==
  closing = "stopping" ~> closing = "done" /\ \A fate \in Fates : processes[fate] = 0
=============================================================================
