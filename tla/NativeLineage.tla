---------------------------- MODULE NativeLineage ----------------------------
(***************************************************************************)
(* How a TypeScript project on disk becomes generations of a store:        *)
(* src/analysis/typescript/service.ts drives one native analyzer process,  *)
(* src/analysis/typescript/native, which keeps a resident compiler program *)
(* and the last generation it knows to be committed.                       *)
(*                                                                         *)
(* A refresh reads the store's current generation, asks the analyzer for   *)
(* the difference to it, commits the answer and acknowledges it.  All      *)
(* around it the files keep changing, another process may commit to the    *)
(* same store, a caller may abort and the analyzer may die.                *)
(*                                                                         *)
(* A generation's id is a digest of its content, its sequence is not part  *)
(* of it; so the model compares contents where the code compares ids.      *)
(***************************************************************************)
EXTENDS Naturals, FiniteSets

CONSTANTS Universe,      \* project universes: what the configuration files decide
          Source,        \* source files
          Revision,      \* what a source file can hold, absence included
          None,
          Restarting,    \* what the callers do: TRUE when a failed refresh replaces the session,
                         \* as project.ts does, FALSE when it keeps it
          Fault,         \* for each of them, the upsets: failures, and commits of others
          MaxEdits, MaxUpsets   \* and the bounds on the edits and on the upsets

FaultKinds == {"abort", "crash", "busy", "shape", "project", "foreign"}

ASSUME LineageAssumption ==
  /\ Restarting \subseteq BOOLEAN /\ Fault \in [Restarting -> SUBSET FaultKinds]
  /\ \A r \in Restarting : MaxEdits[r] \in Nat /\ MaxUpsets[r] \in Nat

VARIABLES disk,      \* what the project holds now
          head,      \* head[u]: the store's current generation of universe u
          native,    \* the analyzer process
          service,   \* the refresh in progress, and the universe kept between refreshes
          published, \* the generation the last successful refresh returned
          seen,      \* what the project held at some time since the refresh began
          ledger,    \* every generation ever committed
          setting    \* the caller, and how much the environment has done

vars == <<disk, head, native, service, published, seen, ledger, setting>>

Contents == [universe : Universe, files : [Source -> Revision]]
Generations == [content : Contents, sequence : Nat \ {0}]
Transactions == [base : Contents \union {None}, next : Generations]

\* None stands for nothing the programs hold.
ASSUME NoneAssumption ==
  None \notin Universe \union Contents \union Generations \union Transactions

\* The analyzer.  reading: sources its compiler has yet to read; rebuilt and applied: what
\* this request did to the program; full: pendingFull.
Analyzers ==
  [alive : BOOLEAN, program : Contents, reading : SUBSET Source, rebuilt : BOOLEAN,
   applied : SUBSET Source, tries : 0 .. 2, acknowledged : Generations \union {None},
   pending : Transactions \union {None}, full : BOOLEAN]

Stages == {"idle", "opening", "read", "request", "native", "answered", "commit",
           "acknowledge", "returned", "failed"}

\* The service.  current: the base it sent; answer: the transaction or the unchanged content
\* it received; wrote: TRUE when this round committed a transaction.
Services ==
  [stage : Stages, universe : Universe \union {None}, hinted : BOOLEAN, rounds : 0 .. 3,
   current : Generations \union {None}, answer : Transactions \union Contents \union {None},
   wrote : BOOLEAN]

TypeOK ==
  /\ disk \in Contents
  /\ head \in [Universe -> Generations \union {None}]
  /\ native \in Analyzers
  /\ service \in Services
  /\ published \in Generations \union {None}
  /\ seen \subseteq Contents /\ ledger \subseteq Generations
  /\ setting.restarting \in Restarting
  /\ setting.edits \in 0 .. MaxEdits[setting.restarting]
  /\ setting.upsets \in 0 .. MaxUpsets[setting.restarting]

-----------------------------------------------------------------------------
(* The compiler program. *)

IdOf(g) == IF g = None THEN None ELSE g.content

\* A new program; its sources are still to be read.
Loading(n) == [n EXCEPT !.program = disk, !.reading = Source, !.rebuilt = TRUE, !.applied = {}]

\* A process takes all it knew with it; a new one starts with a program.
Dead == [alive |-> FALSE, program |-> disk, reading |-> {}, rebuilt |-> FALSE, applied |-> {},
         tries |-> 0, acknowledged |-> None, pending |-> None, full |-> FALSE]

Spawned == [Loading(Dead) EXCEPT !.alive = TRUE]

\* Discovery: the sources that do not hold what the program read.
Moved == {s \in Source : native.program.files[s] # disk.files[s]}

\* A fresh analyzer takes over a generation of the store as its base.
Adopting == native.acknowledged = None /\ service.current # None

Rollover == /\ native.acknowledged # None
            /\ native.program.universe # native.acknowledged.content.universe

Advanced == native.rebuilt \/ native.applied # {}

-----------------------------------------------------------------------------
(* A refresh, up to the request. *)

Init ==
  /\ disk \in Contents
  /\ head = [u \in Universe |-> None]
  /\ native = Dead
  /\ service = [stage |-> "idle", universe |-> None, hinted |-> FALSE, rounds |-> 0,
                current |-> None, answer |-> None, wrote |-> FALSE]
  /\ published = None
  /\ seen = {} /\ ledger = {}
  /\ setting \in [restarting : Restarting, edits : {0}, upsets : {0}]

To(stage) == service' = [service EXCEPT !.stage = stage]

\* Of a refresh that failed only the universe of the service is left.
Forgotten(stage) ==
  [service EXCEPT !.stage = stage, !.hinted = FALSE, !.rounds = 0, !.current = None,
                  !.answer = None, !.wrote = FALSE]

Fail == service' = Forgotten("failed")

\* Mutant: the session of a failed refresh is kept.
Begin_KeepsSession(hinted) ==
  /\ service.stage \in {"idle", "returned", "failed"}
  /\ native' = IF native.alive THEN native ELSE Spawned
  /\ service' = [Forgotten(IF native.alive THEN "read" ELSE "opening") EXCEPT !.hinted = hinted]
  /\ seen' = {disk}
  /\ UNCHANGED <<disk, head, published, ledger, setting>>

\* A caller refreshes with discovery, and perhaps with hints of its own.  The owner of the
\* service replaces it, with its universe, after a failure or when its process is dead.
Begin(hinted) ==
  LET reuse == native.alive /\ (service.stage # "failed" \/ ~setting.restarting) IN
  /\ service.stage \in {"idle", "returned", "failed"}
  /\ native' = IF reuse THEN native ELSE Spawned
  /\ service' = [Forgotten(IF reuse THEN "read" ELSE "opening") EXCEPT !.hinted = hinted]
  /\ seen' = {disk}
  /\ UNCHANGED <<disk, head, published, ledger, setting>>

\* The compiler reads one more source.
ReadSource(s) ==
  /\ service.stage \in {"opening", "native"} /\ native.alive
  /\ s \in native.reading
  /\ native' = [native EXCEPT
       !.program.files[s] = disk.files[s], !.reading = @ \ {s},
       !.applied = IF native.rebuilt \/ disk.files[s] = native.program.files[s]
                     THEN @ ELSE @ \union {s}]
  /\ UNCHANGED <<disk, head, service, published, seen, ledger, setting>>

Opened ==
  /\ service.stage = "opening" /\ native.alive /\ native.reading = {}
  /\ To("read")
  /\ UNCHANGED <<disk, head, native, published, seen, ledger, setting>>

ReadCurrent ==
  /\ service.stage = "read"
  /\ service' = [service EXCEPT
       !.stage = "request",
       !.current = IF service.universe = None THEN None ELSE head[service.universe]]
  /\ UNCHANGED <<disk, head, native, published, seen, ledger, setting>>

-----------------------------------------------------------------------------
(* The analyzer handles a request. *)

Base == IdOf(service.current)
Held == IdOf(native.acknowledged)
Asked == service.stage = "request" /\ native.alive

Answer(answer) == service' = [service EXCEPT !.stage = "answered", !.answer = answer]

\* COMMIT_PENDING: an unacknowledged candidate admits no other request.
CommitPending ==
  /\ Asked /\ native.pending # None
  /\ Base # Held \/ service.hinted
  /\ Fail
  /\ UNCHANGED <<disk, head, native, published, seen, ledger, setting>>

\* The same request again gets the same candidate.
Replay ==
  /\ Asked /\ native.pending # None
  /\ Base = Held /\ ~service.hinted
  /\ Answer(native.pending)
  /\ UNCHANGED <<disk, head, native, published, seen, ledger, setting>>

\* BASE_STALE: the store has moved to a generation the analyzer does not hold.
BaseStale ==
  /\ Asked /\ native.pending = None
  /\ Base # Held /\ ~Adopting
  /\ Fail
  /\ UNCHANGED <<disk, head, native, published, seen, ledger, setting>>

\* Mutant: without hints, nothing is discovered.
NothingMoved_Hinted ==
  /\ Asked /\ native.pending = None
  /\ Base = Held /\ Base # None /\ ~native.full
  /\ native.program = disk \/ ~service.hinted
  /\ Answer(Base)
  /\ UNCHANGED <<disk, head, native, published, seen, ledger, setting>>

\* Discovery finds nothing to do.
NothingMoved ==
  /\ Asked /\ native.pending = None
  /\ Base = Held /\ Base # None /\ ~native.full
  /\ native.program = disk
  /\ Answer(Base)
  /\ UNCHANGED <<disk, head, native, published, seen, ledger, setting>>

\* Discovery starts an update: a whole new program when the configuration moved or an earlier
\* candidate was lost, and otherwise the sources that moved.
BeginUpdate ==
  /\ Asked /\ native.pending = None
  /\ Base = Held \/ Adopting
  /\ Base = None \/ Adopting \/ native.full \/ native.program # disk
  /\ native' = IF native.full \/ native.program.universe # disk.universe
               THEN [Loading(native) EXCEPT !.tries = 0]
               ELSE [native EXCEPT !.reading = Moved, !.rebuilt = FALSE,
                                   !.applied = {}, !.tries = 0]
  /\ To("native")
  /\ UNCHANGED <<disk, head, published, seen, ledger, setting>>

Working == service.stage = "native" /\ native.alive /\ native.reading = {}

\* The files that moved came back to what the program holds.
NothingApplied ==
  /\ Working /\ ~Advanced
  /\ Base # None /\ ~Adopting
  /\ Answer(Base)
  /\ UNCHANGED <<disk, head, native, published, seen, ledger, setting>>

\* What a base-carrying candidate starts from, and what any candidate holds: the projections
\* of the selected sources and the manifest of the base for the others.
Whole == native.rebuilt \/ native.full \/ Rollover \/ Base = None \/ Adopting

Candidate(selected) ==
  [native.program EXCEPT
     !.files = [s \in Source |-> IF Whole \/ s \in selected
                                 THEN @[s] ELSE native.acknowledged.content.files[s]]]

CandidateBase == IF Rollover \/ Adopting THEN None ELSE Base

\* Mutant: the first sequence of a universe is zero.
Transaction_FromZero(content) ==
  [base |-> CandidateBase,
   next |-> [content |-> content,
             sequence |-> IF CandidateBase = None THEN 0 ELSE native.acknowledged.sequence + 1]]

Transaction(content) ==
  [base |-> CandidateBase,
   next |-> [content |-> content,
             sequence |-> IF CandidateBase = None THEN 1 ELSE native.acknowledged.sequence + 1]]

\* Mutant: no discovery after the projection.
Settled_Assumed == TRUE

\* The projection is complete and discovery confirms that no input moved meanwhile.
Settled == native.program = disk

\* The candidate is the base, or what a fresh analyzer was to take over: nothing to publish.
\* Otherwise it is pending until it is acknowledged.
Project(selected) ==
  LET content == Candidate(selected) IN
  /\ Working
  /\ Advanced \/ Base = None \/ Adopting
  /\ Settled
  /\ native.applied \subseteq selected
  /\ IF content = Base
     THEN /\ Answer(Base)
          /\ native' = IF Adopting
                       THEN [native EXCEPT !.acknowledged = service.current, !.full = FALSE]
                       ELSE native
     ELSE /\ Answer(Transaction(content))
          /\ native' = [native EXCEPT !.pending = Transaction(content)]
  /\ UNCHANGED <<disk, head, published, seen, ledger, setting>>

\* INPUT_CHANGED: the candidate is dropped and a whole new program tried, three times in all.
InputChanged ==
  /\ Working
  /\ Advanced \/ Base = None \/ Adopting
  /\ ~Settled
  /\ IF native.tries < 2
     THEN /\ native' = [Loading(native) EXCEPT !.full = TRUE, !.tries = @ + 1]
          /\ UNCHANGED service
     ELSE /\ native' = [native EXCEPT !.full = TRUE]
          /\ Fail
  /\ UNCHANGED <<disk, head, published, seen, ledger, setting>>

Fails(kind) ==
  /\ kind \in Fault[setting.restarting]
  /\ setting.upsets < MaxUpsets[setting.restarting]
  /\ setting' = [setting EXCEPT !.upsets = @ + 1]

\* Mutant: pendingFull is not set.
ProjectionFails_Forgets ==
  /\ Fails("project")
  /\ Working
  /\ Advanced \/ Base = None \/ Adopting
  /\ Fail
  /\ UNCHANGED <<disk, head, native, published, seen, ledger>>

\* The projection fails: a program that advanced must not be compared with the base again.
ProjectionFails ==
  /\ Fails("project")
  /\ Working
  /\ Advanced \/ Base = None \/ Adopting
  /\ native' = [native EXCEPT !.full = @ \/ Advanced]
  /\ Fail
  /\ UNCHANGED <<disk, head, published, seen, ledger>>

\* The declaration shape of an updated source cannot be taken.  apply returns FALSE for
\* "the compiler advanced", after it has advanced.
ShapeFails ==
  /\ Fails("shape")
  /\ Working
  /\ native.applied # {} /\ ~native.rebuilt
  /\ Fail
  /\ UNCHANGED <<disk, head, native, published, seen, ledger>>

-----------------------------------------------------------------------------
(* The service publishes the answer. *)

Target == service.answer.next.content.universe

Return(g) ==
  /\ service' = Forgotten("returned")
  /\ published' = g

Unchanged ==
  /\ service.stage = "answered" /\ service.answer \in Contents
  /\ Return(service.current)
  /\ UNCHANGED <<disk, head, native, seen, ledger, setting>>

\* A delta is committed to the base the request named.  A complete candidate is compared with
\* what the store holds for its universe, and rebased onto it.
Place ==
  /\ service.stage = "answered" /\ service.answer \in Transactions
  /\ IF service.answer.base # None \/ head[Target] = None
     THEN To("commit")
     ELSE IF head[Target].content = service.answer.next.content
     THEN service' = [service EXCEPT !.stage = "acknowledge", !.wrote = FALSE,
                                     !.answer.next = head[Target]]
     ELSE service' = [service EXCEPT !.stage = "commit",
                                     !.answer.base = head[Target].content,
                                     !.answer.next.sequence = head[Target].sequence + 1]
  /\ UNCHANGED <<disk, head, native, published, seen, ledger, setting>>

\* The store admits a transaction on its current generation, with the next sequence.
Admitted ==
  /\ service.answer.base = IdOf(head[Target])
  /\ service.answer.next.sequence
       = IF head[Target] = None THEN 1 ELSE head[Target].sequence + 1

Commit ==
  /\ service.stage = "commit"
  /\ IF Admitted
     THEN /\ head' = [head EXCEPT ![Target] = service.answer.next]
          /\ ledger' = ledger \union {service.answer.next}
          /\ service' = [service EXCEPT !.stage = "acknowledge", !.wrote = TRUE]
     ELSE Fail /\ UNCHANGED <<head, ledger>>
  /\ UNCHANGED <<disk, native, published, seen, setting>>

\* Mutant: the analyzer keeps the sequence it gave its candidate itself.
Acknowledge_OwnSequence ==
  LET next == service.answer.next
      universe == next.content.universe IN
  /\ service.stage = "acknowledge" /\ native.alive
  /\ native' = [native EXCEPT !.acknowledged = native.pending.next, !.pending = None, !.full = FALSE]
  /\ IF ~service.wrote
     THEN /\ service' = [Forgotten("returned") EXCEPT !.universe = universe]
          /\ published' = next
     ELSE /\ service' = IF service.rounds = 3
                        THEN [Forgotten("failed") EXCEPT !.universe = universe]
                        ELSE [Forgotten("read") EXCEPT !.universe = universe,
                                                       !.rounds = service.rounds + 1]
          /\ UNCHANGED published
  /\ UNCHANGED <<disk, head, seen, ledger, setting>>

\* The analyzer installs its candidate under the sequence it was committed with.  After a
\* round that committed, the service asks again, three times at most.
Acknowledge ==
  LET next == service.answer.next
      universe == next.content.universe IN
  /\ service.stage = "acknowledge" /\ native.alive
  /\ native' = [native EXCEPT !.acknowledged = next, !.pending = None, !.full = FALSE]
  /\ IF ~service.wrote
     THEN /\ service' = [Forgotten("returned") EXCEPT !.universe = universe]
          /\ published' = next
     ELSE /\ service' = IF service.rounds = 3
                        THEN [Forgotten("failed") EXCEPT !.universe = universe]
                        ELSE [Forgotten("read") EXCEPT !.universe = universe,
                                                       !.rounds = service.rounds + 1]
          /\ UNCHANGED published
  /\ UNCHANGED <<disk, head, seen, ledger, setting>>

-----------------------------------------------------------------------------
(* The environment. *)

\* One source or the configuration changes.
Edit ==
  /\ setting.edits < MaxEdits[setting.restarting]
  /\ setting' = [setting EXCEPT !.edits = @ + 1]
  /\ \/ \E s \in Source : \E r \in Revision \ {disk.files[s]} :
          disk' = [disk EXCEPT !.files[s] = r]
     \/ \E u \in Universe \ {disk.universe} : disk' = [disk EXCEPT !.universe = u]
  /\ seen' = seen \union {disk'}
  /\ UNCHANGED <<head, native, service, published, ledger>>

\* Another process commits what the project holds.
Foreign ==
  /\ Fails("foreign")
  /\ IdOf(head[disk.universe]) # disk
  /\ head' = [head EXCEPT ![disk.universe] =
       [content |-> disk, sequence |-> IF @ = None THEN 1 ELSE @.sequence + 1]]
  /\ ledger' = ledger \union {head'[disk.universe]}
  /\ UNCHANGED <<disk, native, service, published, seen>>

Refreshing == service.stage \notin {"idle", "returned", "failed"}

\* The caller aborts.  A request that was written dies with its process; between requests,
\* and before the acknowledgement is written, only the refresh fails.
Abort ==
  /\ Fails("abort") /\ Refreshing
  /\ service.stage = "answered" => service.answer \in Transactions
  /\ \E killed \in BOOLEAN :
       /\ killed => service.stage \in {"opening", "native", "acknowledge"}
       /\ service.stage \in {"opening", "native"} => killed
       /\ native' = IF killed THEN Dead ELSE native
  /\ Fail
  /\ UNCHANGED <<disk, head, published, seen, ledger>>

\* The store is busy, or its disk full: the commit is refused.
Busy ==
  /\ Fails("busy") /\ service.stage = "commit"
  /\ Fail
  /\ UNCHANGED <<disk, head, native, published, seen, ledger>>

Crash ==
  /\ Fails("crash") /\ native.alive
  /\ native' = Dead
  /\ UNCHANGED <<disk, head, service, published, seen, ledger>>

\* A request to a dead process, or one that was waiting for it, is rejected.
Rejected ==
  /\ service.stage \in {"opening", "request", "native", "acknowledge"} /\ ~native.alive
  /\ Fail
  /\ UNCHANGED <<disk, head, native, published, seen, ledger, setting>>

-----------------------------------------------------------------------------

Refresh ==
  \/ \E hinted \in BOOLEAN : Begin(hinted)
  \/ \E s \in Source : ReadSource(s)
  \/ Opened \/ ReadCurrent
  \/ CommitPending \/ Replay \/ BaseStale \/ NothingMoved \/ BeginUpdate
  \/ NothingApplied
  \/ \E selected \in SUBSET Source : Project(selected)
  \/ InputChanged
  \/ Unchanged \/ Place \/ Commit \/ Acknowledge
  \/ Rejected

Environment == Edit \/ Foreign \/ ProjectionFails \/ ShapeFails \/ Abort \/ Busy \/ Crash

Next == Refresh \/ Environment

Spec == Init /\ [][Next]_vars

\* The caller keeps refreshing, and what it started goes on.
FairSpec == Spec /\ WF_vars(Refresh)

-----------------------------------------------------------------------------
(* Properties.  Those that ask `setting.restarting` are promises to a caller that replaces the *)
(* session of a failed refresh: one that keeps it may be handed a candidate of before.       *)

\* An answer of the analyzer describes the program it holds: an incremental candidate is what
\* a cold one would be, and "unchanged" is only said of a program equal to the base, whatever
\* earlier candidates were dropped or replayed.
AnswerIsProgram ==
  service.stage = "answered" /\ native.alive =>
    native.program = IF service.answer \in Contents THEN service.answer
                     ELSE service.answer.next.content

\* The base of the analyzer is a generation some store commit published, under the sequence it
\* was committed with; a candidate that failed to materialize never becomes the base.
CommitLate == native.acknowledged # None => native.acknowledged \in ledger

\* A refresh with discovery returns no input as it was before the refresh began.  It is stated
\* input by input: "unchanged" is also said when a source that had moved has moved back at the
\* moment it is read, while another one moved.
FreshPublication ==
  service.stage = "returned" /\ setting.restarting =>
    /\ \E d \in seen : d.universe = published.content.universe
    /\ \A s \in Source : \E d \in seen : d.files[s] = published.content.files[s]

\* What a refresh is about to publish is the project as it was at one time since the refresh
\* began, never a mixture of two states that the compiler read on both sides of an edit.
CandidateWasReal ==
  service.answer \in Transactions /\ setting.restarting =>
    service.answer.next.content \in seen

\* When the project, the other processes and the faults come to rest, a caller that keeps
\* refreshing gets the generation of the project as it is, whatever it went through.
Converges ==
  <>[](setting.restarting => published # None /\ published.content = disk)
=============================================================================
