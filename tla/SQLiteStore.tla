----------------------------- MODULE SQLiteStore -----------------------------
(***************************************************************************)
(* The SQLite analysis store, src/analysis/sqlite: one database file, one  *)
(* namespace, several processes.                                           *)
(*                                                                         *)
(* A process is single threaded and node:sqlite is synchronous, so inside  *)
(* a process a method runs to its end; other processes come in between its *)
(* statements.  What runs between BEGIN IMMEDIATE and COMMIT is one step.  *)
(* The statements outside of a transaction are steps of their own: the     *)
(* reads that admit a commit before it takes the writer lock, and the      *)
(* reads that verify the database when a process opens it.                 *)
(*                                                                         *)
(* Time only matters for a lease: a row that was not renewed for the whole *)
(* timeout has lapsed.  A lease belongs to a handle, then, when the        *)
(* release of its handle failed halfway, to its process, whose timer still *)
(* renews it, and to nobody when its timer is gone.                        *)
(***************************************************************************)
EXTENDS FactTransactions, Naturals, FiniteSets

CONSTANTS Universe, Process, Handle,
          ProcessOf,     \* ProcessOf[h]: the process that uses handle h
          MaxRetained,   \* maximumRetainedGenerations
          MaxSequence,   \* bound: commits per universe
          Responsive,    \* TRUE when one of the three renewals of a window always lands
          Nobody, NoContent, NoTransaction

ASSUME SQLiteAssumption ==
  /\ IsFiniteSet(Universe) /\ IsFiniteSet(Process) /\ IsFiniteSet(Handle)
  /\ ProcessOf \in [Handle -> Process]
  /\ Nobody \notin Process \union Handle /\ Process \intersect Handle = {}
  /\ NoContent \notin Contents /\ NoTransaction \notin Transaction
  /\ MaxRetained \in Nat \ {0}
  /\ MaxSequence \in Nat
  /\ Responsive \in BOOLEAN

VARIABLES generations,  \* analysis_generations with their analysis_generation_shards
          current,      \* analysis_current, 0 for a universe without a row
          shards,       \* analysis_shards with their facts, by key and payload
          leases,       \* analysis_leases
          quarantined,  \* analysis_quarantine, by universe and sequence
          work,         \* work[p]: the method process p is inside of
          pins          \* pins[h]: the generations held by reader or snapshot set h

vars == <<generations, current, shards, leases, quarantined, work, pins>>
database == <<generations, current, shards, leases, quarantined>>

Sequences == 1 .. MaxSequence

Pin == [universe : Universe, sequence : Sequences, value : Contents]
Lease == [owner : Process \union Handle \union {Nobody}, universe : Universe,
          sequence : Sequences, lapsed : BOOLEAN]

\* A process without a store, with an idle store, verifying a database, or committing.
Closed == [stage |-> "closed"]
Idle == [stage |-> "idle"]
Verifying == [stage : {"verifying"}, rows : SUBSET Pin, invalid : SUBSET Pin]
Committing == [stage : {"based", "matched", "admitted"}, universe : Universe,
               base : Contents \union {NoContent}, sequence : Sequences \union {0},
               tx : Transaction \union {NoTransaction}]

Init ==
  /\ generations = [u \in Universe |-> Nothing]
  /\ current = [u \in Universe |-> 0]
  /\ shards = {}
  /\ leases = {}
  /\ quarantined = {}
  /\ work = [p \in Process |-> Closed]
  /\ pins = [h \in Handle |-> {}]

-----------------------------------------------------------------------------
(* Reading the database *)

\* loadManifest: the shards of a generation, none when its rows are gone.
Manifest(u, s) == IF s \in DOMAIN generations[u] THEN generations[u][s] ELSE Nothing

CurrentId(u) == IF current[u] = 0 THEN NoContent ELSE generations[u][current[u]]

\* loadGeneration by identity takes the newest generation with that identity.
Newest(u) ==
  {s \in DOMAIN generations[u] :
     \A t \in DOMAIN generations[u] : generations[u][t] = generations[u][s] => t <= s}

Taken(chosen) ==
  {[universe |-> u, sequence |-> chosen[u], value |-> generations[u][chosen[u]]]
     : u \in DOMAIN chosen}

Rows(content) == {<<k, content[k]>> : k \in DOMAIN content}

Stored(store) == {us \in Universe \X Sequences : us[2] \in DOMAIN store[us[1]]}

Members(store) == UNION {Rows(store[us[1]][us[2]]) : us \in Stored(store)}

-----------------------------------------------------------------------------
(* Deleting generations *)

\* A deleted generation takes its current row, its leases and its memberships with it.
Delete(store, now, held, gone) ==
  /\ generations' = [u \in Universe |->
                       [s \in {t \in DOMAIN store[u] : <<u, t>> \notin gone} |-> store[u][s]]]
  /\ current' = [u \in Universe |-> IF <<u, now[u]>> \in gone THEN 0 ELSE now[u]]
  /\ leases' = {l \in held : <<l.universe, l.sequence>> \notin gone}

\* Mutant: only the shards of current generations are kept.
WithoutOrphans_Current(rows) ==
  rows \intersect UNION {Rows(generations'[u][current'[u]]) :
                           u \in {v \in Universe : current'[v] # 0}}

\* deleteOrphanedShards, after generations have gone.
WithoutOrphans(rows) == rows \intersect Members(generations')

Unlapsed(held) == {l \in held : ~l.lapsed}

\* Mutant: retention keeps the oldest generations.
Retained_Oldest(u, store, held) ==
  {s \in DOMAIN store[u] : \/ Cardinality({t \in DOMAIN store[u] : t < s}) < MaxRetained
                           \/ \E l \in held : l.universe = u /\ l.sequence = s}

\* Mutant: leases are not consulted.
Retained_Unleased(u, store, held) ==
  {s \in DOMAIN store[u] : Cardinality({t \in DOMAIN store[u] : t > s}) < MaxRetained}

\* Mutant: one generation too many is kept.
Retained_OffByOne(u, store, held) ==
  {s \in DOMAIN store[u] : \/ Cardinality({t \in DOMAIN store[u] : t > s}) <= MaxRetained
                           \/ \E l \in held : l.universe = u /\ l.sequence = s}

\* The newest generations and the leased ones.
Retained(u, store, held) ==
  {s \in DOMAIN store[u] : \/ Cardinality({t \in DOMAIN store[u] : t > s}) < MaxRetained
                           \/ \E l \in held : l.universe = u /\ l.sequence = s}

\* collectSQLiteGenerations(u): lapsed leases of every universe go, generations of u only.
Collect(u, store, now, rows) ==
  LET held == Unlapsed(leases)
      gone == {u} \X (DOMAIN store[u] \ Retained(u, store, held))
  IN /\ Delete(store, now, held, gone)
     /\ shards' = WithoutOrphans(rows)

-----------------------------------------------------------------------------
(* Opening a store: verifySQLiteAnalysisIntegrity *)

Busy(p) == work[p] \notin {Closed, Idle}

BeginOpen(p) ==
  /\ work[p] = Closed
  /\ work' = [work EXCEPT ![p] =
       [stage |-> "verifying", invalid |-> {},
        rows |-> {[universe |-> us[1], sequence |-> us[2], value |-> generations[us[1]][us[2]]]
                    : us \in Stored(generations)}]]
  /\ UNCHANGED <<database, pins>>

\* The generation named by a row read earlier is recomputed from what is there now.
Healthy(row) ==
  /\ Manifest(row.universe, row.sequence) = row.value
  /\ FactsClosed(Manifest(row.universe, row.sequence))

Verify(p, row) ==
  /\ work[p].stage = "verifying" /\ row \in work[p].rows
  /\ work' = [work EXCEPT ![p].rows = @ \ {row},
                          ![p].invalid = IF Healthy(row) THEN @ ELSE @ \union {row}]
  /\ UNCHANGED <<database, pins>>

Opened(p) ==
  /\ work[p] = [stage |-> "verifying", rows |-> {}, invalid |-> {}]
  /\ work' = [work EXCEPT ![p] = Idle]
  /\ UNCHANGED <<database, pins>>

\* Invalid generations are quarantined in one transaction and the open fails.
Quarantine(p) ==
  /\ work[p].stage = "verifying" /\ work[p].rows = {} /\ work[p].invalid # {}
  /\ LET gone == {<<row.universe, row.sequence>> : row \in work[p].invalid}
     IN /\ quarantined' = quarantined \union gone
        /\ Delete(generations, current, leases, gone)
  /\ shards' = WithoutOrphans(shards)
  /\ work' = [work EXCEPT ![p] = Closed]
  /\ UNCHANGED pins

-----------------------------------------------------------------------------
(* Committing: admission reads, then one transaction *)

BeginCommit(p, u) ==
  /\ work[p] = Idle
  /\ work' = [work EXCEPT ![p] = [stage |-> "based", universe |-> u, base |-> CurrentId(u),
                                  sequence |-> current[u], tx |-> NoTransaction]]
  /\ UNCHANGED <<database, pins>>

\* validateSQLiteTransaction: the transaction names that base and the sequence after it.
Match(p, tx) ==
  /\ work[p].stage = "based"
  /\ LET read == Manifest(work[p].universe, work[p].sequence)
     IN tx.deletes \subseteq DOMAIN read /\ Materialized(read, tx) = tx.manifest
  /\ work' = [work EXCEPT ![p].stage = "matched", ![p].tx = tx]
  /\ UNCHANGED <<database, pins>>

Admit(p) ==
  /\ work[p].stage = "matched"
  /\ DeltaClosed(Manifest(work[p].universe, work[p].sequence), work[p].tx)
  /\ work' = [work EXCEPT ![p].stage = "admitted"]
  /\ UNCHANGED <<database, pins>>

\* Mutant: only the base identity is compared under the lock.
BaseStands_ById(p) == CurrentId(work[p].universe) = work[p].base

\* validateSQLiteTransactionBase
BaseStands(p) ==
  /\ CurrentId(work[p].universe) = work[p].base
  /\ current[work[p].universe] = work[p].sequence

\* writeTransaction, collectSQLiteGenerations and COMMIT.
Write(p) ==
  /\ work[p].stage = "admitted" /\ BaseStands(p)
  /\ work[p].sequence + 1 \in Sequences
  /\ LET u == work[p].universe
         next == work[p].sequence + 1
         content == work[p].tx.manifest
         entered == [s \in DOMAIN generations[u] \union {next} |->
                       IF s = next THEN content ELSE generations[u][s]]
         rows == shards \union Rows(work[p].tx.upserts)
     IN /\ Rows(content) \subseteq rows
        /\ Collect(u, [generations EXCEPT ![u] = entered], [current EXCEPT ![u] = next], rows)
  /\ work' = [work EXCEPT ![p] = Idle]
  /\ UNCHANGED <<quarantined, pins>>

\* Rejected, aborted, stale, or the writer lock was not to be had in time: nothing is written.
Abandon(p) ==
  /\ work[p].stage \in {"based", "matched", "admitted"}
  /\ work' = [work EXCEPT ![p] = Idle]
  /\ UNCHANGED <<database, pins>>

-----------------------------------------------------------------------------
(* Readers and their leases *)

Free(h) == pins[h] = {} /\ work[ProcessOf[h]] = Idle

\* Mutant: the timers of a store that goes are not cleared.
Orphaned_TimersRun(rows) == Unlapsed(rows)

\* Leases that have lost their timer.
Orphaned(rows) == {[l EXCEPT !.owner = Nobody] : l \in Unlapsed(rows)}

Owned(o) == {l \in leases : l.owner = o}

LeasesFor(h, chosen) ==
  {[owner |-> h, universe |-> u, sequence |-> chosen[u], lapsed |-> FALSE] : u \in DOMAIN chosen}

\* Mutant: the reader of a snapshot set inserts no lease rows.
Pinned_NoRows(h, chosen) ==
  /\ leases' = IF Cardinality(DOMAIN chosen) = 1 THEN leases \union LeasesFor(h, chosen) ELSE leases
  /\ pins' = [pins EXCEPT ![h] = Taken(chosen)]

\* Select, insert the leases and COMMIT, then start the timers.
Pinned(h, chosen) ==
  /\ leases' = leases \union LeasesFor(h, chosen)
  /\ pins' = [pins EXCEPT ![h] = Taken(chosen)]

Open(h, u, s) ==
  /\ Free(h)
  /\ s # 0 /\ s \in {current[u]} \union Newest(u)
  /\ Pinned(h, [v \in {u} |-> s])
  /\ UNCHANGED <<generations, current, shards, quarantined, work>>

Choices ==
  {chosen \in PartialFunctions(Universe, Sequences) :
     \A u \in DOMAIN chosen : chosen[u] \in Newest(u)}

SnapshotSet(h, chosen) ==
  /\ Free(h) /\ DOMAIN chosen # {}
  /\ Pinned(h, chosen)
  /\ UNCHANGED <<generations, current, shards, quarantined, work>>

(***************************************************************************)
(* release() deletes one row after the other.  A DELETE may fail on a busy *)
(* database: its row has lost its timer and its owner, and the rows after  *)
(* it keep their timers until the store is disposed.                       *)
(***************************************************************************)
Release(h, deleted, dropped) ==
  /\ pins[h] # {} /\ work[ProcessOf[h]] = Idle
  /\ deleted \union dropped \subseteq Owned(h) /\ deleted \intersect dropped = {}
  /\ Cardinality(dropped) <= 1
  /\ dropped = {} => deleted = Owned(h)
  /\ leases' = (leases \ Owned(h))
                 \union Orphaned(dropped)
                 \union {[l EXCEPT !.owner = ProcessOf[h]] : l \in Owned(h) \ (deleted \union dropped)}
  /\ pins' = [pins EXCEPT ![h] = {}]
  /\ UNCHANGED <<generations, current, shards, quarantined, work>>

\* The timeout of a lease passes without a renewal.  No statement of the code tells a
\* lapsed row that nobody will renew from one that the next collection has deleted.
Lapse(l) ==
  /\ l \in leases /\ ~l.lapsed
  /\ Responsive => l.owner = Nobody
  /\ leases' = (leases \ {l}) \union
                 {[m EXCEPT !.lapsed = TRUE] : m \in {l} \ Owned(Nobody)}
  /\ UNCHANGED <<generations, current, shards, quarantined, work, pins>>

\* A timer fires late and finds the row still there.
Renew(l) ==
  /\ l \in leases /\ l.lapsed /\ l.owner # Nobody
  /\ leases' = (leases \ {l}) \union {[l EXCEPT !.lapsed = FALSE]}
  /\ UNCHANGED <<generations, current, shards, quarantined, work, pins>>

-----------------------------------------------------------------------------
(* The end of a store *)

HandlesOf(p) == {h \in Handle : ProcessOf[h] = p}

LeasesOf(p) == UNION {Owned(o) : o \in HandlesOf(p) \union {p}}

\* The store goes; its leases are deleted but for `left`, which nobody renews any more.
Gone(p, left) ==
  /\ leases' = (leases \ LeasesOf(p)) \union Orphaned(left)
  /\ work' = [work EXCEPT ![p] = Closed]
  /\ pins' = [h \in Handle |-> IF ProcessOf[h] = p THEN {} ELSE pins[h]]
  /\ UNCHANGED <<generations, current, shards, quarantined>>

\* dispose(), which stops at the first DELETE that fails.
Dispose(p, left) ==
  /\ work[p] = Idle /\ left \subseteq LeasesOf(p)
  /\ Gone(p, left)

\* The process dies; SQLite rolls its transaction back.
Crash(p) ==
  /\ work[p] # Closed
  /\ Gone(p, LeasesOf(p))

Next ==
  \/ \E p \in Process : BeginOpen(p) \/ Opened(p) \/ Quarantine(p)
  \/ \E p \in Process : work[p].stage = "verifying" /\ \E row \in work[p].rows : Verify(p, row)
  \/ \E p \in Process, u \in Universe : BeginCommit(p, u)
  \/ \E p \in Process, tx \in Submitted : Match(p, tx)
  \/ \E p \in Process : Admit(p) \/ Write(p) \/ Abandon(p)
  \/ \E h \in Handle, u \in Universe, s \in Sequences : Open(h, u, s)
  \/ \E h \in Handle, chosen \in Choices : SnapshotSet(h, chosen)
  \/ \E h \in Handle : \E deleted, dropped \in SUBSET Owned(h) : Release(h, deleted, dropped)
  \/ \E l \in leases : Lapse(l) \/ Renew(l)
  \/ \E p \in Process : Crash(p) \/ \E left \in SUBSET LeasesOf(p) : Dispose(p, left)

Spec == Init /\ [][Next]_vars

-----------------------------------------------------------------------------
(* Properties *)

TypeOK ==
  /\ DOMAIN generations = Universe
  /\ \A u \in Universe : /\ DOMAIN generations[u] \subseteq Sequences
                         /\ \A s \in DOMAIN generations[u] : generations[u][s] \in Contents
  /\ current \in [Universe -> Sequences \union {0}]
  /\ shards \in SUBSET (Key \X Payload)
  /\ leases \in SUBSET Lease
  /\ quarantined \in SUBSET (Universe \X Sequences)
  /\ DOMAIN work = Process
  /\ \A p \in Process : work[p] = Closed => LeasesOf(p) = {}
  /\ \A p \in Process : \/ work[p] \in {Closed, Idle}
                        \/ work[p] \in Verifying
                        \/ work[p] \in Committing
  /\ pins \in [Handle -> SUBSET Pin]

(* A reader or snapshot set keeps the generation it opened while other     *)
(* processes commit, collect, quarantine and crash, as long as its process *)
(* renews its leases (lifecycle/leases.ts, lifecycle/retention.ts).        *)
ReadersKeepGenerations ==
  \A h \in Handle : \A pin \in pins[h] :
    /\ pin.sequence \in DOMAIN generations[pin.universe]
    /\ generations[pin.universe][pin.sequence] = pin.value

(* The lease rows of a handle are exactly those of the generations it      *)
(* holds: none is lost to a cascade or to a collection by another process, *)
(* and a release that fails halfway leaves none to the next user of the    *)
(* handle (store.ts open, snapshotSet and their release callbacks).        *)
LeasesMatchPins ==
  \A h \in Handle :
    {<<l.universe, l.sequence>> : l \in Owned(h)} =
    {<<pin.universe, pin.sequence>> : pin \in pins[h]}

(* The stored shards are those of the stored generations: a delta stores   *)
(* only what it changes, universes and generations share shards, and       *)
(* collection deletes the shards nobody is left to share (schema/          *)
(* integrity.ts deleteOrphanedShards, materialization/write.ts).           *)
ShardsExact ==
  shards = UNION {{<<k, generations[us[1]][us[2]][k]>> : k \in DOMAIN generations[us[1]][us[2]]} :
                    us \in {vt \in Universe \X Sequences : vt[2] \in DOMAIN generations[vt[1]]}}

(* After a commit to a universe it keeps its newest generations and those  *)
(* with a lease that has not lapsed, and no others: crashed readers do not *)
(* hold a database for ever (collectSQLiteGenerations).                    *)
RetentionBounded ==
  [][\A u \in Universe : current'[u] > current[u] =>
       \A s \in DOMAIN generations'[u] :
         \/ s > current'[u] - MaxRetained
         \/ \E l \in leases' : l.universe = u /\ l.sequence = s /\ ~l.lapsed]_vars

(* Verification never deletes a stored generation, although it deletes by  *)
(* universe and sequence rows it read long before it took the lock: a      *)
(* sequence is never used again (verifySQLiteAnalysisIntegrity).           *)
QuarantineSparesStored ==
  [][\A p \in Process : Quarantine(p) => UNCHANGED <<generations, current, shards, leases>>]_vars

\* The store keeps the promise of AnalysisStore, its commits being its Write steps.
Promise == INSTANCE AnalysisStore WITH
  Value <- Contents,
  versions <- [u \in Universe |->
                 {[sequence |-> s, value |-> generations[u][s]] : s \in DOMAIN generations[u]}],
  head <- current,
  open <- TRUE

(* Writers of several processes commit one after the other, each over the  *)
(* generation its delta was admitted against, and readers keep what they   *)
(* opened: the store implements AnalysisStore.                             *)
ImplementsStore == Promise!Spec

=============================================================================
