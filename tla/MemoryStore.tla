----------------------------- MODULE MemoryStore -----------------------------
(***************************************************************************)
(* The in-memory analysis store, src/analysis/memory/store.ts, with the    *)
(* transaction materialisation of src/analysis/internal/state.ts.          *)
(*                                                                         *)
(* Every method of the class runs without awaiting, so a method is one     *)
(* step.  The release of a snapshot set is a loop that decrements one      *)
(* lease and collects, entry by entry; it is modelled entry by entry, and  *)
(* `closing` keeps every other method out until the loop has ended.        *)
(*                                                                         *)
(* A generation identity hashes universe, producer, source manifest,       *)
(* capabilities and shards, and not the sequence (generation/identity.ts): *)
(* in one universe it is the content itself.                               *)
(***************************************************************************)
EXTENDS FactTransactions, Naturals, FiniteSets

CONSTANTS Universe, Handle,
          MaxRetained,   \* maximumRetainedGenerations
          MaxUniverses,  \* maximumRetainedUniverses, 0 when the option is absent
          MaxSequence,   \* bound: commits per universe before its sequence restarts
          NoHandle, NoContent

ASSUME MemoryAssumption ==
  /\ IsFiniteSet(Handle) /\ NoHandle \notin Handle
  /\ IsFiniteSet(Universe)
  /\ MaxRetained \in Nat \ {0}
  /\ MaxUniverses \in Nat
  /\ MaxSequence \in Nat

VARIABLES retained,   \* retained[u][s]: #universes, value and lease count by sequence
          current,    \* current[u]: #current, 0 for a universe without one
          before,     \* insertion order of #universes: <<u, v>> when u comes first
          recent,     \* #mostRecentUniverse, a set of at most one universe
          disposed,   \* #disposed
          pins,       \* pins[h]: the generations held by reader or snapshot set h
          closing     \* the snapshot set inside its release loop, or NoHandle

vars == <<retained, current, before, recent, disposed, pins, closing>>

Sequences == 1 .. MaxSequence

Entry == [value : Contents, leases : Nat]
Pin == [universe : Universe, sequence : Sequences, value : Contents]

Init ==
  /\ retained = [u \in Universe |-> Nothing]
  /\ current = [u \in Universe |-> 0]
  /\ before = {}
  /\ recent = {}
  /\ disposed = FALSE
  /\ pins = [h \in Handle |-> {}]
  /\ closing = NoHandle

-----------------------------------------------------------------------------
(* Admission *)

CurrentContent(u) == IF current[u] = 0 THEN Nothing ELSE retained[u][current[u]].value

\* The identity a transaction must name as its base: none before the first commit.
CurrentId(u) == IF current[u] = 0 THEN NoContent ELSE retained[u][current[u]].value

\* Mutant: the sequence is not compared with the current one.
Accepts_AnySequence(u, base, sequence, tx) ==
  /\ base = CurrentId(u) /\ sequence > current[u]
  /\ tx.deletes \subseteq DOMAIN CurrentContent(u)
  /\ Materialized(CurrentContent(u), tx) = tx.manifest
  /\ FactsClosed(tx.manifest)

Accepts(u, base, sequence, tx) ==
  /\ base = CurrentId(u)
  /\ sequence = current[u] + 1
  /\ tx.deletes \subseteq DOMAIN CurrentContent(u)
  /\ Materialized(CurrentContent(u), tx) = tx.manifest
  /\ FactsClosed(tx.manifest)

-----------------------------------------------------------------------------
(* Retention *)

Restricted(f, S) == [x \in S |-> f[x]]

\* Mutants: leased generations, or the current one, are candidates too.
Idle_Leased(values, now) == DOMAIN values \ {now}
Idle_Current(values, now) == {s \in DOMAIN values : values[s].leases = 0}

\* The non-current generations nobody leases; the oldest go first, down to MaxRetained.
Idle(values, now) == {s \in DOMAIN values : s # now /\ values[s].leases = 0}

Expired(values, now) ==
  {s \in Idle(values, now) :
     Cardinality({t \in Idle(values, now) : t < s}) + MaxRetained < Cardinality(DOMAIN values)}

Trim(values, now) == Restricted(values, DOMAIN values \ Expired(values, now))

Resident(store) == {u \in Universe : DOMAIN store[u] # {}}

\* Universes without a lease other than the most recent one; first in, first out.
IdleUniverses(store, latest) ==
  {u \in Resident(store) \ latest : \A s \in DOMAIN store[u] : store[u][s].leases = 0}

Evicted(store, latest, order) ==
  {u \in IdleUniverses(store, latest) :
     /\ MaxUniverses # 0
     /\ Cardinality({v \in IdleUniverses(store, latest) : <<v, u>> \in order}) + MaxUniverses
          < Cardinality(Resident(store))}

\* collect(u) over the maps as the caller has left them.
Collect(u, store, now, latest, order) ==
  LET trimmed == [store EXCEPT ![u] = Trim(store[u], now[u])]
      gone == Evicted(trimmed, latest, order)
  IN /\ retained' = [v \in Universe |-> IF v \in gone THEN Nothing ELSE trimmed[v]]
     /\ current' = [v \in Universe |-> IF v \in gone THEN 0 ELSE now[v]]
     /\ before' = {p \in order : p[1] \notin gone /\ p[2] \notin gone}

\* activate(u): u moves to the end of the insertion order of the kept universes.
Activated(u, store) ==
  {p \in before : p[1] # u /\ p[2] # u} \union {<<v, u>> : v \in Resident(store) \ {u}}

-----------------------------------------------------------------------------
(* Operations *)

Ready == ~disposed /\ closing = NoHandle

Commit(u, base, sequence, tx) ==
  /\ Ready /\ sequence \in Sequences
  /\ Accepts(u, base, sequence, tx)
  /\ LET entered == [s \in DOMAIN retained[u] \union {sequence} |->
                       IF s = sequence THEN [value |-> tx.manifest, leases |-> 0]
                                       ELSE retained[u][s]]
         store == [retained EXCEPT ![u] = entered]
     IN Collect(u, store, [current EXCEPT ![u] = sequence], {u}, Activated(u, store))
  /\ recent' = {u}
  /\ UNCHANGED <<disposed, pins, closing>>

\* retained(u, id) finds the newest retained generation with that identity.
Newest(u) ==
  {s \in DOMAIN retained[u] :
     \A t \in DOMAIN retained[u] : retained[u][t].value = retained[u][s].value => t <= s}

Taken(chosen) ==
  {[universe |-> u, sequence |-> chosen[u], value |-> retained[u][chosen[u]].value]
     : u \in DOMAIN chosen}

\* Mutant: open() forgets the lease.
Leased_Never(store, chosen) == store

\* The leases of the chosen generations, one per universe, moved up or down by one.
Leased(store, chosen) ==
  [u \in Universe |->
     IF u \in DOMAIN chosen THEN [store[u] EXCEPT ![chosen[u]].leases = @ + 1] ELSE store[u]]

Unleased(store, chosen) ==
  [u \in Universe |->
     IF u \in DOMAIN chosen THEN [store[u] EXCEPT ![chosen[u]].leases = @ - 1] ELSE store[u]]

\* open(u) pins the current generation, open(u, id) the newest with that identity.
Open(h, u, sequence) ==
  /\ Ready /\ pins[h] = {}
  /\ sequence # 0 /\ sequence \in {current[u]} \union Newest(u)
  /\ LET chosen == [v \in {u} |-> sequence]
     IN /\ retained' = Leased(retained, chosen)
        /\ pins' = [pins EXCEPT ![h] = Taken(chosen)]
  /\ before' = Activated(u, retained)
  /\ recent' = {u}
  /\ UNCHANGED <<current, disposed, closing>>

Choices ==
  {chosen \in PartialFunctions(Universe, Sequences) :
     \A u \in DOMAIN chosen : chosen[u] \in Newest(u)}

SnapshotSet(h, chosen) ==
  /\ Ready /\ pins[h] = {} /\ DOMAIN chosen # {}
  /\ retained' = Leased(retained, chosen)
  /\ pins' = [pins EXCEPT ![h] = Taken(chosen)]
  /\ UNCHANGED <<current, before, recent, disposed, closing>>

\* Mutant: the leases taken before the failure are never returned.
SnapshotSetFails_NoRollback(chosen, absent, value) ==
  /\ Ready /\ absent \notin DOMAIN chosen
  /\ \A s \in DOMAIN retained[absent] : retained[absent][s].value # value
  /\ retained' = Leased(retained, chosen)
  /\ UNCHANGED <<current, before, recent, disposed, pins, closing>>

\* The generation of `absent` is not retained: the leases taken so far are returned.
SnapshotSetFails(chosen, absent, value) ==
  /\ Ready /\ absent \notin DOMAIN chosen
  /\ \A s \in DOMAIN retained[absent] : retained[absent][s].value # value
  /\ retained' = Unleased(Leased(retained, chosen), chosen)
  /\ UNCHANGED <<current, before, recent, disposed, pins, closing>>

\* One entry of a release: the lease goes down, then its universe is collected.
Release(h, pin) ==
  /\ closing \in {NoHandle, h} /\ pin \in pins[h]
  /\ pins' = [pins EXCEPT ![h] = @ \ {pin}]
  /\ closing' = IF pins[h] = {pin} THEN NoHandle ELSE h
  /\ UNCHANGED <<recent, disposed>>
  /\ IF disposed
       THEN UNCHANGED <<retained, current, before>>
       ELSE Collect(pin.universe, Unleased(retained, [u \in {pin.universe} |-> pin.sequence]),
                    current, recent, before)

Dispose ==
  /\ Ready
  /\ disposed' = TRUE
  /\ retained' = [u \in Universe |-> Nothing]
  /\ current' = [u \in Universe |-> 0]
  /\ before' = {}
  /\ UNCHANGED <<recent, pins, closing>>

Next ==
  \/ \E u \in Universe, base \in Contents \union {NoContent}, sequence \in Sequences :
       \E tx \in Submitted : Commit(u, base, sequence, tx)
  \/ \E h \in Handle, u \in Universe, sequence \in Sequences : Open(h, u, sequence)
  \/ \E h \in Handle, chosen \in Choices : SnapshotSet(h, chosen)
  \/ \E chosen \in Choices, absent \in Universe, value \in Contents :
       SnapshotSetFails(chosen, absent, value)
  \/ \E h \in Handle : \E pin \in pins[h] : Release(h, pin)
  \/ Dispose

Spec == Init /\ [][Next]_vars

-----------------------------------------------------------------------------
(* Properties *)

TypeOK ==
  /\ DOMAIN retained = Universe
  /\ \A u \in Universe :
       /\ DOMAIN retained[u] \subseteq Sequences
       /\ \A s \in DOMAIN retained[u] : retained[u][s] \in Entry
  /\ current \in [Universe -> Sequences \union {0}]
  /\ before \in SUBSET (Universe \X Universe)
  /\ recent \in SUBSET Universe
  /\ disposed \in BOOLEAN
  /\ pins \in [Handle -> SUBSET Pin]
  /\ closing \in Handle \union {NoHandle}

Holders(u, s) == {h \in Handle : \E p \in pins[h] : p.universe = u /\ p.sequence = s}

(* The lease count of a generation is the number of readers and snapshot   *)
(* sets that hold it.  One lease too many keeps a generation for ever, one *)
(* too few lets collect() drop it under a reader (store.ts open,           *)
(* snapshotSet with its rollback, and both release callbacks).             *)
LeasesCountHolders ==
  ~disposed => \A u \in Universe : \A s \in DOMAIN retained[u] :
                 retained[u][s].leases = Cardinality(Holders(u, s))

(* A generation held by a reader or by a snapshot set is still retained,   *)
(* with the value it was opened with, whatever was committed, collected or *)
(* evicted since: query() of a snapshot set reopens it by identity.        *)
PinnedRetained ==
  ~disposed => \A h \in Handle : \A p \in pins[h] :
                 /\ p.sequence \in DOMAIN retained[p.universe]
                 /\ retained[p.universe][p.sequence].value = p.value

(* Collection and universe eviction keep #current and #universes together: *)
(* a resident universe has a current generation, the newest it retains.    *)
CurrentIsNewest ==
  \A u \in Universe :
    /\ current[u] = 0 <=> DOMAIN retained[u] = {}
    /\ current[u] # 0 => /\ current[u] \in DOMAIN retained[u]
                         /\ \A s \in DOMAIN retained[u] : s <= current[u]

\* The store keeps the promise of AnalysisStore.
Promise == INSTANCE AnalysisStore WITH
  Value <- Contents,
  versions <- [u \in Universe |->
                 {[sequence |-> s, value |-> retained[u][s].value] : s \in DOMAIN retained[u]}],
  head <- current,
  open <- ~disposed

(* Commits are atomic and base-checked, and a pinned generation outlives   *)
(* collection and eviction: the store implements AnalysisStore.            *)
ImplementsStore == Promise!Spec

=============================================================================
