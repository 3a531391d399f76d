-------------------------- MODULE MemoryStoreProofs --------------------------
(***************************************************************************)
(* For every choice of the constants: the in-memory store keeps its types, *)
(* its lease counts are exact, what a handle pins stays retained with the  *)
(* value it was opened with, and a resident universe keeps a current       *)
(* generation that is the newest it retains.                               *)
(*                                                                         *)
(* None of these is inductive alone.  A lease count may go down without    *)
(* leaving Nat only because it counts holders; a pinned generation         *)
(* survives a collection only because its count is then not zero; a new    *)
(* generation starts with no lease only because nobody can hold a sequence *)
(* above the current one, which is the newest.  StoreInv is their          *)
(* conjunction, with the fact that one handle pins a universe once.        *)
(*                                                                         *)
(* With it the store implements AnalysisStore: each method is a commit, an *)
(* opening, a release or a disposal of the abstract store, or is invisible *)
(* to its callers.  What the abstract store says of forgetting is StoreInv *)
(* after the step: a pinned version is one that is still retained with its *)
(* value, and a current one is retained where its universe is.  That a     *)
(* step only removes versions, and which head it leaves, is left to each   *)
(* method.                                                                 *)
(***************************************************************************)
EXTENDS MemoryStore, FiniteSetTheorems, TLAPS

PinsOncePerUniverse ==
  \A h \in Handle : \A p, q \in pins[h] : p.universe = q.universe => p = q

StoreInv ==
  /\ TypeOK
  /\ LeasesCountHolders
  /\ PinnedRetained
  /\ CurrentIsNewest
  /\ PinsOncePerUniverse

-----------------------------------------------------------------------------
(* Collection *)

\* A well-formed assignment to #universes.
IsStore(store) ==
  /\ DOMAIN store = Universe
  /\ \A u \in Universe :
       /\ DOMAIN store[u] \subseteq Sequences
       /\ \A s \in DOMAIN store[u] : store[u][s] \in Entry

(* What collect() leaves behind: it only removes, never a leased or a      *)
(* current generation of a universe it keeps, and a universe goes whole.   *)
LEMMA CollectKeeps ==
  ASSUME NEW u \in Universe, NEW store, NEW now, NEW latest, NEW order,
         DOMAIN store = Universe,
         Collect(u, store, now, latest, order)
  PROVE  /\ DOMAIN retained' = Universe
         /\ DOMAIN current' = Universe
         /\ \A v \in Universe :
              /\ DOMAIN retained'[v] \subseteq DOMAIN store[v]
              /\ \A s \in DOMAIN retained'[v] : retained'[v][s] = store[v][s]
              /\ \A s \in DOMAIN store[v] :
                   store[v][s].leases # 0 => s \in DOMAIN retained'[v]
              /\ \/ /\ current'[v] = now[v]
                    /\ now[v] \in DOMAIN store[v] => now[v] \in DOMAIN retained'[v]
                 \/ current'[v] = 0 /\ DOMAIN retained'[v] = {}
         /\ before' \subseteq order
<1> DEFINE trimmed == [store EXCEPT ![u] = Trim(store[u], now[u])]
           gone == Evicted(trimmed, latest, order)
<1>1. /\ retained' = [v \in Universe |-> IF v \in gone THEN Nothing ELSE trimmed[v]]
      /\ current' = [v \in Universe |-> IF v \in gone THEN 0 ELSE now[v]]
      /\ before' = {p \in order : p[1] \notin gone /\ p[2] \notin gone}
  BY DEF Collect
<1>2. DOMAIN Nothing = {}
  BY DEF Nothing
<1>3. DOMAIN trimmed = Universe
  OBVIOUS
<1>4. ASSUME NEW v \in Universe
      PROVE  /\ DOMAIN trimmed[v] \subseteq DOMAIN store[v]
             /\ \A s \in DOMAIN trimmed[v] : trimmed[v][s] = store[v][s]
             /\ \A s \in DOMAIN store[v] :
                  s = now[v] \/ store[v][s].leases # 0 => s \in DOMAIN trimmed[v]
  <2>1. CASE v # u
    <3>1. trimmed[v] = store[v]
      BY <2>1
    <3> QED
      BY <3>1
  <2>2. CASE v = u
    <3>1. trimmed[v] = [s \in DOMAIN store[u] \ Expired(store[u], now[u]) |-> store[u][s]]
      BY <2>2 DEF Trim, Restricted
    <3>2. \A s \in Expired(store[u], now[u]) : s # now[u] /\ store[u][s].leases = 0
      BY DEF Expired, Idle
    <3> HIDE DEF trimmed
    <3> QED
      BY <2>2, <3>1, <3>2
  <2> QED
    BY <2>1, <2>2
<1>5. \A v \in gone : \A s \in DOMAIN trimmed[v] : trimmed[v][s].leases = 0
  BY DEF Evicted, IdleUniverses
<1> HIDE DEF trimmed, gone
<1>6. ASSUME NEW v \in Universe
      PROVE  /\ DOMAIN retained'[v] \subseteq DOMAIN store[v]
             /\ \A s \in DOMAIN retained'[v] : retained'[v][s] = store[v][s]
             /\ \A s \in DOMAIN store[v] :
                  store[v][s].leases # 0 => s \in DOMAIN retained'[v]
             /\ \/ /\ current'[v] = now[v]
                   /\ now[v] \in DOMAIN store[v] => now[v] \in DOMAIN retained'[v]
                \/ current'[v] = 0 /\ DOMAIN retained'[v] = {}
  <2>1. CASE v \in gone
    <3>1. retained'[v] = Nothing /\ current'[v] = 0
      BY <1>1, <2>1
    <3>2. \A s \in DOMAIN store[v] : ~(store[v][s].leases # 0)
      BY <1>4, <1>5, <2>1
    <3> QED
      BY <1>2, <3>1, <3>2
  <2>2. CASE v \notin gone
    <3>1. retained'[v] = trimmed[v] /\ current'[v] = now[v]
      BY <1>1, <2>2
    <3> QED
      BY <1>4, <3>1
  <2> QED
    BY <2>1, <2>2
<1> QED
  BY <1>1, <1>6

-----------------------------------------------------------------------------
(* Leases *)

LEMMA HoldersFinite ==
  ASSUME NEW u, NEW s
  PROVE  /\ IsFiniteSet(Holders(u, s))
         /\ Cardinality(Holders(u, s)) \in Nat
  BY MemoryAssumption, FS_Subset, FS_CardinalityType DEF Holders

(* A pinned generation is leased: somebody holds it.                       *)
LEMMA PinnedIsLeased ==
  ASSUME StoreInv, ~disposed, NEW h \in Handle, NEW p \in pins[h]
  PROVE  /\ p.universe \in Universe /\ p.sequence \in DOMAIN retained[p.universe]
         /\ retained[p.universe][p.sequence].leases \in Nat \ {0}
<1>1. p.universe \in Universe /\ p.sequence \in DOMAIN retained[p.universe]
  BY DEF StoreInv, TypeOK, Pin, PinnedRetained
<1>2. h \in Holders(p.universe, p.sequence)
  BY DEF Holders
<1>3. Cardinality(Holders(p.universe, p.sequence)) # 0
  BY <1>2, HoldersFinite, FS_EmptySet
<1>4. QED
  BY <1>1, <1>3, HoldersFinite DEF StoreInv, LeasesCountHolders

(* A closed handle takes one lease on each of the chosen generations.      *)
LEMMA LeaseStep ==
  ASSUME StoreInv, ~disposed, NEW h \in Handle, pins[h] = {},
         NEW chosen, DOMAIN chosen \subseteq Universe,
         \A u \in DOMAIN chosen : chosen[u] \in DOMAIN retained[u],
         retained' = Leased(retained, chosen),
         pins' = [pins EXCEPT ![h] = Taken(chosen)],
         current' = current, disposed' = disposed, closing' = closing,
         before' \in SUBSET (Universe \X Universe), recent' \in SUBSET Universe
  PROVE  StoreInv'
<1>1. /\ DOMAIN retained' = Universe
      /\ \A u \in Universe :
           /\ DOMAIN retained'[u] = DOMAIN retained[u]
           /\ \A s \in DOMAIN retained[u] :
                /\ retained'[u][s].value = retained[u][s].value
                /\ retained'[u][s].leases =
                     IF u \in DOMAIN chosen /\ s = chosen[u]
                       THEN retained[u][s].leases + 1 ELSE retained[u][s].leases
                /\ retained'[u][s] \in Entry
  <2>1. DOMAIN retained' = Universe
    BY DEF Leased
  <2>2. ASSUME NEW u \in Universe, NEW s \in DOMAIN retained[u]
        PROVE  /\ retained'[u][s].value = retained[u][s].value
               /\ retained'[u][s].leases =
                     IF u \in DOMAIN chosen /\ s = chosen[u]
                       THEN retained[u][s].leases + 1 ELSE retained[u][s].leases
               /\ retained'[u][s] \in Entry
    <3>1. retained[u][s] \in Entry
      BY DEF StoreInv, TypeOK
    <3>2. CASE u \notin DOMAIN chosen
      BY <3>1, <3>2 DEF Leased
    <3>3. CASE u \in DOMAIN chosen
      <4>1. retained'[u] = [retained[u] EXCEPT ![chosen[u]].leases = @ + 1]
        BY <3>3 DEF Leased
      <4> QED
        BY <3>1, <3>3, <4>1 DEF Entry
    <3> QED
      BY <3>2, <3>3
  <2>3. \A u \in Universe : DOMAIN retained'[u] = DOMAIN retained[u]
    BY DEF Leased
  <2> QED
    BY <2>1, <2>2, <2>3
<1>2. \A p \in Taken(chosen) :
        /\ p.universe \in DOMAIN chosen /\ p.sequence = chosen[p.universe]
        /\ p.value = retained[p.universe][p.sequence].value
        /\ p \in Pin
  BY DEF Taken, Pin, Entry, StoreInv, TypeOK
<1>3. \A g \in Handle : pins'[g] = IF g = h THEN Taken(chosen) ELSE pins[g]
  BY DEF StoreInv, TypeOK
<1>4. TypeOK'
  BY <1>1, <1>2 DEF StoreInv, TypeOK
<1>5. PinnedRetained'
  BY <1>1, <1>2, <1>3 DEF StoreInv, TypeOK, PinnedRetained, Pin
<1>6. CurrentIsNewest'
  BY <1>1 DEF StoreInv, CurrentIsNewest
<1>7. PinsOncePerUniverse'
  <2>1. \A p, q \in Taken(chosen) : p.universe = q.universe => p = q
    BY DEF Taken
  <2> QED
    BY <1>3, <2>1 DEF StoreInv, PinsOncePerUniverse
<1>8. LeasesCountHolders'
  <2> SUFFICES ASSUME NEW u \in Universe, NEW s \in DOMAIN retained[u]
               PROVE  retained'[u][s].leases = Cardinality(Holders(u, s)')
    BY <1>1 DEF LeasesCountHolders
  <2>1. h \notin Holders(u, s)
    BY DEF Holders
  <2>2. retained[u][s].leases = Cardinality(Holders(u, s))
    BY DEF StoreInv, LeasesCountHolders
  <2>3. CASE u \in DOMAIN chosen /\ s = chosen[u]
    <3>1. \E p \in Taken(chosen) : p.universe = u /\ p.sequence = s
      <4> DEFINE pin == [universe |-> u, sequence |-> s, value |-> retained[u][s].value]
      <4>1. pin \in Taken(chosen)
        BY <2>3 DEF Taken
      <4>2. pin.universe = u /\ pin.sequence = s
        OBVIOUS
      <4> QED
        BY <4>1, <4>2
    <3>2. Holders(u, s)' = Holders(u, s) \union {h}
      BY <1>3, <3>1 DEF Holders
    <3>3. Cardinality(Holders(u, s)') = Cardinality(Holders(u, s)) + 1
      BY <2>1, <3>2, HoldersFinite, FS_AddElement
    <3> QED
      BY <1>1, <2>2, <2>3, <3>3
  <2>4. CASE ~(u \in DOMAIN chosen /\ s = chosen[u])
    <3>1. Holders(u, s)' = Holders(u, s)
      BY <1>2, <1>3, <2>1, <2>4 DEF Holders
    <3> QED
      BY <1>1, <2>2, <2>4, <3>1
  <2> QED
    BY <2>3, <2>4
<1> QED
  BY <1>4, <1>5, <1>6, <1>7, <1>8 DEF StoreInv

(* One entry of a release, while the store is open.                        *)
LEMMA ReleaseStep ==
  ASSUME StoreInv, ~disposed, NEW h \in Handle, NEW pin \in pins[h], Release(h, pin)
  PROVE  StoreInv'
<1> DEFINE held == [u \in {pin.universe} |-> pin.sequence]
           store == Unleased(retained, held)
<1>1. /\ pin.universe \in Universe /\ pin.sequence \in DOMAIN retained[pin.universe]
      /\ retained[pin.universe][pin.sequence].leases \in Nat \ {0}
  BY PinnedIsLeased
<1>2. /\ DOMAIN store = Universe
      /\ \A u \in Universe : DOMAIN store[u] = DOMAIN retained[u]
  BY DEF Unleased
<1>3. ASSUME NEW u \in Universe, NEW s \in DOMAIN retained[u]
      PROVE  /\ store[u][s].value = retained[u][s].value
             /\ store[u][s].leases =
                   IF u = pin.universe /\ s = pin.sequence
                     THEN retained[u][s].leases - 1 ELSE retained[u][s].leases
             /\ store[u][s] \in Entry
  <2>1. retained[u][s] \in Entry
    BY DEF StoreInv, TypeOK
  <2>2. CASE u # pin.universe
    BY <2>1, <2>2 DEF Unleased
  <2>3. CASE u = pin.universe
    <3>1. store[u] = [retained[u] EXCEPT ![pin.sequence].leases = @ - 1]
      BY <1>1, <2>3 DEF Unleased
    <3> HIDE DEF store
    <3>2. CASE s # pin.sequence
      BY <2>1, <2>3, <3>1, <3>2
    <3>3. CASE s = pin.sequence
      <4>1. store[u][s] = [retained[u][s] EXCEPT !.leases = @ - 1]
        BY <3>1, <3>3
      <4>2. retained[u][s].leases - 1 \in Nat
        BY <1>1, <2>3, <3>3
      <4> QED
        BY <2>1, <2>3, <3>3, <4>1, <4>2 DEF Entry
    <3> QED
      BY <3>2, <3>3
  <2> QED
    BY <2>2, <2>3
<1> HIDE DEF store
<1>4. Collect(pin.universe, store, current, recent, before)
  BY DEF Release, store
<1>5. /\ DOMAIN retained' = Universe
      /\ DOMAIN current' = Universe
      /\ \A v \in Universe :
           /\ DOMAIN retained'[v] \subseteq DOMAIN retained[v]
           /\ \A s \in DOMAIN retained'[v] : retained'[v][s] = store[v][s]
           /\ \A s \in DOMAIN retained[v] :
                store[v][s].leases # 0 => s \in DOMAIN retained'[v]
           /\ \/ /\ current'[v] = current[v]
                 /\ current[v] \in DOMAIN retained[v] => current[v] \in DOMAIN retained'[v]
              \/ current'[v] = 0 /\ DOMAIN retained'[v] = {}
      /\ before' \subseteq before
  BY <1>1, <1>2, <1>4, CollectKeeps
<1>6. /\ \A g \in Handle : pins'[g] = IF g = h THEN pins[h] \ {pin} ELSE pins[g]
      /\ pins' \in [Handle -> SUBSET Pin]
      /\ closing' \in Handle \union {NoHandle}
      /\ recent' = recent /\ disposed' = disposed
  BY DEF Release, StoreInv, TypeOK
<1>7. TypeOK'
  <2>1. current' \in [Universe -> Sequences \union {0}]
    <3>1. current' = [v \in Universe |-> current'[v]]
      BY <1>4 DEF Collect
    <3>2. \A v \in Universe : current'[v] \in Sequences \union {0}
      BY <1>5 DEF StoreInv, TypeOK
    <3> QED
      BY <3>1, <3>2
  <2>2. \A u \in Universe : /\ DOMAIN retained'[u] \subseteq Sequences
                            /\ \A s \in DOMAIN retained'[u] : retained'[u][s] \in Entry
    BY <1>3, <1>5 DEF StoreInv, TypeOK
  <2> QED
    BY <1>5, <1>6, <2>1, <2>2 DEF StoreInv, TypeOK
<1>8. PinsOncePerUniverse'
  BY <1>6 DEF StoreInv, PinsOncePerUniverse
<1>9. ASSUME NEW u \in Universe, NEW s \in DOMAIN retained[u]
      PROVE  store[u][s].leases = Cardinality(Holders(u, s)')
  <2>1. retained[u][s].leases = Cardinality(Holders(u, s))
    BY DEF StoreInv, LeasesCountHolders
  <2>2. CASE u = pin.universe /\ s = pin.sequence
    <3>1. h \in Holders(u, s)
      BY <2>2 DEF Holders
    <3>2. ~ \E p \in pins'[h] : p.universe = u /\ p.sequence = s
      BY <1>6, <2>2 DEF StoreInv, PinsOncePerUniverse
    <3>3. Holders(u, s)' = Holders(u, s) \ {h}
      BY <1>6, <3>2 DEF Holders
    <3>4. Cardinality(Holders(u, s)') = Cardinality(Holders(u, s)) - 1
      BY <3>1, <3>3, HoldersFinite, FS_RemoveElement
    <3> QED
      BY <1>3, <2>1, <2>2, <3>4
  <2>3. CASE ~(u = pin.universe /\ s = pin.sequence)
    <3>1. Holders(u, s)' = Holders(u, s)
      BY <1>6, <2>3 DEF Holders
    <3> QED
      BY <1>3, <2>1, <2>3, <3>1
  <2> QED
    BY <2>2, <2>3
<1>10. LeasesCountHolders'
  BY <1>5, <1>9 DEF LeasesCountHolders
<1>11. PinnedRetained'
  <2> SUFFICES ASSUME NEW g \in Handle, NEW p \in pins'[g]
               PROVE  /\ p.sequence \in DOMAIN retained'[p.universe]
                      /\ retained'[p.universe][p.sequence].value = p.value
    BY DEF PinnedRetained
  <2>1. p \in pins[g]
    BY <1>6
  <2>2. /\ p.universe \in Universe /\ p.sequence \in DOMAIN retained[p.universe]
        /\ retained[p.universe][p.sequence].value = p.value
    BY <2>1 DEF StoreInv, TypeOK, Pin, PinnedRetained
  <2>3. g \in Holders(p.universe, p.sequence)'
    BY DEF Holders
  <2>4. IsFiniteSet(Holders(p.universe, p.sequence)')
    BY MemoryAssumption, FS_Subset DEF Holders
  <2>5. store[p.universe][p.sequence].leases # 0
    BY <1>9, <2>2, <2>3, <2>4, FS_EmptySet
  <2> QED
    BY <1>3, <1>5, <2>2, <2>5
<1>12. CurrentIsNewest'
  BY <1>5 DEF StoreInv, CurrentIsNewest
<1> QED
  BY <1>7, <1>8, <1>10, <1>11, <1>12 DEF StoreInv

-----------------------------------------------------------------------------
(* Commits *)

(* The new generation is above everything retained and above everything    *)
(* held, so it enters with no lease and becomes the newest.                *)
LEMMA CommitStep ==
  ASSUME StoreInv, NEW u \in Universe, NEW base, NEW sequence \in Sequences,
         NEW tx \in Submitted, Commit(u, base, sequence, tx)
  PROVE  StoreInv'
<1> DEFINE entered == [s \in DOMAIN retained[u] \union {sequence} |->
                         IF s = sequence THEN [value |-> tx.manifest, leases |-> 0]
                                         ELSE retained[u][s]]
           store == [retained EXCEPT ![u] = entered]
           now == [current EXCEPT ![u] = sequence]
<1>1. /\ ~disposed
      /\ sequence = current[u] + 1
      /\ Collect(u, store, now, {u}, Activated(u, store))
      /\ recent' = {u}
      /\ disposed' = disposed /\ pins' = pins /\ closing' = closing
  BY DEF Commit, Ready, Accepts
<1>2. tx.manifest \in Contents
  BY DEF Submitted, Transaction
<1>3. sequence \in Nat \ {0} /\ current[u] \in Nat
  BY <1>1, MemoryAssumption DEF Sequences, StoreInv, TypeOK
<1>4. \A s \in DOMAIN retained[u] : s < sequence /\ s # sequence
  <2> SUFFICES ASSUME NEW s \in DOMAIN retained[u]
               PROVE  s < sequence /\ s # sequence
    OBVIOUS
  <2>1. s \in Nat
    BY DEF StoreInv, TypeOK, Sequences
  <2>2. s <= current[u]
    BY DEF StoreInv, CurrentIsNewest
  <2> QED
    BY <1>1, <1>3, <2>1, <2>2
<1>5. /\ DOMAIN store = Universe
      /\ \A v \in Universe \ {u} : store[v] = retained[v]
      /\ store[u] = entered
  BY DEF StoreInv, TypeOK
<1>6. /\ DOMAIN store[u] = DOMAIN retained[u] \union {sequence}
      /\ store[u][sequence] = [value |-> tx.manifest, leases |-> 0]
      /\ \A s \in DOMAIN retained[u] : store[u][s] = retained[u][s]
  BY <1>4, <1>5
<1>7. /\ now[u] = sequence
      /\ \A v \in Universe \ {u} : now[v] = current[v]
      /\ now \in [Universe -> Sequences \union {0}]
  BY DEF StoreInv, TypeOK
<1> HIDE DEF entered, store, now
<1>8. \A v \in Universe : /\ DOMAIN store[v] \subseteq Sequences
                          /\ \A s \in DOMAIN store[v] : store[v][s] \in Entry
  BY <1>2, <1>5, <1>6 DEF StoreInv, TypeOK, Entry
<1>9. /\ DOMAIN retained' = Universe
      /\ DOMAIN current' = Universe
      /\ \A v \in Universe :
           /\ DOMAIN retained'[v] \subseteq DOMAIN store[v]
           /\ \A s \in DOMAIN retained'[v] : retained'[v][s] = store[v][s]
           /\ \A s \in DOMAIN store[v] :
                store[v][s].leases # 0 => s \in DOMAIN retained'[v]
           /\ \/ /\ current'[v] = now[v]
                 /\ now[v] \in DOMAIN store[v] => now[v] \in DOMAIN retained'[v]
              \/ current'[v] = 0 /\ DOMAIN retained'[v] = {}
      /\ before' \subseteq Activated(u, store)
  BY <1>1, <1>5, CollectKeeps
<1>10. TypeOK'
  <2>1. current' \in [Universe -> Sequences \union {0}]
    <3>1. current' = [v \in Universe |-> current'[v]]
      BY <1>1 DEF Collect
    <3>2. \A v \in Universe : current'[v] \in Sequences \union {0}
      BY <1>7, <1>9
    <3> QED
      BY <3>1, <3>2
  <2>2. \A v \in Universe : /\ DOMAIN retained'[v] \subseteq Sequences
                            /\ \A s \in DOMAIN retained'[v] : retained'[v][s] \in Entry
    BY <1>8, <1>9
  <2>3. Activated(u, store) \in SUBSET (Universe \X Universe)
    BY DEF Activated, Resident, StoreInv, TypeOK
  <2> QED
    BY <1>1, <1>9, <2>1, <2>2, <2>3 DEF StoreInv, TypeOK
<1>11. PinsOncePerUniverse'
  BY <1>1 DEF StoreInv, PinsOncePerUniverse
<1>12. ASSUME NEW v \in Universe, NEW s \in DOMAIN store[v]
       PROVE  store[v][s].leases = Cardinality(Holders(v, s)')
  <2>1. Holders(v, s)' = Holders(v, s)
    BY <1>1 DEF Holders
  <2>2. CASE v = u /\ s = sequence
    <3>1. Holders(u, sequence) = {}
      BY <1>1, <1>4, <1>3 DEF Holders, StoreInv, PinnedRetained
    <3> QED
      BY <1>6, <2>1, <2>2, <3>1, FS_EmptySet
  <2>3. CASE ~(v = u /\ s = sequence)
    <3>1. s \in DOMAIN retained[v] /\ store[v][s] = retained[v][s]
      BY <1>5, <1>6, <2>3
    <3> QED
      BY <1>1, <2>1, <3>1 DEF StoreInv, LeasesCountHolders
  <2> QED
    BY <2>2, <2>3
<1>13. LeasesCountHolders'
  BY <1>9, <1>12 DEF LeasesCountHolders
<1>14. PinnedRetained'
  <2> SUFFICES ASSUME NEW g \in Handle, NEW p \in pins[g]
               PROVE  /\ p.sequence \in DOMAIN retained'[p.universe]
                      /\ retained'[p.universe][p.sequence].value = p.value
    BY <1>1 DEF PinnedRetained
  <2>1. /\ p.universe \in Universe /\ p.sequence \in DOMAIN retained[p.universe]
        /\ retained[p.universe][p.sequence].value = p.value
        /\ retained[p.universe][p.sequence].leases # 0
    BY <1>1, PinnedIsLeased DEF StoreInv, PinnedRetained
  <2>2. /\ p.sequence \in DOMAIN store[p.universe]
        /\ store[p.universe][p.sequence] = retained[p.universe][p.sequence]
    BY <1>5, <1>6, <2>1
  <2> QED
    BY <1>9, <2>1, <2>2
<1>15. CurrentIsNewest'
  <2> SUFFICES ASSUME NEW v \in Universe
               PROVE  /\ current'[v] = 0 <=> DOMAIN retained'[v] = {}
                      /\ current'[v] # 0 => /\ current'[v] \in DOMAIN retained'[v]
                                            /\ \A s \in DOMAIN retained'[v] : s <= current'[v]
    BY DEF CurrentIsNewest
  <2>1. CASE v = u
    <3>1. now[u] \in DOMAIN store[u] /\ \A s \in DOMAIN store[u] : s <= now[u]
      <4>1. \A s \in DOMAIN retained[u] : s <= sequence
        BY <1>3, <1>4 DEF StoreInv, TypeOK, Sequences
      <4> QED
        BY <1>3, <1>6, <1>7, <4>1
    <3> QED
      BY <1>3, <1>7, <1>9, <2>1, <3>1
  <2>2. CASE v # u
    BY <1>5, <1>7, <1>9, <2>2 DEF StoreInv, CurrentIsNewest
  <2> QED
    BY <2>1, <2>2
<1> QED
  BY <1>10, <1>11, <1>13, <1>14, <1>15 DEF StoreInv

-----------------------------------------------------------------------------
(* The specification *)

LEMMA StoreInvInit == Init => StoreInv
<1> SUFFICES ASSUME Init PROVE StoreInv
  OBVIOUS
<1>1. DOMAIN Nothing = {}
  BY DEF Nothing
<1>2. \A u \in Universe : DOMAIN retained[u] = {}
  BY <1>1 DEF Init
<1>3. TypeOK
  BY <1>2 DEF Init, TypeOK
<1> QED
  BY <1>2, <1>3 DEF Init, StoreInv, LeasesCountHolders, PinnedRetained, CurrentIsNewest,
                    PinsOncePerUniverse

(* What the methods that neither commit nor lease leave behind.            *)
LEMMA DisposeStep ==
  ASSUME StoreInv, Dispose
  PROVE  StoreInv'
<1>1. DOMAIN Nothing = {}
  BY DEF Nothing
<1>2. /\ disposed' = TRUE /\ pins' = pins /\ DOMAIN retained' = Universe
      /\ \A u \in Universe : DOMAIN retained'[u] = {} /\ current'[u] = 0
  BY <1>1 DEF Dispose
<1>3. TypeOK'
  BY <1>2 DEF Dispose, StoreInv, TypeOK
<1> QED
  BY <1>2, <1>3 DEF StoreInv, LeasesCountHolders, PinnedRetained, CurrentIsNewest,
                    PinsOncePerUniverse

LEMMA ReleaseDisposedStep ==
  ASSUME StoreInv, disposed, NEW h \in Handle, NEW pin \in pins[h], Release(h, pin)
  PROVE  StoreInv'
<1>1. /\ retained' = retained /\ current' = current /\ before' = before
      /\ recent' = recent /\ disposed' = disposed
      /\ pins' = [pins EXCEPT ![h] = @ \ {pin}]
      /\ closing' \in Handle \union {NoHandle}
  BY DEF Release
<1>2. \A g \in Handle : pins'[g] \subseteq pins[g]
  BY <1>1 DEF StoreInv, TypeOK
<1>3. TypeOK'
  BY <1>1 DEF StoreInv, TypeOK
<1> QED
  BY <1>1, <1>2, <1>3 DEF StoreInv, LeasesCountHolders, PinnedRetained, CurrentIsNewest,
                          PinsOncePerUniverse

(* A failed snapshot set returns every lease it took: nothing has changed. *)
LEMMA FailedSnapshotSetStep ==
  ASSUME StoreInv, NEW chosen \in Choices, NEW absent \in Universe, NEW value,
         SnapshotSetFails(chosen, absent, value)
  PROVE  StoreInv'
<1>1. /\ retained' = Unleased(Leased(retained, chosen), chosen)
      /\ UNCHANGED <<current, before, recent, disposed, pins, closing>>
  BY DEF SnapshotSetFails
<1>2. DOMAIN chosen \subseteq Universe /\ \A u \in DOMAIN chosen : chosen[u] \in DOMAIN retained[u]
  BY DEF Choices, PartialFunctions, Newest
<1>3. /\ DOMAIN retained' = Universe
      /\ \A u \in Universe : DOMAIN retained'[u] = DOMAIN retained[u]
  BY <1>1 DEF Leased, Unleased
<1>4. ASSUME NEW u \in Universe, NEW s \in DOMAIN retained[u]
      PROVE  /\ retained'[u][s].value = retained[u][s].value
             /\ retained'[u][s].leases = retained[u][s].leases
             /\ retained'[u][s] \in Entry
  <2>1. retained[u][s] \in Entry
    BY DEF StoreInv, TypeOK
  <2>2. CASE u \notin DOMAIN chosen
    <3>1. retained'[u] = retained[u]
      BY <1>1, <2>2 DEF Leased, Unleased
    <3> QED
      BY <2>1, <3>1
  <2>3. CASE u \in DOMAIN chosen
    <3> DEFINE c == chosen[u]
               up == [retained[u] EXCEPT ![c].leases = @ + 1]
    <3>1. retained'[u] = [up EXCEPT ![c].leases = @ - 1]
      BY <1>1, <2>3 DEF Leased, Unleased
    <3>2. DOMAIN up = DOMAIN retained[u] /\ c \in DOMAIN retained[u]
      BY <1>2, <2>3
    <3>3. up[s] = IF s = c THEN [retained[u][s] EXCEPT !.leases = @ + 1] ELSE retained[u][s]
      BY <3>2
    <3> HIDE DEF up, c
    <3>4. retained'[u][s] = IF s = c THEN [up[s] EXCEPT !.leases = @ - 1] ELSE up[s]
      BY <3>1, <3>2
    <3>5. CASE s # c
      BY <2>1, <3>3, <3>4, <3>5
    <3>6. CASE s = c
      <4>1. retained[u][s] = [value |-> retained[u][s].value, leases |-> retained[u][s].leases]
        BY <2>1 DEF Entry
      <4>2. retained[u][s].leases \in Nat
        BY <2>1 DEF Entry
      <4>3. /\ up[s].value = retained[u][s].value
            /\ up[s].leases = retained[u][s].leases + 1
            /\ up[s] \in Entry
        BY <2>1, <3>3, <3>6, <4>1, <4>2 DEF Entry
      <4>4. retained'[u][s] = [up[s] EXCEPT !.leases = @ - 1]
        BY <3>4, <3>6
      <4>5. retained'[u][s].value = up[s].value /\ retained'[u][s].leases = up[s].leases - 1
        BY <4>3, <4>4 DEF Entry
      <4>6. retained'[u][s] \in Entry
        BY <4>2, <4>3, <4>4 DEF Entry
      <4> QED
        BY <4>2, <4>3, <4>5, <4>6
    <3> QED
      BY <3>5, <3>6
  <2> QED
    BY <2>2, <2>3
<1>5. TypeOK'
  BY <1>1, <1>3, <1>4 DEF StoreInv, TypeOK
<1>6. \A u, s : Holders(u, s)' = Holders(u, s)
  BY <1>1 DEF Holders
<1>7. LeasesCountHolders'
  BY <1>1, <1>3, <1>4, <1>6 DEF StoreInv, LeasesCountHolders
<1>8. PinnedRetained'
  BY <1>1, <1>3, <1>4 DEF StoreInv, TypeOK, Pin, PinnedRetained
<1>9. CurrentIsNewest'
  BY <1>1, <1>3 DEF StoreInv, CurrentIsNewest
<1> QED
  BY <1>1, <1>5, <1>7, <1>8, <1>9 DEF StoreInv, PinsOncePerUniverse

LEMMA OpenStep ==
  ASSUME StoreInv, NEW h \in Handle, NEW u \in Universe, NEW sequence \in Sequences,
         Open(h, u, sequence)
  PROVE  StoreInv'
<1> DEFINE chosen == [v \in {u} |-> sequence]
<1>1. /\ ~disposed /\ pins[h] = {}
      /\ retained' = Leased(retained, chosen)
      /\ pins' = [pins EXCEPT ![h] = Taken(chosen)]
      /\ before' = Activated(u, retained) /\ recent' = {u}
      /\ current' = current /\ disposed' = disposed /\ closing' = closing
  BY DEF Open, Ready
<1>2. sequence \in DOMAIN retained[u]
  BY DEF Open, Newest, StoreInv, CurrentIsNewest
<1>3. before' \in SUBSET (Universe \X Universe) /\ recent' \in SUBSET Universe
  BY <1>1 DEF Activated, Resident, StoreInv, TypeOK
<1>4. DOMAIN chosen \subseteq Universe /\ \A v \in DOMAIN chosen : chosen[v] \in DOMAIN retained[v]
  BY <1>2
<1> HIDE DEF chosen
<1> QED
  BY <1>1, <1>3, <1>4, LeaseStep

LEMMA SnapshotSetStep ==
  ASSUME StoreInv, NEW h \in Handle, NEW chosen \in Choices, SnapshotSet(h, chosen)
  PROVE  StoreInv'
<1>1. DOMAIN chosen \subseteq Universe /\ \A u \in DOMAIN chosen : chosen[u] \in DOMAIN retained[u]
  BY DEF Choices, PartialFunctions, Newest
<1>2. before' \in SUBSET (Universe \X Universe) /\ recent' \in SUBSET Universe
  BY DEF SnapshotSet, StoreInv, TypeOK
<1> QED
  BY <1>1, <1>2, LeaseStep DEF SnapshotSet, Ready

LEMMA StoreInvStep == StoreInv /\ [Next]_vars => StoreInv'
<1> SUFFICES ASSUME StoreInv, [Next]_vars PROVE StoreInv'
  OBVIOUS
<1>1. ASSUME NEW u \in Universe, NEW base \in Contents \union {NoContent},
             NEW sequence \in Sequences, NEW tx \in Submitted, Commit(u, base, sequence, tx)
      PROVE  StoreInv'
  BY <1>1, CommitStep
<1>2. ASSUME NEW h \in Handle, NEW u \in Universe, NEW sequence \in Sequences,
             Open(h, u, sequence)
      PROVE  StoreInv'
  BY <1>2, OpenStep
<1>3. ASSUME NEW h \in Handle, NEW chosen \in Choices, SnapshotSet(h, chosen)
      PROVE  StoreInv'
  BY <1>3, SnapshotSetStep
<1>4. ASSUME NEW chosen \in Choices, NEW absent \in Universe, NEW value \in Contents,
             SnapshotSetFails(chosen, absent, value)
      PROVE  StoreInv'
  BY <1>4, FailedSnapshotSetStep
<1>5. ASSUME NEW h \in Handle, NEW pin \in pins[h], Release(h, pin)
      PROVE  StoreInv'
  <2>1. CASE disposed
    BY <1>5, <2>1, ReleaseDisposedStep
  <2>2. CASE ~disposed
    BY <1>5, <2>2, ReleaseStep
  <2> QED
    BY <2>1, <2>2
<1>6. CASE Dispose
  BY <1>6, DisposeStep
<1>7. CASE UNCHANGED vars
  BY <1>7 DEF vars, StoreInv, TypeOK, LeasesCountHolders, Holders, PinnedRetained,
              CurrentIsNewest, PinsOncePerUniverse
<1> QED
  BY <1>1, <1>2, <1>3, <1>4, <1>5, <1>6, <1>7 DEF Next

(* The state of the store keeps its types, whatever callers do.            *)
THEOREM MemoryStoreTypes == Spec => []TypeOK
<1>1. StoreInv => TypeOK
  BY DEF StoreInv
<1> QED
  BY <1>1, StoreInvInit, StoreInvStep, PTL DEF Spec

(* Lease counts are exact: the count of every retained generation is the   *)
(* number of readers and snapshot sets that hold it.                       *)
THEOREM LeasesAreExact == Spec => []LeasesCountHolders
<1>1. StoreInv => LeasesCountHolders
  BY DEF StoreInv
<1> QED
  BY <1>1, StoreInvInit, StoreInvStep, PTL DEF Spec

(* What a reader or a snapshot set pinned stays retained with its value,   *)
(* under any number of commits, collections and universe evictions.        *)
THEOREM PinnedGenerationsSurvive == Spec => []PinnedRetained
<1>1. StoreInv => PinnedRetained
  BY DEF StoreInv
<1> QED
  BY <1>1, StoreInvInit, StoreInvStep, PTL DEF Spec

(* Collection and eviction never separate #current from #universes.        *)
THEOREM CurrentGenerationRetained == Spec => []CurrentIsNewest
<1>1. StoreInv => CurrentIsNewest
  BY DEF StoreInv
<1> QED
  BY <1>1, StoreInvInit, StoreInvStep, PTL DEF Spec

-----------------------------------------------------------------------------
(* The abstract store. *)

\* The abstract versions, and the abstract store's names for the rest.
Versions == [u \in Universe |->
               {[sequence |-> s, value |-> retained[u][s].value] : s \in DOMAIN retained[u]}]

-----------------------------------------------------------------------------
(* Forgetting *)

\* What AnalysisStore's Keeps says of a step that leaves the pins it leaves.
Forgets(earlier, now) ==
  \A u \in Universe :
    /\ Versions'[u] \subseteq earlier[u]
    /\ \A v \in earlier[u] :
         (\E h \in Handle :
            [universe |-> u, sequence |-> v.sequence, value |-> v.value] \in pins'[h])
           => v \in Versions'[u]
    /\ \/ current'[u] = now[u]
       \/ current'[u] = 0 /\ Versions'[u] = {}
    /\ current'[u] # 0 => \E v \in Versions'[u] : v.sequence = current'[u]

(* Whatever a step of the open store removes, the abstract store may       *)
(* forget: nothing pinned, and nothing current.                            *)
LEMMA KeepsHolds ==
  ASSUME StoreInv', ~disposed',
         NEW earlier, NEW now,
         \A u \in Universe : Versions'[u] \subseteq earlier[u],
         \A u \in Universe : \A v \in earlier[u] :
            v = [sequence |-> v.sequence, value |-> v.value],
         \A u \in Universe : \/ current'[u] = now[u]
                             \/ current'[u] = 0 /\ DOMAIN retained'[u] = {}
  PROVE  Forgets(earlier, now)
<1>1. ASSUME NEW u \in Universe, NEW v \in earlier[u], NEW h \in Handle,
             [universe |-> u, sequence |-> v.sequence, value |-> v.value] \in pins'[h]
      PROVE  v \in Versions'[u]
  <2> DEFINE pin == [universe |-> u, sequence |-> v.sequence, value |-> v.value]
  <2>1. pin.universe = u /\ pin.sequence = v.sequence /\ pin.value = v.value
    OBVIOUS
  <2> HIDE DEF pin
  <2>2. /\ v.sequence \in DOMAIN retained'[u]
        /\ retained'[u][v.sequence].value = v.value
    BY <1>1, <2>1 DEF pin, StoreInv, PinnedRetained
  <2>3. v = [sequence |-> v.sequence, value |-> retained'[u][v.sequence].value]
    BY <2>2
  <2> QED
    BY <2>2, <2>3 DEF Versions
<1>2. ASSUME NEW u \in Universe, current'[u] # 0
      PROVE  \E v \in Versions'[u] : v.sequence = current'[u]
  <2> DEFINE v == [sequence |-> current'[u], value |-> retained'[u][current'[u]].value]
  <2>1. current'[u] \in DOMAIN retained'[u]
    BY <1>2 DEF StoreInv, CurrentIsNewest
  <2>2. v \in Versions'[u] /\ v.sequence = current'[u]
    BY <2>1 DEF Versions
  <2> QED
    BY <2>2
<1>3. \A u \in Universe : DOMAIN retained'[u] = {} => Versions'[u] = {}
  BY DEF Versions
<1> QED
  BY <1>1, <1>2, <1>3 DEF Forgets

-----------------------------------------------------------------------------
(* Leases *)

\* Lease counts move, values and sequences stay.
Counted == [value : Contents, leases : Int]
IsCounted(store) ==
  /\ DOMAIN store = Universe
  /\ \A u \in Universe : \A s \in DOMAIN store[u] : store[u][s] \in Counted
SameValues(store, other) ==
  \A u \in Universe : /\ DOMAIN store[u] = DOMAIN other[u]
                      /\ \A s \in DOMAIN store[u] : store[u][s].value = other[u][s].value

LEMMA RetainedIsCounted == ASSUME StoreInv PROVE IsCounted(retained)
BY DEF StoreInv, TypeOK, Entry, IsCounted, Counted

LEMMA LeasedKeepsValues ==
  ASSUME NEW store, IsCounted(store), NEW chosen
  PROVE  IsCounted(Leased(store, chosen)) /\ SameValues(store, Leased(store, chosen))
<1> DEFINE new == Leased(store, chosen)
<1>1. DOMAIN new = Universe /\ \A u \in Universe : DOMAIN new[u] = DOMAIN store[u]
  BY DEF Leased
<1>2. ASSUME NEW u \in Universe, NEW s \in DOMAIN store[u]
      PROVE  new[u][s] \in Counted /\ new[u][s].value = store[u][s].value
  <2>1. store[u][s] \in Counted
    BY DEF IsCounted
  <2>2. new[u][s] \in {store[u][s], [store[u][s] EXCEPT !.leases = @ + 1]}
    BY DEF Leased
  <2> QED
    BY <2>1, <2>2 DEF Counted
<1> QED
  BY <1>1, <1>2 DEF IsCounted, SameValues

LEMMA UnleasedKeepsValues ==
  ASSUME NEW store, IsCounted(store), NEW chosen
  PROVE  IsCounted(Unleased(store, chosen)) /\ SameValues(store, Unleased(store, chosen))
<1> DEFINE new == Unleased(store, chosen)
<1>1. DOMAIN new = Universe /\ \A u \in Universe : DOMAIN new[u] = DOMAIN store[u]
  BY DEF Unleased
<1>2. ASSUME NEW u \in Universe, NEW s \in DOMAIN store[u]
      PROVE  new[u][s] \in Counted /\ new[u][s].value = store[u][s].value
  <2>1. store[u][s] \in Counted
    BY DEF IsCounted
  <2>2. new[u][s] \in {store[u][s], [store[u][s] EXCEPT !.leases = @ - 1]}
    BY DEF Unleased
  <2> QED
    BY <2>1, <2>2 DEF Counted
<1> QED
  BY <1>1, <1>2 DEF IsCounted, SameValues

LEMMA SameVersions ==
  ASSUME SameValues(retained, retained')
  PROVE  Versions' = Versions
<1>1. \A u \in Universe : Versions'[u] = Versions[u]
  BY DEF SameValues, Versions
<1> QED
  BY <1>1 DEF Versions

-----------------------------------------------------------------------------
(* Methods *)

LEMMA CommitSimulates ==
  ASSUME StoreInv, StoreInv', NEW u \in Universe, NEW base, NEW sequence \in Sequences,
         NEW tx \in Submitted, Commit(u, base, sequence, tx)
  PROVE  Promise!Commit(u, tx.manifest)
<1> DEFINE entered == [s \in DOMAIN retained[u] \union {sequence} |->
                         IF s = sequence THEN [value |-> tx.manifest, leases |-> 0]
                                         ELSE retained[u][s]]
           store == [retained EXCEPT ![u] = entered]
           now == [current EXCEPT ![u] = sequence]
           next == [sequence |-> current[u] + 1, value |-> tx.manifest]
           earlier == [Versions EXCEPT ![u] = @ \union {next}]
<1>1. /\ ~disposed /\ disposed' = disposed /\ pins' = pins
      /\ sequence = current[u] + 1
      /\ Collect(u, store, now, {u}, Activated(u, store))
  BY DEF Commit, Ready, Accepts
<1>2. /\ DOMAIN store = Universe
      /\ \A v \in Universe \ {u} : store[v] = retained[v]
      /\ store[u] = entered
  BY DEF StoreInv, TypeOK
<1>3. now[u] = sequence /\ \A v \in Universe \ {u} : now[v] = current[v]
  BY DEF StoreInv, TypeOK
<1>4. /\ DOMAIN earlier = Universe
      /\ \A v \in Universe \ {u} : earlier[v] = Versions[v]
      /\ earlier[u] = Versions[u] \union {next}
  BY DEF Versions
<1> HIDE DEF store, now, earlier
<1>5. /\ \A v \in Universe :
           /\ DOMAIN retained'[v] \subseteq DOMAIN store[v]
           /\ \A s \in DOMAIN retained'[v] : retained'[v][s] = store[v][s]
           /\ \/ current'[v] = now[v]
              \/ current'[v] = 0 /\ DOMAIN retained'[v] = {}
  BY <1>1, <1>2, CollectKeeps
<1>6. current'[u] = sequence
  <2>1. \A kept : u \notin Evicted(kept, {u}, Activated(u, store))
    BY DEF Evicted, IdleUniverses
  <2> QED
    BY <1>1, <1>3, <2>1 DEF Collect
<1>7. ASSUME NEW v \in Universe PROVE Versions'[v] \subseteq earlier[v]
  <2> SUFFICES ASSUME NEW s \in DOMAIN retained'[v]
               PROVE  [sequence |-> s, value |-> retained'[v][s].value] \in earlier[v]
    BY DEF Versions
  <2>1. CASE v # u
    BY <1>2, <1>4, <1>5, <2>1 DEF Versions
  <2>2. CASE v = u /\ s = sequence
    BY <1>1, <1>2, <1>4, <1>5, <2>2
  <2>3. CASE v = u /\ s # sequence
    <3>1. s \in DOMAIN retained[v] /\ retained'[v][s] = retained[v][s]
      BY <1>2, <1>5, <2>3
    <3> QED
      BY <1>4, <2>3, <3>1 DEF Versions
  <2> QED
    BY <2>1, <2>2, <2>3
<1>8. ASSUME NEW v \in Universe, NEW x \in earlier[v]
      PROVE  x = [sequence |-> x.sequence, value |-> x.value]
  <2>1. x = next \/ x \in Versions[v]
    BY <1>4
  <2> QED
    BY <2>1 DEF Versions
<1>9. ~disposed'
  BY <1>1
<1>10. \A v \in Universe : current'[v] = now[v] \/ (current'[v] = 0 /\ DOMAIN retained'[v] = {})
  BY <1>5
<1>11. Forgets(earlier, now)
  BY <1>7, <1>8, <1>9, <1>10, KeepsHolds
<1>12. now = [current EXCEPT ![u] = next.sequence] /\ current'[u] = next.sequence
  BY <1>1, <1>6 DEF now
<1> QED
  BY <1>1, <1>9, <1>11, <1>12
     DEF Promise!Commit, Promise!Keeps, Promise!PinOf, Forgets, Versions, earlier

LEMMA OpenSimulates ==
  ASSUME StoreInv, ~disposed, NEW h \in Handle, pins[h] = {},
         NEW chosen, DOMAIN chosen \subseteq Universe,
         \A u \in DOMAIN chosen : chosen[u] \in DOMAIN retained[u],
         retained' = Leased(retained, chosen),
         pins' = [pins EXCEPT ![h] = Taken(chosen)],
         current' = current, disposed' = disposed
  PROVE  Promise!Open(h, pins'[h])
<1>1. Versions' = Versions
  BY RetainedIsCounted, LeasedKeepsValues, SameVersions
<1>2. pins'[h] = Taken(chosen)
  BY DEF StoreInv, TypeOK
<1>3. ASSUME NEW p \in Taken(chosen)
      PROVE  /\ p.universe \in Universe
             /\ [sequence |-> p.sequence, value |-> p.value] \in Versions[p.universe]
  BY DEF Taken, Versions
<1>4. \A p, q \in Taken(chosen) : p.universe = q.universe => p = q
  BY DEF Taken
<1>5. ~disposed /\ ~disposed'
  OBVIOUS
<1>6. pins' = [pins EXCEPT ![h] = pins'[h]]
  BY <1>2
<1> QED
  BY <1>1, <1>2, <1>3, <1>4, <1>5, <1>6 DEF Promise!Open, Versions

LEMMA ReleaseSimulates ==
  ASSUME StoreInv, StoreInv', NEW h \in Handle, NEW pin \in pins[h], Release(h, pin)
  PROVE  Promise!Release(pins')
<1> DEFINE held == [u \in {pin.universe} |-> pin.sequence]
           store == Unleased(retained, held)
<1>1. /\ pins' # pins /\ \A g \in Handle : pins'[g] \subseteq pins[g]
      /\ disposed' = disposed
  BY DEF Release, StoreInv, TypeOK
<1>2. CASE disposed
  <2>1. retained' = retained /\ current' = current
    BY <1>2 DEF Release
  <2> QED
    BY <1>1, <1>2, <2>1 DEF Promise!Release
<1>3. CASE ~disposed
  <2>1. IsCounted(store) /\ SameValues(retained, store)
    BY RetainedIsCounted, UnleasedKeepsValues
  <2>2. Collect(pin.universe, store, current, recent, before) /\ pin.universe \in Universe
    BY <1>3 DEF Release, StoreInv, TypeOK, Pin
  <2> HIDE DEF store
  <2>3. \A v \in Universe :
          /\ DOMAIN retained'[v] \subseteq DOMAIN store[v]
          /\ \A s \in DOMAIN retained'[v] : retained'[v][s] = store[v][s]
          /\ \/ current'[v] = current[v]
             \/ current'[v] = 0 /\ DOMAIN retained'[v] = {}
    BY <2>1, <2>2, CollectKeeps DEF IsCounted
  <2>4. \A v \in Universe : Versions'[v] \subseteq Versions[v]
    BY <2>1, <2>3 DEF SameValues, Versions
  <2>5. \A v \in Universe : \A x \in Versions[v] : x = [sequence |-> x.sequence, value |-> x.value]
    BY DEF Versions
  <2>6. ~disposed'
    BY <1>1, <1>3
  <2>7. \A v \in Universe : current'[v] = current[v] \/ (current'[v] = 0 /\ DOMAIN retained'[v] = {})
    BY <2>3
  <2>8. Forgets(Versions, current)
    BY <2>4, <2>5, <2>6, <2>7, KeepsHolds
  <2> QED
    BY <1>1, <1>3, <2>6, <2>8
       DEF Promise!Release, Promise!Keeps, Promise!PinOf, Forgets, Versions
<1> QED
  BY <1>2, <1>3

LEMMA DisposeSimulates == ASSUME Dispose PROVE Promise!Dispose
<1>1. DOMAIN Nothing = {}
  BY DEF Nothing
<1>2. \A u \in Universe : DOMAIN retained'[u] = {}
  BY <1>1 DEF Dispose
<1>3. Versions' = [u \in Universe |-> {}]
  BY <1>2 DEF Versions
<1> QED
  BY <1>3 DEF Dispose, Ready, Promise!Dispose, Versions

(* A snapshot set that fails has changed nothing a caller can see.         *)
LEMMA FailedSnapshotSetStutters ==
  ASSUME StoreInv, NEW chosen, NEW absent, NEW value, SnapshotSetFails(chosen, absent, value)
  PROVE  UNCHANGED Promise!vars
<1> DEFINE taken == Leased(retained, chosen)
<1>1. IsCounted(taken) /\ SameValues(retained, taken)
  BY RetainedIsCounted, LeasedKeepsValues
<1> HIDE DEF taken
<1>2. SameValues(taken, Unleased(taken, chosen))
  BY <1>1, UnleasedKeepsValues
<1>3. retained' = Unleased(taken, chosen)
  BY DEF SnapshotSetFails, taken
<1>4. Versions' = Versions
  BY <1>1, <1>2, <1>3, SameVersions DEF SameValues
<1> QED
  BY <1>4 DEF SnapshotSetFails, Promise!vars, Versions

LEMMA StepSimulates ==
  ASSUME StoreInv, [Next]_vars
  PROVE  [Promise!Next]_(Promise!vars)
<1>0. StoreInv'
  BY StoreInvStep
<1>1. ASSUME NEW u \in Universe, NEW base \in Contents \union {NoContent},
             NEW sequence \in Sequences, NEW tx \in Submitted, Commit(u, base, sequence, tx)
      PROVE  Promise!Next
  <2>1. tx.manifest \in Contents
    BY DEF Submitted, Transaction
  <2>2. Promise!Commit(u, tx.manifest)
    BY <1>0, <1>1, CommitSimulates
  <2> QED
    BY <2>1, <2>2 DEF Promise!Next
<1>2. ASSUME NEW h \in Handle, NEW u \in Universe, NEW sequence \in Sequences,
             Open(h, u, sequence)
      PROVE  Promise!Next
  <2> DEFINE chosen == [v \in {u} |-> sequence]
  <2>1. sequence \in DOMAIN retained[u]
    BY <1>2 DEF Open, Newest, StoreInv, CurrentIsNewest
  <2>2. DOMAIN chosen \subseteq Universe /\ \A v \in DOMAIN chosen : chosen[v] \in DOMAIN retained[v]
    BY <2>1
  <2>3. /\ ~disposed /\ pins[h] = {}
        /\ retained' = Leased(retained, chosen)
        /\ pins' = [pins EXCEPT ![h] = Taken(chosen)]
        /\ current' = current /\ disposed' = disposed
    BY <1>2 DEF Open, Ready
  <2> HIDE DEF chosen
  <2>4. Promise!Open(h, pins'[h])
    BY <2>2, <2>3, OpenSimulates
  <2> QED
    BY <2>4 DEF Promise!Next
<1>3. ASSUME NEW h \in Handle, NEW chosen \in Choices, SnapshotSet(h, chosen)
      PROVE  Promise!Next
  <2>1. /\ DOMAIN chosen \subseteq Universe
        /\ \A u \in DOMAIN chosen : chosen[u] \in DOMAIN retained[u]
    BY DEF Choices, PartialFunctions, Newest
  <2>2. Promise!Open(h, pins'[h])
    BY <1>3, <2>1, OpenSimulates DEF SnapshotSet, Ready
  <2> QED
    BY <2>2 DEF Promise!Next
<1>4. ASSUME NEW chosen \in Choices, NEW absent \in Universe, NEW value \in Contents,
             SnapshotSetFails(chosen, absent, value)
      PROVE  UNCHANGED Promise!vars
  BY <1>4, FailedSnapshotSetStutters
<1>5. ASSUME NEW h \in Handle, NEW pin \in pins[h], Release(h, pin)
      PROVE  Promise!Next
  BY <1>0, <1>5, ReleaseSimulates DEF Promise!Next
<1>6. CASE Dispose
  BY <1>6, DisposeSimulates DEF Promise!Next
<1>7. CASE UNCHANGED vars
  BY <1>7 DEF vars, Promise!vars
<1> QED
  BY <1>1, <1>2, <1>3, <1>4, <1>5, <1>6, <1>7 DEF Next

LEMMA InitSimulates == Init => Promise!Init
<1> SUFFICES ASSUME Init PROVE Promise!Init
  OBVIOUS
<1>1. DOMAIN Nothing = {}
  BY DEF Nothing
<1>2. Versions = [u \in Universe |-> {}]
  BY <1>1 DEF Init, Versions
<1> QED
  BY <1>2 DEF Init, Promise!Init, Versions

-----------------------------------------------------------------------------
(* The store keeps what its interface promises: a commit becomes current at *)
(* once and only over the generation it was made for, a caller keeps what   *)
(* it opened, and collection, eviction and failed snapshot sets show        *)
(* nothing else to anybody (store.ts, as the interface in query/model.ts).  *)
THEOREM MemoryStoreImplements == Spec => ImplementsStore
<1>1. StoreInv /\ [Next]_vars => [Promise!Next]_(Promise!vars)
  BY StepSimulates
<1> QED
  BY <1>1, InitSimulates, StoreInvInit, StoreInvStep, PTL DEF Spec, ImplementsStore, Promise!Spec
=============================================================================
