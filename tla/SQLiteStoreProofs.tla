--------------------------- MODULE SQLiteStoreProofs ---------------------------
(***************************************************************************)
(* For every choice of the constants, any number of processes, universes   *)
(* and handles: verification deletes nothing that is stored, retention     *)
(* keeps the newest generations and the leased ones, the stored shards are *)
(* those of the stored generations, and while renewals land (Responsive)   *)
(* the lease rows of a handle are those of what it reads, which stays, so  *)
(* that the store implements AnalysisStore.                                *)
(*                                                                         *)
(* All of it rests on sequences being used once (Grows): what a process    *)
(* has read about a sequence, before it takes the writer lock, is then     *)
(* true of it or of nothing (Past, Admissible).  A generation is closed    *)
(* because its delta was admitted against the very base it is written      *)
(* over, by DeltaAdmissionExact.                                           *)
(***************************************************************************)
EXTENDS SQLiteStore, FiniteSetTheorems, TLAPS

-----------------------------------------------------------------------------
(* The two stores admit the same transactions: the in-memory store checks the whole next *)
(* generation, SQLite only the delta.                                                     *)

\* Every shard of the next generation is one of the upserts or one the delta leaves alone.
LEMMA NextShards ==
  ASSUME NEW base \in Contents, NEW tx \in Transaction,
         SelfConsistent(tx), Materialized(base, tx) = tx.manifest
  PROVE  /\ DOMAIN tx.upserts \subseteq DOMAIN tx.manifest
         /\ \A k \in DOMAIN tx.upserts : tx.manifest[k] = tx.upserts[k]
         /\ DOMAIN base \ (tx.deletes \union DOMAIN tx.upserts) \subseteq DOMAIN tx.manifest
         /\ \A k \in DOMAIN base \ (tx.deletes \union DOMAIN tx.upserts) :
              tx.manifest[k] = base[k]
         /\ DOMAIN tx.manifest =
              (DOMAIN base \ (tx.deletes \union DOMAIN tx.upserts)) \union DOMAIN tx.upserts
<1>1. DOMAIN tx.manifest = (DOMAIN base \ tx.deletes) \union DOMAIN tx.upserts
  BY DEF Materialized
<1>2. \A k \in DOMAIN tx.manifest :
        tx.manifest[k] = IF k \in DOMAIN tx.upserts THEN tx.upserts[k] ELSE base[k]
  BY <1>1 DEF Materialized
<1> QED
  BY <1>1, <1>2

(* A delta over a closed generation passes the checks of the delta exactly *)
(* when the generation it leads to passes the check of the whole: SQLite   *)
(* (validateFactClosure) rejects what the in-memory store                  *)
(* (materializeTransaction) rejects, without reading the other shards.     *)
THEOREM DeltaAdmissionExact ==
  ASSUME NEW base \in Contents, FactsClosed(base),
         NEW tx \in Transaction, SelfConsistent(tx),
         Materialized(base, tx) = tx.manifest
  PROVE  DeltaClosed(base, tx) <=> FactsClosed(tx.manifest)
<1> DEFINE replaced == tx.deletes \union DOMAIN tx.upserts
           kept == DOMAIN base \ replaced
           entering == DeclaredBy(tx.upserts, DOMAIN tx.upserts)
           available == DeclaredBy(base, kept)
           removed == DeclaredBy(base, DOMAIN base \intersect replaced) \ entering
<1>n. /\ DOMAIN tx.manifest = kept \union DOMAIN tx.upserts
      /\ \A k \in DOMAIN tx.upserts : tx.manifest[k] = tx.upserts[k]
      /\ \A k \in kept : tx.manifest[k] = base[k]
  BY NextShards
<1>e. \A f : f \in entering <=> \E k \in DOMAIN tx.upserts : f \in Declares[tx.upserts[k]]
  BY DEF DeclaredBy
<1>a. \A f : f \in available <=> \E k \in kept : f \in Declares[base[k]]
  BY DEF DeclaredBy
<1>r. \A f : f \in removed <=> /\ f \notin entering
                               /\ \E k \in DOMAIN base \intersect replaced : f \in Declares[base[k]]
  BY DEF DeclaredBy
<1>m. \A f : f \in entering \union available <=>
               \E k \in DOMAIN tx.manifest : f \in Declares[tx.manifest[k]]
  BY <1>n, <1>e, <1>a
<1>d. DeltaClosed(base, tx) <=>
        /\ \A j, k \in DOMAIN tx.upserts :
             j # k => Declares[tx.upserts[j]] \intersect Declares[tx.upserts[k]] = {}
        /\ entering \intersect available = {}
        /\ \A k \in DOMAIN tx.upserts : Derives[tx.upserts[k]] \subseteq entering \union available
        /\ \A k \in kept : Derives[base[k]] \intersect removed = {}
  BY DEF DeltaClosed
<1> HIDE DEF kept, entering, available, removed
<1>k. kept \subseteq DOMAIN base /\ kept \intersect DOMAIN tx.upserts = {}
  BY DEF kept
<1>1. ASSUME DeltaClosed(base, tx)
      PROVE  FactsClosed(tx.manifest)
  <2>1. \A j, k \in DOMAIN tx.manifest :
          j # k => Declares[tx.manifest[j]] \intersect Declares[tx.manifest[k]] = {}
    <3> SUFFICES ASSUME NEW j \in DOMAIN tx.manifest, NEW k \in DOMAIN tx.manifest, j # k,
                        NEW f \in Declares[tx.manifest[j]], f \in Declares[tx.manifest[k]]
                 PROVE  FALSE
      OBVIOUS
    <3>1. CASE j \in DOMAIN tx.upserts /\ k \in DOMAIN tx.upserts
      BY <1>1, <1>d, <1>n, <3>1
    <3>2. CASE j \in kept /\ k \in kept
      BY <1>n, <1>k, <3>2 DEF FactsClosed
    <3>3. CASE j \in DOMAIN tx.upserts /\ k \in kept
      <4>1. f \in entering /\ f \in available
        BY <1>e, <1>a, <1>n, <3>3
      <4> QED
        BY <4>1, <1>1, <1>d
    <3>4. CASE j \in kept /\ k \in DOMAIN tx.upserts
      <4>1. f \in entering /\ f \in available
        BY <1>e, <1>a, <1>n, <3>4
      <4> QED
        BY <4>1, <1>1, <1>d
    <3> QED
      BY <1>n, <3>1, <3>2, <3>3, <3>4
  <2>2. \A k \in DOMAIN tx.manifest : \A f \in Derives[tx.manifest[k]] :
          \E j \in DOMAIN tx.manifest : f \in Declares[tx.manifest[j]]
    <3> SUFFICES ASSUME NEW k \in DOMAIN tx.manifest, NEW f \in Derives[tx.manifest[k]]
                 PROVE  f \in entering \union available
      BY <1>m
    <3>1. CASE k \in DOMAIN tx.upserts
      BY <1>1, <1>d, <1>n, <3>1
    <3>2. CASE k \in kept
      <4>1. f \in Derives[base[k]] /\ k \in DOMAIN base
        BY <1>n, <1>k, <3>2
      <4>2. PICK j \in DOMAIN base : f \in Declares[base[j]]
        BY <4>1 DEF FactsClosed
      <4>3. f \notin removed
        BY <1>1, <1>d, <3>2, <4>1
      <4>4. CASE j \in kept
        BY <1>a, <4>2, <4>4
      <4>5. CASE j \notin kept
        <5>1. j \in DOMAIN base \intersect replaced
          BY <4>5 DEF kept
        <5> QED
          BY <1>r, <4>2, <4>3, <5>1
      <4> QED
        BY <4>4, <4>5
    <3> QED
      BY <1>n, <3>1, <3>2
  <2> QED
    BY <2>1, <2>2 DEF FactsClosed
<1>2. ASSUME FactsClosed(tx.manifest)
      PROVE  DeltaClosed(base, tx)
  <2>1. \A j, k \in DOMAIN tx.upserts :
          j # k => Declares[tx.upserts[j]] \intersect Declares[tx.upserts[k]] = {}
    BY <1>2, <1>n DEF FactsClosed
  <2>2. ASSUME NEW f \in entering, f \in available
        PROVE  FALSE
    <3>1. PICK j \in DOMAIN tx.upserts : f \in Declares[tx.upserts[j]]
      BY <1>e, <2>2
    <3>2. PICK k \in kept : f \in Declares[base[k]]
      BY <1>a, <2>2
    <3>3. /\ j \in DOMAIN tx.manifest /\ k \in DOMAIN tx.manifest /\ j # k
          /\ f \in Declares[tx.manifest[j]] /\ f \in Declares[tx.manifest[k]]
      BY <1>n, <1>k, <3>1, <3>2
    <3> QED
      BY <1>2, <3>3 DEF FactsClosed
  <2>3. \A k \in DOMAIN tx.upserts : Derives[tx.upserts[k]] \subseteq entering \union available
    <3> SUFFICES ASSUME NEW k \in DOMAIN tx.upserts, NEW f \in Derives[tx.upserts[k]]
                 PROVE  f \in entering \union available
      OBVIOUS
    <3>1. k \in DOMAIN tx.manifest /\ f \in Derives[tx.manifest[k]]
      BY <1>n
    <3>2. \E j \in DOMAIN tx.manifest : f \in Declares[tx.manifest[j]]
      BY <1>2, <3>1 DEF FactsClosed
    <3> QED
      BY <1>m, <3>2
  <2>4. ASSUME NEW k \in kept, NEW f \in Derives[base[k]], f \in removed
        PROVE  FALSE
    <3>1. k \in DOMAIN tx.manifest /\ f \in Derives[tx.manifest[k]]
      BY <1>n
    <3>2. f \in entering \union available
      BY <1>2, <1>m, <3>1 DEF FactsClosed
    <3>3. f \in available
      BY <1>r, <2>4, <3>2
    <3>4. PICK j \in kept : f \in Declares[base[j]]
      BY <1>a, <3>3
    <3>5. PICK i \in DOMAIN base \intersect replaced : f \in Declares[base[i]]
      BY <1>r, <2>4
    <3>6. i # j /\ i \in DOMAIN base /\ j \in DOMAIN base
      BY <1>k, <3>5 DEF kept
    <3> QED
      BY <3>4, <3>5, <3>6 DEF FactsClosed
  <2> QED
    BY <2>1, <2>2, <2>3, <2>4, <1>d
<1> QED
  BY <1>1, <1>2

-----------------------------------------------------------------------------
(* What the database holds. *)

Functional ==
  /\ generations = [u \in Universe |-> generations[u]]
  /\ \A u \in Universe : generations[u] = [s \in DOMAIN generations[u] |-> generations[u][s]]

\* The current generation is stored, is the newest, and is among MaxRetained consecutive ones.
Recent ==
  \A u \in Universe :
    /\ current[u] = 0 => DOMAIN generations[u] = {}
    /\ \A s \in DOMAIN generations[u] : s <= current[u]
    /\ \A s \in Sequences : s <= current[u] /\ current[u] < s + MaxRetained
                              => s \in DOMAIN generations[u]

Closures == \A u \in Universe : \A s \in DOMAIN generations[u] : FactsClosed(generations[u][s])

References == \A l \in leases : l.sequence \in DOMAIN generations[l.universe]

\* What a verification has read of a row is true of the row or the row has gone for good.
Past(row) ==
  /\ row.sequence <= current[row.universe]
  /\ row.sequence \in DOMAIN generations[row.universe] =>
       generations[row.universe][row.sequence] = row.value
Lost(row) == row.sequence \notin DOMAIN generations[row.universe]

\* What a commit has found is true of its base as long as that is the current generation.
Found(w) ==
  LET read == Manifest(w.universe, w.sequence) IN
  /\ w.base = CurrentId(w.universe)
  /\ w.stage # "based" => /\ w.tx \in Submitted
                          /\ w.tx.deletes \subseteq DOMAIN read
                          /\ Materialized(read, w.tx) = w.tx.manifest
  /\ w.stage = "admitted" => DeltaClosed(read, w.tx)
Admissible(w) ==
  /\ w.sequence <= current[w.universe]
  /\ w.sequence = current[w.universe] => Found(w)

WorkingOf(p) ==
  /\ work[p] \in Verifying => /\ LeasesOf(p) = {}
                              /\ \A row \in work[p].rows \union work[p].invalid : Past(row)
                              /\ \A row \in work[p].invalid : Lost(row)
  /\ work[p] \in Committing => Admissible(work[p])

Working == \A p \in Process : WorkingOf(p)

DatabaseInv ==
  /\ TypeOK /\ Functional /\ Recent /\ Closures /\ References /\ ShardsExact /\ Working

Renewed == \A l \in leases : l.owner # Nobody => ~l.lapsed
LeaseInv == Renewed /\ LeasesMatchPins /\ ReadersKeepGenerations

-----------------------------------------------------------------------------
(* Values *)

LEMMA WorkShapes ==
  ASSUME TypeOK, NEW p \in Process
  PROVE  /\ work[p].stage = "verifying" <=> work[p] \in Verifying
         /\ work[p].stage \in {"based", "matched", "admitted"} <=> work[p] \in Committing
         /\ work[p].stage = "closed" <=> work[p] = Closed
         /\ work[p].stage = "idle" <=> work[p] = Idle
BY DEF TypeOK, Verifying, Committing, Closed, Idle

LEMMA Numbers == \A s : s \in Sequences => s \in Nat /\ s # 0 /\ s > 0
BY SQLiteAssumption DEF Sequences

LEMMA NothingHere == DOMAIN Nothing = {}
BY DEF Nothing

(* A row of shards is a member when a stored generation refers to it.      *)
LEMMA MembersOf ==
  ASSUME NEW store, NEW row
  PROVE  row \in Members(store) <=>
           \E u \in Universe, s \in Sequences :
              s \in DOMAIN store[u] /\ row \in Rows(store[u][s])
<1>1. ASSUME row \in Members(store)
      PROVE  \E u \in Universe, s \in Sequences :
               s \in DOMAIN store[u] /\ row \in Rows(store[u][s])
  <2>1. PICK us \in Stored(store) : row \in Rows(store[us[1]][us[2]])
    BY <1>1 DEF Members
  <2> QED
    BY <2>1 DEF Stored
<1>2. ASSUME NEW u \in Universe, NEW s \in Sequences,
             s \in DOMAIN store[u], row \in Rows(store[u][s])
      PROVE  row \in Members(store)
  <2> DEFINE us == <<u, s>>
  <2>1. us \in Stored(store) /\ us[1] = u /\ us[2] = s
    BY <1>2 DEF Stored
  <2> HIDE DEF us
  <2>2. row \in Rows(store[us[1]][us[2]])
    BY <1>2, <2>1
  <2> QED
    BY <2>1, <2>2 DEF Members
<1> QED
  BY <1>1, <1>2

LEMMA ShardsMembers == ShardsExact <=> shards = Members(generations)
BY DEF ShardsExact, Members, Stored, Rows

LEMMA Counting ==
  ASSUME NEW c \in [Universe -> Sequences \union {0}], NEW u \in Universe
  PROVE  c[u] \in Nat /\ (c[u] # 0 => c[u] \in Sequences)
<1>1. c[u] \in Sequences \/ c[u] = 0
  OBVIOUS
<1> QED
  BY <1>1, Numbers

LEMMA CurrentCounts ==
  ASSUME TypeOK, NEW u \in Universe
  PROVE  current[u] \in Nat /\ (\A s \in DOMAIN generations[u] : s \in Nat \ {0})
BY Counting, Numbers DEF TypeOK

-----------------------------------------------------------------------------
(* Sequences are used once *)

Grows ==
  \A u \in Universe :
    /\ current[u] <= current'[u]
    /\ current'[u] = current[u] => generations'[u] = generations[u]
    /\ \A s \in DOMAIN generations'[u] :
         s <= current[u] => s \in DOMAIN generations[u] /\ generations'[u][s] = generations[u][s]

LEMMA PastStays ==
  ASSUME TypeOK, TypeOK', Grows, NEW row \in Pin, Past(row)
  PROVE  Past(row)' /\ (Lost(row) => Lost(row)')
<1>1. /\ row.universe \in Universe /\ row.sequence \in Nat
      /\ current[row.universe] \in Nat /\ current'[row.universe] \in Nat
  BY Numbers, Counting DEF Pin, TypeOK
<1> QED
  BY <1>1 DEF Grows, Past, Lost

LEMMA AdmissibleStays ==
  ASSUME TypeOK, TypeOK', Grows, NEW w \in Committing, Admissible(w)
  PROVE  Admissible(w)'
<1>1. /\ w.universe \in Universe /\ w.sequence \in Nat
      /\ current[w.universe] \in Nat /\ current'[w.universe] \in Nat
  <2>1. w.universe \in Universe /\ w.sequence \in Sequences \union {0}
    BY DEF Committing
  <2>2. /\ current \in [Universe -> Sequences \union {0}]
        /\ current' \in [Universe -> Sequences \union {0}]
    BY DEF TypeOK
  <2> QED
    BY <2>1, <2>2, Numbers, Counting
<1>2. /\ w.sequence <= current'[w.universe]
      /\ w.sequence = current'[w.universe] =>
           /\ w.sequence = current[w.universe] /\ current'[w.universe] = current[w.universe]
           /\ generations'[w.universe] = generations[w.universe]
  BY <1>1 DEF Grows, Admissible
<1> QED
  BY <1>2 DEF Admissible, Found, Manifest, CurrentId

LEMMA DatabaseStands == ASSUME TypeOK, UNCHANGED database PROVE Grows
BY CurrentCounts DEF database, Grows

-----------------------------------------------------------------------------
(* A commit and its collection *)

Entered(u, content) ==
  [s \in DOMAIN generations[u] \union {current[u] + 1} |->
     IF s = current[u] + 1 THEN content ELSE generations[u][s]]

\* Of consecutive sequences up to n, those after s.
LEMMA After ==
  ASSUME NEW n \in Nat, NEW s \in Nat, s <= n
  PROVE  IsFiniteSet(s + 1 .. n) /\ Cardinality(s + 1 .. n) = n - s
<1> DEFINE a == s + 1
<1>1. a \in Int /\ n \in Int
  OBVIOUS
<1>2. /\ IsFiniteSet(a .. n)
      /\ Cardinality(a .. n) = IF a > n THEN 0 ELSE n - a + 1
  BY <1>1, FS_Interval
<1>3. (IF a > n THEN 0 ELSE n - a + 1) = n - s
  OBVIOUS
<1> QED
  BY <1>2, <1>3

(* The newest MaxRetained sequences stay, whatever holds them, and any     *)
(* other that stays has a lease.                                           *)
LEMMA RetainedExactly ==
  ASSUME NEW u \in Universe, NEW store, NEW held, NEW n \in Nat,
         DOMAIN store[u] \subseteq 1 .. n,
         \A s \in 1 .. n : n < s + MaxRetained => s \in DOMAIN store[u],
         NEW s \in DOMAIN store[u]
  PROVE  /\ n < s + MaxRetained => s \in Retained(u, store, held)
         /\ s \in Retained(u, store, held) =>
              \/ s > n - MaxRetained
              \/ \E l \in held : l.universe = u /\ l.sequence = s
<1> DEFINE newer == {t \in DOMAIN store[u] : t > s}
<1>0. s \in 1 .. n /\ s \in Nat /\ MaxRetained \in Nat /\ s <= n
  BY SQLiteAssumption
<1>1. /\ IsFiniteSet(s + 1 .. n) /\ Cardinality(s + 1 .. n) = n - s
  BY <1>0, After
<1>2. newer \subseteq s + 1 .. n
  BY <1>0
<1>3. IsFiniteSet(newer) /\ Cardinality(newer) <= n - s
  BY <1>1, <1>2, FS_Subset
<1>4. n < s + MaxRetained => Cardinality(newer) < MaxRetained
  <2>1. Cardinality(newer) \in Nat
    BY <1>3, FS_CardinalityType
  <2> QED
    BY <1>0, <1>3, <2>1
<1>5. ASSUME Cardinality(newer) < MaxRetained, ~(s > n - MaxRetained)
      PROVE  FALSE
  <2>1. n - MaxRetained \in Nat /\ n - MaxRetained <= n /\ n - (n - MaxRetained) = MaxRetained
    BY <1>0, <1>5
  <2>2. /\ IsFiniteSet(n - MaxRetained + 1 .. n)
        /\ Cardinality(n - MaxRetained + 1 .. n) = MaxRetained
    BY <2>1, After
  <2>3. n - MaxRetained + 1 .. n \subseteq newer
    BY <1>0, <1>5, <2>1
  <2> DEFINE last == n - MaxRetained + 1 .. n
  <2> HIDE DEF last, newer
  <2>4. MaxRetained <= Cardinality(newer)
    <3>1. Cardinality(last) <= Cardinality(newer)
      BY <1>3, <2>3, FS_Subset DEF last
    <3> QED
      BY <2>2, <3>1 DEF last
  <2>5. Cardinality(newer) \in Nat
    BY <1>3, FS_CardinalityType
  <2> QED
    BY <1>0, <1>5, <2>4, <2>5
<1> QED
  BY <1>4, <1>5 DEF Retained

(* A commit changes one universe: the content becomes its newest           *)
(* generation, retention takes only generations without a lease, and the   *)
(* leases that go are the lapsed ones.                                     *)
LEMMA Collected ==
  ASSUME DatabaseInv, NEW u \in Universe, NEW content \in Contents, NEW rows,
         current[u] + 1 \in Sequences,
         Collect(u, [generations EXCEPT ![u] = Entered(u, content)],
                    [current EXCEPT ![u] = current[u] + 1], rows)
  PROVE  /\ current' = [current EXCEPT ![u] = current[u] + 1]
         /\ Functional' /\ DOMAIN generations' = Universe
         /\ \A v \in Universe : v # u => generations'[v] = generations[v]
         /\ \A s \in DOMAIN generations'[u] :
              /\ s \in DOMAIN generations[u] \union {current[u] + 1}
              /\ generations'[u][s] = Entered(u, content)[s]
              /\ \/ s > (current[u] + 1) - MaxRetained
                 \/ \E l \in Unlapsed(leases) : l.universe = u /\ l.sequence = s
         /\ \A s \in DOMAIN generations[u] \union {current[u] + 1} :
              current[u] + 1 < s + MaxRetained => s \in DOMAIN generations'[u]
         /\ leases' = Unlapsed(leases)
         /\ \A l \in leases' : l.sequence \in DOMAIN generations'[l.universe]
         /\ shards' = rows \intersect Members(generations')
<1> DEFINE next == current[u] + 1
           store == [generations EXCEPT ![u] = Entered(u, content)]
           now == [current EXCEPT ![u] = next]
           held == Unlapsed(leases)
           kept == Retained(u, store, held)
           gone == {u} \X (DOMAIN store[u] \ kept)
<1>1. /\ DOMAIN generations = Universe /\ current \in [Universe -> Sequences \union {0}]
      /\ leases \in SUBSET Lease
      /\ \A v \in Universe : DOMAIN generations[v] \subseteq Sequences
  BY DEF DatabaseInv, TypeOK
<1>2. /\ current[u] \in Nat /\ next \in Nat /\ next > 0
      /\ \A s \in DOMAIN generations[u] : s \in Nat /\ s > 0
  BY CurrentCounts, Numbers DEF DatabaseInv
<1>3. /\ \A s \in DOMAIN generations[u] : s <= current[u]
      /\ \A s \in Sequences : s <= current[u] /\ current[u] < s + MaxRetained
                                => s \in DOMAIN generations[u]
  BY DEF DatabaseInv, Recent
<1>4. /\ DOMAIN store = Universe
      /\ store[u] = Entered(u, content)
      /\ \A v \in Universe : v # u => store[v] = generations[v]
      /\ DOMAIN store[u] = DOMAIN generations[u] \union {next}
      /\ \A s \in DOMAIN store[u] : store[u][s] = Entered(u, content)[s]
  BY <1>1 DEF Entered
<1>5. /\ DOMAIN store[u] \subseteq 1 .. next
      /\ \A s \in 1 .. next : next < s + MaxRetained => s \in DOMAIN store[u]
  <2>1. DOMAIN store[u] \subseteq 1 .. next
    BY <1>2, <1>3, <1>4
  <2>2. ASSUME NEW s \in 1 .. next, next < s + MaxRetained, s # next
        PROVE  s \in DOMAIN generations[u]
    <3>1. s <= current[u] /\ current[u] < s + MaxRetained
      BY <1>2, <2>2, SQLiteAssumption
    <3>2. s \in Sequences
      BY <1>2, <2>2, SQLiteAssumption DEF Sequences
    <3> QED
      BY <1>3, <3>1, <3>2
  <2> QED
    BY <2>1, <2>2, <1>4
<1> HIDE DEF store, now
<1>6. \A s \in DOMAIN store[u] :
        /\ next < s + MaxRetained => s \in kept
        /\ s \in kept => \/ s > next - MaxRetained
                         \/ \E l \in held : l.universe = u /\ l.sequence = s
  BY <1>2, <1>5, RetainedExactly
<1>7. next \in kept
  BY <1>2, <1>4, <1>6, SQLiteAssumption
<1>8. \A l \in held : /\ l.universe \in Universe
                      /\ l.sequence \in DOMAIN store[l.universe]
                      /\ l.universe = u => l.sequence \in kept
  <2>1. \A l \in held : l \in leases /\ l.universe \in Universe
    BY <1>1 DEF Unlapsed, Lease
  <2>2. \A l \in held : l.sequence \in DOMAIN store[l.universe]
    BY <2>1, <1>4 DEF DatabaseInv, References
  <2> QED
    BY <2>1, <2>2 DEF Retained
<1>9. /\ generations' = [v \in Universe |->
                           [s \in {t \in DOMAIN store[v] : <<v, t>> \notin gone} |-> store[v][s]]]
      /\ current' = [v \in Universe |-> IF <<v, now[v]>> \in gone THEN 0 ELSE now[v]]
      /\ leases' = {l \in held : <<l.universe, l.sequence>> \notin gone}
      /\ shards' = rows \intersect Members(generations')
  BY DEF Collect, Delete, WithoutOrphans, store, now
<1>10. \A v \in Universe : \A s : <<v, s>> \in gone <=> v = u /\ s \in DOMAIN store[u] \ kept
  OBVIOUS
<1> HIDE DEF gone, kept, held
<1>11. leases' = held
  BY <1>8, <1>9, <1>10
<1>12. current' = now
  <2>1. now \in [Universe -> Nat] /\ now[u] = next /\ now = [v \in Universe |-> now[v]]
    BY <1>1, <1>2, Counting DEF now
  <2>2. \A v \in Universe : <<v, now[v]>> \notin gone
    BY <2>1, <1>7, <1>10
  <2> QED
    BY <2>1, <2>2, <1>9
<1>13. \A v \in Universe :
         v # u => generations'[v] = [s \in DOMAIN generations[v] |-> generations[v][s]]
  BY <1>4, <1>9, <1>10
<1>14. generations'[u] = [s \in DOMAIN store[u] \intersect kept |-> store[u][s]]
  <2>1. {t \in DOMAIN store[u] : <<u, t>> \notin gone} = DOMAIN store[u] \intersect kept
    BY <1>10
  <2> QED
    BY <2>1, <1>9
<1>15. \A v \in Universe : v # u => generations'[v] = generations[v]
  BY <1>13 DEF DatabaseInv, Functional
<1>16. Functional' /\ DOMAIN generations' = Universe
  BY <1>9 DEF Functional
<1>17. /\ \A s \in DOMAIN generations'[u] : s \in DOMAIN store[u] /\ s \in kept
                                            /\ generations'[u][s] = store[u][s]
       /\ \A s \in DOMAIN store[u] : s \in kept => s \in DOMAIN generations'[u]
  BY <1>14
<1>18. \A l \in leases' : l.sequence \in DOMAIN generations'[l.universe]
  <2> SUFFICES ASSUME NEW l \in leases' PROVE l.sequence \in DOMAIN generations'[l.universe]
    OBVIOUS
  <2>1. CASE l.universe = u
    BY <2>1, <1>8, <1>11, <1>17
  <2>2. CASE l.universe # u
    BY <2>2, <1>4, <1>8, <1>11, <1>15
  <2> QED
    BY <2>1, <2>2
<1>19. \A s \in DOMAIN generations'[u] :
         /\ s \in DOMAIN generations[u] \union {next}
         /\ generations'[u][s] = Entered(u, content)[s]
         /\ s > next - MaxRetained \/ \E l \in held : l.universe = u /\ l.sequence = s
  BY <1>4, <1>6, <1>17
<1>20. \A s \in DOMAIN generations[u] \union {next} :
         next < s + MaxRetained => s \in DOMAIN generations'[u]
  BY <1>4, <1>6, <1>17
<1>21. current' = [current EXCEPT ![u] = next] /\ leases' = Unlapsed(leases)
  BY <1>11, <1>12 DEF now, held
<1>22. \A s \in DOMAIN generations'[u] :
         /\ s \in DOMAIN generations[u] \union {next}
         /\ generations'[u][s] = Entered(u, content)[s]
         /\ \/ s > next - MaxRetained
            \/ \E l \in Unlapsed(leases) : l.universe = u /\ l.sequence = s
  BY <1>19 DEF held
<1>23. shards' = rows \intersect Members(generations')
  BY <1>9
<1> QED
  BY <1>15, <1>16, <1>18, <1>20, <1>21, <1>22, <1>23

LEMMA LeasesOfAre ==
  ASSUME NEW p, NEW l
  PROVE  /\ l \in LeasesOf(p) <=> l \in leases /\ l.owner \in HandlesOf(p) \union {p}
         /\ (l \in LeasesOf(p) <=> l \in leases /\ l.owner \in HandlesOf(p) \union {p})'
BY DEF LeasesOf, Owned

LEMMA FewerLeases ==
  ASSUME NEW p, leases' \subseteq leases
  PROVE  LeasesOf(p)' \subseteq LeasesOf(p)
BY LeasesOfAre

LEMMA OthersWork ==
  ASSUME TypeOK, TypeOK', Grows, NEW p \in Process, WorkingOf(p),
         work'[p] = work[p], LeasesOf(p) = {} => LeasesOf(p)' = {}
  PROVE  WorkingOf(p)'
<1>1. ASSUME work[p] \in Verifying
      PROVE  /\ \A row \in work[p].rows \union work[p].invalid : Past(row)'
             /\ \A row \in work[p].invalid : Lost(row)'
  <2>1. work[p].rows \subseteq Pin /\ work[p].invalid \subseteq Pin
    BY <1>1 DEF Verifying
  <2>2. \A row \in work[p].rows \union work[p].invalid : Past(row) /\ row \in Pin
    BY <1>1, <2>1 DEF WorkingOf
  <2>3. \A row \in work[p].invalid : Lost(row)
    BY <1>1 DEF WorkingOf
  <2> QED
    BY <2>2, <2>3, PastStays
<1>2. ASSUME work[p] \in Committing
      PROVE  Admissible(work[p])'
  <2>1. Admissible(work[p])
    BY <1>2 DEF WorkingOf
  <2> DEFINE w == work[p]
  <2>2. w \in Committing /\ Admissible(w)
    BY <1>2, <2>1
  <2> QED
    BY <2>2, AdmissibleStays DEF Admissible, Found, Manifest, CurrentId
<1> QED
  BY <1>1, <1>2 DEF WorkingOf

LEMMA RowsOf ==
  ASSUME NEW content \in Contents
  PROVE  Rows(content) \subseteq Key \X Payload
<1>1. \A k \in DOMAIN content : k \in Key /\ content[k] \in Payload
  BY DEF Contents, PartialFunctions
<1> QED
  BY <1>1 DEF Rows

LEMMA ManifestsClosed ==
  ASSUME DatabaseInv, NEW u \in Universe, NEW s
  PROVE  Manifest(u, s) \in Contents /\ FactsClosed(Manifest(u, s))
<1>1. CASE s \in DOMAIN generations[u]
  BY <1>1 DEF Manifest, DatabaseInv, TypeOK, Closures
<1>2. CASE s \notin DOMAIN generations[u]
  <2>1. Nothing \in [{} -> Payload]
    BY DEF Nothing
  <2>2. Nothing \in Contents
    <3>1. {} \in SUBSET Key
      OBVIOUS
    <3> QED
      BY <2>1, <3>1 DEF Contents, PartialFunctions
  <2>3. FactsClosed(Nothing)
    BY NothingHere DEF FactsClosed
  <2> QED
    BY <1>2, <2>2, <2>3 DEF Manifest
<1> QED
  BY <1>1, <1>2

(* What is written is closed, because the base it was admitted against is  *)
(* the one it is written over.                                             *)
LEMMA WrittenClosed ==
  ASSUME DatabaseInv, NEW p \in Process, work[p].stage = "admitted", BaseStands(p)
  PROVE  /\ work[p].universe \in Universe
         /\ work[p].sequence = current[work[p].universe]
         /\ work[p].tx \in Submitted
         /\ work[p].tx.manifest \in Contents /\ work[p].tx.upserts \in Contents
         /\ FactsClosed(work[p].tx.manifest)
<1> DEFINE w == work[p]
           read == Manifest(w.universe, w.sequence)
<1>1. w \in Committing
  BY WorkShapes DEF DatabaseInv
<1>2. w.universe \in Universe /\ w.sequence = current[w.universe]
  BY <1>1 DEF Committing, BaseStands
<1>3. Found(w)
  BY <1>1, <1>2 DEF DatabaseInv, Working, WorkingOf, Admissible
<1>4. /\ w.tx \in Submitted
      /\ Materialized(read, w.tx) = w.tx.manifest
      /\ DeltaClosed(read, w.tx)
  BY <1>3 DEF Found
<1>5. read \in Contents /\ FactsClosed(read)
  BY <1>2, ManifestsClosed
<1>6. w.tx \in Transaction /\ SelfConsistent(w.tx)
  BY <1>4 DEF Submitted
<1> HIDE DEF w, read
<1>7. FactsClosed(w.tx.manifest)
  BY <1>4, <1>5, <1>6, DeltaAdmissionExact
<1>8. w.tx.manifest \in Contents /\ w.tx.upserts \in Contents
  BY <1>6 DEF Transaction
<1> QED
  BY <1>2, <1>4, <1>7, <1>8 DEF w

LEMMA WriteCollects ==
  ASSUME DatabaseInv, NEW p \in Process, Write(p)
  PROVE  LET u == work[p].universe
             content == work[p].tx.manifest
             rows == shards \union Rows(work[p].tx.upserts)
         IN /\ current[u] + 1 \in Sequences
            /\ Rows(content) \subseteq rows
            /\ Collect(u, [generations EXCEPT ![u] = Entered(u, content)],
                          [current EXCEPT ![u] = current[u] + 1], rows)
<1>1. work[p].sequence = current[work[p].universe]
  BY WrittenClosed DEF Write
<1> QED
  BY <1>1 DEF Write, Entered

LEMMA WriteKeeps ==
  ASSUME DatabaseInv, NEW p \in Process, Write(p)
  PROVE  DatabaseInv' /\ Grows
<1> DEFINE u == work[p].universe
           content == work[p].tx.manifest
           upserts == work[p].tx.upserts
           next == current[u] + 1
<1>1. /\ u \in Universe /\ content \in Contents /\ upserts \in Contents
      /\ FactsClosed(content)
  BY WrittenClosed DEF Write
<1>2. /\ next \in Sequences /\ Rows(content) \subseteq shards \union Rows(upserts)
      /\ Collect(u, [generations EXCEPT ![u] = Entered(u, content)],
                    [current EXCEPT ![u] = next], shards \union Rows(upserts))
  BY WriteCollects
<1>3. work' = [work EXCEPT ![p] = Idle] /\ quarantined' = quarantined /\ pins' = pins
  BY DEF Write
<1> HIDE DEF u, content, upserts
<1>4. /\ current' = [current EXCEPT ![u] = next]
      /\ Functional' /\ DOMAIN generations' = Universe
      /\ \A v \in Universe : v # u => generations'[v] = generations[v]
      /\ \A s \in DOMAIN generations'[u] :
           /\ s \in DOMAIN generations[u] \union {next}
           /\ generations'[u][s] = Entered(u, content)[s]
      /\ \A s \in DOMAIN generations[u] \union {next} :
           next < s + MaxRetained => s \in DOMAIN generations'[u]
      /\ leases' = Unlapsed(leases)
      /\ \A l \in leases' : l.sequence \in DOMAIN generations'[l.universe]
      /\ shards' = (shards \union Rows(upserts)) \intersect Members(generations')
  BY <1>1, <1>2, Collected
<1>5. /\ current \in [Universe -> Sequences \union {0}]
      /\ current[u] \in Nat /\ next \in Nat /\ next > 0 /\ current[u] < next
      /\ \A s \in DOMAIN generations[u] : s \in Nat /\ s <= current[u] /\ s # next
      /\ \A v \in Universe : DOMAIN generations[v] \subseteq Sequences
      /\ \A v \in Universe : \A s \in DOMAIN generations[v] : generations[v][s] \in Contents
  <2>1. current[u] \in Nat /\ \A s \in DOMAIN generations[u] : s \in Nat /\ s <= current[u]
    BY <1>1, CurrentCounts DEF DatabaseInv, Recent
  <2> QED
    BY <2>1 DEF DatabaseInv, TypeOK
<1>6. /\ current'[u] = next
      /\ \A v \in Universe : v # u => current'[v] = current[v]
      /\ current' \in [Universe -> Sequences \union {0}]
  BY <1>1, <1>2, <1>4, <1>5
<1>7. \A s \in DOMAIN generations'[u] :
        /\ s \in Sequences /\ s <= next
        /\ s = next => generations'[u][s] = content
        /\ s # next => s \in DOMAIN generations[u] /\ generations'[u][s] = generations[u][s]
  <2> SUFFICES ASSUME NEW s \in DOMAIN generations'[u]
               PROVE  /\ s \in Sequences /\ s <= next
                      /\ s = next => generations'[u][s] = content
                      /\ s # next => /\ s \in DOMAIN generations[u]
                                     /\ generations'[u][s] = generations[u][s]
    OBVIOUS
  <2>1. s \in DOMAIN generations[u] \union {next} /\ generations'[u][s] = Entered(u, content)[s]
    BY <1>4
  <2>2. CASE s = next
    BY <2>1, <2>2, <1>2, <1>5 DEF Entered
  <2>3. CASE s # next
    BY <2>1, <2>3, <1>1, <1>5 DEF Entered
  <2> QED
    BY <2>2, <2>3
<1>8. next \in DOMAIN generations'[u]
  <2>1. next < next + MaxRetained
    BY <1>5, SQLiteAssumption
  <2> QED
    BY <2>1, <1>4
<1>9. Grows
  <2> SUFFICES ASSUME NEW v \in Universe
               PROVE  /\ current[v] <= current'[v]
                      /\ current'[v] = current[v] => generations'[v] = generations[v]
                      /\ \A s \in DOMAIN generations'[v] :
                           s <= current[v] => /\ s \in DOMAIN generations[v]
                                              /\ generations'[v][s] = generations[v][s]
    BY DEF Grows
  <2>1. CASE v = u
    BY <2>1, <1>5, <1>6, <1>7
  <2>2. CASE v # u
    <3>1. current[v] \in Nat
      BY CurrentCounts DEF DatabaseInv
    <3> QED
      BY <2>2, <3>1, <1>4, <1>6
  <2> QED
    BY <2>1, <2>2
<1>10. Recent'
  <2> SUFFICES ASSUME NEW v \in Universe
               PROVE  /\ current'[v] = 0 => DOMAIN generations'[v] = {}
                      /\ \A s \in DOMAIN generations'[v] : s <= current'[v]
                      /\ \A s \in Sequences : s <= current'[v] /\ current'[v] < s + MaxRetained
                                                => s \in DOMAIN generations'[v]
    BY DEF Recent
  <2>1. CASE v = u
    <3>1. ASSUME NEW s \in Sequences, s <= next, next < s + MaxRetained
          PROVE  s \in DOMAIN generations'[u]
      <4>1. CASE s = next
        BY <4>1, <1>8
      <4>2. CASE s # next
        <5>1. s \in Nat /\ s <= current[u] /\ current[u] < s + MaxRetained
          BY <4>2, <3>1, <1>5, Numbers, SQLiteAssumption
        <5>2. s \in DOMAIN generations[u]
          BY <5>1, <1>1 DEF DatabaseInv, Recent
        <5> QED
          BY <5>2, <3>1, <1>4
      <4> QED
        BY <4>1, <4>2
    <3> QED
      BY <2>1, <3>1, <1>5, <1>6, <1>7
  <2>2. CASE v # u
    BY <2>2, <1>4, <1>6 DEF DatabaseInv, Recent
  <2> QED
    BY <2>1, <2>2
<1>11. Closures'
  BY <1>1, <1>4, <1>7 DEF Closures, DatabaseInv
<1>12. References'
  BY <1>4 DEF References
<1>13. /\ \A v \in Universe : DOMAIN generations'[v] \subseteq Sequences
       /\ \A v \in Universe : \A s \in DOMAIN generations'[v] : generations'[v][s] \in Contents
  BY <1>1, <1>4, <1>5, <1>7
<1>14. shards' = Members(generations')
  <2> SUFFICES ASSUME NEW row \in Members(generations')
               PROVE  row \in shards \union Rows(upserts)
    BY <1>4
  <2>1. PICK v \in Universe, s \in Sequences :
          s \in DOMAIN generations'[v] /\ row \in Rows(generations'[v][s])
    BY MembersOf
  <2>2. CASE v = u /\ s = next
    BY <2>1, <2>2, <1>2, <1>7
  <2>3. CASE ~(v = u /\ s = next)
    <3>1. s \in DOMAIN generations[v] /\ row \in Rows(generations[v][s])
      BY <2>1, <2>3, <1>4, <1>7
    <3>2. row \in Members(generations)
      BY <3>1, MembersOf
    <3> QED
      BY <3>2, ShardsMembers DEF DatabaseInv
  <2> QED
    BY <2>2, <2>3
<1>15. ShardsExact'
  BY <1>14 DEF ShardsExact, Members, Stored, Rows
<1>16. shards' \in SUBSET (Key \X Payload)
  BY <1>1, <1>4, RowsOf DEF DatabaseInv, TypeOK
<1>17. leases' \subseteq leases
  BY <1>4 DEF Unlapsed
<1>18. \A q \in Process : work'[q] = Closed => LeasesOf(q)' = {}
  <2> SUFFICES ASSUME NEW q \in Process, work'[q] = Closed PROVE LeasesOf(q)' = {}
    OBVIOUS
  <2>1. q # p
    BY <1>3 DEF DatabaseInv, TypeOK, Idle, Closed
  <2>2. work[q] = Closed
    BY <2>1, <1>3 DEF DatabaseInv, TypeOK
  <2>3. LeasesOf(q) = {}
    BY <2>2 DEF DatabaseInv, TypeOK
  <2> QED
    BY <2>3, <1>17, FewerLeases
<1>19. TypeOK'
  <2>1. DOMAIN work' = Process
    BY <1>3 DEF DatabaseInv, TypeOK
  <2>2. \A q \in Process : \/ work'[q] \in {Closed, Idle}
                           \/ work'[q] \in Verifying
                           \/ work'[q] \in Committing
    BY <1>3 DEF DatabaseInv, TypeOK
  <2>3. /\ leases' \in SUBSET Lease /\ quarantined' \in SUBSET (Universe \X Sequences)
        /\ pins' \in [Handle -> SUBSET Pin]
    BY <1>3, <1>17 DEF DatabaseInv, TypeOK
  <2> QED
    BY <1>4, <1>6, <1>13, <1>16, <1>18, <2>1, <2>2, <2>3 DEF TypeOK
<1>20. Working'
  <2> SUFFICES ASSUME NEW q \in Process PROVE WorkingOf(q)'
    BY DEF Working
  <2>1. CASE q = p
    <3>1. work'[q] = Idle
      BY <2>1, <1>3 DEF DatabaseInv, TypeOK
    <3> QED
      BY <3>1 DEF WorkingOf, Idle, Verifying, Committing
  <2>2. CASE q # p
    <3>1. work'[q] = work[q]
      BY <2>2, <1>3 DEF DatabaseInv, TypeOK
    <3>2. LeasesOf(q) = {} => LeasesOf(q)' = {}
      BY <1>17, FewerLeases
    <3> QED
      BY <3>1, <3>2, <1>9, <1>19, OthersWork DEF DatabaseInv, Working
  <2> QED
    BY <2>1, <2>2
<1> QED
  BY <1>4, <1>9, <1>10, <1>11, <1>12, <1>15, <1>19, <1>20 DEF DatabaseInv

-----------------------------------------------------------------------------
(* Verification *)

(* What a verification found wrong has been collected meanwhile, and its   *)
(* sequence is never used again: quarantine deletes nothing.               *)
LEMMA QuarantineSpares ==
  ASSUME DatabaseInv, NEW p \in Process, Quarantine(p)
  PROVE  UNCHANGED <<generations, current, shards, leases>>
<1> DEFINE gone == {<<row.universe, row.sequence>> : row \in work[p].invalid}
<1>1. /\ work[p] \in Verifying
      /\ generations' = [u \in Universe |->
                           [s \in {t \in DOMAIN generations[u] : <<u, t>> \notin gone}
                              |-> generations[u][s]]]
      /\ current' = [u \in Universe |-> IF <<u, current[u]>> \in gone THEN 0 ELSE current[u]]
      /\ leases' = {l \in leases : <<l.universe, l.sequence>> \notin gone}
      /\ shards' = shards \intersect Members(generations')
  BY WorkShapes DEF DatabaseInv, Quarantine, Delete, WithoutOrphans
<1>2. /\ work[p].invalid \subseteq Pin
      /\ \A row \in work[p].invalid : row.sequence \notin DOMAIN generations[row.universe]
  BY <1>1 DEF DatabaseInv, Working, WorkingOf, Lost, Verifying
<1>3. \A u, s : <<u, s>> \in gone => s \notin DOMAIN generations[u] /\ s \in Sequences
  <2> SUFFICES ASSUME NEW row \in work[p].invalid
               PROVE  /\ row.sequence \notin DOMAIN generations[row.universe]
                      /\ row.sequence \in Sequences
    OBVIOUS
  <2> QED
    BY <1>2 DEF Pin
<1> HIDE DEF gone
<1>4. generations' = generations
  <2>1. \A u \in Universe : {t \in DOMAIN generations[u] : <<u, t>> \notin gone} = DOMAIN generations[u]
    BY <1>3
  <2>2. generations' = [u \in Universe |-> [s \in DOMAIN generations[u] |-> generations[u][s]]]
    BY <1>1, <2>1
  <2>3. \A u \in Universe : [s \in DOMAIN generations[u] |-> generations[u][s]] = generations[u]
    BY DEF DatabaseInv, Functional
  <2>4. generations' = [u \in Universe |-> generations[u]]
    BY <2>2, <2>3
  <2> QED
    BY <2>4 DEF DatabaseInv, Functional
<1>5. current' = current
  <2>1. ASSUME NEW u \in Universe, <<u, current[u]>> \in gone
        PROVE  FALSE
    <3>1. current[u] \in Sequences /\ current[u] \notin DOMAIN generations[u]
      BY <1>3, <2>1
    <3>2. current[u] \in Nat /\ current[u] < current[u] + MaxRetained
      BY <3>1, Numbers, SQLiteAssumption
    <3> QED
      BY <3>1, <3>2 DEF DatabaseInv, Recent
  <2>2. current = [u \in Universe |-> current[u]]
    BY DEF DatabaseInv, TypeOK
  <2> QED
    BY <1>1, <2>1, <2>2
<1>6. leases' = leases
  BY <1>1, <1>3 DEF DatabaseInv, References
<1>7. shards' = shards
  BY <1>1, <1>4, ShardsMembers DEF DatabaseInv
<1> QED
  BY <1>4, <1>5, <1>6, <1>7

LEMMA StandingKeeps ==
  ASSUME DatabaseInv, UNCHANGED <<generations, current, shards>>, TypeOK', References', Working'
  PROVE  DatabaseInv'
BY DEF DatabaseInv, Functional, Recent, Closures, ShardsExact

(* A step of one process that leaves the database alone.                   *)
LEMMA ProcessKeeps ==
  ASSUME DatabaseInv, NEW p \in Process, UNCHANGED <<database, pins>>,
         DOMAIN work' = Process, \A q \in Process : q # p => work'[q] = work[q],
         work'[p] # Closed,
         work'[p] = Idle \/ work'[p] \in Verifying \/ work'[p] \in Committing,
         TypeOK' => WorkingOf(p)'
  PROVE  DatabaseInv'
<1>1. leases' = leases /\ \A q : LeasesOf(q)' = LeasesOf(q)
  BY LeasesOfAre DEF database
<1>2. TypeOK'
  BY <1>1 DEF database, DatabaseInv, TypeOK
<1>3. Working'
  BY <1>1, <1>2, OthersWork, DatabaseStands DEF DatabaseInv, Working
<1>4. References'
  BY DEF database, DatabaseInv, References
<1> QED
  BY <1>2, <1>3, <1>4, StandingKeeps DEF database

LEMMA BeginOpenKeeps ==
  ASSUME DatabaseInv, NEW p \in Process, BeginOpen(p)
  PROVE  DatabaseInv'
<1> DEFINE rows == {[universe |-> us[1], sequence |-> us[2], value |-> generations[us[1]][us[2]]]
                      : us \in Stored(generations)}
           w == [stage |-> "verifying", invalid |-> {}, rows |-> rows]
<1>1. /\ work[p] = Closed /\ UNCHANGED <<database, pins>>
      /\ work' = [work EXCEPT ![p] = w]
  BY DEF BeginOpen
<1>2. ASSUME NEW row \in rows
      PROVE  row \in Pin /\ Past(row)
  <2>1. PICK us \in Stored(generations) :
          row = [universe |-> us[1], sequence |-> us[2], value |-> generations[us[1]][us[2]]]
    OBVIOUS
  <2>2. us[1] \in Universe /\ us[2] \in Sequences /\ us[2] \in DOMAIN generations[us[1]]
    BY DEF Stored
  <2>3. generations[us[1]][us[2]] \in Contents /\ us[2] <= current[us[1]]
    BY <2>2 DEF DatabaseInv, TypeOK, Recent
  <2>4. row \in Pin
    BY <2>1, <2>2, <2>3 DEF Pin
  <2>5. Past(row)
    BY <2>1, <2>3 DEF Past
  <2> QED
    BY <2>4, <2>5
<1> HIDE DEF rows
<1>3. w \in Verifying /\ w # Closed /\ work'[p] = w /\ DOMAIN work' = Process
  BY <1>1, <1>2 DEF Verifying, Closed, DatabaseInv, TypeOK
<1>4. LeasesOf(p)' = {}
  BY <1>1, LeasesOfAre DEF DatabaseInv, TypeOK, database
<1>5. \A row \in rows : Past(row)'
  BY <1>1, <1>2 DEF Past, database
<1>6. WorkingOf(p)'
  <2>1. w \notin Committing
    BY DEF Committing
  <2> QED
    BY <1>3, <1>4, <1>5, <2>1 DEF WorkingOf
<1> QED
  BY <1>1, <1>3, <1>6, ProcessKeeps DEF DatabaseInv, TypeOK

LEMMA VerifyKeeps ==
  ASSUME DatabaseInv, NEW p \in Process, NEW row \in work[p].rows, Verify(p, row)
  PROVE  DatabaseInv'
<1> DEFINE before == work[p]
           after == [stage |-> "verifying", rows |-> before.rows \ {row},
                     invalid |-> IF Healthy(row) THEN before.invalid
                                                 ELSE before.invalid \union {row}]
<1>1. before \in Verifying /\ row \in Pin
  BY WorkShapes DEF Verify, DatabaseInv, Verifying
<1>2. /\ work' = [work EXCEPT ![p].rows = @ \ {row},
                              ![p].invalid = IF Healthy(row) THEN @ ELSE @ \union {row}]
      /\ UNCHANGED <<database, pins>>
  BY DEF Verify
<1>3. /\ DOMAIN work' = Process /\ \A q \in Process : q # p => work'[q] = work[q]
      /\ work'[p] = after
  BY <1>1, <1>2 DEF DatabaseInv, TypeOK, Verifying
<1>4. after \in Verifying /\ after # Closed /\ after \notin Committing
  BY <1>1 DEF Verifying, Closed, Committing
<1>5. /\ LeasesOf(p) = {}
      /\ \A r \in before.rows \union before.invalid : Past(r)
      /\ \A r \in before.invalid : Lost(r)
  BY <1>1 DEF DatabaseInv, Working, WorkingOf
<1>6. ASSUME ~Healthy(row) PROVE Lost(row)
  <2> SUFFICES ASSUME row.sequence \in DOMAIN generations[row.universe] PROVE FALSE
    BY DEF Lost
  <2>1. Manifest(row.universe, row.sequence) = row.value
    BY <1>5 DEF Manifest, Past
  <2>2. FactsClosed(Manifest(row.universe, row.sequence))
    BY <1>1, ManifestsClosed DEF Pin
  <2> QED
    BY <1>6, <2>1, <2>2 DEF Healthy
<1>7. LeasesOf(p)' = {}
  BY <1>2, <1>5, LeasesOfAre DEF database
<1>8. /\ \A r \in after.rows \union after.invalid : Past(r)
      /\ \A r \in after.invalid : Lost(r)
  BY <1>5, <1>6
<1> HIDE DEF after
<1>9. /\ \A r \in after.rows \union after.invalid : Past(r)'
      /\ \A r \in after.invalid : Lost(r)'
  BY <1>2, <1>8 DEF Past, Lost, database
<1>10. WorkingOf(p)'
  BY <1>3, <1>4, <1>7, <1>9 DEF WorkingOf
<1> QED
  BY <1>2, <1>3, <1>4, <1>10, ProcessKeeps

LEMMA QuarantineKeeps ==
  ASSUME DatabaseInv, NEW p \in Process, Quarantine(p)
  PROVE  DatabaseInv'
<1>1. UNCHANGED <<generations, current, shards, leases>>
  BY QuarantineSpares
<1>2. /\ work[p] \in Verifying /\ work' = [work EXCEPT ![p] = Closed] /\ pins' = pins
      /\ quarantined' = quarantined \union {<<row.universe, row.sequence>> : row \in work[p].invalid}
  BY WorkShapes DEF Quarantine, DatabaseInv
<1>3. quarantined' \in SUBSET (Universe \X Sequences)
  <2>1. work[p].invalid \subseteq Pin
    BY <1>2 DEF Verifying
  <2>2. \A row \in work[p].invalid : <<row.universe, row.sequence>> \in Universe \X Sequences
    BY <2>1 DEF Pin
  <2> QED
    BY <1>2, <2>2 DEF DatabaseInv, TypeOK
<1>4. /\ DOMAIN work' = Process /\ work'[p] = Closed
      /\ \A q \in Process : q # p => work'[q] = work[q]
  BY <1>2 DEF DatabaseInv, TypeOK
<1>5. LeasesOf(p) = {} /\ \A q : LeasesOf(q)' = LeasesOf(q)
  <2>1. LeasesOf(p) = {}
    BY <1>2 DEF DatabaseInv, Working, WorkingOf
  <2>2. \A q : LeasesOf(q)' = LeasesOf(q)
    BY <1>1, LeasesOfAre
  <2> QED
    BY <2>1, <2>2
<1>6. TypeOK'
  BY <1>1, <1>2, <1>3, <1>4, <1>5 DEF DatabaseInv, TypeOK
<1>7. Grows
  BY <1>1, CurrentCounts DEF DatabaseInv, Grows
<1>8. WorkingOf(p)'
  BY <1>4 DEF WorkingOf, Closed, Verifying, Committing
<1>9. Working'
  BY <1>4, <1>5, <1>6, <1>7, <1>8, OthersWork DEF DatabaseInv, Working
<1>10. References'
  BY <1>1 DEF DatabaseInv, References
<1> QED
  BY <1>1, <1>6, <1>9, <1>10, StandingKeeps

-----------------------------------------------------------------------------
(* Admission *)

LEMMA CommittingWorks ==
  ASSUME NEW p, work'[p] \in Committing, Admissible(work[p])'
  PROVE  WorkingOf(p)'
<1>1. work'[p] \notin Verifying
  BY DEF Verifying, Committing
<1> QED
  BY <1>1 DEF WorkingOf

LEMMA BeginCommitKeeps ==
  ASSUME DatabaseInv, NEW p \in Process, NEW u \in Universe, BeginCommit(p, u)
  PROVE  DatabaseInv'
<1> DEFINE w == [stage |-> "based", universe |-> u, base |-> CurrentId(u),
                 sequence |-> current[u], tx |-> NoTransaction]
<1>1. UNCHANGED <<database, pins>> /\ work' = [work EXCEPT ![p] = w]
  BY DEF BeginCommit
<1>2. /\ current[u] \in Nat
      /\ current[u] # 0 => current[u] \in Sequences
  BY Counting DEF DatabaseInv, TypeOK
<1>3. CurrentId(u) \in Contents \union {NoContent}
  <2>1. ASSUME current[u] # 0 PROVE current[u] \in DOMAIN generations[u]
    <3>1. current[u] < current[u] + MaxRetained
      BY <1>2, SQLiteAssumption
    <3> QED
      BY <1>2, <2>1, <3>1 DEF DatabaseInv, Recent
  <2> QED
    BY <2>1 DEF CurrentId, DatabaseInv, TypeOK
<1>4. w \in Committing /\ w # Closed
  BY <1>2, <1>3 DEF Committing, Closed
<1>5. /\ work'[p] = w /\ DOMAIN work' = Process
      /\ \A q \in Process : q # p => work'[q] = work[q]
  BY <1>1 DEF DatabaseInv, TypeOK
<1>6. Admissible(w)
  BY <1>2 DEF Admissible, Found
<1>7. Admissible(work[p])'
  <2> HIDE DEF w
  <2>1. w.universe \in Universe
    BY <1>4 DEF Committing
  <2> QED
    BY <1>1, <1>5, <1>6, <2>1 DEF Admissible, Found, Manifest, CurrentId, database
<1>8. WorkingOf(p)'
  BY <1>4, <1>5, <1>7, CommittingWorks
<1> QED
  BY <1>1, <1>4, <1>5, <1>8, ProcessKeeps

(* A step of admission says more of the same base.                         *)
LEMMA AdmissionKeeps ==
  ASSUME DatabaseInv, NEW p \in Process, work[p] \in Committing,
         NEW w \in Committing, UNCHANGED <<database, pins>>, work' = [work EXCEPT ![p] = w],
         w.universe = work[p].universe, w.sequence = work[p].sequence, w.base = work[p].base,
         Found(work[p]) => Found(w)
  PROVE  DatabaseInv'
<1>1. /\ work'[p] = w /\ DOMAIN work' = Process
      /\ \A q \in Process : q # p => work'[q] = work[q]
  BY DEF DatabaseInv, TypeOK
<1>2. w # Closed
  BY DEF Committing, Closed
<1>3. Admissible(w)
  BY DEF DatabaseInv, Working, WorkingOf, Admissible
<1>4. Admissible(work[p])'
  BY <1>1, <1>3 DEF Admissible, Found, Manifest, CurrentId, database
<1>5. WorkingOf(p)'
  BY <1>1, <1>4, CommittingWorks
<1> QED
  BY <1>1, <1>2, <1>5, ProcessKeeps

LEMMA MatchKeeps ==
  ASSUME DatabaseInv, NEW p \in Process, NEW tx \in Submitted, Match(p, tx)
  PROVE  DatabaseInv'
<1> DEFINE read == Manifest(work[p].universe, work[p].sequence)
           w == [work[p] EXCEPT !.stage = "matched", !.tx = tx]
<1>1. /\ work[p] \in Committing /\ work[p].stage = "based"
      /\ tx.deletes \subseteq DOMAIN read /\ Materialized(read, tx) = tx.manifest
      /\ work' = [work EXCEPT ![p].stage = "matched", ![p].tx = tx]
      /\ UNCHANGED <<database, pins>>
  BY WorkShapes DEF DatabaseInv, Match
<1>2. work' = [work EXCEPT ![p] = w]
  BY <1>1 DEF DatabaseInv, TypeOK
<1>3. /\ w \in Committing /\ w.tx = tx /\ w.stage = "matched"
      /\ w.universe = work[p].universe /\ w.sequence = work[p].sequence
      /\ w.base = work[p].base
  BY <1>1 DEF Committing, Submitted
<1> HIDE DEF w
<1>4. Found(work[p]) => Found(w)
  BY <1>1, <1>3 DEF Found
<1> QED
  BY <1>1, <1>2, <1>3, <1>4, AdmissionKeeps

LEMMA AdmitKeeps ==
  ASSUME DatabaseInv, NEW p \in Process, Admit(p)
  PROVE  DatabaseInv'
<1> DEFINE w == [work[p] EXCEPT !.stage = "admitted"]
<1>1. /\ work[p] \in Committing /\ work[p].stage = "matched"
      /\ DeltaClosed(Manifest(work[p].universe, work[p].sequence), work[p].tx)
      /\ work' = [work EXCEPT ![p].stage = "admitted"]
      /\ UNCHANGED <<database, pins>>
  BY WorkShapes DEF DatabaseInv, Admit
<1>2. work' = [work EXCEPT ![p] = w]
  BY <1>1 DEF DatabaseInv, TypeOK
<1>3. /\ w \in Committing /\ w.tx = work[p].tx /\ w.stage = "admitted"
      /\ w.universe = work[p].universe /\ w.sequence = work[p].sequence
      /\ w.base = work[p].base
  BY <1>1 DEF Committing
<1> HIDE DEF w
<1>4. Found(work[p]) => Found(w)
  BY <1>1, <1>3 DEF Found
<1> QED
  BY <1>1, <1>2, <1>3, <1>4, AdmissionKeeps

(* A store that becomes idle, having opened or given up a commit.          *)
LEMMA IdleKeeps ==
  ASSUME DatabaseInv, NEW p \in Process, UNCHANGED <<database, pins>>,
         work' = [work EXCEPT ![p] = Idle]
  PROVE  DatabaseInv'
<1>1. /\ work'[p] = Idle /\ DOMAIN work' = Process
      /\ \A q \in Process : q # p => work'[q] = work[q]
  BY DEF DatabaseInv, TypeOK
<1>2. Idle # Closed /\ Idle \notin Verifying /\ Idle \notin Committing
  BY DEF Idle, Closed, Verifying, Committing
<1>3. WorkingOf(p)'
  BY <1>1, <1>2 DEF WorkingOf
<1> QED
  BY <1>1, <1>2, <1>3, ProcessKeeps

-----------------------------------------------------------------------------
(* Leases *)

LEMMA OwnersApart ==
  ASSUME NEW p \in Process, NEW q \in Process, NEW o, o \in HandlesOf(p) \union {p}
  PROVE  /\ o \in HandlesOf(q) \union {q} => p = q
         /\ o # Nobody
BY SQLiteAssumption DEF HandlesOf

LEMMA LeasesKeep ==
  ASSUME DatabaseInv, UNCHANGED <<generations, current, shards, quarantined, work>>,
         leases' \subseteq Lease, pins' \in [Handle -> SUBSET Pin], References',
         \A l \in leases' :
           \/ l.owner = Nobody
           \/ \E m \in leases : m.owner = l.owner
           \/ \E q \in Process : work[q] = Idle /\ l.owner \in HandlesOf(q) \union {q}
  PROVE  DatabaseInv'
<1>1. ASSUME NEW p \in Process, LeasesOf(p) = {}, work[p] # Idle
      PROVE  LeasesOf(p)' = {}
  <2> SUFFICES ASSUME NEW l \in LeasesOf(p)' PROVE FALSE
    OBVIOUS
  <2>1. l \in leases' /\ l.owner \in HandlesOf(p) \union {p}
    BY LeasesOfAre
  <2>2. l.owner # Nobody
    BY <2>1, OwnersApart
  <2>3. CASE \E m \in leases : m.owner = l.owner
    BY <2>1, <2>3, <1>1, LeasesOfAre
  <2>4. CASE \E q \in Process : work[q] = Idle /\ l.owner \in HandlesOf(q) \union {q}
    BY <2>1, <2>4, <1>1, OwnersApart
  <2> QED
    BY <2>1, <2>2, <2>3, <2>4
<1>2. \A p \in Process : work'[p] = Closed => LeasesOf(p)' = {}
  <2>1. Closed # Idle
    BY DEF Closed, Idle
  <2>2. \A p \in Process : work[p] = Closed => LeasesOf(p) = {}
    BY DEF DatabaseInv, TypeOK
  <2> QED
    BY <2>1, <2>2, <1>1
<1>3. TypeOK'
  BY <1>2 DEF DatabaseInv, TypeOK
<1>4. Working'
  <2> SUFFICES ASSUME NEW p \in Process PROVE WorkingOf(p)'
    BY DEF Working
  <2>1. WorkingOf(p)
    BY DEF DatabaseInv, Working
  <2>2. work[p] \in Verifying => LeasesOf(p)' = {}
    <3>1. Idle \notin Verifying
      BY DEF Idle, Verifying
    <3> QED
      BY <2>1, <3>1, <1>1 DEF WorkingOf
  <2> QED
    BY <2>1, <2>2 DEF WorkingOf, Past, Lost, Admissible, Found, Manifest, CurrentId
<1> QED
  BY <1>3, <1>4, StandingKeeps

LEMMA OwnedAre ==
  ASSUME NEW o, NEW l
  PROVE  /\ l \in Owned(o) <=> l \in leases /\ l.owner = o
         /\ l \in Owned(o)' <=> l \in leases' /\ l.owner = o
BY DEF Owned

(* The rows of one handle are those of what it holds.                      *)
LEMMA MatchesAre ==
  ASSUME NEW rows, NEW held
  PROVE  {<<l.universe, l.sequence>> : l \in rows} =
           {<<pin.universe, pin.sequence>> : pin \in held} <=>
         /\ \A l \in rows : \E pin \in held :
              l.universe = pin.universe /\ l.sequence = pin.sequence
         /\ \A pin \in held : \E l \in rows :
              l.universe = pin.universe /\ l.sequence = pin.sequence
<1> DEFINE A == {<<l.universe, l.sequence>> : l \in rows}
           B == {<<pin.universe, pin.sequence>> : pin \in held}
<1>1. ASSUME A = B
      PROVE  /\ \A l \in rows : \E pin \in held :
                  l.universe = pin.universe /\ l.sequence = pin.sequence
             /\ \A pin \in held : \E l \in rows :
                  l.universe = pin.universe /\ l.sequence = pin.sequence
  <2>1. ASSUME NEW l \in rows
        PROVE  \E pin \in held : l.universe = pin.universe /\ l.sequence = pin.sequence
    <3>1. <<l.universe, l.sequence>> \in B
      BY <1>1
    <3> QED
      BY <3>1
  <2>2. ASSUME NEW pin \in held
        PROVE  \E l \in rows : l.universe = pin.universe /\ l.sequence = pin.sequence
    <3>1. <<pin.universe, pin.sequence>> \in A
      BY <1>1
    <3> QED
      BY <3>1
  <2> QED
    BY <2>1, <2>2
<1>2. ASSUME \A l \in rows : \E pin \in held :
               l.universe = pin.universe /\ l.sequence = pin.sequence,
             \A pin \in held : \E l \in rows :
               l.universe = pin.universe /\ l.sequence = pin.sequence
      PROVE  A = B
  <2>1. A \subseteq B
    BY <1>2
  <2>2. B \subseteq A
    BY <1>2
  <2> QED
    BY <2>1, <2>2
<1> QED
  BY <1>1, <1>2

LEMMA TakenAre ==
  ASSUME NEW chosen
  PROVE  /\ \A pin \in Taken(chosen) :
              /\ pin.universe \in DOMAIN chosen /\ pin.sequence = chosen[pin.universe]
              /\ pin.value = generations[pin.universe][pin.sequence]
              /\ pin = [universe |-> pin.universe, sequence |-> pin.sequence,
                        value |-> pin.value]
         /\ \A u \in DOMAIN chosen : \E pin \in Taken(chosen) :
              pin.universe = u /\ pin.sequence = chosen[u]
<1>1. \A u \in DOMAIN chosen :
        LET pin == [universe |-> u, sequence |-> chosen[u], value |-> generations[u][chosen[u]]]
        IN pin \in Taken(chosen) /\ pin.universe = u /\ pin.sequence = chosen[u]
  BY DEF Taken
<1>2. \A u \in DOMAIN chosen : \E pin \in Taken(chosen) :
              pin.universe = u /\ pin.sequence = chosen[u]
  BY <1>1
<1> QED
  BY <1>2 DEF Taken

LEMMA LeasesForAre ==
  ASSUME NEW h, NEW chosen
  PROVE  /\ \A l \in LeasesFor(h, chosen) :
              /\ l.universe \in DOMAIN chosen /\ l.sequence = chosen[l.universe]
              /\ l.owner = h /\ ~l.lapsed
              /\ l = [owner |-> h, universe |-> l.universe, sequence |-> l.sequence,
                      lapsed |-> FALSE]
         /\ \A u \in DOMAIN chosen : \E l \in LeasesFor(h, chosen) :
              l.universe = u /\ l.sequence = chosen[u]
<1>1. \A u \in DOMAIN chosen :
        LET l == [owner |-> h, universe |-> u, sequence |-> chosen[u], lapsed |-> FALSE]
        IN l \in LeasesFor(h, chosen) /\ l.universe = u /\ l.sequence = chosen[u]
  BY DEF LeasesFor
<1>2. \A u \in DOMAIN chosen : \E l \in LeasesFor(h, chosen) :
              l.universe = u /\ l.sequence = chosen[u]
  BY <1>1
<1> QED
  BY <1>2 DEF LeasesFor

LEMMA PinnedKeeps ==
  ASSUME DatabaseInv, NEW h \in Handle, NEW chosen, Free(h), Pinned(h, chosen),
         DOMAIN chosen \subseteq Universe,
         \A u \in DOMAIN chosen : chosen[u] \in DOMAIN generations[u],
         UNCHANGED <<generations, current, shards, quarantined, work>>
  PROVE  DatabaseInv' /\ (LeaseInv => LeaseInv')
<1>1. /\ leases' = leases \union LeasesFor(h, chosen)
      /\ pins' = [pins EXCEPT ![h] = Taken(chosen)]
      /\ pins[h] = {} /\ work[ProcessOf[h]] = Idle
  BY DEF Pinned, Free
<1>2. /\ leases \subseteq Lease /\ pins \in [Handle -> SUBSET Pin]
      /\ \A u \in Universe : /\ DOMAIN generations[u] \subseteq Sequences
                             /\ \A s \in DOMAIN generations[u] : generations[u][s] \in Contents
  BY DEF DatabaseInv, TypeOK
<1>3. \A u \in DOMAIN chosen : u \in Universe /\ chosen[u] \in Sequences
                               /\ generations[u][chosen[u]] \in Contents
  BY <1>2
<1>4. LeasesFor(h, chosen) \subseteq Lease
  <2> SUFFICES ASSUME NEW l \in LeasesFor(h, chosen) PROVE l \in Lease
    OBVIOUS
  <2>1. /\ l = [owner |-> h, universe |-> l.universe, sequence |-> l.sequence, lapsed |-> FALSE]
        /\ l.universe \in Universe /\ l.sequence \in Sequences
    BY <1>3, LeasesForAre
  <2>2. [owner |-> h, universe |-> l.universe, sequence |-> l.sequence, lapsed |-> FALSE] \in Lease
    BY <2>1 DEF Lease
  <2> QED
    BY <2>1, <2>2
<1>5. Taken(chosen) \subseteq Pin
  <2> SUFFICES ASSUME NEW pin \in Taken(chosen) PROVE pin \in Pin
    OBVIOUS
  <2>1. /\ pin = [universe |-> pin.universe, sequence |-> pin.sequence, value |-> pin.value]
        /\ pin.universe \in DOMAIN chosen /\ pin.sequence = chosen[pin.universe]
        /\ pin.value = generations[pin.universe][pin.sequence]
    BY TakenAre
  <2>2. pin.universe \in Universe /\ pin.sequence \in Sequences /\ pin.value \in Contents
    BY <1>3, <2>1
  <2>3. [universe |-> pin.universe, sequence |-> pin.sequence, value |-> pin.value] \in Pin
    BY <2>2 DEF Pin
  <2> QED
    BY <2>1, <2>3
<1>6. pins' \in [Handle -> SUBSET Pin] /\ pins'[h] = Taken(chosen)
      /\ \A k \in Handle : k # h => pins'[k] = pins[k]
  BY <1>1, <1>2, <1>5
<1>7. References'
  BY <1>1, LeasesForAre DEF DatabaseInv, References
<1>8. \A l \in leases' :
        \/ l.owner = Nobody
        \/ \E m \in leases : m.owner = l.owner
        \/ \E q \in Process : work[q] = Idle /\ l.owner \in HandlesOf(q) \union {q}
  <2>1. ProcessOf[h] \in Process /\ h \in HandlesOf(ProcessOf[h])
    BY SQLiteAssumption DEF HandlesOf
  <2> QED
    BY <2>1, <1>1, LeasesForAre
<1>9. DatabaseInv'
  BY <1>1, <1>2, <1>4, <1>6, <1>7, <1>8, LeasesKeep
<1>10. ASSUME LeaseInv PROVE LeaseInv'
  <2>1. Renewed'
    BY <1>1, <1>10, LeasesForAre DEF LeaseInv, Renewed
  <2>2. Owned(h) = {}
    <3>1. \A l \in Owned(h) : \E pin \in pins[h] : TRUE
      BY <1>10, MatchesAre DEF LeaseInv, LeasesMatchPins
    <3> QED
      BY <1>1, <3>1
  <2>3. Owned(h)' = LeasesFor(h, chosen)
    <3>1. \A l : l \in Owned(h)' <=> l \in LeasesFor(h, chosen)
      BY <1>1, <2>2, OwnedAre, LeasesForAre
    <3> QED
      BY <3>1
  <2>4. ASSUME NEW k \in Handle, k # h PROVE Owned(k)' = Owned(k)
    <3>1. \A l : l \in Owned(k)' <=> l \in Owned(k)
      BY <1>1, <2>4, OwnedAre, LeasesForAre
    <3> QED
      BY <3>1
  <2>5. LeasesMatchPins'
    <3> SUFFICES ASSUME NEW k \in Handle
                 PROVE  {<<l.universe, l.sequence>> : l \in Owned(k)'} =
                        {<<pin.universe, pin.sequence>> : pin \in pins'[k]}
      BY DEF LeasesMatchPins
    <3>1. CASE k = h
      <4>1. /\ \A l \in Owned(k)' : \E pin \in pins'[k] :
                 l.universe = pin.universe /\ l.sequence = pin.sequence
            /\ \A pin \in pins'[k] : \E l \in Owned(k)' :
                 l.universe = pin.universe /\ l.sequence = pin.sequence
        BY <3>1, <2>3, <1>6, TakenAre, LeasesForAre
      <4> QED
        BY <4>1, MatchesAre
    <3>2. CASE k # h
      BY <3>2, <2>4, <1>6, <1>10 DEF LeaseInv, LeasesMatchPins
    <3> QED
      BY <3>1, <3>2
  <2>6. ReadersKeepGenerations'
    <3> SUFFICES ASSUME NEW k \in Handle, NEW pin \in pins'[k]
                 PROVE  /\ pin.sequence \in DOMAIN generations'[pin.universe]
                        /\ generations'[pin.universe][pin.sequence] = pin.value
      BY DEF ReadersKeepGenerations
    <3>1. CASE k = h
      <4>1. /\ pin.universe \in DOMAIN chosen /\ pin.sequence = chosen[pin.universe]
            /\ pin.value = generations[pin.universe][pin.sequence]
        BY <3>1, <1>6, TakenAre
      <4> QED
        BY <4>1
    <3>2. CASE k # h
      BY <3>2, <1>6, <1>10 DEF LeaseInv, ReadersKeepGenerations
    <3> QED
      BY <3>1, <3>2
  <2> QED
    BY <2>1, <2>5, <2>6 DEF LeaseInv
<1> QED
  BY <1>9, <1>10

LEMMA ChoicesStored ==
  ASSUME NEW chosen \in Choices
  PROVE  /\ DOMAIN chosen \subseteq Universe
         /\ \A u \in DOMAIN chosen : chosen[u] \in DOMAIN generations[u]
BY DEF Choices, PartialFunctions, Newest

LEMMA CurrentStored ==
  ASSUME DatabaseInv, NEW u \in Universe, current[u] # 0
  PROVE  current[u] \in DOMAIN generations[u]
<1>1. current[u] \in Nat /\ current[u] \in Sequences
  BY Counting DEF DatabaseInv, TypeOK
<1>2. current[u] < current[u] + MaxRetained
  BY <1>1, SQLiteAssumption
<1> QED
  BY <1>1, <1>2 DEF DatabaseInv, Recent

LEMMA OpenKeeps ==
  ASSUME DatabaseInv, NEW h \in Handle, NEW u \in Universe, NEW s, Open(h, u, s)
  PROVE  DatabaseInv' /\ (LeaseInv => LeaseInv')
<1> DEFINE chosen == [v \in {u} |-> s]
<1>1. s \in DOMAIN generations[u]
  BY CurrentStored DEF Open, Newest
<1>2. DOMAIN chosen \subseteq Universe /\ \A v \in DOMAIN chosen : chosen[v] \in DOMAIN generations[v]
  BY <1>1
<1>3. /\ Free(h) /\ Pinned(h, chosen)
      /\ UNCHANGED <<generations, current, shards, quarantined, work>>
  BY DEF Open
<1> HIDE DEF chosen
<1> QED
  BY <1>2, <1>3, PinnedKeeps

LEMMA SnapshotSetKeeps ==
  ASSUME DatabaseInv, NEW h \in Handle, NEW chosen \in Choices, SnapshotSet(h, chosen)
  PROVE  DatabaseInv' /\ (LeaseInv => LeaseInv')
BY ChoicesStored, PinnedKeeps DEF SnapshotSet

LEMMA Reowned ==
  ASSUME NEW l \in Lease, NEW o \in Process \union Handle \union {Nobody}
  PROVE  LET m == [l EXCEPT !.owner = o]
         IN /\ m \in Lease /\ m.owner = o /\ m.lapsed = l.lapsed
            /\ m.universe = l.universe /\ m.sequence = l.sequence
BY DEF Lease

LEMMA OrphanedAre ==
  ASSUME NEW rows, rows \subseteq Lease
  PROVE  \A m \in Orphaned(rows) :
           /\ m \in Lease /\ m.owner = Nobody
           /\ \E l \in rows : m.universe = l.universe /\ m.sequence = l.sequence
<1>1. \A l \in rows : LET m == [l EXCEPT !.owner = Nobody]
                     IN /\ m \in Lease /\ m.owner = Nobody
                        /\ m.universe = l.universe /\ m.sequence = l.sequence
  BY Reowned
<1> QED
  BY <1>1 DEF Orphaned, Unlapsed

(* Handles whose rows and pins stay keep them matched and readable.        *)
LEMMA OtherHandles ==
  ASSUME LeaseInv, UNCHANGED generations, Renewed',
         pins' \in [Handle -> SUBSET Pin],
         \A k \in Handle : \/ pins'[k] = pins[k] /\ Owned(k)' = Owned(k)
                           \/ pins'[k] = {} /\ Owned(k)' = {}
  PROVE  LeaseInv'
<1>1. LeasesMatchPins'
  BY DEF LeaseInv, LeasesMatchPins
<1>2. ReadersKeepGenerations'
  BY DEF LeaseInv, ReadersKeepGenerations
<1> QED
  BY <1>1, <1>2 DEF LeaseInv

LEMMA ReleaseKeeps ==
  ASSUME DatabaseInv, NEW h \in Handle, NEW deleted, NEW dropped, Release(h, deleted, dropped)
  PROVE  DatabaseInv' /\ (LeaseInv => LeaseInv')
<1> DEFINE p == ProcessOf[h]
           left == {[l EXCEPT !.owner = p] : l \in Owned(h) \ (deleted \union dropped)}
<1>1. /\ leases' = (leases \ Owned(h)) \union Orphaned(dropped) \union left
      /\ dropped \subseteq Owned(h) /\ work[p] = Idle
      /\ pins' = [pins EXCEPT ![h] = {}]
      /\ UNCHANGED <<generations, current, shards, quarantined, work>>
  BY DEF Release
<1>2. /\ leases \subseteq Lease /\ pins \in [Handle -> SUBSET Pin]
      /\ Owned(h) \subseteq leases /\ p \in Process
  BY SQLiteAssumption DEF DatabaseInv, TypeOK, Owned
<1>3. \A m \in Orphaned(dropped) :
        /\ m \in Lease /\ m.owner = Nobody
        /\ \E l \in leases : m.universe = l.universe /\ m.sequence = l.sequence
  <2>1. dropped \subseteq Lease
    BY <1>1, <1>2
  <2> QED
    BY <1>1, <1>2, <2>1, OrphanedAre
<1>4. \A m \in left :
        /\ m \in Lease /\ m.owner = p
        /\ \E l \in leases : m.universe = l.universe /\ m.sequence = l.sequence
                             /\ m.lapsed = l.lapsed /\ l.owner = h
  <2> SUFFICES ASSUME NEW l \in Owned(h)
               PROVE  LET m == [l EXCEPT !.owner = p]
                      IN /\ m \in Lease /\ m.owner = p /\ m.lapsed = l.lapsed
                         /\ m.universe = l.universe /\ m.sequence = l.sequence
                         /\ l \in leases /\ l.owner = h
    OBVIOUS
  <2> QED
    BY <1>2, Reowned DEF Owned
<1> HIDE DEF left, p
<1>5. \A m \in leases' : /\ m \in Lease
                         /\ \E l \in leases : m.universe = l.universe /\ m.sequence = l.sequence
  BY <1>1, <1>2, <1>3, <1>4
<1>6. References'
  BY <1>1, <1>5 DEF DatabaseInv, References
<1>7. /\ pins' \in [Handle -> SUBSET Pin] /\ pins'[h] = {}
      /\ \A k \in Handle : k # h => pins'[k] = pins[k]
  BY <1>1, <1>2
<1>8. \A l \in leases' :
        \/ l.owner = Nobody
        \/ \E m \in leases : m.owner = l.owner
        \/ \E q \in Process : work[q] = Idle /\ l.owner \in HandlesOf(q) \union {q}
  BY <1>1, <1>2, <1>3, <1>4
<1>9. DatabaseInv'
  BY <1>1, <1>5, <1>6, <1>7, <1>8, LeasesKeep
<1>10. ASSUME LeaseInv PROVE LeaseInv'
  <2>1. Renewed'
    <3> SUFFICES ASSUME NEW m \in leases', m.owner # Nobody PROVE ~m.lapsed
      BY DEF Renewed
    <3>1. \A l \in leases : l.owner # Nobody => ~l.lapsed
      BY <1>10 DEF LeaseInv, Renewed
    <3>2. h # Nobody
      BY SQLiteAssumption
    <3>3. CASE m \in left
      BY <3>1, <3>2, <3>3, <1>4
    <3>4. CASE m \notin left
      BY <3>1, <3>4, <1>1, <1>3
    <3> QED
      BY <3>3, <3>4
  <2>2. ASSUME NEW k \in Handle
        PROVE  \A l : l \in Owned(k)' <=> k # h /\ l \in Owned(k)
    <3>1. k # Nobody /\ k # p
      BY <1>2, SQLiteAssumption
    <3>2. \A l \in leases' : l.owner = k <=> l \in leases \ Owned(h) /\ l.owner = k
      BY <3>1, <1>1, <1>3, <1>4
    <3> QED
      BY <3>2, <1>1, OwnedAre
  <2>3. \A k \in Handle : \/ pins'[k] = pins[k] /\ Owned(k)' = Owned(k)
                          \/ pins'[k] = {} /\ Owned(k)' = {}
    <3> SUFFICES ASSUME NEW k \in Handle
                 PROVE  \/ pins'[k] = pins[k] /\ Owned(k)' = Owned(k)
                        \/ pins'[k] = {} /\ Owned(k)' = {}
      OBVIOUS
    <3>1. CASE k = h
      <4>1. Owned(k)' = {}
        BY <3>1, <2>2
      <4> QED
        BY <4>1, <3>1, <1>7
    <3>2. CASE k # h
      <4>1. Owned(k)' = Owned(k)
        BY <3>2, <2>2
      <4> QED
        BY <4>1, <3>2, <1>7
    <3> QED
      BY <3>1, <3>2
  <2> QED
    BY <2>1, <2>3, <1>1, <1>7, <1>10, OtherHandles
<1> QED
  BY <1>9, <1>10

(* A lapse takes no row that is renewed, and only such a row can be renewed *)
(* after its lapse.                                                        *)
LEMMA LapseKeeps ==
  ASSUME DatabaseInv, NEW l \in leases, Lapse(l)
  PROVE  DatabaseInv' /\ (Responsive /\ LeaseInv => LeaseInv')
<1> DEFINE late == {[m EXCEPT !.lapsed = TRUE] : m \in {l} \ Owned(Nobody)}
<1>1. /\ leases' = (leases \ {l}) \union late
      /\ Responsive => l.owner = Nobody
      /\ UNCHANGED <<generations, current, shards, quarantined, work, pins>>
  BY DEF Lapse
<1>2. leases \subseteq Lease /\ pins \in [Handle -> SUBSET Pin]
  BY DEF DatabaseInv, TypeOK
<1>3. \A k \in late : /\ k \in Lease /\ k.owner = l.owner
                      /\ k.universe = l.universe /\ k.sequence = l.sequence
  <2>1. LET k == [l EXCEPT !.lapsed = TRUE]
        IN /\ k \in Lease /\ k.owner = l.owner
           /\ k.universe = l.universe /\ k.sequence = l.sequence
    BY <1>2 DEF Lease
  <2> QED
    BY <2>1
<1>4. l.owner = Nobody => late = {}
  BY DEF Owned
<1> HIDE DEF late
<1>5. References'
  BY <1>1, <1>3 DEF DatabaseInv, References
<1>6. DatabaseInv'
  BY <1>1, <1>2, <1>3, <1>5, LeasesKeep
<1>7. ASSUME Responsive, LeaseInv PROVE LeaseInv'
  <2>1. leases' = leases \ {l} /\ l.owner = Nobody
    BY <1>1, <1>4, <1>7
  <2>2. Renewed'
    BY <2>1, <1>7 DEF LeaseInv, Renewed
  <2>3. ASSUME NEW k \in Handle PROVE Owned(k)' = Owned(k)
    <3>1. \A m : m \in Owned(k)' <=> m \in Owned(k)
      BY <2>1, <2>3, OwnedAre, SQLiteAssumption
    <3> QED
      BY <3>1
  <2> QED
    BY <2>2, <2>3, <1>1, <1>2, <1>7, OtherHandles
<1> QED
  BY <1>6, <1>7

LEMMA RenewKeeps ==
  ASSUME DatabaseInv, NEW l \in leases, Renew(l)
  PROVE  DatabaseInv' /\ ~LeaseInv
<1> DEFINE k == [l EXCEPT !.lapsed = FALSE]
<1>1. /\ leases' = (leases \ {l}) \union {k} /\ l.lapsed /\ l.owner # Nobody
      /\ UNCHANGED <<generations, current, shards, quarantined, work, pins>>
  BY DEF Renew
<1>2. leases \subseteq Lease /\ pins \in [Handle -> SUBSET Pin]
  BY DEF DatabaseInv, TypeOK
<1>3. k \in Lease /\ k.owner = l.owner /\ k.universe = l.universe /\ k.sequence = l.sequence
  BY <1>2 DEF Lease
<1> HIDE DEF k
<1>4. References'
  BY <1>1, <1>3 DEF DatabaseInv, References
<1>5. DatabaseInv'
  BY <1>1, <1>2, <1>3, <1>4, LeasesKeep
<1>6. ~LeaseInv
  BY <1>1 DEF LeaseInv, Renewed
<1> QED
  BY <1>5, <1>6

-----------------------------------------------------------------------------
(* The end of a store, and commits again *)

LEMMA GoneKeeps ==
  ASSUME DatabaseInv, NEW p \in Process, NEW left, left \subseteq LeasesOf(p), Gone(p, left)
  PROVE  DatabaseInv' /\ (LeaseInv => LeaseInv')
<1>1. /\ leases' = (leases \ LeasesOf(p)) \union Orphaned(left)
      /\ work' = [work EXCEPT ![p] = Closed]
      /\ pins' = [h \in Handle |-> IF ProcessOf[h] = p THEN {} ELSE pins[h]]
      /\ UNCHANGED <<generations, current, shards, quarantined>>
  BY DEF Gone
<1>2. leases \subseteq Lease /\ pins \in [Handle -> SUBSET Pin] /\ DOMAIN work = Process
  BY DEF DatabaseInv, TypeOK
<1>3. left \subseteq leases
  BY LeasesOfAre
<1>4. \A m \in Orphaned(left) :
        /\ m \in Lease /\ m.owner = Nobody
        /\ \E l \in leases : m.universe = l.universe /\ m.sequence = l.sequence
  <2>1. left \subseteq Lease
    BY <1>2, <1>3
  <2> QED
    BY <1>3, <2>1, OrphanedAre
<1>5. leases' \subseteq Lease /\ pins' \in [Handle -> SUBSET Pin]
  BY <1>1, <1>2, <1>4
<1>6. References'
  BY <1>1, <1>4 DEF DatabaseInv, References
<1>7. /\ DOMAIN work' = Process /\ work'[p] = Closed
      /\ \A q \in Process : q # p => work'[q] = work[q]
  BY <1>1, <1>2
<1>8. ASSUME NEW q \in Process
      PROVE  LeasesOf(q)' = IF q = p THEN {} ELSE LeasesOf(q)
  <2>1. \A l : l \in LeasesOf(q)' <=> q # p /\ l \in LeasesOf(q)
    <3> SUFFICES ASSUME NEW l PROVE l \in LeasesOf(q)' <=> q # p /\ l \in LeasesOf(q)
      OBVIOUS
    <3>1. l \in LeasesOf(q)' <=> l \in leases' /\ l.owner \in HandlesOf(q) \union {q}
      BY LeasesOfAre
    <3>2. l.owner \in HandlesOf(q) \union {q} =>
            /\ l.owner # Nobody
            /\ l.owner \in HandlesOf(p) \union {p} <=> p = q
      BY OwnersApart
    <3>3. l.owner \in HandlesOf(q) \union {q} =>
            (l \in leases' <=> l \in leases /\ q # p)
      BY <3>2, <1>1, <1>4, LeasesOfAre
    <3> QED
      BY <3>1, <3>3, LeasesOfAre
  <2> QED
    BY <2>1
<1>9. \A q \in Process : work'[q] = Closed => LeasesOf(q)' = {}
  BY <1>7, <1>8 DEF DatabaseInv, TypeOK
<1>10. TypeOK'
  <2>1. \A q \in Process : \/ work'[q] \in {Closed, Idle}
                           \/ work'[q] \in Verifying
                           \/ work'[q] \in Committing
    BY <1>7 DEF DatabaseInv, TypeOK
  <2> QED
    BY <1>1, <1>5, <1>7, <1>9, <2>1 DEF DatabaseInv, TypeOK
<1>11. Grows
  BY <1>1, CurrentCounts DEF DatabaseInv, Grows
<1>12. WorkingOf(p)'
  BY <1>7 DEF WorkingOf, Closed, Verifying, Committing
<1>13. Working'
  BY <1>7, <1>8, <1>10, <1>11, <1>12, OthersWork DEF DatabaseInv, Working
<1>14. DatabaseInv'
  BY <1>1, <1>6, <1>10, <1>13, StandingKeeps
<1>15. ASSUME LeaseInv PROVE LeaseInv'
  <2>1. Renewed'
    BY <1>1, <1>4, <1>15 DEF LeaseInv, Renewed
  <2>2. ASSUME NEW h \in Handle
        PROVE  \A l : l \in Owned(h)' <=> ProcessOf[h] # p /\ l \in Owned(h)
    <3>1. h # Nobody /\ (h \in HandlesOf(p) \union {p} <=> ProcessOf[h] = p)
      BY SQLiteAssumption DEF HandlesOf
    <3>2. \A l : l.owner = h => (l \in leases' <=> l \in leases /\ ProcessOf[h] # p)
      BY <3>1, <1>1, <1>4, LeasesOfAre
    <3> QED
      BY <3>2, OwnedAre
  <2>3. ASSUME NEW h \in Handle
        PROVE  \/ pins'[h] = pins[h] /\ Owned(h)' = Owned(h)
               \/ pins'[h] = {} /\ Owned(h)' = {}
    <3>1. CASE ProcessOf[h] = p
      <4>1. Owned(h)' = {}
        BY <3>1, <2>2
      <4> QED
        BY <4>1, <3>1, <1>1
    <3>2. CASE ProcessOf[h] # p
      <4>1. Owned(h)' = Owned(h)
        BY <3>2, <2>2
      <4> QED
        BY <4>1, <3>2, <1>1
    <3> QED
      BY <3>1, <3>2
  <2> QED
    BY <2>1, <2>3, <1>1, <1>5, <1>15, OtherHandles
<1> QED
  BY <1>14, <1>15

(* A commit takes the leases of no handle that renews them, so retention   *)
(* keeps what handles hold.                                                *)
LEMMA WriteKeepsLeases ==
  ASSUME DatabaseInv, LeaseInv, NEW p \in Process, Write(p)
  PROVE  LeaseInv'
<1>1. DatabaseInv' /\ Grows
  BY WriteKeeps
<1>2. leases' = Unlapsed(leases) /\ pins' = pins
  <2>1. work[p].universe \in Universe /\ work[p].tx.manifest \in Contents
    BY WrittenClosed DEF Write
  <2>2. leases' = Unlapsed(leases)
    BY <2>1, WriteCollects, Collected
  <2> QED
    BY <2>2 DEF Write
<1>3. Renewed'
  BY <1>2 DEF Unlapsed, LeaseInv, Renewed
<1>4. ASSUME NEW h \in Handle PROVE Owned(h)' = Owned(h)
  <2>1. \A l : l \in Owned(h)' <=> l \in Owned(h)
    BY <1>2, OwnedAre, SQLiteAssumption DEF Unlapsed, LeaseInv, Renewed
  <2> QED
    BY <2>1
<1>5. LeasesMatchPins'
  BY <1>2, <1>4 DEF LeaseInv, LeasesMatchPins
<1>6. ReadersKeepGenerations'
  <2> SUFFICES ASSUME NEW h \in Handle, NEW pin \in pins[h]
               PROVE  /\ pin.sequence \in DOMAIN generations'[pin.universe]
                      /\ generations'[pin.universe][pin.sequence] = pin.value
    BY <1>2 DEF ReadersKeepGenerations
  <2>1. /\ pin.universe \in Universe
        /\ pin.sequence \in DOMAIN generations[pin.universe]
        /\ generations[pin.universe][pin.sequence] = pin.value
    BY DEF LeaseInv, ReadersKeepGenerations, DatabaseInv, TypeOK, Pin
  <2>2. PICK l \in Owned(h) : l.universe = pin.universe /\ l.sequence = pin.sequence
    BY MatchesAre DEF LeaseInv, LeasesMatchPins
  <2>3. l \in leases'
    BY <2>2, <1>4, OwnedAre
  <2>4. pin.sequence \in DOMAIN generations'[pin.universe]
    BY <1>1, <2>2, <2>3 DEF DatabaseInv, References
  <2>5. pin.sequence <= current[pin.universe]
    BY <2>1 DEF DatabaseInv, Recent
  <2> QED
    BY <1>1, <2>1, <2>4, <2>5 DEF Grows
<1> QED
  BY <1>3, <1>5, <1>6 DEF LeaseInv

-----------------------------------------------------------------------------
(* Every step *)

LEMMA InitKeeps == Init => DatabaseInv /\ LeaseInv
<1> SUFFICES ASSUME Init PROVE DatabaseInv /\ LeaseInv
  OBVIOUS
<1>1. \A p : LeasesOf(p) = {} /\ Owned(p) = {}
  <2>1. \A o : Owned(o) = {}
    BY DEF Init, Owned
  <2> QED
    BY <2>1 DEF LeasesOf
<1>2. \A u \in Universe : /\ DOMAIN generations[u] = {} /\ current[u] = 0
                          /\ generations[u] = [s \in DOMAIN generations[u] |-> generations[u][s]]
  BY NothingHere DEF Init, Nothing
<1>3. TypeOK
  BY <1>1, <1>2, SQLiteAssumption DEF Init, TypeOK
<1>4. Functional
  BY <1>2 DEF Init, Functional
<1>5. Recent
  <2>1. \A s \in Sequences : ~(s <= 0)
    BY Numbers
  <2> QED
    BY <1>2, <2>1 DEF Recent
<1>6. Closures /\ References
  BY <1>2 DEF Init, Closures, References
<1>7. ShardsExact
  <2>1. Members(generations) = {}
    BY <1>2, MembersOf
  <2> QED
    BY <2>1, ShardsMembers DEF Init
<1>8. Working
  BY DEF Init, Working, WorkingOf, Closed, Verifying, Committing
<1>9. LeaseInv
  BY <1>1 DEF Init, LeaseInv, Renewed, LeasesMatchPins, ReadersKeepGenerations
<1> QED
  BY <1>3, <1>4, <1>5, <1>6, <1>7, <1>8, <1>9 DEF DatabaseInv

(* A step that moves neither leases, nor pins, nor generations.            *)
LEMMA LeasesStand ==
  ASSUME LeaseInv, UNCHANGED <<generations, leases, pins>>
  PROVE  LeaseInv'
BY DEF LeaseInv, Renewed, LeasesMatchPins, ReadersKeepGenerations, Owned

LEMMA StepKeeps ==
  ASSUME DatabaseInv, [Next]_vars
  PROVE  DatabaseInv' /\ (Responsive /\ LeaseInv => LeaseInv')
<1>1. ASSUME NEW p \in Process, BeginOpen(p) \/ Opened(p) \/ Quarantine(p)
      PROVE  DatabaseInv' /\ (LeaseInv => LeaseInv')
  <2>1. CASE BeginOpen(p)
    BY <2>1, BeginOpenKeeps, LeasesStand DEF BeginOpen, database
  <2>2. CASE Opened(p)
    BY <2>2, IdleKeeps, LeasesStand DEF Opened, database
  <2>3. CASE Quarantine(p)
    BY <2>3, QuarantineKeeps, QuarantineSpares, LeasesStand DEF Quarantine
  <2> QED
    BY <1>1, <2>1, <2>2, <2>3
<1>2. ASSUME NEW p \in Process, NEW row \in work[p].rows, Verify(p, row)
      PROVE  DatabaseInv' /\ (LeaseInv => LeaseInv')
  BY <1>2, VerifyKeeps, LeasesStand DEF Verify, database
<1>3. ASSUME NEW p \in Process, NEW u \in Universe, BeginCommit(p, u)
      PROVE  DatabaseInv' /\ (LeaseInv => LeaseInv')
  BY <1>3, BeginCommitKeeps, LeasesStand DEF BeginCommit, database
<1>4. ASSUME NEW p \in Process, NEW tx \in Submitted, Match(p, tx)
      PROVE  DatabaseInv' /\ (LeaseInv => LeaseInv')
  BY <1>4, MatchKeeps, LeasesStand DEF Match, database
<1>5. ASSUME NEW p \in Process, Admit(p) \/ Write(p) \/ Abandon(p)
      PROVE  DatabaseInv' /\ (LeaseInv => LeaseInv')
  <2>1. CASE Admit(p)
    BY <2>1, AdmitKeeps, LeasesStand DEF Admit, database
  <2>2. CASE Write(p)
    BY <2>2, WriteKeeps, WriteKeepsLeases
  <2>3. CASE Abandon(p)
    BY <2>3, IdleKeeps, LeasesStand DEF Abandon, database
  <2> QED
    BY <1>5, <2>1, <2>2, <2>3
<1>6. ASSUME NEW h \in Handle, NEW u \in Universe, NEW s \in Sequences, Open(h, u, s)
      PROVE  DatabaseInv' /\ (LeaseInv => LeaseInv')
  BY <1>6, OpenKeeps
<1>7. ASSUME NEW h \in Handle, NEW chosen \in Choices, SnapshotSet(h, chosen)
      PROVE  DatabaseInv' /\ (LeaseInv => LeaseInv')
  BY <1>7, SnapshotSetKeeps
<1>8. ASSUME NEW h \in Handle, NEW deleted \in SUBSET Owned(h), NEW dropped \in SUBSET Owned(h),
             Release(h, deleted, dropped)
      PROVE  DatabaseInv' /\ (LeaseInv => LeaseInv')
  BY <1>8, ReleaseKeeps
<1>9. ASSUME NEW l \in leases, Lapse(l) \/ Renew(l)
      PROVE  DatabaseInv' /\ (Responsive /\ LeaseInv => LeaseInv')
  BY <1>9, LapseKeeps, RenewKeeps
<1>10. ASSUME NEW p \in Process, Crash(p)
       PROVE  DatabaseInv' /\ (LeaseInv => LeaseInv')
  BY <1>10, GoneKeeps DEF Crash
<1>11. ASSUME NEW p \in Process, NEW left \in SUBSET LeasesOf(p), Dispose(p, left)
       PROVE  DatabaseInv' /\ (LeaseInv => LeaseInv')
  BY <1>11, GoneKeeps DEF Dispose
<1>12. CASE UNCHANGED vars
  <2>1. \A q : LeasesOf(q)' = LeasesOf(q)
    <3>1. leases' = leases
      BY <1>12 DEF vars
    <3> QED
      BY <3>1 DEF LeasesOf, Owned
  <2>2. TypeOK' /\ References'
    BY <1>12, <2>1 DEF vars, DatabaseInv, TypeOK, References
  <2>3. Working'
    BY <1>12, <2>1, <2>2, OthersWork, DatabaseStands DEF vars, database, DatabaseInv, Working
  <2> QED
    BY <1>12, <2>2, <2>3, StandingKeeps, LeasesStand DEF vars
<1> QED
  BY <1>1, <1>2, <1>3, <1>4, <1>5, <1>6, <1>7, <1>8, <1>9, <1>10, <1>11, <1>12 DEF Next

LEMMA DatabaseHolds == Spec => []DatabaseInv
BY InitKeeps, StepKeeps, PTL DEF Spec

LEMMA LeasesHold ==
  ASSUME Responsive
  PROVE  Spec => [](DatabaseInv /\ LeaseInv)
<1>1. DatabaseInv /\ LeaseInv /\ [Next]_vars => (DatabaseInv /\ LeaseInv)'
  BY StepKeeps
<1> QED
  BY <1>1, InitKeeps, PTL DEF Spec

-----------------------------------------------------------------------------
(* What the database keeps, whether or not renewals land *)

(* The rows of the tables, the method of every process and the pins of     *)
(* every handle keep their shape, and a process without a store has no     *)
(* lease (sqlite/store.ts, lifecycle/leases.ts).                           *)
THEOREM DatabaseTypes == Spec => []TypeOK
<1>1. DatabaseInv => TypeOK
  BY DEF DatabaseInv
<1> QED
  BY <1>1, DatabaseHolds, PTL

(* Shards are shared by generations and universes, and collection deletes  *)
(* those nobody refers to any more and no others (schema/integrity.ts      *)
(* deleteOrphanedShards, materialization/write.ts).                        *)
THEOREM ShardsAreShared == Spec => []ShardsExact
<1>1. DatabaseInv => ShardsExact
  BY DEF DatabaseInv
<1> QED
  BY <1>1, DatabaseHolds, PTL

(* Opening a store never deletes a stored generation, although it          *)
(* quarantines by universe and sequence rows it read before it took the    *)
(* writer lock (verifySQLiteAnalysisIntegrity).                            *)
THEOREM VerificationSparesStored == Spec => QuarantineSparesStored
<1>1. DatabaseInv /\ [Next]_vars =>
        [\A p \in Process : Quarantine(p) => UNCHANGED <<generations, current, shards, leases>>]_vars
  BY QuarantineSpares
<1> QED
  BY <1>1, DatabaseHolds, PTL DEF Spec, QuarantineSparesStored

(* After a commit to a universe it keeps its newest generations and those  *)
(* with a lease that has not lapsed, and no others                         *)
(* (collectSQLiteGenerations).                                             *)
LEMMA CommitBounds ==
  ASSUME DatabaseInv, NEW p \in Process, Write(p), NEW u \in Universe, current'[u] > current[u],
         NEW s \in DOMAIN generations'[u]
  PROVE  \/ s > current'[u] - MaxRetained
         \/ \E l \in leases' : l.universe = u /\ l.sequence = s /\ ~l.lapsed
<1> DEFINE v == work[p].universe
           content == work[p].tx.manifest
           rows == shards \union Rows(work[p].tx.upserts)
<1>1. /\ v \in Universe /\ content \in Contents
      /\ current[v] + 1 \in Sequences
      /\ Collect(v, [generations EXCEPT ![v] = Entered(v, content)],
                    [current EXCEPT ![v] = current[v] + 1], rows)
  BY WrittenClosed, WriteCollects DEF Write
<1> HIDE DEF v, content, rows
<1>2. /\ current' = [current EXCEPT ![v] = current[v] + 1]
      /\ leases' = Unlapsed(leases)
      /\ \A t \in DOMAIN generations'[v] :
           \/ t > (current[v] + 1) - MaxRetained
           \/ \E l \in Unlapsed(leases) : l.universe = v /\ l.sequence = t
  BY <1>1, Collected
<1>3. current \in [Universe -> Sequences \union {0}] /\ current[u] \in Nat
  BY CurrentCounts DEF DatabaseInv, TypeOK
<1>4. u = v /\ current'[u] = current[u] + 1
  BY <1>1, <1>2, <1>3
<1>5. \A l \in Unlapsed(leases) : ~l.lapsed
  BY DEF Unlapsed
<1> QED
  BY <1>2, <1>4, <1>5

(* Only a commit moves a universe on.                                      *)
LEMMA OnlyCommitsMove ==
  ASSUME DatabaseInv, Next
  PROVE  \/ \E p \in Process : Write(p)
         \/ UNCHANGED <<generations, current>>
<1>1. \A p \in Process : Quarantine(p) => UNCHANGED <<generations, current>>
  BY QuarantineSpares
<1> QED
  BY <1>1 DEF Next, BeginOpen, Opened, Verify, BeginCommit, Match, Admit, Abandon, Open,
              SnapshotSet, Release, Lapse, Renew, Crash, Dispose, Gone, database

(* A database is bounded by what is read from it: crashed readers do not   *)
(* hold generations for ever, nor does a commit to one universe take what  *)
(* another needs (lifecycle/retention.ts).                                 *)
THEOREM RetentionIsBounded == Spec => RetentionBounded
<1>1. ASSUME DatabaseInv, [Next]_vars
      PROVE  [\A u \in Universe : current'[u] > current[u] =>
                \A s \in DOMAIN generations'[u] :
                  \/ s > current'[u] - MaxRetained
                  \/ \E l \in leases' : l.universe = u /\ l.sequence = s /\ ~l.lapsed]_vars
  <2> SUFFICES ASSUME Next, NEW u \in Universe, current'[u] > current[u],
                      NEW s \in DOMAIN generations'[u]
               PROVE  \/ s > current'[u] - MaxRetained
                      \/ \E l \in leases' : l.universe = u /\ l.sequence = s /\ ~l.lapsed
    BY <1>1
  <2>1. current[u] \in Nat
    BY <1>1, CurrentCounts DEF DatabaseInv
  <2>2. PICK p \in Process : Write(p)
    BY <1>1, <2>1, OnlyCommitsMove
  <2> QED
    BY <1>1, <2>2, CommitBounds
<1> QED
  BY <1>1, DatabaseHolds, PTL DEF Spec, RetentionBounded

-----------------------------------------------------------------------------
(* What a reader may rely on while renewals land *)

(* The lease rows of a handle are those of the generations it holds:       *)
(* collections and quarantines of other processes take none, and a release *)
(* or disposal that fails halfway leaves none to the next user of the      *)
(* handle (lifecycle/leases.ts, store.ts).                                 *)
THEOREM LeasesAreOfPins == Responsive => (Spec => []LeasesMatchPins)
<1> SUFFICES ASSUME Responsive PROVE Spec => []LeasesMatchPins
  OBVIOUS
<1>1. DatabaseInv /\ LeaseInv => LeasesMatchPins
  BY DEF LeaseInv
<1> QED
  BY <1>1, LeasesHold, PTL

(* A reader keeps the generation it opened, whatever other processes       *)
(* commit, collect, verify, quarantine and lose (lifecycle/retention.ts).  *)
THEOREM ReadersKeepWhatTheyOpened == Responsive => (Spec => []ReadersKeepGenerations)
<1> SUFFICES ASSUME Responsive PROVE Spec => []ReadersKeepGenerations
  OBVIOUS
<1>1. DatabaseInv /\ LeaseInv => ReadersKeepGenerations
  BY DEF LeaseInv
<1> QED
  BY <1>1, LeasesHold, PTL

-----------------------------------------------------------------------------
(* The store implements AnalysisStore *)

Versions == [u \in Universe |->
               {[sequence |-> s, value |-> generations[u][s]] : s \in DOMAIN generations[u]}]

\* What AnalysisStore's Keeps says of a step that leaves the pins it leaves.
Forgets(earlier, now) ==
  \A u \in Universe :
    /\ Versions'[u] \subseteq earlier[u]
    /\ \A v \in earlier[u] :
         (\E h \in Handle :
            [universe |-> u, sequence |-> v.sequence, value |-> v.value] \in pins'[h])
           => v \in Versions'[u]
    /\ \/ current'[u] = now[u]
       \/ current'[u] = 0 /\ Versions'[u] = {}
    /\ current'[u] # 0 => \E v \in Versions'[u] : v.sequence = current'[u]

LEMMA CurrentStoredNext ==
  (DatabaseInv => \A u \in Universe : current[u] # 0 => current[u] \in DOMAIN generations[u])'
<1>1. DatabaseInv => \A u \in Universe : current[u] # 0 => current[u] \in DOMAIN generations[u]
  BY CurrentStored
<1> QED
  BY <1>1, PTL

(* What is pinned after a step has been kept by it, and what is current is *)
(* stored.                                                                 *)
LEMMA ForgetsOnly ==
  ASSUME DatabaseInv', LeaseInv', NEW earlier, NEW now,
         \A u \in Universe : Versions'[u] \subseteq earlier[u],
         \A u \in Universe : \A v \in earlier[u] :
            v = [sequence |-> v.sequence, value |-> v.value],
         \A u \in Universe : current'[u] = now[u]
  PROVE  Forgets(earlier, now)
<1>1. ASSUME NEW u \in Universe, NEW v \in earlier[u], NEW h \in Handle,
             [universe |-> u, sequence |-> v.sequence, value |-> v.value] \in pins'[h]
      PROVE  v \in Versions'[u]
  <2> DEFINE pin == [universe |-> u, sequence |-> v.sequence, value |-> v.value]
  <2>1. pin.universe = u /\ pin.sequence = v.sequence /\ pin.value = v.value
    OBVIOUS
  <2> HIDE DEF pin
  <2>2. /\ v.sequence \in DOMAIN generations'[u]
        /\ generations'[u][v.sequence] = v.value
    BY <1>1, <2>1 DEF pin, LeaseInv, ReadersKeepGenerations
  <2>3. v = [sequence |-> v.sequence, value |-> generations'[u][v.sequence]]
    BY <2>2
  <2> QED
    BY <2>2, <2>3 DEF Versions
<1>2. ASSUME NEW u \in Universe, current'[u] # 0
      PROVE  \E v \in Versions'[u] : v.sequence = current'[u]
  <2> DEFINE v == [sequence |-> current'[u], value |-> generations'[u][current'[u]]]
  <2>1. current'[u] \in DOMAIN generations'[u]
    BY <1>2, CurrentStoredNext
  <2>2. v \in Versions'[u] /\ v.sequence = current'[u]
    BY <2>1 DEF Versions
  <2> QED
    BY <2>2
<1> QED
  BY <1>1, <1>2 DEF Forgets

LEMMA WriteSimulates ==
  ASSUME DatabaseInv, DatabaseInv', LeaseInv', NEW p \in Process, Write(p),
         NEW u, u = work[p].universe, NEW content, content = work[p].tx.manifest
  PROVE  Promise!Commit(u, content)
<1> DEFINE rows == shards \union Rows(work[p].tx.upserts)
           next == [sequence |-> current[u] + 1, value |-> content]
           earlier == [Versions EXCEPT ![u] = @ \union {next}]
           now == [current EXCEPT ![u] = current[u] + 1]
<1>1. /\ u \in Universe /\ content \in Contents
      /\ current[u] + 1 \in Sequences
      /\ Collect(u, [generations EXCEPT ![u] = Entered(u, content)],
                    [current EXCEPT ![u] = current[u] + 1], rows)
      /\ pins' = pins
  BY WrittenClosed, WriteCollects DEF Write
<1> HIDE DEF rows
<1>2. /\ current' = now
      /\ \A v \in Universe : v # u => generations'[v] = generations[v]
      /\ \A s \in DOMAIN generations'[u] :
           /\ s \in DOMAIN generations[u] \union {current[u] + 1}
           /\ generations'[u][s] = Entered(u, content)[s]
  BY <1>1, Collected
<1>3. current'[u] = current[u] + 1
  BY <1>1, <1>2 DEF DatabaseInv, TypeOK
<1>4. /\ DOMAIN earlier = Universe
      /\ \A v \in Universe \ {u} : earlier[v] = Versions[v]
      /\ earlier[u] = Versions[u] \union {next}
  BY <1>1 DEF Versions
<1> HIDE DEF earlier
<1>5. ASSUME NEW v \in Universe PROVE Versions'[v] \subseteq earlier[v]
  <2> SUFFICES ASSUME NEW s \in DOMAIN generations'[v]
               PROVE  [sequence |-> s, value |-> generations'[v][s]] \in earlier[v]
    BY DEF Versions
  <2>1. CASE v # u
    BY <1>2, <1>4, <2>1 DEF Versions
  <2>2. CASE v = u
    <3>1. /\ s \in DOMAIN generations[u] \union {current[u] + 1}
          /\ generations'[u][s] = IF s = current[u] + 1 THEN content ELSE generations[u][s]
      BY <1>2, <2>2 DEF Entered
    <3>2. CASE s = current[u] + 1
      BY <1>4, <2>2, <3>1, <3>2
    <3>3. CASE s # current[u] + 1
      BY <1>1, <1>4, <2>2, <3>1, <3>3 DEF Versions
    <3> QED
      BY <3>2, <3>3
  <2> QED
    BY <2>1, <2>2
<1>6. ASSUME NEW v \in Universe, NEW x \in earlier[v]
      PROVE  x = [sequence |-> x.sequence, value |-> x.value]
  <2>1. x = next \/ x \in Versions[v]
    BY <1>4
  <2> QED
    BY <2>1 DEF Versions
<1>7. Forgets(earlier, now)
  BY <1>2, <1>5, <1>6, ForgetsOnly
<1> QED
  BY <1>1, <1>2, <1>3, <1>7
     DEF Promise!Commit, Promise!Keeps, Promise!PinOf, Forgets, Versions, earlier

LEMMA PinnedSimulates ==
  ASSUME DatabaseInv, NEW h \in Handle, NEW chosen, Free(h), Pinned(h, chosen),
         DOMAIN chosen \subseteq Universe,
         \A u \in DOMAIN chosen : chosen[u] \in DOMAIN generations[u],
         UNCHANGED <<generations, current, shards, quarantined, work>>
  PROVE  Promise!Open(h, pins'[h])
<1>1. pins[h] = {} /\ pins' = [pins EXCEPT ![h] = Taken(chosen)]
  BY DEF Free, Pinned
<1>2. pins'[h] = Taken(chosen)
  BY <1>1 DEF DatabaseInv, TypeOK
<1>3. ASSUME NEW pin \in Taken(chosen)
      PROVE  [sequence |-> pin.sequence, value |-> pin.value] \in Versions[pin.universe]
  <2>1. /\ pin.universe \in Universe
        /\ pin.sequence \in DOMAIN generations[pin.universe]
        /\ pin.value = generations[pin.universe][pin.sequence]
    <3>1. /\ pin.universe \in DOMAIN chosen /\ pin.sequence = chosen[pin.universe]
          /\ pin.value = generations[pin.universe][pin.sequence]
      BY TakenAre
    <3> QED
      BY <3>1
  <2> QED
    BY <2>1 DEF Versions
<1>4. \A x, y \in pins'[h] : x.universe = y.universe => x = y
  BY <1>2 DEF Taken
<1>5. pins' = [pins EXCEPT ![h] = pins'[h]]
  BY <1>1, <1>2
<1>6. \A x \in pins'[h] : [sequence |-> x.sequence, value |-> x.value] \in Versions[x.universe]
  BY <1>2, <1>3
<1>7. Versions' = Versions
  BY DEF Versions
<1> QED
  BY <1>1, <1>4, <1>5, <1>6, <1>7 DEF Promise!Open, Versions

(* A release, a disposal, and the end of a process that held something.    *)
LEMMA LettingGoSimulates ==
  ASSUME DatabaseInv', LeaseInv', DatabaseInv, UNCHANGED <<generations, current>>,
         pins' # pins, \A h \in Handle : pins'[h] \subseteq pins[h]
  PROVE  Promise!Release(pins')
<1>1. \A u \in Universe : Versions'[u] \subseteq Versions[u]
  BY DEF Versions
<1>2. \A u \in Universe : \A v \in Versions[u] : v = [sequence |-> v.sequence, value |-> v.value]
  BY DEF Versions
<1>3. Forgets(Versions, current)
  BY <1>1, <1>2, ForgetsOnly
<1> QED
  BY <1>3 DEF Promise!Release, Promise!Keeps, Promise!PinOf, Forgets, Versions

LEMMA GoneLetsGo ==
  ASSUME DatabaseInv, NEW p \in Process, NEW left, Gone(p, left)
  PROVE  UNCHANGED <<generations, current>> /\ \A h \in Handle : pins'[h] \subseteq pins[h]
BY DEF Gone

LEMMA ReleaseLetsGo ==
  ASSUME DatabaseInv, NEW h \in Handle, NEW deleted, NEW dropped, Release(h, deleted, dropped)
  PROVE  UNCHANGED <<generations, current>> /\ \A k \in Handle : pins'[k] \subseteq pins[k]
<1>1. pins \in [Handle -> SUBSET Pin] /\ pins' = [pins EXCEPT ![h] = {}]
  BY DEF DatabaseInv, TypeOK, Release
<1> QED
  BY <1>1 DEF Release

LEMMA StepSimulates ==
  ASSUME DatabaseInv, DatabaseInv', LeaseInv', [Next]_vars
  PROVE  [Promise!Next]_(Promise!vars)
<1> DEFINE Hidden == UNCHANGED <<generations, current, pins>>
<1>1. Hidden => UNCHANGED Promise!vars
  BY DEF Promise!vars
<1>2. ASSUME UNCHANGED <<generations, current>>, \A h \in Handle : pins'[h] \subseteq pins[h]
      PROVE  Promise!Next \/ Hidden
  <2>1. CASE pins' = pins
    BY <1>2, <2>1
  <2>2. CASE pins' # pins
    BY <1>2, <2>2, LettingGoSimulates DEF Promise!Next
  <2> QED
    BY <2>1, <2>2
<1>3. ASSUME NEW p \in Process, BeginOpen(p) \/ Opened(p) \/ Quarantine(p)
      PROVE  Hidden
  <2>1. CASE Quarantine(p)
    BY <2>1, QuarantineSpares DEF Quarantine
  <2>2. CASE BeginOpen(p) \/ Opened(p)
    BY <2>2 DEF BeginOpen, Opened, database
  <2> QED
    BY <1>3, <2>1, <2>2
<1>4. ASSUME NEW p \in Process, NEW row, Verify(p, row) PROVE Hidden
  BY <1>4 DEF Verify, database
<1>5. ASSUME NEW p \in Process, NEW u, BeginCommit(p, u) PROVE Hidden
  BY <1>5 DEF BeginCommit, database
<1>6. ASSUME NEW p \in Process, NEW tx, Match(p, tx) PROVE Hidden
  BY <1>6 DEF Match, database
<1>7. ASSUME NEW p \in Process, Admit(p) \/ Abandon(p) PROVE Hidden
  BY <1>7 DEF Admit, Abandon, database
<1>8. ASSUME NEW p \in Process, Write(p) PROVE Promise!Next
  <2>1. PICK u \in Universe, content \in Contents :
          u = work[p].universe /\ content = work[p].tx.manifest
    BY <1>8, WrittenClosed DEF Write
  <2>2. Promise!Commit(u, content)
    BY <1>8, <2>1, WriteSimulates
  <2> QED
    BY <2>1, <2>2 DEF Promise!Next
<1>9. ASSUME NEW h \in Handle, NEW u \in Universe, NEW s, Open(h, u, s) PROVE Promise!Next
  <2> DEFINE chosen == [v \in {u} |-> s]
  <2>1. s \in DOMAIN generations[u]
    BY <1>9, CurrentStored DEF Open, Newest
  <2>2. /\ DOMAIN chosen \subseteq Universe
        /\ \A v \in DOMAIN chosen : chosen[v] \in DOMAIN generations[v]
    BY <2>1
  <2>3. /\ Free(h) /\ Pinned(h, chosen)
        /\ UNCHANGED <<generations, current, shards, quarantined, work>>
    BY <1>9 DEF Open
  <2> HIDE DEF chosen
  <2>4. Promise!Open(h, pins'[h])
    BY <2>2, <2>3, PinnedSimulates
  <2> QED
    BY <2>4 DEF Promise!Next
<1>10. ASSUME NEW h \in Handle, NEW chosen \in Choices, SnapshotSet(h, chosen)
       PROVE  Promise!Next
  <2>1. Promise!Open(h, pins'[h])
    BY <1>10, ChoicesStored, PinnedSimulates DEF SnapshotSet
  <2> QED
    BY <2>1 DEF Promise!Next
<1>11. ASSUME NEW h \in Handle, NEW deleted, NEW dropped, Release(h, deleted, dropped)
       PROVE  Promise!Next \/ Hidden
  BY <1>2, <1>11, ReleaseLetsGo
<1>12. ASSUME NEW l, Lapse(l) \/ Renew(l) PROVE Hidden
  BY <1>12 DEF Lapse, Renew
<1>13. ASSUME NEW p \in Process, Crash(p) PROVE Promise!Next \/ Hidden
  BY <1>2, <1>13, GoneLetsGo DEF Crash
<1>14. ASSUME NEW p \in Process, NEW left, Dispose(p, left) PROVE Promise!Next \/ Hidden
  BY <1>2, <1>14, GoneLetsGo DEF Dispose
<1>15. UNCHANGED vars => Hidden
  BY DEF vars
<1> HIDE DEF Hidden
<1> QED
  BY <1>1, <1>3, <1>4, <1>5, <1>6, <1>7, <1>8, <1>9, <1>10, <1>11, <1>12, <1>13, <1>14, <1>15
     DEF Next

LEMMA InitSimulates == Init => Promise!Init
<1>1. Init => Versions = [u \in Universe |-> {}]
  BY NothingHere DEF Init, Versions
<1> QED
  BY <1>1 DEF Init, Promise!Init, Versions

(* Several processes on one database keep what the store's interface       *)
(* promises each of them: a commit becomes current at once, over the very  *)
(* generation it was admitted against, and a caller keeps what it opened   *)
(* while its process renews its leases (store.ts, as query/model.ts).      *)
THEOREM DatabaseImplements == Responsive => (Spec => ImplementsStore)
<1> SUFFICES ASSUME Responsive PROVE Spec => ImplementsStore
  OBVIOUS
<1>1. /\ DatabaseInv /\ LeaseInv
      /\ (DatabaseInv /\ LeaseInv)'
      /\ [Next]_vars
      => [Promise!Next]_(Promise!vars)
  BY StepSimulates
<1> QED
  BY <1>1, InitSimulates, LeasesHold, PTL DEF Spec, ImplementsStore, Promise!Spec

=============================================================================
