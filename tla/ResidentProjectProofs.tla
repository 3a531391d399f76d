------------------------ MODULE ResidentProjectProofs ------------------------
(***************************************************************************)
(* The safety of a resident project for any number of universes, sources,  *)
(* snapshots, calls, commits and failures.  That what a refresh hands out  *)
(* is exact rests on an invariant about the transactions not yet handed    *)
(* out: they continue, universe by universe, what the client has, and end  *)
(* in what the store has (Delivery).                                       *)
(***************************************************************************)
EXTENDS ResidentProject, WellFoundedInduction, TLAPS

-----------------------------------------------------------------------------
(* The latest generation of a universe in a sequence of transactions. *)

\* A set of numbers up to a bound that is not empty has a greatest one.
LEMMA HasLast ==
  ASSUME NEW n \in Nat, NEW S \in SUBSET (1 .. n), S # {}
  PROVE  \E j \in S : \A k \in S : k <= j
<1> DEFINE T == {n - j : j \in S}
           R == OpToRel(<, Nat)
<1>1. T \subseteq Nat
  <2>1. \A j \in S : n - j \in Nat
    OBVIOUS
  <2> QED
    BY <2>1
<1>2. T # {}
  OBVIOUS
<1>3. PICK x \in T : \A y \in T : <<y, x>> \notin R
  <2>1. IsWellFoundedOn(R, Nat)
    BY NatLessThanWellFounded
  <2> HIDE DEF T, R
  <2> QED
    BY <1>1, <1>2, <2>1, WFMin
<1>4. \A y \in T : ~(y < x)
  <2>1. R = {ss \in Nat \X Nat : ss[1] < ss[2]}
    BY DEF OpToRel
  <2>2. x \in Nat /\ T \subseteq Nat
    BY <1>1
  <2> HIDE DEF T, R
  <2> QED
    BY <1>3, <2>1, <2>2
<1>5. PICK j \in S : x = n - j
  OBVIOUS
<1>6. \A k \in S : ~(n - k < n - j)
  BY <1>4, <1>5
<1> QED
  BY <1>6

Earlier(transactions, i, u) == {j \in 1 .. i - 1 : transactions[j].next.universe = u}

\* Earlier transactions have a last one.
LEMMA EarlierHasLast ==
  ASSUME NEW p, NEW i \in Nat \ {0}, NEW u, Earlier(p, i, u) # {}
  PROVE  \E j \in Earlier(p, i, u) : \A k \in Earlier(p, i, u) : k <= j
<1>1. Earlier(p, i, u) \in SUBSET (1 .. i - 1) /\ i - 1 \in Nat
  BY DEF Earlier
<1> QED
  BY <1>1, HasLast

\* Latest is what the client has when there are none,
LEMMA LatestNone ==
  ASSUME NEW have, NEW p, NEW i, NEW u, Earlier(p, i, u) = {}
  PROVE  Latest(have, p, i, u) = have[u]
  BY DEF Latest, Earlier

\* or the result of the last of them.
LEMMA LatestIs ==
  ASSUME NEW have, NEW p, NEW i \in Nat \ {0}, NEW u,
         NEW j \in Earlier(p, i, u), \A k \in Earlier(p, i, u) : k <= j
  PROVE  Latest(have, p, i, u) = p[j].next
<1> DEFINE E == Earlier(p, i, u)
           Top(m) == \A k \in E : k <= m
           last == CHOOSE m \in E : Top(m)
<1>1. Latest(have, p, i, u) = IF E = {} THEN have[u] ELSE p[last].next
  BY DEF Latest, Earlier
<1>2. \A m \in E : m \in Nat
  BY DEF Earlier
<1>3. j \in E /\ Top(j)
  OBVIOUS
<1>4. \A m \in E : Top(m) => m = j
  <2> HIDE DEF E
  <2> QED
    BY <1>2, <1>3
<1>5. last = j
  <2> HIDE DEF E, Top
  <2> QED
    BY <1>3, <1>4
<1> HIDE DEF E, last
<1> QED
  BY <1>1, <1>3, <1>5

\* It is a generation when the client has one.
LEMMA LatestType ==
  ASSUME NEW have \in [Universe -> Generations \union {None}],
         NEW p \in Seq(Transactions), NEW i \in 1 .. Len(p) + 1, NEW u \in Universe
  PROVE  Latest(have, p, i, u) \in Generations \union {None}
<1>1. CASE Earlier(p, i, u) = {}
  BY <1>1, LatestNone
<1>2. CASE Earlier(p, i, u) # {}
  <2>1. PICK j \in Earlier(p, i, u) : \A k \in Earlier(p, i, u) : k <= j
    BY <1>2, EarlierHasLast
  <2>2. Latest(have, p, i, u) = p[j].next
    BY <2>1, LatestIs
  <2>3. j \in 1 .. Len(p)
    BY DEF Earlier
  <2>4. p[j] \in Transactions
    BY <2>3
  <2> QED
    BY <2>2, <2>4 DEF Transactions
<1> QED
  BY <1>1, <1>2

\* A transaction that is appended is the latest of its universe, and changes nothing else.
LEMMA LatestGrows ==
  ASSUME NEW have, NEW p \in Seq(Transactions), NEW t \in Transactions, NEW u
  PROVE  /\ Latest(have, Append(p, t), Len(p) + 2, u)
              = IF t.next.universe = u THEN t.next ELSE Latest(have, p, Len(p) + 1, u)
         /\ \A i \in 1 .. Len(p) + 1 : Latest(have, Append(p, t), i, u) = Latest(have, p, i, u)
<1> DEFINE q == Append(p, t)
<1>1. /\ q \in Seq(Transactions) /\ Len(q) = Len(p) + 1 /\ q[Len(p) + 1] = t
      /\ \A j \in 1 .. Len(p) : q[j] = p[j]
      /\ Len(p) \in Nat
  OBVIOUS
<1> HIDE DEF q
<1>2. ASSUME NEW i \in 1 .. Len(p) + 1
      PROVE  Latest(have, q, i, u) = Latest(have, p, i, u)
  <2>1. i \in 1 .. Len(q) + 1
    BY <1>1
  <2>2. Earlier(q, i, u) = Earlier(p, i, u)
    BY <1>1 DEF Earlier
  <2>3. CASE Earlier(p, i, u) = {}
    BY <2>2, <2>3, LatestNone
  <2>4. CASE Earlier(p, i, u) # {}
    <3>1. PICK j \in Earlier(p, i, u) : \A k \in Earlier(p, i, u) : k <= j
      BY <2>4, EarlierHasLast
    <3>2. Latest(have, p, i, u) = p[j].next
      BY <3>1, LatestIs
    <3>3. Latest(have, q, i, u) = q[j].next
      BY <1>1, <2>1, <2>2, <3>1, LatestIs
    <3>4. j \in 1 .. Len(p)
      BY <1>1 DEF Earlier
    <3> QED
      BY <1>1, <3>2, <3>3, <3>4
  <2> QED
    BY <2>3, <2>4
<1>3. ASSUME t.next.universe = u
      PROVE  Latest(have, q, Len(p) + 2, u) = t.next
  <2>1. Len(p) + 1 \in Earlier(q, Len(p) + 2, u)
    BY <1>1, <1>3 DEF Earlier
  <2>2. \A k \in Earlier(q, Len(p) + 2, u) : k <= Len(p) + 1
    BY <1>1 DEF Earlier
  <2>3. Len(p) + 2 \in 1 .. Len(q) + 1
    BY <1>1
  <2> QED
    BY <1>1, <2>1, <2>2, LatestIs
<1>4. ASSUME t.next.universe # u
      PROVE  Latest(have, q, Len(p) + 2, u) = Latest(have, p, Len(p) + 1, u)
  <2>1. Earlier(q, Len(p) + 2, u) = Earlier(p, Len(p) + 1, u)
    <3>1. \A j \in 1 .. Len(p) + 1 :
            q[j].next.universe = u <=> j \in 1 .. Len(p) /\ p[j].next.universe = u
      BY <1>1, <1>4
    <3> QED
      BY <1>1, <3>1 DEF Earlier
  <2>2. /\ Len(p) + 2 \in 1 .. Len(q) + 1
        /\ Len(p) + 1 \in 1 .. Len(p) + 1
    BY <1>1
  <2>3. CASE Earlier(p, Len(p) + 1, u) = {}
    BY <2>1, <2>3, LatestNone
  <2>4. CASE Earlier(p, Len(p) + 1, u) # {}
    <3>1. PICK j \in Earlier(p, Len(p) + 1, u) : \A k \in Earlier(p, Len(p) + 1, u) : k <= j
      BY <1>1, <2>4, EarlierHasLast
    <3>2. Latest(have, p, Len(p) + 1, u) = p[j].next
      BY <2>2, <3>1, LatestIs
    <3>3. Latest(have, q, Len(p) + 2, u) = q[j].next
      BY <1>1, <2>1, <2>2, <3>1, LatestIs
    <3>4. j \in 1 .. Len(p)
      BY <1>1 DEF Earlier
    <3> QED
      BY <1>1, <3>2, <3>3, <3>4
  <2> QED
    BY <2>3, <2>4
<1> QED
  BY <1>2, <1>3, <1>4 DEF q
-----------------------------------------------------------------------------
(* The invariant. *)

Reading == work.phase = "reading"
Returned == work.phase \in {"acknowledging", "answered"} \/ (work.kind = "refresh" /\ Reading)
End(u) == Latest(mirror, pending, Len(pending) + 1, u)

Processes ==
  /\ processes["serving"] = IF Serving THEN 1 ELSE 0
  /\ processes["ending"] <= 1
  /\ Serving => processes["ending"] = 0
  /\ processes["ending"] > 0 => work.phase = "ending" \/ closing = "stopping"
  /\ work.phase \in {"opening", "ending"} => service = None
  /\ work.phase = "opening" => processes["ending"] = 0
  /\ closing # "open" => ~Serving

Disposed ==
  closing = "done" =>
    /\ service = None /\ queue = <<>> /\ work = Idle /\ reader = None
    /\ \A h \in Handle : snapshots[h] = None
    /\ processes["ending"] = 0

Read ==
  /\ closing # "done" =>
       /\ published # None => SameId(reader, published)
       /\ reader # None => head[reader.universe] # None
       /\ \A h \in Handle : snapshots[h] # None => head[snapshots[h].universe] # None
  /\ Reading => work.generation # None /\ head[work.generation.universe] # None
  /\ work.kind = "open" => Reading

Chained ==
  \A i \in 1 .. Len(pending) :
    pending[i].base \in {None, Latest(mirror, pending, i, pending[i].next.universe)}
Lineages == \A u \in Universe : head[u] # None => head[u] = End(u)
Answers == Returned => work.generation # None /\ work.generation = End(work.generation.universe)
Placed == \A u \in Universe : head[u] # None => head[u].universe = u
Known == \A u \in Universe : head[u] # None => Present(head[u].content) \subseteq shards[u]
Told == closing # "done" => touched \subseteq moved

Delivery == Chained /\ Placed /\ Lineages /\ Answers /\ Known /\ Told

ProjectInv == TypeOK /\ Processes /\ Disposed /\ Read /\ Delivery

-----------------------------------------------------------------------------
(* The store. *)

\* Collection drops universes, but none that is read.
LEMMA Collecting ==
  ASSUME NEW heads \in [Universe -> Generations \union {None}], NEW order, NEW leased,
         Collect(heads, order, leased)
  PROVE  /\ head' \in [Universe -> Generations \union {None}]
         /\ \A u \in Universe : head'[u] \in {heads[u], None}
         /\ \A u \in Universe : u \in leased => head'[u] = heads[u]
<1>1. Evicted(order, leased) \intersect leased = {}
  BY DEF Evicted
<1>2. head' = Kept(heads, Evicted(order, leased))
  BY DEF Collect
<1> QED
  BY <1>1, <1>2 DEF Kept

\* What is read is leased.
LEMMA LeasedIs ==
  ASSUME NEW current, NEW held, NEW opened
  PROVE  /\ current # None => current.universe \in Leased(current, held, opened)
         /\ opened # None => opened.universe \in Leased(current, held, opened)
         /\ \A h \in Handle : held[h] # None => held[h].universe \in Leased(current, held, opened)
  BY DEF Leased

LEMMA RememberedIs ==
  ASSUME TypeOK
  PROVE  /\ Remembered \in [Universe -> SUBSET Source]
         /\ \A u \in Universe : head'[u] # None => Remembered[u] = shards[u]
  BY DEF TypeOK, Remembered

LEMMA GenerationFields ==
  ASSUME NEW g \in Generations
  PROVE  g # None /\ g.universe \in Universe /\ g.content \in Contents /\ g.sequence \in Nat \ {0}
  BY NoneAssumption DEF Generations

WorkType ==
  [kind : {"idle"} \union Kinds, generation : Generations \union {None},
   phase : {"idle", "opening", "asking", "acknowledging", "answered", "reading", "ending"},
   wrote : BOOLEAN]
Services == [universe : Universe \union {None}, over : BOOLEAN]

LEMMA IdleFields ==
  /\ Idle \in WorkType
  /\ Idle.kind = "idle" /\ Idle.phase = "idle" /\ Idle.generation = None /\ Idle.wrote = FALSE
  BY DEF Idle, WorkType

LEMMA AwaitingFields ==
  ASSUME NEW kind \in Kinds
  PROVE  /\ Awaiting(kind) \in WorkType
         /\ Awaiting(kind).kind = kind /\ Awaiting(kind).phase = "ending"
  BY DEF Awaiting, Idle, WorkType, Kinds

\* A session that ends is no longer served; there is one to wait for when there was one to end.
LEMMA EndSessionIs ==
  ASSUME TypeOK, Processes, NEW fate \in {"ending", "signalled"}, EndSession(fate)
  PROVE  /\ processes' \in [Fates -> Nat]
         /\ processes'["serving"] = 0
         /\ Serving /\ fate = "ending" => processes'["ending"] = 1
         /\ Serving /\ fate = "signalled" => processes'["ending"] = 0
         /\ ~Serving => processes'["ending"] = processes["ending"]
<1>1. processes \in [Fates -> Nat] /\ {"serving", "ending", "signalled"} \subseteq Fates
  BY DEF TypeOK, Fates
<1>2. CASE Serving
  <2>1. processes["serving"] = 1 /\ processes["ending"] = 0
    BY <1>2 DEF Processes
  <2>2. processes' = [processes EXCEPT !["serving"] = @ - 1, ![fate] = @ + 1]
    BY <1>2 DEF EndSession
  <2> QED
    BY <1>1, <1>2, <2>1, <2>2
<1>3. CASE ~Serving
  BY <1>1, <1>3 DEF EndSession, Processes
<1> QED
  BY <1>2, <1>3

\* A refresh that fails keeps neither the session nor anything it was doing.
LEMMA FailIs ==
  ASSUME TypeOK, Processes, Fail \/ Abort
  PROVE  /\ service' = None /\ universe' \in Universe \union {None}
         /\ processes' \in [Fates -> Nat] /\ processes'["serving"] = 0
         /\ work' \in WorkType /\ work'.kind \in {"idle", "refresh"}
         /\ \/ work'.phase = "ending" /\ processes'["ending"] = 1
            \/ /\ work'.phase = "idle"
               /\ processes'["ending"] = processes["ending"] \/ processes'["ending"] = 0
         /\ shards' = shards \/ shards' = Remembered
         /\ UNCHANGED <<reader, snapshots, pending, moved, queue, closing>>
         /\ UNCHANGED <<mirror, touched, published>>
<1>1. Caught
  BY DEF Fail, Abort
<1>2. service' = None /\ universe' \in Universe \union {None}
  BY <1>1 DEF Caught, TypeOK
<1>3. /\ UNCHANGED <<reader, snapshots, pending, moved, queue, closing>>
      /\ UNCHANGED <<mirror, touched, published>>
  BY <1>1 DEF Caught, client
<1>4. Awaiting("refresh") \in WorkType /\ Awaiting("refresh").kind = "refresh"
      /\ Awaiting("refresh").phase = "ending"
  BY AwaitingFields DEF Kinds
<1>5. CASE Fail /\ Serving
  BY <1>2, <1>3, <1>4, <1>5, EndSessionIs DEF Fail
<1>6. CASE Fail /\ ~Serving
  BY <1>2, <1>3, <1>6, EndSessionIs, IdleFields DEF Fail
<1>7. CASE Abort
  BY <1>2, <1>3, <1>7, EndSessionIs, IdleFields DEF Abort
<1> QED
  BY <1>5, <1>6, <1>7

-----------------------------------------------------------------------------
LEMMA InvInit == Init => ProjectInv
<1> SUFFICES ASSUME Init PROVE ProjectInv
  OBVIOUS
<1>1. TypeOK
  BY ProjectAssumption, IdleFields DEF Init, TypeOK, WorkType
<1>2. Processes /\ Disposed /\ Read
  BY IdleFields DEF Init, Processes, Disposed, Read, Serving, Reading, Fates
<1>3. Delivery
  BY IdleFields DEF Init, Delivery, Chained, Placed, Lineages, Answers, Known, Told, Returned,
     Reading
<1> QED
  BY <1>1, <1>2, <1>3 DEF ProjectInv
-----------------------------------------------------------------------------
(* Types. *)

\* The generation a commit produces, and the transaction that says so.
LEMMA NextGeneration ==
  ASSUME TypeOK, NEW u \in Universe, NEW content \in Contents
  PROVE  LET base == head[u]
             next == [universe |-> u, content |-> content,
                      sequence |-> IF base = None THEN 1 ELSE base.sequence + 1]
         IN  next \in Generations /\ [base |-> base, next |-> next] \in Transactions
<1> DEFINE base == head[u]
           number == IF base = None THEN 1 ELSE base.sequence + 1
           next == [universe |-> u, content |-> content, sequence |-> number]
<1>1. base \in Generations \union {None}
  BY DEF TypeOK
<1>2. number \in Nat \ {0}
  BY <1>1, GenerationFields
<1>3. next \in Generations
  BY <1>2 DEF Generations
<1> QED
  BY <1>1, <1>3 DEF Transactions

LEMMA TypesOfCommit ==
  ASSUME TypeOK, NEW u \in Universe, NEW content \in Contents, NEW complete \in BOOLEAN,
         Commit(u, content, complete)
  PROVE  TypeOK'
<1> DEFINE base == head[u]
           before == IF base = None THEN [s \in Source |-> None] ELSE base.content
           number == IF base = None THEN 1 ELSE base.sequence + 1
           next == [universe |-> u, content |-> content, sequence |-> number]
           upserts == {s \in Present(content) : complete \/ content[s] # before[s]}
           deletes == Present(before) \ Present(content)
<1>1. next \in Generations /\ [base |-> base, next |-> next] \in Transactions
  BY NextGeneration
<1>2. upserts \subseteq Source /\ deletes \subseteq Source
  BY DEF Present
<1>3. head' \in [Universe -> Generations \union {None}]
  <2>1. [head EXCEPT ![u] = next] \in [Universe -> Generations \union {None}]
    BY <1>1 DEF TypeOK
  <2> QED
    BY <2>1, Collecting DEF Commit
<1>4. pending' \in Seq(Transactions)
  BY <1>1 DEF Commit, TypeOK
<1>5. moved' \subseteq Source /\ touched' \subseteq Source
  BY <1>2 DEF Commit, TypeOK
<1>6. shards' \in [Universe -> SUBSET Source]
  BY <1>2 DEF Commit, TypeOK
<1>7. work' \in WorkType
  BY <1>1 DEF Commit, TypeOK, WorkType
<1>8. UNCHANGED <<owned, reader, snapshots, queue, closing, mirror, published>>
  BY DEF Commit
<1> QED
  BY <1>3, <1>4, <1>5, <1>6, <1>7, <1>8 DEF TypeOK, WorkType, owned

\* A refresh that fails.
LEMMA TypesOfFail ==
  ASSUME TypeOK, Processes, Fail \/ Abort, head' \in [Universe -> Generations \union {None}]
  PROVE  TypeOK'
<1>1. shards' \in [Universe -> SUBSET Source]
  BY FailIs, RememberedIs DEF TypeOK
<1> QED
  BY <1>1, FailIs DEF TypeOK, WorkType

\* A refresh that returns.
LEMMA TypesOfReturn ==
  ASSUME TypeOK, Delivery, Return, Returned,
         head' \in [Universe -> Generations \union {None}],
         reader' \in Generations \union {None},
         universe' \in Universe \union {None},
         UNCHANGED <<processes, service, snapshots, queue, closing>>
  PROVE  TypeOK'
<1>1. pending' = <<>> /\ moved' = {} /\ touched' = {} /\ work' \in WorkType
  BY IdleFields DEF Return
<1>2. mirror' \in [Universe -> Generations \union {None}]
  <2>1. \A u \in Universe : Latest(mirror, pending, Len(pending) + 1, u)
                              \in Generations \union {None}
    <3>1. Len(pending) + 1 \in 1 .. Len(pending) + 1
      BY DEF TypeOK
    <3> QED
      BY <3>1, LatestType DEF TypeOK
  <2> QED
    BY <2>1 DEF Return
<1>3. published' \in Generations \union {None}
  BY DEF Return, TypeOK
<1>4. shards' \in [Universe -> SUBSET Source]
  BY RememberedIs DEF Return
<1> QED
  BY <1>1, <1>2, <1>3, <1>4 DEF TypeOK, WorkType

LEMMA TypesStep == ProjectInv /\ [Next]_vars => TypeOK'
<1> SUFFICES ASSUME TypeOK, Processes, Disposed, Read, Delivery, [Next]_vars PROVE TypeOK'
  BY DEF ProjectInv
<1> USE DEF TypeOK, Services, store, owned, facts, client
<1>1. ASSUME NEW kind \in Kinds, Call(kind) PROVE TypeOK'
  BY <1>1 DEF Call
<1>2. CASE Refuse
  BY <1>2 DEF Refuse
<1>3. CASE StartRefresh
  <2>1. work' \in WorkType
    BY <1>3, IdleFields DEF StartRefresh, WorkType, Kinds
  <2> QED
    BY <1>3, <2>1 DEF StartRefresh, Turn, WorkType
<1>4. CASE Opened
  <2>1. work' \in WorkType
    BY <1>4 DEF Opened, WorkType
  <2>2. service' \in Services \union {None}
    BY <1>4 DEF Opened
  <2>3. processes' \in [Fates -> Nat]
    BY <1>4 DEF Opened, Fates
  <2> QED
    BY <1>4, <2>1, <2>2, <2>3 DEF Opened, WorkType
<1>5. ASSUME NEW u \in Universe, NEW content \in Contents, NEW complete \in BOOLEAN,
             Commit(u, content, complete)
      PROVE  TypeOK'
  BY <1>5, TypesOfCommit
<1>6. ASSUME NEW u \in Universe, Join(u) PROVE TypeOK'
  BY <1>6 DEF Join
<1>7. CASE Unchanged
  <2>1. work' \in WorkType
    <3>1. service.universe \in Universe
      BY <1>7 DEF Unchanged, Serving
    <3>2. head[service.universe] \in Generations \union {None}
      BY <3>1
    <3> QED
      BY <1>7, <3>2 DEF Unchanged, WorkType
  <2> QED
    BY <1>7, <2>1 DEF Unchanged, WorkType
<1>8. ASSUME NEW discover \in BOOLEAN, Acknowledged(discover) PROVE TypeOK'
  <2>1. work' \in WorkType
    BY <1>8 DEF Acknowledged, WorkType
  <2>2. work.generation.universe \in Universe
    BY <1>8, GenerationFields DEF Acknowledged, Delivery, Answers, Returned
  <2>3. service' \in Services \union {None}
    BY <1>8, <2>2 DEF Acknowledged, Serving
  <2> QED
    BY <1>8, <2>1, <2>2, <2>3 DEF Acknowledged, WorkType
<1>9. CASE Failure
  BY <1>9, TypesOfFail DEF Failure
<1>10. CASE Interrupted
  BY <1>10, TypesOfFail DEF Interrupted
<1>11. CASE ReturnSame
  BY <1>11, TypesOfReturn, GenerationFields DEF ReturnSame, Delivery, Answers, Returned
<1>12. CASE OpenCurrent
  BY <1>12, GenerationFields DEF OpenCurrent, Delivery, Answers, Returned
<1>13. CASE Dropped
  BY <1>13, TypesOfFail DEF Dropped
<1>14. CASE ReturnNew
  BY <1>14, TypesOfReturn, Collecting DEF ReturnNew, Returned, Reading
<1>15. CASE TooLate
  BY <1>15, TypesOfFail, Collecting DEF TooLate
<1>16. CASE StartOpen
  <2>1. work' \in WorkType
    BY <1>16, IdleFields, NoneAssumption DEF StartOpen, WorkType, Kinds
  <2> QED
    BY <1>16, <2>1 DEF StartOpen, Turn, WorkType
<1>17. ASSUME NEW h \in Handle, HandOut(h) PROVE TypeOK'
  BY <1>17, IdleFields DEF HandOut, WorkType
<1>18. CASE TakeBack
  BY <1>18, IdleFields, Collecting DEF TakeBack, WorkType
<1>19. ASSUME NEW h \in Handle, Release(h) PROVE TypeOK'
  <2>1. head' \in [Universe -> Generations \union {None}]
    BY <1>19, Collecting DEF Release
  <2>2. shards' \in [Universe -> SUBSET Source]
    BY <1>19, RememberedIs DEF Release
  <2> QED
    BY <1>19, <2>1, <2>2 DEF Release
<1>20. CASE ReplaceSession
  <2>1. processes' \in [Fates -> Nat]
    BY <1>20, EndSessionIs DEF ReplaceSession
  <2>2. work' \in WorkType
    BY <1>20, AwaitingFields, IdleFields DEF ReplaceSession, Kinds
  <2> QED
    BY <1>20, <2>1, <2>2 DEF ReplaceSession, Turn, WorkType
<1>21. CASE Dispose
  <2>1. service' \in Services \union {None}
    BY <1>21 DEF Dispose
  <2>2. processes' \in [Fates -> Nat]
    BY <1>21, EndSessionIs DEF Dispose
  <2> QED
    BY <1>21, <2>1, <2>2 DEF Dispose
<1>22. CASE Cleanup
  <2>1. processes' \in [Fates -> Nat]
    BY <1>22, EndSessionIs DEF Cleanup
  <2> QED
    BY <1>22, <2>1 DEF Cleanup
<1>23. CASE UNCHANGED vars
  BY <1>23 DEF vars
<1>24. CASE OpenedLate
  <2>1. processes' \in [Fates -> Nat]
    BY <1>24 DEF OpenedLate, Fates
  <2>2. work' \in WorkType
    BY <1>24, AwaitingFields DEF OpenedLate, Kinds
  <2> QED
    BY <1>24, <2>1, <2>2 DEF OpenedLate, LateOpening, WorkType
<1>25. CASE Ended
  <2>1. shards' \in [Universe -> SUBSET Source]
    BY <1>25, RememberedIs DEF Ended
  <2> QED
    BY <1>25, <2>1, IdleFields DEF Ended, WorkType
<1>26. CASE Dies
  <2>1. service' \in Services
    BY <1>26 DEF Dies, Serving
  <2>2. processes' \in [Fates -> Nat]
    <3>1. processes["serving"] = 1
      BY <1>26 DEF Dies, Processes
    <3> QED
      BY <1>26, <3>1 DEF Dies, Fates
  <2> QED
    BY <1>26, <2>1, <2>2 DEF Dies
<1>27. ASSUME NEW fate \in Fates, Exit(fate) PROVE TypeOK'
  <2>1. processes' \in [Fates -> Nat]
    BY <1>27 DEF Exit
  <2> QED
    BY <1>27, <2>1 DEF Exit
<1> QED
  BY <1>1, <1>2, <1>3, <1>4, <1>5, <1>6, <1>7, <1>8, <1>9, <1>10, <1>11, <1>12, <1>13, <1>14,
     <1>15, <1>16, <1>17, <1>18, <1>19, <1>20, <1>21, <1>22, <1>23, <1>24, <1>25, <1>26, <1>27
     DEF Next, Answer, Run, Caller, Process
-----------------------------------------------------------------------------
(* Processes. *)

\* A step of the queue that leaves the session alone and opens none.
LEMMA ProcessesKept ==
  ASSUME Processes, UNCHANGED <<processes, service, closing>>,
         work' = work \/ (work.phase # "ending" /\ work'.phase \notin {"opening", "ending"})
  PROVE  Processes'
  BY DEF Processes, Serving

\* A refresh that fails ends its session, if there is one that is not over.
LEMMA ProcessesOfFail ==
  ASSUME TypeOK, Processes, Fail \/ Abort, work.phase # "ending"
  PROVE  Processes'
<1>1. /\ service' = None /\ processes'["serving"] = 0 /\ closing' = closing
      /\ \/ work'.phase = "ending" /\ processes'["ending"] = 1
         \/ /\ work'.phase = "idle"
            /\ processes'["ending"] = processes["ending"] \/ processes'["ending"] = 0
  BY FailIs
<1> QED
  BY <1>1 DEF Processes, Serving

LEMMA ProcessesStep == ProjectInv /\ [Next]_vars => Processes'
<1> SUFFICES ASSUME TypeOK, Processes, Disposed, Read, Delivery, [Next]_vars PROVE Processes'
  BY DEF ProjectInv
<1> USE DEF store, owned, facts, client
<1>1. ASSUME NEW kind \in Kinds, Call(kind) PROVE Processes'
  BY <1>1, ProcessesKept DEF Call
<1>2. CASE Refuse
  BY <1>2, ProcessesKept DEF Refuse
<1>3. CASE StartRefresh
  <2>1. closing = "open" /\ work.phase = "idle" /\ UNCHANGED <<processes, service, closing>>
    BY <1>3, IdleFields DEF StartRefresh, Turn
  <2>2. work'.phase = IF service = None THEN "opening" ELSE "asking"
    BY <1>3, IdleFields DEF StartRefresh, Idle
  <2> QED
    BY <2>1, <2>2 DEF Processes, TypeOK, Fates, Serving
<1>4. CASE Opened
  <2>1. service' \in Services /\ service'.over = FALSE
    BY <1>4 DEF Opened, TypeOK, Services
  <2>2. service' # None
    BY <2>1, NoneAssumption DEF Services
  <2>3. work'.phase = "asking"
    BY <1>4 DEF Opened, TypeOK
  <2>4. closing' = "open" /\ processes["serving"] = 0 /\ processes["ending"] = 0
    BY <1>4 DEF Opened, Processes, Serving
  <2>5. processes'["serving"] = 1 /\ processes'["ending"] = 0
    BY <1>4, <2>4 DEF Opened, TypeOK, Fates
  <2>6. Serving'
    BY <2>1, <2>2 DEF Serving
  <2> QED
    BY <2>3, <2>4, <2>5, <2>6 DEF Processes
<1>5. ASSUME NEW u \in Universe, NEW content \in Contents, NEW complete \in BOOLEAN,
             Commit(u, content, complete)
      PROVE  Processes'
  <2>1. work'.phase = "acknowledging" /\ work.phase = "asking"
    BY <1>5 DEF Commit, TypeOK
  <2> QED
    BY <1>5, <2>1, ProcessesKept DEF Commit
<1>6. ASSUME NEW u \in Universe, Join(u) PROVE Processes'
  <2>1. work'.phase = "acknowledging" /\ work.phase = "asking"
    BY <1>6 DEF Join, TypeOK
  <2> QED
    BY <1>6, <2>1, ProcessesKept DEF Join
<1>7. CASE Unchanged
  <2>1. work'.phase = "answered" /\ work.phase = "asking"
    BY <1>7 DEF Unchanged, TypeOK
  <2> QED
    BY <1>7, <2>1, ProcessesKept DEF Unchanged
<1>8. ASSUME NEW discover \in BOOLEAN, Acknowledged(discover) PROVE Processes'
  <2>1. work'.phase \in {"asking", "answered"} /\ work.phase = "acknowledging" /\ Serving
    BY <1>8 DEF Acknowledged, TypeOK
  <2>2. work.generation.universe \in Universe
    BY <1>8, GenerationFields DEF Acknowledged, Delivery, Answers, Returned, TypeOK
  <2>3. service' \in Services /\ service'.over = service.over
    BY <1>8, <2>1, <2>2 DEF Acknowledged, Services, TypeOK, Serving
  <2>4. Serving'
    BY <2>1, <2>3, NoneAssumption DEF Serving, Services
  <2>5. UNCHANGED <<processes, closing>>
    BY <1>8 DEF Acknowledged
  <2> QED
    BY <2>1, <2>4, <2>5 DEF Processes
<1>9. CASE Failure
  BY <1>9, ProcessesOfFail DEF Failure, Waiting
<1>10. CASE Interrupted
  BY <1>10, ProcessesOfFail DEF Interrupted, Waiting
<1>11. CASE ReturnSame
  <2>1. work.phase = "answered" /\ work'.phase = "idle"
    BY <1>11, IdleFields DEF ReturnSame, Return
  <2> QED
    BY <1>11, <2>1, ProcessesKept DEF ReturnSame
<1>12. CASE OpenCurrent
  <2>1. work'.phase = "reading" /\ work.phase = "answered"
    BY <1>12 DEF OpenCurrent, TypeOK
  <2> QED
    BY <1>12, <2>1, ProcessesKept DEF OpenCurrent
<1>13. CASE Dropped
  BY <1>13, ProcessesOfFail DEF Dropped
<1>14. CASE ReturnNew
  <2>1. work.phase = "reading" /\ work'.phase = "idle"
    BY <1>14, IdleFields DEF ReturnNew, Return
  <2> QED
    BY <1>14, <2>1, ProcessesKept DEF ReturnNew
<1>15. CASE TooLate
  BY <1>15, ProcessesOfFail DEF TooLate
<1>16. CASE StartOpen
  <2>1. work.phase = "idle" /\ work'.phase \in {"idle", "reading"}
    BY <1>16, IdleFields DEF StartOpen, Turn, Idle
  <2> QED
    BY <1>16, <2>1, ProcessesKept DEF StartOpen
<1>17. ASSUME NEW h \in Handle, HandOut(h) PROVE Processes'
  <2>1. work.phase = "reading" /\ work'.phase = "idle"
    BY <1>17, IdleFields DEF HandOut, Read, Reading
  <2> QED
    BY <1>17, <2>1, ProcessesKept DEF HandOut
<1>18. CASE TakeBack
  <2>1. work.phase = "reading" /\ work'.phase = "idle"
    BY <1>18, IdleFields DEF TakeBack, Read, Reading
  <2> QED
    BY <1>18, <2>1, ProcessesKept DEF TakeBack
<1>19. ASSUME NEW h \in Handle, Release(h) PROVE Processes'
  BY <1>19, ProcessesKept DEF Release
<1>20. CASE ReplaceSession
  <2>1. EndSession("ending") /\ service' = None /\ closing' = closing /\ closing = "open"
        /\ work.phase = "idle"
    BY <1>20, IdleFields DEF ReplaceSession, Turn
  <2>2. processes'["serving"] = 0
        /\ (Serving => processes'["ending"] = 1)
        /\ (~Serving => processes'["ending"] = processes["ending"])
    BY <2>1, EndSessionIs
  <2>3. (Serving => work'.phase = "ending") /\ (~Serving => work'.phase = "idle")
    BY <1>20, IdleFields, AwaitingFields DEF ReplaceSession, Kinds
  <2> QED
    BY <2>1, <2>2, <2>3 DEF Processes, Serving
<1>21. CASE Dispose
  <2>1. PICK fate \in {"ending", "signalled"} : EndSession(fate)
    BY <1>21 DEF Dispose
  <2>2. processes'["serving"] = 0
        /\ (Serving => processes'["ending"] \in {0, 1})
        /\ (~Serving => processes'["ending"] = processes["ending"])
    BY <2>1, EndSessionIs
  <2>3. closing' = "stopping" /\ work' = work
        /\ service' = IF service = None THEN None ELSE [service EXCEPT !.over = TRUE]
    BY <1>21 DEF Dispose
  <2>4. ~Serving'
    BY <2>3 DEF Serving, TypeOK
  <2>5. work.phase \in {"opening", "ending"} => service = None /\ ~Serving
    BY DEF Processes, Serving
  <2> QED
    BY <2>2, <2>3, <2>4, <2>5 DEF Processes
<1>22. CASE Cleanup
  <2>1. EndSession("ending") /\ service' = None /\ closing = "stopping"
        /\ processes["ending"] = 0 /\ UNCHANGED work /\ work.phase = "idle"
    BY <1>22, IdleFields DEF Cleanup
  <2>2. ~Serving
    BY <2>1 DEF Processes
  <2>3. processes'["serving"] = 0 /\ processes'["ending"] = 0
    BY <2>1, <2>2, EndSessionIs
  <2> QED
    BY <2>1, <2>3 DEF Processes, Serving
<1>23. CASE UNCHANGED vars
  BY <1>23, ProcessesKept DEF vars
<1>24. CASE OpenedLate
  <2>1. processes["ending"] = 0 /\ processes["serving"] = 0 /\ service = None /\ service' = None
    BY <1>24 DEF OpenedLate, LateOpening, Processes, Serving
  <2>2. processes'["ending"] = 1 /\ processes'["serving"] = 0
    BY <1>24, <2>1 DEF OpenedLate, TypeOK, Fates
  <2>3. work'.phase = "ending"
    BY <1>24, AwaitingFields DEF OpenedLate, Kinds
  <2> QED
    BY <2>1, <2>2, <2>3 DEF Processes, Serving
<1>25. CASE Ended
  <2>1. processes["ending"] = 0 /\ UNCHANGED <<processes, service, closing>>
        /\ work'.phase = "idle"
    BY <1>25, IdleFields DEF Ended
  <2> QED
    BY <2>1 DEF Processes, Serving
<1>26. CASE Dies
  <2>1. processes["serving"] = 1 /\ processes["ending"] = 0 /\ closing = "open" /\ Serving
    BY <1>26 DEF Dies, Processes, TypeOK
  <2>2. processes'["serving"] = 0 /\ processes'["ending"] = 0 /\ UNCHANGED <<closing, work>>
    BY <1>26, <2>1 DEF Dies, TypeOK, Fates
  <2>3. service'.over = TRUE
    BY <1>26, <2>1 DEF Dies, TypeOK, Serving
  <2> QED
    BY <2>1, <2>2, <2>3 DEF Processes, Serving
<1>27. ASSUME NEW fate \in Fates, Exit(fate) PROVE Processes'
  <2>1. processes'["serving"] = processes["serving"]
    BY <1>27 DEF Exit, TypeOK, Fates
  <2>2. processes'["ending"] = processes["ending"]
        \/ (processes'["ending"] = processes["ending"] - 1 /\ processes["ending"] > 0)
    BY <1>27 DEF Exit, TypeOK, Fates
  <2>3. UNCHANGED <<service, closing, work>> /\ processes["ending"] \in Nat
    BY <1>27 DEF Exit, TypeOK, Fates
  <2> QED
    BY <2>1, <2>2, <2>3 DEF Processes, Serving
<1> QED
  BY <1>1, <1>2, <1>3, <1>4, <1>5, <1>6, <1>7, <1>8, <1>9, <1>10, <1>11, <1>12, <1>13, <1>14,
     <1>15, <1>16, <1>17, <1>18, <1>19, <1>20, <1>21, <1>22, <1>23, <1>24, <1>25, <1>26, <1>27
     DEF Next, Answer, Run, Caller, Process

\* A disposal that is done has left nothing, and nothing is begun afterwards.
LEMMA DisposedStep == ProjectInv /\ [Next]_vars => Disposed'
<1> SUFFICES ASSUME TypeOK, Processes, Disposed, Read, [Next]_vars, closing' = "done"
             PROVE  Disposed'
  BY DEF ProjectInv, Disposed
<1> USE DEF store, owned, facts, client
<1>1. CASE Cleanup
  <2>1. ~Serving /\ processes["ending"] = 0
    BY <1>1 DEF Cleanup, Processes
  <2>2. processes'["ending"] = 0
    BY <1>1, <2>1, EndSessionIs DEF Cleanup
  <2> QED
    BY <1>1, <2>2 DEF Cleanup, Disposed
<1>2. CASE closing = "done"
  <2>1. /\ service = None /\ queue = <<>> /\ work = Idle /\ reader = None
        /\ \A h \in Handle : snapshots[h] = None
        /\ processes["ending"] = 0 /\ work.phase = "idle" /\ work.kind = "idle"
    BY <1>2, IdleFields DEF Disposed
  <2>2. CASE UNCHANGED vars
    BY <2>1, <2>2 DEF vars, Disposed
  <2>3. ASSUME NEW fate \in Fates, Exit(fate) PROVE Disposed'
    <3>1. processes'["ending"] = 0
      BY <2>1, <2>3 DEF Exit, TypeOK, Fates
    <3> QED
      BY <2>1, <2>3, <3>1 DEF Exit, Disposed
  <2>4. ~Failure /\ ~Dies /\ ~Caller
    BY <1>2, <2>1 DEF Failure, Waiting, Dies, Serving, Caller, Call, Release, Dispose
  <2>5. ~Answer
    BY <1>2, <2>1 DEF Answer, Opened, OpenedLate, LateOpening, Unchanged, Join, Commit, Acknowledged
  <2>6. ~Run
    BY <1>2, <2>1 DEF Run, Refuse, StartRefresh, StartOpen, ReplaceSession, Turn,
       Interrupted, Waiting,
       Ended, ReturnSame, OpenCurrent, Dropped, ReturnNew, TooLate, HandOut, TakeBack, Cleanup
  <2> QED
    BY <2>2, <2>3, <2>4, <2>5, <2>6 DEF Next, Process
<1>3. CASE closing # "done" /\ ~Cleanup
  <2>1. closing' = closing \/ closing' = "stopping"
    <3>1. CASE Answer
      BY <3>1 DEF Answer, Opened, OpenedLate, LateOpening, Unchanged, Join, Commit, Acknowledged
    <3>2. CASE Run
      BY <1>3, <3>2 DEF Run, Refuse, StartRefresh, StartOpen, ReplaceSession,
         Interrupted, Fail, Caught,
         Ended, ReturnSame, OpenCurrent, Dropped, ReturnNew, TooLate, HandOut, TakeBack
    <3>3. CASE Caller
      BY <3>3 DEF Caller, Call, Release, Dispose
    <3>4. CASE Failure \/ Process
      BY <3>4 DEF Failure, Fail, Abort, Caught, Process, Dies, Exit
    <3>5. CASE UNCHANGED vars
      BY <3>5 DEF vars
    <3> QED
      BY <3>1, <3>2, <3>3, <3>4, <3>5 DEF Next
  <2> QED
    BY <1>3, <2>1
<1> QED
  BY <1>1, <1>2, <1>3
-----------------------------------------------------------------------------
(* Readers. *)

\* A collection that spares what is read afterwards keeps the readers.
LEMMA ReadersOfCollect ==
  ASSUME NEW heads \in [Universe -> Generations \union {None}], NEW order, NEW opened,
         Collect(heads, order, Leased(reader', snapshots', opened)),
         TypeOK',
         reader' # None => heads[reader'.universe] # None,
         \A h \in Handle : snapshots'[h] # None => heads[snapshots'[h].universe] # None
  PROVE  /\ reader' # None => head'[reader'.universe] # None
         /\ \A h \in Handle : snapshots'[h] # None => head'[snapshots'[h].universe] # None
<1> DEFINE leased == Leased(reader', snapshots', opened)
<1>1. \A u \in Universe : u \in leased => head'[u] = heads[u]
  BY Collecting
<1>2. /\ reader' # None => reader'.universe \in leased
      /\ \A h \in Handle : snapshots'[h] # None => snapshots'[h].universe \in leased
  BY LeasedIs
<1>3. /\ reader' # None => reader'.universe \in Universe
      /\ \A h \in Handle : snapshots'[h] # None => snapshots'[h].universe \in Universe
  BY GenerationFields DEF TypeOK
<1> HIDE DEF leased
<1> QED
  BY <1>1, <1>2, <1>3

LEMMA ReadStep == ProjectInv /\ [Next]_vars => Read'
<1> SUFFICES ASSUME TypeOK, Processes, Disposed, Read, Delivery, [Next]_vars PROVE Read'
  BY DEF ProjectInv
<1> USE DEF TypeOK, Read, Reading, store, owned, facts, client
<1>1. ASSUME NEW kind \in Kinds, Call(kind) PROVE Read'
  BY <1>1 DEF Call, SameId
<1>2. CASE Refuse
  BY <1>2 DEF Refuse, SameId
<1>3. CASE StartRefresh
  <2>1. work'.phase # "reading" /\ work'.kind = "refresh"
    BY <1>3, IdleFields DEF StartRefresh, Idle
  <2> QED
    BY <1>3, <2>1 DEF StartRefresh, SameId
<1>4. CASE Opened
  <2>1. work'.phase # "reading" /\ work'.kind = work.kind /\ work.phase # "reading"
    BY <1>4 DEF Opened
  <2> QED
    BY <1>4, <2>1 DEF Opened, SameId
<1>5. ASSUME NEW u \in Universe, NEW content \in Contents, NEW complete \in BOOLEAN,
             Commit(u, content, complete)
      PROVE  Read'
  <2> DEFINE next == [universe |-> u, content |-> content,
                      sequence |-> IF head[u] = None THEN 1 ELSE head[u].sequence + 1]
             heads == [head EXCEPT ![u] = next]
  <2>1. next \in Generations /\ next # None
    BY NextGeneration, GenerationFields
  <2>2. heads \in [Universe -> Generations \union {None}]
    BY <2>1
  <2>3. Collect(heads, Used(resident, u), Leased(reader', snapshots', None))
    BY <1>5 DEF Commit
  <2>4. UNCHANGED <<reader, snapshots, closing, published>>
        /\ work'.phase # "reading" /\ work'.kind = work.kind /\ work.phase # "reading"
    BY <1>5 DEF Commit
  <2>5. \A v \in Universe : head[v] # None => heads[v] # None
    BY <2>1
  <2>6. /\ reader' # None => reader'.universe \in Universe
        /\ \A h \in Handle : snapshots'[h] # None => snapshots'[h].universe \in Universe
    BY <2>4, GenerationFields
  <2>7. TypeOK'
    BY <1>5, TypesOfCommit
  <2> HIDE DEF heads
  <2>8. closing # "done" =>
          /\ reader' # None => heads[reader'.universe] # None
          /\ \A h \in Handle : snapshots'[h] # None => heads[snapshots'[h].universe] # None
    BY <2>4, <2>5, <2>6
  <2> QED
    BY <2>2, <2>3, <2>4, <2>7, <2>8, ReadersOfCollect DEF SameId
<1>6. ASSUME NEW u \in Universe, Join(u) PROVE Read'
  <2>1. work'.phase # "reading" /\ work'.kind = work.kind /\ work.phase # "reading"
    BY <1>6 DEF Join
  <2> QED
    BY <1>6, <2>1 DEF Join, SameId
<1>7. CASE Unchanged
  <2>1. work'.phase # "reading" /\ work'.kind = work.kind /\ work.phase # "reading"
    BY <1>7 DEF Unchanged
  <2> QED
    BY <1>7, <2>1 DEF Unchanged, SameId
<1>8. ASSUME NEW discover \in BOOLEAN, Acknowledged(discover) PROVE Read'
  <2>1. work'.phase # "reading" /\ work'.kind = work.kind /\ work.phase # "reading"
    BY <1>8 DEF Acknowledged
  <2> QED
    BY <1>8, <2>1 DEF Acknowledged, SameId
<1>9. CASE Failure
  <2>1. work.phase # "reading" /\ work'.phase # "reading" /\ work'.kind # "open"
    BY <1>9, FailIs DEF Failure, Waiting
  <2> QED
    BY <1>9, <2>1, FailIs DEF Failure, SameId
<1>10. CASE Interrupted
  <2>1. work.phase # "reading" /\ work'.phase # "reading" /\ work'.kind # "open"
    BY <1>10, FailIs DEF Interrupted, Waiting
  <2> QED
    BY <1>10, <2>1, FailIs DEF Interrupted, SameId
<1>11. CASE ReturnSame
  BY <1>11, IdleFields DEF ReturnSame, Return, SameId, Delivery, Answers, Returned
<1>12. CASE OpenCurrent
  <2>1. work'.generation = work.generation
    BY <1>12 DEF OpenCurrent
  <2>2. work.generation # None
    BY <1>12 DEF OpenCurrent, Delivery, Answers, Returned
  <2> QED
    BY <1>12, <2>1, <2>2 DEF OpenCurrent, SameId
<1>13. CASE Dropped
  <2>1. work'.phase # "reading" /\ work'.kind # "open"
    BY <1>13, FailIs DEF Dropped
  <2> QED
    BY <1>13, <2>1, FailIs DEF Dropped, SameId
<1>14. CASE ReturnNew
  <2>1. /\ work.generation # None /\ head[work.generation.universe] # None
        /\ reader' = work.generation /\ published' = work.generation /\ work' = Idle
        /\ UNCHANGED <<snapshots, closing>> /\ closing = "open"
    BY <1>14 DEF ReturnNew, Return
  <2>2. SameId(reader', published') /\ ~Reading' /\ work'.kind = "idle"
    BY <2>1, IdleFields DEF SameId
  <2>3. /\ reader' # None => head'[reader'.universe] # None
        /\ \A h \in Handle : snapshots'[h] # None => head'[snapshots'[h].universe] # None
    <3>1. CASE reader = None
      BY <1>14, <2>1, <3>1 DEF ReturnNew
    <3>2. CASE reader # None
      <4>1. Collect(head, resident, Leased(reader', snapshots', None))
        BY <1>14, <2>1, <3>2 DEF ReturnNew
      <4> QED
        BY <2>1, <4>1, TypesStep, ReadersOfCollect DEF ProjectInv
    <3> QED
      BY <3>1, <3>2
  <2> QED
    BY <2>1, <2>2, <2>3
<1>15. CASE TooLate
  <2>1. /\ Collect(head, resident, Leased(reader', snapshots', None))
        /\ UNCHANGED <<reader, snapshots, closing, published>>
        /\ work'.phase # "reading" /\ work'.kind # "open"
    BY <1>15, FailIs DEF TooLate
  <2>2. closing # "done"
    BY <1>15, IdleFields DEF TooLate, Disposed
  <2>3. TypeOK'
    BY TypesStep DEF ProjectInv
  <2> QED
    BY <2>1, <2>2, <2>3, IdleFields, ReadersOfCollect DEF SameId
<1>16. CASE StartOpen
  <2>1. CASE universe # None /\ head[universe] # None
    <3>1. work'.phase = "reading" /\ work'.generation = head[universe]
      BY <1>16, <2>1, IdleFields DEF StartOpen, Turn, Idle
    <3>2. work'.generation.universe = universe
      BY <2>1, <3>1 DEF Delivery, Placed
    <3> QED
      BY <1>16, <2>1, <3>1, <3>2 DEF StartOpen, SameId
  <2>2. CASE ~(universe # None /\ head[universe] # None)
    BY <1>16, <2>2, IdleFields DEF StartOpen, SameId
  <2> QED
    BY <2>1, <2>2
<1>17. ASSUME NEW h \in Handle, HandOut(h) PROVE Read'
  BY <1>17, IdleFields DEF HandOut, SameId
<1>18. CASE TakeBack
  <2>1. /\ Collect(head, resident, Leased(reader', snapshots', None))
        /\ UNCHANGED <<reader, snapshots, closing, published>> /\ work' = Idle
    BY <1>18 DEF TakeBack, SameId
  <2>2. closing # "done"
    BY <1>18, IdleFields DEF TakeBack, Disposed
  <2>3. TypeOK'
    BY TypesStep DEF ProjectInv
  <2> QED
    BY <2>1, <2>2, <2>3, IdleFields, ReadersOfCollect DEF SameId
<1>19. ASSUME NEW h \in Handle, Release(h) PROVE Read'
  <2> DEFINE opened == IF work.phase = "reading" THEN work.generation ELSE None
  <2>1. /\ Collect(head, resident, Leased(reader', snapshots', opened))
        /\ UNCHANGED <<reader, work, closing, published>> /\ closing # "done"
        /\ snapshots' = [snapshots EXCEPT ![h] = None]
    BY <1>19 DEF Release
  <2>2. TypeOK'
    BY TypesStep DEF ProjectInv
  <2>3. \A k \in Handle : snapshots'[k] # None => head[snapshots'[k].universe] # None
    BY <2>1
  <2>4. /\ reader' # None => head'[reader'.universe] # None
        /\ \A k \in Handle : snapshots'[k] # None => head'[snapshots'[k].universe] # None
    BY <2>1, <2>2, <2>3, ReadersOfCollect
  <2>5. work.phase = "reading" => head'[work.generation.universe] = head[work.generation.universe]
    <3>1. work.phase = "reading" => work.generation.universe \in Leased(reader', snapshots', opened)
      BY LeasedIs
    <3>2. work.phase = "reading" => work.generation.universe \in Universe
      BY GenerationFields
    <3>3. \A v \in Universe : v \in Leased(reader', snapshots', opened) => head'[v] = head[v]
      BY <2>1, Collecting
    <3> HIDE DEF opened
    <3> QED
      BY <3>1, <3>2, <3>3
  <2> QED
    BY <2>1, <2>4, <2>5 DEF SameId
<1>20. CASE ReplaceSession
  <2>1. work'.phase # "reading" /\ work'.kind # "open"
    BY <1>20, IdleFields, AwaitingFields DEF ReplaceSession, Kinds
  <2> QED
    BY <1>20, <2>1 DEF ReplaceSession, SameId
<1>21. CASE Dispose
  BY <1>21 DEF Dispose, SameId
<1>22. CASE Cleanup
  BY <1>22, IdleFields DEF Cleanup
<1>23. CASE UNCHANGED vars
  BY <1>23 DEF vars, SameId
<1>24. CASE OpenedLate
  <2>1. work'.phase # "reading" /\ work'.kind # "open"
    BY <1>24, AwaitingFields DEF OpenedLate, Kinds
  <2> QED
    BY <1>24, <2>1 DEF OpenedLate, LateOpening, SameId
<1>25. CASE Ended
  BY <1>25, IdleFields DEF Ended, SameId
<1>26. CASE Dies
  BY <1>26 DEF Dies, SameId
<1>27. ASSUME NEW fate \in Fates, Exit(fate) PROVE Read'
  BY <1>27 DEF Exit, SameId
<1> QED
  BY <1>1, <1>2, <1>3, <1>4, <1>5, <1>6, <1>7, <1>8, <1>9, <1>10, <1>11, <1>12, <1>13, <1>14,
     <1>15, <1>16, <1>17, <1>18, <1>19, <1>20, <1>21, <1>22, <1>23, <1>24, <1>25, <1>26, <1>27
     DEF Next, Answer, Run, Caller, Process
-----------------------------------------------------------------------------
(* What is handed out. *)

\* Steps that commit nothing and hand out nothing.
LEMMA DeliveryKept ==
  ASSUME Delivery, UNCHANGED <<pending, mirror, touched, moved>>,
         \A u \in Universe : head'[u] \in {head[u], None},
         \A u \in Universe : head'[u] # None => shards'[u] = shards[u],
         closing = "done" => closing' = "done",
         Answers'
  PROVE  Delivery'
<1>1. Chained' /\ Told'
  BY DEF Delivery, Chained, Told
<1>2. Placed' /\ Lineages' /\ Known'
  BY DEF Delivery, Placed, Lineages, Known, End
<1> QED
  BY <1>1, <1>2 DEF Delivery

\* An answer that is not replaced still stands.
LEMMA AnswersKept ==
  ASSUME Delivery, UNCHANGED <<pending, mirror>>,
         Returned' => Returned /\ work'.generation = work.generation
  PROVE  Answers'
  BY DEF Delivery, Answers, End

LEMMA DeliveryOfReturn ==
  ASSUME TypeOK, Processes, Delivery, Return, Returned,
         \A u \in Universe : head'[u] \in {head[u], None},
         UNCHANGED closing
  PROVE  Delivery'
<1>1. /\ pending' = <<>> /\ touched' = {} /\ work' = Idle /\ shards' = Remembered
      /\ mirror' = [u \in Universe |-> End(u)]
  BY DEF Return, End
<1>2. \A u \in Universe : End(u)' = End(u)
  <2> SUFFICES ASSUME NEW u \in Universe PROVE End(u)' = End(u)
    OBVIOUS
  <2>1. Earlier(<<>>, 1, u) = {}
    BY DEF Earlier
  <2>2. Latest(mirror', <<>>, 1, u) = mirror'[u]
    BY <2>1, LatestNone
  <2>3. End(u)' = Latest(mirror', <<>>, 1, u)
    BY <1>1 DEF End
  <2>4. mirror'[u] = End(u)
    BY <1>1
  <2> QED
    BY <2>2, <2>3, <2>4
<1>3. Chained' /\ Told'
  BY <1>1 DEF Chained, Told
<1>4. Answers'
  BY <1>1, IdleFields DEF Answers, Returned, Reading
<1>5. Placed' /\ Lineages'
  BY <1>2 DEF Delivery, Placed, Lineages
<1>6. Known'
  BY <1>1, RememberedIs DEF Delivery, Known
<1> QED
  BY <1>3, <1>4, <1>5, <1>6 DEF Delivery

LEMMA DeliveryOfFail ==
  ASSUME TypeOK, Processes, Delivery, Fail \/ Abort, closing # "done",
         \A u \in Universe : head'[u] \in {head[u], None},
         UNCHANGED <<mirror, touched>>
  PROVE  Delivery'
<1>1. /\ UNCHANGED <<pending, moved, closing>>
      /\ work'.phase \in {"idle", "ending"} /\ (shards' = shards \/ shards' = Remembered)
  BY FailIs
<1>2. Answers'
  BY <1>1 DEF Answers, Returned, Reading
<1> QED
  BY <1>1, <1>2, RememberedIs, DeliveryKept

LEMMA DeliveryOfCommit ==
  ASSUME TypeOK, Delivery, NEW u \in Universe, NEW content \in Contents,
         NEW complete \in BOOLEAN, Commit(u, content, complete)
  PROVE  Delivery'
<1> DEFINE base == head[u]
           before == IF base = None THEN [s \in Source |-> None] ELSE base.content
           number == IF base = None THEN 1 ELSE base.sequence + 1
           next == [universe |-> u, content |-> content, sequence |-> number]
           t == [base |-> base, next |-> next]
           upserts == {s \in Present(content) : complete \/ content[s] # before[s]}
           deletes == Present(before) \ Present(content)
           heads == [head EXCEPT ![u] = next]
<1>1. next \in Generations /\ t \in Transactions /\ next # None
  BY NextGeneration, GenerationFields
<1>2. next.universe = u /\ next.content = content /\ t.base = base /\ t.next = next
  OBVIOUS
<1>3. /\ pending' = Append(pending, t) /\ UNCHANGED <<mirror, closing>>
      /\ Collect(heads, Used(resident, u), Leased(reader, snapshots, None))
      /\ work'.generation = next
  BY DEF Commit, TypeOK
<1>4. /\ moved' = moved \union upserts \union (deletes \intersect shards[u])
      /\ shards' = [shards EXCEPT ![u] = (@ \ deletes) \union upserts]
      /\ touched' = touched \union {s \in Source : content[s] # before[s]}
  BY DEF Commit
<1>5. heads \in [Universe -> Generations \union {None}]
  BY <1>1 DEF TypeOK
<1>6. \A v \in Universe : head'[v] \in {heads[v], None}
  BY <1>3, <1>5, Collecting
<1>7. heads[u] = next /\ \A v \in Universe \ {u} : heads[v] = head[v]
  BY DEF TypeOK
<1>8. pending \in Seq(Transactions) /\ head[u] \in Generations \union {None}
  BY DEF TypeOK
<1>9. before \in [Source -> Revision \union {None}] /\ content \in [Source -> Revision \union {None}]
  BY <1>8, GenerationFields DEF Contents
<1>10. shards \in [Universe -> SUBSET Source]
  BY DEF TypeOK
<1>11. base # None => Present(before) \subseteq shards[u]
  BY DEF Delivery, Known
<1>12. base = None => Present(before) = {}
  BY DEF Present
<1> HIDE DEF next, t, heads
<1>13. Len(pending') = Len(pending) + 1 /\ Len(pending) \in Nat
  BY <1>1, <1>3, <1>8
<1>14. \A v \in Universe : End(v)' = IF v = u THEN next ELSE End(v)
  <2> SUFFICES ASSUME NEW v \in Universe PROVE End(v)' = IF v = u THEN next ELSE End(v)
    OBVIOUS
  <2>1. End(v)' = Latest(mirror, Append(pending, t), Len(pending) + 2, v)
    <3>1. Len(pending') + 1 = Len(pending) + 2
      BY <1>13
    <3>2. End(v)' = Latest(mirror', pending', Len(pending') + 1, v)
      BY DEF End
    <3> QED
      BY <1>3, <3>1, <3>2
  <2>2. Latest(mirror, Append(pending, t), Len(pending) + 2, v)
          = IF t.next.universe = v THEN t.next ELSE Latest(mirror, pending, Len(pending) + 1, v)
    BY <1>1, <1>8, LatestGrows
  <2> QED
    BY <1>2, <2>1, <2>2 DEF End
<1>15. Chained'
  <2> SUFFICES ASSUME NEW i \in 1 .. Len(pending) + 1
               PROVE  pending'[i].base
                        \in {None, Latest(mirror', pending', i, pending'[i].next.universe)}
    BY <1>13 DEF Chained
  <2>1. \A v : Latest(mirror', pending', i, v) = Latest(mirror, pending, i, v)
    BY <1>1, <1>3, <1>8, LatestGrows
  <2>2. CASE i = Len(pending) + 1
    <3>1. pending'[i] = t
      BY <1>3, <1>8, <2>2
    <3>2. head[u] # None => head[u] = Latest(mirror, pending, i, u)
      BY <2>2 DEF Delivery, Lineages, End
    <3> QED
      BY <1>2, <2>1, <3>1, <3>2
  <2>3. CASE i # Len(pending) + 1
    <3>1. i \in 1 .. Len(pending) /\ pending'[i] = pending[i]
      BY <1>3, <1>8, <1>13, <2>3
    <3> QED
      BY <2>1, <3>1 DEF Delivery, Chained
  <2> QED
    BY <2>2, <2>3
<1>16. Placed' /\ Lineages'
  <2>1. \A v \in Universe : head'[v] # None => head'[v] = IF v = u THEN next ELSE head[v]
    BY <1>6, <1>7
  <2>2. Placed'
    BY <1>2, <2>1 DEF Delivery, Placed
  <2>3. Lineages'
    BY <1>14, <2>1 DEF Delivery, Lineages
  <2> QED
    BY <2>2, <2>3
<1>17. Answers'
  BY <1>1, <1>2, <1>3, <1>14 DEF Answers
<1>18. Known'
  <2> SUFFICES ASSUME NEW v \in Universe, head'[v] # None
               PROVE  Present(head'[v].content) \subseteq shards'[v]
    BY DEF Known
  <2>1. CASE v = u
    <3>1. head'[v].content = content /\ shards'[v] = (shards[u] \ deletes) \union upserts
      BY <1>2, <1>4, <1>6, <1>7, <1>10, <2>1
    <3>2. ASSUME NEW s \in Present(content) PROVE s \in (shards[u] \ deletes) \union upserts
      <4>1. s \in Source /\ content[s] # None
        BY DEF Present
      <4>2. CASE content[s] = before[s]
        <5>1. s \in Present(before)
          BY <4>1, <4>2 DEF Present
        <5> QED
          BY <1>11, <1>12, <5>1
      <4>3. CASE content[s] # before[s]
        BY <4>3
      <4> QED
        BY <4>2, <4>3
    <3> QED
      BY <3>1, <3>2
  <2>2. CASE v # u
    <3>1. head'[v] = head[v] /\ shards'[v] = shards[v]
      BY <1>4, <1>6, <1>7, <1>10, <2>2
    <3> QED
      BY <3>1 DEF Delivery, Known
  <2> QED
    BY <2>1, <2>2
<1>19. Told'
  <2>1. ASSUME NEW s \in Source, content[s] # before[s]
        PROVE  s \in upserts \union (deletes \intersect shards[u])
    <3>1. CASE content[s] # None
      BY <2>1, <3>1 DEF Present
    <3>2. CASE content[s] = None
      <4>1. s \in Present(before) /\ s \notin Present(content)
        BY <2>1, <3>2 DEF Present
      <4> QED
        BY <1>11, <1>12, <4>1
    <3> QED
      BY <3>1, <3>2
  <2> HIDE DEF upserts, deletes, before
  <2> QED
    BY <1>3, <1>4, <2>1 DEF Delivery, Told
<1> QED
  BY <1>15, <1>16, <1>17, <1>18, <1>19 DEF Delivery

LEMMA DeliveryStep == ProjectInv /\ [Next]_vars => Delivery'
<1> SUFFICES ASSUME TypeOK, Processes, Disposed, Read, Delivery, [Next]_vars PROVE Delivery'
  BY DEF ProjectInv
<1>1. ASSUME NEW kind \in Kinds, Call(kind) PROVE Delivery'
  <2>1. Answers'
    BY <1>1, IdleFields, AnswersKept DEF Call, facts, client, Returned, Reading
  <2>2. /\ UNCHANGED <<pending, mirror, touched, moved>>
        /\ \A u \in Universe : head'[u] \in {head[u], None}
        /\ \A u \in Universe : head'[u] # None => shards'[u] = shards[u]
        /\ closing = "done" => closing' = "done"
    BY <1>1 DEF Call, store, facts, client
  <2> QED
    BY <2>1, <2>2, DeliveryKept
<1>2. CASE Refuse
  <2>1. Answers'
    BY <1>2, IdleFields, AnswersKept DEF Refuse, facts, client, Returned, Reading
  <2>2. /\ UNCHANGED <<pending, mirror, touched, moved>>
        /\ \A u \in Universe : head'[u] \in {head[u], None}
        /\ \A u \in Universe : head'[u] # None => shards'[u] = shards[u]
        /\ closing = "done" => closing' = "done"
    BY <1>2 DEF Refuse, store, facts, client
  <2> QED
    BY <2>1, <2>2, DeliveryKept
<1>3. CASE StartRefresh
  <2>1. Answers'
    <3>1. work'.phase \in {"opening", "asking"}
      BY <1>3, IdleFields DEF StartRefresh, Idle
    <3> QED
      BY <3>1 DEF Answers, Returned, Reading
  <2>2. /\ UNCHANGED <<pending, mirror, touched, moved>>
        /\ \A u \in Universe : head'[u] \in {head[u], None}
        /\ \A u \in Universe : head'[u] # None => shards'[u] = shards[u]
        /\ closing = "done" => closing' = "done"
    BY <1>3 DEF StartRefresh, store, facts, client, Turn
  <2> QED
    BY <2>1, <2>2, DeliveryKept
<1>4. CASE Opened
  <2>1. Answers'
    <3>1. work'.phase = "asking"
      BY <1>4 DEF Opened, TypeOK
    <3> QED
      BY <3>1 DEF Answers, Returned, Reading
  <2>2. /\ UNCHANGED <<pending, mirror, touched, moved>>
        /\ \A u \in Universe : head'[u] \in {head[u], None}
        /\ \A u \in Universe : head'[u] # None => shards'[u] = shards[u]
        /\ closing = "done" => closing' = "done"
    BY <1>4 DEF Opened, store, facts, client
  <2> QED
    BY <2>1, <2>2, DeliveryKept
<1>5. ASSUME NEW u \in Universe, NEW content \in Contents, NEW complete \in BOOLEAN,
             Commit(u, content, complete)
      PROVE  Delivery'
  BY <1>5, DeliveryOfCommit
<1>6. ASSUME NEW u \in Universe, Join(u) PROVE Delivery'
  <2>1. Answers'
    <3>1. head[u] # None /\ work'.generation = head[u]
      BY <1>6 DEF Join, TypeOK
    <3>2. head[u] = End(u) /\ head[u].universe = u
      BY <3>1 DEF Delivery, Lineages, Placed
    <3>3. End(u)' = End(u)
      BY <1>6 DEF Join, facts, client, End
    <3> QED
      BY <3>1, <3>2, <3>3 DEF Answers
  <2>2. /\ UNCHANGED <<pending, mirror, touched, moved>>
        /\ \A v \in Universe : head'[v] \in {head[v], None}
        /\ \A v \in Universe : head'[v] # None => shards'[v] = shards[v]
        /\ closing = "done" => closing' = "done"
    BY <1>6 DEF Join, store, facts, client
  <2> QED
    BY <2>1, <2>2, DeliveryKept
<1>7. CASE Unchanged
  <2>1. Answers'
    <3>1. PICK u \in Universe : head[u] # None /\ work'.generation = head[u]
      BY <1>7 DEF Unchanged, TypeOK, Serving
    <3>2. head[u] = End(u) /\ head[u].universe = u
      BY <3>1 DEF Delivery, Lineages, Placed
    <3>3. End(u)' = End(u)
      BY <1>7 DEF Unchanged, facts, client, End
    <3> QED
      BY <3>1, <3>2, <3>3 DEF Answers
  <2>2. /\ UNCHANGED <<pending, mirror, touched, moved>>
        /\ \A u \in Universe : head'[u] \in {head[u], None}
        /\ \A u \in Universe : head'[u] # None => shards'[u] = shards[u]
        /\ closing = "done" => closing' = "done"
    BY <1>7 DEF Unchanged, store, facts, client
  <2> QED
    BY <2>1, <2>2, DeliveryKept
<1>8. ASSUME NEW discover \in BOOLEAN, Acknowledged(discover) PROVE Delivery'
  <2>1. Answers'
    <3>1. work'.generation = work.generation /\ Returned
      BY <1>8 DEF Acknowledged, Returned, TypeOK
    <3> QED
      BY <1>8, <3>1, AnswersKept DEF Acknowledged, facts, client
  <2>2. /\ UNCHANGED <<pending, mirror, touched, moved>>
        /\ \A u \in Universe : head'[u] \in {head[u], None}
        /\ \A u \in Universe : head'[u] # None => shards'[u] = shards[u]
        /\ closing = "done" => closing' = "done"
    BY <1>8 DEF Acknowledged, store, facts, client
  <2> QED
    BY <2>1, <2>2, DeliveryKept
<1>9. CASE Failure
  <2>1. closing # "done" /\ UNCHANGED <<mirror, touched>>
    BY <1>9, IdleFields, FailIs DEF Failure, Disposed, Waiting
  <2> QED
    BY <1>9, <2>1, DeliveryOfFail DEF Failure, store
<1>10. CASE Interrupted
  <2>1. closing # "done" /\ UNCHANGED <<mirror, touched>>
    BY <1>10, IdleFields, FailIs DEF Interrupted, Disposed, Waiting
  <2> QED
    BY <1>10, <2>1, DeliveryOfFail DEF Interrupted, store
<1>11. CASE ReturnSame
  BY <1>11, DeliveryOfReturn DEF ReturnSame, Returned, store
<1>12. CASE OpenCurrent
  <2>1. Answers'
    <3>1. work'.generation = work.generation /\ Returned
      BY <1>12 DEF OpenCurrent, Returned, TypeOK
    <3> QED
      BY <1>12, <3>1, AnswersKept DEF OpenCurrent, facts, client
  <2>2. /\ UNCHANGED <<pending, mirror, touched, moved>>
        /\ \A u \in Universe : head'[u] \in {head[u], None}
        /\ \A u \in Universe : head'[u] # None => shards'[u] = shards[u]
        /\ closing = "done" => closing' = "done"
    BY <1>12 DEF OpenCurrent, store, facts, client
  <2> QED
    BY <2>1, <2>2, DeliveryKept
<1>13. CASE Dropped
  <2>1. closing # "done" /\ UNCHANGED <<mirror, touched>>
    BY <1>13, IdleFields, FailIs DEF Dropped, Disposed, Waiting
  <2> QED
    BY <1>13, <2>1, DeliveryOfFail DEF Dropped, store
<1>14. CASE ReturnNew
  <2>1. \A u \in Universe : head'[u] \in {head[u], None}
    BY <1>14, Collecting DEF ReturnNew, TypeOK, store
  <2> QED
    BY <1>14, <2>1, DeliveryOfReturn DEF ReturnNew, Returned, Reading
<1>15. CASE TooLate
  <2>1. \A u \in Universe : head'[u] \in {head[u], None}
    BY <1>15, Collecting DEF TooLate, TypeOK
  <2>2. closing # "done" /\ UNCHANGED <<mirror, touched>>
    BY <1>15, IdleFields, FailIs DEF TooLate, Disposed
  <2> QED
    BY <1>15, <2>1, <2>2, DeliveryOfFail DEF TooLate
<1>16. CASE StartOpen
  <2>1. Answers'
    <3>1. work'.kind # "refresh" /\ work'.phase \in {"idle", "reading"}
      BY <1>16, IdleFields DEF StartOpen, Idle
    <3> QED
      BY <3>1 DEF Answers, Returned, Reading
  <2>2. /\ UNCHANGED <<pending, mirror, touched, moved>>
        /\ \A u \in Universe : head'[u] \in {head[u], None}
        /\ \A u \in Universe : head'[u] # None => shards'[u] = shards[u]
        /\ closing = "done" => closing' = "done"
    BY <1>16 DEF StartOpen, store, facts, client, Turn
  <2> QED
    BY <2>1, <2>2, DeliveryKept
<1>17. ASSUME NEW h \in Handle, HandOut(h) PROVE Delivery'
  <2>1. Answers'
    BY <1>17, IdleFields DEF HandOut, Answers, Returned, Reading
  <2>2. /\ UNCHANGED <<pending, mirror, touched, moved>>
        /\ \A u \in Universe : head'[u] \in {head[u], None}
        /\ \A u \in Universe : head'[u] # None => shards'[u] = shards[u]
        /\ closing = "done" => closing' = "done"
    BY <1>17 DEF HandOut, store, facts, client
  <2> QED
    BY <2>1, <2>2, DeliveryKept
<1>18. CASE TakeBack
  <2>1. Answers'
    BY <1>18, IdleFields DEF TakeBack, Answers, Returned, Reading
  <2>2. /\ UNCHANGED <<pending, mirror, touched, moved>>
        /\ \A u \in Universe : head'[u] \in {head[u], None}
        /\ \A u \in Universe : head'[u] # None => shards'[u] = shards[u]
        /\ closing = "done" => closing' = "done"
    BY <1>18, Collecting DEF TakeBack, store, facts, client, TypeOK
  <2> QED
    BY <2>1, <2>2, DeliveryKept
<1>19. ASSUME NEW h \in Handle, Release(h) PROVE Delivery'
  <2>1. Answers'
    BY <1>19, AnswersKept DEF Release, client, Returned, Reading
  <2>2. /\ UNCHANGED <<pending, mirror, touched, moved>>
        /\ \A u \in Universe : head'[u] \in {head[u], None}
        /\ \A u \in Universe : head'[u] # None => shards'[u] = shards[u]
        /\ closing = "done" => closing' = "done"
    BY <1>19, Collecting, RememberedIs DEF Release, store, facts, client, TypeOK
  <2> QED
    BY <2>1, <2>2, DeliveryKept
<1>20. CASE ReplaceSession
  <2>1. Answers'
    <3>1. work'.phase \in {"idle", "ending"}
      BY <1>20, IdleFields, AwaitingFields DEF ReplaceSession, Kinds
    <3> QED
      BY <3>1 DEF Answers, Returned, Reading
  <2>2. /\ UNCHANGED <<pending, mirror, touched, moved>>
        /\ \A u \in Universe : head'[u] \in {head[u], None}
        /\ \A u \in Universe : head'[u] # None => shards'[u] = shards[u]
        /\ closing = "done" => closing' = "done"
    BY <1>20 DEF ReplaceSession, store, facts, client, Turn
  <2> QED
    BY <2>1, <2>2, DeliveryKept
<1>21. CASE Dispose
  <2>1. Answers'
    BY <1>21, IdleFields, AnswersKept DEF Dispose, facts, client, Returned, Reading
  <2>2. /\ UNCHANGED <<pending, mirror, touched, moved>>
        /\ \A u \in Universe : head'[u] \in {head[u], None}
        /\ \A u \in Universe : head'[u] # None => shards'[u] = shards[u]
        /\ closing = "done" => closing' = "done"
    BY <1>21 DEF Dispose, store, facts, client
  <2> QED
    BY <2>1, <2>2, DeliveryKept
<1>22. CASE Cleanup
  BY <1>22, IdleFields DEF Cleanup, Delivery, Chained, Placed, Lineages, Answers, Known, Told,
     Returned, Reading
<1>23. CASE UNCHANGED vars
  BY <1>23 DEF vars, store, facts, client, Delivery, Chained, Placed, Lineages, Answers, Known,
     Told, Returned, Reading, End
<1>24. CASE OpenedLate
  <2>1. Answers'
    <3>1. work'.phase = "ending"
      BY <1>24, AwaitingFields DEF OpenedLate, Kinds
    <3> QED
      BY <3>1 DEF Answers, Returned, Reading
  <2>2. /\ UNCHANGED <<pending, mirror, touched, moved>>
        /\ \A u \in Universe : head'[u] \in {head[u], None}
        /\ \A u \in Universe : head'[u] # None => shards'[u] = shards[u]
        /\ closing = "done" => closing' = "done"
    BY <1>24 DEF OpenedLate, LateOpening, store, facts, client
  <2> QED
    BY <2>1, <2>2, DeliveryKept
<1>25. CASE Ended
  <2>1. Answers'
    BY <1>25, IdleFields DEF Ended, Answers, Returned, Reading
  <2>2. /\ UNCHANGED <<pending, mirror, touched, moved>>
        /\ \A u \in Universe : head'[u] \in {head[u], None}
        /\ \A u \in Universe : head'[u] # None => shards'[u] = shards[u]
        /\ closing = "done" => closing' = "done"
    BY <1>25, RememberedIs DEF Ended, store, facts, client
  <2> QED
    BY <2>1, <2>2, DeliveryKept
<1>26. CASE Dies
  <2>1. Answers'
    BY <1>26, AnswersKept DEF Dies, facts, client, Returned, Reading
  <2>2. /\ UNCHANGED <<pending, mirror, touched, moved>>
        /\ \A u \in Universe : head'[u] \in {head[u], None}
        /\ \A u \in Universe : head'[u] # None => shards'[u] = shards[u]
        /\ closing = "done" => closing' = "done"
    BY <1>26 DEF Dies, store, facts, client
  <2> QED
    BY <2>1, <2>2, DeliveryKept
<1>27. ASSUME NEW fate \in Fates, Exit(fate) PROVE Delivery'
  <2>1. Answers'
    BY <1>27, AnswersKept DEF Exit, facts, client, Returned, Reading
  <2>2. /\ UNCHANGED <<pending, mirror, touched, moved>>
        /\ \A u \in Universe : head'[u] \in {head[u], None}
        /\ \A u \in Universe : head'[u] # None => shards'[u] = shards[u]
        /\ closing = "done" => closing' = "done"
    BY <1>27 DEF Exit, store, facts, client
  <2> QED
    BY <2>1, <2>2, DeliveryKept
<1> QED
  BY <1>1, <1>2, <1>3, <1>4, <1>5, <1>6, <1>7, <1>8, <1>9, <1>10, <1>11, <1>12, <1>13, <1>14,
     <1>15, <1>16, <1>17, <1>18, <1>19, <1>20, <1>21, <1>22, <1>23, <1>24, <1>25, <1>26, <1>27
     DEF Next, Answer, Run, Caller, Process

-----------------------------------------------------------------------------
(* Theorems. *)

THEOREM ProjectInvariance == Spec => []ProjectInv
<1>1. ProjectInv /\ [Next]_vars => ProjectInv'
  BY TypesStep, ProcessesStep, DisposedStep, ReadStep, DeliveryStep DEF ProjectInv
<1> QED
  BY InvInit, <1>1, PTL DEF Spec

(* The state of a project keeps its types (ResidentProject's fields).       *)
THEOREM ProjectTypes == Spec => []TypeOK
<1>1. ProjectInv => TypeOK
  BY DEF ProjectInv
<1> QED
  BY ProjectInvariance, <1>1, PTL

(* Every process that has not been told to end serves the project's service *)
(* and none is opened beside one that is awaited, however sessions fail,    *)
(* die, are aborted or are opened late; and at whatever step a disposal     *)
(* falls, it leaves no session, no reader and no process that was neither   *)
(* awaited nor signalled (refresh, replaceSession, dispose).                *)
THEOREM NothingOutlivesDisposal == Spec => []NothingLeaks
<1>1. ProjectInv => NothingLeaks
  <2> SUFFICES ASSUME TypeOK, Processes, Disposed PROVE NothingLeaks
    BY DEF ProjectInv
  <2>1. processes["serving"] + processes["ending"] <= 1
    BY DEF Processes, TypeOK, Fates
  <2> QED
    BY <2>1 DEF Processes, Disposed, NothingLeaks
<1> QED
  BY ProjectInvariance, <1>1, PTL

(* What was returned last and what callers read stays in the store, for any *)
(* number of universes and any bound on them (refresh, open).               *)
THEOREM ReadersAreRetained == Spec => []ReadersRetained
<1>1. ProjectInv => ReadersRetained
  BY DEF ProjectInv, Read, ReadersRetained
<1> QED
  BY ProjectInvariance, <1>1, PTL

(* What a refresh hands out is what all commits since the last one that     *)
(* returned amount to, however many refreshes have failed in between and    *)
(* whatever the store has dropped (the hand-out of refresh).                *)
THEOREM UpdatesAreExact == Spec => UpdatesExact
<1>1. ASSUME ProjectInv, Returning
      PROVE  /\ \A i \in DOMAIN pending :
                  pending[i].base
                    \in {None, Latest(mirror, pending, i, pending[i].next.universe)}
             /\ mirror'[published'.universe] = published'
             /\ touched \subseteq moved
  <2>1. /\ Return /\ Returned /\ closing # "done"
    BY <1>1, IdleFields DEF ProjectInv, Disposed, Returning, ReturnSame, ReturnNew, Returned,
       Reading
  <2>2. work.generation \in Generations
    BY <1>1, <2>1 DEF ProjectInv, TypeOK, Delivery, Answers
  <2>3. published' = work.generation /\ mirror' = [u \in Universe |-> End(u)]
    BY <2>1 DEF Return, End
  <2>4. work.generation = End(work.generation.universe)
    BY <1>1, <2>1 DEF ProjectInv, Delivery, Answers
  <2>5. DOMAIN pending = 1 .. Len(pending)
    BY <1>1 DEF ProjectInv, TypeOK
  <2> QED
    BY <1>1, <2>1, <2>2, <2>3, <2>4, <2>5, GenerationFields
       DEF ProjectInv, Delivery, Chained, Told
<1> QED
  BY <1>1, ProjectInvariance, PTL DEF UpdatesExact
=============================================================================
