-------------------------- MODULE PassPipelineProofs --------------------------
(***************************************************************************)
(* Proofs about PassPipeline, for every value of its constants: the native  *)
(* shards in memory are complete whenever passes run, every published       *)
(* generation is coherent when the passes require what they read, what      *)
(* moved is reported, and a quiet refresh publishes nothing new.            *)
(*                                                                         *)
(* Lineage says which generation the shards in memory are those of, at      *)
(* every stage and after every failure; the other invariants stand on it.   *)
(* Accounts says what a carried output still knows: it was read from the    *)
(* native facts as they are in every namespace that is not dirty, and from  *)
(* the carried outputs as they are.  Progress says that the passes behind   *)
(* the turn are derived, and that those not run are as carried.  Reports    *)
(* and Retention relate what is in memory to the last publication.          *)
(***************************************************************************)
EXTENDS PassPipeline, TLAPS

Held(u) == IF private[u] = None THEN NoFiles ELSE private[u]
Here == [u \in Universe |-> IF u = universe THEN Held(u) ELSE NoFiles]
Only(c) == [u \in Universe |-> IF u = c.u THEN c.files ELSE NoFiles]

Shapes ==
  /\ portable = [p \in Pass |-> portable[p]]
  /\ staged = [p \in Pass |-> staged[p]]
  /\ public = [u \in Universe |-> public[u]]

Lineage ==
  /\ (/\ refresh.stage \in {"idle", "request"} /\ universe # None
      /\ Base = acked
      /\ pending = None \/ pending.u = universe) => shards = Here
  /\ refresh.stage = "acknowledge" =>
       /\ pending # None
       /\ private[pending.u] = pending.files
       /\ shards = Only(pending)
  /\ refresh.stage = "run" =>
       /\ universe # None /\ private[universe] # None
       /\ Base = acked /\ pending = None
       /\ shards = Here

Sound(p) ==
  \/ portable[p] = NoOutput
  \/ p \notin Mandatory /\ portable[p] = Unavailable
  \/ /\ portable[p] = Ran(portable[p].read)
     /\ portable[p].read = [i \in Inputs[p] |-> portable[p].read[i]]
     /\ \A i \in Inputs[p] :
          /\ i \in Ns \ dirty => portable[p].read[i] = View(private[universe], i)
          /\ i \in Pass => portable[p].read[i] = portable[i]

Accounts ==
  /\ universe = None \/ private[universe] = None => portable = NoOutputs
  /\ refresh.stage = "acknowledge" /\ pending.u # universe => portable = NoOutputs
  /\ \A p \in Pass : Sound(p)

Progress ==
  refresh.stage = "run" =>
    /\ \A i \in 1..Len(Order) :
         IF i < refresh.at THEN Derived(Order[i], private[universe], staged)
                           ELSE Order[i] \notin ran
    /\ \A p \in Pass : p \notin ran => staged[p] = portable[p]

LineageInv == TypeOK /\ Lineage
Derivations == Shapes /\ Accounts /\ Progress /\ Coherent

-----------------------------------------------------------------------------
(* Lemmas about single values.                                              *)

(* What Base is, and that it is a generation when there is one.             *)
LEMMA BaseValue ==
  ASSUME TypeOK
  PROVE  /\ Base \in Snapshots
         /\ Base # None <=> universe # None /\ private[universe] # None
         /\ Base # None => Base = [u |-> universe, files |-> private[universe]]
BY NoneAssumption DEF TypeOK, Base, Snapshots

(* What the analyzer's answers say of the session and of its candidate.     *)
LEMMA AnswerValue ==
  ASSUME TypeOK
  PROVE  /\ Candidate \in [u : Universe, files : Files]
         /\ Answer \in {"transaction", "unchanged"} => Base = acked
         /\ Answer = "unchanged" => pending = None /\ Base # None
<1>1. Candidate \in [u : Universe, files : Files] /\ project # None
  BY NoneAssumption DEF TypeOK, Candidate, Snapshots
<1>2. Answer \in {"transaction", "unchanged"} => Base = acked
  BY DEF Answer
<1>3. Answer = "unchanged" => pending = None /\ Base # None
  BY <1>1 DEF Answer, Sees
<1> QED
  BY <1>1, <1>2, <1>3

LEMMA NoFilesType == NoFiles \in Files
BY DEF NoFiles, Files

LEMMA IdleFields ==
  /\ Idle.stage = "idle" /\ Idle.at = 1
  /\ Idle \in Refreshes
BY PlanAssumption DEF Idle, Refreshes, Stages

(* A refresh that goes to another stage or another turn.                    *)
LEMMA RefreshMoves ==
  ASSUME NEW r \in Refreshes, NEW st \in Stages, NEW n \in 1..Len(Order) + 1
  PROVE  /\ [r EXCEPT !.stage = st] \in Refreshes
         /\ [r EXCEPT !.stage = st].stage = st
         /\ [r EXCEPT !.stage = st, !.at = n] \in Refreshes
         /\ [r EXCEPT !.stage = st, !.at = n].stage = st
         /\ [r EXCEPT !.stage = st, !.at = n].at = n
         /\ [r EXCEPT !.at = n] \in Refreshes
         /\ [r EXCEPT !.at = n].stage = r.stage
         /\ [r EXCEPT !.at = n].at = n
BY DEF Refreshes

LEMMA FirstTurn == 1 \in 1..Len(Order) + 1 /\ Len(Order) \in Nat
BY PlanAssumption

-----------------------------------------------------------------------------
(* Types.                                                                   *)

LEMMA TypesInit == Init => TypeOK
BY NoFilesType, IdleFields, BoundAssumption, PlanAssumption
DEF Init, TypeOK, Snapshots, NoOutputs, NoOutput, Kinds, Files

(* What Admit leaves: the candidate is pending and private, its shards are   *)
(* well formed, and a rollover has dropped the carried outputs.             *)
LEMMA AdmitTypes ==
  ASSUME TypeOK, Admit
  PROVE  /\ pending' = Candidate /\ pending' \in [u : Universe, files : Files]
         /\ private' = [private EXCEPT ![Candidate.u] = Candidate.files]
         /\ private' \in [Universe -> Files \cup {None}]
         /\ shards' \in [Universe -> Files]
         /\ dirty' \subseteq Ns /\ owed' \subseteq Universe \X Source
         /\ portable' = IF Candidate.u # universe THEN NoOutputs ELSE portable
         /\ told' \in Snapshots
<1> DEFINE c == Candidate
           old == IF private[c.u] = None THEN NoFiles ELSE private[c.u]
           whole == Base = None \/ c.u # Base.u
           ups == Upserts(old, c.files, whole)
           dels == Deletes(old, c.files)
           keys == Touches(shards[c.u], ups, dels)
<1>1. c \in [u : Universe, files : Files]
  BY AnswerValue
<1>2. keys \subseteq Ns \X Source
  BY DEF Touches, Upserts, Deletes
<1>3. /\ pending' = c
      /\ private' = [private EXCEPT ![c.u] = c.files]
      /\ dirty' = dirty \cup {k[1] : k \in keys}
      /\ owed' = owed \cup {<<c.u, k[2]>> : k \in {j \in keys : j[1] = SourceNs}}
      /\ portable' = IF c.u # universe THEN NoOutputs ELSE portable
      /\ told' = IF c.u # universe THEN None ELSE told
      /\ shards' = [u \in Universe |->
           IF u # c.u THEN Remaining(u, c.u # universe)
           ELSE [s \in Source |->
             IF \E n \in Ns : <<n, s>> \in ups THEN c.files[s]
             ELSE IF \E n \in Ns : <<n, s>> \in dels THEN None
             ELSE Remaining(u, c.u # universe)[s]]]
  BY DEF Admit
<1>4. shards' \in [Universe -> Files]
  <2>1. \A u \in Universe : Remaining(u, c.u # universe) \in Files
    BY NoFilesType DEF Remaining, TypeOK
  <2>2. c.files \in Files
    BY <1>1
  <2> HIDE DEF c, ups, dels
  <2>4. \A u \in Universe : shards'[u] \in Files
    BY <1>3, <2>1, <2>2 DEF Files
  <2> QED
    BY <1>3, <2>4
<1>5. dirty' \subseteq Ns
  BY <1>2, <1>3 DEF TypeOK
<1>6. owed' \subseteq Universe \X Source
  BY <1>1, <1>2, <1>3 DEF TypeOK
<1> QED
  BY <1>1, <1>3, <1>4, <1>5, <1>6 DEF TypeOK, Snapshots

(* Every step keeps the types.                                              *)
LEMMA TypesStep == LineageInv /\ [Next]_vars => TypeOK'
<1> SUFFICES ASSUME TypeOK, Lineage, [Next]_vars PROVE TypeOK'
  BY DEF LineageInv
<1> USE DEF TypeOK
<1>1. ASSUME NEW s \in Source, Edit(s) PROVE TypeOK'
  <2>1. project' \in [u : Universe, files : Files]
    BY <1>1 DEF Edit, Files
  <2>2. edits' \in 0..MaxEdits
    BY <1>1, BoundAssumption DEF Edit
  <2> QED
    BY <1>1, <2>1, <2>2 DEF Edit, analyzer, resident, runner
<1>2. CASE Reconfigure
  BY <1>2, BoundAssumption DEF Reconfigure, analyzer, resident, runner
<1>3. ASSUME NEW force \in BOOLEAN, NEW discover \in BOOLEAN, Begin(force, discover)
      PROVE  TypeOK'
  <2>1. refresh' = [stage |-> "request", force |-> force, discover |-> discover,
                   round |-> 0, at |-> 1]
    BY <1>3 DEF Begin, Idle
  <2>2. refresh' \in Refreshes
    BY <2>1, FirstTurn DEF Refreshes, Stages
  <2> QED
    BY <1>3, <2>2 DEF Begin, analyzer, resident, runner
<1>4. CASE Refused \/ Fails
  BY <1>4, IdleFields, BoundAssumption DEF Refused, Fails, analyzer, resident, runner
<1>5. CASE Unchanged
  <2>1. refresh' \in Refreshes
    BY <1>5, RefreshMoves, FirstTurn DEF Unchanged, Stages
  <2> QED
    BY <1>5, <2>1 DEF Unchanged, analyzer, resident
<1>6. CASE LoseAnswer
  BY <1>6, IdleFields, AnswerValue, BoundAssumption DEF LoseAnswer, Snapshots, resident, runner
<1>7. CASE Admit
  <2>1. refresh' \in Refreshes
    BY <1>7, RefreshMoves, FirstTurn DEF Admit, Stages
  <2>2. DOMAIN portable' = Pass /\ \A p \in Pass : portable'[p].kind \in Kinds
    BY <1>7, AdmitTypes DEF NoOutputs, NoOutput, Kinds
  <2> HIDE DEF TypeOK
  <2>3. UNCHANGED <<project, acked, universe, runner, public, edits, faults>>
    BY <1>7 DEF Admit
  <2> QED
    BY <1>7, <2>1, <2>2, <2>3, AdmitTypes DEF TypeOK, Snapshots, runner
<1>8. CASE Acknowledge
  <2>1. refresh' \in Refreshes
    BY <1>8, RefreshMoves, FirstTurn DEF Acknowledge, Stages
  <2>2. pending # None
    BY <1>8 DEF Acknowledge, Lineage
  <2> QED
    BY <1>8, <2>1, <2>2 DEF Acknowledge, Snapshots, Kinds
<1>9. CASE AcknowledgeFails
  BY <1>9, IdleFields, BoundAssumption DEF AcknowledgeFails, analyzer, resident, runner, Snapshots
<1>10. ASSUME NEW p \in Pass, RunPass(p) \/ OptionalFails(p) \/ Carry(p)
       PROVE  TypeOK'
  <2>1. refresh' \in Refreshes
    <3>1. refresh.at \in 1..Len(Order) /\ refresh' = [refresh EXCEPT !.at = @ + 1]
      BY <1>10 DEF RunPass, OptionalFails, Carry, Turn, NextTurn
    <3>2. refresh.at + 1 \in 1..Len(Order) + 1
      BY <3>1, FirstTurn
    <3> QED
      BY <3>1, <3>2 DEF Refreshes
  <2>2. DOMAIN staged' = Pass /\ (\A q \in Pass : staged'[q].kind \in Kinds) /\ ran' \subseteq Pass
    BY <1>10 DEF RunPass, OptionalFails, Carry, Ran, Unavailable, Kinds, runner
  <2>3. faults' \in 0..MaxFaults
    BY <1>10, BoundAssumption DEF RunPass, OptionalFails, Carry
  <2>4. UNCHANGED <<project, analyzer, resident, public, told, edits>>
    BY <1>10 DEF RunPass, OptionalFails, Carry
  <2> QED
    BY <2>1, <2>2, <2>3, <2>4 DEF analyzer, resident
<1>11. CASE Publish
  <2>1. refresh' \in Refreshes
    <3>1. CASE Again
      <4>1. refresh.round + 1 \in 0..3
        BY <3>1 DEF Again, Refreshes
      <4>2. refresh' = [stage |-> "request", force |-> FALSE, discover |-> TRUE,
                       round |-> refresh.round + 1, at |-> 1]
        BY <1>11, <3>1 DEF Publish, Idle
      <4> QED
        BY <4>1, <4>2, FirstTurn DEF Refreshes, Stages
    <3>2. CASE ~Again
      BY <1>11, <3>2, IdleFields DEF Publish
    <3> QED
      BY <3>1, <3>2
  <2>2. told' \in Snapshots
    BY <1>11 DEF Publish, Snapshots, Lineage
  <2>3. DOMAIN public' = Universe
    BY <1>11 DEF Publish
  <2> QED
    BY <1>11, <2>1, <2>2, <2>3 DEF Publish, analyzer, runner, Kinds
<1>12. CASE Recreate
  BY <1>12, NoFilesType, BoundAssumption
  DEF Recreate, runner, NoOutputs, NoOutput, Kinds, Snapshots
<1>13. CASE UNCHANGED vars
  BY <1>13 DEF vars, analyzer, resident, runner
<1> QED
  BY <1>1, <1>2, <1>3, <1>4, <1>5, <1>6, <1>7, <1>8, <1>9, <1>10, <1>11, <1>12, <1>13
  DEF Next

-----------------------------------------------------------------------------
(* Lineage: which generation the shards in memory belong to.                *)

(* After Admit the native shards are those of the candidate, whether they    *)
(* were cleared first, brought up to date or filled for the first time.     *)
LEMMA AdmitShards ==
  ASSUME LineageInv, Admit
  PROVE  shards' = Only(Candidate)
<1> DEFINE c == Candidate
           old == IF private[c.u] = None THEN NoFiles ELSE private[c.u]
           whole == Base = None \/ c.u # Base.u
           ups == Upserts(old, c.files, whole)
           dels == Deletes(old, c.files)
           rest(u) == Remaining(u, c.u # universe)
<1> USE DEF LineageInv
<1>1. c \in [u : Universe, files : Files] /\ Base = acked
  BY AnswerValue DEF Admit
<1>2. shards' = [u \in Universe |->
           IF u # c.u THEN rest(u)
           ELSE [s \in Source |->
             IF \E n \in Ns : <<n, s>> \in ups THEN c.files[s]
             ELSE IF \E n \in Ns : <<n, s>> \in dels THEN None
             ELSE rest(u)[s]]]
  BY DEF Admit
<1>3. pending = None \/ c = pending
  BY DEF Candidate
<1>4. \A u \in Universe : rest(u) = IF u = c.u /\ u = universe THEN old ELSE NoFiles
  <2>1. CASE c.u # universe
    BY <2>1 DEF Remaining
  <2>2. CASE c.u = universe
    <3>1. universe # None
      BY <1>1, <2>2, NoneAssumption
    <3>2. shards = Here
      BY <1>1, <1>3, <2>2, <3>1 DEF Lineage, Admit
    <3> QED
      BY <2>2, <3>2 DEF Remaining, Here, Held
  <2> QED
    BY <2>1, <2>2
<1>5. old \in Files /\ c.files \in Files
  BY <1>1, NoFilesType DEF TypeOK
<1>6. ~whole => c.u = universe /\ old = private[c.u]
  BY BaseValue DEF TypeOK
<1>7. ASSUME NEW s \in Source
      PROVE  (IF \E n \in Ns : <<n, s>> \in ups THEN c.files[s]
              ELSE IF \E n \in Ns : <<n, s>> \in dels THEN None
              ELSE rest(c.u)[s]) = c.files[s]
  <2>1. SourceNs \in Ns
    BY PlanAssumption
  <2>2. CASE c.files[s] = None
    <3>1. \A n \in Ns : <<n, s>> \notin ups
      BY <2>2 DEF Upserts
    <3>2. CASE old[s] = None
      <4>1. rest(c.u)[s] = None
        BY <1>1, <1>4, <3>2 DEF NoFiles
      <4> HIDE DEF ups, dels, rest, c
      <4> QED
        BY <2>2, <3>1, <4>1
    <3>3. CASE old[s] # None
      <4>1. <<SourceNs, s>> \in dels
        BY <2>1, <2>2, <3>3 DEF Deletes
      <4> HIDE DEF ups, dels, rest, c
      <4> QED
        BY <2>1, <2>2, <3>1, <4>1
    <3> QED
      BY <3>2, <3>3
  <2>3. CASE c.files[s] # None
    <3>1. CASE \E n \in Ns : <<n, s>> \in ups
      BY <3>1
    <3>2. CASE ~\E n \in Ns : <<n, s>> \in ups
      <4>1. ~whole /\ Shard(c.files, s, SourceNs) = Shard(old, s, SourceNs)
        BY <2>1, <2>3, <3>2 DEF Upserts
      <4>2. old[s] = c.files[s]
        BY <2>3, <4>1 DEF Shard
      <4>3. \A n \in Ns : <<n, s>> \notin dels
        BY <2>3 DEF Deletes
      <4>4. rest(c.u) = old
        BY <1>1, <1>4, <1>6, <4>1
      <4> HIDE DEF ups, dels, rest, c, old
      <4> QED
        BY <3>2, <4>2, <4>3, <4>4
    <3> QED
      BY <3>1, <3>2
  <2> QED
    BY <2>2, <2>3
<1>8. shards' = [u \in Universe |->
           IF u # c.u THEN rest(u) ELSE [s \in Source |-> c.files[s]]]
  <2> HIDE DEF ups, dels, rest, c
  <2> QED
    BY <1>2, <1>7
<1> QED
  BY <1>4, <1>5, <1>8 DEF Only, Files

(* A step that leaves the session and the pipeline's memory alone and goes   *)
(* to a stage of before the request has been answered.                      *)
LEMMA LineageStays ==
  ASSUME LineageInv, UNCHANGED <<acked, pending, universe, private, shards>>,
         refresh'.stage \in {"idle", "request"}, refresh.stage # "acknowledge"
  PROVE  Lineage'
<1>1. refresh.stage \in {"idle", "request", "run"}
  BY DEF LineageInv, TypeOK, Refreshes, Stages
<1>2. Base' = Base /\ Here' = Here
  BY DEF Base, Here, Held
<1> QED
  BY <1>1, <1>2 DEF LineageInv, Lineage

LEMMA LineageSame ==
  ASSUME Lineage, UNCHANGED <<acked, pending, universe, private, shards>>,
         refresh'.stage = refresh.stage
  PROVE  Lineage'
<1>1. Base' = Base /\ Here' = Here /\ (Only(pending))' = Only(pending)
  BY DEF Base, Here, Held, Only
<1> QED
  BY <1>1 DEF Lineage

LEMMA LineageInit == Init => Lineage
BY DEF Init, Lineage, Idle

LEMMA LineageStep == LineageInv /\ [Next]_vars => Lineage'
<1> SUFFICES ASSUME LineageInv, [Next]_vars PROVE Lineage'
  OBVIOUS
<1>0. refresh \in Refreshes
  BY DEF LineageInv, TypeOK
<1>1. ASSUME NEW s \in Source, Edit(s) PROVE Lineage'
  BY <1>1, LineageSame DEF Edit, LineageInv, analyzer, resident
<1>2. CASE Reconfigure
  BY <1>2, LineageSame DEF Reconfigure, LineageInv, analyzer, resident
<1>3. ASSUME NEW force \in BOOLEAN, NEW discover \in BOOLEAN, Begin(force, discover)
      PROVE  Lineage'
  <2>1. refresh'.stage = "request" /\ refresh.stage = "idle"
    BY <1>3 DEF Begin, Idle
  <2> QED
    BY <1>3, <2>1, LineageStays DEF Begin, analyzer, resident
<1>4. CASE Refused \/ Fails
  BY <1>4, IdleFields, LineageStays DEF Refused, Fails, analyzer, resident
<1>5. CASE Unchanged
  <2>1. refresh'.stage = "run" /\ refresh.stage = "request"
    BY <1>5, <1>0 DEF Unchanged, Refreshes
  <2>2. pending = None /\ Base # None /\ Base = acked
    BY <1>5, AnswerValue DEF Unchanged, LineageInv
  <2>3. universe # None /\ private[universe] # None /\ shards = Here
    BY <2>1, <2>2, BaseValue DEF LineageInv, Lineage
  <2>4. Base' = Base /\ Here' = Here
    BY <1>5 DEF Unchanged, Base, Here, Held, resident
  <2> QED
    BY <1>5, <2>1, <2>2, <2>3, <2>4 DEF Unchanged, Lineage, analyzer, resident
<1>6. CASE LoseAnswer
  <2>1. refresh'.stage = "idle" /\ refresh.stage = "request"
    BY <1>6, IdleFields DEF LoseAnswer
  <2>2. Base = acked /\ (pending = None \/ pending' = pending)
    BY <1>6, AnswerValue DEF LoseAnswer, LineageInv, Candidate
  <2>3. Base' = Base /\ Here' = Here
    BY <1>6 DEF LoseAnswer, Base, Here, Held, resident
  <2> QED
    BY <1>6, <2>1, <2>2, <2>3 DEF LoseAnswer, LineageInv, Lineage, resident
<1>7. CASE Admit
  <2>1. refresh'.stage = "acknowledge"
    BY <1>7, <1>0 DEF Admit, Refreshes
  <2>2. /\ pending' = Candidate /\ pending' # None
        /\ private'[Candidate.u] = Candidate.files
        /\ (Only(pending))' = Only(Candidate)
    BY <1>7, AdmitTypes, NoneAssumption DEF LineageInv, TypeOK, Only
  <2> QED
    BY <1>7, <2>1, <2>2, AdmitShards DEF Lineage
<1>8. CASE Acknowledge
  <2>1. refresh'.stage = "run" /\ refresh.stage = "acknowledge"
    BY <1>8, <1>0 DEF Acknowledge, Refreshes
  <2>2. /\ pending \in [u : Universe, files : Files]
        /\ private[pending.u] = pending.files /\ shards = Only(pending)
    BY <2>1 DEF LineageInv, Lineage, TypeOK, Snapshots
  <2>3. /\ universe' = pending.u /\ acked' = pending /\ pending' = None
        /\ private' = private /\ shards' = shards
    BY <1>8 DEF Acknowledge
  <2>4. universe' # None /\ private'[universe'] # None
    BY <2>2, <2>3, NoneAssumption
  <2>5. Base' = [u |-> pending.u, files |-> pending.files] /\ Here' = Only(pending)
    BY <2>2, <2>3, <2>4 DEF Base, Here, Held, Only
  <2> QED
    BY <2>1, <2>2, <2>3, <2>4, <2>5 DEF Lineage
<1>9. CASE AcknowledgeFails
  <2>1. refresh'.stage = "idle" /\ refresh.stage = "acknowledge"
    BY <1>9, IdleFields DEF AcknowledgeFails
  <2>2. /\ pending \in [u : Universe, files : Files]
        /\ private[pending.u] = pending.files /\ shards = Only(pending)
    BY <2>1 DEF LineageInv, Lineage, TypeOK, Snapshots
  <2>3. UNCHANGED <<universe, private, shards>> /\ Base' = Base /\ Here' = Here
    BY <1>9 DEF AcknowledgeFails, Base, Here, Held, resident
  <2>4. CASE pending.u = universe
    <3>1. Here = Only(pending)
      BY <2>2, <2>4, NoneAssumption DEF Here, Held, Only
    <3> QED
      BY <2>1, <2>2, <2>3, <3>1 DEF Lineage
  <2>5. CASE pending.u # universe
    <3>1. Base = None \/ Base.u = universe
      BY BaseValue DEF LineageInv
    <3>2. \/ pending' = pending /\ acked' = acked
          \/ pending' = None /\ acked' = pending /\ Base # pending
      BY <1>9, <2>2, <2>5, <3>1, NoneAssumption DEF AcknowledgeFails, analyzer
    <3>3. pending # None
      BY <2>2, NoneAssumption
    <3> QED
      BY <2>1, <2>3, <2>5, <3>2, <3>3 DEF Lineage
  <2> QED
    BY <2>4, <2>5
<1>10. ASSUME NEW p \in Pass, RunPass(p) \/ OptionalFails(p) \/ Carry(p)
       PROVE  Lineage'
  <2>1. refresh' = [refresh EXCEPT !.at = refresh.at + 1]
    BY <1>10 DEF RunPass, OptionalFails, Carry, NextTurn
  <2>2. refresh'.stage = refresh.stage
    BY <2>1 DEF LineageInv, TypeOK, Refreshes
  <2> QED
    BY <1>10, <2>2, LineageSame
    DEF RunPass, OptionalFails, Carry, LineageInv, analyzer, resident
<1>11. CASE Publish
  <2>1. refresh'.stage \in {"idle", "request"} /\ refresh.stage = "run"
    BY <1>11, IdleFields DEF Publish, Idle
  <2> QED
    BY <1>11, <2>1, LineageStays DEF Publish, analyzer
<1>12. CASE Recreate
  <2>1. refresh'.stage = "idle"
    BY <1>12 DEF Recreate
  <2>2. Here' = [u \in Universe |-> NoFiles] /\ shards' = Here'
    BY <1>12 DEF Recreate, Here, Held
  <2> QED
    BY <2>1, <2>2 DEF Lineage
<1>13. CASE UNCHANGED vars
  BY <1>13, LineageSame DEF LineageInv, vars, analyzer, resident
<1> QED
  BY <1>1, <1>2, <1>3, <1>4, <1>5, <1>6, <1>7, <1>8, <1>9, <1>10, <1>11, <1>12, <1>13
  DEF Next

(* The values of the pipeline, its session and its stores, and a discovery   *)
(* refresh of at most four rounds.                                          *)
THEOREM TypeCorrect == Spec => []TypeOK
<1>1. Init => LineageInv
  BY TypesInit, LineageInit DEF LineageInv
<1>2. LineageInv /\ [Next]_vars => LineageInv'
  BY TypesStep, LineageStep DEF LineageInv
<1>3. LineageInv => TypeOK
  BY DEF LineageInv
<1> QED
  BY <1>1, <1>2, <1>3, PTL DEF Spec

(* Whatever failed before it, a refresh whose passes run holds exactly the   *)
(* native shards of the generation they are planned against.                *)
THEOREM ShardsComplete == Spec => []CompleteShards
<1>1. Init => LineageInv
  BY TypesInit, LineageInit DEF LineageInv
<1>2. LineageInv /\ [Next]_vars => LineageInv'
  BY TypesStep, LineageStep DEF LineageInv
<1>3. LineageInv => CompleteShards
  BY DEF LineageInv, Lineage, CompleteShards, Here, Held
<1> QED
  BY <1>1, <1>2, <1>3, PTL DEF Spec

-----------------------------------------------------------------------------
(* Coherence.                                                               *)

(* Steps that touch neither the outputs nor what they were derived from.    *)
LEMMA DerivationsStay ==
  ASSUME Derivations,
         UNCHANGED <<universe, private, portable, dirty, staged, ran, public>>,
         \/ refresh'.stage \in {"idle", "request"}
         \/ UNCHANGED <<refresh, pending>>
  PROVE  Derivations'
<1>1. Shapes'
  BY DEF Derivations, Shapes
<1>2. Accounts'
  BY DEF Derivations, Accounts, Sound
<1>3. Progress'
  BY DEF Derivations, Progress, Derived, Read
<1>4. Coherent'
  BY DEF Derivations, Coherent
<1> QED
  BY <1>1, <1>2, <1>3, <1>4 DEF Derivations

(* The passes start from the carried outputs with none of them run.         *)
LEMMA ProgressStarts ==
  ASSUME refresh'.at = 1, staged' = portable', ran' = {}
  PROVE  Progress'
BY FirstTurn DEF Progress

(* A namespace that Admit does not make dirty has the same shards in the     *)
(* candidate as in the private generation before it, when that is the one   *)
(* the pipeline stood on.                                                   *)
LEMMA CleanStays ==
  ASSUME LineageInv, Admit, Candidate.u = universe, private[universe] # None,
         NEW n \in Ns, n \notin dirty'
  PROVE  View(Candidate.files, n) = View(private[universe], n)
<1> DEFINE c == Candidate
           old == private[universe]
           ups == Upserts(old, c.files, FALSE)
           dels == Deletes(old, c.files)
           keys == Touches(shards[universe], ups, dels)
<1>1. c \in [u : Universe, files : Files] /\ Base = acked
  BY AnswerValue DEF LineageInv, Admit
<1>2. universe # None /\ universe \in Universe
  BY <1>1, NoneAssumption
<1>3. Base # None /\ Base.u = universe
  BY <1>2, BaseValue DEF LineageInv
<1>4. shards[universe] = old
  <2>1. pending = None \/ pending.u = universe
    BY DEF Candidate
  <2>2. shards = Here
    BY <1>1, <1>2, <2>1 DEF LineageInv, Lineage, Admit
  <2> QED
    BY <1>2, <2>2 DEF Here, Held
<1>5. dirty' = dirty \cup {k[1] : k \in keys}
  BY <1>3 DEF Admit
<1>6. ASSUME NEW s \in Source
      PROVE  Shard(c.files, s, n) = Shard(old, s, n)
  <2>1. <<n, s>> \in keys => n \in dirty'
    <3> HIDE DEF keys
    <3> QED
      BY <1>5
  <2>2. <<n, s>> \notin ups /\ ~(<<n, s>> \in dels /\ old[s] # None)
    BY <1>4, <2>1 DEF Touches
  <2>3. CASE c.files[s] = None
    BY <2>2, <2>3 DEF Deletes, Shard
  <2>4. CASE c.files[s] # None
    BY <2>2, <2>4 DEF Upserts
  <2> QED
    BY <2>3, <2>4
<1> QED
  BY <1>6 DEF View

LEMMA AdmitStep ==
  ASSUME LineageInv, Derivations, Admit
  PROVE  Derivations'
<1>1. /\ pending' = Candidate /\ Candidate \in [u : Universe, files : Files]
      /\ private' = [private EXCEPT ![Candidate.u] = Candidate.files]
      /\ portable' = IF Candidate.u # universe THEN NoOutputs ELSE portable
      /\ universe' = universe /\ UNCHANGED <<staged, ran, public>>
  BY AdmitTypes, AnswerValue DEF LineageInv, Admit, runner
<1>2. refresh'.stage = "acknowledge"
  BY DEF Admit, LineageInv, TypeOK, Refreshes
<1>3. Shapes'
  BY <1>1 DEF Derivations, Shapes, NoOutputs
<1>4. Progress' /\ Coherent'
  BY <1>1, <1>2 DEF Derivations, Progress, Coherent
<1>5. Accounts'
  <2>1. CASE portable' = NoOutputs
    BY <2>1 DEF Accounts, Sound, NoOutputs
  <2>2. CASE portable' # NoOutputs
    <3>1. Candidate.u = universe /\ portable' = portable /\ universe \in Universe
      BY <1>1, <2>2
    <3>2. universe # None /\ private[universe] # None
      BY <1>1, <2>2, <3>1 DEF Derivations, Accounts
    <3>3. private'[universe] = Candidate.files /\ private'[universe] # None
      BY <1>1, <3>1, NoneAssumption DEF LineageInv, TypeOK
    <3>4. dirty \subseteq dirty'
      BY DEF Admit
    <3>5. ASSUME NEW p \in Pass PROVE Sound(p)'
      <4>1. Sound(p)
        BY DEF Derivations, Accounts
      <4>2. ASSUME NEW i \in Inputs[p], i \in Ns \ dirty'
            PROVE  View(private[universe], i) = View(private'[universe], i)
        BY <3>1, <3>2, <3>3, <4>2, CleanStays
      <4> QED
        BY <1>1, <3>1, <3>4, <4>1, <4>2 DEF Sound
    <3> QED
      BY <1>1, <1>2, <3>1, <3>2, <3>3, <3>5 DEF Accounts
  <2> QED
    BY <2>1, <2>2
<1> QED
  BY <1>3, <1>4, <1>5 DEF Derivations

LEMMA AcknowledgeStep ==
  ASSUME LineageInv, Derivations, Acknowledge
  PROVE  Derivations'
<1>1. /\ refresh'.stage = "run" /\ refresh'.at = 1 /\ refresh.stage = "acknowledge"
  BY DEF Acknowledge, LineageInv, TypeOK, Refreshes
<1>2. /\ universe' = pending.u /\ staged' = portable /\ ran' = {}
      /\ UNCHANGED <<private, portable, dirty, public>>
  BY DEF Acknowledge
<1>3. private[pending.u] # None
  BY <1>1, NoneAssumption DEF LineageInv, Lineage, TypeOK, Snapshots
<1>4. Accounts'
  <2>1. CASE portable = NoOutputs
    BY <1>2, <2>1 DEF Accounts, Sound, NoOutputs
  <2>2. CASE portable # NoOutputs
    <3>1. pending.u = universe
      BY <1>1, <2>2 DEF Derivations, Accounts
    <3> QED
      BY <1>1, <1>2, <1>3, <3>1 DEF Derivations, Accounts, Sound
  <2> QED
    BY <2>1, <2>2
<1>5. Progress'
  BY <1>1, <1>2, ProgressStarts
<1> QED
  BY <1>2, <1>4, <1>5 DEF Derivations, Shapes, Coherent

LEMMA UnchangedStep ==
  ASSUME LineageInv, Derivations, Unchanged
  PROVE  Derivations'
<1>1. refresh'.stage = "run" /\ refresh'.at = 1
  BY DEF Unchanged, LineageInv, TypeOK, Refreshes
<1>2. /\ staged' = portable /\ ran' = {}
      /\ UNCHANGED <<universe, private, portable, dirty, public>>
  BY DEF Unchanged, resident
<1>3. Accounts'
  BY <1>1, <1>2 DEF Derivations, Accounts, Sound
<1>4. Progress'
  BY <1>1, <1>2, ProgressStarts
<1> QED
  BY <1>2, <1>3, <1>4 DEF Derivations, Shapes, Coherent

(* The turn of a pass: what it leaves is derived from the staged outputs,    *)
(* whether it ran, failed as it may, or was carried.                        *)
LEMMA TurnDerives ==
  ASSUME RequiresItsInputs, LineageInv, Derivations, NEW p \in Pass,
         RunPass(p) \/ OptionalFails(p) \/ Carry(p)
  PROVE  Derived(p, private[universe], staged')
<1>1. p \notin Inputs[p]
  <2>1. PICK i \in 1..Len(Order) : Order[i] = p
    BY PlanAssumption
  <2> QED
    BY <2>1, PlanAssumption
<1>2. CASE RunPass(p)
  <2>1. staged' = [staged EXCEPT ![p] = Ran(Read(p, private[universe], staged))]
    BY <1>2 DEF RunPass
  <2>2. Read(p, private[universe], staged') = Read(p, private[universe], staged)
    <3>1. \A i \in Inputs[p] : staged'[i] = staged[i]
      BY <1>1, <2>1 DEF Derivations, Shapes
    <3> QED
      BY <3>1 DEF Read
  <2>3. staged'[p] = Ran(Read(p, private[universe], staged))
    BY <2>1 DEF Derivations, Shapes
  <2> QED
    BY <2>2, <2>3 DEF Derived
<1>3. CASE OptionalFails(p)
  <2>1. staged' = [staged EXCEPT ![p] = Unavailable] /\ p \notin Mandatory
    BY <1>3 DEF OptionalFails
  <2>2. staged'[p] = Unavailable
    BY <2>1 DEF Derivations, Shapes
  <2> QED
    BY <2>1, <2>2 DEF Derived
<1>4. CASE Carry(p)
  <2>1. /\ staged' = staged /\ refresh.stage = "run" /\ refresh.at \in 1..Len(Order)
        /\ p = Order[refresh.at] /\ ~Invalidated(p)
    BY <1>4 DEF Carry, Turn, runner
  <2>2. p \notin ran /\ \A q \in Pass : q \notin ran => staged[q] = portable[q]
    BY <2>1 DEF Derivations, Progress, LineageInv, TypeOK, Refreshes
  <2>3. /\ portable[p] # NoOutput /\ Inputs[p] \cap dirty = {}
        /\ Requires[p] \cap ran = {}
    BY <2>1 DEF Invalidated, NoOutput
  <2>4. \A i \in Inputs[p] \cap Pass : staged[i] = portable[i]
    BY <2>2, <2>3 DEF RequiresItsInputs
  <2>5. Sound(p)
    BY DEF Derivations, Accounts
  <2>6. CASE p \notin Mandatory /\ portable[p] = Unavailable
    BY <2>1, <2>2, <2>6 DEF Derived
  <2>7. CASE /\ portable[p] = Ran(portable[p].read)
             /\ portable[p].read = [i \in Inputs[p] |-> portable[p].read[i]]
             /\ \A i \in Inputs[p] :
                  /\ i \in Ns \ dirty => portable[p].read[i] = View(private[universe], i)
                  /\ i \in Pass => portable[p].read[i] = portable[i]
    <3>1. \A i \in Inputs[p] :
            portable[p].read[i] = IF i \in Ns THEN View(private[universe], i) ELSE staged[i]
      BY <2>3, <2>4, <2>7, PlanAssumption
    <3>2. portable[p].read = Read(p, private[universe], staged)
      BY <2>7, <3>1 DEF Read
    <3> QED
      BY <2>1, <2>2, <2>7, <3>2 DEF Derived
  <2> QED
    BY <2>3, <2>5, <2>6, <2>7 DEF Sound
<1> QED
  BY <1>2, <1>3, <1>4

(* The passes behind the turn read nothing the turn changes.                *)
LEMMA TurnStep ==
  ASSUME RequiresItsInputs, LineageInv, Derivations, NEW p \in Pass,
         RunPass(p) \/ OptionalFails(p) \/ Carry(p)
  PROVE  Derivations'
<1>1. /\ refresh.stage = "run" /\ refresh.at \in 1..Len(Order) /\ p = Order[refresh.at]
      /\ refresh' = [refresh EXCEPT !.at = refresh.at + 1]
      /\ UNCHANGED <<universe, private, portable, dirty, public>>
  BY DEF RunPass, OptionalFails, Carry, Turn, NextTurn, resident
<1>2. /\ refresh'.at = refresh.at + 1 /\ refresh'.stage = "run"
  BY <1>1 DEF LineageInv, TypeOK, Refreshes
<1>3. /\ staged' = [q \in Pass |-> staged'[q]]
      /\ \A q \in Pass \ {p} : staged'[q] = staged[q]
      /\ ran' \subseteq ran \cup {p}
      /\ p \notin ran' => staged' = staged
      /\ ran \subseteq ran'
  BY DEF RunPass, OptionalFails, Carry, runner, Derivations, Shapes
<1>4. Accounts'
  BY <1>1, <1>2 DEF Derivations, Accounts, Sound
<1>5. ASSUME NEW i \in 1..Len(Order), i < refresh'.at
      PROVE  Derived(Order[i], private'[universe'], staged')
  <2>1. CASE i = refresh.at
    BY <1>1, <2>1, TurnDerives
  <2>2. CASE i # refresh.at
    <3>1. i < refresh.at /\ Order[i] \in Pass /\ Order[i] # p
      BY <1>1, <1>2, <1>5, <2>2, PlanAssumption
    <3>2. Derived(Order[i], private[universe], staged)
      BY <1>1, <3>1 DEF Derivations, Progress
    <3>3. p \notin Inputs[Order[i]]
      BY <1>1, <3>1, PlanAssumption
    <3>4. \A j \in Inputs[Order[i]] : j \in Ns \/ staged'[j] = staged[j]
      BY <1>3, <3>1, <3>3, PlanAssumption
    <3>5. Read(Order[i], private[universe], staged') = Read(Order[i], private[universe], staged)
      BY <3>4 DEF Read
    <3> QED
      BY <1>1, <1>3, <3>1, <3>2, <3>5 DEF Derived
  <2> QED
    BY <2>1, <2>2
<1>6. ASSUME NEW i \in 1..Len(Order), ~(i < refresh'.at)
      PROVE  Order[i] \notin ran'
  <2>1. i # refresh.at /\ ~(i < refresh.at)
    BY <1>1, <1>2, <1>6
  <2>2. Order[i] # p /\ Order[i] \notin ran
    BY <1>1, <2>1, PlanAssumption DEF Derivations, Progress
  <2> QED
    BY <1>3, <2>2
<1>7. \A q \in Pass : q \notin ran' => staged'[q] = portable'[q]
  BY <1>1, <1>3 DEF Derivations, Progress
<1> QED
  BY <1>1, <1>2, <1>3, <1>4, <1>5, <1>6, <1>7
  DEF Derivations, Shapes, Progress, Coherent

(* What is published has been derived pass by pass, and what is carried from *)
(* now on was read from what has just been published.                       *)
LEMMA PublishStep ==
  ASSUME LineageInv, Derivations, Publish
  PROVE  Derivations'
<1>1. /\ refresh.stage = "run" /\ refresh.at = Len(Order) + 1
      /\ public' = [public EXCEPT ![universe] = Generation]
      /\ portable' = staged /\ dirty' = {}
      /\ UNCHANGED <<universe, private, staged>>
  BY DEF Publish, runner
<1>2. universe \in Universe /\ universe # None /\ private[universe] # None
  BY <1>1 DEF LineageInv, Lineage, TypeOK
<1>3. refresh'.stage \in {"idle", "request"}
  BY IdleFields DEF Publish, Idle
<1>4. ASSUME NEW p \in Pass PROVE Derived(p, private[universe], staged)
  <2>1. PICK i \in 1..Len(Order) : Order[i] = p
    BY PlanAssumption
  <2>2. i < refresh.at
    BY <1>1, FirstTurn
  <2> QED
    BY <1>1, <2>1, <2>2 DEF Derivations, Progress
<1>5. Coherent'
  <2>1. ASSUME NEW u \in Universe, public'[u] # None, NEW p \in Pass
        PROVE  Derived(p, public'[u].native, public'[u].out)
    <3>1. CASE u = universe
      <4>1. public'[u] = Generation
        BY <1>1, <1>2, <3>1 DEF Derivations, Shapes
      <4>2. public'[u].native = private[universe] /\ public'[u].out = staged
        BY <4>1 DEF Generation
      <4> QED
        BY <1>4, <4>2
    <3>2. CASE u # universe
      <4>1. public'[u] = public[u]
        BY <1>1, <3>2 DEF Derivations, Shapes
      <4> QED
        BY <2>1, <4>1 DEF Derivations, Coherent
    <3> QED
      BY <3>1, <3>2
  <2> QED
    BY <2>1 DEF Coherent
<1>6. ASSUME NEW p \in Pass PROVE Sound(p)'
  <2>1. CASE staged[p] = Ran(Read(p, private[universe], staged))
    <3>1. portable'[p].read = Read(p, private[universe], staged)
      BY <1>1, <2>1 DEF Ran
    <3>2. \A i \in Inputs[p] : i \in Ns \/ i \in Pass
      BY PlanAssumption
    <3> QED
      BY <1>1, <2>1, <3>1, <3>2, PlanAssumption DEF Sound, Read
  <2>2. CASE p \notin Mandatory /\ staged[p] = Unavailable
    BY <1>1, <2>2 DEF Sound
  <2> QED
    BY <1>4, <2>1, <2>2 DEF Derived
<1>7. Accounts'
  BY <1>1, <1>2, <1>3, <1>6 DEF Accounts
<1> QED
  BY <1>1, <1>3, <1>5, <1>7 DEF Derivations, Shapes, Progress

LEMMA RecreateStep ==
  ASSUME LineageInv, Derivations, Recreate
  PROVE  Derivations'
<1>1. /\ portable' = NoOutputs /\ refresh' = refresh /\ refresh.stage = "idle"
      /\ UNCHANGED <<staged, public>>
  BY DEF Recreate, runner
<1>2. Accounts'
  BY <1>1 DEF Accounts, Sound, NoOutputs
<1> QED
  BY <1>1, <1>2 DEF Derivations, Shapes, Progress, Coherent, NoOutputs

LEMMA DerivationsInit == Init => Derivations
<1> SUFFICES ASSUME Init PROVE Derivations
  OBVIOUS
<1>1. Shapes
  BY DEF Init, Shapes, NoOutputs
<1>2. Accounts
  BY DEF Init, Accounts, Sound, NoOutputs
<1>3. Progress /\ Coherent
  BY IdleFields DEF Init, Progress, Coherent
<1> QED
  BY <1>1, <1>2, <1>3 DEF Derivations

LEMMA DerivationsStep ==
  ASSUME RequiresItsInputs
  PROVE  LineageInv /\ Derivations /\ [Next]_vars => Derivations'
<1> SUFFICES ASSUME LineageInv, Derivations, [Next]_vars PROVE Derivations'
  OBVIOUS
<1>1. ASSUME NEW s \in Source, Edit(s) PROVE Derivations'
  BY <1>1, DerivationsStay DEF Edit, resident, runner, analyzer
<1>2. CASE Reconfigure
  BY <1>2, DerivationsStay DEF Reconfigure, resident, runner, analyzer
<1>3. ASSUME NEW force \in BOOLEAN, NEW discover \in BOOLEAN, Begin(force, discover)
      PROVE  Derivations'
  <2>1. refresh'.stage = "request"
    BY <1>3 DEF Begin, Idle
  <2> QED
    BY <1>3, <2>1, DerivationsStay DEF Begin, resident, runner
<1>4. CASE Refused \/ LoseAnswer \/ AcknowledgeFails \/ Fails
  BY <1>4, IdleFields, DerivationsStay
  DEF Refused, LoseAnswer, AcknowledgeFails, Fails, resident, runner
<1>5. CASE UNCHANGED vars
  BY <1>5, DerivationsStay DEF vars, resident, runner, analyzer
<1> QED
  BY <1>1, <1>2, <1>3, <1>4, <1>5, UnchangedStep, AdmitStep, AcknowledgeStep,
     TurnStep, PublishStep, RecreateStep
  DEF Next

(* When every pass requires the capability of the passes it reads, every     *)
(* generation in the caller's store is one that a cold build of its native  *)
(* facts could have produced.                                               *)
THEOREM GenerationsCoherent == RequiresItsInputs => (Spec => []Coherent)
<1> SUFFICES ASSUME RequiresItsInputs PROVE Spec => []Coherent
  OBVIOUS
<1>1. Init => LineageInv /\ Derivations
  BY TypesInit, LineageInit, DerivationsInit DEF LineageInv
<1>2. LineageInv /\ Derivations /\ [Next]_vars => (LineageInv /\ Derivations)'
  BY TypesStep, LineageStep, DerivationsStep DEF LineageInv
<1>3. LineageInv /\ Derivations => Coherent
  BY DEF Derivations
<1> QED
  BY <1>1, <1>2, <1>3, PTL DEF Spec

-----------------------------------------------------------------------------
(* Reports: every source that moved since the last publication is owed.     *)

Last == IF told = None THEN NoFiles ELSE told.files
Told(u, files) == \A s \in Source : Last[s] # files[s] => <<u, s>> \in owed

Reports ==
  /\ universe = None \/ private[universe] = None => told = None
  /\ (/\ refresh.stage \in {"idle", "request"} /\ Base # None
      /\ Base = acked
      /\ pending = None \/ pending.u = universe) => Told(universe, private[universe])
  /\ refresh.stage = "acknowledge" =>
       /\ Told(pending.u, pending.files)
       /\ pending.u # universe => told = None
  /\ refresh.stage = "run" => Told(universe, private[universe])

(* Steps before the request is answered, and steps that leave the stage.    *)
LEMMA ReportsStay ==
  ASSUME LineageInv, Reports, UNCHANGED <<acked, pending, universe, private, told, owed>>,
         \/ refresh'.stage = refresh.stage
         \/ refresh'.stage \in {"idle", "request"} /\ refresh.stage # "acknowledge"
  PROVE  Reports'
<1>1. refresh.stage \in Stages
  BY DEF LineageInv, TypeOK, Refreshes
<1>2. Base' = Base /\ Last' = Last
  BY DEF Base, Last
<1> QED
  BY <1>1, <1>2 DEF Reports, Told, Stages

(* Admit reports what the candidate changes, deletions included.            *)
LEMMA AdmitReports ==
  ASSUME LineageInv, Reports, Admit
  PROVE  Reports'
<1> DEFINE c == Candidate
           old == IF private[c.u] = None THEN NoFiles ELSE private[c.u]
           whole == Base = None \/ c.u # Base.u
           ups == Upserts(old, c.files, whole)
           dels == Deletes(old, c.files)
           keys == Touches(shards[c.u], ups, dels)
<1>1. c \in [u : Universe, files : Files] /\ Base = acked /\ refresh.stage = "request"
  BY AnswerValue DEF LineageInv, Admit
<1>2. /\ owed' = owed \cup {<<c.u, k[2]>> : k \in {j \in keys : j[1] = SourceNs}}
      /\ told' = IF c.u # universe THEN None ELSE told
      /\ pending' = c /\ universe' = universe
      /\ private' = [private EXCEPT ![c.u] = c.files]
  BY DEF Admit
<1>3. refresh'.stage = "acknowledge"
  BY DEF Admit, LineageInv, TypeOK, Refreshes
<1>4. ASSUME NEW s \in Source, <<SourceNs, s>> \in keys
      PROVE  <<c.u, s>> \in owed'
  <2> HIDE DEF keys, c
  <2> QED
    BY <1>2, <1>4
<1>5. owed \subseteq owed'
  <2> HIDE DEF keys, c
  <2> QED
    BY <1>2
<1>6. universe' = None \/ private'[universe'] = None => told' = None
  <2>1. CASE c.u # universe
    BY <1>2, <2>1
  <2>2. CASE c.u = universe
    <3>1. universe \in Universe /\ private'[universe] # None
      BY <1>1, <1>2, <2>2, NoneAssumption DEF LineageInv, TypeOK
    <3> QED
      BY <1>1, <1>2, <2>2, <3>1, NoneAssumption
  <2> QED
    BY <2>1, <2>2
<1>7. ASSUME NEW s \in Source, Last'[s] # c.files[s]
      PROVE  <<c.u, s>> \in owed'
  <2>1. SourceNs \in Ns
    BY PlanAssumption
  <2>2. CASE whole
    <3>1. told' = None
      <4>1. c.u = universe => Base = None
        BY <2>2, BaseValue DEF LineageInv
      <4> QED
        BY <1>2, <4>1, BaseValue DEF LineageInv, Reports
    <3>2. c.files[s] # None
      BY <1>7, <3>1 DEF Last, NoFiles
    <3>3. <<SourceNs, s>> \in ups
      BY <2>1, <2>2, <3>2 DEF Upserts
    <3> QED
      BY <1>4, <3>3 DEF Touches
  <2>3. CASE ~whole
    <3>1. c.u = universe /\ universe # None /\ private[universe] # None /\ old = private[universe]
      BY <2>3, BaseValue DEF LineageInv
    <3>2. pending = None \/ pending.u = universe
      BY <3>1 DEF Candidate
    <3>3. shards[universe] = old
      <4>1. shards = Here
        BY <1>1, <3>1, <3>2 DEF LineageInv, Lineage
      <4> QED
        BY <1>1, <3>1, <4>1 DEF Here, Held
    <3>4. CASE old[s] = c.files[s]
      <4>1. Last'[s] = Last[s]
        BY <1>2, <3>1 DEF Last
      <4>2. Told(universe, private[universe])
        BY <1>1, <2>3, <3>2 DEF Reports
      <4> QED
        BY <1>5, <1>7, <3>1, <3>4, <4>1, <4>2 DEF Told
    <3>5. CASE old[s] # c.files[s]
      <4>1. CASE c.files[s] = None
        <5>1. <<SourceNs, s>> \in dels /\ shards[c.u][s] # None
          BY <2>1, <3>1, <3>3, <3>5, <4>1 DEF Deletes
        <5> QED
          BY <1>4, <5>1 DEF Touches
      <4>2. CASE c.files[s] # None
        <5>1. Shard(c.files, s, SourceNs) # Shard(old, s, SourceNs)
          BY <3>5, <4>2 DEF Shard
        <5>2. <<SourceNs, s>> \in ups
          BY <2>1, <4>2, <5>1 DEF Upserts
        <5> QED
          BY <1>4, <5>2 DEF Touches
      <4> QED
        BY <4>1, <4>2
    <3> QED
      BY <3>4, <3>5
  <2> QED
    BY <2>2, <2>3
<1> QED
  BY <1>2, <1>3, <1>6, <1>7 DEF Reports, Told

LEMMA ReportsInit == Init => Reports
BY IdleFields DEF Init, Reports, Base

LEMMA ReportsStep == LineageInv /\ Reports /\ [Next]_vars => Reports'
<1> SUFFICES ASSUME LineageInv, Reports, [Next]_vars PROVE Reports'
  OBVIOUS
<1>0. refresh \in Refreshes
  BY DEF LineageInv, TypeOK
<1>1. ASSUME NEW s \in Source, Edit(s) PROVE Reports'
  BY <1>1, ReportsStay DEF Edit, analyzer, resident
<1>2. CASE Reconfigure
  BY <1>2, ReportsStay DEF Reconfigure, analyzer, resident
<1>3. ASSUME NEW force \in BOOLEAN, NEW discover \in BOOLEAN, Begin(force, discover)
      PROVE  Reports'
  <2>1. refresh'.stage = "request" /\ refresh.stage = "idle"
    BY <1>3 DEF Begin, Idle
  <2> QED
    BY <1>3, <2>1, ReportsStay DEF Begin, analyzer, resident
<1>4. CASE Refused \/ Fails
  BY <1>4, IdleFields, ReportsStay DEF Refused, Fails, analyzer, resident
<1>5. CASE Unchanged
  <2>1. refresh'.stage = "run" /\ refresh.stage = "request"
    BY <1>0, <1>5 DEF Unchanged, Refreshes
  <2>2. pending = None /\ Base # None /\ Base = acked
    BY <1>5, AnswerValue DEF Unchanged, LineageInv
  <2>3. UNCHANGED <<acked, pending, universe, private, told, owed>> /\ Last' = Last
    BY <1>5 DEF Unchanged, analyzer, resident, Last
  <2> QED
    BY <2>1, <2>2, <2>3 DEF Reports, Told
<1>6. CASE LoseAnswer
  <2>1. refresh'.stage = "idle" /\ refresh.stage = "request"
    BY <1>6, IdleFields DEF LoseAnswer
  <2>2. Base = acked /\ (pending = None \/ pending' = pending)
    BY <1>6, AnswerValue DEF LoseAnswer, LineageInv, Candidate
  <2>3. /\ UNCHANGED <<acked, universe, private, told, owed>>
        /\ Base' = Base /\ Last' = Last
    BY <1>6 DEF LoseAnswer, Base, Last, resident
  <2> QED
    BY <2>1, <2>2, <2>3 DEF Reports, Told
<1>7. CASE Admit
  BY <1>7, AdmitReports
<1>8. CASE Acknowledge
  <2>1. refresh'.stage = "run" /\ refresh.stage = "acknowledge"
    BY <1>0, <1>8 DEF Acknowledge, Refreshes
  <2>2. private[pending.u] = pending.files /\ pending \in [u : Universe, files : Files]
    BY <2>1 DEF LineageInv, Lineage, TypeOK, Snapshots
  <2>3. /\ UNCHANGED <<private, told, owed>> /\ universe' = pending.u /\ Last' = Last
    BY <1>8 DEF Acknowledge, Last
  <2>4. universe' # None /\ private'[universe'] # None
    BY <2>2, <2>3, NoneAssumption
  <2> QED
    BY <2>1, <2>2, <2>3, <2>4 DEF Reports, Told
<1>9. CASE AcknowledgeFails
  <2>1. refresh'.stage = "idle" /\ refresh.stage = "acknowledge"
    BY <1>9, IdleFields DEF AcknowledgeFails
  <2>2. private[pending.u] = pending.files /\ pending \in [u : Universe, files : Files]
    BY <2>1 DEF LineageInv, Lineage, TypeOK, Snapshots
  <2>3. /\ UNCHANGED <<universe, private, told, owed>>
        /\ Base' = Base /\ Last' = Last
    BY <1>9 DEF AcknowledgeFails, Base, Last, resident
  <2>0. universe = None \/ private[universe] = None => told = None
    BY DEF Reports
  <2>4. CASE pending.u = universe
    <3>1. Told(pending.u, pending.files)
      BY <2>1 DEF Reports
    <3>2. Told(universe, private[universe])
      BY <2>2, <2>4, <3>1
    <3>3. Told(universe, private[universe])'
      BY <2>3, <3>2 DEF Told
    <3>4. (universe = None \/ private[universe] = None => told = None)'
      BY <2>0, <2>3
    <3> QED
      BY <2>1, <3>3, <3>4 DEF Reports
  <2>5. CASE pending.u # universe
    <3>1. Base = None \/ Base.u = universe
      BY BaseValue DEF LineageInv
    <3>2. \/ pending' = pending /\ acked' = acked
          \/ pending' = None /\ acked' = pending /\ Base # pending
      BY <1>9, <2>2, <2>5, <3>1, NoneAssumption DEF AcknowledgeFails, analyzer
    <3>3. pending # None
      BY <2>2, NoneAssumption
    <3>4. (universe = None \/ private[universe] = None => told = None)'
      BY <2>0, <2>3
    <3>5. ~(/\ Base # None /\ Base = acked
            /\ pending = None \/ pending.u = universe)'
      <4>1. CASE pending' = pending /\ acked' = acked
        BY <2>3, <2>5, <3>3, <4>1
      <4>2. CASE pending' = None /\ acked' = pending /\ Base # pending
        BY <2>3, <4>2
      <4> QED
        BY <3>2, <4>1, <4>2
    <3> QED
      BY <2>1, <3>4, <3>5 DEF Reports
  <2> QED
    BY <2>4, <2>5
<1>10. ASSUME NEW p \in Pass, RunPass(p) \/ OptionalFails(p) \/ Carry(p)
       PROVE  Reports'
  <2>1. refresh' = [refresh EXCEPT !.at = refresh.at + 1]
    BY <1>10 DEF RunPass, OptionalFails, Carry, NextTurn
  <2>2. refresh'.stage = refresh.stage
    BY <1>0, <2>1 DEF Refreshes
  <2> QED
    BY <1>10, <2>2, ReportsStay DEF RunPass, OptionalFails, Carry, analyzer, resident
<1>11. CASE Publish
  <2>1. refresh'.stage \in {"idle", "request"} /\ refresh.stage = "run"
    BY <1>11, IdleFields DEF Publish, Idle
  <2>2. /\ UNCHANGED <<universe, private>> /\ told' # None
        /\ told'.files = private[universe]
    BY <1>11, <2>1, NoneAssumption DEF Publish, LineageInv, Lineage, TypeOK
  <2>3. universe # None /\ private[universe] # None
    BY <2>1 DEF LineageInv, Lineage
  <2> QED
    BY <2>1, <2>2, <2>3 DEF Reports, Told, Last
<1>12. CASE Recreate
  <2>1. refresh'.stage = "idle" /\ told' = None
    BY <1>12 DEF Recreate
  <2>2. universe' \in Universe \cup {None} /\ private' = [u \in Universe |-> None]
    BY <1>12 DEF Recreate, LineageInv, TypeOK
  <2>3. Base' = None
    BY <2>2 DEF Base
  <2> QED
    BY <2>1, <2>3 DEF Reports
<1>13. CASE UNCHANGED vars
  BY <1>13, ReportsStay DEF vars, analyzer, resident
<1> QED
  BY <1>1, <1>2, <1>3, <1>4, <1>5, <1>6, <1>7, <1>8, <1>9, <1>10, <1>11, <1>12, <1>13
  DEF Next

(* A publication reports every source that differs from the one before it   *)
(* in the same stay, whatever failed in between.                            *)
THEOREM EverythingReported == Spec => NothingUnreported
<1>1. Init => LineageInv /\ Reports
  BY TypesInit, LineageInit, ReportsInit DEF LineageInv
<1>2. LineageInv /\ Reports /\ [Next]_vars => (LineageInv /\ Reports)'
  BY TypesStep, LineageStep, ReportsStep DEF LineageInv
<1>3. LineageInv /\ Reports /\ [Next]_vars =>
        [Published => LET last == IF told = None THEN NoFiles ELSE told.files
                      IN  \A s \in Source :
                            last[s] # private[universe][s] => <<universe, s>> \in owed]_vars
  BY DEF Reports, Published, Told, Last
<1> QED
  BY <1>1, <1>2, <1>3, PTL DEF Spec, NothingUnreported

-----------------------------------------------------------------------------
(* Retention: a refresh with nothing new to say derives nothing new.        *)

(* What the caller's store has been told is what is carried from then on,   *)
(* as long as the pipeline stays where it was.                              *)
Carried ==
  told # None =>
    /\ public[told.u] = [native |-> told.files, out |-> portable, capabilities |-> Pass]
    /\ \A p \in Pass : portable[p].kind # "none"

(* The passes leave what is carried alone until one of them has a reason.   *)
Idleness ==
  refresh.stage = "run" =>
    /\ \A i \in 1..Len(Order) :
         IF i < refresh.at THEN staged[Order[i]].kind # "none"
                           ELSE staged[Order[i]] = portable[Order[i]]
    /\ ran = {} => staged = portable
    /\ ~refresh.force /\ dirty = {} /\ told # None => ran = {}

Retention == Shapes /\ Carried /\ Idleness

LEMMA RetentionInit == Init => Retention
BY IdleFields DEF Init, Retention, Shapes, Carried, Idleness, NoOutputs

(* Steps that change nothing of the outputs and leave or keep the stage.    *)
LEMMA RetentionStays ==
  ASSUME Retention, UNCHANGED <<portable, staged, public, told>>,
         \/ refresh'.stage \in {"idle", "request", "acknowledge"}
         \/ UNCHANGED <<refresh, dirty, ran>>
  PROVE  Retention'
<1>1. Shapes' /\ Carried'
  BY DEF Retention, Shapes, Carried
<1>2. Idleness'
  BY DEF Retention, Idleness
<1> QED
  BY <1>1, <1>2 DEF Retention

(* The passes start from what is carried.                                   *)
LEMMA RetentionStarts ==
  ASSUME Retention, refresh'.at = 1, staged' = portable, ran' = {},
         UNCHANGED <<portable, public, told>>
  PROVE  Retention'
<1>1. Shapes' /\ Carried'
  BY DEF Retention, Shapes, Carried
<1>2. Idleness'
  BY FirstTurn DEF Idleness
<1> QED
  BY <1>1, <1>2 DEF Retention

(* A pass that runs has been forced, was never derived, has a dirty input    *)
(* or an upstream that ran: none of these in a quiet refresh.               *)
LEMMA RetentionTurn ==
  ASSUME LineageInv, Retention, NEW p \in Pass,
         RunPass(p) \/ OptionalFails(p) \/ Carry(p)
  PROVE  Retention'
<1>1. /\ refresh.stage = "run" /\ refresh.at \in 1..Len(Order) /\ p = Order[refresh.at]
      /\ refresh' = [refresh EXCEPT !.at = refresh.at + 1]
      /\ UNCHANGED <<portable, dirty, public, told>>
  BY DEF RunPass, OptionalFails, Carry, Turn, NextTurn, resident
<1>2. /\ refresh'.at = refresh.at + 1 /\ refresh'.stage = "run"
      /\ refresh'.force = refresh.force
  BY <1>1 DEF LineageInv, TypeOK, Refreshes
<1>3. /\ staged' = [q \in Pass |-> staged'[q]]
      /\ \A q \in Pass \ {p} : staged'[q] = staged[q]
      /\ staged'[p].kind # "none"
      /\ ran' = {} => ran = {} /\ staged' = staged
  <2>1. CASE RunPass(p)
    BY <2>1 DEF RunPass, Ran, Retention, Shapes
  <2>2. CASE OptionalFails(p)
    BY <2>2 DEF OptionalFails, Unavailable, Retention, Shapes
  <2>3. CASE Carry(p)
    <3>1. UNCHANGED <<staged, ran>> /\ portable[p].kind # "none"
      BY <2>3 DEF Carry, runner, Invalidated
    <3>2. staged[p] = portable[p]
      BY <1>1 DEF LineageInv, TypeOK, Refreshes, Retention, Idleness
    <3> QED
      BY <3>1, <3>2 DEF Retention, Shapes
  <2> QED
    BY <2>1, <2>2, <2>3
<1>4. Shapes' /\ Carried'
  BY <1>1, <1>3 DEF Retention, Shapes, Carried
<1>5. ASSUME NEW i \in 1..Len(Order)
      PROVE  IF i < refresh'.at THEN staged'[Order[i]].kind # "none"
                                ELSE staged'[Order[i]] = portable'[Order[i]]
  <2>1. Order[i] \in Pass /\ (i # refresh.at => Order[i] # p)
    BY <1>1, PlanAssumption
  <2>2. CASE i = refresh.at
    BY <1>1, <1>2, <1>3, <2>2
  <2>3. CASE i # refresh.at
    <3>1. i < refresh'.at <=> i < refresh.at
      BY <1>1, <1>2, <2>3
    <3>2. staged'[Order[i]] = staged[Order[i]]
      BY <1>3, <2>1, <2>3
    <3> QED
      BY <1>1, <3>1, <3>2 DEF Retention, Idleness
  <2> QED
    BY <2>2, <2>3
<1>6. ASSUME ~refresh.force, dirty = {}, told # None
      PROVE  ran' = {}
  <2>1. ran = {} /\ portable[p].kind # "none"
    BY <1>1, <1>6 DEF Retention, Idleness, Carried
  <2>2. ~Invalidated(p)
    BY <1>6, <2>1 DEF Invalidated
  <2> QED
    BY <2>1, <2>2 DEF RunPass, OptionalFails, Carry, runner
<1>7. ran' = {} => staged' = portable'
  BY <1>1, <1>3 DEF Retention, Idleness
<1>8. Idleness'
  BY <1>1, <1>2, <1>5, <1>6, <1>7 DEF Idleness
<1> QED
  BY <1>4, <1>8 DEF Retention

(* A publication carries what it publishes, every pass of it derived, and    *)
(* claims the capabilities of the whole plan.                               *)
LEMMA RetentionPublish ==
  ASSUME Requested = Pass, LineageInv, Retention, Publish
  PROVE  Retention'
<1>1. /\ refresh.stage = "run" /\ refresh.at = Len(Order) + 1
      /\ public' = [public EXCEPT ![universe] = Generation]
      /\ portable' = staged /\ UNCHANGED staged
      /\ told' = [u |-> universe, files |-> private[universe]]
  BY DEF Publish, runner
<1>2. universe \in Universe
  BY <1>1 DEF LineageInv, Lineage, TypeOK
<1>3. refresh'.stage \in {"idle", "request"}
  BY IdleFields DEF Publish, Idle
<1>4. Shapes'
  BY <1>1 DEF Retention, Shapes
<1>5. \A p \in Pass : portable'[p].kind # "none"
  <2>1. SUFFICES ASSUME NEW p \in Pass PROVE staged[p].kind # "none"
    BY <1>1
  <2>2. PICK i \in 1..Len(Order) : Order[i] = p
    BY PlanAssumption
  <2>3. i < refresh.at
    BY <1>1, FirstTurn
  <2> QED
    BY <1>1, <2>2, <2>3 DEF Retention, Idleness
<1>6. Generation = [native |-> private[universe], out |-> staged, capabilities |-> Pass]
  BY DEF Generation, Capabilities, LineageInv, TypeOK
<1>7. public'[universe] = Generation
  BY <1>1, <1>2 DEF Retention, Shapes
<1>8. Carried'
  BY <1>1, <1>5, <1>6, <1>7 DEF Carried
<1> QED
  BY <1>3, <1>4, <1>8 DEF Retention, Idleness

LEMMA RetentionStep ==
  ASSUME Requested = Pass
  PROVE  LineageInv /\ Retention /\ [Next]_vars => Retention'
<1> SUFFICES ASSUME LineageInv, Retention, [Next]_vars PROVE Retention'
  OBVIOUS
<1>0. refresh \in Refreshes
  BY DEF LineageInv, TypeOK
<1>1. ASSUME NEW s \in Source, Edit(s) PROVE Retention'
  BY <1>1, RetentionStays DEF Edit, resident, runner
<1>2. CASE Reconfigure
  BY <1>2, RetentionStays DEF Reconfigure, resident, runner
<1>3. ASSUME NEW force \in BOOLEAN, NEW discover \in BOOLEAN, Begin(force, discover)
      PROVE  Retention'
  <2>1. refresh'.stage = "request"
    BY <1>3 DEF Begin, Idle
  <2> QED
    BY <1>3, <2>1, RetentionStays DEF Begin, resident, runner
<1>4. CASE Refused \/ Fails \/ LoseAnswer \/ AcknowledgeFails
  BY <1>4, IdleFields, RetentionStays
  DEF Refused, Fails, LoseAnswer, AcknowledgeFails, resident, runner
<1>5. CASE Unchanged \/ Acknowledge
  <2>1. refresh'.at = 1
    BY <1>0, <1>5 DEF Unchanged, Acknowledge, Refreshes
  <2> QED
    BY <1>5, <2>1, RetentionStarts DEF Unchanged, Acknowledge, resident
<1>6. CASE Admit
  <2>1. refresh'.stage = "acknowledge" /\ UNCHANGED <<public, staged>>
    BY <1>0, <1>6 DEF Admit, Refreshes, runner
  <2>2. CASE Candidate.u # universe
    <3>1. told' = None /\ portable' = NoOutputs
      BY <1>6, <2>2 DEF Admit
    <3>2. Shapes' /\ Carried'
      BY <2>1, <3>1 DEF Retention, Shapes, Carried, NoOutputs
    <3> QED
      BY <2>1, <3>2 DEF Retention, Idleness
  <2>3. CASE Candidate.u = universe
    <3>1. told' = told /\ portable' = portable
      BY <1>6, <2>3 DEF Admit
    <3> QED
      BY <2>1, <3>1, RetentionStays
  <2> QED
    BY <2>2, <2>3
<1>7. ASSUME NEW p \in Pass, RunPass(p) \/ OptionalFails(p) \/ Carry(p)
      PROVE  Retention'
  BY <1>7, RetentionTurn
<1>8. CASE Publish
  BY <1>8, RetentionPublish
<1>9. CASE Recreate
  <2>1. told' = None /\ portable' = NoOutputs /\ refresh'.stage = "idle"
        /\ UNCHANGED <<public, staged>>
    BY <1>9 DEF Recreate, runner
  <2>2. Shapes' /\ Carried'
    BY <2>1 DEF Retention, Shapes, Carried, NoOutputs
  <2> QED
    BY <2>1, <2>2 DEF Retention, Idleness
<1>10. CASE UNCHANGED vars
  BY <1>10, RetentionStays DEF vars, resident, runner
<1> QED
  BY <1>1, <1>2, <1>3, <1>4, <1>5, <1>6, <1>7, <1>8, <1>9, <1>10 DEF Next

(* In a quiet refresh nothing has run, so that what would be published is    *)
(* what was.                                                                *)
LEMMA QuietStep ==
  ASSUME Requested = Pass, LineageInv, Retention, [Next]_vars,
         refresh.stage = "run", ~refresh.force, dirty = {},
         told = [u |-> universe, files |-> private[universe]]
  PROVE  public' = public
<1>1. CASE Publish
  <2>1. public' = [public EXCEPT ![universe] = Generation]
    BY <1>1 DEF Publish
  <2>2. universe \in Universe /\ private[universe] \in Files
    BY DEF LineageInv, Lineage, TypeOK
  <2>3. told # None
    BY <2>2, NoneAssumption
  <2>4. staged = portable
    BY <2>3 DEF Retention, Idleness
  <2>5. Generation = [native |-> private[universe], out |-> staged, capabilities |-> Pass]
    BY DEF Generation, Capabilities, LineageInv, TypeOK
  <2>6. public[universe] = Generation
    BY <2>3, <2>4, <2>5 DEF Retention, Carried
  <2> QED
    BY <2>1, <2>6 DEF Retention, Shapes
<1>2. CASE ~Publish
  BY <1>2
  DEF Next, Edit, Reconfigure, Begin, Refused, Unchanged, LoseAnswer, Admit, Acknowledge,
      AcknowledgeFails, RunPass, OptionalFails, Carry, Fails, Recreate, vars
<1> QED
  BY <1>1, <1>2

(* A refresh that asks for every capability of the plan and finds nothing    *)
(* new leaves the generation of the caller's store alone, whatever failed   *)
(* between it and the publication before it.                                *)
THEOREM QuietIsRetained == Requested = Pass => (Spec => QuietRetains)
<1> SUFFICES ASSUME Requested = Pass PROVE Spec => QuietRetains
  OBVIOUS
<1>1. Init => LineageInv /\ Retention
  BY TypesInit, LineageInit, RetentionInit DEF LineageInv
<1>2. LineageInv /\ Retention /\ [Next]_vars => (LineageInv /\ Retention)'
  BY TypesStep, LineageStep, RetentionStep DEF LineageInv
<1>3. LineageInv /\ Retention /\ [Next]_vars =>
        [(/\ refresh.stage = "run" /\ ~refresh.force /\ dirty = {}
          /\ told = [u |-> universe, files |-> private[universe]])
         => public' = public]_vars
  BY QuietStep
<1> QED
  BY <1>1, <1>2, <1>3, PTL DEF Spec, QuietRetains
=============================================================================
