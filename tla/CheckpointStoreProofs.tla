------------------------- MODULE CheckpointStoreProofs -------------------------
(***************************************************************************)
(* For every number of processes, scopes and artifacts and every limit: the *)
(* checkpoint store keeps its types, its scopes are bounded, and what it    *)
(* names is there (Whole), with the exceptions that property states.        *)
(*                                                                         *)
(* Whole is not inductive.  A manifest is whole when it is renamed because  *)
(* what a publication has found or installed is good (Held), which for a    *)
(* blob it has not read rests on what its store remembers (Trusted).  It    *)
(* stays whole because whatever a prune of another process has read         *)
(* (Reading) or chosen (Chosen) before is accounted for in the history.     *)
(***************************************************************************)
EXTENDS CheckpointStore, FiniteSetTheorems, TLAPS

(* The time of a blob is not in the future.                                  *)
Times == \A d \in Stored : blobs[d].at <= clock

(* What publications under way hold is there and good, but for what history  *)
(* says they may lose.                                                       *)
Held ==
  \A p \in Process : \A d \in Digest :
    /\ p \in Holders(d) /\ d \notin risk[p] \union unsure => Good(d)
    /\ p \in Holders(d) /\ op[p].phase[d] = "found" /\ d \notin unsure =>
         blobs[d] = None \/ Good(d)

(* Metadata that is remembered is that of a good blob.                       *)
Trusted ==
  \A p \in Process : (\A d \in trusted[p] \ unsure : Good(d)) /\ \A d \in seen[p] : Good(d)

(* What a prune is about to remove: publications that count on it are warned, *)
(* and so are the scopes that name it.                                       *)
Chosen ==
  \A q \in Process : Pruning(q, {"remove"}) =>
    /\ op[q].unread = {} /\ op[q].victims \intersect op[q].refs = {}
    /\ \A d \in op[q].victims :
         /\ \A p \in Holders(d) : d \in risk[p] \union unsure \/ ~Recent(d)
         /\ \A s \in Named : d \in manifests[s].blobs =>
              d \in stake[s] \union unsure \/ op[q].late

(* What a prune that reads the manifests may take for unreferenced.          *)
Reading ==
  \A q \in Process : Pruning(q, {"read"}) =>
    \A s \in Named : \A d \in manifests[s].blobs :
      \/ s \in op[q].unread \/ d \in op[q].refs
      \/ d \in stake[s] \union unsure \/ op[q].late
      \/ blobs[d] # None /\ Recent(d)

Sound == Held /\ Chosen /\ Reading /\ Whole
IInv == TypeOK /\ Times /\ Trusted /\ Sound

(* The scopes that are left once the running prunes have removed theirs.     *)
AllDoomed == UNION {op[p].doomed : p \in {q \in Process : Pruning(q, {"unlink"})}}
Bounding ==
  /\ Distinct /\ \A s \in Named : manifests[s].at <= written
  /\ (\A p \in Process : ~Pruning(p, {"scopes"})) /\ ~behind =>
       Cardinality(Named \ AllDoomed) <= MaxScopes

-----------------------------------------------------------------------------
(* Operations.                                                               *)

LEMMA Shapes ==
  ASSUME TypeOK, NEW p \in Process
  PROVE  /\ op[p] \in Operations
         /\ op[p].kind = "publish" => op[p] \in Publications
         /\ op[p].kind = "prune" => op[p] \in Prunes
         /\ op[p].kind = "load" => op[p] \in Loads
BY DEF TypeOK, Operations, Idle, Publications, Prunes, Loads

LEMMA Others ==
  ASSUME TypeOK, NEW p \in Process, NEW r, Becomes(p, r)
  PROVE  /\ op'[p] = r /\ \A q \in Process \ {p} : op'[q] = op[q]
         /\ r \in Operations => op' \in [Process -> Operations]
BY DEF TypeOK, Becomes

(* An artifact of a publication reaches a phase.                             *)
LEMMA Reaching ==
  ASSUME TypeOK, NEW p \in Process, NEW d \in Digest, NEW ph \in Phases,
         Publishing(p), Reach(p, d, ph)
  PROVE  /\ op'[p] = [op[p] EXCEPT !.phase = [op[p].phase EXCEPT ![d] = ph]]
         /\ op'[p] \in Publications /\ op[p] \in Publications
         /\ op'[p].phase = [op[p].phase EXCEPT ![d] = ph]
         /\ op'[p].kind = "publish"
         /\ \A q \in Process \ {p} : op'[q] = op[q]
         /\ op' \in [Process -> Operations]
<1>1. op[p] \in Publications
  BY Shapes DEF Publishing
<1>2. op' = [op EXCEPT ![p] = [op[p] EXCEPT !.phase = [op[p].phase EXCEPT ![d] = ph]]]
  BY DEF Reach
<1>3. [op[p].phase EXCEPT ![d] = ph] \in [Digest -> Phases]
  BY <1>1 DEF Publications
<1>4. [op[p] EXCEPT !.phase = [op[p].phase EXCEPT ![d] = ph]] \in Publications
  BY <1>1, <1>3 DEF Publications
<1>5. [op[p] EXCEPT !.phase = [op[p].phase EXCEPT ![d] = ph]].phase = [op[p].phase EXCEPT ![d] = ph]
  BY <1>1 DEF Publications
<1>6. op \in [Process -> Operations]
  BY DEF TypeOK
<1>7. Publications \subseteq Operations
  BY DEF Operations
<1> QED
  BY <1>1, <1>2, <1>4, <1>5, <1>6, <1>7 DEF Publications

LEMMA Pruned ==
  ASSUME TypeOK, NEW p \in Process, NEW protected \in SUBSET Digest,
         Publishing(p), Prune(p, protected)
  PROVE  /\ op'[p] \in Prunes /\ op'[p].stage = "scopes"
         /\ op' \in [Process -> Operations]
         /\ \A q \in Process \ {p} : op'[q] = op[q]
BY Shapes DEF TypeOK, Prune, Becomes, Publishing, Publications, Prunes, Operations, Stages

(* A prune goes on as another one.                                           *)
LEMMA Goes ==
  ASSUME TypeOK, NEW p \in Process, NEW r \in Prunes, Becomes(p, r)
  PROVE  /\ op'[p] = r /\ \A q \in Process \ {p} : op'[q] = op[q]
         /\ op' \in [Process -> Operations]
BY Others DEF Operations

LEMMA Stops ==
  ASSUME TypeOK, NEW p \in Process, Becomes(p, Idle)
  PROVE  /\ op'[p] = Idle /\ op'[p].kind = "idle" /\ \A q \in Process \ {p} : op'[q] = op[q]
         /\ op' \in [Process -> Operations]
BY Others DEF Operations, Idle

-----------------------------------------------------------------------------
(* Types.                                                                    *)

LEMMA TypesInit == Init => TypeOK
<1> SUFFICES ASSUME Init PROVE TypeOK
  OBVIOUS
<1>1. PICK left \in SUBSET Digest :
        /\ blobs = [d \in Digest |-> IF d \in left THEN [good |-> TRUE, at |-> 0] ELSE None]
        /\ manifests \in [Scope -> {None} \union
             [at : 1..MaxScopes, blobs : {u \in SUBSET left : Cardinality(u) <= MaxTotal}]]
  BY DEF Init
<1>2. blobs \in [Digest -> [good : BOOLEAN, at : 0..MaxTicks] \union {None}]
  BY <1>1, LimitAssumption
<1>3. manifests \in [Scope -> [at : Nat, blobs : SUBSET Digest] \union {None}]
  <2>1. ASSUME NEW s \in Scope, manifests[s] # None
        PROVE  manifests[s] \in [at : Nat, blobs : SUBSET Digest]
    BY <1>1, <2>1, LimitAssumption
  <2> QED
    BY <1>1, <2>1
<1>4. op \in [Process -> Operations]
  BY DEF Init, Operations
<1>5. bounds \in [publications : 0..MaxPublications, faults : 0..MaxFaults]
  BY LimitAssumption DEF Init
<1>6. written \in Nat /\ clock \in 0..MaxTicks
  BY LimitAssumption DEF Init
<1>7. /\ trusted \in [Process -> SUBSET Stored] /\ seen \in [Process -> SUBSET Stored]
      /\ risk \in [Process -> SUBSET Digest] /\ stake \in [Scope -> SUBSET Digest]
      /\ unsure \subseteq Digest /\ behind \in BOOLEAN
  BY DEF Init
<1> QED
  BY <1>2, <1>3, <1>4, <1>5, <1>6, <1>7 DEF TypeOK

(* What a step leaves of the types when it changes neither blobs nor times.  *)
LEMMA TypesKept ==
  ASSUME TypeOK, UNCHANGED <<blobs, clock>>,
         op' \in [Process -> Operations],
         manifests' \in [Scope -> [at : Nat, blobs : SUBSET Digest] \union {None}],
         written' \in Nat,
         trusted' \in [Process -> SUBSET Stored], seen' \in [Process -> SUBSET Stored],
         behind' \in BOOLEAN, unsure' \subseteq Digest,
         risk' \in [Process -> SUBSET Digest], stake' \in [Scope -> SUBSET Digest],
         bounds' \in [publications : 0..MaxPublications, faults : 0..MaxFaults]
  PROVE  TypeOK'
<1>1. Stored' = Stored
  BY DEF Stored
<1> QED
  BY <1>1 DEF TypeOK

(* A blob is replaced by this one, or removed, and its metadata is forgotten. *)
LEMMA TypesChanged ==
  ASSUME TypeOK, NEW d \in Digest, Changed(d), UNCHANGED <<manifests, written, clock>>,
         NEW b \in [good : BOOLEAN, at : 0..MaxTicks] \union {None},
         blobs' = [blobs EXCEPT ![d] = b],
         op' \in [Process -> Operations],
         behind' \in BOOLEAN, unsure' \subseteq Digest,
         risk' \in [Process -> SUBSET Digest], stake' \in [Scope -> SUBSET Digest],
         bounds' \in [publications : 0..MaxPublications, faults : 0..MaxFaults]
  PROVE  TypeOK'
<1>1. Stored \ {d} \subseteq Stored'
  BY DEF Stored, TypeOK
<1>2. trusted' \in [Process -> SUBSET (Stored \ {d})] /\ seen' \in [Process -> SUBSET (Stored \ {d})]
  BY DEF Changed, TypeOK
<1>3. blobs' \in [Digest -> [good : BOOLEAN, at : 0..MaxTicks] \union {None}]
  BY DEF TypeOK
<1>4. trusted' \in [Process -> SUBSET Stored'] /\ seen' \in [Process -> SUBSET Stored']
  BY <1>1, <1>2
<1> QED
  BY <1>3, <1>4 DEF TypeOK

(* What history says of publications that may lose a digest.                 *)
LEMMA RiskTypes ==
  ASSUME TypeOK, NEW p \in Process, NEW d \in Digest, Risked(p, d)
  PROVE  risk' \in [Process -> SUBSET Digest]
BY DEF TypeOK, Risked

LEMMA SpendTypes ==
  ASSUME TypeOK, NEW what \in {"publications", "faults"},
         Spend(what, IF what = "faults" THEN MaxFaults ELSE MaxPublications)
  PROVE  bounds' \in [publications : 0..MaxPublications, faults : 0..MaxFaults]
BY LimitAssumption DEF TypeOK, Spend

LEMMA TypesOfPublish ==
  ASSUME TypeOK, NEW p \in Process, NEW s \in Scope, NEW chosen \in SUBSET Digest,
         Publish(p, s, chosen)
  PROVE  TypeOK'
<1> DEFINE r == [kind |-> "publish", scope |-> s, blobs |-> chosen, failed |-> FALSE,
                 phase |-> [d \in Digest |-> IF d \in chosen THEN "todo" ELSE "none"]]
<1>1. r \in Publications
  BY DEF Publications, Phases
<1>2. op' \in [Process -> Operations]
  BY <1>1, Others DEF Publish, Operations
<1>3. Spend("publications", MaxPublications)
  BY DEF Publish
<1>4. bounds' \in [publications : 0..MaxPublications, faults : 0..MaxFaults]
  BY <1>3, SpendTypes
<1>5. risk' \in [Process -> SUBSET Digest]
  BY DEF Publish, TypeOK
<1> QED
  BY <1>2, <1>4, <1>5, TypesKept DEF Publish, TypeOK

LEMMA TypesOfInspect ==
  ASSUME TypeOK, NEW p \in Process, NEW d \in Digest, Inspect(p, d)
  PROVE  TypeOK'
<1>1. op' \in [Process -> Operations]
  <2>1. Publishing(p) /\ (Reach(p, d, "found") \/ Reach(p, d, "absent"))
    BY DEF Inspect
  <2> QED
    BY <2>1, Reaching DEF Phases
<1>2. risk' \in [Process -> SUBSET Digest]
  BY RiskTypes DEF Inspect, TypeOK
<1> QED
  BY <1>1, <1>2, TypesKept DEF Inspect, TypeOK

LEMMA TypesOfInstall ==
  ASSUME TypeOK, NEW p \in Process, NEW d \in Digest, Install(p, d)
  PROVE  TypeOK'
<1>1. Publishing(p) /\ Reach(p, d, "found") /\ Risked(p, d)
  BY DEF Install
<1>2. op' \in [Process -> Operations]
  BY <1>1, Reaching DEF Phases
<1>3. risk' \in [Process -> SUBSET Digest]
  BY <1>1, RiskTypes
<1>4. CASE Good(d)
  BY <1>2, <1>3, <1>4, TypesKept DEF Install, TypeOK
<1>5. CASE ~Good(d)
  <2>1. [good |-> TRUE, at |-> clock] \in [good : BOOLEAN, at : 0..MaxTicks]
    BY DEF TypeOK
  <2> QED
    BY <1>2, <1>3, <1>5, <2>1, TypesChanged DEF Install, TypeOK
<1> QED
  BY <1>4, <1>5

LEMMA TypesOfNote ==
  ASSUME TypeOK, NEW p \in Process, NEW d \in Digest, Note(p, d)
  PROVE  TypeOK'
<1>1. op[p] \in Publications
  BY Shapes DEF Note, Publishing
<1>2. op' \in [Process -> Operations]
  <2>1. CASE blobs[d] = None
    <3>1. op' = [op EXCEPT ![p] = [op[p] EXCEPT !.phase = [op[p].phase EXCEPT ![d] = "lost"],
                                               !.failed = TRUE]]
      BY <2>1 DEF Note
    <3>2. [op[p].phase EXCEPT ![d] = "lost"] \in [Digest -> Phases]
      BY <1>1 DEF Publications, Phases
    <3>3. [op[p] EXCEPT !.phase = [op[p].phase EXCEPT ![d] = "lost"], !.failed = TRUE]
            \in Publications
      BY <1>1, <3>2 DEF Publications
    <3> QED
      BY <3>1, <3>3 DEF TypeOK, Operations
  <2>2. CASE blobs[d] # None
    BY <2>2, Reaching DEF Note, Phases
  <2> QED
    BY <2>1, <2>2
<1>3. trusted' \in [Process -> SUBSET Stored]
  BY DEF Note, TypeOK, Stored
<1> QED
  BY <1>2, <1>3, TypesKept DEF Note, TypeOK, history

LEMMA TypesOfRename ==
  ASSUME TypeOK, NEW p \in Process, Rename(p)
  PROVE  TypeOK'
<1>1. op[p] \in Publications
  BY Shapes DEF Rename, Publishing
<1>2. op[p].blobs \in SUBSET Digest /\ op[p].scope \in Scope
  BY <1>1 DEF Publications
<1>3. op' \in [Process -> Operations]
  BY <1>2, Pruned DEF Rename
<1>4. manifests' \in [Scope -> [at : Nat, blobs : SUBSET Digest] \union {None}] /\ written' \in Nat
  BY <1>2 DEF Rename, TypeOK
<1>5. stake' \in [Scope -> SUBSET Digest]
  <2>1. risk[p] \union {d \in op[p].blobs : Overlooked(d, p)} \in SUBSET Digest
    BY <1>2 DEF TypeOK
  <2> QED
    BY <2>1 DEF Rename, TypeOK
<1> QED
  BY <1>3, <1>4, <1>5, TypesKept DEF Rename, TypeOK

LEMMA TypesOfFailure ==
  ASSUME TypeOK, NEW p \in Process, Failure(p)
  PROVE  TypeOK'
<1>1. op[p] \in Publications
  BY Shapes DEF Failure, FailInstalled, FailInstalling, FailPublication, Publishing
<1>2. op[p].blobs \in SUBSET Digest
  BY <1>1 DEF Publications
<1>3. CASE FailInstalled(p)
  <2>1. op' \in [Process -> Operations]
    BY <1>2, <1>3, Pruned DEF FailInstalled
  <2>2. bounds' \in [publications : 0..MaxPublications, faults : 0..MaxFaults]
    BY <1>3, SpendTypes DEF FailInstalled
  <2> QED
    BY <1>3, <2>1, <2>2, TypesKept DEF FailInstalled, TypeOK, history
<1>4. CASE FailInstalling(p)
  <2>1. op' \in [Process -> Operations]
    <3>1. [op[p] EXCEPT !.failed = TRUE] \in Publications
      BY <1>1 DEF Publications
    <3> QED
      BY <1>4, <3>1 DEF FailInstalling, TypeOK, Operations
  <2>2. bounds' \in [publications : 0..MaxPublications, faults : 0..MaxFaults]
    BY <1>4, SpendTypes DEF FailInstalling
  <2> QED
    BY <1>4, <2>1, <2>2, TypesKept DEF FailInstalling, TypeOK, history
<1>5. CASE FailPublication(p)
  <2>1. op' \in [Process -> Operations]
    BY <1>5, Pruned DEF FailPublication
  <2> QED
    BY <1>5, <2>1, TypesKept DEF FailPublication, TypeOK, history
<1> QED
  BY <1>3, <1>4, <1>5 DEF Failure

LEMMA TypesOfPruner ==
  ASSUME TypeOK, NEW p \in Process, Pruner(p)
  PROVE  TypeOK'
<1>1. op[p] \in Prunes
  BY Shapes DEF Pruner, ListScopes, ListManifests, ChooseVictims, UnlinkScope, ReadManifest,
                RemoveBlob, GiveUp, Pruning
<1> DEFINE Typed == op' \in [Process -> Operations]
<1>2. CASE ListScopes(p)
  <2>1. Doomed(p) \in SUBSET Scope
    BY DEF Doomed, Named
  <2>2. [op[p] EXCEPT !.stage = "unlink", !.doomed = Doomed(p)] \in Prunes
    BY <1>1, <2>1 DEF Prunes, Stages
  <2>3. Becomes(p, [op[p] EXCEPT !.stage = "unlink", !.doomed = Doomed(p)])
    BY <1>2 DEF ListScopes, Becomes
  <2>4. Typed
    BY <2>2, <2>3, Goes
  <2> QED
    BY <1>2, <2>4, TypesKept DEF ListScopes, TypeOK
<1>3. ASSUME NEW s \in Scope, UnlinkScope(p, s) PROVE TypeOK'
  <2>1. [op[p] EXCEPT !.doomed = @ \ {s}] \in Prunes
    BY <1>1 DEF Prunes
  <2>2. Becomes(p, [op[p] EXCEPT !.doomed = @ \ {s}])
    BY <1>3 DEF UnlinkScope, Becomes
  <2>3. Typed
    BY <2>1, <2>2, Goes
  <2>4. manifests' \in [Scope -> [at : Nat, blobs : SUBSET Digest] \union {None}]
    BY <1>3 DEF UnlinkScope, TypeOK
  <2> QED
    BY <1>3, <2>3, <2>4, TypesKept DEF UnlinkScope, TypeOK, history
<1>4. CASE ListManifests(p)
  <2>1. [op[p] EXCEPT !.stage = "read", !.unread = Named] \in Prunes
    BY <1>1 DEF Prunes, Stages, Named
  <2>2. Becomes(p, [op[p] EXCEPT !.stage = "read", !.unread = Named])
    BY <1>4 DEF ListManifests, Becomes
  <2>3. Typed
    BY <2>1, <2>2, Goes
  <2> QED
    BY <1>4, <2>3, TypesKept DEF ListManifests, TypeOK, history
<1>5. ASSUME NEW s \in Scope, ReadManifest(p, s) PROVE TypeOK'
  <2>1. CASE manifests[s] = None
    <3>1. Typed
      BY <1>5, <2>1, Stops DEF ReadManifest
    <3> QED
      BY <1>5, <3>1, TypesKept DEF ReadManifest, TypeOK, history
  <2>2. CASE manifests[s] # None
    <3>1. References(p, s) \in SUBSET Digest
      BY <2>2 DEF References, TypeOK
    <3>2. [op[p] EXCEPT !.refs = @ \union References(p, s), !.unread = @ \ {s}] \in Prunes
      BY <1>1, <3>1 DEF Prunes
    <3>3. Becomes(p, [op[p] EXCEPT !.refs = @ \union References(p, s), !.unread = @ \ {s}])
      BY <1>5, <2>2 DEF ReadManifest, Becomes
    <3>4. Typed
      BY <3>2, <3>3, Goes
    <3> QED
      BY <1>5, <3>4, TypesKept DEF ReadManifest, TypeOK, history
  <2> QED
    BY <2>1, <2>2
<1>6. CASE ChooseVictims(p)
  <2>1. PICK victims \in SUBSET Removable(p) :
          IF victims = {} THEN Becomes(p, Idle)
          ELSE op' = [op EXCEPT ![p].stage = "remove", ![p].victims = victims]
    BY <1>6 DEF ChooseVictims
  <2>2. victims \in SUBSET Digest
    BY <2>1 DEF Removable, Stored
  <2>3. [op[p] EXCEPT !.stage = "remove", !.victims = victims] \in Prunes
    BY <1>1, <2>2 DEF Prunes, Stages
  <2>4. Becomes(p, Idle) \/ Becomes(p, [op[p] EXCEPT !.stage = "remove", !.victims = victims])
    BY <2>1 DEF Becomes
  <2>5. Typed
    BY <2>3, <2>4, Goes, Stops
  <2> QED
    BY <1>6, <2>5, TypesKept DEF ChooseVictims, TypeOK, history
<1>7. ASSUME NEW d \in Digest, RemoveBlob(p, d) PROVE TypeOK'
  <2>1. [op[p] EXCEPT !.victims = @ \ {d}] \in Prunes
    BY <1>1 DEF Prunes
  <2>2. Becomes(p, Idle) \/ Becomes(p, [op[p] EXCEPT !.victims = @ \ {d}])
    BY <1>7 DEF RemoveBlob, Becomes
  <2>3. Typed
    BY <2>1, <2>2, Goes, Stops
  <2>4. risk' \in [Process -> SUBSET Digest] /\ stake' \in [Scope -> SUBSET Digest]
    BY <1>7 DEF RemoveBlob, TypeOK
  <2> QED
    BY <1>7, <2>3, <2>4, TypesChanged DEF RemoveBlob, TypeOK
<1>8. CASE GiveUp(p)
  <2>1. Typed
    BY <1>8, Stops DEF GiveUp
  <2>2. behind' \in BOOLEAN
    BY <1>8 DEF GiveUp, TypeOK
  <2> QED
    BY <1>8, <2>1, <2>2, TypesKept DEF GiveUp, TypeOK
<1> QED
  BY <1>2, <1>3, <1>4, <1>5, <1>6, <1>7, <1>8 DEF Pruner

LEMMA TypesOfLoad ==
  ASSUME TypeOK, NEW p \in Process, NEW s \in Scope, Load(p, s)
  PROVE  TypeOK'
<1>1. manifests[s].blobs \in SUBSET Digest
  BY DEF Load, TypeOK
<1>2. PICK wanted \in SUBSET manifests[s].blobs \ {{}} :
        Becomes(p, [kind |-> "load", wanted |-> wanted])
  BY DEF Load
<1>3. [kind |-> "load", wanted |-> wanted] \in Operations
  BY <1>1, <1>2 DEF Operations, Loads
<1>4. op' \in [Process -> Operations]
  BY <1>2, <1>3, Others
<1>5. seen' \in [Process -> SUBSET Stored]
  BY DEF Load, TypeOK
<1> QED
  BY <1>4, <1>5, TypesKept DEF Load, TypeOK, history

LEMMA TypesOfLoadBlob ==
  ASSUME TypeOK, NEW p \in Process, NEW d \in Digest, LoadBlob(p, d)
  PROVE  TypeOK'
<1>1. op[p] \in Loads
  BY Shapes DEF LoadBlob
<1>2. [op[p] EXCEPT !.wanted = @ \ {d}] \in Operations
  BY <1>1 DEF Loads, Operations
<1>3. op' \in [Process -> Operations]
  <2>1. Becomes(p, Idle) \/ Becomes(p, [op[p] EXCEPT !.wanted = @ \ {d}])
    BY DEF LoadBlob, Becomes
  <2> QED
    BY <1>2, <2>1, Stops, Others
<1>4. seen' \in [Process -> SUBSET Stored]
  BY DEF LoadBlob, Admits, Good, TypeOK, Stored
<1>5. trusted' \in [Process -> SUBSET Stored]
  BY <1>4 DEF LoadBlob, TypeOK
<1> QED
  BY <1>3, <1>4, <1>5, TypesKept DEF LoadBlob, TypeOK, history

LEMMA TypesOfTick ==
  ASSUME TypeOK, Tick
  PROVE  TypeOK'
<1>1. op' \in [Process -> Operations]
  <2>1. ASSUME NEW p \in Process, Pruning(p, {"read", "remove"})
        PROVE  [op[p] EXCEPT !.late = TRUE] \in Operations
    <3>1. op[p] \in Prunes
      BY <2>1, Shapes DEF Pruning
    <3>2. [op[p] EXCEPT !.late = TRUE] \in Prunes
      BY <3>1 DEF Prunes
    <3> QED
      BY <3>2 DEF Operations
  <2> QED
    BY <2>1 DEF Tick, TypeOK
<1>2. clock' \in 0..MaxTicks
  BY LimitAssumption DEF Tick, TypeOK
<1>3. Stored' = Stored
  BY DEF Tick, Stored
<1> QED
  BY <1>1, <1>2, <1>3 DEF Tick, TypeOK, history

LEMMA TypesOfDamage ==
  ASSUME TypeOK, NEW d \in Digest, Damage(d)
  PROVE  TypeOK'
<1>1. [good |-> FALSE, at |-> clock] \in [good : BOOLEAN, at : 0..MaxTicks]
  BY DEF TypeOK
<1>2. bounds' \in [publications : 0..MaxPublications, faults : 0..MaxFaults]
  BY SpendTypes DEF Damage
<1>3. /\ risk' \in [Process -> SUBSET Digest] /\ stake' \in [Scope -> SUBSET Digest]
      /\ unsure' \subseteq Digest
  BY DEF Damage, TypeOK
<1> QED
  BY <1>1, <1>2, <1>3, TypesChanged DEF Damage, TypeOK

LEMMA TypesOfRestart ==
  ASSUME TypeOK, NEW p \in Process, Restart(p)
  PROVE  TypeOK'
<1>1. op' \in [Process -> Operations]
  BY Stops DEF Restart
<1>2. bounds' \in [publications : 0..MaxPublications, faults : 0..MaxFaults]
  BY SpendTypes DEF Restart
<1>3. trusted' \in [Process -> SUBSET Stored] /\ behind' \in BOOLEAN
  BY DEF Restart, TypeOK
<1> QED
  BY <1>1, <1>2, <1>3, TypesKept DEF Restart, TypeOK

LEMMA TypesStep == TypeOK /\ [Next]_vars => TypeOK'
<1> SUFFICES ASSUME TypeOK, [Next]_vars PROVE TypeOK'
  OBVIOUS
<1>1. ASSUME NEW p \in Process, NEW s \in Scope, Remove(p, s) PROVE TypeOK'
  <2>1. manifests' \in [Scope -> [at : Nat, blobs : SUBSET Digest] \union {None}]
    BY <1>1 DEF Remove, TypeOK
  <2> QED
    BY <1>1, <2>1, TypesKept DEF Remove, TypeOK, history
<1>2. ASSUME NEW p \in Process, Installation(p) PROVE TypeOK'
  BY <1>2, TypesOfInspect, TypesOfInstall, TypesOfNote DEF Installation
<1>3. CASE UNCHANGED vars
  BY <1>3 DEF vars, history, TypeOK, Stored
<1> QED
  BY <1>1, <1>2, <1>3, TypesOfPublish, TypesOfRename, TypesOfFailure, TypesOfPruner, TypesOfLoad,
     TypesOfLoadBlob, TypesOfTick, TypesOfDamage, TypesOfRestart DEF Next

(* The values the directory and the stores of its processes go through, for   *)
(* every number of processes, scopes and artifacts: what a store remembers of *)
(* a blob is remembered of a blob that is there (store.ts:434-444).           *)
THEOREM CheckpointTypes == Spec => []TypeOK
BY TypesInit, TypesStep, PTL DEF Spec
-----------------------------------------------------------------------------
(* The bound on the scopes.                                                  *)

LEMMA NamedFinite == IsFiniteSet(Named) /\ \A S \in SUBSET Named :
                       IsFiniteSet(S) /\ Cardinality(S) \in Nat
<1>1. Named \in SUBSET Scope
  BY DEF Named
<1> QED
  BY <1>1, LimitAssumption, FS_Subset, FS_CardinalityType

(* What a prune does not doom is the scope it has published and the newest    *)
(* ones: the number of newer ones tells any two of them apart.               *)
LEMMA SparedAreFew ==
  ASSUME TypeOK, Distinct, NEW p \in Process
  PROVE  Cardinality(Named \ Doomed(p)) <= MaxScopes
<1> DEFINE own == op[p].scope
           Newer(s) == {t \in Named : t = own \/ manifests[t].at > manifests[s].at}
           Spared == Named \ Doomed(p)
           rank == [s \in Spared |-> IF s = own THEN 0 ELSE Cardinality(Newer(s))]
<1>1. \A s \in Named : Newer(s) \in SUBSET Named /\ manifests[s].at \in Nat
  BY DEF TypeOK, Named
<1>2. \A s \in Named : IsFiniteSet(Newer(s)) /\ Cardinality(Newer(s)) \in Nat
  BY <1>1, NamedFinite
<1>3. \A s \in Spared : rank[s] \in 0..(MaxScopes - 1)
  <2>1. \A s \in Spared \ {own} : ~(Cardinality(Newer(s)) >= MaxScopes)
    BY DEF Doomed
  <2> HIDE DEF Newer
  <2> QED
    BY <1>2, <2>1, LimitAssumption
<1>4. \A s, t \in Spared : s # t /\ s # own /\ t # own /\ manifests[s].at < manifests[t].at =>
        rank[t] < rank[s]
  <2> SUFFICES ASSUME NEW s \in Spared, NEW t \in Spared, s # own, t # own,
                      manifests[s].at < manifests[t].at
               PROVE  rank[t] < rank[s]
    OBVIOUS
  <2>1. Newer(t) \in SUBSET Newer(s) /\ t \in Newer(s) /\ t \notin Newer(t)
    BY <1>1
  <2>2. /\ IsFiniteSet(Newer(s)) /\ Cardinality(Newer(s)) \in Nat
        /\ Cardinality(Newer(t)) \in Nat
    BY <1>2
  <2> HIDE DEF Newer
  <2>3. /\ Cardinality(Newer(t)) <= Cardinality(Newer(s))
        /\ Cardinality(Newer(s)) = Cardinality(Newer(t)) => Newer(s) = Newer(t)
    BY <2>1, <2>2, FS_Subset
  <2> QED
    BY <2>1, <2>2, <2>3
<1>5. \A s \in Spared : s # own /\ own \in Spared => rank[own] < rank[s]
  <2> SUFFICES ASSUME NEW s \in Spared, s # own, own \in Spared PROVE rank[own] < rank[s]
    OBVIOUS
  <2>1. own \in Newer(s)
    OBVIOUS
  <2>2. IsFiniteSet(Newer(s)) /\ Cardinality(Newer(s)) \in Nat
    BY <1>2
  <2> HIDE DEF Newer
  <2>3. Cardinality(Newer(s)) # 0
    BY <2>1, <2>2, FS_EmptySet
  <2> QED
    BY <2>2, <2>3
<1>6. \A s, t \in Spared : s # t => rank[s] # rank[t]
  <2> SUFFICES ASSUME NEW s \in Spared, NEW t \in Spared, s # t PROVE rank[s] # rank[t]
    OBVIOUS
  <2>1. manifests[s].at < manifests[t].at \/ manifests[t].at < manifests[s].at
    BY <1>1 DEF Distinct
  <2> HIDE DEF rank
  <2> QED
    BY <1>3, <1>4, <1>5, <2>1
<1>7. IsFiniteSet(Spared) /\ Cardinality(Spared) \in Nat
  BY NamedFinite
<1>8. IsFiniteSet(0..(MaxScopes - 1)) /\ Cardinality(0..(MaxScopes - 1)) = MaxScopes
  <2>1. 0 \in Int /\ MaxScopes - 1 \in Int /\ ~(0 > MaxScopes - 1) /\ MaxScopes - 1 - 0 + 1 = MaxScopes
    BY LimitAssumption
  <2> QED
    BY <2>1, FS_Interval
<1>9. rank \in [Spared -> 0..(MaxScopes - 1)]
  BY <1>3
<1> HIDE DEF rank, Spared
<1>10. ~(Cardinality(0..(MaxScopes - 1)) < Cardinality(Spared))
  BY <1>6, <1>7, <1>8, <1>9, FS_PigeonHole
<1> QED
  BY <1>7, <1>8, <1>10, LimitAssumption DEF Spared

Starting == {p \in Process : Pruning(p, {"scopes"})}

(* No more scopes are left over than before, and no prune has come to its end *)
(* without bounding them.                                                    *)
LEMMA BoundingKept ==
  ASSUME Bounding, Distinct', \A s \in Named' : manifests'[s].at <= written',
         Starting' = {} /\ ~behind' => Starting = {} /\ ~behind,
         Starting' = {} => (Named \ AllDoomed)' \subseteq Named \ AllDoomed
  PROVE  Bounding'
<1> SUFFICES ASSUME Starting' = {}, ~behind'
             PROVE  Cardinality((Named \ AllDoomed)') <= MaxScopes
  BY DEF Bounding, Starting
<1>1. Cardinality(Named \ AllDoomed) <= MaxScopes
  BY DEF Bounding, Starting
<1>2. IsFiniteSet(Named \ AllDoomed) /\ Cardinality(Named \ AllDoomed) \in Nat
  BY NamedFinite
<1> DEFINE before == Named \ AllDoomed
           after == (Named \ AllDoomed)'
<1>3. after \in SUBSET before
  OBVIOUS
<1> HIDE DEF before, after
<1>4. IsFiniteSet(after) /\ Cardinality(after) <= Cardinality(before)
  BY <1>2, <1>3, FS_Subset DEF before
<1>5. Cardinality(after) \in Nat
  BY <1>4, FS_CardinalityType
<1> QED
  BY <1>1, <1>2, <1>4, <1>5, LimitAssumption DEF before, after

(* The step of a process that neither lists nor unlinks scopes, before or     *)
(* after it.                                                                 *)
LEMMA Elsewhere ==
  ASSUME NEW p \in Process, \A q \in Process \ {p} : op'[q] = op[q],
         ~Pruning(p, {"scopes", "unlink"}), ~Pruning(p, {"scopes", "unlink"})'
  PROVE  Starting' = Starting /\ AllDoomed' = AllDoomed
<1>1. \A q \in Process : /\ Pruning(q, {"scopes"})' <=> Pruning(q, {"scopes"})
                         /\ Pruning(q, {"unlink"})' <=> Pruning(q, {"unlink"})
  BY DEF Pruning
<1>2. \A q \in Process : Pruning(q, {"unlink"}) => op'[q] = op[q]
  BY DEF Pruning
<1> QED
  BY <1>1, <1>2 DEF Starting, AllDoomed

LEMMA BoundingInit == Init => Bounding
<1> SUFFICES ASSUME Init PROVE Bounding
  OBVIOUS
<1>1. \A s \in Named : manifests[s].at <= written
  BY LimitAssumption DEF Init, Named
<1>2. AllDoomed = {}
  BY DEF Init, AllDoomed, Pruning, Idle
<1> QED
  BY <1>1, <1>2 DEF Init, Bounding

LEMMA BoundingStep == TypeOK /\ Bounding /\ [Next]_vars => Bounding'
<1> SUFFICES ASSUME TypeOK, Bounding, [Next]_vars PROVE Bounding'
  OBVIOUS
<1> DEFINE Ordered == Distinct /\ \A s \in Named : manifests[s].at <= written
<1>1. /\ \A s \in Named : manifests[s].at \in Nat
      /\ written \in Nat
  BY DEF TypeOK, Named
<1>2. ASSUME UNCHANGED <<manifests, written, behind>>, NEW p \in Process,
             \A q \in Process \ {p} : op'[q] = op[q],
             ~Pruning(p, {"scopes", "unlink"}), ~Pruning(p, {"scopes", "unlink"})'
      PROVE  Bounding'
  <2>1. Named' = Named /\ Ordered'
    BY <1>2 DEF Named, Bounding, Distinct
  <2> QED
    BY <1>2, <2>1, Elsewhere, BoundingKept
<1>3. ASSUME NEW p \in Process, NEW s \in Scope, NEW chosen \in SUBSET Digest, Publish(p, s, chosen)
      PROVE  Bounding'
  <2>1. ~Pruning(p, {"scopes", "unlink"}) /\ ~Pruning(p, {"scopes", "unlink"})'
    BY <1>3, Others DEF Publish, Pruning, Idle
  <2> QED
    BY <1>2, <1>3, <2>1, Others DEF Publish
<1>4. ASSUME NEW p \in Process, Installation(p) PROVE Bounding'
  <2>1. Publishing(p) /\ UNCHANGED <<manifests, written, behind>>
    BY <1>4 DEF Installation, Inspect, Install, Note, history
  <2>2. op'[p].kind = "publish" /\ \A q \in Process \ {p} : op'[q] = op[q]
    <3>1. op[p] \in Publications
      BY <2>1, Shapes DEF Publishing
    <3>2. ASSUME NEW d \in Digest, Inspect(p, d) \/ Install(p, d)
          PROVE  op'[p].kind = "publish" /\ \A q \in Process \ {p} : op'[q] = op[q]
      BY <2>1, <3>2, Reaching DEF Inspect, Install, Phases
    <3>3. ASSUME NEW d \in Digest, Note(p, d)
          PROVE  op'[p].kind = "publish" /\ \A q \in Process \ {p} : op'[q] = op[q]
      <4>1. CASE blobs[d] = None
        <5>1. op' = [op EXCEPT ![p] = [op[p] EXCEPT !.phase = [op[p].phase EXCEPT ![d] = "lost"],
                                                   !.failed = TRUE]]
          BY <3>3, <4>1 DEF Note
        <5> QED
          BY <3>1, <5>1 DEF Publications, TypeOK
      <4>2. CASE blobs[d] # None
        BY <2>1, <3>3, <4>2, Reaching DEF Note, Phases
      <4> QED
        BY <4>1, <4>2
    <3> QED
      BY <1>4, <3>2, <3>3 DEF Installation
  <2> QED
    BY <1>2, <2>1, <2>2 DEF Pruning, Publishing
<1>5. ASSUME NEW p \in Process, Rename(p) \/ FailInstalled(p) \/ FailPublication(p) PROVE Bounding'
  <2>1. op[p] \in Publications /\ op[p].blobs \in SUBSET Digest /\ op[p].scope \in Scope
    BY <1>5, Shapes DEF Rename, FailInstalled, FailPublication, Publishing, Publications
  <2>2. Pruning(p, {"scopes"})'
    BY <1>5, <2>1, Pruned DEF Rename, FailInstalled, FailPublication, Pruning, Prunes
  <2>3. Ordered'
    <3>1. CASE Rename(p)
      <4>1. /\ written' = written + 1
            /\ manifests' = [manifests EXCEPT ![op[p].scope] = [at |-> written', blobs |-> op[p].blobs]]
        BY <3>1 DEF Rename
      <4>2. /\ manifests'[op[p].scope].at = written + 1
            /\ \A s \in Scope \ {op[p].scope} : manifests'[s] = manifests[s]
        BY <2>1, <4>1 DEF TypeOK
      <4>3. Named' \ {op[p].scope} \subseteq Named
        BY <4>2 DEF Named
      <4>4. \A s \in Named' \ {op[p].scope} : manifests'[s].at \in Nat /\ manifests'[s].at <= written
        BY <1>1, <4>2, <4>3 DEF Bounding, Named
      <4>5. \A s, t \in Named' \ {op[p].scope} : manifests'[s].at = manifests'[t].at => s = t
        BY <4>2, <4>3 DEF Bounding, Distinct, Named
      <4>6. \A s, t \in Named' : manifests'[s].at = manifests'[t].at => s = t
        BY <1>1, <4>2, <4>4, <4>5
      <4> QED
        BY <1>1, <4>1, <4>2, <4>4, <4>6 DEF Distinct
    <3>2. CASE FailInstalled(p) \/ FailPublication(p)
      BY <3>2 DEF FailInstalled, FailPublication, Bounding, Distinct, Named
    <3> QED
      BY <1>5, <3>1, <3>2
  <2> QED
    BY <2>2, <2>3 DEF Bounding
<1>6. ASSUME NEW p \in Process, FailInstalling(p) PROVE Bounding'
  <2>1. op[p] \in Publications
    BY <1>6, Shapes DEF FailInstalling, Publishing
  <2>2. op'[p].kind = "publish" /\ \A q \in Process \ {p} : op'[q] = op[q]
    BY <1>6, <2>1 DEF FailInstalling, TypeOK, Publications
  <2> QED
    BY <1>2, <1>6, <2>2 DEF FailInstalling, Publishing, Pruning, history
<1>7. ASSUME NEW p \in Process, ListScopes(p) PROVE Bounding'
  <2>1. op[p] \in Prunes
    BY <1>7, Shapes DEF ListScopes, Pruning
  <2>2. Named' = Named /\ Ordered'
    BY <1>7 DEF ListScopes, Named, Bounding, Distinct
  <2>3. op'[p] = [op[p] EXCEPT !.stage = "unlink", !.doomed = Doomed(p)]
    BY <1>7 DEF ListScopes, TypeOK
  <2>4. Pruning(p, {"unlink"})' /\ op'[p].doomed = Doomed(p)
    BY <2>1, <2>3 DEF Pruning, Prunes
  <2>5. (Named \ AllDoomed)' \subseteq Named \ Doomed(p)
    BY <2>2, <2>4 DEF AllDoomed
  <2>6. Cardinality(Named \ Doomed(p)) <= MaxScopes
    BY SparedAreFew DEF Bounding
  <2> DEFINE spared == Named \ Doomed(p)
             after == (Named \ AllDoomed)'
  <2>7. IsFiniteSet(spared) /\ Cardinality(spared) \in Nat
    BY NamedFinite
  <2>8. after \in SUBSET spared
    BY <2>5
  <2> HIDE DEF spared, after
  <2>9. IsFiniteSet(after) /\ Cardinality(after) <= Cardinality(spared)
    BY <2>7, <2>8, FS_Subset
  <2>10. Cardinality(after) \in Nat
    BY <2>9, FS_CardinalityType
  <2>11. Cardinality(after) <= MaxScopes
    BY <2>6, <2>7, <2>9, <2>10, LimitAssumption DEF spared
  <2> QED
    BY <2>2, <2>11 DEF Bounding, after
<1>8. ASSUME NEW p \in Process, NEW s \in Scope, UnlinkScope(p, s) PROVE Bounding'
  <2>1. op[p] \in Prunes
    BY <1>8, Shapes DEF UnlinkScope, Pruning
  <2>2. op'[p] = [op[p] EXCEPT !.doomed = @ \ {s}] /\ \A q \in Process \ {p} : op'[q] = op[q]
    BY <1>8 DEF UnlinkScope, TypeOK
  <2>3. /\ op'[p].kind = "prune" /\ op'[p].stage = op[p].stage
        /\ op'[p].doomed = op[p].doomed \ {s}
    BY <2>1, <2>2 DEF Prunes
  <2>4. Named' = Named \ {s} /\ \A t \in Named' : manifests'[t] = manifests[t]
    BY <1>8 DEF UnlinkScope, Named, TypeOK
  <2>5. Ordered'
    BY <1>8, <2>4 DEF Bounding, Distinct, UnlinkScope
  <2>6. \A q \in Process : /\ Pruning(q, {"scopes"})' <=> Pruning(q, {"scopes"})
                           /\ Pruning(q, {"unlink"})' <=> Pruning(q, {"unlink"})
                           /\ Pruning(q, {"unlink"}) => op[q].doomed \ {s} \subseteq op'[q].doomed
    BY <1>8, <2>1, <2>2, <2>3 DEF Pruning, UnlinkScope, Prunes
  <2>7. Starting' = Starting /\ AllDoomed \ {s} \subseteq AllDoomed'
    BY <2>6 DEF Starting, AllDoomed
  <2> QED
    BY <1>8, <2>4, <2>5, <2>7, BoundingKept DEF UnlinkScope, history
<1>9. ASSUME NEW p \in Process, ListManifests(p) PROVE Bounding'
  <2>1. op[p] \in Prunes
    BY <1>9, Shapes DEF ListManifests, Pruning
  <2>2. /\ op'[p] = [op[p] EXCEPT !.stage = "read", !.unread = Named]
        /\ \A q \in Process \ {p} : op'[q] = op[q]
    BY <1>9 DEF ListManifests, TypeOK
  <2>3. op'[p].stage = "read"
    BY <2>1, <2>2 DEF Prunes
  <2>4. Named' = Named /\ Ordered'
    BY <1>9 DEF ListManifests, history, Named, Bounding, Distinct
  <2>5. \A q \in Process : /\ Pruning(q, {"scopes"})' <=> Pruning(q, {"scopes"})
                           /\ q # p => (Pruning(q, {"unlink"})' <=> Pruning(q, {"unlink"}))
                           /\ q # p => op'[q] = op[q]
    BY <1>9, <2>2, <2>3 DEF Pruning, ListManifests
  <2>6. Starting' = Starting /\ AllDoomed \subseteq AllDoomed'
    BY <1>9, <2>5 DEF Starting, AllDoomed, ListManifests
  <2> QED
    BY <1>9, <2>4, <2>6, BoundingKept DEF ListManifests, history
<1>10. ASSUME NEW p \in Process,
              \/ ChooseVictims(p)
              \/ \E s \in Scope : ReadManifest(p, s)
              \/ \E d \in Digest : RemoveBlob(p, d)
       PROVE  Bounding'
  <2>1. Pruning(p, {"read", "remove"}) /\ UNCHANGED <<manifests, written, behind>>
    BY <1>10 DEF ChooseVictims, ReadManifest, RemoveBlob, history, Pruning
  <2>2. op[p] \in Prunes
    BY <2>1, Shapes DEF Pruning
  <2>3. /\ \A q \in Process \ {p} : op'[q] = op[q]
        /\ op'[p] = Idle \/ op'[p].stage \in {"read", "remove"}
    <3>1. CASE ChooseVictims(p)
      <4>1. PICK victims \in SUBSET Removable(p) :
              IF victims = {} THEN Becomes(p, Idle)
              ELSE op' = [op EXCEPT ![p].stage = "remove", ![p].victims = victims]
        BY <3>1 DEF ChooseVictims
      <4> QED
        BY <2>2, <4>1 DEF Becomes, TypeOK, Prunes
    <3>2. ASSUME NEW s \in Scope, ReadManifest(p, s)
          PROVE  /\ \A q \in Process \ {p} : op'[q] = op[q]
                 /\ op'[p] = Idle \/ op'[p].stage \in {"read", "remove"}
      <4>1. Becomes(p, Idle) \/ Becomes(p, [op[p] EXCEPT !.refs = @ \union References(p, s),
                                                         !.unread = @ \ {s}])
        BY <3>2 DEF ReadManifest, Becomes
      <4>2. [op[p] EXCEPT !.refs = @ \union References(p, s), !.unread = @ \ {s}].stage
              = op[p].stage
        BY <2>2 DEF Prunes
      <4> QED
        BY <2>1, <4>1, <4>2, Others DEF Pruning
    <3>3. ASSUME NEW d \in Digest, RemoveBlob(p, d)
          PROVE  /\ \A q \in Process \ {p} : op'[q] = op[q]
                 /\ op'[p] = Idle \/ op'[p].stage \in {"read", "remove"}
      <4>1. Becomes(p, Idle) \/ Becomes(p, [op[p] EXCEPT !.victims = @ \ {d}])
        BY <3>3 DEF RemoveBlob, Becomes
      <4> QED
        BY <2>1, <2>2, <4>1, Others DEF Prunes, Pruning
    <3> QED
      BY <1>10, <3>1, <3>2, <3>3
  <2>4. ~Pruning(p, {"scopes", "unlink"}) /\ ~Pruning(p, {"scopes", "unlink"})'
    BY <2>1, <2>3 DEF Pruning, Idle
  <2> QED
    BY <1>2, <2>1, <2>3, <2>4
<1>11. ASSUME NEW p \in Process, GiveUp(p) \/ Restart(p) PROVE Bounding'
  <2>1. /\ op'[p] = Idle /\ op'[p].kind = "idle" /\ \A q \in Process \ {p} : op'[q] = op[q]
        /\ UNCHANGED <<manifests, written>>
    BY <1>11, Stops DEF GiveUp, Restart
  <2>2. behind' = (behind \/ Pruning(p, {"scopes", "unlink"}))
    BY <1>11 DEF GiveUp, Restart, Pruning
  <2>3. ~Pruning(p, {"scopes", "unlink"})'
    BY <2>1 DEF Pruning
  <2>4. CASE Pruning(p, {"scopes", "unlink"})
    BY <2>1, <2>2, <2>4 DEF Bounding, Distinct, Named
  <2>5. CASE ~Pruning(p, {"scopes", "unlink"})
    <3>1. behind' = behind
      BY <2>2, <2>5 DEF TypeOK
    <3> QED
      BY <1>2, <2>1, <2>3, <2>5, <3>1
  <2> QED
    BY <2>4, <2>5
<1>12. ASSUME NEW p \in Process, NEW s \in Scope, Load(p, s) PROVE Bounding'
  <2>1. PICK wanted : Becomes(p, [kind |-> "load", wanted |-> wanted])
    BY <1>12 DEF Load
  <2>2. op'[p].kind = "load" /\ op[p].kind = "idle" /\ \A q \in Process \ {p} : op'[q] = op[q]
    BY <1>12, <2>1, Others DEF Load, Idle
  <2> QED
    BY <1>2, <1>12, <2>2 DEF Load, Pruning, history
<1>13. ASSUME NEW p \in Process, NEW d \in Digest, LoadBlob(p, d) PROVE Bounding'
  <2>1. op[p] \in Loads
    BY <1>13, Shapes DEF LoadBlob
  <2>2. Becomes(p, Idle) \/ Becomes(p, [op[p] EXCEPT !.wanted = @ \ {d}])
    BY <1>13 DEF LoadBlob, Becomes
  <2>3. op'[p].kind \in {"idle", "load"} /\ \A q \in Process \ {p} : op'[q] = op[q]
    BY <2>1, <2>2, Others DEF Loads, Idle
  <2> QED
    BY <1>2, <1>13, <2>3 DEF LoadBlob, Pruning, history
<1>14. ASSUME NEW p \in Process, NEW s \in Scope, Remove(p, s) PROVE Bounding'
  <2>1. Named' = Named \ {s} /\ \A t \in Named' : manifests'[t] = manifests[t]
    BY <1>14 DEF Remove, Named, TypeOK
  <2>2. Ordered'
    BY <1>14, <2>1 DEF Bounding, Distinct, Remove
  <2>3. Starting' = Starting /\ AllDoomed' = AllDoomed
    BY <1>14 DEF Remove, Starting, AllDoomed, Pruning
  <2> QED
    BY <1>14, <2>1, <2>2, <2>3, BoundingKept DEF Remove, history
<1>15. CASE Tick
  <2>1. \A p \in Process : /\ Pruning(p, {"scopes", "unlink"}) => op'[p] = op[p]
                           /\ ~Pruning(p, {"scopes", "unlink"}) => ~Pruning(p, {"scopes", "unlink"})'
    <3> TAKE p \in Process
    <3>1. CASE Pruning(p, {"read", "remove"})
      <4>1. op[p] \in Prunes
        BY <3>1, Shapes DEF Pruning
      <4>2. op'[p] = [op[p] EXCEPT !.late = TRUE]
        BY <1>15, <3>1 DEF Tick
      <4> QED
        BY <3>1, <4>1, <4>2 DEF Pruning, Prunes
    <3>2. CASE ~Pruning(p, {"read", "remove"})
      BY <1>15, <3>2 DEF Tick, Pruning
    <3> QED
      BY <3>1, <3>2
  <2>2. \A p \in Process : /\ Pruning(p, {"scopes"})' <=> Pruning(p, {"scopes"})
                           /\ Pruning(p, {"unlink"})' <=> Pruning(p, {"unlink"})
                           /\ Pruning(p, {"unlink"}) => op'[p].doomed = op[p].doomed
    BY <2>1 DEF Pruning
  <2>3. Starting' = Starting /\ AllDoomed' = AllDoomed
    BY <2>2 DEF Starting, AllDoomed
  <2>4. Named' = Named /\ Ordered'
    BY <1>15 DEF Tick, Named, Bounding, Distinct
  <2> QED
    BY <1>15, <2>3, <2>4, BoundingKept DEF Tick, history
<1>16. ASSUME UNCHANGED <<manifests, written, behind, op>> PROVE Bounding'
  <2>1. Starting' = Starting /\ AllDoomed' = AllDoomed /\ Named' = Named
    BY <1>16 DEF Starting, AllDoomed, Pruning, Named
  <2>2. Ordered'
    BY <1>16, <2>1 DEF Bounding, Distinct
  <2> QED
    BY <1>16, <2>1, <2>2, BoundingKept
<1>17. ASSUME NEW d \in Digest, Damage(d) PROVE Bounding'
  BY <1>16, <1>17 DEF Damage
<1>18. CASE UNCHANGED vars
  BY <1>16, <1>18 DEF vars, history
<1> QED
  BY <1>3, <1>4, <1>5, <1>6, <1>7, <1>8, <1>9, <1>10, <1>11, <1>12, <1>13, <1>14, <1>15, <1>17,
     <1>18 DEF Next, Failure, Pruner

(* Once every prune has been through the scopes, no more of them are kept     *)
(* than the limit says, unless the last one ended in an error or with its     *)
(* process: for every number of processes, scopes and artifacts (store.ts:534). *)
THEOREM ScopesAreBounded == Spec => []ScopesBounded
<1>1. TypeOK /\ Bounding => ScopesBounded
  <2> SUFFICES ASSUME Bounding, \A p \in Process : ~Pruning(p, {"scopes", "unlink"}), ~behind
               PROVE  Cardinality(Named) <= MaxScopes
    BY DEF ScopesBounded
  <2>1. AllDoomed = {} /\ \A p \in Process : ~Pruning(p, {"scopes"})
    BY DEF AllDoomed, Pruning
  <2>2. Named \ AllDoomed = Named
    BY <2>1
  <2> QED
    BY <2>1, <2>2 DEF Bounding
<1> QED
  BY <1>1, BoundingInit, BoundingStep, CheckpointTypes, PTL DEF Spec
-----------------------------------------------------------------------------
(* What manifests name is there.                                             *)

LEMMA GoodBlob == \A t \in Nat : [good |-> TRUE, at |-> t] # None
<1> SUFFICES ASSUME NEW t \in Nat PROVE [good |-> TRUE, at |-> t] # None
  OBVIOUS
<1>1. [good |-> TRUE, at |-> t] \in [good : BOOLEAN, at : Nat]
  OBVIOUS
<1> QED
  BY <1>1, LimitAssumption

LEMMA SoundInit == Init => Times /\ Trusted /\ Sound
<1> SUFFICES ASSUME Init PROVE Times /\ Trusted /\ Sound
  OBVIOUS
<1>1. PICK left \in SUBSET Digest :
        /\ blobs = [d \in Digest |-> IF d \in left THEN [good |-> TRUE, at |-> 0] ELSE None]
        /\ manifests \in [Scope -> {None} \union
             [at : 1..MaxScopes, blobs : {u \in SUBSET left : Cardinality(u) <= MaxTotal}]]
  BY DEF Init
<1>2. \A p \in Process : op[p].kind = "idle" /\ trusted[p] = {} /\ seen[p] = {}
  BY DEF Init, Idle
<1>3. Times
  BY <1>1 DEF Init, Times, Stored
<1>4. Trusted
  BY <1>2 DEF Trusted
<1>5. Held /\ Chosen /\ Reading
  BY <1>2 DEF Held, Chosen, Reading, Holders, Publishing, Pruning
<1>6. Whole
  <2> SUFFICES ASSUME NEW s \in Named, NEW d \in manifests[s].blobs PROVE Good(d)
    BY DEF Whole
  <2>1. d \in left
    BY <1>1 DEF Named
  <2>2. blobs[d] = [good |-> TRUE, at |-> 0]
    BY <1>1, <2>1
  <2>3. blobs[d] # None
    BY <2>2, GoodBlob
  <2> QED
    BY <2>2, <2>3 DEF Good
<1> QED
  BY <1>3, <1>4, <1>5, <1>6 DEF Sound

LEMMA TimesStep == TypeOK /\ Times /\ [Next]_vars => Times'
<1> SUFFICES ASSUME TypeOK, Times, [Next]_vars PROVE Times'
  OBVIOUS
<1>1. ASSUME UNCHANGED blobs, clock' \in {clock, clock + 1} PROVE Times'
  BY <1>1 DEF Times, Stored, TypeOK
<1>2. ASSUME UNCHANGED clock, NEW d \in Digest, NEW b, b # None => b.at = clock,
             blobs' = [blobs EXCEPT ![d] = b]
      PROVE  Times'
  BY <1>2 DEF Times, Stored, TypeOK
<1>3. ASSUME NEW p \in Process, NEW d \in Digest, Install(p, d) PROVE Times'
  BY <1>1, <1>2, <1>3 DEF Install
<1>4. ASSUME NEW p \in Process, NEW d \in Digest, RemoveBlob(p, d) PROVE Times'
  BY <1>2, <1>4 DEF RemoveBlob
<1>5. ASSUME NEW d \in Digest, Damage(d) PROVE Times'
  BY <1>2, <1>5 DEF Damage
<1>6. ASSUME NEW p \in Process, Failure(p) PROVE Times'
  BY <1>1, <1>6 DEF Failure, FailInstalled, FailInstalling, FailPublication
<1>7. ASSUME NEW p \in Process, Pruner(p) PROVE Times'
  BY <1>1, <1>4, <1>7 DEF Pruner, ListScopes, ListManifests, ChooseVictims, UnlinkScope,
                          ReadManifest, GiveUp
<1>8. ASSUME NEW p \in Process, Installation(p) PROVE Times'
  BY <1>1, <1>3, <1>8 DEF Installation, Inspect, Note
<1> QED
  BY <1>1, <1>5, <1>6, <1>7, <1>8 DEF Next, Publish, Rename, Load, LoadBlob, Remove, Restart, Tick,
                                     vars

(* Blobs that change are forgotten; what is remembered anew is good.         *)
LEMMA TrustedStep == TypeOK /\ Held /\ Trusted /\ [Next]_vars => Trusted'
<1> SUFFICES ASSUME TypeOK, Held, Trusted, [Next]_vars PROVE Trusted'
  OBVIOUS
<1>1. ASSUME UNCHANGED <<blobs, unsure>>,
             \A p \in Process : trusted'[p] \subseteq trusted[p] /\ seen'[p] \subseteq seen[p]
      PROVE  Trusted'
  BY <1>1 DEF Trusted, Good
<1>2. ASSUME NEW d \in Digest, Changed(d), unsure \subseteq unsure',
             \A e \in Digest \ {d} : blobs'[e] = blobs[e]
      PROVE  Trusted'
  <2>1. \A p \in Process : trusted'[p] = trusted[p] \ {d} /\ seen'[p] = seen[p] \ {d}
    BY <1>2 DEF Changed
  <2>2. \A p \in Process : trusted[p] \subseteq Digest /\ seen[p] \subseteq Digest
    BY DEF TypeOK, Stored
  <2> QED
    BY <1>2, <2>1, <2>2 DEF Trusted, Good
<1>3. ASSUME NEW p \in Process, NEW d \in Digest, Install(p, d) PROVE Trusted'
  BY <1>1, <1>2, <1>3 DEF Install, TypeOK
<1>4. ASSUME NEW p \in Process, NEW d \in Digest, Note(p, d) PROVE Trusted'
  <2>1. CASE blobs[d] = None
    BY <1>1, <1>4, <2>1 DEF Note, history
  <2>2. CASE blobs[d] # None
    <3>1. p \in Holders(d) /\ op[p].phase[d] = "found"
      BY <1>4 DEF Note, Holders
    <3>2. d \notin unsure => Good(d)
      BY <2>2, <3>1 DEF Held
    <3>3. \A q \in Process : trusted'[q] \subseteq trusted[q] \union {d}
      BY <1>4, <2>2 DEF Note, TypeOK
    <3> QED
      BY <1>4, <3>2, <3>3 DEF Trusted, Note, history, Good
  <2> QED
    BY <2>1, <2>2
<1>5. ASSUME NEW p \in Process, NEW d \in Digest, RemoveBlob(p, d) PROVE Trusted'
  BY <1>2, <1>5 DEF RemoveBlob, TypeOK
<1>6. ASSUME NEW p \in Process, NEW s \in Scope, Load(p, s) PROVE Trusted'
  BY <1>1, <1>6 DEF Load, history, TypeOK
<1>7. ASSUME NEW p \in Process, NEW d \in Digest, LoadBlob(p, d) PROVE Trusted'
  <2>1. CASE ~Admits(d)
    BY <1>1, <1>7, <2>1 DEF LoadBlob, history
  <2>2. CASE Admits(d)
    <3>1. /\ UNCHANGED <<blobs, unsure>>
          /\ \A q \in Process : seen'[q] \subseteq seen[q] \union {d}
          /\ \A q \in Process : trusted'[q] \subseteq trusted[q] \union seen'[q]
      BY <1>7, <2>2 DEF LoadBlob, history, TypeOK
    <3> QED
      BY <2>2, <3>1 DEF Admits, Trusted, Good
  <2> QED
    BY <2>1, <2>2
<1>8. ASSUME NEW p \in Process, Restart(p) PROVE Trusted'
  BY <1>1, <1>8 DEF Restart, TypeOK
<1>9. ASSUME NEW d \in Digest, Damage(d) PROVE Trusted'
  BY <1>2, <1>9 DEF Damage, TypeOK
<1>10. ASSUME NEW p \in Process, Failure(p) PROVE Trusted'
  BY <1>1, <1>10 DEF Failure, FailInstalled, FailInstalling, FailPublication, history
<1>11. ASSUME NEW p \in Process, Pruner(p) PROVE Trusted'
  BY <1>1, <1>5, <1>11 DEF Pruner, ListScopes, ListManifests, ChooseVictims, UnlinkScope,
                           ReadManifest, GiveUp, history
<1>12. ASSUME NEW p \in Process, Installation(p) PROVE Trusted'
  BY <1>1, <1>3, <1>4, <1>12 DEF Installation, Inspect
<1> QED
  BY <1>1, <1>6, <1>7, <1>8, <1>9, <1>10, <1>11, <1>12 DEF Next, Publish, Rename, Remove, Tick, vars,
                                                           history

(* An artifact of p reaches a phase: what that makes of all the operations.  *)
LEMMA Reached ==
  ASSUME TypeOK, NEW p \in Process, NEW d \in Digest, NEW ph \in Phases,
         Publishing(p), Reach(p, d, ph)
  PROVE  /\ p \in Holders(d)' <=> ph \in {"found", "done"}
         /\ op'[p].phase[d] = ph
         /\ \A q \in Process, e \in Digest : q # p \/ e # d =>
              /\ q \in Holders(e)' <=> q \in Holders(e)
              /\ q \in Holders(e) => op'[q].phase[e] = op[q].phase[e]
         /\ \A q \in Process : /\ op'[q].kind = "prune" => op[q].kind = "prune"
                               /\ op[q].kind = "prune" => op'[q] = op[q] /\ q # p
<1>1. /\ op'[p].kind = "publish" /\ op[p] \in Publications
      /\ \A q \in Process \ {p} : op'[q] = op[q]
  BY Reaching
<1>2. /\ op'[p].phase[d] = ph
      /\ \A e \in Digest \ {d} : op'[p].phase[e] = op[p].phase[e]
  <2>1. op'[p] = [op[p] EXCEPT !.phase = [op[p].phase EXCEPT ![d] = ph]]
    BY DEF Reach, TypeOK
  <2>2. op'[p].phase = [op[p].phase EXCEPT ![d] = ph]
    BY <1>1, <2>1 DEF Publications
  <2> QED
    BY <1>1, <2>2 DEF Publications
<1>3. \A e \in Digest : p \in Holders(e)' <=> op'[p].phase[e] \in {"found", "done"}
  BY <1>1 DEF Holders, Publishing
<1>4. \A e \in Digest : p \in Holders(e) <=> op[p].phase[e] \in {"found", "done"}
  BY DEF Holders, Publishing
<1>5. \A q \in Process \ {p} : \A e \in Digest : q \in Holders(e)' <=> q \in Holders(e)
  BY <1>1 DEF Holders, Publishing
<1> QED
  BY <1>1, <1>2, <1>3, <1>4, <1>5 DEF Publishing

(* A step of p after which it holds no more than before and is not about to   *)
(* read or remove anything, and which adds no manifest.                      *)
LEMMA SoundIdles ==
  ASSUME TypeOK, Sound, NEW p \in Process,
         \A q \in Process \ {p} : op'[q] = op[q] /\ risk'[q] = risk[q],
         UNCHANGED <<blobs, clock, stake, unsure>>,
         \A s \in Named' : s \in Named /\ manifests'[s] = manifests[s],
         \A d \in Digest : p \in Holders(d)' => /\ p \in Holders(d) /\ risk'[p] = risk[p]
                                                /\ op'[p].phase[d] = op[p].phase[d],
         ~Pruning(p, {"read", "remove"})'
  PROVE  Sound'
<1>1. \A d \in Digest, q \in Process :
        q \in Holders(d)' => /\ q \in Holders(d) /\ risk'[q] = risk[q]
                             /\ op'[q].phase[d] = op[q].phase[d]
  BY DEF Holders, Publishing
<1>2. \A q \in Process : Pruning(q, {"read"})' => q # p /\ Pruning(q, {"read"})
  BY DEF Pruning
<1>3. \A q \in Process : Pruning(q, {"remove"})' => q # p /\ Pruning(q, {"remove"})
  BY DEF Pruning
<1>4. \A d : (Good(d)' <=> Good(d)) /\ (Recent(d)' <=> Recent(d))
  BY DEF Good, Recent
<1>5. Held'
  BY <1>1, <1>4 DEF Sound, Held
<1>6. Reading'
  BY <1>2, <1>4 DEF Sound, Reading, Recent
<1>7. Chosen'
  <2> SUFFICES ASSUME NEW q \in Process, Pruning(q, {"remove"})'
               PROVE  (/\ op[q].unread = {} /\ op[q].victims \intersect op[q].refs = {}
                       /\ \A d \in op[q].victims :
                            /\ \A h \in Holders(d) : d \in risk[h] \union unsure \/ ~Recent(d)
                            /\ \A s \in Named : d \in manifests[s].blobs =>
                                 d \in stake[s] \union unsure \/ op[q].late)'
    BY DEF Chosen
  <2>1. q # p /\ Pruning(q, {"remove"}) /\ op'[q] = op[q]
    BY <1>3
  <2>2. op[q].victims \subseteq Digest
    BY <2>1, Shapes DEF Pruning, Prunes
  <2>3. op[q].unread = {} /\ op[q].victims \intersect op[q].refs = {}
    BY <2>1 DEF Sound, Chosen
  <2>4. ASSUME NEW d \in op[q].victims, NEW h \in Holders(d)'
        PROVE  d \in risk'[h] \union unsure \/ ~Recent(d)
    <3>1. h \in Process
      BY <2>2 DEF Holders
    <3>2. h \in Holders(d) /\ risk'[h] = risk[h]
      BY <1>1, <2>2, <3>1
    <3> QED
      BY <2>1, <3>1, <3>2 DEF Sound, Chosen
  <2>5. ASSUME NEW d \in op[q].victims, NEW s \in Named', d \in manifests'[s].blobs
        PROVE  d \in stake[s] \union unsure \/ op[q].late
    BY <2>1, <2>5 DEF Sound, Chosen
  <2> QED
    BY <1>4, <2>1, <2>3, <2>4, <2>5
<1>8. Whole'
  BY <1>4 DEF Sound, Whole
<1> QED
  BY <1>5, <1>6, <1>7, <1>8 DEF Sound

(* What a prune is about to remove, spelled out for a step.                   *)
Warned(q) ==
  /\ op[q].unread = {} /\ op[q].victims \intersect op[q].refs = {}
  /\ \A d \in op[q].victims, h \in Process : h \in Holders(d) => d \in risk[h] \union unsure \/ ~Recent(d)
  /\ \A d \in op[q].victims, s \in Named :
       d \in manifests[s].blobs => d \in stake[s] \union unsure \/ op[q].late

LEMMA ChosenIsWarned ==
  /\ Chosen <=> \A q \in Process : Pruning(q, {"remove"}) => Warned(q)
  /\ Chosen' <=> \A q \in Process : Pruning(q, {"remove"})' => Warned(q)'
<1>1. \A d : (\A h \in Holders(d) : h \in Process) /\ \A h \in Holders(d)' : h \in Process
  BY DEF Holders
<1>2. Chosen <=> \A q \in Process : Pruning(q, {"remove"}) => Warned(q)
  BY <1>1 DEF Chosen, Warned
<1>3. Chosen' <=> \A q \in Process : Pruning(q, {"remove"})' => Warned(q)'
  BY <1>1 DEF Chosen, Warned
<1> QED
  BY <1>2, <1>3

LEMMA VictimsAreDigests ==
  ASSUME TypeOK, NEW q \in Process, op[q].kind = "prune"
  PROVE  op[q].victims \subseteq Digest /\ op[q].refs \subseteq Digest /\ op[q].unread \subseteq Scope
BY Shapes DEF Prunes

(* An artifact of p reaches a phase, and its blob may have been written.     *)
LEMMA SoundReached ==
  ASSUME TypeOK, Sound, NEW p \in Process, NEW d \in Digest, NEW ph \in Phases,
         Publishing(p), Reach(p, d, ph),
         UNCHANGED <<manifests, clock, stake, unsure>>,
         \A e : e # d => blobs'[e] = blobs[e],
         blobs'[d] = blobs[d] \/ (Good(d)' /\ Recent(d)' /\ ~Good(d)),
         \A q \in Process : risk[q] \subseteq risk'[q],
         ph = "found" => /\ d \in risk'[p] \/ ~Menaced(d, p)
                         /\ Good(d)' \/ d \in unsure,
         ph = "done" => p \in Holders(d)
  PROVE  Sound'
<1>1. /\ p \in Holders(d)' <=> ph \in {"found", "done"}
      /\ op'[p].phase[d] = ph
      /\ \A q \in Process, e \in Digest : q # p \/ e # d =>
           /\ q \in Holders(e)' <=> q \in Holders(e)
           /\ q \in Holders(e) => op'[q].phase[e] = op[q].phase[e]
      /\ \A q \in Process : /\ op'[q].kind = "prune" => op[q].kind = "prune"
                            /\ op[q].kind = "prune" => op'[q] = op[q] /\ q # p
  BY Reached
<1>2. \A e : e # d => (Good(e)' <=> Good(e)) /\ (Recent(e)' <=> Recent(e))
  BY DEF Good, Recent
<1>3. Good(d) => Good(d)'
  BY DEF Good
<1>4. \A q \in Process, stages \in SUBSET Stages : Pruning(q, stages)' => Pruning(q, stages) /\ op'[q] = op[q] /\ q # p
  BY <1>1 DEF Pruning
<1>5. Held'
  <2> SUFFICES ASSUME NEW q \in Process, NEW e \in Digest, q \in Holders(e)'
               PROVE  /\ e \notin risk'[q] \union unsure => Good(e)'
                      /\ op'[q].phase[e] = "found" /\ e \notin unsure => blobs'[e] = None \/ Good(e)'
    BY DEF Held
  <2>1. CASE q = p /\ e = d /\ ph = "found"
    BY <2>1
  <2>2. CASE q = p /\ e = d /\ ph = "done"
    <3>1. e \notin risk[q] \union unsure => Good(e)
      BY <2>2 DEF Sound, Held
    <3> QED
      BY <1>1, <1>3, <2>2, <3>1
  <2>3. CASE q # p \/ e # d
    <3>1. q \in Holders(e) /\ op'[q].phase[e] = op[q].phase[e]
      BY <1>1, <2>3
    <3>2. /\ e \notin risk[q] \union unsure => Good(e)
          /\ op[q].phase[e] = "found" /\ e \notin unsure => blobs[e] = None \/ Good(e)
      BY <3>1 DEF Sound, Held
    <3> QED
      BY <1>2, <1>3, <3>1, <3>2
  <2> QED
    BY <1>1, <2>1, <2>2, <2>3
<1>6. Chosen'
  <2> SUFFICES ASSUME NEW q \in Process, Pruning(q, {"remove"})' PROVE Warned(q)'
    BY ChosenIsWarned
  <2>1. Pruning(q, {"remove"}) /\ op'[q] = op[q] /\ q # p
    BY <1>4 DEF Stages
  <2>2. Warned(q)
    BY <2>1, ChosenIsWarned DEF Sound
  <2>3. op[q].victims \subseteq Digest
    BY <2>1, VictimsAreDigests DEF Pruning
  <2>4. ASSUME NEW e \in op[q].victims, NEW h \in Process, h \in Holders(e)'
        PROVE  e \in risk'[h] \union unsure \/ ~Recent(e)'
    <3>1. CASE h = p /\ e = d /\ p \notin Holders(d)
      BY <1>1, <2>1, <2>4, <3>1 DEF Menaced
    <3>2. CASE h \in Holders(e) /\ blobs'[e] = blobs[e]
      BY <2>2, <2>4, <3>2 DEF Warned, Recent
    <3>3. CASE h \in Holders(e) /\ blobs'[e] # blobs[e]
      BY <2>3, <3>3 DEF Sound, Held
    <3> QED
      BY <1>1, <2>3, <2>4, <3>1, <3>2, <3>3
  <2> QED
    BY <2>1, <2>2, <2>4 DEF Warned, Named
<1>7. Reading'
  <2> SUFFICES ASSUME NEW q \in Process, Pruning(q, {"read"})',
                      NEW s \in Named', NEW e \in manifests'[s].blobs
               PROVE  (\/ s \in op[q].unread \/ e \in op[q].refs
                       \/ e \in stake[s] \union unsure \/ op[q].late
                       \/ blobs[e] # None /\ Recent(e))'
    BY DEF Reading
  <2>1. Pruning(q, {"read"}) /\ op'[q] = op[q]
    BY <1>4 DEF Stages
  <2>2. \/ s \in op[q].unread \/ e \in op[q].refs
        \/ e \in stake[s] \union unsure \/ op[q].late
        \/ blobs[e] # None /\ Recent(e)
    BY <2>1 DEF Sound, Reading, Named
  <2>3. blobs[e] # None /\ Recent(e) => blobs'[e] # None /\ Recent(e)'
    BY DEF Recent, Good
  <2> QED
    BY <2>1, <2>2, <2>3
<1>8. Whole'
  BY <1>2, <1>3 DEF Sound, Whole, Named
<1> QED
  BY <1>5, <1>6, <1>7, <1>8 DEF Sound

LEMMA SoundOfInstallation ==
  ASSUME TypeOK, Trusted, Sound, NEW p \in Process, Installation(p)
  PROVE  Sound'
<1>1. ASSUME NEW d \in Digest, Risked(p, d)
      PROVE  /\ \A q \in Process : risk[q] \subseteq risk'[q]
             /\ d \in risk'[p] \/ ~Menaced(d, p)
  BY <1>1 DEF Risked, TypeOK
<1>2. ASSUME NEW d \in Digest, Inspect(p, d) PROVE Sound'
  <2>1. CASE d \in trusted[p] \/ Good(d)
    <3>1. Publishing(p) /\ Reach(p, d, "found") /\ Risked(p, d) /\ "found" \in Phases
      BY <1>2, <2>1 DEF Inspect, Phases
    <3>2. UNCHANGED <<manifests, blobs, clock, stake, unsure>>
      BY <1>2 DEF Inspect
    <3>3. Good(d)' \/ d \in unsure
      BY <2>1, <3>2 DEF Trusted, Good
    <3> QED
      BY <1>1, <3>1, <3>2, <3>3, SoundReached
  <2>2. CASE ~(d \in trusted[p] \/ Good(d))
    <3>1. Publishing(p) /\ Reach(p, d, "absent") /\ "absent" \in Phases
      BY <1>2, <2>2 DEF Inspect, Phases
    <3>2. UNCHANGED <<manifests, blobs, clock, stake, unsure, risk>>
      BY <1>2, <2>2 DEF Inspect
    <3> QED
      BY <3>1, <3>2, SoundReached
  <2> QED
    BY <2>1, <2>2
<1>3. ASSUME NEW d \in Digest, Install(p, d) PROVE Sound'
  <2>1. Publishing(p) /\ Reach(p, d, "found") /\ Risked(p, d) /\ "found" \in Phases
    BY <1>3 DEF Install, Phases
  <2>2. UNCHANGED <<manifests, clock, stake, unsure>>
    BY <1>3 DEF Install
  <2>3. /\ \A e : e # d => blobs'[e] = blobs[e]
        /\ Good(d)'
        /\ blobs'[d] = blobs[d] \/ (Good(d)' /\ Recent(d)' /\ ~Good(d))
    <3>1. CASE Good(d)
      BY <1>3, <3>1 DEF Install, Good
    <3>2. CASE ~Good(d)
      <4>1. blobs' = [blobs EXCEPT ![d] = [good |-> TRUE, at |-> clock]]
        BY <1>3, <3>2 DEF Install
      <4>2. blobs'[d] = [good |-> TRUE, at |-> clock] /\ \A e : e # d => blobs'[e] = blobs[e]
        BY <4>1 DEF TypeOK
      <4>3. blobs'[d] # None
        BY <4>2, GoodBlob DEF TypeOK
      <4> QED
        BY <2>2, <3>2, <4>2, <4>3 DEF Good, Recent
    <3> QED
      BY <3>1, <3>2
  <2> QED
    BY <1>1, <2>1, <2>2, <2>3, SoundReached
<1>4. ASSUME NEW d \in Digest, Note(p, d) PROVE Sound'
  <2>1. CASE blobs[d] # None
    <3>1. Publishing(p) /\ Reach(p, d, "done") /\ "done" \in Phases /\ p \in Holders(d)
      BY <1>4, <2>1 DEF Note, Phases, Holders
    <3>2. UNCHANGED <<manifests, blobs, clock, stake, unsure, risk>>
      BY <1>4 DEF Note, history
    <3> QED
      BY <3>1, <3>2, SoundReached
  <2>2. CASE blobs[d] = None
    <3>1. op' = [op EXCEPT ![p] = [op[p] EXCEPT !.phase = [op[p].phase EXCEPT ![d] = "lost"],
                                               !.failed = TRUE]]
      BY <1>4, <2>2 DEF Note
    <3>2. op[p] \in Publications
      BY <1>4, Shapes DEF Note, Publishing
    <3>3. [op[p].phase EXCEPT ![d] = "lost"] \in [Digest -> Phases]
      BY <3>2 DEF Publications, Phases
    <3>4. /\ op'[p].kind = "publish" /\ op'[p].phase = [op[p].phase EXCEPT ![d] = "lost"]
          /\ \A q \in Process \ {p} : op'[q] = op[q]
      BY <3>1, <3>2, <3>3 DEF TypeOK, Publications
    <3>5. \A e \in Digest : p \in Holders(e)' => p \in Holders(e) /\ op'[p].phase[e] = op[p].phase[e]
      BY <1>4, <3>2, <3>4 DEF Holders, Publishing, Note, Publications
    <3> QED
      BY <1>4, <3>4, <3>5, SoundIdles DEF Note, history, Pruning, Named
  <2> QED
    BY <2>1, <2>2
<1> QED
  BY <1>2, <1>3, <1>4 DEF Installation

(* The new manifest names what the publication holds, and what a prune of     *)
(* another process has overlooked or chosen is in its stake.                 *)
LEMMA SoundOfRename ==
  ASSUME TypeOK, Sound, NEW p \in Process, Rename(p)
  PROVE  Sound'
<1> DEFINE own == op[p].scope
           mine == op[p].blobs
<1>1. op[p] \in Publications /\ own \in Scope /\ mine \in SUBSET Digest /\ Publishing(p)
  BY Shapes DEF Rename, Publishing, Publications
<1>2. \A d \in mine : p \in Holders(d)
  BY DEF Rename, Installed, Holders
<1>3. /\ manifests'[own].blobs = mine
      /\ \A s \in Scope \ {own} : manifests'[s] = manifests[s]
  BY <1>1 DEF Rename, TypeOK
<1>4. /\ stake'[own] = risk[p] \union {d \in mine : Overlooked(d, p)}
      /\ \A s \in Scope \ {own} : stake'[s] = stake[s]
  BY <1>1 DEF Rename, TypeOK
<1>5. UNCHANGED <<blobs, clock, risk, unsure>>
  BY DEF Rename
<1>6. op'[p] \in Prunes /\ op'[p].stage = "scopes" /\ \A q \in Process \ {p} : op'[q] = op[q]
  BY <1>1, Pruned DEF Rename
<1>7. \A d, q : q \in Holders(d)' => q \in Holders(d) /\ q \in Process /\ op'[q] = op[q]
  BY <1>6 DEF Holders, Publishing, Prunes
<1>8. \A q \in Process, stages \in {{"read"}, {"remove"}} :
        Pruning(q, stages)' => q # p /\ Pruning(q, stages) /\ op'[q] = op[q]
  BY <1>6 DEF Pruning
<1>9. \A d : (Good(d)' <=> Good(d)) /\ (Recent(d)' <=> Recent(d))
  BY <1>5 DEF Good, Recent
<1>10. Held'
  BY <1>5, <1>7, <1>9 DEF Sound, Held
<1>11. Reading'
  <2> SUFFICES ASSUME NEW q \in Process, Pruning(q, {"read"})',
                      NEW s \in Named', NEW d \in manifests'[s].blobs
               PROVE  (\/ s \in op[q].unread \/ d \in op[q].refs
                       \/ d \in stake[s] \union unsure \/ op[q].late
                       \/ blobs[d] # None /\ Recent(d))'
    BY DEF Reading
  <2>1. q # p /\ Pruning(q, {"read"}) /\ op'[q] = op[q]
    BY <1>8
  <2>2. CASE s = own
    <3>1. d \in mine
      BY <1>3, <2>2
    <3>2. CASE Overlooked(d, p)
      BY <1>4, <2>2, <3>1, <3>2
    <3>3. CASE ~Overlooked(d, p)
      <4>1. \/ blobs[d] # None /\ Recent(d)
            \/ own \in op[q].unread \/ d \in op[q].refs
        BY <2>1, <3>3 DEF Overlooked, Pruning
      <4> QED
        BY <1>5, <1>9, <2>1, <2>2, <4>1
    <3> QED
      BY <3>2, <3>3
  <2>3. CASE s # own
    <3>1. s \in Named /\ manifests'[s] = manifests[s] /\ stake'[s] = stake[s]
      BY <1>3, <1>4, <2>3 DEF Named
    <3>2. \/ s \in op[q].unread \/ d \in op[q].refs
          \/ d \in stake[s] \union unsure \/ op[q].late
          \/ blobs[d] # None /\ Recent(d)
      BY <2>1, <3>1 DEF Sound, Reading
    <3> QED
      BY <1>5, <1>9, <2>1, <3>1, <3>2
  <2> QED
    BY <2>2, <2>3
<1>12. Chosen'
  <2> SUFFICES ASSUME NEW q \in Process, Pruning(q, {"remove"})' PROVE Warned(q)'
    BY ChosenIsWarned
  <2>1. q # p /\ Pruning(q, {"remove"}) /\ op'[q] = op[q]
    BY <1>8
  <2>2. Warned(q)
    BY <2>1, ChosenIsWarned DEF Sound
  <2>3. ASSUME NEW d \in op[q].victims, NEW s \in Named', d \in manifests'[s].blobs
        PROVE  d \in stake'[s] \union unsure \/ op[q].late
    <3>1. CASE s = own
      <4>1. d \in mine /\ p \in Holders(d)
        BY <1>2, <1>3, <2>3, <3>1
      <4>2. d \in risk[p] \union unsure \/ ~Recent(d)
        BY <2>2, <4>1 DEF Warned
      <4>3. ~Recent(d) => Overlooked(d, p)
        BY <2>1, <2>2 DEF Overlooked, Warned, Pruning
      <4> QED
        BY <1>4, <3>1, <4>1, <4>2, <4>3
    <3>2. CASE s # own
      <4>1. s \in Named /\ manifests'[s] = manifests[s] /\ stake'[s] = stake[s]
        BY <1>3, <1>4, <3>2 DEF Named
      <4> QED
        BY <2>2, <2>3, <4>1 DEF Warned
    <3> QED
      BY <3>1, <3>2
  <2>4. ASSUME NEW d \in op[q].victims, NEW h \in Process, h \in Holders(d)'
        PROVE  d \in risk[h] \union unsure \/ ~Recent(d)
    BY <1>7, <2>2, <2>4 DEF Warned
  <2> QED
    BY <1>5, <1>9, <2>1, <2>2, <2>3, <2>4 DEF Warned
<1>13. Whole'
  <2> SUFFICES ASSUME NEW s \in Named', NEW d \in manifests'[s].blobs,
                      d \notin stake'[s], d \notin unsure'
               PROVE  Good(d)
    BY <1>9 DEF Whole
  <2>1. CASE s = own
    <3>1. d \in mine /\ p \in Holders(d) /\ d \notin risk[p] \union unsure
      BY <1>2, <1>3, <1>4, <1>5, <2>1
    <3> QED
      BY <1>1, <3>1 DEF Sound, Held
  <2>2. CASE s # own
    <3>1. s \in Named /\ manifests'[s] = manifests[s] /\ stake'[s] = stake[s]
      BY <1>3, <1>4, <2>2 DEF Named
    <3> QED
      BY <1>5, <3>1 DEF Sound, Whole
  <2> QED
    BY <2>1, <2>2
<1> QED
  BY <1>10, <1>11, <1>12, <1>13 DEF Sound

(* A prune of p goes on, and neither the directory nor history changes: what  *)
(* has to be shown is what it now reads or removes.                           *)
LEMMA SoundGoesOn ==
  ASSUME TypeOK, Sound, NEW p \in Process, op[p].kind = "prune", op'[p].kind = "prune",
         \A q \in Process \ {p} : op'[q] = op[q],
         UNCHANGED <<manifests, blobs, clock, risk, stake, unsure>>,
         Pruning(p, {"remove"})' => Warned(p)',
         Pruning(p, {"read"})' =>
           \A s \in Named : \A d \in manifests[s].blobs :
             \/ s \in op'[p].unread \/ d \in op'[p].refs
             \/ d \in stake[s] \union unsure \/ op'[p].late
             \/ blobs[d] # None /\ Recent(d)
  PROVE  Sound'
<1>1. \A d, q : q \in Holders(d)' => q \in Holders(d) /\ q \in Process /\ op'[q] = op[q]
  BY DEF Holders, Publishing
<1>2. \A d : (Good(d)' <=> Good(d)) /\ (Recent(d)' <=> Recent(d))
  BY DEF Good, Recent
<1>3. Named' = Named
  BY DEF Named
<1>4. Held'
  BY <1>1, <1>2 DEF Sound, Held
<1>5. Reading'
  <2> SUFFICES ASSUME NEW q \in Process, Pruning(q, {"read"})', q # p
               PROVE  (\A s \in Named : \A d \in manifests[s].blobs :
                         \/ s \in op[q].unread \/ d \in op[q].refs
                         \/ d \in stake[s] \union unsure \/ op[q].late
                         \/ blobs[d] # None /\ Recent(d))'
    BY <1>2, <1>3 DEF Reading
  <2>1. Pruning(q, {"read"}) /\ op'[q] = op[q]
    BY DEF Pruning
  <2> QED
    BY <1>2, <1>3, <2>1 DEF Sound, Reading
<1>6. Chosen'
  <2> SUFFICES ASSUME NEW q \in Process, Pruning(q, {"remove"})', q # p PROVE Warned(q)'
    BY ChosenIsWarned
  <2>1. Pruning(q, {"remove"}) /\ op'[q] = op[q]
    BY DEF Pruning
  <2>2. Warned(q)
    BY <2>1, ChosenIsWarned DEF Sound
  <2> QED
    BY <1>1, <1>2, <1>3, <2>1, <2>2 DEF Warned
<1>7. Whole'
  BY <1>2, <1>3 DEF Sound, Whole
<1> QED
  BY <1>4, <1>5, <1>6, <1>7 DEF Sound

LEMMA SoundOfReading ==
  ASSUME TypeOK, Sound, NEW p \in Process,
         \/ ListManifests(p) \/ ChooseVictims(p) \/ \E s \in Scope : ReadManifest(p, s)
  PROVE  Sound'
<1>1. op[p] \in Prunes /\ op[p].kind = "prune"
  BY Shapes DEF ListManifests, ChooseVictims, ReadManifest, Pruning
<1>2. UNCHANGED <<manifests, blobs, clock, risk, stake, unsure>>
  BY DEF ListManifests, ChooseVictims, ReadManifest, history
<1>3. ASSUME Becomes(p, Idle) PROVE Sound'
  <2>1. op'[p].kind = "idle" /\ \A q \in Process \ {p} : op'[q] = op[q]
    BY <1>3, Stops
  <2> QED
    BY <1>2, <2>1, SoundIdles DEF Named, Holders, Publishing, Pruning
<1>4. CASE ListManifests(p)
  <2>1. Becomes(p, [op[p] EXCEPT !.stage = "read", !.unread = Named])
    BY <1>4 DEF ListManifests, Becomes
  <2>2. op'[p] = [op[p] EXCEPT !.stage = "read", !.unread = Named] /\ \A q \in Process \ {p} : op'[q] = op[q]
    BY <2>1, Others
  <2>3. op'[p].kind = "prune" /\ op'[p].stage = "read" /\ op'[p].unread = Named
    BY <1>1, <2>2 DEF Prunes
  <2> QED
    BY <1>1, <1>2, <2>2, <2>3, SoundGoesOn DEF Pruning
<1>5. ASSUME NEW s \in Scope, ReadManifest(p, s) PROVE Sound'
  <2>1. CASE manifests[s] = None
    BY <1>3, <1>5, <2>1 DEF ReadManifest
  <2>2. CASE manifests[s] # None
    <3>1. /\ op'[p] = [op[p] EXCEPT !.refs = @ \union References(p, s), !.unread = @ \ {s}]
          /\ \A q \in Process \ {p} : op'[q] = op[q]
      BY <1>5, <2>2 DEF ReadManifest, TypeOK
    <3>2. /\ op'[p].kind = "prune" /\ op'[p].stage = op[p].stage /\ op'[p].late = op[p].late
          /\ op'[p].refs = op[p].refs \union manifests[s].blobs
          /\ op'[p].unread = op[p].unread \ {s}
      BY <1>1, <3>1 DEF Prunes, References
    <3>3. Pruning(p, {"read"})
      BY <1>5 DEF ReadManifest
    <3>4. ASSUME NEW t \in Named, NEW d \in manifests[t].blobs
          PROVE  \/ t \in op'[p].unread \/ d \in op'[p].refs
                 \/ d \in stake[t] \union unsure \/ op'[p].late
                 \/ blobs[d] # None /\ Recent(d)
      BY <3>2, <3>3 DEF Sound, Reading
    <3>5. ~Pruning(p, {"remove"})'
      BY <3>2, <3>3 DEF Pruning
    <3> QED
      BY <1>1, <1>2, <3>1, <3>2, <3>4, <3>5, SoundGoesOn
  <2> QED
    BY <2>1, <2>2
<1>6. CASE ChooseVictims(p)
  <2>1. PICK victims \in SUBSET Removable(p) :
          IF victims = {} THEN Becomes(p, Idle)
          ELSE op' = [op EXCEPT ![p].stage = "remove", ![p].victims = victims]
    BY <1>6 DEF ChooseVictims
  <2>2. CASE victims = {}
    BY <1>3, <2>1, <2>2
  <2>3. CASE victims # {}
    <3>1. op'[p] = [op[p] EXCEPT !.stage = "remove", !.victims = victims]
      BY <2>1, <2>3 DEF TypeOK
    <3>2. \A q \in Process \ {p} : op'[q] = op[q]
      BY <2>1, <2>3 DEF TypeOK
    <3>3. /\ op'[p].kind = "prune" /\ op'[p].stage = "remove" /\ op'[p].victims = victims
          /\ op'[p].refs = op[p].refs /\ op'[p].unread = op[p].unread /\ op'[p].late = op[p].late
      BY <1>1, <3>1 DEF Prunes
    <3>4. Pruning(p, {"read"}) /\ op[p].unread = {}
      BY <1>6 DEF ChooseVictims
    <3>5. \A d \in victims : d \notin op[p].refs /\ ~Recent(d)
      BY <2>1 DEF Removable
    <3>6. \A d \in victims, s \in Named :
            d \in manifests[s].blobs => d \in stake[s] \union unsure \/ op[p].late
      BY <3>4, <3>5 DEF Sound, Reading
    <3>7. \A d : ~Recent(d) => ~Recent(d)'
      BY <1>2 DEF Recent
    <3>8. Named' = Named
      BY <1>2 DEF Named
    <3>9. Warned(p)'
      BY <1>2, <3>3, <3>4, <3>5, <3>6, <3>7, <3>8 DEF Warned
    <3>10. ~Pruning(p, {"read"})'
      BY <3>3 DEF Pruning
    <3> QED
      BY <1>1, <1>2, <3>2, <3>3, <3>9, <3>10, SoundGoesOn
  <2> QED
    BY <2>2, <2>3
<1> QED
  BY <1>4, <1>5, <1>6

(* A blob goes: the publications and the manifests that count on it have been *)
(* warned when it was chosen, or are now.                                    *)
LEMMA SoundOfRemoveBlob ==
  ASSUME TypeOK, Sound, NEW p \in Process, NEW d \in Digest, RemoveBlob(p, d)
  PROVE  Sound'
<1>1. op[p] \in Prunes /\ Pruning(p, {"remove"}) /\ d \in op[p].victims
  BY Shapes DEF RemoveBlob, Pruning
<1>2. Warned(p)
  BY <1>1, ChosenIsWarned DEF Sound
<1>3. /\ blobs'[d] = None /\ \A e : e # d => blobs'[e] = blobs[e]
      /\ UNCHANGED <<manifests, clock, unsure>>
  BY DEF RemoveBlob, TypeOK
<1>4. /\ \A s \in Scope : stake[s] \subseteq stake'[s]
      /\ op[p].late => \A s \in Scope : d \in stake'[s]
  BY DEF RemoveBlob, TypeOK
<1>5. /\ \A h \in Process : risk[h] \subseteq risk'[h]
      /\ \A h \in Process : h \in Holders(d) /\ d \in Stored /\ ~Recent(d) => d \in risk'[h]
  BY DEF RemoveBlob
<1>6. \A q \in Process \ {p} : op'[q] = op[q]
  <2>1. Becomes(p, Idle) \/ Becomes(p, [op[p] EXCEPT !.victims = @ \ {d}])
    BY DEF RemoveBlob, Becomes
  <2> QED
    BY <2>1, Others
<1>7. \/ op'[p].kind = "idle"
      \/ /\ op'[p].kind = "prune" /\ op'[p].stage = "remove" /\ op'[p].victims \subseteq op[p].victims
         /\ op'[p].refs = op[p].refs /\ op'[p].unread = op[p].unread /\ op'[p].late = op[p].late
  <2>1. CASE op[p].victims = {d}
    BY <2>1, Stops DEF RemoveBlob
  <2>2. CASE op[p].victims # {d}
    <3>1. op'[p] = [op[p] EXCEPT !.victims = @ \ {d}]
      BY <2>2 DEF RemoveBlob, TypeOK
    <3> QED
      BY <1>1, <3>1 DEF Prunes, Pruning
  <2> QED
    BY <2>1, <2>2
<1>8. \A e, h : h \in Holders(e)' => h \in Holders(e) /\ h \in Process /\ op'[h] = op[h]
  BY <1>6, <1>7 DEF Holders, Publishing
<1>9. \A e : e # d => (Good(e)' <=> Good(e)) /\ (Recent(e)' <=> Recent(e))
  BY <1>3 DEF Good, Recent
<1>10. \A h \in Process : h \in Holders(d) => d \in risk'[h] \union unsure
  <2> SUFFICES ASSUME NEW h \in Process, h \in Holders(d), d \notin unsure, d \notin risk[h]
               PROVE  d \in risk'[h]
    BY <1>5
  <2>1. Good(d)
    BY DEF Sound, Held
  <2>2. ~Recent(d)
    BY <1>1, <1>2 DEF Warned
  <2> QED
    BY <1>5, <2>1, <2>2 DEF Stored, Good
<1>11. \A s \in Named : d \in manifests[s].blobs => d \in stake'[s] \union unsure
  BY <1>1, <1>2, <1>4 DEF Warned, Named
<1>12. Named' = Named /\ Named \subseteq Scope
  BY <1>3 DEF Named
<1>13. Held'
  <2> SUFFICES ASSUME NEW h \in Process, NEW e \in Digest, h \in Holders(e)'
               PROVE  /\ e \notin risk'[h] \union unsure' => Good(e)'
                      /\ op'[h].phase[e] = "found" /\ e \notin unsure' => blobs'[e] = None \/ Good(e)'
    BY DEF Held
  <2>1. CASE e = d
    BY <1>3, <1>8, <1>10, <2>1
  <2>2. CASE e # d
    <3>1. h \in Holders(e) /\ op'[h] = op[h]
      BY <1>8
    <3>2. /\ e \notin risk[h] \union unsure => Good(e)
          /\ op[h].phase[e] = "found" /\ e \notin unsure => blobs[e] = None \/ Good(e)
      BY <3>1 DEF Sound, Held
    <3> QED
      BY <1>3, <1>5, <1>9, <2>2, <3>1, <3>2
  <2> QED
    BY <2>1, <2>2
<1>14. Reading'
  <2> SUFFICES ASSUME NEW q \in Process, Pruning(q, {"read"})',
                      NEW s \in Named, NEW e \in manifests[s].blobs
               PROVE  \/ s \in op'[q].unread \/ e \in op'[q].refs
                      \/ e \in stake'[s] \union unsure \/ op'[q].late
                      \/ blobs'[e] # None /\ Recent(e)'
    BY <1>3, <1>12 DEF Reading
  <2>1. CASE e = d
    BY <1>11, <2>1
  <2>2. CASE e # d
    <3>1. Pruning(q, {"read"}) /\ op'[q] = op[q]
      BY <1>6, <1>7 DEF Pruning
    <3>2. \/ s \in op[q].unread \/ e \in op[q].refs
          \/ e \in stake[s] \union unsure \/ op[q].late
          \/ blobs[e] # None /\ Recent(e)
      BY <3>1 DEF Sound, Reading
    <3> QED
      BY <1>3, <1>4, <1>9, <1>12, <2>2, <3>1, <3>2
  <2> QED
    BY <2>1, <2>2
<1>15. Chosen'
  <2> SUFFICES ASSUME NEW q \in Process, Pruning(q, {"remove"})' PROVE Warned(q)'
    BY ChosenIsWarned
  <2>1. /\ Pruning(q, {"remove"}) /\ op'[q].victims \subseteq op[q].victims
        /\ op'[q].refs = op[q].refs /\ op'[q].unread = op[q].unread /\ op'[q].late = op[q].late
    BY <1>1, <1>6, <1>7 DEF Pruning
  <2>2. Warned(q)
    BY <2>1, ChosenIsWarned DEF Sound
  <2>3. ASSUME NEW e \in op'[q].victims, NEW h \in Process, h \in Holders(e)'
        PROVE  e \in risk'[h] \union unsure \/ ~Recent(e)'
    BY <1>5, <1>8, <1>9, <1>10, <2>1, <2>2, <2>3 DEF Warned
  <2>4. ASSUME NEW e \in op'[q].victims, NEW s \in Named, e \in manifests[s].blobs
        PROVE  e \in stake'[s] \union unsure \/ op'[q].late
    BY <1>4, <1>12, <2>1, <2>2, <2>4 DEF Warned
  <2>5. op'[q].unread = {} /\ op'[q].victims \intersect op'[q].refs = {}
    BY <2>1, <2>2 DEF Warned
  <2> QED
    BY <1>3, <1>12, <2>3, <2>4, <2>5 DEF Warned
<1>16. Whole'
  <2> SUFFICES ASSUME NEW s \in Named, NEW e \in manifests[s].blobs,
                      e \notin stake'[s], e \notin unsure
               PROVE  Good(e)'
    BY <1>3, <1>12 DEF Whole
  <2>1. e # d
    BY <1>11
  <2>2. Good(e)
    BY <1>4, <1>12 DEF Sound, Whole
  <2> QED
    BY <1>9, <2>1, <2>2
<1> QED
  BY <1>13, <1>14, <1>15, <1>16 DEF Sound

(* A minute passes: what was new is old, and a prune that is reading or       *)
(* removing is late.                                                         *)
LEMMA SoundOfTick ==
  ASSUME TypeOK, Times, Sound, Tick
  PROVE  Sound'
<1>1. UNCHANGED <<manifests, blobs, risk, stake, unsure>> /\ clock' = clock + 1 /\ clock \in Nat
  BY DEF Tick, history, TypeOK
<1>2. ASSUME NEW q \in Process, Pruning(q, {"read", "remove"})
      PROVE  /\ op'[q].kind = "prune" /\ op'[q].late /\ op'[q].stage = op[q].stage
             /\ op'[q].victims = op[q].victims /\ op'[q].refs = op[q].refs
             /\ op'[q].unread = op[q].unread
  <2>1. op[q] \in Prunes
    BY <1>2, Shapes DEF Pruning
  <2>2. op'[q] = [op[q] EXCEPT !.late = TRUE]
    BY <1>2 DEF Tick
  <2> QED
    BY <2>1, <2>2 DEF Prunes
<1>3. \A q \in Process : ~Pruning(q, {"read", "remove"}) => op'[q] = op[q]
  BY DEF Tick
<1>4. \A q \in Process : /\ Pruning(q, {"read"})' => Pruning(q, {"read"}) /\ op'[q].late
                         /\ Pruning(q, {"remove"})' => Pruning(q, {"remove"}) /\ op'[q].late
  BY <1>2, <1>3 DEF Pruning
<1>5. \A d, h : h \in Holders(d)' => h \in Holders(d) /\ h \in Process /\ op'[h] = op[h]
  BY <1>2, <1>3 DEF Holders, Publishing
<1>6. \A d : Good(d)' <=> Good(d)
  BY <1>1 DEF Good
<1>7. Named' = Named
  BY <1>1 DEF Named
<1>8. \A d \in Stored : ~Recent(d)'
  <2> SUFFICES ASSUME NEW d \in Stored PROVE ~Recent(d)'
    OBVIOUS
  <2>1. blobs[d].at \in Nat /\ blobs[d].at <= clock
    BY DEF Times, Stored, TypeOK
  <2> QED
    BY <1>1, <2>1 DEF Recent
<1>9. Held'
  BY <1>1, <1>5, <1>6 DEF Sound, Held
<1>10. Reading'
  BY <1>4 DEF Reading
<1>11. Chosen'
  <2> SUFFICES ASSUME NEW q \in Process, Pruning(q, {"remove"})' PROVE Warned(q)'
    BY ChosenIsWarned
  <2>1. Pruning(q, {"remove"}) /\ op'[q].late
    BY <1>4
  <2>2. Warned(q)
    BY <2>1, ChosenIsWarned DEF Sound
  <2>3. op'[q].victims = op[q].victims /\ op'[q].refs = op[q].refs /\ op'[q].unread = op[q].unread
    BY <1>2, <2>1 DEF Pruning
  <2>4. op[q].victims \subseteq Digest
    BY <2>1, VictimsAreDigests DEF Pruning
  <2>5. ASSUME NEW d \in op[q].victims, NEW h \in Process, h \in Holders(d)'
        PROVE  d \in risk[h] \union unsure \/ ~Recent(d)'
    <3>1. CASE d \in Stored
      BY <1>8, <3>1
    <3>2. CASE d \notin Stored
      <4>1. ~Good(d)
        BY <2>4, <3>2 DEF Good, Stored
      <4> QED
        BY <1>5, <2>4, <2>5, <4>1 DEF Sound, Held
    <3> QED
      BY <3>1, <3>2
  <2> QED
    BY <1>1, <2>1, <2>2, <2>3, <2>5 DEF Warned
<1>12. Whole'
  BY <1>1, <1>6, <1>7 DEF Sound, Whole
<1> QED
  BY <1>9, <1>10, <1>11, <1>12 DEF Sound

LEMMA SoundOfDamage ==
  ASSUME TypeOK, Sound, NEW d \in Digest, Damage(d)
  PROVE  Sound'
<1>1. UNCHANGED <<manifests, clock, op>> /\ unsure \subseteq unsure'
  BY DEF Damage
<1>2. \A e : e # d => blobs'[e] = blobs[e]
  BY DEF Damage, TypeOK
<1>3. \A e : e # d => (Good(e)' <=> Good(e)) /\ (Recent(e)' <=> Recent(e))
  BY <1>1, <1>2 DEF Good, Recent
<1>4. /\ \A s \in Scope : stake[s] \subseteq stake'[s] /\ d \in stake'[s]
      /\ \A h \in Process : risk[h] \subseteq risk'[h] /\ (h \in Holders(d) => d \in risk'[h])
      /\ \A h \in Process : h \in Holders(d) /\ op[h].phase[d] = "found" => d \in unsure'
  BY DEF Damage
<1>5. \A e, h : h \in Holders(e)' <=> h \in Holders(e)
  BY <1>1 DEF Holders, Publishing
<1>6. Named' = Named /\ Named \subseteq Scope
  BY <1>1 DEF Named
<1>7. Held'
  <2> SUFFICES ASSUME NEW h \in Process, NEW e \in Digest, h \in Holders(e)
               PROVE  /\ e \notin risk'[h] \union unsure' => Good(e)'
                      /\ op[h].phase[e] = "found" /\ e \notin unsure' => blobs'[e] = None \/ Good(e)'
    BY <1>1, <1>5 DEF Held
  <2>1. CASE e = d
    BY <1>4, <2>1
  <2>2. CASE e # d
    <3>1. /\ e \notin risk[h] \union unsure => Good(e)
          /\ op[h].phase[e] = "found" /\ e \notin unsure => blobs[e] = None \/ Good(e)
      BY DEF Sound, Held
    <3> QED
      BY <1>1, <1>2, <1>3, <1>4, <2>2, <3>1
  <2> QED
    BY <2>1, <2>2
<1>8. Reading'
  <2> SUFFICES ASSUME NEW q \in Process, Pruning(q, {"read"}),
                      NEW s \in Named, NEW e \in manifests[s].blobs
               PROVE  \/ s \in op[q].unread \/ e \in op[q].refs
                      \/ e \in stake'[s] \union unsure' \/ op[q].late
                      \/ blobs'[e] # None /\ Recent(e)'
    BY <1>1, <1>6 DEF Reading, Pruning
  <2>1. \/ s \in op[q].unread \/ e \in op[q].refs
        \/ e \in stake[s] \union unsure \/ op[q].late
        \/ blobs[e] # None /\ Recent(e)
    BY DEF Sound, Reading
  <2> QED
    BY <1>1, <1>2, <1>3, <1>4, <1>6, <2>1
<1>9. Chosen'
  <2> SUFFICES ASSUME NEW q \in Process, Pruning(q, {"remove"})' PROVE Warned(q)'
    BY ChosenIsWarned
  <2>1. Pruning(q, {"remove"})
    BY <1>1 DEF Pruning
  <2>2. Warned(q)
    BY <2>1, ChosenIsWarned DEF Sound
  <2>3. ASSUME NEW e \in op[q].victims, NEW h \in Process, h \in Holders(e)
        PROVE  e \in risk'[h] \union unsure' \/ ~Recent(e)'
    BY <1>1, <1>3, <1>4, <2>2, <2>3 DEF Warned
  <2>4. ASSUME NEW e \in op[q].victims, NEW s \in Named, e \in manifests[s].blobs
        PROVE  e \in stake'[s] \union unsure' \/ op[q].late
    BY <1>1, <1>4, <1>6, <2>2, <2>4 DEF Warned
  <2> QED
    BY <1>1, <1>5, <1>6, <2>2, <2>3, <2>4 DEF Warned
<1>10. Whole'
  <2> SUFFICES ASSUME NEW s \in Named, NEW e \in manifests[s].blobs,
                      e \notin stake'[s], e \notin unsure'
               PROVE  Good(e)'
    BY <1>1, <1>6 DEF Whole
  <2>1. e # d /\ Good(e)
    BY <1>1, <1>4, <1>6 DEF Sound, Whole
  <2> QED
    BY <1>3, <2>1
<1> QED
  BY <1>7, <1>8, <1>9, <1>10 DEF Sound

LEMMA SoundOfPublish ==
  ASSUME TypeOK, Sound, NEW p \in Process, NEW s \in Scope, NEW chosen \in SUBSET Digest,
         Publish(p, s, chosen)
  PROVE  Sound'
<1> DEFINE r == [kind |-> "publish", scope |-> s, blobs |-> chosen, failed |-> FALSE,
                 phase |-> [d \in Digest |-> IF d \in chosen THEN "todo" ELSE "none"]]
<1>1. op'[p] = r /\ \A q \in Process \ {p} : op'[q] = op[q]
  BY Others DEF Publish
<1>2. \A d \in Digest : p \notin Holders(d)'
  BY <1>1 DEF Holders
<1>3. ~Pruning(p, {"read", "remove"})'
  BY <1>1 DEF Pruning
<1>4. \A q \in Process \ {p} : risk'[q] = risk[q]
  BY DEF Publish, TypeOK
<1> QED
  BY <1>1, <1>2, <1>3, <1>4, SoundIdles DEF Publish, Named

LEMMA SoundOfFailure ==
  ASSUME TypeOK, Sound, NEW p \in Process, Failure(p)
  PROVE  Sound'
<1>1. op[p] \in Publications /\ op[p].blobs \in SUBSET Digest
  BY Shapes DEF Failure, FailInstalled, FailInstalling, FailPublication, Publishing, Publications
<1>2. UNCHANGED <<manifests, blobs, clock, risk, stake, unsure>>
  BY DEF Failure, FailInstalled, FailInstalling, FailPublication, history
<1>3. CASE FailInstalling(p)
  <2>1. /\ op'[p] = [op[p] EXCEPT !.failed = TRUE]
        /\ \A q \in Process \ {p} : op'[q] = op[q]
    BY <1>3 DEF FailInstalling, TypeOK
  <2>2. op'[p].kind = "publish" /\ op'[p].phase = op[p].phase
    BY <1>1, <2>1 DEF Publications
  <2>3. \A d \in Digest : p \in Holders(d)' => p \in Holders(d)
    BY <1>3, <2>2 DEF Holders, Publishing, FailInstalling
  <2> QED
    BY <1>2, <2>1, <2>2, <2>3, SoundIdles DEF Pruning, Named
<1>4. CASE FailInstalled(p) \/ FailPublication(p)
  <2>1. op'[p] \in Prunes /\ op'[p].stage = "scopes" /\ \A q \in Process \ {p} : op'[q] = op[q]
    BY <1>1, <1>4, Pruned DEF FailInstalled, FailPublication
  <2> QED
    BY <1>2, <2>1, SoundIdles DEF Prunes, Holders, Publishing, Pruning, Named
<1> QED
  BY <1>3, <1>4 DEF Failure

LEMMA SoundOfScopes ==
  ASSUME TypeOK, Sound, NEW p \in Process,
         ListScopes(p) \/ (\E s \in Scope : UnlinkScope(p, s)) \/ GiveUp(p)
  PROVE  Sound'
<1>1. op[p] \in Prunes
  BY Shapes DEF ListScopes, UnlinkScope, GiveUp, Pruning
<1>2. UNCHANGED <<blobs, clock, risk, stake, unsure>>
  BY DEF ListScopes, UnlinkScope, GiveUp, history
<1>3. \A s \in Named' : s \in Named /\ manifests'[s] = manifests[s]
  BY DEF ListScopes, UnlinkScope, GiveUp, Named, TypeOK
<1>4. CASE ListScopes(p)
  <2>1. op'[p] = [op[p] EXCEPT !.stage = "unlink", !.doomed = Doomed(p)]
    BY <1>4 DEF ListScopes, TypeOK
  <2>2. \A q \in Process \ {p} : op'[q] = op[q]
    BY <1>4 DEF ListScopes, TypeOK
  <2>3. op'[p].kind = "prune" /\ op'[p].stage = "unlink"
    BY <1>1, <2>1 DEF Prunes
  <2> QED
    BY <1>2, <1>3, <2>2, <2>3, SoundIdles DEF Holders, Publishing, Pruning
<1>5. ASSUME NEW s \in Scope, UnlinkScope(p, s) PROVE Sound'
  <2>1. op'[p] = [op[p] EXCEPT !.doomed = @ \ {s}] /\ \A q \in Process \ {p} : op'[q] = op[q]
    BY <1>5 DEF UnlinkScope, TypeOK
  <2>2. op'[p].kind = "prune" /\ op'[p].stage = "unlink"
    BY <1>1, <1>5, <2>1 DEF Prunes, UnlinkScope, Pruning
  <2> QED
    BY <1>2, <1>3, <2>1, <2>2, SoundIdles DEF Holders, Publishing, Pruning
<1>6. CASE GiveUp(p)
  <2>1. op'[p].kind = "idle" /\ \A q \in Process \ {p} : op'[q] = op[q]
    BY <1>6, Stops DEF GiveUp
  <2> QED
    BY <1>2, <1>3, <2>1, SoundIdles DEF Holders, Publishing, Pruning
<1> QED
  BY <1>4, <1>5, <1>6

LEMMA SoundStep == TypeOK /\ Times /\ Trusted /\ Sound /\ [Next]_vars => Sound'
<1> SUFFICES ASSUME TypeOK, Times, Trusted, Sound, [Next]_vars PROVE Sound'
  OBVIOUS
<1>1. ASSUME NEW p \in Process, op'[p].kind \in {"idle", "load"},
             \A q \in Process \ {p} : op'[q] = op[q],
             UNCHANGED <<blobs, clock, risk, stake, unsure>>,
             \A s \in Named' : s \in Named /\ manifests'[s] = manifests[s]
      PROVE  Sound'
  BY <1>1, SoundIdles DEF Holders, Publishing, Pruning
<1>2. ASSUME NEW p \in Process, Pruner(p) PROVE Sound'
  BY <1>2, SoundOfScopes, SoundOfReading, SoundOfRemoveBlob DEF Pruner
<1>3. ASSUME NEW p \in Process, NEW s \in Scope, Load(p, s) PROVE Sound'
  <2>1. PICK wanted : Becomes(p, [kind |-> "load", wanted |-> wanted])
    BY <1>3 DEF Load
  <2>2. op'[p].kind = "load" /\ \A q \in Process \ {p} : op'[q] = op[q]
    BY <2>1, Others
  <2> QED
    BY <1>1, <1>3, <2>2 DEF Load, history, Named
<1>4. ASSUME NEW p \in Process, NEW d \in Digest, LoadBlob(p, d) PROVE Sound'
  <2>1. op[p] \in Loads
    BY <1>4, Shapes DEF LoadBlob
  <2>2. Becomes(p, Idle) \/ Becomes(p, [op[p] EXCEPT !.wanted = @ \ {d}])
    BY <1>4 DEF LoadBlob, Becomes
  <2>3. op'[p].kind \in {"idle", "load"} /\ \A q \in Process \ {p} : op'[q] = op[q]
    BY <2>1, <2>2, Others DEF Loads, Idle
  <2> QED
    BY <1>1, <1>4, <2>3 DEF LoadBlob, history, Named
<1>5. ASSUME NEW p \in Process, NEW s \in Scope, Remove(p, s) PROVE Sound'
  <2>1. \A t \in Named' : t \in Named /\ manifests'[t] = manifests[t]
    BY <1>5 DEF Remove, Named, TypeOK
  <2>2. op'[p].kind = "idle"
    BY <1>5 DEF Remove, Idle
  <2> QED
    BY <1>1, <1>5, <2>1, <2>2 DEF Remove, history
<1>6. ASSUME NEW p \in Process, Restart(p) PROVE Sound'
  <2>1. op'[p].kind = "idle" /\ \A q \in Process \ {p} : op'[q] = op[q]
    BY <1>6, Stops DEF Restart
  <2> QED
    BY <1>1, <1>6, <2>1 DEF Restart, Named
<1>7. CASE UNCHANGED vars
  <2>1. \A d : /\ Good(d)' <=> Good(d)
               /\ Recent(d)' <=> Recent(d)
               /\ Holders(d)' = Holders(d)
    BY <1>7 DEF vars, history, Good, Recent, Holders, Publishing
  <2>2. Named' = Named
    BY <1>7 DEF vars, Named
  <2> QED
    BY <1>7, <2>1, <2>2 DEF vars, history, Sound, Held, Chosen, Reading, Whole, Pruning
<1> QED
  BY <1>2, <1>3, <1>4, <1>5, <1>6, <1>7, SoundOfPublish, SoundOfInstallation, SoundOfRename,
     SoundOfFailure, SoundOfTick, SoundOfDamage DEF Next

(* A published checkpoint can be loaded, with the exceptions that Whole       *)
(* states: for every number of processes, scopes and artifacts, whatever      *)
(* crashed, failed or was damaged, and however publications, loads and prunes *)
(* interleave (store.ts:185-259, 484-532).                                    *)
THEOREM CheckpointsAreWhole == Spec => []Whole
<1>1. Init => IInv
  BY TypesInit, SoundInit DEF IInv
<1>2. IInv /\ [Next]_vars => IInv'
  BY TypesStep, TimesStep, TrustedStep, SoundStep DEF IInv, Sound
<1>3. IInv => Whole
  BY DEF IInv, Sound
<1> QED
  BY <1>1, <1>2, <1>3, PTL DEF Spec
=============================================================================
