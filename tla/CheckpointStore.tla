---------------------------- MODULE CheckpointStore ----------------------------
(***************************************************************************)
(* The workspace checkpoint store: one directory of manifests, one per      *)
(* scope, and of content-addressed blobs, shared without a lock by the      *)
(* stores of several processes (src/workspace/checkpoint/store.ts).         *)
(*                                                                         *)
(* Every publication ends in a prune, whose listing, reading and removing   *)
(* interleave with the publications and loads of the other processes.  A    *)
(* process runs one operation at a time, as its callers' writers do.  A     *)
(* blob is one unit of the byte budget.  Its content is good or damaged:    *)
(* a good blob has the bytes of its digest.  A file is written beside its   *)
(* target and renamed over it at once; that it takes its time of            *)
(* modification just before is left out.                                    *)
(***************************************************************************)
EXTENDS Naturals, FiniteSets

CONSTANTS
  Process, Scope, Digest, None,
  MaxTotal,        \* limits.maxTotalBytes
  MaxScopes,       \* limits.maximumScopes
  MaxPublications, \* bounds on what the environment does
  MaxTicks,
  MaxFaults

ASSUME LimitAssumption ==
  /\ IsFiniteSet(Scope) /\ IsFiniteSet(Digest)
  /\ MaxTotal \in Nat \ {0} /\ MaxScopes \in Nat \ {0}
  /\ {MaxPublications, MaxTicks, MaxFaults} \subseteq Nat
  /\ None \notin [good : BOOLEAN, at : Nat]

VARIABLES
  manifests,    \* [Scope -> [at, blobs] or None], at orders them by age
  blobs,        \* [Digest -> [good, at] or None], at is the clock's
  written,      \* how many manifests have been written
  clock,        \* minutes, the unit of the grace period
  op,           \* what each process is doing
  trusted,      \* digests whose remembered metadata is the file's still
  seen,         \* digests whose metadata a load has read and is the file's still
  behind,       \* history: a prune ended before it had bounded the scopes
  risk, stake,  \* history: digests a publication under way, a scope, may lose
  unsure,       \* history: digests damaged between their check and their note
  bounds

history == <<behind, risk, stake, unsure>>
vars == <<manifests, blobs, written, clock, op, trusted, seen, history, bounds>>

Idle == [kind |-> "idle"]
Publishing(p) == op[p].kind = "publish"
Pruning(p, stages) == op[p].kind = "prune" /\ op[p].stage \in stages

Named == {s \in Scope : manifests[s] # None}
Distinct == \A s, t \in Named : manifests[s].at = manifests[t].at => s = t

(* A directory that earlier processes have left: complete checkpoints, and    *)
(* blobs nothing refers to.                                                  *)
Init ==
  /\ \E left \in SUBSET Digest :
       /\ blobs = [d \in Digest |-> IF d \in left THEN [good |-> TRUE, at |-> 0] ELSE None]
       /\ manifests \in [Scope -> {None} \union
            [at : 1..MaxScopes, blobs : {u \in SUBSET left : Cardinality(u) <= MaxTotal}]]
  /\ Distinct /\ Cardinality(Named) <= MaxScopes
  /\ written = MaxScopes /\ clock = 0
  /\ op = [p \in Process |-> Idle]
  /\ trusted = [p \in Process |-> {}] /\ seen = [p \in Process |-> {}]
  /\ behind = FALSE
  /\ risk = [p \in Process |-> {}] /\ stake = [s \in Scope |-> {}] /\ unsure = {}
  /\ bounds = [publications |-> 0, faults |-> 0]

Stored == {d \in Digest : blobs[d] # None}
Good(d) == blobs[d] # None /\ blobs[d].good
Recent(d) == blobs[d].at = clock

Spend(what, max) == bounds[what] < max /\ bounds' = [bounds EXCEPT ![what] = @ + 1]
Becomes(p, doing) == op' = [op EXCEPT ![p] = doing]

(* A blob that is replaced, damaged or removed has other metadata than any   *)
(* process remembers: sameBlobMetadata compares the inode and its times.     *)
(* A slip: what is remembered is the digest alone.                           *)
Changed_ByDigest(d) == UNCHANGED <<trusted, seen>>
Changed(d) ==
  /\ trusted' = [p \in Process |-> trusted[p] \ {d}]
  /\ seen' = [p \in Process |-> seen[p] \ {d}]
-----------------------------------------------------------------------------
(* History.  Whether another process is about to remove a digest.            *)
Menaced(d, p) == \E q \in Process \ {p} : Pruning(q, {"remove"}) /\ d \in op[q].victims

Holders(d) == {p \in Process : Publishing(p) /\ op[p].phase[d] \in {"found", "done"}}

(* The digest is old when the manifest is renamed, and a prune that has not  *)
(* read this manifest has yet to choose its victims, or has.                 *)
Overlooked(d, p) ==
  /\ blobs[d] = None \/ ~Recent(d)
  /\ \E q \in Process \ {p} : /\ Pruning(q, {"read", "remove"})
                              /\ op[p].scope \notin op[q].unread /\ d \notin op[q].refs
-----------------------------------------------------------------------------
(* publish: the artifacts are installed concurrently, then the manifest.     *)
Publish(p, s, chosen) ==
  /\ op[p] = Idle /\ Cardinality(chosen) <= MaxTotal
  /\ Spend("publications", MaxPublications)
  /\ Becomes(p, [kind |-> "publish", scope |-> s, blobs |-> chosen, failed |-> FALSE,
                 phase |-> [d \in Digest |-> IF d \in chosen THEN "todo" ELSE "none"]])
  /\ risk' = [risk EXCEPT ![p] = {}]
  /\ UNCHANGED <<manifests, blobs, written, clock, trusted, seen, behind, stake, unsure>>

Reach(p, d, phase) == op' = [op EXCEPT ![p].phase[d] = phase]
Risked(p, d) == risk' = [risk EXCEPT ![p] = @ \union (IF Menaced(d, p) THEN {d} ELSE {})]

(* The blob is there with the metadata this store trusts, or with its bytes. *)
Inspect(p, d) ==
  /\ Publishing(p) /\ ~op[p].failed /\ op[p].phase[d] = "todo"
  /\ IF d \in trusted[p] \/ Good(d)
     THEN Reach(p, d, "found") /\ Risked(p, d)
     ELSE Reach(p, d, "absent") /\ UNCHANGED risk
  /\ UNCHANGED <<manifests, blobs, written, clock, trusted, seen, behind, stake, unsure, bounds>>

(* writeDurably and installBlob: a blob that has appeared meanwhile is kept. *)
Install(p, d) ==
  /\ Publishing(p) /\ op[p].phase[d] = "absent"
  /\ IF Good(d) THEN UNCHANGED <<blobs, trusted, seen>>
     ELSE blobs' = [blobs EXCEPT ![d] = [good |-> TRUE, at |-> clock]] /\ Changed(d)
  /\ Reach(p, d, "found") /\ Risked(p, d)
  /\ UNCHANGED <<manifests, written, clock, behind, stake, unsure, bounds>>

(* rememberInstalledBlob: its lstat fails when the blob is gone.             *)
Note(p, d) ==
  /\ Publishing(p) /\ op[p].phase[d] = "found"
  /\ IF blobs[d] = None
     THEN /\ op' = [op EXCEPT ![p].phase[d] = "lost", ![p].failed = TRUE]
          /\ UNCHANGED trusted
     ELSE /\ Reach(p, d, "done")
          /\ trusted' = [trusted EXCEPT ![p] = @ \union {d}]
  /\ UNCHANGED <<manifests, blobs, written, clock, seen, history, bounds>>

Installed(p) == ~op[p].failed /\ \A d \in op[p].blobs : op[p].phase[d] = "done"

(* pruneBestEffort, with the digests this publication has installed.         *)
Prune(p, protected) ==
  Becomes(p, [kind |-> "prune", stage |-> "scopes", scope |-> op[p].scope, refs |-> protected,
              doomed |-> {}, unread |-> {}, victims |-> {}, late |-> FALSE])

Rename(p) ==
  /\ Publishing(p) /\ Installed(p)
  /\ written' = written + 1
  /\ manifests' = [manifests EXCEPT ![op[p].scope] = [at |-> written', blobs |-> op[p].blobs]]
  /\ stake' = [stake EXCEPT ![op[p].scope] =
                 risk[p] \union {d \in op[p].blobs : Overlooked(d, p)}]
  /\ Prune(p, op[p].blobs)
  /\ UNCHANGED <<blobs, clock, trusted, seen, behind, risk, unsure, bounds>>

(* A write fails or the signal aborts; the finally block prunes, protecting  *)
(* the artifacts when all of them were installed.                            *)
FailInstalled(p) ==
  /\ Publishing(p) /\ Installed(p) /\ Spend("faults", MaxFaults)
  /\ Prune(p, op[p].blobs)
  /\ UNCHANGED <<manifests, blobs, written, clock, trusted, seen, history>>

FailInstalling(p) ==
  /\ Publishing(p) /\ ~op[p].failed /\ ~Installed(p) /\ Spend("faults", MaxFaults)
  /\ op' = [op EXCEPT ![p].failed = TRUE]
  /\ UNCHANGED <<manifests, blobs, written, clock, trusted, seen, history>>

(* mapCheckpointWork throws once the installations it has begun have come    *)
(* through or have been aborted themselves.                                  *)
FailPublication(p) ==
  /\ Publishing(p) /\ op[p].failed
  /\ Prune(p, {})
  /\ UNCHANGED <<manifests, blobs, written, clock, trusted, seen, history, bounds>>
-----------------------------------------------------------------------------
(* pruneManifestScopes: the scope just published first, then the newest.     *)
(* A slip: the scope itself is not counted.                                  *)
Doomed_Uncounted(p) ==
  {s \in Named \ {op[p].scope} :
     Cardinality({t \in Named \ {op[p].scope} : manifests[t].at > manifests[s].at}) >= MaxScopes}
Doomed(p) ==
  {s \in Named \ {op[p].scope} :
     Cardinality({t \in Named : t = op[p].scope \/ manifests[t].at > manifests[s].at}) >= MaxScopes}

ListScopes(p) ==
  /\ Pruning(p, {"scopes"})
  /\ op' = [op EXCEPT ![p].stage = "unlink", ![p].doomed = Doomed(p)]
  /\ behind' = FALSE
  /\ UNCHANGED <<manifests, blobs, written, clock, trusted, seen, risk, stake, unsure, bounds>>

UnlinkScope(p, s) ==
  /\ Pruning(p, {"unlink"}) /\ s \in op[p].doomed
  /\ manifests' = [manifests EXCEPT ![s] = None]
  /\ op' = [op EXCEPT ![p].doomed = @ \ {s}]
  /\ UNCHANGED <<blobs, written, clock, trusted, seen, history, bounds>>

(* referencedDigests: the names first, then one manifest after the other.    *)
ListManifests(p) ==
  /\ Pruning(p, {"unlink"}) /\ op[p].doomed = {}
  /\ op' = [op EXCEPT ![p].stage = "read", ![p].unread = Named]
  /\ UNCHANGED <<manifests, blobs, written, clock, trusted, seen, history, bounds>>

(* A slip: the artifacts of the own manifest only are references.            *)
References_Own(p, s) == IF s = op[p].scope THEN manifests[s].blobs ELSE {}
References(p, s) == manifests[s].blobs

ReadManifest(p, s) ==
  /\ Pruning(p, {"read"}) /\ s \in op[p].unread
  /\ IF manifests[s] = None THEN Becomes(p, Idle)
     ELSE op' = [op EXCEPT ![p].refs = @ \union References(p, s), ![p].unread = @ \ {s}]
  /\ UNCHANGED <<manifests, blobs, written, clock, trusted, seen, history, bounds>>

(* The loop over the listed blobs, oldest first, until the rest fits.        *)
Removable_Young(p) == Stored \ op[p].refs
Removable(p) == {d \in Stored \ op[p].refs : ~Recent(d)}
Excess == IF Cardinality(Stored) > MaxTotal THEN Cardinality(Stored) - MaxTotal ELSE 0

ChooseVictims(p) ==
  /\ Pruning(p, {"read"}) /\ op[p].unread = {}
  /\ \E victims \in SUBSET Removable(p) :
       /\ IF Cardinality(Removable(p)) <= Excess THEN victims = Removable(p)
          ELSE /\ Cardinality(victims) = Excess
               /\ \A d \in victims, e \in Removable(p) \ victims : blobs[d].at <= blobs[e].at
       /\ IF victims = {} THEN Becomes(p, Idle)
          ELSE op' = [op EXCEPT ![p].stage = "remove", ![p].victims = victims]
  /\ UNCHANGED <<manifests, blobs, written, clock, trusted, seen, history, bounds>>

(* Whatever the name stands for by now is removed.                           *)
RemoveBlob(p, d) ==
  /\ Pruning(p, {"remove"}) /\ d \in op[p].victims
  /\ blobs' = [blobs EXCEPT ![d] = None] /\ Changed(d)
  /\ IF op[p].victims = {d} THEN Becomes(p, Idle)
     ELSE op' = [op EXCEPT ![p].victims = @ \ {d}]
  /\ stake' = IF op[p].late THEN [s \in Scope |-> stake[s] \union {d}] ELSE stake
  /\ risk' = [q \in Process |->
       risk[q] \union (IF q \in Holders(d) /\ d \in Stored /\ ~Recent(d) THEN {d} ELSE {})]
  /\ UNCHANGED <<manifests, written, clock, behind, unsure, bounds>>

(* Any error ends a prune and is swallowed.                                  *)
GiveUp(p) ==
  /\ op[p].kind = "prune"
  /\ Becomes(p, Idle)
  /\ behind' = (behind \/ op[p].stage \in {"scopes", "unlink"})
  /\ UNCHANGED <<manifests, blobs, written, clock, trusted, seen, risk, stake, unsure, bounds>>
-----------------------------------------------------------------------------
(* load: the manifest, then the requested artifacts, each one hashed.        *)
Load(p, s) ==
  /\ op[p] = Idle /\ manifests[s] # None
  /\ \E wanted \in SUBSET manifests[s].blobs \ {{}} :
       Becomes(p, [kind |-> "load", wanted |-> wanted])
  /\ seen' = [seen EXCEPT ![p] = {}]
  /\ UNCHANGED <<manifests, blobs, written, clock, trusted, history, bounds>>

(* A slip: the size is compared, the bytes are not.                          *)
Admits_Unhashed(d) == blobs[d] # None
Admits(d) == Good(d)

LoadBlob(p, d) ==
  /\ op[p].kind = "load" /\ d \in op[p].wanted
  /\ IF ~Admits(d)
     THEN Becomes(p, Idle) /\ UNCHANGED <<trusted, seen>>
     ELSE /\ seen' = [seen EXCEPT ![p] = @ \union {d}]
          /\ IF op[p].wanted = {d}
             THEN /\ Becomes(p, Idle)
                  /\ trusted' = [trusted EXCEPT ![p] = @ \union seen'[p]]
             ELSE /\ op' = [op EXCEPT ![p].wanted = @ \ {d}]
                  /\ UNCHANGED trusted
  /\ UNCHANGED <<manifests, blobs, written, clock, history, bounds>>

Remove(p, s) ==
  /\ op[p] = Idle /\ manifests[s] # None
  /\ manifests' = [manifests EXCEPT ![s] = None]
  /\ UNCHANGED <<blobs, written, clock, op, trusted, seen, history, bounds>>
-----------------------------------------------------------------------------
(* The environment.  A minute passes: a prune that is reading or removing    *)
(* outlasts the grace period it relies on.                                   *)
Tick ==
  /\ clock < MaxTicks /\ clock' = clock + 1
  /\ op' = [p \in Process |->
       IF Pruning(p, {"read", "remove"}) THEN [op[p] EXCEPT !.late = TRUE] ELSE op[p]]
  /\ UNCHANGED <<manifests, blobs, written, trusted, seen, history, bounds>>

(* Something else writes over a blob in place.                               *)
Damage(d) ==
  /\ Good(d) /\ Spend("faults", MaxFaults)
  /\ blobs' = [blobs EXCEPT ![d] = [good |-> FALSE, at |-> clock]] /\ Changed(d)
  /\ stake' = [s \in Scope |-> stake[s] \union {d}]
  /\ risk' = [p \in Process |-> risk[p] \union (IF p \in Holders(d) THEN {d} ELSE {})]
  /\ unsure' = unsure \union
       (IF \E p \in Holders(d) : op[p].phase[d] = "found" THEN {d} ELSE {})
  /\ UNCHANGED <<manifests, written, clock, op, behind>>

(* The process ends, or disposes of its store, and another one takes over.   *)
Restart(p) ==
  /\ op[p] # Idle \/ trusted[p] # {}
  /\ Spend("faults", MaxFaults)
  /\ Becomes(p, Idle)
  /\ trusted' = [trusted EXCEPT ![p] = {}]
  /\ behind' = (behind \/ Pruning(p, {"scopes", "unlink"}))
  /\ UNCHANGED <<manifests, blobs, written, clock, seen, risk, stake, unsure>>

Installation(p) == \E d \in Digest : Inspect(p, d) \/ Install(p, d) \/ Note(p, d)
Failure(p) == FailInstalled(p) \/ FailInstalling(p) \/ FailPublication(p)
Pruner(p) == \/ ListScopes(p) \/ ListManifests(p) \/ ChooseVictims(p)
             \/ \E s \in Scope : UnlinkScope(p, s) \/ ReadManifest(p, s)
             \/ \E d \in Digest : RemoveBlob(p, d)
             \/ GiveUp(p)

Next ==
  \/ \E p \in Process :
       \/ \E s \in Scope, chosen \in SUBSET Digest : Publish(p, s, chosen)
       \/ Installation(p) \/ Rename(p) \/ Failure(p) \/ Pruner(p)
       \/ \E s \in Scope : Load(p, s) \/ Remove(p, s)
       \/ \E d \in Digest : LoadBlob(p, d)
       \/ Restart(p)
  \/ Tick
  \/ \E d \in Digest : Damage(d)

Spec == Init /\ [][Next]_vars
-----------------------------------------------------------------------------
Phases == {"none", "todo", "absent", "found", "done", "lost"}
Stages == {"scopes", "unlink", "read", "remove"}

Publications == [kind : {"publish"}, scope : Scope, blobs : SUBSET Digest, failed : BOOLEAN,
                 phase : [Digest -> Phases]]
Prunes == [kind : {"prune"}, stage : Stages, scope : Scope, refs : SUBSET Digest,
           doomed : SUBSET Scope, unread : SUBSET Scope, victims : SUBSET Digest,
           late : BOOLEAN]
Loads == [kind : {"load"}, wanted : SUBSET Digest]
Operations == {Idle} \union Publications \union Prunes \union Loads

(* The values the directory and the stores go through; what is remembered of *)
(* a blob is remembered of a blob that is there (store.ts:434-444).          *)
TypeOK ==
  /\ manifests \in [Scope -> [at : Nat, blobs : SUBSET Digest] \union {None}]
  /\ blobs \in [Digest -> [good : BOOLEAN, at : 0..MaxTicks] \union {None}]
  /\ written \in Nat /\ clock \in 0..MaxTicks
  /\ op \in [Process -> Operations]
  /\ trusted \in [Process -> SUBSET Stored] /\ seen \in [Process -> SUBSET Stored]
  /\ behind \in BOOLEAN /\ unsure \subseteq Digest
  /\ risk \in [Process -> SUBSET Digest] /\ stake \in [Scope -> SUBSET Digest]
  /\ bounds \in [publications : 0..MaxPublications, faults : 0..MaxFaults]

(* A published checkpoint can be loaded: every artifact a manifest names is   *)
(* there with its bytes, whatever crashed, was repaired or was trusted        *)
(* unread, and while other processes publish and prune.  Not promised are     *)
(* artifacts damaged since, ones found in place, or installed more than a     *)
(* minute before the manifest, while a prune that has not read it is at work, *)
(* ones a prune had chosen before they came back, and ones removed by a prune *)
(* that lasts for more than a minute (CHECKPOINT-PUBLICATION-IS-ATOMIC).      *)
Whole ==
  \A s \in Named : \A d \in manifests[s].blobs \ (stake[s] \union unsure) : Good(d)

(* Once every prune has been through the scopes, no more of them are kept     *)
(* than the limit says, in whatever order concurrent prunes have listed and   *)
(* removed them, unless the last one ended in an error or with its process    *)
(* (store.ts:534).                                                            *)
ScopesBounded ==
  (\A p \in Process : ~Pruning(p, {"scopes", "unlink"})) /\ ~behind
    => Cardinality(Named) <= MaxScopes
=============================================================================
