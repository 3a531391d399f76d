---------------------------- MODULE PassPipeline ----------------------------
(***************************************************************************)
(* The resident TypeScript pipeline: one private compiler lineage, the      *)
(* portable passes derived from it, and the generations of both published  *)
(* to the store of the caller (src/analysis/typescript/pipeline.ts, with    *)
(* the invalidation and staging of src/analysis/pass/runner.ts).            *)
(*                                                                         *)
(* A source file is a text with one facet per native namespace.  The shard  *)
(* of the source namespace is the whole text, the shard of any other one    *)
(* its facet: a text that changes always changes its source shard, and only *)
(* some of the others.  A portable pass has one output namespace and one    *)
(* capability, both named by the pass; what it derives is the record of     *)
(* what it read, so that two derivations are equal exactly when their       *)
(* inputs were.                                                             *)
(***************************************************************************)
EXTENDS Naturals, FiniteSets, Sequences

CONSTANTS
  Universe,     \* project configurations, each a lineage of its own
  Source,       \* files of the project
  Ns,           \* namespaces of the native facts
  SourceNs,     \* the one that holds the source facts, "typescript.source"
  Text,         \* texts of a file, each a function of the namespaces
  Pass,         \* the planned portable passes
  Order,        \* them in the order of planPasses
  Inputs,       \* [Pass -> SUBSET (Ns \cup Pass)] namespaces a pass declares
  Requires,     \* [Pass -> SUBSET Pass] capabilities it requires
  Selects,      \* [Pass -> SUBSET Ns] what its invalidatesOn selectors match
  Requested,    \* SUBSET Pass, the capabilities the caller asked for
  Mandatory,    \* SUBSET Pass, those whose failure fails the refresh
  None,
  MaxEdits,     \* bound on the changes of the project
  MaxFaults     \* bound on failures and replacements

Files == [Source -> Text \cup {None}]

(* What planPasses guarantees of its order: every planned pass once, after  *)
(* the passes it reads or requires.                                         *)
ASSUME PlanAssumption ==
  /\ SourceNs \in Ns /\ Ns \cap Pass = {}
  /\ Inputs \in [Pass -> SUBSET (Ns \cup Pass)]
  /\ Requires \in [Pass -> SUBSET Pass]
  /\ Selects \in [Pass -> SUBSET Ns]
  /\ Requested \subseteq Pass /\ Mandatory \subseteq Pass
  /\ Order \in Seq(Pass)
  /\ \A p \in Pass : \E i \in 1..Len(Order) : Order[i] = p
  /\ \A i, j \in 1..Len(Order) : Order[i] = Order[j] => i = j
  /\ \A i, j \in 1..Len(Order) :
       Order[j] \in Inputs[Order[i]] \cup Requires[Order[i]] => j < i

ASSUME NoneAssumption ==
  None \notin Universe \cup Text \cup Files \cup [u : Universe, files : Files]

ASSUME BoundAssumption == MaxEdits \in Nat /\ MaxFaults \in Nat

VARIABLES
  project,      \* the files and the configuration as they are
  acked,        \* the generation the analyzer knows to be committed, or None
  pending,      \* its candidate that waits for an acknowledgement, or None
  universe,     \* #universe
  private,      \* #nativeStore: the current native generation of a universe
  shards,       \* #nativeShards
  portable,     \* #portableShards
  dirty,        \* #pendingNamespaces
  owed,         \* #pendingSources
  refresh,      \* the refresh under way: its stage, options and round
  staged,       \* the outputs of the passes as staged by the runner
  ran,          \* the passes it has executed
  public,       \* options.store: the current generation of a universe, or None
  told,         \* ghost: the native generation last published, or None since
                \* the pipeline was created or entered another universe
  edits, faults

analyzer == <<acked, pending>>
resident == <<universe, private, shards, portable, dirty, owed>>
runner == <<staged, ran>>
vars == <<project, analyzer, resident, refresh, runner, public, told,
          edits, faults>>

NoFiles == [s \in Source |-> None]
NoOutput == [kind |-> "none"]
Unavailable == [kind |-> "unavailable"]
Ran(read) == [kind |-> "ran", read |-> read]
NoOutputs == [p \in Pass |-> NoOutput]
Idle == [stage |-> "idle", force |-> FALSE, discover |-> FALSE,
         round |-> 0, at |-> 1]

Init ==
  /\ project \in [u : Universe, files : {f \in Files : \A s \in Source : f[s] # None}]
  /\ acked = None /\ pending = None
  /\ universe = None
  /\ private = [u \in Universe |-> None]
  /\ shards = [u \in Universe |-> NoFiles]
  /\ portable = NoOutputs
  /\ dirty = {} /\ owed = {}
  /\ refresh = Idle
  /\ staged = NoOutputs /\ ran = {}
  /\ public = [u \in Universe |-> None]
  /\ told = None
  /\ edits = 0 /\ faults = 0

-----------------------------------------------------------------------------
(* Native facts.                                                            *)

Shard(files, s, n) ==
  IF files[s] = None THEN None
  ELSE IF n = SourceNs THEN files[s] ELSE files[s][n]

View(files, n) == [s \in Source |-> Shard(files, s, n)]

(* The keys of the transaction that leads from one generation to another;   *)
(* a whole transaction upserts every shard it has.                          *)
Upserts(old, new, whole) ==
  {k \in Ns \X Source : /\ new[k[2]] # None
                        /\ whole \/ Shard(new, k[2], k[1]) # Shard(old, k[2], k[1])}

Deletes(old, new) ==
  {k \in Ns \X Source : new[k[2]] = None /\ old[k[2]] # None}

(* The session's side of a refresh, as pipeline.ts uses it: the base is the *)
(* current private generation of the universe the pipeline stands in.  A    *)
(* request forces a rebuild, discovers, or asks nothing; hints of changed   *)
(* paths are left out, the analyzer treats them as discovered ones.         *)
Base ==
  IF universe = None THEN None
  ELSE IF private[universe] = None THEN None
       ELSE [u |-> universe, files |-> private[universe]]

Sees == refresh.force \/ refresh.discover \/ Base = None

Answer ==
  IF pending # None
    THEN IF Base = acked /\ ~refresh.force THEN "transaction" ELSE "error"
    ELSE CASE Base # acked -> "error"
           [] Base = acked /\ (~Sees \/ project = acked) -> "unchanged"
           [] OTHER -> "transaction"

Candidate == IF pending # None THEN pending ELSE project

-----------------------------------------------------------------------------
(* The project changes at any time.                                         *)

Edit(s) ==
  /\ edits < MaxEdits
  /\ \E t \in (Text \cup {None}) \ {project.files[s]} :
       project' = [project EXCEPT !.files[s] = t]
  /\ edits' = edits + 1
  /\ UNCHANGED <<analyzer, resident, refresh, runner, public, told, faults>>

Reconfigure ==
  /\ edits < MaxEdits
  /\ \E u \in Universe \ {project.u} : project' = [project EXCEPT !.u = u]
  /\ edits' = edits + 1
  /\ UNCHANGED <<analyzer, resident, refresh, runner, public, told, faults>>

-----------------------------------------------------------------------------
(* One refresh: rounds of refreshOnce, more than one only with discovery.   *)

Begin(force, discover) ==
  /\ refresh.stage = "idle"
  /\ refresh' = [Idle EXCEPT !.stage = "request", !.force = force,
                             !.discover = discover]
  /\ UNCHANGED <<project, analyzer, resident, runner, public, told, edits, faults>>

(* An error of the session, COMMIT_PENDING or BASE_STALE, ends the refresh. *)
Refused ==
  /\ refresh.stage = "request" /\ Answer = "error"
  /\ refresh' = Idle
  /\ UNCHANGED <<project, analyzer, resident, runner, public, told, edits, faults>>

Unchanged ==
  /\ refresh.stage = "request" /\ Answer = "unchanged"
  /\ refresh' = [refresh EXCEPT !.stage = "run", !.at = 1]
  /\ staged' = portable /\ ran' = {}
  /\ UNCHANGED <<project, analyzer, resident, public, told, edits, faults>>

(* The request is aborted: the analyzer has a candidate nobody received.    *)
LoseAnswer ==
  /\ refresh.stage = "request" /\ Answer = "transaction"
  /\ faults < MaxFaults
  /\ pending' = Candidate
  /\ refresh' = Idle
  /\ faults' = faults + 1
  /\ UNCHANGED <<project, acked, resident, runner, public, told, edits>>

(* The shards a transaction is seen to change.  A deletion names a key; what *)
(* it was is looked up in the native shards the pipeline still has.         *)
Touches(known, ups, dels) ==
  ups \cup {k \in dels : known[k[2]] # None}

(* The native shards a universe keeps before the transaction is applied.    *)
Remaining_All(u, rollover) == shards[u]
Remaining(u, rollover) == IF rollover THEN NoFiles ELSE shards[u]

(* materializeNativeTransaction and materializeNativeDelta on the private   *)
(* store, and the accounts of what consumers have not seen.                 *)
Admit ==
  /\ refresh.stage = "request" /\ Answer = "transaction"
  /\ LET c == Candidate
         whole == Base = None \/ c.u # Base.u
         old == IF private[c.u] = None THEN NoFiles ELSE private[c.u]
         ups == Upserts(old, c.files, whole)
         dels == Deletes(old, c.files)
         keys == Touches(shards[c.u], ups, dels)
         rollover == c.u # universe
     IN  /\ pending' = c
         /\ private' = [private EXCEPT ![c.u] = c.files]
         /\ dirty' = dirty \cup {k[1] : k \in keys}
         /\ owed' = owed \cup {<<c.u, k[2]>> : k \in {j \in keys : j[1] = SourceNs}}
         /\ shards' = [u \in Universe |->
              IF u # c.u THEN Remaining(u, rollover)
              ELSE [s \in Source |->
                IF \E n \in Ns : <<n, s>> \in ups THEN c.files[s]
                ELSE IF \E n \in Ns : <<n, s>> \in dels THEN None
                ELSE Remaining(u, rollover)[s]]]
         /\ portable' = IF rollover THEN NoOutputs ELSE portable
         /\ told' = IF rollover THEN None ELSE told
  /\ refresh' = [refresh EXCEPT !.stage = "acknowledge"]
  /\ UNCHANGED <<project, acked, universe, runner, public, edits, faults>>

Acknowledge ==
  /\ refresh.stage = "acknowledge"
  /\ acked' = pending /\ pending' = None
  /\ universe' = pending.u
  /\ refresh' = [refresh EXCEPT !.stage = "run", !.at = 1]
  /\ staged' = portable /\ ran' = {}
  /\ UNCHANGED <<project, private, shards, portable, dirty, owed, public, told,
                 edits, faults>>

(* The acknowledgement fails, before or after the analyzer has it.          *)
AcknowledgeFails ==
  /\ refresh.stage = "acknowledge"
  /\ faults < MaxFaults
  /\ \/ UNCHANGED analyzer
     \/ acked' = pending /\ pending' = None
  /\ refresh' = Idle
  /\ faults' = faults + 1
  /\ UNCHANGED <<project, resident, runner, public, told, edits>>

-----------------------------------------------------------------------------
(* The portable passes, in the order of the plan.  invalidatedPortablePasses *)
(* decides for all of them before the first one runs, from values no pass   *)
(* changes and from the passes it has decided on before: deciding for each  *)
(* when its turn comes is the same.                                         *)

Invalidated_Direct(p) ==
  \/ refresh.force
  \/ portable[p].kind = "none"
  \/ (Inputs[p] \cup Selects[p]) \cap dirty # {}

Invalidated(p) ==
  \/ refresh.force
  \/ portable[p].kind = "none"
  \/ (Inputs[p] \cup Selects[p]) \cap dirty # {}
  \/ Requires[p] \cap ran # {}

Read(p, files, out) ==
  [i \in Inputs[p] |-> IF i \in Ns THEN View(files, i) ELSE out[i]]

Turn(p) == refresh.stage = "run" /\ refresh.at \in 1..Len(Order) /\ p = Order[refresh.at]

NextTurn == refresh' = [refresh EXCEPT !.at = @ + 1]

RunPass(p) ==
  /\ Turn(p) /\ Invalidated(p)
  /\ staged' = [staged EXCEPT ![p] = Ran(Read(p, private[universe], staged))]
  /\ ran' = ran \cup {p}
  /\ NextTurn
  /\ UNCHANGED <<project, analyzer, resident, public, told, edits, faults>>

(* A pass that is not mandatory fails: its outputs are marked unavailable.  *)
OptionalFails(p) ==
  /\ Turn(p) /\ Invalidated(p) /\ p \notin Mandatory
  /\ faults < MaxFaults
  /\ staged' = [staged EXCEPT ![p] = Unavailable]
  /\ ran' = ran \cup {p}
  /\ NextTurn
  /\ faults' = faults + 1
  /\ UNCHANGED <<project, analyzer, resident, public, told, edits>>

Carry(p) ==
  /\ Turn(p) /\ ~Invalidated(p)
  /\ NextTurn
  /\ UNCHANGED <<project, analyzer, resident, runner, public, told, edits, faults>>

(* A mandatory pass, the signal or the commit to the caller's store fails.  *)
Fails_Forgets ==
  /\ refresh.stage = "run"
  /\ faults < MaxFaults
  /\ refresh' = Idle
  /\ dirty' = {} /\ owed' = {}
  /\ faults' = faults + 1
  /\ UNCHANGED <<project, analyzer, universe, private, shards, portable, runner,
                 public, told, edits>>

Fails ==
  /\ refresh.stage = "run"
  /\ faults < MaxFaults
  /\ refresh' = Idle
  /\ faults' = faults + 1
  /\ UNCHANGED <<project, analyzer, resident, runner, public, told, edits>>

-----------------------------------------------------------------------------
(* Publication: one generation of native facts and portable outputs.        *)

(* What a generation claims: the runner names the requested capabilities    *)
(* and those of the passes it ran, carrying alone those of the whole plan.  *)
Capabilities_Ran == IF ran = {} THEN Pass ELSE ran
Capabilities == Requested \cup (IF ran = {} THEN Pass ELSE ran)

Generation ==
  [native |-> private[universe], out |-> staged, capabilities |-> Capabilities]

(* A discovery refresh asks again as long as its round published.           *)
Again_Unbounded == refresh.discover /\ public[universe] # Generation
Again == /\ refresh.discover /\ public[universe] # Generation
         /\ refresh.round < 3

Publish ==
  /\ refresh.stage = "run" /\ refresh.at = Len(Order) + 1
  /\ public' = [public EXCEPT ![universe] = Generation]
  /\ portable' = staged /\ dirty' = {} /\ owed' = {}
  /\ told' = [u |-> universe, files |-> private[universe]]
  /\ refresh' =
       IF Again
       THEN [Idle EXCEPT !.stage = "request", !.discover = TRUE,
                         !.round = refresh.round + 1]
       ELSE Idle
  /\ UNCHANGED <<project, analyzer, universe, private, shards, runner, edits, faults>>

(* The owner disposes of the pipeline and creates another one over the same *)
(* store, with or without the universe it remembers.                        *)
Recreate ==
  /\ refresh.stage = "idle"
  /\ faults < MaxFaults
  /\ acked' = None /\ pending' = None
  /\ universe' \in {None, universe}
  /\ private' = [u \in Universe |-> None]
  /\ shards' = [u \in Universe |-> NoFiles]
  /\ portable' = NoOutputs
  /\ dirty' = {} /\ owed' = {}
  /\ told' = None
  /\ faults' = faults + 1
  /\ UNCHANGED <<project, refresh, runner, public, edits>>

(* What lets selective invalidation find every upstream pass: a pass that    *)
(* reads the outputs of another one also requires its capability.           *)
RequiresItsInputs == \A p \in Pass : Inputs[p] \cap Pass \subseteq Requires[p]

Next ==
  \/ \E s \in Source : Edit(s)
  \/ Reconfigure
  \/ \E force, discover \in BOOLEAN : Begin(force, discover)
  \/ Refused \/ Unchanged \/ LoseAnswer \/ Admit
  \/ Acknowledge \/ AcknowledgeFails
  \/ \E p \in Pass : RunPass(p) \/ OptionalFails(p) \/ Carry(p)
  \/ Fails \/ Publish
  \/ Recreate

Spec == Init /\ [][Next]_vars

-----------------------------------------------------------------------------
(* Properties.                                                              *)

Kinds == {"none", "ran", "unavailable"}

Stages == {"idle", "request", "acknowledge", "run"}

Refreshes == [stage : Stages, force : BOOLEAN, discover : BOOLEAN,
              round : 0..3, at : 1..Len(Order) + 1]

Snapshots == [u : Universe, files : Files] \cup {None}

(* The values the pipeline, its session and its stores go through; a refresh *)
(* with discovery makes at most four rounds (pipeline.ts:87-93).            *)
TypeOK ==
  /\ project \in [u : Universe, files : Files]
  /\ acked \in Snapshots /\ pending \in Snapshots /\ told \in Snapshots
  /\ universe \in Universe \cup {None}
  /\ private \in [Universe -> Files \cup {None}]
  /\ shards \in [Universe -> Files]
  /\ DOMAIN portable = Pass /\ DOMAIN staged = Pass
  /\ \A p \in Pass : portable[p].kind \in Kinds /\ staged[p].kind \in Kinds
  /\ dirty \subseteq Ns /\ owed \subseteq Universe \X Source
  /\ ran \subseteq Pass
  /\ refresh \in Refreshes
  /\ DOMAIN public = Universe
  /\ edits \in 0..MaxEdits /\ faults \in 0..MaxFaults

Derived(p, files, out) ==
  \/ out[p] = Ran(Read(p, files, out))
  \/ p \notin Mandatory /\ out[p] = Unavailable

(* A generation of the caller's store is one a cold build of its native      *)
(* facts could have produced: every portable output in it was derived from   *)
(* the native facts and the outputs of that same generation, or belongs to   *)
(* an optional pass that failed (TYPESCRIPT-INCREMENTAL-EQUIVALENCE).       *)
Coherent ==
  \A u \in Universe : public[u] # None =>
    \A p \in Pass : Derived(p, public[u].native, public[u].out)

(* When the passes run, the native shards held in memory are exactly those   *)
(* of the private generation they are planned against: assertCompleteShards  *)
(* (pipeline.ts:228) never stops a refresh, whatever failed before it.      *)
CompleteShards ==
  refresh.stage = "run" =>
    /\ universe # None /\ private[universe] # None
    /\ shards = [u \in Universe |->
         IF u = universe THEN private[universe] ELSE NoFiles]

Published == refresh.stage = "run" /\ refresh.at = Len(Order) + 1 /\ told' # told

(* Every source that differs between two publications in one stay in a       *)
(* universe is among those the refresh reports, deleted ones included,      *)
(* although the native transactions in between may belong to refreshes that *)
(* failed; the first publication of a stay reports every source there is    *)
(* (TYPESCRIPT-ATOMIC-PUBLICATION).                                         *)
NothingUnreported ==
  [][Published =>
       LET last == IF told = None THEN NoFiles ELSE told.files
       IN  \A s \in Source :
             last[s] # private[universe][s] => <<universe, s>> \in owed]_vars

(* Unchanged inputs retain the generation: a refresh that is not forced,     *)
(* with no native change since the last publication of this pipeline, leaves *)
(* the caller's store alone (TYPESCRIPT-COMPILER-INPUT-DISCOVERY).          *)
QuietRetains ==
  [][(/\ refresh.stage = "run" /\ ~refresh.force /\ dirty = {}
      /\ told = [u |-> universe, files |-> private[universe]])
     => public' = public]_vars
=============================================================================
