----------------------- MODULE ApplicationRefreshProofs -----------------------
(***************************************************************************)
(* For any repository and any number of edits, failures, crashes and other *)
(* processes: the types of ApplicationRefresh, that no published, saved or *)
(* retained snapshot mixes the specifications of two inventories, and what *)
(* a refresh during which nothing was edited returns.                      *)
(*                                                                         *)
(* Coherence alone is not inductive: a refresh publishes the texts of its  *)
(* corpus under the inventory of its own, so the invariant also says that  *)
(* the two agree from the moment the corpus is taken until the refresh     *)
(* ends, whatever fails in between.                                        *)
(***************************************************************************)
EXTENDS ApplicationRefresh, TLAPS

CorpusIsForJob ==
  job.stage \in {"observe", "reading", "qualify"} => corpus.inventory = job.inventory

RefreshInv == TypeOK /\ Coherent /\ CorpusIsForJob

LEMMA IdleIsJob == Idle \in Jobs
  BY DEF Idle, Jobs, Stages, Hints, Shards, NoShards

LEMMA RefreshInvInit == Init => RefreshInv
<1> SUFFICES ASSUME Init PROVE RefreshInv
  OBVIOUS
<1>1. disk \in Inventories
  BY DEF Init, Inventories, Inputs
<1>2. job.stage = "idle"
  BY DEF Init, Idle
<1>3. bounds \in [edits : 0 .. MaxEdits, upsets : 0 .. MaxUpsets]
  BY RefreshAssumption DEF Init
<1> QED
  BY <1>1, <1>2, <1>3, IdleIsJob DEF Init, RefreshInv, TypeOK, Coherent, CorpusIsForJob

LEMMA BeginStep ==
  ASSUME NEW qualify \in BOOLEAN, NEW hints \in Hints, RefreshInv, Begin(qualify, hints)
  PROVE  RefreshInv'
<1> USE DEF RefreshInv, TypeOK
<1>1. CASE Unchanged(qualify, hints)
  BY <1>1 DEF Begin, Coherent, CoherentSnapshot, CorpusIsForJob
<1>2. CASE ~Unchanged(qualify, hints)
  <2> DEFINE stage == IF current = None /\ hints = {} THEN "load" ELSE "compile"
  <2>1. job' = [stage |-> stage, inventory |-> disk, qualify |-> qualify, hints |-> hints,
                previous |-> current, refreshed |-> {}, base |-> None, shards |-> NoShards,
                fresh |-> {}, quiet |-> TRUE]
    BY <1>2 DEF Begin, Idle
  <2>2. job' \in Jobs /\ job'.inventory \in Inventories /\ job'.stage \in {"load", "compile"}
    BY <2>1 DEF Jobs, Stages, Shards, NoShards
  <2> QED
    BY <1>2, <2>2 DEF Begin, Coherent, CoherentSnapshot, CorpusIsForJob
<1> QED
  BY <1>1, <1>2

(* A refresh that ends without a publication, in success or in failure,    *)
(* leaves nothing that a job has to agree with.                            *)
LEMMA IdleStep ==
  ASSUME RefreshInv, job' = Idle, settled' \in BOOLEAN, disk' \in Inventories,
         corpus' \in {corpus, None}, current' \in {current, None},
         pending' \in {pending, None}, UNCHANGED <<store, saved>>,
         bounds' \in [edits : 0 .. MaxEdits, upsets : 0 .. MaxUpsets]
  PROVE  RefreshInv'
<1>1. job'.stage = "idle"
  BY DEF Idle
<1> QED
  BY <1>1, IdleIsJob DEF RefreshInv, TypeOK, Coherent, CoherentSnapshot, CorpusIsForJob

(* What a refresh publishes is coherent if it is of the corpus's texts.    *)
LEMMA PublishStep ==
  ASSUME RefreshInv, NEW snapshot \in Snapshots, NEW owed \in SUBSET Owner,
         CoherentSnapshot(snapshot), Publish(snapshot, owed),
         corpus' = corpus \/ (corpus \in Corpora /\ corpus' = [corpus EXCEPT !.owed = owed]),
         UNCHANGED <<disk, store, saved, bounds>>
  PROVE  RefreshInv'
<1> USE DEF RefreshInv, TypeOK
<1>1. job' = Idle /\ job'.stage = "idle" /\ job' \in Jobs /\ job.quiet \in BOOLEAN
  BY IdleIsJob DEF Publish, Idle, Jobs
<1>2. pending' \in Checkpoints /\ pending'.snapshot = snapshot /\ current' = snapshot
  BY DEF Publish, Checkpoints
<1>3. /\ corpus' \in Corpora \union {None}
      /\ corpus' # None => \A s \in Owner : corpus'.texts[s] = corpus'.inventory[s].text
  <2>1. CASE corpus' = corpus
    BY <2>1 DEF Coherent
  <2>2. CASE corpus \in Corpora /\ corpus' = [corpus EXCEPT !.owed = owed]
    <3>1. \A s \in Owner : corpus.texts[s] = corpus.inventory[s].text
      BY <2>2, NoneAssumption DEF Coherent
    <3>2. corpus' \in Corpora /\ corpus'.texts = corpus.texts /\ corpus'.inventory = corpus.inventory
      BY <2>2 DEF Corpora
    <3> QED
      BY <3>1, <3>2
  <2> QED
    BY <2>1, <2>2
<1> QED
  BY <1>1, <1>2, <1>3 DEF Publish, Coherent, CoherentSnapshot, CorpusIsForJob

LEMMA LoadStep ==
  ASSUME RefreshInv, LoadExact \/ LoadCorpus \/ LoadMiss
  PROVE  RefreshInv'
<1> USE DEF RefreshInv, TypeOK
<1>1. CASE LoadMiss
  <2>1. job' \in Jobs /\ job'.stage = "compile" /\ job'.inventory = job.inventory
    BY <1>1 DEF LoadMiss, Jobs, Stages
  <2> QED
    BY <1>1, <2>1 DEF LoadMiss, Coherent, CoherentSnapshot, CorpusIsForJob
<1>2. ASSUME saved # None
      PROVE  /\ Restored \in Corpora /\ saved.snapshot \in Snapshots
             /\ \A s \in Owner : Restored.texts[s] = Restored.inventory[s].text
  BY <1>2 DEF Restored, Corpora, Checkpoints, Snapshots, Coherent, CoherentSnapshot
<1>3. CASE LoadCorpus
  <2>1. saved # None /\ corpus' = Restored
    BY <1>3 DEF LoadCorpus
  <2>2. job' \in Jobs /\ job'.stage = "compile" /\ job'.inventory = job.inventory
    BY <1>2, <1>3, <2>1 DEF LoadCorpus, Jobs, Stages
  <2> QED
    BY <1>2, <1>3, <2>1, <2>2 DEF LoadCorpus, Coherent, CoherentSnapshot, CorpusIsForJob
<1>4. CASE LoadExact
  <2>1. saved # None
    BY <1>4 DEF LoadExact, Exact
  <2>2. CASE corpus' = Restored /\ Restore(saved.snapshot)
    <3>1. job' \in Jobs /\ job'.stage = "idle" /\ settled' \in BOOLEAN
      BY <2>2, IdleIsJob DEF Restore, Idle, Jobs
    <3>2. current' = saved.snapshot /\ CoherentSnapshot(saved.snapshot)
      BY <2>1, <2>2 DEF Restore, Coherent
    <3> QED
      BY <1>2, <1>4, <2>1, <2>2, <3>1, <3>2
      DEF LoadExact, Restore, Coherent, CoherentSnapshot, CorpusIsForJob
  <2>3. CASE corpus' = None /\ job' = [job EXCEPT !.stage = "compile"]
             /\ UNCHANGED <<current, pending, settled>>
    <3>1. job' \in Jobs /\ job'.stage = "compile" /\ job'.inventory = job.inventory
      BY <2>3 DEF Jobs, Stages
    <3>2. job.stage = "load"
      BY <1>4 DEF LoadExact
    <3> QED
      BY <1>4, <2>3, <3>1, <3>2 DEF LoadExact, Coherent, CoherentSnapshot, CorpusIsForJob
  <2> QED
    BY <1>4, <2>2, <2>3 DEF LoadExact
<1> QED
  BY <1>1, <1>3, <1>4

LEMMA CompileStep ==
  ASSUME RefreshInv, Compile
  PROVE  RefreshInv'
<1> USE DEF RefreshInv, TypeOK
<1>1. CASE ~Admissible(CompiledTexts)
  BY <1>1, IdleStep DEF Compile, Throw
<1>2. CASE Admissible(CompiledTexts)
  <2>1. job.inventory \in Inventories /\ job \in Jobs
    BY DEF Compile
  <2>2. CompiledTexts \in [Owner -> Nat]
    BY DEF CompiledTexts, Corpora, Inventories, Inputs, Compiled
  <2>3. Refreshed \in SUBSET Owner
    <3>1. {h[1] : h \in job.hints} \in SUBSET Owner
      BY <2>1 DEF Jobs, Hints
    <3> QED
      BY <3>1 DEF Refreshed, Changed
  <2>4. corpus' \in Corpora /\ corpus'.inventory = job.inventory /\ corpus'.texts = CompiledTexts
    BY <1>2, <2>1, <2>2, <2>3 DEF Compile, Corpora
  <2>5. job' \in Jobs /\ job'.stage = "observe" /\ job'.inventory = job.inventory
    <3>1. job' = [job EXCEPT !.stage = "observe", !.refreshed = Refreshed]
      BY <1>2 DEF Compile
    <3> QED
      BY <2>1, <2>3, <3>1 DEF Jobs, Stages
  <2>6. \A s \in Owner : corpus'.texts[s] = corpus'.inventory[s].text
    BY <1>2, <2>4 DEF Admissible
  <2> QED
    BY <1>2, <2>1, <2>4, <2>5, <2>6 DEF Compile, Coherent, CoherentSnapshot, CorpusIsForJob
<1> QED
  BY <1>1, <1>2

LEMMA DescribeStep ==
  ASSUME RefreshInv, Describe
  PROVE  RefreshInv'
<1> DEFINE snapshot == [inventory |-> job.inventory, texts |-> corpus.texts, qualify |-> FALSE,
                        generation |-> None, qualified |-> [s \in Owner |-> None]]
<1>1. corpus \in Corpora /\ job.inventory \in Inventories /\ corpus.inventory = job.inventory
  BY DEF RefreshInv, TypeOK, CorpusIsForJob, Describe
<1>2. snapshot \in Snapshots /\ corpus.owed \in SUBSET Owner
  BY <1>1 DEF Snapshots, Corpora
<1>3. \A s \in Owner : corpus.texts[s] = corpus.inventory[s].text
  BY <1>1, NoneAssumption DEF RefreshInv, Coherent
<1>4. CoherentSnapshot(snapshot)
  BY <1>1, <1>3 DEF CoherentSnapshot
<1> QED
  BY <1>2, <1>4, PublishStep DEF Describe

LEMMA ObserveStep ==
  ASSUME RefreshInv, Observe
  PROVE  RefreshInv'
<1> USE DEF RefreshInv, TypeOK
<1>1. /\ job \in Jobs /\ job.stage = "observe" /\ store \in Generations \union {None}
      /\ corpus \in Corpora /\ job.inventory \in Inventories
  BY DEF Observe
<1>2. CASE Reusable(store)
  <2>1. store \in Generations /\ store.shards \in [Owner -> Inputs]
    BY <1>1, <1>2 DEF Reusable, Present, Generations, Shards
  <2>2. job' = [job EXCEPT !.stage = "qualify", !.base = store, !.shards = store.shards]
    BY <1>2 DEF Observe
  <2>3. /\ job' \in Jobs /\ job'.stage = "qualify" /\ job'.inventory = job.inventory
        /\ job'.shards = store.shards
    BY <1>1, <2>1, <2>2 DEF Jobs, Stages, Shards
  <2> QED
    BY <1>1, <2>1, <2>3 DEF Observe, Coherent, CoherentSnapshot, CorpusIsForJob
<1>3. CASE ~Reusable(store)
  <2> DEFINE kept == [s \in Owner |-> IF s \in Retainable(store) THEN store.shards[s] ELSE None]
  <2>1. kept \in Shards
    BY <1>1 DEF Retainable, Present, Generations, Shards
  <2>2. job' = [job EXCEPT !.stage = "reading", !.base = store, !.shards = kept]
    BY <1>3 DEF Observe
  <2>3. job' \in Jobs /\ job'.stage = "reading" /\ job'.inventory = job.inventory
    BY <1>1, <2>1, <2>2 DEF Jobs, Stages
  <2> QED
    BY <1>1, <2>3 DEF Observe, Coherent, CoherentSnapshot, CorpusIsForJob
<1> QED
  BY <1>2, <1>3

LEMMA ReadStep ==
  ASSUME RefreshInv, NEW s \in Owner, Read(s)
  PROVE  RefreshInv'
<1> USE DEF RefreshInv, TypeOK
<1> DEFINE shard == [text |-> corpus.texts[s], evidence |-> disk[s].evidence]
           shards == [job.shards EXCEPT ![s] = shard]
           fresh == job.fresh \union {s}
<1>1. /\ job \in Jobs /\ job.stage = "reading" /\ corpus \in Corpora
      /\ job.inventory \in Inventories
  BY DEF Read
<1>2. shards \in Shards
  BY <1>1 DEF Shards, Jobs, Corpora, Inputs, Inventories
<1>3. fresh \in SUBSET Owner
  BY <1>1 DEF Jobs
<1>4. job' = [job EXCEPT !.shards = shards, !.fresh = fresh]
  BY <1>1 DEF Read, Jobs
<1> HIDE DEF shards, fresh
<1>5. job' \in Jobs /\ job'.stage = "reading" /\ job'.inventory = job.inventory
  BY <1>1, <1>2, <1>3, <1>4 DEF Jobs
<1> QED
  BY <1>1, <1>5 DEF Read, Coherent, CoherentSnapshot, CorpusIsForJob

LEMMA CommitStep ==
  ASSUME RefreshInv, Commit
  PROVE  RefreshInv'
<1> USE DEF RefreshInv, TypeOK
<1>1. /\ job \in Jobs /\ job.stage = "reading" /\ corpus \in Corpora
      /\ job.inventory \in Inventories
  BY DEF Commit
<1>2. CASE store \in {job.base, Candidate}
  <2>1. job.shards \in [Owner -> Inputs]
    BY <1>1 DEF Commit, Present, Jobs, Shards
  <2>2. Candidate \in Generations
    BY <1>1, <2>1 DEF Candidate, Generations, Shards
  <2>3. job' = [job EXCEPT !.stage = "qualify"] /\ store' = Candidate
    BY <1>2 DEF Commit
  <2>4. /\ job' \in Jobs /\ job'.stage = "qualify" /\ job'.inventory = job.inventory
        /\ job'.shards = job.shards
    BY <1>1, <2>3 DEF Jobs, Stages
  <2> QED
    BY <1>1, <2>1, <2>2, <2>3, <2>4 DEF Commit, Coherent, CoherentSnapshot, CorpusIsForJob
<1>3. CASE store \notin {job.base, Candidate}
  BY <1>3, IdleStep DEF Commit, Throw
<1> QED
  BY <1>2, <1>3

(* A result that is not evaluated again is of the corpus's text, or it would be. *)
LEMMA QualifyStep ==
  ASSUME RefreshInv, Qualify
  PROVE  RefreshInv'
<1> DEFINE owed == corpus.owed \ (job.refreshed \union (Evaluated \intersect job.fresh))
           qualified == [s \in Owner |->
                          IF s \in Evaluated
                          THEN [text |-> corpus.texts[s], shard |-> job.shards[s]]
                          ELSE Prior(s)]
           snapshot == [inventory |-> job.inventory, texts |-> corpus.texts, qualify |-> TRUE,
                        generation |-> Candidate, qualified |-> qualified]
<1>1. /\ job \in Jobs /\ job.inventory \in Inventories /\ job.shards \in [Owner -> Inputs]
      /\ corpus \in Corpora /\ corpus.inventory = job.inventory
  BY DEF RefreshInv, TypeOK, CorpusIsForJob, Qualify
<1>2. \A s \in Owner : corpus.texts[s] \in Nat /\ corpus.texts[s] = corpus.inventory[s].text
  BY <1>1, NoneAssumption DEF RefreshInv, Coherent, Corpora
<1>3. Candidate \in Generations
  BY <1>1 DEF Candidate, Generations, Shards
<1>4. \A s \in Owner : /\ qualified[s] \in Qualifications
                       /\ qualified[s].text = corpus.texts[s]
  <2> TAKE s \in Owner
  <2>1. CASE s \in Evaluated
    BY <1>1, <1>2, <2>1 DEF Qualifications
  <2>2. CASE s \notin Evaluated
    <3>1. Prior(s) # None /\ Prior(s).text = corpus.texts[s]
      BY <2>2 DEF Evaluated
    <3>2. Prior(s) \in Qualifications
      BY <1>1, <3>1 DEF Prior, Jobs, Snapshots
    <3> QED
      BY <2>2, <3>1, <3>2
  <2> QED
    BY <2>1, <2>2
<1>5. qualified \in [Owner -> Qualifications \union {None}]
  BY <1>4
<1> HIDE DEF qualified
<1>6. snapshot \in Snapshots
  BY <1>1, <1>3, <1>5 DEF Snapshots, Corpora
<1>7. CoherentSnapshot(snapshot)
  BY <1>1, <1>2, <1>4 DEF CoherentSnapshot
<1>8. owed \in SUBSET Owner
  BY <1>1 DEF Corpora
<1>9. Publish(snapshot, owed) /\ corpus' = [corpus EXCEPT !.owed = owed]
      /\ UNCHANGED <<disk, store, saved, bounds>>
  BY DEF Qualify, qualified
<1> HIDE DEF snapshot, owed
<1> QED
  BY <1>1, <1>6, <1>7, <1>8, <1>9, PublishStep

LEMMA WriteCheckpointStep ==
  ASSUME RefreshInv, WriteCheckpoint
  PROVE  RefreshInv'
  BY DEF RefreshInv, TypeOK, WriteCheckpoint, Coherent, CoherentSnapshot, CorpusIsForJob

LEMMA EditStep ==
  ASSUME RefreshInv, Edit
  PROVE  RefreshInv'
<1> USE DEF RefreshInv, TypeOK
<1>1. disk' \in Inventories
  BY DEF Edit, Inventories, Inputs
<1>2. bounds' \in [edits : 0 .. MaxEdits, upsets : 0 .. MaxUpsets]
  BY RefreshAssumption DEF Edit
<1>3. /\ job' \in Jobs /\ job'.stage = job.stage /\ job'.inventory = job.inventory
      /\ job'.shards = job.shards
  BY DEF Edit, Jobs
<1> QED
  BY <1>1, <1>2, <1>3 DEF Edit, Coherent, CoherentSnapshot, CorpusIsForJob

LEMMA UpsetBounds ==
  ASSUME RefreshInv, Upset
  PROVE  bounds' \in [edits : 0 .. MaxEdits, upsets : 0 .. MaxUpsets]
  BY RefreshAssumption DEF RefreshInv, TypeOK, Upset

LEMMA RivalStep ==
  ASSUME RefreshInv, Rival
  PROVE  RefreshInv'
<1> USE DEF RefreshInv, TypeOK
<1> DEFINE observed(S) == [manifest |-> disk,
                           shards |-> [s \in Owner |-> IF s \in S THEN disk[s] ELSE None]]
           checkpoint(S) ==
             [owed |-> {}, snapshot |->
               [inventory |-> disk, texts |-> [s \in Owner |-> disk[s].text], qualify |-> TRUE,
                generation |-> observed(S),
                qualified |-> [s \in Owner |-> [text |-> disk[s].text, shard |-> disk[s]]]]]
<1>1. PICK S \in SUBSET Owner : store' = observed(S) /\ saved' \in {saved, checkpoint(S)}
  BY DEF Rival
<1>2. disk \in Inventories /\ \A s \in Owner : disk[s] \in Inputs /\ disk[s].text \in Nat
  BY DEF Inventories, Inputs
<1>3. observed(S) \in Generations
  BY <1>2 DEF Generations, Shards
<1> HIDE DEF observed
<1>4. checkpoint(S).snapshot \in Snapshots /\ checkpoint(S) \in Checkpoints
  BY <1>2, <1>3 DEF Checkpoints, Snapshots, Qualifications
<1>5. CoherentSnapshot(checkpoint(S).snapshot)
  BY DEF CoherentSnapshot
<1> HIDE DEF checkpoint
<1>6. /\ UNCHANGED <<disk, corpus, current, pending, job, settled>>
      /\ bounds' \in [edits : 0 .. MaxEdits, upsets : 0 .. MaxUpsets]
  BY UpsetBounds DEF Rival
<1> QED
  BY <1>1, <1>3, <1>4, <1>5, <1>6 DEF Coherent, CoherentSnapshot, CorpusIsForJob

LEMMA RefreshInvStep == RefreshInv /\ [Next]_vars => RefreshInv'
<1> SUFFICES ASSUME RefreshInv, [Next]_vars PROVE RefreshInv'
  OBVIOUS
<1>1. CASE \E qualify \in BOOLEAN : \E hints \in Hints : Begin(qualify, hints)
  BY <1>1, BeginStep
<1>2. CASE LoadExact \/ LoadCorpus \/ LoadMiss
  BY <1>2, LoadStep
<1>3. CASE Compile
  BY <1>3, CompileStep
<1>4. CASE Describe
  BY <1>4, DescribeStep
<1>5. CASE Observe
  BY <1>5, ObserveStep
<1>6. CASE \E s \in Owner : Read(s)
  BY <1>6, ReadStep
<1>7. CASE Commit
  BY <1>7, CommitStep
<1>8. CASE Qualify
  BY <1>8, QualifyStep
<1>9. CASE WriteCheckpoint
  BY <1>9, WriteCheckpointStep
<1>10. CASE Edit
  BY <1>10, EditStep
<1>11. CASE Fail
  BY <1>11, UpsetBounds, IdleStep DEF Fail, Throw, RefreshInv, TypeOK
<1>12. CASE Crash
  BY <1>12, UpsetBounds, IdleStep DEF Crash, RefreshInv, TypeOK
<1>13. CASE Rival
  BY <1>13, RivalStep
<1>14. CASE UNCHANGED vars
  BY <1>14 DEF vars, RefreshInv, TypeOK, Coherent, CoherentSnapshot, CorpusIsForJob
<1> QED
  BY <1>1, <1>2, <1>3, <1>4, <1>5, <1>6, <1>7, <1>8, <1>9, <1>10, <1>11, <1>12, <1>13, <1>14
  DEF Next, Refresh, Environment

(* The inductive invariant holds throughout.                               *)
THEOREM RefreshInvariance == Spec => []RefreshInv
  BY RefreshInvInit, RefreshInvStep, PTL DEF Spec

(* Every refresh, checkpoint, generation and snapshot stays of its type:   *)
(* in particular, no observation is qualified before every owner of the    *)
(* corpus has a shard in it.                                               *)
THEOREM ApplicationRefreshTypes == Spec => []TypeOK
  BY RefreshInvariance, PTL DEF RefreshInv

(* No snapshot mixes two inventories: whatever was hinted, retained,       *)
(* restored, interrupted or raced, the specifications of the corpus, of    *)
(* the published snapshot and of its checkpoint are those of the inventory *)
(* they name, and each qualification is of the text it is published with   *)
(* (refreshSnapshot, evaluateSnapshot and assertSpecificationInventory).   *)
THEOREM SnapshotsAreCoherent == Spec => []Coherent
  BY RefreshInvariance, PTL DEF RefreshInv

-----------------------------------------------------------------------------
(***************************************************************************)
(* What a quiet refresh returns.  In order: nothing anybody holds is newer *)
(* than the disk; what the store, the observation under way and the        *)
(* snapshots have of an owner is no older than a corpus says it is, unless *)
(* the corpus owes that owner; and a refresh reads nothing older than the  *)
(* inventory it is for.  A settled refresh has the inventory of the disk:  *)
(* then no older and no newer is the same.                                 *)
(***************************************************************************)

\* x was read no earlier than y.
AtLeast(x, y) == x.text >= y.text /\ x.evidence >= y.evidence

\* A map of observations has nothing older than v of an owner outside of O.
Kept(shards, v, O) ==
  \A s \in Owner \ O : shards[s] # None => AtLeast(shards[s], v[s])

\* The results of a snapshot judge nothing older than v of an owner outside of O.
Judging(n, v, O) ==
  \A s \in Owner \ O : n.qualified[s] # None => AtLeast(n.qualified[s].shard, v[s])

\* A qualifying snapshot has observed and judged everybody.
Complete(n) ==
  n.qualify => /\ n.generation # None
               /\ \A s \in Owner : n.generation.shards[s] # None /\ n.qualified[s] # None

\* What a corpus of inventory v may reuse of snapshot n, but for the owners O that it owes.
Sound(n, v, O) ==
  Complete(n) /\ (n.qualify => Kept(n.generation.shards, v, O)) /\ Judging(n, v, O)

\* Nothing is newer than the disk.
ShardsPast(shards) == \A s \in Owner : shards[s] # None => AtLeast(disk[s], shards[s])
InventoryPast(v) == \A s \in Owner : AtLeast(disk[s], v[s])
SnapshotPast(n) ==
  /\ InventoryPast(n.inventory)
  /\ n.qualify => ShardsPast(n.generation.shards)
  /\ \A s \in Owner : n.qualified[s] # None => AtLeast(disk[s], n.qualified[s].shard)

\* The corpora there are or may be restored: inventories with the owners that are owed.
Views ==
  {[inventory |-> c.inventory, owed |-> c.owed] : c \in {corpus} \ {None}}
  \union {[inventory |-> c.snapshot.inventory, owed |-> c.owed] : c \in {saved, pending} \ {None}}

\* The snapshots in memory, and the durable ones with what was owed when they were written.
Held == {current, job.previous} \ {None}
Durable == {saved, pending} \ {None}

Past ==
  /\ \A view \in Views : InventoryPast(view.inventory)
  /\ store # None => ShardsPast(store.shards)
  /\ ShardsPast(job.shards)
  /\ \A n \in Held : SnapshotPast(n)
  /\ \A c \in Durable : SnapshotPast(c.snapshot)

\* The store and the observation under way keep what no corpus owes.
Observed ==
  \A view \in Views :
    /\ store # None => Kept(store.shards, view.inventory, view.owed)
    /\ Kept(job.shards, view.inventory, view.owed)

\* What is reused of a snapshot, in memory or restored, is what the corpus does not owe.
Judged ==
  /\ \A c \in Durable : Sound(c.snapshot, c.snapshot.inventory, c.owed)
  /\ \A n \in Held : corpus # None /\ Sound(n, corpus.inventory, corpus.owed)
  /\ current # None => \A s \in Owner \ corpus.owed : current.inventory[s] = corpus.inventory[s]

\* What a refresh reads is no older than its inventory, and all it has to read it has read.
Working ==
  /\ job.stage \in {"idle", "load", "compile", "observe"} => job.shards = NoShards /\ job.fresh = {}
  /\ job.stage \in {"idle", "load"} => job.previous = None
  /\ job.stage = "load" => current = None
  /\ job.stage # "idle" =>
       /\ InventoryPast(job.inventory)
       /\ \A view \in Views : \A s \in Owner : AtLeast(job.inventory[s], view.inventory[s])
       /\ job.quiet => job.inventory = disk
  /\ \A s \in job.refreshed : job.shards[s] # None => s \in job.fresh
  /\ \A s \in job.fresh :
       /\ job.shards[s] # None /\ AtLeast(job.shards[s], job.inventory[s])
       /\ job.stage = "qualify" /\ store # None /\ store.shards[s] # None =>
            AtLeast(store.shards[s], job.inventory[s])

\* A refresh that settled has published the inventory that the disk still has.
Settlement ==
  settled => job.stage = "idle" /\ current # None /\ current.inventory = disk

ExactInv == Past /\ Observed /\ Judged /\ Working /\ Settlement

LEMMA AtLeastReflexive ==
  ASSUME NEW x \in Inputs
  PROVE  AtLeast(x, x)
  BY DEF AtLeast, Inputs

LEMMA AtLeastTransitive ==
  ASSUME NEW x \in Inputs, NEW y \in Inputs, NEW z \in Inputs, AtLeast(x, y), AtLeast(y, z)
  PROVE  AtLeast(x, z)
  BY DEF AtLeast, Inputs

LEMMA AtLeastAntisymmetric ==
  ASSUME NEW x \in Inputs, NEW y \in Inputs, AtLeast(x, y), AtLeast(y, x)
  PROVE  x = y
  BY DEF AtLeast, Inputs

LEMMA ViewTypes ==
  ASSUME TypeOK, NEW view \in Views
  PROVE  view.inventory \in Inventories /\ view.owed \in SUBSET Owner
  BY DEF Views, TypeOK, Corpora, Checkpoints, Snapshots

(* What is known of one inventory is known of another where the two agree. *)
LEMMA SoundElsewhere ==
  ASSUME NEW n, NEW v, NEW O, NEW w, NEW P, Sound(n, v, O),
         \A s \in Owner \ P : s \notin O /\ w[s] = v[s]
  PROVE  Sound(n, w, P)
  BY DEF Sound, Kept, Judging, Complete

LEMMA KeptElsewhere ==
  ASSUME NEW shards, NEW v, NEW O, NEW w, NEW P, Kept(shards, v, O),
         \A s \in Owner \ P : s \notin O /\ w[s] = v[s]
  PROVE  Kept(shards, w, P)
  BY DEF Kept

LEMMA NothingKept ==
  ASSUME NEW v, NEW O
  PROVE  Kept(NoShards, v, O)
  BY DEF Kept, NoShards

LEMMA PastFrame ==
  ASSUME Past, disk' = disk, store' = store, Views' \subseteq Views,
         job'.shards \in {job.shards, NoShards}, Durable' \subseteq Durable,
         Held' \subseteq Held \union {c.snapshot : c \in Durable}
  PROVE  Past'
<1>1. \A view \in Views' : InventoryPast(view.inventory)'
  BY DEF Past, InventoryPast
<1>2. store' # None => ShardsPast(store.shards)'
  BY DEF Past, ShardsPast
<1>3. ShardsPast(job.shards)'
  BY DEF Past, ShardsPast, NoShards
<1>4. \A n : SnapshotPast(n) => SnapshotPast(n)'
  BY DEF SnapshotPast, InventoryPast, ShardsPast
<1>5. \A n \in Held' : SnapshotPast(n)'
  BY <1>4 DEF Past
<1>6. \A c \in Durable' : SnapshotPast(c.snapshot)'
  BY <1>4 DEF Past
<1> QED
  BY <1>1, <1>2, <1>3, <1>5, <1>6 DEF Past

LEMMA ObservedFrame ==
  ASSUME Observed, store' = store, Views' \subseteq Views,
         job'.shards \in {job.shards, NoShards}
  PROVE  Observed'
  BY NothingKept DEF Observed

LEMMA ExactInit == Init => ExactInv
<1> SUFFICES ASSUME Init PROVE ExactInv
  OBVIOUS
<1>1. Views = {} /\ Held = {} /\ Durable = {}
  BY DEF Init, Idle, Views, Held, Durable
<1>2. job = Idle /\ store = None /\ current = None /\ ~settled
  BY DEF Init
<1>3. ShardsPast(job.shards)
  BY <1>2 DEF Idle, ShardsPast, NoShards
<1> QED
  BY <1>1, <1>2, <1>3
  DEF ExactInv, Past, Observed, Judged, Working, Settlement, Idle

(* A refresh that ends without a publication, or with the process.         *)
LEMMA ExactIdle ==
  ASSUME ExactInv, job' = Idle, UNCHANGED <<disk, store, saved>>,
         \/ /\ UNCHANGED <<corpus, current, pending>>
            /\ settled' => settled /\ job.stage = "idle"
         \/ corpus' = None /\ current' = None /\ pending' = None /\ ~settled'
  PROVE  ExactInv'
<1> USE DEF ExactInv
<1>1. job'.stage = "idle" /\ job'.shards = NoShards /\ job'.previous = None /\ job'.fresh = {}
      /\ job'.refreshed = {}
  BY DEF Idle
<1>2. Views' \subseteq Views /\ Durable' \subseteq Durable
  BY DEF Views, Durable
<1>3. Held' \subseteq {current} \ {None} /\ Held' \subseteq Held
  BY <1>1 DEF Held
<1>4. Past'
  BY <1>1, <1>2, <1>3, PastFrame
<1>5. Observed'
  BY <1>1, <1>2, ObservedFrame
<1>6. Judged'
  BY <1>1, <1>2, <1>3 DEF Judged, Held
<1>7. Working'
  BY <1>1 DEF Working
<1>8. Settlement'
  BY <1>1 DEF Settlement
<1> QED
  BY <1>4, <1>5, <1>6, <1>7, <1>8

LEMMA ExactBegin ==
  ASSUME ExactInv, RefreshInv, NEW qualify \in BOOLEAN, NEW hints \in Hints,
         Begin(qualify, hints)
  PROVE  ExactInv'
<1> USE DEF ExactInv
<1>1. UNCHANGED <<disk, corpus, current, store, saved, pending>> /\ job.stage = "idle"
  BY DEF Begin
<1>2. Views' = Views /\ Durable' = Durable
  BY <1>1 DEF Views, Durable
<1>3. CASE Unchanged(qualify, hints)
  <2>1. job' = job /\ current # None /\ current.inventory = disk
    BY <1>3 DEF Begin, Unchanged
  <2>2. Held' = Held
    BY <1>1, <2>1 DEF Held
  <2>3. Past' /\ Observed'
    BY <1>1, <1>2, <2>1, <2>2, PastFrame, ObservedFrame
  <2>4. Judged'
    BY <1>1, <1>2, <2>2 DEF Judged
  <2>5. Working'
    BY <1>1, <2>1 DEF Working
  <2>6. Settlement'
    BY <1>1, <2>1 DEF Settlement
  <2> QED
    BY <2>3, <2>4, <2>5, <2>6
<1>4. CASE ~Unchanged(qualify, hints)
  <2>1. /\ job'.stage \in {"load", "compile"} /\ (job'.stage = "load" => current = None)
        /\ job'.inventory = disk /\ job'.previous = current /\ job'.refreshed = {}
        /\ job'.shards = NoShards /\ job'.fresh = {}
    BY <1>4 DEF Begin, Idle
  <2>2. ~settled'
    BY <1>4 DEF Begin
  <2>3. Held' \subseteq Held /\ Held' \subseteq {current} \ {None}
    BY <1>1, <2>1 DEF Held
  <2>4. Past' /\ Observed'
    BY <1>1, <1>2, <2>1, <2>3, PastFrame, ObservedFrame
  <2>5. Judged'
    BY <1>1, <1>2, <2>3 DEF Judged, Held
  <2>6. InventoryPast(disk)'
    BY <1>1, AtLeastReflexive DEF InventoryPast, RefreshInv, TypeOK, Inventories
  <2>7. \A view \in Views' : \A s \in Owner : AtLeast(disk[s], view.inventory[s])
    BY <1>2 DEF Past, InventoryPast
  <2>8. Working'
    BY <1>1, <2>1, <2>6, <2>7 DEF Working
  <2>9. Settlement'
    BY <2>2 DEF Settlement
  <2> QED
    BY <2>4, <2>5, <2>8, <2>9
<1> QED
  BY <1>3, <1>4

LEMMA RestoredView ==
  ASSUME saved # None, corpus' = Restored, UNCHANGED <<saved, pending>>
  PROVE  /\ Views' \subseteq Views
         /\ corpus'.inventory = saved.snapshot.inventory /\ corpus'.owed = saved.owed
<1>1. /\ corpus'.inventory = saved.snapshot.inventory /\ corpus'.owed = saved.owed
  BY DEF Restored
<1> QED
  BY <1>1 DEF Views

LEMMA ExactLoadExact ==
  ASSUME ExactInv, RefreshInv, LoadExact
  PROVE  ExactInv'
<1> USE DEF ExactInv
<1>1. /\ saved # None /\ saved.snapshot.inventory = job.inventory
      /\ job.stage = "load" /\ UNCHANGED <<disk, store, saved>>
  BY DEF LoadExact, Exact
<1>2. current = None /\ job.previous = None /\ job.shards = NoShards /\ job.fresh = {}
  BY <1>1 DEF Working
<1>3. CASE corpus' = Restored /\ Restore(saved.snapshot)
  <2>1. /\ current' = saved.snapshot /\ settled' = job.quiet /\ job' = Idle
        /\ pending' = pending
    BY <1>3 DEF Restore
  <2>2. job'.stage = "idle" /\ job'.shards = NoShards /\ job'.previous = None /\ job'.fresh = {}
        /\ job'.refreshed = {}
    BY <2>1 DEF Idle
  <2>3. /\ Views' \subseteq Views
        /\ corpus'.inventory = saved.snapshot.inventory /\ corpus'.owed = saved.owed
    BY <1>1, <1>3, <2>1, RestoredView
  <2>4. Durable' = Durable /\ saved \in Durable
    BY <1>1, <2>1 DEF Durable
  <2>5. Held' \subseteq {saved.snapshot}
    BY <2>1, <2>2 DEF Held
  <2>6. Past'
    BY <1>1, <2>2, <2>3, <2>4, <2>5, PastFrame
  <2>7. Observed'
    BY <1>1, <2>2, <2>3, ObservedFrame
  <2>8. corpus' # None
    BY <1>1, <1>3, NoneAssumption DEF Restored, RefreshInv, TypeOK, Corpora, Checkpoints, Snapshots
  <2>9. Judged'
    BY <1>1, <2>1, <2>3, <2>4, <2>5, <2>8 DEF Judged
  <2>10. Working'
    BY <2>2 DEF Working
  <2>11. job.quiet => saved.snapshot.inventory = disk
    BY <1>1 DEF Working
  <2>12. saved.snapshot # None
    BY <1>1, NoneAssumption DEF RefreshInv, TypeOK, Checkpoints
  <2>13. Settlement'
    BY <1>1, <2>1, <2>2, <2>11, <2>12 DEF Settlement
  <2> QED
    BY <2>6, <2>7, <2>9, <2>10, <2>13
<1>4. CASE corpus' = None /\ job' = [job EXCEPT !.stage = "compile"]
           /\ UNCHANGED <<current, pending, settled>>
  <2>1. /\ job'.stage = "compile" /\ job'.inventory = job.inventory /\ job'.previous = None
        /\ job'.shards = NoShards /\ job'.fresh = {} /\ job'.quiet = job.quiet
        /\ job'.refreshed = job.refreshed
    BY <1>2, <1>4 DEF RefreshInv, TypeOK, Jobs
  <2>2. Views' \subseteq Views /\ Durable' = Durable
    BY <1>1, <1>4 DEF Views, Durable
  <2>3. Held' = {}
    BY <1>2, <1>4, <2>1 DEF Held
  <2>4. Past' /\ Observed'
    BY <1>1, <2>1, <2>2, <2>3, PastFrame, ObservedFrame
  <2>5. Judged'
    BY <1>2, <1>4, <2>2, <2>3 DEF Judged
  <2>6. InventoryPast(job.inventory)'
    BY <1>1, <2>1 DEF Working, InventoryPast
  <2>7. Working'
    <3>1. \A s \in job'.refreshed : job'.shards[s] # None => s \in job'.fresh
      BY <1>2, <2>1 DEF Working
    <3>2. \A view \in Views' : \A s \in Owner : AtLeast(job'.inventory[s], view.inventory[s])
      BY <1>1, <2>1, <2>2 DEF Working
    <3>3. job'.quiet => job'.inventory = disk'
      BY <1>1, <2>1 DEF Working
    <3> QED
      BY <1>2, <1>4, <2>1, <2>6, <3>1, <3>2, <3>3 DEF Working
  <2>8. Settlement'
    BY <1>1, <1>4 DEF Settlement
  <2> QED
    BY <2>4, <2>5, <2>7, <2>8
<1> QED
  BY <1>3, <1>4 DEF LoadExact

(* A checkpoint of another inventory is where the corpus starts from, and  *)
(* what the refresh may reuse.                                             *)
LEMMA ExactLoadOther ==
  ASSUME ExactInv, RefreshInv, LoadCorpus \/ LoadMiss
  PROVE  ExactInv'
<1> USE DEF ExactInv
<1>1. /\ job.stage = "load" /\ UNCHANGED <<disk, current, store, saved, pending, settled>>
  BY DEF LoadCorpus, LoadMiss
<1>2. current = None /\ job.previous = None /\ job.shards = NoShards /\ job.fresh = {}
  BY <1>1 DEF Working
<1>3. /\ job'.stage = "compile" /\ job'.inventory = job.inventory
      /\ job'.shards = NoShards /\ job'.fresh = {} /\ job'.quiet = job.quiet
      /\ job'.refreshed = job.refreshed
  BY <1>2 DEF RefreshInv, TypeOK, Jobs, LoadCorpus, LoadMiss
<1>4. /\ Views' \subseteq Views
      /\ \/ Held' = {}
         \/ /\ saved # None /\ Held' \subseteq {saved.snapshot} /\ corpus' # None
            /\ corpus'.inventory = saved.snapshot.inventory /\ corpus'.owed = saved.owed
  <2>1. CASE LoadCorpus
    <3>1. corpus' = Restored /\ saved # None
      BY <2>1 DEF LoadCorpus
    <3>2. corpus' # None
      BY <3>1, NoneAssumption DEF Restored, RefreshInv, TypeOK, Corpora, Checkpoints, Snapshots
    <3>3. job'.previous = saved.snapshot
      BY <2>1 DEF LoadCorpus, RefreshInv, TypeOK, Jobs
    <3>4. Held' \subseteq {saved.snapshot}
      BY <1>1, <1>2, <3>3 DEF Held
    <3> QED
      BY <1>1, <3>1, <3>2, <3>4, RestoredView
  <2>2. CASE LoadMiss
    <3>1. job'.previous = None
      BY <1>2, <2>2 DEF LoadMiss, RefreshInv, TypeOK, Jobs
    <3> QED
      BY <1>1, <1>2, <2>2, <3>1 DEF LoadMiss, Views, Held
  <2> QED
    BY <2>1, <2>2
<1>5. Durable' = Durable
  BY <1>1 DEF Durable
<1>6. saved # None => saved \in Durable
  BY DEF Durable
<1>7. Past'
  BY <1>1, <1>3, <1>4, <1>5, <1>6, PastFrame
<1>8. Observed'
  BY <1>1, <1>3, <1>4, ObservedFrame
<1>9. Judged'
  BY <1>1, <1>2, <1>4, <1>5, <1>6 DEF Judged
<1>10. InventoryPast(job.inventory)'
  BY <1>1, <1>3 DEF Working, InventoryPast
<1>11. Working'
  <2>1. \A s \in job'.refreshed : job'.shards[s] # None => s \in job'.fresh
    BY <1>2, <1>3 DEF Working
  <2>2. \A view \in Views' : \A s \in Owner : AtLeast(job'.inventory[s], view.inventory[s])
    BY <1>1, <1>3, <1>4 DEF Working
  <2>3. job'.quiet => job'.inventory = disk'
    BY <1>1, <1>3 DEF Working
  <2> QED
    BY <1>2, <1>3, <1>10, <2>1, <2>2, <2>3 DEF Working
<1>12. Settlement'
  BY <1>1 DEF Settlement
<1> QED
  BY <1>7, <1>8, <1>9, <1>11, <1>12

LEMMA ExactWrite ==
  ASSUME ExactInv, WriteCheckpoint
  PROVE  ExactInv'
<1> USE DEF ExactInv
<1>1. /\ saved' = pending /\ pending' = None /\ pending # None
      /\ UNCHANGED <<disk, corpus, current, store, job, settled>>
  BY DEF WriteCheckpoint
<1>2. Views' \subseteq Views /\ Durable' \subseteq Durable /\ Held' = Held
  BY <1>1 DEF Views, Durable, Held
<1>3. Past' /\ Observed'
  BY <1>1, <1>2, PastFrame, ObservedFrame
<1>4. Judged'
  BY <1>1, <1>2 DEF Judged
<1>5. InventoryPast(job.inventory) => InventoryPast(job.inventory)'
  BY <1>1 DEF InventoryPast
<1>6. Working'
  BY <1>1, <1>2, <1>5 DEF Working
<1>7. Settlement'
  BY <1>1 DEF Settlement
<1> QED
  BY <1>3, <1>4, <1>6, <1>7

(* A compilation reports what has changed since its corpus, and owes it.   *)
LEMMA ExactCompile ==
  ASSUME ExactInv, RefreshInv, Compile
  PROVE  ExactInv'
<1> USE DEF ExactInv
<1>1. job.stage = "compile" /\ UNCHANGED <<disk, current, store, saved, pending, settled>>
  BY DEF Compile, Throw
<1>2. CASE ~Admissible(CompiledTexts)
  BY <1>1, <1>2, ExactIdle DEF Compile, Throw, Settlement
<1>3. CASE Admissible(CompiledTexts)
  <2> DEFINE owed == Refreshed \union IF corpus = None THEN {} ELSE corpus.owed
  <2>1. job.shards = NoShards /\ job.fresh = {}
    BY <1>1 DEF Working
  <2>2. /\ job'.stage = "observe" /\ job'.inventory = job.inventory
        /\ job'.previous = job.previous /\ job'.shards = NoShards /\ job'.fresh = {}
        /\ job'.quiet = job.quiet
    <3>1. job' = [job EXCEPT !.stage = "observe", !.refreshed = Refreshed] /\ job \in Jobs
      BY <1>3 DEF Compile, RefreshInv, TypeOK
    <3> QED
      BY <2>1, <3>1 DEF Jobs
  <2>3. corpus'.inventory = job.inventory /\ corpus'.owed = owed
    BY <1>3 DEF Compile
  <2>4. \A s \in Owner \ owed : /\ corpus # None /\ s \notin corpus.owed
                                /\ job.inventory[s] = corpus.inventory[s]
    BY DEF Refreshed, Changed
  <2> HIDE DEF owed
  <2> DEFINE new == [inventory |-> job.inventory, owed |-> owed]
  <2>5. Views' \subseteq Views \union {new}
    BY <1>1, <2>3 DEF Views
  <2>6. Durable' = Durable /\ Held' = Held
    BY <1>1, <2>2 DEF Durable, Held
  <2>7. InventoryPast(job.inventory)' /\ InventoryPast(job.inventory)
    BY <1>1, <2>2 DEF Working, InventoryPast
  <2>8. Past'
    <3>1. \A view \in Views' : InventoryPast(view.inventory)'
      BY <1>1, <2>5, <2>7 DEF Past, InventoryPast
    <3>2. store' # None => ShardsPast(store.shards)'
      BY <1>1 DEF Past, ShardsPast
    <3>3. ShardsPast(job.shards)'
      BY <2>2 DEF ShardsPast, NoShards
    <3>4. \A n : SnapshotPast(n) => SnapshotPast(n)'
      BY <1>1 DEF SnapshotPast, InventoryPast, ShardsPast
    <3> QED
      BY <2>6, <3>1, <3>2, <3>3, <3>4 DEF Past
  <2>9. store # None => Kept(store.shards, job.inventory, owed)
    <3> SUFFICES ASSUME store # None, NEW s \in Owner \ owed, store.shards[s] # None
                 PROVE  AtLeast(store.shards[s], job.inventory[s])
      BY DEF Kept
    <3>1. corpus # None /\ s \notin corpus.owed /\ job.inventory[s] = corpus.inventory[s]
      BY <2>4
    <3>2. [inventory |-> corpus.inventory, owed |-> corpus.owed] \in Views
      BY <3>1 DEF Views
    <3>3. Kept(store.shards, corpus.inventory, corpus.owed)
      BY <3>2 DEF Observed
    <3> QED
      BY <3>1, <3>3 DEF Kept
  <2>10. Observed'
    BY <1>1, <2>2, <2>5, <2>9, NothingKept DEF Observed
  <2>11. Judged'
    <3>1. \A n \in Held : Sound(n, job.inventory, owed)
      <4> SUFFICES ASSUME NEW n \in Held PROVE Sound(n, job.inventory, owed)
        OBVIOUS
      <4>1. Sound(n, corpus.inventory, corpus.owed)
        BY DEF Judged
      <4> QED
        BY <2>4, <4>1, SoundElsewhere
    <3>2. corpus' # None
      BY <1>1, <2>2, NoneAssumption, CompileStep DEF RefreshInv, TypeOK
    <3>3. current # None => \A s \in Owner \ owed : current.inventory[s] = job.inventory[s]
      BY <2>4 DEF Judged
    <3> QED
      BY <1>1, <2>3, <2>6, <3>1, <3>2, <3>3 DEF Judged
  <2>12. Working'
    <3>1. \A view \in Views' : \A s \in Owner : AtLeast(job.inventory[s], view.inventory[s])
      BY <1>1, <2>5, AtLeastReflexive DEF Working, RefreshInv, TypeOK, Inventories
    <3>2. job'.quiet => job'.inventory = disk'
      BY <1>1, <2>2 DEF Working
    <3>3. \A s \in job'.refreshed : s \in Owner
      BY <1>1, CompileStep DEF RefreshInv, TypeOK, Jobs
    <3> QED
      BY <2>2, <2>7, <3>1, <3>2, <3>3 DEF Working, NoShards
  <2>13. Settlement'
    BY <1>1 DEF Settlement
  <2> QED
    BY <2>8, <2>10, <2>11, <2>12, <2>13
<1> QED
  BY <1>2, <1>3

(* Keeping an observation keeps nothing older than the store has.          *)
LEMMA ExactObserve ==
  ASSUME ExactInv, RefreshInv, Observe
  PROVE  ExactInv'
<1> USE DEF ExactInv
<1>1. /\ job.stage = "observe" /\ UNCHANGED <<disk, corpus, current, store, saved, pending, settled>>
      /\ job.fresh = {} /\ job \in Jobs
  BY DEF Observe, Working, RefreshInv, TypeOK
<1>2. /\ job'.stage \in {"reading", "qualify"} /\ job'.inventory = job.inventory
      /\ job'.previous = job.previous /\ job'.refreshed = job.refreshed /\ job'.fresh = {}
      /\ job'.quiet = job.quiet
  BY <1>1 DEF Observe, Jobs
<1>3. \A s \in Owner : job'.shards[s] # None =>
        store # None /\ s \notin job.refreshed /\ job'.shards[s] = store.shards[s]
  BY <1>1 DEF Observe, Jobs, Reusable, Retainable
<1>4. Views' = Views /\ Durable' = Durable /\ Held' = Held
  BY <1>1, <1>2 DEF Views, Durable, Held
<1>5. Past'
  <2>1. \A view \in Views' : InventoryPast(view.inventory)'
    BY <1>1, <1>4 DEF Past, InventoryPast
  <2>2. store' # None => ShardsPast(store.shards)'
    BY <1>1 DEF Past, ShardsPast
  <2>3. ShardsPast(job.shards)'
    BY <1>1, <1>3 DEF Past, ShardsPast
  <2>4. \A n : SnapshotPast(n) => SnapshotPast(n)'
    BY <1>1 DEF SnapshotPast, InventoryPast, ShardsPast
  <2> QED
    BY <1>4, <2>1, <2>2, <2>3, <2>4 DEF Past
<1>6. Observed'
  <2>1. \A view \in Views : Kept(job'.shards, view.inventory, view.owed)
    BY <1>3 DEF Observed, Kept
  <2> QED
    BY <1>1, <1>4, <2>1 DEF Observed
<1>7. Judged'
  BY <1>1, <1>4 DEF Judged
<1>8. Working'
  <2>1. InventoryPast(job.inventory)'
    BY <1>1, <1>2 DEF Working, InventoryPast
  <2>2. \A view \in Views' : \A s \in Owner : AtLeast(job'.inventory[s], view.inventory[s])
    BY <1>1, <1>2, <1>4 DEF Working
  <2>3. job'.quiet => job'.inventory = disk'
    BY <1>1, <1>2 DEF Working
  <2>4. \A s \in job'.refreshed : job'.shards[s] # None => s \in job'.fresh
    BY <1>1, <1>2, <1>3 DEF Jobs
  <2> QED
    BY <1>2, <2>1, <2>2, <2>3, <2>4 DEF Working
<1>9. Settlement'
  BY <1>1 DEF Settlement
<1> QED
  BY <1>5, <1>6, <1>7, <1>8, <1>9

(* What is read has the text of the inventory and the evidence of the disk. *)
LEMMA ExactRead ==
  ASSUME ExactInv, RefreshInv, NEW o \in Owner, Read(o)
  PROVE  ExactInv'
<1> USE DEF ExactInv
<1> DEFINE shard == [text |-> corpus.texts[o], evidence |-> disk[o].evidence]
<1>1. /\ job.stage = "reading" /\ job \in Jobs /\ job.inventory \in Inventories
      /\ UNCHANGED <<disk, corpus, current, store, saved, pending, settled>>
  BY DEF Read, RefreshInv, TypeOK
<1>2. /\ job'.stage = "reading" /\ job'.inventory = job.inventory
      /\ job'.previous = job.previous /\ job'.refreshed = job.refreshed
      /\ job'.fresh = job.fresh \union {o} /\ job'.quiet = job.quiet
      /\ job'.shards = [job.shards EXCEPT ![o] = shard]
  BY <1>1 DEF Read, Jobs
<1>3. \A s \in Owner : job'.shards[s] = IF s = o THEN shard ELSE job.shards[s]
  BY <1>1, <1>2 DEF Jobs, Shards
<1>4. /\ shard.text = job.inventory[o].text /\ shard.evidence = disk[o].evidence
      /\ shard \in Inputs
  BY <1>1, NoneAssumption
  DEF RefreshInv, TypeOK, Coherent, CorpusIsForJob, Corpora, Inventories, Inputs
<1>5. InventoryPast(job.inventory)
  BY <1>1 DEF Working
<1>6. AtLeast(shard, job.inventory[o]) /\ AtLeast(disk[o], shard)
  BY <1>1, <1>4, <1>5 DEF InventoryPast, AtLeast, RefreshInv, TypeOK, Inventories, Inputs
<1> HIDE DEF shard
<1>7. Views' = Views /\ Durable' = Durable /\ Held' = Held
  BY <1>1, <1>2 DEF Views, Durable, Held
<1>8. shard # None
  BY <1>4, NoneAssumption
<1>9. Past'
  <2>1. \A view \in Views' : InventoryPast(view.inventory)'
    BY <1>1, <1>7 DEF Past, InventoryPast
  <2>2. store' # None => ShardsPast(store.shards)'
    BY <1>1 DEF Past, ShardsPast
  <2>3. ShardsPast(job.shards)'
    BY <1>1, <1>3, <1>6 DEF Past, ShardsPast
  <2>4. \A n : SnapshotPast(n) => SnapshotPast(n)'
    BY <1>1 DEF SnapshotPast, InventoryPast, ShardsPast
  <2> QED
    BY <1>7, <2>1, <2>2, <2>3, <2>4 DEF Past
<1>10. Observed'
  <2>1. ASSUME NEW view \in Views PROVE Kept(job'.shards, view.inventory, view.owed)
    <3>1. AtLeast(job.inventory[o], view.inventory[o])
      BY <1>1 DEF Working
    <3>2. AtLeast(shard, view.inventory[o])
      BY <1>1, <1>4, <1>6, <3>1, ViewTypes, AtLeastTransitive DEF RefreshInv, Inventories
    <3> QED
      BY <1>3, <3>2 DEF Observed, Kept
  <2> QED
    BY <1>1, <1>7, <2>1 DEF Observed
<1>11. Judged'
  BY <1>1, <1>7 DEF Judged
<1>12. Working'
  <2>1. InventoryPast(job.inventory)'
    BY <1>1, <1>2, <1>5 DEF InventoryPast
  <2>2. \A view \in Views' : \A s \in Owner : AtLeast(job'.inventory[s], view.inventory[s])
    BY <1>1, <1>2, <1>7 DEF Working
  <2>3. job'.quiet => job'.inventory = disk'
    BY <1>1, <1>2 DEF Working
  <2>4. \A s \in job'.refreshed : job'.shards[s] # None => s \in job'.fresh
    BY <1>1, <1>2, <1>3 DEF Jobs, Working
  <2>5. \A s \in job'.fresh : job'.shards[s] # None /\ AtLeast(job'.shards[s], job'.inventory[s])
    BY <1>1, <1>2, <1>3, <1>6, <1>8 DEF Jobs, Working
  <2> QED
    BY <1>2, <2>1, <2>2, <2>3, <2>4, <2>5 DEF Working
<1>13. Settlement'
  BY <1>1 DEF Settlement
<1> QED
  BY <1>9, <1>10, <1>11, <1>12, <1>13

LEMMA ExactCommit ==
  ASSUME ExactInv, RefreshInv, Commit
  PROVE  ExactInv'
<1> USE DEF ExactInv
<1>1. /\ job.stage = "reading" /\ job \in Jobs
      /\ UNCHANGED <<disk, corpus, current, saved, pending>> /\ settled' = settled
  BY DEF Commit, Throw, RefreshInv, TypeOK
<1>2. CASE store \notin {job.base, Candidate}
  BY <1>1, <1>2, ExactIdle DEF Commit, Throw, Settlement
<1>3. CASE store \in {job.base, Candidate}
  <2>1. store' = Candidate /\ store'.shards = job.shards
    BY <1>3 DEF Commit, Candidate
  <2>2. /\ job'.stage = "qualify" /\ job'.inventory = job.inventory
        /\ job'.previous = job.previous /\ job'.refreshed = job.refreshed
        /\ job'.fresh = job.fresh /\ job'.quiet = job.quiet /\ job'.shards = job.shards
    BY <1>1, <1>3 DEF Commit, Jobs
  <2>3. Views' = Views /\ Durable' = Durable /\ Held' = Held
    BY <1>1, <2>2 DEF Views, Durable, Held
  <2>4. Past'
    <3>1. \A view \in Views' : InventoryPast(view.inventory)'
      BY <1>1, <2>3 DEF Past, InventoryPast
    <3>2. ShardsPast(job.shards)' /\ ShardsPast(store.shards)'
      BY <1>1, <2>1, <2>2 DEF Past, ShardsPast
    <3>3. \A n : SnapshotPast(n) => SnapshotPast(n)'
      BY <1>1 DEF SnapshotPast, InventoryPast, ShardsPast
    <3> QED
      BY <2>3, <3>1, <3>2, <3>3 DEF Past
  <2>5. Observed'
    BY <2>1, <2>2, <2>3 DEF Observed
  <2>6. Judged'
    BY <1>1, <2>3 DEF Judged
  <2>7. Working'
    <3>1. InventoryPast(job.inventory)'
      BY <1>1, <2>2 DEF Working, InventoryPast
    <3>2. \A view \in Views' : \A s \in Owner : AtLeast(job'.inventory[s], view.inventory[s])
      BY <1>1, <2>2, <2>3 DEF Working
    <3>3. job'.quiet => job'.inventory = disk'
      BY <1>1, <2>2 DEF Working
    <3>4. \A s \in job'.refreshed : job'.shards[s] # None => s \in job'.fresh
      BY <2>2 DEF Working
    <3>5. \A s \in job'.fresh : /\ job'.shards[s] # None /\ AtLeast(job'.shards[s], job'.inventory[s])
                                /\ AtLeast(store'.shards[s], job'.inventory[s])
      BY <2>1, <2>2 DEF Working
    <3> QED
      BY <2>2, <3>1, <3>2, <3>3, <3>4, <3>5 DEF Working
  <2>8. Settlement'
    BY <1>1 DEF Settlement
  <2> QED
    BY <2>4, <2>5, <2>6, <2>7, <2>8
<1> QED
  BY <1>2, <1>3

LEMMA ExactPublish ==
  ASSUME ExactInv, NEW snapshot \in Snapshots, NEW owed, Publish(snapshot, owed),
         job.stage # "idle", UNCHANGED <<disk, store, saved>>,
         corpus' # None, corpus'.inventory = job.inventory, corpus'.owed = owed,
         snapshot.inventory = job.inventory, SnapshotPast(snapshot),
         Sound(snapshot, job.inventory, owed),
         store # None => Kept(store.shards, job.inventory, owed)
  PROVE  ExactInv'
<1> USE DEF ExactInv
<1> DEFINE new == [inventory |-> job.inventory, owed |-> owed]
<1>1. /\ current' = snapshot /\ job' = Idle /\ settled' = job.quiet
      /\ pending' = [snapshot |-> snapshot, owed |-> owed]
  BY DEF Publish
<1>2. job'.stage = "idle" /\ job'.shards = NoShards /\ job'.previous = None /\ job'.fresh = {}
      /\ job'.refreshed = {}
  BY <1>1 DEF Idle
<1>3. Views' \subseteq Views \union {new}
  BY <1>1 DEF Views
<1>4. Held' \subseteq {snapshot} /\ Durable' \subseteq Durable \union {pending'}
  BY <1>1, <1>2 DEF Held, Durable
<1>5. Past'
  <2>1. \A view \in Views' : InventoryPast(view.inventory)'
    BY <1>3 DEF Past, Working, InventoryPast
  <2>2. store' # None => ShardsPast(store.shards)'
    BY DEF Past, ShardsPast
  <2>3. ShardsPast(job.shards)'
    BY <1>2 DEF ShardsPast, NoShards
  <2>4. \A n : SnapshotPast(n) => SnapshotPast(n)'
    BY DEF SnapshotPast, InventoryPast, ShardsPast
  <2> QED
    BY <1>1, <1>4, <2>1, <2>2, <2>3, <2>4 DEF Past
<1>6. Observed'
  BY <1>2, <1>3, NothingKept DEF Observed
<1>7. Judged'
  BY <1>1, <1>4 DEF Judged
<1>8. Working'
  BY <1>2 DEF Working
<1>9. Settlement'
  BY <1>1, <1>2, NoneAssumption DEF Settlement, Working
<1> QED
  BY <1>5, <1>6, <1>7, <1>8, <1>9

LEMMA CorpusView ==
  ASSUME ExactInv, corpus # None
  PROVE  /\ store # None => Kept(store.shards, corpus.inventory, corpus.owed)
         /\ Kept(job.shards, corpus.inventory, corpus.owed)
<1>1. [inventory |-> corpus.inventory, owed |-> corpus.owed] \in Views
  BY DEF Views
<1> QED
  BY <1>1 DEF ExactInv, Observed

LEMMA ExactDescribe ==
  ASSUME ExactInv, RefreshInv, Describe
  PROVE  ExactInv'
<1> DEFINE snapshot == [inventory |-> job.inventory, texts |-> corpus.texts, qualify |-> FALSE,
                        generation |-> None, qualified |-> [s \in Owner |-> None]]
<1>1. /\ corpus \in Corpora /\ job.inventory \in Inventories /\ corpus.inventory = job.inventory
      /\ corpus # None /\ job.stage = "observe"
  BY NoneAssumption DEF RefreshInv, TypeOK, CorpusIsForJob, Describe
<1>2. snapshot \in Snapshots /\ snapshot.inventory = job.inventory
  BY <1>1 DEF Snapshots, Corpora
<1>3. SnapshotPast(snapshot)
  BY <1>1 DEF SnapshotPast, ExactInv, Working
<1>4. Sound(snapshot, job.inventory, corpus.owed)
  BY DEF Sound, Complete, Judging
<1>5. store # None => Kept(store.shards, job.inventory, corpus.owed)
  BY <1>1, CorpusView
<1>6. Publish(snapshot, corpus.owed) /\ UNCHANGED <<disk, corpus, store, saved>>
  BY DEF Describe
<1> HIDE DEF snapshot
<1> QED
  BY <1>1, <1>2, <1>3, <1>4, <1>5, <1>6, ExactPublish

(* What a qualifying refresh no longer owes, it has read itself.           *)
LEMMA ExactQualify ==
  ASSUME ExactInv, RefreshInv, Qualify
  PROVE  ExactInv'
<1> DEFINE owed == corpus.owed \ (job.refreshed \union (Evaluated \intersect job.fresh))
           qualified == [s \in Owner |->
                          IF s \in Evaluated
                          THEN [text |-> corpus.texts[s], shard |-> job.shards[s]]
                          ELSE Prior(s)]
           snapshot == [inventory |-> job.inventory, texts |-> corpus.texts, qualify |-> TRUE,
                        generation |-> Candidate, qualified |-> qualified]
<1>1. /\ job \in Jobs /\ job.inventory \in Inventories /\ job.shards \in [Owner -> Inputs]
      /\ corpus \in Corpora /\ corpus.inventory = job.inventory
      /\ corpus # None /\ job.stage = "qualify"
  BY NoneAssumption DEF RefreshInv, TypeOK, CorpusIsForJob, Qualify
<1>2. \A s \in Owner : job.shards[s] # None
  BY <1>1, NoneAssumption
<1>3. job.refreshed \subseteq job.fresh
  BY <1>1, <1>2 DEF ExactInv, Working, Jobs
<1>4. \A s \in Owner \ owed : s \notin corpus.owed \/ s \in job.fresh
  BY <1>3
<1>5. Kept(job.shards, job.inventory, owed)
  BY <1>1, <1>4, CorpusView DEF Kept, ExactInv, Working
<1>6. store # None => Kept(store.shards, job.inventory, owed)
  BY <1>1, <1>4, CorpusView DEF Kept, ExactInv, Working
<1>7. ASSUME NEW s \in Owner, s \notin Evaluated
      PROVE  /\ job.previous # None /\ job.previous \in Held /\ Prior(s) # None
             /\ Prior(s) = job.previous.qualified[s]
             /\ s \notin job.refreshed
  BY <1>7 DEF Evaluated, Prior, Held
<1>8. \A s \in Owner : qualified[s] # None
  <2> TAKE s \in Owner
  <2>1. CASE s \in Evaluated
    <3>1. qualified[s] = [text |-> corpus.texts[s], shard |-> job.shards[s]]
      BY <2>1
    <3>2. qualified[s] \in Qualifications
      BY <1>1, <3>1 DEF Qualifications, Corpora
    <3> QED
      BY <3>2, NoneAssumption
  <2>2. CASE s \notin Evaluated
    BY <1>7, <2>2
  <2> QED
    BY <2>1, <2>2
<1>9. Judging(snapshot, job.inventory, owed)
  <2> SUFFICES ASSUME NEW s \in Owner \ owed
               PROVE  AtLeast(qualified[s].shard, job.inventory[s])
    BY DEF Judging
  <2>1. CASE s \in Evaluated
    <3>1. qualified[s].shard = job.shards[s]
      BY <2>1
    <3> QED
      BY <1>2, <1>5, <3>1 DEF Kept
  <2>2. CASE s \notin Evaluated
    <3>1. s \notin corpus.owed
      BY <1>7, <2>2
    <3>2. Judging(job.previous, corpus.inventory, corpus.owed)
      BY <1>7, <2>2 DEF ExactInv, Judged, Sound
    <3>3. qualified[s] = Prior(s)
      BY <2>2
    <3> QED
      BY <1>1, <1>7, <2>2, <3>1, <3>2, <3>3 DEF Judging
  <2> QED
    BY <2>1, <2>2
<1>10. \A s \in Owner : AtLeast(disk[s], qualified[s].shard)
  <2> TAKE s \in Owner
  <2>1. CASE s \in Evaluated
    <3>1. qualified[s].shard = job.shards[s]
      BY <2>1
    <3> QED
      BY <1>2, <3>1 DEF ExactInv, Past, ShardsPast
  <2>2. CASE s \notin Evaluated
    <3>1. qualified[s] = Prior(s)
      BY <2>2
    <3>2. SnapshotPast(job.previous)
      BY <1>7, <2>2 DEF ExactInv, Past
    <3> QED
      BY <1>7, <2>2, <3>1, <3>2 DEF SnapshotPast
  <2> QED
    BY <2>1, <2>2
<1>11. Candidate \in Generations
  BY <1>1 DEF Candidate, Generations, Shards
<1>12. snapshot \in Snapshots
  <2>1. qualified \in [Owner -> Qualifications \union {None}]
    BY <1>1, <1>7 DEF Qualifications, Corpora, Jobs, Snapshots
  <2> HIDE DEF qualified
  <2> QED
    BY <1>1, <1>11, <2>1 DEF Snapshots, Corpora
<1>13. Publish(snapshot, owed) /\ corpus' = [corpus EXCEPT !.owed = owed]
       /\ UNCHANGED <<disk, store, saved>>
  BY DEF Qualify
<1> HIDE DEF qualified, owed
<1>14. /\ corpus' # None /\ corpus'.inventory = job.inventory /\ corpus'.owed = owed
  <2>1. owed \in SUBSET Owner
    BY <1>1 DEF owed, Corpora
  <2>2. corpus' \in Corpora
    BY <1>1, <1>13, <2>1 DEF Corpora
  <2> QED
    BY <1>1, <1>13, <2>2, NoneAssumption DEF Corpora
<1>15. SnapshotPast(snapshot)
  BY <1>1, <1>10 DEF SnapshotPast, ExactInv, Working, Past, Candidate
<1>16. Sound(snapshot, job.inventory, owed)
  <2>1. Candidate # None
    BY <1>11, NoneAssumption
  <2> QED
    BY <1>2, <1>5, <1>8, <1>9, <2>1 DEF Sound, Complete, Candidate
<1>17. snapshot.inventory = job.inventory
  OBVIOUS
<1> HIDE DEF snapshot
<1> QED
  BY <1>1, <1>6, <1>12, <1>13, <1>14, <1>15, <1>16, <1>17, ExactPublish

(* The disk only moves on.                                                 *)
LEMMA ExactEdit ==
  ASSUME ExactInv, RefreshInv, Edit
  PROVE  ExactInv'
<1> USE DEF ExactInv
<1>1. /\ UNCHANGED <<corpus, current, store, saved, pending>> /\ ~settled'
      /\ job' = [job EXCEPT !.quiet = FALSE] /\ job \in Jobs
      /\ disk \in Inventories /\ disk' \in Inventories
  BY EditStep DEF Edit, RefreshInv, TypeOK
<1>2. /\ job'.stage = job.stage /\ job'.inventory = job.inventory
      /\ job'.previous = job.previous /\ job'.refreshed = job.refreshed
      /\ job'.fresh = job.fresh /\ ~job'.quiet /\ job'.shards = job.shards
  BY <1>1 DEF Jobs
<1>3. \A s \in Owner : AtLeast(disk'[s], disk[s])
  BY <1>1 DEF Edit, AtLeast, Inventories, Inputs
<1>4. Views' = Views /\ Durable' = Durable /\ Held' = Held
  BY <1>1, <1>2 DEF Views, Durable, Held
<1>5. ASSUME NEW s \in Owner, NEW x \in Inputs, AtLeast(disk[s], x)
      PROVE  AtLeast(disk'[s], x)
  BY <1>1, <1>3, <1>5, AtLeastTransitive DEF Inventories
<1>6. ASSUME NEW v \in Inventories, InventoryPast(v)
      PROVE  InventoryPast(v)'
  BY <1>5, <1>6 DEF InventoryPast, Inventories
<1>7. ASSUME NEW shards \in Shards, ShardsPast(shards)
      PROVE  \A s \in Owner : shards[s] # None => AtLeast(disk'[s], shards[s])
  BY <1>5, <1>7 DEF ShardsPast, Shards
<1>8. ASSUME NEW n \in Snapshots, SnapshotPast(n), Complete(n)
      PROVE  SnapshotPast(n)'
  <2>1. \A s \in Owner : AtLeast(disk'[s], n.inventory[s])
    BY <1>6, <1>8 DEF SnapshotPast, Snapshots, InventoryPast
  <2>2. n.qualify => \A s \in Owner : n.generation.shards[s] # None
                       => AtLeast(disk'[s], n.generation.shards[s])
    BY <1>7, <1>8 DEF SnapshotPast, Complete, Snapshots, Generations
  <2>3. \A s \in Owner : n.qualified[s] # None => AtLeast(disk'[s], n.qualified[s].shard)
    BY <1>5, <1>8 DEF SnapshotPast, Snapshots, Qualifications
  <2> QED
    BY <2>1, <2>2, <2>3 DEF SnapshotPast, InventoryPast, ShardsPast
<1>9. Past'
  <2>1. \A view \in Views' : InventoryPast(view.inventory)'
    BY <1>4, <1>6, ViewTypes DEF Past, RefreshInv
  <2>2. store' # None => ShardsPast(store.shards)'
    BY <1>1, <1>7 DEF Past, ShardsPast, RefreshInv, TypeOK, Generations
  <2>3. ShardsPast(job.shards)'
    BY <1>1, <1>2, <1>7 DEF Past, ShardsPast, Jobs
  <2>4. \A n \in Held' : SnapshotPast(n)'
    BY <1>1, <1>4, <1>8 DEF Past, Judged, Sound, Held, Jobs, RefreshInv, TypeOK
  <2>5. \A c \in Durable' : SnapshotPast(c.snapshot)'
    BY <1>4, <1>8 DEF Past, Judged, Sound, Durable, Checkpoints, RefreshInv, TypeOK
  <2> QED
    BY <2>1, <2>2, <2>3, <2>4, <2>5 DEF Past
<1>10. Observed'
  BY <1>1, <1>2, <1>4 DEF Observed
<1>11. Judged'
  BY <1>1, <1>4 DEF Judged
<1>12. Working'
  <2>1. job'.stage # "idle" => InventoryPast(job.inventory)'
    BY <1>2, <1>6 DEF Working, RefreshInv, TypeOK
  <2> QED
    BY <1>1, <1>2, <1>4, <2>1 DEF Working
<1>13. Settlement'
  BY <1>1 DEF Settlement
<1> QED
  BY <1>9, <1>10, <1>11, <1>12, <1>13

(* Another process that observes leaves what is on disk; it may leave a    *)
(* checkpoint of it only while this one is between two refreshes.          *)
LEMMA ExactRival ==
  ASSUME ~Overlapping, ExactInv, RefreshInv, Rival
  PROVE  ExactInv'
<1> USE DEF ExactInv
<1> DEFINE observed(S) == [manifest |-> disk,
                           shards |-> [s \in Owner |-> IF s \in S THEN disk[s] ELSE None]]
           checkpoint(S) ==
             [owed |-> {}, snapshot |->
               [inventory |-> disk, texts |-> [s \in Owner |-> disk[s].text], qualify |-> TRUE,
                generation |-> observed(S),
                qualified |-> [s \in Owner |-> [text |-> disk[s].text, shard |-> disk[s]]]]]
<1>1. PICK S \in SUBSET Owner :
        /\ store' = observed(S)
        /\ \/ saved' = saved
           \/ S = Owner /\ job.stage = "idle" /\ saved' = checkpoint(S)
  BY DEF Rival
<1>2. UNCHANGED <<disk, corpus, current, pending, job, settled>> /\ disk \in Inventories
  BY DEF Rival, RefreshInv, TypeOK
<1>3. \A s \in Owner : store'.shards[s] = IF s \in S THEN disk[s] ELSE None
  BY <1>1
<1>4. \A s \in Owner : AtLeast(disk[s], disk[s])
  BY <1>2, AtLeastReflexive DEF Inventories
<1>5. InventoryPast(disk)
  BY <1>4 DEF InventoryPast
<1> DEFINE new == [inventory |-> disk, owed |-> {}]
<1>6. /\ saved' # saved => /\ checkpoint(S).snapshot.inventory = disk /\ checkpoint(S).owed = {}
                           /\ job.stage = "idle" /\ saved' = checkpoint(S)
      /\ \A s \in Owner : /\ checkpoint(S).snapshot.generation.shards[s]
                               = IF s \in S THEN disk[s] ELSE None
                          /\ checkpoint(S).snapshot.qualified[s].shard = disk[s]
  BY <1>1
<1>7. S = Owner \/ saved' = saved
  BY <1>1
<1>8. SnapshotPast(checkpoint(S).snapshot)
  BY <1>4, <1>5 DEF SnapshotPast, ShardsPast
<1>9. S = Owner => Sound(checkpoint(S).snapshot, disk, {})
  <2> SUFFICES ASSUME S = Owner PROVE Sound(checkpoint(S).snapshot, disk, {})
    OBVIOUS
  <2>1. \A s \in Owner : /\ checkpoint(S).snapshot.generation.shards[s] = disk[s]
                         /\ checkpoint(S).snapshot.qualified[s].shard = disk[s]
                         /\ checkpoint(S).snapshot.qualified[s] \in Qualifications
                         /\ disk[s] \in Inputs
    BY <1>2 DEF Qualifications, Inventories, Inputs
  <2>3. checkpoint(S).snapshot.generation \in Generations
    <3>1. observed(S) \in Generations
      BY <1>2 DEF Generations, Shards, Inventories
    <3> HIDE DEF observed
    <3> QED
      BY <3>1
  <2> HIDE DEF checkpoint
  <2>2. Complete(checkpoint(S).snapshot)
    BY <2>1, <2>3, NoneAssumption DEF Complete
  <2> QED
    BY <1>4, <2>1, <2>2 DEF Sound, Kept, Judging
<1> HIDE DEF observed, checkpoint
<1>10. Views' \subseteq Views \union {new} /\ (saved' = saved => Views' = Views)
  BY <1>2, <1>6 DEF Views
<1>11. Held' = Held /\ Durable' \subseteq Durable \union {saved'}
  BY <1>2 DEF Held, Durable
<1>12. Past'
  <2>1. \A view \in Views' : InventoryPast(view.inventory)'
    BY <1>2, <1>5, <1>10 DEF Past, InventoryPast
  <2>2. ShardsPast(store.shards)' /\ ShardsPast(job.shards)'
    BY <1>2, <1>3, <1>4 DEF Past, ShardsPast
  <2>3. \A n : SnapshotPast(n) => SnapshotPast(n)'
    BY <1>2 DEF SnapshotPast, InventoryPast, ShardsPast
  <2>4. \A c \in Durable' : SnapshotPast(c.snapshot)
    BY <1>6, <1>8, <1>11 DEF Past, Durable
  <2> QED
    BY <1>11, <2>1, <2>2, <2>3, <2>4 DEF Past
<1>13. Observed'
  <2>1. \A view \in Views \union {new} : Kept(store'.shards, view.inventory, view.owed)
    BY <1>3, <1>5 DEF Past, Kept, InventoryPast
  <2>2. \A view \in Views' : Kept(job.shards, view.inventory, view.owed)
    <3>1. CASE saved' = saved
      BY <1>10, <3>1 DEF Observed
    <3>2. CASE saved' # saved
      BY <1>6, <3>2, NothingKept DEF Working
    <3> QED
      BY <3>1, <3>2
  <2> QED
    BY <1>2, <1>10, <2>1, <2>2 DEF Observed
<1>14. Judged'
  <2>1. \A c \in Durable' : Sound(c.snapshot, c.snapshot.inventory, c.owed)
    BY <1>6, <1>7, <1>9, <1>11 DEF Judged, Durable
  <2> QED
    BY <1>2, <1>11, <2>1 DEF Judged
<1>15. Working'
  <2>1. InventoryPast(job.inventory) => InventoryPast(job.inventory)'
    BY <1>2 DEF InventoryPast
  <2>2. job'.stage # "idle" => Views' = Views
    BY <1>2, <1>6, <1>10
  <2>3. job.stage = "qualify" =>
          \A s \in Owner : store'.shards[s] # None => AtLeast(store'.shards[s], job.inventory[s])
    BY <1>3 DEF Working, InventoryPast
  <2>4. \A s \in job.fresh : s \in Owner
    BY DEF RefreshInv, TypeOK, Jobs
  <2> QED
    BY <1>2, <2>1, <2>2, <2>3, <2>4 DEF Working
<1>16. Settlement'
  BY <1>2 DEF Settlement
<1> QED
  BY <1>12, <1>13, <1>14, <1>15, <1>16

LEMMA ExactStep ==
  ASSUME ~Overlapping, ExactInv, RefreshInv, [Next]_vars
  PROVE  ExactInv'
<1>1. CASE \E qualify \in BOOLEAN : \E hints \in Hints : Begin(qualify, hints)
  BY <1>1, ExactBegin
<1>2. CASE LoadExact
  BY <1>2, ExactLoadExact
<1>3. CASE LoadCorpus \/ LoadMiss
  BY <1>3, ExactLoadOther
<1>4. CASE Compile
  BY <1>4, ExactCompile
<1>5. CASE Describe
  BY <1>5, ExactDescribe
<1>6. CASE Observe
  BY <1>6, ExactObserve
<1>7. CASE \E s \in Owner : Read(s)
  BY <1>7, ExactRead
<1>8. CASE Commit
  BY <1>8, ExactCommit
<1>9. CASE Qualify
  BY <1>9, ExactQualify
<1>10. CASE WriteCheckpoint
  BY <1>10, ExactWrite
<1>11. CASE Edit
  BY <1>11, ExactEdit
<1>12. CASE Fail
  BY <1>12, ExactIdle DEF Fail, Throw, ExactInv, Settlement
<1>13. CASE Crash
  BY <1>13, ExactIdle DEF Crash
<1>14. CASE Rival
  BY <1>14, ExactRival
<1>15. CASE UNCHANGED vars
  <2>1. Views' = Views /\ Held' = Held /\ Durable' = Durable
    BY <1>15 DEF vars, Views, Held, Durable
  <2>2. Past' /\ Observed'
    BY <1>15, <2>1, PastFrame, ObservedFrame DEF vars, ExactInv
  <2>3. InventoryPast(job.inventory) => InventoryPast(job.inventory)'
    BY <1>15 DEF vars, InventoryPast
  <2> QED
    BY <1>15, <2>1, <2>2, <2>3 DEF vars, ExactInv, Judged, Working, Settlement
<1> QED
  BY <1>1, <1>2, <1>3, <1>4, <1>5, <1>6, <1>7, <1>8, <1>9, <1>10, <1>11, <1>12, <1>13, <1>14,
     <1>15
  DEF Next, Refresh, Environment

(* What is no older than the disk and no newer is what is on the disk.     *)
LEMMA ExactFollows == ExactInv /\ RefreshInv => ExactUnlessOwed
<1> SUFFICES ASSUME ExactInv, RefreshInv, settled, current.qualify,
                    NEW s \in Owner \ corpus.owed
             PROVE  ExactFor(current, s)
  BY DEF ExactUnlessOwed
<1>1. current # None /\ current.inventory = disk
  BY DEF ExactInv, Settlement
<1>2. /\ current \in Held /\ current \in Snapshots /\ disk \in Inventories
      /\ CoherentSnapshot(current)
  BY <1>1 DEF Held, RefreshInv, TypeOK, Coherent
<1>3. Sound(current, corpus.inventory, corpus.owed) /\ corpus.inventory[s] = disk[s]
  BY <1>1, <1>2 DEF ExactInv, Judged
<1>4. SnapshotPast(current)
  BY <1>2 DEF ExactInv, Past
<1>5. /\ current.generation # None /\ current.generation.shards[s] # None
      /\ current.qualified[s] # None
  BY <1>3 DEF Sound, Complete
<1>6. disk[s] \in Inputs /\ current.qualified[s] \in Qualifications
  BY <1>2, <1>5 DEF Inventories, Snapshots
<1>7. current.qualified[s] = [text |-> disk[s].text, shard |-> disk[s]]
  <2>1. AtLeast(current.qualified[s].shard, disk[s]) /\ AtLeast(disk[s], current.qualified[s].shard)
    BY <1>3, <1>4, <1>5 DEF Sound, Judging, SnapshotPast
  <2>2. current.qualified[s].shard = disk[s]
    BY <1>6, <2>1, AtLeastAntisymmetric DEF Qualifications
  <2>3. current.qualified[s].text = disk[s].text
    BY <1>1, <1>2, <1>5 DEF CoherentSnapshot
  <2> QED
    BY <1>6, <2>2, <2>3 DEF Qualifications
<1>8. current.generation.shards[s] = disk[s]
  <2>1. /\ AtLeast(current.generation.shards[s], disk[s])
        /\ AtLeast(disk[s], current.generation.shards[s])
    BY <1>3, <1>4, <1>5 DEF Sound, Kept, SnapshotPast, ShardsPast
  <2>2. current.generation.shards[s] \in Inputs
    BY <1>2, <1>5 DEF Snapshots, Generations, Shards
  <2> QED
    BY <1>6, <2>1, <2>2, AtLeastAntisymmetric
<1>9. current.texts[s] = disk[s].text
  BY <1>1, <1>2 DEF CoherentSnapshot
<1> QED
  BY <1>7, <1>8, <1>9 DEF ExactFor

(* As long as no other process saves a checkpoint in the middle of a       *)
(* refresh, one during which nothing was edited returns every owner as it  *)
(* is on disk, observed and judged, except those its corpus still owes to  *)
(* a refresh that failed: whatever was kept from the store, from the last  *)
(* snapshot or from a checkpoint, and whoever crashed or committed.        *)
THEOREM QuietRefreshesAreExact == ~Overlapping => (Spec => []ExactUnlessOwed)
<1> SUFFICES ASSUME ~Overlapping PROVE Spec => []ExactUnlessOwed
  OBVIOUS
<1>1. ExactInv /\ RefreshInv /\ [Next]_vars => ExactInv'
  BY ExactStep
<1> QED
  BY <1>1, ExactInit, ExactFollows, RefreshInvariance, PTL DEF Spec
=============================================================================
