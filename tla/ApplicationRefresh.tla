-------------------------- MODULE ApplicationRefresh --------------------------
(***************************************************************************)
(* How a repository on disk becomes a published application snapshot:      *)
(* src/application/service.ts, with the corpus refresh of                  *)
(* src/application/change/refresh.ts, the observation generation of        *)
(* src/application/observation/materialize.ts and the qualifications it    *)
(* evaluates or rebinds.                                                   *)
(*                                                                         *)
(* A refresh is a pipeline of increments.  The corpus decides, from the    *)
(* inventory it was compiled for, which owners to observe again; the       *)
(* observation keeps the shards of the others as the store has them; the   *)
(* qualification keeps their results as the last snapshot has them.  Each  *)
(* layer has its own memory, and files change, calls fail, processes die   *)
(* and other processes commit to the same store between any two of them.   *)
(*                                                                         *)
(* A specification owns a text (its normative inputs) and evidence (the    *)
(* tests and files it is observed against).  Versions only grow: an edit   *)
(* that restores an earlier content is outside the model, see the README.  *)
(***************************************************************************)
EXTENDS Naturals, FiniteSets

CONSTANTS Owner,                \* the specifications of the repository
          None,
          Overlapping,          \* TRUE when others save checkpoints while this process refreshes
          MaxEdits, MaxUpsets   \* bounds on edits, and on failures and other processes

ASSUME RefreshAssumption ==
  Overlapping \in BOOLEAN /\ MaxEdits \in Nat /\ MaxUpsets \in Nat

VARIABLES disk,     \* disk[s]: the text and the evidence of s as they are now
          corpus,   \* #corpus: the compiled specifications and their inventory
          current,  \* #current: the last published snapshot
          store,    \* the store's current observation generation
          saved,    \* the durable checkpoint
          pending,  \* #pendingCheckpoint
          job,      \* the refresh in progress
          settled,  \* history: the last refresh returned and nothing was edited since it began
          bounds    \* what the environment has done

vars == <<disk, corpus, current, store, saved, pending, job, settled, bounds>>

Inputs == [text : Nat, evidence : Nat]
Inventories == [Owner -> Inputs]

\* A shard is what was observed of a specification, with the text it was observed for.
Shards == [Owner -> Inputs \union {None}]
Generations == [manifest : Inventories, shards : Shards]

\* A qualification: the text it judges and the shard it judges it by.
Qualifications == [text : Nat, shard : Inputs]

Snapshots ==
  [inventory : Inventories, texts : [Owner -> Nat], qualify : BOOLEAN,
   generation : Generations \union {None}, qualified : [Owner -> Qualifications \union {None}]]

\* owed is history: the owners this corpus has reported as changed to refreshes of which none
\* has completed, and that none has since happened to observe and evaluate.
Corpora == [inventory : Inventories, texts : [Owner -> Nat], owed : SUBSET Owner]

\* None stands for nothing the program holds.
ASSUME NoneAssumption ==
  None \notin Corpora \union Snapshots \union Generations \union Qualifications \union Inputs

Checkpoints == [snapshot : Snapshots, owed : SUBSET Owner]

Stages == {"idle", "load", "compile", "observe", "reading", "qualify"}
Hints == {{}} \union {{<<s, part>>} : s \in Owner, part \in {"text", "evidence"}}

\* A refresh: its inventory and options, the snapshot it may reuse, the owners the corpus
\* refreshed, the generation it extends, the shards it has and which of them it read itself.
Jobs ==
  [stage : Stages, inventory : Inventories \union {None}, qualify : BOOLEAN,
   hints : Hints, previous : Snapshots \union {None}, refreshed : SUBSET Owner,
   base : Generations \union {None}, shards : Shards,
   fresh : SUBSET Owner, quiet : BOOLEAN]

NoShards == [s \in Owner |-> None]
Present(shards) == {s \in Owner : shards[s] # None}

Idle == [stage |-> "idle", inventory |-> None, qualify |-> FALSE, hints |-> {},
         previous |-> None, refreshed |-> {}, base |-> None, shards |-> NoShards,
         fresh |-> {}, quiet |-> FALSE]

TypeOK ==
  /\ disk \in Inventories
  /\ corpus \in Corpora \union {None}
  /\ current \in Snapshots \union {None}
  /\ store \in Generations \union {None}
  /\ saved \in Checkpoints \union {None} /\ pending \in Checkpoints \union {None}
  /\ job \in Jobs
  /\ job.stage # "idle" => job.inventory \in Inventories
  /\ job.stage \in {"observe", "reading", "qualify"} => corpus \in Corpora
  /\ job.stage = "qualify" => job.shards \in [Owner -> Inputs]
  /\ settled \in BOOLEAN
  /\ bounds \in [edits : 0 .. MaxEdits, upsets : 0 .. MaxUpsets]

Init ==
  /\ disk = [s \in Owner |-> [text |-> 0, evidence |-> 0]]
  /\ corpus = None /\ current = None /\ store = None /\ saved = None /\ pending = None
  /\ job = Idle /\ settled = FALSE
  /\ bounds = [edits |-> 0, upsets |-> 0]

-----------------------------------------------------------------------------
(* The refresh. *)

\* Publish a snapshot, schedule its checkpoint, and return.
Publish(snapshot, owed) ==
  /\ current' = snapshot
  /\ pending' = [snapshot |-> snapshot, owed |-> owed]
  /\ settled' = job.quiet
  /\ job' = Idle

\* A restored snapshot is published as it is; it is not written again.
Restore(snapshot) ==
  /\ current' = snapshot
  /\ settled' = job.quiet
  /\ job' = Idle
  /\ UNCHANGED pending

\* The fast path: the same inventory, request, and no hint.
Unchanged(qualify, hints) ==
  /\ current # None /\ hints = {}
  /\ current.inventory = disk /\ current.qualify = qualify

Begin(qualify, hints) ==
  /\ job.stage = "idle"
  /\ IF Unchanged(qualify, hints)
     THEN settled' = TRUE /\ UNCHANGED job
     ELSE /\ settled' = FALSE
          /\ job' = [Idle EXCEPT !.inventory = disk, !.qualify = qualify, !.hints = hints,
                       !.previous = current, !.quiet = TRUE,
                       !.stage = IF current = None /\ hints = {} THEN "load" ELSE "compile"]
  /\ UNCHANGED <<disk, corpus, current, store, saved, pending, bounds>>

Restored == [inventory |-> saved.snapshot.inventory, texts |-> saved.snapshot.texts,
             owed |-> saved.owed]

Exact == saved # None /\ saved.snapshot.inventory = job.inventory
                      /\ saved.snapshot.qualify = job.qualify

\* A checkpoint of this inventory and request is the answer, if the store still has its
\* generation; otherwise the corpus is dropped and everything is compiled.
LoadExact ==
  /\ job.stage = "load" /\ Exact
  /\ \/ /\ corpus' = Restored
        /\ Restore(saved.snapshot)
     \/ /\ saved.snapshot.generation \notin {None, store}
        /\ corpus' = None
        /\ job' = [job EXCEPT !.stage = "compile"]
        /\ UNCHANGED <<current, pending, settled>>
  /\ UNCHANGED <<disk, store, saved, bounds>>

\* Any other checkpoint gives a corpus to start from and qualifications to reuse.
LoadCorpus ==
  /\ job.stage = "load" /\ saved # None /\ ~Exact
  /\ corpus' = Restored
  /\ job' = [job EXCEPT !.stage = "compile", !.previous = saved.snapshot]
  /\ UNCHANGED <<disk, current, store, saved, pending, settled, bounds>>

\* There is no checkpoint, or it cannot be read.
LoadMiss ==
  /\ job.stage = "load"
  /\ job' = [job EXCEPT !.stage = "compile"]
  /\ UNCHANGED <<disk, corpus, current, store, saved, pending, settled, bounds>>

\* An error leaves everything as it is, the corpus included.
Throw == job' = Idle /\ UNCHANGED settled

Changed == {s \in Owner : corpus.inventory[s] # job.inventory[s]}

\* The owners to observe again: every one without a corpus, none when the inventory has not
\* moved, otherwise those with a changed or a hinted input.
Refreshed ==
  IF corpus = None THEN Owner
  ELSE IF Changed = {} THEN {}
  ELSE Changed \union {h[1] : h \in job.hints}

Compiled ==
  IF corpus = None THEN Owner
  ELSE IF Changed = {} THEN {}
  ELSE {s \in Owner : corpus.inventory[s].text # job.inventory[s].text \/ <<s, "text">> \in job.hints}

\* Compilation reads the files as they are now.
CompiledTexts ==
  [s \in Owner |-> IF s \in Compiled THEN disk[s].text ELSE corpus.texts[s]]

\* Mutant: what was compiled is not compared with the inventory.
Admissible_Unchecked(texts) == TRUE

\* assertSpecificationInventory
Admissible(texts) == \A s \in Owner : texts[s] = job.inventory[s].text

Compile ==
  /\ job.stage = "compile"
  /\ IF Admissible(CompiledTexts)
     THEN /\ corpus' = [inventory |-> job.inventory, texts |-> CompiledTexts,
                        owed |-> Refreshed \union IF corpus = None THEN {} ELSE corpus.owed]
          /\ job' = [job EXCEPT !.stage = "observe", !.refreshed = Refreshed]
          /\ UNCHANGED settled
     ELSE Throw /\ UNCHANGED corpus
  /\ UNCHANGED <<disk, current, store, saved, pending, bounds>>

\* A refresh that does not qualify publishes the corpus alone.
Describe ==
  /\ job.stage = "observe" /\ ~job.qualify
  /\ Publish([inventory |-> job.inventory, texts |-> corpus.texts, qualify |-> FALSE,
              generation |-> None, qualified |-> [s \in Owner |-> None]], corpus.owed)
  /\ UNCHANGED <<disk, corpus, store, saved, bounds>>

\* Mutant: a generation of fewer owners is taken for one of all.
Reusable_AnyOwners(g) == g # None /\ job.refreshed = {} /\ g.manifest = job.inventory

\* The current generation is the answer when nobody is to be observed again and it was made
\* for this inventory and these owners.
Reusable(g) ==
  g # None /\ job.refreshed = {} /\ g.manifest = job.inventory /\ Present(g.shards) = Owner

\* The owners whose shards are kept: those not to be refreshed, if anybody is.
Retainable(g) ==
  IF g = None \/ job.refreshed = {} THEN {} ELSE Present(g.shards) \ job.refreshed

Observe ==
  /\ job.stage = "observe" /\ job.qualify
  /\ job' = IF Reusable(store)
            THEN [job EXCEPT !.stage = "qualify", !.base = store, !.shards = store.shards]
            ELSE [job EXCEPT !.stage = "reading", !.base = store,
                    !.shards = [s \in Owner |->
                      IF s \in Retainable(store) THEN store.shards[s] ELSE None]]
  /\ UNCHANGED <<disk, corpus, current, store, saved, pending, settled, bounds>>

\* The evidence of an owner is read from disk, whatever the inventory says of it.
Read(s) ==
  /\ job.stage = "reading" /\ job.shards[s] = None
  /\ job' = [job EXCEPT
       !.shards[s] = [text |-> corpus.texts[s], evidence |-> disk[s].evidence],
       !.fresh = @ \union {s}]
  /\ UNCHANGED <<disk, corpus, current, store, saved, pending, settled, bounds>>

Candidate == [manifest |-> job.inventory, shards |-> job.shards]

\* The store accepts a generation over its current one; another process that committed the
\* same generation is joined, any other one wins.
Commit ==
  /\ job.stage = "reading" /\ Present(job.shards) = Owner
  /\ IF store \in {job.base, Candidate}
     THEN /\ store' = Candidate
          /\ job' = [job EXCEPT !.stage = "qualify"]
          /\ UNCHANGED settled
     ELSE Throw /\ UNCHANGED store
  /\ UNCHANGED <<disk, corpus, current, saved, pending, bounds>>

Prior(s) == IF job.previous = None THEN None ELSE job.previous.qualified[s]

\* Mutant: an owner whose specification is the same is never evaluated again.
Evaluated_ByIdentity ==
  {s \in Owner : Prior(s) = None \/ Prior(s).text # corpus.texts[s]}

\* The owners to judge again: those without a result, with another text, or refreshed.
Evaluated ==
  {s \in Owner : \/ Prior(s) = None
                 \/ Prior(s).text # corpus.texts[s]
                 \/ s \in job.refreshed}

\* Evaluate some owners, rebind the others' results to the new analysis, and publish.
Qualify ==
  LET owed == corpus.owed \ (job.refreshed \union (Evaluated \intersect job.fresh)) IN
  /\ job.stage = "qualify"
  /\ corpus' = [corpus EXCEPT !.owed = owed]
  /\ Publish([inventory |-> job.inventory, texts |-> corpus.texts, qualify |-> TRUE,
              generation |-> Candidate,
              qualified |-> [s \in Owner |->
                IF s \in Evaluated THEN [text |-> corpus.texts[s], shard |-> job.shards[s]]
                ELSE Prior(s)]], owed)
  /\ UNCHANGED <<disk, store, saved, bounds>>

\* The checkpoint writer, which runs after the refresh it saves.
WriteCheckpoint ==
  /\ pending # None
  /\ saved' = pending /\ pending' = None
  /\ UNCHANGED <<disk, corpus, current, store, job, settled, bounds>>

-----------------------------------------------------------------------------
(* The environment. *)

Edit ==
  /\ bounds.edits < MaxEdits
  /\ \E s \in Owner : \E part \in {"text", "evidence"} : disk' = [disk EXCEPT ![s][part] = @ + 1]
  /\ job' = [job EXCEPT !.quiet = FALSE]
  /\ settled' = FALSE
  /\ bounds' = [bounds EXCEPT !.edits = @ + 1]
  /\ UNCHANGED <<corpus, current, store, saved, pending>>

Upset ==
  /\ bounds.upsets < MaxUpsets
  /\ bounds' = [bounds EXCEPT !.upsets = @ + 1]

\* The caller aborts, a file cannot be read, the store is busy, a profile throws.
Fail ==
  /\ Upset /\ job.stage # "idle"
  /\ Throw
  /\ UNCHANGED <<disk, corpus, current, store, saved, pending>>

\* The process ends, with its memory.
Crash ==
  /\ Upset
  /\ corpus' = None /\ current' = None /\ pending' = None
  /\ job' = Idle /\ settled' = FALSE
  /\ UNCHANGED <<disk, store, saved>>

\* Another process of the same worktree observes some owners, all of them or a focus, and
\* one that has seen them all may leave a checkpoint.
Rival ==
  /\ Upset
  /\ \E S \in SUBSET Owner \ {{}} :
       LET generation == [manifest |-> disk,
                        shards |-> [s \in Owner |-> IF s \in S THEN disk[s] ELSE None]] IN
       /\ store' = generation
       /\ \/ UNCHANGED saved
          \/ /\ S = Owner /\ (job.stage = "idle" \/ Overlapping)
             /\ saved' = [owed |-> {}, snapshot |->
                  [inventory |-> disk, texts |-> [s \in Owner |-> disk[s].text], qualify |-> TRUE,
                   generation |-> generation,
                   qualified |-> [s \in Owner |-> [text |-> disk[s].text, shard |-> disk[s]]]]]
  /\ UNCHANGED <<disk, corpus, current, pending, job, settled>>

Refresh ==
  \/ \E qualify \in BOOLEAN : \E hints \in Hints : Begin(qualify, hints)
  \/ LoadExact \/ LoadCorpus \/ LoadMiss
  \/ Compile \/ Describe \/ Observe
  \/ \E s \in Owner : Read(s)
  \/ Commit \/ Qualify

Environment == Edit \/ Fail \/ Crash \/ Rival

Next == Refresh \/ WriteCheckpoint \/ Environment

Spec == Init /\ [][Next]_vars

-----------------------------------------------------------------------------
(* Properties. *)

CoherentSnapshot(n) ==
  \A s \in Owner :
    /\ n.texts[s] = n.inventory[s].text
    /\ n.qualified[s] # None => n.qualified[s].text = n.texts[s]

\* Whatever was hinted, retained, restored or raced, the specifications of a corpus and of a
\* snapshot are those of its inventory, and each qualification is of the text it comes with.
Coherent ==
  /\ corpus # None => \A s \in Owner : corpus.texts[s] = corpus.inventory[s].text
  /\ current # None => CoherentSnapshot(current)
  /\ saved # None => CoherentSnapshot(saved.snapshot)
  /\ pending # None => CoherentSnapshot(pending.snapshot)

\* s is in snapshot n as it is on disk, observed and judged.
ExactFor(n, s) ==
  /\ n.texts[s] = disk[s].text
  /\ n.generation.shards[s] = disk[s]
  /\ n.qualified[s] = [text |-> disk[s].text, shard |-> disk[s]]

\* A refresh during which nothing was edited returns every owner as it is on disk, except the
\* owners that the corpus has reported and no qualifying refresh has picked up since.
ExactUnlessOwed ==
  settled /\ current.qualify => \A s \in Owner \ corpus.owed : ExactFor(current, s)

\* Without the exception: "unchanged partitions are retained", and only those.
ExactWhenQuiet == settled /\ current.qualify => \A s \in Owner : ExactFor(current, s)
=============================================================================
