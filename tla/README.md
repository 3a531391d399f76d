# Codegraph: TLA+ verification

Codegraph analyses TypeScript repositories and checks that modules keep the contracts they
declare in `.spec` directories. This directory models the parts of it that are hard to get
right: the stores that hold the results of analysis, the protocol by which a native analyzer
publishes generations into them, the resident project and the pass pipeline that drive it, the
refresh that turns a repository on disk into a published snapshot, the checkpoints it leaves for
the next process, and the live server that shows it all. TLC checks the models on small
instances; TLAPS proves the central facts for every size.

Contents:

1. [The system](#1-the-system)
2. [Modules](#2-modules)
3. [Model checking](#3-model-checking)
4. [Proofs](#4-proofs)
5. [Disagreements between code and documents](#5-disagreements-between-code-and-documents)
6. [What is not modelled](#6-what-is-not-modelled)
7. [Plan](#7-plan)

Run the checks from this directory:

    tlc -workers 2 -config MCMemoryStore.cfg MCMemoryStore
    tlapm MemoryStoreProofs.tla

`PROJECT.json` lists every run with its properties, the source lines behind every definition
(`map`), a mutant of the code that each property catches (`mutants`), and the hazards of the
code with the properties that cover them (`hazards`).

## 1. The system

Facts about a program live in *generations*: immutable, content-addressed sets of *fact
shards*, in a *project universe*. A generation's id is a digest of its content, its sequence
a place in the order of commits. Everything else produces generations, reads them, or caches
what was concluded from them.

        files on disk
             |  inventory, edits, watch events
             v
     application service  <-------- live catalog (server) / command line
       corpus | observation | qualification        ^
             |        |                            | snapshots, readers
             |        v                            |
             |   analysis stores (memory, SQLite) -+
             |        ^
             v        | fact transactions
     resident project / pipeline  <--> native analyzer process (Go)

| component | state it keeps | operations | interacts by |
|---|---|---|---|
| analysis store, memory (`analysis/memory`, `analysis/internal`) | retained generations with lease counts, current sequences, recency of universes | commit, open, snapshotSet, dispose, release callbacks | calls; readers hold leases |
| analysis store, SQLite (`analysis/sqlite`) | the same in tables, shared by processes: generations, current, shards, leases with expiry, quarantine | the same, and verification at opening, lease renewal | database transactions and statements outside of them |
| TypeScript refresh protocol (`analysis/typescript/service.ts`, `universe-transaction.ts`, `native/`) | service: universe; analyzer: program, acknowledged base, pending candidate, pendingFull | refresh rounds; analyze, replay, commit, acknowledge | request/response over pipes, store commits |
| resident project (`typescript/project`) | service, current reader, pending transactions, queue | refresh, open, replaceSession, dispose | a promise queue; disposal outside of it |
| pass pipeline (`typescript/pipeline.ts`, `analysis/pass`) | private store and shards, pending namespaces and modules | refresh | private and public store |
| process session (`analysis/protocol`) | pending requests, failure | request, acknowledge, abort, fail, dispose | child process |
| application service (`application/`) | corpus, current snapshot, records with readers, pending checkpoint | refresh, open, settle, dispose | analysis stores, workspace checkpoint, caller |
| workspace checkpoint (`workspace/checkpoint`) | content-addressed blobs and manifests on disk | load, publish, prune, remove | files shared by processes |
| live catalog (`server/`) | catalog, reader, pending changes, rebuild scheduler, verifiers | rebuild, verify, edit, reveal, dispose | application service, watcher, HTTP clients |
| caches and installs (`cache`, `cli/semantic-pack`, `distribution`) | bounded directories | read, publish, prune, install | files shared by processes |
| specification, conformance, schema, repository, viewer | none that lasts | pure computations and input/output | |

What makes it hard:

- **Several processes, one store.** The development server, its verifiers and the command line
  share one SQLite file and one observation universe per worktree. Commits are optimistic; what
  was read before the writer lock is used after it; retention deletes under other processes.
- **Files never rest.** Inventory, compilation, observation and qualification read the disk at
  different times, from different layers' memory of what it held.
- **Everything fails halfway.** Callers abort, the analyzer dies, a store is busy, a projection
  throws, between any two of the steps that keep service, analyzer and store in agreement.
- **Incrementality.** Every layer keeps what did not change, so that forgetting a change once
  keeps a wrong answer for good.
- **Bounds.** Retained generations, resident universes, retries, leases and caches are bounded.

What makes each component correct:

- *Stores*: a reader keeps the generation it opened; the current generation is the newest; a
  commit is accepted only over the base it was made for; a stored generation is closed under the
  inputs its facts derive from; retention keeps no more than it must.
- *Refresh protocol*: the answer of an incremental analyzer is that of a cold one; what is
  published existed; a refresh returns nothing older than itself; once things rest, it converges.
- *Application*: a snapshot has one inventory; what is retained is what did not change; a
  checkpoint is as good as the snapshot it was made of.
- *Live catalog*: a change that was announced is shown; the queue never waits on itself; readers
  outlive their use.
- *Project, pipeline, sessions*: transactions are delivered once and in order; private and public
  state agree after any failure; disposal ends everything it started.
- *Checkpoint and caches*: a manifest's blobs exist; pruning spares what a publisher is using and
  bounds what is kept.

## 2. Modules

| module | models | state |
|---|---|---|
| `AnalysisStore` | the promise of a store, from the interface in `analysis/query/model.ts`: versions per universe, a head, and handles that pin versions | `versions`, `head`, `pins`, `open` |
| `FactTransactions` | contents of a generation as shards with facts, what a delta materializes to, and the two admission rules: the whole next generation (`internal/state.ts`) and the delta alone (`sqlite/materialization/validate.ts`) | constants only |
| `MemoryStore` | `analysis/memory/store.ts` | `retained` (values and lease counts), `current`, `before`/`recent` (the order of `#universes` and the most recent), `pins`, `closing` |
| `SQLiteStore` | `analysis/sqlite`: tables, leases, verification, retention; `work[p]` is the method a process is inside of | `generations`, `current`, `shards`, `leases`, `quarantined`, `work`, `pins` |
| `NativeLineage` | one TypeScript project: disk, service, analyzer, store, and a caller of either kind | `disk`, `head`, `native`, `service`, `setting`; history `published`, `seen`, `ledger` |
| `ResidentProject` | `typescript/project/project.ts` over the memory store it owns | `head`/`resident` (the store), `processes` (of analyzers, by what will become of them), `service`, `universe`, `reader`, `snapshots`, `pending`, `moved`, `shards`, `queue`, `work`, `closing`; history `mirror`, `touched`, `published` |
| `PassPipeline` | `typescript/pipeline.ts` with the staging of `analysis/pass/runner.ts` | `acked`/`pending` (the analyzer), `universe`, `private`, `shards`, `portable`, `dirty`, `owed`, `refresh`, `staged`, `ran`, `public`; history `told` |
| `ApplicationRefresh` | one application service: disk, corpus, snapshot, observation store, checkpoint | `disk`, `corpus`, `current`, `store`, `saved`, `pending`, `job`; history `settled`, `corpus.owed` |
| `CheckpointStore` | `workspace/checkpoint/store.ts`: one directory, several processes | `manifests`, `blobs`, `clock`, `op`, `trusted`, `seen`; history `risk`, `stake`, `behind`, `unsure` |
| `LiveCatalog` | `server/catalog-runtime.ts`, `reload.ts`, `watch.ts`, `catalog-checkpoint.ts` | `disk`, `events`, `app`, `index`, `catalog`, `retained`, `verified`, `pending`, `observed`, `op`, `queue`, `scheduler`, `clock`, `closing`, what is being and has been saved; history `rejected`, `owed`, `tainted` |
| `MC...` | model values, small constant functions, symmetry | |
| `...Proofs` | theorems of the module they extend; `MemoryStoreProofs` and `SQLiteStoreProofs` have the step simulations of `AnalysisStore` too, the latter also the lemma on admission | |

Operators whose comment calls them a slip or a mutant are small mistakes of the code, kept beside
the definition they are a mistake of; no specification uses them. `PROJECT.json` names the
property each of them violates.

**Composition.** `MemoryStore` and `SQLiteStore` use `FactTransactions` and each implements
`AnalysisStore` under a refinement mapping (`Promise == INSTANCE AnalysisStore WITH ...`). A
version of the abstract store is a sequence with its content; `head` is the current sequence;
pins are the same in all three. In the memory store the mapping hides lease counts and order of
use; in the SQLite store it hides shards, leases, quarantine and everything a process has read
but not written, so that a commit of three statements is one `Commit` at its write.
`NativeLineage`, `PassPipeline` and `ApplicationRefresh` take a store to be what `AnalysisStore`
promises: a current generation per universe and an atomic optimistic commit. `ResidentProject`
composes project and memory store, because what it can go wrong about is what the store drops: it
has the store's eviction and the leases of its own readers, one generation to a universe.
`PassPipeline` has the analyzer's session reduced to acknowledged base and candidate, as
`NativeLineage` shows it to behave towards a caller that keeps it. `LiveCatalog` takes a refresh
of the application as one step; `ApplicationRefresh` is about what happens inside of it.

**Granularity.** Node runs one callback at a time, and `node:sqlite` is synchronous: a method of
the memory store is one step, a method of the SQLite store one step per statement or transaction,
since other processes come in between them. In the other modules a step ends where the code awaits
something that lets files, faults, callers or other processes in. The compiler reads sources one
by one (`ReadSource`), the observation owners one by one (`Read`), a prune removes files one by one
(`RemoveBlob`). In `ResidentProject`, calls of the store and of its readers resolve in the
microtasks of the task that makes them and an answer of the analyzer begins a new task: a refresh is
one step from answer to answer, and a snapshot's release or `dispose` comes between these.

**Data.** Payloads, files and facts are model values. Digests are modelled by the content they
digest: the code compares ids where the models compare contents, and the models keep apart what
the digest does, sequence and content. In `FactTransactions` what a payload declares and derives
from is a constant function. In `PassPipeline` what a pass derives is the record of what it read,
so that two outputs are equal exactly when their inputs were. In `LiveCatalog` a specification is
shown with the versions of the files it was projected from and a verdict is the versions its
verifier read. In `CheckpointStore` a blob has the bytes of its digest or is damaged.

**Notable correspondences.**

- `MemoryStore.closing`: a snapshot set releases its universes one after the other, collecting after
  each; `closing` is the handle that is doing so, and nothing else runs until it has finished.
- `SQLiteStore` leases have an owner and a `lapsed` flag: time only matters by the expiry of the
  timeout. `Lapse` and `Renew` stand for clocks and timers. `Responsive` says whether one of the
  three renewals of a window always lands; the code cannot guarantee it, so both are checked.
- `NativeLineage.setting.restarting` tells the two callers apart: `project.ts` replaces its session
  after any failure, a direct caller of `service.ts` keeps it.
- `ApplicationRefresh.corpus.owed` is not in the code. It records the owners that a corpus has
  reported as changed and nobody has qualified since: precisely what the code forgets when a
  refresh fails (section 5), and it lets everything else be stated as an invariant.
  `LiveCatalog.owed` and `tainted` are the same for what a failed rebuild had been told of.
- `PassPipeline.told` is the native generation last published in the present stay of the pipeline
  in a universe. `owed`, unlike in the other modules, is the code's own (`#pendingSources`).
- `CheckpointStore.risk` and `stake` list, digest by digest, the artifacts that a prune may take
  from a publication. They are what the property `Whole` excepts and nothing reads them.
- `ResidentProject.processes` counts analyzer processes by `Fates`. One that is `serving` has a
  session that is not over. A session that is disposed of ends its process and awaits the exit
  (`ending`, `process-session.ts:444-460`); one that is aborted or fails has only sent a signal
  (`signalled`, 687-703), and to dispose of it then does nothing (445). `Exit` is the operating
  system's, so that a signalled process may outlast what signalled it.
- `ResidentProject.OpenedLate` is a provider that finishes an opening which dispose or the caller has
  aborted: `dispose` has seen no service (`project.ts:261`), the session becomes one (143), the check
  of the signal throws (149) and the catch disposes of it (168-171). An opening that fails is
  taken to leave no process.
- `ResidentProject.mirror` is a client that applies every transaction a refresh hands out.

## 3. Model checking

Every passing run explores its whole state space.

| run | question | instance |
|---|---|---|
| `memory_store` | do collection and eviction spare what is pinned and current, and does the store implement `AnalysisStore`? | 3 universes under a bound of 2, 2 handles, 2 commits each |
| `sqlite_verification` | does opening a database spare what other processes write meanwhile, with leases that lapse at any time, and does retention keep no more than it must? | 2 processes, 1 reader, 1 universe, 3 commits |
| `sqlite_snapshots` | do lease rows match holders and shards match generations, through failing releases, do readers keep what they opened, and does it all implement `AnalysisStore`? | 2 processes, 1 reader, 2 universes that share shards, 3 commits |
| `native_lineage` | is what an analyzer answers its program, is what is returned fresh and real, and does it converge? | 2 universes, 2 sources, 2 revisions; a caller that replaces failed sessions with 3 edits and 1 upset of any kind, and one that keeps them with 2 edits and 2 upsets |
| `resident_project` | is no update lost, repeated or reordered, do readers keep their universes, does a disposal end and leave no session, no reader and no process that was neither awaited nor signalled? | 2 universes in a store of 1, 3 refreshes, 1 opening, 1 replacement, 1 snapshot, 1 waiting call, 3 commits, 2 failures |
| `pass_pipeline` | is what is published what a cold build would give, is nothing unreported, do unchanged inputs publish nothing? | 2 passes, the second over the first and optional, 2 universes, 2 sources, 3 edits, 2 faults |
| `application_refresh` | is a snapshot of one inventory, and what it retains up to date? | 2 specifications, 2 edits, 2 upsets |
| `application_failed` | the same without the exception for owners whose refresh failed (violated) | 1 edit, 1 upset |
| `checkpoint_store` | does a manifest name artifacts that are there and good, and are the scopes bounded? | 2 processes, 2 scopes, 2 digests, limits of 1, 2 publications, 1 minute, 1 fault, any legal directory to start from |
| `live_catalog` | is what is shown of the snapshot it is shown with, are verdicts earned, and is a server at rest current and heard? | a provider and its consumer, 3 files, 2 edits, 1 request, 1 failure, 1 restart, events that do not wait for the initialization |
| `live_settles` | does the server come to rest and close? | the same without failures and restarts, events that wait |
| `live_evidence` | does code invalidate the evidence of importing specifications? (violated) | 2 edits, 2 requests |

**What the properties say, beyond types.**

- *Pins*: `LeasesCountHolders` and `PinnedRetained` (memory), `LeasesMatchPins` and
  `ReadersKeepGenerations` (SQLite), `ReadersRetained` (project): a count or row per holder through
  failures in the middle, and the value a reader opened, unchanged.
- *Retention*: `RetentionBounded` says of the SQLite store that nothing but the bound and the leased
  is kept, `ShardsExact` that shared shards go exactly when the last generation with them goes,
  `CurrentIsNewest` that the memory store's collection never takes the current generation.
- *Order*: `QuarantineSparesStored`, that verification, which deletes by sequence what it read
  before it had the lock, hits nothing, for a sequence is never used twice; `ImplementsStore`.
- *Incremental analysis*: `AnswerIsProgram` and `CommitLate` for every caller; `CandidateWasReal`,
  `FreshPublication` and `Converges` for the one that replaces its session. `FreshPublication` is
  stated input by input: a source that had moved may move back at the moment it is read, so that
  "unchanged" is said of a mixture of two moments, though of no input that is older than the
  refresh.
- *Delivery*: `UpdatesExact`: a client that applies the transactions a refresh returns, each to the
  base it names, holds the generation that was returned, and every source that has another revision
  than before is reported, whatever refreshes failed after they had committed. `NothingLeaks` and
  `DisposalEnds` are about a disposal that falls into an opening, a refresh or a replacement, a
  session that is opened too late included: every process serves the one service, or is awaited
  before the next session is opened and before the disposal ends, or has been signalled. Of a
  signalled process the first does not say that it has exited, for nobody waits for it (section 5);
  the second says that it exits in the end.
- *Pipeline*: `Coherent` compares what is published with what a cold build derives;
  `CompleteShards` is that the code's own assertion never fires; `NothingUnreported` and
  `QuietRetains` relate two publications, with failed refreshes and a replaced pipeline between.
- *Application*: `Coherent`, that no hint, retained specification, restored checkpoint or race
  mixes two inventories; `ExactUnlessOwed`, that a qualifying refresh during which nothing was
  edited returns the text, the observation and the judgement of what is on disk for every owner.
- *Checkpoint*: `Whole` promises that a published checkpoint can be loaded, except for artifacts
  that were damaged since; that a publisher found in place, or installed more than a minute before
  its manifest, while another process's prune had not read that manifest; that a prune had chosen
  before they came back; and that a prune of more than a minute removes. The exceptions are kept
  digest by digest, so that a scope with one such artifact still promises the others; without the
  second one, one publication and one prune suffice for a violation. `ScopesBounded` is about prunes
  that list and unlink under each other.
- *Live catalog*: `ShownOfSnapshot` and `VerdictsEarned` hold at any moment, across patches,
  restored catalogs and restarts. `QuietIsCurrent` and `QuietIsHeard` are about a server with
  nothing left to do: it shows the files as they are and its subscribers know; `Settles` that it
  gets there. What the watcher rejected is excepted, and what a failed rebuild had been told of: of
  the texts until a later rebuild has projected them (`owed`), of the verdicts for good
  (`tainted`). Without either exception `QuietIsCurrent` is violated (section 5).

**Bounds and why they are enough.** `MaxSequence` 2 or 3 with `MaxRetained` 1 means that each
commit may collect and a third one may come back to a content seen before. Three universes under
a bound of two are the fewest that need a choice of whom to evict. Two processes are the fewest
that race; what a third could add is a second commit between two statements of the first, which
one other process can also do. `FewCommits`, the constraint of `sqlite_snapshots`, spends three
commits on two universes and lets the last of them meet no other writer: a collection in one
universe, with shards of the other, and a race for each of the first two. In `NativeLineage` two
sources are the fewest with a mixture of two states, two revisions the fewest that can be reverted,
and three edits let one fall in discovery, one in reading and one between rounds. In
`ResidentProject` the code's store keeps two universes; with two universes under a bound of one
every change of universe evicts, as a third does in the code; three commits let two refreshes fail
or move before the one that hands everything out, and two failures let one session be aborted and the
next one be opened late or die beside the process of the first. In `PassPipeline` one pass over another is
the fewest with something to invalidate transitively, two failures let one refresh fail before and
one after the private generation advances, and three edits undo a change that a failed refresh
already holds. In `ApplicationRefresh` two owners are the fewest with one to refresh and one to
retain; two edits and two upsets give a change that is lost by one failure and covered up by
another change, or by another process. In `CheckpointStore` two publications by two processes over
a directory in any legal state, with limits of one, make every prune remove something of somebody,
and one minute is what ends a grace period. In `LiveCatalog` a provider with a resource and code
and a consumer with an anchor have every kind of file and one dependent; two edits let the second
fall into the rebuild of the first. The bounded counters are `bounds` and `setting` (edits, upsets,
requests, restarts, faults, publications, calls, commits), `edits` and `faults` of the pipeline,
`clock` of the checkpoints and sequences (`MaxSequence`); the retry counts `tries`, `rounds` and
`round` are the code's own.

**Symmetry** is used where no property is temporal over fairness and no constant function tells
the permuted values apart.

**Deadlock** is checked in `NativeLineage`, `PassPipeline` and `ApplicationRefresh`. The other
systems really stop: the stores, when all commits are used up and all handles closed; the project
and the server, when they are disposed of; the checkpoint directory, when every publication has
been made.

**Fairness.** Three runs have liveness properties, each under weak fairness of one disjunction, in
the last also of the exits.

- `native_lineage`, `WF_vars(Refresh)`: all the steps of service and analyzer, a caller that keeps
  refreshing, as the development server's watcher and the tests do, and a process that is
  scheduled. No step of the protocol waits for anything but the other party's next step, so
  fairness of the whole disjunction is enough, and none of its parts needs more.
- `live_settles`, `WF_vars(Serve)`: the event loop runs a timer, a file event or a queued operation
  when there is one. Edits, requests and the disposal are not fair.
- `resident_project`, `WF_vars(Run)` and `WF_vars(Exit(fate))`: the event loop runs what is chained
  to the queue and the disposal's steps, and a process exits that was told to end (it is sent
  SIGTERM after a second, `process-session.ts:453`) or was signalled. An analyzer that was asked
  need not answer, and one that opens need not finish: that `DisposalEnds` all the same rests on
  `dispose` aborting the openings and requests under way and ending the session.

No fairness is assumed of edits, faults or other processes; their number is bounded, which is what
"once they rest" means.

## 4. Proofs

| theorem | module | says |
|---|---|---|
| `DeltaAdmissionExact` | `SQLiteStoreProofs` | over a closed generation, the delta rules of the SQLite store admit exactly the transactions that the whole-generation rule of the memory store admits |
| `MemoryStoreTypes`, `LeasesAreExact`, `PinnedGenerationsSurvive`, `CurrentGenerationRetained` | `MemoryStoreProofs` | the memory store's types and invariants |
| `MemoryStoreImplements` | `MemoryStoreProofs` | the memory store implements `AnalysisStore` |
| `DatabaseTypes`, `VerificationSparesStored`, `RetentionIsBounded`, `ShardsAreShared` | `SQLiteStoreProofs` | the database's types, `QuarantineSparesStored`, `RetentionBounded` and `ShardsExact`, however leases lapse |
| `LeasesAreOfPins`, `ReadersKeepWhatTheyOpened`, `DatabaseImplements` | `SQLiteStoreProofs` | while renewals land (`Responsive`): `LeasesMatchPins`, `ReadersKeepGenerations`, and that any number of processes on one database implement `AnalysisStore` |
| `ApplicationRefreshTypes`, `SnapshotsAreCoherent` | `ApplicationRefreshProofs` | the types of a refresh and `Coherent` |
| `QuietRefreshesAreExact` | `ApplicationRefreshProofs` | `ExactUnlessOwed`, as long as no other process saves a checkpoint in the middle of a refresh (`~Overlapping`) |
| `TypeCorrect`, `BaseIsCommitted`, `PublicationIsFresh`, `CandidateIsReal` | `NativeLineageProofs` | the protocol's types, `CommitLate`, `FreshPublication` and `CandidateWasReal`, for any number of sources, edits and faults |
| `AnswerIsTheProgram` | `NativeLineageProofs` | `AnswerIsProgram`, as long as a declaration shape fails only under a caller that replaces its session |
| `TypeCorrect`, `ShardsComplete`, `GenerationsCoherent`, `EverythingReported` | `PassPipelineProofs` | the pipeline's types, `CompleteShards`, `Coherent` and `NothingUnreported`, for any plan of passes |
| `QuietIsRetained` | `PassPipelineProofs` | `QuietRetains`, when the capabilities of the whole plan are requested |
| `TypeCorrect`, `ShownIsProjected`, `VerdictsAreEarned`, `QuietIsUpToDate`, `SubscribersHear` | `LiveCatalogProofs` | the server's types, `ShownOfSnapshot`, `VerdictsEarned`, `QuietIsCurrent` and `QuietIsHeard`, for any number of specifications, edits, failures and restarts |
| `CheckpointTypes`, `CheckpointsAreWhole`, `ScopesAreBounded` | `CheckpointStoreProofs` | the directory's types, `Whole` and `ScopesBounded`, for any number of processes, scopes and artifacts |
| `ProjectTypes`, `NothingOutlivesDisposal`, `ReadersAreRetained`, `UpdatesAreExact` | `ResidentProjectProofs` | the project's types, `NothingLeaks`, `ReadersRetained` and `UpdatesExact` |

All hold for any constants that satisfy the named assumptions of the modules: `MemoryAssumption`
(finite sets, bounds of at least one, distinct placeholders), `SQLiteAssumption` (the same, and no
handle is a process), `FactAssumption`,
`RefreshAssumption`, `PlanAssumption` (the order `planPasses` gives), `LimitAssumption` (scopes and
digests are finite, limits at least one), `ProjectAssumption`, `LineageAssumption` (which faults
happen to which caller), `LiveAssumption` (who owns a file, and that imports lead back to the
specification itself), and the `NoneAssumption` of a module (`None` is no value of the program).
Some theorems have a hypothesis on the constants besides. `RequiresItsInputs` of
`GenerationsCoherent` and `ShapeOnlyOfReplaced` of `AnswerIsTheProgram` exclude disagreements of
section 5. `Responsive`, `~Overlapping` and `Requested = Pass` say under which circumstances. The
runs that check these properties satisfy their hypotheses.

**Admission.** Both rules ask that fact ids are unique and that every input of a fact is a fact
of the generation. The delta rule looks at upserted shards, at what replaced and deleted shards
declared, and at the retained shards that consume it. The proof splits the next generation's
shards into upserted and retained (`NextShards`) and shows, for each kind of conflict, on which
side it is caught; closure of the base is needed exactly for inputs of retained shards from
retained shards.

**Memory store.** That a pinned generation is retained follows from lease counts: collection spares
what has a lease. So the inductive invariant, `StoreInv`, has types, exact counts
(`LeasesCountHolders`: the count is the number of handles with the pin), retention and the newest
current generation together, and that a handle has at most one pin in a universe
(`PinsOncePerUniverse`), without which a release would take one lease for two pins.
`CollectKeeps` is the lemma on collection that all actions use, `LeaseStep` and `ReleaseStep` the
two ways counts move. Exactness of counts is a statement on cardinalities, hence `HoldersFinite`.

Refinement: what the abstract store says of forgetting, that neither what is pinned nor what is
current goes, is `StoreInv` after the step, whatever the step was (`KeepsHolds`). What is left for
each method is that it only removes versions and which head it leaves; a snapshot set that fails has
changed lease counts and restored them, which the mapping hides (`FailedSnapshotSetStutters`).

**SQLite store.** Everything a process does outside of a transaction it does with what it has read,
so the invariant says what such a reading is still good for. Sequences of a universe are used once
(`Grows`): what was read of a generation is true of it, or it has gone and its sequence never comes
back (`Past`, `Lost`), and what admission found of a base holds as long as the base is current
(`Admissible`, which is why `BaseStands` compares sequences and not identities only). A row that a
verification finds unhealthy is therefore `Lost`, and quarantine deletes nothing. What is written is
closed by `DeltaAdmissionExact` over that base (`WrittenClosed`), which is what makes a stored row
healthy. `Recent` says that the last `MaxRetained` sequences are stored without a gap; counting newer
generations is then counting sequences (`RetainedExactly`), from which the bound follows. Leases refer
to stored generations (`References`). That readers keep theirs is a second invariant, `LeaseInv`, over
the first: rows of handles have not lapsed (`Renewed`, which is `Responsive` at work), match the pins,
and are spared by retention (`WriteKeepsLeases`). `ForgetsOnly` is the `KeepsHolds` of this store.

**Refresh protocol.** Five parts make one invariant. `Dialogue` says where service and analyzer are
in a request: while the analyzer works nothing is pending, and its base is the service's or one that
it is about to adopt. `Committed` says that whatever may become a base is in the ledger of the
store, the heads the service reads included, from which `CommitLate` follows. `AnswerIsProgram`
needs `Faithful`: a candidate takes what it did not select from the base and never compares that
with the disk. So the program has to be the base except for the sources applied in this request
(`applied`), between requests the base itself unless a complete candidate is due (`full`) or one is
pending, and the pending candidate when there is one. A declaration shape that fails in a session
that is kept breaks exactly this, hence the hypothesis (`Sound`). `Recent` says of everything on its
way to a publication that it was read since the refresh began: of the program source by source,
except for those still to be read, of an answer as a whole. A caller that keeps its session may
be answered with a candidate of an earlier refresh, so the last parts are about the other one.

**Application refresh.** `Coherent` is not inductive: a refresh publishes the texts of the corpus
under the inventory of its own job. `RefreshInv` adds `CorpusIsForJob`: from the compilation to the
end of the refresh the corpus is for the job's inventory, in every branch, with every failure and
restart between. `PublishStep` shows that a publication of the corpus's texts keeps the invariant,
and `QualifyStep` that a result that is kept is of the text it is published with, because a result
of another text would be evaluated again. `IdleStep` covers every way in which a refresh ends
without publishing.

`ExactUnlessOwed` follows from two bounds that meet. Nothing anybody holds of an owner is newer than
the disk (`Past`); and nothing the store, the observation under way or a reusable snapshot holds of
it is older than the inventory of a corpus that does not owe it (`Observed`, `Judged`), whether that
corpus is in memory, pending or saved (`Views`), since any of them may be the next refresh's start.
A compilation owes what it reports (`ExactCompile`); a qualification stops owing only what this
refresh read itself (`ExactQualify`, with `Working`). When a refresh settles, the inventory is the
disk's, and no older and no newer is the same (`ExactFollows`). The one step that needs
`~Overlapping` is `ExactRival`: a checkpoint saved by another process in the middle of a refresh is
of a newer inventory than the job, and section 5 says what happens then.

**Pipeline.** Four invariants. `Lineage`, over which the others stand, says which generation the
shards in memory are of at every stage, with a candidate of another universe pending; it gives
`CompleteShards`. `Derivations` says that what is carried for a pass was read from the generation
last published, but for namespaces that are dirty (`Accounts`, `Sound`), and that of the passes
whose turn has come the staged output is derived from the private generation (`Progress`). The step
that matters is `TurnDerives`: a carried pass has no dirty input and no rerun upstream, which is
where `RequiresItsInputs` is used. `Reports` says that every source that differs from the last
publication is owed, and gives the action property from the state in which it is published.
`Retention` says that what is carried is what was published last (`Carried`), and that no pass
has run in a refresh without force or dirty namespaces (`Idleness`): the generation of a quiet
refresh is then the one that is there, capabilities included, which is where `Requested = Pass` is
needed.

**Checkpoint store.** `Whole` needs to know what other processes are about to do. `Held` says that
what a publication under way has found or installed is there, `Chosen` what a prune that removes may
still take and from whom, `Reading` that a manifest a reading prune has passed is accounted for, and
`Trusted` that what is remembered by metadata is of a good blob; the exceptions of `Whole` are in
each of them. `ScopesBounded` follows from `Bounding`: the scopes named and not doomed by some prune
are at most the limit. That a prune dooms enough of them is a pigeonhole argument: a scope is spared
when fewer than the limit are newer, scopes are ordered by distinct times, so the spared ones are
at most the limit.

**Resident project.** `ProjectInv` has types, `Processes` (one process serves exactly while the
service is not over, and none is awaited beside it: an awaited one is awaited by the queued call
that runs or by a disposal), `Disposed` (what a project that has been disposed of no longer has),
`Read` (what is read is in the store) and `Delivery`: the pending transactions are chained base to
base from what the client has (`Chained`), the store's generation of a universe, where it has one,
is the end of that chain (`Lineages`), the answer of a refresh is such an end (`Answers`), and
sources are known and reported (`Known`, `Told`). The end of a chain is the last pending transaction
to a universe, whose existence and growth are `HasLast` and `LatestGrows`.

**Live catalog.** The queue comes first: `Turns` says that of the scheduler's rebuilds one is queued
or runs, and that nothing is shown before the initialization has published. `Projections` says that
what is shown, what waits to be saved and what has been saved is of its own snapshot, and that the
snapshot of the application differs from the shown one only in what the running rebuild has been
told of or a failed one was: that is why a patch may keep everything its refresh did not report
(`ReportedRest`). `Verdicts` follows every verdict through whatever holds it: the index, the catalog,
records in memory and on disk, what is being saved, the running operation. `Heed` is about
changes: each is with the watcher, rejected, pending under a scheduler that is not idle, in the
snapshot of the application, or owed; and the filter that drops a change because the file was
already observed in that version drops none that is not expected. With nothing left to do, the
snapshot is therefore the disk. `Heard` relates what is published, delivered and heard.

**Only model-checked:** the liveness properties `Converges`, `Settles`, `Closes` and
`DisposalEnds`, since fairness and `ENABLED` are out of this prover's reach. Every safety and
action property of a passing run has a theorem. No module declares a `RECURSIVE` operator.

## 5. Disagreements between code and documents

Two are runs that are expected to fail, with the quotation in `PROJECT.json`.

- **A failed refresh loses what had changed** (`application_failed`). The corpus advances before
  observation and qualification and stays advanced when they fail. The next refresh, at the same
  inventory, observes every owner again, yet keeps the old qualification of the owner whose tests
  changed, publishes it with the new observation, and saves it in the checkpoint.
- **Code does not invalidate the evidence of importing specifications** (`live_evidence`). A
  verification depends on the code of every specification its imports lead to, and is looked up by
  it; an edit of that code refreshes only the owner. The importing specification's verdict stays on
  display and is saved under the new inputs, from which a restart restores it.

The others were met while modelling and are recorded as hazards. Each can be reproduced by changing
constants or one conjunct:

- *A database that is only in use is quarantined* (`integrity.ts:28`). Verification at opening reads
  generations and their manifests in separate statements; a commit of another process that collects
  a generation in between makes it look corrupt, and opening throws. Check `quarantined = {}` in
  `sqlite_verification` with `MaxSequence = 2`.
- *A retained session returns the past after an abort* (`service.ts:78`). Aborted between commit and
  acknowledgement, the analyzer keeps its candidate; the next refresh of the same service replays
  it. `FreshPublication` without its condition, one universe, `Restarting = {FALSE}`, the fault
  `"abort"`, one edit.
- *A retained session forgets a failed declaration shape* (`change.go:191`). The compiler has applied
  a change when the shape fails, and the session reports that it did not advance: the retry compares
  the disk with a program that already has it. `AnswerIsProgram` with the fault `"shape"` on a kept
  session, two edits.
- *A pass that reads another pass's output without requiring its capability is carried when that
  output changes* (`pipeline.ts:405`). `Coherent` with `MCRequires` empty, one edit.
- *An event is rejected by what was verified when it came* (`catalog-runtime.ts:639`).
  `QuietIsCurrent` without `Touched(rejected)`.
- *A stale verdict is saved under new inputs* (`catalog-runtime.ts:168`). A rebuild that fails after
  the application has advanced leaves the old verdict of what it had been told of; a later rebuild
  of something else publishes it with the new snapshot and records it under the new inputs, where
  a restart finds it earned. `QuietIsCurrent` with `owed` in place of `tainted`, `MaxEdits = 3`.
- *An open project whose `open()` fails* (`project.ts:169`). A failed refresh leaves `#universe` at
  one the store may drop. Check that an idle open project with a `universe` has a generation of it.
- *A reader whose process is suspended for a lease window loses its generation*:
  `ReadersKeepGenerations` with `Responsive = FALSE`. *A slow process's observation replaces the one a
  newer checkpoint was made of*: `ExactUnlessOwed` with `Overlapping = TRUE`.

Smaller observations, none of them a property: a refresh of the pipeline whose replayed candidate is
already public returns that intermediate snapshot (`pipeline.ts:87`); the capabilities of a
generation are those of the whole plan when no pass ran and those of the passes that ran otherwise
(`runner.ts:98`, `pipeline.ts:351`), so `QuietRetains` is about requests for all of them; a pipeline
that comes back to an earlier universe does not report what was deleted in the meantime
(`pipeline.ts:180`), hence the stays in `NothingUnreported`; a disposal that waits for a rebuild that
fails is rejected with it (`catalog-runtime.ts:609`, state `closing = "failed"`); a session that was
aborted or has failed has only signalled its process and to dispose of it returns at once
(`process-session.ts:445`, 687-703), so that `dispose` of the project can resolve, and the next
refresh open another session, while that process still runs.

## 6. What is not modelled

- **SQLite store**: schema migration, encoding of payloads and their cache, the SQL of queries,
  damage to the file. They are data, or repair of states the program does not make.
- **Refresh protocol**: refreshes without discovery, body demand, record limits, what projections
  extract; a discovery is atomic; configurations that cannot be loaded.
- **Resident project**: body demand, tracked computations and their cache, the index owners, stores
  of a caller, opening an older generation, captured readers.
- **Pass pipeline**: subjects that are modules, their unknown scope, paged queries, contents of
  outputs. `planPasses` is the assumption on `Order`.
- **Application refresh**: an edit that restores an earlier content (versions only grow: with
  restored contents the code's unchecked reads of evidence, `materialize.ts:187`, are stale by
  construction); focused and partial corpora, compiler projects, statistics, schema roots,
  dependents of an owner, `invalidate`; two refreshes of one service at a time (the server and the
  command line serialize them); another process saves a checkpoint only between refreshes unless
  `Overlapping`. When the observation's new id is the current one the code returns it without a
  commit even though the store has moved from its base (`materialize.ts:259`); the model fails
  there.
- **Checkpoint store**: the removal and rename that replace a file on Windows, temporary files and
  their cleanup after a day, the capacity of what is trusted, validation of manifests, a listing of
  the directory that fails, loss of power.
- **Live catalog**: the `--verify` mode, which projects everything on every rebuild; specifications
  that are added or removed; the reader's lifecycle; edits and reveals, which use the current
  snapshot outside of the queue; failures of the advisory writes. A refresh that fails after the
  application's corpus has advanced (`service.ts:584`) is not an action of its own; a projection
  that fails leaves the server the same way, with an application that is ahead. The second round of
  verifications before a full publication (`catalog-runtime.ts:358-378`) is one step, and a
  checkpoint that can be restored always is.
- **Components without a module**: `PROJECT.json` lists each with its reason. Pure computations
  (specifications, conformance, schemas, symbolic values, fact extraction) have no behaviour for a
  model checker beyond their definition, and input/output (HTTP, viewer) no state of its own. The
  rest is planned.

## 7. Plan

Done, in this order: `FactTransactions`, `AnalysisStore`, `MemoryStore`, its proofs and its
refinement, `SQLiteStore` and its proofs, `NativeLineage`, `ApplicationRefresh` and its proofs,
`LiveCatalog`, `PassPipeline` and its proofs, `CheckpointStore` and its proofs, `ResidentProject`
and its proofs, then the proofs of `NativeLineage` and `LiveCatalog`.

Next, the most important behaviour first:

1. `ApplicationSnapshots`: records, readers, settle and dispose, with the abstract specification
   that a reader keeps its analysis until it is disposed of (`AnalysisStore`'s pins again), and a
   refresh that is running when the service is disposed (`service.ts:894`).
2. `ProcessSession`: several pending requests over one child process, aborts, forced termination,
   the reader thread; composed with `ResidentProject`'s analyzer.
3. The bounded file cache and the installs, where they differ from `CheckpointStore`.
4. `LiveCatalog` with specifications that come and go, and edits and reveals outside of the queue.

Proofs next: that a refresh of `NativeLineage`, seen from the store, is an optimistic commit of
`AnalysisStore`, and the safety half of the liveness properties (that what is fair is enabled
whenever something is left to do, as far as it can be said without `ENABLED`).
