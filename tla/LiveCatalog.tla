------------------------------ MODULE LiveCatalog ------------------------------
(***************************************************************************)
(* The live catalog server: src/server/catalog-runtime.ts with the rebuild *)
(* scheduler and the change filter of src/server/reload.ts, the watch      *)
(* boundary of src/server/watch.ts and the durable catalog and             *)
(* verification records of src/server/catalog-checkpoint.ts.               *)
(*                                                                         *)
(* Files change at any time and the watcher reports them later.  Every     *)
(* operation that touches the catalog (a rebuild, a verification, the      *)
(* disposal) runs in one queue; each is a sequence of steps separated by   *)
(* awaits, between which files change, events arrive and the advisory      *)
(* persistence writes to disk.                                             *)
(*                                                                         *)
(* The application's refresh is one step that reads every file at once:    *)
(* ApplicationRefresh is about what happens inside it.  Contents are       *)
(* versions; a specification is shown with the versions it was projected   *)
(* from, and verified for the versions its verifier read.                  *)
(***************************************************************************)
EXTENDS Integers, Sequences, Functions

CONSTANTS Spc,                  \* the specifications of the repository
          File, OwnerOf, KindOf,
          Reaches,              \* Reaches[s]: s and the specifications its imports lead to
          Buffering,            \* TRUE when events wait for the initialization (embedded.ts)
          None,
          MaxEdits, MaxRequests, MaxFailures, MaxRestarts

\* An anchor is a specification's api.d.ts, a resource any other file its snapshot names, and
\* code an implementation file under its root.
ASSUME LiveAssumption ==
  /\ OwnerOf \in [File -> Spc] /\ KindOf \in [File -> {"anchor", "resource", "code"}]
  /\ Reaches \in [Spc -> SUBSET Spc] /\ \A s \in Spc : s \in Reaches[s]
  /\ Buffering \in BOOLEAN
  /\ {MaxEdits, MaxRequests, MaxFailures, MaxRestarts} \subseteq Nat

VARIABLES disk,       \* disk[f]: the version of f
          events,     \* the files the watcher has yet to report
          app,        \* the current snapshot of the application service
          index,      \* snapshots.current
          catalog,    \* the hydrated catalog, None until something needs it
          retained,   \* retainedVerificationRecords
          verified,   \* verifiedSpecifications
          pending,    \* pendingChanges
          observed,   \* the change filter's fingerprints
          op, queue,  \* the operation that runs and the ones behind it
          scheduler, clock, closing,
          unsaved, saving,    \* pendingCheckpointPersistence, and what is being written
          saved, durable,     \* the catalog and the verification records on disk
          rejected,   \* history: files whose last change the watcher has rejected
          owed,       \* history: what refreshes reported to rebuilds that then failed
          tainted,    \* history: every specification that was ever owed
          bounds      \* what the environment has done

view == <<app, index, catalog, retained, verified>>
store == <<unsaved, saving, saved, durable>>
work == <<op, queue, scheduler, closing>>
watch == <<disk, events, pending, observed, rejected>>
debt == <<owed, tainted>>
vars == <<watch, view, work, clock, store, debt, bounds>>

Versions == [File -> Nat]
FilesOf(s) == {f \in File : OwnerOf[f] = s}
TextOf(s) == {f \in FilesOf(s) : KindOf[f] # "code"}

\* The files a verification of s depends on: impact(path).refreshedOwners has the dependents of
\* a file's owner.
InputsOf(s) == UNION {FilesOf(t) : t \in Reaches[s]}

\* The files whose change refreshes s: of code, only its own.
SourcesOf(s) == FilesOf(s) \union {f \in InputsOf(s) : KindOf[f] # "code"}

Inputs(snapshot, s) == Restrict(snapshot, InputsOf(s))
Sources(of, s) == Restrict(of, SourcesOf(s))
Text(of, s) == Restrict(of, TextOf(s))

\* A slip: the files themselves are taken for their owners.
Touched_ByFile(files) == files
Touched(files) == {s \in Spc : files \intersect SourcesOf(s) # {}}

\* What is shown of a specification, and a record of its verification.
Shown(of, verdict) == [of |-> of, verdict |-> verdict]
Record(revision, inputs, verdict) == [revision |-> revision, inputs |-> inputs, verdict |-> verdict]
NoRecords == [s \in Spc |-> None]

\* What is known of some of the files, what is shown of all specifications, and a publication.
Partial == UNION {[F -> Nat] : F \in SUBSET File}
Catalogs == {m \in [Spc -> [of : Partial, verdict : Partial \union {None}]] :
               \A s \in Spc : DOMAIN m[s].of = SourcesOf(s)}
Indices == [snapshot : Versions, shown : Catalogs]

\* None stands for nothing the server holds.
ASSUME NoneAssumption == None \notin Nat \union Versions \union Catalogs \union Indices

Idle == [kind |-> "idle"]
Calm == [phase |-> "idle", again |-> FALSE, changed |-> FALSE]
Fresh == [generation |-> 0, delivered |-> 0, heard |-> None, muted |-> FALSE]
Unbound == [edits |-> 0, requests |-> 0, failures |-> 0, restarts |-> 0]

Init ==
  /\ disk = [f \in File |-> 0] /\ events = {} /\ pending = {} /\ rejected = {}
  /\ observed = [f \in File |-> None]
  /\ app = None /\ index = None /\ catalog = None /\ retained = NoRecords /\ verified = {}
  /\ op = Idle /\ queue = <<>> /\ scheduler = Calm /\ clock = Fresh /\ closing = "no"
  /\ unsaved = None /\ saving = None /\ saved = None /\ durable = NoRecords
  /\ owed = {} /\ tainted = {} /\ bounds = Unbound

Spend(what, max) == bounds[what] < max /\ bounds' = [bounds EXCEPT ![what] = @ + 1]

\* ensureCurrent: one initialization at a time enters the queue.
Initializing == op.kind = "initialize" \/ \E i \in DOMAIN queue : queue[i].kind = "initialize"
Enqueue(request) == queue' = Append(queue, request)
-----------------------------------------------------------------------------
\* The files.
Edit(f) ==
  /\ Spend("edits", MaxEdits)
  /\ disk' = [disk EXCEPT ![f] = @ + 1] /\ events' = events \union {f}
  /\ UNCHANGED <<pending, observed, rejected, view, work, clock, store, debt>>

\* isWatchedSource.
Watched(f) ==
  \/ KindOf[f] = "anchor"
  \/ index # None /\ (KindOf[f] = "resource" \/ OwnerOf[f] \in verified)

\* A slip: a request during a rebuild counts as part of it.
Requested_Absorbed ==
  IF scheduler.phase = "idle" THEN [scheduler EXCEPT !.phase = "debounce"] ELSE scheduler

\* createRebuildScheduler.request.
Requested ==
  IF scheduler.phase = "idle" THEN [scheduler EXCEPT !.phase = "debounce"]
  ELSE [scheduler EXCEPT !.again = scheduler.phase = "rebuild"]

\* changed(): the watcher reports a file; the boundary, the filter, then the scheduler.
Report(f) ==
  /\ f \in events /\ (Buffering => index # None)
  /\ events' = events \ {f}
  /\ IF closing # "no" THEN UNCHANGED <<pending, observed, rejected, scheduler>>
     ELSE IF ~Watched(f)
     THEN rejected' = rejected \union {f} /\ UNCHANGED <<pending, observed, scheduler>>
     ELSE IF observed[f] = disk[f] THEN UNCHANGED <<pending, observed, rejected, scheduler>>
     ELSE /\ observed' = [observed EXCEPT ![f] = disk[f]]
          /\ pending' = pending \union {f}
          /\ scheduler' = Requested
          /\ UNCHANGED rejected
  /\ UNCHANGED <<disk, view, op, queue, closing, clock, store, debt, bounds>>

\* waitForQuiet has seen no request for a while.
Quieten ==
  /\ scheduler.phase = "debounce"
  /\ scheduler' = [scheduler EXCEPT !.phase = "rebuild", !.again = FALSE]
  /\ Enqueue([kind |-> "rebuild"])
  /\ UNCHANGED <<watch, view, op, closing, clock, store, debt, bounds>>

Initialize ==
  /\ closing = "no" /\ index = None /\ ~Initializing
  /\ Enqueue([kind |-> "initialize"])
  /\ UNCHANGED <<watch, view, op, scheduler, closing, clock, store, debt, bounds>>
-----------------------------------------------------------------------------
\* The rebuild.
Front == queue[1]
Running(kinds) == op.kind = "idle" /\ queue # <<>> /\ Front.kind \in kinds

\* A slip: only what the watcher has named is compared.
Reported_HintsOnly == IF app = None THEN Spc ELSE Touched(pending)

\* application.refresh reads the files and reports what differs from its own last snapshot, and
\* what the watcher has named, unless nothing differs at all.
Reported ==
  LET changes == {f \in File : app[f] # disk[f]}
  IN IF app = None THEN Spc ELSE IF changes = {} THEN {} ELSE Touched(pending \union changes)

StartRebuild ==
  /\ Running({"initialize", "rebuild"}) /\ (Front.kind = "initialize" => index = None)
  /\ queue' = Tail(queue)
  /\ app' = disk /\ pending' = {} /\ rejected' = {}
  /\ op' = [kind |-> Front.kind, phase |-> "load", hinted |-> pending # {},
            reported |-> Reported, todo |-> Reported \intersect verified,
            verdicts |-> NoRecords, records |-> NoRecords]
  /\ UNCHANGED <<disk, events, observed, index, catalog, retained, verified, scheduler, closing,
                 clock, store, debt, bounds>>

\* The initialization finds that a rebuild has published meanwhile.
SkipInitialize ==
  /\ Running({"initialize"}) /\ index # None
  /\ queue' = Tail(queue)
  /\ UNCHANGED <<watch, view, op, scheduler, closing, clock, store, debt, bounds>>

\* A record holds for a specification shown at this revision of a snapshot with these inputs.
Holds(record, s, of, snapshot) ==
  record # None /\ record.revision = Text(of, s) /\ record.inputs = Inputs(snapshot, s)

Remembered == {s \in Spc : Holds(durable[s], s, app, app)}
WithRecords(shown, records, snapshot) ==
  [s \in Spc |->
     IF shown[s].verdict = None /\ Holds(records[s], s, shown[s].of, snapshot)
     THEN Shown(shown[s].of, records[s].verdict) ELSE shown[s]]

Restorable == catalog = None /\ ~op.hinted /\ saved # None /\ saved.index.snapshot = app

\* A slip: the loop goes round again without waiting for quiet, which is what queues a rebuild.
Returns_Stuck(changed) ==
  /\ op' = Idle
  /\ scheduler' = IF op.kind = "rebuild" /\ ~scheduler.again THEN Calm ELSE scheduler
  /\ clock' = [clock EXCEPT !.generation = @ + IF changed THEN 1 ELSE 0]

\* What a running rebuild does when it returns: the scheduler goes round again or resolves its
\* callers, of whom the first one delivers.
Returns(changed) ==
  LET generation == clock.generation + IF changed THEN 1 ELSE 0
      changes == scheduler.changed \/ changed
      delivers == /\ op.kind = "rebuild" /\ ~scheduler.again /\ changes
                  /\ generation > clock.delivered /\ closing = "no"
  IN  /\ op' = Idle
      /\ scheduler' = IF op.kind # "rebuild" THEN scheduler
                      ELSE IF scheduler.again
                      THEN [phase |-> "debounce", again |-> FALSE, changed |-> changes]
                      ELSE Calm
      /\ clock' = IF ~delivers THEN [clock EXCEPT !.generation = generation]
                  ELSE [generation |-> generation, delivered |-> generation, muted |-> FALSE,
                        heard |-> IF clock.heard = None THEN None ELSE generation]

\* The catalog checkpoint is of this very snapshot: it is shown as it was saved.
Restore ==
  /\ op.kind \in {"initialize", "rebuild"} /\ op.phase = "load" /\ Restorable
  /\ verified' = verified \union Remembered
  /\ index' = [saved.index EXCEPT !.shown = WithRecords(@, durable, app)]
  /\ retained' = durable
  /\ owed' = saved.owed
  /\ Returns(index' # index)
  /\ UNCHANGED <<watch, app, catalog, queue, closing, store, tainted, bounds>>

Load ==
  /\ op.kind \in {"initialize", "rebuild"} /\ op.phase = "load" /\ ~Restorable
  /\ verified' = verified \union Remembered
  /\ op' = [op EXCEPT !.phase = "verify", !.records = durable]
  /\ retained' = durable
  /\ UNCHANGED <<watch, app, index, catalog, queue, scheduler, closing, clock, store,
                 debt, bounds>>

\* A slip: the inventory the verifier has read is not compared.
Verdict_Unchecked(s, snapshot) == Inputs(disk, s)

\* refreshVerifiedSpecification: another application reads the files again, later.
Verdict(s, snapshot) == IF disk = snapshot THEN Inputs(snapshot, s) ELSE None

Reverify(s) ==
  /\ op.kind \in {"initialize", "rebuild"} /\ op.phase = "verify" /\ s \in op.todo
  /\ op' = [op EXCEPT !.todo = @ \ {s}, !.verdicts[s] = Verdict(s, app)]
  /\ UNCHANGED <<watch, view, queue, scheduler, closing, clock, store, debt, bounds>>

\* The refreshed specifications, projected from the new snapshot.
Projected(verdicts) ==
  LET recorded == WithRecords([s \in Spc |-> Shown(Sources(app, s), None)], op.records, app)
  IN  [s \in Spc |-> IF verdicts[s] = None THEN recorded[s]
                     ELSE Shown(recorded[s].of, verdicts[s])]

RecordsOf(shown, snapshot) ==
  [s \in Spc |-> IF shown[s].verdict = None THEN None
                 ELSE Record(Text(shown[s].of, s), Inputs(snapshot, s), shown[s].verdict)]

Persist(records) == unsaved' = [index |-> index', records |-> records, owed |-> owed']

\* updateCatalogSnapshot: the index is patched with the refreshed specifications alone.
PublishDelta ==
  /\ op.kind \in {"initialize", "rebuild"} /\ op.phase = "verify" /\ op.todo = {}
  /\ catalog = None /\ index # None
  /\ LET projected == Projected(op.verdicts)
         patched == [s \in Spc |-> IF s \in op.reported THEN projected[s] ELSE index.shown[s]]
     IN  /\ index' = [snapshot |-> app, shown |-> patched]
         /\ retained' = [s \in Spc |->
              IF s \in op.reported THEN RecordsOf(projected, app)[s]
              ELSE IF op.records[s] # None /\ op.records[s].inputs = Inputs(app, s)
              THEN op.records[s] ELSE None]
  /\ owed' = owed \ op.reported
  /\ Persist(retained') /\ Returns(index' # index)
  /\ UNCHANGED <<watch, app, catalog, verified, queue, closing, saving, saved, durable, tainted,
                 bounds>>

\* The patch is refused when a changed text changes the topology of the catalog.
Retexted == {s \in op.reported : Text(index.shown[s].of, s) # Text(app, s)}

\* projectCatalog and createCatalogSnapshot: what was not refreshed is kept from the catalog.
\* After a refused patch the verifications run once more.
PublishFull ==
  /\ op.kind \in {"initialize", "rebuild"} /\ op.phase = "verify" /\ op.todo = {}
  /\ ~(catalog = None /\ index # None /\ Retexted = {})
  /\ LET again == catalog = None /\ index # None /\ disk # app
         fresh == Projected(IF again THEN NoRecords ELSE op.verdicts)
         next == [s \in Spc |-> IF catalog = None \/ s \in op.reported THEN fresh[s]
                                ELSE catalog[s]]
     IN  catalog' = WithRecords(next, op.records, app)
  /\ index' = [snapshot |-> app, shown |-> catalog']
  /\ retained' = RecordsOf(catalog', app)
  /\ owed' = IF catalog = None THEN {} ELSE owed \ op.reported
  /\ Persist(retained') /\ Returns(index' # index)
  /\ UNCHANGED <<watch, app, verified, queue, closing, saving, saved, durable, tainted, bounds>>

\* A rebuild that throws takes with it the requests that came while it ran, and the closing
\* that waits for it.
Throws(kind, late) ==
  /\ Spend("failures", MaxFailures)
  /\ owed' = owed \union late /\ tainted' = tainted \union late
  /\ scheduler' = IF kind = "rebuild" THEN Calm ELSE scheduler
  /\ closing' = IF kind = "rebuild" /\ closing = "settling" THEN "failed" ELSE closing
  /\ clock' = [clock EXCEPT !.muted = @ \/ (kind = "rebuild" /\ scheduler.changed)]

\* The refresh fails: the application is where it was, and the changes it was told of are gone.
FailRefresh ==
  /\ Running({"initialize", "rebuild"}) /\ (Front.kind = "initialize" => index = None)
  /\ Throws(Front.kind, Touched(pending))
  /\ queue' = Tail(queue) /\ pending' = {}
  /\ UNCHANGED <<disk, events, observed, rejected, view, op, store>>

\* The projection or a verification fails: the application has moved on.
FailProjection ==
  /\ op.kind \in {"initialize", "rebuild"}
  /\ Throws(op.kind, op.reported \union Touched(pending))
  /\ op' = Idle
  /\ UNCHANGED <<watch, view, queue, store>>
-----------------------------------------------------------------------------
\* A viewer asks for a verification of what it sees, or for the history of it.
Request(s, kind) ==
  /\ Spend("requests", MaxRequests) /\ index # None /\ closing = "no"
  /\ Enqueue([kind |-> kind, spec |-> s, revision |-> Text(index.shown[s].of, s)])
  /\ UNCHANGED <<watch, view, op, scheduler, closing, clock, store, debt>>

\* materializeCatalog: projected from the published reader.
Hydrated ==
  IF catalog # None THEN catalog
  ELSE WithRecords([s \in Spc |-> Shown(Sources(index.snapshot, s), None)], retained, index.snapshot)

History ==
  /\ Running({"history"})
  /\ queue' = Tail(queue)
  /\ catalog' = IF closing = "closed" THEN catalog ELSE Hydrated
  /\ UNCHANGED <<watch, app, index, retained, verified, op, scheduler, closing, clock, store,
                 debt, bounds>>

StartVerify ==
  /\ Running({"verify"})
  /\ queue' = Tail(queue)
  /\ IF closing # "no" THEN UNCHANGED <<catalog, op>>
     ELSE LET shown == Hydrated[Front.spec]
          IN  /\ catalog' = Hydrated
              /\ op' = IF Text(shown.of, Front.spec) # Front.revision THEN Idle
                       ELSE [kind |-> "verify", spec |-> Front.spec, verdict |-> shown.verdict,
                             phase |-> IF shown.verdict = None THEN "focus" ELSE "confirm"]
  /\ UNCHANGED <<watch, app, index, retained, verified, scheduler, closing, clock, store, debt,
                 bounds>>

\* The verifier reads the files; another inventory than the catalog's is refused.
Focus ==
  /\ op.kind = "verify" /\ op.phase = "focus"
  /\ op' = IF disk # index.snapshot THEN Idle
           ELSE [op EXCEPT !.phase = "confirm", !.verdict = Verdict(op.spec, index.snapshot)]
  /\ UNCHANGED <<watch, view, queue, scheduler, closing, clock, store, debt, bounds>>

FailVerify ==
  /\ op.kind = "verify" /\ op.phase = "focus" /\ Spend("failures", MaxFailures)
  /\ op' = Idle
  /\ UNCHANGED <<watch, view, queue, scheduler, closing, clock, store, debt>>

\* A slip: the verified catalog is published and nobody is told.
Confirm_Silent ==
  /\ op.kind = "verify" /\ op.phase = "confirm"
  /\ op' = Idle
  /\ verified' = verified \union {op.spec}
  /\ catalog' = [catalog EXCEPT ![op.spec].verdict = op.verdict]
  /\ index' = [index EXCEPT !.shown = catalog']
  /\ retained' = RecordsOf(catalog', index.snapshot)
  /\ clock' = IF index' = index THEN clock ELSE [clock EXCEPT !.generation = @ + 1]
  /\ UNCHANGED owed /\ Persist(retained')
  /\ UNCHANGED <<watch, app, queue, scheduler, closing, saving, saved, durable, tainted, bounds>>

Confirm ==
  /\ op.kind = "verify" /\ op.phase = "confirm"
  /\ op' = Idle
  /\ verified' = verified \union {op.spec}
  /\ catalog' = [catalog EXCEPT ![op.spec].verdict = op.verdict]
  /\ index' = [index EXCEPT !.shown = catalog']
  /\ retained' = RecordsOf(catalog', index.snapshot)
  /\ clock' = IF index' = index THEN clock
              ELSE [clock EXCEPT !.generation = @ + 1,
                                 !.heard = IF @ = None THEN None ELSE clock.generation + 1,
                                 !.muted = FALSE]
  /\ UNCHANGED owed /\ Persist(retained')
  /\ UNCHANGED <<watch, app, queue, scheduler, closing, saving, saved, durable, tainted, bounds>>

Subscribe ==
  /\ index # None /\ clock.heard = None /\ closing = "no"
  /\ clock' = [clock EXCEPT !.heard = clock.generation, !.muted = FALSE]
  /\ UNCHANGED <<watch, view, work, store, debt, bounds>>
-----------------------------------------------------------------------------
\* The advisory persistence: the catalog, then the verification records.
SaveCatalog ==
  /\ unsaved # None /\ saving = None
  /\ saved' = [index |-> unsaved.index, owed |-> unsaved.owed]
  /\ saving' = [records |-> unsaved.records] /\ unsaved' = None
  /\ UNCHANGED <<watch, view, work, clock, durable, debt, bounds>>

\* A slip: the writer does not say that it has ended.
SaveRecords_Endless ==
  /\ saving # None /\ durable' = saving.records /\ UNCHANGED saving
  /\ UNCHANGED <<watch, view, work, clock, unsaved, saved, debt, bounds>>

SaveRecords ==
  /\ saving # None
  /\ durable' = saving.records /\ saving' = None
  /\ UNCHANGED <<watch, view, work, clock, unsaved, saved, debt, bounds>>

\* dispose(): the scheduler is awaited, then the rest happens in the queue.
Dispose ==
  /\ closing = "no" /\ closing' = "settling"
  /\ clock' = [clock EXCEPT !.heard = None]
  /\ UNCHANGED <<watch, view, op, queue, scheduler, store, debt, bounds>>

Settle ==
  /\ closing = "settling" /\ scheduler.phase = "idle"
  /\ closing' = "queued" /\ Enqueue([kind |-> "close"])
  /\ UNCHANGED <<watch, view, op, scheduler, clock, store, debt, bounds>>

Close ==
  /\ Running({"close"}) /\ unsaved = None /\ saving = None
  /\ queue' = Tail(queue) /\ closing' = "closed" /\ app' = None
  /\ UNCHANGED <<watch, index, catalog, retained, verified, op, scheduler, clock, store, debt,
                 bounds>>

\* The process ends, after its disposal or at any other time, and another one starts.
Restart ==
  /\ Spend("restarts", MaxRestarts)
  /\ events' = {} /\ pending' = {} /\ rejected' = {} /\ observed' = [f \in File |-> None]
  /\ app' = None /\ index' = None /\ catalog' = None /\ retained' = NoRecords /\ verified' = {}
  /\ op' = Idle /\ queue' = <<>> /\ scheduler' = Calm /\ clock' = Fresh /\ closing' = "no"
  /\ unsaved' = None /\ saving' = None /\ owed' = {}
  /\ UNCHANGED <<disk, saved, durable, tainted>>

Rebuild == \/ StartRebuild \/ SkipInitialize \/ Restore \/ Load
           \/ \E s \in Spc : Reverify(s)
           \/ PublishDelta \/ PublishFull
Verification == StartVerify \/ Focus \/ Confirm \/ History
Saving == SaveCatalog \/ SaveRecords
Closing == Settle \/ Close

\* What the event loop runs without anyone asking for it.
Serve == \/ \E f \in File : Report(f)
         \/ Quieten \/ Initialize \/ Rebuild \/ Verification \/ Saving \/ Closing

Next ==
  \/ Serve \/ FailRefresh \/ FailProjection \/ FailVerify
  \/ Subscribe \/ Dispose \/ Restart
  \/ \E f \in File : Edit(f)
  \/ \E s \in Spc, kind \in {"verify", "history"} : Request(s, kind)

Spec == Init /\ [][Next]_vars

\* The event loop runs what is ready: timers, file events, queued operations.
FairSpec == Spec /\ WF_vars(Serve)
-----------------------------------------------------------------------------
TypeOK ==
  /\ disk \in Versions /\ events \union pending \union rejected \subseteq File
  /\ app = None \/ app \in Versions
  /\ index # None => index.snapshot \in Versions /\ DOMAIN index.shown = Spc
  /\ owed \subseteq tainted /\ tainted \subseteq Spc /\ verified \subseteq Spc
  /\ scheduler.phase \in {"idle", "debounce", "rebuild"}
  /\ closing \in {"no", "settling", "queued", "closed", "failed"}

\* Every specification is shown as it is in the snapshot that the index names, except those a
\* failed rebuild had been told of and no later one has projected.
ShownOfSnapshot ==
  index # None =>
    \A s \in Spc \ owed : index.shown[s].of = Sources(index.snapshot, s)

\* A verdict was reached for these versions of what refreshes its specification.
ReachedFor(verdict, of, s) == verdict # None => Sources(verdict, s) = Sources(of, s)

\* A verdict that is shown was reached for the contents of the snapshot it is shown with, of its
\* specification's own files and of the texts it imports, across restarts, patches and restored
\* checkpoints, unless a rebuild of that specification has failed.
VerdictsEarned ==
  index # None =>
    \A s \in Spc \ tainted : ReachedFor(index.shown[s].verdict, index.snapshot, s)

\* The same of every file the verification depends on, the code of imported specifications
\* included.
CodeInvalidates ==
  index # None => \A s \in Spc : index.shown[s].verdict \in {None, Inputs(index.snapshot, s)}

Quiet == /\ events = {} /\ op = Idle /\ queue = <<>> /\ scheduler = Calm
         /\ index # None /\ closing = "no"

TextsCurrent(s) ==
  \A f \in SourcesOf(s) : KindOf[f] # "code" => index.shown[s].of[f] = disk[f]
Current(s) == TextsCurrent(s) /\ ReachedFor(index.shown[s].verdict, disk, s)

\* When nothing is left to do, what is shown of the texts and of the verifications is what the
\* files are, except where the watcher has rejected a change or a rebuild has failed: of the
\* texts, as long as no later one has projected them; of a verification for good, because the
\* old verdict may have been saved under the new inputs, from which a restart restores it.
QuietIsCurrent ==
  Quiet => \A s \in Spc \ Touched(rejected) :
             /\ s \notin owed => TextsCurrent(s)
             /\ s \notin tainted => Current(s)

\* When nothing is left to do, a subscriber has heard of the latest publication, unless a
\* rebuild failed after another one of the same burst had published.
QuietIsHeard ==
  Quiet /\ clock.heard # None => clock.heard = clock.generation \/ clock.muted

\* Once the files are left alone, the server comes to rest showing them as they are.
Settles ==
  <>[](closing # "no" \/ (Quiet /\ \A s \in Spc \ Touched(rejected) : Current(s)))

\* A disposal that has begun ends: it waits for the scheduler, for what is queued and for the
\* checkpoint, and none of them waits for it.
Closes == closing = "settling" ~> closing = "closed"
=============================================================================
