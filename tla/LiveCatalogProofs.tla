--------------------------- MODULE LiveCatalogProofs ---------------------------
(***************************************************************************)
(* The live catalog for any number of specifications, files, edits,        *)
(* requests, failures and restarts: what is shown is of the snapshot that  *)
(* the index names, verdicts are earned across restarts, patches and       *)
(* restored checkpoints, and a server at rest shows the files as they are  *)
(* and has told its subscribers.                                           *)
(*                                                                         *)
(* A patch keeps what its refresh did not report.  That it may rests on    *)
(* Projections: outside of what a rebuild has been told of, or a failed    *)
(* one had been, the snapshot of the application and the one that is shown *)
(* agree.  That nothing announced is forgotten rests on Heed: a change is  *)
(* on its way to the watcher, pending under a scheduler that is not idle,  *)
(* in the snapshot of the application, or owed.                            *)
(***************************************************************************)
EXTENDS LiveCatalog, TLAPS

\* What the durable records, an operation, a queued request, the scheduler and the clock are.
Verifications == [revision : Partial, inputs : Partial, verdict : Partial]
Records == [Spc -> Verifications \union {None}]
Rebuilds ==
  [kind : {"initialize", "rebuild"}, phase : {"load", "verify"}, hinted : BOOLEAN,
   reported : SUBSET Spc, todo : SUBSET Spc, verdicts : [Spc -> Partial \union {None}],
   records : Records]
Verifying ==
  [kind : {"verify"}, spec : Spc, verdict : Partial \union {None}, phase : {"focus", "confirm"}]
Requests ==
  [kind : {"initialize", "rebuild", "close"}]
  \union [kind : {"verify", "history"}, spec : Spc, revision : Partial]
Schedulers == [phase : {"idle", "debounce", "rebuild"}, again : BOOLEAN, changed : BOOLEAN]
Clocks == [generation : Nat, delivered : Nat, heard : Nat \union {None}, muted : BOOLEAN]

WatchTypes ==
  /\ disk \in Versions /\ observed \in [File -> Nat \union {None}]
  /\ events \subseteq File /\ pending \subseteq File /\ rejected \subseteq File
ViewTypes ==
  /\ app \in Versions \union {None} /\ index \in Indices \union {None}
  /\ catalog \in Catalogs \union {None}
  /\ retained \in Records /\ verified \subseteq Spc
OpTypes == op \in {Idle} \union Rebuilds \union Verifying
WorkTypes ==
  /\ queue \in Seq(Requests) /\ scheduler \in Schedulers /\ clock \in Clocks
  /\ closing \in {"no", "settling", "queued", "closed", "failed"}
StoreTypes ==
  /\ durable \in Records /\ tainted \subseteq Spc /\ owed \subseteq tainted
  /\ unsaved # None => /\ unsaved.index \in Indices /\ unsaved.records \in Records
                       /\ unsaved.owed \subseteq tainted
  /\ saving # None => saving.records \in Records
  /\ saved # None => saved.index \in Indices /\ saved.owed \subseteq tainted

\* TypeOK, and what the operations need of everything else.
Types == WatchTypes /\ ViewTypes /\ OpTypes /\ WorkTypes /\ StoreTypes

Rebuilding == op.kind \in {"initialize", "rebuild"}

\* Who has its turn: of the scheduler's rebuilds one is queued or runs, an initialization
\* publishes first, and a verification has a catalog to confirm.
Turns ==
  /\ Rebuilding => app # None
  /\ op.kind = "initialize" => index = None
  /\ index = None => catalog = None /\ op.kind # "verify" /\ clock.heard = None
  /\ index # None /\ closing # "closed" => app # None
  /\ op.kind = "verify" => catalog # None
  /\ op.kind = "rebuild" => scheduler.phase = "rebuild"
  /\ \A i \in DOMAIN queue :
       queue[i].kind = "rebuild" => scheduler.phase = "rebuild" /\ op.kind # "rebuild"
  /\ \A i \in DOMAIN queue : queue[i].kind \in {"verify", "history"} => index # None
  /\ \A i, j \in DOMAIN queue : queue[i].kind = "rebuild" /\ queue[j].kind = "rebuild" => i = j

\* Outside of except, the specifications are shown as in the snapshot.
Exact(shown, snapshot, except) == \A s \in Spc \ except : shown[s].of = Sources(snapshot, s)
\* The verdicts shown with a snapshot, and those of records, were reached for their inputs.
Earned(shown, snapshot) == \A s \in Spc \ tainted : ReachedFor(shown[s].verdict, snapshot, s)
Valid(records) ==
  \A s \in Spc \ tainted : records[s] # None => ReachedFor(records[s].verdict, records[s].inputs, s)

\* What a running rebuild has been told of.
Told == IF Rebuilding THEN op.reported ELSE {}
\* What is shown, waits to be saved or has been saved is of its own snapshot except for what is
\* owed, and so is the snapshot of the application, but for what its last refresh has reported.
Projections ==
  /\ index # None => Exact(index.shown, index.snapshot, owed)
  /\ catalog # None => Exact(catalog, index.snapshot, owed)
  /\ index # None /\ app # None =>
       \A s \in Spc \ (owed \union Told) : Sources(app, s) = Sources(index.snapshot, s)
  /\ unsaved # None => Exact(unsaved.index.shown, unsaved.index.snapshot, unsaved.owed)
  /\ saved # None => Exact(saved.index.shown, saved.index.snapshot, saved.owed)

\* Every verdict the server holds, in whatever hands, was reached for what it stands beside.
Verdicts ==
  /\ index # None => Earned(index.shown, index.snapshot)
  /\ catalog # None => Earned(catalog, index.snapshot)
  /\ unsaved # None => Earned(unsaved.index.shown, unsaved.index.snapshot) /\ Valid(unsaved.records)
  /\ saved # None => Earned(saved.index.shown, saved.index.snapshot)
  /\ saving # None => Valid(saving.records)
  /\ Valid(retained) /\ Valid(durable)
  /\ Rebuilding => Valid(op.records) /\ \A s \in Spc : ReachedFor(op.verdicts[s], app, s)
  /\ op.kind = "verify" /\ op.spec \notin tainted => ReachedFor(op.verdict, index.snapshot, op.spec)

\* A change of f is in the snapshot of the application, or a refresh will find it, or it is owed.
Expected(f) ==
  \/ app[f] = disk[f] \/ f \in pending
  \/ ~Rebuilding /\ Touched({f}) \subseteq owed

\* Every change is on its way to the watcher, rejected, or expected; the change filter hides
\* none that is not; and pending changes have a rebuild to come.
Heed ==
  /\ \A f \in File : observed[f] # None => observed[f] <= disk[f]
  /\ closing = "no" /\ app # None =>
       \A f \in File : /\ f \in events \union rejected \/ Expected(f)
                       /\ observed[f] = disk[f] => Expected(f)
  /\ op.kind = "rebuild" /\ pending # {} => scheduler.again
  /\ op.kind = "initialize" /\ pending # {} => scheduler.phase # "idle"
  /\ ~Rebuilding /\ pending # {} => scheduler.phase # "idle" \/ Touched(pending) \subseteq owed

\* What has been delivered is no later than what is published, and a subscriber that has not
\* heard of the latest publication is about to, or a failure has come in between.
Heard ==
  /\ clock.delivered <= clock.generation
  /\ scheduler.changed => clock.delivered < clock.generation
  /\ closing = "no" /\ clock.heard # None =>
       clock.heard = clock.generation \/ clock.muted \/ scheduler.changed

-----------------------------------------------------------------------------
(* Parts of snapshots, and catalogs. *)

(* The files a specification depends on, from its texts to all that its    *)
(* verification reads.                                                     *)
LEMMA SourcesAreInputs ==
  ASSUME NEW s \in Spc
  PROVE  /\ SourcesOf(s) \subseteq InputsOf(s) /\ TextOf(s) \subseteq SourcesOf(s)
         /\ InputsOf(s) \subseteq File /\ SourcesOf(s) \subseteq File /\ FilesOf(s) \subseteq File
  BY LiveAssumption DEF SourcesOf, InputsOf, TextOf, FilesOf

(* What two maps of files agree on, and what a part of one still says.     *)
LEMMA SameSources ==
  ASSUME NEW s \in Spc, NEW g, NEW h, \A f \in SourcesOf(s) : g[f] = h[f]
  PROVE  Sources(g, s) = Sources(h, s)
  BY DEF Sources, Restrict

LEMMA SourcesAgree ==
  ASSUME NEW s \in Spc, NEW g, NEW h, Sources(g, s) = Sources(h, s), NEW f \in SourcesOf(s)
  PROVE  g[f] = h[f]
<1>1. Sources(g, s)[f] = g[f] /\ Sources(h, s)[f] = h[f]
  BY DEF Sources, Restrict
<1> QED
  BY <1>1

LEMMA InputsSources ==
  ASSUME NEW s \in Spc, NEW g
  PROVE  Sources(Inputs(g, s), s) = Sources(g, s)
<1>1. \A f \in SourcesOf(s) : Inputs(g, s)[f] = g[f]
  BY SourcesAreInputs DEF Inputs, Restrict
<1> QED
  BY <1>1, SameSources

(* The parts of a snapshot are partial maps of versions.                   *)
LEMMA RestrictType ==
  ASSUME NEW g, NEW S \in SUBSET File, \A f \in S : g[f] \in Nat
  PROVE  Restrict(g, S) \in Partial /\ DOMAIN Restrict(g, S) = S
  BY DEF Restrict, Partial

LEMMA PartsTypes ==
  ASSUME NEW s \in Spc, NEW g \in Versions
  PROVE  /\ Sources(g, s) \in Partial /\ DOMAIN Sources(g, s) = SourcesOf(s)
         /\ Inputs(g, s) \in Partial /\ Text(g, s) \in Partial
  BY SourcesAreInputs, RestrictType DEF Sources, Inputs, Text, Versions

(* An entry of a catalog has the fields that are shown.                    *)
LEMMA CatalogTypes ==
  ASSUME NEW m \in Catalogs, NEW s \in Spc
  PROVE  /\ m[s].of \in Partial /\ m[s].verdict \in Partial \union {None}
         /\ m[s] = Shown(m[s].of, m[s].verdict)
         /\ DOMAIN m[s].of = SourcesOf(s) /\ Text(m[s].of, s) \in Partial
<1>1. m[s] \in [of : Partial, verdict : Partial \union {None}] /\ DOMAIN m[s].of = SourcesOf(s)
  BY DEF Catalogs
<1>2. m[s].of \in Partial /\ m[s].verdict \in Partial \union {None}
  BY <1>1
<1>3. \A f \in SourcesOf(s) : m[s].of[f] \in Nat
  BY <1>1, <1>2 DEF Partial
<1>4. Text(m[s].of, s) \in Partial
  BY <1>3, SourcesAreInputs, RestrictType DEF Text
<1> QED
  BY <1>1, <1>2, <1>4 DEF Shown

(* To make a catalog of what is shown of each specification.               *)
LEMMA IsCatalog ==
  ASSUME NEW m, m = [s \in Spc |-> m[s]],
         \A s \in Spc : /\ m[s] \in [of : Partial, verdict : Partial \union {None}]
                        /\ DOMAIN m[s].of = SourcesOf(s)
  PROVE  m \in Catalogs
  BY DEF Catalogs

(* The kind of an operation says which fields it has.                      *)
LEMMA OpKinds ==
  ASSUME OpTypes
  PROVE  /\ Rebuilding => op \in Rebuilds
         /\ op.kind = "verify" => op \in Verifying
         /\ op.kind \in {"idle", "initialize", "rebuild", "verify"}
         /\ op.kind = "idle" => op = Idle
  BY DEF OpTypes, Rebuilding, Rebuilds, Verifying, Idle

(* The types of what is shown, of queued requests and of what runs.        *)
LEMMA NoRecordsTypes ==
  NoRecords \in Records /\ NoRecords \in [Spc -> Partial \union {None}]
  BY DEF NoRecords, Records

LEMMA IndexTypes ==
  ASSUME ViewTypes, index # None
  PROVE  index.snapshot \in Versions /\ index.shown \in Catalogs
  BY DEF ViewTypes, Indices

LEMMA FrontTypes ==
  ASSUME WorkTypes, NEW kinds, Running(kinds)
  PROVE  /\ op.kind = "idle" /\ Front.kind \in kinds /\ Front \in Requests
         /\ 1 \in DOMAIN queue /\ Front = queue[1]
         /\ Tail(queue) \in Seq(Requests)
         /\ \A i \in DOMAIN Tail(queue) : i + 1 \in DOMAIN queue /\ Tail(queue)[i] = queue[i + 1]
  BY DEF WorkTypes, Running, Front

LEMMA EnqueueTypes ==
  ASSUME WorkTypes, NEW request \in Requests, Enqueue(request)
  PROVE  /\ queue' \in Seq(Requests)
         /\ \A i \in DOMAIN queue' : \/ i \in DOMAIN queue /\ queue'[i] = queue[i]
                                     \/ i = Len(queue) + 1 /\ queue'[i] = request
  BY DEF WorkTypes, Enqueue

(* Records add verdicts to what is shown and change nothing else of it.    *)
LEMMA WithRecordsTypes ==
  ASSUME NEW shown \in Catalogs, NEW records \in Records, NEW snapshot \in Versions
  PROVE  /\ WithRecords(shown, records, snapshot) \in Catalogs
         /\ \A s \in Spc :
              /\ WithRecords(shown, records, snapshot)[s].of = shown[s].of
              /\ \/ WithRecords(shown, records, snapshot)[s].verdict = shown[s].verdict
                 \/ /\ records[s] # None /\ records[s].inputs = Inputs(snapshot, s)
                    /\ WithRecords(shown, records, snapshot)[s].verdict = records[s].verdict
<1> DEFINE m == WithRecords(shown, records, snapshot)
<1>1. m = [s \in Spc |-> m[s]]
  BY DEF WithRecords
<1>2. ASSUME NEW s \in Spc
      PROVE  /\ m[s] \in [of : Partial, verdict : Partial \union {None}]
             /\ m[s].of = shown[s].of
             /\ \/ m[s].verdict = shown[s].verdict
                \/ /\ records[s] # None /\ records[s].inputs = Inputs(snapshot, s)
                   /\ m[s].verdict = records[s].verdict
  <2>1. CASE shown[s].verdict = None /\ Holds(records[s], s, shown[s].of, snapshot)
    <3>1. m[s] = Shown(shown[s].of, records[s].verdict)
      BY <2>1 DEF WithRecords
    <3>2. records[s] # None /\ records[s].inputs = Inputs(snapshot, s)
      BY <2>1 DEF Holds
    <3>3. records[s].verdict \in Partial /\ shown[s].of \in Partial
      BY <3>2, CatalogTypes DEF Records, Verifications
    <3> QED
      BY <3>1, <3>2, <3>3 DEF Shown
  <2>2. CASE ~(shown[s].verdict = None /\ Holds(records[s], s, shown[s].of, snapshot))
    <3>1. m[s] = shown[s]
      BY <2>2 DEF WithRecords
    <3> QED
      BY <3>1 DEF Catalogs
  <2> QED
    BY <2>1, <2>2
<1>3. \A s \in Spc : DOMAIN m[s].of = SourcesOf(s)
  BY <1>2, CatalogTypes
<1>4. m \in Catalogs
  BY <1>1, <1>2, <1>3, IsCatalog
<1> QED
  BY <1>2, <1>4

(* What is shown of a snapshot without any verification.                   *)
LEMMA UnverifiedTypes ==
  ASSUME NEW snapshot \in Versions
  PROVE  /\ [s \in Spc |-> Shown(Sources(snapshot, s), None)] \in Catalogs
         /\ \A s \in Spc :
              /\ [t \in Spc |-> Shown(Sources(snapshot, t), None)][s].of = Sources(snapshot, s)
              /\ [t \in Spc |-> Shown(Sources(snapshot, t), None)][s].verdict = None
<1> DEFINE m == [s \in Spc |-> Shown(Sources(snapshot, s), None)]
<1>1. \A s \in Spc : m[s].of = Sources(snapshot, s) /\ m[s].verdict = None
                     /\ m[s] \in [of : Partial, verdict : Partial \union {None}]
  BY PartsTypes DEF Shown
<1>2. m \in Catalogs
  <2>1. m = [s \in Spc |-> m[s]]
    OBVIOUS
  <2>2. \A s \in Spc : DOMAIN m[s].of = SourcesOf(s)
    BY <1>1, PartsTypes
  <2> HIDE DEF m
  <2> QED
    BY <1>1, <2>1, <2>2, IsCatalog
<1> QED
  BY <1>1, <1>2

(* A catalog made on demand is the published one, or is projected from the *)
(* published snapshot with the verdicts of the records.                    *)
LEMMA HydratedTypes ==
  ASSUME ViewTypes, index # None
  PROVE  /\ Hydrated \in Catalogs
         /\ catalog # None => Hydrated = catalog
         /\ catalog = None => \A s \in Spc :
              /\ Hydrated[s].of = Sources(index.snapshot, s)
              /\ \/ Hydrated[s].verdict = None
                 \/ /\ retained[s] # None /\ retained[s].inputs = Inputs(index.snapshot, s)
                    /\ Hydrated[s].verdict = retained[s].verdict
<1>1. index.snapshot \in Versions /\ retained \in Records
  BY IndexTypes DEF ViewTypes
<1> DEFINE m == [s \in Spc |-> Shown(Sources(index.snapshot, s), None)]
<1>2. m \in Catalogs /\ \A s \in Spc : m[s].of = Sources(index.snapshot, s) /\ m[s].verdict = None
  BY <1>1, UnverifiedTypes
<1>3. catalog = None => Hydrated = WithRecords(m, retained, index.snapshot)
  BY DEF Hydrated
<1> HIDE DEF m
<1>4. catalog # None => Hydrated = catalog /\ catalog \in Catalogs
  BY DEF Hydrated, ViewTypes
<1> QED
  BY <1>1, <1>2, <1>3, <1>4, WithRecordsTypes

(* The projection of the new snapshot, with the verdicts of this rebuild   *)
(* and of the records.                                                     *)
LEMMA ProjectedTypes ==
  ASSUME app \in Versions, op \in Rebuilds, NEW verdicts \in [Spc -> Partial \union {None}]
  PROVE  /\ Projected(verdicts) \in Catalogs
         /\ \A s \in Spc :
              /\ Projected(verdicts)[s].of = Sources(app, s)
              /\ \/ Projected(verdicts)[s].verdict \in {verdicts[s], None}
                 \/ /\ op.records[s] # None /\ op.records[s].inputs = Inputs(app, s)
                    /\ Projected(verdicts)[s].verdict = op.records[s].verdict
<1> DEFINE m == [s \in Spc |-> Shown(Sources(app, s), None)]
           recorded == WithRecords(m, op.records, app)
<1>1. m \in Catalogs /\ \A s \in Spc : m[s].of = Sources(app, s) /\ m[s].verdict = None
  BY UnverifiedTypes
<1>2. op.records \in Records
  BY DEF Rebuilds
<1> HIDE DEF m
<1>3. /\ recorded \in Catalogs
      /\ \A s \in Spc :
           /\ recorded[s].of = Sources(app, s)
           /\ \/ recorded[s].verdict = None
              \/ /\ op.records[s] # None /\ op.records[s].inputs = Inputs(app, s)
                 /\ recorded[s].verdict = op.records[s].verdict
  BY <1>1, <1>2, WithRecordsTypes
<1> DEFINE next == [s \in Spc |-> IF verdicts[s] = None THEN recorded[s]
                                  ELSE Shown(recorded[s].of, verdicts[s])]
<1>4. Projected(verdicts) = next
  BY DEF Projected, m
<1> HIDE DEF recorded
<1>5. ASSUME NEW s \in Spc
      PROVE  /\ next[s] \in [of : Partial, verdict : Partial \union {None}]
             /\ next[s].of = Sources(app, s)
             /\ \/ next[s].verdict \in {verdicts[s], None}
                \/ next[s].verdict = recorded[s].verdict
  <2>1. /\ recorded[s] = Shown(recorded[s].of, recorded[s].verdict)
        /\ recorded[s].of \in Partial /\ recorded[s].verdict \in Partial \union {None}
        /\ recorded[s].of = Sources(app, s)
    BY <1>3, CatalogTypes
  <2>2. CASE verdicts[s] = None
    <3>1. next[s] = recorded[s]
      BY <2>2
    <3> HIDE DEF next
    <3> QED
      BY <2>1, <3>1 DEF Shown
  <2>3. CASE verdicts[s] # None
    <3>1. next[s] = Shown(recorded[s].of, verdicts[s]) /\ verdicts[s] \in Partial
      BY <2>3
    <3> HIDE DEF next
    <3> QED
      BY <2>1, <3>1 DEF Shown
  <2> QED
    BY <2>2, <2>3
<1>6. next \in Catalogs
  <2>1. next = [s \in Spc |-> next[s]]
    OBVIOUS
  <2>2. \A s \in Spc : DOMAIN next[s].of = SourcesOf(s)
    BY <1>5, PartsTypes
  <2> HIDE DEF next
  <2> QED
    BY <1>5, <2>1, <2>2, IsCatalog
<1> HIDE DEF next
<1> QED
  BY <1>3, <1>4, <1>5, <1>6

(* The records of a catalog are for the inputs of its snapshot.            *)
LEMMA RecordsOfTypes ==
  ASSUME NEW shown \in Catalogs, NEW snapshot \in Versions
  PROVE  /\ RecordsOf(shown, snapshot) \in Records
         /\ \A s \in Spc : RecordsOf(shown, snapshot)[s] # None =>
              /\ RecordsOf(shown, snapshot)[s].inputs = Inputs(snapshot, s)
              /\ RecordsOf(shown, snapshot)[s].verdict = shown[s].verdict
<1> DEFINE r == RecordsOf(shown, snapshot)
<1>1. ASSUME NEW s \in Spc, shown[s].verdict # None
      PROVE  /\ r[s] \in Verifications
             /\ r[s].inputs = Inputs(snapshot, s) /\ r[s].verdict = shown[s].verdict
  <2>1. r[s] = Record(Text(shown[s].of, s), Inputs(snapshot, s), shown[s].verdict)
    BY <1>1 DEF RecordsOf
  <2>2. Text(shown[s].of, s) \in Partial /\ Inputs(snapshot, s) \in Partial
        /\ shown[s].verdict \in Partial
    BY <1>1, CatalogTypes, PartsTypes
  <2> QED
    BY <2>1, <2>2 DEF Record, Verifications
<1>2. \A s \in Spc : shown[s].verdict = None => r[s] = None
  BY DEF RecordsOf
<1>3. r = [s \in Spc |-> r[s]]
  BY DEF RecordsOf
<1> HIDE DEF r
<1>4. r \in Records
  BY <1>1, <1>2, <1>3 DEF Records
<1> QED
  BY <1>1, <1>2, <1>4 DEF r

-----------------------------------------------------------------------------
(* Types, and what each step sets. *)

(* What does not change keeps its type.                                    *)
LEMMA KeptTypes ==
  ASSUME Types
  PROVE  /\ UNCHANGED watch => WatchTypes'
         /\ UNCHANGED view => ViewTypes'
         /\ UNCHANGED op => OpTypes'
         /\ UNCHANGED <<queue, scheduler, clock, closing>> => WorkTypes'
         /\ UNCHANGED <<store, debt>> => StoreTypes'
<1>1. UNCHANGED watch => WatchTypes'
  BY DEF Types, WatchTypes, watch
<1>2. UNCHANGED view => ViewTypes'
  BY DEF Types, ViewTypes, view
<1>3. UNCHANGED op => OpTypes'
  BY DEF Types, OpTypes
<1>4. UNCHANGED <<queue, scheduler, clock, closing>> => WorkTypes'
  BY DEF Types, WorkTypes
<1>5. UNCHANGED <<store, debt>> => StoreTypes'
  BY DEF Types, StoreTypes, store, debt
<1> QED
  BY <1>1, <1>2, <1>3, <1>4, <1>5

(* A request leaves the scheduler with something to do.                    *)
LEMMA RequestedTypes ==
  ASSUME scheduler \in Schedulers
  PROVE  /\ Requested \in Schedulers /\ Requested.phase # "idle"
         /\ Requested.changed = scheduler.changed
         /\ scheduler.phase = "rebuild" => Requested.phase = "rebuild" /\ Requested.again
  BY DEF Requested, Schedulers

(* How a rebuild returns: its kind decides who goes round again, and who   *)
(* is told.                                                                *)
LEMMA ReturnsTypes ==
  ASSUME WorkTypes, NEW changed \in BOOLEAN, Returns(changed)
  PROVE  /\ op' = Idle /\ scheduler' \in Schedulers /\ clock' \in Clocks
         /\ clock'.generation = clock.generation + (IF changed THEN 1 ELSE 0)
         /\ op.kind # "rebuild" => /\ scheduler' = scheduler
                                   /\ clock'.delivered = clock.delivered
                                   /\ clock'.heard = clock.heard /\ clock'.muted = clock.muted
         /\ op.kind = "rebuild" =>
              /\ scheduler'.phase = IF scheduler.again THEN "debounce" ELSE "idle"
              /\ scheduler'.changed = (scheduler.again /\ (scheduler.changed \/ changed))
              /\ \/ /\ clock'.delivered = clock.delivered /\ clock'.heard = clock.heard
                    /\ clock'.muted = clock.muted
                    /\ \/ scheduler.again \/ closing # "no" \/ ~(scheduler.changed \/ changed)
                       \/ clock'.generation <= clock.delivered
                 \/ /\ clock'.delivered = clock'.generation
                    /\ clock'.heard \in {None, clock'.generation}
                    /\ clock.heard = None => clock'.heard = None
                    /\ ~scheduler.again
<1>1. scheduler \in Schedulers /\ clock \in Clocks
  BY DEF WorkTypes
<1> DEFINE generation == clock.generation + IF changed THEN 1 ELSE 0
           changes == scheduler.changed \/ changed
           delivers == /\ op.kind = "rebuild" /\ ~scheduler.again /\ changes
                       /\ generation > clock.delivered /\ closing = "no"
<1>2. generation \in Nat /\ changes \in BOOLEAN
  BY <1>1 DEF Clocks, Schedulers
<1>3. /\ op' = Idle
      /\ scheduler' = IF op.kind # "rebuild" THEN scheduler
                      ELSE IF scheduler.again
                      THEN [phase |-> "debounce", again |-> FALSE, changed |-> changes]
                      ELSE Calm
      /\ clock' = IF ~delivers THEN [clock EXCEPT !.generation = generation]
                  ELSE [generation |-> generation, delivered |-> generation, muted |-> FALSE,
                        heard |-> IF clock.heard = None THEN None ELSE generation]
  BY DEF Returns
<1>4. ~delivers => /\ clock' \in Clocks /\ clock'.generation = generation
                   /\ clock'.delivered = clock.delivered /\ clock'.heard = clock.heard
                   /\ clock'.muted = clock.muted
  BY <1>1, <1>2, <1>3 DEF Clocks
<1>5. delivers => /\ clock' \in Clocks /\ clock'.generation = generation
                  /\ clock'.delivered = generation /\ clock'.heard \in {None, generation}
                  /\ clock.heard = None => clock'.heard = None
  BY <1>1, <1>2, <1>3 DEF Clocks
<1>6. scheduler' \in Schedulers
  BY <1>1, <1>2, <1>3 DEF Schedulers, Calm
<1>7. op.kind = "rebuild" =>
        /\ scheduler'.phase = IF scheduler.again THEN "debounce" ELSE "idle"
        /\ scheduler'.changed = (scheduler.again /\ changes)
  BY <1>1, <1>2, <1>3 DEF Schedulers, Calm
<1>8. ~delivers /\ op.kind = "rebuild" =>
        scheduler.again \/ closing # "no" \/ ~changes \/ generation <= clock.delivered
  BY <1>1, <1>2 DEF Clocks
<1>9. delivers => op.kind = "rebuild" /\ ~scheduler.again
  OBVIOUS
<1> HIDE DEF delivers
<1> QED
  BY <1>3, <1>4, <1>5, <1>6, <1>7, <1>8, <1>9

(* A rebuild that throws, with what it had been told.                      *)
LEMMA ThrowsTypes ==
  ASSUME Types, NEW kind, NEW late \in SUBSET Spc, Throws(kind, late)
  PROVE  /\ scheduler' \in Schedulers /\ clock' \in Clocks
         /\ closing' \in {"no", "settling", "queued", "closed", "failed"}
         /\ \/ closing' = closing
            \/ closing' = "failed" /\ closing = "settling"
         /\ owed' = owed \union late /\ tainted' = tainted \union late
         /\ tainted' \subseteq Spc /\ owed' \subseteq tainted'
         /\ clock'.generation = clock.generation /\ clock'.delivered = clock.delivered
         /\ clock'.heard = clock.heard
         /\ kind # "rebuild" => scheduler' = scheduler /\ clock'.muted = clock.muted
         /\ kind = "rebuild" => /\ scheduler'.phase = "idle" /\ ~scheduler'.changed
                                /\ clock'.muted = (clock.muted \/ scheduler.changed)
<1>1. scheduler \in Schedulers /\ clock \in Clocks
      /\ closing \in {"no", "settling", "queued", "closed", "failed"}
      /\ tainted \subseteq Spc /\ owed \subseteq tainted
  BY DEF Types, WorkTypes, StoreTypes
<1>2. /\ owed' = owed \union late /\ tainted' = tainted \union late
      /\ scheduler' = IF kind = "rebuild" THEN Calm ELSE scheduler
      /\ closing' = IF kind = "rebuild" /\ closing = "settling" THEN "failed" ELSE closing
      /\ clock' = [clock EXCEPT !.muted = @ \/ (kind = "rebuild" /\ scheduler.changed)]
  BY DEF Throws
<1>3. /\ clock' \in Clocks /\ clock'.generation = clock.generation
      /\ clock'.delivered = clock.delivered /\ clock'.heard = clock.heard
      /\ clock'.muted = (clock.muted \/ (kind = "rebuild" /\ scheduler.changed))
  BY <1>1, <1>2 DEF Clocks, Schedulers
<1>4. scheduler' \in Schedulers
      /\ (kind = "rebuild" => scheduler'.phase = "idle" /\ ~scheduler'.changed)
  BY <1>1, <1>2 DEF Schedulers, Calm
<1>5. kind # "rebuild" => scheduler' = scheduler /\ clock'.muted = clock.muted
  BY <1>1, <1>2, <1>3 DEF Clocks
<1>6. kind = "rebuild" => clock'.muted = (clock.muted \/ scheduler.changed)
  BY <1>3
<1>7. closing' = closing \/ (closing' = "failed" /\ closing = "settling")
  BY <1>2
<1>8. tainted' \subseteq Spc /\ owed' \subseteq tainted'
  BY <1>1, <1>2
<1> QED
  BY <1>1, <1>2, <1>3, <1>4, <1>5, <1>6, <1>7, <1>8

LEMMA ReportedType == Reported \subseteq Spc
  BY DEF Reported, Touched

(* One by one, the operations keep the types; with what they set, for the  *)
(* invariants.                                                             *)
LEMMA StartRebuildTypes ==
  ASSUME Types, StartRebuild
  PROVE  /\ Types'
         /\ op' \in Rebuilds /\ op'.kind = Front.kind /\ op'.reported = Reported
         /\ op'.verdicts = NoRecords /\ op'.records = NoRecords
         /\ Running({"initialize", "rebuild"}) /\ (Front.kind = "initialize" => index = None)
         /\ queue' = Tail(queue) /\ app' = disk /\ app' \in Versions
         /\ pending' = {} /\ rejected' = {}
<1>1. /\ Running({"initialize", "rebuild"}) /\ (Front.kind = "initialize" => index = None)
      /\ queue' = Tail(queue) /\ app' = disk /\ pending' = {} /\ rejected' = {}
      /\ UNCHANGED <<disk, events, observed, index, catalog, retained, verified, scheduler,
                     closing, clock, store, debt, bounds>>
  BY DEF StartRebuild
<1>2. /\ Front.kind \in {"initialize", "rebuild"} /\ Tail(queue) \in Seq(Requests)
      /\ disk \in Versions
  BY <1>1, FrontTypes DEF Types, WatchTypes
<1>3. /\ Reported \subseteq Spc /\ (Reported \intersect verified) \subseteq Spc
      /\ NoRecords \in Records /\ NoRecords \in [Spc -> Partial \union {None}]
  BY ReportedType, NoRecordsTypes
<1>4. op' = [kind |-> Front.kind, phase |-> "load", hinted |-> pending # {},
             reported |-> Reported, todo |-> Reported \intersect verified,
             verdicts |-> NoRecords, records |-> NoRecords]
  BY DEF StartRebuild
<1>5. /\ op' \in Rebuilds /\ op'.kind = Front.kind /\ op'.reported = Reported
      /\ op'.verdicts = NoRecords /\ op'.records = NoRecords
  BY <1>2, <1>3, <1>4 DEF Rebuilds
<1>6. WatchTypes'
  BY <1>1 DEF Types, WatchTypes
<1>7. ViewTypes'
  BY <1>1, <1>2 DEF Types, ViewTypes
<1>8. WorkTypes'
  BY <1>1, <1>2 DEF Types, WorkTypes
<1>9. StoreTypes'
  BY <1>1, KeptTypes
<1>10. OpTypes'
  BY <1>5 DEF OpTypes
<1> QED
  BY <1>1, <1>2, <1>5, <1>6, <1>7, <1>8, <1>9, <1>10 DEF Types

LEMMA LoadTypes ==
  ASSUME Types, Load
  PROVE  /\ Types' /\ Rebuilding
         /\ op' \in Rebuilds /\ op'.kind = op.kind /\ op'.reported = op.reported
         /\ op'.verdicts = op.verdicts /\ op'.records = durable
<1>1. op \in Rebuilds /\ durable \in Records /\ Rebuilding
  BY OpKinds DEF Load, Rebuilding, Types, StoreTypes
<1>2. op' = [op EXCEPT !.phase = "verify", !.records = durable]
  BY DEF Load
<1>3. /\ op' \in Rebuilds /\ op'.kind = op.kind /\ op'.reported = op.reported
      /\ op'.verdicts = op.verdicts /\ op'.records = durable
  BY <1>1, <1>2 DEF Rebuilds
<1>4. Remembered \subseteq Spc
  BY DEF Remembered
<1>5. ViewTypes'
  BY <1>1, <1>4 DEF Load, Types, ViewTypes
<1>6. OpTypes'
  BY <1>3 DEF OpTypes
<1>7. WatchTypes' /\ WorkTypes' /\ StoreTypes'
  BY KeptTypes DEF Load
<1> QED
  BY <1>1, <1>3, <1>5, <1>6, <1>7 DEF Types

LEMMA VerdictType ==
  ASSUME NEW s \in Spc, NEW snapshot \in Versions
  PROVE  Verdict(s, snapshot) \in Partial \union {None}
  BY PartsTypes DEF Verdict

LEMMA ReverifyTypes ==
  ASSUME Types, app # None, NEW s \in Spc, Reverify(s)
  PROVE  /\ Types' /\ Rebuilding
         /\ op' \in Rebuilds /\ op'.kind = op.kind /\ op'.reported = op.reported
         /\ op'.records = op.records
         /\ \A t \in Spc : op'.verdicts[t] = IF t = s THEN Verdict(s, app) ELSE op.verdicts[t]
<1>1. op \in Rebuilds /\ app \in Versions /\ Rebuilding
  BY OpKinds DEF Reverify, Rebuilding, Types, ViewTypes
<1>2. op' = [op EXCEPT !.todo = @ \ {s}, !.verdicts[s] = Verdict(s, app)]
  BY DEF Reverify
<1>3. Verdict(s, app) \in Partial \union {None}
  BY <1>1, VerdictType
<1> DEFINE v == Verdict(s, app)
<1> HIDE DEF v
<1>4. op' = [op EXCEPT !.todo = @ \ {s}, !.verdicts[s] = v] /\ v \in Partial \union {None}
  BY <1>2, <1>3 DEF v
<1>5. op' \in Rebuilds
  BY <1>1, <1>4 DEF Rebuilds
<1>6. /\ op'.kind = op.kind /\ op'.reported = op.reported /\ op'.records = op.records
      /\ \A t \in Spc : op'.verdicts[t] = IF t = s THEN v ELSE op.verdicts[t]
  BY <1>1, <1>4 DEF Rebuilds
<1>7. OpTypes'
  BY <1>5 DEF OpTypes
<1>8. WatchTypes' /\ ViewTypes' /\ WorkTypes' /\ StoreTypes'
  BY KeptTypes DEF Reverify
<1> QED
  BY <1>1, <1>5, <1>6, <1>7, <1>8 DEF Types, v

LEMMA RestoreTypes ==
  ASSUME Types, Restore, app # None
  PROVE  /\ Types' /\ Rebuilding
         /\ saved # None /\ saved.index.snapshot = app /\ catalog = None /\ op' = Idle
         /\ index' \in Indices /\ index'.snapshot = app
         /\ index'.shown = WithRecords(saved.index.shown, durable, app)
         /\ Returns(index' # index)
<1>1. Rebuilding /\ app \in Versions /\ durable \in Records
  BY DEF Restore, Rebuilding, Types, ViewTypes, StoreTypes
<1>2. /\ saved # None /\ saved.index.snapshot = app /\ catalog = None
      /\ saved.index \in Indices /\ saved.owed \subseteq tainted
  BY DEF Restore, Restorable, Types, StoreTypes
<1>3. index' = [saved.index EXCEPT !.shown = WithRecords(@, durable, app)]
  BY DEF Restore
<1>4. saved.index.shown \in Catalogs
  BY <1>2 DEF Indices
<1>5. WithRecords(saved.index.shown, durable, app) \in Catalogs
  BY <1>1, <1>4, WithRecordsTypes
<1>6. /\ index' \in Indices /\ index'.snapshot = app
      /\ index'.shown = WithRecords(saved.index.shown, durable, app)
  BY <1>1, <1>2, <1>3, <1>5 DEF Indices
<1>7. Returns(index' # index) /\ owed' = saved.owed /\ retained' = durable
      /\ verified' = verified \union Remembered
      /\ UNCHANGED <<watch, app, catalog, queue, closing, store, tainted, bounds>>
  BY DEF Restore
<1>8. op' = Idle /\ scheduler' \in Schedulers /\ clock' \in Clocks
  BY <1>7, ReturnsTypes DEF Types
<1>9. ViewTypes'
  BY <1>1, <1>6, <1>7 DEF Types, ViewTypes, Remembered
<1>10. OpTypes'
  BY <1>8 DEF OpTypes
<1>11. WorkTypes'
  BY <1>7, <1>8 DEF Types, WorkTypes
<1>12. StoreTypes'
  BY <1>2, <1>7 DEF Types, StoreTypes, store
<1>13. WatchTypes'
  BY <1>7, KeptTypes
<1> QED
  BY <1>1, <1>2, <1>6, <1>7, <1>8, <1>9, <1>10, <1>11, <1>12, <1>13 DEF Types

LEMMA PublishDeltaTypes ==
  ASSUME Types, PublishDelta, app # None
  PROVE  /\ Types' /\ Rebuilding /\ op \in Rebuilds /\ index # None /\ catalog = None
         /\ index' \in Indices /\ index'.snapshot = app /\ op' = Idle
         /\ \A s \in Spc :
              /\ index'.shown[s] = IF s \in op.reported THEN Projected(op.verdicts)[s]
                                   ELSE index.shown[s]
              /\ retained'[s] \in {RecordsOf(Projected(op.verdicts), app)[s], op.records[s], None}
         /\ unsaved'.index = index' /\ unsaved'.records = retained' /\ unsaved'.owed = owed'
         /\ Returns(index' # index)
<1>1. /\ Rebuilding /\ app \in Versions /\ index # None /\ catalog = None
      /\ Returns(index' # index) /\ Persist(retained') /\ owed' = owed \ op.reported
      /\ UNCHANGED <<watch, app, catalog, verified, queue, closing, saving, saved, durable,
                     tainted, bounds>>
  BY DEF PublishDelta, Rebuilding, Types, ViewTypes
<1>2. op \in Rebuilds /\ index.shown \in Catalogs
  BY <1>1, OpKinds, IndexTypes DEF Types
<1>3. op.verdicts \in [Spc -> Partial \union {None}] /\ op.records \in Records
  BY <1>2 DEF Rebuilds
<1> DEFINE projected == Projected(op.verdicts)
           patched == [s \in Spc |-> IF s \in op.reported THEN projected[s] ELSE index.shown[s]]
           kept == [s \in Spc |->
              IF s \in op.reported THEN RecordsOf(projected, app)[s]
              ELSE IF op.records[s] # None /\ op.records[s].inputs = Inputs(app, s)
              THEN op.records[s] ELSE None]
<1>4. index' = [snapshot |-> app, shown |-> patched] /\ retained' = kept
  BY DEF PublishDelta
<1>5. projected \in Catalogs
  BY <1>1, <1>2, <1>3, ProjectedTypes
<1>6. RecordsOf(projected, app) \in Records
  BY <1>1, <1>5, RecordsOfTypes
<1> HIDE DEF projected
<1>7. patched \in Catalogs
  <2>1. patched = [s \in Spc |-> patched[s]]
    OBVIOUS
  <2>2. ASSUME NEW s \in Spc
        PROVE  /\ patched[s] \in [of : Partial, verdict : Partial \union {None}]
               /\ DOMAIN patched[s].of = SourcesOf(s)
    BY <1>2, <1>5 DEF Catalogs
  <2> HIDE DEF patched
  <2> QED
    BY <2>1, <2>2, IsCatalog
<1>8. /\ index' \in Indices /\ index'.snapshot = app
      /\ \A s \in Spc : index'.shown[s] = IF s \in op.reported THEN projected[s]
                                          ELSE index.shown[s]
  BY <1>1, <1>4, <1>7 DEF Indices
<1>9. /\ retained' \in Records
      /\ \A s \in Spc : retained'[s] \in {RecordsOf(projected, app)[s], op.records[s], None}
  BY <1>3, <1>4, <1>6 DEF Records
<1>10. unsaved'.index = index' /\ unsaved'.records = retained' /\ unsaved'.owed = owed'
  BY <1>1 DEF Persist
<1>11. op' = Idle /\ scheduler' \in Schedulers /\ clock' \in Clocks
  BY <1>1, ReturnsTypes DEF Types
<1>12. ViewTypes'
  BY <1>1, <1>8, <1>9 DEF Types, ViewTypes
<1>13. OpTypes'
  BY <1>11 DEF OpTypes
<1>14. WorkTypes'
  BY <1>1, <1>11 DEF Types, WorkTypes
<1>15. StoreTypes'
  <2>1. owed' \subseteq tainted' /\ tainted' \subseteq Spc /\ durable' \in Records
    BY <1>1 DEF Types, StoreTypes
  <2>2. unsaved'.index \in Indices /\ unsaved'.records \in Records
        /\ unsaved'.owed \subseteq tainted'
    BY <1>8, <1>9, <1>10, <2>1
  <2>3. UNCHANGED <<saving, saved, tainted>>
    BY <1>1
  <2> QED
    BY <2>1, <2>2, <2>3 DEF Types, StoreTypes
<1>16. WatchTypes'
  BY <1>1, KeptTypes
<1> QED
  BY <1>1, <1>2, <1>8, <1>9, <1>10, <1>11, <1>12, <1>13, <1>14, <1>15, <1>16 DEF Types, projected

LEMMA PublishFullTypes ==
  ASSUME Types, PublishFull, app # None
  PROVE  /\ Types' /\ Rebuilding /\ op \in Rebuilds
         /\ index' \in Indices /\ index'.snapshot = app /\ op' = Idle
         /\ catalog' = index'.shown /\ catalog' \in Catalogs
         /\ retained' = RecordsOf(catalog', app)
         /\ \E verdicts \in {NoRecords, op.verdicts} : \E next \in Catalogs :
              /\ \A s \in Spc : next[s] = IF catalog = None \/ s \in op.reported
                                          THEN Projected(verdicts)[s] ELSE catalog[s]
              /\ catalog' = WithRecords(next, op.records, app)
         /\ unsaved'.index = index' /\ unsaved'.records = retained' /\ unsaved'.owed = owed'
         /\ Returns(index' # index)
<1>1. /\ Rebuilding /\ app \in Versions /\ catalog \in Catalogs \union {None}
      /\ Returns(index' # index) /\ Persist(retained')
      /\ owed' = IF catalog = None THEN {} ELSE owed \ op.reported
      /\ index' = [snapshot |-> app, shown |-> catalog']
      /\ retained' = RecordsOf(catalog', app)
      /\ UNCHANGED <<watch, app, verified, queue, closing, saving, saved, durable, tainted,
                     bounds>>
  BY DEF PublishFull, Rebuilding, Types, ViewTypes
<1>2. op \in Rebuilds
  BY <1>1, OpKinds DEF Types
<1>3. op.verdicts \in [Spc -> Partial \union {None}] /\ op.records \in Records
  BY <1>2 DEF Rebuilds
<1> DEFINE again == catalog = None /\ index # None /\ disk # app
           verdicts == IF again THEN NoRecords ELSE op.verdicts
           next == [s \in Spc |-> IF catalog = None \/ s \in op.reported
                                  THEN Projected(verdicts)[s] ELSE catalog[s]]
<1>4. catalog' = WithRecords(next, op.records, app)
  BY DEF PublishFull
<1>5. verdicts \in {NoRecords, op.verdicts} /\ verdicts \in [Spc -> Partial \union {None}]
  BY <1>3, NoRecordsTypes
<1> HIDE DEF verdicts, again
<1>6. Projected(verdicts) \in Catalogs
  BY <1>1, <1>2, <1>5, ProjectedTypes
<1>7. next \in Catalogs
  <2>1. next = [s \in Spc |-> next[s]]
    OBVIOUS
  <2>2. ASSUME NEW s \in Spc
        PROVE  /\ next[s] \in [of : Partial, verdict : Partial \union {None}]
               /\ DOMAIN next[s].of = SourcesOf(s)
    BY <1>1, <1>6 DEF Catalogs
  <2> HIDE DEF next
  <2> QED
    BY <2>1, <2>2, IsCatalog
<1>8. \A s \in Spc : next[s] = IF catalog = None \/ s \in op.reported
                               THEN Projected(verdicts)[s] ELSE catalog[s]
  OBVIOUS
<1> HIDE DEF next
<1>9. catalog' \in Catalogs
  BY <1>1, <1>3, <1>4, <1>7, WithRecordsTypes
<1>10. index' \in Indices /\ index'.snapshot = app /\ index'.shown = catalog'
  BY <1>1, <1>9 DEF Indices
<1>11. retained' \in Records
  BY <1>1, <1>9, RecordsOfTypes
<1>12. unsaved'.index = index' /\ unsaved'.records = retained' /\ unsaved'.owed = owed'
  BY <1>1 DEF Persist
<1>13. op' = Idle /\ scheduler' \in Schedulers /\ clock' \in Clocks
  BY <1>1, ReturnsTypes DEF Types
<1>14. ViewTypes'
  BY <1>1, <1>9, <1>10, <1>11 DEF Types, ViewTypes
<1>15. OpTypes'
  BY <1>13 DEF OpTypes
<1>16. WorkTypes'
  BY <1>1, <1>13 DEF Types, WorkTypes
<1>17. StoreTypes'
  <2>1. owed' \subseteq tainted' /\ tainted' \subseteq Spc /\ durable' \in Records
    BY <1>1 DEF Types, StoreTypes
  <2>2. unsaved'.index \in Indices /\ unsaved'.records \in Records
        /\ unsaved'.owed \subseteq tainted'
    BY <1>10, <1>11, <1>12, <2>1
  <2>3. UNCHANGED <<saving, saved, tainted>>
    BY <1>1
  <2> QED
    BY <2>1, <2>2, <2>3 DEF Types, StoreTypes
<1>18. WatchTypes'
  BY <1>1, KeptTypes
<1>19. Types' /\ Rebuilding /\ op \in Rebuilds
  BY <1>1, <1>2, <1>14, <1>15, <1>16, <1>17, <1>18 DEF Types
<1> QED
  BY <1>1, <1>4, <1>5, <1>7, <1>8, <1>9, <1>10, <1>12, <1>13, <1>19

LEMMA FailRefreshTypes ==
  ASSUME Types, FailRefresh
  PROVE  /\ Types' /\ Running({"initialize", "rebuild"})
         /\ Throws(Front.kind, Touched(pending)) /\ Touched(pending) \subseteq Spc
         /\ queue' = Tail(queue) /\ pending' = {}
<1>1. /\ Running({"initialize", "rebuild"}) /\ Throws(Front.kind, Touched(pending))
      /\ queue' = Tail(queue) /\ pending' = {}
      /\ UNCHANGED <<disk, events, observed, rejected, view, op, store>>
  BY DEF FailRefresh
<1>2. Touched(pending) \subseteq Spc
  BY DEF Touched
<1>3. Tail(queue) \in Seq(Requests)
  BY <1>1, FrontTypes DEF Types
<1>4. WatchTypes'
  BY <1>1 DEF Types, WatchTypes
<1>5. WorkTypes'
  BY <1>1, <1>2, <1>3, ThrowsTypes DEF WorkTypes
<1>6. StoreTypes'
  <2>1. tainted \subseteq tainted' /\ tainted' \subseteq Spc /\ owed' \subseteq tainted'
    BY <1>1, <1>2, ThrowsTypes
  <2>2. UNCHANGED <<unsaved, saving, saved, durable>>
    BY <1>1 DEF store
  <2> QED
    BY <2>1, <2>2 DEF Types, StoreTypes
<1> QED
  BY <1>1, <1>2, <1>4, <1>5, <1>6, KeptTypes DEF Types

LEMMA FailProjectionTypes ==
  ASSUME Types, FailProjection
  PROVE  /\ Types' /\ Rebuilding /\ op \in Rebuilds /\ op' = Idle
         /\ Throws(op.kind, op.reported \union Touched(pending))
         /\ op.reported \union Touched(pending) \subseteq Spc
<1>1. /\ Rebuilding /\ Throws(op.kind, op.reported \union Touched(pending))
      /\ op' = Idle /\ UNCHANGED <<watch, view, queue, store>>
  BY DEF FailProjection, Rebuilding
<1>2. op \in Rebuilds /\ op.reported \union Touched(pending) \subseteq Spc
  BY <1>1, OpKinds DEF Touched, Rebuilds, Types
<1>3. WorkTypes'
  BY <1>1, <1>2, ThrowsTypes DEF Types, WorkTypes
<1>4. StoreTypes'
  <2>1. tainted \subseteq tainted' /\ tainted' \subseteq Spc /\ owed' \subseteq tainted'
    BY <1>1, <1>2, ThrowsTypes
  <2>2. UNCHANGED <<unsaved, saving, saved, durable>>
    BY <1>1 DEF store
  <2> QED
    BY <2>1, <2>2 DEF Types, StoreTypes
<1>5. OpTypes'
  BY <1>1 DEF OpTypes
<1> QED
  BY <1>1, <1>2, <1>3, <1>4, <1>5, KeptTypes DEF Types

LEMMA FrontSpecTypes ==
  ASSUME WorkTypes, NEW kind \in {"verify", "history"}, Running({kind})
  PROVE  Front.spec \in Spc /\ Front.revision \in Partial
<1>1. Front \in Requests /\ Front.kind = kind
  BY FrontTypes
<1> QED
  BY <1>1 DEF Requests

(* A verification starts with the catalog that it will confirm.            *)
LEMMA StartVerifyTypes ==
  ASSUME Types, index # None, StartVerify
  PROVE  /\ Types' /\ Running({"verify"}) /\ queue' = Tail(queue)
         /\ catalog' \in {catalog, Hydrated} /\ op'.kind \in {"idle", "verify"}
         /\ op'.kind = "verify" =>
              /\ closing = "no" /\ catalog' = Hydrated /\ op'.spec \in Spc
              /\ op'.verdict = Hydrated[op'.spec].verdict
<1>1. /\ Running({"verify"}) /\ queue' = Tail(queue)
      /\ UNCHANGED <<watch, app, index, retained, verified, scheduler, closing, clock, store,
                     debt, bounds>>
  BY DEF StartVerify
<1>2. /\ op.kind = "idle" /\ op = Idle /\ Tail(queue) \in Seq(Requests) /\ Front.spec \in Spc
  BY <1>1, FrontTypes, FrontSpecTypes, OpKinds DEF Types
<1>3. Hydrated \in Catalogs
  BY HydratedTypes DEF Types
<1> DEFINE shown == Hydrated[Front.spec]
           phase == IF shown.verdict = None THEN "focus" ELSE "confirm"
<1>4. shown.verdict \in Partial \union {None}
  BY <1>2, <1>3, CatalogTypes
<1>5. CASE closing # "no"
  BY <1>1, <1>2, <1>5 DEF StartVerify, Types, OpTypes, ViewTypes, WorkTypes, WatchTypes, StoreTypes,
     watch, store, debt, Idle
<1>6. CASE closing = "no"
  <2>1. /\ catalog' = Hydrated
        /\ op' = IF Text(shown.of, Front.spec) # Front.revision THEN Idle
                 ELSE [kind |-> "verify", spec |-> Front.spec, verdict |-> shown.verdict,
                       phase |-> phase]
    BY <1>6 DEF StartVerify
  <2>2. phase \in {"focus", "confirm"}
    OBVIOUS
  <2> HIDE DEF phase, shown
  <2>3. \/ op' = Idle
        \/ /\ op' \in Verifying /\ op'.kind = "verify" /\ op'.spec = Front.spec
           /\ op'.verdict = shown.verdict
    BY <1>2, <1>4, <2>1, <2>2 DEF Verifying
  <2>4. OpTypes'
    BY <2>3 DEF OpTypes
  <2>5. ViewTypes'
    BY <1>1, <1>3, <2>1 DEF Types, ViewTypes
  <2>6. WorkTypes'
    BY <1>1, <1>2 DEF Types, WorkTypes
  <2>7. WatchTypes' /\ StoreTypes'
    BY <1>1, KeptTypes
  <2>8. Types'
    BY <2>4, <2>5, <2>6, <2>7 DEF Types
  <2>9. op'.kind = "verify" => op'.spec \in Spc /\ op'.verdict = Hydrated[op'.spec].verdict
    BY <1>2, <2>3 DEF Idle, shown
  <2>10. op'.kind \in {"idle", "verify"}
    BY <2>3 DEF Idle
  <2> QED
    BY <1>1, <1>6, <2>1, <2>8, <2>9, <2>10
<1> QED
  BY <1>5, <1>6

LEMMA HistoryTypes ==
  ASSUME Types, index # None, History
  PROVE  /\ Types' /\ Running({"history"}) /\ queue' = Tail(queue)
         /\ catalog' \in {catalog, Hydrated}
<1>1. /\ Running({"history"}) /\ queue' = Tail(queue) /\ catalog' \in {catalog, Hydrated}
      /\ UNCHANGED <<watch, app, index, retained, verified, op, scheduler, closing, clock, store,
                     debt, bounds>>
  BY DEF History
<1>2. Tail(queue) \in Seq(Requests) /\ Hydrated \in Catalogs
  BY <1>1, FrontTypes, HydratedTypes DEF Types
<1>3. ViewTypes'
  BY <1>1, <1>2 DEF Types, ViewTypes
<1>4. WorkTypes'
  BY <1>1, <1>2 DEF Types, WorkTypes
<1> QED
  BY <1>1, <1>3, <1>4, KeptTypes DEF Types

LEMMA FocusTypes ==
  ASSUME Types, index # None, Focus
  PROVE  /\ Types' /\ op.kind = "verify" /\ op.spec \in Spc
         /\ \/ op' = Idle
            \/ /\ op'.kind = "verify" /\ op'.spec = op.spec
               /\ op'.verdict = Verdict(op.spec, index.snapshot)
<1>1. op.kind = "verify" /\ op \in Verifying
  BY OpKinds DEF Focus, Types
<1>2. op.spec \in Spc
  BY <1>1 DEF Verifying
<1> DEFINE v == Verdict(op.spec, index.snapshot)
<1>3. v \in Partial \union {None}
  BY <1>2, IndexTypes, VerdictType DEF Types
<1>4. \/ op' = Idle
      \/ op' = [op EXCEPT !.phase = "confirm", !.verdict = v]
  BY DEF Focus
<1> HIDE DEF v
<1>5. \/ op' = Idle
      \/ /\ op' \in Verifying /\ op'.kind = "verify" /\ op'.spec = op.spec /\ op'.verdict = v
  BY <1>1, <1>3, <1>4 DEF Verifying
<1>6. OpTypes'
  BY <1>5 DEF OpTypes
<1>7. WatchTypes' /\ ViewTypes' /\ WorkTypes' /\ StoreTypes'
  BY KeptTypes DEF Focus
<1> QED
  BY <1>1, <1>2, <1>5, <1>6, <1>7 DEF Types, v

LEMMA FailVerifyTypes ==
  ASSUME Types, FailVerify
  PROVE  Types' /\ op.kind = "verify" /\ op' = Idle
<1>1. /\ op.kind = "verify" /\ op' = Idle
      /\ UNCHANGED <<watch, view, queue, scheduler, closing, clock, store, debt>>
  BY DEF FailVerify
<1>2. OpTypes'
  BY <1>1 DEF OpTypes
<1> QED
  BY <1>1, <1>2, KeptTypes DEF Types

(* A verification that is confirmed changes one verdict of the catalog.    *)
LEMMA ConfirmTypes ==
  ASSUME Types, index # None, catalog # None, Confirm
  PROVE  /\ Types' /\ op.kind = "verify" /\ op.spec \in Spc /\ op' = Idle
         /\ catalog' \in Catalogs /\ index' \in Indices
         /\ index'.snapshot = index.snapshot /\ index'.shown = catalog'
         /\ \A s \in Spc : /\ catalog'[s].of = catalog[s].of
                           /\ catalog'[s].verdict = IF s = op.spec THEN op.verdict
                                                    ELSE catalog[s].verdict
         /\ retained' = RecordsOf(catalog', index.snapshot)
         /\ unsaved'.index = index' /\ unsaved'.records = retained' /\ unsaved'.owed = owed
         /\ \/ clock' = clock
            \/ /\ clock'.generation = clock.generation + 1
               /\ clock'.delivered = clock.delivered
               /\ clock'.heard \in {None, clock'.generation}
               /\ clock.heard = None => clock'.heard = None
<1>1. /\ op.kind = "verify" /\ op' = Idle /\ op \in Verifying
      /\ catalog' = [catalog EXCEPT ![op.spec].verdict = op.verdict]
      /\ index' = [index EXCEPT !.shown = catalog']
      /\ retained' = RecordsOf(catalog', index.snapshot) /\ Persist(retained')
      /\ UNCHANGED <<watch, app, owed, queue, scheduler, closing, saving, saved, durable, tainted>>
      /\ verified' = verified \union {op.spec}
  BY OpKinds DEF Confirm, Types
<1>2. op.spec \in Spc /\ op.verdict \in Partial \union {None}
  BY <1>1 DEF Verifying
<1>3. catalog \in Catalogs /\ index \in Indices /\ index.snapshot \in Versions
  BY IndexTypes DEF Types, ViewTypes
<1>4. ASSUME NEW s \in Spc
      PROVE  /\ catalog'[s] \in [of : Partial, verdict : Partial \union {None}]
             /\ DOMAIN catalog'[s].of = SourcesOf(s)
             /\ catalog'[s].of = catalog[s].of
             /\ catalog'[s].verdict = IF s = op.spec THEN op.verdict ELSE catalog[s].verdict
  BY <1>1, <1>2, <1>3 DEF Catalogs
<1>5. catalog' = [s \in Spc |-> catalog'[s]]
  BY <1>1, <1>3 DEF Catalogs
<1>6. catalog' \in Catalogs
  BY <1>4, <1>5, IsCatalog
<1>7. index' \in Indices /\ index'.snapshot = index.snapshot /\ index'.shown = catalog'
  BY <1>1, <1>3, <1>6 DEF Indices
<1>8. retained' \in Records
  BY <1>1, <1>3, <1>6, RecordsOfTypes
<1>9. unsaved'.index = index' /\ unsaved'.records = retained' /\ unsaved'.owed = owed
  BY <1>1 DEF Persist
<1>10. clock \in Clocks
  BY DEF Types, WorkTypes
<1>11. \/ clock' = clock
       \/ clock' = [clock EXCEPT !.generation = @ + 1,
                                 !.heard = IF @ = None THEN None ELSE clock.generation + 1,
                                 !.muted = FALSE]
  BY DEF Confirm
<1>12. clock.generation + 1 \in Nat /\ clock.heard \in Nat \union {None}
  BY <1>10 DEF Clocks
<1>20. ASSUME clock' # clock
       PROVE  /\ clock' \in Clocks /\ clock'.generation = clock.generation + 1
              /\ clock'.delivered = clock.delivered
              /\ clock'.heard \in {None, clock'.generation}
              /\ clock.heard = None => clock'.heard = None
  <2>1. PICK next \in Nat, heard \in Nat \union {None}, muted \in BOOLEAN :
          /\ next = clock.generation + 1 /\ heard = IF clock.heard = None THEN None ELSE next
          /\ clock' = [clock EXCEPT !.generation = next, !.heard = heard, !.muted = muted]
    BY <1>11, <1>12, <1>20
  <2>2. /\ clock' \in Clocks /\ clock'.generation = next /\ clock'.heard = heard
        /\ clock'.delivered = clock.delivered
    BY <1>10, <2>1 DEF Clocks
  <2> QED
    BY <2>1, <2>2
<1>21. clock' \in Clocks
  BY <1>10, <1>20
<1>13. ViewTypes'
  BY <1>1, <1>2, <1>6, <1>7, <1>8 DEF Types, ViewTypes
<1>14. OpTypes'
  BY <1>1 DEF OpTypes
<1>15. WorkTypes'
  BY <1>1, <1>21 DEF Types, WorkTypes
<1>16. StoreTypes'
  <2>1. owed' \subseteq tainted' /\ tainted' \subseteq Spc /\ durable' \in Records
    BY <1>1 DEF Types, StoreTypes
  <2>2. unsaved'.index \in Indices /\ unsaved'.records \in Records
        /\ unsaved'.owed \subseteq tainted'
    BY <1>1, <1>7, <1>8, <1>9, <2>1
  <2>3. UNCHANGED <<saving, saved, tainted>>
    BY <1>1
  <2> QED
    BY <2>1, <2>2, <2>3 DEF Types, StoreTypes
<1>17. WatchTypes'
  BY <1>1, KeptTypes
<1>18. Types'
  BY <1>13, <1>14, <1>15, <1>16, <1>17 DEF Types
<1> QED
  BY <1>1, <1>2, <1>4, <1>6, <1>7, <1>9, <1>18, <1>20

LEMMA EditTypes ==
  ASSUME Types, NEW f \in File, Edit(f)
  PROVE  /\ Types' /\ events' = events \union {f}
         /\ \A g \in File : disk'[g] = IF g = f THEN disk[g] + 1 ELSE disk[g]
<1>1. /\ disk' = [disk EXCEPT ![f] = @ + 1] /\ events' = events \union {f}
      /\ UNCHANGED <<pending, observed, rejected, view, work, clock, store, debt>>
  BY DEF Edit
<1>2. /\ disk' \in Versions
      /\ \A g \in File : disk'[g] = IF g = f THEN disk[g] + 1 ELSE disk[g]
  BY <1>1 DEF Types, WatchTypes, Versions
<1>3. WatchTypes'
  BY <1>1, <1>2 DEF Types, WatchTypes
<1>4. ViewTypes' /\ OpTypes' /\ WorkTypes' /\ StoreTypes'
  BY <1>1, KeptTypes DEF work
<1> QED
  BY <1>1, <1>2, <1>3, <1>4 DEF Types

LEMMA ReportTypes ==
  ASSUME Types, NEW f \in File, Report(f)
  PROVE  /\ Types' /\ events' = events \ {f} /\ closing' = closing
         /\ UNCHANGED <<disk, view, op, queue, clock, store, debt>>
         /\ \/ /\ UNCHANGED <<pending, observed, scheduler>>
               /\ \/ closing # "no" /\ rejected' = rejected
                  \/ rejected' = rejected \union {f}
                  \/ rejected' = rejected /\ observed[f] = disk[f]
            \/ /\ pending' = pending \union {f} /\ scheduler' = Requested
               /\ closing = "no" /\ rejected' = rejected
               /\ observed' = [observed EXCEPT ![f] = disk[f]]
<1>1. /\ events' = events \ {f}
      /\ UNCHANGED <<disk, view, op, queue, closing, clock, store, debt, bounds>>
  BY DEF Report
<1>2. \/ /\ UNCHANGED <<pending, observed, scheduler>>
         /\ \/ closing # "no" /\ rejected' = rejected
            \/ rejected' = rejected \union {f}
            \/ rejected' = rejected /\ observed[f] = disk[f]
      \/ /\ pending' = pending \union {f} /\ scheduler' = Requested
         /\ closing = "no" /\ rejected' = rejected
         /\ observed' = [observed EXCEPT ![f] = disk[f]]
  BY DEF Report
<1>3. scheduler' \in Schedulers
  BY <1>2, RequestedTypes DEF Types, WorkTypes
<1>4. pending' \subseteq File /\ rejected' \subseteq File /\ events' \subseteq File
  BY <1>1, <1>2 DEF Types, WatchTypes
<1>5. observed' \in [File -> Nat \union {None}]
  BY <1>2 DEF Types, WatchTypes, Versions
<1>6. WatchTypes'
  BY <1>1, <1>4, <1>5 DEF Types, WatchTypes
<1>7. WorkTypes'
  BY <1>1, <1>3 DEF Types, WorkTypes
<1>8. ViewTypes' /\ OpTypes' /\ StoreTypes'
  BY <1>1, KeptTypes
<1> QED
  BY <1>1, <1>2, <1>6, <1>7, <1>8 DEF Types

LEMMA EnqueueKeepsTypes ==
  ASSUME Types, NEW request \in Requests, Enqueue(request), scheduler' \in Schedulers,
         closing' \in {"no", "settling", "queued", "closed", "failed"},
         UNCHANGED <<watch, view, op, clock, store, debt>>
  PROVE  Types'
<1>1. queue' \in Seq(Requests)
  BY EnqueueTypes DEF Types
<1>2. WorkTypes'
  BY <1>1 DEF Types, WorkTypes
<1> QED
  BY <1>2, KeptTypes DEF Types

LEMMA QuietenTypes ==
  ASSUME Types, Quieten
  PROVE  /\ Types' /\ Enqueue([kind |-> "rebuild"]) /\ [kind |-> "rebuild"] \in Requests
         /\ scheduler.phase = "debounce" /\ scheduler'.phase = "rebuild"
         /\ scheduler'.changed = scheduler.changed
<1>1. scheduler.phase = "debounce" /\ scheduler' \in Schedulers /\ scheduler'.phase = "rebuild"
      /\ scheduler'.changed = scheduler.changed
  BY DEF Quieten, Types, WorkTypes, Schedulers
<1>2. [kind |-> "rebuild"] \in Requests
  BY DEF Requests
<1>3. closing' \in {"no", "settling", "queued", "closed", "failed"}
  BY DEF Quieten, Types, WorkTypes
<1>4. Enqueue([kind |-> "rebuild"]) /\ UNCHANGED <<watch, view, op, clock, store, debt>>
  BY DEF Quieten
<1> QED
  BY <1>1, <1>2, <1>3, <1>4, EnqueueKeepsTypes

LEMMA InitializeTypes ==
  ASSUME Types, Initialize
  PROVE  Types' /\ Enqueue([kind |-> "initialize"]) /\ [kind |-> "initialize"] \in Requests
<1>1. Enqueue([kind |-> "initialize"]) /\ [kind |-> "initialize"] \in Requests
  BY DEF Initialize, Requests
<1>2. scheduler' \in Schedulers /\ closing' \in {"no", "settling", "queued", "closed", "failed"}
      /\ UNCHANGED <<watch, view, op, clock, store, debt>>
  BY DEF Initialize, Types, WorkTypes
<1> QED
  BY <1>1, <1>2, EnqueueKeepsTypes

LEMMA RequestTypes ==
  ASSUME Types, NEW s \in Spc, NEW kind \in {"verify", "history"}, Request(s, kind)
  PROVE  /\ Types' /\ index # None
         /\ \E request \in Requests : Enqueue(request) /\ request.kind = kind
<1> DEFINE revision == Text(index.shown[s].of, s)
<1>1. index # None /\ Enqueue([kind |-> kind, spec |-> s, revision |-> revision])
      /\ UNCHANGED <<watch, view, op, scheduler, closing, clock, store, debt>>
  BY DEF Request
<1>2. revision \in Partial
  BY <1>1, IndexTypes, CatalogTypes DEF Types
<1> HIDE DEF revision
<1>3. [kind |-> kind, spec |-> s, revision |-> revision] \in Requests
  BY <1>2 DEF Requests
<1>4. scheduler' \in Schedulers /\ closing' \in {"no", "settling", "queued", "closed", "failed"}
  BY <1>1 DEF Types, WorkTypes
<1>5. Types'
  BY <1>1, <1>3, <1>4, EnqueueKeepsTypes
<1> QED
  BY <1>1, <1>3, <1>5

LEMMA SettleTypes ==
  ASSUME Types, Settle
  PROVE  Types' /\ Enqueue([kind |-> "close"]) /\ [kind |-> "close"] \in Requests
<1>1. Enqueue([kind |-> "close"]) /\ [kind |-> "close"] \in Requests
  BY DEF Settle, Requests
<1>2. scheduler' \in Schedulers /\ closing' \in {"no", "settling", "queued", "closed", "failed"}
      /\ UNCHANGED <<watch, view, op, clock, store, debt>>
  BY DEF Settle, Types, WorkTypes
<1> QED
  BY <1>1, <1>2, EnqueueKeepsTypes

LEMMA SkipInitializeTypes ==
  ASSUME Types, SkipInitialize
  PROVE  Types' /\ Running({"initialize"}) /\ queue' = Tail(queue)
<1>1. /\ Running({"initialize"}) /\ queue' = Tail(queue)
      /\ UNCHANGED <<watch, view, op, scheduler, closing, clock, store, debt, bounds>>
  BY DEF SkipInitialize
<1>2. WorkTypes'
  BY <1>1, FrontTypes DEF Types, WorkTypes
<1> QED
  BY <1>1, <1>2, KeptTypes DEF Types

LEMMA CloseTypes ==
  ASSUME Types, Close
  PROVE  Types' /\ Running({"close"}) /\ queue' = Tail(queue)
<1>1. /\ Running({"close"}) /\ queue' = Tail(queue) /\ closing' = "closed" /\ app' = None
      /\ UNCHANGED <<watch, index, catalog, retained, verified, op, scheduler, clock, store, debt,
                     bounds>>
  BY DEF Close
<1>2. WorkTypes'
  BY <1>1, FrontTypes DEF Types, WorkTypes
<1>3. ViewTypes'
  BY <1>1 DEF Types, ViewTypes
<1> QED
  BY <1>1, <1>2, <1>3, KeptTypes DEF Types

LEMMA SubscribeTypes ==
  ASSUME Types, Subscribe
  PROVE  /\ Types' /\ clock'.generation = clock.generation
         /\ clock'.delivered = clock.delivered /\ clock'.heard = clock.generation
<1>1. /\ clock' = [clock EXCEPT !.heard = clock.generation, !.muted = FALSE]
      /\ UNCHANGED <<watch, view, work, store, debt, bounds>>
  BY DEF Subscribe
<1>2. /\ clock' \in Clocks /\ clock'.generation = clock.generation
      /\ clock'.delivered = clock.delivered /\ clock'.heard = clock.generation
  BY <1>1 DEF Types, WorkTypes, Clocks
<1>3. WorkTypes' /\ OpTypes'
  BY <1>1, <1>2 DEF Types, WorkTypes, OpTypes, work
<1> QED
  BY <1>1, <1>2, <1>3, KeptTypes DEF Types

LEMMA DisposeTypes ==
  ASSUME Types, Dispose
  PROVE  /\ Types' /\ clock'.generation = clock.generation
         /\ clock'.delivered = clock.delivered /\ clock'.heard = None
<1>1. /\ clock' = [clock EXCEPT !.heard = None] /\ closing' = "settling"
      /\ UNCHANGED <<watch, view, op, queue, scheduler, store, debt, bounds>>
  BY DEF Dispose
<1>2. /\ clock' \in Clocks /\ clock'.generation = clock.generation
      /\ clock'.delivered = clock.delivered /\ clock'.heard = None
  BY <1>1 DEF Types, WorkTypes, Clocks
<1>3. WorkTypes'
  BY <1>1, <1>2 DEF Types, WorkTypes
<1> QED
  BY <1>1, <1>2, <1>3, KeptTypes DEF Types

LEMMA SaveTypes ==
  ASSUME Types, Saving
  PROVE  Types'
<1>1. CASE SaveCatalog
  <2>1. /\ unsaved # None
        /\ saved' = [index |-> unsaved.index, owed |-> unsaved.owed]
        /\ saving' = [records |-> unsaved.records] /\ unsaved' = None
        /\ UNCHANGED <<watch, view, work, clock, durable, debt, bounds>>
    BY <1>1 DEF SaveCatalog
  <2>2. /\ saved'.index = unsaved.index /\ saved'.owed = unsaved.owed
        /\ saving'.records = unsaved.records
    BY <2>1
  <2>3. StoreTypes'
    BY <2>1, <2>2 DEF Types, StoreTypes, debt
  <2> QED
    BY <2>1, <2>3, KeptTypes DEF Types, work
<1>2. CASE SaveRecords
  <2>1. saving # None /\ durable' = saving.records /\ saving' = None
        /\ UNCHANGED <<watch, view, work, clock, unsaved, saved, debt, bounds>>
    BY <1>2 DEF SaveRecords
  <2>2. StoreTypes'
    BY <2>1 DEF Types, StoreTypes, debt
  <2> QED
    BY <2>1, <2>2, KeptTypes DEF Types, work
<1> QED
  BY <1>1, <1>2 DEF Saving

LEMMA RestartTypes ==
  ASSUME Types, Restart
  PROVE  Types' /\ clock' = Fresh /\ Fresh.heard = None
<1>1. /\ events' = {} /\ pending' = {} /\ rejected' = {} /\ observed' = [f \in File |-> None]
      /\ app' = None /\ index' = None /\ catalog' = None /\ retained' = NoRecords /\ verified' = {}
      /\ op' = Idle /\ queue' = <<>> /\ scheduler' = Calm /\ clock' = Fresh /\ closing' = "no"
      /\ unsaved' = None /\ saving' = None /\ owed' = {}
      /\ UNCHANGED <<disk, saved, durable, tainted>>
  BY DEF Restart
<1>2. WatchTypes'
  BY <1>1 DEF Types, WatchTypes
<1>3. ViewTypes'
  BY <1>1, NoRecordsTypes DEF Types, ViewTypes
<1>4. OpTypes'
  BY <1>1 DEF OpTypes
<1>5. Calm \in Schedulers /\ Fresh \in Clocks /\ Fresh.heard = None
  BY DEF Calm, Schedulers, Fresh, Clocks
<1>6. WorkTypes'
  BY <1>1, <1>5 DEF WorkTypes
<1>7. StoreTypes'
  BY <1>1 DEF Types, StoreTypes
<1> QED
  BY <1>1, <1>2, <1>3, <1>4, <1>5, <1>6, <1>7 DEF Types

(* Initially, and when nothing changes.                                    *)
LEMMA InitTypes == Init => Types
<1> SUFFICES ASSUME Init PROVE Types
  OBVIOUS
<1>1. WatchTypes
  BY DEF Init, WatchTypes, Versions
<1>2. ViewTypes
  BY NoRecordsTypes DEF Init, ViewTypes
<1>3. OpTypes
  BY DEF Init, OpTypes
<1>4. Calm \in Schedulers /\ Fresh \in Clocks
  BY DEF Calm, Schedulers, Fresh, Clocks
<1>5. WorkTypes
  BY <1>4 DEF Init, WorkTypes
<1>6. StoreTypes
  BY NoRecordsTypes DEF Init, StoreTypes
<1> QED
  BY <1>1, <1>2, <1>3, <1>5, <1>6 DEF Types

LEMMA StutterTypes ==
  ASSUME Types, UNCHANGED vars
  PROVE  Types'
  BY KeptTypes DEF Types, vars, work

(* The actions of Next, one by one.                                        *)
LEMMA Actions ==
  ASSUME Next
  PROVE  \/ \E f \in File : Report(f) \/ Edit(f)
         \/ Quieten \/ Initialize \/ Settle \/ SkipInitialize
         \/ \E s \in Spc, kind \in {"verify", "history"} : Request(s, kind)
         \/ StartRebuild \/ Restore \/ Load \/ (\E s \in Spc : Reverify(s))
         \/ PublishDelta \/ PublishFull \/ FailRefresh \/ FailProjection
         \/ StartVerify \/ Focus \/ FailVerify \/ Confirm \/ History
         \/ Saving \/ Close \/ Subscribe \/ Dispose \/ Restart
  BY DEF Next, Serve, Rebuild, Verification, Closing

(* Every step keeps the types.                                             *)
LEMMA TypesStep ==
  ASSUME Types, Turns, [Next]_vars
  PROVE  Types'
<1>1. Rebuilding => app # None
  BY DEF Turns
<1>2. op.kind = "verify" => catalog # None /\ index # None
  BY DEF Turns
<1>3. Running({"verify"}) \/ Running({"history"}) => index # None
  BY FrontTypes DEF Turns, Types
<1>4. ASSUME Restore \/ PublishDelta \/ PublishFull \/ \E s \in Spc : Reverify(s)
      PROVE  app # None
  BY <1>1, <1>4 DEF Restore, PublishDelta, PublishFull, Reverify, Rebuilding
<1>5. CASE StartVerify \/ History \/ Focus \/ Confirm
  <2>1. StartVerify => Types'
    BY <1>3, StartVerifyTypes DEF StartVerify
  <2>2. History => Types'
    BY <1>3, HistoryTypes DEF History
  <2>3. Focus => Types'
    BY <1>2, FocusTypes DEF Focus
  <2>4. Confirm => Types'
    BY <1>2, ConfirmTypes DEF Confirm
  <2> QED
    BY <1>5, <2>1, <2>2, <2>3, <2>4
<1>6. CASE Restore \/ PublishDelta \/ PublishFull \/ \E s \in Spc : Reverify(s)
  <2>1. app # None
    BY <1>4, <1>6
  <2> QED
    BY <1>6, <2>1, RestoreTypes, PublishDeltaTypes, PublishFullTypes, ReverifyTypes
<1>7. CASE UNCHANGED vars
  BY <1>7, StutterTypes
<1>8. CASE (\E f \in File : Report(f) \/ Edit(f)) \/ Quieten \/ Initialize \/ Settle
           \/ SkipInitialize \/ \E s \in Spc, kind \in {"verify", "history"} : Request(s, kind)
  BY <1>8, ReportTypes, EditTypes, QuietenTypes, InitializeTypes, SettleTypes,
     SkipInitializeTypes, RequestTypes
<1>9. CASE StartRebuild \/ Load \/ FailRefresh \/ FailProjection \/ FailVerify \/ Saving \/ Close
           \/ Subscribe \/ Dispose \/ Restart
  BY <1>9, StartRebuildTypes, LoadTypes, FailRefreshTypes, FailProjectionTypes, FailVerifyTypes,
     SaveTypes, CloseTypes, SubscribeTypes, DisposeTypes, RestartTypes
<1> QED
  BY <1>5, <1>6, <1>7, <1>8, <1>9, Actions

-----------------------------------------------------------------------------
(* The queue. *)

(* What exists is not None.                                                *)
LEMMA NotNone ==
  /\ \A x \in Versions \union Catalogs \union Indices \union Nat : x # None
  BY NoneAssumption

(* What is left in the queue when the first request is taken, and what is  *)
(* in it when one is added.                                                *)
LEMMA QueueShrinks ==
  ASSUME Types, Turns, NEW kinds, Running(kinds), queue' = Tail(queue)
  PROVE  /\ \A i \in DOMAIN queue' :
              /\ queue'[i].kind = "rebuild" => scheduler.phase = "rebuild" /\ Front.kind # "rebuild"
              /\ queue'[i].kind \in {"verify", "history"} => index # None
         /\ \A i, j \in DOMAIN queue' :
              queue'[i].kind = "rebuild" /\ queue'[j].kind = "rebuild" => i = j
         /\ Front.kind = "rebuild" => scheduler.phase = "rebuild"
         /\ Front.kind \in kinds /\ op.kind = "idle"
<1>1. /\ op.kind = "idle" /\ Front.kind \in kinds /\ 1 \in DOMAIN queue /\ Front = queue[1]
      /\ \A i \in DOMAIN queue' : i + 1 \in DOMAIN queue /\ queue'[i] = queue[i + 1]
      /\ queue' \in Seq(Requests) /\ queue \in Seq(Requests)
  BY FrontTypes DEF Types, WorkTypes
<1>2. DOMAIN queue' \subseteq Nat \ {0}
  BY <1>1
<1>3. ASSUME NEW i \in DOMAIN queue'
      PROVE  /\ queue'[i].kind = "rebuild" => scheduler.phase = "rebuild" /\ Front.kind # "rebuild"
             /\ queue'[i].kind \in {"verify", "history"} => index # None
  <2>1. i + 1 \in DOMAIN queue /\ queue'[i] = queue[i + 1] /\ i + 1 # 1
    BY <1>1, <1>2
  <2> QED
    BY <1>1, <2>1 DEF Turns
<1>4. ASSUME NEW i \in DOMAIN queue', NEW j \in DOMAIN queue',
             queue'[i].kind = "rebuild", queue'[j].kind = "rebuild"
      PROVE  i = j
  <2>1. /\ i + 1 \in DOMAIN queue /\ queue'[i] = queue[i + 1]
        /\ j + 1 \in DOMAIN queue /\ queue'[j] = queue[j + 1]
    BY <1>1
  <2>2. i + 1 = j + 1
    BY <1>4, <2>1 DEF Turns
  <2> QED
    BY <1>2, <2>2
<1>5. Front.kind = "rebuild" => scheduler.phase = "rebuild"
  BY <1>1 DEF Turns
<1> QED
  BY <1>1, <1>3, <1>4, <1>5

LEMMA QueueGrows ==
  ASSUME Types, Turns, NEW request \in Requests, Enqueue(request),
         request.kind = "rebuild" => scheduler.phase # "rebuild",
         request.kind \in {"verify", "history"} => index # None
  PROVE  /\ \A i \in DOMAIN queue' :
              /\ queue'[i].kind = "rebuild" =>
                   \/ request.kind = "rebuild" /\ op.kind # "rebuild"
                   \/ scheduler.phase = "rebuild" /\ op.kind # "rebuild"
              /\ queue'[i].kind \in {"verify", "history"} => index # None
         /\ \A i, j \in DOMAIN queue' :
              queue'[i].kind = "rebuild" /\ queue'[j].kind = "rebuild" => i = j
<1>1. \A i \in DOMAIN queue' : \/ i \in DOMAIN queue /\ queue'[i] = queue[i]
                               \/ i = Len(queue) + 1 /\ queue'[i] = request
  BY EnqueueTypes DEF Types
<1>2. request.kind = "rebuild" =>
        op.kind # "rebuild" /\ \A i \in DOMAIN queue : queue[i].kind # "rebuild"
  BY DEF Turns
<1>3. ASSUME NEW i \in DOMAIN queue'
      PROVE  /\ queue'[i].kind = "rebuild" =>
                   \/ request.kind = "rebuild" /\ op.kind # "rebuild"
                   \/ scheduler.phase = "rebuild" /\ op.kind # "rebuild"
             /\ queue'[i].kind \in {"verify", "history"} => index # None
  BY <1>1, <1>2 DEF Turns
<1>4. ASSUME NEW i \in DOMAIN queue', NEW j \in DOMAIN queue',
             queue'[i].kind = "rebuild", queue'[j].kind = "rebuild"
      PROVE  i = j
  BY <1>1, <1>2, <1>4 DEF Turns
<1> QED
  BY <1>3, <1>4

(* A step that leaves operation and queue alone.                           *)
LEMMA TurnsKept ==
  ASSUME Turns, op'.kind = op.kind, queue' = queue, app' = app, index' = index,
         catalog' = catalog, closing' = closing, clock'.heard = clock.heard,
         scheduler.phase = "rebuild" => scheduler'.phase = "rebuild"
  PROVE  Turns'
  BY DEF Turns, Rebuilding

(* A rebuild that ends leaves no other one behind it.                      *)
LEMMA TurnsEnd ==
  ASSUME Turns, op' = Idle, queue' = queue, app' = app, app # None,
         closing' = closing \/ closing' = "failed", index' # None \/ index' = index,
         catalog' = catalog \/ index' # None, index' # None \/ clock'.heard = clock.heard,
         op.kind # "rebuild" => scheduler' = scheduler
  PROVE  Turns'
<1>1. op'.kind = "idle"
  BY DEF Idle
<1>2. \A i \in DOMAIN queue :
        queue[i].kind = "rebuild" => op.kind # "rebuild" /\ scheduler.phase = "rebuild"
  BY DEF Turns
<1>3. \A i \in DOMAIN queue : queue[i].kind \in {"verify", "history"} => index # None
  BY DEF Turns
<1> QED
  BY <1>1, <1>2, <1>3 DEF Turns, Rebuilding

(* Every step keeps the order of turns.                                    *)
LEMMA TurnsStep ==
  ASSUME Types, Turns, Types', [Next]_vars
  PROVE  Turns'
<1>1. Rebuilding => app # None
  BY DEF Turns
<1>2. op.kind = "verify" => catalog # None /\ index # None
  BY DEF Turns
<1>3. Running({"verify"}) \/ Running({"history"}) => index # None
  BY FrontTypes DEF Turns, Types
<1>4. CASE UNCHANGED vars
  BY <1>4, TurnsKept DEF vars, view, work
<1>5. ASSUME NEW f \in File, Report(f) PROVE Turns'
  <2>1. /\ UNCHANGED <<view, op, queue, clock>> /\ closing' = closing
        /\ scheduler' = scheduler \/ scheduler' = Requested
    BY <1>5, ReportTypes
  <2>2. scheduler.phase = "rebuild" => scheduler'.phase = "rebuild"
    BY <2>1, RequestedTypes DEF Types, WorkTypes
  <2> QED
    BY <2>1, <2>2, TurnsKept DEF view
<1>6. ASSUME NEW f \in File, Edit(f) PROVE Turns'
  BY <1>6, TurnsKept DEF Edit, view, work
<1>7. CASE Quieten
  <2>1. /\ Enqueue([kind |-> "rebuild"]) /\ [kind |-> "rebuild"] \in Requests
        /\ scheduler.phase = "debounce" /\ scheduler'.phase = "rebuild"
        /\ UNCHANGED <<view, op, clock, closing>>
    BY <1>7, QuietenTypes DEF Quieten
  <2>2. op.kind # "rebuild"
    BY <2>1 DEF Turns
  <2> QED
    BY <2>1, <2>2, QueueGrows DEF Turns, Rebuilding, view
<1>8. CASE Initialize \/ Settle
  <2>1. PICK request \in Requests : Enqueue(request) /\ request.kind \in {"initialize", "close"}
    BY <1>8, InitializeTypes, SettleTypes
  <2>2. UNCHANGED <<view, op, clock, scheduler>> 
        /\ \/ closing' = closing
           \/ closing' = "queued" /\ closing = "settling"
    BY <1>8 DEF Initialize, Settle
  <2> QED
    BY <2>1, <2>2, QueueGrows DEF Turns, Rebuilding, view
<1>9. ASSUME NEW s \in Spc, NEW kind \in {"verify", "history"}, Request(s, kind) PROVE Turns'
  <2>1. PICK request \in Requests : Enqueue(request) /\ request.kind = kind
    BY <1>9, RequestTypes
  <2>2. UNCHANGED <<view, op, clock, scheduler, closing>> /\ index # None
    BY <1>9 DEF Request
  <2> QED
    BY <2>1, <2>2, QueueGrows DEF Turns, Rebuilding, view
<1>10. CASE SkipInitialize
  <2>1. Running({"initialize"}) /\ queue' = Tail(queue)
        /\ UNCHANGED <<view, op, clock, scheduler, closing>>
    BY <1>10 DEF SkipInitialize
  <2> QED
    BY <2>1, QueueShrinks DEF Turns, Rebuilding, view
<1>11. CASE StartRebuild
  <2>1. /\ Running({"initialize", "rebuild"}) /\ (Front.kind = "initialize" => index = None)
        /\ op'.kind = Front.kind /\ queue' = Tail(queue) /\ app' # None
        /\ UNCHANGED <<index, catalog, scheduler, closing, clock>>
    BY <1>11, StartRebuildTypes, NotNone DEF StartRebuild
  <2> QED
    BY <2>1, QueueShrinks DEF Turns, Rebuilding
<1>12. CASE Load
  <2>1. op'.kind = op.kind
    BY <1>12, LoadTypes
  <2> QED
    BY <1>12, <2>1, TurnsKept DEF Load
<1>13. ASSUME NEW s \in Spc, Reverify(s) PROVE Turns'
  <2>1. op'.kind = op.kind
    BY <1>1, <1>13, ReverifyTypes DEF Reverify, Rebuilding
  <2> QED
    BY <1>13, <2>1, TurnsKept DEF Reverify, view
<1>14. CASE Restore \/ PublishDelta \/ PublishFull
  <2>1. Rebuilding /\ app # None
    BY <1>1, <1>14 DEF Restore, PublishDelta, PublishFull, Rebuilding
  <2>2. index' # None
    BY <1>14, <2>1, RestoreTypes, PublishDeltaTypes, PublishFullTypes, NotNone
  <2>3. Returns(index' # index) /\ UNCHANGED <<app, queue, closing>>
    BY <1>14 DEF Restore, PublishDelta, PublishFull
  <2>4. op' = Idle /\ (op.kind # "rebuild" => scheduler' = scheduler)
    BY <2>3, ReturnsTypes DEF Types
  <2> QED
    BY <2>1, <2>2, <2>3, <2>4, TurnsEnd
<1>15. CASE FailProjection
  <2>1. /\ app # None /\ op' = Idle /\ clock'.heard = clock.heard
        /\ closing' = closing \/ closing' = "failed"
        /\ op.kind # "rebuild" => scheduler' = scheduler
    BY <1>1, <1>15, FailProjectionTypes, ThrowsTypes
  <2> QED
    BY <1>15, <2>1, TurnsEnd DEF FailProjection, view
<1>16. CASE FailRefresh
  <2>1. /\ Running({"initialize", "rebuild"}) /\ queue' = Tail(queue)
        /\ clock'.heard = clock.heard
        /\ \/ closing' = closing
           \/ closing' = "failed" /\ closing = "settling"
        /\ Front.kind # "rebuild" => scheduler' = scheduler
        /\ UNCHANGED <<view, op>>
    BY <1>16, FailRefreshTypes, ThrowsTypes DEF FailRefresh
  <2> QED
    BY <2>1, QueueShrinks DEF Turns, Rebuilding, view
<1>17. CASE StartVerify
  <2>1. /\ Running({"verify"}) /\ queue' = Tail(queue) /\ index # None
        /\ UNCHANGED <<app, index, scheduler, closing, clock>>
    BY <1>3, <1>17 DEF StartVerify
  <2>2. Hydrated # None
    BY <2>1, HydratedTypes, NotNone DEF Types
  <2>3. op'.kind \in {"idle", "verify"} /\ (op'.kind = "verify" => catalog' # None)
    BY <1>17, <2>1, <2>2, StartVerifyTypes
  <2> QED
    BY <2>1, <2>3, QueueShrinks DEF Turns, Rebuilding
<1>18. CASE History
  <2>1. /\ Running({"history"}) /\ queue' = Tail(queue) /\ index # None
        /\ UNCHANGED <<app, index, op, scheduler, closing, clock>>
    BY <1>3, <1>18 DEF History
  <2> QED
    BY <2>1, QueueShrinks DEF Turns, Rebuilding
<1>19. CASE Focus
  <2>1. op.kind = "verify" /\ (op'.kind = "verify" \/ op' = Idle)
    BY <1>2, <1>19, FocusTypes DEF Focus
  <2>2. UNCHANGED <<view, queue, scheduler, closing, clock>>
    BY <1>19 DEF Focus
  <2> QED
    BY <2>1, <2>2 DEF Turns, Rebuilding, view, Idle
<1>20. CASE FailVerify
  <2>1. op.kind = "verify" /\ op' = Idle /\ UNCHANGED <<view, queue, scheduler, closing, clock>>
    BY <1>20 DEF FailVerify
  <2> QED
    BY <2>1 DEF Turns, Rebuilding, view, Idle
<1>21. CASE Confirm
  <2>1. op.kind = "verify" /\ index' # None /\ op' = Idle /\ index # None
    BY <1>2, <1>21, ConfirmTypes, NotNone DEF Confirm
  <2>2. UNCHANGED <<app, queue, scheduler, closing>>
    BY <1>21 DEF Confirm
  <2> QED
    BY <2>1, <2>2 DEF Turns, Rebuilding, Idle
<1>22. CASE Saving
  BY <1>22, TurnsKept DEF Saving, SaveCatalog, SaveRecords, view, work
<1>23. CASE Close
  <2>1. /\ Running({"close"}) /\ queue' = Tail(queue) /\ closing' = "closed"
        /\ UNCHANGED <<index, catalog, op, scheduler, clock>>
    BY <1>23 DEF Close
  <2> QED
    BY <2>1, QueueShrinks DEF Turns, Rebuilding
<1>24. CASE Subscribe
  <2>1. index # None /\ UNCHANGED <<view, op, queue, scheduler, closing>>
    BY <1>24 DEF Subscribe, work
  <2> QED
    BY <2>1 DEF Turns, Rebuilding, view
<1>25. CASE Dispose
  <2>1. closing = "no" /\ UNCHANGED <<view, op, queue, scheduler>> /\ clock'.heard = None
    BY <1>25, DisposeTypes DEF Dispose
  <2> QED
    BY <2>1 DEF Turns, Rebuilding, view
<1>26. CASE Restart
  <2>1. app' = None /\ index' = None /\ catalog' = None /\ op'.kind = "idle" /\ queue' = <<>>
        /\ clock'.heard = None
    BY <1>26, RestartTypes DEF Restart, Idle
  <2>2. DOMAIN queue' = {}
    BY <2>1
  <2> QED
    BY <2>1, <2>2 DEF Turns, Rebuilding
<1> QED
  BY <1>4, <1>5, <1>6, <1>7, <1>8, <1>9, <1>10, <1>11, <1>12, <1>13, <1>14, <1>15, <1>16, <1>17,
     <1>18, <1>19, <1>20, <1>21, <1>22, <1>23, <1>24, <1>25, <1>26, Actions

-----------------------------------------------------------------------------
(* What is shown. *)

(* Owing more breaks no projection.                                        *)
LEMMA ProjectionsKept ==
  ASSUME Projections, owed \subseteq owed', Told \subseteq owed' \union Told',
         app' = app \/ app' = None,
         UNCHANGED <<index, catalog, unsaved, saved>>
  PROVE  Projections'
<1>2. index # None => Exact(index.shown, index.snapshot, owed)'
  BY DEF Projections, Exact
<1>3. catalog # None => Exact(catalog, index.snapshot, owed)'
  BY DEF Projections, Exact
<1>4. /\ unsaved # None => Exact(unsaved.index.shown, unsaved.index.snapshot, unsaved.owed)'
      /\ saved # None => Exact(saved.index.shown, saved.index.snapshot, saved.owed)'
  BY DEF Projections, Exact
<1>5. ASSUME index # None, app' # None, NEW s \in Spc \ (owed \union Told)'
      PROVE  Sources(app, s)' = Sources(index.snapshot, s)'
  BY <1>5 DEF Projections
<1> QED
  BY <1>2, <1>3, <1>4, <1>5 DEF Projections

(* What a refresh does not report is as it was before.                     *)
LEMMA ReportedRest ==
  ASSUME app # None, NEW s \in Spc, s \notin Reported
  PROVE  \A f \in SourcesOf(s) : app[f] = disk[f]
<1> DEFINE changes == {f \in File : app[f] # disk[f]}
<1>1. SourcesOf(s) \subseteq File
  BY SourcesAreInputs
<1>2. CASE changes = {}
  BY <1>1, <1>2
<1>3. CASE changes # {}
  <2>1. s \notin Touched(pending \union changes)
    BY <1>3 DEF Reported
  <2> QED
    BY <1>1, <2>1, SourcesAreInputs DEF Touched
<1> QED
  BY <1>2, <1>3

(* A publication, or a restored one, that shows what it does not owe as it *)
(* is in the snapshot of the application.                                  *)
LEMMA ProjectionsOfPublication ==
  ASSUME Types, Projections, op' = Idle, index' # None, index'.snapshot = app', app' = app,
         \A s \in Spc \ owed' : index'.shown[s].of = Sources(app, s),
         catalog' = None \/ catalog' = index'.shown,
         \/ unsaved' = unsaved
         \/ unsaved'.index = index' /\ unsaved'.owed = owed',
         saved' = saved
  PROVE  Projections'
<1>1. Exact(index.shown, index.snapshot, owed)'
  BY DEF Exact
<1>2. catalog' # None => Exact(catalog, index.snapshot, owed)'
  BY <1>1 DEF Exact
<1>3. unsaved' # None => Exact(unsaved.index.shown, unsaved.index.snapshot, unsaved.owed)'
  BY <1>1 DEF Projections, Exact
<1>4. saved' # None => Exact(saved.index.shown, saved.index.snapshot, saved.owed)'
  BY DEF Projections, Exact
<1> QED
  BY <1>1, <1>2, <1>3, <1>4 DEF Projections

(* Every step keeps the projections: a rebuild projects what it was told   *)
(* of, and the rest has not changed.                                       *)
LEMMA ProjectionsStep ==
  ASSUME Types, Turns, Projections, Types', [Next]_vars
  PROVE  Projections'
<1>1. Rebuilding => app # None
  BY DEF Turns
<1>2. op.kind = "verify" => catalog # None /\ index # None
  BY DEF Turns
<1>3. Running({"verify"}) \/ Running({"history"}) => index # None
  BY FrontTypes DEF Turns, Types
<1>4. CASE UNCHANGED vars
  BY <1>4, ProjectionsKept DEF vars, view, work, store, debt, Told, Rebuilding
<1>5. CASE (\E f \in File : Report(f) \/ Edit(f)) \/ Quieten \/ Initialize \/ Settle
           \/ SkipInitialize \/ (\E s \in Spc, kind \in {"verify", "history"} : Request(s, kind))
           \/ Subscribe \/ Dispose \/ Close
  <2>1. UNCHANGED <<op, index, catalog, unsaved, saved, owed>> /\ (app' = app \/ app' = None)
    BY <1>5 DEF Report, Edit, Quieten, Initialize, Settle, SkipInitialize, Request, Subscribe,
       Dispose, Close, view, work, store, debt
  <2> QED
    BY <2>1, ProjectionsKept DEF Told, Rebuilding
<1>6. CASE Load \/ \E s \in Spc : Reverify(s)
  <2>1. Rebuilding /\ op'.kind = op.kind /\ op'.reported = op.reported
    BY <1>1, <1>6, LoadTypes, ReverifyTypes DEF Reverify, Rebuilding
  <2>2. UNCHANGED <<app, index, catalog, unsaved, saved, owed>>
    BY <1>6 DEF Load, Reverify, view, store, debt
  <2> QED
    BY <2>1, <2>2, ProjectionsKept DEF Told, Rebuilding
<1>7. CASE FailRefresh \/ FailProjection
  <2>1. /\ owed \subseteq owed' /\ Told \subseteq owed' \union Told'
    BY <1>7, FailRefreshTypes, FailProjectionTypes, ThrowsTypes DEF FailRefresh, Told, Rebuilding
  <2>2. UNCHANGED <<app, index, catalog, unsaved, saved>>
    BY <1>7 DEF FailRefresh, FailProjection, view, store
  <2> QED
    BY <2>1, <2>2, ProjectionsKept
<1>8. CASE Focus \/ FailVerify
  <2>1. op.kind = "verify" /\ UNCHANGED <<app, index, catalog, unsaved, saved, owed>>
    BY <1>8 DEF Focus, FailVerify, view, store, debt
  <2>2. Told = {}
    BY <2>1 DEF Told, Rebuilding
  <2> QED
    BY <2>1, <2>2, ProjectionsKept
<1>9. CASE StartVerify \/ History
  <2>1. /\ index # None /\ op.kind = "idle"
        /\ UNCHANGED <<app, index, unsaved, saved, owed>>
    BY <1>3, <1>9, FrontTypes DEF StartVerify, History, Types, store, debt
  <2>2. catalog' \in {catalog, Hydrated}
    BY <1>9, <2>1, StartVerifyTypes, HistoryTypes
  <2>3. Exact(Hydrated, index.snapshot, owed)
    BY <2>1, HydratedTypes DEF Types, Projections, Exact
  <2>4. catalog' # None => Exact(catalog', index.snapshot, owed)
    BY <2>2, <2>3 DEF Projections
  <2>5. Told = {}
    BY <2>1 DEF Told, Rebuilding
  <2>6. index' # None /\ app' # None =>
          \A s \in Spc \ (owed \union Told)' : Sources(app, s)' = Sources(index.snapshot, s)'
    BY <2>1, <2>5 DEF Projections
  <2> QED
    BY <2>1, <2>4, <2>6 DEF Projections, Exact
<1>10. CASE StartRebuild
  <2>1. /\ op'.kind \in {"initialize", "rebuild"} /\ op'.reported = Reported /\ app' = disk
        /\ op.kind = "idle" /\ UNCHANGED <<index, catalog, unsaved, saved, owed>>
    BY <1>10, StartRebuildTypes, FrontTypes DEF StartRebuild, Types, store, debt
  <2>2. Told = {} /\ Told' = Reported
    BY <2>1 DEF Told, Rebuilding
  <2>3. ASSUME index # None, NEW s \in Spc \ (owed \union Reported)
        PROVE  Sources(disk, s) = Sources(index.snapshot, s)
    <3>1. app # None
      BY <2>3 DEF Reported
    <3>2. Sources(disk, s) = Sources(app, s)
      BY <2>3, <3>1, ReportedRest, SameSources
    <3> QED
      BY <2>2, <2>3, <3>1, <3>2 DEF Projections
  <2>4. index' # None /\ app' # None =>
          \A s \in Spc \ (owed \union Told)' : Sources(app, s)' = Sources(index.snapshot, s)'
    BY <2>1, <2>2, <2>3
  <2> QED
    BY <2>1, <2>4 DEF Projections, Exact
<1>11. CASE Restore
  <2>1. /\ saved # None /\ saved.index.snapshot = app /\ catalog = None /\ op' = Idle
        /\ index'.snapshot = app /\ index' # None
        /\ index'.shown = WithRecords(saved.index.shown, durable, app)
    BY <1>1, <1>11, RestoreTypes, NotNone DEF Restore, Rebuilding
  <2>2. saved.index.shown \in Catalogs /\ durable \in Records /\ app \in Versions
    BY <2>1 DEF Types, StoreTypes, Indices
  <2>3. \A s \in Spc : index'.shown[s].of = saved.index.shown[s].of
    BY <2>1, <2>2, WithRecordsTypes
  <2>4. owed' = saved.owed /\ UNCHANGED <<app, catalog, unsaved, saved>>
    BY <1>11 DEF Restore, store
  <2>5. \A s \in Spc \ owed' : index'.shown[s].of = Sources(app, s)
    BY <2>1, <2>3, <2>4 DEF Projections, Exact
  <2> QED
    BY <2>1, <2>4, <2>5, ProjectionsOfPublication
<1>12. CASE PublishDelta
  <2>1. /\ Rebuilding /\ op \in Rebuilds /\ index # None /\ catalog = None /\ index' # None
        /\ index'.snapshot = app /\ op' = Idle /\ app # None
        /\ \A s \in Spc : index'.shown[s] = IF s \in op.reported THEN Projected(op.verdicts)[s]
                                            ELSE index.shown[s]
        /\ unsaved'.index = index' /\ unsaved'.owed = owed'
    BY <1>1, <1>12, PublishDeltaTypes, NotNone DEF PublishDelta, Rebuilding
  <2>2. owed' = owed \ op.reported /\ UNCHANGED <<app, catalog, saved>> /\ Told = op.reported
    BY <1>12, <2>1 DEF PublishDelta, Told
  <2>3. app \in Versions /\ op.verdicts \in [Spc -> Partial \union {None}]
    BY <2>1 DEF Types, ViewTypes, Rebuilds
  <2>4. \A s \in Spc : Projected(op.verdicts)[s].of = Sources(app, s)
    BY <2>1, <2>3, ProjectedTypes
  <2>5. \A s \in Spc \ (owed \union op.reported) : index.shown[s].of = Sources(app, s)
    BY <2>1, <2>2 DEF Projections, Exact
  <2>6. \A s \in Spc \ owed' : index'.shown[s].of = Sources(app, s)
    BY <2>1, <2>2, <2>4, <2>5
  <2> QED
    BY <2>1, <2>2, <2>6, ProjectionsOfPublication
<1>13. CASE PublishFull
  <2>1. /\ Rebuilding /\ op \in Rebuilds /\ index' # None /\ app # None
        /\ index'.snapshot = app /\ op' = Idle /\ catalog' = index'.shown
        /\ unsaved'.index = index' /\ unsaved'.owed = owed'
    BY <1>1, <1>13, PublishFullTypes, NotNone DEF PublishFull, Rebuilding
  <2>2. PICK verdicts \in {NoRecords, op.verdicts} : \E next \in Catalogs :
          /\ \A s \in Spc : next[s] = IF catalog = None \/ s \in op.reported
                                      THEN Projected(verdicts)[s] ELSE catalog[s]
          /\ catalog' = WithRecords(next, op.records, app)
    BY <1>13, <2>1, PublishFullTypes
  <2>3. PICK next \in Catalogs :
          /\ \A s \in Spc : next[s] = IF catalog = None \/ s \in op.reported
                                      THEN Projected(verdicts)[s] ELSE catalog[s]
          /\ catalog' = WithRecords(next, op.records, app)
    BY <2>2
  <2>4. /\ owed' = IF catalog = None THEN {} ELSE owed \ op.reported
        /\ UNCHANGED <<app, saved>> /\ Told = op.reported
    BY <1>13, <2>1 DEF PublishFull, Told
  <2>5. /\ app \in Versions /\ verdicts \in [Spc -> Partial \union {None}]
        /\ op.records \in Records
    BY <2>1, <2>2, NoRecordsTypes DEF Types, ViewTypes, Rebuilds
  <2>6. \A s \in Spc : Projected(verdicts)[s].of = Sources(app, s)
    BY <2>1, <2>5, ProjectedTypes
  <2>7. catalog # None => \A s \in Spc \ (owed \union op.reported) : catalog[s].of = Sources(app, s)
    BY <2>1, <2>4 DEF Projections, Exact, Turns
  <2>8. \A s \in Spc \ owed' : next[s].of = Sources(app, s)
    BY <2>3, <2>4, <2>6, <2>7
  <2>9. \A s \in Spc \ owed' : index'.shown[s].of = Sources(app, s)
    BY <2>1, <2>3, <2>5, <2>8, WithRecordsTypes
  <2> QED
    BY <2>1, <2>4, <2>9, ProjectionsOfPublication
<1>14. CASE Confirm
  <2>1. /\ op.kind = "verify" /\ op' = Idle /\ index # None /\ catalog # None /\ index' # None
        /\ index'.snapshot = index.snapshot /\ index'.shown = catalog'
        /\ \A s \in Spc : catalog'[s].of = catalog[s].of
        /\ unsaved'.index = index' /\ unsaved'.owed = owed
    BY <1>2, <1>14, ConfirmTypes, NotNone DEF Confirm
  <2>2. UNCHANGED <<app, owed, saved>>
    BY <1>14 DEF Confirm
  <2>3. Exact(catalog', index.snapshot, owed)
    BY <2>1 DEF Projections, Exact
  <2>4. Told = {} /\ Told' = {}
    BY <2>1 DEF Told, Rebuilding, Idle
  <2>5. index' # None /\ app' # None =>
          \A s \in Spc \ (owed \union Told)' : Sources(app, s)' = Sources(index.snapshot, s)'
    BY <2>1, <2>2, <2>4 DEF Projections
  <2> QED
    BY <2>1, <2>2, <2>3, <2>5 DEF Projections, Exact
<1>15. CASE Saving
  <2>1. UNCHANGED <<op, app, index, catalog, owed>>
    BY <1>15 DEF Saving, SaveCatalog, SaveRecords, view, work, debt
  <2>2. \/ UNCHANGED <<unsaved, saved>>
        \/ /\ unsaved # None /\ unsaved' = None
           /\ saved' = [index |-> unsaved.index, owed |-> unsaved.owed]
    BY <1>15 DEF Saving, SaveCatalog, SaveRecords
  <2>3. CASE UNCHANGED <<unsaved, saved>>
    BY <2>1, <2>3, ProjectionsKept DEF Told, Rebuilding
  <2>4. CASE /\ unsaved # None /\ unsaved' = None
             /\ saved' = [index |-> unsaved.index, owed |-> unsaved.owed]
    <3>1. saved'.index = unsaved.index /\ saved'.owed = unsaved.owed
      BY <2>4
    <3> QED
      BY <2>1, <2>4, <3>1 DEF Projections, Exact, Told, Rebuilding
  <2> QED
    BY <2>2, <2>3, <2>4
<1>16. CASE Restart
  <2>1. index' = None /\ catalog' = None /\ unsaved' = None /\ saved' = saved
    BY <1>16 DEF Restart
  <2> QED
    BY <2>1 DEF Projections, Exact
<1> QED
  BY <1>4, <1>5, <1>6, <1>7, <1>8, <1>9, <1>10, <1>11, <1>12, <1>13, <1>14, <1>15, <1>16, Actions

-----------------------------------------------------------------------------
(* What has been verified. *)

(* No verdict is reached for anything; a verdict is reached for the inputs *)
(* that were read for it.                                                  *)
LEMMA ReachedNone == \A g, s : ReachedFor(None, g, s)
  BY DEF ReachedFor

LEMMA ReachedInputs ==
  ASSUME NEW s \in Spc, NEW g
  PROVE  ReachedFor(Inputs(g, s), g, s)
  BY InputsSources DEF ReachedFor

LEMMA ReachedSame ==
  ASSUME NEW s \in Spc, NEW g, NEW h, NEW v, ReachedFor(v, g, s), Sources(g, s) = Sources(h, s)
  PROVE  ReachedFor(v, h, s)
  BY DEF ReachedFor

(* A verdict that was reached for the inputs of a snapshot, and the other  *)
(* way round.                                                              *)
LEMMA ReachedOfInputs ==
  ASSUME NEW s \in Spc, NEW g, NEW v
  PROVE  ReachedFor(v, Inputs(g, s), s) <=> ReachedFor(v, g, s)
  BY InputsSources DEF ReachedFor

(* A verification compares what it has read with the snapshot.             *)
LEMMA VerdictReached ==
  ASSUME NEW s \in Spc, NEW snapshot
  PROVE  ReachedFor(Verdict(s, snapshot), snapshot, s)
  BY ReachedInputs, ReachedNone DEF Verdict

LEMMA NoRecordsValid == Valid(NoRecords)
  BY DEF Valid, NoRecords

(* Valid records add verdicts that are earned, records of earned verdicts  *)
(* are valid, and so are a projection and a catalog made on demand.        *)
LEMMA WithRecordsEarned ==
  ASSUME NEW shown \in Catalogs, NEW records \in Records, NEW snapshot \in Versions,
         Earned(shown, snapshot), Valid(records)
  PROVE  Earned(WithRecords(shown, records, snapshot), snapshot)
<1> DEFINE m == WithRecords(shown, records, snapshot)
<1>1. ASSUME NEW s \in Spc \ tainted
      PROVE  ReachedFor(m[s].verdict, snapshot, s)
  <2>1. \/ m[s].verdict = shown[s].verdict
        \/ /\ records[s] # None /\ records[s].inputs = Inputs(snapshot, s)
           /\ m[s].verdict = records[s].verdict
    BY WithRecordsTypes
  <2>2. ReachedFor(shown[s].verdict, snapshot, s)
    BY DEF Earned
  <2>3. records[s] # None => ReachedFor(records[s].verdict, records[s].inputs, s)
    BY DEF Valid
  <2> HIDE DEF m
  <2> QED
    BY <2>1, <2>2, <2>3, ReachedOfInputs
<1> QED
  BY <1>1 DEF Earned

LEMMA RecordsOfValid ==
  ASSUME NEW shown \in Catalogs, NEW snapshot \in Versions, Earned(shown, snapshot)
  PROVE  Valid(RecordsOf(shown, snapshot))
<1> DEFINE r == RecordsOf(shown, snapshot)
<1>1. ASSUME NEW s \in Spc \ tainted, r[s] # None
      PROVE  ReachedFor(r[s].verdict, r[s].inputs, s)
  <2>1. r[s].inputs = Inputs(snapshot, s) /\ r[s].verdict = shown[s].verdict
    BY <1>1, RecordsOfTypes
  <2>2. ReachedFor(shown[s].verdict, snapshot, s)
    BY DEF Earned
  <2> HIDE DEF r
  <2> QED
    BY <2>1, <2>2, ReachedOfInputs
<1> QED
  BY <1>1 DEF Valid

LEMMA ProjectedEarned ==
  ASSUME app \in Versions, op \in Rebuilds, NEW verdicts \in [Spc -> Partial \union {None}],
         \A s \in Spc : ReachedFor(verdicts[s], app, s), Valid(op.records)
  PROVE  Earned(Projected(verdicts), app)
<1> DEFINE m == Projected(verdicts)
<1>1. ASSUME NEW s \in Spc \ tainted
      PROVE  ReachedFor(m[s].verdict, app, s)
  <2>1. \/ m[s].verdict \in {verdicts[s], None}
        \/ /\ op.records[s] # None /\ op.records[s].inputs = Inputs(app, s)
           /\ m[s].verdict = op.records[s].verdict
    BY ProjectedTypes
  <2>2. op.records[s] # None => ReachedFor(op.records[s].verdict, op.records[s].inputs, s)
    BY DEF Valid
  <2> HIDE DEF m
  <2> QED
    BY <2>1, <2>2, ReachedOfInputs, ReachedNone
<1> QED
  BY <1>1 DEF Earned

LEMMA HydratedEarned ==
  ASSUME Types, Verdicts, index # None
  PROVE  Earned(Hydrated, index.snapshot)
<1>1. CASE catalog # None
  BY <1>1 DEF Verdicts, Hydrated
<1>2. CASE catalog = None
  <2>1. ASSUME NEW s \in Spc \ tainted
        PROVE  ReachedFor(Hydrated[s].verdict, index.snapshot, s)
    <3>1. \/ Hydrated[s].verdict = None
          \/ /\ retained[s] # None /\ retained[s].inputs = Inputs(index.snapshot, s)
             /\ Hydrated[s].verdict = retained[s].verdict
      BY <1>2, HydratedTypes DEF Types
    <3>2. retained[s] # None => ReachedFor(retained[s].verdict, retained[s].inputs, s)
      BY DEF Verdicts, Valid
    <3> QED
      BY <3>1, <3>2, ReachedOfInputs, ReachedNone
  <2> QED
    BY <2>1 DEF Earned
<1> QED
  BY <1>1, <1>2

(* A step that leaves the catalog alone, and the records too, unless it    *)
(* takes up those of the record store.                                     *)
LEMMA VerdictsKept ==
  ASSUME Verdicts, tainted \subseteq tainted',
         UNCHANGED <<index, catalog, unsaved, saving, saved, durable>>,
         retained' = retained \/ retained' = durable,
         Rebuilding' => /\ Valid(op'.records)
                        /\ \A s \in Spc : ReachedFor(op'.verdicts[s], app', s),
         op'.kind = "verify" /\ op'.spec \notin tainted =>
           ReachedFor(op'.verdict, index.snapshot, op'.spec)
  PROVE  Verdicts'
<1>1. ASSUME NEW shown, NEW snapshot, Earned(shown, snapshot)
      PROVE  \A s \in Spc \ tainted' : ReachedFor(shown[s].verdict, snapshot, s)
  BY <1>1 DEF Earned
<1>2. ASSUME NEW records, Valid(records)
      PROVE  \A s \in Spc \ tainted' :
               records[s] # None => ReachedFor(records[s].verdict, records[s].inputs, s)
  BY <1>2 DEF Valid
<1>3. /\ index' # None => Earned(index.shown, index.snapshot)'
      /\ catalog' # None => Earned(catalog, index.snapshot)'
      /\ unsaved' # None =>
           Earned(unsaved.index.shown, unsaved.index.snapshot)' /\ Valid(unsaved.records)'
      /\ saved' # None => Earned(saved.index.shown, saved.index.snapshot)'
      /\ saving' # None => Valid(saving.records)'
      /\ Valid(retained)' /\ Valid(durable)'
  BY <1>1, <1>2 DEF Verdicts, Earned, Valid
<1>4. Rebuilding' => Valid(op.records)' /\ \A s \in Spc : ReachedFor(op.verdicts[s], app, s)'
  BY <1>2 DEF Valid
<1>5. (op.kind = "verify" /\ op.spec \notin tainted)' =>
        ReachedFor(op.verdict, index.snapshot, op.spec)'
  OBVIOUS
<1> QED
  BY <1>3, <1>4, <1>5 DEF Verdicts

LEMMA VerdictsOfPublication ==
  ASSUME Verdicts, op' = Idle, tainted' = tainted, durable' = durable,
         Earned(index'.shown, index'.snapshot), Valid(retained'),
         catalog' = None \/ catalog' = index'.shown,
         \/ unsaved' = unsaved
         \/ unsaved'.index = index' /\ unsaved'.records = retained',
         UNCHANGED <<saving, saved>>
  PROVE  Verdicts'
<1>1. ~Rebuilding' /\ op'.kind # "verify"
  BY DEF Rebuilding, Idle
<1>2. Earned(index.shown, index.snapshot)' /\ Valid(retained)' /\ Valid(durable)'
  BY DEF Earned, Valid, Verdicts
<1>3. catalog' # None => Earned(catalog, index.snapshot)'
  BY <1>2 DEF Earned
<1>4. unsaved' # None =>
        Earned(unsaved.index.shown, unsaved.index.snapshot)' /\ Valid(unsaved.records)'
  BY <1>2 DEF Verdicts, Earned, Valid
<1>5. /\ saved' # None => Earned(saved.index.shown, saved.index.snapshot)'
      /\ saving' # None => Valid(saving.records)'
  BY DEF Verdicts, Earned, Valid
<1> QED
  BY <1>1, <1>2, <1>3, <1>4, <1>5 DEF Verdicts

(* Every step keeps the verdicts earned.                                   *)
LEMMA VerdictsStep ==
  ASSUME Types, Turns, Projections, Verdicts, Types', [Next]_vars
  PROVE  Verdicts'
<1>1. Rebuilding => app # None
  BY DEF Turns
<1>2. op.kind = "verify" => catalog # None /\ index # None
  BY DEF Turns
<1>3. Running({"verify"}) \/ Running({"history"}) => index # None
  BY FrontTypes DEF Turns, Types
<1>4. /\ Rebuilding => /\ Valid(op.records)
                       /\ \A s \in Spc : ReachedFor(op.verdicts[s], app, s)
      /\ op.kind = "verify" /\ op.spec \notin tainted =>
           ReachedFor(op.verdict, index.snapshot, op.spec)
  BY DEF Verdicts
<1>5. CASE UNCHANGED vars
  BY <1>4, <1>5, VerdictsKept DEF vars, view, work, store, debt, Rebuilding
<1>6. CASE (\E f \in File : Report(f) \/ Edit(f)) \/ Quieten \/ Initialize \/ Settle
           \/ SkipInitialize \/ (\E s \in Spc, kind \in {"verify", "history"} : Request(s, kind))
           \/ Subscribe \/ Dispose
  <2>1. UNCHANGED <<op, app, index, catalog, retained, unsaved, saving, saved, durable, tainted>>
    BY <1>6 DEF Report, Edit, Quieten, Initialize, Settle, SkipInitialize, Request, Subscribe,
       Dispose, view, work, store, debt
  <2> QED
    BY <1>4, <2>1, VerdictsKept DEF Rebuilding
<1>7. CASE Close
  <2>1. /\ op.kind = "idle"
        /\ UNCHANGED <<op, index, catalog, retained, unsaved, saving, saved, durable, tainted>>
    BY <1>7, FrontTypes DEF Close, Types, store, debt
  <2> QED
    BY <2>1, VerdictsKept DEF Rebuilding
<1>8. CASE Load
  <2>1. Rebuilding /\ op'.kind = op.kind /\ op'.verdicts = op.verdicts /\ op'.records = durable
    BY <1>8, LoadTypes
  <2>2. /\ UNCHANGED <<app, index, catalog, unsaved, saving, saved, durable, tainted>>
        /\ retained' = durable
    BY <1>8 DEF Load, store, debt
  <2>3. Valid(durable) /\ op'.kind # "verify"
    BY <2>1 DEF Verdicts, Rebuilding
  <2> QED
    BY <1>4, <2>1, <2>2, <2>3, VerdictsKept
<1>9. ASSUME NEW s \in Spc, Reverify(s) PROVE Verdicts'
  <2>1. /\ Rebuilding /\ op'.kind = op.kind /\ op'.records = op.records
        /\ \A t \in Spc : op'.verdicts[t] = IF t = s THEN Verdict(s, app) ELSE op.verdicts[t]
    BY <1>1, <1>9, ReverifyTypes DEF Reverify, Rebuilding
  <2>2. UNCHANGED <<app, index, catalog, retained, unsaved, saving, saved, durable, tainted>>
    BY <1>9 DEF Reverify, view, store, debt
  <2>3. \A t \in Spc : ReachedFor(op'.verdicts[t], app, t)
    BY <1>4, <2>1, VerdictReached
  <2>4. op'.kind # "verify"
    BY <2>1 DEF Rebuilding
  <2> QED
    BY <1>4, <2>1, <2>2, <2>3, <2>4, VerdictsKept
<1>10. CASE FailRefresh \/ FailProjection
  <2>1. /\ tainted \subseteq tainted' /\ op'.kind = "idle"
    BY <1>10, FailRefreshTypes, FailProjectionTypes, ThrowsTypes, FrontTypes
       DEF FailRefresh, Types, Idle
  <2>2. UNCHANGED <<app, index, catalog, retained, unsaved, saving, saved, durable>>
    BY <1>10 DEF FailRefresh, FailProjection, view, store
  <2> QED
    BY <2>1, <2>2, VerdictsKept DEF Rebuilding
<1>11. CASE Focus
  <2>1. /\ \/ op' = Idle
           \/ /\ op'.kind = "verify" /\ op'.spec = op.spec
              /\ op'.verdict = Verdict(op.spec, index.snapshot)
        /\ op.spec \in Spc
    BY <1>2, <1>11, FocusTypes DEF Focus
  <2>2. UNCHANGED <<app, index, catalog, retained, unsaved, saving, saved, durable, tainted>>
    BY <1>11 DEF Focus, view, store, debt
  <2>3. op'.kind = "verify" => ReachedFor(op'.verdict, index.snapshot, op'.spec)
    BY <2>1, VerdictReached DEF Idle
  <2>4. ~Rebuilding'
    BY <2>1 DEF Rebuilding, Idle
  <2> QED
    BY <2>2, <2>3, <2>4, VerdictsKept
<1>12. CASE FailVerify
  <2>1. op'.kind = "idle"
        /\ UNCHANGED <<app, index, catalog, retained, unsaved, saving, saved, durable, tainted>>
    BY <1>12 DEF FailVerify, view, store, debt, Idle
  <2> QED
    BY <2>1, VerdictsKept DEF Rebuilding
<1>13. CASE StartRebuild
  <2>1. /\ op'.kind \in {"initialize", "rebuild"} /\ op'.verdicts = NoRecords
        /\ op'.records = NoRecords
    BY <1>13, StartRebuildTypes, FrontTypes DEF Types
  <2>2. UNCHANGED <<index, catalog, retained, unsaved, saving, saved, durable, tainted>>
    BY <1>13 DEF StartRebuild, store, debt
  <2>3. \A s \in Spc : ReachedFor(op'.verdicts[s], app', s)
    BY <2>1, ReachedNone DEF NoRecords
  <2> QED
    BY <2>1, <2>2, <2>3, NoRecordsValid, VerdictsKept
<1>14. CASE StartVerify \/ History
  <2>1. /\ index # None /\ op.kind = "idle"
        /\ UNCHANGED <<app, index, retained, unsaved, saving, saved, durable, tainted>>
    BY <1>3, <1>14, FrontTypes DEF StartVerify, History, Types, store, debt
  <2>2. catalog' \in {catalog, Hydrated}
    BY <1>14, <2>1, StartVerifyTypes, HistoryTypes
  <2>3. Earned(Hydrated, index.snapshot)
    BY <2>1, HydratedEarned
  <2>4. catalog' # None => Earned(catalog, index.snapshot)'
    BY <2>1, <2>2, <2>3 DEF Verdicts, Earned
  <2>5. op'.kind \in {"idle", "verify"}
        /\ (op'.kind = "verify" => op'.spec \in Spc /\ op'.verdict = Hydrated[op'.spec].verdict)
    BY <1>14, <2>1, StartVerifyTypes DEF History
  <2>6. op'.kind = "verify" /\ op'.spec \notin tainted =>
          ReachedFor(op'.verdict, index.snapshot, op'.spec)
    BY <2>3, <2>5 DEF Earned
  <2>7. ~Rebuilding'
    BY <2>5 DEF Rebuilding
  <2> QED
    BY <2>1, <2>4, <2>6, <2>7 DEF Verdicts, Earned, Valid
<1>15. CASE Restore
  <2>1. /\ saved # None /\ saved.index.snapshot = app /\ catalog = None /\ op' = Idle
        /\ index'.snapshot = app
        /\ index'.shown = WithRecords(saved.index.shown, durable, app)
    BY <1>1, <1>15, RestoreTypes DEF Restore, Rebuilding
  <2>2. saved.index.shown \in Catalogs /\ durable \in Records /\ app \in Versions
    BY <2>1 DEF Types, StoreTypes, Indices
  <2>3. Earned(saved.index.shown, app) /\ Valid(durable)
    BY <2>1 DEF Verdicts
  <2>4. Earned(index'.shown, index'.snapshot)
    BY <2>1, <2>2, <2>3, WithRecordsEarned
  <2>5. retained' = durable /\ UNCHANGED <<catalog, unsaved, saving, saved, durable, tainted>>
    BY <1>15 DEF Restore, store
  <2> QED
    BY <2>1, <2>3, <2>4, <2>5, VerdictsOfPublication
<1>16. CASE PublishDelta
  <2>1. /\ Rebuilding /\ op \in Rebuilds /\ index # None /\ catalog = None
        /\ index'.snapshot = app /\ op' = Idle /\ app # None
        /\ \A s \in Spc :
             /\ index'.shown[s] = IF s \in op.reported THEN Projected(op.verdicts)[s]
                                  ELSE index.shown[s]
             /\ retained'[s] \in {RecordsOf(Projected(op.verdicts), app)[s], op.records[s], None}
        /\ unsaved'.index = index' /\ unsaved'.records = retained'
    BY <1>1, <1>16, PublishDeltaTypes DEF PublishDelta, Rebuilding
  <2>2. UNCHANGED <<app, catalog, saving, saved, durable, tainted>> /\ Told = op.reported
    BY <1>16, <2>1 DEF PublishDelta, Told
  <2>3. app \in Versions /\ op.verdicts \in [Spc -> Partial \union {None}]
    BY <2>1 DEF Types, ViewTypes, Rebuilds
  <2>4. Projected(op.verdicts) \in Catalogs /\ Earned(Projected(op.verdicts), app)
    BY <1>4, <2>1, <2>3, ProjectedTypes, ProjectedEarned
  <2>5. ASSUME NEW s \in Spc \ tainted, s \notin op.reported
        PROVE  ReachedFor(index.shown[s].verdict, app, s)
    <3>1. s \notin owed
      BY DEF Types, StoreTypes
    <3>2. Sources(app, s) = Sources(index.snapshot, s)
      BY <2>1, <2>2, <2>5, <3>1 DEF Projections
    <3>3. ReachedFor(index.shown[s].verdict, index.snapshot, s)
      BY <2>1 DEF Verdicts, Earned
    <3> QED
      BY <3>2, <3>3, ReachedSame
  <2>6. Earned(index'.shown, index'.snapshot)
    BY <2>1, <2>4, <2>5 DEF Earned
  <2>7. Valid(RecordsOf(Projected(op.verdicts), app)) /\ Valid(op.records)
    BY <1>4, <2>1, <2>3, <2>4, RecordsOfValid
  <2>8. Valid(retained')
    BY <2>1, <2>7 DEF Valid
  <2> QED
    BY <2>1, <2>2, <2>6, <2>8, VerdictsOfPublication
<1>17. CASE PublishFull
  <2>1. /\ Rebuilding /\ op \in Rebuilds /\ app # None /\ catalog' \in Catalogs
        /\ index'.snapshot = app /\ op' = Idle /\ catalog' = index'.shown
        /\ retained' = RecordsOf(catalog', app)
        /\ unsaved'.index = index' /\ unsaved'.records = retained'
    BY <1>1, <1>17, PublishFullTypes DEF PublishFull, Rebuilding
  <2>2. PICK verdicts \in {NoRecords, op.verdicts} : \E next \in Catalogs :
          /\ \A s \in Spc : next[s] = IF catalog = None \/ s \in op.reported
                                      THEN Projected(verdicts)[s] ELSE catalog[s]
          /\ catalog' = WithRecords(next, op.records, app)
    BY <1>17, <2>1, PublishFullTypes
  <2>3. PICK next \in Catalogs :
          /\ \A s \in Spc : next[s] = IF catalog = None \/ s \in op.reported
                                      THEN Projected(verdicts)[s] ELSE catalog[s]
          /\ catalog' = WithRecords(next, op.records, app)
    BY <2>2
  <2>4. UNCHANGED <<app, saving, saved, durable, tainted>> /\ Told = op.reported
    BY <1>17, <2>1 DEF PublishFull, Told
  <2>5. /\ app \in Versions /\ verdicts \in [Spc -> Partial \union {None}]
        /\ op.records \in Records
    BY <2>1, <2>2, NoRecordsTypes DEF Types, ViewTypes, Rebuilds
  <2>6. \A s \in Spc : ReachedFor(verdicts[s], app, s)
    BY <1>4, <2>1, <2>2, ReachedNone DEF NoRecords
  <2>7. Earned(Projected(verdicts), app)
    BY <1>4, <2>1, <2>5, <2>6, ProjectedEarned
  <2>8. ASSUME catalog # None, NEW s \in Spc \ tainted, s \notin op.reported
        PROVE  ReachedFor(catalog[s].verdict, app, s)
    <3>1. s \notin owed /\ index # None
      BY <2>8 DEF Types, StoreTypes, Turns
    <3>2. Sources(app, s) = Sources(index.snapshot, s)
      BY <2>1, <2>4, <2>8, <3>1 DEF Projections
    <3>3. ReachedFor(catalog[s].verdict, index.snapshot, s)
      BY <2>8 DEF Verdicts, Earned
    <3> QED
      BY <3>2, <3>3, ReachedSame
  <2>9. Earned(next, app)
    BY <2>3, <2>7, <2>8 DEF Earned
  <2>10. Earned(index'.shown, index'.snapshot)
    BY <1>4, <2>1, <2>3, <2>5, <2>9, WithRecordsEarned
  <2>11. Valid(retained')
    BY <2>1, <2>5, <2>10, RecordsOfValid
  <2> QED
    BY <2>1, <2>4, <2>10, <2>11, VerdictsOfPublication
<1>18. CASE Confirm
  <2>1. /\ op.kind = "verify" /\ op' = Idle /\ index # None /\ catalog # None
        /\ catalog' \in Catalogs /\ op.spec \in Spc
        /\ index'.snapshot = index.snapshot /\ index'.shown = catalog'
        /\ \A s \in Spc : catalog'[s].verdict = IF s = op.spec THEN op.verdict
                                                ELSE catalog[s].verdict
        /\ retained' = RecordsOf(catalog', index.snapshot)
        /\ unsaved'.index = index' /\ unsaved'.records = retained'
    BY <1>2, <1>18, ConfirmTypes DEF Confirm
  <2>2. UNCHANGED <<saving, saved, durable, tainted>>
    BY <1>18 DEF Confirm
  <2>3. Earned(catalog', index.snapshot)
    BY <1>4, <2>1 DEF Verdicts, Earned
  <2>4. Valid(retained')
    BY <2>1, <2>3, IndexTypes, RecordsOfValid DEF Types
  <2> QED
    BY <2>1, <2>2, <2>3, <2>4, VerdictsOfPublication
<1>19. CASE Saving
  <2>1. UNCHANGED <<op, app, index, catalog, retained, tainted>>
    BY <1>19 DEF Saving, SaveCatalog, SaveRecords, view, work, debt
  <2>2. CASE SaveCatalog
    <3>1. /\ unsaved # None /\ unsaved' = None /\ durable' = durable
          /\ saved' = [index |-> unsaved.index, owed |-> unsaved.owed]
          /\ saving' = [records |-> unsaved.records]
      BY <2>2 DEF SaveCatalog
    <3>2. saved'.index = unsaved.index /\ saving'.records = unsaved.records
      BY <3>1
    <3> QED
      BY <2>1, <3>1, <3>2 DEF Verdicts, Earned, Valid, Rebuilding
  <2>3. CASE SaveRecords
    <3>1. /\ saving # None /\ durable' = saving.records /\ saving' = None
          /\ UNCHANGED <<unsaved, saved>>
      BY <2>3 DEF SaveRecords
    <3> QED
      BY <2>1, <3>1 DEF Verdicts, Earned, Valid, Rebuilding
  <2> QED
    BY <1>19, <2>2, <2>3 DEF Saving
<1>20. CASE Restart
  <2>1. /\ index' = None /\ catalog' = None /\ unsaved' = None /\ saving' = None
        /\ retained' = NoRecords /\ op'.kind = "idle" /\ UNCHANGED <<saved, durable, tainted>>
    BY <1>20 DEF Restart, Idle
  <2>2. Valid(retained)'
    BY <2>1 DEF Valid, NoRecords
  <2> QED
    BY <2>1, <2>2 DEF Verdicts, Earned, Valid, Rebuilding
<1> QED
  BY <1>5, <1>6, <1>7, <1>8, <1>9, <1>10, <1>11, <1>12, <1>13, <1>14, <1>15, <1>16, <1>17, <1>18,
     <1>19, <1>20, Actions

-----------------------------------------------------------------------------
(* What has changed. *)

(* A file touches what the files it is among touch.                        *)
LEMMA TouchedOf ==
  ASSUME NEW files, NEW f \in files
  PROVE  Touched({f}) \subseteq Touched(files)
  BY DEF Touched

(* A step that leaves files, events and scheduler alone.                   *)
LEMMA HeedKept ==
  ASSUME Heed, UNCHANGED <<disk, observed, events, rejected, pending, owed, app>>,
         closing' = "no" => closing = "no", Rebuilding' = Rebuilding,
         op'.kind \in {"initialize", "rebuild"} => op'.kind = op.kind, scheduler' = scheduler
  PROVE  Heed'
<1>1. \A f \in File : Expected(f)' <=> Expected(f)
  BY DEF Expected
<1>2. Rebuilding' <=> Rebuilding
  OBVIOUS
<1>3. (\A f \in File : observed[f] # None => observed[f] <= disk[f])'
  BY DEF Heed
<1>4. (closing = "no" /\ app # None)' =>
        \A f \in File : /\ (f \in events \union rejected)' \/ Expected(f)'
                        /\ (observed[f] = disk[f])' => Expected(f)'
  BY <1>1 DEF Heed
<1>5. /\ (op.kind = "rebuild" /\ pending # {})' => scheduler'.again
      /\ (op.kind = "initialize" /\ pending # {})' => scheduler'.phase # "idle"
  BY DEF Heed
<1>6. (~Rebuilding /\ pending # {})' =>
        scheduler'.phase # "idle" \/ (Touched(pending) \subseteq owed)'
  BY <1>2 DEF Heed
<1> QED
  BY <1>3, <1>4, <1>5, <1>6 DEF Heed

(* A rebuild that returns has asked for another one when changes are left, *)
(* and one that fails owes them.                                           *)
LEMMA HeedEnd ==
  ASSUME Heed, Rebuilding, op' = Idle, app' = app, closing' = "no" => closing = "no",
         UNCHANGED <<disk, observed, events, rejected, pending>>,
         pending # {} => \/ scheduler'.phase # "idle"
                         \/ Touched(pending) \subseteq owed'
  PROVE  Heed'
<1>1. op'.kind = "idle" /\ ~Rebuilding'
  BY DEF Idle, Rebuilding
<1>2. \A f \in File : Expected(f) => Expected(f)'
  BY DEF Expected
<1>3. (closing = "no" /\ app # None)' =>
        \A f \in File : /\ (f \in events \union rejected)' \/ Expected(f)'
                        /\ (observed[f] = disk[f])' => Expected(f)'
  BY <1>2 DEF Heed
<1>4. (pending # {})' => scheduler'.phase # "idle" \/ (Touched(pending) \subseteq owed)'
  BY DEF Touched
<1> QED
  BY <1>1, <1>3, <1>4 DEF Heed

(* An edit is ahead of every fingerprint the filter has taken.             *)
LEMMA HeedEdit ==
  ASSUME Types, Heed, NEW f \in File, Edit(f)
  PROVE  Heed'
<1>1. /\ events' = events \union {f}
      /\ \A g \in File : disk'[g] = IF g = f THEN disk[g] + 1 ELSE disk[g]
      /\ UNCHANGED <<pending, observed, rejected, app, op, scheduler, closing, owed>>
  BY EditTypes DEF Edit, view, work, debt
<1>2. \A g \in File : disk[g] \in Nat /\ observed[g] \in Nat \union {None}
  BY DEF Types, WatchTypes, Versions
<1>3. \A g \in File : observed'[g] # None => observed'[g] <= disk'[g]
  BY <1>1, <1>2 DEF Heed
<1>4. ASSUME closing' = "no", app' # None, NEW g \in File
      PROVE  /\ g \in events' \union rejected' \/ Expected(g)'
             /\ observed'[g] = disk'[g] => Expected(g)'
  <2>1. CASE g = f
    <3>1. observed[f] # disk[f] + 1
      <4>1. CASE observed[f] = None
        BY <1>2, <4>1, NotNone
      <4>2. CASE observed[f] # None
        BY <1>2, <4>2 DEF Heed
      <4> QED
        BY <4>1, <4>2
    <3> QED
      BY <1>1, <2>1, <3>1
  <2>2. CASE g # f
    <3>1. Expected(g) => Expected(g)'
      BY <1>1, <2>2 DEF Expected, Rebuilding, Touched
    <3> QED
      BY <1>1, <1>4, <2>2, <3>1 DEF Heed
  <2> QED
    BY <2>1, <2>2
<1>5. /\ (op.kind = "rebuild" /\ pending # {})' => scheduler'.again
      /\ (op.kind = "initialize" /\ pending # {})' => scheduler'.phase # "idle"
  BY <1>1 DEF Heed
<1>6. (~Rebuilding /\ pending # {})' =>
        scheduler'.phase # "idle" \/ (Touched(pending) \subseteq owed)'
  BY <1>1 DEF Heed, Rebuilding
<1> QED
  BY <1>3, <1>4, <1>5, <1>6 DEF Heed

(* A reported change is rejected, has been taken before, or is pending     *)
(* from now on.                                                            *)
LEMMA HeedReport ==
  ASSUME Types, Turns, Heed, NEW f \in File, Report(f)
  PROVE  Heed'
<1>1. /\ events' = events \ {f} /\ closing' = closing
      /\ UNCHANGED <<disk, app, op, owed>>
      /\ \/ /\ UNCHANGED <<pending, observed, scheduler>>
            /\ \/ closing # "no" /\ rejected' = rejected
               \/ rejected' = rejected \union {f}
               \/ rejected' = rejected /\ observed[f] = disk[f]
         \/ /\ pending' = pending \union {f} /\ scheduler' = Requested
            /\ closing = "no" /\ rejected' = rejected
            /\ observed' = [observed EXCEPT ![f] = disk[f]]
  BY ReportTypes DEF view, debt
<1>2. Rebuilding' <=> Rebuilding
  BY <1>1 DEF Rebuilding
<1>3. CASE /\ UNCHANGED <<pending, observed, scheduler>>
           /\ \/ closing # "no" /\ rejected' = rejected
              \/ rejected' = rejected \union {f}
              \/ rejected' = rejected /\ observed[f] = disk[f]
  <2>1. \A g \in File : Expected(g) <=> Expected(g)'
    BY <1>1, <1>2, <1>3 DEF Expected
  <2>2. ASSUME closing' = "no", app' # None, NEW g \in File
        PROVE  /\ g \in events' \union rejected' \/ Expected(g)'
               /\ observed'[g] = disk'[g] => Expected(g)'
    <3>1. /\ g \in events \union rejected \/ Expected(g)
          /\ observed[g] = disk[g] => Expected(g)
      BY <1>1, <2>2 DEF Heed
    <3> QED
      BY <1>1, <1>3, <2>1, <2>2, <3>1
  <2>3. \A g \in File : observed'[g] # None => observed'[g] <= disk'[g]
    BY <1>1, <1>3 DEF Heed
  <2>4. /\ (op.kind = "rebuild" /\ pending # {})' => scheduler'.again
        /\ (op.kind = "initialize" /\ pending # {})' => scheduler'.phase # "idle"
    BY <1>1, <1>3 DEF Heed
  <2>5. (~Rebuilding /\ pending # {})' =>
        scheduler'.phase # "idle" \/ (Touched(pending) \subseteq owed)'
    BY <1>1, <1>2, <1>3 DEF Heed
  <2> QED
    BY <2>2, <2>3, <2>4, <2>5 DEF Heed
<1>4. CASE /\ pending' = pending \union {f} /\ scheduler' = Requested
           /\ closing = "no" /\ rejected' = rejected
           /\ observed' = [observed EXCEPT ![f] = disk[f]]
  <2>1. /\ observed'[f] = disk[f] /\ \A g \in File \ {f} : observed'[g] = observed[g]
        /\ disk[f] \in Nat
    BY <1>4 DEF Types, WatchTypes, Versions
  <2>2. \A g \in File : Expected(g) => Expected(g)'
    BY <1>1, <1>2, <1>4 DEF Expected
  <2>3. Expected(f)'
    BY <1>4 DEF Expected
  <2>4. ASSUME closing' = "no", app' # None, NEW g \in File
        PROVE  /\ g \in events' \union rejected' \/ Expected(g)'
               /\ observed'[g] = disk'[g] => Expected(g)'
    <3>1. /\ g \in events \union rejected \/ Expected(g)
          /\ observed[g] = disk[g] => Expected(g)
      BY <1>1, <2>4 DEF Heed
    <3> QED
      BY <1>1, <1>4, <2>1, <2>2, <2>3, <3>1
  <2>5. \A g \in File : observed'[g] # None => observed'[g] <= disk'[g]
    BY <1>1, <2>1 DEF Heed
  <2>6. scheduler'.phase # "idle" /\ (scheduler.phase = "rebuild" => scheduler'.again)
    BY <1>4, RequestedTypes DEF Types, WorkTypes
  <2>7. (op.kind = "rebuild")' => scheduler'.again
    BY <1>1, <2>6 DEF Turns
  <2> QED
    BY <2>4, <2>5, <2>6, <2>7 DEF Heed
<1> QED
  BY <1>1, <1>3, <1>4

(* Every step heeds the changes.                                           *)
LEMMA HeedStep ==
  ASSUME Types, Turns, Heed, Types', [Next]_vars
  PROVE  Heed'
<1>1. Rebuilding => app # None
  BY DEF Turns
<1>2. op.kind = "verify" => catalog # None /\ index # None
  BY DEF Turns
<1>3. Running({"verify"}) \/ Running({"history"}) => index # None
  BY FrontTypes DEF Turns, Types
<1>4. CASE \/ UNCHANGED vars \/ Initialize \/ Settle \/ SkipInitialize
           \/ (\E s \in Spc, kind \in {"verify", "history"} : Request(s, kind))
           \/ Subscribe \/ Dispose \/ Saving
  <2>1. /\ UNCHANGED <<disk, observed, events, rejected, pending, owed, app, op, scheduler>>
        /\ closing' = "no" => closing = "no"
    BY <1>4 DEF vars, Initialize, Settle, SkipInitialize, Request, Subscribe, Dispose, Saving,
       SaveCatalog, SaveRecords, watch, view, work, debt
  <2> QED
    BY <2>1, HeedKept DEF Rebuilding
<1>5. CASE \E f \in File : Report(f) \/ Edit(f)
  BY <1>5, HeedReport, HeedEdit
<1>6. CASE Quieten
  <2>1. /\ scheduler.phase = "debounce" /\ scheduler'.phase = "rebuild"
        /\ UNCHANGED <<disk, observed, events, rejected, pending, owed, app, op, closing>>
    BY <1>6, QuietenTypes DEF Quieten, watch, view, debt
  <2>2. op.kind # "rebuild"
    BY <2>1 DEF Turns
  <2>3. \A f \in File : Expected(f) <=> Expected(f)'
    BY <2>1 DEF Expected, Rebuilding
  <2> QED
    BY <2>1, <2>2, <2>3 DEF Heed
<1>7. CASE Load \/ \E s \in Spc : Reverify(s)
  <2>1. op'.kind = op.kind
    BY <1>1, <1>7, LoadTypes, ReverifyTypes DEF Reverify, Rebuilding
  <2>2. UNCHANGED <<disk, observed, events, rejected, pending, owed, app, scheduler, closing>>
    BY <1>7 DEF Load, Reverify, watch, view, debt
  <2> QED
    BY <2>1, <2>2, HeedKept DEF Rebuilding
<1>8. CASE StartVerify \/ History \/ Focus \/ FailVerify \/ Confirm
  <2>1. op.kind \in {"idle", "verify"} /\ op'.kind \in {"idle", "verify"}
    BY <1>2, <1>3, <1>8, StartVerifyTypes, FocusTypes, FrontTypes
       DEF StartVerify, History, Focus, FailVerify, Confirm, Idle, Types
  <2>2. UNCHANGED <<disk, observed, events, rejected, pending, owed, app, scheduler, closing>>
    BY <1>8 DEF StartVerify, History, Focus, FailVerify, Confirm, watch, view, debt
  <2> QED
    BY <2>1, <2>2, HeedKept DEF Rebuilding
<1>9. CASE StartRebuild
  <2>1. /\ app' = disk /\ pending' = {} /\ UNCHANGED <<disk, observed>>
    BY <1>9 DEF StartRebuild
  <2>2. \A f \in File : Expected(f)'
    BY <2>1 DEF Expected
  <2> QED
    BY <2>1, <2>2 DEF Heed
<1>10. CASE Restore \/ PublishDelta \/ PublishFull
  <2>1. /\ Rebuilding /\ Returns(index' # index)
        /\ UNCHANGED <<disk, observed, events, rejected, pending, app, closing>>
    BY <1>10 DEF Restore, PublishDelta, PublishFull, Rebuilding, watch
  <2>2. /\ op' = Idle /\ (op.kind # "rebuild" => scheduler' = scheduler)
        /\ op.kind = "rebuild" => scheduler'.phase = IF scheduler.again THEN "debounce" ELSE "idle"
    BY <2>1, ReturnsTypes DEF Types
  <2>3. pending # {} => scheduler'.phase # "idle"
    BY <2>1, <2>2 DEF Heed, Rebuilding
  <2> QED
    BY <2>1, <2>2, <2>3, HeedEnd
<1>11. CASE FailProjection
  <2>1. /\ Rebuilding /\ op' = Idle /\ Touched(pending) \subseteq owed'
        /\ closing' = closing \/ closing' = "failed"
        /\ UNCHANGED <<disk, observed, events, rejected, pending, app>>
    BY <1>11, FailProjectionTypes, ThrowsTypes DEF FailProjection, watch, view
  <2> QED
    BY <2>1, HeedEnd
<1>12. CASE FailRefresh
  <2>1. /\ op.kind = "idle" /\ pending' = {} /\ owed' = owed \union Touched(pending)
        /\ closing' = closing \/ closing' = "failed"
        /\ UNCHANGED <<disk, observed, events, rejected, app, op>>
    BY <1>12, FailRefreshTypes, ThrowsTypes, FrontTypes DEF FailRefresh, view, Types
  <2>2. \A f \in File : Expected(f) => Expected(f)'
    BY <2>1, TouchedOf DEF Expected, Rebuilding
  <2> QED
    BY <2>1, <2>2 DEF Heed
<1>13. CASE Close
  <2>1. op.kind = "idle" /\ app' = None
        /\ UNCHANGED <<disk, observed, pending, owed, op, scheduler>>
    BY <1>13, FrontTypes DEF Close, Types, watch, debt
  <2> QED
    BY <2>1 DEF Heed, Rebuilding
<1>14. CASE Restart
  <2>1. app' = None /\ pending' = {} /\ \A f \in File : observed'[f] = None
    BY <1>14 DEF Restart
  <2> QED
    BY <2>1 DEF Heed
<1> QED
  BY <1>4, <1>5, <1>6, <1>7, <1>8, <1>9, <1>10, <1>11, <1>12, <1>13, <1>14, Actions

-----------------------------------------------------------------------------
(* What has been told. *)

(* A rebuild returns: a publication moves the clock beyond what has been   *)
(* delivered, and the last round delivers it.                              *)
LEMMA HeardReturns ==
  ASSUME Types, Turns, Heard, Rebuilding, NEW changed \in BOOLEAN, Returns(changed),
         closing' = closing
  PROVE  Heard'
<1> DEFINE more == IF changed THEN 1 ELSE 0
<1>1. /\ clock.generation \in Nat /\ clock.delivered \in Nat /\ clock'.delivered \in Nat
      /\ more \in {0, 1} /\ (changed <=> more = 1)
      /\ scheduler.changed \in BOOLEAN /\ scheduler.again \in BOOLEAN
  BY ReturnsTypes DEF Types, WorkTypes, Clocks, Schedulers
<1>2. clock'.generation = clock.generation + more
  BY ReturnsTypes DEF Types
<1> HIDE DEF more
<1>3. CASE op.kind # "rebuild"
  <2>1. /\ scheduler' = scheduler /\ clock'.delivered = clock.delivered
        /\ clock'.heard = clock.heard
    BY <1>3, ReturnsTypes DEF Types
  <2>2. clock.heard = None
    BY <1>3 DEF Rebuilding, Turns
  <2> QED
    BY <1>1, <1>2, <2>1, <2>2 DEF Heard
<1>4. CASE op.kind = "rebuild"
  <2>1. /\ scheduler'.changed = (scheduler.again /\ (scheduler.changed \/ changed))
        /\ \/ /\ clock'.delivered = clock.delivered /\ clock'.heard = clock.heard
              /\ clock'.muted = clock.muted
              /\ \/ scheduler.again \/ closing # "no" \/ ~(scheduler.changed \/ changed)
                 \/ clock'.generation <= clock.delivered
           \/ /\ clock'.delivered = clock'.generation
              /\ clock'.heard \in {None, clock'.generation}
              /\ ~scheduler.again
    BY <1>4, ReturnsTypes DEF Types
  <2>2. scheduler.changed \/ changed => clock.delivered < clock'.generation
    BY <1>1, <1>2 DEF Heard
  <2>3. clock.delivered <= clock'.generation
    BY <1>1, <1>2 DEF Heard
  <2>4. ~changed => clock'.generation = clock.generation
    BY <1>1, <1>2
  <2>5. clock'.generation \in Nat
    BY <1>1, <1>2
  <2>6. CASE /\ clock'.delivered = clock.delivered /\ clock'.heard = clock.heard
             /\ clock'.muted = clock.muted
             /\ \/ scheduler.again \/ closing # "no" \/ ~(scheduler.changed \/ changed)
                \/ clock'.generation <= clock.delivered
    <3>1. scheduler'.changed => scheduler.changed \/ changed
      BY <2>1
    <3>2. ~scheduler.again /\ closing = "no" => ~(scheduler.changed \/ changed)
      BY <1>1, <2>2, <2>5, <2>6
    <3>3. closing' = "no" /\ clock'.heard # None =>
            clock'.heard = clock'.generation \/ clock'.muted \/ scheduler'.changed
      BY <2>1, <2>4, <2>6, <3>2 DEF Heard
    <3> QED
      BY <2>2, <2>3, <2>6, <3>1, <3>3 DEF Heard
  <2>7. CASE /\ clock'.delivered = clock'.generation
             /\ clock'.heard \in {None, clock'.generation}
             /\ ~scheduler.again
    <3>1. ~scheduler'.changed
      BY <2>1, <2>7
    <3>2. clock'.delivered <= clock'.generation
      BY <2>5, <2>7
    <3> QED
      BY <2>7, <3>1, <3>2 DEF Heard
  <2> QED
    BY <2>1, <2>6, <2>7
<1> QED
  BY <1>3, <1>4

LEMMA HeardKept ==
  ASSUME Heard, clock' = clock, scheduler'.changed = scheduler.changed,
         closing' = "no" => closing = "no"
  PROVE  Heard'
  BY DEF Heard

(* A rebuild that throws has muted the publications of its burst.          *)
LEMMA HeardThrows ==
  ASSUME Types, Heard, NEW kind, NEW late \in SUBSET Spc, Throws(kind, late)
  PROVE  Heard'
<1>1. /\ clock'.generation = clock.generation /\ clock'.delivered = clock.delivered
      /\ clock'.heard = clock.heard /\ (closing' = closing \/ closing' = "failed")
      /\ kind # "rebuild" => scheduler' = scheduler /\ clock'.muted = clock.muted
      /\ kind = "rebuild" => /\ ~scheduler'.changed
                             /\ clock'.muted = (clock.muted \/ scheduler.changed)
  BY ThrowsTypes
<1> QED
  BY <1>1 DEF Heard

(* Every step keeps what subscribers have heard.                           *)
LEMMA HeardStep ==
  ASSUME Types, Turns, Heard, Types', [Next]_vars
  PROVE  Heard'
<1>1. clock \in Clocks /\ clock.generation \in Nat /\ clock.delivered \in Nat
  BY DEF Types, WorkTypes, Clocks
<1>2. op.kind = "verify" => catalog # None /\ index # None
  BY DEF Turns
<1>3. CASE \/ UNCHANGED vars \/ Initialize \/ Settle \/ SkipInitialize
           \/ (\E s \in Spc, kind \in {"verify", "history"} : Request(s, kind))
           \/ Saving \/ (\E f \in File : Edit(f)) \/ StartRebuild \/ Load
           \/ (\E s \in Spc : Reverify(s))
           \/ StartVerify \/ History \/ Focus \/ FailVerify \/ Close
  <2>1. UNCHANGED <<clock, scheduler>> /\ (closing' = "no" => closing = "no")
    BY <1>3 DEF vars, Initialize, Settle, SkipInitialize, Request, Saving, SaveCatalog,
       SaveRecords, Edit, StartRebuild, Load, Reverify, StartVerify, History, Focus, FailVerify,
       Close, work
  <2> QED
    BY <2>1, HeardKept
<1>4. CASE (\E f \in File : Report(f)) \/ Quieten
  <2>1. clock' = clock /\ closing' = closing
    BY <1>4 DEF Report, Quieten
  <2>2. scheduler'.changed = scheduler.changed
    BY <1>4, ReportTypes, RequestedTypes, QuietenTypes DEF Types, WorkTypes
  <2> QED
    BY <2>1, <2>2, HeardKept
<1>5. CASE Restore \/ PublishDelta \/ PublishFull
  <2>1. Rebuilding /\ Returns(index' # index) /\ closing' = closing
    BY <1>5 DEF Restore, PublishDelta, PublishFull, Rebuilding
  <2> QED
    BY <2>1, HeardReturns
<1>6. CASE FailRefresh \/ FailProjection
  BY <1>6, FailRefreshTypes, FailProjectionTypes, HeardThrows
<1>7. CASE Confirm
  <2>1. /\ UNCHANGED <<scheduler, closing>>
        /\ \/ clock' = clock
           \/ /\ clock'.generation = clock.generation + 1
              /\ clock'.delivered = clock.delivered
              /\ clock'.heard \in {None, clock'.generation}
    BY <1>2, <1>7, ConfirmTypes DEF Confirm
  <2> QED
    BY <1>1, <2>1 DEF Heard
<1>8. CASE Subscribe
  <2>1. /\ UNCHANGED <<scheduler, closing>> /\ clock'.generation = clock.generation
        /\ clock'.delivered = clock.delivered /\ clock'.heard = clock.generation
    BY <1>8, SubscribeTypes DEF Subscribe, work
  <2> QED
    BY <2>1 DEF Heard
<1>9. CASE Dispose
  <2>1. /\ scheduler' = scheduler /\ clock'.generation = clock.generation
        /\ clock'.delivered = clock.delivered /\ clock'.heard = None
    BY <1>9, DisposeTypes DEF Dispose
  <2> QED
    BY <2>1 DEF Heard
<1>10. CASE Restart
  <2>1. scheduler' = Calm /\ clock' = Fresh
    BY <1>10 DEF Restart
  <2> QED
    BY <2>1 DEF Heard, Calm, Fresh
<1> QED
  BY <1>3, <1>4, <1>5, <1>6, <1>7, <1>8, <1>9, <1>10, Actions

-----------------------------------------------------------------------------
(* Theorems. *)

(* The inductive invariant.                                                *)
LEMMA Invariance == Spec => [](Types /\ Turns /\ Projections /\ Verdicts /\ Heed /\ Heard)
<1> DEFINE Inv == Types /\ Turns /\ Projections /\ Verdicts /\ Heed /\ Heard
<1>1. ASSUME Init PROVE Inv
  <2>1. Types
    BY <1>1, InitTypes
  <2>2. /\ app = None /\ index = None /\ catalog = None /\ unsaved = None /\ saving = None
        /\ saved = None /\ retained = NoRecords /\ durable = NoRecords /\ op.kind = "idle"
        /\ queue = <<>> /\ pending = {} /\ clock = Fresh /\ scheduler = Calm
        /\ \A f \in File : observed[f] = None
    BY <1>1 DEF Init, Idle
  <2>3. Turns
    <3>1. DOMAIN queue = {} /\ clock.heard = None
      BY <2>2 DEF Fresh
    <3> QED
      BY <2>2, <3>1 DEF Turns, Rebuilding
  <2>4. Projections
    BY <2>2 DEF Projections
  <2>5. Verdicts
    BY <2>2, NoRecordsValid DEF Verdicts, Rebuilding
  <2>6. Heed
    BY <2>2 DEF Heed
  <2>7. Heard
    BY <2>2 DEF Heard, Fresh, Calm
  <2> QED
    BY <2>1, <2>3, <2>4, <2>5, <2>6, <2>7
<1>2. Inv /\ [Next]_vars => Inv'
  BY TypesStep, TurnsStep, ProjectionsStep, VerdictsStep, HeedStep, HeardStep
<1> QED
  BY <1>1, <1>2, PTL DEF Spec

(* Disk, watcher, application, catalog, scheduler and queue keep their     *)
(* types through rebuilds, verifications, failures and restarts, and       *)
(* nothing is owed that was not recorded as tainted.                       *)
THEOREM TypeCorrect == Spec => []TypeOK
<1>1. Types => TypeOK
  <2> SUFFICES ASSUME Types PROVE TypeOK
    OBVIOUS
  <2>1. index # None => index.snapshot \in Versions /\ DOMAIN index.shown = Spc
    BY IndexTypes DEF Types, Catalogs
  <2>2. scheduler.phase \in {"idle", "debounce", "rebuild"}
    BY DEF Types, WorkTypes, Schedulers
  <2> QED
    BY <2>1, <2>2 DEF TypeOK, Types, WatchTypes, ViewTypes, WorkTypes, StoreTypes
<1> QED
  BY <1>1, Invariance, PTL

(* Every specification is shown as it is in the snapshot that the index    *)
(* names, whether it was projected, kept by a patch or restored from a     *)
(* checkpoint, except those that a failed rebuild had been told of and no  *)
(* later one has projected (catalog-runtime.ts, rebuild).                  *)
THEOREM ShownIsProjected == Spec => []ShownOfSnapshot
<1>1. Projections => ShownOfSnapshot
  BY DEF Projections, Exact, ShownOfSnapshot
<1> QED
  BY <1>1, Invariance, PTL

(* A verdict that is shown was reached for the sources of its              *)
(* specification in the snapshot it is shown with, unless a rebuild of it  *)
(* has failed: records are taken for equal inputs only, and a patch keeps  *)
(* a verdict only where no source has changed (catalog-runtime.ts,         *)
(* restoreVerificationRecords).                                            *)
THEOREM VerdictsAreEarned == Spec => []VerdictsEarned
<1>1. Verdicts => VerdictsEarned
  BY DEF Verdicts, Earned, VerdictsEarned
<1> QED
  BY <1>1, Invariance, PTL

(* At rest nothing is on its way or pending, so that a file that differs   *)
(* from the snapshot of the application would have been rejected or be     *)
(* owed.                                                                   *)
LEMMA CurrentWhenQuiet ==
  ASSUME Types, Turns, Projections, Verdicts, Heed
  PROVE  QuietIsCurrent
<1> SUFFICES ASSUME Quiet, NEW s \in Spc \ Touched(rejected)
             PROVE  /\ s \notin owed => TextsCurrent(s)
                    /\ s \notin tainted => Current(s)
  BY DEF QuietIsCurrent
<1>1. /\ events = {} /\ op.kind = "idle" /\ scheduler.phase = "idle" /\ index # None
      /\ closing = "no" /\ ~Rebuilding
  BY DEF Quiet, Idle, Calm, Rebuilding
<1>2. app # None
  BY <1>1 DEF Turns
<1>3. ASSUME s \notin owed, NEW f \in SourcesOf(s)
      PROVE  app[f] = disk[f]
  <2>1. f \in File /\ f \notin rejected /\ s \in Touched({f})
    BY <1>3, SourcesAreInputs DEF Touched
  <2>2. Expected(f)
    BY <1>1, <1>2, <2>1 DEF Heed
  <2>3. f \notin pending
    <3>1. pending # {} => Touched(pending) \subseteq owed
      BY <1>1 DEF Heed
    <3> QED
      BY <1>3, <2>1, <3>1, TouchedOf
  <2> QED
    BY <1>3, <2>1, <2>2, <2>3 DEF Expected
<1>4. ASSUME s \notin owed
      PROVE  /\ Sources(index.snapshot, s) = Sources(disk, s)
             /\ index.shown[s].of = Sources(index.snapshot, s)
  <2>1. Sources(app, s) = Sources(disk, s)
    BY <1>3, <1>4, SameSources
  <2>2. Sources(app, s) = Sources(index.snapshot, s)
    BY <1>1, <1>2, <1>4 DEF Projections, Told
  <2>3. index.shown[s].of = Sources(index.snapshot, s)
    BY <1>1, <1>4 DEF Projections, Exact
  <2> QED
    BY <2>1, <2>2, <2>3
<1>5. s \notin owed => TextsCurrent(s)
  BY <1>4 DEF TextsCurrent, Sources, Restrict
<1>6. s \notin tainted => ReachedFor(index.shown[s].verdict, disk, s)
  <2> HAVE s \notin tainted
  <2>1. s \notin owed
    BY DEF Types, StoreTypes
  <2>2. ReachedFor(index.shown[s].verdict, index.snapshot, s)
    BY <1>1 DEF Verdicts, Earned
  <2> QED
    BY <1>4, <2>1, <2>2, ReachedSame
<1>7. owed \subseteq tainted
  BY DEF Types, StoreTypes
<1> QED
  BY <1>5, <1>6, <1>7 DEF Current

(* A server at rest shows the files as they are, but for the changes the   *)
(* watcher has rejected and what failed rebuilds had been told of: no      *)
(* order of edits, events, rounds of the scheduler and failures loses      *)
(* another change (reload.ts, createRebuildScheduler).                     *)
THEOREM QuietIsUpToDate == Spec => []QuietIsCurrent
<1> QED
  BY CurrentWhenQuiet, Invariance, PTL

(* A subscriber of a server at rest has heard of its latest publication,   *)
(* unless a rebuild failed after another one of the same burst had         *)
(* published (catalog-runtime.ts, changed).                                *)
THEOREM SubscribersHear == Spec => []QuietIsHeard
<1>1. Heard => QuietIsHeard
  BY DEF Heard, QuietIsHeard, Quiet, Calm
<1> QED
  BY <1>1, Invariance, PTL
=============================================================================
