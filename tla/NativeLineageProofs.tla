------------------------- MODULE NativeLineageProofs -------------------------
(***************************************************************************)
(* The refresh protocol for any number of universes, sources and edits,    *)
(* and any failures: the analyzer's base is always a committed generation, *)
(* an answer always describes the compiler's program, and a caller that    *)
(* replaces failed sessions is returned nothing older than its refresh.    *)
(*                                                                         *)
(* What an incremental candidate takes from its base it never compared     *)
(* with the disk; that it is right rests on Faithful: every source the     *)
(* program does not share with the base has been applied in this request,  *)
(* and after a request that did not end well the analyzer either owes a    *)
(* complete candidate or still holds the base.                             *)
(***************************************************************************)
EXTENDS NativeLineage, TLAPS

\* Every input of c was so at some time since the refresh began.
Fresh(c) ==
  /\ \E d \in seen : d.universe = c.universe
  /\ \A s \in Source : \E d \in seen : d.files[s] = c.files[s]

\* Service and analyzer agree on where the request is: an answer is there from the analysis to
\* the acknowledgement, and while the analyzer works nothing is pending and its base is the
\* service's, or one that it is to take over.
Dialogue ==
  /\ service.answer # None <=> service.stage \in {"answered", "commit", "acknowledge"}
  /\ service.stage \in {"commit", "acknowledge"} => service.answer \in Transactions
  /\ service.answer \in Contents => service.answer = Base
  /\ native.alive /\ service.stage = "opening" => native.acknowledged = None /\ native.pending = None
  /\ native.alive /\ service.stage = "native" =>
       /\ native.pending = None
       /\ Base = Held \/ Adopting
       /\ native.full => native.rebuilt

\* The base of the analyzer is a committed generation, as is what is to become it: the heads of
\* the store, what the service has read of them, and a candidate that waits for installation.
Committed ==
  /\ \A u \in Universe : head[u] # None => head[u] \in ledger
  /\ service.current # None => service.current \in ledger
  /\ service.stage = "acknowledge" => service.answer.next \in ledger
  /\ CommitLate

\* No declaration shape fails in a session that is kept.
Sound == setting.restarting \/ "shape" \notin Fault[setting.restarting]

\* The content answered.
Answered == IF service.answer \in Contents THEN service.answer ELSE service.answer.next.content

\* What the analyzer knows of its program.  Between requests the program is the pending
\* candidate or, unless a complete one is due, the base; during an incremental update it is the
\* base except for the sources applied; and from the analysis on it is what was answered.
Faithful ==
  Sound /\ native.alive =>
    /\ service.stage \notin {"opening", "native"} /\ ~(service.stage = "failed" /\ setting.restarting) =>
         /\ native.pending = None /\ ~native.full /\ native.acknowledged # None =>
              native.program = native.acknowledged.content
         /\ native.pending # None => native.program = native.pending.next.content
    /\ service.stage = "native" /\ ~native.rebuilt /\ native.acknowledged # None =>
         /\ native.program.universe = native.acknowledged.content.universe
         /\ \A s \in Source \ native.applied :
              native.program.files[s] = native.acknowledged.content.files[s]
    /\ service.stage \in {"answered", "commit", "acknowledge"} => native.program = Answered

\* What is in work was read since the refresh began: the program but for the sources still to
\* be read, candidates, answers, and what was returned.
Recent ==
  /\ Refreshing => disk \in seen
  /\ native.alive /\ service.stage = "native" =>
       /\ \E d \in seen : d.universe = native.program.universe
       /\ \A s \in Source \ native.reading : \E d \in seen : d.files[s] = native.program.files[s]
  /\ setting.restarting =>
       /\ native.pending # None =>
            service.stage = "failed" \/ service.answer \in Transactions
       /\ service.answer \in Transactions => service.answer.next.content \in seen
       /\ service.answer \in Contents => Fresh(service.answer)
       /\ service.stage = "returned" => Fresh(published.content)

-----------------------------------------------------------------------------
(* Types, and what each step sets. *)

Types == TypeOK /\ setting \in [restarting : Restarting, edits : Nat, upsets : Nat]

LEMMA Disjoint == Transactions \intersect Contents = {}
  BY DEF Transactions, Contents

(* A counter is set in a record by a value of its range, whichever it is.  *)
LEMMA LoadingType ==
  ASSUME NEW n \in Analyzers, disk \in Contents, NEW tries \in 0 .. 2, NEW full \in BOOLEAN
  PROVE  /\ Loading(n) \in Analyzers
         /\ [Loading(n) EXCEPT !.tries = tries] \in Analyzers
         /\ [Loading(n) EXCEPT !.full = full, !.tries = tries] \in Analyzers
<1>1. Loading(n) \in Analyzers
  BY DEF Loading, Analyzers
<1> QED
  BY <1>1 DEF Analyzers

LEMMA DeadType ==
  ASSUME disk \in Contents
  PROVE  Dead \in Analyzers /\ Spawned \in Analyzers /\ Spawned.alive
<1>1. Dead \in Analyzers
  BY DEF Dead, Analyzers
<1> QED
  BY <1>1, LoadingType DEF Spawned, Analyzers

LEMMA ForgottenType ==
  ASSUME service \in Services, NEW stage \in Stages
  PROVE  /\ Forgotten(stage) \in Services
         /\ Forgotten(stage).stage = stage /\ Forgotten(stage).answer = None
         /\ Forgotten(stage).current = None /\ Forgotten(stage).universe = service.universe
<1>1. /\ Forgotten(stage).stage = stage /\ Forgotten(stage).answer = None
      /\ Forgotten(stage).current = None /\ Forgotten(stage).universe = service.universe
  BY DEF Forgotten, Services
<1>2. ASSUME NEW rounds \in 0 .. 3
      PROVE  [service EXCEPT !.stage = stage, !.hinted = FALSE, !.rounds = rounds, !.current = None,
                             !.answer = None, !.wrote = FALSE] \in Services
  BY DEF Services
<1>3. Forgotten(stage) \in Services
  BY <1>2, 0 \in 0 .. 3 DEF Forgotten
<1> QED
  BY <1>1, <1>3

LEMMA FailType ==
  ASSUME service \in Services, Fail
  PROVE  /\ service' \in Services /\ service'.stage = "failed" /\ service'.answer = None
         /\ service'.current = None
  BY ForgottenType DEF Fail, Stages

LEMMA ToType ==
  ASSUME service \in Services, NEW stage \in Stages, To(stage)
  PROVE  /\ service' \in Services /\ service'.stage = stage
         /\ service'.answer = service.answer /\ service'.current = service.current
  BY DEF To, Services

LEMMA AnswerType ==
  ASSUME service \in Services, NEW a \in Transactions \union Contents, Answer(a)
  PROVE  /\ service' \in Services /\ service'.stage = "answered"
         /\ service'.answer = a /\ service'.current = service.current
  BY DEF Answer, Services, Stages

LEMMA IdTypes ==
  ASSUME TypeOK
  PROVE  /\ Base \in Contents \union {None} /\ Held \in Contents \union {None}
         /\ Base # None <=> service.current # None
         /\ Held # None <=> native.acknowledged # None
         /\ Base # None => Base = service.current.content
         /\ Held # None => Held = native.acknowledged.content
  BY NoneAssumption DEF Base, Held, IdOf, TypeOK, Services, Analyzers, Generations

(* What a candidate takes from the base is there to be taken.              *)
LEMMA CandidateType ==
  ASSUME TypeOK, NEW selected \in SUBSET Source
  PROVE  /\ Candidate(selected) \in Contents
         /\ Candidate(selected).universe = native.program.universe
         /\ \A s \in Source : Candidate(selected).files[s]
               = IF Whole \/ s \in selected THEN native.program.files[s]
                 ELSE native.acknowledged.content.files[s]
         /\ ~Whole => native.acknowledged \in Generations
<1>1. ~Whole => native.acknowledged \in Generations
  BY IdTypes DEF Whole, Adopting, TypeOK, Analyzers
<1>2. native.program \in Contents
  BY DEF TypeOK, Analyzers
<1> DEFINE files == [s \in Source |-> IF Whole \/ s \in selected THEN native.program.files[s]
                                      ELSE native.acknowledged.content.files[s]]
<1>3. files \in [Source -> Revision]
  BY <1>1, <1>2 DEF Contents, Generations
<1>4. Candidate(selected) = [native.program EXCEPT !.files = files]
  BY <1>2 DEF Candidate, Contents
<1>5. \A s \in Source : files[s] = IF Whole \/ s \in selected THEN native.program.files[s]
                                   ELSE native.acknowledged.content.files[s]
  OBVIOUS
<1> HIDE DEF files
<1>6. Candidate(selected) \in Contents /\ Candidate(selected).files = files
      /\ Candidate(selected).universe = native.program.universe
  BY <1>2, <1>3, <1>4 DEF Contents
<1> QED
  BY <1>1, <1>5, <1>6

LEMMA TransactionType ==
  ASSUME TypeOK, NEW content \in Contents
  PROVE  Transaction(content) \in Transactions /\ Transaction(content).next.content = content
<1>1. CandidateBase \in Contents \union {None}
  BY IdTypes DEF CandidateBase
<1>2. CandidateBase # None => native.acknowledged \in Generations
  BY IdTypes DEF CandidateBase, Adopting, TypeOK, Analyzers
<1> DEFINE sequence == IF CandidateBase = None THEN 1 ELSE native.acknowledged.sequence + 1
<1>3. sequence \in Nat \ {0}
  BY <1>2 DEF Generations
<1> HIDE DEF sequence
<1>4. Transaction(content) = [base |-> CandidateBase, next |-> [content |-> content, sequence |-> sequence]]
  BY DEF Transaction, sequence
<1> QED
  BY <1>1, <1>3, <1>4 DEF Transactions, Generations

LEMMA InitTypes == Init => Types
<1> SUFFICES ASSUME Init PROVE Types
  OBVIOUS
<1>1. disk \in Contents /\ native \in Analyzers
  BY DeadType DEF Init
<1>2. setting.restarting \in Restarting /\ setting.edits = 0 /\ setting.upsets = 0
      /\ setting \in [restarting : Restarting, edits : Nat, upsets : Nat]
  BY DEF Init
<1>3. service \in Services
  BY DEF Init, Services, Stages
<1> QED
  BY <1>1, <1>2, <1>3, LineageAssumption DEF Init, Types, TypeOK

LEMMA FailsType ==
  ASSUME Types, NEW kind, Fails(kind)
  PROVE  /\ setting' \in [restarting : Restarting, edits : Nat, upsets : Nat]
         /\ setting'.restarting = setting.restarting /\ setting'.edits = setting.edits
         /\ setting'.upsets \in 0 .. MaxUpsets[setting'.restarting]
         /\ kind \in Fault[setting.restarting]
  BY LineageAssumption DEF Types, TypeOK, Fails

(* A step that changes nothing but the two parties.                        *)
LEMMA PartiesTypes ==
  ASSUME Types, native' \in Analyzers, service' \in Services,
         published' \in Generations \union {None}, seen' \subseteq Contents,
         UNCHANGED <<disk, head, ledger>>,
         \/ UNCHANGED setting
         \/ \E kind \in FaultKinds : Fails(kind)
  PROVE  Types'
<1>1. CASE UNCHANGED setting
  BY <1>1 DEF Types, TypeOK
<1>2. CASE \E kind \in FaultKinds : Fails(kind)
  <2>1. PICK kind \in FaultKinds : Fails(kind)
    BY <1>2
  <2>2. /\ setting' \in [restarting : Restarting, edits : Nat, upsets : Nat]
        /\ setting'.restarting = setting.restarting /\ setting'.edits = setting.edits
        /\ setting'.upsets \in 0 .. MaxUpsets[setting'.restarting]
    BY <2>1, FailsType
  <2> QED
    BY <2>2 DEF Types, TypeOK
<1> QED
  BY <1>1, <1>2

LEMMA BeginTypes ==
  ASSUME Types, NEW hinted \in BOOLEAN, Begin(hinted)
  PROVE  /\ Types'
         /\ native'.alive /\ service'.answer = None /\ service'.current = None
         /\ \/ native' = native /\ service'.stage = "read"
               /\ (service.stage # "failed" \/ ~setting.restarting)
            \/ native' = Spawned /\ service'.stage = "opening"
<1> DEFINE reuse == native.alive /\ (service.stage # "failed" \/ ~setting.restarting)
           stage == IF reuse THEN "read" ELSE "opening"
<1>1. native' \in Analyzers /\ native'.alive
  BY DeadType DEF Begin, Types, TypeOK
<1>2. stage \in Stages /\ Forgotten(stage) \in Services
  BY ForgottenType DEF Stages, Types, TypeOK
<1>3. service' = [Forgotten(stage) EXCEPT !.hinted = hinted]
  BY DEF Begin
<1>4. service' \in Services /\ service'.stage = stage /\ service'.answer = None
      /\ service'.current = None
  <2>1. Forgotten(stage).stage = stage /\ Forgotten(stage).answer = None
        /\ Forgotten(stage).current = None
    BY <1>2, ForgottenType DEF Types, TypeOK
  <2> HIDE DEF stage
  <2> QED
    BY <1>2, <1>3, <2>1 DEF Services
<1>5. Types'
  BY <1>1, <1>4, PartiesTypes DEF Begin, Types, TypeOK
<1> QED
  BY <1>1, <1>4, <1>5 DEF Begin

LEMMA ReadSourceTypes ==
  ASSUME Types, NEW o \in Source, ReadSource(o)
  PROVE  /\ Types'
         /\ native'.alive /\ native'.rebuilt = native.rebuilt /\ native'.full = native.full
         /\ native'.acknowledged = native.acknowledged /\ native'.pending = native.pending
         /\ native'.reading = native.reading \ {o}
         /\ native'.program.universe = native.program.universe
         /\ \A s \in Source : native'.program.files[s]
               = IF s = o THEN disk.files[o] ELSE native.program.files[s]
         /\ native'.applied = IF native.rebuilt \/ disk.files[o] = native.program.files[o]
                              THEN native.applied ELSE native.applied \union {o}
<1> DEFINE files == [native.program.files EXCEPT ![o] = disk.files[o]]
           program == [native.program EXCEPT !.files = files]
           applied == IF native.rebuilt \/ disk.files[o] = native.program.files[o]
                      THEN native.applied ELSE native.applied \union {o}
           reading == native.reading \ {o}
<1>1. native \in Analyzers /\ native.program \in Contents /\ disk \in Contents
  BY DEF Types, TypeOK, Analyzers
<1>2. files \in [Source -> Revision]
      /\ \A s \in Source : files[s] = IF s = o THEN disk.files[o] ELSE native.program.files[s]
  BY <1>1 DEF Contents
<1>3. applied \in SUBSET Source /\ reading \in SUBSET Source
  BY <1>1 DEF Analyzers
<1>4. native' = [native EXCEPT !.program = program, !.reading = reading, !.applied = applied]
  <2>1. native' = [native EXCEPT !.program.files[o] = disk.files[o], !.reading = @ \ {o},
                     !.applied = IF native.rebuilt \/ disk.files[o] = native.program.files[o]
                                   THEN @ ELSE @ \union {o}]
    BY DEF ReadSource
  <2> QED
    BY <1>1, <2>1 DEF Analyzers
<1> HIDE DEF files
<1>5. program \in Contents /\ program.universe = native.program.universe /\ program.files = files
  BY <1>1, <1>2 DEF Contents
<1> HIDE DEF program, applied, reading
<1>6. /\ native' \in Analyzers /\ native'.program = program /\ native'.reading = reading
      /\ native'.applied = applied /\ native'.alive = native.alive
      /\ native'.rebuilt = native.rebuilt /\ native'.full = native.full
      /\ native'.acknowledged = native.acknowledged /\ native'.pending = native.pending
  BY <1>1, <1>3, <1>4, <1>5 DEF Analyzers
<1>7. Types'
  BY <1>6, PartiesTypes DEF ReadSource, Types, TypeOK
<1>8. native.alive
  BY DEF ReadSource
<1> QED
  BY <1>2, <1>5, <1>6, <1>7, <1>8 DEF applied, reading

LEMMA ReadCurrentTypes ==
  ASSUME Types, ReadCurrent
  PROVE  /\ Types'
         /\ service'.stage = "request" /\ service'.answer = service.answer
         /\ service'.current \in {head[u] : u \in Universe} \union {None}
<1> DEFINE current == IF service.universe = None THEN None ELSE head[service.universe]
<1>1. service \in Services /\ head \in [Universe -> Generations \union {None}]
  BY DEF Types, TypeOK
<1>2. current \in {head[u] : u \in Universe} \union {None}
  BY <1>1 DEF Services
<1>3. current \in Generations \union {None}
  BY <1>1, <1>2
<1>4. service' = [service EXCEPT !.stage = "request", !.current = current]
  BY DEF ReadCurrent
<1> HIDE DEF current
<1>5. service' \in Services /\ service'.stage = "request" /\ service'.answer = service.answer
      /\ service'.current = current
  BY <1>1, <1>3, <1>4 DEF Services, Stages
<1>6. Types'
  BY <1>5, PartiesTypes DEF ReadCurrent, Types, TypeOK
<1> QED
  BY <1>2, <1>5, <1>6

LEMMA BeginUpdateTypes ==
  ASSUME Types, BeginUpdate
  PROVE  /\ Types'
         /\ service'.stage = "native" /\ service'.answer = service.answer
         /\ service'.current = service.current
         /\ native'.alive /\ native'.full = native.full
         /\ native'.acknowledged = native.acknowledged /\ native'.pending = native.pending
         /\ \/ native'.rebuilt /\ native'.program = disk
            \/ /\ ~native.full /\ native.program.universe = disk.universe
               /\ ~native'.rebuilt /\ native'.program = native.program
               /\ native'.applied = {} /\ native'.reading = Moved
<1>1. native \in Analyzers /\ disk \in Contents /\ service \in Services /\ native.alive
  BY DEF Types, TypeOK, BeginUpdate, Asked
<1>2. /\ service' \in Services /\ service'.stage = "native"
      /\ service'.answer = service.answer /\ service'.current = service.current
  BY <1>1, ToType DEF BeginUpdate, Stages
<1>3. Moved \in SUBSET Source
  BY DEF Moved
<1> DEFINE zero == 0
<1>4. zero \in 0 .. 2
  OBVIOUS
<1>5. CASE native.full \/ native.program.universe # disk.universe
  <2>1. native' = [Loading(native) EXCEPT !.tries = zero]
    BY <1>5 DEF BeginUpdate
  <2> HIDE DEF zero
  <2>2. native' \in Analyzers
    BY <1>1, <1>4, <2>1, LoadingType
  <2>3. /\ native'.rebuilt /\ native'.program = disk
        /\ native'.alive = native.alive /\ native'.full = native.full
        /\ native'.acknowledged = native.acknowledged /\ native'.pending = native.pending
    BY <1>1, <2>1 DEF Analyzers, Loading
  <2>4. Types'
    BY <1>2, <2>2, PartiesTypes DEF BeginUpdate, Types, TypeOK
  <2> QED
    BY <1>1, <1>2, <2>3, <2>4
<1>6. CASE ~(native.full \/ native.program.universe # disk.universe)
  <2>1. native' = [native EXCEPT !.reading = Moved, !.rebuilt = FALSE,
                                 !.applied = {}, !.tries = zero]
    BY <1>6 DEF BeginUpdate
  <2> HIDE DEF zero
  <2>2. /\ native' \in Analyzers /\ ~native'.rebuilt /\ native'.program = native.program
        /\ native'.alive = native.alive /\ native'.full = native.full
        /\ native'.acknowledged = native.acknowledged /\ native'.pending = native.pending
        /\ native'.applied = {} /\ native'.reading = Moved
    BY <1>1, <1>3, <1>4, <2>1 DEF Analyzers
  <2>3. Types'
    BY <1>2, <2>2, PartiesTypes DEF BeginUpdate, Types, TypeOK
  <2> QED
    BY <1>1, <1>2, <1>6, <2>2, <2>3
<1> QED
  BY <1>5, <1>6

LEMMA ProjectTypes ==
  ASSUME Types, NEW selected \in SUBSET Source, Project(selected)
  PROVE  /\ Types'
         /\ service'.stage = "answered" /\ service'.current = service.current
         /\ native'.alive = native.alive /\ native'.program = native.program
         /\ \/ /\ service'.answer = Candidate(selected) /\ Candidate(selected) = Base
               /\ native'.pending = native.pending
               /\ \/ Adopting /\ native'.acknowledged = service.current
                  \/ /\ ~Adopting /\ native'.acknowledged = native.acknowledged
                     /\ native'.full = native.full
            \/ /\ service'.answer \in Transactions
               /\ service'.answer.next.content = Candidate(selected)
               /\ native'.pending = service'.answer
               /\ native'.acknowledged = native.acknowledged
<1> DEFINE content == Candidate(selected)
<1>1. native \in Analyzers /\ service \in Services
  BY DEF Types, TypeOK
<1>2. content \in Contents /\ Transaction(content) \in Transactions
      /\ Transaction(content).next.content = content
  BY CandidateType, TransactionType DEF Types
<1>3. CASE content = Base
  <2>1. Answer(Base)
    BY <1>3 DEF Project
  <2>2. /\ service' \in Services /\ service'.stage = "answered"
        /\ service'.answer = Base /\ service'.current = service.current
    BY <1>1, <1>2, <1>3, <2>1, AnswerType
  <2>3. /\ native' \in Analyzers /\ native'.alive = native.alive
        /\ native'.program = native.program /\ native'.pending = native.pending
        /\ \/ Adopting /\ native'.acknowledged = service.current
           \/ /\ ~Adopting /\ native'.acknowledged = native.acknowledged
              /\ native'.full = native.full
    <3>1. CASE Adopting
      <4>1. native' = [native EXCEPT !.acknowledged = service.current, !.full = FALSE]
        BY <1>3, <3>1 DEF Project
      <4>2. service.current \in Generations \union {None}
        BY <1>1 DEF Services
      <4> QED
        BY <1>1, <3>1, <4>1, <4>2 DEF Analyzers
    <3>2. CASE ~Adopting
      BY <1>1, <1>3, <3>2 DEF Project
    <3> QED
      BY <3>1, <3>2
  <2>4. Types'
    BY <2>2, <2>3, PartiesTypes DEF Project, Types, TypeOK
  <2> QED
    BY <1>3, <2>2, <2>3, <2>4
<1>4. CASE content # Base
  <2> DEFINE t == Transaction(content)
  <2>1. Answer(t) /\ native' = [native EXCEPT !.pending = t]
    BY <1>4 DEF Project
  <2>2. t \in Transactions /\ t.next.content = content
    BY <1>2
  <2> HIDE DEF t
  <2>3. /\ service' \in Services /\ service'.stage = "answered"
        /\ service'.answer = t /\ service'.current = service.current
    BY <1>1, <2>1, <2>2, AnswerType
  <2>4. /\ native' \in Analyzers /\ native'.alive = native.alive
        /\ native'.program = native.program /\ native'.pending = t
        /\ native'.acknowledged = native.acknowledged
    BY <1>1, <2>1, <2>2 DEF Analyzers
  <2>5. Types'
    BY <2>3, <2>4, PartiesTypes DEF Project, Types, TypeOK
  <2> QED
    BY <2>2, <2>3, <2>4, <2>5
<1> QED
  BY <1>3, <1>4

LEMMA InputChangedTypes ==
  ASSUME Types, InputChanged
  PROVE  /\ Types'
         /\ native'.acknowledged = native.acknowledged /\ native'.pending = native.pending
         /\ native'.alive = native.alive /\ native'.full
         /\ \/ service' = service /\ native'.rebuilt /\ native'.program = disk
            \/ service'.stage = "failed" /\ service'.answer = None /\ service'.current = None
<1>1. native \in Analyzers /\ service \in Services /\ disk \in Contents
  BY DEF Types, TypeOK
<1>2. CASE native.tries < 2
  <2> DEFINE tries == native.tries + 1
  <2>1. tries \in 0 .. 2
    BY <1>1, <1>2 DEF Analyzers
  <2>2. native' = [Loading(native) EXCEPT !.full = TRUE, !.tries = tries]
    <3>1. Loading(native).tries = native.tries
      BY <1>1 DEF Loading, Analyzers
    <3>2. native' = [Loading(native) EXCEPT !.full = TRUE, !.tries = Loading(native).tries + 1]
      BY <1>1, <1>2, LoadingType DEF InputChanged, Analyzers
    <3> QED
      BY <3>1, <3>2
  <2> HIDE DEF tries
  <2>3. native' \in Analyzers
    BY <1>1, <2>1, <2>2, LoadingType
  <2>4. /\ native'.acknowledged = native.acknowledged /\ native'.pending = native.pending
        /\ native'.alive = native.alive /\ native'.full /\ native'.rebuilt
        /\ native'.program = disk
    BY <1>1, <2>2 DEF Analyzers, Loading
  <2>5. service' = service
    BY <1>2 DEF InputChanged
  <2>6. Types'
    BY <1>1, <2>3, <2>5, PartiesTypes DEF InputChanged, Types, TypeOK
  <2> QED
    BY <2>4, <2>5, <2>6
<1>3. CASE ~(native.tries < 2)
  <2>1. native' = [native EXCEPT !.full = TRUE] /\ Fail
    BY <1>3 DEF InputChanged
  <2>2. /\ native' \in Analyzers
        /\ native'.acknowledged = native.acknowledged /\ native'.pending = native.pending
        /\ native'.alive = native.alive /\ native'.full
    BY <1>1, <2>1 DEF Analyzers
  <2>3. Types'
    BY <1>1, <2>1, <2>2, FailType, PartiesTypes DEF InputChanged, Types, TypeOK
  <2> QED
    BY <1>1, <2>1, <2>2, <2>3, FailType
<1> QED
  BY <1>2, <1>3

LEMMA ProjectionFailsTypes ==
  ASSUME Types, ProjectionFails
  PROVE  /\ Types' /\ setting'.restarting = setting.restarting
         /\ service'.stage = "failed" /\ service'.answer = None /\ service'.current = None
         /\ native'.acknowledged = native.acknowledged /\ native'.pending = native.pending
         /\ native'.alive = native.alive /\ native'.program = native.program
         /\ native'.full = (native.full \/ Advanced)
<1>1. native \in Analyzers /\ service \in Services
  BY DEF Types, TypeOK
<1> DEFINE full == native.full \/ Advanced
<1>2. full \in BOOLEAN
  BY <1>1 DEF Analyzers, Advanced
<1>3. native' = [native EXCEPT !.full = full]
  BY DEF ProjectionFails
<1> HIDE DEF full
<1>4. /\ native' \in Analyzers
      /\ native'.acknowledged = native.acknowledged /\ native'.pending = native.pending
      /\ native'.alive = native.alive /\ native'.program = native.program
      /\ native'.full = full
  BY <1>1, <1>2, <1>3 DEF Analyzers
<1>5. /\ service' \in Services /\ service'.stage = "failed"
      /\ service'.answer = None /\ service'.current = None
  BY <1>1, FailType DEF ProjectionFails
<1>6. Fails("project") /\ "project" \in FaultKinds
  BY DEF ProjectionFails, FaultKinds
<1>7. Types'
  BY <1>4, <1>5, <1>6, PartiesTypes DEF ProjectionFails, Types, TypeOK
<1> QED
  BY <1>4, <1>5, <1>6, <1>7, FailsType DEF full

(* The failures that leave the analyzer as it is, or dead.                 *)
LEMMA FailureTypes ==
  ASSUME Types, Fail, native' \in {native, Dead}, UNCHANGED <<disk, head, published, seen, ledger>>,
         \/ UNCHANGED setting
         \/ \E kind \in FaultKinds : Fails(kind)
  PROVE  /\ Types' /\ setting'.restarting = setting.restarting
         /\ service'.stage = "failed" /\ service'.answer = None /\ service'.current = None
<1>1. native' \in Analyzers /\ service \in Services
  BY DeadType DEF Types, TypeOK
<1>2. /\ service' \in Services /\ service'.stage = "failed"
      /\ service'.answer = None /\ service'.current = None
  BY <1>1, FailType
<1>3. setting'.restarting = setting.restarting
  BY FailsType
<1>4. Types'
  BY <1>1, <1>2, PartiesTypes DEF Types, TypeOK
<1> QED
  BY <1>2, <1>3, <1>4

LEMMA PlaceTypes ==
  ASSUME Types, Place
  PROVE  /\ Types'
         /\ service'.stage \in {"commit", "acknowledge"} /\ service'.current = service.current
         /\ service'.answer \in Transactions
         /\ service'.answer.next.content = service.answer.next.content
         /\ service'.stage = "acknowledge" =>
              \E u \in Universe : head[u] # None /\ service'.answer.next = head[u]
<1> DEFINE answer == service.answer  base == head[Target]
<1>1. /\ service \in Services /\ answer \in Transactions /\ answer.next \in Generations
      /\ Target \in Universe
  BY DEF Types, TypeOK, Place, Transactions, Generations, Contents, Target
<1>2. base \in Generations \union {None}
  BY <1>1 DEF Types, TypeOK
<1>3. CASE service.answer.base # None \/ head[Target] = None
  <2>1. To("commit")
    BY <1>3 DEF Place
  <2>2. /\ service' \in Services /\ service'.stage = "commit" /\ service'.answer = service.answer
        /\ service'.current = service.current
    BY <1>1, <2>1, ToType DEF Stages
  <2>3. Types'
    BY <2>2, PartiesTypes DEF Place, Types, TypeOK
  <2> QED
    BY <1>1, <2>2, <2>3
<1>4. CASE service.answer.base = None /\ base # None /\ base.content = service.answer.next.content
  <2> DEFINE t == [base |-> answer.base, next |-> base]
  <2>1. t \in Transactions
    BY <1>1, <1>2, <1>4 DEF Transactions
  <2>2. service' = [service EXCEPT !.stage = "acknowledge", !.wrote = FALSE, !.answer = t]
    <3>1. service' = [service EXCEPT !.stage = "acknowledge", !.wrote = FALSE,
                                     !.answer.next = base]
      BY <1>4 DEF Place
    <3>2. t = [service.answer EXCEPT !.next = base]
      BY <1>1 DEF Transactions
    <3> HIDE DEF t, base
    <3> QED
      BY <1>1, <3>1, <3>2 DEF Services
  <2>3. t.next = base
    OBVIOUS
  <2> HIDE DEF t
  <2>4. /\ service' \in Services /\ service'.stage = "acknowledge" /\ service'.answer = t
        /\ service'.current = service.current
    BY <1>1, <2>1, <2>2 DEF Services, Stages
  <2>5. Types'
    BY <2>4, PartiesTypes DEF Place, Types, TypeOK
  <2> QED
    BY <1>1, <1>4, <2>1, <2>3, <2>4, <2>5
<1>5. CASE service.answer.base = None /\ base # None /\ base.content # service.answer.next.content
  <2> DEFINE sequence == base.sequence + 1
             next == [content |-> answer.next.content, sequence |-> sequence]
             t == [service.answer EXCEPT !.base = base.content, !.next = next]
  <2>1. sequence \in Nat \ {0}
    BY <1>2, <1>5 DEF Generations
  <2>2. service' = [service EXCEPT !.stage = "commit", !.answer = t]
    <3>1. service' = [service EXCEPT !.stage = "commit", !.answer.base = base.content,
                                     !.answer.next.sequence = sequence]
      BY <1>5 DEF Place
    <3> HIDE DEF sequence, base
    <3>2. [service.answer.next EXCEPT !.sequence = sequence] = next
      BY <1>1 DEF Generations
    <3> HIDE DEF next
    <3> QED
      BY <1>1, <3>1, <3>2 DEF Services, Transactions
  <2> HIDE DEF sequence
  <2>3. next \in Generations /\ next.content = answer.next.content
    BY <1>1, <2>1 DEF Generations
  <2> HIDE DEF next
  <2>4. t \in Transactions /\ t.next = next
    BY <1>1, <1>2, <1>5, <2>3 DEF Transactions, Generations
  <2> HIDE DEF t
  <2>5. /\ service' \in Services /\ service'.stage = "commit" /\ service'.answer = t
        /\ service'.current = service.current
    BY <1>1, <2>2, <2>4 DEF Services, Stages
  <2>6. Types'
    BY <2>5, PartiesTypes DEF Place, Types, TypeOK
  <2> QED
    BY <2>3, <2>4, <2>5, <2>6
<1> QED
  BY <1>3, <1>4, <1>5 DEF Place

LEMMA CommitTypes ==
  ASSUME Types, Commit, service.answer \in Transactions
  PROVE  /\ Types'
         /\ \/ /\ service'.stage = "acknowledge" /\ service'.answer = service.answer
               /\ service'.current = service.current
               /\ ledger' = ledger \union {service.answer.next}
               /\ \A u \in Universe : head'[u] = head[u] \/ head'[u] = service.answer.next
            \/ /\ service'.stage = "failed" /\ service'.answer = None /\ service'.current = None
               /\ UNCHANGED <<head, ledger>>
<1>1. /\ service \in Services /\ service.answer.next \in Generations /\ Target \in Universe
  BY DEF Types, TypeOK, Transactions, Generations, Contents, Target
<1>2. CASE Admitted
  <2>1. /\ head' = [head EXCEPT ![Target] = service.answer.next]
        /\ ledger' = ledger \union {service.answer.next}
        /\ service' = [service EXCEPT !.stage = "acknowledge", !.wrote = TRUE]
        /\ UNCHANGED <<disk, native, published, seen, setting>>
    BY <1>2 DEF Commit
  <2>2. /\ service' \in Services /\ service'.stage = "acknowledge"
        /\ service'.answer = service.answer /\ service'.current = service.current
    BY <1>1, <2>1 DEF Services, Stages
  <2>3. head' \in [Universe -> Generations \union {None}] /\ ledger' \subseteq Generations
    BY <1>1, <2>1 DEF Types, TypeOK
  <2>4. \A u \in Universe : head'[u] = head[u] \/ head'[u] = service.answer.next
    BY <2>1 DEF Types, TypeOK
  <2>5. Types'
    BY <2>1, <2>2, <2>3 DEF Types, TypeOK
  <2> QED
    BY <2>1, <2>2, <2>4, <2>5
<1>3. CASE ~Admitted
  <2>1. Fail /\ UNCHANGED <<disk, head, native, published, seen, ledger, setting>>
    BY <1>3 DEF Commit
  <2> QED
    BY <2>1, FailureTypes
<1> QED
  BY <1>2, <1>3

LEMMA UnchangedTypes ==
  ASSUME Types, Unchanged
  PROVE  /\ Types'
         /\ service'.stage = "returned" /\ service'.answer = None /\ service'.current = None
         /\ published' = service.current
<1>1. service \in Services /\ service' = Forgotten("returned") /\ published' = service.current
  BY DEF Types, TypeOK, Unchanged, Return
<1>2. /\ service' \in Services /\ service'.stage = "returned" /\ service'.answer = None
      /\ service'.current = None
  BY <1>1, ForgottenType DEF Stages
<1>3. published' \in Generations \union {None}
  BY <1>1 DEF Services
<1>4. Types'
  BY <1>2, <1>3, PartiesTypes DEF Unchanged, Types, TypeOK
<1> QED
  BY <1>1, <1>2, <1>4

LEMMA AcknowledgeTypes ==
  ASSUME Types, Acknowledge, service.answer \in Transactions
  PROVE  /\ Types'
         /\ service'.answer = None /\ service'.current = None
         /\ \/ service'.stage = "returned" /\ published' = service.answer.next
            \/ service'.stage \in {"read", "failed"} /\ published' = published
         /\ native'.acknowledged = service.answer.next /\ native'.pending = None /\ ~native'.full
         /\ native'.alive /\ native'.program = native.program
<1> DEFINE next == service.answer.next  universe == next.content.universe
<1>1. /\ service \in Services /\ native \in Analyzers /\ next \in Generations
      /\ universe \in Universe /\ native.alive
  BY DEF Types, TypeOK, Transactions, Generations, Contents, Acknowledge
<1>2. /\ native' \in Analyzers /\ native'.acknowledged = next /\ native'.pending = None
      /\ ~native'.full /\ native'.alive /\ native'.program = native.program
  <2>1. native' = [native EXCEPT !.acknowledged = next, !.pending = None, !.full = FALSE]
    BY DEF Acknowledge
  <2> HIDE DEF next
  <2> QED
    BY <1>1, <2>1 DEF Analyzers
<1>3. ASSUME NEW stage \in Stages, NEW rounds \in 0 .. 3
      PROVE  LET s == [Forgotten(stage) EXCEPT !.universe = universe]
                 r == [Forgotten(stage) EXCEPT !.universe = universe, !.rounds = rounds]
             IN  /\ s \in Services /\ s.stage = stage /\ s.answer = None /\ s.current = None
                 /\ r \in Services /\ r.stage = stage /\ r.answer = None /\ r.current = None
  <2>1. /\ Forgotten(stage) \in Services
        /\ Forgotten(stage).stage = stage /\ Forgotten(stage).answer = None
        /\ Forgotten(stage).current = None
    BY <1>1, ForgottenType
  <2> HIDE DEF next, universe
  <2> QED
    BY <1>1, <2>1 DEF Services
<1>4. /\ service' \in Services /\ service'.answer = None /\ service'.current = None
      /\ \/ service'.stage = "returned" /\ published' = next
         \/ service'.stage \in {"read", "failed"} /\ published' = published
  <2>1. CASE ~service.wrote
    BY <1>3, <2>1, 0 \in 0 .. 3 DEF Acknowledge, Stages
  <2>2. CASE service.wrote /\ service.rounds = 3
    BY <1>3, <2>2, 0 \in 0 .. 3 DEF Acknowledge, Stages
  <2>3. CASE service.wrote /\ service.rounds # 3
    <3> DEFINE rounds == service.rounds + 1
    <3>1. rounds \in 0 .. 3
      BY <1>1, <2>3 DEF Services
    <3>2. service' = [Forgotten("read") EXCEPT !.universe = universe, !.rounds = rounds]
          /\ published' = published
      BY <2>3 DEF Acknowledge
    <3> HIDE DEF rounds
    <3> QED
      BY <1>3, <3>1, <3>2 DEF Stages
  <2> QED
    BY <1>1, <2>1, <2>2, <2>3 DEF Services
<1>5. published' \in Generations \union {None}
  BY <1>1, <1>4 DEF Types, TypeOK
<1>6. Types'
  BY <1>2, <1>4, <1>5, PartiesTypes DEF Acknowledge, Types, TypeOK
<1> QED
  BY <1>2, <1>4, <1>6

LEMMA EditTypes ==
  ASSUME Types, Edit
  PROVE  Types' /\ disk' \in Contents /\ seen' = seen \union {disk'}
         /\ setting'.restarting = setting.restarting
<1>1. disk' \in Contents
  BY DEF Edit, Types, TypeOK, Contents
<1>2. /\ setting' \in [restarting : Restarting, edits : Nat, upsets : Nat]
      /\ setting'.restarting = setting.restarting /\ setting'.upsets = setting.upsets
      /\ setting'.edits \in 0 .. MaxEdits[setting'.restarting]
  BY LineageAssumption DEF Edit, Types, TypeOK
<1> QED
  BY <1>1, <1>2 DEF Edit, Types, TypeOK

LEMMA ForeignTypes ==
  ASSUME Types, Foreign
  PROVE  /\ Types' /\ setting'.restarting = setting.restarting
         /\ ledger \subseteq ledger'
         /\ \A u \in Universe : head'[u] = head[u] \/ head'[u] \in ledger'
<1> DEFINE base == head[disk.universe]
           next == [content |-> disk, sequence |-> IF base = None THEN 1 ELSE base.sequence + 1]
<1>1. disk \in Contents /\ disk.universe \in Universe
      /\ head \in [Universe -> Generations \union {None}]
  BY DEF Types, TypeOK, Contents
<1>2. base \in Generations \union {None}
  BY <1>1
<1>3. next \in Generations
  <2> DEFINE sequence == IF base = None THEN 1 ELSE base.sequence + 1
  <2>1. sequence \in Nat \ {0}
    BY <1>2 DEF Generations
  <2> HIDE DEF sequence
  <2>2. next = [content |-> disk, sequence |-> sequence]
    BY DEF sequence
  <2> QED
    BY <1>1, <2>1, <2>2 DEF Generations
<1>4. head' = [head EXCEPT ![disk.universe] = next]
  BY DEF Foreign
<1>5. ledger' = ledger \union {head'[disk.universe]}
  BY DEF Foreign
<1> HIDE DEF next, base
<1>6. head' \in [Universe -> Generations \union {None}]
  BY <1>1, <1>3, <1>4
<1>7. head'[disk.universe] = next /\ \A u \in Universe : head'[u] = head[u] \/ head'[u] = next
  BY <1>1, <1>4
<1>8. ledger' \subseteq Generations
  BY <1>3, <1>5, <1>7 DEF Types, TypeOK
<1>9. /\ setting' \in [restarting : Restarting, edits : Nat, upsets : Nat]
      /\ setting'.restarting = setting.restarting /\ setting'.edits = setting.edits
      /\ setting'.upsets \in 0 .. MaxUpsets[setting'.restarting]
  BY FailsType DEF Foreign
<1>10. Types'
  BY <1>6, <1>8, <1>9 DEF Foreign, Types, TypeOK
<1> QED
  BY <1>5, <1>7, <1>9, <1>10

LEMMA CrashTypes ==
  ASSUME Types, Crash
  PROVE  Types' /\ setting'.restarting = setting.restarting
<1>1. native' \in Analyzers /\ service' = service
  BY DeadType DEF Crash, Types, TypeOK
<1>2. Fails("crash") /\ "crash" \in FaultKinds
  BY DEF Crash, FaultKinds
<1>3. setting'.restarting = setting.restarting
  BY <1>2, FailsType
<1> QED
  BY <1>1, <1>2, <1>3, PartiesTypes DEF Crash, Types, TypeOK

(* The steps in which a refresh only fails, and those of the environment.  *)
Failing == CommitPending \/ BaseStale \/ ShapeFails \/ Abort \/ Busy \/ Rejected

LEMMA FailingTypes ==
  ASSUME Types, Failing
  PROVE  /\ Types' /\ setting'.restarting = setting.restarting
         /\ service'.stage = "failed" /\ service'.answer = None /\ service'.current = None
         /\ native' \in {native, Dead}
         /\ UNCHANGED <<disk, head, published, seen, ledger>>
<1>1. CASE CommitPending \/ BaseStale \/ Rejected
  BY <1>1, FailureTypes DEF CommitPending, BaseStale, Rejected
<1>2. CASE ShapeFails
  BY <1>2, FailureTypes DEF ShapeFails, FaultKinds
<1>3. CASE Abort
  BY <1>3, FailureTypes DEF Abort, FaultKinds
<1>4. CASE Busy
  BY <1>4, FailureTypes DEF Busy, FaultKinds
<1> QED
  BY <1>1, <1>2, <1>3, <1>4 DEF Failing

(* The steps in which the analyzer answers without doing anything.         *)
Answering == Replay \/ NothingMoved \/ NothingApplied

LEMMA AnsweringTypes ==
  ASSUME Types, Answering
  PROVE  /\ Types'
         /\ service'.stage = "answered" /\ service'.current = service.current
         /\ UNCHANGED <<disk, head, native, published, seen, ledger, setting>>
         /\ \/ Replay /\ service'.answer = native.pending /\ native.pending \in Transactions
            \/ (NothingMoved \/ NothingApplied) /\ service'.answer = Base /\ Base \in Contents
<1>1. service \in Services /\ native \in Analyzers
  BY DEF Types, TypeOK
<1>2. CASE Replay
  <2>1. native.pending \in Transactions /\ Answer(native.pending)
        /\ UNCHANGED <<disk, head, native, published, seen, ledger, setting>>
    BY <1>1, <1>2 DEF Replay, Analyzers
  <2>2. /\ service' \in Services /\ service'.stage = "answered"
        /\ service'.answer = native.pending /\ service'.current = service.current
    BY <1>1, <2>1, AnswerType
  <2>3. Types'
    BY <2>1, <2>2, PartiesTypes DEF Types, TypeOK
  <2> QED
    BY <1>2, <2>1, <2>2, <2>3
<1>3. CASE NothingMoved \/ NothingApplied
  <2>1. Base \in Contents /\ Answer(Base)
        /\ UNCHANGED <<disk, head, native, published, seen, ledger, setting>>
    BY <1>3, IdTypes DEF NothingMoved, NothingApplied, Types
  <2>2. /\ service' \in Services /\ service'.stage = "answered"
        /\ service'.answer = Base /\ service'.current = service.current
    BY <1>1, <2>1, AnswerType
  <2>3. Types'
    BY <2>1, <2>2, PartiesTypes DEF Types, TypeOK
  <2> QED
    BY <1>3, <2>1, <2>2, <2>3
<1> QED
  BY <1>2, <1>3 DEF Answering

LEMMA OpenedTypes ==
  ASSUME Types, Opened
  PROVE  /\ Types'
         /\ service'.stage = "read" /\ service'.answer = service.answer
         /\ service'.current = service.current
         /\ UNCHANGED <<disk, head, native, published, seen, ledger, setting>>
<1>1. service \in Services /\ To("read") /\ "read" \in Stages
      /\ UNCHANGED <<disk, head, native, published, seen, ledger, setting>>
  BY DEF Types, TypeOK, Opened, Stages
<1>2. /\ service' \in Services /\ service'.stage = "read" /\ service'.answer = service.answer
      /\ service'.current = service.current
  BY <1>1, ToType
<1>3. Types'
  BY <1>1, <1>2, PartiesTypes DEF Types, TypeOK
<1> QED
  BY <1>1, <1>2, <1>3

(* Next, with the steps that have the same effect taken together.          *)
LEMMA Steps ==
  ASSUME Next
  PROVE  \/ \E hinted \in BOOLEAN : Begin(hinted)
         \/ \E s \in Source : ReadSource(s)
         \/ Opened \/ ReadCurrent \/ Answering \/ BeginUpdate
         \/ \E selected \in SUBSET Source : Project(selected)
         \/ InputChanged \/ ProjectionFails \/ Unchanged \/ Place \/ Commit \/ Acknowledge
         \/ Failing \/ Edit \/ Foreign \/ Crash
  BY DEF Next, Refresh, Environment, Answering, Failing

-----------------------------------------------------------------------------
(* One invariant after the other. *)

LEMMA InitParts == Init => Dialogue /\ Committed /\ Faithful /\ Recent
<1> SUFFICES ASSUME Init PROVE Dialogue /\ Committed /\ Faithful /\ Recent
  OBVIOUS
<1>1. /\ ~native.alive /\ native.acknowledged = None /\ native.pending = None
      /\ service.stage = "idle" /\ service.answer = None /\ service.current = None
  BY DEF Init, Dead
<1>2. None \notin Contents /\ None \notin Transactions
  BY NoneAssumption
<1>3. Dialogue
  BY <1>1, <1>2 DEF Dialogue
<1>4. Committed
  BY <1>1 DEF Init, Committed, CommitLate
<1>5. Faithful
  BY <1>1 DEF Faithful
<1>6. Recent
  BY <1>1, <1>2 DEF Recent, Refreshing
<1> QED
  BY <1>3, <1>4, <1>5, <1>6

LEMMA DialogueStep ==
  ASSUME Types, Dialogue, Next
  PROVE  Dialogue'
<1> USE DEF Dialogue, Base, Held, Adopting, IdOf
<1>1. None \notin Contents /\ None \notin Transactions /\ Transactions \intersect Contents = {}
  BY NoneAssumption, Disjoint
<1>2. ~Dead.alive
  BY DEF Dead
<1>3. CASE \E hinted \in BOOLEAN : Begin(hinted)
  BY <1>1, <1>3, BeginTypes DEF Spawned, Dead, Loading
<1>4. CASE \E s \in Source : ReadSource(s)
  <2>1. service' = service /\ service.stage \in {"opening", "native"}
    BY <1>4 DEF ReadSource
  <2>2. /\ native'.rebuilt = native.rebuilt /\ native'.full = native.full
        /\ native'.acknowledged = native.acknowledged /\ native'.pending = native.pending
        /\ native.alive
    BY <1>4, ReadSourceTypes DEF ReadSource
  <2> QED
    BY <2>1, <2>2
<1>5. CASE Opened
  BY <1>5, OpenedTypes DEF Opened
<1>6. CASE ReadCurrent
  BY <1>1, <1>6, ReadCurrentTypes DEF ReadCurrent
<1>7. CASE Answering
  <2>1. /\ service'.stage = "answered" /\ service'.current = service.current /\ native' = native
        /\ \/ service'.answer \in Transactions
           \/ service'.answer = Base /\ Base \in Contents
    BY <1>7, AnsweringTypes
  <2> QED
    BY <1>1, <2>1
<1>8. CASE BeginUpdate
  <2>1. /\ service'.stage = "native" /\ service'.answer = service.answer
        /\ service'.current = service.current /\ native'.full = native.full
        /\ native'.acknowledged = native.acknowledged /\ native'.pending = native.pending
        /\ native.full => native'.rebuilt
    BY <1>8, BeginUpdateTypes
  <2>2. service.stage = "request" /\ native.pending = None /\ (Base = Held \/ Adopting)
    BY <1>8 DEF BeginUpdate, Asked
  <2> QED
    BY <1>1, <2>1, <2>2
<1>9. CASE \E selected \in SUBSET Source : Project(selected)
  <2>1. PICK selected \in SUBSET Source : Project(selected)
    BY <1>9
  <2>2. /\ service'.stage = "answered" /\ service'.current = service.current
        /\ \/ service'.answer = Base /\ Base \in Contents
           \/ service'.answer \in Transactions
    BY <2>1, ProjectTypes, CandidateType DEF Types
  <2> QED
    BY <1>1, <2>2
<1>10. CASE InputChanged
  <2>1. /\ native'.acknowledged = native.acknowledged /\ native'.pending = native.pending
        /\ native'.alive = native.alive
        /\ \/ service' = service /\ native'.rebuilt
           \/ service'.stage = "failed" /\ service'.answer = None
    BY <1>10, InputChangedTypes
  <2>2. service.stage = "native" /\ native.alive
    BY <1>10 DEF InputChanged, Working
  <2> QED
    BY <1>1, <2>1, <2>2
<1>11. CASE ProjectionFails
  BY <1>1, <1>11, ProjectionFailsTypes
<1>12. CASE Unchanged
  BY <1>1, <1>12, UnchangedTypes
<1>13. CASE Place
  BY <1>1, <1>13, PlaceTypes
<1>14. CASE Commit
  BY <1>1, <1>14, CommitTypes DEF Commit
<1>15. CASE Acknowledge
  BY <1>1, <1>15, AcknowledgeTypes DEF Acknowledge
<1>16. CASE Failing
  BY <1>1, <1>16, FailingTypes
<1>17. CASE Edit
  BY <1>17 DEF Edit
<1>18. CASE Foreign
  BY <1>18 DEF Foreign
<1>19. CASE Crash
  BY <1>2, <1>19 DEF Crash
<1> QED
  BY <1>3, <1>4, <1>5, <1>6, <1>7, <1>8, <1>9, <1>10, <1>11, <1>12, <1>13, <1>14, <1>15, <1>16,
     <1>17, <1>18, <1>19, Steps

LEMMA CommittedStep ==
  ASSUME Types, Dialogue, Committed, Next
  PROVE  Committed'
<1> USE DEF Committed, CommitLate
<1>1. None \notin Transactions
  BY NoneAssumption
<1>2. Dead.acknowledged = None /\ Spawned.acknowledged = None
  BY DEF Dead, Spawned, Loading
<1>3. CASE \E hinted \in BOOLEAN : Begin(hinted)
  <2>1. /\ native'.acknowledged \in {native.acknowledged, None} /\ service'.current = None
        /\ service'.stage # "acknowledge" /\ UNCHANGED <<head, ledger>>
    BY <1>2, <1>3, BeginTypes DEF Begin
  <2> QED
    BY <2>1
<1>4. CASE \E s \in Source : ReadSource(s)
  <2>1. native'.acknowledged = native.acknowledged /\ UNCHANGED <<head, ledger, service>>
    BY <1>4, ReadSourceTypes DEF ReadSource
  <2> QED
    BY <2>1
<1>5. CASE Opened
  BY <1>5, OpenedTypes
<1>6. CASE ReadCurrent
  <2>1. service'.current # None => \E u \in Universe : service'.current = head[u]
    BY <1>6, ReadCurrentTypes
  <2>2. service'.stage = "request" /\ UNCHANGED <<head, ledger, native>>
    BY <1>6, ReadCurrentTypes DEF ReadCurrent
  <2> QED
    BY <2>1, <2>2
<1>7. CASE Answering
  BY <1>7, AnsweringTypes
<1>8. CASE BeginUpdate
  BY <1>8, BeginUpdateTypes DEF BeginUpdate
<1>9. CASE \E selected \in SUBSET Source : Project(selected)
  <2>1. /\ service'.stage = "answered" /\ service'.current = service.current
        /\ native'.acknowledged \in {native.acknowledged, service.current}
        /\ UNCHANGED <<head, ledger>>
    BY <1>9, ProjectTypes DEF Project
  <2> QED
    BY <2>1
<1>10. CASE InputChanged
  <2>1. /\ native'.acknowledged = native.acknowledged /\ UNCHANGED <<head, ledger>>
        /\ \/ service' = service
           \/ service'.stage = "failed" /\ service'.current = None
    BY <1>10, InputChangedTypes DEF InputChanged
  <2> QED
    BY <2>1
<1>11. CASE ProjectionFails
  BY <1>11, ProjectionFailsTypes DEF ProjectionFails
<1>12. CASE Unchanged
  BY <1>12, UnchangedTypes DEF Unchanged
<1>13. CASE Place
  BY <1>13, PlaceTypes DEF Place
<1>14. CASE Commit
  <2>1. service.answer \in Transactions /\ native' = native
    BY <1>14 DEF Dialogue, Commit
  <2>2. CASE service'.stage = "acknowledge"
    <3>1. /\ service'.answer = service.answer /\ service'.current = service.current
          /\ ledger' = ledger \union {service.answer.next}
          /\ \A u \in Universe : head'[u] = head[u] \/ head'[u] = service.answer.next
      BY <1>14, <2>1, <2>2, CommitTypes
    <3> QED
      BY <2>1, <3>1
  <2>3. CASE service'.stage # "acknowledge"
    <3>1. service'.current = None /\ UNCHANGED <<head, ledger>>
      BY <1>14, <2>1, <2>3, CommitTypes
    <3> QED
      BY <2>1, <2>3, <3>1
  <2> QED
    BY <2>2, <2>3
<1>15. CASE Acknowledge
  <2>1. service.answer \in Transactions /\ service.stage = "acknowledge"
        /\ UNCHANGED <<head, ledger>>
    BY <1>15 DEF Dialogue, Acknowledge
  <2>2. /\ service'.stage # "acknowledge" /\ service'.current = None
        /\ native'.acknowledged = service.answer.next
    BY <1>15, <2>1, AcknowledgeTypes
  <2> QED
    BY <2>1, <2>2
<1>16. CASE Failing
  <2>1. /\ service'.stage = "failed" /\ service'.current = None
        /\ native'.acknowledged \in {native.acknowledged, None} /\ UNCHANGED <<head, ledger>>
    BY <1>2, <1>16, FailingTypes
  <2> QED
    BY <2>1
<1>17. CASE Edit
  BY <1>17 DEF Edit
<1>18. CASE Foreign
  BY <1>18, ForeignTypes DEF Foreign
<1>19. CASE Crash
  <2>1. native'.acknowledged = None /\ UNCHANGED <<head, ledger, service>>
    BY <1>2, <1>19 DEF Crash
  <2> QED
    BY <2>1
<1> QED
  BY <1>3, <1>4, <1>5, <1>6, <1>7, <1>8, <1>9, <1>10, <1>11, <1>12, <1>13, <1>14, <1>15, <1>16,
     <1>17, <1>18, <1>19, Steps

LEMMA SameContents ==
  ASSUME NEW c \in Contents, NEW d \in Contents, c.universe = d.universe,
         \A s \in Source : c.files[s] = d.files[s]
  PROVE  c = d
<1>1. c.files = d.files
  BY DEF Contents
<1> QED
  BY <1>1 DEF Contents

(* The candidate is the program, whichever part of it comes from the base. *)
LEMMA CandidateIsProgram ==
  ASSUME Types, Dialogue, Faithful, Sound, NEW selected \in SUBSET Source, Project(selected)
  PROVE  Candidate(selected) = native.program
<1>1. native.alive /\ service.stage = "native" /\ native.applied \subseteq selected
  BY DEF Project, Working
<1>2. native.program \in Contents /\ Candidate(selected) \in Contents
  BY CandidateType DEF Types, TypeOK, Analyzers
<1>3. CASE Whole
  BY <1>2, <1>3, CandidateType, SameContents DEF Types
<1>4. CASE ~Whole
  <2>1. ~native.rebuilt /\ native.acknowledged # None
    BY <1>4, CandidateType, NoneAssumption DEF Whole, Types
  <2>2. \A s \in Source \ native.applied :
          native.program.files[s] = native.acknowledged.content.files[s]
    BY <1>1, <2>1 DEF Faithful
  <2>3. \A s \in Source : Candidate(selected).files[s] = native.program.files[s]
    BY <1>1, <1>4, <2>2, CandidateType DEF Types
  <2> QED
    BY <1>2, <2>3, CandidateType, SameContents DEF Types
<1> QED
  BY <1>3, <1>4

(* A program that has not moved since the base is the base.                *)
LEMMA StillBase ==
  ASSUME Types, Dialogue, Faithful, Sound, Working, ~Advanced, native.acknowledged # None
  PROVE  native.program = native.acknowledged.content
<1>1. native.alive /\ service.stage = "native" /\ ~native.rebuilt /\ native.applied = {}
  BY DEF Working, Advanced
<1>2. native.program \in Contents /\ native.acknowledged.content \in Contents
  BY DEF Types, TypeOK, Analyzers, Generations
<1> QED
  BY <1>1, <1>2, SameContents DEF Faithful

LEMMA FaithfulStep ==
  ASSUME Types, Dialogue, Faithful, Next
  PROVE  Faithful'
<1> SUFFICES ASSUME Sound', native'.alive
             PROVE  Faithful'
  BY DEF Faithful
<1>1. Transactions \intersect Contents = {} /\ None \notin Contents /\ None \notin Transactions
  BY Disjoint, NoneAssumption
<1>2. ~Dead.alive
  BY DEF Dead
<1>3. CASE \E hinted \in BOOLEAN : Begin(hinted)
  <2>1. PICK hinted \in BOOLEAN : Begin(hinted)
    BY <1>3
  <2>2. service'.answer = None /\ Sound /\ UNCHANGED setting
        /\ service.stage \in {"idle", "returned", "failed"}
    BY <2>1, BeginTypes DEF Begin, Sound
  <2>3. CASE native' = native /\ service'.stage = "read"
             /\ (service.stage # "failed" \/ ~setting.restarting)
    BY <2>2, <2>3 DEF Faithful
  <2>4. CASE native' = Spawned /\ service'.stage = "opening"
    BY <2>4 DEF Faithful
  <2> QED
    BY <2>1, <2>3, <2>4, BeginTypes
<1>4. CASE \E s \in Source : ReadSource(s)
  <2>1. PICK o \in Source : ReadSource(o)
    BY <1>4
  <2>2. service' = service /\ service.stage \in {"opening", "native"} /\ Sound /\ native.alive
    BY <2>1 DEF ReadSource, Sound
  <2>3. /\ native'.rebuilt = native.rebuilt /\ native'.acknowledged = native.acknowledged
        /\ native'.program.universe = native.program.universe
        /\ \A s \in Source : native'.program.files[s]
              = IF s = o THEN disk.files[o] ELSE native.program.files[s]
        /\ native'.applied = IF native.rebuilt \/ disk.files[o] = native.program.files[o]
                             THEN native.applied ELSE native.applied \union {o}
    BY <2>1, ReadSourceTypes
  <2>4. ASSUME service.stage = "native", ~native.rebuilt, native.acknowledged # None
        PROVE  /\ native'.program.universe = native'.acknowledged.content.universe
               /\ \A s \in Source \ native'.applied :
                    native'.program.files[s] = native'.acknowledged.content.files[s]
    BY <2>2, <2>3, <2>4 DEF Faithful
  <2> QED
    BY <2>2, <2>3, <2>4 DEF Faithful
<1>5. CASE Opened
  <2>1. service'.stage = "read" /\ UNCHANGED <<native, setting>> /\ service.stage = "opening"
    BY <1>5, OpenedTypes DEF Opened
  <2>2. native.acknowledged = None /\ native.pending = None
    BY <2>1 DEF Dialogue
  <2> QED
    BY <2>1, <2>2 DEF Faithful
<1>6. CASE ReadCurrent
  <2>1. service'.stage = "request" /\ UNCHANGED <<native, setting>> /\ service.stage = "read"
    BY <1>6, ReadCurrentTypes DEF ReadCurrent
  <2> QED
    BY <2>1 DEF Faithful, Sound
<1>7. CASE Answering
  <2>1. service'.stage = "answered" /\ UNCHANGED <<native, setting>> /\ Sound
    BY <1>7, AnsweringTypes DEF Sound
  <2>2. CASE Replay
    <3>1. service.stage = "request" /\ native.pending # None /\ native.pending \in Transactions
          /\ service'.answer = native.pending
      BY <1>7, <2>2, AnsweringTypes, <1>1 DEF Replay, Asked, NothingMoved, NothingApplied, Working
    <3>2. native.program = native.pending.next.content
      BY <2>1, <3>1 DEF Faithful
    <3> QED
      BY <1>1, <2>1, <3>1, <3>2 DEF Faithful, Answered
  <2>3. CASE NothingMoved
    <3>1. /\ service.stage = "request" /\ native.pending = None /\ ~native.full
          /\ native.acknowledged # None /\ Base = native.acknowledged.content
      BY <2>3, IdTypes DEF NothingMoved, Asked, Types
    <3>2. service'.answer = Base /\ Base \in Contents
      BY <1>7, <2>3, <3>1, AnsweringTypes DEF Replay, NothingApplied, Working
    <3>3. native.program = Base
      BY <2>1, <3>1 DEF Faithful
    <3> QED
      BY <1>1, <2>1, <3>1, <3>2, <3>3 DEF Faithful, Answered
  <2>4. CASE NothingApplied
    <3>1. /\ service.stage = "native" /\ Working /\ ~Advanced /\ Base # None /\ ~Adopting
          /\ native.alive
      BY <2>4 DEF NothingApplied, Working
    <3>2. service'.answer = Base /\ Base \in Contents
      BY <1>7, <2>4, <3>1, AnsweringTypes DEF Replay, NothingMoved, Asked
    <3>3. /\ native.pending = None /\ native.acknowledged # None
          /\ Base = native.acknowledged.content
      BY <3>1, IdTypes DEF Dialogue, Types
    <3>4. native.program = Base
      BY <2>1, <3>1, <3>3, StillBase
    <3> QED
      BY <1>1, <2>1, <3>2, <3>3, <3>4 DEF Faithful, Answered
  <2> QED
    BY <1>7, <2>2, <2>3, <2>4 DEF Answering
<1>8. CASE BeginUpdate
  <2>1. /\ service'.stage = "native" /\ native.alive
        /\ native'.acknowledged = native.acknowledged /\ native'.pending = native.pending
        /\ \/ native'.rebuilt
           \/ ~native.full /\ native'.program = native.program /\ native'.applied = {}
    BY <1>8, BeginUpdateTypes DEF BeginUpdate, Asked
  <2>2. service.stage = "request" /\ native.pending = None /\ Sound
    BY <1>8 DEF BeginUpdate, Asked, Sound
  <2>3. ~native.full /\ native.acknowledged # None => native.program = native.acknowledged.content
    BY <2>1, <2>2 DEF Faithful
  <2> QED
    BY <2>1, <2>2, <2>3 DEF Faithful
<1>9. CASE \E selected \in SUBSET Source : Project(selected)
  <2>1. PICK selected \in SUBSET Source : Project(selected)
    BY <1>9
  <2>2. /\ service.stage = "native" /\ native.alive /\ Working /\ Sound
        /\ Advanced \/ Base = None \/ Adopting
    BY <2>1 DEF Project, Working, Sound
  <2>3. native.program = Candidate(selected) /\ native.program \in Contents
        /\ service'.stage = "answered" /\ native'.program = native.program
    BY <2>1, <2>2, CandidateIsProgram, ProjectTypes DEF Types, TypeOK, Analyzers
  <2>4. native.pending = None /\ (Base = Held \/ Adopting)
    BY <2>2 DEF Dialogue
  <2>5. CASE service'.answer = Candidate(selected) /\ Candidate(selected) = Base
             /\ native'.pending = native.pending
             /\ \/ Adopting /\ native'.acknowledged = service.current
                \/ ~Adopting /\ native'.acknowledged = native.acknowledged
                   /\ native'.full = native.full
    <3>1. native'.acknowledged # None => native'.acknowledged.content = Base
      BY <1>1, <2>3, <2>4, <2>5, IdTypes DEF Types
    <3> QED
      BY <2>3, <2>4, <2>5, <3>1 DEF Faithful, Answered
  <2>6. CASE service'.answer \in Transactions
             /\ service'.answer.next.content = Candidate(selected)
             /\ native'.pending = service'.answer
    BY <1>1, <2>3, <2>6 DEF Faithful, Answered
  <2> QED
    BY <2>1, <2>5, <2>6, ProjectTypes
<1>10. CASE InputChanged
  <2>1. service.stage = "native" /\ native.alive /\ native.pending = None
    BY <1>10 DEF InputChanged, Working, Dialogue
  <2>2. /\ native'.acknowledged = native.acknowledged /\ native'.pending = native.pending
        /\ native'.full
        /\ \/ service' = service /\ native'.rebuilt
           \/ service'.stage = "failed"
    BY <1>10, InputChangedTypes
  <2> QED
    BY <2>1, <2>2 DEF Faithful
<1>11. CASE ProjectionFails
  <2>1. service.stage = "native" /\ native.alive /\ native.pending = None /\ Working
    BY <1>11 DEF ProjectionFails, Working, Dialogue
  <2>2. /\ service'.stage = "failed"
        /\ native'.acknowledged = native.acknowledged /\ native'.pending = native.pending
        /\ native'.program = native.program /\ native'.full = (native.full \/ Advanced)
        /\ setting'.restarting = setting.restarting
    BY <1>11, ProjectionFailsTypes
  <2>3. Sound
    BY <2>2 DEF Sound
  <2>4. ~Advanced /\ native.acknowledged # None => native.program = native.acknowledged.content
    BY <2>1, <2>3, StillBase
  <2> QED
    BY <2>1, <2>2, <2>4 DEF Faithful
<1>12. CASE Unchanged
  <2>1. service'.stage = "returned" /\ UNCHANGED <<native, setting>> /\ service.stage = "answered"
    BY <1>12, UnchangedTypes DEF Unchanged
  <2> QED
    BY <2>1 DEF Faithful, Sound
<1>13. CASE Place
  <2>1. /\ service'.stage \in {"commit", "acknowledge"} /\ service'.answer \in Transactions
        /\ service'.answer.next.content = service.answer.next.content
        /\ service.answer \in Transactions
        /\ UNCHANGED <<native, setting>> /\ service.stage = "answered"
    BY <1>13, PlaceTypes DEF Place
  <2> QED
    BY <1>1, <2>1 DEF Faithful, Sound, Answered
<1>14. CASE Commit
  <2>1. service.answer \in Transactions /\ UNCHANGED <<native, setting>> /\ service.stage = "commit"
    BY <1>14 DEF Dialogue, Commit
  <2>2. \/ service'.stage = "acknowledge" /\ service'.answer = service.answer
        \/ service'.stage = "failed"
    BY <1>14, <2>1, CommitTypes
  <2> QED
    BY <1>1, <2>1, <2>2 DEF Faithful, Sound, Answered
<1>15. CASE Acknowledge
  <2>1. /\ service.answer \in Transactions /\ service.stage = "acknowledge" /\ native.alive
        /\ UNCHANGED setting
    BY <1>15 DEF Dialogue, Acknowledge
  <2>2. /\ service'.stage \in {"returned", "read", "failed"}
        /\ native'.acknowledged = service.answer.next /\ native'.pending = None
        /\ native'.program = native.program
    BY <1>15, <2>1, AcknowledgeTypes
  <2> QED
    BY <1>1, <2>1, <2>2 DEF Faithful, Sound, Answered
<1>16. CASE Failing
  <2>1. service'.stage = "failed" /\ setting'.restarting = setting.restarting /\ native' = native
    BY <1>2, <1>16, FailingTypes
  <2>2. Sound
    BY <2>1 DEF Sound
  <2>3. CASE service.stage \notin {"opening", "native", "failed"}
    BY <2>1, <2>2, <2>3 DEF Faithful
  <2>4. CASE service.stage \in {"opening", "native", "failed"}
    <3>1. ShapeFails
      BY <1>2, <1>16, <2>1, <2>4
      DEF Failing, CommitPending, BaseStale, Abort, Busy, Rejected, Asked, Refreshing
    <3>2. "shape" \in Fault[setting.restarting]
      BY <3>1 DEF ShapeFails, Fails
    <3>3. setting.restarting
      BY <2>2, <3>2 DEF Sound
    <3> QED
      BY <2>1, <3>3 DEF Faithful
  <2> QED
    BY <2>3, <2>4
<1>17. CASE Edit
  <2>1. UNCHANGED <<native, service>> /\ setting'.restarting = setting.restarting
    BY <1>17, EditTypes DEF Edit
  <2> QED
    BY <2>1 DEF Faithful, Sound, Answered
<1>18. CASE Foreign
  <2>1. UNCHANGED <<native, service>> /\ setting'.restarting = setting.restarting
    BY <1>18, ForeignTypes DEF Foreign
  <2> QED
    BY <2>1 DEF Faithful, Sound, Answered
<1>19. CASE Crash
  BY <1>2, <1>19 DEF Crash
<1> QED
  BY <1>3, <1>4, <1>5, <1>6, <1>7, <1>8, <1>9, <1>10, <1>11, <1>12, <1>13, <1>14, <1>15, <1>16,
     <1>17, <1>18, <1>19, Steps

(* What the project holds was so at some time since the refresh began.     *)
LEMMA FreshDisk ==
  ASSUME disk \in seen
  PROVE  Fresh(disk)
  BY DEF Fresh

LEMMA RecentStep ==
  ASSUME Types, Dialogue, Faithful, Recent, Next
  PROVE  Recent'
<1> USE DEF Refreshing
<1>1. Transactions \intersect Contents = {} /\ None \notin Contents /\ None \notin Transactions
  BY Disjoint, NoneAssumption
<1>2. ~Dead.alive /\ Dead.pending = None /\ Spawned.pending = None
  BY DEF Dead, Spawned, Loading
<1>3. CASE \E hinted \in BOOLEAN : Begin(hinted)
  <2>1. PICK hinted \in BOOLEAN : Begin(hinted)
    BY <1>3
  <2>2. /\ service'.answer = None /\ service'.stage \in {"read", "opening"} /\ seen' = {disk'}
        /\ UNCHANGED setting /\ service.stage \in {"idle", "returned", "failed"}
    BY <2>1, BeginTypes DEF Begin
  <2>3. setting.restarting => native'.pending = None
    <3>1. CASE native' = native /\ (service.stage # "failed" \/ ~setting.restarting)
      BY <1>1, <2>2, <3>1 DEF Recent, Dialogue
    <3>2. CASE native' = Spawned
      BY <1>2, <3>2
    <3> QED
      BY <2>1, <3>1, <3>2, BeginTypes
  <2> QED
    BY <1>1, <2>2, <2>3 DEF Recent
<1>4. CASE \E s \in Source : ReadSource(s)
  <2>1. PICK o \in Source : ReadSource(o)
    BY <1>4
  <2>2. service' = service /\ service.stage \in {"opening", "native"} /\ native.alive
        /\ UNCHANGED <<disk, seen, setting, published>>
    BY <2>1 DEF ReadSource
  <2>3. /\ native'.pending = native.pending /\ native'.reading = native.reading \ {o}
        /\ native'.program.universe = native.program.universe
        /\ \A s \in Source : native'.program.files[s]
              = IF s = o THEN disk.files[o] ELSE native.program.files[s]
    BY <2>1, ReadSourceTypes
  <2>4. disk \in seen
    BY <2>2 DEF Recent
  <2>5. service.stage = "native" =>
          /\ \E d \in seen : d.universe = native'.program.universe
          /\ \A s \in Source \ native'.reading :
               \E d \in seen : d.files[s] = native'.program.files[s]
    BY <2>2, <2>3, <2>4 DEF Recent
  <2> QED
    BY <2>2, <2>3, <2>4, <2>5 DEF Recent, Fresh
<1>5. CASE Opened
  BY <1>5, OpenedTypes DEF Recent, Fresh, Opened
<1>6. CASE ReadCurrent
  BY <1>6, ReadCurrentTypes DEF Recent, Fresh, ReadCurrent
<1>7. CASE Answering
  <2>1. /\ service'.stage = "answered" /\ service.stage \in {"request", "native"} /\ native.alive
        /\ UNCHANGED <<disk, native, published, seen, setting>>
    BY <1>7, AnsweringTypes
    DEF Answering, Replay, NothingMoved, NothingApplied, Asked, Working
  <2>2. disk \in seen
    BY <2>1 DEF Recent
  <2>3. setting.restarting => native.pending = None /\ ~Replay
    BY <1>1, <2>1 DEF Recent, Dialogue, Replay
  <2>4. ASSUME setting.restarting
        PROVE  service'.answer \in Contents /\ Fresh(service'.answer)
    <3>1. service'.answer = Base /\ Base \in Contents /\ (NothingMoved \/ NothingApplied)
      BY <1>7, <2>3, <2>4, AnsweringTypes
    <3>2. Sound
      BY <2>4 DEF Sound
    <3>3. CASE NothingMoved
      <4>1. /\ service.stage = "request" /\ native.pending = None /\ ~native.full
            /\ native.acknowledged # None /\ Base = native.acknowledged.content
            /\ native.program = disk
        BY <3>3, IdTypes DEF NothingMoved, Asked, Types
      <4>2. native.program = Base
        BY <2>1, <3>2, <4>1 DEF Faithful
      <4> QED
        BY <2>2, <3>1, <4>1, <4>2, FreshDisk
    <3>4. CASE NothingApplied
      <4>1. /\ service.stage = "native" /\ Working /\ ~Advanced /\ Base # None /\ ~Adopting
            /\ native.alive /\ native.reading = {}
        BY <3>4 DEF NothingApplied, Working
      <4>2. native.acknowledged # None /\ Base = native.acknowledged.content
        BY <4>1, IdTypes DEF Dialogue, Types
      <4>3. native.program = Base
        BY <3>2, <4>1, <4>2, StillBase
      <4>4. Fresh(native.program)
        BY <4>1 DEF Recent, Fresh
      <4> QED
        BY <3>1, <4>3, <4>4
    <3> QED
      BY <3>1, <3>3, <3>4
  <2> QED
    BY <1>1, <2>1, <2>2, <2>3, <2>4 DEF Recent, Fresh
<1>8. CASE BeginUpdate
  <2>1. /\ service'.stage = "native" /\ service'.answer = service.answer /\ native.alive
        /\ native'.pending = native.pending /\ service.stage = "request"
        /\ UNCHANGED <<disk, published, seen, setting>>
        /\ native'.program \in Contents
    BY <1>8, BeginUpdateTypes DEF BeginUpdate, Asked, Types, TypeOK, Analyzers
  <2>2. disk \in seen
    BY <2>1 DEF Recent
  <2>3. \/ native'.program = disk
        \/ /\ native.program.universe = disk.universe /\ native'.program = native.program
           /\ native'.reading = Moved
    BY <1>8, BeginUpdateTypes
  <2>4. /\ \E d \in seen : d.universe = native'.program.universe
        /\ \A s \in Source \ native'.reading :
             \E d \in seen : d.files[s] = native'.program.files[s]
    BY <2>2, <2>3 DEF Moved
  <2> QED
    BY <2>1, <2>2, <2>4 DEF Recent, Fresh
<1>9. CASE \E selected \in SUBSET Source : Project(selected)
  <2>1. PICK selected \in SUBSET Source : Project(selected)
    BY <1>9
  <2>2. /\ service.stage = "native" /\ native.alive /\ native.program = disk
        /\ service'.stage = "answered"
        /\ UNCHANGED <<disk, published, seen, setting>>
    BY <2>1, ProjectTypes DEF Project, Working, Settled
  <2>3. disk \in seen /\ native.pending = None
    BY <2>2 DEF Recent, Dialogue
  <2>4. setting.restarting => Candidate(selected) = disk
    BY <2>1, <2>2, CandidateIsProgram DEF Sound
  <2>5. CASE service'.answer = Candidate(selected) /\ native'.pending = native.pending
    <3>1. service'.answer \in Contents
      BY <2>5, CandidateType DEF Types
    <3>2. setting.restarting => Fresh(service.answer)'
      BY <2>2, <2>3, <2>4, <2>5 DEF Fresh
    <3>3. native'.pending = None /\ service'.answer \notin Transactions'
      BY <1>1, <2>3, <2>5, <3>1 DEF Transactions, Contents, Generations
    <3> QED
      BY <2>2, <2>3, <3>2, <3>3 DEF Recent
  <2>6. CASE service'.answer \in Transactions
             /\ service'.answer.next.content = Candidate(selected)
    BY <1>1, <2>2, <2>3, <2>4, <2>6 DEF Recent
  <2> QED
    BY <2>1, <2>5, <2>6, ProjectTypes
<1>10. CASE InputChanged
  <2>1. /\ service.stage = "native" /\ native'.pending = native.pending
        /\ UNCHANGED <<disk, published, seen, setting>>
        /\ \/ service' = service /\ native'.program = disk
           \/ service'.stage = "failed" /\ service'.answer = None
    BY <1>10, InputChangedTypes DEF InputChanged, Working
  <2>2. disk \in seen
    BY <2>1 DEF Recent
  <2> QED
    BY <1>1, <2>1, <2>2 DEF Recent, Fresh
<1>11. CASE ProjectionFails
  <2>1. /\ service'.stage = "failed" /\ service'.answer = None
        /\ setting'.restarting = setting.restarting
    BY <1>11, ProjectionFailsTypes
  <2> QED
    BY <1>1, <2>1 DEF Recent
<1>12. CASE Unchanged
  <2>1. /\ service'.stage = "returned" /\ service'.answer = None /\ published' = service.current
        /\ UNCHANGED <<disk, native, seen, setting>>
        /\ service.stage = "answered" /\ service.answer \in Contents
    BY <1>12, UnchangedTypes DEF Unchanged
  <2>2. published'.content = service.answer
    BY <1>1, <2>1, IdTypes DEF Dialogue, Types
  <2>3. setting.restarting => native.pending = None /\ Fresh(service.answer)
    BY <1>1, <2>1 DEF Recent
  <2> QED
    BY <1>1, <2>1, <2>2, <2>3 DEF Recent, Fresh
<1>13. CASE Place
  <2>1. /\ service'.stage \in {"commit", "acknowledge"} /\ service'.answer \in Transactions
        /\ service'.answer.next.content = service.answer.next.content
        /\ service.answer \in Transactions /\ service.stage = "answered"
        /\ UNCHANGED <<disk, native, published, seen, setting>>
    BY <1>13, PlaceTypes DEF Place
  <2> QED
    BY <1>1, <2>1 DEF Recent
<1>14. CASE Commit
  <2>1. service.answer \in Transactions /\ service.stage = "commit"
        /\ UNCHANGED <<disk, native, published, seen, setting>>
    BY <1>14 DEF Dialogue, Commit
  <2>2. \/ service'.stage = "acknowledge" /\ service'.answer = service.answer
        \/ service'.stage = "failed" /\ service'.answer = None
    BY <1>14, <2>1, CommitTypes
  <2> QED
    BY <1>1, <2>1, <2>2 DEF Recent
<1>15. CASE Acknowledge
  <2>1. /\ service.answer \in Transactions /\ service.stage = "acknowledge"
        /\ UNCHANGED <<disk, seen, setting>>
    BY <1>15 DEF Dialogue, Acknowledge
  <2>2. /\ service'.answer = None /\ native'.pending = None
        /\ \/ service'.stage = "returned" /\ published' = service.answer.next
           \/ service'.stage \in {"read", "failed"}
    BY <1>15, <2>1, AcknowledgeTypes
  <2>3. setting.restarting => service.answer.next.content \in seen
    BY <2>1 DEF Recent
  <2>4. disk \in seen
    BY <2>1 DEF Recent
  <2> QED
    BY <1>1, <2>1, <2>2, <2>3, <2>4 DEF Recent, Fresh
<1>16. CASE Failing
  <2>1. /\ service'.stage = "failed" /\ service'.answer = None
        /\ setting'.restarting = setting.restarting
    BY <1>16, FailingTypes
  <2> QED
    BY <1>1, <2>1 DEF Recent
<1>17. CASE Edit
  <2>1. /\ UNCHANGED <<native, service, published>> /\ setting'.restarting = setting.restarting
        /\ seen' = seen \union {disk'}
    BY <1>17, EditTypes DEF Edit
  <2> QED
    BY <2>1 DEF Recent, Fresh
<1>18. CASE Foreign
  <2>1. /\ UNCHANGED <<disk, native, service, published, seen>>
        /\ setting'.restarting = setting.restarting
    BY <1>18, ForeignTypes DEF Foreign
  <2> QED
    BY <2>1 DEF Recent, Fresh
<1>19. CASE Crash
  <2>1. /\ UNCHANGED <<disk, service, published, seen>> /\ native' = Dead
        /\ setting'.restarting = setting.restarting
    BY <1>19, CrashTypes DEF Crash
  <2> QED
    BY <1>2, <2>1 DEF Recent, Fresh
<1> QED
  BY <1>3, <1>4, <1>5, <1>6, <1>7, <1>8, <1>9, <1>10, <1>11, <1>12, <1>13, <1>14, <1>15, <1>16,
     <1>17, <1>18, <1>19, Steps

(* A commit and an acknowledgement have a transaction to work on, by       *)
(* Dialogue.                                                               *)
LEMMA TypesStep ==
  ASSUME Types, Dialogue, [Next]_vars
  PROVE  Types'
<1>1. CASE UNCHANGED vars
  BY <1>1 DEF vars, Types, TypeOK
<1>2. CASE Next
  <2>1. Commit \/ Acknowledge => service.answer \in Transactions
    BY DEF Dialogue, Commit, Acknowledge
  <2> QED
    BY <1>2, <2>1, BeginTypes, ReadSourceTypes, OpenedTypes, ReadCurrentTypes, AnsweringTypes,
       BeginUpdateTypes, ProjectTypes, InputChangedTypes, ProjectionFailsTypes, UnchangedTypes,
       PlaceTypes, CommitTypes, AcknowledgeTypes, FailingTypes, EditTypes, ForeignTypes,
       CrashTypes, Steps
<1> QED
  BY <1>1, <1>2

-----------------------------------------------------------------------------
(* The invariants of the specification. *)

(* All of them together are kept by every step.                            *)
LEMMA Invariance == Spec => [](Types /\ Dialogue /\ Committed /\ Faithful /\ Recent)
<1>1. Init => Types /\ Dialogue /\ Committed /\ Faithful /\ Recent
  BY InitTypes, InitParts
<1>2. Types /\ Dialogue /\ Committed /\ Faithful /\ Recent /\ [Next]_vars
        => (Types /\ Dialogue /\ Committed /\ Faithful /\ Recent)'
  <2> SUFFICES ASSUME Types, Dialogue, Committed, Faithful, Recent, [Next]_vars
               PROVE  (Types /\ Dialogue /\ Committed /\ Faithful /\ Recent)'
    OBVIOUS
  <2>1. CASE UNCHANGED vars
    <3>1. Dialogue'
      BY <2>1 DEF vars, Dialogue, Base, Held, Adopting, IdOf
    <3>2. Committed'
      BY <2>1 DEF vars, Committed, CommitLate
    <3>3. Faithful'
      BY <2>1 DEF vars, Faithful, Sound, Answered
    <3>4. Recent'
      BY <2>1 DEF vars, Recent, Refreshing, Fresh
    <3> QED
      BY <3>1, <3>2, <3>3, <3>4, TypesStep
  <2>2. CASE Next
    BY <2>2, TypesStep, DialogueStep, CommittedStep, FaithfulStep, RecentStep
  <2> QED
    BY <2>1, <2>2
<1> QED
  BY <1>1, <1>2, PTL DEF Spec

(* Disk, store, analyzer and service keep their types through every        *)
(* refresh, failure and restart; the analyzer tries at most three times    *)
(* and the service asks at most four.                                      *)
THEOREM TypeCorrect == Spec => []TypeOK
<1>1. Types => TypeOK
  BY DEF Types
<1> QED
  BY <1>1, Invariance, PTL

(* The base of the analyzer is a generation the store has committed, under *)
(* the sequence it was committed with: a candidate becomes the base only   *)
(* by its acknowledgement, and an adopted base was a head of the store     *)
(* (session.go, acknowledge and install).                                  *)
THEOREM BaseIsCommitted == Spec => []CommitLate
<1>1. Committed => CommitLate
  BY DEF Committed
<1> QED
  BY <1>1, Invariance, PTL

(* To a caller that replaces the session of a failed refresh, no input is  *)
(* returned as it was before the refresh began, whether the answer was a   *)
(* candidate, unchanged, or the end of several rounds (service.ts,         *)
(* refreshOnce).                                                           *)
THEOREM PublicationIsFresh == Spec => []FreshPublication
<1>1. Recent => FreshPublication
  BY DEF Recent, FreshPublication, Fresh
<1> QED
  BY <1>1, Invariance, PTL

(* To such a caller, what is about to be published is the project at one   *)
(* time since the refresh began, although the compiler reads the sources   *)
(* one by one while they are edited (session.go, the discovery after the   *)
(* projection).                                                            *)
THEOREM CandidateIsReal == Spec => []CandidateWasReal
<1>1. Recent => CandidateWasReal
  BY DEF Recent, CandidateWasReal
<1> QED
  BY <1>1, Invariance, PTL

(* The callers that meet a declaration shape that fails replace their      *)
(* session: apply reports of it that the compiler did not advance after it *)
(* has (change.go:191), and a kept session then compares the disk with the *)
(* wrong program.                                                          *)
ShapeOnlyOfReplaced == \A r \in Restarting : r \/ "shape" \notin Fault[r]

(* An answer of the analyzer describes its program, for both callers: an   *)
(* incremental candidate is what a cold one would be, whatever was         *)
(* aborted, lost, replayed or dropped before (session.go, refreshOnce).    *)
THEOREM AnswerIsTheProgram == ShapeOnlyOfReplaced => (Spec => []AnswerIsProgram)
<1> SUFFICES ASSUME ShapeOnlyOfReplaced PROVE Spec => []AnswerIsProgram
  OBVIOUS
<1>1. Types /\ Faithful => AnswerIsProgram
  BY DEF Types, TypeOK, Faithful, AnswerIsProgram, Answered, Sound, ShapeOnlyOfReplaced
<1> QED
  BY <1>1, Invariance, PTL
=============================================================================
