------------------------- MODULE PilotPipelineProofs -------------------------
(***************************************************************************)
(* Proofs about PilotPipeline for every corpus, proposal and registry,     *)
(* every version of the setup code and any number of faults.               *)
(***************************************************************************)
EXTENDS PilotPipeline, TLAPS

\* The baseline an exported record claims, as far as its files were left alone.
Executed(spec) ==
  \E e \in executed :
    /\ e.task = spec.task /\ e.image = spec.image
    /\ Cardinality(e.passing) = Cardinality(spec.passing)
    /\ e.passing = spec.passing \/ {<<spec.task, "passing">>, <<spec.task, "report">>} \subseteq edits
    /\ spec.matching => e.command = spec.command \/ <<spec.task, "command">> \in edits

\* It was executed in the published image or in one with evidence.
Pinned(spec) == spec.image = Published[spec.task] \/ EvidenceAllowed(spec.task, spec.image)

\* Execution e is the one a row is of: the row counts its tests, and the files say what it
\* was but for the parts that were edited.
RowOf(t, row, e) ==
  /\ e.task = t /\ e.image = row.image
  /\ Cardinality(e.passing) = row.passed
  /\ row.artifacts.command = e.command \/ <<t, "command">> \in edits
  /\ row.artifacts.passing = e.passing \/ <<t, "passing">> \in edits
  /\ row.artifacts.report = e.passing \/ <<t, "report">> \in edits

\* A row that says ready is of an execution.
JournalInv ==
  /\ DOMAIN journal = Tasks
  /\ \A t \in Tasks :
       journal[t] # None /\ journal[t].status = "ready" =>
         /\ DOMAIN journal[t] = {"status", "image", "plan", "passed", "artifacts"}
         /\ \E e \in executed : RowOf(t, journal[t], e)

\* What a tool remembers, and so the fields its steps may rewrite.
Fields ==
  [none |-> {"name"},
   survey |-> {"name", "registry", "code", "left"},
   export |-> {"name", "registry", "code", "left", "errors"},
   verify |-> {"name", "specs", "left", "step", "task", "tag", "image", "results"},
   package |-> {"name", "specs", "pilot", "control", "review", "step"},
   launch |-> {"name", "spec", "checkout"}]

ShapeInv == tool.name \in DOMAIN Fields /\ DOMAIN tool = Fields[tool.name]

\* The registries are ones that can be registered; that of an export has evidence, and
\* its list is one of tasks.
ListInv ==
  /\ registry \in Registries
  /\ Running("export") =>
       /\ tool.registry \in Registries /\ RegistryAllowed(tool.registry)
       /\ tool.left \in Seq(Tasks)

RecordsInv == \A spec \in exported : spec.image \in Images /\ Executed(spec) /\ Pinned(spec)

\* The two parts the first theorem needs.
BaselineInv == ShapeInv /\ JournalInv /\ ListInv /\ RecordsInv

\* The effective image of a task, published or registered, is an image.
LEMMA ImagesOfTasks ==
  ASSUME NEW t \in Tasks, NEW r \in Registries
  PROVE  EffectiveImage(t, r[t]) \in Images
BY TasksAssumption, RegistriesAssumption DEF EffectiveImage

\* Taking a task off a list leaves a list of tasks.
LEMMA TailsOfTasks ==
  ASSUME NEW left \in Seq(Tasks), left # <<>>
  PROVE  Head(left) \in Tasks /\ Tail(left) \in Seq(Tasks)
OBVIOUS

\* What was exported, executed, edited or rehearsed is never taken back.
LEMMA HistoryGrows ==
  ASSUME Next
  PROVE  /\ exported \subseteq exported' /\ executed \subseteq executed'
         /\ edits \subseteq edits' /\ rehearsed \subseteq rehearsed'
BY DEF Next, Survey, Export, VerifyRuntimes, Package, Launch, Others, files, history,
       SurveyBegin, SurveyTask, SurveyEnd, ExportBegin, ExportTask, ExportManifest,
       RehearseControl, VerifyBegin, PrepareParent, Build, ComparePrepared, Conclude, Rehearse,
       VerifyStepFails, VerifyEnd, PackageBegin, WriteFiles, WriteEvidence, WriteRest, WriteManifest,
       Verify, LaunchBegin, LaunchPlain, LaunchPrepared, Start, Stop, EditCode, EditRegistry, Retag,
       EditExecution, DamageRecord, Rebind, DamageBundle

----------------------------------------------------------------------------
(* Rows, records and what has been executed.                               *)

\* An execution that has happened stays one.
LEMMA ExecutedStays ==
  ASSUME Next, NEW spec, Executed(spec)
  PROVE  Executed(spec)'
BY HistoryGrows DEF Executed

\* The record of a row that is allowed is of the row's execution.
LEMMA RecordOfRow ==
  ASSUME BaselineInv, NEW t \in Tasks, NEW r \in Registries, NEW c,
         RegistryAllowed(r), BaselineAllowed(journal[t], t, r[t], c)
  PROVE  LET spec == SpecOf(t, r[t], c, journal[t])
         IN  spec.image \in Images /\ Executed(spec) /\ Pinned(spec)
<1> DEFINE spec == SpecOf(t, r[t], c, journal[t])
           artifacts == journal[t].artifacts
<1>1. /\ spec.task = t /\ spec.image = EffectiveImage(t, r[t]) /\ spec.command = CommandOf[c]
      /\ spec.passing = artifacts.report
      /\ spec.matching = (artifacts.command = CommandOf[c])
  BY DEF SpecOf
<1>2. /\ journal[t].image = EffectiveImage(t, r[t])
      /\ artifacts.report = artifacts.passing /\ Cardinality(artifacts.report) = journal[t].passed
  BY DEF BaselineAllowed
<1>3. PICK e \in executed : RowOf(t, journal[t], e)
  BY DEF BaselineInv, JournalInv, BaselineAllowed
<1>4. /\ e.task = t /\ e.image = journal[t].image /\ Cardinality(e.passing) = journal[t].passed
      /\ artifacts.command = e.command \/ <<t, "command">> \in edits
      /\ artifacts.passing = e.passing \/ <<t, "passing">> \in edits
      /\ artifacts.report = e.passing \/ <<t, "report">> \in edits
  BY <1>3 DEF RowOf
<1> HIDE DEF spec, artifacts
<1>5. e.passing = spec.passing \/ {<<spec.task, "passing">>, <<spec.task, "report">>} \subseteq edits
  BY <1>1, <1>2, <1>4
<1>6. spec.matching => e.command = spec.command \/ <<spec.task, "command">> \in edits
  BY <1>1, <1>4
<1>7. Executed(spec)
  BY <1>1, <1>2, <1>4, <1>5, <1>6 DEF Executed
<1>8. Pinned(spec)
  BY <1>1 DEF Pinned, EffectiveImage, RegistryAllowed
<1> QED BY <1>1, <1>7, <1>8, ImagesOfTasks DEF spec

\* A row keeps its execution while others' edits are remembered.
LEMMA RowStays ==
  ASSUME edits \subseteq edits', NEW t, NEW row, NEW e, RowOf(t, row, e)
  PROVE  /\ e.task = t /\ e.image = row.image /\ Cardinality(e.passing) = row.passed
         /\ row.artifacts.command = e.command \/ <<t, "command">> \in edits'
         /\ row.artifacts.passing = e.passing \/ <<t, "passing">> \in edits'
         /\ row.artifacts.report = e.passing \/ <<t, "report">> \in edits'
BY DEF RowOf

\* A survey writes ready for what it has executed only; an edit changes what the files say
\* and nothing of the row.
LEMMA JournalStays ==
  ASSUME BaselineInv, Next
  PROVE  JournalInv'
<1> USE DEF BaselineInv, JournalInv
<1>a. edits \subseteq edits' /\ executed \subseteq executed'
  BY HistoryGrows
<1>1. CASE journal' = journal
  BY <1>a, <1>1, RowStays DEF RowOf
<1>2. ASSUME NEW passing \in Outcomes, SurveyTask(passing)
      PROVE  JournalInv'
  <2> DEFINE t     == Head(tool.left)
             image == EffectiveImage(t, tool.registry[t])
             command == CommandOf[tool.code]
             run   == [task |-> t, image |-> image, command |-> command, passing |-> passing]
             files0 == [image |-> image, command |-> command, passing |-> passing, report |-> passing]
             ready == [status |-> "ready", image |-> image, plan |-> PlanOf[t][tool.code],
                       passed |-> Cardinality(passing), artifacts |-> files0]
  <2>1. journal' = [journal EXCEPT ![t] = IF passing # {} THEN ready ELSE FailedRow]
    BY <1>2 DEF SurveyTask
  <2>2. passing # {} => run \in executed'
    BY <1>2 DEF SurveyTask
  <2>3. /\ DOMAIN ready = {"status", "image", "plan", "passed", "artifacts"}
        /\ ready.image = run.image /\ ready.passed = Cardinality(run.passing)
        /\ ready.artifacts.command = run.command
        /\ ready.artifacts.passing = run.passing /\ ready.artifacts.report = run.passing
        /\ run.task = t
        /\ FailedRow.status # "ready"
    BY DEF FailedRow
  <2> HIDE DEF t, image, command, run, files0, ready
  <2>4. DOMAIN journal' = Tasks
    BY <2>1
  <2>5. ASSUME NEW u \in Tasks, journal'[u] # None, journal'[u].status = "ready"
        PROVE  /\ DOMAIN journal'[u] = {"status", "image", "plan", "passed", "artifacts"}
               /\ \E e \in executed' : RowOf(u, journal[u], e)'
    <3>1. CASE u = t
      <4>1. passing # {} /\ journal'[u] = ready
        BY <2>1, <2>3, <2>5, <3>1
      <4> QED BY <2>2, <2>3, <3>1, <4>1 DEF RowOf
    <3>2. CASE u # t
      <4>1. journal'[u] = journal[u]
        BY <2>1, <3>2
      <4> QED BY <1>a, <2>5, <4>1, RowStays DEF RowOf
    <3> QED BY <3>1, <3>2
  <2> QED BY <2>4, <2>5
<1>3. ASSUME NEW t \in Tasks, EditExecution(t)
      PROVE  JournalInv'
  <2>1. PICK forged \in Forgeries :
          /\ journal' = [journal EXCEPT ![t].artifacts = forged]
          /\ edits' = edits \cup {<<t, part>> : part \in {f \in {"command", "passing", "report"} :
                                                           forged[f] # journal[t].artifacts[f]}}
    BY <1>3 DEF EditExecution
  <2>2. journal[t] # None /\ journal[t].status = "ready" /\ executed' = executed
    BY <1>3 DEF EditExecution
  <2>3. DOMAIN journal[t] = {"status", "image", "plan", "passed", "artifacts"}
    BY <2>2
  <2>4. /\ DOMAIN journal'[t] = DOMAIN journal[t]
        /\ journal'[t].image = journal[t].image /\ journal'[t].passed = journal[t].passed
        /\ journal'[t].artifacts = forged
        /\ DOMAIN journal' = Tasks
        /\ \A u \in Tasks \ {t} : journal'[u] = journal[u]
    BY <2>1, <2>3
  <2>5. \A f \in {"command", "passing", "report"} :
          forged[f] = journal[t].artifacts[f] \/ <<t, f>> \in edits'
    BY <2>1
  <2>6. /\ forged.command = journal[t].artifacts.command \/ <<t, "command">> \in edits'
        /\ forged.passing = journal[t].artifacts.passing \/ <<t, "passing">> \in edits'
        /\ forged.report = journal[t].artifacts.report \/ <<t, "report">> \in edits'
    BY <2>5
  <2>7. PICK e \in executed : RowOf(t, journal[t], e)
    BY <2>2
  <2>8. RowOf(t, journal[t], e)'
    BY <1>a, <2>4, <2>6, <2>7, RowStays DEF RowOf
  <2>9. ASSUME NEW u \in Tasks, journal'[u] # None, journal'[u].status = "ready"
        PROVE  /\ DOMAIN journal'[u] = {"status", "image", "plan", "passed", "artifacts"}
               /\ \E d \in executed' : RowOf(u, journal[u], d)'
    <3>1. CASE u = t
      BY <2>2, <2>3, <2>4, <2>8, <3>1
    <3>2. CASE u # t
      <4>1. journal'[u] = journal[u]
        BY <2>4, <3>2
      <4> QED BY <1>a, <2>9, <4>1, RowStays DEF RowOf
    <3> QED BY <3>1, <3>2
  <2> QED BY <2>4, <2>9
<1> QED
  BY <1>1, <1>2, <1>3
  DEF Next, Survey, Export, VerifyRuntimes, Package, Launch, Others, files,
      SurveyBegin, SurveyEnd, ExportBegin, ExportTask, ExportManifest,
      RehearseControl, VerifyBegin, PrepareParent, Build, ComparePrepared, Conclude, Rehearse,
      VerifyStepFails, VerifyEnd, PackageBegin, WriteFiles, WriteEvidence, WriteRest, WriteManifest,
      Verify, LaunchBegin, LaunchPlain, LaunchPrepared, Start, Stop, EditCode, EditRegistry, Retag,
      DamageRecord, Rebind, DamageBundle

----------------------------------------------------------------------------
(* The tool that is running.                                               *)

\* What the tools start with.
LEMMA NewTools ==
  /\ DOMAIN Idle = Fields.none /\ Idle.name = "none"
  /\ \A r, c, l : LET new == [name |-> "survey", registry |-> r, code |-> c, left |-> l]
                  IN  DOMAIN new = Fields.survey /\ new.name = "survey"
  /\ \A r, c, l, e : LET new == [name |-> "export", registry |-> r, code |-> c, left |-> l, errors |-> e]
                     IN  DOMAIN new = Fields.export /\ new.name = "export"
  /\ \A s, p, c, r, g : LET new == [name |-> "package", specs |-> s, pilot |-> p, control |-> c,
                                    review |-> r, step |-> g]
                        IN  DOMAIN new = Fields.package /\ new.name = "package"
  /\ \A s, k : LET new == [name |-> "launch", spec |-> s, checkout |-> k]
               IN  DOMAIN new = Fields.launch /\ new.name = "launch"
BY DEF Idle, Fields

\* A tool stays, ends, or one of its own steps is taken.
Hands ==
  \/ tool' \in {tool, Idle}
  \/ tool'.name = "survey" /\ Survey
  \/ tool'.name = "export" /\ Export
  \/ tool'.name = "verify" /\ (VerifyRuntimes \/ \E i \in Images : Retag(i))
  \/ tool'.name = "package" /\ Package
  \/ tool'.name = "launch" /\ Launch

\* Each step of a tool rewrites fields it has, and only its own steps are taken.
LEMMA ShapeStays ==
  ASSUME ShapeInv, Next
  PROVE  ShapeInv' /\ Hands
<1> USE DEF ShapeInv, Fields, Running, Idle
<1>1. CASE tool' = tool
  BY <1>1 DEF Hands
<1>2. CASE tool' = Idle
  BY <1>2 DEF Hands
<1>3. CASE Survey
  <2>1. ASSUME NEW chosen, NEW rerun, SurveyBegin(chosen, rerun)
        PROVE  ShapeInv' /\ tool'.name = "survey"
    BY <2>1, NewTools DEF SurveyBegin
  <2>2. ASSUME NEW passed, SurveyTask(passed)
        PROVE  ShapeInv' /\ tool'.name = "survey"
    BY <2>2 DEF SurveyTask
  <2> QED BY <1>2, <1>3, <2>1, <2>2 DEF Hands, Survey, SurveyEnd
<1>4. CASE Export
  <2>1. ASSUME ExportBegin
        PROVE  ShapeInv' /\ tool'.name = "export"
    BY <2>1, NewTools DEF ExportBegin
  <2>2. ASSUME ExportTask
        PROVE  ShapeInv' /\ tool'.name = "export"
    <3>1. \E errors : \/ tool' = [[tool EXCEPT !.left = Tail(tool.left)] EXCEPT !.errors = errors]
                      \/ tool' = [tool EXCEPT !.left = Tail(tool.left)]
      BY <2>2 DEF ExportTask
    <3> DEFINE next == [tool EXCEPT !.left = Tail(tool.left)]
    <3>2. DOMAIN next = DOMAIN tool /\ next.name = tool.name
      OBVIOUS
    <3> HIDE DEF next
    <3>3. \A errors : LET last == [next EXCEPT !.errors = errors]
                      IN  DOMAIN last = DOMAIN next /\ last.name = next.name
      BY <3>2
    <3>4. tool' = next \/ \E errors : tool' = [next EXCEPT !.errors = errors]
      BY <3>1 DEF next
    <3>5. tool.name = "export"
      BY <2>2 DEF ExportTask
    <3> QED BY <3>2, <3>3, <3>4, <3>5
  <2>3. CASE ExportManifest
    <3>1. tool' = Idle
      BY <2>3 DEF ExportManifest
    <3> QED BY <1>2, <3>1
  <2> QED BY <1>4, <2>1, <2>2, <2>3 DEF Hands, Export
<1>5. CASE VerifyRuntimes
  <2>1. ASSUME VerifyBegin
        PROVE  ShapeInv' /\ tool'.name = "verify"
    BY <2>1 DEF VerifyBegin
  <2>2. CASE RehearseControl \/ VerifyEnd
    BY <1>1, <1>2, <2>2 DEF RehearseControl, VerifyEnd
  <2>3. ASSUME NEW item, Conclude(item), Running("verify")
        PROVE  ShapeInv' /\ tool'.name = "verify"
    BY <2>3 DEF Conclude
  <2>4. ASSUME ComparePrepared
        PROVE  ShapeInv' /\ tool'.name = "verify"
    BY <2>3, <2>4 DEF ComparePrepared, Verifying
  <2>5. ASSUME Rehearse \/ VerifyStepFails
        PROVE  ShapeInv' /\ tool'.name = "verify"
    BY <2>3, <2>5 DEF Rehearse, VerifyStepFails, Verifying
  <2>6. ASSUME NEW t \in Tasks, PrepareParent(t)
        PROVE  ShapeInv' /\ tool'.name = "verify"
    BY <2>6 DEF PrepareParent, Verifying
  <2>7. ASSUME NEW spoilt \in BOOLEAN, Build(spoilt)
        PROVE  ShapeInv' /\ tool'.name = "verify"
    BY <2>7 DEF Build, Verifying
  <2> QED BY <1>5, <2>1, <2>2, <2>4, <2>5, <2>6, <2>7 DEF Hands, VerifyRuntimes
<1>6. CASE Package
  <2>1. ASSUME NEW review, PackageBegin(review)
        PROVE  ShapeInv' /\ tool'.name = "package"
    BY <2>1, NewTools DEF PackageBegin
  <2>2. ASSUME WriteFiles \/ WriteEvidence \/ WriteRest
        PROVE  ShapeInv' /\ tool'.name = "package"
    <3>1. Running("package") /\ \E step : Goto(step)
      BY <2>2 DEF WriteFiles, WriteEvidence, WriteRest, Packaging
    <3> QED BY <3>1 DEF Goto
  <2>3. CASE WriteManifest
    BY <1>2, <2>3 DEF WriteManifest
  <2>4. CASE Verify
    BY <1>1, <2>4 DEF Verify
  <2> QED BY <1>6, <2>1, <2>2, <2>3, <2>4 DEF Hands, Package
<1>7. CASE Launch
  <2>1. ASSUME NEW file, NEW checkout, LaunchBegin(file, checkout)
        PROVE  ShapeInv' /\ tool'.name = "launch"
    BY <2>1, NewTools DEF LaunchBegin
  <2>2. ASSUME NEW image, Start(image)
        PROVE  tool' = Idle
    BY <2>2 DEF Start
  <2> QED BY <1>2, <1>7, <2>1, <2>2 DEF Hands, Launch, LaunchPlain, LaunchPrepared
<1>8. ASSUME NEW i \in Images, Retag(i)
      PROVE  ShapeInv' /\ tool'.name = "verify"
  BY <1>8 DEF Retag, Verifying
<1> QED
  BY <1>1, <1>2, <1>3, <1>4, <1>5, <1>6, <1>7, <1>8
  DEF Hands, Next, Others, Stop, EditCode, EditRegistry, EditExecution, DamageRecord, Rebind, DamageBundle

\* The exporter goes through the corpus with the registry it began with.
LEMMA ListStays ==
  ASSUME BaselineInv, Next
  PROVE  ListInv'
<1> USE DEF BaselineInv, ListInv, Running
<1>1. registry' \in Registries
  BY DEF Next, Survey, Export, VerifyRuntimes, Package, Launch, Others, files,
      SurveyBegin, SurveyTask, SurveyEnd, ExportBegin, ExportTask, ExportManifest,
      RehearseControl, VerifyBegin, PrepareParent, Build, ComparePrepared, Conclude, Rehearse,
      VerifyStepFails, VerifyEnd, PackageBegin, WriteFiles, WriteEvidence, WriteRest, WriteManifest,
      Verify, LaunchBegin, LaunchPlain, LaunchPrepared, Start, Stop, EditCode, EditRegistry, Retag,
      EditExecution, DamageRecord, Rebind, DamageBundle
<1>2. CASE tool' = tool
  BY <1>1, <1>2
<1>3. CASE tool'.name # "export"
  BY <1>1, <1>3
<1>4. CASE ExportBegin
  BY <1>1, <1>4, TasksAssumption DEF ExportBegin
<1>5. CASE ExportTask
  <2>1. /\ Running("export") /\ tool.left \in Seq(Tasks) /\ tool.left # <<>>
        /\ tool.registry \in Registries /\ RegistryAllowed(tool.registry)
        /\ DOMAIN tool = Fields.export
    BY <1>5 DEF ExportTask, ShapeInv
  <2> DEFINE next == [tool EXCEPT !.left = Tail(tool.left)]
  <2>2. \/ tool' = next
        \/ tool' = [next EXCEPT !.errors = tool.errors \cup {Head(tool.left)}]
    BY <1>5, <2>1 DEF ExportTask, Fields
  <2>3. /\ next.registry = tool.registry /\ next.left = Tail(tool.left)
        /\ DOMAIN next = Fields.export
    BY <2>1 DEF Fields
  <2> HIDE DEF next
  <2>4. tool'.registry = tool.registry /\ tool'.left = Tail(tool.left)
    BY <2>2, <2>3 DEF Fields
  <2> QED BY <1>1, <2>1, <2>4, TailsOfTasks
<1>6. CASE ExportManifest
  BY <1>1, <1>6 DEF ExportManifest, Idle
<1> QED
  BY <1>2, <1>3, <1>4, <1>5, <1>6, ShapeStays DEF Hands, Export, Idle

\* A record is written only of a row that is allowed.
LEMMA RecordsStay ==
  ASSUME BaselineInv, Next
  PROVE  RecordsInv'
<1>1. CASE exported' = exported
  BY <1>1, ExecutedStays DEF BaselineInv, RecordsInv, Pinned
<1>2. CASE ExportTask
  <2> DEFINE t    == Head(tool.left)
             spec == SpecOf(t, tool.registry[t], tool.code, journal[t])
  <2>1. t \in Tasks /\ tool.registry \in Registries /\ RegistryAllowed(tool.registry)
    BY <1>2, TailsOfTasks DEF ExportTask, BaselineInv, ListInv
  <2>2. \/ exported' = exported
        \/ /\ exported' = exported \cup {spec}
           /\ BaselineAllowed(journal[t], t, tool.registry[t], tool.code)
    BY <1>2 DEF ExportTask
  <2>3. BaselineAllowed(journal[t], t, tool.registry[t], tool.code)
          => spec.image \in Images /\ Executed(spec) /\ Pinned(spec)
    BY <2>1, RecordOfRow
  <2> HIDE DEF t, spec
  <2> QED BY <1>1, <2>2, <2>3, ExecutedStays DEF BaselineInv, RecordsInv, Pinned
<1> QED
  BY <1>1, <1>2
  DEF Next, Survey, Export, VerifyRuntimes, Package, Launch, Others, history,
      SurveyBegin, SurveyTask, SurveyEnd, ExportBegin, ExportManifest,
      RehearseControl, VerifyBegin, PrepareParent, Build, ComparePrepared, Conclude, Rehearse,
      VerifyStepFails, VerifyEnd, PackageBegin, WriteFiles, WriteEvidence, WriteRest, WriteManifest,
      Verify, LaunchBegin, LaunchPlain, LaunchPrepared, Start, Stop, EditCode, EditRegistry, Retag,
      EditExecution, DamageRecord, Rebind, DamageBundle

\* At the beginning there are no rows and no records.
LEMMA InitBaseline == Init => BaselineInv
BY NewTools DEF Init, BaselineInv, ShapeInv, Fields, JournalInv, ListInv, RecordsInv, Running, Idle

\* Rows, lists and records together are kept by every step.
LEMMA BaselineStays == BaselineInv /\ [Next]_vars => BaselineInv'
<1> SUFFICES ASSUME BaselineInv, [Next]_vars PROVE BaselineInv'
  OBVIOUS
<1>1. CASE Next
  BY <1>1, ShapeStays, JournalStays, ListStays, RecordsStay DEF BaselineInv
<1>2. CASE UNCHANGED vars
  BY <1>2 DEF vars, files, history, BaselineInv, ShapeInv, JournalInv, ListInv, RecordsInv, Running, Executed,
      RowOf
<1> QED BY <1>1, <1>2

----------------------------------------------------------------------------
(* Files, evidence and the runs that rest on them.                         *)

\* Damage may change what a file says; what it claims was exported.
FileIn(file, specs) == DOMAIN file = {"spec", "claimed", "report"} /\ file.claimed \in specs

\* Evidence that says pass is of a rehearsal, in an image built on the record's own.
SoundIn(item, pairs) ==
  item.status = "pass" =>
    /\ <<item.spec, item.image>> \in pairs
    /\ KeepsLayers(item.image, item.spec.image)
    /\ KeepsTools(item.image, item.spec.image)

StoreInv ==
  /\ DOMAIN store = {"files", "inventory"}
  /\ \A t \in DOMAIN store.files : FileIn(store.files[t], exported)

EvidenceInv ==
  /\ control # None => SoundIn(control, rehearsed)
  /\ \A r \in reviews : \A t \in DOMAIN r : SoundIn(r[t], rehearsed)

\* A verification works with the specs of the store, whatever is damaged meanwhile.
VerifyInv ==
  Running("verify") =>
    /\ \A t \in DOMAIN store.files : tool.specs[t] = store.files[t].claimed
    /\ tool.step = "rehearse" =>
         /\ KeepsLayers(tool.image, tool.specs[tool.task].image)
         /\ KeepsTools(tool.image, tool.specs[tool.task].image)
    /\ \A t \in DOMAIN tool.results : SoundIn(tool.results[t], rehearsed)

PackageInv ==
  Running("package") =>
    /\ bundle.manifest = None
    /\ {Control} \cup tool.pilot \subseteq DOMAIN tool.specs /\ Control \notin tool.pilot
    /\ \A t \in DOMAIN tool.specs : tool.specs[t] \in exported
    /\ SoundIn(tool.control, rehearsed)
    /\ tool.review # None => \A t \in DOMAIN tool.review : SoundIn(tool.review[t], rehearsed)
    /\ tool.step \in {"rest", "manifest"} => bundle.control = tool.control

\* The manifest is last: once it is there, it is that of the evidence.
BundleInv ==
  /\ DOMAIN bundle = {"files", "control", "review", "runtime", "rest", "manifest"}
  /\ \A t \in DOMAIN bundle.files : FileIn(bundle.files[t], exported)
  /\ bundle.review # None => \A t \in DOMAIN bundle.review : SoundIn(bundle.review[t], rehearsed)
  /\ bundle.manifest # None =>
       /\ DOMAIN bundle.manifest = {"hashes", "pilot", "image"}
       /\ SoundIn(bundle.control, rehearsed) /\ bundle.manifest.image = bundle.control.image
       /\ Control \notin bundle.manifest.pilot

LaunchInv ==
  /\ Running("launch") => tool.spec \in exported /\ tool.checkout = Source(tool.spec.task)
  /\ LaunchIsVerified

TrailInv ==
  /\ BaselineInv /\ StoreInv /\ EvidenceInv /\ VerifyInv /\ PackageInv /\ BundleInv
  /\ BundleRestsOnEvidence /\ LaunchInv

\* What holds of a file or of evidence holds when the history has grown.
LEMMA Grown ==
  ASSUME NEW file, NEW item, NEW specs, NEW more \in SUBSET specs, NEW pairs, NEW fewer \in SUBSET pairs
  PROVE  (FileIn(file, more) => FileIn(file, specs)) /\ (SoundIn(item, fewer) => SoundIn(item, pairs))
BY DEF FileIn, SoundIn

\* Damage does not change what a file claims.
LEMMA DamagedFile ==
  ASSUME NEW file, NEW specs, FileIn(file, specs), NEW new \in Damaged(file)
  PROVE  FileIn(new, specs)
BY DEF FileIn, Damaged

\* A record that loads is the one that was exported.
LEMMA LoadedFile ==
  ASSUME NEW file, NEW specs, FileIn(file, specs), LoadAllowed(file)
  PROVE  file.spec \in specs /\ file.spec = file.claimed
BY DEF FileIn, LoadAllowed

\* Files in the records root claim what was exported, damaged or not.
LEMMA StoreStays ==
  ASSUME TrailInv, Next
  PROVE  StoreInv'
<1> USE DEF TrailInv, StoreInv
<1>1. CASE store' = store
  BY <1>1, HistoryGrows, Grown
<1>2. CASE ExportBegin
  BY <1>2 DEF ExportBegin, NoStore
<1>3. CASE ExportTask
  <2> DEFINE t    == Head(tool.left)
             spec == SpecOf(t, tool.registry[t], tool.code, journal[t])
             new  == [u \in DOMAIN store.files \cup {t} |-> IF u = t THEN RecordFile(spec) ELSE store.files[u]]
  <2>1. \/ store' = store
        \/ store' = [store EXCEPT !.files = new] /\ spec \in exported'
    BY <1>3 DEF ExportTask
  <2>2. FileIn(RecordFile(spec), {spec})
    BY DEF FileIn, RecordFile
  <2>3. \A u \in DOMAIN new :
            \/ u = t /\ new[u] = RecordFile(spec)
            \/ u \in DOMAIN store.files /\ new[u] = store.files[u]
    OBVIOUS
  <2> HIDE DEF t, spec, new
  <2>4. CASE store' = [store EXCEPT !.files = new] /\ spec \in exported'
    <3>1. store'.files = new /\ DOMAIN store' = {"files", "inventory"}
      BY <2>4
    <3>2. ASSUME NEW u \in DOMAIN new PROVE FileIn(new[u], exported')
      BY <2>2, <2>3, <2>4, HistoryGrows, Grown
    <3> QED BY <3>1, <3>2
  <2> QED BY <1>1, <2>1, <2>4
<1>4. CASE ExportManifest
  <2>1. exported' = exported /\ \E x : store' = [store EXCEPT !.inventory = x]
    BY <1>4 DEF ExportManifest, history
  <2> QED BY <2>1
<1>5. ASSUME NEW t \in Tasks, DamageRecord(t)
      PROVE  StoreInv'
  <2>1. PICK file \in Damaged(store.files[t]) : store' = [store EXCEPT !.files[t] = file]
    BY <1>5 DEF DamageRecord
  <2>2. exported' = exported /\ t \in DOMAIN store.files
    BY <1>5 DEF DamageRecord, history
  <2>3. FileIn(file, exported)
    BY <2>2, DamagedFile
  <2> QED BY <2>1, <2>2, <2>3
<1> QED
  BY <1>1, <1>2, <1>3, <1>4, <1>5
  DEF Next, Survey, Export, VerifyRuntimes, Package, Launch, Others, files,
      SurveyBegin, SurveyTask, SurveyEnd,
      RehearseControl, VerifyBegin, PrepareParent, Build, ComparePrepared, Conclude, Rehearse,
      VerifyStepFails, VerifyEnd, PackageBegin, WriteFiles, WriteEvidence, WriteRest, WriteManifest,
      Verify, LaunchBegin, LaunchPlain, LaunchPrepared, Start, Stop, EditCode, EditRegistry, Retag,
      EditExecution, Rebind, DamageBundle

\* The result of a task, sound or blocked, is added to those before.
LEMMA ConcludeStep ==
  ASSUME ShapeInv, VerifyInv, EvidenceInv, Running("verify"), NEW item, Conclude(item),
         rehearsed \subseteq rehearsed', SoundIn(item, rehearsed')
  PROVE  /\ \A r \in reviews' : \A t \in DOMAIN r : SoundIn(r[t], rehearsed')
         /\ \A t \in DOMAIN tool'.results : SoundIn(tool'.results[t], rehearsed')
         /\ tool'.specs = tool.specs /\ tool'.step = "prepare"
         /\ store' = store /\ control' = control
<1> DEFINE results == [t \in DOMAIN tool.results \cup {tool.task} |->
                         IF t = tool.task THEN item ELSE tool.results[t]]
<1>1. DOMAIN tool = Fields.verify
  BY DEF ShapeInv, Running
<1>2. \A t \in DOMAIN results :
         \/ t = tool.task /\ results[t] = item
         \/ t \in DOMAIN tool.results /\ results[t] = tool.results[t]
  OBVIOUS
<1>3. \A t \in DOMAIN results : SoundIn(results[t], rehearsed')
  <2> SUFFICES ASSUME NEW t \in DOMAIN results PROVE SoundIn(results[t], rehearsed')
    OBVIOUS
  <2> QED BY <1>2, Grown DEF VerifyInv
<1>4. /\ tool' = [tool EXCEPT !.results = results, !.task = None, !.tag = None, !.image = None,
                              !.step = "prepare"]
      /\ reviews' = reviews \cup {results}
      /\ store' = store /\ control' = control
  BY DEF Conclude
<1> HIDE DEF results
<1>5. tool'.results = results /\ tool'.specs = tool.specs /\ tool'.step = "prepare"
  BY <1>1, <1>4 DEF Fields
<1>6. \A r \in reviews : \A t \in DOMAIN r : SoundIn(r[t], rehearsed')
  BY Grown DEF EvidenceInv
<1> QED BY <1>3, <1>4, <1>5, <1>6

\* What each way of concluding a task concludes.
LEMMA Conclusions ==
  ASSUME TrailInv, Next,
         \/ Rehearse
         \/ VerifyStepFails
         \/ ComparePrepared /\ ~(/\ KeepsLayers(tool.image, tool.specs[tool.task].image)
                                 /\ KeepsTools(tool.image, tool.specs[tool.task].image))
  PROVE  Running("verify") /\ \E item : Conclude(item) /\ SoundIn(item, rehearsed')
<1>1. CASE ~Rehearse
  <2>1. Running("verify") /\ Conclude(Blocked)
    BY <1>1 DEF ComparePrepared, VerifyStepFails, Verifying
  <2>2. PICK item : item = Blocked
    OBVIOUS
  <2>3. item.status = "blocked"
    BY <2>2 DEF Blocked, Item
  <2> QED BY <2>1, <2>2, <2>3 DEF SoundIn
<1>2. CASE Rehearse
  <2> DEFINE read == store.files[tool.task].spec
             pair == [spec |-> read, image |-> tool.image, match |-> TRUE]
  <2>1. /\ Running("verify") /\ tool.step = "rehearse"
        /\ tool.task \in DOMAIN store.files /\ LoadAllowed(store.files[tool.task])
        /\ Conclude(Item(tool.specs[tool.task], tool.image, "pass", pair))
        /\ rehearsed' = rehearsed \cup {<<read, tool.image>>}
    BY <1>2 DEF Rehearse, Verifying
  <2>2. PICK item : item = Item(tool.specs[tool.task], tool.image, "pass", pair)
    OBVIOUS
  <2>3. item.spec = tool.specs[tool.task] /\ item.image = tool.image
    BY <2>2 DEF Item
  <2>4. read = tool.specs[tool.task]
    BY <2>1, LoadedFile DEF TrailInv, StoreInv, VerifyInv
  <2>5. /\ KeepsLayers(tool.image, tool.specs[tool.task].image)
        /\ KeepsTools(tool.image, tool.specs[tool.task].image)
    BY <2>1 DEF TrailInv, VerifyInv
  <2>6. SoundIn(item, rehearsed')
    BY <2>1, <2>3, <2>4, <2>5 DEF SoundIn
  <2> QED BY <2>1, <2>2, <2>6
<1> QED BY <1>1, <1>2

\* Evidence, of the control and in each state of results.json, stays sound.
LEMMA EvidenceStays ==
  ASSUME TrailInv, Next
  PROVE  EvidenceInv'
<1> USE DEF TrailInv
<1>1. CASE control' = control /\ reviews' = reviews
  BY <1>1, HistoryGrows, Grown DEF EvidenceInv
<1>2. CASE RehearseControl
  <2> DEFINE spec  == store.files[Control].spec
             image == Prepared(spec.image, FALSE)
  <2>1. /\ control' = Item(spec, image, "pass", [spec |-> spec, image |-> image, match |-> TRUE])
        /\ rehearsed' = rehearsed \cup {<<spec, image>>} /\ reviews' = reviews
        /\ Control \in DOMAIN store.files /\ LoadAllowed(store.files[Control])
    BY <1>2 DEF RehearseControl
  <2>2. spec \in exported
    BY <2>1, LoadedFile DEF StoreInv
  <2>3. spec.image \in Images
    BY <2>2 DEF BaselineInv, RecordsInv
  <2>4. KeepsLayers(image, spec.image) /\ KeepsTools(image, spec.image)
    BY <2>3, TasksAssumption DEF KeepsLayers, KeepsTools, Prepared
  <2>5. control'.spec = spec /\ control'.image = image
    BY <2>1 DEF Item
  <2> HIDE DEF spec, image
  <2>6. SoundIn(control', rehearsed')
    BY <2>1, <2>4, <2>5 DEF SoundIn
  <2> QED BY <2>1, <2>6, HistoryGrows, Grown DEF EvidenceInv
<1>3. ASSUME Running("verify"), NEW item, Conclude(item), SoundIn(item, rehearsed')
      PROVE  EvidenceInv'
  <2>1. /\ \A r \in reviews' : \A t \in DOMAIN r : SoundIn(r[t], rehearsed')
        /\ control' = control
    BY <1>3, HistoryGrows, ConcludeStep DEF BaselineInv
  <2> QED BY <2>1, HistoryGrows, Grown DEF EvidenceInv
<1>4. CASE Rehearse
  BY <1>3, <1>4, Conclusions
<1>5. CASE VerifyStepFails
  BY <1>3, <1>5, Conclusions
<1>6. CASE ComparePrepared
  <2>1. CASE KeepsLayers(tool.image, tool.specs[tool.task].image)
             /\ KeepsTools(tool.image, tool.specs[tool.task].image)
    BY <1>1, <1>6, <2>1 DEF ComparePrepared, files
  <2> QED BY <1>3, <1>6, <2>1, Conclusions
<1> QED
  BY <1>1, <1>2, <1>4, <1>5, <1>6
  DEF Next, Survey, Export, VerifyRuntimes, Package, Launch, Others, files,
      SurveyBegin, SurveyTask, SurveyEnd, ExportBegin, ExportTask, ExportManifest,
      VerifyBegin, PrepareParent, Build, VerifyEnd,
      PackageBegin, WriteFiles, WriteEvidence, WriteRest, WriteManifest,
      Verify, LaunchBegin, LaunchPlain, LaunchPrepared, Start, Stop, EditCode, EditRegistry, Retag,
      EditExecution, DamageRecord, Rebind, DamageBundle

\* A verification keeps to the specs it has read, up to the image it rehearses.
LEMMA VerifyStays ==
  ASSUME TrailInv, Next
  PROVE  VerifyInv'
<1> USE DEF TrailInv, BaselineInv
<1>1. CASE tool'.name # "verify"
  BY <1>1 DEF VerifyInv, Running
<1>2. CASE tool' = tool
  <2>1. ASSUME Running("verify"), NEW t \in DOMAIN store'.files
        PROVE  t \in DOMAIN store.files /\ store'.files[t].claimed = store.files[t].claimed
    <3>1. CASE store' = store
      BY <3>1
    <3>2. ASSUME NEW u \in Tasks, DamageRecord(u)
          PROVE  t \in DOMAIN store.files /\ store'.files[t].claimed = store.files[t].claimed
      <4>1. PICK file \in Damaged(store.files[u]) : store' = [store EXCEPT !.files[u] = file]
        BY <3>2 DEF DamageRecord
      <4>2. u \in DOMAIN store.files
        BY <3>2 DEF DamageRecord
      <4>3. file.claimed = store.files[u].claimed
        BY <4>2 DEF Damaged, StoreInv, FileIn
      <4> QED BY <2>1, <4>1, <4>2, <4>3 DEF StoreInv
    <3>3. ~Export
      BY <2>1 DEF Export, ExportBegin, ExportTask, ExportManifest, Running
    <3> QED
      BY <3>1, <3>2, <3>3
      DEF Next, Survey, VerifyRuntimes, Package, Launch, Others, files,
          SurveyBegin, SurveyTask, SurveyEnd,
          RehearseControl, VerifyBegin, PrepareParent, Build, ComparePrepared, Conclude, Rehearse,
          VerifyStepFails, VerifyEnd, PackageBegin, WriteFiles, WriteEvidence, WriteRest,
          WriteManifest, Verify, LaunchBegin, LaunchPlain, LaunchPrepared, Start, Stop, EditCode,
          EditRegistry, Retag, EditExecution, Rebind, DamageBundle
  <2> QED BY <1>2, <2>1, HistoryGrows, Grown DEF VerifyInv, Running
<1>3. CASE VerifyBegin
  <2>1. \A t \in DOMAIN store.files : LoadAllowed(store.files[t])
    BY <1>3 DEF VerifyBegin, AllLoad
  <2>2. /\ tool'.specs = Contents(store.files) /\ tool'.step = "prepare" /\ tool'.results = <<>>
        /\ store' = store
    BY <1>3 DEF VerifyBegin, files
  <2>3. \A t \in DOMAIN store.files : Contents(store.files)[t] = store.files[t].claimed
    BY <2>1 DEF Contents, LoadAllowed
  <2> QED BY <2>2, <2>3 DEF VerifyInv
<1>4. ASSUME Running("verify"), NEW item, Conclude(item), SoundIn(item, rehearsed')
      PROVE  VerifyInv'
  <2>1. /\ \A t \in DOMAIN tool'.results : SoundIn(tool'.results[t], rehearsed')
        /\ tool'.specs = tool.specs /\ tool'.step = "prepare" /\ store' = store
    BY <1>4, HistoryGrows, ConcludeStep
  <2> QED BY <1>4, <2>1 DEF VerifyInv
<1>5. CASE ComparePrepared
  <2>1. ASSUME KeepsLayers(tool.image, tool.specs[tool.task].image)
               /\ KeepsTools(tool.image, tool.specs[tool.task].image)
        PROVE  VerifyInv'
    <3>1. /\ tool' = [tool EXCEPT !.step = "rehearse"] /\ store' = store /\ rehearsed' = rehearsed
          /\ Running("verify")
      BY <1>5, <2>1 DEF ComparePrepared, files, history, Verifying
    <3>2. /\ tool'.specs = tool.specs /\ tool'.image = tool.image /\ tool'.task = tool.task
          /\ tool'.results = tool.results
      BY <3>1 DEF ShapeInv, Fields
    <3> QED BY <2>1, <3>1, <3>2 DEF VerifyInv, SoundIn, KeepsLayers, KeepsTools
  <2> QED BY <1>4, <1>5, <2>1, Conclusions
<1>6. CASE Rehearse \/ VerifyStepFails
  BY <1>4, <1>6, Conclusions
<1>7. ASSUME Running("verify"), store' = store, rehearsed' = rehearsed,
             tool'.specs = tool.specs, tool'.results = tool.results, tool'.step # "rehearse"
      PROVE  VerifyInv'
  BY <1>7 DEF VerifyInv
<1>8. ASSUME NEW t \in Tasks, PrepareParent(t)
      PROVE  VerifyInv'
  BY <1>7, <1>8 DEF PrepareParent, Verifying, Running, files, history, ShapeInv, Fields
<1>9. ASSUME NEW spoilt \in BOOLEAN, Build(spoilt)
      PROVE  VerifyInv'
  BY <1>7, <1>9 DEF Build, Verifying, Running, files, history, ShapeInv, Fields
<1>10. ASSUME NEW i \in Images, Retag(i)
       PROVE  VerifyInv'
  BY <1>7, <1>10 DEF Retag, Verifying, Running, files, history, ShapeInv, Fields
<1>11. CASE VerifyEnd
  BY <1>1, <1>11 DEF VerifyEnd, Idle
<1>12. CASE RehearseControl
  BY <1>2, <1>12 DEF RehearseControl
<1> QED
  BY <1>1, <1>2, <1>3, <1>5, <1>6, <1>8, <1>9, <1>10, <1>11, <1>12, ShapeStays
  DEF Hands, VerifyRuntimes, Idle

----------------------------------------------------------------------------
(* Bundles.                                                                *)

\* A pilot is selected among the tasks of the specs, without the control.
LEMMA PilotTasks ==
  ASSUME NEW specs
  PROVE  Selected(specs) \subseteq DOMAIN specs /\ Control \notin Selected(specs)
BY DEF Selected, Eligible

\* Packaging begins with exported specs and sound evidence.
LEMMA PackageBegins ==
  ASSUME TrailInv, NEW review \in reviews \cup {None}, PackageBegin(review)
  PROVE  PackageInv'
<1> USE DEF TrailInv
<1> DEFINE specs == store.inventory.specs
<1>1. /\ DOMAIN specs = Tasks
      /\ AllLoad(store.files) /\ Contents(store.files) = specs
      /\ control # None /\ exported' = exported /\ rehearsed' = rehearsed
      /\ tool' = [name |-> "package", specs |-> specs, pilot |-> Selected(specs), control |-> control,
                  review |-> review, step |-> "files"]
      /\ bundle' = EmptyBundle
  BY DEF PackageBegin, history
<1>2. ASSUME NEW t \in DOMAIN specs
      PROVE  specs[t] \in exported
  <2>1. t \in DOMAIN store.files /\ specs[t] = store.files[t].spec
    BY <1>1 DEF Contents
  <2>2. LoadAllowed(store.files[t])
    BY <1>1, <2>1 DEF AllLoad
  <2> QED BY <2>1, <2>2, LoadedFile DEF StoreInv
<1>3. Control \in DOMAIN specs
  BY <1>1, TasksAssumption
<1>4. bundle'.manifest = None
  BY <1>1 DEF EmptyBundle
<1>5. SoundIn(control, rehearsed)
  BY <1>1 DEF EvidenceInv
<1>6. review # None => \A t \in DOMAIN review : SoundIn(review[t], rehearsed)
  BY DEF EvidenceInv
<1>7. Selected(specs) \subseteq DOMAIN specs /\ Control \notin Selected(specs)
  BY PilotTasks
<1> HIDE DEF specs
<1>8. /\ tool'.specs = specs /\ tool'.pilot = Selected(specs) /\ tool'.control = control
      /\ tool'.review = review /\ tool'.step = "files"
  BY <1>1
<1> QED BY <1>1, <1>2, <1>3, <1>4, <1>5, <1>6, <1>7, <1>8 DEF PackageInv

\* What a step of the packaging leaves.
LEMMA PackageSteps ==
  ASSUME TrailInv, WriteFiles \/ WriteEvidence \/ WriteRest
  PROVE  /\ Running("package")
         /\ tool'.specs = tool.specs /\ tool'.pilot = tool.pilot /\ tool'.control = tool.control
         /\ tool'.review = tool.review
         /\ exported' = exported /\ rehearsed' = rehearsed
         /\ bundle'.manifest = None /\ DOMAIN bundle' = DOMAIN bundle
         /\ WriteFiles \/ bundle'.files = bundle.files
         /\ bundle'.control = IF WriteEvidence THEN tool.control ELSE bundle.control
         /\ bundle'.review = IF WriteEvidence THEN tool.review ELSE bundle.review
         /\ tool'.step \in {"rest", "manifest"} => bundle'.control = tool.control
<1> USE DEF TrailInv
<1>1. /\ Running("package") /\ DOMAIN tool = Fields.package
      /\ exported' = exported /\ rehearsed' = rehearsed
  BY DEF WriteFiles, WriteEvidence, WriteRest, Packaging, history, BaselineInv, ShapeInv, Running
<1>2. bundle.manifest = None /\ DOMAIN bundle = {"files", "control", "review", "runtime", "rest", "manifest"}
  BY <1>1 DEF PackageInv, BundleInv
<1>3. PICK step : Goto(step)
  BY DEF WriteFiles, WriteEvidence, WriteRest
<1>4. /\ tool'.specs = tool.specs /\ tool'.pilot = tool.pilot /\ tool'.control = tool.control
      /\ tool'.review = tool.review /\ tool'.step = step
  BY <1>1, <1>3 DEF Goto, Fields
<1>5. CASE WriteFiles
  <2>1. /\ Goto("evidence") /\ tool.step = "files"
        /\ \E x : bundle' = [bundle EXCEPT !.files = x]
    BY <1>5 DEF WriteFiles, Packaging
  <2>2. tool'.step = "evidence"
    BY <1>1, <2>1 DEF Goto, Fields
  <2>3. ~WriteEvidence
    BY <2>1 DEF WriteEvidence, Packaging
  <2> QED BY <1>1, <1>2, <1>4, <1>5, <2>1, <2>2, <2>3
<1>6. CASE WriteEvidence
  <2>1. \E x : bundle' = [bundle EXCEPT !.control = tool.control, !.review = tool.review, !.runtime = x]
    BY <1>6 DEF WriteEvidence
  <2> QED BY <1>1, <1>2, <1>4, <1>6, <2>1
<1>7. CASE WriteRest
  <2>1. tool.step = "rest" /\ bundle' = [bundle EXCEPT !.rest = "no live model"]
    BY <1>7 DEF WriteRest, Packaging
  <2>2. ~WriteEvidence /\ bundle.control = tool.control
    BY <1>1, <2>1 DEF WriteEvidence, Packaging, PackageInv
  <2> QED BY <1>1, <1>2, <1>4, <2>1, <2>2
<1> QED BY <1>5, <1>6, <1>7

\* Steps that leave all of a bundle but the files it is run with.
LEMMA BundleEdits ==
  ASSUME TrailInv,
         \/ \E t \in Tasks : \E binding : Rebind(t, binding)
         \/ \E t \in Tasks : DamageBundle(t)
  PROVE  /\ exported' = exported /\ rehearsed' = rehearsed /\ tool' = tool
         /\ bundle'.control = bundle.control /\ bundle'.review = bundle.review
         /\ bundle'.manifest # None => bundle.manifest # None
         /\ bundle.manifest = None => bundle'.manifest = None
         /\ BundleInv'
<1> USE DEF TrailInv, BundleInv
<1>1. ASSUME NEW t \in Tasks, NEW binding, Rebind(t, binding)
      PROVE  /\ exported' = exported /\ rehearsed' = rehearsed /\ tool' = tool
             /\ bundle'.control = bundle.control /\ bundle'.review = bundle.review
             /\ bundle.manifest # None
             /\ BundleInv'
  <2> DEFINE edited == [bundle EXCEPT !.runtime[t] = binding]
  <2>1. /\ bundle.manifest # None /\ exported' = exported /\ rehearsed' = rehearsed /\ tool' = tool
        /\ bundle' = edited \/ bundle' = [edited EXCEPT !.manifest.hashes = Parts(edited)]
    BY <1>1 DEF Rebind, history
  <2>2. /\ DOMAIN edited = DOMAIN bundle /\ edited.files = bundle.files /\ edited.control = bundle.control
        /\ edited.review = bundle.review /\ edited.manifest = bundle.manifest
    OBVIOUS
  <2> HIDE DEF edited
  <2>3. /\ DOMAIN bundle' = DOMAIN bundle /\ bundle'.files = bundle.files
        /\ bundle'.control = bundle.control /\ bundle'.review = bundle.review
        /\ DOMAIN bundle'.manifest = DOMAIN bundle.manifest
        /\ bundle'.manifest.image = bundle.manifest.image /\ bundle'.manifest.pilot = bundle.manifest.pilot
    BY <2>1, <2>2
  <2> QED BY <2>1, <2>3
<1>2. ASSUME NEW t \in Tasks, DamageBundle(t)
      PROVE  /\ exported' = exported /\ rehearsed' = rehearsed /\ tool' = tool
             /\ bundle'.control = bundle.control /\ bundle'.review = bundle.review
             /\ bundle'.manifest = bundle.manifest
             /\ BundleInv'
  <2>1. PICK file \in Damaged(bundle.files[t]) : bundle' = [bundle EXCEPT !.files[t] = file]
    BY <1>2 DEF DamageBundle
  <2>2. t \in DOMAIN bundle.files /\ exported' = exported /\ rehearsed' = rehearsed /\ tool' = tool
    BY <1>2 DEF DamageBundle, history
  <2>3. FileIn(file, exported)
    BY <2>2, DamagedFile
  <2> QED BY <2>1, <2>2, <2>3
<1> QED BY <1>1, <1>2

\* All other steps leave the bundle alone.
LEMMA BundleLeft ==
  ASSUME Next,
         ~(\E review \in reviews \cup {None} : PackageBegin(review)),
         ~WriteFiles, ~WriteEvidence, ~WriteRest, ~WriteManifest,
         ~(\E t \in Tasks : \E binding : Rebind(t, binding)),
         ~(\E t \in Tasks : DamageBundle(t))
  PROVE  bundle' = bundle
BY DEF Next, Survey, Export, VerifyRuntimes, Package, Launch, Others, files,
       SurveyBegin, SurveyTask, SurveyEnd, ExportBegin, ExportTask, ExportManifest,
       RehearseControl, VerifyBegin, PrepareParent, Build, ComparePrepared, Conclude, Rehearse,
       VerifyStepFails, VerifyEnd, Verify, LaunchBegin, LaunchPlain, LaunchPrepared, Start, Stop,
       EditCode, EditRegistry, Retag, EditExecution, DamageRecord

\* A package in the making has no manifest and keeps to what it began with.
LEMMA PackageStays ==
  ASSUME TrailInv, Next
  PROVE  PackageInv'
<1> USE DEF TrailInv, BaselineInv
<1>1. CASE tool'.name # "package"
  BY <1>1 DEF PackageInv, Running
<1>2. ASSUME tool' = tool, bundle'.control = bundle.control,
             bundle.manifest = None => bundle'.manifest = None
      PROVE  PackageInv'
  BY <1>2, HistoryGrows, Grown DEF PackageInv, Running
<1>3. ASSUME NEW review \in reviews \cup {None}, PackageBegin(review)
      PROVE  PackageInv'
  BY <1>3, PackageBegins
<1>4. CASE WriteFiles \/ WriteEvidence \/ WriteRest
  BY <1>4, PackageSteps DEF PackageInv
<1>5. CASE WriteManifest
  BY <1>1, <1>5 DEF WriteManifest, Idle
<1>6. CASE \/ \E t \in Tasks : \E binding : Rebind(t, binding)
           \/ \E t \in Tasks : DamageBundle(t)
  BY <1>2, <1>6, BundleEdits
<1>7. CASE Verify
  BY <1>2, <1>7 DEF Verify, files
<1>8. CASE tool' = tool /\ bundle' = bundle
  BY <1>2, <1>8
<1> QED
  BY <1>1, <1>3, <1>4, <1>5, <1>6, <1>7, <1>8, BundleLeft, ShapeStays DEF Hands, Package, Idle

\* A bundle with a manifest, edited or damaged since, has the evidence it was made with.
LEMMA BundleStays ==
  ASSUME TrailInv, Next
  PROVE  BundleInv'
<1> USE DEF TrailInv
<1>1. CASE bundle' = bundle
  BY <1>1, HistoryGrows, Grown DEF BundleInv
<1>2. ASSUME NEW review \in reviews \cup {None}, PackageBegin(review)
      PROVE  BundleInv'
  <2>1. bundle' = EmptyBundle
    BY <1>2 DEF PackageBegin
  <2> QED BY <2>1 DEF BundleInv, EmptyBundle
<1>3. CASE WriteFiles
  <2>1. /\ Running("package") /\ exported' = exported /\ rehearsed' = rehearsed
        /\ bundle'.manifest = None /\ DOMAIN bundle' = DOMAIN bundle
        /\ bundle'.control = bundle.control \/ bundle'.control = tool.control
        /\ \/ bundle'.review = bundle.review
           \/ bundle'.review = tool.review
    BY <1>3, PackageSteps
  <2> DEFINE pieces == [t \in {Control} \cup tool.pilot |->
                          [RecordFile(tool.specs[t]) EXCEPT !.report = store.files[t].report]]
  <2>2. bundle' = [bundle EXCEPT !.files = pieces]
    BY <1>3 DEF WriteFiles
  <2>3. ASSUME NEW t \in DOMAIN pieces
        PROVE  FileIn(pieces[t], exported)
    <3>1. t \in DOMAIN tool.specs /\ tool.specs[t] \in exported
      BY <2>1, <2>3 DEF PackageInv
    <3>2. /\ DOMAIN pieces[t] = {"spec", "claimed", "report"}
          /\ pieces[t].claimed = tool.specs[t]
      BY <2>3 DEF RecordFile
    <3> QED BY <3>1, <3>2 DEF FileIn
  <2> HIDE DEF pieces
  <2>4. bundle'.files = pieces
    BY <2>2 DEF BundleInv
  <2> QED BY <2>1, <2>3, <2>4 DEF BundleInv, PackageInv
<1>4. CASE ~WriteFiles /\ (WriteEvidence \/ WriteRest)
  <2>1. /\ Running("package") /\ exported' = exported /\ rehearsed' = rehearsed
        /\ bundle'.manifest = None /\ DOMAIN bundle' = DOMAIN bundle
        /\ bundle'.files = bundle.files
        /\ bundle'.review = bundle.review \/ bundle'.review = tool.review
    BY <1>4, PackageSteps
  <2> QED BY <2>1 DEF BundleInv, PackageInv
<1>5. CASE WriteManifest
  <2> DEFINE manifest == [hashes |-> Parts(bundle), pilot |-> tool.pilot, image |-> tool.control.image]
  <2>1. /\ Running("package") /\ tool.step = "manifest"
        /\ bundle' = [bundle EXCEPT !.manifest = manifest]
        /\ exported' = exported /\ rehearsed' = rehearsed
    BY <1>5 DEF WriteManifest, Packaging, history
  <2>2. /\ DOMAIN manifest = {"hashes", "pilot", "image"}
        /\ manifest.pilot = tool.pilot /\ manifest.image = tool.control.image
    OBVIOUS
  <2> HIDE DEF manifest
  <2>3. bundle.control = tool.control /\ SoundIn(tool.control, rehearsed) /\ Control \notin tool.pilot
    BY <2>1 DEF PackageInv
  <2> QED BY <2>1, <2>2, <2>3 DEF BundleInv
<1>6. CASE \/ \E t \in Tasks : \E binding : Rebind(t, binding)
           \/ \E t \in Tasks : DamageBundle(t)
  BY <1>6, BundleEdits
<1> QED BY <1>1, <1>2, <1>3, <1>4, <1>5, <1>6, BundleLeft

\* A bundle that verifies rests on what was exported and rehearsed.
LEMMA VerifiedBundle ==
  ASSUME TrailInv, VerifyBundle(bundle)
  PROVE  /\ \A t \in DOMAIN bundle.files : bundle.files[t].spec \in exported
         /\ bundle.manifest.pilot \cap (Pilot.exposed \cup {Control}) = {}
         /\ \A t \in DOMAIN bundle.runtime :
              LET spec == bundle.files[t].spec
                  image == bundle.runtime[t].image
              IN  <<spec, image>> \in rehearsed /\ KeepsLayers(image, spec.image)
<1> USE DEF TrailInv, BundleInv
<1>1. ASSUME NEW t \in DOMAIN bundle.files
      PROVE  bundle.files[t].spec \in exported
  BY LoadedFile DEF VerifyBundle
<1>2. bundle.manifest # None /\ SoundIn(bundle.control, rehearsed) /\ bundle.manifest.image = bundle.control.image
  BY DEF VerifyBundle
<1>3. bundle.manifest.pilot \cap (Pilot.exposed \cup {Control}) = {}
  BY DEF VerifyBundle
<1>4. /\ <<bundle.files[Control].spec, bundle.runtime[Control].image>> \in rehearsed
      /\ KeepsLayers(bundle.runtime[Control].image, bundle.files[Control].spec.image)
  <2>1. bundle.control.status = "pass" /\ bundle.control.spec = bundle.files[Control].spec
    BY DEF VerifyBundle, ItemAllowed
  <2>2. bundle.runtime[Control].image = bundle.control.image
    BY <1>2 DEF VerifyBundle, BindingsAllowed
  <2> QED BY <1>2, <2>1, <2>2 DEF SoundIn
<1>5. ASSUME NEW t \in Reviewed(bundle)
      PROVE  /\ <<bundle.files[t].spec, bundle.runtime[t].image>> \in rehearsed
             /\ KeepsLayers(bundle.runtime[t].image, bundle.files[t].spec.image)
  <2>1. bundle.review # None /\ t \in bundle.manifest.pilot
    BY <1>5 DEF Reviewed
  <2>2. t \in DOMAIN bundle.review /\ ItemAllowed(bundle.review[t], Contents(bundle.files)[t])
        /\ t \in DOMAIN bundle.files
    BY <2>1 DEF VerifyBundle, ReviewAllowed
  <2>3. bundle.review[t].status = "pass" /\ bundle.review[t].spec = bundle.files[t].spec
    BY <2>2 DEF ItemAllowed, Contents
  <2>4. bundle.runtime[t].image = bundle.review[t].image
    <3>1. bundle.runtime[t] = BindingOf(bundle.review[t])
      BY <1>5 DEF VerifyBundle, BindingsAllowed
    <3> QED BY <3>1 DEF BindingOf
  <2>5. SoundIn(bundle.review[t], rehearsed)
    BY <2>1, <2>2
  <2> QED BY <2>3, <2>4, <2>5 DEF SoundIn
<1>6. DOMAIN bundle.runtime = {Control} \cup Reviewed(bundle)
  BY DEF VerifyBundle, BindingsAllowed
<1> QED BY <1>1, <1>3, <1>4, <1>5, <1>6

\* What was accepted rested on evidence when it was, and does now.
LEMMA AcceptedStays ==
  ASSUME TrailInv, Next
  PROVE  BundleRestsOnEvidence'
<1>1. CASE accepted' = accepted
  BY <1>1, HistoryGrows DEF TrailInv, BundleRestsOnEvidence, KeepsLayers
<1>2. CASE Verify
  <2>1. /\ VerifyBundle(bundle) /\ accepted' = bundle
        /\ exported' = exported /\ rehearsed' = rehearsed
    BY <1>2 DEF Verify
  <2> QED BY <2>1, VerifiedBundle DEF BundleRestsOnEvidence, KeepsLayers
<1> QED
  BY <1>1, <1>2
  DEF Next, Survey, Export, VerifyRuntimes, Package, Launch, Others, history,
      SurveyBegin, SurveyTask, SurveyEnd, ExportBegin, ExportTask, ExportManifest,
      RehearseControl, VerifyBegin, PrepareParent, Build, ComparePrepared, Conclude, Rehearse,
      VerifyStepFails, VerifyEnd, PackageBegin, WriteFiles, WriteEvidence, WriteRest, WriteManifest,
      LaunchBegin, LaunchPlain, LaunchPrepared, Start, Stop, EditCode, EditRegistry, Retag,
      EditExecution, DamageRecord, Rebind, DamageBundle

----------------------------------------------------------------------------
(* Launches.                                                               *)

\* A launch begins with a record that loads, and starts what was verified.
LEMMA LaunchStays ==
  ASSUME TrailInv, Next
  PROVE  LaunchInv'
<1> USE DEF TrailInv
<1>1. CASE launched' = launched
  <2>1. LaunchIsVerified'
    BY <1>1, HistoryGrows DEF LaunchInv, LaunchIsVerified, KeepsLayers, KeepsTools
  <2>2. CASE tool' = tool
    BY <2>1, <2>2, HistoryGrows DEF LaunchInv, Running
  <2>3. CASE tool'.name # "launch"
    BY <2>1, <2>3 DEF LaunchInv, Running
  <2>4. ASSUME NEW file, NEW checkout, LaunchBegin(file, checkout), FileIn(file, exported)
        PROVE  LaunchInv'
    <3>1. /\ tool'.spec = file.spec /\ LoadAllowed(file)
          /\ tool'.checkout = Source(file.spec.task)
      BY <2>4 DEF LaunchBegin, PreflightAllowed
    <3>2. file.spec \in exported'
      BY <2>4, <3>1, LoadedFile, HistoryGrows
    <3> QED BY <2>1, <3>1, <3>2 DEF LaunchInv
  <2>5. ASSUME NEW image, Start(image)
        PROVE  LaunchInv'
    BY <2>1, <2>5 DEF Start, Idle, LaunchInv, Running
  <2> QED
    BY <2>2, <2>3, <2>4, <2>5, ShapeStays
    DEF Hands, Launch, LaunchPlain, LaunchPrepared, StoreInv, BundleInv, BaselineInv, Idle
<1>2. ASSUME NEW image, Start(image), Running("launch"),
             \/ image = tool.spec.image
             \/ /\ <<tool.spec, image>> \in rehearsed
                /\ KeepsLayers(image, tool.spec.image) /\ KeepsTools(image, tool.spec.image)
      PROVE  LaunchInv'
  <2>1. /\ launched' = [spec |-> tool.spec, checkout |-> tool.checkout, image |-> image]
        /\ tool' = Idle
        /\ exported' = exported /\ rehearsed' = rehearsed
    BY <1>2 DEF Start
  <2>2. /\ launched'.spec = tool.spec /\ launched'.image = image
        /\ launched'.checkout = tool.checkout /\ tool'.name # "launch"
    BY <2>1 DEF Idle
  <2>3. tool.spec \in exported /\ tool.checkout = Source(tool.spec.task)
    BY <1>2 DEF LaunchInv
  <2> QED BY <1>2, <2>1, <2>2, <2>3 DEF LaunchInv, LaunchIsVerified, Running, KeepsLayers, KeepsTools
<1>3. CASE LaunchPlain
  BY <1>2, <1>3 DEF LaunchPlain
<1>4. ASSUME NEW review \in reviews, LaunchPrepared(bundle.runtime, review)
      PROVE  LaunchInv'
  <2> DEFINE t == tool.spec.task
             image == bundle.runtime[t].image
  <2>1. /\ Running("launch") /\ t \in DOMAIN review
        /\ VerifiedRuntime(tool.spec, bundle.runtime[t], review[t]) /\ Start(image)
    BY <1>4 DEF LaunchPrepared
  <2>2. review[t].status = "pass" /\ review[t].spec = tool.spec /\ review[t].image = image
    BY <2>1 DEF VerifiedRuntime
  <2>3. SoundIn(review[t], rehearsed)
    BY <2>1 DEF EvidenceInv
  <2>4. /\ <<tool.spec, image>> \in rehearsed
        /\ KeepsLayers(image, tool.spec.image) /\ KeepsTools(image, tool.spec.image)
    BY <2>2, <2>3 DEF SoundIn
  <2>5. PICK chosen : chosen = image
    OBVIOUS
  <2> HIDE DEF image
  <2> QED BY <1>2, <2>1, <2>4, <2>5
<1> QED
  BY <1>1, <1>3, <1>4
  DEF Next, Survey, Export, VerifyRuntimes, Package, Launch, Others, history,
      SurveyBegin, SurveyTask, SurveyEnd, ExportBegin, ExportTask, ExportManifest,
      RehearseControl, VerifyBegin, PrepareParent, Build, ComparePrepared, Conclude, Rehearse,
      VerifyStepFails, VerifyEnd, PackageBegin, WriteFiles, WriteEvidence, WriteRest, WriteManifest,
      Verify, LaunchBegin, Stop, EditCode, EditRegistry, Retag,
      EditExecution, DamageRecord, Rebind, DamageBundle

\* All parts of the trail together are kept by every step.
LEMMA TrailStays == TrailInv /\ [Next]_vars => TrailInv'
<1> SUFFICES ASSUME TrailInv, [Next]_vars PROVE TrailInv'
  OBVIOUS
<1>1. CASE Next
  BY <1>1, BaselineStays, StoreStays, EvidenceStays, VerifyStays, PackageStays, BundleStays,
     AcceptedStays, LaunchStays DEF TrailInv
<1>2. CASE UNCHANGED vars
  <2>1. BaselineInv'
    BY <1>2, BaselineStays DEF TrailInv
  <2>2. /\ store' = store /\ control' = control /\ reviews' = reviews /\ bundle' = bundle
        /\ accepted' = accepted /\ launched' = launched /\ exported' = exported
        /\ rehearsed' = rehearsed /\ tool' = tool
    BY <1>2 DEF vars, files, history
  <2>3. StoreInv' /\ EvidenceInv'
    BY <2>2 DEF TrailInv, StoreInv, EvidenceInv
  <2>4. VerifyInv'
    BY <2>2 DEF TrailInv, VerifyInv, Running
  <2>5. PackageInv'
    BY <2>2 DEF TrailInv, PackageInv, Running
  <2>6. BundleInv'
    BY <2>2 DEF TrailInv, BundleInv
  <2>7. BundleRestsOnEvidence' /\ LaunchInv'
    BY <2>2 DEF TrailInv, BundleRestsOnEvidence, LaunchInv, LaunchIsVerified, Running
  <2> QED BY <2>1, <2>3, <2>4, <2>5, <2>6, <2>7 DEF TrailInv
<1> QED BY <1>1, <1>2

\* The empty trail.
LEMMA InitTrail == Init => TrailInv
BY InitBaseline, NewTools
DEF Init, TrailInv, StoreInv, EvidenceInv, VerifyInv, PackageInv, BundleInv, EmptyBundle, NoStore,
    BundleRestsOnEvidence, LaunchInv, LaunchIsVerified, Running

----------------------------------------------------------------------------
(* The theorems.                                                           *)

\* Surveys, exports, edits of the setup code, the registry and the files of executions in
\* any order: a baseline was executed for an exported record, in the image it names and with
\* as many passing tests, and what else the record says of it is true unless the files that
\* say so were edited.
THEOREM RecordsAlwaysHaveBaselines == Spec => []RecordsHaveBaselines
<1>1. BaselineInv => RecordsHaveBaselines
  BY DEF BaselineInv, RecordsInv, Executed, Pinned, RecordsHaveBaselines
<1> QED BY InitBaseline, BaselineStays, <1>1, PTL DEF Spec

\* Whatever was damaged, rebound or left half-done: a bundle that verifies holds records
\* that were exported, of tasks nobody was exposed to, in images that were rehearsed.
THEOREM BundleAlwaysRestsOnEvidence == Spec => []BundleRestsOnEvidence
<1>1. TrailInv => BundleRestsOnEvidence
  BY DEF TrailInv
<1> QED BY InitTrail, TrailStays, <1>1, PTL DEF Spec

\* A shared run starts in its record's image or in one rehearsed with this very record.
THEOREM LaunchAlwaysVerified == Spec => []LaunchIsVerified
<1>1. TrailInv => LaunchIsVerified
  BY DEF TrailInv, LaunchInv
<1> QED BY InitTrail, TrailStays, <1>1, PTL DEF Spec

=============================================================================
