--------------------------- MODULE PilotPipeline ---------------------------
(***************************************************************************)
(* From a task's public baseline to a run in a prepared runtime: the tools *)
(* survey_deepswe, export_deepswe_task_specs, verify_deepswe_pilot_        *)
(* runtimes (which calls rehearse_shared_containers), package_deepswe_     *)
(* pilot and run_shared_deepswe_workflow, one after another or again from  *)
(* any point, each reading the files that others left.                     *)
(*                                                                         *)
(* A tool can fail or be killed between any two steps.  Meanwhile          *)
(* developers edit the setup code and the registry, other programs move    *)
(* tags, and files are damaged.                                            *)
(***************************************************************************)
EXTENDS SharedTask

CONSTANTS
  Registries,   \* what environments.json can register: an image or None for each task
  Choices,      \* what a survey is asked for: sequences of tasks, in the order of the corpus
  Outcomes,     \* what a suite can yield: sets of tests that pass
  Forgeries,    \* what somebody may put in the place of a surveyed execution's files
  MaxSurveys, MaxExports, MaxVerifications, MaxFaults    \* bounds

ASSUME RegistriesAssumption ==
  /\ Registries \subseteq [Tasks -> Images \cup {None}]
  /\ Outcomes \subseteq SUBSET Tests
  /\ Forgeries \subseteq ArtifactFiles

VARIABLES
  code,       \* version of the setup code on disk
  registry,   \* environments.json
  journal,    \* survey.jsonl: the latest row of each task
  store,      \* [files, inventory]: records_root, written by the exporter
  control,    \* the retained rehearsal of the engineering control
  reviews,    \* the contents results.json has had: task -> item
  bundle,     \* the bundle
  accepted,   \* history: the last bundle verify_bundle() accepted
  launched,   \* history: [spec, checkout, image] of the last shared run
  exported,   \* history: specs the exporter wrote
  executed,   \* history: [task, image, command, passing] of baselines with a passing test
  edits,      \* history: <<task, part>> of surveyed executions others have changed
  rehearsed,  \* history: <<spec, image>> both sides agreed on
  tool,       \* the tool that is running, with its memory
  spent       \* [surveys, exports, verifications, faults] against the bounds

files   == <<journal, store, control, reviews, bundle>>
history == <<accepted, launched, exported, executed, edits, rehearsed>>
vars    == <<code, registry, files, history, tool, spent>>

\* Failures, kills and everything others do count against one bound.
Fault  == spent.faults < MaxFaults /\ spent' = [spent EXCEPT !.faults = @ + 1]
Normal == UNCHANGED spent

Idle    == [name |-> "none"]
Running(name) == tool.name = name
NoStore == [files |-> <<>>, inventory |-> None]

Init ==
  /\ code \in Codes
  /\ registry \in Registries
  /\ journal = [t \in Tasks |-> None]
  /\ store = NoStore
  /\ control = None
  /\ reviews = {}
  /\ bundle = EmptyBundle
  /\ accepted = None
  /\ launched = None
  /\ exported = {} /\ executed = {} /\ edits = {} /\ rehearsed = {}
  /\ tool = Idle
  /\ spent = [surveys |-> 0, exports |-> 0, verifications |-> 0, faults |-> 0]

----------------------------------------------------------------------------
(* survey_deepswe.py                                                       *)

FailedRow == [status |-> "failed"]

\* Tasks with a row are passed over, unless --rerun is given.
ToSurvey(chosen, rerun) == SelectSeq(chosen, LAMBDA t : rerun \/ journal[t] = None)

\* The registry, the code and the recorded rows are those of the start of the process.
SurveyBegin(chosen, rerun) ==
  /\ Running("none")
  /\ spent.surveys < MaxSurveys
  /\ RegistryAllowed(registry)
  /\ tool' = [name |-> "survey", registry |-> registry, code |-> code,
              left |-> ToSurvey(chosen, rerun)]
  /\ spent' = [spent EXCEPT !.surveys = @ + 1]
  /\ UNCHANGED <<code, registry, files, history>>

\* One task: its suite ran and a test passed, or the row says what went wrong
\* (repository_failed, no_image, no_runner, no_passing_tests, survey_error, ...).
SurveyTask(passing) ==
  /\ Running("survey") /\ tool.left # <<>>
  /\ LET t     == Head(tool.left)
         image == EffectiveImage(t, tool.registry[t])
         run   == [task |-> t, image |-> image, command |-> CommandOf[tool.code], passing |-> passing]
         ready == [status |-> "ready", image |-> image, plan |-> PlanOf[t][tool.code],
                   passed |-> Cardinality(passing),
                   artifacts |-> [image |-> image, command |-> CommandOf[tool.code],
                                  passing |-> passing, report |-> passing]]
     IN  /\ journal' = [journal EXCEPT ![t] = IF passing # {} THEN ready ELSE FailedRow]
         /\ executed' = executed \cup (IF passing # {} THEN {run} ELSE {})
  /\ tool' = [tool EXCEPT !.left = Tail(@)]
  /\ IF passing # {} THEN Normal ELSE Fault
  /\ UNCHANGED <<code, registry, store, control, reviews, bundle, accepted, launched, exported,
                 edits, rehearsed>>

SurveyEnd ==
  /\ Running("survey") /\ tool.left = <<>>
  /\ tool' = Idle
  /\ UNCHANGED <<code, registry, files, history, spent>>

----------------------------------------------------------------------------
(* export_deepswe_task_specs.py                                            *)

\* The output is a new directory.
ExportBegin ==
  /\ Running("none")
  /\ spent.exports < MaxExports
  /\ RegistryAllowed(registry)
  /\ store' = NoStore
  /\ tool' = [name |-> "export", registry |-> registry, code |-> code,
              left |-> TaskOrder, errors |-> {}]
  /\ spent' = [spent EXCEPT !.exports = @ + 1]
  /\ UNCHANGED <<code, registry, journal, control, reviews, bundle, history>>

\* One task: its record and report, or an error that does not end the export.
ExportTask ==
  /\ Running("export") /\ tool.left # <<>>
  /\ LET t    == Head(tool.left)
         row  == journal[t]
         spec == SpecOf(t, tool.registry[t], tool.code, row)
         next == [tool EXCEPT !.left = Tail(tool.left)]
     IN  IF BaselineAllowed(row, t, tool.registry[t], tool.code)
           THEN /\ store' = [store EXCEPT !.files = [u \in DOMAIN @ \cup {t} |->
                               IF u = t THEN RecordFile(spec) ELSE @[u]]]
                /\ exported' = exported \cup {spec}
                /\ tool' = next
           ELSE /\ tool' = [next EXCEPT !.errors = @ \cup {t}]
                /\ UNCHANGED <<store, exported>>
  /\ UNCHANGED <<code, registry, journal, control, reviews, bundle, accepted, launched, executed,
                 edits, rehearsed, spent>>

ExportManifest ==
  /\ Running("export") /\ tool.left = <<>>
  /\ store' = [store EXCEPT !.inventory = [specs |-> Contents(store.files), errors |-> tool.errors]]
  /\ tool' = Idle
  /\ UNCHANGED <<code, registry, journal, control, reviews, bundle, history, spent>>

----------------------------------------------------------------------------
(* verify_deepswe_pilot_runtimes.py                                        *)

AllLoad(some) == \A t \in DOMAIN some : LoadAllowed(some[t])

\* The control is rehearsed by hand, once its record is there.
RehearseControl ==
  /\ Running("none")
  /\ Control \in DOMAIN store.files /\ LoadAllowed(store.files[Control])
  /\ LET spec  == store.files[Control].spec
         image == Prepared(spec.image, FALSE)
     IN  /\ control' = Item(spec, image, "pass", [spec |-> spec, image |-> image, match |-> TRUE])
         /\ control' # control
         /\ rehearsed' = rehearsed \cup {<<spec, image>>}
  /\ UNCHANGED <<code, registry, journal, store, reviews, bundle, accepted, launched, exported,
                 executed, edits, tool, spent>>

\* Every record that is there is loaded; that an export was complete is not asked.
VerifyBegin ==
  /\ Running("none")
  /\ spent.verifications < MaxVerifications
  /\ AllLoad(store.files)
  /\ LET specs == Contents(store.files)
     IN  /\ Selectable(specs)
         /\ tool' = [name |-> "verify", specs |-> specs, left |-> Selected(specs), step |-> "prepare",
                     task |-> None, tag |-> None, image |-> None, results |-> <<>>]
  /\ spent' = [spent EXCEPT !.verifications = @ + 1]
  /\ UNCHANGED <<code, registry, files, history>>

Verifying(step) == Running("verify") /\ tool.step = step

\* inspect(), probe() of the parent, and local_reference(): a tag for what is built on.
PrepareParent(t) ==
  /\ Verifying("prepare")
  /\ t \in tool.left
  /\ tool' = [tool EXCEPT !.task = t, !.left = @ \ {t}, !.tag = tool.specs[t].image, !.step = "build"]
  /\ UNCHANGED <<code, registry, files, history, spent>>

\* The build resolves the tag anew.
Build(spoilt) ==
  /\ Verifying("build")
  /\ tool' = [tool EXCEPT !.image = Prepared(tool.tag, spoilt), !.step = "compare"]
  /\ IF spoilt THEN Fault ELSE Normal
  /\ UNCHANGED <<code, registry, files, history>>

\* results.json is written again after every task.
Conclude(item) ==
  LET results == [t \in DOMAIN tool.results \cup {tool.task} |->
                    IF t = tool.task THEN item ELSE tool.results[t]]
  IN  /\ tool' = [tool EXCEPT !.results = results, !.task = None, !.tag = None, !.image = None,
                              !.step = "prepare"]
      /\ reviews' = reviews \cup {results}
      /\ UNCHANGED <<code, registry, journal, store, control, bundle, accepted, launched, exported,
                     executed, edits>>

Blocked == Item(tool.specs[tool.task], tool.image, "blocked", None)

\* Layers and toolchain of the prepared image against the parent's.
ComparePrepared ==
  /\ Verifying("compare")
  /\ LET parent == tool.specs[tool.task].image
     IN  IF KeepsLayers(tool.image, parent) /\ KeepsTools(tool.image, parent)
           THEN /\ tool' = [tool EXCEPT !.step = "rehearse"]
                /\ UNCHANGED <<code, registry, files, history, spent>>
           ELSE Conclude(Blocked) /\ UNCHANGED <<rehearsed, spent>>

\* rehearse_shared_containers.py: it reads the record itself, runs the image on both
\* sides, and fails unless the containers and the probes agree.
Rehearse ==
  /\ Verifying("rehearse")
  /\ tool.task \in DOMAIN store.files /\ LoadAllowed(store.files[tool.task])
  /\ LET read == store.files[tool.task].spec
         pair == [spec |-> read, image |-> tool.image, match |-> TRUE]
     IN  /\ Conclude(Item(tool.specs[tool.task], tool.image, "pass", pair))
         /\ rehearsed' = rehearsed \cup {<<read, tool.image>>}
         /\ Normal

\* Any command of a task fails or the two sides differ: the next task is verified.
VerifyStepFails ==
  /\ Running("verify") /\ tool.task # None
  /\ Conclude(Blocked) /\ Fault
  /\ UNCHANGED rehearsed

VerifyEnd ==
  /\ Verifying("prepare") /\ tool.left = {}
  /\ tool' = Idle
  /\ UNCHANGED <<code, registry, files, history, spent>>

----------------------------------------------------------------------------
(* package_deepswe_pilot.py                                                *)

\* build_bundle() until the output directory is made; the evidence is optional.
PackageBegin(review) ==
  /\ Running("none")
  /\ store.inventory # None /\ store.inventory.errors = {}
  /\ DOMAIN store.inventory.specs = Tasks
  /\ AllLoad(store.files) /\ Contents(store.files) = store.inventory.specs
  /\ LET specs == store.inventory.specs
         pilot == Selected(specs)
     IN  /\ Selectable(specs)
         /\ control # None /\ ItemAllowed(control, specs[Control])
         /\ review # None => ReviewAllowed(specs, pilot, review)
         /\ tool' = [name |-> "package", specs |-> specs, pilot |-> pilot, control |-> control,
                     review |-> review, step |-> "files"]
  /\ bundle' = EmptyBundle
  /\ UNCHANGED <<code, registry, journal, store, control, reviews, history, spent>>

Packaging(step) == Running("package") /\ tool.step = step
Goto(step) == tool' = [tool EXCEPT !.step = step]

\* The records as loaded, with the reports as they are by now.
WriteFiles ==
  /\ Packaging("files")
  /\ bundle' = [bundle EXCEPT !.files =
       [t \in {Control} \cup tool.pilot |->
          [RecordFile(tool.specs[t]) EXCEPT !.report = store.files[t].report]]]
  /\ Goto("evidence")
  /\ UNCHANGED <<code, registry, journal, store, control, reviews, history, spent>>

WriteEvidence ==
  /\ Packaging("evidence")
  /\ bundle' = [bundle EXCEPT !.control = tool.control, !.review = tool.review,
       !.runtime = [t \in {Control} \cup (IF tool.review = None THEN {} ELSE tool.pilot) |->
                      IF t = Control THEN BindingOf(tool.control) ELSE BindingOf(tool.review[t])]]
  /\ Goto("rest")
  /\ UNCHANGED <<code, registry, journal, store, control, reviews, history, spent>>

\* Proposal, configurations and README; no model is enabled.
WriteRest ==
  /\ Packaging("rest")
  /\ bundle' = [bundle EXCEPT !.rest = "no live model"]
  /\ Goto("manifest")
  /\ UNCHANGED <<code, registry, journal, store, control, reviews, history, spent>>

\* The manifest is last, and takes its hashes from the disk.
WriteManifest ==
  /\ Packaging("manifest")
  /\ bundle' = [bundle EXCEPT !.manifest =
       [hashes |-> Parts(bundle), pilot |-> tool.pilot, image |-> tool.control.image]]
  /\ tool' = Idle
  /\ UNCHANGED <<code, registry, journal, store, control, reviews, history, spent>>

\* package_deepswe_pilot.py verify, which build_bundle() ends with as well
Verify ==
  /\ Running("none")
  /\ VerifyBundle(bundle)
  /\ accepted' = bundle
  /\ UNCHANGED <<code, registry, files, launched, exported, executed, edits, rehearsed, tool, spent>>

----------------------------------------------------------------------------
(* run_shared_deepswe_workflow.py                                          *)

\* What --source-repository may give a checkout of.
Checkouts == [repository : {RepositoryOf[t] : t \in Tasks}, pristine : BOOLEAN]

\* load_shared_task(), resolve(), preflight_manifest() in a checkout of the base.
LaunchBegin(file, checkout) ==
  /\ Running("none")
  /\ LoadAllowed(file)
  /\ RegistryAllowed(registry)
  /\ LET spec == file.spec
     IN  /\ spec.registration = registry[spec.task]
         /\ spec.image = EffectiveImage(spec.task, registry[spec.task])
         /\ spec.code = code
         /\ spec.command = CommandOf[code]
         /\ PreflightAllowed(spec, checkout)
         /\ tool' = [name |-> "launch", spec |-> spec, checkout |-> checkout]
  /\ UNCHANGED <<code, registry, files, history, spent>>

Start(image) ==
  /\ launched' = [spec |-> tool.spec, checkout |-> tool.checkout, image |-> image]
  /\ tool' = Idle
  /\ UNCHANGED <<code, registry, files, accepted, exported, executed, edits, rehearsed, spent>>

\* No registry is given: the record's own image.
LaunchPlain ==
  /\ Running("launch")
  /\ Start(tool.spec.image)

\* A registry and evidence are given, wherever they are from.
LaunchPrepared(runtime, review) ==
  LET t == tool.spec.task
  IN  /\ Running("launch")
      /\ runtime # None /\ t \in DOMAIN runtime
      /\ t \in DOMAIN review
      /\ VerifiedRuntime(tool.spec, runtime[t], review[t])
      /\ Start(runtime[t].image)

\* A step of a tool fails, or it is killed.
Stop ==
  /\ ~Running("none")
  /\ tool' = Idle
  /\ Fault
  /\ UNCHANGED <<code, registry, files, history>>

----------------------------------------------------------------------------
(* Everybody else.                                                         *)

EditCode ==
  /\ Fault
  /\ code' \in Codes \ {code}
  /\ UNCHANGED <<registry, files, history, tool>>

EditRegistry ==
  /\ Fault
  /\ registry' \in Registries \ {registry}
  /\ UNCHANGED <<code, files, history, tool>>

\* Another program moves the tag the build is about to resolve.
Retag(i) ==
  /\ Fault
  /\ Verifying("build") /\ i # tool.tag
  /\ tool' = [tool EXCEPT !.tag = i]
  /\ UNCHANGED <<code, registry, files, history>>

\* Somebody edits or replaces files of a surveyed execution.
EditExecution(t) ==
  /\ Fault
  /\ journal[t] # None /\ journal[t].status = "ready"
  /\ \E forged \in Forgeries \ {journal[t].artifacts} :
       /\ journal' = [journal EXCEPT ![t].artifacts = forged]
       /\ edits' = edits \cup {<<t, part>> : part \in {f \in {"command", "passing", "report"} :
                                                        forged[f] # journal[t].artifacts[f]}}
  /\ UNCHANGED <<code, registry, store, control, reviews, bundle, accepted, launched, exported,
                 executed, rehearsed, tool>>

\* A record or a report is damaged.
Damaged(file) ==
  {[file EXCEPT !.report = "damaged"]} \cup {[file EXCEPT !.spec.image = i] : i \in Images \ {file.spec.image}}

DamageRecord(t) ==
  /\ Fault
  /\ t \in DOMAIN store.files
  /\ \E file \in Damaged(store.files[t]) : store' = [store EXCEPT !.files[t] = file]
  /\ UNCHANGED <<code, registry, journal, control, reviews, bundle, history, tool>>

\* Somebody edits runtime.json, and may bring the manifest up to date.
Rebind(t, binding) ==
  LET edited == [bundle EXCEPT !.runtime[t] = binding]
  IN  /\ Fault
      /\ bundle.manifest # None /\ t \in DOMAIN bundle.runtime /\ binding # bundle.runtime[t]
      /\ \/ bundle' = edited
         \/ bundle' = [edited EXCEPT !.manifest.hashes = Parts(edited)]
      /\ UNCHANGED <<code, registry, journal, store, control, reviews, history, tool>>

DamageBundle(t) ==
  /\ Fault
  /\ t \in DOMAIN bundle.files
  /\ \E file \in Damaged(bundle.files[t]) : bundle' = [bundle EXCEPT !.files[t] = file]
  /\ UNCHANGED <<code, registry, journal, store, control, reviews, history, tool>>

----------------------------------------------------------------------------
Survey ==
  \/ \E chosen \in Choices, rerun \in BOOLEAN : SurveyBegin(chosen, rerun)
  \/ \E passing \in Outcomes : SurveyTask(passing)
  \/ SurveyEnd

Export == ExportBegin \/ ExportTask \/ ExportManifest

VerifyRuntimes ==
  \/ RehearseControl \/ VerifyBegin \/ ComparePrepared \/ Rehearse \/ VerifyStepFails \/ VerifyEnd
  \/ \E t \in Tasks : PrepareParent(t)
  \/ \E spoilt \in BOOLEAN : Build(spoilt)

Package ==
  \/ \E review \in reviews \cup {None} : PackageBegin(review)
  \/ WriteFiles \/ WriteEvidence \/ WriteRest \/ WriteManifest \/ Verify

Launch ==
  \/ \E checkout \in Checkouts :
       \/ \E t \in DOMAIN store.files : LaunchBegin(store.files[t], checkout)
       \/ \E t \in DOMAIN bundle.files : LaunchBegin(bundle.files[t], checkout)
  \/ LaunchPlain
  \/ \E review \in reviews : LaunchPrepared(bundle.runtime, review)

Others ==
  \/ EditCode \/ EditRegistry
  \/ \E i \in Images : Retag(i)
  \/ \E t \in Tasks : EditExecution(t) \/ DamageRecord(t) \/ DamageBundle(t)
  \/ \E t \in Tasks, item \in UNION {{r[u] : u \in DOMAIN r} : r \in reviews} \cup ({control} \ {None}) :
       Rebind(t, BindingOf(item))

Next == Survey \/ Export \/ VerifyRuntimes \/ Package \/ Launch \/ Stop \/ Others

Spec == Init /\ [][Next]_vars

----------------------------------------------------------------------------
(* Properties.                                                             *)

\* Whatever was surveyed, exported, registered or edited in between, a baseline was executed
\* for every exported record, in the image the record names, with as many tests that passed
\* as it says.  They are these tests unless both files of the execution were edited, and a
\* record that says "matching" names the command that was executed unless execution.json
\* was: no check would see either.  The image is the published one or has evidence of its own
\* (load_environments).
RecordsHaveBaselines ==
  \A spec \in exported :
    /\ \E e \in executed :
         /\ e.task = spec.task /\ e.image = spec.image
         /\ Cardinality(e.passing) = Cardinality(spec.passing)
         /\ e.passing = spec.passing \/ {<<spec.task, "passing">>, <<spec.task, "report">>} \subseteq edits
         /\ spec.matching => e.command = spec.command \/ <<spec.task, "command">> \in edits
    /\ spec.image = Published[spec.task] \/ EvidenceAllowed(spec.task, spec.image)

\* A bundle that verifies, built whole or after a kill, damaged or edited since, holds
\* exported records of a control and of unexposed pilot tasks; a pilot task that has a
\* runtime has one that was rehearsed with its very record, on layers of its image.
BundleRestsOnEvidence ==
  accepted # None =>
    /\ \A t \in DOMAIN accepted.files : accepted.files[t].spec \in exported
    /\ accepted.manifest.pilot \cap (Pilot.exposed \cup {Control}) = {}
    /\ \A t \in DOMAIN accepted.runtime :
         LET spec == accepted.files[t].spec
             image == accepted.runtime[t].image
         IN  <<spec, image>> \in rehearsed /\ KeepsLayers(image, spec.image)

\* A shared run uses a record that was exported, in a pristine checkout of its source,
\* and in its image or in one that was built on that image, keeps its tools and was
\* rehearsed with this record.
LaunchIsVerified ==
  launched # None =>
    /\ launched.spec \in exported
    /\ launched.checkout = Source(launched.spec.task)
    /\ \/ launched.image = launched.spec.image
       \/ /\ <<launched.spec, launched.image>> \in rehearsed
          /\ KeepsLayers(launched.image, launched.spec.image)
          /\ KeepsTools(launched.image, launched.spec.image)
=============================================================================
