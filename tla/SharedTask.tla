----------------------------- MODULE SharedTask -----------------------------
(***************************************************************************)
(* What the tools around a shared DeepSWE task check before they rely on a *)
(* file: the record exported of it (shared_task.py, the exporter's checks), *)
(* the evidence of a prepared runtime (runtime_binding.py) and the bundle  *)
(* of a pilot (package_deepswe_pilot.py).                                  *)
(*                                                                         *)
(* A SHA-256 stands for what it is taken of: a claimed hash is the content *)
(* somebody claims.  An image is what it was made from.                    *)
(***************************************************************************)
EXTENDS Integers, Sequences, FiniteSets

CONSTANTS
  TaskOrder,   \* the tasks of the corpus, in its order
  Control,     \* the engineering control
  Pilot,       \* [languages, exposed, publishedOnly, excludeRepositories]: the proposal
  LanguageOf,  \* language of each task
  RepositoryOf,\* repository of each task
  Rank,        \* the fixed hash that orders tasks of a language
  Published,   \* published image of each task
  Profile,     \* profile of each task that environments.json may register
  Evidence,    \* what the verification file of such a task says of a run
  Images,      \* image IDs: published, registered and others
  Layered,     \* pairs <<i, j>>: i starts with the layers of j
  ToolsOf,     \* what the probe of a task's toolchain observes in each image
  Codes,       \* versions of the setup code on disk
  PlanOf,      \* [runner, targets] of each task that a version of the code plans
  CommandOf,   \* the command that a version of the code builds, its report and its limits
  Helm,        \* tasks whose images have the Helm fixtures
  Tests,       \* tests of a public suite
  None         \* what is absent

Tasks == {TaskOrder[i] : i \in DOMAIN TaskOrder}

ASSUME TasksAssumption ==
  /\ TaskOrder \in Seq(Tasks)
  /\ Control \in Tasks
  /\ Published \in [Tasks -> Images]
  /\ \A i \in Images : <<i, i>> \in Layered
  /\ \A s, t \in Tasks : s # t => Rank[s] # Rank[t]

----------------------------------------------------------------------------
(* Registered environments.                                                *)

\* How the recorded run may have ended: a usable baseline need not be all green.
Ends ==
  [assets    |-> {<<"pass", 0>>},
   cache     |-> {<<"pass", 0>>},
   relocated |-> {<<"pass", 0>>, <<"fail", 1>>},
   services  |-> {<<"fail", 1>>}]

\* _verify_cliffy() and the like: a run of the whole public schedule in exactly this
\* image; all but the first profile say what it was built on and how it was confined.
EvidenceAllowed(t, image) ==
  /\ t \in DOMAIN Profile
  /\ LET e == Evidence[t]
     IN  /\ e.image = image
         /\ <<e.status, e.exit>> \in Ends[Profile[t]]
         /\ e.full /\ e.passed > 0
         /\ Profile[t] = "cache" => e.failed = 0
         /\ Profile[t] # "assets" => e.parent = Published[t] /\ e.confined

\* Mutant: the evidence is for a task, whatever image it was taken in.
RegistryAllowedAnyImage(registry) ==
  \A t \in Tasks : registry[t] # None => t \in DOMAIN Profile /\ Evidence[t].full

\* load_environments()
RegistryAllowed(registry) ==
  \A t \in Tasks : registry[t] # None => EvidenceAllowed(t, registry[t])

----------------------------------------------------------------------------
(* Records.                                                                *)

\* environment_for(), runtime_task(): a registration substitutes the image.
EffectiveImage(t, registration) == IF registration = None THEN Published[t] ELSE registration

\* The files of a surveyed execution, which its row leads to: execution.json with the
\* image, the command and the tests that passed, and the native report.
ArtifactFiles == [image : Images, command : {CommandOf[c] : c \in Codes},
                  passing : SUBSET Tests, report : SUBSET Tests]

\* The schedule is the row's, or the reviewed one that has replaced it.
SameSchedule(t, old, new) ==
  /\ old.targets = new.targets
  /\ \/ old.runner = new.runner
     \/ t \in Helm /\ old.runner = "go" /\ new.runner = "helm-go"

\* Mutant: the image of the survey is not compared with the registered one.
BaselineAllowedAnywhere(row, t, registration, code) ==
  /\ row # None /\ row.status = "ready"
  /\ SameSchedule(t, row.plan, PlanOf[t][code])
  /\ row.artifacts.image = row.image
  /\ row.artifacts.report = row.artifacts.passing
  /\ Cardinality(row.artifacts.report) = row.passed

\* baseline(), build_record(): the survey's row is ready and of this schedule in this
\* image; its files agree with one another and with the counts in the row.  Hashes of the
\* files are compared as well if the row has any, and no row that a survey writes has.
BaselineAllowed(row, t, registration, code) ==
  /\ row # None /\ row.status = "ready"
  /\ SameSchedule(t, row.plan, PlanOf[t][code])
  /\ row.image = EffectiveImage(t, registration)
  /\ row.artifacts.image = row.image
  /\ row.artifacts.report = row.artifacts.passing
  /\ Cardinality(row.artifacts.report) = row.passed

\* build_record().  A baseline of another command is kept, and marked for review.
SpecOf(t, registration, code, row) ==
  [task |-> t, registration |-> registration, image |-> EffectiveImage(t, registration),
   code |-> code, command |-> CommandOf[code], passing |-> row.artifacts.report,
   matching |-> row.artifacts.command = CommandOf[code]]

\* task.json and the native report beside it.
RecordFile(spec) == [spec |-> spec, claimed |-> spec, report |-> "native"]

\* load_shared_task()
LoadAllowed(file) == file.claimed = file.spec /\ file.report = "native"

\* verify_workspace() of preflight_manifest(): the checkout is of the repository, at
\* the commit and tree the record names, and nothing else is in it.
Source(t) == [repository |-> RepositoryOf[t], pristine |-> TRUE]
PreflightAllowed(spec, checkout) == checkout = Source(spec.task)

Contents(files) == [t \in DOMAIN files |-> files[t].spec]

----------------------------------------------------------------------------
(* The selection of a pilot: by public eligibility and a fixed hash.       *)

ExposedRepositories == {RepositoryOf[t] : t \in Pilot.exposed}

Eligible(specs, language) ==
  {t \in DOMAIN specs :
     /\ LanguageOf[t] = language
     /\ t \notin Pilot.exposed \cup {Control}
     /\ Pilot.excludeRepositories => RepositoryOf[t] \notin ExposedRepositories
     /\ Pilot.publishedOnly => specs[t].registration = None}

Selectable(specs) == \A l \in Pilot.languages : Eligible(specs, l) # {}

Selected(specs) ==
  UNION {{t \in Eligible(specs, l) : \A u \in Eligible(specs, l) : Rank[t] <= Rank[u]}
         : l \in Pilot.languages}

----------------------------------------------------------------------------
(* Prepared images and the evidence about them.                            *)

\* A build adds the core runtime to what its input tag names; it may spoil a tool.
Prepared(base, spoilt) == [base |-> base, spoilt |-> spoilt]

KeepsLayers(image, parent) == <<image.base, parent>> \in Layered
KeepsTools(image, parent)  == ~image.spoilt /\ ToolsOf[image.base] = ToolsOf[parent]

\* result.json of one task; pair is the spec the rehearsal read, the image it ran and
\* whether both sides agreed.
Item(spec, image, status, pair) ==
  [spec |-> spec, parent |-> spec.image, image |-> image, status |-> status, pair |-> pair]

ItemAllowed(item, spec) ==
  /\ item.status = "pass"
  /\ item.spec = spec
  /\ item.parent = spec.image
  /\ item.pair # None /\ item.pair.match
  /\ item.pair.spec = spec
  /\ item.pair.image = item.image

\* validate_pilot_runtimes(): exactly the selected tasks, each with its own evidence.
ReviewAllowed(specs, pilot, review) ==
  /\ DOMAIN review = pilot
  /\ \A t \in pilot : ItemAllowed(review[t], specs[t])

BindingOf(item) == [parent |-> item.parent, image |-> item.image]

\* Mutant: evidence is for a task, whatever its record says.
VerifiedRuntimeOfTask(spec, binding, item) ==
  /\ item.status = "pass"
  /\ binding.parent = spec.image /\ item.parent = binding.parent
  /\ item.image = binding.image
  /\ item.pair # None /\ item.pair.match /\ item.pair.image = binding.image

\* verified_runtime()
VerifiedRuntime(spec, binding, item) ==
  /\ item.status = "pass"
  /\ item.spec = spec
  /\ binding.parent = spec.image /\ item.parent = binding.parent
  /\ item.image = binding.image
  /\ item.pair # None /\ item.pair.match /\ item.pair.image = binding.image

----------------------------------------------------------------------------
(* Bundles.  A part that is not written yet, or was taken away, is None.   *)

EmptyBundle ==
  [files |-> <<>>, control |-> None, review |-> None, runtime |-> None, rest |-> None,
   manifest |-> None]

Parts(bundle) == [bundle EXCEPT !.manifest = None]

\* The tasks with evidence of their own.
Reviewed(bundle) == IF bundle.review = None THEN {} ELSE bundle.manifest.pilot

\* Mutant: what runtime.json binds is not compared with the evidence.
BindingsAllowedByTask(bundle) == DOMAIN bundle.runtime = {Control} \cup Reviewed(bundle)

BindingsAllowed(bundle) ==
  /\ DOMAIN bundle.runtime = {Control} \cup Reviewed(bundle)
  /\ \A t \in Reviewed(bundle) : bundle.runtime[t] = BindingOf(bundle.review[t])
  /\ bundle.runtime[Control].image = bundle.manifest.image

\* verify_bundle()
VerifyBundle(bundle) ==
  LET manifest == bundle.manifest
  IN  /\ manifest # None
      /\ manifest.hashes = Parts(bundle)
      /\ bundle.rest = "no live model"
      /\ DOMAIN bundle.files = {Control} \cup manifest.pilot
      /\ \A t \in DOMAIN bundle.files : LoadAllowed(bundle.files[t])
      /\ ItemAllowed(bundle.control, bundle.files[Control].spec)
      /\ bundle.review # None =>
           ReviewAllowed(Contents(bundle.files), manifest.pilot, bundle.review)
      /\ BindingsAllowed(bundle)
      /\ manifest.pilot \cap Pilot.exposed = {}
=============================================================================
