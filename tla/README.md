# Formal verification of Agentless-ML

TLA+ models of the controller in `src/src/agentless_ml` and of the tools in `src/tools`
that prepare, package, launch and score its runs, checked with TLC on small instances and,
where it pays, proved with TLAPS for every value of the constants. Paths below are relative
to the package unless they start with `docs/` or `tools/`.

## The system

Agentless-ML repairs a repository in a fixed sequence of stages. One process, one
thread, drives everything: it prepares evidence on the unpatched revision, asks a
model for text, turns repair texts into patches, validates each patch in a fresh
workspace and a fresh container per command, and selects one. There is no retry and
no feedback from validation to the model. What is concurrent is outside the process:
the clock, the worker process that talks to the provider, the Docker daemon and the
container, other processes of the same machine that prepare the same repository, an
editor that watches it, and other programs that check out the corpus anew or pull images.
Around the controller stand tools that run one after another, days apart, and trust only
files and hashes: from a survey of baselines over exported records, rehearsed runtimes and
a packaged bundle to a launch, and from a patch to its score.

| Component | State | Operations | Talks to | What makes it correct |
| --- | --- | --- | --- | --- |
| Attempt budget (`attempt_budget.py`) | start, excluded time, processed tokens, content ledger `_seen`, stop reason | start, check, charge, observe_request, observe_response, exclude_baseline | called by the controller and the budget runner | the deadline is work time; content counts once; the first refusal is final |
| Model requests (`workflow/fixed.py` `ask`, `workflow/subscription.py`) | calls, artifacts of each call, `budget.json` | ask, complete | budget, worker process | no request after a refusal; the record equals what was charged; each request ends |
| Budget runner (`budget_runner.py`) | the patched `_docker` of the inner runner | run | budget, Docker runner | a verdict is never blamed on the clamp; `_docker` is restored |
| Docker runner (`validation/docker.py`) | container, snapshot, artifacts | run | Docker daemon | a verdict is earned; the container is gone; every run ends |
| Candidate validation (`validation/pipeline.py`) | evidence of one candidate | validate_candidate | workspaces, runner | each eligible candidate has the whole schedule as evidence |
| Regression schedule (`validation/regression.py`, `schemas/prediction.py`) | baseline IDs, exclusions, frozen commands | baseline, exclusions, select_regression_commands, failure_count | runner, model | every candidate is counted in the same units; what failed before is not held against it |
| Reproduction evidence (`validation/reproduction.py`, `reproduction_evidence.py`) | generated samples, verified sources | parse, verify, select, overlay | runner, model | a reproduction fails on the original for the right reason; the overlay never replaces a file |
| Selection (`repair/selection.py`) | none | select_candidate | controller | errors are never evidence; the order of filters; ties go to the first appearance |
| Fixed workflow (`workflow/fixed.py`) | stage, artifacts of the run directory | run, run_live | everything above | one terminal record; nothing validated before all repairs are asked for |
| Workspaces (`workspace/local_git.py`) | owned directories, tracked paths | create, apply_candidate, close | git, file system | isolation; a failed patch leaves nothing behind; no removal of what is not owned |
| Sealed repositories (`workspace/prepare.py`) | a staging clone of each process, the destination, its record | prepare, verify | git, other processes, an editor | nothing after the base commit is in a trusted destination or can come back; a partial copy counts as ready only while someone works on it or after a copy or cleanup was cut short |
| Repair edits (`repair/edits.py`, `repair/patches.py`) | working text, shifted intervals | parse, apply, diff, normalize | controller | no edit outside the authorized lines; later edits see shifted lines |
| Localization and program structure (`localization/*`, `structure/*`, `adapters/languages/*`) | selected files, symbols, intervals of one run | parse a reply, resolve symbols, skeleton, context, intervals | controller | what a repair may edit is what its prompt shows |
| Test reports (`validation/reports.py`) | none | parse_report | Docker runner | an ambiguous report is an error; the merged outcome of a test is its worst |
| Scoring (`scoring/*`, `tools/score_*.py`) | evaluation directory, a container | score | corpus, git, verifier container | the patch runs in the pinned image only; disagreement of reward, report and exit is an error |
| Benchmarks and tasks (`adapters/benchmarks/*`, `schemas/*`) | none | load | corpus files | identity of the task; nothing after the pinned revision is read |
| Pilot pipeline (`shared_task.py`, `runtime_binding.py`, the tools that survey, export, verify, package and launch) | journal, records root, reviews, bundle | survey, export, verify, package, launch | files, Docker | every record rests on a baseline somebody ran, every launch on evidence for its very record |
| Reproduction adapters, provider worker, provisioning and diagnostics | none | | | see "Not modelled" |

### Hard behaviours

The list under `hazards` in `PROJECT.json` gives each with its line. In short: the
deadline passes between a check and its use; a reply, a charge and the ledger meet the
deadline; baselines and `start()` overlap; history is replayed; one candidate's failure
reaches another; cleanup fails while another error is in flight; several processes
seal one repository while an editor fetches into it; artifacts are written one after another
and the run stops between; the corpus, an image tag, the setup code or a file changes between
two tools that read it; two ways of counting lines meet in one interval.

## Modules

| Module | Models | State in the model and in the code | Actions and code |
| --- | --- | --- | --- |
| `Allowance` | the promise of a budget | whether a limit has been reached, the last answer | grant, refuse, work: nothing is granted once a limit has been reached |
| `AttemptBudget` | `attempt_budget.py` | `started`, `excluded`, `used`, `stop`, the ledger `seen` are the fields of the object; `now` is `clock()`; the entries of a payload still to be counted are the loop variable of `_observe` | `Start`, `Check`, `Charge`, `ObserveRequest/Response` with `CountEntry` and `EndObserve` (the loop of `_observe`), `BeginBaseline`/`EndBaseline` (the two halves of the context manager), `Tick` |
| `ModelCall` (extends `AttemptBudget`) | `ask()` in `workflow/fixed.py`, `complete()` in `workflow/subscription.py` | `phase` is where `ask()` stands, `calls` the files of the calls, `reported` the usage and `received` the entries of every `response.json`, `deadline` the timeout of the worker process, `ledger` what `budget.json` says | every step of `ask()` that reads the clock or a ledger is a step of its own; the provider answers, fails or is killed |
| `VotingKey` | `repair/patches.py`, the comment strippers of the adapters | operators only: a source is its pieces (functions with code and docstring, lines of code outside them, each in a class or none), its comments and its layout; a repair is the contents of the files it touches | `Stripped` (a file without comments), `CommentNormalizedDiff`, `VotingKey`; and, said without the key, `SameRepair` and `DifferentRepair` |
| `CandidateSelection` (extends `VotingKey`) | the candidate loop of `run()`, `validation/pipeline.py`, `repair/selection.py` | `attempts`, `candidates`, `text`, `evidence` are the variables of that name; `raised` is the exception on its way out of the workspace block | create, apply, each command, close, each with every exception it can raise; `Select` is the selection in one step, since it reads nothing but its argument |
| `TestVerdict` | `check_reproduction_result`, the classification in `docker.py`, `failure_count()` | operators only | shared by the next two modules |
| `RegressionSchedule` | the regression stage of `run()`, `validation/regression.py` | `baselines`, `excluded`, `schedule`, and `observed`, what the candidate at hand did | baselines in the order of the inventory, the exclusions a model asks for, the frozen commands, one candidate after another |
| `TestRun` | `DockerTestRunner.run` under `BudgetRunner.run` | `step` is the next call, `container` what Docker has under the name, `run` what the command did, `raising` the exception in flight | one step for each Docker call and for each way it can end, the `finally` clauses, the late completion of `docker create` |
| `SafeSnapshot` | `_snapshot()` with its helpers, the setup of Helm's fixtures (`validation/helm_fixtures.py`, `tools/deepswe_environments.py`) | operators only: a checkout is the links of HEAD and the entries on the host, which differ where Windows or a command has changed them | link validation turn by turn, what is archived and what refused, the fixtures made again in the container. The loop of the code is a function from the number of a turn to what is pending, resolved and spent; `MaxParts` bounds the components of one target (a path of 4095 bytes has no more than 4096) and so the turns |
| `SnapshotRun` | composes `TestRun` with it | `archive` is the temporary tar file, `work` is `/tmp/work` in the container until the command starts | archiving, extraction and setup as steps of a container run |
| `FixedWorkflow` | `run()`, `run_live()` | the stage, the frozen evidence, `runner`, the files of the run directory | one action for each stage, each request, each file written, an error or an interrupt at any of them, the handler of `run()` |
| `RepositoryTree` | paths, links and letter case of a base commit; what clashes with what | constants | shared by the next two |
| `RepairEdits` | `repair/edits.py`, `build_unified_diff` | `updated`, `intervals`, `taken` and the renames are the variables of `apply_search_replace_edits`; every line also carries the number it had in the file it comes from, which is history | one action for each kind of edit, `Refuse`, `Finish`, `BuildDiff` |
| `Workspace` | `workspace/local_git.py` | the entries of the owned directory, the index (`checkout`), the files that differ from it (`dirty`), `_attempted` | every git call of `create()` and `apply_candidate()` and how it fails, `close()` entry by entry, other programs that write |
| `CandidatePatch` | composes the two above | the patch a response was turned into is the one its workspace applies | |
| `TestReports` | `validation/reports.py` | operators only | formats, refused documents, statuses, ID policies with their collisions, families, the worst status of a repeated test |
| `ReportedSchedule` | composes `RegressionSchedule` with `TestReports` | `suite` is a command's declaration, `before` and `now` its documents on the unpatched revision and on the candidate | every baseline and every command of a candidate reads a document, and what the schedule counts is what `parse_report()` makes of it |
| `SealedRepository` | `workspace/prepare.py`, `tools/prepare_deepswe_repositories.py` | `pc` is where each process stands, `staging` its temporary clone, `dest` the destination: refs, stored objects, reflog, configuration | each git call of `_clone_and_seal` and each of the six checks of `verify_sealed_repository`, the move of `shutil.move` or its copy in two parts, cleanup, kill, a fetch by an editor |
| `BenchmarkTask` | the loaders of `adapters/benchmarks` | operators only | what makes a loader refuse a task, and what it takes over into the `TaskSpec` |
| `Scoring` (extends `BenchmarkTask`) | `scoring/*`, `tools/score_deepswe.py`, `tools/score_swe_bench_pro_v2.py` | `tree` is the working tree of the corpus, `seen` the files as hashed and as read, `task`, `container`, `run` what the verifier did, `status` of `score.json` | digest, hash, read, verifier material, image inspection, create, copy, start, export, remove, write; `CheckOut` and `Pull` by others between any two |
| `SharedTask` | `shared_task.py`, `runtime_binding.py`, the checks of the pilot's tools | operators only | what makes a record, a row of evidence or a bundle valid |
| `PilotPipeline` (extends `SharedTask`) | `survey_deepswe`, `export_deepswe_task_specs`, `verify_deepswe_pilot_runtimes`, `package_deepswe_pilot`, `run_shared_deepswe_workflow` | `journal`, `store`, `control`, `reviews` and `bundle` are the files the tools leave, `tool` the one at work; `executed`, `exported`, `rehearsed` and `edits` (of files of executions) are history | one action for each task a tool works through and for each file it writes, a failure or a kill at any of them; edits of code and registry, moved tags, damaged files, `Rebind` |
| `LanguageSpecs` | `structure/spec.py`, `adapters/languages/{go,rust,javascript}.py` | records only | the declarations, containers, members and bodies of each language |
| `ProgramStructure` | `structure/engine.py`, `structure/skeleton.py`, `adapters/languages/python.py` | operators only: a parse tree is a function from places (the numbers of the children on the way from the root) to nodes | `Walks`, the calls of `_walk()` that come by each node, which containers and wrappers above it have opened; the symbols found there with their edit regions; what of a file its skeleton shows |
| `Localization` | `localization/*`, the three localization stages of `run()` | `selected`, `nodes`, `coarse` and `repairPlan` are what each stage has fixed; intervals are sets of pairs, since merging sorts them; the symbols of a file are an input | one action for each reply: files, symbols, edit locations (one, or samples of it) |
| `LocalizedProgram` | composes the two above | the symbols, globals and top nodes of a file are those `ProgramStructure` finds in its tree (`TreesAssumption`) | |

`MC*` modules give constants their values. `*Proofs` modules hold theorems, with the
inductive invariant first and the reader's theorems last.

### What the models leave out on purpose

* **The budget is one bit** in `CandidateSelection`, `TestRun` and `FixedWorkflow`:
  `expired` may become true at any time and never goes back. `Allowance` states it,
  and `BudgetKeepsPromise` proves that `AttemptBudget` implements it.
* **A reply is what it parses to**: a result of the stage, or an error. Prompts,
  JSON and XML are left out. A report is a set of entries (`TestReports`), in the modules that
  do not read one a function from test IDs to outcomes.
* **Results of a stage are inputs of the next module.** `CandidateSelection` takes any
  result a container run may have, `TestRun` says which ones exist; `FixedWorkflow`
  takes a baseline as usable or not, `RegressionSchedule` says when it is.
* **SEARCH and REPLACE blocks are whole lines**, a file is a sequence of lines that
  each end in a line feed. The diff is the set of changes it describes, not its text.
* **A workspace sees tracked files and what is in their way.** Modes and
  links planted in the checkout are left out. A name is one both sides take, or one of `Reserved`,
  which `_safe_path` refuses and `_normalize_path` of the edits does not; names the edits refuse never
  get that far. Nobody but the workspace removes its marker.
* **History is what matters of a repository** in `SealedRepository`: a ref leads to the base
  commit, to a later one or nowhere, later commits are stored or not, the reflog names one or
  not. A clone with any number of branches and tags is like one with two of each. Of its files only
  two parts matter: what the six questions of a verification read of `.git`, and the checkout, which
  none of them reads. A `.git` that is there in part is taken for no repository: without `HEAD`,
  `refs` or `packed-refs` there is no base commit, without the configuration no lock, and missing
  objects are an error of `git fsck`. Parts no question reads (hooks, the index) count as checkout.
* **A hash is what it is taken of**, an image what it was made from, a corpus file what a loader
  tells apart in it. A claimed hash is the content somebody claims, so damage that goes
  unnoticed is damage no check looks at. The files of a surveyed execution have no hash in
  the row a survey writes; rows that somebody has added hashes to, which the exporter would
  compare, are left out. Their inventory is the set of tests that passed.
* **A snapshot keeps of a file where it is.** Contents, modes and owners are left out; so is whether the
  container has a `/dev/null` and lacks the targets of dangling fixtures: setup that fails ends the run.
* **A parse tree is an input** of `ProgramStructure`: the grammars are libraries. A node keeps
  what the code reads of it: its type, its field, its lines, a name. `IsGrammatical` says what is
  relied on: a file is no function, an assignment has a right side (the code asserts it), and the list of
  members of a declaration is no function either.

## Runs

All runs that pass search their whole state space. A run that must be able to stop
(the work of the controller is finite) says `CHECK_DEADLOCK FALSE`; the budget and
the requests are checked for deadlock as well, their ends being explicit steps.

| Run | What it asks | Instance |
| --- | --- | --- |
| `call_once_only` | requests under the budget, baselines between and over them, the ledger, the record on disk, refinement of `Allowance`, liveness | 404,068 states. Three requests: one before, one at and one after a limit; 2 seconds of 3, so that a baseline lies before, over or after the deadline; a reply can equal the prompt, another reply, or be empty; costs 1 and 2, so that a mix-up changes the sum; one token of usage is enough to overshoot |
| `select_samples` | samples with every failure, their evidence, the vote | 1,411,684 states. Three samples of two repairs: the smallest vote with a majority against the first appearance; one regression command and a reproduction, so that a fault can lie before, in and after the last command; zero or one failed units. The key of each sample is compared with the keys of some twenty repairs: other comments, layout, docstrings, new functions and lines in other places, in another class or under another name, files created, deleted, emptied, of another format, not to be parsed |
| `select_overlay` | finding 1 | two samples, one regression command and a reproduction, in a language other than Python (the repairs without docstrings) |
| `schedule` | what a candidate is counted for, from the reports as they are written | 21,379 states. A suite in one of five pairs of format and ID policy, with a test whose ID has a random part or a family, and a plain command that can name the same test; every document on the unpatched revision meets every document on a candidate |
| `run_command` | one command in a container | 129,097 states. Five kinds of commands (with a report or not, proven or not, reproduction or not) under three kinds of callers (without a budget, baseline, clamped), two tests; 396 checkouts, of which 32 archives come: links that are plain, lead on through others, out, into history or in circles (40 expansions are four here, and a target has at most four components), Helm's fixtures as pinned, at another commit and with one link more, each as checked out (links or placeholders) and with something missing, changed or untracked on the host |
| `run_docker_errors` | finding 2 | a proven command |
| `workflow` | two runs of one controller | 379,060 states. Six plans: live with all evidence and with little, recorded, legacy, and a bundle that lacks what the controller expects; two runs, because what the first leaves behind is seen only by a second |
| `candidate_patch` | a response of up to three edits, its patch, its workspace | 749,159 states. Nine paths: two localized files, one that is only tracked, a link, a path behind it, a directory of a file, two names that differ by case, and a name no checkout may hold. Three edits: the third sees intervals that two edits have moved, or a file renamed and edited before. One foreign write |
| `sealed` | one destination that several processes prepare and verify | 553,071 states. Three processes: one can verify while a second moves and a third cleans up; three kinds of clones (an upstream at rest, one that is pushed to, one without a HEAD); a destination that is empty, a plain clone, or sealed by hand without the lock |
| `score` | one patch scored by either benchmark's verifier | 917,196 states. Two tasks, so that a checkout can remove or exchange the one at hand; a pinned corpus in which all is well or one thing is refused, three other revisions, six combinations of what a pin states, three kinds of verifier material |
| `pilot` | the tools from the survey to the launch | 1,560,272 states. An engineering control, a pilot task and an exposed one: the three roles the tools tell apart; two surveys, two exports and two verifications, so that a file of an earlier pass meets one of a later; one fault (a kill, a failure, an edit, a moved tag, a damaged file) at any point. A suite of two tests of which one passes; the files of an execution come to name the other command, or the other test in one of them or in both; one task plans the reviewed Helm runner under the new code |
| `localize` | three localization stages in four languages | 4,679 states. One repository per language whose files have classes, receivers, nested functions, exports, a file that does not parse, files the two ways of counting lines disagree about; replies with known, ambiguous and unknown symbols, and lines at and beyond both ends |

Symmetry is used for the processes of `SealedRepository`: nothing orders them, and no property
singles one out.

### What the properties say

* **Budget and requests.** `BaselinesAreFree`: the work time the budget sees is the clock
  without the baselines, however they overlap `start()`. `CountedOnce`: content is counted at
  least as often as it occurred in the observed responses, and in one request, and at most as often
  as in both together. `KeepsPromise`: all this implements
  `Allowance`. `RecordIsComplete`: `budget.json` and the usage that the saved responses
  report agree with what was charged, at each point where `ask()` has returned or failed, and each
  reply received has been observed, but for a last one whose own charge was refused. `ProviderStopsAtDeadline` and
  `EveryRequestEnds`: a provider that never answers holds nobody up.
* **Candidates.** `SelectedIsVerified`: what is selected has a usable result of every
  command of the schedule. `RefusalIsFinal`: also when a failed cleanup swallows the
  refusal. `ErrorsCarryNoWeight`, `WinnerIsUnbeaten` (no rival has fewer
  failed units, or as many and passes the reproduction the winner fails, or equals it in both
  and has more votes) and `SupportKeepsWinner` (one more candidate whose repair leaves the winner's
  code is one more vote for it and does not unseat it; a repair that leaves other functions or lines,
  wherever they stand, never votes for it) compare the stage-by-stage selection and its key with
  what they are for. Between the two the key is the heuristic that `docs/repair-selection.md:83-85`
  calls it: of a Python repair that only adds functions it keeps the changed lines, so the same
  method added to another class or in another place short of the file's end has the same key, and
  the property says nothing of such a pair.
* **Schedule and reports.** `FailuresAreRegressions`: a candidate is counted for exactly the
  tests that passed before and do not now (that no test is in two commands, `TestsCountOnce`, is proved).
  `CountsRestOnEntries`: a usable result counts exactly the kept tests that the entries of the
  candidate's document do not show as passed, and the entries of the baseline's show as passed,
  through masking, families and repetition.
* **Container runs.** `VerdictIsEarned`: pass and fail are what the command did.
  `BudgetIsNeverBlamed`: what the end of the budget cut off is never a result.
  `ContainersAreRemoved`, `EveryRunEnds`. `CommandFindsCheckout`: the command sees the checkout it is
  to judge, with its links as committed and no history, and no link leads out or in a circle, also
  through other links, but the reviewed fixtures.
* **Workflow.** `SamplingIsPredetermined`, `EvidenceComesFirst`,
  `ValidationFeedsNothingBack`: the requests follow from the plan and never from a
  verdict. `PredictionHasItsTrail`, `RunTellsItsEnd`: files fit one another wherever the run
  stops.
* **Patches.** `AuthorizationMovesWithText`: exactly the authorized lines and the lines
  written into them can still be edited, whatever came before. `UnauthorizedLinesStay`:
  no other line is changed, removed, reordered or parted from its neighbour. `NewPathsHaveRoom`.
  `PatchIsTheRepair`: the changes of the diff, applied to the tree, give the edited files.
  `AppliedIsTheRepair`: a result "applied" means the checkout is the base commit with exactly
  this repair. `RepairsFitWorkspaces`: `edits.py` and `local_git.py` have the same idea of a
  path that may be added, but for names: a repair the edits allow is refused in an undisturbed
  checkout exactly if it adds a path with a name of `Reserved`.
* **Sealed repositories.** `TrustedIsSealed`: a destination that was verified, or came from a
  verified staging directory, holds no later commit, and none that a fetch could bring back.
  `PartialHasCause`: the verification cannot see that files of the checkout are missing, so the cleanup
  must leave nothing. Whatever fails in three processes, a partial checkout is reported as prepared
  only while some process still copies or cleans up, or after one was cut short there. That
  the code does report it then is listed below.
* **Scoring.** `RunsInPinnedImage`: whatever is checked out or pulled between the three reads of
  the corpus, a patch runs only in the image whose ID the pin states, under the reference the
  pinned verifier builds on. `VerdictIsVerifiers`: a verdict is one the verifier gave, by itself,
  on the applied patch. `ScoringLeavesNoContainer`.
* **Pilot.** `RecordsHaveBaselines`: for each exported record a baseline was executed in its
  image, with as many passing tests as it lists. Beyond that the files of the execution, which no
  hash protects, are believed: the tests are the ones that passed unless `execution.json` and the
  report were both edited, and a record marked "matching" names the command that was executed
  unless `execution.json` was. The run meets edited tests; an edited command that a later version
  of the code then matches takes two faults and is covered by the theorem. `BundleRestsOnEvidence`: a bundle that verifies holds exported records of tasks that
  may be in it, and runtimes that were rehearsed with these very records. `LaunchIsVerified`: the
  same of what a shared run uses.
* **Localization.** `AuthorizedLinesAreShown`: what a repair may edit, its prompt shows.
  `TargetsAreEditable`: a line that an edit localization names, and the run accepts, was in the
  numbered context and is editable. `SymbolsAreInSkeleton`: no symbol that resolves is hidden in a
  body the skeleton leaves out.

Type invariants are proved where a module has theorems (`BudgetTypes`, `SelectionTypes`,
`ScheduleTypes`; elsewhere as a conjunct of the inductive invariant) and not run again.

### Fairness

* `CallSpec` takes weak fairness of the controller's own steps (one thread, no waiting
  but for the provider), of the clock while a request is waited for, and of the timeout:
  `subprocess.run(timeout=...)` kills the worker. Nothing is assumed of the provider.
* `LiveSpec` of `TestRun` takes weak fairness of `Continue`, the next step of `run()`: each
  Docker call has a timeout of its own and none is retried. Nothing is assumed of the
  daemon; a call that never answers is one that is cut off.

All other properties are safety and are checked without fairness.

## Proofs

`tlapm` proves the theorems below from `Spec` for every value of the constants, under the
named assumptions of each module (`LimitsAssumption`, `PlanAssumption` ...), which TLC
evaluates in each run. The bounds of the runs (`MaxNow`, `MaxEdits` ...) are constants as well,
so the theorems hold for every bound. What the assumptions say of the constants is what the code's
types say of its data, no more: a path is a sequence of names, letter case folds, and no tracked path has a name
`_safe_path` refuses (`TreeAssumption`); a report document is one of the formats (`DocumentShape` in
`PolicyAssumption`); a source is a record with its pieces in a sequence, only Python has
docstrings, and the repairs of a run start from the same sources (`RepairAssumption`, which does ask
for more than the code: no two pieces of a file have the same text, no two functions of a class the
same name, and a repair moves no piece it keeps, so that a diff can be read in one way); a missing
value is none of the numbers (`RewardAssumption`); a checkout has finitely many links, each with a
sequence of at most `MaxParts` components for a target, and an entry stands in directories
(`CheckoutAssumption`); a symbol begins in its file and does not end before it begins
(`LocalizeAssumption`), each task is in a language that has an adapter (`LanguagesAssumption`), and its
files have symbols of trees as the grammars make them (`TreesAssumption`).

`CandidateSelectionProofs`, `CandidatePatchProofs` and `PilotPipelineProofs` are about one component
each. Three modules hold the proofs of a component and of what is composed with it:
`AttemptBudgetProofs` (`ModelCall`, under `CallSpec`), `RegressionScheduleProofs` (`ReportedSchedule`,
under `ReportedSpec`) and `TestRunProofs` (`SnapshotRun`, under `SnapshotSpec`). Two hold the proofs of
two components that share no variable: `SealAndScoreProofs` (`SealedRepository` and `Scoring`) and
`FixedWorkflowProofs` (`FixedWorkflow`, and `LocalizedProgram` under `LocalizeSpec`). Each theorem
names the specification it is about.

| Module | Invariant and why it is inductive | Theorems |
| --- | --- | --- |
| `AttemptBudgetProofs` | Besides the properties, `ClockOrder` (no start and no baseline lies in the future) is needed for the deadline, and `RefusedAtLimit` (an answer "refused" was given at a limit that is still reached: used tokens and work time only grow) for finality. `LedgerInv` says of each entry how far the loop of `_observe` has come, on top of `TypeOK`. Each step of a request is one of the budget's or leaves it alone (`CallIsBudget`), so all this holds of `ModelCall` as well; there `RecordInv` says what is charged and not yet recorded at each place of `ask()`, `ContentInv` which reply is received and not yet observed, `DeadlineInv` that the worker waited for is killed when the budget ends | `CallIsBudget`, `BudgetTypes`, `DeadlineIsWorkTime`, `FirstRefusalIsFinal`, `BudgetKeepsPromise`, `LedgerCountsOnce`, `RecordAlwaysComplete`, `ProviderAlwaysStops` |
| `CandidateSelectionProofs` | A candidate that is listed either carries an error or has one result per command (`EvidenceInv`, `RecordedInv`), which holds while the loop runs because an early end of the schedule leaves a tainting result; `ChosenInv` carries it over the selection, `RefusedInv` keeps a refused run away from work. `WinnerInv`: the list stays as it was when the winner was chosen. The comparison is then a matter of the operators: `FailureCountIsNumber` (the sum is a number), `ConsideredStanding` (the stages keep the candidates of equal standing), `ErrorsHaveNoWeight` (a list without one candidate has the same stages, under a shift of the numbers), `OneMoreVote`, and of the key `StrippedIsCode`, `KeyShows` (what can be read off a key), `SameKeys`, `DifferentKeys` | `SelectionTypes`, `SelectionIsVerified`, `SelectionStopsWithBudget`, `WinnerIsAlwaysUnbeaten`, `ErrorsNeverCarryWeight`, `SupportAlwaysKeepsWinner` |
| `RegressionScheduleProofs` | Each baseline is what its run is worth, two baselines share no test, and each scheduled command keeps a test nobody excluded. Over documents the schedule takes the steps it takes over reports (`ReportedScheduleIsSchedule`); `DocumentsInv` says which document each report was read from, and `ReportShowsEntries` what `parse_report()` makes of one, with masked IDs and families | `ScheduleTypes`, `CommandsShareNoTest`, `CountsAreRegressions`, `ReportedScheduleIsSchedule`, `CountsAlwaysRestOnEntries` |
| `TestRunProofs` | What is known at each step: `StepInv` ties the exception to the step, `VerdictInv` the status to the run, `BudgetInv` a cut call to the exception, `ContainerInv` the container to `attempted_create` and the removal. With a snapshot, `WorkInv` says at which steps an archive that passed validation is on the host or in the container. That the links of such an archive end inside it is about two ways to follow links: the loop of the code, which replaces a link by its target and counts expansions, and rounds in which each link learns where its target leads. The rounds settle (`EndsSettled`): each one knows no less than the one before (`RoundKnowsLess`), and there are not more places to learn about than links. Once they have, no turn of the loop changes where its walk leads (`TurnLeadsOn`), so a walk that ends inside shows that its link ends there (`WalkLeads`, `ValidLinksEnd`) | `RunVerdictIsEarned`, `RunBudgetIsNeverBlamed`, `RunContainersAreRemoved`, `SnapshotRunIsRun`, `CommandAlwaysFindsCheckout` |
| `FixedWorkflowProofs` | `EvidenceInv` follows the evidence through the stages (verified samples, the preferred source, complete baselines) until it is frozen; `TrailInv` follows the files; `BehindInv` says what a stage has behind it. `SamplingInv` counts the requests behind each phase, sample by sample. Of localization, `FilesInv` says that what was parsed and located is of selected files and ends within them, by the count of lines their language uses, and `ListInv` that there is no repair context before the symbols are located; `MergeCovers` (merged intervals cover every line of those merged) and `RenderedCovers` carry a line from an interval to the prompt. Of parse trees, `SpecsAreOpen` goes through the rules of each language (no rule finds a container whose members lie in a body that is hidden), `WalksAreWalks` shows that the recursion over places has a solution, and `WalksAreShown` follows it from the root down | `RunnerAlwaysRestored`, `RunAlwaysTellsItsEnd`, `PredictionAlwaysHasItsTrail`, `EvidenceAlwaysComesFirst`, `ValidationNeverFeedsBack`, `SamplingIsAlwaysPredetermined`, `AuthorizedLinesAlwaysShown`, `TargetsAlwaysEditable`, `SymbolsAlwaysInSkeleton` |
| `CandidatePatchProofs` | `LinesInv` says of each file that comes from a localized one that its unauthorized lines are all there (`KeptIn`), in order and with their neighbours (`OrderedIn`), and that a line lies in an interval exactly if it is authorized or written (`CoveredIn`). The lemmas `ShiftKeeps`, `ShiftGrows` and `SpliceKeeps` are the arithmetic of one edit; they need intervals that do not end before they start, which `ShapeInv` keeps. `RoomInv` says what `taken` holds. For the patch, `PairsInv` makes the renames a bijection between files that leave and files that come, and `ChangesInv` the changed paths exactly those whose text differs; `CheckoutInv` follows the workspace: the base commit until the patch is in, the repair from there on. That the two have one idea of a path but for names rests on `SameTree` and `SafePatch`. `MarkerInv` is about the workspace alone | `AuthorizationAlwaysMoves`, `UnauthorizedLinesAlwaysStay`, `NewPathsAlwaysHaveRoom`, `PatchIsAlwaysTheRepair`, `AppliedIsAlwaysTheRepair`, `RepairsAlwaysFit`, `MarkerAlwaysGoesLast` |
| `SealAndScoreProofs` | `StagingInv`: what a process has done to its clone is still so, for nobody else knows the directory. `CheckInv`: what the checks of a verification have seen of a destination others change in between; a fetch is possible up to the moment the lock is seen, so each check leaves a disjunction, and `Safe` is stable. `PartsInv`: what is partial has somebody at work on it, and what is copied stays, unless something was cut short. Of a scoring, `TaskInv`: the task that was loaded is the one asked for, with the ID the pin names and, from the verifier's files on, their image; `ContainerInv`: a container exists only where `finally` will see it; `VerdictInv`: no status before the export, and afterwards one that rests on the run | `TrustedAlwaysSealed`, `PartialAlwaysHasCause`, `PatchAlwaysRunsInPinnedImage`, `VerdictIsAlwaysTheVerifiers`, `ScoringNeverLeavesContainer` |
| `PilotPipelineProofs` | `BaselineInv`: a row that says ready is of an execution (`RowOf`), and its files say what that was but for the parts somebody edited. `TrailInv`: the claim in a file was exported, whatever damage made of the rest; evidence is sound (`SoundIn`) or does not match its claim; the invariants of each tool (`VerifyInv`, `PackageInv`, `BundleInv`) carry that from file to file up to the manifest, which is written last | `RecordsAlwaysHaveBaselines`, `BundleAlwaysRestsOnEvidence`, `LaunchAlwaysVerified` |

Each module also lists its inductive invariant as a theorem of its own
(`BudgetInvariant` ... `ScoreInvariant`).

The library's induction theorems take an operator as a parameter, which the provers cannot
instantiate. Where a proof must reach every element of a finite set, every turn of a walk or every
place of a tree, it argues by a least counterexample instead: `<` on the naturals is well-founded
(`NatLessThanWellFounded`), so a set of counterexamples would have a least element (`LeastNatural`,
`LeastNumber`). Induction over one given set of numbers (`SetOfNaturals`, `SetOfNumbers`) and over the
places of one given tree (`PlaceInduction`) follow from it, and so does that the recursive functions of
the models have the values their equations give them (`TrailExists`, `RoundsExist`, `TurnsExist`,
`WalksAreWalks`).

Every invariant and every action property that a run checks is proved as well, and the refinement of
`Allowance`. Only model-checked is liveness (`EveryRequestEnds`, `EveryRunEnds`): TLAPS does not
reason about fairness and `ENABLED`. Of the operators, what `NameOf` joins and `FoldLeft` collects is
used by the proofs only as far as it does not matter what it is.

## Findings

Two runs end in a counterexample to a sentence of the documentation.

1. `select_overlay` -- a patch that puts a file where the generated reproduction test goes ends
   the whole run with a `ValueError` (`validation/pipeline.py:53`); `docs/fixed-workflow.md:40`
   says that invalid samples are recorded and skipped.
2. `run_docker_errors` -- a failure of Docker itself in one of the two `exec` calls shows as a
   non-zero exit and becomes a failure of the patch (`validation/docker.py:435`);
   `docs/public-validation.md:176` says Docker errors stay infrastructure failures.

Observed while modelling, without a run:

* A reply that arrives just before the deadline is charged after it. `charge()` raises, so
  `observe_response()` is never called (`workflow/fixed.py:406-408`) and the reply is missing from
  `used_tokens`. This contradicts `docs/pilot-budget-contract.md:34-36` ("Every newly generated
  reply is a new occurrence") and `:51` ("After completion it observes generated output, reports
  any content overshoot"). `RecordIsComplete` says that it is the only reply that can be missing:
  the last one of a failed attempt, after a refused charge. `CountedOnce` is about the responses
  that were observed. The provider's usage is complete in every case.
* `_safe_path` (`workspace/local_git.py:91-106`) refuses names that `_normalize_path`
  (`repair/edits.py:70-83`) lets through: `src/aux.py`, `git~1`, a name with `?` or `*`, a trailing dot,
  a colon behind the first component. A repair that creates such a file, or renames one to it, is
  listed as a candidate and ends as a patch error (`RepairsFitWorkspaces`). A tracked path of that
  kind means that there is no workspace provider and no run.
* Occurrences that overlap one another count as one (`repair/edits.py:160`), so a SEARCH block
  that occurs twice is applied; `repair/edits.py:182` demands exactly one occurrence.
* `docker create` that exceeds its timeout may be completed by the daemon after the removal;
  nobody removes that container. `ContainersAreRemoved` excludes this one case.
* `_remove_owned` removes the marker, then the directory (`workspace/local_git.py:216-226`). If
  the second fails, `close()` can no longer be repeated, since it wants the marker.
* An error after `prediction.json` has been written leaves `failure.json` beside it.
* Two processes that both find no destination can move one clone into the other, or copy over it
  (`workspace/prepare.py:155-157`). `TrustedIsSealed` shows that no later commit gets in that way.
* `verify_sealed_repository` (`workspace/prepare.py:282-340`) asks six questions about history and none
  about the checkout. When a process is killed while the clone is copied between file systems, or the
  removal after an error is cut short, and `.git` is complete, the next run verifies what is left and
  prints "already prepared" (`tools/prepare_deepswe_repositories.py:63-65`), as the comment at
  `workspace/prepare.py:155-157` fears. `PartialHasCause` names the cases.
* The exporter compares hashes of `execution.json` and of the report only if the row has them
  (`tools/export_deepswe_task_specs.py:109-111`), and a row that `tools/survey_deepswe.py:162-179` writes
  has none. An `execution.json` whose command was changed is exported as evidence of that
  command, "matching" if the current code builds it; one whose tests were changed together with
  the report is exported with these tests, as long as their numbers stay.
* Of functions with one name in one class, such as a property and its setter,
  `_python_functions` (`repair/patches.py:105-134`) sees the last. A repair that adds a function and
  changes an earlier one counts as one that only adds (`RepairAssumption` leaves such files out).
* `build_unified_diff` splits at every separator `str.splitlines` knows (`repair/patches.py:46`).
  With a form feed near an edit git refuses the patch.

## Plan

Done, in this order: the budget and its promise; requests; candidates and selection; the
regression schedule; one container run; the fixed workflow; edits, patches and workspaces;
sealed repositories; test reports; benchmark loaders and scoring; the pilot's tools; program
structure and localization; the safe snapshot; the voting key.

Next:

1. Text of hunks with line separators and missing ends of file, for `build_unified_diff`.
2. The rest of the Docker runner (image resolution, command declarations) and of the reproduction
   stage (what a prompt shows of the other samples).
3. Proofs beyond the properties the runs check: that the voting key of a repair is found in every order
   of its edits, and that resolution finds a symbol by every name the skeleton shows.

## Not modelled

* **Reproduction adapters**: tables and scripts that declare commands. They keep no state; what
  a declared command may do is an input of `TestRun`.
* **The provider worker**: a process around a provider's SDK whose stream has a format of its
  own. `ModelCall` sees it as a call that answers, fails or is killed.
* **Provisioning and diagnostics**: scripts that pull, pin and build one image or diagnose one
  task for a person who reads the output.
* **Source text, XML, JSON and prompts**: what they parse to is modelled, how they are parsed is
  the business of libraries.
* Within components that are modelled in part: image resolution and the parsing of command
  declarations in the Docker runner, the text of a diff, and the rendering of reproduction prompts.
