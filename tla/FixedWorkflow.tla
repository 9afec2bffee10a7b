--------------------------- MODULE FixedWorkflow ---------------------------
(***************************************************************************)
(* FixedWorkflowController.run and run_live (workflow/fixed.py): the fixed *)
(* stages of one run after another on the same controller, the model       *)
(* requests each stage makes, the evidence it freezes and the files it     *)
(* leaves.  What happens inside a request is in ModelCall, inside the      *)
(* validation and selection of candidates in CandidateSelection, inside    *)
(* the regression schedule in RegressionSchedule, inside a container run   *)
(* in TestRun; here each is one step with the outcomes those modules have. *)
(*                                                                         *)
(* A step that writes a file may fail, and the process may be interrupted, *)
(* anywhere.                                                               *)
(***************************************************************************)
EXTENDS Integers, Sequences, FiniteSets, FiniteSetsExt

CONSTANTS
  Plans,      \* what a caller passes: stage responses or live sample counts
  Sources,    \* texts of generated reproduction tests
  MaxRuns     \* bound: runs of one controller

PlanShape ==
  [live : BOOLEAN, budgeted : BOOLEAN,
   reproduces : BOOLEAN,                \* reproduction_spec is given
   single : BOOLEAN, samples : Nat,     \* reproduction_test, reproduction_samples
   regressions : Nat, exclusions : BOOLEAN,
   public : BOOLEAN,                    \* fixed public commands
   fine : BOOLEAN,                      \* edit_localization
   edits : Nat, repairs : Nat]          \* edit_samples, repairs of each

\* RecordedStageResponses.__post_init__, the constructor of the controller, and
\* the responses run_live() makes up for a live run.
WellFormed(p) ==
  /\ p.single => p.samples = 0
  /\ p.edits > 0 => ~p.fine
  /\ p.repairs > 0
  /\ p.public \/ p.regressions > 0 \/ p.reproduces
  /\ p.live => /\ p.edits > 0
               /\ ~p.single
               /\ p.reproduces <=> p.samples > 0
               /\ p.exclusions <=> p.regressions > 0

ASSUME PlansAssumption ==
  /\ Plans \subseteq PlanShape
  /\ \A p \in Plans : WellFormed(p)
ASSUME RunsAssumption == MaxRuns \in Nat

VARIABLES
  runs,      \* runs begun
  plan,      \* of the current or the last run
  phase,     \* where run() stands
  index,     \* position in the loop or in the list of files of the phase
  rank,      \* edit sample
  calls,     \* calls
  answers,   \* history: replies accepted
  bundled,   \* replies in responses.json
  counted,   \* model_calls in controller.json
  judged,    \* reproduction samples: what each was found to be
  adopted,   \* index of the adopted sample, 0 for none
  sound,     \* no regression baseline has an infrastructure status
  schedule,  \* kinds of commands every candidate gets
  frozen,    \* public_commands in controller.json
  attempts,  \* samples with an attempt, and those with a candidate
  files,     \* files in the directory of the run
  lost,      \* history: the exception handler could not write
  outcome,   \* how run() ended
  wrapped,   \* budget runners around the runner
  expired    \* the budget of the run has reached a limit

stages == <<phase, index, rank>>
requests == <<calls, answers>>
evidence == <<judged, adopted, sound, schedule>>
records == <<bundled, counted, frozen, files, lost>>
frame == <<runs, plan, outcome, wrapped, expired>>
vars == <<frame, stages, requests, evidence, records, attempts>>

Evidence == {"responses", "reproduction", "verify", "baseline", "exclusions", "freeze"}
Generation == {"files", "symbols", "edit", "repair", "prompts"}
Validation == {"sample", "select", "export"}
Working == Evidence \cup Generation \cup Validation
Phases == Working \cup {"raising", "leaving", "idle"}

\* A reproduction sample that fails on the original revision stands as its source.
Verdicts == {"parse_error", "pass"} \cup Sources
Kinds == {"regression", "reproduction", "public"}
Files == {"responses.json", "reproduction-source.json", "regression-baseline.json",
          "regression-selection.json", "task.json", "controller.json", "prompts",
          "context.json", "attempts.json", "prediction.json", "run.json",
          "budget.json", "selection.json", "failure.json"}

SamplesOf(p) == IF p.single THEN 1 ELSE p.samples
CandidatesOf(p) == IF p.edits > 0 THEN p.edits * p.repairs ELSE p.repairs

TypeOK ==
  /\ runs \in 0..MaxRuns
  /\ plan \in Plans
  /\ phase \in Phases
  /\ index \in Nat
  /\ rank \in 0..plan.edits
  /\ calls \in Nat /\ answers \in 0..calls
  /\ bundled \in 0..answers /\ counted \in 0..calls
  /\ judged \in Seq(Verdicts) /\ Len(judged) <= SamplesOf(plan)
  /\ adopted \in 0..Len(judged)
  /\ sound \in BOOLEAN
  /\ schedule \subseteq Kinds /\ frozen \subseteq Kinds
  /\ attempts \in [begun : 0..CandidatesOf(plan), valid : 0..CandidatesOf(plan)]
  /\ files \subseteq Files
  /\ lost \in BOOLEAN
  /\ outcome \in {"none", "returned", "raised", "interrupted"}
  /\ wrapped \in Nat
  /\ expired \in BOOLEAN

Reset ==
  /\ index' = 0 /\ rank' = 0
  /\ calls' = 0 /\ answers' = 0
  /\ bundled' = 0 /\ counted' = 0
  /\ judged' = <<>> /\ adopted' = 0
  /\ sound' = TRUE
  /\ schedule' = {} /\ frozen' = {}
  /\ attempts' = [begun |-> 0, valid |-> 0]
  /\ files' = {}
  /\ lost' = FALSE
  /\ outcome' = "none"
  /\ expired' = FALSE

Init ==
  /\ runs = 0
  /\ plan \in Plans
  /\ phase = "idle"
  /\ index = 0 /\ rank = 0
  /\ calls = 0 /\ answers = 0
  /\ bundled = 0 /\ counted = 0
  /\ judged = <<>> /\ adopted = 0
  /\ sound = TRUE
  /\ schedule = {} /\ frozen = {}
  /\ attempts = [begun |-> 0, valid |-> 0]
  /\ files = {}
  /\ lost = FALSE
  /\ outcome = "none"
  /\ wrapped = 0
  /\ expired = FALSE

\* A new directory, and a BudgetRunner around the runner of the controller.
Begin(p) ==
  /\ phase = "idle"
  /\ runs < MaxRuns
  /\ runs' = runs + 1
  /\ plan' = p
  /\ phase' = "responses"
  /\ wrapped' = IF p.budgeted THEN wrapped + 1 ELSE wrapped
  /\ Reset

Raise == phase' = "raising"
Write(names) == files' = files \cup names
Goto(next) == phase' = next /\ index' = 0

----------------------------------------------------------------------------
(* Model requests.                                                         *)

\* ask() returns: the budget allowed it and the reply is an answer.
Ask ==
  /\ plan.live
  /\ ~expired
  /\ calls' = calls + 1
  /\ answers' = answers + 1

\* A recorded run has the reply already.
AskOrReplay == Ask \/ (~plan.live /\ UNCHANGED requests)

\* The stage at hand still has a request to make.
Asking ==
  /\ plan.live
  /\ \/ phase = "reproduction" /\ index < plan.samples
     \/ phase = "exclusions" \/ phase = "files" \/ phase = "symbols" \/ phase = "edit"
     \/ phase = "repair" /\ index < plan.repairs

\* Mutant: a request that failed is made again.
AskAgain ==
  /\ Asking
  /\ ~expired
  /\ calls' = calls + 1
  /\ UNCHANGED <<frame, stages, answers, evidence, records, attempts>>

\* The request is made and ends the run: no reply, or one that is refused.
AskFails ==
  /\ Asking
  /\ ~expired
  /\ calls' = calls + 1
  /\ Raise
  /\ UNCHANGED <<frame, index, rank, answers, evidence, records, attempts>>

----------------------------------------------------------------------------
(* Evidence on the original revision.                                      *)

\* Inventory and exclusions, specification and source go together.
Consistent(p) ==
  /\ p.regressions > 0 <=> p.exclusions
  /\ p.reproduces <=> (p.single \/ p.samples > 0)

RecordResponses ==
  /\ phase = "responses"
  /\ Write({"responses.json"})
  /\ IF Consistent(plan) THEN Goto("reproduction") ELSE Raise /\ UNCHANGED index
  /\ UNCHANGED <<frame, rank, requests, evidence, bundled, counted, frozen, lost,
                  attempts>>

AskReproduction ==
  /\ phase = "reproduction"
  /\ plan.reproduces /\ plan.live
  /\ index < plan.samples
  /\ Ask
  /\ index' = index + 1
  /\ UNCHANGED <<frame, phase, rank, evidence, records, attempts>>

EndReproduction ==
  /\ phase = "reproduction"
  /\ plan.reproduces /\ plan.live => index = plan.samples
  /\ Goto(IF plan.reproduces THEN "verify" ELSE "baseline")
  /\ UNCHANGED <<frame, rank, requests, evidence, records, attempts>>

NoteSample(judgement) == judged' = Append(judged, judgement)
Unjudged == phase = "verify" /\ ~plan.single /\ Len(judged) < SamplesOf(plan)

\* A sample that does not parse is skipped.
SampleUnparsable ==
  /\ Unjudged
  /\ NoteSample("parse_error")
  /\ UNCHANGED <<frame, stages, requests, adopted, sound, schedule, records, attempts>>

\* The sample runs on the original revision, in a workspace of its own.
VerifySample(judgement) ==
  /\ Unjudged
  /\ ~expired
  /\ IF judgement = "infrastructure" THEN Raise /\ UNCHANGED judged
     ELSE NoteSample(judgement) /\ UNCHANGED phase
  /\ UNCHANGED <<frame, index, rank, requests, adopted, sound, schedule, records,
                  attempts>>

\* The only test of a recorded run is saved, run, and has to fail for its assertion.
SaveTest(parses) ==
  /\ phase = "verify" /\ plan.single /\ index = 0
  /\ IF parses
       THEN Write({"reproduction-source.json"}) /\ index' = 1 /\ UNCHANGED phase
       ELSE Raise /\ UNCHANGED <<index, files>>
  /\ UNCHANGED <<frame, rank, requests, evidence, bundled, counted, frozen, lost, attempts>>

VerifyTest(judgement) ==
  /\ phase = "verify" /\ plan.single /\ index = 1
  /\ ~expired
  /\ IF judgement \in Sources
       THEN /\ judged' = <<judgement>> /\ adopted' = 1
            /\ schedule' = schedule \cup {"reproduction"}
            /\ Goto("baseline")
       ELSE Raise /\ UNCHANGED <<index, judged, adopted, schedule>>
  /\ UNCHANGED <<frame, rank, requests, sound, records, attempts>>

\* verified, and select_reproduction_source(): votes by exact source, ties to the
\* first sample.
Verified == {i \in DOMAIN judged : judged[i] \in Sources}
Backing(i) == Cardinality({j \in Verified : judged[j] = judged[i]})
Preferred == Min({i \in Verified : \A j \in Verified : Backing(j) <= Backing(i)})

AdoptSample ==
  /\ phase = "verify" /\ ~plan.single
  /\ Len(judged) = SamplesOf(plan)
  /\ IF Verified = {}
       THEN Raise /\ UNCHANGED <<index, adopted, schedule, files>>
       ELSE /\ adopted' = Preferred
            /\ schedule' = schedule \cup {"reproduction"}
            /\ Write({"reproduction-source.json"})
            /\ Goto("baseline")
  /\ UNCHANGED <<frame, rank, requests, judged, sound, bundled, counted, frozen, lost,
                  attempts>>

\* One regression command on the original revision; the budget does not stop it.
RunBaseline(infrastructure) ==
  /\ phase = "baseline"
  /\ index < plan.regressions
  /\ index' = index + 1
  /\ sound' = (sound /\ ~infrastructure)
  /\ UNCHANGED <<frame, phase, rank, requests, judged, adopted, schedule, records,
                  attempts>>

\* Mutant: the statuses are not looked at.
EndBaselineUnchecked ==
  /\ phase = "baseline"
  /\ index = plan.regressions
  /\ Goto(IF plan.regressions = 0 THEN "freeze" ELSE "exclusions")
  /\ Write(IF plan.regressions = 0 THEN {} ELSE {"regression-baseline.json"})
  /\ UNCHANGED <<frame, rank, requests, evidence, bundled, counted, frozen, lost, attempts>>

\* The record is written whatever the statuses, which are looked at afterwards.
EndBaseline ==
  /\ phase = "baseline"
  /\ index = plan.regressions
  /\ IF plan.regressions = 0
       THEN Goto("freeze") /\ UNCHANGED files
       ELSE /\ Write({"regression-baseline.json"})
            /\ IF sound THEN Goto("exclusions") ELSE Raise /\ UNCHANGED index
  /\ UNCHANGED <<frame, rank, requests, evidence, bundled, counted, frozen, lost,
                  attempts>>

\* The exclusions are asked for and parsed; they may leave no regression command.
ExcludeTests(left) ==
  /\ phase = "exclusions"
  /\ AskOrReplay
  /\ Write({"regression-selection.json"})
  /\ schedule' = schedule \cup (IF left THEN {"regression"} ELSE {})
  /\ IF plan.public \/ schedule' # {} THEN Goto("freeze") ELSE Raise /\ UNCHANGED index
  /\ UNCHANGED <<frame, rank, judged, adopted, sound, bundled, counted, frozen, lost,
                  attempts>>

\* task.json and controller.json.
Freeze ==
  /\ phase = "freeze"
  /\ schedule' = schedule \cup (IF plan.public THEN {"public"} ELSE {})
  /\ frozen' = schedule'
  /\ counted' = calls
  /\ Write({"task.json", "controller.json"})
  /\ Goto("files")
  /\ UNCHANGED <<frame, rank, requests, judged, adopted, sound, bundled, lost, attempts>>

----------------------------------------------------------------------------
(* Localization and repair, in the visible workspace.                      *)

LocalizeFiles ==
  /\ phase = "files"
  /\ AskOrReplay
  /\ Goto("symbols")
  /\ UNCHANGED <<frame, rank, evidence, records, attempts>>

\* The recorded edit localization of a legacy bundle is applied on the way.
LocalizeSymbols ==
  /\ phase = "symbols"
  /\ AskOrReplay
  /\ Goto(IF plan.edits > 0 THEN "edit" ELSE "prompts")
  /\ UNCHANGED <<frame, rank, evidence, records, attempts>>

\* The context of an edit sample is built before its repairs are asked for.
LocalizeEdit ==
  /\ phase = "edit"
  /\ AskOrReplay
  /\ Goto("repair")
  /\ UNCHANGED <<frame, rank, evidence, records, attempts>>

SampleRepair ==
  /\ phase = "repair"
  /\ index < plan.repairs
  /\ AskOrReplay
  /\ index' = index + 1
  /\ UNCHANGED <<frame, phase, rank, evidence, records, attempts>>

EndRepairs ==
  /\ phase = "repair"
  /\ index = plan.repairs
  /\ rank' = rank + 1
  /\ Goto(IF rank + 1 < plan.edits THEN "edit" ELSE "prompts")
  /\ UNCHANGED <<frame, requests, evidence, records, attempts>>

\* The workspace closes; prompts, the complete responses and the context are saved.
SaveGeneration ==
  /\ phase = "prompts"
  /\ bundled' = answers
  /\ Write({"prompts", "context.json"})
  /\ Goto("sample")
  /\ UNCHANGED <<frame, rank, requests, evidence, counted, frozen, lost, attempts>>

----------------------------------------------------------------------------
(* Validation, selection and export.                                       *)

TrySample(valid) ==
  /\ phase = "sample"
  /\ attempts.begun < CandidatesOf(plan)
  /\ ~expired
  /\ attempts' = [begun |-> attempts.begun + 1,
                  valid |-> attempts.valid + (IF valid THEN 1 ELSE 0)]
  /\ UNCHANGED <<frame, stages, requests, evidence, records>>

\* Mutant: without a candidate the last edit sample is repaired once more.
EndSamplesRetries ==
  /\ phase = "sample"
  /\ attempts.begun = CandidatesOf(plan)
  /\ Write({"attempts.json"})
  /\ Goto(IF attempts.valid = 0 THEN "repair" ELSE "select")
  /\ UNCHANGED <<frame, rank, requests, evidence, bundled, counted, frozen, lost, attempts>>

\* Without a candidate there is nothing to select.
EndSamples ==
  /\ phase = "sample"
  /\ attempts.begun = CandidatesOf(plan)
  /\ Write({"attempts.json"})
  /\ IF attempts.valid = 0 THEN Raise /\ UNCHANGED index ELSE Goto("select")
  /\ UNCHANGED <<frame, rank, requests, evidence, bundled, counted, frozen, lost,
                  attempts>>

SelectCandidate ==
  /\ phase = "select"
  /\ ~expired
  /\ Goto("export")
  /\ UNCHANGED <<frame, rank, requests, evidence, records, attempts>>

\* Mutant: the prediction is written first.
ExportsPredictionFirst(p) ==
  IF p.budgeted
    THEN <<"prediction.json", "controller.json", "run.json", "budget.json", "selection.json">>
    ELSE <<"prediction.json", "controller.json", "run.json", "selection.json">>

Exports(p) ==
  IF p.budgeted
    THEN <<"controller.json", "prediction.json", "run.json", "budget.json", "selection.json">>
    ELSE <<"controller.json", "prediction.json", "run.json", "selection.json">>

\* controller.json gets the final number of calls.
Export ==
  /\ phase = "export"
  /\ index < Len(Exports(plan))
  /\ index' = index + 1
  /\ LET name == Exports(plan)[index + 1]
     IN  /\ Write({name})
         /\ counted' = IF name = "controller.json" THEN calls ELSE counted
  /\ UNCHANGED <<frame, phase, rank, requests, evidence, bundled, frozen, lost, attempts>>

Return ==
  /\ phase = "export"
  /\ index = Len(Exports(plan))
  /\ outcome' = "returned"
  /\ phase' = "leaving"
  /\ UNCHANGED <<runs, plan, index, rank, requests, evidence, records, attempts, wrapped,
                  expired>>

----------------------------------------------------------------------------
(* The ways out.                                                           *)

\* Whatever else a stage raises: an answer that cannot be used, a workspace, a
\* container or a file that fails, a budget that refuses.
Break ==
  /\ phase \in Working
  /\ Raise
  /\ UNCHANGED <<frame, index, rank, requests, evidence, records, attempts>>

\* Mutant: only what the controller itself raises is recorded.
HandleExceptionSelectively ==
  /\ phase = "raising"
  /\ outcome' = "raised"
  /\ phase' = "leaving"
  /\ lost' = FALSE
  /\ files' \in {files, files \cup {"failure.json"}}
  /\ UNCHANGED <<runs, plan, index, rank, requests, evidence, bundled, counted, frozen,
                  attempts, wrapped, expired>>

\* except Exception: budget.json, then failure.json, unless writing fails again.
HandleException ==
  /\ phase = "raising"
  /\ outcome' = "raised"
  /\ phase' = "leaving"
  /\ \E written \in SUBSET {"budget.json", "failure.json"} :
       /\ "budget.json" \in written => plan.budgeted
       /\ "failure.json" \in written => (plan.budgeted => "budget.json" \in written)
       /\ Write(written)
       /\ lost' = ("failure.json" \notin written)
  /\ UNCHANGED <<runs, plan, index, rank, requests, evidence, bundled, counted, frozen,
                  attempts, wrapped, expired>>

\* KeyboardInterrupt is not an Exception: nothing is recorded.
Interrupt ==
  /\ phase \in Working \cup {"raising"}
  /\ outcome' = "interrupted"
  /\ phase' = "leaving"
  /\ UNCHANGED <<runs, plan, index, rank, requests, evidence, records, attempts, wrapped,
                  expired>>

\* finally: self.runner = original_runner.
Leave ==
  /\ phase = "leaving"
  /\ wrapped' = 0
  /\ phase' = "idle"
  /\ UNCHANGED <<runs, plan, index, rank, requests, evidence, records, attempts, outcome,
                  expired>>

Expire ==
  /\ plan.budgeted /\ phase # "idle"
  /\ expired' = TRUE
  /\ UNCHANGED <<runs, plan, stages, requests, evidence, records, attempts, outcome,
                  wrapped>>

Next ==
  \/ \E p \in Plans : Begin(p)
  \/ RecordResponses \/ AskReproduction \/ EndReproduction
  \/ SampleUnparsable \/ (\E v \in {"pass", "infrastructure"} \cup Sources : VerifySample(v))
  \/ (\E b \in BOOLEAN : SaveTest(b))
  \/ (\E v \in {"pass", "infrastructure"} \cup Sources : VerifyTest(v)) \/ AdoptSample
  \/ (\E b \in BOOLEAN : RunBaseline(b)) \/ EndBaseline
  \/ (\E b \in BOOLEAN : ExcludeTests(b)) \/ Freeze
  \/ LocalizeFiles \/ LocalizeSymbols \/ LocalizeEdit \/ SampleRepair \/ EndRepairs
  \/ SaveGeneration
  \/ (\E b \in BOOLEAN : TrySample(b)) \/ EndSamples \/ SelectCandidate
  \/ Export \/ Return
  \/ AskFails \/ Break \/ HandleException \/ Interrupt \/ Leave \/ Expire

Spec == Init /\ [][Next]_vars

----------------------------------------------------------------------------
(* Properties.                                                             *)

\* The requests a live run makes, and those of its evidence.
EvidenceCalls(p) == IF p.live THEN p.samples + (IF p.regressions > 0 THEN 1 ELSE 0) ELSE 0
PlannedCalls(p) ==
  EvidenceCalls(p) + (IF p.live THEN 2 + p.edits * (1 + p.repairs) ELSE 0)

\* The number of requests is predetermined: no answer, no verdict and no failure
\* adds one, and a run that returns has made them all.  A recorded run makes none.
SamplingIsPredetermined ==
  /\ calls <= PlannedCalls(plan)
  /\ outcome = "returned" => calls = PlannedCalls(plan)

\* The model is asked for a localization or a repair only when the evidence is
\* complete: every sample judged and one that fails on the original adopted, every
\* regression baseline sound, the schedule frozen with the evidence it rests on.
EvidenceComesFirst ==
  calls > EvidenceCalls(plan) =>
    /\ frozen = schedule /\ frozen # {}
    /\ sound
    /\ {"task.json", "controller.json"} \subseteq files
    /\ plan.reproduces =>
         /\ Len(judged) = SamplesOf(plan)
         /\ adopted \in Verified
         /\ "reproduction" \in frozen
    /\ plan.regressions > 0 => "regression-selection.json" \in files

\* Once validation has begun nothing flows back: no request, no other evidence,
\* no other schedule, until the next run.
ValidationFeedsNothingBack ==
  [][attempts.begun > 0 /\ runs' = runs => UNCHANGED <<requests, evidence, frozen>>]_vars

\* A prediction on disk, also one left by a run that was killed there, has its
\* trail: all replies in responses.json, the final count of calls in
\* controller.json, the attempts and the schedule it was validated under.
PredictionHasItsTrail ==
  "prediction.json" \in files =>
    /\ bundled = answers /\ counted = calls
    /\ attempts.begun = CandidatesOf(plan) /\ attempts.valid > 0
    /\ {"task.json", "controller.json", "prompts", "context.json", "attempts.json"} \subseteq files

\* A finished run tells how it ended: its whole export, or failure.json with the
\* budget beside it.  Only an interrupt or a handler that cannot write leaves less.
RunTellsItsEnd ==
  phase = "idle" /\ runs > 0 =>
    /\ outcome = "returned" =>
         {Exports(plan)[n] : n \in DOMAIN Exports(plan)} \subseteq files /\ "failure.json" \notin files
    /\ outcome = "raised" /\ ~lost =>
         "failure.json" \in files /\ (plan.budgeted => "budget.json" \in files)

\* Each run has the budget runner of its own budget and no other: none is left
\* around the runner by an earlier run, however that one ended.
RunnerIsRestored ==
  wrapped = IF phase # "idle" /\ plan.budgeted THEN 1 ELSE 0
=============================================================================
