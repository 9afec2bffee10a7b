------------------------- MODULE CandidateSelection -------------------------
(***************************************************************************)
(* Validation of the repair samples of one run and the selection of a      *)
(* patch: the candidate loop of FixedWorkflowController.run                *)
(* (workflow/fixed.py), validate_candidate (validation/pipeline.py) and    *)
(* select_candidate (repair/selection.py).                                 *)
(*                                                                         *)
(* The budget enters as one bit, expired, that never goes back: that is    *)
(* what Allowance promises and AttemptBudgetProofs proves of it.  A test   *)
(* result is its kind, its status and the count of failed units that       *)
(* ValidationResult.failure_count() gives for it.                          *)
(***************************************************************************)
EXTENDS Integers, Sequences, FiniteSets, FiniteSetsExt, VotingKey

CONSTANTS
  Samples,      \* repair responses, over all edit samples
  Regressions,  \* regression commands in the frozen schedule
  Reproduces,   \* TRUE: a reproduction command follows them
  Repairs,      \* repairs the responses may apply, with their sources
  Sampled,      \* bound: the repairs among them that the samples make
  Budgeted,     \* TRUE: the run has a budget
  Faults,       \* bound: infrastructure statuses that occur
  MaxFailures,  \* bound: failed units of one command
  MaxErrors     \* bound: candidates with an error among their results

Infrastructure == {"timeout", "out_of_memory", "harness_error"}
Commands == Regressions + (IF Reproduces THEN 1 ELSE 0)

\* normalized_diff of the candidates that can be built
Texts == {VotingKey(r) : r \in {r \in Sampled : HasKey(r)}}

ASSUME RepairAssumption ==
  /\ Sampled \subseteq Repairs
  /\ \E r \in Sampled : HasKey(r)
  /\ \A r \in Repairs : RepairShape(r)
  /\ \A q, r \in Repairs : SameSources(q, r)
ASSUME PlanAssumption ==
  /\ Samples \in Nat
  /\ Regressions \in Nat
  /\ Reproduces \in BOOLEAN
  /\ Budgeted \in BOOLEAN
  /\ Commands > 0
ASSUME ResultAssumption ==
  /\ Faults \subseteq Infrastructure
  /\ MaxFailures \in Nat
  /\ MaxErrors \in Nat

VARIABLES
  phase,       \* where the controller stands
  attempts,    \* attempts: what became of each sample
  candidates,  \* candidates: the validated ones, in order
  text,        \* normalized_diff of the candidate at hand
  evidence,    \* evidence of the candidate at hand
  raised,      \* exception on its way out of the workspace
  expired,     \* the budget has reached a limit
  refused,     \* history: the controller has been told so
  failure,     \* type in failure.json
  chosen       \* index of the selected candidate, 0 before

vars == <<phase, attempts, candidates, text, evidence, raised, expired, refused, failure, chosen>>

Phases == {"sample", "create", "apply", "run", "close", "select", "confirm",
           "done", "failed"}
Raised == {"none", "workspace_error", "os_error", "value_error", "budget_exceeded"}
Failures == {"none", "os_error", "value_error", "budget_exceeded", "workflow_error"}

Kind(n) == IF n <= Regressions THEN "regression" ELSE "reproduction"
Result(kind, status, failures) ==
  [kind |-> kind, status |-> status, failures |-> failures]
AllResults ==
  [kind : {"regression", "reproduction"},
   status : {"pass", "fail", "patch_error"} \cup Infrastructure,
   failures : Nat]

\* What the runner can return for a command: with a report, an exit status 0
\* does not exclude counted tests that were skipped, and a failing command may
\* have failed in tests that are not counted.
Outcomes(kind) ==
  [kind : {kind}, status : {"pass", "fail"},
   failures : IF kind = "regression" THEN 0..MaxFailures ELSE {0}]
  \cup [kind : {kind}, status : Faults, failures : {0}]

TypeOK ==
  /\ phase \in Phases
  /\ attempts \in Seq({"repair_error", "validated"})
  /\ Len(attempts) <= Samples
  /\ candidates \in Seq([text : Texts, evidence : Seq(AllResults)])
  /\ Len(candidates) <= Len(attempts)
  /\ text \in Texts
  /\ evidence \in Seq(AllResults)
  /\ raised \in Raised
  /\ expired \in BOOLEAN
  /\ refused \in BOOLEAN
  /\ failure \in Failures
  /\ chosen \in 0..Len(candidates)

Init ==
  /\ phase = "sample"
  /\ attempts = <<>>
  /\ candidates = <<>>
  /\ text \in Texts
  /\ evidence = <<>>
  /\ raised = "none"
  /\ expired = FALSE
  /\ refused = FALSE
  /\ failure = "none"
  /\ chosen = 0

----------------------------------------------------------------------------
(* select_candidate().                                                     *)

\* Errors are not evidence: such candidates are out before anything is compared.
Eligible(cs) ==
  {i \in DOMAIN cs :
     \A n \in DOMAIN cs[i].evidence :
       cs[i].evidence[n].status \notin Infrastructure \cup {"patch_error"}}

ResultsOf(c, kind) == {n \in DOMAIN c.evidence : c.evidence[n].kind = kind}
FailureCount(c) ==
  MapThenSumSet(LAMBDA n : c.evidence[n].failures, ResultsOf(c, "regression"))

\* Those with regression evidence and the fewest failed units.
BestRegression(cs) ==
  LET eligible == Eligible(cs)
      tested == {i \in eligible : ResultsOf(cs[i], "regression") # {}}
  IN  IF tested = {}
        THEN eligible
        ELSE {i \in tested : \A j \in tested : FailureCount(cs[i]) <= FailureCount(cs[j])}

PassesReproduction(c) ==
  /\ ResultsOf(c, "reproduction") # {}
  /\ \A n \in ResultsOf(c, "reproduction") : c.evidence[n].status = "pass"

\* Mutant: a candidate that passes the reproduction wins whatever it breaks.
ConsideredReproductionFirst(cs) ==
  LET passed == {i \in Eligible(cs) : PassesReproduction(cs[i])}
  IN  IF passed = {} THEN BestRegression(cs) ELSE passed

\* Of those, the ones that pass the reproduction, if any does.
Considered(cs) ==
  LET best == BestRegression(cs)
      passed == {i \in best : PassesReproduction(cs[i])}
  IN  IF passed = {} THEN best ELSE passed

\* Mutant: every candidate votes, also one that was filtered out.
VotersAll(cs) == DOMAIN cs

Voters(cs) == Considered(cs)
Votes(cs, i) == Cardinality({j \in Voters(cs) : cs[j].text = cs[i].text})

\* Mutant: a text takes the place of its last candidate.
LastAppearance(cs, i) == Max({j \in Considered(cs) : cs[j].text = cs[i].text})

FirstAppearance(cs, i) == Min({j \in Considered(cs) : cs[j].text = cs[i].text})

Winners(cs) ==
  LET considered == Considered(cs)
      votes == [i \in considered |-> Votes(cs, i)]
  IN  {i \in considered :
         /\ FirstAppearance(cs, i) = i
         /\ \A j \in considered :
              \/ votes[j] < votes[i]
              \/ votes[j] = votes[i] /\ i <= FirstAppearance(cs, j)}

----------------------------------------------------------------------------
(* How the run ends.                                                       *)

Fail(type) ==
  /\ phase' = "failed"
  /\ failure' = type

\* budget.check() where the run cannot go on.
Refuse ==
  /\ expired
  /\ refused' = TRUE
  /\ Fail("budget_exceeded")

----------------------------------------------------------------------------
(* One sample.                                                             *)

RefuseSample ==
  /\ phase = "sample"
  /\ Len(attempts) < Samples
  /\ Refuse
  /\ UNCHANGED <<attempts, candidates, text, evidence, raised, expired, chosen>>

RepairError ==
  /\ phase = "sample"
  /\ Len(attempts) < Samples
  /\ ~expired
  /\ attempts' = Append(attempts, "repair_error")
  /\ UNCHANGED <<phase, candidates, text, evidence, raised, expired, refused, failure, chosen>>

BuildCandidate(t) ==
  /\ phase = "sample"
  /\ Len(attempts) < Samples
  /\ ~expired
  /\ phase' = "create"
  /\ text' = t
  /\ evidence' = <<>>
  /\ UNCHANGED <<attempts, candidates, raised, expired, refused, failure, chosen>>

\* The number of candidates with an error stays within its bound.
WithinErrors(cs) == Cardinality(DOMAIN cs \ Eligible(cs)) <= MaxErrors

\* validate_candidate() returns and the loop appends the candidate.
Record(results) ==
  /\ WithinErrors(Append(candidates, [text |-> text, evidence |-> results]))
  /\ phase' = "sample"
  /\ attempts' = Append(attempts, "validated")
  /\ candidates' = Append(candidates, [text |-> text, evidence |-> results])
  /\ evidence' = <<>>
  /\ raised' = "none"

WorkspaceErrorResult == Result("regression", "harness_error", 0)

\* provider.create()
CreateWorkspace ==
  /\ phase = "create"
  /\ phase' = "apply"
  /\ UNCHANGED <<attempts, candidates, text, evidence, raised, expired, refused,
                 failure, chosen>>

CreateFails ==
  /\ phase = "create"
  /\ Record(<<WorkspaceErrorResult>>)
  /\ UNCHANGED <<text, expired, refused, failure, chosen>>

\* An error of the file system is not a WorkspaceError: it ends the run.
CreateBreaks ==
  /\ phase = "create"
  /\ Fail("os_error")
  /\ UNCHANGED <<attempts, candidates, text, evidence, raised, expired, refused, chosen>>

\* workspace.apply_candidate()
Apply ==
  /\ phase = "apply"
  /\ phase' = "run"
  /\ UNCHANGED <<attempts, candidates, text, evidence, raised, expired, refused, failure, chosen>>

ApplyRejected(status) ==
  /\ phase = "apply"
  /\ phase' = "close"
  /\ evidence' = <<Result("regression", status, 0)>>
  /\ UNCHANGED <<attempts, candidates, text, raised, expired, refused, failure, chosen>>

\* The clone is not pristine: WorkspaceError.
ApplyFails ==
  /\ phase = "apply"
  /\ phase' = "close"
  /\ raised' = "workspace_error"
  /\ UNCHANGED <<attempts, candidates, text, evidence, expired, refused, failure, chosen>>

----------------------------------------------------------------------------
(* The commands of the schedule, each in a container of its own.           *)

Running == phase = "run" /\ Len(evidence) < Commands
NextKind == Kind(Len(evidence) + 1)

\* BudgetRunner returns a result only if the budget still holds at its end.
RunCommand(r) ==
  /\ Running
  /\ r.kind = NextKind
  /\ ~expired
  /\ evidence' = Append(evidence, r)
  /\ UNCHANGED <<phase, attempts, candidates, text, raised, expired, refused, failure, chosen>>

RunRefused ==
  /\ Running
  /\ expired
  /\ refused' = TRUE
  /\ raised' = "budget_exceeded"
  /\ phase' = "close"
  /\ UNCHANGED <<attempts, candidates, text, evidence, expired, failure, chosen>>

\* The deadline passes between the check of BudgetRunner and its clamp: no time
\* is left for the command, and PublicTestCommand refuses a timeout of zero.
ClampRefused ==
  /\ Budgeted
  /\ Running
  /\ ~expired
  /\ expired' = TRUE
  /\ raised' = "value_error"
  /\ phase' = "close"
  /\ UNCHANGED <<attempts, candidates, text, evidence, refused, failure, chosen>>

\* An artifact of the run cannot be written.
RunBreaks ==
  /\ Running
  /\ raised' = "os_error"
  /\ phase' = "close"
  /\ UNCHANGED <<attempts, candidates, text, evidence, expired, refused, failure, chosen>>

\* reproduction_file(): the patch has created the path of the reproduction or
\* has removed its directory.
OverlayRefused ==
  /\ Running
  /\ NextKind = "reproduction"
  /\ raised' = "value_error"
  /\ phase' = "close"
  /\ UNCHANGED <<attempts, candidates, text, evidence, expired, refused, failure, chosen>>

EndCommands ==
  /\ phase = "run"
  /\ Len(evidence) = Commands
  /\ phase' = "close"
  /\ UNCHANGED <<attempts, candidates, text, evidence, raised, expired, refused, failure, chosen>>

----------------------------------------------------------------------------
(* __exit__ of the workspace.                                              *)

\* Mutant: a WorkspaceError leaves the evidence as it is.
CloseUnrecorded ==
  /\ phase = "close"
  /\ raised \in {"none", "workspace_error"}
  /\ Record(evidence)
  /\ UNCHANGED <<text, expired, refused, failure, chosen>>

Close ==
  /\ phase = "close"
  /\ raised \in {"none", "workspace_error"}
  /\ Record(IF raised = "none" THEN evidence ELSE Append(evidence, WorkspaceErrorResult))
  /\ UNCHANGED <<text, expired, refused, failure, chosen>>

ClosePropagates ==
  /\ phase = "close"
  /\ raised \in {"os_error", "value_error", "budget_exceeded"}
  /\ Fail(raised)
  /\ UNCHANGED <<attempts, candidates, text, evidence, raised, expired, refused, chosen>>

\* The cleanup is refused: its WorkspaceError replaces whatever was in flight,
\* also a BudgetExceeded, and validate_candidate() handles it.
CloseFails ==
  /\ phase = "close"
  /\ Record(Append(evidence, WorkspaceErrorResult))
  /\ UNCHANGED <<text, expired, refused, failure, chosen>>

CloseBreaks ==
  /\ phase = "close"
  /\ Fail("os_error")
  /\ UNCHANGED <<attempts, candidates, text, evidence, raised, expired, refused, chosen>>

----------------------------------------------------------------------------
(* After the last sample.                                                  *)

\* attempts.json is written before the selection can fail.
EndSamples ==
  /\ phase = "sample"
  /\ Len(attempts) = Samples
  /\ IF candidates = <<>>
       THEN Fail("workflow_error")
       ELSE phase' = "select" /\ UNCHANGED failure
  /\ UNCHANGED <<attempts, candidates, text, evidence, raised, expired, refused, chosen>>

NoneSelectable ==
  /\ phase = "select"
  /\ Eligible(candidates) = {}
  /\ Fail("workflow_error")
  /\ UNCHANGED <<attempts, candidates, text, evidence, raised, expired, refused, chosen>>

Select ==
  /\ phase = "select"
  /\ \E i \in Winners(candidates) : chosen' = i
  /\ phase' = "confirm"
  /\ UNCHANGED <<attempts, candidates, text, evidence, raised, expired, refused, failure>>

\* Mutant: the prediction is written without a last look at the budget.
ConfirmUnchecked ==
  /\ phase = "confirm"
  /\ phase' = "done"
  /\ UNCHANGED <<attempts, candidates, text, evidence, raised, expired, refused, failure, chosen>>

Confirm ==
  /\ phase = "confirm"
  /\ ~expired
  /\ phase' = "done"
  /\ UNCHANGED <<attempts, candidates, text, evidence, raised, expired, refused, failure, chosen>>

RefusePrediction ==
  /\ phase = "confirm"
  /\ Refuse
  /\ UNCHANGED <<attempts, candidates, text, evidence, raised, expired, chosen>>

\* The deadline passes.  Token limits are reached before the first sample.
Expire ==
  /\ Budgeted
  /\ ~expired
  /\ phase \notin {"done", "failed"}
  /\ expired' = TRUE
  /\ UNCHANGED <<phase, attempts, candidates, text, evidence, raised, refused, failure, chosen>>

Next ==
  \/ RefuseSample
  \/ RepairError
  \/ \E t \in Texts : BuildCandidate(t)
  \/ CreateWorkspace \/ CreateFails \/ CreateBreaks
  \/ Apply \/ ApplyFails
  \/ \E status \in {"patch_error"} \cup (Faults \ {"out_of_memory"}) : ApplyRejected(status)
  \/ \E r \in Outcomes(NextKind) : RunCommand(r)
  \/ RunRefused \/ ClampRefused \/ RunBreaks \/ OverlayRefused \/ EndCommands
  \/ Close \/ ClosePropagates \/ CloseFails \/ CloseBreaks
  \/ EndSamples \/ NoneSelectable \/ Select \/ Confirm \/ RefusePrediction
  \/ Expire

Spec == Init /\ [][Next]_vars

----------------------------------------------------------------------------
(* Properties.                                                             *)

Regular(results) ==
  /\ Len(results) = Commands
  /\ \A n \in DOMAIN results :
       results[n].kind = Kind(n) /\ results[n].status \in {"pass", "fail"}

\* A selected patch has a usable result for every command of the schedule, in
\* its order: no candidate is chosen on the strength of a validation that was
\* cut short by a workspace, a container or a cleanup (validate_candidate,
\* select_candidate).
SelectedIsVerified == chosen # 0 => Regular(candidates[chosen].evidence)

Without(cs, i) == SubSeq(cs, 1, i - 1) \o SubSeq(cs, i + 1, Len(cs))

\* An infrastructure failure is never evidence: taking a candidate with one out
\* of the list changes nothing, neither the comparison nor the votes.
ErrorsCarryNoWeight ==
  phase = "select" =>
    \A i \in DOMAIN candidates \ Eligible(candidates) :
      Winners(candidates) =
        {IF j < i THEN j ELSE j + 1 : j \in Winners(Without(candidates, i))}

\* The winner against each rival: fewer failed regression units win, then passing
\* the reproduction, then more candidates of the same standing with the same text.
Beats(i, j) ==
  LET ci == candidates[i]
      cj == candidates[j]
      Peers(k) == {n \in Eligible(candidates) :
                     /\ FailureCount(candidates[n]) = FailureCount(candidates[k])
                     /\ PassesReproduction(candidates[n]) = PassesReproduction(candidates[k])
                     /\ candidates[n].text = candidates[k].text}
  IN  \/ FailureCount(ci) < FailureCount(cj)
      \/ /\ FailureCount(ci) = FailureCount(cj)
         /\ \/ PassesReproduction(ci) /\ ~PassesReproduction(cj)
            \/ /\ PassesReproduction(ci) = PassesReproduction(cj)
               /\ Cardinality(Peers(i)) > Cardinality(Peers(j))

\* Filtering in stages finds the best candidate: none that stage by stage was
\* left out, or lost the vote, beats the chosen one.
WinnerIsUnbeaten ==
  phase = "confirm" => \A j \in Eligible(candidates) : ~Beats(j, chosen)

\* The keys of the repairs that leave the code of a repair with key t, and of
\* those that leave other pieces of code.
Supporting == [t \in Texts |-> {VotingKey(r) : r \in {r \in Repairs :
  HasKey(r) /\ \E q \in Sampled : VotingKey(q) = t /\ (q = r \/ SameRepair(q, r))}}]
Opposing == [t \in Texts |-> {VotingKey(r) : r \in {r \in Repairs :
  HasKey(r) /\ \E q \in Sampled : VotingKey(q) = t /\ DifferentRepair(q, r)}}]

\* One more candidate with the winner's results is one more vote for it and does not
\* unseat it, if its repair leaves the winner's code, whatever comments, docstrings and
\* layout come with it (comment_normalized_diff); no repair that leaves other pieces votes
\* for it.  Between the two the key is a heuristic (docs/repair-selection.md:83-85): the
\* same function added to another class, or in another place, has the same key.
SupportKeepsWinner ==
  phase = "confirm" =>
    LET winner == candidates[chosen]
    IN  /\ \A key \in Supporting[winner.text] :
             LET more == Append(candidates, [winner EXCEPT !.text = key])
             IN  /\ Winners(more) = {chosen}
                 /\ Votes(more, chosen) = Votes(candidates, chosen) + 1
        /\ winner.text \notin Opposing[winner.text]

\* Once the budget has refused a candidate's work, no further workspace is created
\* and no prediction is made, although a failed cleanup can swallow the refusal.
RefusalIsFinal ==
  [][refused => phase' = phase \/ phase' \notin {"apply", "done"}]_vars

\* "Invalid repair samples are recorded and skipped.  Valid patches receive
\* independent Git workspaces and fresh public-test containers before the existing
\* selection policy chooses one final patch" (docs/fixed-workflow.md:40): while
\* time is left, no sample's patch ends the run.  It does not hold: a patch that
\* creates the path of the reproduction makes reproduction_file() raise a
\* ValueError, which validate_candidate() does not handle.
SampleNeverEndsRun == failure = "value_error" => expired
=============================================================================
