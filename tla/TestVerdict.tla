---------------------------- MODULE TestVerdict ----------------------------
(***************************************************************************)
(* What one test command says about a checkout: the classification at the  *)
(* end of DockerTestRunner.run (validation/docker.py), the check of        *)
(* reproduction evidence (validation/reproduction_evidence.py) and         *)
(* ValidationResult.failure_count (schemas/prediction.py).                 *)
(*                                                                         *)
(* A command is [report, counted]: whether it declares a report, and the   *)
(* tests whose failure counts.  The empty set stands for the code's None,  *)
(* since PublicTestCommand refuses an empty tuple.  A report is a function *)
(* from the tests it names to their outcome; parse_report refuses a report *)
(* without cases, so the empty function also stands for one that is        *)
(* missing, too large or malformed.                                        *)
(***************************************************************************)
EXTENDS Integers, FiniteSets

CONSTANT Tests  \* test IDs

CaseStatuses == {"passed", "failed", "skipped", "error"}
Statuses == {"pass", "fail", "timeout", "out_of_memory", "harness_error"}
Usable == {"pass", "fail"}

Reports == UNION {[named -> CaseStatuses] : named \in SUBSET Tests}
NoCases == [t \in {} |-> "passed"]

\* What a run shows before it is judged: "success", a declared failure code
\* ("failure") or any other exit code ("other").
Exits == {"success", "failure", "other"}
Runs == [timeout : BOOLEAN, oom : BOOLEAN, stopped : BOOLEAN, exit : Exits,
         report : Reports]

CommandType == [report : BOOLEAN, counted : SUBSET Tests]
ResultType == [status : Statuses, cases : Reports]

CasesWith(cases, statuses) == {t \in DOMAIN cases : cases[t] \in statuses}
Failing(cases) == CasesWith(cases, {"failed", "error"})

----------------------------------------------------------------------------
\* A command that has proved itself on the unpatched checkout.
Proven(command) == command.counted # {}

StatusOfExit(command, run) ==
  IF run.exit = "success" THEN "pass"
  ELSE IF run.exit = "failure" \/ Proven(command) THEN "fail"
  ELSE "harness_error"

\* Mutant: the exit status is read before the state of the container.
StatusOfRunExitFirst(command, run) ==
  IF run.timeout THEN "timeout"
  ELSE IF run.exit = "success" THEN "pass"
  ELSE IF run.oom THEN "out_of_memory"
  ELSE IF run.stopped THEN "harness_error"
  ELSE StatusOfExit(command, run)

StatusOfRun(command, run) ==
  IF run.timeout THEN "timeout"
  ELSE IF run.oom THEN "out_of_memory"
  ELSE IF run.stopped THEN "harness_error"
  ELSE StatusOfExit(command, run)

\* The exit status and the report disagree.
Contradicts(command, run, status) ==
  \/ status = "pass" /\ Failing(run.report) # {}
  \/ status = "fail" /\ Failing(run.report) = {} /\ ~Proven(command)

Judge(command, run) ==
  LET status == StatusOfRun(command, run)
  IN  IF ~command.report \/ status \notin Usable
        THEN [status |-> status, cases |-> NoCases]
      ELSE IF run.report = NoCases
        THEN [status |-> IF Proven(command) /\ status = "fail" THEN "fail" ELSE "harness_error",
              cases |-> NoCases]
      ELSE IF Contradicts(command, run, status)
        THEN [status |-> "harness_error", cases |-> NoCases]
      ELSE [status |-> status, cases |-> run.report]

----------------------------------------------------------------------------
\* check_reproduction_result(): a reproduction speaks only through a report in
\* which every case ran, and one failed exactly if the command failed.
CleanReproduction(command, result) ==
  /\ command.report
  /\ result.cases # NoCases
  /\ CasesWith(result.cases, {"error", "skipped"}) = {}
  /\ (result.status = "fail") = (CasesWith(result.cases, {"failed"}) # {})

CheckReproduction(command, result) ==
  IF result.status \in Usable /\ ~CleanReproduction(command, result)
    THEN [result EXCEPT !.status = "harness_error"]
    ELSE result

----------------------------------------------------------------------------
\* Mutant: only counted tests that failed count, not those that went missing.
FailureCountOfFailing(command, result) ==
  IF result.cases = NoCases
    THEN IF result.status = "pass" THEN 0
         ELSE IF command.counted = {} THEN 1 ELSE Cardinality(command.counted)
  ELSE IF command.counted = {} THEN Cardinality(Failing(result.cases))
  ELSE Cardinality(command.counted \cap Failing(result.cases))

\* failure_count(): how many selection units failed.
FailureCount(command, result) ==
  IF result.cases = NoCases
    THEN IF result.status = "pass" THEN 0
         ELSE IF command.counted = {} THEN 1 ELSE Cardinality(command.counted)
  ELSE IF command.counted = {} THEN Cardinality(Failing(result.cases))
  ELSE Cardinality(command.counted \ CasesWith(result.cases, {"passed"}))
=============================================================================
