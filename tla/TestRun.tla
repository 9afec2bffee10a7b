------------------------------ MODULE TestRun ------------------------------
(***************************************************************************)
(* One test command in one container: DockerTestRunner.run                 *)
(* (validation/docker.py) as BudgetRunner.run (budget_runner.py) calls it. *)
(*                                                                         *)
(* Every call of the Docker CLI can succeed, fail, or be cut off by its    *)
(* own timeout; under a budget it can also be refused before it is made,   *)
(* or be cut off because the rest of the budget was its timeout.  The      *)
(* budget is one bit, expired, as in CandidateSelection.                   *)
(***************************************************************************)
EXTENDS TestVerdict

CONSTANTS
  Commands,  \* commands to run: [report, counted, reproduction]
  Modes      \* how the runner may be called, see BudgetRunner.run

ASSUME RunAssumption ==
  /\ Commands \subseteq [report : BOOLEAN, counted : SUBSET Tests, reproduction : BOOLEAN]
  /\ \A c \in Commands : c.counted # {} => c.report /\ ~c.reproduction
  /\ Modes \subseteq {"unbudgeted", "baseline", "clamped"}

VARIABLES
  command,    \* command
  mode,       \* "clamped": the runner's _docker is BudgetRunner's bounded()
  expired,    \* the budget has reached a limit
  step,       \* what run() does next
  container,  \* what Docker has under the run's name
  attempted,  \* attempted_create
  run,        \* what the command did and left behind
  status,     \* status
  cases,      \* test_cases
  raising,    \* exception on its way out
  answer,     \* how the call ended
  cut,        \* history: a call was cut off by the budget
  broken,     \* history: Docker failed where run() looks at an exit code only
  unremoved   \* history: the removal of the container failed

call == <<command, mode>>
sandbox == <<container, attempted>>
evidence == <<run, status, cases>>
exits == <<raising, answer>>
history == <<cut, broken, unremoved>>
vars == <<call, expired, step, sandbox, evidence, exits, history>>

\* Steps that call Docker through _docker, other than the removal.
Calls == {"create", "start", "copy", "prepare", "exec", "inspect", "stdout", "stderr", "report"}
Steps == Calls \cup {"enter", "snapshot", "cleanup", "write", "leave", "end"}
Errors == {"budget_exceeded", "os_error", "value_error"}

\* "late": the client gave up and Docker may still create it; "stray": it did so
\* after the removal.
Containers == {"none", "late", "stray", "created", "running", "removed"}
Left == {"created", "running"}

TypeOK ==
  /\ command \in Commands
  /\ mode \in Modes
  /\ step \in Steps
  /\ container \in Containers
  /\ run \in Runs
  /\ status \in Statuses
  /\ cases \in Reports
  /\ raising \in Errors \cup {"none"}
  /\ answer \in Errors \cup {"none", "returned"}
  /\ {expired, attempted, cut, broken, unremoved} \subseteq BOOLEAN

NoRun == [timeout |-> FALSE, oom |-> FALSE, stopped |-> FALSE, exit |-> "other",
          report |-> NoCases]

Init ==
  /\ command \in Commands
  /\ mode \in Modes
  /\ expired = FALSE
  /\ step = "enter"
  /\ container = "none" /\ attempted = FALSE
  /\ run = NoRun /\ status = "harness_error" /\ cases = NoCases
  /\ raising = "none" /\ answer = "none"
  /\ cut = FALSE /\ broken = FALSE /\ unremoved = FALSE

----------------------------------------------------------------------------
(* Outcomes common to the calls.                                           *)

Refused == mode = "clamped" /\ expired
Granted(s) == step = s /\ ~Refused
Goto(s) == step' = s

\* except (DockerError, OSError, TimeoutExpired, ValueError, KeyError)
HarnessError ==
  /\ status' = "harness_error"
  /\ Goto("cleanup")
  /\ UNCHANGED <<run, cases, exits>>

\* A create the client gave up on may have been done, or may be done later.
MaybeCreated == IF step = "create" THEN {"none", "created", "late"} ELSE {container}

\* bounded() finds no budget left: BudgetExceeded is not handled by run().
CallRefused ==
  /\ step \in Calls
  /\ Refused
  /\ raising' = "budget_exceeded"
  /\ Goto("cleanup")
  /\ UNCHANGED <<call, expired, sandbox, evidence, answer, history>>

\* The call cannot be started, exceeds its own timeout or, where run() checks it,
\* fails in Docker.
CallFails ==
  /\ step \in Calls
  /\ ~Refused
  /\ container' \in MaybeCreated
  /\ HarnessError
  /\ UNCHANGED <<call, expired, attempted, history>>

\* The call exceeds what was left of the budget.
CallCut ==
  /\ step \in Calls \ {"exec"}
  /\ mode = "clamped" /\ ~expired
  /\ expired' = TRUE
  /\ cut' = TRUE
  /\ container' \in MaybeCreated
  /\ HarnessError
  /\ UNCHANGED <<call, attempted, broken, unremoved>>

----------------------------------------------------------------------------
(* The way in.                                                             *)

\* BudgetRunner.run(): check, clamp and patch; or none of that.
Enter ==
  /\ step = "enter"
  /\ IF Refused
       THEN raising' = "budget_exceeded" /\ Goto("leave")
       ELSE UNCHANGED raising /\ Goto("snapshot")
  /\ UNCHANGED <<call, expired, sandbox, evidence, answer, history>>

\* No time is left when the clamp is computed, or the source or the artifact
\* directory is refused.
EnterFails ==
  /\ Granted("enter")
  /\ raising' \in {"value_error", "os_error"}
  /\ Goto("leave")
  /\ UNCHANGED <<call, expired, sandbox, evidence, answer, history>>

Snapshot ==
  /\ step = "snapshot"
  /\ attempted' = TRUE
  /\ Goto("create")
  /\ UNCHANGED <<call, expired, container, evidence, exits, history>>

\* A link or a special file in the source, or an I/O error.
SnapshotFails ==
  /\ step = "snapshot"
  /\ HarnessError
  /\ UNCHANGED <<call, expired, sandbox, history>>

Create ==
  /\ Granted("create")
  /\ container' = "created"
  /\ Goto("start")
  /\ UNCHANGED <<call, expired, attempted, evidence, exits, history>>

Start ==
  /\ Granted("start")
  /\ container' = "running"
  /\ Goto("copy")
  /\ UNCHANGED <<call, expired, attempted, evidence, exits, history>>

\* Calls that leave nothing run() looks at: the copy of the source, the workspace
\* setup of a specialised runner, and _tail_file(), for which a file that cannot be
\* read is empty.
AfterCall == [copy |-> "prepare", prepare |-> "exec", stdout |-> "stderr"]
Proceed ==
  /\ step \in DOMAIN AfterCall
  /\ ~Refused
  /\ Goto(AfterCall[step])
  /\ UNCHANGED <<call, expired, sandbox, evidence, exits, history>>

----------------------------------------------------------------------------
(* The command.                                                            *)

\* What the command can do within its time, and what it does when it has no more.
Finished == {r \in Runs : ~r.timeout /\ (command.report \/ r.report = NoCases)}
TimedOut == [NoRun EXCEPT !.timeout = TRUE]

\* The command ends, and exit_code is kept.
Exec(r) ==
  /\ Granted("exec")
  /\ run' = r
  /\ Goto("inspect")
  /\ UNCHANGED <<call, expired, sandbox, status, cases, exits, history>>

\* Docker cannot run the command, which looks like an exit code of the command.
ExecBreaks ==
  /\ Granted("exec")
  /\ \E exit \in {"failure", "other"} : run' = [NoRun EXCEPT !.exit = exit]
  /\ broken' = TRUE
  /\ Goto("inspect")
  /\ UNCHANGED <<call, expired, sandbox, status, cases, exits, cut, unremoved>>

\* Mutant: a command that timed out is run once more, and again.
ExecTimesOutAgain ==
  /\ Granted("exec")
  /\ run' = TimedOut
  /\ Goto("prepare")
  /\ UNCHANGED <<call, expired, sandbox, status, cases, exits, history>>

\* subprocess.TimeoutExpired by the command's own timeout.
ExecTimesOut ==
  /\ Granted("exec")
  /\ run' = TimedOut
  /\ Goto("inspect")
  /\ UNCHANGED <<call, expired, sandbox, status, cases, exits, history>>

\* The same by the clamp.
ExecCut ==
  /\ Granted("exec")
  /\ mode = "clamped"
  /\ expired' = TRUE
  /\ cut' = TRUE
  /\ run' = TimedOut
  /\ Goto("inspect")
  /\ UNCHANGED <<call, sandbox, status, cases, exits, broken, unremoved>>

----------------------------------------------------------------------------
(* The evidence.                                                           *)

Inspect ==
  /\ Granted("inspect")
  /\ status' = StatusOfRun(command, run)
  /\ Goto("stdout")
  /\ UNCHANGED <<call, expired, sandbox, run, cases, exits, history>>

Stderr ==
  /\ Granted("stderr")
  /\ Goto(IF command.report /\ status \in Usable THEN "report" ELSE "cleanup")
  /\ UNCHANGED <<call, expired, sandbox, evidence, exits, history>>

\* _read_file(), parse_report() and the rules of agreement, on the run as it is read.
Read(r) ==
  LET result == Judge(command, r)
  IN  /\ Granted("report")
      /\ status' = result.status
      /\ cases' = result.cases
      /\ Goto("cleanup")
      /\ UNCHANGED <<call, expired, sandbox, run, exits, cut, unremoved>>

Report == Read(run) /\ UNCHANGED broken

\* Docker cannot read the report, which looks like a report that is missing.
ReportBreaks == Read([run EXCEPT !.report = NoCases]) /\ broken' = TRUE

----------------------------------------------------------------------------
(* The way out.                                                            *)

AfterCleanup == IF raising = "none" THEN "write" ELSE "leave"

NothingToRemove ==
  /\ step = "cleanup"
  /\ ~attempted
  /\ Goto(AfterCleanup)
  /\ UNCHANGED <<call, expired, sandbox, evidence, exits, history>>

\* Mutant: the removal is refused like any other call.
RemoveBounded ==
  /\ step = "cleanup"
  /\ attempted
  /\ container' = IF container \in Left /\ ~Refused THEN "removed" ELSE container
  /\ raising' = IF Refused THEN "budget_exceeded" ELSE raising
  /\ Goto(IF raising' = "none" THEN "write" ELSE "leave")
  /\ UNCHANGED <<call, expired, attempted, evidence, answer, history>>

\* finally: docker rm, which bounded() lets through.
RemoveContainer ==
  /\ step = "cleanup"
  /\ attempted
  /\ container' = IF container \in Left THEN "removed" ELSE container
  /\ Goto(AfterCleanup)
  /\ UNCHANGED <<call, expired, attempted, evidence, exits, history>>

\* The removal fails, or takes too long and may have been done all the same.
RemoveFails ==
  /\ step = "cleanup"
  /\ attempted
  /\ status' = "harness_error"
  /\ container' \in {container} \cup (IF container \in Left THEN {"removed"} ELSE {})
  /\ unremoved' = TRUE
  /\ Goto(AfterCleanup)
  /\ UNCHANGED <<call, expired, attempted, run, cases, exits, cut, broken>>

\* The logs, the result, check_reproduction_result() and execution.json.
Write ==
  /\ step = "write"
  /\ status' = IF command.reproduction
                 THEN CheckReproduction(command, [status |-> status, cases |-> cases]).status
                 ELSE status
  /\ Goto("leave")
  /\ UNCHANGED <<call, expired, sandbox, run, cases, exits, history>>

WriteFails ==
  /\ step = "write"
  /\ raising' = "os_error"
  /\ Goto("leave")
  /\ UNCHANGED <<call, expired, sandbox, evidence, answer, history>>

\* Mutant: the budget is not looked at after the run.
LeaveUnchecked ==
  /\ step = "leave"
  /\ answer' = IF raising # "none" THEN raising ELSE "returned"
  /\ Goto("end")
  /\ UNCHANGED <<call, expired, sandbox, evidence, raising, history>>

\* BudgetRunner.run() once more: the last check, unless an exception is on its way.
Leave ==
  /\ step = "leave"
  /\ answer' = IF raising # "none" THEN raising
               ELSE IF Refused THEN "budget_exceeded"
               ELSE "returned"
  /\ Goto("end")
  /\ UNCHANGED <<call, expired, sandbox, evidence, raising, history>>

----------------------------------------------------------------------------
(* What happens outside the process.                                       *)

Expire ==
  /\ mode = "clamped" /\ ~expired
  /\ step # "end"
  /\ expired' = TRUE
  /\ UNCHANGED <<call, step, sandbox, evidence, exits, history>>

LateCreate ==
  /\ container = "late"
  /\ container' = IF step \in {"write", "leave", "end"} THEN "stray" ELSE "created"
  /\ UNCHANGED <<call, expired, step, attempted, evidence, exits, history>>

Continue ==
  \/ CallRefused \/ CallFails \/ CallCut
  \/ Enter \/ EnterFails \/ Snapshot \/ SnapshotFails \/ Create \/ Start \/ Proceed
  \/ (\E r \in Finished : Exec(r))
  \/ ExecBreaks \/ ExecTimesOut \/ ExecCut
  \/ Inspect \/ Stderr \/ Report \/ ReportBreaks
  \/ NothingToRemove \/ RemoveContainer \/ RemoveFails \/ Write \/ WriteFails \/ Leave

Next == Continue \/ Expire \/ LateCreate

Spec == Init /\ [][Next]_vars

\* Every call of the Docker CLI has a timeout, so the process always goes on.
LiveSpec == Spec /\ WF_vars(Continue)

----------------------------------------------------------------------------
(* Properties.                                                             *)

Returned(s) == answer = "returned" /\ status \in s

\* A pass means the command ran to its end in a container that lived, ended with
\* exit 0 and, if it declares a report, left one in which nothing failed (and, for a
\* reproduction, everything passed).  A fail means it ended otherwise, or that Docker
\* broke in one of the two calls whose exit code is all that run() sees.
VerdictIsEarned ==
  /\ Returned(Usable) => ~run.timeout /\ ~run.oom /\ ~run.stopped
  /\ Returned({"pass"}) =>
       /\ run.exit = "success"
       /\ command.report => run.report # NoCases /\ Failing(run.report) = {}
       /\ command.reproduction => CasesWith(run.report, CaseStatuses \ {"passed"}) = {}
  /\ Returned({"fail"}) /\ ~broken =>
       /\ run.exit # "success"
       /\ command.counted = {} /\ command.report => Failing(run.report) # {}
       /\ command.reproduction => command.report

\* A result the caller gets is never the doing of the clamp: when the budget cuts a
\* call off, the caller is told that the budget is spent.
BudgetIsNeverBlamed == answer = "returned" => ~cut

\* Cleanup failures make results ineligible: with any status but harness_error the
\* container is gone.  And however the call ends, no container is left that could have
\* been removed: a removal that fails, or a create that Docker completes after it, is
\* the only way.
ContainersAreRemoved ==
  /\ Returned(Statuses \ {"harness_error"}) => container = "removed"
  /\ answer # "none" /\ ~unremoved => container \notin Left

\* "Docker errors stay infrastructure failures even for a proven command".
DockerErrorsAreNoVerdict == broken => ~Returned({"fail"})

\* Every run of a command ends.
EveryRunEnds == <>(answer # "none")
=============================================================================
