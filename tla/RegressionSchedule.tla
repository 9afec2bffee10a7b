------------------------- MODULE RegressionSchedule -------------------------
(***************************************************************************)
(* The regression schedule of a run: the baseline of each inventory        *)
(* command on the unpatched revision, the exclusions the model asks for,   *)
(* the frozen commands (workflow/fixed.py, validation/regression.py) and   *)
(* what candidates are counted for by them.                                *)
(***************************************************************************)
EXTENDS TestVerdict, Sequences

CONSTANTS
  Inventory,   \* number of regression_tests
  Declares,    \* Declares[n]: command n declares a report
  Names,       \* Names[n]: tests its report can name, or its own test_id
  HasOthers    \* TRUE: a reproduction command follows

ASSUME InventoryAssumption ==
  /\ Inventory \in Nat \ {0}
  /\ Declares \in [1..Inventory -> BOOLEAN]
  /\ Names \in [1..Inventory -> SUBSET Tests]
  /\ \A n \in 1..Inventory : ~Declares[n] => \E id \in Tests : Names[n] = {id}
  /\ HasOthers \in BOOLEAN

VARIABLES
  phase,      \* "baseline", "choosing", "validating" or "failed"
  baselines,  \* baselines: what each command contributes
  excluded,   \* excluded IDs
  schedule,   \* inventory commands in public_commands; they run in inventory order
  observed    \* runs of the candidate at hand, by command

vars == <<phase, baselines, excluded, schedule, observed>>

\* Runs of command n: a run that did not finish normally shows no report, and
\* the report names only tests of the command.  "stopped" stands for every failure
\* of the harness.
RunsOf(n) ==
  {run \in [timeout : BOOLEAN, oom : BOOLEAN, stopped : BOOLEAN, exit : Exits,
            report : UNION {[named -> CaseStatuses] : named \in SUBSET Names[n]}] :
     /\ run.timeout \/ run.oom \/ run.stopped => run.report = NoCases /\ run.exit = "other"
     /\ ~Declares[n] => run.report = NoCases
     /\ Cardinality({f \in {"timeout", "oom", "stopped"} : run[f]}) <= 1}

Baselines == [run : Runs, status : Statuses, passing : SUBSET Tests, from_report : BOOLEAN]

Unobserved == [n \in {} |-> 0]

PassingIds == UNION {baselines[n].passing : n \in DOMAIN baselines}

\* kept, of a baseline.
Kept(n) == baselines[n].passing \ excluded

\* The frozen command: narrowed to the kept tests if the baseline had a report.
Frozen(n) ==
  [report |-> Declares[n],
   counted |-> IF baselines[n].from_report THEN Kept(n) ELSE {}]

TypeOK ==
  /\ phase \in {"baseline", "choosing", "validating", "failed"}
  /\ baselines \in Seq(Baselines)
  /\ Len(baselines) <= Inventory
  /\ excluded \subseteq PassingIds
  /\ schedule \subseteq DOMAIN baselines
  /\ DOMAIN observed \subseteq schedule
  /\ observed \in [DOMAIN observed -> Runs]

Init ==
  /\ phase = "baseline"
  /\ baselines = <<>>
  /\ excluded = {}
  /\ schedule = {}
  /\ observed = Unobserved

Fail ==
  /\ phase' = "failed"
  /\ UNCHANGED <<baselines, excluded, schedule, observed>>

----------------------------------------------------------------------------
\* regression_baseline_ids(): each test that passed, or the command itself.
BaselineIds(n, result) ==
  IF result.cases # NoCases THEN CasesWith(result.cases, {"passed"})
  ELSE IF result.status = "pass" THEN Names[n]
  ELSE {}

Baseline(n, run) ==
  LET result == Judge([report |-> Declares[n], counted |-> {}], run)
  IN  [run |-> run,
       status |-> result.status,
       passing |-> BaselineIds(n, result),
       from_report |-> result.cases # NoCases]

RunBaseline(n, run) ==
  /\ phase = "baseline"
  /\ n = Len(baselines) + 1
  /\ n <= Inventory
  /\ run \in RunsOf(n)
  /\ LET next == Baseline(n, run)
     IN  IF next.passing \cap PassingIds # {}
           THEN Fail
           ELSE /\ baselines' = Append(baselines, next)
                /\ UNCHANGED <<phase, excluded, schedule, observed>>

\* Infrastructure failures are looked at once every command has run.
EndBaseline ==
  /\ phase = "baseline"
  /\ Len(baselines) = Inventory
  /\ IF \E n \in DOMAIN baselines : baselines[n].status \notin Usable
       THEN Fail
       ELSE phase' = "choosing" /\ UNCHANGED <<baselines, excluded, schedule, observed>>

\* A command none of whose tests is kept is dropped.
Scheduled(ids) == {n \in DOMAIN baselines : baselines[n].passing \ ids # {}}

\* parse_regression_exclusions(), select_regression_commands() and the check that
\* some public command is left.
Exclude(ids) ==
  /\ phase = "choosing"
  /\ IF ~(ids \subseteq PassingIds) \/ (Scheduled(ids) = {} /\ ~HasOthers)
       THEN Fail
       ELSE /\ phase' = "validating"
            /\ excluded' = ids
            /\ schedule' = Scheduled(ids)
            /\ UNCHANGED <<baselines, observed>>

----------------------------------------------------------------------------
\* The next command of the schedule on the candidate at hand.
Validate(n, run) ==
  /\ phase = "validating"
  /\ n \in schedule \ DOMAIN observed
  /\ \A m \in schedule \ DOMAIN observed : n <= m
  /\ run \in RunsOf(n)
  /\ observed' = [m \in DOMAIN observed \cup {n} |-> IF m = n THEN run ELSE observed[m]]
  /\ UNCHANGED <<phase, baselines, excluded, schedule>>

NextCandidate ==
  /\ phase = "validating"
  /\ DOMAIN observed = schedule
  /\ observed' = Unobserved
  /\ UNCHANGED <<phase, baselines, excluded, schedule>>

Next ==
  \/ \E n \in 1..Inventory : \E run \in RunsOf(n) : RunBaseline(n, run)
  \/ EndBaseline
  \/ \E ids \in SUBSET Tests : Exclude(ids)
  \/ \E n \in schedule : \E run \in RunsOf(n) : Validate(n, run)
  \/ NextCandidate

Spec == Init /\ [][Next]_vars

----------------------------------------------------------------------------
(* Properties.                                                             *)

ResultOf(n) == Judge(Frozen(n), observed[n])
CountOf(n) == FailureCount(Frozen(n), ResultOf(n))
Counts(n) == ResultOf(n).status \in Usable

\* A test, or the command as a unit, passed in this run.
DidPass(n, id, run) ==
  IF Declares[n]
    THEN id \in DOMAIN run.report /\ run.report[id] = "passed"
    ELSE run.exit = "success"

\* "Every candidate runs the same frozen schedule, so each command contributes the
\* same kind of unit" (select_candidate): a usable result fails exactly in the units
\* that passed on the unpatched revision, were kept and do not pass now.  Skipping a
\* test, leaving it out of the report or breaking the build never hides one.
FailuresAreRegressions ==
  \A n \in DOMAIN observed :
    Counts(n) => CountOf(n) = Cardinality({id \in Kept(n) : ~DidPass(n, id, observed[n])})

\* No test is counted by two commands of the schedule.
TestsCountOnce ==
  \A n, m \in schedule : n # m => Kept(n) \cap Kept(m) = {}
=============================================================================
