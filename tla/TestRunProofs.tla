--------------------------- MODULE TestRunProofs ----------------------------
(***************************************************************************)
(* Proofs about TestRun and SnapshotRun: for every command, caller and     *)
(* course of the Docker calls, a returned verdict is earned, is not the    *)
(* doing of the budget, and leaves no container; and for every checkout    *)
(* the command finds that checkout, with links that end inside it.         *)
(***************************************************************************)
EXTENDS SnapshotRun, FiniteSetTheorems, WellFoundedInduction, TLAPS

----------------------------------------------------------------------------
(* The inductive invariant.                                                *)

BeforeVerdict ==
  {"enter", "snapshot", "create", "start", "copy", "prepare", "exec", "inspect"}
AfterInspect == {"stdout", "stderr", "report"}
AfterVerdict == {"cleanup", "write", "leave", "end"}

\* What status s with cases c says is what the run showed.
IsSound(s, c) ==
  /\ s \in Usable => ~run.timeout /\ ~run.oom /\ ~run.stopped
  /\ s = "pass" =>
       /\ run.exit = "success"
       /\ command.report => c = run.report /\ c # NoCases /\ Failing(c) = {}
  /\ s = "fail" /\ ~broken =>
       /\ run.exit # "success"
       /\ command.counted = {} /\ command.report => c = run.report /\ Failing(c) # {}

IsClean(s) ==
  command.reproduction /\ s \in Usable =>
    /\ command.report
    /\ s = "pass" => CasesWith(run.report, CaseStatuses \ {"passed"}) = {}

StepInv ==
  /\ step \in Steps
  /\ raising \in Errors \cup {"none"}
  /\ answer # "none" => step = "end"
  /\ answer = "returned" => raising = "none"
  /\ step \in BeforeVerdict \cup AfterInspect => raising = "none"

VerdictInv ==
  /\ step \in BeforeVerdict => status = "harness_error" /\ cases = NoCases
  /\ step \in AfterInspect => status = StatusOfRun(command, run) /\ cases = NoCases
  /\ step = "report" => command.report /\ status \in Usable
  /\ step \in AfterVerdict /\ raising = "none" => IsSound(status, cases)
  /\ step \in {"leave", "end"} /\ raising = "none" => IsClean(status)

BudgetInv ==
  /\ cut => mode = "clamped" /\ expired
  /\ answer = "returned" => ~cut

ContainerInv ==
  /\ step \in {"enter", "snapshot", "create"} => container = "none"
  /\ step = "start" => container = "created"
  /\ step \in Calls \ {"create", "start"} => container = "running"
  /\ step \in Calls => attempted
  /\ step = "cleanup" => attempted \/ container = "none"
  /\ step = "cleanup" /\ raising = "none" /\ status # "harness_error" =>
       attempted /\ container = "running"
  /\ step \in {"write", "leave", "end"} => unremoved \/ container \notin Left
  /\ step \in {"write", "leave", "end"} /\ raising = "none" /\ status # "harness_error" =>
       container = "removed"

RunInv == StepInv /\ VerdictInv /\ BudgetInv /\ ContainerInv

LEMMA InitRun == Init => RunInv
  BY DEF Init, RunInv, StepInv, VerdictInv, BudgetInv, ContainerInv, BeforeVerdict,
         AfterInspect, AfterVerdict, Steps, Calls, Errors, Left

----------------------------------------------------------------------------
(* The steps and the clock.                                                *)

LEMMA StepStep == StepInv /\ [Next]_vars => StepInv'
<1> SUFFICES ASSUME StepInv, [Next]_vars PROVE StepInv'
  OBVIOUS
<1> USE DEF StepInv, BeforeVerdict, AfterInspect, Steps, Calls, Errors, Goto, Granted
<1>1. CASE CallRefused \/ CallFails \/ CallCut
  BY <1>1 DEF CallRefused, CallFails, CallCut, HarnessError, exits
<1>2. CASE Enter \/ EnterFails \/ Snapshot \/ SnapshotFails \/ Create \/ Start \/ Proceed
  BY <1>2 DEF Enter, EnterFails, Snapshot, SnapshotFails, HarnessError, Create, Start, Proceed,
              AfterCall, exits
<1>3. CASE (\E r \in Finished : Exec(r)) \/ ExecBreaks \/ ExecTimesOut \/ ExecCut
  BY <1>3 DEF Exec, ExecBreaks, ExecTimesOut, ExecCut, exits
<1>4. CASE Inspect \/ Stderr \/ Report \/ ReportBreaks
  BY <1>4 DEF Inspect, Stderr, Report, ReportBreaks, Read, exits
<1>5. CASE NothingToRemove \/ RemoveContainer \/ RemoveFails \/ Write \/ WriteFails \/ Leave
  BY <1>5 DEF NothingToRemove, RemoveContainer, RemoveFails, AfterCleanup, Write, WriteFails, Leave, exits
<1>6. CASE Expire \/ LateCreate \/ UNCHANGED vars
  BY <1>6 DEF Expire, LateCreate, vars, exits
<1> QED
  BY <1>1, <1>2, <1>3, <1>4, <1>5, <1>6 DEF Next, Continue

----------------------------------------------------------------------------
(* The verdict.                                                            *)

LEMMA VerdictStep == StepInv /\ VerdictInv /\ [Next]_vars => VerdictInv'
<1> SUFFICES ASSUME StepInv, VerdictInv, [Next]_vars PROVE VerdictInv'
  OBVIOUS
<1> USE DEF StepInv, VerdictInv, BeforeVerdict, AfterInspect, AfterVerdict, Goto, Granted
\* Actions that end in an error or an exception leave nothing to be sound.
<1>1. CASE CallRefused \/ CallFails \/ CallCut \/ EnterFails \/ SnapshotFails \/ WriteFails
  BY <1>1 DEF CallRefused, CallFails, CallCut, EnterFails, SnapshotFails, WriteFails,
              HarnessError, IsSound, IsClean, Calls, Usable, exits, call, evidence
\* Nothing is judged before the inspection.
<1>2. CASE Enter \/ Snapshot \/ Create \/ Start \/ (\E r \in Finished : Exec(r)) \/ ExecBreaks
           \/ ExecTimesOut \/ ExecCut
  BY <1>2 DEF Enter, Snapshot, Create, Start, Exec, ExecBreaks, ExecTimesOut, ExecCut,
              IsSound, IsClean, Usable, exits, evidence
<1>3. CASE Proceed
  BY <1>3 DEF Proceed, AfterCall, evidence, exits, call
<1>4. CASE Inspect
  BY <1>4 DEF Inspect, call
<1>5. CASE Stderr
  <2>1. /\ status = StatusOfRun(command, run) /\ cases = NoCases /\ raising = "none"
        /\ UNCHANGED <<command, run, status, cases, raising, broken>>
        /\ step' = IF command.report /\ status \in Usable THEN "report" ELSE "cleanup"
    BY <1>5 DEF Stderr, evidence, exits, call, history
  <2>2. step' = "cleanup" => IsSound(status, cases)'
    BY <2>1 DEF IsSound, StatusOfRun, StatusOfExit, Usable
  <2> QED
    BY <2>1, <2>2
<1>6. CASE Report
  <2>1. /\ step' = "cleanup"
        /\ status' = Judge(command, run).status /\ cases' = Judge(command, run).cases
        /\ UNCHANGED <<command, run, broken>>
        /\ command.report
    BY <1>6 DEF Report, Read, call
  <2>2. IsSound(status, cases)'
    BY <2>1 DEF IsSound, Judge, StatusOfRun, StatusOfExit, Contradicts, Usable, Proven
  <2> QED
    BY <2>1, <2>2
<1>7. CASE ReportBreaks
  <2> DEFINE r == [run EXCEPT !.report = NoCases]
  <2>1. /\ step' = "cleanup" /\ broken'
        /\ status' = Judge(command, r).status /\ cases' = Judge(command, r).cases
        /\ UNCHANGED <<command, run>>
        /\ command.report
        /\ status = StatusOfRun(command, run) /\ status \in Usable
    BY <1>7 DEF ReportBreaks, Read, call
  <2>2. status' \in Usable => status' = "fail"
    BY <2>1 DEF Judge, Usable
  <2>3. ~run.timeout /\ ~run.oom /\ ~run.stopped
    BY <2>1 DEF StatusOfRun, Usable
  <2>4. IsSound(status, cases)'
    BY <2>1, <2>2, <2>3 DEF IsSound, Usable
  <2> QED
    BY <2>1, <2>4
<1>8. CASE NothingToRemove \/ RemoveContainer
  BY <1>8 DEF NothingToRemove, RemoveContainer, AfterCleanup, IsSound, exits, evidence, call, history
<1>9. CASE RemoveFails
  BY <1>9 DEF RemoveFails, AfterCleanup, IsSound, Usable, exits
<1>10. CASE Write
  <2>1. /\ step = "write" /\ step' = "leave"
        /\ UNCHANGED <<command, run, cases, raising, broken>>
        /\ status' = IF command.reproduction
                       THEN CheckReproduction(command, [status |-> status, cases |-> cases]).status
                       ELSE status
    BY <1>10 DEF Write, exits, call, history
  <2>2. status' \in Usable => status' = status
    BY <2>1 DEF CheckReproduction, Usable
  <2>3. raising = "none" => IsSound(status, cases)'
    BY <2>1, <2>2 DEF IsSound, Usable
  <2>4. ASSUME raising = "none" PROVE IsClean(status)'
    <3> SUFFICES ASSUME command.reproduction, status' \in Usable
                 PROVE  /\ command.report
                        /\ status' = "pass" => CasesWith(run.report, CaseStatuses \ {"passed"}) = {}
      BY <2>1 DEF IsClean
    <3>1. CleanReproduction(command, [status |-> status, cases |-> cases])
      BY <2>1, <2>2 DEF CheckReproduction, Usable
    <3>2. status' = "pass" => cases = run.report
      BY <2>1, <2>2, <2>4, <3>1 DEF IsSound, CleanReproduction
    <3> QED
      BY <2>2, <3>1, <3>2 DEF CleanReproduction, CasesWith, CaseStatuses
  <2> QED
    BY <2>1, <2>3, <2>4
<1>11. CASE Leave
  BY <1>11 DEF Leave, IsSound, IsClean, evidence, call, history
<1>12. CASE Expire \/ LateCreate \/ UNCHANGED vars
  BY <1>12 DEF Expire, LateCreate, vars, IsSound, IsClean, evidence, call, exits, history
<1> QED
  BY <1>1, <1>2, <1>3, <1>4, <1>5, <1>6, <1>7, <1>8, <1>9, <1>10, <1>11, <1>12
     DEF Next, Continue

----------------------------------------------------------------------------
(* The budget.                                                             *)

LEMMA BudgetStep == StepInv /\ BudgetInv /\ [Next]_vars => BudgetInv'
<1> SUFFICES ASSUME StepInv, BudgetInv, [Next]_vars PROVE BudgetInv'
  OBVIOUS
<1> USE DEF StepInv, BudgetInv, Errors, Goto, Granted
\* The budget cuts a call off: the run has not ended yet.
<1>1. CASE CallCut \/ ExecCut
  BY <1>1 DEF CallCut, ExecCut, HarnessError, Calls, call, exits
<1>2. CASE Leave
  BY <1>2 DEF Leave, Refused, call, history
<1>3. CASE Expire \/ LateCreate \/ UNCHANGED vars
  BY <1>3 DEF Expire, LateCreate, vars, call, exits, history
<1>4. CASE CallRefused \/ CallFails \/ Enter \/ EnterFails \/ Snapshot \/ SnapshotFails
           \/ Create \/ Start \/ Proceed
  BY <1>4 DEF CallRefused, CallFails, Enter, EnterFails, Snapshot, SnapshotFails, Create, Start,
              Proceed, HarnessError, call, exits, history
<1>5. CASE (\E r \in Finished : Exec(r)) \/ ExecBreaks \/ ExecTimesOut \/ Inspect \/ Stderr
           \/ Report \/ ReportBreaks
  BY <1>5 DEF Exec, ExecBreaks, ExecTimesOut, Inspect, Stderr, Report, ReportBreaks, Read,
              call, exits, history
<1>6. CASE NothingToRemove \/ RemoveContainer \/ RemoveFails \/ Write \/ WriteFails
  BY <1>6 DEF NothingToRemove, RemoveContainer, RemoveFails, Write, WriteFails, call, exits, history
<1> QED
  BY <1>1, <1>2, <1>3, <1>4, <1>5, <1>6 DEF Next, Continue

----------------------------------------------------------------------------
(* The container.                                                          *)

LEMMA ContainerStep ==
  StepInv /\ VerdictInv /\ ContainerInv /\ [Next]_vars => ContainerInv'
<1> SUFFICES ASSUME StepInv, VerdictInv, ContainerInv, [Next]_vars PROVE ContainerInv'
  OBVIOUS
<1> USE DEF StepInv, ContainerInv, Calls, Left, Goto, Granted
<1>1. CASE CallRefused \/ CallFails \/ CallCut
  BY <1>1 DEF CallRefused, CallFails, CallCut, HarnessError, sandbox, evidence, exits, history
<1>2. CASE Enter \/ EnterFails \/ SnapshotFails
  BY <1>2 DEF Enter, EnterFails, SnapshotFails, HarnessError, VerdictInv, BeforeVerdict,
              sandbox, evidence, exits, history
<1>3. CASE Snapshot \/ Create \/ Start \/ Proceed
  BY <1>3 DEF Snapshot, Create, Start, Proceed, AfterCall, sandbox, evidence, exits, history
<1>4. CASE (\E r \in Finished : Exec(r)) \/ ExecBreaks \/ ExecTimesOut \/ ExecCut
  BY <1>4 DEF Exec, ExecBreaks, ExecTimesOut, ExecCut, sandbox, exits, history
<1>5. CASE Inspect \/ Stderr \/ Report \/ ReportBreaks
  BY <1>5 DEF Inspect, Stderr, Report, ReportBreaks, Read, sandbox, evidence, exits, history
<1>6. CASE NothingToRemove \/ RemoveContainer
  BY <1>6 DEF NothingToRemove, RemoveContainer, AfterCleanup, sandbox, evidence, exits, history
<1>7. CASE RemoveFails
  BY <1>7 DEF RemoveFails, AfterCleanup, exits
<1>8. CASE Write
  <2>1. status' # "harness_error" => status # "harness_error"
    BY <1>8 DEF Write, CheckReproduction, Usable
  <2> QED
    BY <1>8, <2>1 DEF Write, sandbox, exits, history
<1>9. CASE WriteFails \/ Leave
  BY <1>9 DEF WriteFails, Leave, sandbox, evidence, exits, history
<1>10. CASE Expire \/ UNCHANGED vars
  BY <1>10 DEF Expire, vars, sandbox, evidence, exits, history
<1>11. CASE LateCreate
  BY <1>11 DEF LateCreate, evidence, exits, history
<1> QED
  BY <1>1, <1>2, <1>3, <1>4, <1>5, <1>6, <1>7, <1>8, <1>9, <1>10, <1>11 DEF Next, Continue

----------------------------------------------------------------------------
(* The theorems about a run.                                               *)

\* The inductive invariant: what is known of verdict, budget and container at each
\* step of a run.
THEOREM RunInvariant == Spec => []RunInv
<1>1. Init => RunInv
  BY InitRun
<1>2. RunInv /\ [Next]_vars => RunInv'
  BY StepStep, VerdictStep, BudgetStep, ContainerStep DEF RunInv
<1> QED
  BY <1>1, <1>2, PTL DEF Spec

\* For every command and every course of the Docker calls a returned pass or fail is
\* what the command did.
THEOREM RunVerdictIsEarned == Spec => []VerdictIsEarned
<1>1. RunInv => VerdictIsEarned
  BY DEF RunInv, StepInv, VerdictInv, VerdictIsEarned, Returned, IsSound, IsClean, AfterVerdict,
         Usable
<1> QED
  BY <1>1, RunInvariant, PTL

\* A call that the budget cut off never becomes a result.
THEOREM RunBudgetIsNeverBlamed == Spec => []BudgetIsNeverBlamed
<1>1. RunInv => BudgetIsNeverBlamed
  BY DEF RunInv, BudgetInv, BudgetIsNeverBlamed
<1> QED
  BY <1>1, RunInvariant, PTL

\* However a run ends, its container is removed unless the removal itself failed, and
\* with a status other than harness_error it has been removed.
THEOREM RunContainersAreRemoved == Spec => []ContainersAreRemoved
<1>1. RunInv => ContainersAreRemoved
  BY DEF RunInv, StepInv, ContainerInv, ContainersAreRemoved, Returned, Statuses
<1> QED
  BY <1>1, RunInvariant, PTL

----------------------------------------------------------------------------
(* Natural numbers.  Inductions go by the least counterexample, which is a *)
(* fact about sets and needs no operator for the predicate.                *)

LEMMA LeastNatural ==
  ASSUME NEW S \in SUBSET Nat, S # {}
  PROVE  \E m \in S : \A n \in S : m <= n
  <1>1. PICK m \in S : \A n \in S : ~(<<n, m>> \in OpToRel(<, Nat))
    BY NatLessThanWellFounded, WFMin
  <1>2. ASSUME NEW n \in S
        PROVE  m <= n
    <2>1. m \in Nat /\ n \in Nat
      OBVIOUS
    <2>2. <<n, m>> \notin OpToRel(<, Nat)
      BY <1>1
    <2>3. ~(n < m)
      BY <2>1, <2>2 DEF OpToRel
    <2> QED BY <2>1, <2>3
  <1> QED BY <1>2

\* Induction over the naturals, for a set in place of a predicate.
LEMMA SetOfNaturals ==
  ASSUME NEW S, 0 \in S, \A n \in Nat : n \in S => n + 1 \in S
  PROVE  Nat \subseteq S
  <1> SUFFICES ASSUME Nat \ S # {} PROVE FALSE
    OBVIOUS
  <1>1. PICK m \in Nat \ S : \A n \in Nat \ S : m <= n
    BY LeastNatural
  <1>2. m # 0 /\ m - 1 \in Nat
    BY <1>1
  <1>3. m - 1 \in S
    BY <1>1, <1>2
  <1> QED BY <1>1, <1>2, <1>3

----------------------------------------------------------------------------
(* Following a path.                                                       *)

\* The places that a path leads through.
IsTrail(place, links, known, from, path) ==
  /\ place[0] = from
  /\ \A i \in 1..Len(path) : place[i] = Step(links, known, place[i - 1], path[i])

\* The same as the function that Follow defines.
IsPlace(place, links, known, from, path) ==
  place = [i \in 0..Len(path) |->
             IF i = 0 THEN from ELSE Step(links, known, place[i - 1], path[i])]

LEMMA TrailExists ==
  ASSUME NEW links, NEW known, NEW from, NEW path, Len(path) \in Nat
  PROVE  \E place : IsPlace(place, links, known, from, path)
  <1> DEFINE Holds(f, n) == /\ f[0] = from
                            /\ \A i \in 1..n : f[i] = Step(links, known, f[i - 1], path[i])
             S == {n \in Nat : \E f : Holds(f, n)}
  <1>1. 0 \in S
    <2>1. Holds([i \in {0} |-> from], 0)
      OBVIOUS
    <2> QED BY <2>1
  <1>2. ASSUME NEW n \in Nat, n \in S
        PROVE  n + 1 \in S
    <2>1. PICK f : Holds(f, n)
      BY <1>2
    <2> DEFINE g == [i \in 0..(n + 1) |-> IF i <= n THEN f[i]
                                          ELSE Step(links, known, f[n], path[n + 1])]
    <2>2. g[0] = from
      BY <2>1
    <2>3. ASSUME NEW i \in 1..(n + 1)
          PROVE  g[i] = Step(links, known, g[i - 1], path[i])
      <3>1. g[i - 1] = f[i - 1]
        OBVIOUS
      <3>2. CASE i <= n
        BY <2>1, <3>1, <3>2
      <3>3. CASE i = n + 1
        BY <3>1, <3>3
      <3> QED BY <3>2, <3>3
    <2> HIDE DEF g
    <2>4. Holds(g, n + 1)
      BY <2>2, <2>3
    <2> QED BY <2>4
  <1>3. Len(path) \in S
    <2> HIDE DEF S
    <2> QED BY <1>1, <1>2, SetOfNaturals
  <1>4. PICK f : Holds(f, Len(path))
    BY <1>3
  <1> DEFINE g == [i \in 0..Len(path) |-> f[i]]
  <1>5. \A i \in 0..Len(path) :
          f[i] = IF i = 0 THEN from ELSE Step(links, known, g[i - 1], path[i])
    <2> SUFFICES ASSUME NEW i \in 0..Len(path), i # 0
                 PROVE  f[i] = Step(links, known, g[i - 1], path[i])
      BY <1>4
    <2>1. g[i - 1] = f[i - 1]
      OBVIOUS
    <2> QED BY <1>4, <2>1
  <1>6. g = [i \in 0..Len(path) |->
               IF i = 0 THEN from ELSE Step(links, known, g[i - 1], path[i])]
    BY <1>5
  <1> HIDE DEF g
  <1> QED BY <1>6 DEF IsPlace

\* The last place of a trail is where the path leads.
LEMMA FollowTrail ==
  ASSUME NEW links, NEW known, NEW from, NEW path, Len(path) \in Nat
  PROVE  \E place : /\ IsTrail(place, links, known, from, path)
                    /\ Follow(links, known, from, path) = place[Len(path)]
  <1> DEFINE place == CHOOSE f : IsPlace(f, links, known, from, path)
  <1>1. Follow(links, known, from, path) = place[Len(path)]
    BY DEF Follow, IsPlace
  <1>2. IsPlace(place, links, known, from, path)
    BY TrailExists
  <1> HIDE DEF place
  <1>3. IsTrail(place, links, known, from, path)
    BY <1>2 DEF IsTrail, IsPlace
  <1> QED BY <1>1, <1>3

LEMMA TrailIsFollowed ==
  ASSUME NEW links, NEW known, NEW from, NEW path, Len(path) \in Nat,
         NEW place, IsTrail(place, links, known, from, path)
  PROVE  Follow(links, known, from, path) = place[Len(path)]
  <1>1. PICK other : /\ IsTrail(other, links, known, from, path)
                     /\ Follow(links, known, from, path) = other[Len(path)]
    BY FollowTrail
  <1> DEFINE S == {n \in Nat : n <= Len(path) => place[n] = other[n]}
  <1>2. 0 \in S
    BY <1>1 DEF IsTrail
  <1>3. \A n \in Nat : n \in S => n + 1 \in S
    <2> SUFFICES ASSUME NEW n \in Nat, n \in S, n + 1 <= Len(path)
                 PROVE  place[n + 1] = other[n + 1]
      OBVIOUS
    <2>1. n + 1 \in 1..Len(path) /\ (n + 1) - 1 = n /\ place[n] = other[n]
      OBVIOUS
    <2> QED BY <1>1, <2>1 DEF IsTrail
  <1>4. Len(path) \in S
    <2> HIDE DEF S
    <2> QED BY <1>2, <1>3, SetOfNaturals
  <1> QED BY <1>1, <1>4

LEMMA FollowNothing ==
  ASSUME NEW links, NEW known, NEW from
  PROVE  Follow(links, known, from, <<>>) = from
  <1>1. Len(<<>>) = 0
    OBVIOUS
  <1>2. IsTrail([i \in {0} |-> from], links, known, from, <<>>)
    BY <1>1 DEF IsTrail
  <1> QED BY <1>1, <1>2, TrailIsFollowed

\* One component and then the rest.
LEMMA FollowHead ==
  ASSUME NEW links, NEW known, NEW from, NEW path \in Seq(Names), path # <<>>
  PROVE  Follow(links, known, from, path) =
           Follow(links, known, Step(links, known, from, Head(path)), Tail(path))
  <1>1. PICK place : /\ IsTrail(place, links, known, from, path)
                     /\ Follow(links, known, from, path) = place[Len(path)]
    BY FollowTrail
  <1> DEFINE rest == [i \in 0..Len(Tail(path)) |-> place[i + 1]]
             next == Step(links, known, from, Head(path))
  <1>2. /\ Len(path) \in Nat /\ Len(path) >= 1 /\ Len(Tail(path)) = Len(path) - 1
        /\ Head(path) = path[1]
        /\ \A i \in 1..Len(Tail(path)) : Tail(path)[i] = path[i + 1]
    OBVIOUS
  <1>3. place[1] = next
    <2>1. 1 \in 1..Len(path) /\ 1 - 1 = 0
      BY <1>2
    <2> QED BY <1>1, <1>2, <2>1 DEF IsTrail
  <1>4. rest[0] = next
    BY <1>2, <1>3
  <1>5. ASSUME NEW i \in 1..Len(Tail(path))
        PROVE  rest[i] = Step(links, known, rest[i - 1], Tail(path)[i])
    <2>1. rest[i] = place[i + 1] /\ rest[i - 1] = place[i] /\ Tail(path)[i] = path[i + 1]
      BY <1>2
    <2>2. i + 1 \in 1..Len(path) /\ (i + 1) - 1 = i
      BY <1>2
    <2> QED BY <1>1, <2>1, <2>2 DEF IsTrail
  <1>6. rest[Len(Tail(path))] = place[Len(path)] /\ Len(Tail(path)) \in Nat
    BY <1>2
  <1> HIDE DEF rest, next
  <1>7. IsTrail(rest, links, known, next, Tail(path))
    BY <1>4, <1>5 DEF IsTrail
  <1>8. Follow(links, known, next, Tail(path)) = rest[Len(Tail(path))]
    BY <1>6, <1>7, TrailIsFollowed
  <1> QED BY <1>1, <1>6, <1>8 DEF next

\* One path and then another.
LEMMA FollowBoth ==
  ASSUME NEW links, NEW known, NEW from, NEW one \in Seq(Names), NEW two \in Seq(Names)
  PROVE  Follow(links, known, from, one \o two) =
           Follow(links, known, Follow(links, known, from, one), two)
  <1> DEFINE both == one \o two
  <1>1. /\ Len(one) \in Nat /\ Len(two) \in Nat /\ Len(both) = Len(one) + Len(two)
        /\ \A i \in 1..Len(one) : both[i] = one[i]
        /\ \A i \in 1..Len(two) : both[Len(one) + i] = two[i]
    OBVIOUS
  <1> HIDE DEF both
  <1>2. Len(both) \in Nat
    BY <1>1
  <1>3. PICK place : /\ IsTrail(place, links, known, from, both)
                     /\ Follow(links, known, from, both) = place[Len(both)]
    BY <1>2, FollowTrail
  <1>4. IsTrail(place, links, known, from, one)
    <2> SUFFICES ASSUME NEW i \in 1..Len(one)
                 PROVE  place[i] = Step(links, known, place[i - 1], one[i])
      BY <1>3 DEF IsTrail
    <2>1. i \in 1..Len(both) /\ both[i] = one[i]
      BY <1>1
    <2> QED BY <1>3, <2>1 DEF IsTrail
  <1>5. Follow(links, known, from, one) = place[Len(one)]
    BY <1>1, <1>4, TrailIsFollowed
  <1> DEFINE rest == [i \in 0..Len(two) |-> place[Len(one) + i]]
  <1>6. rest[0] = place[Len(one)] /\ rest[Len(two)] = place[Len(both)]
    BY <1>1
  <1>7. ASSUME NEW i \in 1..Len(two)
        PROVE  rest[i] = Step(links, known, rest[i - 1], two[i])
    <2>1. rest[i] = place[Len(one) + i] /\ rest[i - 1] = place[(Len(one) + i) - 1]
      BY <1>1
    <2>2. Len(one) + i \in 1..Len(both) /\ two[i] = both[Len(one) + i]
      BY <1>1
    <2> QED BY <1>3, <2>1, <2>2 DEF IsTrail
  <1> HIDE DEF rest
  <1>8. IsTrail(rest, links, known, place[Len(one)], two)
    BY <1>6, <1>7 DEF IsTrail
  <1>9. Follow(links, known, place[Len(one)], two) = rest[Len(two)]
    BY <1>1, <1>8, TrailIsFollowed
  <1> QED BY <1>3, <1>5, <1>6, <1>9 DEF both

----------------------------------------------------------------------------
(* Rounds.                                                                 *)

\* Where one knows the end of a link, other knows the same.
KnowsLess(links, one, other) ==
  \A p \in DOMAIN links : one[p] = Unknown \/ one[p] = other[p]

LEMMA StepKnowsLess ==
  ASSUME NEW links, NEW one, NEW other, KnowsLess(links, one, other), NEW place, NEW part
  PROVE  Step(links, one, place, part) \in {Unknown, Step(links, other, place, part)}
  BY DEF Step, KnowsLess

LEMMA FollowKnowsLess ==
  ASSUME NEW links, NEW one, NEW other, KnowsLess(links, one, other),
         NEW from, NEW path \in Seq(Names)
  PROVE  Follow(links, one, from, path) \in {Unknown, Follow(links, other, from, path)}
  <1>0. Len(path) \in Nat
    OBVIOUS
  <1>1. PICK p : /\ IsTrail(p, links, one, from, path)
                 /\ Follow(links, one, from, path) = p[Len(path)]
    BY <1>0, FollowTrail
  <1>2. PICK q : /\ IsTrail(q, links, other, from, path)
                 /\ Follow(links, other, from, path) = q[Len(path)]
    BY <1>0, FollowTrail
  <1> DEFINE S == {n \in Nat : n <= Len(path) => p[n] \in {Unknown, q[n]}}
  <1>3. 0 \in S
    BY <1>1, <1>2 DEF IsTrail
  <1>4. \A n \in Nat : n \in S => n + 1 \in S
    <2> SUFFICES ASSUME NEW n \in Nat, n \in S, n + 1 <= Len(path)
                 PROVE  p[n + 1] \in {Unknown, q[n + 1]}
      OBVIOUS
    <2>1. n + 1 \in 1..Len(path) /\ (n + 1) - 1 = n /\ p[n] \in {Unknown, q[n]}
      BY <1>0
    <2>2. /\ p[n + 1] = Step(links, one, p[n], path[n + 1])
          /\ q[n + 1] = Step(links, other, q[n], path[n + 1])
      BY <1>1, <1>2, <2>1 DEF IsTrail
    <2>3. CASE p[n] = Unknown
      BY <2>2, <2>3 DEF Step
    <2>4. CASE p[n] = q[n]
      BY <2>2, <2>4, StepKnowsLess
    <2> QED BY <2>1, <2>3, <2>4
  <1>5. Len(path) \in S
    <2> HIDE DEF S
    <2> QED BY <1>0, <1>3, <1>4, SetOfNaturals
  <1> QED BY <1>0, <1>1, <1>2, <1>5

\* Targets of links, as git has them.
HasTargets(links) ==
  IsFiniteSet(DOMAIN links) /\ \A p \in DOMAIN links : links[p].parts \in Seq(Names)

LEMMA RoundKnowsLess ==
  ASSUME NEW links, HasTargets(links), NEW one, NEW other, KnowsLess(links, one, other)
  PROVE  KnowsLess(links, Round(links, one), Round(links, other))
  <1> SUFFICES ASSUME NEW p \in DOMAIN links
               PROVE  Round(links, one)[p] \in {Unknown, Round(links, other)[p]}
    BY DEF KnowsLess
  <1>1. links[p].parts \in Seq(Names)
    BY DEF HasTargets
  <1>2. /\ Round(links, one)[p] = Follow(links, one, Front(p), links[p].parts)
        /\ Round(links, other)[p] = Follow(links, other, Front(p), links[p].parts)
    BY DEF Round
  <1>3. Follow(links, one, Front(p), links[p].parts)
          \in {Unknown, Follow(links, other, Front(p), links[p].parts)}
    BY <1>1, FollowKnowsLess
  <1> QED BY <1>2, <1>3

\* The rounds, as the function that Ends defines and as what holds of it.
IsRounds(round, links, chain) ==
  round = [n \in 0..chain |-> IF n = 0 THEN [p \in DOMAIN links |-> Unknown]
                              ELSE Round(links, round[n - 1])]

AreRounds(round, links, n) ==
  /\ round[0] = [p \in DOMAIN links |-> Unknown]
  /\ \A i \in 1..n : round[i] = Round(links, round[i - 1])

LEMMA RoundsExist ==
  ASSUME NEW links, NEW chain \in Nat
  PROVE  \E round : IsRounds(round, links, chain)
  <1> DEFINE S == {n \in Nat : \E f : AreRounds(f, links, n)}
  <1>1. 0 \in S
    <2>1. AreRounds([i \in {0} |-> [p \in DOMAIN links |-> Unknown]], links, 0)
      BY DEF AreRounds
    <2> QED BY <2>1
  <1>2. ASSUME NEW n \in Nat, n \in S
        PROVE  n + 1 \in S
    <2>1. PICK f : AreRounds(f, links, n)
      BY <1>2
    <2> DEFINE g == [i \in 0..(n + 1) |-> IF i <= n THEN f[i] ELSE Round(links, f[n])]
    <2>2. g[0] = [p \in DOMAIN links |-> Unknown]
      BY <2>1 DEF AreRounds
    <2>3. ASSUME NEW i \in 1..(n + 1)
          PROVE  g[i] = Round(links, g[i - 1])
      <3>1. g[i - 1] = f[i - 1]
        OBVIOUS
      <3>2. CASE i <= n
        BY <2>1, <3>1, <3>2 DEF AreRounds
      <3>3. CASE i = n + 1
        BY <3>1, <3>3
      <3> QED BY <3>2, <3>3
    <2> HIDE DEF g
    <2>4. AreRounds(g, links, n + 1)
      BY <2>2, <2>3 DEF AreRounds
    <2> QED BY <2>4
  <1>3. chain \in S
    <2> HIDE DEF S
    <2> QED BY <1>1, <1>2, SetOfNaturals
  <1>4. PICK f : AreRounds(f, links, chain)
    BY <1>3
  <1> DEFINE g == [i \in 0..chain |-> f[i]]
  <1>5. \A i \in 0..chain : f[i] = IF i = 0 THEN [p \in DOMAIN links |-> Unknown]
                                   ELSE Round(links, g[i - 1])
    <2> SUFFICES ASSUME NEW i \in 0..chain, i # 0
                 PROVE  f[i] = Round(links, g[i - 1])
      BY <1>4 DEF AreRounds
    <2>1. g[i - 1] = f[i - 1]
      OBVIOUS
    <2> QED BY <1>4, <2>1 DEF AreRounds
  <1>6. g = [i \in 0..chain |-> IF i = 0 THEN [p \in DOMAIN links |-> Unknown]
                                ELSE Round(links, g[i - 1])]
    BY <1>5
  <1> HIDE DEF g
  <1> QED BY <1>6 DEF IsRounds

\* One more round changes nothing: as long as rounds do, each of them finds the end of
\* another link.
LEMMA EndsSettled ==
  ASSUME NEW links, HasTargets(links)
  PROVE  Ends(links) = Round(links, Ends(links))
  <1> DEFINE chain == Cardinality(DOMAIN links)
             round == CHOOSE f : IsRounds(f, links, chain)
             Next_(n) == Round(links, round[n])
             Found_(n) == {p \in DOMAIN links : round[n][p] # Unknown}
  <1>1. chain \in Nat
    BY FS_CardinalityType DEF HasTargets
  <1>2. Ends(links) = round[chain]
    BY DEF Ends, IsRounds
  <1>3. IsRounds(round, links, chain)
    BY <1>1, RoundsExist
  <1> HIDE DEF round
  <1>4. /\ round[0] = [p \in DOMAIN links |-> Unknown]
        /\ \A n \in Nat : n + 1 <= chain => round[n + 1] = Next_(n)
    BY <1>1, <1>3 DEF IsRounds
  <1>5. \A n \in 0..chain : KnowsLess(links, round[n], Next_(n))
    <2> DEFINE S == {n \in Nat : n <= chain => KnowsLess(links, round[n], Next_(n))}
    <2>1. 0 \in S
      BY <1>4 DEF KnowsLess
    <2>2. \A n \in Nat : n \in S => n + 1 \in S
      <3> SUFFICES ASSUME NEW n \in Nat, n \in S, n + 1 <= chain
                   PROVE  KnowsLess(links, round[n + 1], Next_(n + 1))
        OBVIOUS
      <3>1. KnowsLess(links, round[n], Next_(n)) /\ round[n + 1] = Next_(n)
        BY <1>1, <1>4
      <3> QED BY <3>1, RoundKnowsLess
    <2> HIDE DEF S
    <2>3. Nat \subseteq S
      BY <2>1, <2>2, SetOfNaturals
    <2> QED BY <2>3, <1>1 DEF S
  <1>6. \A n \in 0..chain : round[n] = [p \in DOMAIN links |-> round[n][p]]
    <2> SUFFICES ASSUME NEW n \in 0..chain
                 PROVE  round[n] = [p \in DOMAIN links |-> round[n][p]]
      OBVIOUS
    <2>1. CASE n = 0
      BY <1>4, <2>1
    <2>2. CASE n # 0
      <3>1. n - 1 \in Nat /\ (n - 1) + 1 = n /\ n <= chain
        BY <1>1, <2>2
      <3>2. round[n] = Next_(n - 1)
        BY <1>4, <3>1
      <3> QED BY <3>2 DEF Round
    <2> QED BY <2>1, <2>2
  <1>7. \A n \in 0..chain : Next_(n) = round[n] \/ Cardinality(Found_(n)) >= n
    <2> DEFINE S == {n \in Nat : n <= chain => \/ Next_(n) = round[n]
                                               \/ Cardinality(Found_(n)) >= n}
    <2>0. \A n \in Nat : IsFiniteSet(Found_(n)) /\ Cardinality(Found_(n)) \in Nat
      <3> SUFFICES ASSUME NEW n \in Nat
                   PROVE  IsFiniteSet(Found_(n)) /\ Cardinality(Found_(n)) \in Nat
        OBVIOUS
      <3>1. Found_(n) \subseteq DOMAIN links
        OBVIOUS
      <3> HIDE DEF Found_
      <3> QED BY <3>1, FS_Subset, FS_CardinalityType DEF HasTargets
    <2>1. 0 \in S
      BY <2>0
    <2>2. \A n \in Nat : n \in S => n + 1 \in S
      <3> SUFFICES ASSUME NEW n \in Nat, n \in S, n + 1 <= chain
                   PROVE  \/ Next_(n + 1) = round[n + 1]
                          \/ Cardinality(Found_(n + 1)) >= n + 1
        OBVIOUS
      <3>1. round[n + 1] = Next_(n) /\ n \in 0..chain
        BY <1>1, <1>4
      <3>2. CASE Next_(n) = round[n]
        BY <3>1, <3>2
      <3>3. CASE Next_(n) # round[n] /\ Cardinality(Found_(n)) >= n
        <4>1. PICK p \in DOMAIN links : Next_(n)[p] # round[n][p]
          <5>1. round[n] = [p \in DOMAIN links |-> round[n][p]]
            BY <1>6, <3>1
          <5>2. Next_(n) = [p \in DOMAIN links |-> Next_(n)[p]]
            BY DEF Round
          <5> HIDE DEF Next_
          <5> QED BY <3>3, <5>1, <5>2
        <4>2. p \in Found_(n + 1) /\ p \notin Found_(n)
          BY <1>5, <3>1, <4>1 DEF KnowsLess
        <4>3. Found_(n) \subseteq Found_(n + 1)
          BY <1>5, <3>1 DEF KnowsLess
        <4>4. IsFiniteSet(Found_(n)) /\ IsFiniteSet(Found_(n + 1))
          BY <2>0
        <4>5. Cardinality(Found_(n)) \in Nat /\ Cardinality(Found_(n + 1)) \in Nat
          BY <2>0
        <4> HIDE DEF Found_
        <4>6. Cardinality(Found_(n)) < Cardinality(Found_(n + 1))
          <5>1. Found_(n) # Found_(n + 1)
            BY <4>2
          <5> QED BY <4>3, <4>4, <4>5, <5>1, FS_Subset
        <4> QED BY <3>3, <4>5, <4>6
      <3> QED BY <3>2, <3>3, <3>1
    <2> HIDE DEF S
    <2>3. Nat \subseteq S
      BY <2>1, <2>2, SetOfNaturals
    <2> QED BY <2>3, <1>1 DEF S
  <1>8. Next_(chain) = round[chain]
    <2>1. CASE Cardinality(Found_(chain)) >= chain
      <3>1. Found_(chain) \subseteq DOMAIN links /\ IsFiniteSet(DOMAIN links)
        BY DEF HasTargets
      <3>2. Found_(chain) = DOMAIN links
        <4> HIDE DEF Found_
        <4>1. IsFiniteSet(Found_(chain)) /\ Cardinality(Found_(chain)) <= chain
          BY <3>1, FS_Subset
        <4>2. Cardinality(Found_(chain)) \in Nat
          BY <4>1, FS_CardinalityType
        <4>3. Cardinality(DOMAIN links) = Cardinality(Found_(chain))
          BY <1>1, <2>1, <4>1, <4>2
        <4> QED BY <3>1, <4>3, FS_Subset
      <3>3. \A p \in DOMAIN links : round[chain][p] # Unknown
        BY <3>2
      <3>4. \A p \in DOMAIN links : round[chain][p] = Next_(chain)[p]
        BY <1>1, <1>5, <3>3 DEF KnowsLess
      <3>6. round[chain] = [p \in DOMAIN links |-> round[chain][p]]
        BY <1>1, <1>6
      <3> QED BY <3>4, <3>6 DEF Round
    <2> QED BY <1>1, <1>7, <2>1
  <1> QED BY <1>2, <1>8

----------------------------------------------------------------------------
(* The walk.                                                               *)

\* Where a walk can be: a path, or the top of the checkout.
Places == Paths \cup {<<>>}

LEMMA PlaceOf ==
  ASSUME NEW s
  PROVE  s \in Places <=>
           s \in Seq(Names) /\ \A i \in 1..Len(s) : s[i] \notin Skipped \cup {Up}
  <1>1. CASE s = <<>>
    BY <1>1 DEF Places
  <1>2. CASE s # <<>> /\ s \in Seq(Names)
    <2>1. DOMAIN s = 1..Len(s)
      BY <1>2
    <2>2. ToSet(s) = {s[i] : i \in 1..Len(s)}
      BY <2>1 DEF ToSet
    <2>3. ToSet(s) \cap (Skipped \cup {Up}) = {} <=>
            \A i \in 1..Len(s) : s[i] \notin Skipped \cup {Up}
      BY <2>2
    <2> QED BY <1>2, <2>3 DEF Places, Paths
  <1>3. CASE s # <<>> /\ s \notin Seq(Names)
    BY <1>3 DEF Places, Paths
  <1> QED BY <1>1, <1>2, <1>3

LEMMA PlaceIsKnown ==
  ASSUME NEW s \in Places
  PROVE  s \notin {Unknown, Outside}
  BY PlaceOf DEF Unknown, Outside

LEMMA PlaceBefore ==
  ASSUME NEW s \in Places, NEW n \in 0..Len(s)
  PROVE  SubSeq(s, 1, n) \in Places
  <1>1. s \in Seq(Names) /\ \A i \in 1..Len(s) : s[i] \notin Skipped \cup {Up}
    BY PlaceOf
  <1>2. SubSeq(s, 1, n) \in Seq(Names) /\ Len(SubSeq(s, 1, n)) = n
    BY <1>1
  <1>3. \A i \in 1..n : SubSeq(s, 1, n)[i] = s[i]
    BY <1>1
  <1> DEFINE t == SubSeq(s, 1, n)
  <1>4. t \in Seq(Names) /\ \A i \in 1..Len(t) : t[i] \notin Skipped \cup {Up}
    BY <1>1, <1>2, <1>3
  <1> HIDE DEF t
  <1>5. t \in Places
    BY <1>4, PlaceOf
  <1> QED BY <1>5 DEF t

LEMMA PlaceFront ==
  ASSUME NEW s \in Places, s # <<>>
  PROVE  Front(s) \in Places
  <1>1. s \in Seq(Names)
    BY PlaceOf
  <1>2. Len(s) - 1 \in 0..Len(s)
    BY <1>1
  <1> QED BY <1>2, PlaceBefore DEF Front

LEMMA PlaceAppend ==
  ASSUME NEW s \in Places, NEW part \in Names, part \notin Skipped \cup {Up}
  PROVE  Append(s, part) \in Places /\ Front(Append(s, part)) = s
  <1>1. s \in Seq(Names) /\ \A i \in 1..Len(s) : s[i] \notin Skipped \cup {Up}
    BY PlaceOf
  <1>2. /\ Append(s, part) \in Seq(Names) /\ Len(Append(s, part)) = Len(s) + 1
        /\ \A i \in 1..Len(s) : Append(s, part)[i] = s[i]
        /\ Append(s, part)[Len(s) + 1] = part
    BY <1>1
  <1>3. Append(s, part) \in Places
    <2> DEFINE t == Append(s, part)
    <2>1. t \in Seq(Names) /\ \A i \in 1..Len(t) : t[i] \notin Skipped \cup {Up}
      BY <1>1, <1>2
    <2> HIDE DEF t
    <2>2. t \in Places
      BY <2>1, PlaceOf
    <2> QED BY <2>2 DEF t
  <1>4. Front(Append(s, part)) = s
    BY <1>1 DEF Front
  <1> QED BY <1>3, <1>4

\* A state of the walk.
At(pending, resolved, expansions) ==
  [pending |-> pending, resolved |-> resolved, expansions |-> expansions]

Walks == [pending : Seq(Names), resolved : Places, expansions : Nat]

\* Where the walk leads from a state, by what is known.
Leads(links, known, at) == Follow(links, known, at.resolved, at.pending)

LEMMA AtIsWalk ==
  ASSUME NEW links, NEW known, NEW pending \in Seq(Names), NEW resolved \in Places,
         NEW expansions \in Nat
  PROVE  /\ At(pending, resolved, expansions) \in Walks
         /\ Leads(links, known, At(pending, resolved, expansions)) =
              Follow(links, known, resolved, pending)
  BY DEF At, Walks, Leads

\* What a component comes to: where it leads, or none of that if it is refused.
Passes(links, at, part, place) ==
  \/ part \in Skipped
  \/ part = Up /\ at.resolved # <<>>
  \/ /\ part \notin Skipped \cup {Up} \cup GitNames \cup GitAliases
     /\ place \notin DOMAIN links \/ at.expansions # MaxExpansions

TurnSays(links, at, part, rest, place) ==
  /\ ~Passes(links, at, part, place) => Turn(links, at) = at
  /\ part \in Skipped => Turn(links, at) = At(rest, at.resolved, at.expansions)
  /\ part = Up /\ part \notin Skipped /\ at.resolved # <<>> =>
       Turn(links, at) = At(rest, Front(at.resolved), at.expansions)
  /\ part \notin Skipped \cup {Up} \cup GitNames \cup GitAliases =>
       /\ place \notin DOMAIN links => Turn(links, at) = At(rest, place, at.expansions)
       /\ place \in DOMAIN links /\ at.expansions # MaxExpansions =>
            Turn(links, at) = At(links[place].parts \o rest, at.resolved, at.expansions + 1)

LEMMA TurnOf ==
  ASSUME NEW links, NEW at, at.pending # <<>>, NEW part, part = Head(at.pending),
         NEW rest, rest = Tail(at.pending), NEW place, place = Append(at.resolved, part)
  PROVE  TurnSays(links, at, part, rest, place)
  <1>1. CASE part \in Skipped
    BY <1>1 DEF Turn, At, Passes, TurnSays
  <1>2. CASE part \notin Skipped /\ part = Up
    BY <1>2 DEF Turn, At, Passes, TurnSays
  <1>3. CASE part \notin Skipped /\ part # Up
    BY <1>3 DEF Turn, At, Passes, TurnSays
  <1> QED BY <1>1, <1>2, <1>3

StepSays(links, known, resolved, part, place) ==
  /\ part \in Skipped => Step(links, known, resolved, part) = resolved
  /\ part = Up /\ part \notin Skipped /\ resolved # <<>> =>
       Step(links, known, resolved, part) = Front(resolved)
  /\ part \notin Skipped \cup {Up} \cup GitNames \cup GitAliases =>
       Step(links, known, resolved, part) = IF place \in DOMAIN links THEN known[place] ELSE place

LEMMA StepOf ==
  ASSUME NEW links, NEW known, NEW resolved, resolved \notin {Unknown, Outside}, NEW part,
         NEW place, place = Append(resolved, part)
  PROVE  StepSays(links, known, resolved, part, place)
  BY DEF Step, StepSays

\* Knowing where all links end, a turn leads on to where the walk led before.
LEMMA TurnLeadsOn ==
  ASSUME NEW links, HasTargets(links), NEW known, known = Round(links, known),
         NEW at \in Walks
  PROVE  /\ Turn(links, at) \in Walks
         /\ Leads(links, known, Turn(links, at)) = Leads(links, known, at)
  <1>1. CASE at.pending = <<>>
    BY <1>1 DEF Turn
  <1>2. CASE at.pending # <<>>
    <2> DEFINE resolved == at.resolved
               spent == at.expansions
               next == Turn(links, at)
    <2>1. at.pending \in Seq(Names) /\ resolved \in Places /\ spent \in Nat
      BY DEF Walks
    <2>2. PICK part, rest : part = Head(at.pending) /\ rest = Tail(at.pending)
      OBVIOUS
    <2>3. PICK place : place = Append(resolved, part)
      OBVIOUS
    <2>4. part \in Names /\ rest \in Seq(Names)
      BY <1>2, <2>1, <2>2
    <2>5. resolved \notin {Unknown, Outside}
      BY <2>1, PlaceIsKnown
    <2> DEFINE stepped == Step(links, known, resolved, part)
    <2>6. Leads(links, known, at) = Follow(links, known, stepped, rest)
      BY <1>2, <2>1, <2>2, FollowHead DEF Leads
    <2>7. /\ ~Passes(links, at, part, place) => next = at
          /\ part \in Skipped => next = At(rest, resolved, spent)
          /\ part = Up /\ part \notin Skipped /\ resolved # <<>> =>
               next = At(rest, Front(resolved), spent)
          /\ part \notin Skipped \cup {Up} \cup GitNames \cup GitAliases =>
               /\ place \notin DOMAIN links => next = At(rest, place, spent)
               /\ place \in DOMAIN links /\ spent # MaxExpansions =>
                    next = At(links[place].parts \o rest, resolved, spent + 1)
      <3>1. TurnSays(links, at, part, rest, place)
        BY <1>2, <2>2, <2>3, TurnOf
      <3> QED BY <3>1 DEF TurnSays
    <2>8. /\ part \in Skipped => stepped = resolved
          /\ part = Up /\ part \notin Skipped /\ resolved # <<>> => stepped = Front(resolved)
          /\ part \notin Skipped \cup {Up} \cup GitNames \cup GitAliases =>
               stepped = IF place \in DOMAIN links THEN known[place] ELSE place
      <3>1. StepSays(links, known, resolved, part, place)
        BY <2>3, <2>5, StepOf
      <3> QED BY <3>1 DEF StepSays
    <2> HIDE DEF resolved, spent, next, stepped
    \* What is still pending is followed from where the component leads.
    <2>9. ASSUME stepped \in Places, next = At(rest, stepped, spent)
          PROVE  next \in Walks /\ Leads(links, known, next) = Leads(links, known, at)
      BY <2>1, <2>4, <2>6, <2>9, AtIsWalk
    <2>10. CASE ~Passes(links, at, part, place)
      BY <2>7, <2>10 DEF next
    <2>11. CASE part \in Skipped
      BY <2>1, <2>7, <2>8, <2>9, <2>11 DEF next
    <2>12. CASE part = Up /\ part \notin Skipped /\ resolved # <<>>
      <3>1. Front(resolved) \in Places
        BY <2>1, <2>12, PlaceFront
      <3> QED BY <2>7, <2>8, <2>9, <2>12, <3>1 DEF next
    <2>13. CASE /\ part \notin Skipped \cup {Up} \cup GitNames \cup GitAliases
                /\ place \notin DOMAIN links
      <3>1. place \in Places
        BY <2>1, <2>3, <2>4, <2>13, PlaceAppend
      <3> QED BY <2>7, <2>8, <2>9, <2>13, <3>1 DEF next
    <2>14. CASE /\ part \notin Skipped \cup {Up} \cup GitNames \cup GitAliases
                /\ place \in DOMAIN links /\ spent # MaxExpansions
      <3>1. PICK parts : parts = links[place].parts
        OBVIOUS
      <3>2. parts \in Seq(Names)
        BY <2>14, <3>1 DEF HasTargets
      <3>3. known[place] = Follow(links, known, Front(place), parts)
        BY <2>14, <3>1 DEF Round
      <3>4. Front(place) = resolved
        BY <2>1, <2>3, <2>4, <2>14, PlaceAppend
      <3>5. stepped = Follow(links, known, resolved, parts)
        BY <2>8, <2>14, <3>3, <3>4
      <3>6. PICK pending : pending = parts \o rest
        OBVIOUS
      <3>7. pending \in Seq(Names) /\ spent + 1 \in Nat
        BY <2>1, <2>4, <3>2, <3>6
      <3>8. next = At(pending, resolved, spent + 1)
        BY <2>7, <2>14, <3>1, <3>6
      <3>9. next \in Walks /\ Leads(links, known, next) = Follow(links, known, resolved, pending)
        BY <2>1, <3>7, <3>8, AtIsWalk
      <3>10. Follow(links, known, resolved, pending) = Follow(links, known, stepped, rest)
        BY <2>4, <3>2, <3>5, <3>6, FollowBoth
      <3> QED BY <2>6, <3>9, <3>10 DEF next
    <2> QED BY <2>10, <2>11, <2>12, <2>13, <2>14 DEF Passes, resolved, spent
  <1> QED BY <1>1, <1>2

\* The turns, as the function that StaysInside defines and as what holds of it.
Start_(p) == [pending |-> p, resolved |-> <<>>, expansions |-> 0]

IsTurns(turn, links, p) ==
  turn = [n \in 0..Turns(p) |-> IF n = 0 THEN [pending |-> p, resolved |-> <<>>, expansions |-> 0]
                                ELSE Turn(links, turn[n - 1])]

AreTurns(turn, links, p, n) ==
  turn[0] = Start_(p) /\ \A i \in 1..n : turn[i] = Turn(links, turn[i - 1])

LEMMA TurnsExist ==
  ASSUME NEW links, NEW p, Turns(p) \in Nat
  PROVE  \E turn : IsTurns(turn, links, p)
  <1> DEFINE S == {n \in Nat : \E f : AreTurns(f, links, p, n)}
  <1>1. 0 \in S
    <2>1. AreTurns([i \in {0} |-> Start_(p)], links, p, 0)
      BY DEF AreTurns
    <2> QED BY <2>1
  <1>2. ASSUME NEW n \in Nat, n \in S
        PROVE  n + 1 \in S
    <2>1. PICK f : AreTurns(f, links, p, n)
      BY <1>2
    <2> DEFINE g == [i \in 0..(n + 1) |-> IF i <= n THEN f[i] ELSE Turn(links, f[n])]
    <2>2. g[0] = Start_(p)
      BY <2>1 DEF AreTurns
    <2>3. ASSUME NEW i \in 1..(n + 1)
          PROVE  g[i] = Turn(links, g[i - 1])
      <3>1. g[i - 1] = f[i - 1]
        OBVIOUS
      <3>2. CASE i <= n
        BY <2>1, <3>1, <3>2 DEF AreTurns
      <3>3. CASE i = n + 1
        BY <3>1, <3>3
      <3> QED BY <3>2, <3>3
    <2> HIDE DEF g
    <2>4. AreTurns(g, links, p, n + 1)
      BY <2>2, <2>3 DEF AreTurns
    <2> QED BY <2>4
  <1>3. Turns(p) \in S
    <2> HIDE DEF S
    <2> QED BY <1>1, <1>2, SetOfNaturals
  <1>4. PICK f : AreTurns(f, links, p, Turns(p))
    BY <1>3
  <1> DEFINE g == [i \in 0..Turns(p) |-> f[i]]
  <1>5. \A i \in 0..Turns(p) : f[i] = IF i = 0 THEN Start_(p) ELSE Turn(links, g[i - 1])
    <2> SUFFICES ASSUME NEW i \in 0..Turns(p), i # 0
                 PROVE  f[i] = Turn(links, g[i - 1])
      BY <1>4 DEF AreTurns
    <2>1. g[i - 1] = f[i - 1]
      OBVIOUS
    <2> QED BY <1>4, <2>1 DEF AreTurns
  <1>6. g = [i \in 0..Turns(p) |-> IF i = 0 THEN Start_(p) ELSE Turn(links, g[i - 1])]
    BY <1>5
  <1> HIDE DEF g
  <1> QED BY <1>6 DEF IsTurns, Start_

\* A walk that ends, ends at a place to which its path leads.
LEMMA WalkLeads ==
  ASSUME NEW links, HasTargets(links), NEW known, known = Round(links, known),
         NEW p \in Paths, StaysInside(links, p)
  PROVE  Follow(links, known, <<>>, p) \in Places
  <1> DEFINE turn == CHOOSE f : IsTurns(f, links, p)
             last == Turns(p)
  <1>1. last \in Nat
    <2>1. Len(p) \in Nat
      BY DEF Paths
    <2>2. MaxExpansions * MaxParts \in Nat
      BY SnapshotAssumption
    <2> QED BY <2>1, <2>2 DEF Turns
  <1>2. turn[last].pending = <<>>
    BY DEF StaysInside, IsTurns
  <1>3. IsTurns(turn, links, p)
    BY <1>1, TurnsExist
  <1> HIDE DEF turn, last
  <1> DEFINE S == {n \in Nat : n <= last =>
                     /\ turn[n] \in Walks
                     /\ Leads(links, known, turn[n]) = Follow(links, known, <<>>, p)}
  <1>4. 0 \in S
    <2>1. turn[0] = Start_(p)
      BY <1>1, <1>3 DEF IsTurns, Start_, last
    <2>2. p \in Seq(Names) /\ <<>> \in Places
      BY DEF Paths, Places
    <2>3. Start_(p) \in Walks
      BY <2>2 DEF Start_, Walks
    <2> QED BY <2>1, <2>3 DEF Leads, Start_
  <1>5. \A n \in Nat : n \in S => n + 1 \in S
    <2> SUFFICES ASSUME NEW n \in Nat, n \in S, n + 1 <= last
                 PROVE  /\ turn[n + 1] \in Walks
                        /\ Leads(links, known, turn[n + 1]) = Follow(links, known, <<>>, p)
      OBVIOUS
    <2>1. /\ turn[n] \in Walks
          /\ Leads(links, known, turn[n]) = Follow(links, known, <<>>, p)
      BY <1>1
    <2>2. turn[n + 1] = Turn(links, turn[n])
      BY <1>1, <1>3 DEF IsTurns, last
    <2> QED BY <2>1, <2>2, TurnLeadsOn
  <1>6. last \in S
    <2> HIDE DEF S
    <2> QED BY <1>1, <1>4, <1>5, SetOfNaturals
  <1>7. turn[last] \in Walks /\ Leads(links, known, turn[last]) = Follow(links, known, <<>>, p)
    BY <1>1, <1>6
  <1>8. Leads(links, known, turn[last]) = turn[last].resolved
    BY <1>2, FollowNothing DEF Leads
  <1> QED BY <1>7, <1>8 DEF Walks

\* Nothing on the way to a link is a link: its own path leads to where it ends, or into
\* the history.
LEMMA OwnPathLeads ==
  ASSUME NEW links, NEW known, NEW p \in Paths, p \in DOMAIN links, ~Behind(p, DOMAIN links)
  PROVE  Follow(links, known, <<>>, p) \in {Outside, known[p]}
  <1>1. /\ p \in Seq(Names) /\ Len(p) \in Nat /\ Len(p) >= 1
        /\ \A i \in 1..Len(p) : p[i] \notin Skipped \cup {Up}
    BY DEF Paths, ToSet
  <1>2. p \in Places
    BY DEF Places
  <1>3. PICK place : /\ IsTrail(place, links, known, <<>>, p)
                     /\ Follow(links, known, <<>>, p) = place[Len(p)]
    BY <1>1, FollowTrail
  <1> DEFINE before(n) == SubSeq(p, 1, n)
             S == {n \in Nat : n < Len(p) => place[n] \in {Outside, before(n)}}
  <1>4. \A n \in Nat : n < Len(p) =>
          /\ before(n) \notin {Unknown, Outside}
          /\ Append(before(n), p[n + 1]) = before(n + 1)
    <2> SUFFICES ASSUME NEW n \in Nat, n < Len(p)
                 PROVE  /\ before(n) \notin {Unknown, Outside}
                        /\ Append(before(n), p[n + 1]) = before(n + 1)
      OBVIOUS
    <2>1. n \in 0..Len(p)
      BY <1>1
    <2>2. Append(SubSeq(p, 1, n), p[n + 1]) = SubSeq(p, 1, n + 1)
      BY <1>1
    <2>3. before(n) \in Places
      BY <1>2, <2>1, PlaceBefore
    <2> QED BY <2>2, <2>3, PlaceIsKnown
  <1>5. \A n \in Nat : n < Len(p) =>
          place[n + 1] = Step(links, known, place[n], p[n + 1]) /\ n + 1 \in 1..Len(p)
    <2> SUFFICES ASSUME NEW n \in Nat, n < Len(p)
                 PROVE  place[n + 1] = Step(links, known, place[n], p[n + 1]) /\ n + 1 \in 1..Len(p)
      OBVIOUS
    <2>1. n + 1 \in 1..Len(p) /\ (n + 1) - 1 = n
      BY <1>1
    <2> QED BY <1>3, <2>1 DEF IsTrail
  <1>6. 0 \in S
    <2>1. before(0) = <<>>
      BY <1>1
    <2> QED BY <1>3, <2>1 DEF IsTrail
  <1>7. \A n \in Nat : n \in S => n + 1 \in S
    <2> SUFFICES ASSUME NEW n \in Nat, n \in S, n + 1 < Len(p)
                 PROVE  place[n + 1] \in {Outside, before(n + 1)}
      OBVIOUS
    <2>1. n < Len(p) /\ place[n] \in {Outside, before(n)}
      BY <1>1
    <2>2. before(n + 1) \notin DOMAIN links
      <3>1. n + 1 \in 1..(Len(p) - 1)
        BY <1>1
      <3> QED BY <3>1 DEF Behind
    <2>3. p[n + 1] \notin Skipped \cup {Up}
      BY <1>1, <2>1
    <2> HIDE DEF before, S
    <2>4. place[n + 1] = Step(links, known, place[n], p[n + 1])
      BY <1>5, <2>1
    <2> QED BY <1>4, <2>1, <2>2, <2>3, <2>4 DEF Step
  <1>8. Len(p) - 1 \in S
    <2> HIDE DEF S
    <2> QED BY <1>1, <1>6, <1>7, SetOfNaturals
  <1>9. place[Len(p) - 1] \in {Outside, before(Len(p) - 1)}
    BY <1>1, <1>8
  <1>10. before(Len(p)) = p /\ p[Len(p)] \notin Skipped \cup {Up}
    BY <1>1
  <1>11. Len(p) - 1 \in Nat /\ (Len(p) - 1) + 1 = Len(p)
    BY <1>1
  <1> HIDE DEF before
  <1>12. place[Len(p)] = Step(links, known, place[Len(p) - 1], p[Len(p)])
    BY <1>1, <1>5, <1>11
  <1>13. /\ before(Len(p) - 1) \notin {Unknown, Outside}
         /\ Append(before(Len(p) - 1), p[Len(p)]) = p
    <2> DEFINE n == Len(p) - 1
    <2>1. n \in Nat /\ n < Len(p) /\ n + 1 = Len(p)
      BY <1>1, <1>11
    <2> HIDE DEF n
    <2>2. before(n) \notin {Unknown, Outside} /\ Append(before(n), p[Len(p)]) = p
      BY <1>4, <1>10, <2>1
    <2> QED BY <2>2 DEF n
  <1> QED BY <1>3, <1>9, <1>10, <1>12, <1>13 DEF Step

\* Links that are found valid all end inside.
LEMMA ValidLinksEnd ==
  ASSUME NEW links, HasTargets(links), LinksAreValid(links), NEW p \in DOMAIN links,
         p \in Paths, ~Behind(p, DOMAIN links)
  PROVE  links[p].form = "plain" /\ Ends(links)[p] \notin {Unknown, Outside}
  <1>1. links[p].form = "plain" /\ StaysInside(links, p)
    BY DEF LinksAreValid
  <1>2. Ends(links) = Round(links, Ends(links))
    BY EndsSettled
  <1>3. Follow(links, Ends(links), <<>>, p) \in Places
    BY <1>1, <1>2, WalkLeads
  <1>4. Follow(links, Ends(links), <<>>, p) \in {Outside, Ends(links)[p]}
    BY OwnPathLeads
  <1> QED BY <1>1, <1>3, <1>4, PlaceIsKnown

----------------------------------------------------------------------------
(* The snapshot.                                                           *)

\* What is in the container when the command starts.
WorkInv ==
  /\ step \in {"create", "start", "copy"} => archive \in Archives
  /\ step = "prepare" => work \in Archives
  /\ step = "exec" => \E a \in Archives : work = Prepared(a)

LEMMA InitWork == SnapshotInit => WorkInv
  BY DEF SnapshotInit, Init, WorkInv

\* A run with a snapshot is a run.
LEMMA SnapshotStepIsStep == [SnapshotNext]_svars => [Next]_vars
<1> SUFFICES ASSUME [SnapshotNext]_svars PROVE [Next]_vars
  OBVIOUS
<1>1. CASE TakeSnapshot \/ Extract \/ PrepareWorkspace
  BY <1>1 DEF TakeSnapshot, Extract, PrepareWorkspace, Next, Continue
<1>2. CASE Otherwise
  BY <1>2 DEF Otherwise, Next, Continue
<1>3. CASE Expire \/ LateCreate
  BY <1>3 DEF Next
<1>4. CASE UNCHANGED svars
  BY <1>4 DEF svars
<1> QED
  BY <1>1, <1>2, <1>3, <1>4 DEF SnapshotNext, SnapshotContinue

LEMMA WorkStep == WorkInv /\ [SnapshotNext]_svars => WorkInv'
<1> SUFFICES ASSUME WorkInv, [SnapshotNext]_svars PROVE WorkInv'
  OBVIOUS
<1> USE DEF WorkInv, Archives, Goto
<1>1. CASE TakeSnapshot
  BY <1>1 DEF TakeSnapshot, Snapshot
<1>2. CASE Extract
  BY <1>2 DEF Extract, Proceed, AfterCall
<1>3. CASE PrepareWorkspace
  BY <1>3 DEF PrepareWorkspace, Proceed, AfterCall
<1>4. CASE Otherwise
  <2>1. /\ archive' = IF step' \in {"start", "copy"} THEN archive ELSE Nothing
        /\ step' = "start" => step = "create"
        /\ step' = "copy" => step = "start"
        /\ step' \notin {"create", "prepare", "exec"}
    <3> USE DEF Granted, HarnessError
    <3>1. archive' = IF step' \in {"start", "copy"} THEN archive ELSE Nothing
      BY <1>4 DEF Otherwise
    <3>2. CASE CallRefused \/ CallFails \/ CallCut \/ Enter \/ EnterFails \/ SnapshotFails
      BY <3>1, <3>2 DEF CallRefused, CallFails, CallCut, Enter, EnterFails, SnapshotFails
    <3>3. CASE Create \/ Start \/ (step = "stdout" /\ Proceed)
      BY <3>1, <3>3 DEF Create, Start, Proceed, AfterCall
    <3>4. CASE (\E r \in Finished : Exec(r)) \/ ExecBreaks \/ ExecTimesOut \/ ExecCut
      BY <3>1, <3>4 DEF Exec, ExecBreaks, ExecTimesOut, ExecCut
    <3>5. CASE Inspect \/ Stderr \/ Report \/ ReportBreaks
      BY <3>1, <3>5 DEF Inspect, Stderr, Report, ReportBreaks, Read
    <3>6. CASE NothingToRemove \/ RemoveContainer \/ RemoveFails \/ Write \/ WriteFails \/ Leave
      BY <3>1, <3>6 DEF NothingToRemove, RemoveContainer, RemoveFails, AfterCleanup, Write,
                        WriteFails, Leave
    <3> QED BY <1>4, <3>2, <3>3, <3>4, <3>5, <3>6 DEF Otherwise
  <2> QED BY <2>1
<1>5. CASE (Expire \/ LateCreate) /\ UNCHANGED <<archive, work>>
  BY <1>5 DEF Expire, LateCreate
<1>6. CASE UNCHANGED svars
  BY <1>6 DEF svars, vars
<1> QED
  BY <1>1, <1>2, <1>3, <1>4, <1>5, <1>6 DEF SnapshotNext, SnapshotContinue

\* Links of HEAD are functions on paths, and none of them is lost on the way.
LEMMA HeadLinksOf ==
  ASSUME NEW c \in Checkouts
  PROVE  /\ IsFiniteSet(DOMAIN HeadLinks(c))
         /\ DOMAIN HeadLinks(c) \subseteq Paths
         /\ HeadLinks(c) \in [DOMAIN HeadLinks(c) -> [form : {"plain", "refused"}, parts : Seq(Names)]]
  <1>1. CASE c.git = "plain"
    <2>1. HeadLinks(c) = <<>> /\ DOMAIN HeadLinks(c) = {}
      BY <1>1 DEF HeadLinks
    <2>2. <<>> = [p \in {} |-> Head(p)]
      OBVIOUS
    <2> QED BY <2>1, <2>2, FS_EmptySet
  <1>2. CASE c.git # "plain"
    BY <1>2, CheckoutAssumption DEF HeadLinks
  <1> QED BY <1>1, <1>2

LEMMA PreparedLinks ==
  ASSUME NEW c \in Checkouts, IsArchivable(c)
  PROVE  /\ Prepared(Archive(c)).links = HeadLinks(c)
         /\ Prepared(Archive(c)).entries = Archive(c).entries
         /\ Prepared(Archive(c)).checkout = c
  <1> DEFINE a == Archive(c)
             L == HeadLinks(c)
             D == Deferred(c)
  <1>1. a.checkout = c /\ a.links = Others(L, D)
    BY DEF Archive
  <1>2. DOMAIN a.links = DOMAIN L \ D /\ \A p \in DOMAIN a.links : a.links[p] = L[p]
    BY <1>1 DEF Others
  <1>3. D \subseteq DOMAIN L /\ \A p \in D : HelmLinks[p] = L[p]
    BY SnapshotAssumption DEF IsArchivable, ScopeIsPinned, Deferred
  <1>4. L = [p \in DOMAIN L |-> L[p]]
    BY HeadLinksOf
  <1>5. "links" \in DOMAIN a /\ "entries" \in DOMAIN a /\ "checkout" \in DOMAIN a
    BY DEF Archive
  <1>6. Prepared(a) = [a EXCEPT !.links = [p \in DOMAIN @ \cup D |->
                                             IF p \in DOMAIN @ THEN @[p] ELSE HelmLinks[p]]]
    BY <1>1 DEF Prepared
  <1> HIDE DEF a, L, D
  <1>7. /\ Prepared(a).links = [p \in DOMAIN a.links \cup D |->
                                  IF p \in DOMAIN a.links THEN a.links[p] ELSE HelmLinks[p]]
        /\ Prepared(a).entries = a.entries /\ Prepared(a).checkout = a.checkout
    BY <1>5, <1>6
  <1>8. Prepared(a).links = [p \in DOMAIN L |-> L[p]]
    BY <1>2, <1>3, <1>7
  <1> QED BY <1>1, <1>4, <1>7, <1>8 DEF a, L

\* The host's entries are a tree, and links stand where files do: nothing is behind one.
LEMMA VisitedAll ==
  ASSUME NEW c \in Checkouts, IsArchivable(c)
  PROVE  Visited(c) = {p \in DOMAIN c.disk : ~IsHistory(p)}
  <1> SUFFICES ASSUME NEW p \in DOMAIN c.disk, Behind(p, DOMAIN HeadLinks(c))
               PROVE  FALSE
    BY DEF Visited
  <1>1. PICK i \in 1..(Len(p) - 1) : SubSeq(p, 1, i) \in DOMAIN HeadLinks(c)
    BY DEF Behind
  <1> DEFINE q == SubSeq(p, 1, i)
  <1>2. c.disk[q].type = "directory"
    BY CheckoutAssumption
  <1>3. q \in Visited(c) /\ q \in DOMAIN HeadLinks(c)
    BY <1>1 DEF IsArchivable
  <1>4. EntryIsKnown(c, q)
    BY <1>3 DEF IsArchivable
  <1>5. c.disk[q].type \in {"file", "link"}
    BY <1>3, <1>4 DEF EntryIsKnown
  <1> QED BY <1>2, <1>5

LEMMA WorkIsCheckout ==
  ASSUME NEW c \in Checkouts, IsArchivable(c), work = Prepared(Archive(c))
  PROVE  CommandFindsCheckout
  <1> DEFINE L == HeadLinks(c)
             D == Deferred(c)
             ordinary == Others(L, D)
  <1>1. work.links = L /\ work.entries = Archive(c).entries /\ work.checkout = c
    BY PreparedLinks
  <1>2. work.entries = [p \in Visited(c) \ DOMAIN L |-> c.disk[p].type]
    BY <1>1 DEF Archive
  <1>3. DOMAIN L \subseteq Visited(c)
    BY DEF IsArchivable
  <1>4. DOMAIN work.entries \cup DOMAIN work.links = {p \in DOMAIN c.disk : ~IsHistory(p)}
    BY <1>1, <1>2, <1>3, VisitedAll
  <1>5. ASSUME NEW p \in DOMAIN work.entries
        PROVE  c.disk[p].type = work.entries[p] /\ ~Behind(p, DOMAIN work.links)
    BY <1>1, <1>2, <1>5 DEF Visited
  <1>6. /\ IsFiniteSet(DOMAIN L) /\ DOMAIN L \subseteq Paths
        /\ L \in [DOMAIN L -> [form : {"plain", "refused"}, parts : Seq(Names)]]
    BY HeadLinksOf
  <1>7. LinksAreValid(ordinary)
    BY DEF IsArchivable
  <1>8. DOMAIN ordinary \subseteq DOMAIN L /\ \A p \in DOMAIN ordinary : ordinary[p] = L[p]
    BY DEF Others
  <1> HIDE DEF L, ordinary
  <1>9. HasTargets(ordinary)
    <2>1. IsFiniteSet(DOMAIN ordinary)
      BY <1>6, <1>8, FS_Subset
    <2>2. \A p \in DOMAIN ordinary : ordinary[p].parts \in Seq(Names)
      BY <1>6, <1>8
    <2> QED BY <2>1, <2>2 DEF HasTargets
  <1>10. ASSUME NEW p \in DOMAIN ordinary
         PROVE  ordinary[p].form = "plain" /\ Ends(ordinary)[p] \notin {Unknown, Outside}
    <2>1. p \in Paths /\ p \in Visited(c)
      BY <1>3, <1>6, <1>8
    <2>2. ~Behind(p, DOMAIN L)
      BY <2>1 DEF Visited, L
    <2>3. ~Behind(p, DOMAIN ordinary)
      BY <1>8, <2>2 DEF Behind
    <2> QED BY <1>7, <1>9, <2>1, <2>3, ValidLinksEnd
  <1>11. Others(work.links, IF work.checkout.helm THEN HelmSpecial ELSE {}) = ordinary
    BY <1>1 DEF ordinary, Deferred
  <1> QED BY <1>1, <1>4, <1>5, <1>10, <1>11 DEF CommandFindsCheckout, L

\* What is in the container at each step, from the archive to the command.
THEOREM WorkInvariant == SnapshotSpec => []WorkInv
<1> QED
  BY InitWork, WorkStep, PTL DEF SnapshotSpec

\* For every checkout, host and course of the Docker calls, the command finds the
\* checkout it is to judge, and no link leads out of it or in a circle.
THEOREM CommandAlwaysFindsCheckout == SnapshotSpec => []CommandFindsCheckout
<1>1. WorkInv => CommandFindsCheckout
  <2> SUFFICES ASSUME WorkInv, step = "exec" PROVE CommandFindsCheckout
    BY DEF CommandFindsCheckout
  <2>1. PICK c \in Checkouts : IsArchivable(c) /\ work = Prepared(Archive(c))
    BY DEF WorkInv, Archives
  <2> QED BY <2>1, WorkIsCheckout
<1> QED
  BY <1>1, WorkInvariant, PTL

\* A run that takes a snapshot is a run: what is proved of those holds of it.
THEOREM SnapshotRunIsRun == SnapshotSpec => Spec
<1>1. SnapshotInit => Init
  BY DEF SnapshotInit
<1> QED
  BY <1>1, SnapshotStepIsStep, PTL DEF SnapshotSpec, Spec
=============================================================================
