---------------------- MODULE CandidateSelectionProofs ----------------------
(***************************************************************************)
(* What is proved of CandidateSelection for every number of samples and    *)
(* commands, every set of repairs of the same sources and every set of     *)
(* faults: the candidate loop, the stages of the selection, the vote and   *)
(* the key a repair votes under.                                           *)
(***************************************************************************)
EXTENDS CandidateSelection, FiniteSetTheorems, WellFoundedInduction, TLAPS

\* A result that makes its candidate ineligible.
Tainted(results) ==
  \E n \in DOMAIN results :
    results[n].status \in Infrastructure \cup {"patch_error"}

\* Results of the first commands of the schedule, in order.
InSchedule(results) ==
  /\ Len(results) <= Commands
  /\ \A n \in DOMAIN results :
       /\ results[n].kind = Kind(n)
       /\ results[n].status \in {"pass", "fail"} \cup Infrastructure

AtWork == {"create", "apply", "run", "close"}

\* Every candidate that is not tainted has been through the whole schedule.
RecordedInv ==
  \A i \in DOMAIN candidates :
    Tainted(candidates[i].evidence) \/ Regular(candidates[i].evidence)

\* The candidate at hand, phase by phase.
EvidenceInv ==
  /\ phase \in {"create", "apply"} => evidence = <<>>
  /\ phase = "run" => InSchedule(evidence)
  /\ phase = "close" /\ raised = "none" => Tainted(evidence) \/ Regular(evidence)
  /\ phase \in {"sample", "create", "apply", "run"} => raised = "none"

CountInv == phase \in AtWork => Len(attempts) < Samples

ChosenInv ==
  /\ chosen # 0 => chosen \in Eligible(candidates)
  /\ chosen # 0 => phase \in {"confirm", "done", "failed"}
  /\ phase \in {"confirm", "done"} => chosen # 0

RefusedInv ==
  refused => expired /\ phase \notin {"create", "apply", "run", "done"}

IInv ==
  /\ TypeOK
  /\ CountInv
  /\ EvidenceInv
  /\ RecordedInv
  /\ ChosenInv
  /\ RefusedInv

----------------------------------------------------------------------------
(* Lemmas.                                                                 *)

\* Eligible candidates are the untainted ones.
LEMMA EligibleIsUntainted ==
  ASSUME NEW cs, NEW i
  PROVE  i \in Eligible(cs) <=> i \in DOMAIN cs /\ ~Tainted(cs[i].evidence)
  BY DEF Eligible, Tainted

\* Every stage of the selection only takes candidates away.
LEMMA WinnersAreEligible ==
  ASSUME NEW cs
  PROVE  Winners(cs) \subseteq Eligible(cs)
  <1>1. BestRegression(cs) \subseteq Eligible(cs)
    BY DEF BestRegression
  <1>2. Considered(cs) \subseteq BestRegression(cs)
    BY DEF Considered
  <1> QED BY <1>1, <1>2 DEF Winners

\* The result of a failed workspace is a result, and it taints its candidate.
LEMMA WorkspaceErrorTaints ==
  ASSUME NEW results \in Seq(AllResults)
  PROVE  /\ Append(results, WorkspaceErrorResult) \in Seq(AllResults)
         /\ Tainted(Append(results, WorkspaceErrorResult))
  <1>1. WorkspaceErrorResult \in AllResults
    BY DEF WorkspaceErrorResult, Result, AllResults, Infrastructure
  <1> DEFINE longer == Append(results, WorkspaceErrorResult)
             last   == Len(results) + 1
  <1>2. longer \in Seq(AllResults)
    BY <1>1
  <1>3. last \in DOMAIN longer /\ longer[last] = WorkspaceErrorResult
    BY <1>1
  <1>4. longer[last].status = "harness_error"
    BY <1>3 DEF WorkspaceErrorResult, Result
  <1>5. Tainted(longer)
    BY <1>3, <1>4 DEF Tainted, Infrastructure
  <1> QED BY <1>2, <1>5

\* One result taints the evidence that consists of it alone.
LEMMA SingleResultTaints ==
  ASSUME NEW status \in Infrastructure \cup {"patch_error"}
  PROVE  /\ <<Result("regression", status, 0)>> \in Seq(AllResults)
         /\ Tainted(<<Result("regression", status, 0)>>)
  <1>1. Result("regression", status, 0) \in AllResults
    BY DEF Result, AllResults
  <1> DEFINE one == <<Result("regression", status, 0)>>
  <1>2. 1 \in DOMAIN one /\ one[1].status = status
    BY DEF Result
  <1> QED BY <1>1, <1>2 DEF Tainted

\* A schedule run to its end gives regular or tainted evidence.
LEMMA CompleteScheduleIsDecided ==
  ASSUME NEW results, InSchedule(results), Len(results) = Commands
  PROVE  Tainted(results) \/ Regular(results)
  BY DEF InSchedule, Tainted, Regular

\* A further result of the next kind keeps the schedule.
LEMMA NextResultKeepsSchedule ==
  ASSUME NEW results \in Seq(AllResults), InSchedule(results),
         Len(results) < Commands,
         NEW r \in Outcomes(Kind(Len(results) + 1))
  PROVE  /\ Append(results, r) \in Seq(AllResults)
         /\ InSchedule(Append(results, r))
  <1> DEFINE longer == Append(results, r)
             last   == Len(results) + 1
  <1>1. Kind(last) \in {"regression", "reproduction"}
    BY DEF Kind
  <1>2. /\ r \in AllResults
        /\ r.kind = Kind(last)
        /\ r.status \in {"pass", "fail"} \cup Infrastructure
    BY <1>1, ResultAssumption DEF Outcomes, AllResults
  <1>3. longer \in Seq(AllResults) /\ Len(longer) = last
    BY <1>2
  <1>4. \A n \in DOMAIN longer : longer[n] = IF n = last THEN r ELSE results[n]
    BY <1>2
  <1>5. last <= Commands
    BY PlanAssumption DEF Commands
  <1>6. ASSUME NEW n \in DOMAIN longer
        PROVE  /\ longer[n].kind = Kind(n)
               /\ longer[n].status \in {"pass", "fail"} \cup Infrastructure
    <2>1. CASE n = last
      BY <2>1, <1>2, <1>4
    <2>2. CASE n # last
      <3>1. n \in DOMAIN results
        BY <2>2, <1>3
      <3> QED BY <3>1, <2>2, <1>4 DEF InSchedule
    <2> QED BY <2>1, <2>2
  <1> QED BY <1>3, <1>5, <1>6 DEF InSchedule

\* Record() with decided results keeps the invariant.
LEMMA RecordStep ==
  ASSUME IInv, NEW results \in Seq(AllResults),
         Tainted(results) \/ Regular(results),
         phase \in AtWork, Record(results),
         UNCHANGED <<text, expired, refused, failure, chosen>>
  PROVE  IInv'
  <1> DEFINE c == [text |-> text, evidence |-> results]
  <1> USE DEF IInv
  <1>1. c \in [text : Texts, evidence : Seq(AllResults)]
    BY DEF TypeOK
  <1>2. /\ candidates' \in Seq([text : Texts, evidence : Seq(AllResults)])
        /\ Len(candidates') = Len(candidates) + 1
        /\ \A i \in DOMAIN candidates' :
             candidates'[i] = IF i = Len(candidates) + 1 THEN c ELSE candidates[i]
    BY <1>1 DEF Record, TypeOK
  <1>3. /\ attempts' \in Seq({"repair_error", "validated"})
        /\ Len(attempts') = Len(attempts) + 1
    BY DEF Record, TypeOK
  <1>4. chosen = 0
    BY DEF ChosenInv, AtWork, TypeOK
  <1>5. TypeOK'
    BY <1>2, <1>3, <1>4, PlanAssumption DEF TypeOK, Record, Phases, Raised, CountInv
  <1>6. RecordedInv'
    <2> SUFFICES ASSUME NEW i \in DOMAIN candidates'
                 PROVE  Tainted(candidates'[i].evidence) \/ Regular(candidates'[i].evidence)
      BY DEF RecordedInv, Tainted, Regular
    <2>1. CASE i = Len(candidates) + 1
      BY <2>1, <1>2
    <2>2. CASE i # Len(candidates) + 1
      <3>1. i \in DOMAIN candidates /\ candidates'[i] = candidates[i]
        BY <2>2, <1>2 DEF TypeOK
      <3> QED BY <3>1 DEF RecordedInv
    <2> QED BY <2>1, <2>2
  <1>7. CountInv' /\ EvidenceInv' /\ ChosenInv' /\ RefusedInv'
    BY <1>4 DEF CountInv, EvidenceInv, ChosenInv, RefusedInv, Record, AtWork
  <1> QED BY <1>5, <1>6, <1>7

----------------------------------------------------------------------------
(* The invariant.                                                          *)

LEMMA InitIInv == Init => IInv
  <1> SUFFICES ASSUME Init PROVE IInv
    OBVIOUS
  <1>1. /\ attempts \in Seq({"repair_error", "validated"}) /\ Len(attempts) = 0
        /\ candidates \in Seq([text : Texts, evidence : Seq(AllResults)])
        /\ Len(candidates) = 0
        /\ evidence \in Seq(AllResults)
    BY DEF Init
  <1>2. TypeOK
    <2>1. /\ phase \in Phases /\ text \in Texts /\ raised \in Raised
          /\ expired \in BOOLEAN /\ refused \in BOOLEAN
          /\ failure \in Failures /\ chosen = 0
      BY DEF Init, Phases, Raised, Failures
    <2> QED BY <1>1, <2>1, PlanAssumption DEF TypeOK
  <1>3. RecordedInv
    BY <1>1 DEF RecordedInv
  <1>4. CountInv /\ EvidenceInv /\ ChosenInv /\ RefusedInv
    BY DEF Init, CountInv, EvidenceInv, ChosenInv, RefusedInv, AtWork
  <1> QED BY <1>2, <1>3, <1>4 DEF IInv

\* Steps of the controller between two candidates.
LEMMA ControllerStep ==
  ASSUME IInv,
         \/ RefuseSample \/ RepairError \/ \E t \in Texts : BuildCandidate(t)
         \/ EndSamples \/ NoneSelectable \/ Confirm \/ RefusePrediction \/ Expire
  PROVE  IInv'
  <1> USE DEF IInv
  <1>1. CASE RefuseSample
    BY <1>1 DEF RefuseSample, Refuse, Fail, TypeOK, CountInv, EvidenceInv, RecordedInv,
                ChosenInv, RefusedInv, Phases, Failures, AtWork
  <1>2. CASE RepairError
    <2>1. /\ attempts' \in Seq({"repair_error", "validated"})
          /\ Len(attempts') = Len(attempts) + 1
      BY <1>2 DEF RepairError, TypeOK
    <2>2. TypeOK'
      BY <1>2, <2>1, PlanAssumption DEF RepairError, TypeOK
    <2> QED
      BY <1>2, <2>2 DEF RepairError, CountInv, EvidenceInv, RecordedInv, ChosenInv,
                        RefusedInv, AtWork
  <1>3. CASE \E t \in Texts : BuildCandidate(t)
    BY <1>3 DEF BuildCandidate, TypeOK, CountInv, EvidenceInv, RecordedInv,
                ChosenInv, RefusedInv, Phases, AtWork
  <1>4. CASE EndSamples
    BY <1>4 DEF EndSamples, Fail, TypeOK, CountInv, EvidenceInv, RecordedInv,
                ChosenInv, RefusedInv, Phases, Failures, AtWork
  <1>5. CASE NoneSelectable
    BY <1>5 DEF NoneSelectable, Fail, TypeOK, CountInv, EvidenceInv, RecordedInv,
                ChosenInv, RefusedInv, Phases, Failures, AtWork
  <1>6. CASE Confirm
    BY <1>6 DEF Confirm, TypeOK, CountInv, EvidenceInv, RecordedInv,
                ChosenInv, RefusedInv, Phases, AtWork
  <1>7. CASE RefusePrediction
    BY <1>7 DEF RefusePrediction, Refuse, Fail, TypeOK, CountInv, EvidenceInv,
                RecordedInv, ChosenInv, RefusedInv, Phases, Failures, AtWork
  <1>8. CASE Expire
    BY <1>8 DEF Expire, TypeOK, CountInv, EvidenceInv, RecordedInv,
                ChosenInv, RefusedInv, AtWork
  <1> QED BY <1>1, <1>2, <1>3, <1>4, <1>5, <1>6, <1>7, <1>8

LEMMA SelectStep ==
  ASSUME IInv, Select
  PROVE  IInv'
  <1> USE DEF IInv
  <1>1. chosen' \in Eligible(candidates) /\ candidates' = candidates
    BY WinnersAreEligible DEF Select
  <1>2. chosen' \in DOMAIN candidates
    BY <1>1 DEF Eligible
  <1>3. chosen' \in 1..Len(candidates)
    BY <1>2 DEF TypeOK
  <1>4. TypeOK'
    BY <1>3 DEF Select, TypeOK, Phases
  <1> QED
    BY <1>1, <1>3, <1>4 DEF Select, CountInv, EvidenceInv, RecordedInv, ChosenInv,
                            RefusedInv, AtWork

\* Steps of validate_candidate() that keep the list of candidates.
LEMMA WorkStep ==
  ASSUME IInv,
         \/ CreateWorkspace \/ CreateBreaks \/ Apply \/ ApplyFails
         \/ RunRefused \/ ClampRefused \/ RunBreaks \/ OverlayRefused \/ EndCommands
         \/ ClosePropagates \/ CloseBreaks
  PROVE  IInv'
  <1> USE DEF IInv
  <1>1. CASE CreateWorkspace
    BY <1>1 DEF CreateWorkspace, TypeOK, CountInv, EvidenceInv, RecordedInv,
                ChosenInv, RefusedInv, Phases, AtWork
  <1>2. CASE CreateBreaks
    BY <1>2 DEF CreateBreaks, Fail, TypeOK, CountInv, EvidenceInv, RecordedInv,
                ChosenInv, RefusedInv, Phases, Failures, AtWork
  <1>3. CASE Apply
    <2>1. InSchedule(evidence)
      BY <1>3, PlanAssumption DEF Apply, EvidenceInv, InSchedule, Commands
    <2> QED
      BY <1>3, <2>1 DEF Apply, TypeOK, CountInv, EvidenceInv, RecordedInv,
                        ChosenInv, RefusedInv, Phases, AtWork, InSchedule
  <1>4. CASE ApplyFails
    BY <1>4 DEF ApplyFails, TypeOK, CountInv, EvidenceInv, RecordedInv,
                ChosenInv, RefusedInv, Phases, Raised, AtWork
  <1>5. CASE RunRefused
    BY <1>5 DEF RunRefused, Running, TypeOK, CountInv, EvidenceInv, RecordedInv,
                ChosenInv, RefusedInv, Phases, Raised, AtWork
  <1>6. CASE ClampRefused
    BY <1>6 DEF ClampRefused, Running, TypeOK, CountInv, EvidenceInv, RecordedInv,
                ChosenInv, RefusedInv, Phases, Raised, AtWork
  <1>7. CASE RunBreaks
    BY <1>7 DEF RunBreaks, Running, TypeOK, CountInv, EvidenceInv, RecordedInv,
                ChosenInv, RefusedInv, Phases, Raised, AtWork
  <1>8. CASE OverlayRefused
    BY <1>8 DEF OverlayRefused, Running, TypeOK, CountInv, EvidenceInv, RecordedInv,
                ChosenInv, RefusedInv, Phases, Raised, AtWork
  <1>9. CASE EndCommands
    <2>1. Tainted(evidence) \/ Regular(evidence)
      BY <1>9, CompleteScheduleIsDecided DEF EndCommands, EvidenceInv
    <2> QED
      BY <1>9, <2>1 DEF EndCommands, TypeOK, CountInv, EvidenceInv, RecordedInv,
                        ChosenInv, RefusedInv, Phases, AtWork, Tainted, Regular
  <1>10. CASE ClosePropagates
    BY <1>10 DEF ClosePropagates, Fail, TypeOK, CountInv, EvidenceInv, RecordedInv,
                 ChosenInv, RefusedInv, Phases, Failures, AtWork
  <1>11. CASE CloseBreaks
    BY <1>11 DEF CloseBreaks, Fail, TypeOK, CountInv, EvidenceInv, RecordedInv,
                 ChosenInv, RefusedInv, Phases, Failures, AtWork
  <1> QED BY <1>1, <1>2, <1>3, <1>4, <1>5, <1>6, <1>7, <1>8, <1>9, <1>10, <1>11

\* Steps that add a result to the evidence.
LEMMA ResultStep ==
  ASSUME IInv,
         \/ \E status \in {"patch_error"} \cup (Faults \ {"out_of_memory"}) :
              ApplyRejected(status)
         \/ \E r \in Outcomes(NextKind) : RunCommand(r)
  PROVE  IInv'
  <1> USE DEF IInv
  <1>1. ASSUME NEW status \in {"patch_error"} \cup (Faults \ {"out_of_memory"}),
               ApplyRejected(status)
        PROVE  IInv'
    <2>1. status \in Infrastructure \cup {"patch_error"}
      BY ResultAssumption
    <2>2. evidence' \in Seq(AllResults) /\ Tainted(evidence')
      BY <1>1, <2>1, SingleResultTaints DEF ApplyRejected
    <2>3. TypeOK'
      BY <1>1, <2>2 DEF ApplyRejected, TypeOK, Phases
    <2>4. EvidenceInv'
      BY <1>1, <2>2 DEF ApplyRejected, EvidenceInv, Tainted
    <2> QED
      BY <1>1, <2>3, <2>4 DEF ApplyRejected, CountInv, RecordedInv, ChosenInv,
                              RefusedInv, AtWork
  <1>2. ASSUME NEW r \in Outcomes(NextKind), RunCommand(r)
        PROVE  IInv'
    <2>1. evidence' \in Seq(AllResults) /\ InSchedule(evidence')
      BY <1>2, NextResultKeepsSchedule
      DEF RunCommand, Running, NextKind, TypeOK, EvidenceInv, InSchedule
    <2>2. TypeOK'
      BY <1>2, <2>1 DEF RunCommand, TypeOK
    <2>3. EvidenceInv'
      BY <1>2, <2>1 DEF RunCommand, Running, EvidenceInv, InSchedule
    <2> QED
      BY <1>2, <2>2, <2>3 DEF RunCommand, Running, CountInv, RecordedInv, ChosenInv,
                              RefusedInv, AtWork
  <1> QED BY <1>1, <1>2

\* Steps that end the validation of a candidate.
LEMMA CandidateStep ==
  ASSUME IInv, CreateFails \/ Close \/ CloseFails
  PROVE  IInv'
  <1> USE DEF IInv
  <1> DEFINE failed == Append(evidence, WorkspaceErrorResult)
  <1>1. failed \in Seq(AllResults) /\ Tainted(failed)
    BY WorkspaceErrorTaints DEF TypeOK
  <1>2. CASE CreateFails
    <2>1. /\ <<WorkspaceErrorResult>> \in Seq(AllResults)
          /\ Tainted(<<WorkspaceErrorResult>>)
      BY SingleResultTaints DEF WorkspaceErrorResult, Infrastructure
    <2> QED BY <1>2, <2>1, RecordStep DEF CreateFails, AtWork
  <1>3. CASE Close
    <2>1. CASE raised = "none"
      <3>1. Tainted(evidence) \/ Regular(evidence)
        BY <1>3, <2>1 DEF Close, EvidenceInv
      <3>2. evidence \in Seq(AllResults) /\ Record(evidence)
        BY <1>3, <2>1 DEF Close, TypeOK
      <3> QED BY <1>3, <3>1, <3>2, RecordStep DEF Close, AtWork
    <2>2. CASE raised # "none"
      <3>1. Record(failed)
        BY <1>3, <2>2 DEF Close
      <3> QED BY <1>1, <1>3, <3>1, RecordStep DEF Close, AtWork
    <2> QED BY <2>1, <2>2
  <1>4. CASE CloseFails
    BY <1>1, <1>4, RecordStep DEF CloseFails, AtWork
  <1> QED BY <1>2, <1>3, <1>4

LEMMA NextIInv == IInv /\ [Next]_vars => IInv'
  <1> SUFFICES ASSUME IInv, [Next]_vars PROVE IInv'
    OBVIOUS
  <1>1. CASE UNCHANGED vars
    BY <1>1 DEF vars, IInv, TypeOK, CountInv, EvidenceInv, RecordedInv, ChosenInv,
                RefusedInv, Tainted, Regular, InSchedule, Eligible
  <1>2. CASE Next
    BY <1>2, ControllerStep, SelectStep, WorkStep, ResultStep, CandidateStep DEF Next
  <1> QED BY <1>1, <1>2

----------------------------------------------------------------------------
(* Numbers: least elements, and the sum that counts failed units.          *)

\* A set of natural numbers has a least element.
LEMMA LeastNatural ==
  ASSUME NEW S \in SUBSET Nat, S # {}
  PROVE  \E m \in S : \A n \in S : m <= n
  <1>1. PICK m \in S : \A n \in S : ~(<<n, m>> \in OpToRel(<, Nat))
    BY NatLessThanWellFounded, WFMin
  <1>2. ASSUME NEW n \in S
        PROVE  m <= n
    <2>1. m \in Nat /\ n \in Nat
      OBVIOUS
    <2>2. <<n, m>> \notin OpToRel(<, Nat)
      BY <1>1
    <2>3. ~(n < m)
      BY <2>1, <2>2 DEF OpToRel
    <2> QED BY <2>1, <2>3
  <1> QED BY <1>2

\* Failed units are counted in numbers, and where nothing is counted there is none.
\* The sum is a function on sets, defined by the sum over a set with one element less:
\* there is such a function, and a smallest set with no number for its sum does not
\* exist.
LEMMA FailureCountIsNumber ==
  ASSUME NEW c, c.evidence \in Seq(AllResults)
  PROVE  /\ FailureCount(c) \in Int
         /\ ResultsOf(c, "regression") = {} => FailureCount(c) = 0
  <1> DEFINE S == ResultsOf(c, "regression")
             f(n) == c.evidence[n].failures
             pick(s) == CHOOSE x \in s : TRUE
             body(g, s) == IF s = {} THEN 0 ELSE f(pick(s)) + g[s \ {pick(s)}]
             Right(n) == \E g \in [SUBSET S -> Int] :
                           \A s \in SUBSET S : Cardinality(s) <= n => g[s] = body(g, s)
             N == Cardinality(S)
             iter == CHOOSE g : g = [s \in SUBSET S |-> body(g, s)]
  <1>f. \A n \in S : f(n) \in Int
    <2> SUFFICES ASSUME NEW n \in S PROVE f(n) \in Int
      OBVIOUS
    <2>1. n \in DOMAIN c.evidence
      BY DEF ResultsOf
    <2>2. c.evidence[n] \in AllResults
      BY <2>1
    <2> QED BY <2>2 DEF AllResults
  <1>s. IsFiniteSet(S)
    <2>1. DOMAIN c.evidence = 1..Len(c.evidence) /\ Len(c.evidence) \in Nat
      OBVIOUS
    <2>2. S \subseteq 1..Len(c.evidence)
      BY <2>1 DEF ResultsOf
    <2>3. IsFiniteSet(1..Len(c.evidence))
      BY <2>1, FS_Interval
    <2> QED BY <2>2, <2>3, FS_Subset
  <1>c. FailureCount(c) = iter[S]
    BY DEF FailureCount, MapThenSumSet, MapThenFoldSet
  <1> HIDE DEF S, f
  <1>1. \A s \in SUBSET S : s # {} =>
          /\ pick(s) \in S /\ s \ {pick(s)} \in SUBSET S
          /\ Cardinality(s) \in Nat /\ Cardinality(s \ {pick(s)}) \in Nat
          /\ Cardinality(s \ {pick(s)}) = Cardinality(s) - 1
    <2> SUFFICES ASSUME NEW s \in SUBSET S, s # {}
                 PROVE  /\ pick(s) \in s
                        /\ Cardinality(s) \in Nat /\ Cardinality(s \ {pick(s)}) \in Nat
                        /\ Cardinality(s \ {pick(s)}) = Cardinality(s) - 1
      OBVIOUS
    <2>1. pick(s) \in s
      OBVIOUS
    <2>2. IsFiniteSet(s)
      BY <1>s, FS_Subset
    <2> HIDE DEF pick
    <2>3. IsFiniteSet(s \ {pick(s)}) /\ Cardinality(s \ {pick(s)}) = Cardinality(s) - 1
      BY <2>1, <2>2, FS_RemoveElement
    <2> QED BY <2>1, <2>2, <2>3, FS_CardinalityType
  <1>2. N \in Nat /\ \A s \in SUBSET S : Cardinality(s) <= N /\ Cardinality(s) \in Nat
    BY <1>s, FS_Subset, FS_CardinalityType
  <1>3. Cardinality({}) = 0 /\ \A s \in SUBSET S : Cardinality(s) = 0 => s = {}
    BY <1>s, FS_Subset, FS_EmptySet
  <1> HIDE DEF pick, N
  <1>4. Right(0)
    <2> DEFINE g == [s \in SUBSET S |-> 0]
    <2>1. g \in [SUBSET S -> Int] /\ \A s \in SUBSET S : Cardinality(s) <= 0 => g[s] = body(g, s)
      BY <1>2, <1>3
    <2> QED BY <2>1
  <1>5. ASSUME NEW n \in Nat, Right(n)
        PROVE  Right(n + 1)
    <2>1. PICK g \in [SUBSET S -> Int] :
            \A s \in SUBSET S : Cardinality(s) <= n => g[s] = body(g, s)
      BY <1>5
    <2> DEFINE h == [s \in SUBSET S |-> body(g, s)]
    <2>2. h \in [SUBSET S -> Int]
      <3>1. ASSUME NEW s \in SUBSET S
            PROVE  body(g, s) \in Int
        <4>1. CASE s = {}
          BY <4>1
        <4>2. CASE s # {}
          <5>1. f(pick(s)) \in Int /\ g[s \ {pick(s)}] \in Int
            BY <4>2, <1>1, <1>f
          <5> QED BY <5>1
        <4> QED BY <4>1, <4>2
      <3> HIDE DEF body
      <3> QED BY <3>1
    <2>3. ASSUME NEW s \in SUBSET S, Cardinality(s) <= n + 1
          PROVE  h[s] = body(h, s)
      <3>1. CASE s = {}
        BY <3>1
      <3>2. CASE s # {}
        <4>1. s \ {pick(s)} \in SUBSET S /\ Cardinality(s \ {pick(s)}) <= n
          BY <3>2, <1>1, <2>3
        <4>2. h[s \ {pick(s)}] = g[s \ {pick(s)}]
          BY <4>1, <2>1
        <4> QED BY <3>2, <4>2
      <3> QED BY <3>1, <3>2
    <2> HIDE DEF h
    <2> QED BY <2>2, <2>3
  <1>6. Right(N)
    <2> DEFINE Wrong == {n \in Nat : ~Right(n)}
    <2> HIDE DEF Right
    <2>1. SUFFICES ASSUME Wrong # {} PROVE FALSE
      BY <1>2
    <2>2. PICK m \in Wrong : \A n \in Wrong : m <= n
      BY <2>1, LeastNatural
    <2>3. m # 0 /\ m \in Nat
      BY <1>4
    <2>4. m - 1 \in Nat /\ ~(m - 1 \in Wrong)
      BY <2>2, <2>3
    <2>5. Right(m - 1 + 1)
      BY <2>4, <1>5
    <2> QED BY <2>3, <2>5
  <1>7. iter = [s \in SUBSET S |-> body(iter, s)]
    <2>1. PICK g \in [SUBSET S -> Int] : \A s \in SUBSET S : g[s] = body(g, s)
      BY <1>6, <1>2
    <2>2. g = [s \in SUBSET S |-> body(g, s)]
      BY <2>1
    <2> HIDE DEF body
    <2> QED BY <2>2
  <1> HIDE DEF iter
  <1>8. \A s \in SUBSET S : iter[s] \in Int
    <2> DEFINE Wrong == {n \in Nat : \E s \in SUBSET S : Cardinality(s) = n /\ iter[s] \notin Int}
    <2>1. SUFFICES ASSUME Wrong # {} PROVE FALSE
      BY <1>2
    <2>2. PICK m \in Wrong : \A n \in Wrong : m <= n
      BY <2>1, LeastNatural
    <2>3. PICK s \in SUBSET S : Cardinality(s) = m /\ iter[s] \notin Int
      BY <2>2
    <2>4. iter[s] = body(iter, s)
      BY <1>7
    <2>5. s # {}
      BY <2>3, <2>4
    <2>6. /\ pick(s) \in S /\ s \ {pick(s)} \in SUBSET S
          /\ Cardinality(s \ {pick(s)}) \in Nat /\ Cardinality(s \ {pick(s)}) = m - 1
      BY <2>3, <2>5, <1>1
    <2>7. iter[s \ {pick(s)}] \in Int
      BY <2>2, <2>6
    <2> QED BY <2>3, <2>4, <2>5, <2>6, <2>7, <1>f
  <1>9. S = {} => iter[S] = 0
    BY <1>7
  <1> QED BY <1>8, <1>9, <1>c DEF S

----------------------------------------------------------------------------
(* The winner.                                                             *)

\* What a recorded candidate is.
LEMMA CandidateType ==
  ASSUME TypeOK, NEW i \in DOMAIN candidates
  PROVE  candidates[i].evidence \in Seq(AllResults)
  <1> DEFINE C == [text : Texts, evidence : Seq(AllResults)]
  <1>1. candidates \in Seq(C)
    BY DEF TypeOK
  <1> HIDE DEF C
  <1>2. candidates[i] \in C
    BY <1>1
  <1> QED BY <1>2 DEF C

\* Evidence with no error in it is of the whole schedule: it has regression results
\* exactly if the schedule has regression commands.
LEMMA TestedIfScheduled ==
  ASSUME TypeOK, RecordedInv, NEW i \in Eligible(candidates)
  PROVE  ResultsOf(candidates[i], "regression") # {} <=> Regressions > 0
  <1> DEFINE results == candidates[i].evidence
  <1>1. i \in DOMAIN candidates /\ Regular(results)
    BY EligibleIsUntainted DEF RecordedInv
  <1>2. results \in Seq(AllResults)
    BY <1>1, CandidateType
  <1>3. ASSUME Regressions > 0
        PROVE  1 \in ResultsOf(candidates[i], "regression")
    <2>1. Len(results) = Commands /\ Commands \in Nat /\ Commands > 0
      BY <1>1, PlanAssumption DEF Regular, Commands
    <2>2. 1 \in DOMAIN results
      BY <1>2, <2>1
    <2>3. results[1].kind = Kind(1) /\ Kind(1) = "regression"
      BY <1>1, <1>3, <2>2, PlanAssumption DEF Regular, Kind
    <2> QED BY <2>2, <2>3 DEF ResultsOf
  <1>4. ASSUME NEW n \in ResultsOf(candidates[i], "regression")
        PROVE  Regressions > 0
    <2>1. n \in DOMAIN results /\ results[n].kind = "regression"
      BY DEF ResultsOf
    <2>2. n \in 1..Len(results) /\ Len(results) \in Nat
      BY <1>2, <2>1
    <2>3. n \in Nat \ {0} /\ Kind(n) = "regression"
      BY <1>1, <2>1, <2>2 DEF Regular
    <2> QED BY <2>3, PlanAssumption DEF Kind
  <1> QED BY <1>3, <1>4

\* What the first stage keeps: the fewest failed units of all eligible candidates.
LEMMA FewestFailures ==
  ASSUME TypeOK, RecordedInv
  PROVE  /\ \A i \in Eligible(candidates) : FailureCount(candidates[i]) \in Int
         /\ BestRegression(candidates) =
              {i \in Eligible(candidates) : \A j \in Eligible(candidates) :
                 FailureCount(candidates[i]) <= FailureCount(candidates[j])}
  <1> DEFINE E == Eligible(candidates)
             count(i) == FailureCount(candidates[i])
             tested == {i \in E : ResultsOf(candidates[i], "regression") # {}}
  <1>1. ASSUME NEW i \in E
        PROVE  /\ count(i) \in Int
               /\ ResultsOf(candidates[i], "regression") = {} => count(i) = 0
    <2>1. i \in DOMAIN candidates
      BY DEF Eligible
    <2>2. candidates[i].evidence \in Seq(AllResults)
      BY <2>1, CandidateType
    <2> QED BY <2>2, FailureCountIsNumber
  <1>2. CASE Regressions > 0
    <2>1. tested = E
      BY <1>2, TestedIfScheduled
    <2> QED BY <1>1, <2>1 DEF BestRegression
  <1>3. CASE ~(Regressions > 0)
    <2>1. tested = {} /\ \A i \in E : count(i) = 0
      BY <1>1, <1>3, TestedIfScheduled
    <2> QED BY <1>1, <2>1 DEF BestRegression
  <1> QED BY <1>2, <1>3

\* A considered candidate has the standing of every other: the rest of the eligible
\* ones have other failures or another outcome of the reproduction.
LEMMA ConsideredStanding ==
  ASSUME TypeOK, RecordedInv, NEW i \in Considered(candidates), NEW j \in Eligible(candidates)
  PROVE  /\ i \in Eligible(candidates)
         /\ FailureCount(candidates[i]) <= FailureCount(candidates[j])
         /\ FailureCount(candidates[i]) = FailureCount(candidates[j]) /\
              PassesReproduction(candidates[j]) => PassesReproduction(candidates[i])
         /\ j \in Considered(candidates) <=>
              /\ FailureCount(candidates[j]) = FailureCount(candidates[i])
              /\ PassesReproduction(candidates[j]) <=> PassesReproduction(candidates[i])
  <1> DEFINE E == Eligible(candidates)
             B == BestRegression(candidates)
             count(k) == FailureCount(candidates[k])
             passes(k) == PassesReproduction(candidates[k])
             passed == {k \in B : passes(k)}
  <1>1. /\ \A k \in E : count(k) \in Int
        /\ B = {k \in E : \A n \in E : count(k) <= count(n)}
    BY FewestFailures
  <1>2. Considered(candidates) = IF passed = {} THEN B ELSE passed
    BY DEF Considered
  <1> HIDE DEF E, B, count, passes
  <1>3. i \in B /\ j \in E
    BY <1>2 DEF E
  <1>4. i \in E /\ count(i) <= count(j) /\ count(i) \in Int /\ count(j) \in Int
    BY <1>1, <1>3
  <1>5. j \in B <=> count(j) = count(i)
    BY <1>1, <1>3, <1>4
  <1>6. passes(i) <=> passed # {}
    BY <1>2, <1>3
  <1>7. j \in Considered(candidates) <=> j \in B /\ (passed # {} => passes(j))
    BY <1>2
  <1>8. j \in B /\ passes(j) => passed # {}
    OBVIOUS
  <1>9. count(i) = count(j) /\ passes(j) => passes(i)
    BY <1>5, <1>6, <1>8
  <1>10. j \in Considered(candidates) <=> count(j) = count(i) /\ (passes(j) <=> passes(i))
    BY <1>5, <1>6, <1>7, <1>8
  <1> QED BY <1>4, <1>9, <1>10 DEF E, count, passes

\* Votes are counted in numbers.
LEMMA VotesIsNumber ==
  ASSUME NEW T, NEW cs \in Seq(T), NEW k
  PROVE  Votes(cs, k) \in Nat
  <1> DEFINE V == {n \in Considered(cs) : cs[n].text = cs[k].text}
  <1>1. DOMAIN cs = 1..Len(cs) /\ Len(cs) \in Nat
    OBVIOUS
  <1>2. Considered(cs) \subseteq DOMAIN cs
    BY DEF Considered, BestRegression, Eligible
  <1>3. V \subseteq 1..Len(cs)
    BY <1>1, <1>2
  <1>4. IsFiniteSet(1..Len(cs))
    BY <1>1, FS_Interval
  <1>5. Cardinality(V) \in Nat
    BY <1>3, <1>4, FS_Subset, FS_CardinalityType
  <1> QED BY <1>5 DEF Votes, Voters

\* No eligible candidate beats a winner.
LEMMA WinnersAreUnbeaten ==
  ASSUME TypeOK, RecordedInv, chosen \in Winners(candidates), NEW j \in Eligible(candidates)
  PROVE  ~Beats(j, chosen)
  <1> DEFINE count(k) == FailureCount(candidates[k])
             passes(k) == PassesReproduction(candidates[k])
             Peers(k) == {n \in Eligible(candidates) :
                            /\ count(n) = count(k)
                            /\ passes(n) = passes(k)
                            /\ candidates[n].text = candidates[k].text}
  <1>1. chosen \in Considered(candidates) /\ chosen \in Eligible(candidates)
    BY WinnersAreEligible DEF Winners
  <1>2. /\ count(chosen) \in Int /\ count(j) \in Int
        /\ count(chosen) <= count(j)
        /\ count(chosen) = count(j) /\ passes(j) => passes(chosen)
    BY <1>1, FewestFailures, ConsideredStanding
  <1>3. ASSUME NEW k \in Considered(candidates)
        PROVE  Votes(candidates, k) = Cardinality(Peers(k))
    <2>1. k \in Eligible(candidates)
      BY <1>1, ConsideredStanding
    <2>2. \A n \in Eligible(candidates) :
            n \in Considered(candidates) <=> count(n) = count(k) /\ (passes(n) <=> passes(k))
      BY ConsideredStanding
    <2>3. Considered(candidates) \subseteq Eligible(candidates)
      BY <1>1, ConsideredStanding
    <2>4. \A n \in Eligible(candidates) : passes(n) \in BOOLEAN /\ passes(k) \in BOOLEAN
      BY DEF PassesReproduction
    <2> HIDE DEF count, passes
    <2>5. {n \in Considered(candidates) : candidates[n].text = candidates[k].text} = Peers(k)
      BY <2>2, <2>3, <2>4
    <2> QED BY <2>5 DEF Votes, Voters
  <1>4. ASSUME count(j) = count(chosen), passes(j) = passes(chosen)
        PROVE  ~(Cardinality(Peers(j)) > Cardinality(Peers(chosen)))
    <2>1. j \in Considered(candidates)
      BY <1>1, <1>4, ConsideredStanding
    <2>2. Votes(candidates, j) \in Nat /\ Votes(candidates, chosen) \in Nat
      BY VotesIsNumber DEF TypeOK
    <2>3. Votes(candidates, j) <= Votes(candidates, chosen)
      <3>1. \/ Votes(candidates, j) < Votes(candidates, chosen)
            \/ Votes(candidates, j) = Votes(candidates, chosen)
        BY <2>1 DEF Winners
      <3> QED BY <2>2, <3>1
    <2>4. /\ Votes(candidates, j) = Cardinality(Peers(j))
          /\ Votes(candidates, chosen) = Cardinality(Peers(chosen))
      BY <1>1, <1>3, <2>1
    <2> HIDE DEF Peers
    <2> QED BY <2>2, <2>3, <2>4
  <1>5. Beats(j, chosen) <=>
          \/ count(j) < count(chosen)
          \/ /\ count(j) = count(chosen)
             /\ \/ passes(j) /\ ~passes(chosen)
                \/ /\ passes(j) = passes(chosen)
                   /\ Cardinality(Peers(j)) > Cardinality(Peers(chosen))
    BY DEF Beats
  <1> HIDE DEF count, passes, Peers
  <1> QED BY <1>2, <1>4, <1>5

----------------------------------------------------------------------------
(* A candidate with an error, taken out of the list.                       *)

\* Where the candidates of the shorter list stand in the longer one.
Shifted(i, j) == IF j < i THEN j ELSE j + 1

\* The list without one candidate is the others, in their order.
LEMMA WithoutOne ==
  ASSUME NEW T, NEW cs \in Seq(T), NEW i \in DOMAIN cs
  PROVE  /\ Without(cs, i) \in Seq(T)
         /\ Len(Without(cs, i)) = Len(cs) - 1
         /\ \A j \in DOMAIN Without(cs, i) :
              /\ Shifted(i, j) \in DOMAIN cs \ {i}
              /\ Without(cs, i)[j] = cs[Shifted(i, j)]
         /\ \A k \in DOMAIN cs \ {i} : \E j \in DOMAIN Without(cs, i) : Shifted(i, j) = k
  <1> DEFINE head == SubSeq(cs, 1, i - 1)
             tail == SubSeq(cs, i + 1, Len(cs))
             less == head \o tail
  <1>1. i \in 1..Len(cs) /\ Len(cs) \in Nat
    OBVIOUS
  <1>2. head \in Seq(T) /\ Len(head) = i - 1 /\ \A n \in 1..(i - 1) : head[n] = cs[n]
    BY <1>1
  <1>3. /\ tail \in Seq(T) /\ Len(tail) = Len(cs) - i
        /\ \A n \in 1..(Len(cs) - i) : tail[n] = cs[i + n]
    BY <1>1
  <1> HIDE DEF head, tail
  <1>4. less \in Seq(T) /\ Len(less) = Len(cs) - 1
    BY <1>1, <1>2, <1>3
  <1>5. \A n \in 1..(Len(cs) - 1) : less[n] = IF n < i THEN head[n] ELSE tail[n - (i - 1)]
    <2>1. \A n \in 1..(Len(head) + Len(tail)) :
            less[n] = IF n <= Len(head) THEN head[n] ELSE tail[n - Len(head)]
      BY <1>2, <1>3
    <2>2. Len(head) + Len(tail) = Len(cs) - 1 /\ Len(head) = i - 1
      BY <1>1, <1>2, <1>3
    <2> HIDE DEF less
    <2>3. \A n \in 1..(Len(cs) - 1) : n <= i - 1 <=> n < i
      BY <1>1
    <2> QED BY <2>1, <2>2, <2>3
  <1> HIDE DEF less
  <1>6. ASSUME NEW j \in 1..(Len(cs) - 1)
        PROVE  Shifted(i, j) \in 1..Len(cs) /\ Shifted(i, j) # i /\ less[j] = cs[Shifted(i, j)]
    <2>1. CASE j < i
      BY <1>1, <1>2, <1>5, <2>1 DEF Shifted
    <2>2. CASE ~(j < i)
      <3>1. j - (i - 1) \in 1..(Len(cs) - i) /\ i + (j - (i - 1)) = j + 1
        BY <1>1, <2>2
      <3> QED BY <1>1, <1>3, <1>5, <2>2, <3>1 DEF Shifted
    <2> QED BY <2>1, <2>2
  <1>7. ASSUME NEW k \in 1..Len(cs), k # i
        PROVE  \E j \in 1..(Len(cs) - 1) : Shifted(i, j) = k
    <2>1. CASE k < i
      BY <1>1, <1>7, <2>1 DEF Shifted
    <2>2. CASE ~(k < i)
      <3>1. k - 1 \in 1..(Len(cs) - 1) /\ Shifted(i, k - 1) = k
        BY <1>1, <1>7, <2>2 DEF Shifted
      <3> QED BY <3>1
    <2> QED BY <2>1, <2>2
  <1>8. Without(cs, i) = less
    BY DEF Without, less, head, tail
  <1>9. DOMAIN less = 1..(Len(cs) - 1) /\ DOMAIN cs = 1..Len(cs)
    BY <1>4
  <1> QED BY <1>4, <1>6, <1>7, <1>8, <1>9

\* The least number of a set, and of the set its elements are moved to in their order.
LEMMA LeastIsMoved ==
  ASSUME NEW S \in SUBSET Nat, S # {}, NEW M \in SUBSET Nat, NEW s \in [S -> M],
         \A j, k \in S : j <= k <=> s[j] <= s[k],
         \A n \in M : \E j \in S : s[j] = n
  PROVE  Min(S) \in S /\ Min(M) = s[Min(S)]
  <1>1. PICK m \in S : \A n \in S : m <= n
    BY LeastNatural
  <1>2. \A x \in S : (\A n \in S : x <= n) => x = m
    BY <1>1
  <1>3. Min(S) = m
    BY <1>1, <1>2 DEF Min
  <1>4. s[m] \in M /\ \A n \in M : s[m] <= n
    BY <1>1
  <1>5. ASSUME NEW x \in M, \A n \in M : x <= n
        PROVE  x = s[m]
    <2>1. x <= s[m] /\ s[m] <= x
      BY <1>4, <1>5
    <2>2. x \in Nat /\ s[m] \in Nat
      BY <1>4
    <2> QED BY <2>1, <2>2
  <1>6. Min(M) = s[m]
    BY <1>4, <1>5 DEF Min
  <1> QED BY <1>3, <1>6

\* Neither the comparison nor the vote changes when a candidate with an error is taken
\* out of the list: every stage keeps the same candidates.
LEMMA ErrorsHaveNoWeight ==
  ASSUME NEW T, NEW cs \in Seq(T), NEW i \in DOMAIN cs \ Eligible(cs)
  PROVE  Winners(cs) = {Shifted(i, j) : j \in Winners(Without(cs, i))}
  <1> DEFINE ws == Without(cs, i)
             D == DOMAIN ws
             s == [j \in D |-> Shifted(i, j)]
             Same(A, B) == /\ A \subseteq D
                           /\ \A j \in D : j \in A <=> s[j] \in B
                           /\ \A k \in B : \E j \in A : s[j] = k
  <1>1. /\ ws \in Seq(T) /\ Len(ws) = Len(cs) - 1
        /\ \A j \in D : Shifted(i, j) \in DOMAIN cs \ {i} /\ ws[j] = cs[Shifted(i, j)]
        /\ \A k \in DOMAIN cs \ {i} : \E j \in D : Shifted(i, j) = k
    BY WithoutOne
  <1>2. /\ DOMAIN cs = 1..Len(cs) /\ Len(cs) \in Nat /\ i \in Nat
        /\ D = 1..Len(ws) /\ Len(ws) \in Nat /\ D \subseteq Nat /\ DOMAIN cs \subseteq Nat
    BY <1>1
  <1>3. /\ \A j \in D : s[j] \in DOMAIN cs /\ s[j] # i /\ ws[j] = cs[s[j]] /\ s[j] \in Nat
        /\ \A k \in DOMAIN cs \ {i} : \E j \in D : s[j] = k
    BY <1>1, <1>2
  <1>4. \A j, k \in D : (j <= k <=> s[j] <= s[k]) /\ (j = k <=> s[j] = s[k])
    BY <1>2 DEF Shifted
  <1>5. \A j \in D : s[j] = Shifted(i, j)
    OBVIOUS
  <1>m. s \in [D -> Nat]
    BY <1>3
  <1> HIDE DEF ws, s, D
  <1>6. Same(Eligible(ws), Eligible(cs))
    <2>1. \A j \in D : j \in Eligible(ws) <=> s[j] \in Eligible(cs)
      BY <1>3 DEF Eligible, D
    <2>2. Eligible(ws) \subseteq D /\ Eligible(cs) \subseteq DOMAIN cs \ {i}
      BY DEF Eligible, D
    <2> QED BY <1>3, <2>1, <2>2
  <1>7. Same(BestRegression(ws), BestRegression(cs))
    <2> DEFINE counted(l) == {j \in Eligible(l) : ResultsOf(l[j], "regression") # {}}
               fewest(l) == {j \in counted(l) : \A k \in counted(l) :
                               FailureCount(l[j]) <= FailureCount(l[k])}
    <2>1. Same(counted(ws), counted(cs))
      BY <1>3, <1>6
    <2> HIDE DEF counted
    <2>2. counted(ws) = {} <=> counted(cs) = {}
      BY <2>1
    <2>3. Same(fewest(ws), fewest(cs))
      <3>1. \A j \in D : j \in fewest(ws) <=> s[j] \in fewest(cs)
        <4> SUFFICES ASSUME NEW j \in D, j \in counted(ws), s[j] \in counted(cs)
                     PROVE  (\A k \in counted(ws) : FailureCount(ws[j]) <= FailureCount(ws[k]))
                            <=> \A k \in counted(cs) : FailureCount(cs[s[j]]) <= FailureCount(cs[k])
          BY <2>1
        <4>1. \A k \in counted(ws) : ws[k] = cs[s[k]] /\ s[k] \in counted(cs)
          BY <1>3, <2>1
        <4>2. \A n \in counted(cs) : \E k \in counted(ws) : s[k] = n /\ ws[k] = cs[n]
          BY <1>3, <2>1
        <4> HIDE DEF Same
        <4> QED BY <1>3, <4>1, <4>2
      <3>2. fewest(ws) \subseteq D /\ fewest(cs) \subseteq counted(cs)
        BY <2>1
      <3> QED BY <3>1, <3>2, <2>1
    <2> HIDE DEF fewest
    <2>4. /\ BestRegression(ws) = IF counted(ws) = {} THEN Eligible(ws) ELSE fewest(ws)
          /\ BestRegression(cs) = IF counted(cs) = {} THEN Eligible(cs) ELSE fewest(cs)
      BY DEF BestRegression, counted, fewest
    <2> HIDE DEF Same
    <2> QED BY <1>6, <2>2, <2>3, <2>4
  <1>8. Same(Considered(ws), Considered(cs))
    <2> DEFINE passed(l) == {j \in BestRegression(l) : PassesReproduction(l[j])}
    <2>1. Same(passed(ws), passed(cs))
      BY <1>3, <1>7
    <2> HIDE DEF passed
    <2>2. passed(ws) = {} <=> passed(cs) = {}
      BY <2>1
    <2>3. /\ Considered(ws) = IF passed(ws) = {} THEN BestRegression(ws) ELSE passed(ws)
          /\ Considered(cs) = IF passed(cs) = {} THEN BestRegression(cs) ELSE passed(cs)
      BY DEF Considered, passed
    <2> HIDE DEF Same
    <2> QED BY <1>7, <2>1, <2>2, <2>3
  <1>9. ASSUME NEW j \in Considered(ws)
        PROVE  /\ Votes(ws, j) = Votes(cs, s[j])
               /\ FirstAppearance(ws, j) \in D
               /\ FirstAppearance(cs, s[j]) = s[FirstAppearance(ws, j)]
    <2> DEFINE A == {k \in Considered(ws) : ws[k].text = ws[j].text}
               B == {k \in Considered(cs) : cs[k].text = cs[s[j]].text}
               f == [k \in A |-> s[k]]
    <2>1. j \in D /\ ws[j] = cs[s[j]]
      BY <1>3, <1>8
    <2>2. A \subseteq D /\ A # {} /\ Same(A, B)
      BY <1>3, <1>8, <2>1
    <2> HIDE DEF A, B
    <2>3. /\ f \in [A -> B]
          /\ \A k, n \in A : (k <= n <=> f[k] <= f[n]) /\ (f[k] = f[n] => k = n)
          /\ \A n \in B : \E k \in A : f[k] = n
      BY <1>4, <2>2
    <2>4. A \in SUBSET Nat /\ B \in SUBSET Nat
      <3>1. B \subseteq DOMAIN cs
        BY DEF B, Considered, BestRegression, Eligible
      <3> QED BY <1>2, <2>2, <3>1
    <2>5. Cardinality(A) = Cardinality(B)
      <3>1. IsFiniteSet(1..Len(ws)) /\ A \subseteq 1..Len(ws)
        BY <1>2, <2>2, FS_Interval
      <3>2. IsFiniteSet(A)
        BY <3>1, FS_Subset
      <3>3. f \in Bijection(A, B)
        BY <2>3 DEF Bijection, Injection, Surjection, IsInjective
      <3>4. ExistsBijection(A, B)
        BY <3>3 DEF ExistsBijection
      <3> QED BY <3>2, <3>4, FS_Bijection
    <2>6. Min(A) \in A /\ Min(B) = f[Min(A)]
      <3>1. /\ f \in [A -> B]
            /\ \A k, n \in A : k <= n <=> f[k] <= f[n]
            /\ \A n \in B : \E k \in A : f[k] = n
            /\ A # {}
        BY <2>2, <2>3
      <3> HIDE DEF f
      <3> QED BY <2>4, <3>1, LeastIsMoved
    <2>7. Min(A) \in D /\ f[Min(A)] = s[Min(A)]
      BY <2>2, <2>6
    <2> QED BY <2>5, <2>6, <2>7 DEF Votes, Voters, FirstAppearance, A, B
  <1>10. Same(Winners(ws), Winners(cs))
    <2>1. /\ Considered(ws) \subseteq D
          /\ \A j \in D : j \in Considered(ws) <=> s[j] \in Considered(cs)
          /\ \A k \in Considered(cs) : \E j \in Considered(ws) : s[j] = k
      BY <1>8
    <2>2. ASSUME NEW j \in Considered(ws)
          PROVE  j \in Winners(ws) <=> s[j] \in Winners(cs)
      <3>1. j \in D /\ s[j] \in Considered(cs)
        BY <2>1
      <3>2. FirstAppearance(ws, j) = j <=> FirstAppearance(cs, s[j]) = s[j]
        BY <1>4, <1>9, <3>1
      <3>3. ASSUME NEW k \in Considered(ws)
            PROVE  (\/ Votes(ws, k) < Votes(ws, j)
                    \/ Votes(ws, k) = Votes(ws, j) /\ j <= FirstAppearance(ws, k))
                   <=>
                   (\/ Votes(cs, s[k]) < Votes(cs, s[j])
                    \/ Votes(cs, s[k]) = Votes(cs, s[j]) /\ s[j] <= FirstAppearance(cs, s[k]))
        BY <1>4, <1>9, <3>1
      <3>4. (\A k \in Considered(ws) :
               \/ Votes(ws, k) < Votes(ws, j)
               \/ Votes(ws, k) = Votes(ws, j) /\ j <= FirstAppearance(ws, k))
            <=>
            (\A n \in Considered(cs) :
               \/ Votes(cs, n) < Votes(cs, s[j])
               \/ Votes(cs, n) = Votes(cs, s[j]) /\ s[j] <= FirstAppearance(cs, n))
        BY <2>1, <3>3
      <3> QED BY <3>1, <3>2, <3>4 DEF Winners
    <2>3. Winners(ws) \subseteq Considered(ws) /\ Winners(cs) \subseteq Considered(cs)
      BY DEF Winners
    <2> QED BY <2>1, <2>2, <2>3
  <1> QED BY <1>5, <1>10 DEF ws

----------------------------------------------------------------------------
(* One more vote.                                                          *)

\* A later number does not become the least of a set.
LEMMA LaterIsNotLeast ==
  ASSUME NEW S \in SUBSET Nat, S # {}, NEW n \in Nat, \A k \in S : k < n
  PROVE  Min(S) \in S /\ Min(S \cup {n}) = Min(S)
  <1>1. PICK m \in S : \A k \in S : m <= k
    BY LeastNatural
  <1>2. \A x \in S : (\A k \in S : x <= k) => x = m
    BY <1>1
  <1>3. Min(S) = m
    BY <1>1, <1>2 DEF Min
  <1>4. m \in S \cup {n} /\ \A k \in S \cup {n} : m <= k
    BY <1>1
  <1>5. \A x \in S \cup {n} : (\A k \in S \cup {n} : x <= k) => x = m
    BY <1>1
  <1>6. Min(S \cup {n}) = m
    BY <1>4, <1>5 DEF Min
  <1> QED BY <1>1, <1>3, <1>6

\* One more candidate like the winner joins it in every stage.
LEMMA OneMoreIsConsidered ==
  ASSUME NEW T, NEW cs \in Seq(T), NEW w \in Considered(cs),
         NEW more \in Seq(T), more = Append(cs, cs[w])
  PROVE  Considered(more) = Considered(cs) \cup {Len(cs) + 1}
  <1> DEFINE n == Len(cs) + 1
             counted(l) == {j \in Eligible(l) : ResultsOf(l[j], "regression") # {}}
             fewest(l) == {j \in counted(l) : \A k \in counted(l) :
                             FailureCount(l[j]) <= FailureCount(l[k])}
             passed(l) == {j \in BestRegression(l) : PassesReproduction(l[j])}
  <1>1. /\ DOMAIN cs = 1..Len(cs) /\ Len(cs) \in Nat
        /\ DOMAIN more = DOMAIN cs \cup {n}
        /\ n \notin DOMAIN cs
        /\ \A j \in DOMAIN cs : more[j] = cs[j]
        /\ more[n] = cs[w]
    OBVIOUS
  <1>2. /\ w \in BestRegression(cs) /\ w \in Eligible(cs)
        /\ passed(cs) # {} => w \in passed(cs)
    BY DEF Considered, BestRegression
  <1> HIDE DEF n
  <1>3. Eligible(cs) \subseteq DOMAIN cs
    BY DEF Eligible
  <1>4. Eligible(more) = Eligible(cs) \cup {n}
    <2>1. \A j \in DOMAIN cs : j \in Eligible(more) <=> j \in Eligible(cs)
      BY <1>1 DEF Eligible
    <2>2. n \in Eligible(more)
      BY <1>1, <1>2 DEF Eligible
    <2>3. Eligible(more) \subseteq DOMAIN cs \cup {n}
      BY <1>1 DEF Eligible
    <2> QED BY <1>3, <2>1, <2>2, <2>3
  <1>5. /\ \A j : j \in counted(more) <=> j \in counted(cs) \/ (j = n /\ w \in counted(cs))
        /\ counted(cs) \subseteq DOMAIN cs
    BY <1>1, <1>2, <1>3, <1>4
  <1>6. /\ BestRegression(cs) = IF counted(cs) = {} THEN Eligible(cs) ELSE fewest(cs)
        /\ BestRegression(more) = IF counted(more) = {} THEN Eligible(more) ELSE fewest(more)
    BY DEF BestRegression
  <1> HIDE DEF counted
  <1>7. BestRegression(more) = BestRegression(cs) \cup {n}
    <2>1. CASE counted(cs) = {}
      BY <1>4, <1>5, <1>6, <2>1
    <2>2. CASE counted(cs) # {}
      <3>1. w \in fewest(cs) /\ w \in counted(cs)
        BY <1>2, <1>6, <2>2
      <3>2. counted(more) = counted(cs) \cup {n}
        BY <1>5, <3>1
      <3>3. \A j \in counted(cs) : more[j] = cs[j]
        BY <1>1, <1>5
      <3>4. more[n] = cs[w] /\ FailureCount(cs[w]) <= FailureCount(cs[w])
        BY <1>1, <3>1
      <3>5. ASSUME NEW j \in counted(cs)
            PROVE  j \in fewest(more) <=> j \in fewest(cs)
        BY <3>1, <3>2, <3>3, <3>4
      <3>6. n \in fewest(more)
        BY <3>1, <3>2, <3>3, <3>4
      <3>7. fewest(more) = fewest(cs) \cup {n}
        BY <3>2, <3>5, <3>6
      <3> QED BY <1>6, <2>2, <3>2, <3>7
    <2> QED BY <2>1, <2>2
  <1>8. BestRegression(cs) \subseteq DOMAIN cs
    BY <1>3 DEF BestRegression
  <1>9. \A j : j \in passed(more) <=> j \in passed(cs) \/ (j = n /\ w \in passed(cs))
    BY <1>1, <1>2, <1>7, <1>8
  <1>10. /\ Considered(cs) = IF passed(cs) = {} THEN BestRegression(cs) ELSE passed(cs)
         /\ Considered(more) = IF passed(more) = {} THEN BestRegression(more) ELSE passed(more)
    BY DEF Considered
  <1> HIDE DEF passed
  <1>11. Considered(more) = Considered(cs) \cup {n}
    <2>1. CASE passed(cs) = {}
      <3>1. passed(more) = {}
        BY <1>9, <2>1
      <3> QED BY <1>7, <1>10, <2>1, <3>1
    <2>2. CASE passed(cs) # {}
      <3>1. passed(more) = passed(cs) \cup {n}
        BY <1>2, <1>9, <2>2
      <3> QED BY <1>10, <2>2, <3>1
    <2> QED BY <2>1, <2>2
  <1> QED BY <1>11 DEF n

\* The list has one vote more for its winner and keeps it.
Gains(more, cs, w) ==
  /\ Winners(more) = {w}
  /\ Votes(more, w) = Votes(cs, w) + 1

\* One more candidate like the winner is one more vote for it and does not unseat it.
LEMMA OneMoreVote ==
  ASSUME NEW T, NEW cs \in Seq(T), NEW w \in Winners(cs),
         NEW more \in Seq(T), more = Append(cs, cs[w])
  PROVE  Gains(more, cs, w)
  <1> DEFINE n == Len(cs) + 1
             C == Considered(cs)
             A(k) == {j \in C : cs[j].text = cs[k].text}
             M(k) == {j \in Considered(more) : more[j].text = more[k].text}
  <1>1. /\ DOMAIN cs = 1..Len(cs) /\ Len(cs) \in Nat
        /\ \A j \in DOMAIN cs : more[j] = cs[j]
        /\ more[n] = cs[w]
    OBVIOUS
  <1>2. /\ w \in C /\ FirstAppearance(cs, w) = w
        /\ \A j \in C : \/ Votes(cs, j) < Votes(cs, w)
                        \/ Votes(cs, j) = Votes(cs, w) /\ w <= FirstAppearance(cs, j)
    BY DEF Winners
  <1>3. C \subseteq DOMAIN cs
    BY DEF Considered, BestRegression, Eligible
  <1>4. /\ C \subseteq Nat /\ IsFiniteSet(C) /\ n \in Nat
        /\ \A j \in C : j < n
        /\ n \notin C
    <2>1. IsFiniteSet(1..Len(cs))
      <3>1. 1 \in Int /\ Len(cs) \in Int
        BY <1>1
      <3> QED BY <3>1, FS_Interval
    <2>2. IsFiniteSet(C)
      BY <1>1, <1>3, <2>1, FS_Subset
    <2> QED BY <1>1, <1>3, <2>2
  <1>5. Considered(more) = C \cup {n}
    BY <1>2, OneMoreIsConsidered
  <1>6. /\ \A k : FirstAppearance(cs, k) = Min(A(k)) /\ Votes(cs, k) = Cardinality(A(k))
        /\ \A k : FirstAppearance(more, k) = Min(M(k)) /\ Votes(more, k) = Cardinality(M(k))
    BY DEF FirstAppearance, Votes, Voters
  <1>7. \A k : Votes(cs, k) \in Nat
    BY VotesIsNumber
  <1> HIDE DEF n, C
  <1>8. \A j \in C : more[j] = cs[j]
    BY <1>1, <1>3
  <1>9. ASSUME NEW k \in C
        PROVE  M(k) = IF cs[k].text = cs[w].text THEN A(k) \cup {n} ELSE A(k)
    BY <1>1, <1>4, <1>5, <1>8
  <1>10. M(n) = A(w) \cup {n}
    BY <1>1, <1>4, <1>5, <1>8
  <1>11. ASSUME NEW k \in C
         PROVE  /\ A(k) \subseteq C /\ A(k) # {} /\ A(k) \in SUBSET Nat /\ n \notin A(k)
                /\ IsFiniteSet(A(k)) /\ \A j \in A(k) : j < n
    <2>1. A(k) \subseteq C /\ k \in A(k)
      OBVIOUS
    <2>2. IsFiniteSet(A(k))
      BY <1>4, <2>1, FS_Subset
    <2> QED BY <1>4, <2>1, <2>2
  <1>12. ASSUME NEW k \in C, cs[k].text = cs[w].text
         PROVE  A(k) = A(w)
    BY <1>12
  <1> HIDE DEF A, M
  <1>13. ASSUME NEW k \in C
         PROVE  /\ FirstAppearance(more, k) = FirstAppearance(cs, k)
                /\ Votes(more, k) = Votes(cs, k) + (IF cs[k].text = cs[w].text THEN 1 ELSE 0)
    <2>1. Min(A(k) \cup {n}) = Min(A(k))
      BY <1>4, <1>11, LaterIsNotLeast
    <2>2. Cardinality(A(k) \cup {n}) = Cardinality(A(k)) + 1
      BY <1>11, FS_AddElement
    <2>3. Cardinality(A(k)) \in Nat
      BY <1>6, <1>7
    <2>4. CASE cs[k].text = cs[w].text
      BY <1>6, <1>9, <2>1, <2>2, <2>4
    <2>5. CASE cs[k].text # cs[w].text
      BY <1>6, <1>9, <2>3, <2>5
    <2> QED BY <2>4, <2>5
  <1>14. FirstAppearance(more, n) = w /\ Votes(more, n) = Votes(cs, w) + 1
    <2>1. M(n) = M(w)
      BY <1>2, <1>9, <1>10
    <2> QED BY <1>2, <1>6, <1>13, <2>1
  <1>15. /\ FirstAppearance(more, w) = w /\ Votes(more, w) = Votes(cs, w) + 1
         /\ w \in Nat /\ w # n
    BY <1>2, <1>4, <1>13
  <1>16. ASSUME NEW k \in C
         PROVE  \/ cs[k].text = cs[w].text /\ FirstAppearance(more, k) = w /\ Votes(more, k) = Votes(cs, w) + 1
                \/ Votes(more, k) < Votes(cs, w) + 1 /\ Votes(more, k) \in Nat
    <2>1. CASE cs[k].text = cs[w].text
      <3>1. A(k) = A(w)
        BY <1>12, <2>1
      <3>2. Votes(cs, k) = Votes(cs, w) /\ FirstAppearance(cs, k) = FirstAppearance(cs, w)
        BY <1>6, <3>1
      <3> QED BY <1>2, <1>13, <2>1, <3>2
    <2>2. CASE cs[k].text # cs[w].text
      <3>1. Votes(more, k) = Votes(cs, k) /\ Votes(cs, k) \in Nat /\ Votes(cs, w) \in Nat
        BY <1>7, <1>13, <2>2
      <3>2. Votes(cs, k) <= Votes(cs, w)
        BY <1>2, <3>1
      <3> QED BY <3>1, <3>2
    <2> QED BY <2>1, <2>2
  <1>17. w \in Winners(more)
    <2>1. ASSUME NEW j \in C \cup {n}
          PROVE  \/ Votes(more, j) < Votes(more, w)
                 \/ Votes(more, j) = Votes(more, w) /\ w <= FirstAppearance(more, j)
      <3>1. CASE j = n
        BY <1>14, <1>15, <3>1
      <3>2. CASE j \in C
        BY <1>15, <1>16, <3>2
      <3> QED BY <3>1, <3>2
    <2> QED BY <1>2, <1>5, <1>15, <2>1 DEF Winners
  <1>18. ASSUME NEW k \in Winners(more)
         PROVE  k = w
    <2>1. /\ k \in C \cup {n} /\ FirstAppearance(more, k) = k
          /\ \/ Votes(more, w) < Votes(more, k)
             \/ Votes(more, w) = Votes(more, k)
      BY <1>2, <1>5 DEF Winners
    <2>2. CASE k = n
      BY <1>14, <2>1, <2>2
    <2>3. CASE k \in C
      <3>1. Votes(cs, w) + 1 \in Nat
        BY <1>7
      <3> QED BY <1>15, <1>16, <2>1, <2>3, <3>1
    <2> QED BY <2>1, <2>2, <2>3
  <1> QED BY <1>15, <1>17, <1>18 DEF Gains

----------------------------------------------------------------------------
(* The key of a vote: the same for repairs that leave the same code, and   *)
(* another for repairs that leave other pieces of it.                      *)

\* A source is a record of its five fields, its pieces are records of theirs.
PieceRecords(pieces) ==
  \A n \in DOMAIN pieces :
    pieces[n] = [class |-> pieces[n].class, name |-> pieces[n].name, code |-> pieces[n].code,
                 doc |-> pieces[n].doc]

\* What is said about the functions is gone.
Undocumented(pieces) ==
  [n \in DOMAIN pieces |->
     [class |-> pieces[n].class, name |-> pieces[n].name, code |-> pieces[n].code, doc |-> None]]

SameFields(s, t) ==
  /\ s.exists = t.exists
  /\ s.parses = t.parses
  /\ DOMAIN s.pieces = DOMAIN t.pieces
  /\ \A n \in DOMAIN s.pieces :
       s.pieces[n].name = t.pieces[n].name /\ s.pieces[n].code = t.pieces[n].code

\* The code of a file is in the names and the code of its pieces.
LEMMA SameFieldsSameCode ==
  ASSUME NEW s, NEW t, SameFields(s, t)
  PROVE  CodeOf(s) = CodeOf(t)
  <1>1. Bodies(s) = Bodies(t)
    BY DEF SameFields, Bodies, Text, Range
  <1> QED BY <1>1 DEF SameFields, CodeOf

\* The pieces of a source, one by one.
LEMMA ShapedPieces ==
  ASSUME NEW s, SourceShape(s)
  PROVE  /\ PieceRecords(s.pieces)
         /\ s.pieces = [n \in DOMAIN s.pieces |-> s.pieces[n]]
         /\ Python \/ \A n \in DOMAIN s.pieces : s.pieces[n].doc = None
  <1>1. \A n \in DOMAIN s.pieces : s.pieces[n] \in Range(s.pieces)
    BY DEF Range
  <1>2. PieceRecords(s.pieces)
    BY <1>1 DEF SourceShape, PieceRecords, Function
  <1>3. s.pieces = [n \in DOMAIN s.pieces |-> s.pieces[n]]
    BY DEF SourceShape
  <1>4. Python \/ \A n \in DOMAIN s.pieces : s.pieces[n].doc = None
    BY <1>1 DEF SourceShape
  <1> QED BY <1>2, <1>3, <1>4


\* What the transformations of a source leave and what they replace.
LEMMA TransformedFields ==
  ASSUME NEW s, SourceShape(s)
  PROVE  /\ Trimmed(s) =
              [parses |-> s.parses, exists |-> s.exists, pieces |-> s.pieces,
               notes |-> s.notes,
               layout |-> IF s.layout = "trailing" THEN "plain" ELSE s.layout]
         /\ StripCommentNodes(s) =
              [parses |-> s.parses, exists |-> s.exists, pieces |-> s.pieces,
               notes |-> None, layout |-> s.layout]
         /\ Canonical(s) =
              [parses |-> s.parses, exists |-> s.exists, pieces |-> s.pieces,
               notes |-> None, layout |-> "canonical"]
         /\ StripComments(Canonical(s)) =
              [parses |-> s.parses, exists |-> s.exists, pieces |-> Undocumented(s.pieces),
               notes |-> None, layout |-> "canonical"]
  <1>1. s = [parses |-> s.parses, exists |-> s.exists, pieces |-> s.pieces,
             notes |-> s.notes, layout |-> s.layout]
    BY DEF SourceShape
  <1>2. Trimmed(s) =
          [parses |-> s.parses, exists |-> s.exists, pieces |-> s.pieces,
           notes |-> s.notes,
           layout |-> IF s.layout = "trailing" THEN "plain" ELSE s.layout]
    BY <1>1 DEF Trimmed
  <1>3. StripCommentNodes(s) =
          [parses |-> s.parses, exists |-> s.exists, pieces |-> s.pieces,
           notes |-> None, layout |-> s.layout]
    BY <1>1 DEF StripCommentNodes
  <1>4. Canonical(s) =
          [parses |-> s.parses, exists |-> s.exists, pieces |-> s.pieces,
           notes |-> None, layout |-> "canonical"]
    <2>1. PICK a, b, f, n, l : s = [parses |-> a, exists |-> b, pieces |-> f,
                                    notes |-> n, layout |-> l]
      BY <1>1
    <2> DEFINE u == [s EXCEPT !.notes = None]
    <2>3. u = [parses |-> a, exists |-> b, pieces |-> f, notes |-> None, layout |-> l]
      BY <2>1
    <2> HIDE DEF u
    <2>4. [u EXCEPT !.layout = "canonical"] = 
            [parses |-> a, exists |-> b, pieces |-> f, notes |-> None, layout |-> "canonical"]
      BY <2>3
    <2>5. Canonical(s) = [u EXCEPT !.layout = "canonical"]
      BY DEF Canonical, u
    <2>2. Canonical(s) = [parses |-> a, exists |-> b, pieces |-> f,
                          notes |-> None, layout |-> "canonical"]
      BY <2>4, <2>5
    <2> QED BY <2>1, <2>2
  <1> DEFINE c == Canonical(s)
             d == StripCommentNodes(c)
  <1>5. d = [parses |-> s.parses, exists |-> s.exists, pieces |-> s.pieces,
             notes |-> None, layout |-> "canonical"]
    BY <1>4 DEF StripCommentNodes
  <1>6. StripComments(c) =
          [d EXCEPT !.pieces = [n \in DOMAIN @ |-> [@[n] EXCEPT !.doc = None]]]
    BY DEF StripComments
  <1> HIDE DEF c, d
  <1>7. [n \in DOMAIN d.pieces |-> [d.pieces[n] EXCEPT !.doc = None]] = Undocumented(s.pieces)
    <2>1. d.pieces = s.pieces
      BY <1>5
    <2>2. PieceRecords(s.pieces)
      BY ShapedPieces
    <2>3. ASSUME NEW n \in DOMAIN s.pieces
          PROVE  [s.pieces[n] EXCEPT !.doc = None] =
                   [class |-> s.pieces[n].class, name |-> s.pieces[n].name,
                    code |-> s.pieces[n].code, doc |-> None]
      <3>1. PICK k, a, b, o : s.pieces[n] = [class |-> k, name |-> a, code |-> b, doc |-> o]
        BY <2>2 DEF PieceRecords
      <3> QED BY <3>1
    <2> QED BY <2>1, <2>3 DEF Undocumented
  <1>8. StripComments(c) = [d EXCEPT !.pieces = Undocumented(s.pieces)]
    BY <1>6, <1>7
  <1>9. StripComments(c) =
          [parses |-> s.parses, exists |-> s.exists, pieces |-> Undocumented(s.pieces),
           notes |-> None, layout |-> "canonical"]
    BY <1>5, <1>8
  <1> QED BY <1>2, <1>3, <1>4, <1>9 DEF c

\* Stripping and trimming change nothing of the code, and they keep what a source is.
LEMMA StrippedKeepsCode ==
  ASSUME NEW p, NEW s, SourceShape(s)
  PROVE  /\ SameFields(Stripped(p, s), s)
         /\ SameFields(Trimmed(Stripped(p, s)), s)
         /\ CodeOf(Stripped(p, s)) = CodeOf(s)
         /\ CodeOf(Trimmed(Stripped(p, s))) = CodeOf(s)
         /\ CodeOf(Trimmed(s)) = CodeOf(s)
  <1> DEFINE t == Stripped(p, s)
             Record5(x) == x = [parses |-> x.parses, exists |-> x.exists, pieces |-> x.pieces,
                                notes |-> x.notes, layout |-> x.layout]
  <1>1. t \in {s, StripCommentNodes(s), Canonical(s), StripComments(Canonical(s))}
    BY DEF Stripped
  <1>2. /\ Record5(t) /\ t.exists = s.exists /\ t.parses = s.parses
        /\ t.pieces \in {s.pieces, Undocumented(s.pieces)}
    <2>1. Record5(s)
      BY DEF SourceShape
    <2>2. CASE t = s
      BY <2>1, <2>2
    <2>3. CASE t = StripCommentNodes(s)
      BY <2>3, TransformedFields
    <2>4. CASE t = Canonical(s)
      BY <2>4, TransformedFields
    <2>5. CASE t = StripComments(Canonical(s))
      BY <2>5, TransformedFields
    <2> QED BY <1>1, <2>2, <2>3, <2>4, <2>5
  <1> HIDE DEF t
  <1>3. SameFields(t, s)
    BY <1>2 DEF SameFields, Undocumented
  <1>4. /\ Trimmed(t).exists = t.exists /\ Trimmed(t).parses = t.parses
        /\ Trimmed(t).pieces = t.pieces
    BY <1>2 DEF Trimmed
  <1>5. SameFields(Trimmed(t), s)
    BY <1>3, <1>4 DEF SameFields
  <1>6. SameFields(Trimmed(s), s)
    <2>1. /\ Trimmed(s).exists = s.exists /\ Trimmed(s).parses = s.parses
          /\ Trimmed(s).pieces = s.pieces
      BY TransformedFields
    <2> QED BY <2>1 DEF SameFields
  <1> QED BY <1>3, <1>5, <1>6, SameFieldsSameCode DEF t

\* A chunk of a diff, and of a normalized diff.
Chunk(p, o, n) == [path |-> p, context |-> TRUE, lines |-> {}, old |-> o, new |-> n]
Lines(p, a, o, n) == [path |-> p, context |-> FALSE, lines |-> a, old |-> o, new |-> n]
Normal(c) == [c EXCEPT !.old = Trimmed(@), !.new = Trimmed(@)]

\* Blanks at the ends of lines leave both sides of a chunk.
LEMMA NormalChunk ==
  ASSUME NEW p, NEW a, NEW o, NEW n
  PROVE  /\ Normal(Chunk(p, o, n)) = Chunk(p, Trimmed(o), Trimmed(n))
         /\ Normal(Lines(p, a, o, n)) = Lines(p, a, Trimmed(o), Trimmed(n))
  <1>1. ASSUME NEW k, NEW b, NEW c, c = [path |-> p, context |-> k, lines |-> b, old |-> o, new |-> n]
        PROVE  Normal(c) = [path |-> p, context |-> k, lines |-> b,
                            old |-> Trimmed(o), new |-> Trimmed(n)]
    <2> DEFINE d == [c EXCEPT !.old = Trimmed(@)]
    <2>1. d = [path |-> p, context |-> k, lines |-> b, old |-> Trimmed(o), new |-> n]
      BY <1>1
    <2>2. Normal(c) = [d EXCEPT !.new = Trimmed(@)]
      BY DEF Normal
    <2> HIDE DEF d
    <2>3. [d EXCEPT !.new = Trimmed(@)] =
            [path |-> p, context |-> k, lines |-> b, old |-> Trimmed(o), new |-> Trimmed(n)]
      BY <2>1
    <2> QED BY <2>2, <2>3
  <1>2. Normal(Chunk(p, o, n)) = Chunk(p, Trimmed(o), Trimmed(n))
    BY <1>1 DEF Chunk
  <1>3. Normal(Lines(p, a, o, n)) = Lines(p, a, Trimmed(o), Trimmed(n))
    BY <1>1 DEF Lines
  <1> QED BY <1>2, <1>3

\* A set of chunks that keep their context, seen from a repair: it has the code after
\* the repair of every file whose code the repair changes, and of no file it does not
\* touch.
Shows(K, r) ==
  /\ \A c \in K : c.context /\ c.path \in Touched(r) /\ CodeOf(c.new) = CodeOf(r.new[c.path])
  /\ \A p \in Touched(r) : (\E c \in K : c.path = p) \/ CodeOf(r.old[p]) = CodeOf(r.new[p])

\* The texts behind a sign.
Shown(lines, sign) == {Text(a[3]) : a \in {a \in lines : a[2] = sign}}

\* The key of a repair that only adds functions to one file: what goes and what comes.
ShowsAdded(K, r) ==
  \E p : /\ Touched(r) = {p} /\ r.new[p].exists = TRUE
         /\ K # {}
         /\ \A c \in K :
              /\ ~c.context /\ c.path = p
              /\ Bodies(r.new[p]) = (Bodies(r.old[p]) \ Shown(c.lines, "-")) \cup Shown(c.lines, "+")

\* The diff between the contents before and after, if these have the code of the repair.
LEMMA DiffShows ==
  ASSUME NEW r, RepairShape(r), NEW y, Touched(y) = Touched(r),
         \A p \in Touched(r) : /\ CodeOf(Trimmed(y.new[p])) = CodeOf(r.new[p])
                               /\ y.old[p] = y.new[p] => CodeOf(r.old[p]) = CodeOf(r.new[p])
  PROVE  Shows(NormalizePatch(Diff(y)), r)
  <1> DEFINE chunk(p) == Chunk(p, y.old[p], y.new[p])
             normal(p) == Chunk(p, Trimmed(y.old[p]), Trimmed(y.new[p]))
             D == {p \in Touched(y) : y.old[p] # y.new[p]}
             K == NormalizePatch(Diff(y))
  <1>1. Diff(y) = {chunk(p) : p \in D}
    BY DEF Diff, Chunk
  <1>2. \A p : Normal(chunk(p)) = normal(p)
    BY NormalChunk
  <1>3. K = {Normal(c) : c \in Diff(y)}
    BY DEF NormalizePatch, Normal
  <1>4. K = {normal(p) : p \in D}
    <2> HIDE DEF chunk, normal, D, K
    <2> QED BY <1>1, <1>2, <1>3
  <1>5. \A p : /\ normal(p).context = TRUE /\ normal(p).path = p
               /\ normal(p).new = Trimmed(y.new[p])
    BY DEF Chunk
  <1> HIDE DEF normal, K
  <1>6. ASSUME NEW c \in K
        PROVE  c.context /\ c.path \in Touched(r) /\ CodeOf(c.new) = CodeOf(r.new[c.path])
    <2>1. PICK p \in D : c = normal(p)
      BY <1>4
    <2> QED BY <1>5, <2>1
  <1>7. ASSUME NEW p \in Touched(r)
        PROVE  (\E c \in K : c.path = p) \/ CodeOf(r.old[p]) = CodeOf(r.new[p])
    <2>1. CASE p \in D
      <3>1. normal(p) \in K /\ normal(p).path = p
        BY <1>4, <1>5, <2>1
      <3> QED BY <3>1
    <2>2. CASE p \notin D
      BY <2>2
    <2> QED BY <2>1, <2>2
  <1> QED BY <1>6, <1>7 DEF Shows, K

\* The sources of a repair after its comments are gone.
LEMMA StrippedSources ==
  ASSUME NEW r, RepairShape(r)
  PROVE  /\ Touched(StrippedRepair(r)) = Touched(r)
         /\ \A p \in Touched(r) :
              /\ StrippedRepair(r).old[p] = Stripped(p, r.old[p])
              /\ StrippedRepair(r).new[p] = Stripped(p, r.new[p])
  BY DEF StrippedRepair, Touched

\* No text of a piece is that of another.
DistinctTexts(s) ==
  \A m, n \in DOMAIN s.pieces : Text(s.pieces[m]) = Text(s.pieces[n]) => m = n

\* The texts of the pieces that stand behind some lines.
TextsOf(ended) == {Text(f.piece) : f \in ended}

\* Behind every line stands the piece at its place.
LEMMA EndedPieces ==
  ASSUME NEW s
  PROVE  /\ \A n \in DOMAIN s : Ended(s)[n].piece = s[n] /\ Ended(s)[n] \in Range(Ended(s))
         /\ \A e \in Range(Ended(s)) : \E n \in DOMAIN s : e = Ended(s)[n]
  <1>1. DOMAIN Ended(s) = DOMAIN s
    BY DEF Ended
  <1>2. \A n \in DOMAIN s : Ended(s)[n].piece = s[n]
    BY DEF Ended
  <1> QED BY <1>1, <1>2 DEF Range

\* A file has what it kept and the new pieces.
LEMMA ChangedBodies ==
  ASSUME NEW o, NEW n, DistinctTexts(o)
  PROVE  Bodies(n) = (Bodies(o) \ TextsOf(Range(Ended(o.pieces)) \ Range(Ended(n.pieces))))
                       \cup TextsOf(Range(Ended(n.pieces)) \ Range(Ended(o.pieces)))
  <1> DEFINE O == Range(Ended(o.pieces))
             N == Range(Ended(n.pieces))
  <1>1. \A f, g \in O : Text(f.piece) = Text(g.piece) => f = g
    <2>1. TAKE f, g \in O
    <2>2. PICK i, k \in DOMAIN o.pieces : f = Ended(o.pieces)[i] /\ g = Ended(o.pieces)[k]
      BY EndedPieces
    <2>3. f.piece = o.pieces[i] /\ g.piece = o.pieces[k]
      BY <2>2, EndedPieces
    <2> QED BY <2>2, <2>3 DEF DistinctTexts
  <1>2. Bodies(n) = TextsOf(N) /\ Bodies(o) = TextsOf(O)
    <2>1. ASSUME NEW s
          PROVE  Bodies(s) = TextsOf(Range(Ended(s.pieces)))
      <3>1. \A e \in Range(Ended(s.pieces)) : e.piece \in Range(s.pieces)
        <4>1. TAKE e \in Range(Ended(s.pieces))
        <4>2. PICK k \in DOMAIN s.pieces : e = Ended(s.pieces)[k]
          BY EndedPieces
        <4>3. e.piece = s.pieces[k]
          BY <4>2, EndedPieces
        <4> QED BY <4>3 DEF Range
      <3>2. \A f \in Range(s.pieces) : \E e \in Range(Ended(s.pieces)) : e.piece = f
        <4>1. TAKE f \in Range(s.pieces)
        <4>2. PICK k \in DOMAIN s.pieces : f = s.pieces[k]
          BY DEF Range
        <4> QED BY <4>2, EndedPieces
      <3> QED BY <3>1, <3>2 DEF Bodies, TextsOf
    <2> QED BY <2>1
  <1> HIDE DEF O, N
  <1> DEFINE body(e) == Text(e.piece)
  <1>3. \A E : TextsOf(E) = {body(e) : e \in E}
    BY DEF TextsOf
  <1>4. \A f, g \in O : body(f) = body(g) => f = g
    BY <1>1
  <1> HIDE DEF body
  <1>5. {body(e) : e \in N} = ({body(e) : e \in O} \ {body(e) : e \in O \ N})
                                 \cup {body(e) : e \in N \ O}
    BY <1>4
  <1> QED BY <1>2, <1>3, <1>5 DEF O, N

\* The lines of a changed file are the pieces that go and the pieces that come.
LEMMA MissingTexts ==
  ASSUME NEW s, NEW t, NEW sign
  PROVE  /\ \A l \in Missing(s, t, sign) : l.sign = sign
         /\ {Text(l.text) : l \in Missing(s, t, sign)} = TextsOf(Range(s) \ Range(t))
  <1> DEFINE M == {n \in DOMAIN s : s[n] \notin Range(t)}
             kept(n) == Cardinality({k \in 1..n-1 : s[k] \in Range(t)})
             line(n) == [sign |-> sign, at |-> n, kept |-> kept(n),
                         text |-> [name |-> s[n].piece.name, code |-> s[n].piece.code, doc |-> s[n].piece.doc]]
  <1>1. Missing(s, t, sign) = {line(n) : n \in M}
    BY Zenon DEF Missing
  <1>2. \A n : line(n).sign = sign /\ Text(line(n).text) = Text(s[n].piece)
    BY DEF Text
  <1> HIDE DEF line
  <1>3. {Text(l.text) : l \in Missing(s, t, sign)} = {Text(s[n].piece) : n \in M}
    BY <1>1, <1>2
  <1>4. {s[n] : n \in M} = Range(s) \ Range(t)
    BY DEF Range
  <1>5. {Text(s[n].piece) : n \in M} = TextsOf({s[n] : n \in M})
    BY DEF TextsOf
  <1> QED BY <1>1, <1>2, <1>3, <1>4, <1>5

\* The key of a repair that only adds functions to a file shows them.
LEMMA AddedShows ==
  ASSUME NEW r, RepairShape(r), NEW p, Touched(r) = {p}, r.new[p].exists = TRUE,
         NEW K, K # {},
         K = NormalizePatch({ChangedLines(c) : c \in Diff(StrippedRepair(r))})
  PROVE  ShowsAdded(K, r)
  <1> DEFINE o == Stripped(p, r.old[p])
             n == Stripped(p, r.new[p])
             chunk == Chunk(p, o, n)
             old == Ended(o.pieces)
             new == Ended(n.pieces)
             gone == Missing(old, new, "-")
             come == Missing(new, old, "+")
             changed == gone \cup come
             place(l) == Cardinality({k \in changed : Above(k, l)})
             shown == {<<place(l), l.sign, l.text>> : l \in changed}
             lines == Lines(p, shown, NoFile, NoFile)
  <1>1. Diff(StrippedRepair(r)) \subseteq {chunk}
    <2>1. \A q \in Touched(StrippedRepair(r)) :
            q = p /\ StrippedRepair(r).old[q] = o /\ StrippedRepair(r).new[q] = n
      BY StrippedSources
    <2> HIDE DEF o, n
    <2> QED BY <2>1 DEF Diff, Chunk
  <1>2. ChangedLines(chunk) = lines
    <2>1. chunk.path = p /\ chunk.old = o /\ chunk.new = n
      BY DEF Chunk
    <2> HIDE DEF chunk, o, n
    <2> QED BY <2>1 DEF ChangedLines, Lines
  <1>3. K = {Normal(c) : c \in {ChangedLines(d) : d \in Diff(StrippedRepair(r))}}
    BY DEF NormalizePatch, Normal
  <1>4. K \subseteq {Normal(lines)}
    <2> HIDE DEF chunk, lines
    <2> QED BY <1>1, <1>2, <1>3
  <1>5. Normal(lines) = Lines(p, shown, Trimmed(NoFile), Trimmed(NoFile))
    <2> HIDE DEF shown
    <2> QED BY NormalChunk
  <1>6. SourceShape(r.new[p]) /\ SourceShape(r.old[p])
    BY DEF RepairShape, Touched
  <1>7. Bodies(n) = Bodies(r.new[p]) /\ Bodies(o) = Bodies(r.old[p])
    <2>1. CodeOf(n) = CodeOf(r.new[p]) /\ CodeOf(o) = CodeOf(r.old[p])
      BY <1>6, StrippedKeepsCode
    <2> HIDE DEF o, n
    <2> QED BY <2>1 DEF CodeOf
  <1>8. DistinctTexts(o)
    <2>1. DistinctTexts(r.old[p])
      BY <1>6 DEF SourceShape, DistinctTexts
    <2>2. SameFields(o, r.old[p])
      BY <1>6, StrippedKeepsCode
    <2> HIDE DEF o
    <2> QED BY <2>1, <2>2 DEF DistinctTexts, SameFields, Text
  <1>9. /\ Shown(shown, "-") = TextsOf(Range(old) \ Range(new))
        /\ Shown(shown, "+") = TextsOf(Range(new) \ Range(old))
    <2> HIDE DEF old, new
    <2>1. \A l \in gone : l.sign = "-"
      BY MissingTexts
    <2>2. \A l \in come : l.sign = "+"
      BY MissingTexts
    <2>3. /\ {Text(l.text) : l \in gone} = TextsOf(Range(old) \ Range(new))
          /\ {Text(l.text) : l \in come} = TextsOf(Range(new) \ Range(old))
      BY MissingTexts
    <2> HIDE DEF gone, come, place
    <2>4. \A a, b, c : <<a, b, c>>[2] = b /\ <<a, b, c>>[3] = c
      OBVIOUS
    <2>5. "-" # "+"
      OBVIOUS
    <2>6. ASSUME NEW sign
          PROVE  Shown(shown, sign) = {Text(l.text) : l \in {l \in changed : l.sign = sign}}
      <3> DEFINE line(l) == <<place(l), l.sign, l.text>>
      <3>1. \A l : line(l)[2] = l.sign /\ line(l)[3] = l.text
        BY <2>4
      <3>2. shown = {line(l) : l \in changed}
        OBVIOUS
      <3> HIDE DEF line, shown, changed
      <3> QED BY <3>1, <3>2 DEF Shown
    <2>7. /\ {l \in changed : l.sign = "-"} = gone
          /\ {l \in changed : l.sign = "+"} = come
      BY <2>1, <2>2, <2>5
    <2> HIDE DEF changed, shown
    <2> QED BY <2>3, <2>6, <2>7
  <1>10. ASSUME NEW c \in K
         PROVE  /\ ~c.context /\ c.path = p
                /\ Bodies(r.new[p]) =
                     (Bodies(r.old[p]) \ Shown(c.lines, "-")) \cup Shown(c.lines, "+")
    <2>1. c = Normal(lines)
      BY <1>4
    <2>2. c.context = FALSE /\ c.path = p /\ c.lines = shown
      <3> HIDE DEF shown, lines
      <3> QED BY <1>5, <2>1 DEF Lines
    <2> HIDE DEF shown, o, n
    <2>3. Bodies(n) = (Bodies(o) \ Shown(shown, "-")) \cup Shown(shown, "+")
      BY <1>8, <1>9, ChangedBodies
    <2> QED BY <2>2, <2>3, <1>7
  <1> QED BY <1>10 DEF ShowsAdded

\* What the key of a repair shows of the code it leaves.
LEMMA KeyShows ==
  ASSUME NEW r, RepairShape(r)
  PROVE  Shows(VotingKey(r), r) \/ ShowsAdded(VotingKey(r), r)
  <1> DEFINE s == StrippedRepair(r)
             semantic == CommentNormalizedDiff(r)
             single == \E p \in OwnPaths :
                         /\ Touched(s) = {p}
                         /\ s.old[p] # NoFile /\ s.new[p] # NoFile
                         /\ IsJustNewFunction(s.old[p], s.new[p])
  <1>1. \A p \in Touched(r) : SourceShape(r.old[p]) /\ SourceShape(r.new[p])
    BY DEF RepairShape
  <1>2. /\ Touched(s) = Touched(r)
        /\ \A p \in Touched(r) : s.old[p] = Stripped(p, r.old[p]) /\ s.new[p] = Stripped(p, r.new[p])
    BY StrippedSources
  <1>3. /\ semantic = NormalizePatch(IF Python /\ single THEN {ChangedLines(c) : c \in Diff(s)}
                                                         ELSE Diff(s))
        /\ VotingKey(r) = IF semantic # {} THEN semantic ELSE NormalizePatch(Diff(r))
    BY DEF CommentNormalizedDiff, VotingKey
  <1> HIDE DEF s, semantic
  <1>4. CASE semantic = {}
    <2>1. \A p \in Touched(r) : CodeOf(Trimmed(r.new[p])) = CodeOf(r.new[p])
      BY <1>1, StrippedKeepsCode
    <2>2. Shows(NormalizePatch(Diff(r)), r)
      BY <2>1, DiffShows
    <2> QED BY <1>3, <1>4, <2>2
  <1>5. CASE semantic # {} /\ Python /\ single
    <2>1. PICK p \in OwnPaths : Touched(s) = {p} /\ s.new[p] # NoFile
      BY <1>5
    <2>2. Touched(r) = {p} /\ r.new[p].exists = TRUE
      <3>1. Touched(r) = {p} /\ Stripped(p, r.new[p]) # NoFile
        BY <1>2, <2>1
      <3>2. r.new[p] # NoFile
        BY <3>1 DEF Stripped
      <3> QED BY <1>1, <3>1, <3>2 DEF SourceShape
    <2>3. semantic = NormalizePatch({ChangedLines(c) : c \in Diff(StrippedRepair(r))})
      BY <1>3, <1>5 DEF s
    <2>4. ShowsAdded(semantic, r)
      BY <1>5, <2>2, <2>3, AddedShows
    <2> QED BY <1>3, <1>5, <2>4
  <1>6. CASE semantic # {} /\ ~(Python /\ single)
    <2>1. \A p \in Touched(r) :
            /\ CodeOf(Trimmed(s.new[p])) = CodeOf(r.new[p])
            /\ CodeOf(s.new[p]) = CodeOf(r.new[p]) /\ CodeOf(s.old[p]) = CodeOf(r.old[p])
      BY <1>1, <1>2, StrippedKeepsCode
    <2>2. Shows(NormalizePatch(Diff(s)), r)
      BY <1>2, <2>1, DiffShows
    <2> QED BY <1>3, <1>6, <2>2
  <1> QED BY <1>4, <1>5, <1>6

\* Repairs of the same sources that leave different pieces have different keys.
LEMMA DifferentKeys ==
  ASSUME NEW q, NEW r, RepairShape(q), RepairShape(r), SameSources(q, r), DifferentRepair(q, r)
  PROVE  VotingKey(q) # VotingKey(r)
  <1> SUFFICES ASSUME VotingKey(q) = VotingKey(r) PROVE FALSE
    OBVIOUS
  <1> DEFINE K == VotingKey(q)
  <1>1. Shows(K, q) \/ ShowsAdded(K, q)
    BY KeyShows
  <1>2. Shows(K, r) \/ ShowsAdded(K, r)
    BY KeyShows
  <1> HIDE DEF K
  <1>3. CASE Shows(K, q) /\ Shows(K, r)
    <2>1. ASSUME NEW x, NEW y, Shows(K, x), Shows(K, y), SameSources(x, y), NEW p \in Touched(x)
          PROVE  CodeAfter(x, p, x.old[p]) = CodeAfter(y, p, x.old[p])
      <3>1. CASE \E c \in K : c.path = p
        <4>1. PICK c \in K : c.path = p
          BY <3>1
        <4>2. p \in Touched(y) /\ CodeOf(c.new) = CodeOf(x.new[p]) /\ CodeOf(c.new) = CodeOf(y.new[p])
          BY <2>1, <4>1 DEF Shows
        <4> QED BY <4>2 DEF CodeAfter
      <3>2. CASE ~\E c \in K : c.path = p
        <4>1. CodeOf(x.old[p]) = CodeOf(x.new[p])
          BY <2>1, <3>2 DEF Shows
        <4>2. p \in Touched(y) => CodeOf(y.new[p]) = CodeOf(x.old[p])
          BY <2>1, <3>2 DEF Shows, SameSources
        <4> QED BY <4>1, <4>2 DEF CodeAfter
      <3> QED BY <3>1, <3>2
    <2>2. SameSources(r, q)
      BY DEF SameSources
    <2>3. \A p \in Touched(q) : CodeAfter(q, p, q.old[p]) = CodeAfter(r, p, q.old[p])
      BY <1>3, <2>1
    <2>4. \A p \in Touched(r) : CodeAfter(r, p, r.old[p]) = CodeAfter(q, p, r.old[p])
      BY <1>3, <2>1, <2>2
    <2> QED BY <2>3, <2>4 DEF DifferentRepair
  <1>4. CASE ShowsAdded(K, q) /\ ShowsAdded(K, r)
    <2>1. PICK c \in K : TRUE
      BY <1>4 DEF ShowsAdded
    <2>2. PICK p : /\ Touched(q) = {p} /\ q.new[p].exists = TRUE
                   /\ c.path = p
                   /\ Bodies(q.new[p]) =
                        (Bodies(q.old[p]) \ Shown(c.lines, "-")) \cup Shown(c.lines, "+")
      BY <1>4 DEF ShowsAdded
    <2>3. /\ Touched(r) = {p} /\ r.new[p].exists = TRUE
          /\ Bodies(r.new[p]) =
               (Bodies(r.old[p]) \ Shown(c.lines, "-")) \cup Shown(c.lines, "+")
      BY <1>4, <2>2 DEF ShowsAdded
    <2>4. q.old[p] = r.old[p]
      BY <2>2, <2>3 DEF SameSources
    <2>5. CodeOf(q.new[p]) = CodeOf(r.new[p])
      BY <2>2, <2>3, <2>4 DEF CodeOf
    <2> QED BY <2>2, <2>3, <2>5 DEF DifferentRepair, CodeAfter
  <1>5. CASE \/ Shows(K, q) /\ ShowsAdded(K, r)
             \/ ShowsAdded(K, q) /\ Shows(K, r)
    BY <1>5 DEF Shows, ShowsAdded
  <1> QED BY <1>1, <1>2, <1>3, <1>4, <1>5

\* The same code, field by field.
LEMMA SameCodeFields ==
  ASSUME NEW s, NEW t
  PROVE  SameCode(s, t) <=>
           /\ s.exists = t.exists /\ s.parses = t.parses
           /\ Python \/ s.layout = t.layout
           /\ DOMAIN s.pieces = DOMAIN t.pieces
           /\ \A n \in DOMAIN s.pieces :
                /\ s.pieces[n].class = t.pieces[n].class
                /\ s.pieces[n].name = t.pieces[n].name
                /\ s.pieces[n].code = t.pieces[n].code
  <1>1. \A f, g : Text(f) = Text(g) <=> f.name = g.name /\ f.code = g.code
    BY DEF Text
  <1> QED BY <1>1 DEF SameCode

\* A source without its comments is its code, for what can be read: what is the same
\* code becomes the same source, and different code stays different.
LEMMA StrippedIsCode ==
  ASSUME NEW p \in OwnPaths, NEW s, NEW t, SourceShape(s), SourceShape(t),
         s.parses, t.parses, KeepsBodies(s), KeepsBodies(t)
  PROVE  Stripped(p, s) = Stripped(p, t) <=> SameCode(s, t)
  <1>1. Stripped(p, s).exists = s.exists /\ Stripped(p, t).exists = t.exists
    BY StrippedKeepsCode DEF SameFields
  <1>2. CASE s = NoFile \/ t = NoFile
    <2>1. s.exists = t.exists => s = NoFile /\ t = NoFile
      BY <1>2 DEF SourceShape, NoFile
    <2>2. Stripped(p, s) = Stripped(p, t) => s = t
      BY <1>1, <2>1
    <2>3. SameCode(s, t) => s = t
      BY <2>1 DEF SameCode
    <2>4. SameCode(s, s)
      BY DEF SameCode
    <2> QED BY <2>2, <2>3, <2>4
  <1>3. CASE s # NoFile /\ t # NoFile /\ Python
    <2> DEFINE full(x) == [parses |-> x.parses, exists |-> x.exists,
                           pieces |-> Undocumented(x.pieces),
                           notes |-> None, layout |-> "canonical"]
    <2>1. ASSUME NEW x \in {s, t}
          PROVE  Stripped(p, x) = full(x)
      <3>1. KeepsBodies(x) /\ x # NoFile /\ x.parses /\ SourceShape(x)
        BY <1>3
      <3>2. KeepsBodies(Canonical(x)) <=> KeepsBodies(x)
        <4>1. Canonical(x).pieces = x.pieces
          BY <3>1, TransformedFields
        <4> QED BY <4>1 DEF KeepsBodies
      <3>3. Stripped(p, x) = StripComments(Canonical(x))
        BY <1>3, <3>1, <3>2 DEF Stripped
      <3> QED BY <3>1, <3>3, TransformedFields
    <2>2. full(s) = full(t) <=>
            /\ s.parses = t.parses /\ s.exists = t.exists
            /\ Undocumented(s.pieces) = Undocumented(t.pieces)
      <3> DEFINE u == Undocumented(s.pieces)
                 v == Undocumented(t.pieces)
      <3> HIDE DEF u, v
      <3>1. [parses |-> s.parses, exists |-> s.exists, pieces |-> u,
             notes |-> None, layout |-> "canonical"] =
            [parses |-> t.parses, exists |-> t.exists, pieces |-> v,
             notes |-> None, layout |-> "canonical"]
            <=> s.parses = t.parses /\ s.exists = t.exists /\ u = v
        OBVIOUS
      <3> QED BY <3>1 DEF u, v
    <2>3. Undocumented(s.pieces) = Undocumented(t.pieces) <=>
            /\ DOMAIN s.pieces = DOMAIN t.pieces
            /\ \A n \in DOMAIN s.pieces :
                 /\ s.pieces[n].class = t.pieces[n].class
                 /\ s.pieces[n].name = t.pieces[n].name
                 /\ s.pieces[n].code = t.pieces[n].code
      <3> DEFINE u == Undocumented(s.pieces)
                 v == Undocumented(t.pieces)
      <3>1. /\ DOMAIN u = DOMAIN s.pieces /\ DOMAIN v = DOMAIN t.pieces
            /\ \A n \in DOMAIN u : /\ u[n].class = s.pieces[n].class
                                   /\ u[n].name = s.pieces[n].name
                                   /\ u[n].code = s.pieces[n].code
            /\ \A n \in DOMAIN v : /\ v[n].class = t.pieces[n].class
                                   /\ v[n].name = t.pieces[n].name
                                   /\ v[n].code = t.pieces[n].code
        BY DEF Undocumented
      <3>2. ASSUME DOMAIN s.pieces = DOMAIN t.pieces,
                   \A n \in DOMAIN s.pieces :
                     /\ s.pieces[n].class = t.pieces[n].class
                     /\ s.pieces[n].name = t.pieces[n].name
                     /\ s.pieces[n].code = t.pieces[n].code
            PROVE  u = v
        BY <3>2 DEF Undocumented
      <3>3. ASSUME u = v
            PROVE  /\ DOMAIN s.pieces = DOMAIN t.pieces
                   /\ \A n \in DOMAIN s.pieces :
                        /\ s.pieces[n].class = t.pieces[n].class
                        /\ s.pieces[n].name = t.pieces[n].name
                        /\ s.pieces[n].code = t.pieces[n].code
        <4> HIDE DEF u, v
        <4> QED BY <3>1, <3>3
      <3> QED BY <3>2, <3>3
    <2> HIDE DEF full
    <2> QED BY <1>3, <2>1, <2>2, <2>3, SameCodeFields
  <1>4. CASE s # NoFile /\ t # NoFile /\ ~Python
    <2>1. ASSUME NEW x \in {s, t}
          PROVE  Stripped(p, x) = StripCommentNodes(x)
      BY <1>4, <2>1 DEF Stripped
    <2>2. StripCommentNodes(s) = StripCommentNodes(t) <=>
            /\ s.parses = t.parses /\ s.exists = t.exists
            /\ s.pieces = t.pieces /\ s.layout = t.layout
      <3> DEFINE bare(x) == [parses |-> x.parses, exists |-> x.exists, pieces |-> x.pieces,
                             notes |-> None, layout |-> x.layout]
      <3>1. bare(s) = bare(t) <=>
              /\ s.parses = t.parses /\ s.exists = t.exists
              /\ s.pieces = t.pieces /\ s.layout = t.layout
        OBVIOUS
      <3>2. StripCommentNodes(s) = bare(s) /\ StripCommentNodes(t) = bare(t)
        BY TransformedFields
      <3> HIDE DEF bare
      <3> QED BY <3>1, <3>2
    <2>3. s.pieces = t.pieces <=>
            /\ DOMAIN s.pieces = DOMAIN t.pieces
            /\ \A n \in DOMAIN s.pieces :
                 /\ s.pieces[n].class = t.pieces[n].class
                 /\ s.pieces[n].name = t.pieces[n].name
                 /\ s.pieces[n].code = t.pieces[n].code
      <3>1. ASSUME DOMAIN s.pieces = DOMAIN t.pieces,
                   \A n \in DOMAIN s.pieces :
                     /\ s.pieces[n].class = t.pieces[n].class
                     /\ s.pieces[n].name = t.pieces[n].name
                     /\ s.pieces[n].code = t.pieces[n].code
            PROVE  s.pieces = t.pieces
        <4>1. ASSUME NEW n \in DOMAIN s.pieces
              PROVE  s.pieces[n] = t.pieces[n]
          <5>1. s.pieces[n].doc = None /\ t.pieces[n].doc = None
            BY <1>4, <3>1, ShapedPieces
          <5>2. /\ s.pieces[n] = [class |-> s.pieces[n].class, name |-> s.pieces[n].name,
                               code |-> s.pieces[n].code, doc |-> s.pieces[n].doc]
                /\ t.pieces[n] = [class |-> t.pieces[n].class, name |-> t.pieces[n].name,
                               code |-> t.pieces[n].code, doc |-> t.pieces[n].doc]
            <6>1. n \in DOMAIN s.pieces /\ n \in DOMAIN t.pieces
              BY <3>1
            <6>2. PieceRecords(s.pieces) /\ PieceRecords(t.pieces)
              BY ShapedPieces
            <6> QED BY <6>1, <6>2 DEF PieceRecords
          <5>3. /\ s.pieces[n].class = t.pieces[n].class
                /\ s.pieces[n].name = t.pieces[n].name /\ s.pieces[n].code = t.pieces[n].code
            BY <3>1
          <5> QED BY <5>1, <5>2, <5>3
        <4>2. /\ s.pieces = [n \in DOMAIN s.pieces |-> s.pieces[n]]
              /\ t.pieces = [n \in DOMAIN t.pieces |-> t.pieces[n]]
          BY ShapedPieces
        <4> QED BY <3>1, <4>1, <4>2
      <3> QED BY <3>1
    <2> QED BY <1>4, <2>1, <2>2, <2>3, SameCodeFields
  <1> QED BY <1>2, <1>3, <1>4

\* Readable repairs that leave the same code have the same key.
LEMMA SameKeys ==
  ASSUME NEW q, NEW r, RepairShape(q), RepairShape(r), SameRepair(q, r)
  PROVE  VotingKey(q) = VotingKey(r)
  <1> DEFINE s == StrippedRepair(q)
  <1>1. Touched(q) = Touched(r) /\ Readable(q) /\ Readable(r) /\ ChangesCode(q)
    BY DEF SameRepair
  <1>2. \A p \in Touched(q) :
          /\ p \in OwnPaths
          /\ \A x \in {q.old[p], q.new[p], r.old[p], r.new[p]} :
               SourceShape(x) /\ x.parses /\ KeepsBodies(x)
    BY <1>1 DEF RepairShape, Readable
  <1>3. \A p \in Touched(q) : /\ Stripped(p, q.old[p]) = Stripped(p, r.old[p])
                              /\ Stripped(p, q.new[p]) = Stripped(p, r.new[p])
    BY <1>2, StrippedIsCode DEF SameRepair
  <1>4. StrippedRepair(r) = s
    BY <1>1, <1>3 DEF StrippedRepair
  <1>5. CommentNormalizedDiff(r) = CommentNormalizedDiff(q)
    BY <1>4 DEF CommentNormalizedDiff
  <1>6. PICK p \in Touched(q) : ~SameCode(q.old[p], q.new[p])
    BY <1>1 DEF ChangesCode
  <1>7. s.old[p] # s.new[p] /\ p \in Touched(s)
    <2>1. Stripped(p, q.old[p]) # Stripped(p, q.new[p])
      BY <1>2, <1>6, StrippedIsCode
    <2> QED BY <2>1, StrippedSources
  <1>8. Diff(s) # {}
    BY <1>7 DEF Diff
  <1>9. CommentNormalizedDiff(q) # {}
    <2> DEFINE single == \E x \in OwnPaths :
                  /\ Touched(s) = {x}
                  /\ s.old[x] # NoFile /\ s.new[x] # NoFile
                  /\ IsJustNewFunction(s.old[x], s.new[x])
               D == IF Python /\ single THEN {ChangedLines(c) : c \in Diff(s)} ELSE Diff(s)
    <2>1. D # {}
      BY <1>8
    <2>2. CommentNormalizedDiff(q) = NormalizePatch(D)
      BY DEF CommentNormalizedDiff
    <2> HIDE DEF D
    <2> QED BY <2>1, <2>2 DEF NormalizePatch
  <1> QED BY <1>5, <1>9 DEF VotingKey

----------------------------------------------------------------------------
(* The theorems.                                                           *)

\* The inductive invariant: a candidate in the list is tainted or has been through
\* the whole schedule, and a refused run stays away from further work.
THEOREM SelectionInvariant == Spec => []IInv
  BY InitIInv, NextIInv, PTL DEF Spec

\* Type correctness of the candidate loop and the selection.
THEOREM SelectionTypes == Spec => []TypeOK
  <1>1. IInv => TypeOK
    BY DEF IInv
  <1> QED BY <1>1, SelectionInvariant, PTL

\* No patch is selected without a usable result of every scheduled command.
THEOREM SelectionIsVerified == Spec => []SelectedIsVerified
  <1>1. IInv => SelectedIsVerified
    BY EligibleIsUntainted DEF IInv, RecordedInv, ChosenInv, SelectedIsVerified
  <1> QED BY <1>1, SelectionInvariant, PTL

\* After a refusal of the budget neither a workspace nor a prediction is made.
THEOREM SelectionStopsWithBudget == Spec => RefusalIsFinal
  <1>1. IInv /\ [Next]_vars =>
          [refused => phase' = phase \/ phase' \notin {"apply", "done"}]_vars
    <2> SUFFICES ASSUME IInv, Next, refused, phase' \in {"apply", "done"}
                 PROVE  phase' = phase
      OBVIOUS
    <2>1. expired /\ phase \notin {"create", "apply", "run", "done"}
      BY DEF IInv, RefusedInv
    <2> QED
      BY <2>1 DEF Next, RefuseSample, RepairError, BuildCandidate, CreateWorkspace,
           CreateFails, CreateBreaks, Apply, ApplyFails, ApplyRejected, RunCommand,
           RunRefused, ClampRefused, RunBreaks, OverlayRefused, EndCommands, Close,
           ClosePropagates, CloseFails, CloseBreaks, EndSamples, NoneSelectable, Select,
           Confirm, RefusePrediction, Expire, Refuse, Fail, Record, Running
  <1> QED BY <1>1, SelectionInvariant, PTL DEF Spec, RefusalIsFinal

WinnerInv == phase = "confirm" => chosen \in Winners(candidates)

\* The winner is chosen once, and the candidates it was chosen from stay as they are.
THEOREM WinnerStays == Spec => []WinnerInv
  <1>1. Init => WinnerInv
    BY DEF Init, WinnerInv
  <1>2. WinnerInv /\ [Next]_vars => WinnerInv'
    <2> SUFFICES ASSUME WinnerInv, [Next]_vars, phase' = "confirm"
                 PROVE  chosen' \in Winners(candidates')
      BY DEF WinnerInv, Winners, Considered, FirstAppearance, Votes, Voters, BestRegression,
             Eligible
    <2>1. CASE Select
      BY <2>1 DEF Select
    <2>2. CASE UNCHANGED vars
      BY <2>2 DEF vars, WinnerInv
    <2> QED
      BY <2>1, <2>2 DEF WinnerInv, Next, RefuseSample, RepairError, BuildCandidate,
           CreateWorkspace, CreateFails, CreateBreaks, Apply, ApplyFails, ApplyRejected,
           RunCommand, RunRefused, ClampRefused, RunBreaks, OverlayRefused, EndCommands, Close,
           ClosePropagates, CloseFails, CloseBreaks, EndSamples, NoneSelectable, Confirm,
           RefusePrediction, Expire, Refuse, Fail, Record, Running
  <1> QED BY <1>1, <1>2, PTL DEF Spec

\* Stage by stage, with the vote at the end: no candidate that was left out or lost
\* beats the one that is chosen.
THEOREM WinnerIsAlwaysUnbeaten == Spec => []WinnerIsUnbeaten
  <1>1. IInv /\ WinnerInv => WinnerIsUnbeaten
    BY WinnersAreUnbeaten DEF IInv, WinnerInv, WinnerIsUnbeaten
  <1> QED BY <1>1, WinnerStays, SelectionInvariant, PTL

\* Repairs that leave the winner's code give it one more vote each and do not unseat it;
\* no repair that leaves other functions or lines, wherever they stand, votes for it.
THEOREM SupportAlwaysKeepsWinner == Spec => []SupportKeepsWinner
  <1>1. TypeOK /\ WinnerInv => SupportKeepsWinner
    <2> SUFFICES ASSUME TypeOK, WinnerInv, phase = "confirm"
                 PROVE  SupportKeepsWinner
      BY DEF SupportKeepsWinner
    <2> DEFINE C == [text : Texts, evidence : Seq(AllResults)]
               winner == candidates[chosen]
               t == winner.text
    <2>1. chosen \in Winners(candidates) /\ candidates \in Seq(C)
      BY DEF WinnerInv, TypeOK
    <2>2. chosen \in DOMAIN candidates
      BY <2>1, WinnersAreEligible, EligibleIsUntainted
    <2>3. winner \in C
      <3> HIDE DEF C
      <3> QED BY <2>1, <2>2
    <2>4. t \in Texts /\ [winner EXCEPT !.text = t] = winner
      BY <2>3
    <2>5. \A q, r \in Repairs : RepairShape(q) /\ RepairShape(r) /\ SameSources(q, r)
      BY RepairAssumption
    <2>6. Sampled \subseteq Repairs
      BY RepairAssumption
    <2>7. ASSUME NEW key \in Supporting[t] PROVE key = t
      <3>1. PICK r \in Repairs : /\ key = VotingKey(r)
                                 /\ \E q \in Sampled : VotingKey(q) = t /\ (q = r \/ SameRepair(q, r))
        BY <2>4 DEF Supporting
      <3>2. PICK q \in Sampled : VotingKey(q) = t /\ (q = r \/ SameRepair(q, r))
        BY <3>1
      <3> QED BY <2>5, <2>6, <3>1, <3>2, SameKeys
    <2>8. t \notin Opposing[t]
      <3> SUFFICES ASSUME t \in Opposing[t] PROVE FALSE
        OBVIOUS
      <3>1. PICK r \in Repairs : /\ t = VotingKey(r)
                                 /\ \E q \in Sampled : VotingKey(q) = t /\ DifferentRepair(q, r)
        BY <2>4 DEF Opposing
      <3>2. PICK q \in Sampled : VotingKey(q) = t /\ DifferentRepair(q, r)
        BY <3>1
      <3> QED BY <2>5, <2>6, <3>1, <3>2, DifferentKeys
    <2> DEFINE more == Append(candidates, winner)
    <2>9. Winners(more) = {chosen} /\ Votes(more, chosen) = Votes(candidates, chosen) + 1
      <3>1. more \in Seq(C)
        <4> HIDE DEF C, winner
        <4> QED BY <2>1, <2>3
      <3>2. more = Append(candidates, candidates[chosen])
        OBVIOUS
      <3> HIDE DEF C, more
      <3>3. Gains(more, candidates, chosen)
        BY <2>1, <3>1, <3>2, OneMoreVote
      <3> QED BY <3>3 DEF Gains
    <2>10. ASSUME NEW key \in Supporting[t]
           PROVE  /\ Winners(Append(candidates, [winner EXCEPT !.text = key])) = {chosen}
                  /\ Votes(Append(candidates, [winner EXCEPT !.text = key]), chosen) =
                       Votes(candidates, chosen) + 1
      <3>1. [winner EXCEPT !.text = key] = winner
        BY <2>4, <2>7
      <3> HIDE DEF winner
      <3> QED BY <2>9, <3>1
    <2> QED BY <2>8, <2>10 DEF SupportKeepsWinner
  <1> QED BY <1>1, WinnerStays, SelectionTypes, PTL

\* A candidate with an error among its results has no weight: the selection is what it
\* would be if that candidate had never been recorded.
THEOREM ErrorsNeverCarryWeight == Spec => []ErrorsCarryNoWeight
  <1>1. TypeOK => ErrorsCarryNoWeight
    <2> SUFFICES ASSUME TypeOK, NEW i \in DOMAIN candidates \ Eligible(candidates)
                 PROVE  Winners(candidates) =
                          {IF j < i THEN j ELSE j + 1 : j \in Winners(Without(candidates, i))}
      BY DEF ErrorsCarryNoWeight
    <2>1. candidates \in Seq([text : Texts, evidence : Seq(AllResults)])
      BY DEF TypeOK
    <2>2. Winners(candidates) = {Shifted(i, j) : j \in Winners(Without(candidates, i))}
      BY <2>1, ErrorsHaveNoWeight
    <2> QED BY <2>2 DEF Shifted
  <1> QED BY <1>1, SelectionTypes, PTL
=============================================================================
