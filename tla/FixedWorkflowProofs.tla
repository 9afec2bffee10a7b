------------------------ MODULE FixedWorkflowProofs ------------------------
(***************************************************************************)
(* Proofs about FixedWorkflow for every set of plans, every number of      *)
(* samples and every number of runs, and about the localization whose      *)
(* result its prompts show: for every repository, reply, window and number *)
(* of samples, and for every parse tree.  The two specifications share no  *)
(* variable.                                                               *)
(***************************************************************************)
EXTENDS FixedWorkflow, LocalizedProgram, FiniteSetTheorems, WellFoundedInduction, TLAPS

Trail == {"task.json", "controller.json", "prompts", "context.json"}
EvidenceFiles == {"task.json", "controller.json"}

\* What the other parts need of the types.
ShapeInv ==
  /\ plan \in Plans
  /\ phase \in Phases
  /\ index \in Nat
  /\ calls \in Nat
  /\ judged \in Seq(Verdicts)
  /\ attempts \in [begun : Nat, valid : Nat]

\* What the run owes its caller at the end.
EndInv ==
  /\ phase \in Working \cup {"raising"} => outcome = "none" /\ "failure.json" \notin files
  /\ phase = "export" =>
       /\ index \in 0..Len(Exports(plan))
       /\ \A n \in 1..index : Exports(plan)[n] \in files
  /\ outcome = "returned" =>
       /\ \A n \in DOMAIN Exports(plan) : Exports(plan)[n] \in files
       /\ "failure.json" \notin files
  /\ outcome = "raised" /\ ~lost =>
       "failure.json" \in files /\ (plan.budgeted => "budget.json" \in files)

\* The trail of a prediction grows with the phases that lead to it.
TrailInv ==
  /\ phase \in {"prompts"} \cup Generation \cup Validation => EvidenceFiles \subseteq files
  /\ phase \in Validation => bundled = answers /\ Trail \subseteq files
  /\ phase \in {"select", "export"} =>
       attempts.begun = CandidatesOf(plan) /\ attempts.valid > 0 /\ "attempts.json" \in files
  /\ phase = "export" /\ index > 0 => counted = calls
  /\ phase \in Working /\ (phase # "export" \/ index <= 1) => "prediction.json" \notin files
  /\ PredictionHasItsTrail

\* Requests made by the time a phase of the evidence begins.
Asked(n) == calls = IF plan.live THEN n ELSE 0

\* The evidence a finished freeze stands for.
Complete ==
  /\ frozen = schedule /\ frozen # {}
  /\ sound
  /\ EvidenceFiles \subseteq files
  /\ plan.reproduces =>
       Len(judged) = SamplesOf(plan) /\ adopted \in Verified /\ "reproduction" \in frozen
  /\ plan.regressions > 0 => "regression-selection.json" \in files

Gathered ==
  plan.reproduces =>
    Len(judged) = SamplesOf(plan) /\ adopted \in Verified /\ "reproduction" \in schedule

EvidenceInv ==
  /\ phase = "responses" => calls = 0
  /\ phase \in {"responses", "reproduction", "verify"} => sound
  /\ phase = "baseline" /\ plan.regressions = 0 => sound
  /\ phase = "reproduction" => Asked(index) /\ (index <= plan.samples \/ index = 0)
  /\ phase \in {"verify", "baseline", "exclusions"} => Asked(plan.samples)
  /\ phase \in {"baseline", "exclusions", "freeze"} => Gathered
  /\ phase \in {"exclusions"} => plan.regressions > 0
  /\ phase \in {"exclusions", "freeze"} => sound
  /\ phase = "freeze" =>
       /\ calls = EvidenceCalls(plan)
       /\ plan.public \/ schedule # {}
       /\ plan.regressions > 0 => "regression-selection.json" \in files
  /\ phase \in Generation \cup Validation => Complete
  /\ EvidenceComesFirst

\* A sample is tried when the requests and the evidence are behind the run.
BehindInv ==
  /\ runs \in Nat
  /\ phase \in Evidence \cup Generation => attempts.begun = 0

WorkflowInv == ShapeInv /\ RunnerIsRestored /\ EndInv /\ TrailInv /\ EvidenceInv /\ BehindInv

LEMMA PlanFacts ==
  ASSUME NEW p \in Plans
  PROVE  /\ p.samples \in Nat /\ p.regressions \in Nat
         /\ p.edits \in Nat /\ p.repairs \in Nat
         /\ p.live \in BOOLEAN /\ p.budgeted \in BOOLEAN
         /\ p.public \in BOOLEAN /\ p.reproduces \in BOOLEAN /\ p.single \in BOOLEAN
         /\ WellFormed(p)
BY PlansAssumption DEF PlanShape

\* The prediction is the second file of the export, after controller.json.
LEMMA ExportOrder ==
  ASSUME NEW p \in Plans
  PROVE  /\ Len(Exports(p)) \in Nat /\ Len(Exports(p)) > 2
         /\ DOMAIN Exports(p) = 1..Len(Exports(p))
         /\ \A n \in 1..Len(Exports(p)) :
              /\ Exports(p)[n] = "controller.json" <=> n = 1
              /\ Exports(p)[n] = "prediction.json" <=> n = 2
              /\ Exports(p)[n] # "failure.json"
<1>1. CASE p.budgeted
  <2>1. Exports(p) = <<"controller.json", "prediction.json", "run.json", "budget.json",
                       "selection.json">>
    BY <1>1 DEF Exports
  <2> QED BY <2>1
<1>2. CASE ~p.budgeted
  <2>1. Exports(p) = <<"controller.json", "prediction.json", "run.json", "selection.json">>
    BY <1>2 DEF Exports
  <2> QED BY <2>1
<1> QED BY <1>1, <1>2

LEMMA InitWorkflow == Init => WorkflowInv
<1> SUFFICES ASSUME Init PROVE WorkflowInv
  OBVIOUS
<1>1. ShapeInv /\ RunnerIsRestored
  BY DEF Init, ShapeInv, RunnerIsRestored, Phases
<1>2. EndInv
  BY DEF Init, EndInv, Working, Evidence, Generation, Validation
<1>3. TrailInv
  BY DEF Init, TrailInv, PredictionHasItsTrail, Working, Evidence, Generation, Validation
<1>4. EvidenceInv
  <2>1. plan \in Plans /\ EvidenceCalls(plan) >= 0
    BY PlanFacts DEF Init, EvidenceCalls
  <2>2. EvidenceCalls(plan) \in Int
    BY <2>1, PlanFacts DEF EvidenceCalls
  <2> QED
    BY <2>1, <2>2 DEF Init, EvidenceInv, EvidenceComesFirst, Generation, Validation
<1>5. BehindInv
  BY DEF Init, BehindInv, Evidence, Generation
<1> QED BY <1>1, <1>2, <1>3, <1>4, <1>5 DEF WorkflowInv

----------------------------------------------------------------------------
LEMMA ShapeStep == ShapeInv /\ [Next]_vars => ShapeInv'
<1> SUFFICES ASSUME ShapeInv, [Next]_vars PROVE ShapeInv'
  OBVIOUS
<1> USE DEF ShapeInv, Phases, Working, Evidence, Generation, Validation, Goto, Raise, frame,
            stages, requests, evidence, Ask, AskOrReplay, NoteSample, Verdicts
<1>1. ASSUME NEW p \in Plans, Begin(p) PROVE ShapeInv'
  BY <1>1 DEF Begin, Reset
<1>2. CASE RecordResponses \/ AskReproduction \/ EndReproduction
  BY <1>2 DEF RecordResponses, AskReproduction, EndReproduction
<1>3. CASE SampleUnparsable \/ (\E v \in {"pass", "infrastructure"} \cup Sources : VerifySample(v))
           \/ AdoptSample \/ (\E b \in BOOLEAN : SaveTest(b))
           \/ (\E v \in {"pass", "infrastructure"} \cup Sources : VerifyTest(v))
  <2>1. CASE SampleUnparsable
    BY <2>1 DEF SampleUnparsable, Unjudged
  <2>2. ASSUME NEW v \in {"pass", "infrastructure"} \cup Sources, VerifySample(v)
        PROVE  ShapeInv'
    <3>1. judged' \in Seq(Verdicts)
      BY <2>2 DEF VerifySample
    <3> QED BY <2>2, <3>1 DEF VerifySample, Unjudged
  <2>3. CASE AdoptSample
    BY <2>3 DEF AdoptSample
  <2>4. CASE \E b \in BOOLEAN : SaveTest(b)
    BY <2>4 DEF SaveTest
  <2>5. ASSUME NEW v \in {"pass", "infrastructure"} \cup Sources, VerifyTest(v)
        PROVE  ShapeInv'
    <3>1. judged' = judged \/ (v \in Verdicts /\ judged' = <<v>>)
      BY <2>5 DEF VerifyTest
    <3>2. phase' \in Phases /\ index' \in Nat /\ UNCHANGED <<plan, calls, attempts>>
      BY <2>5 DEF VerifyTest
    <3> HIDE DEF Verdicts
    <3>3. judged \in Seq(Verdicts)
      OBVIOUS
    <3>4. v \in Verdicts => <<v>> \in Seq(Verdicts)
      OBVIOUS
    <3>5. judged' \in Seq(Verdicts)
      BY <3>1, <3>3, <3>4
    <3> QED BY <3>2, <3>5
  <2> QED BY <1>3, <2>1, <2>2, <2>3, <2>4, <2>5
<1>4. CASE (\E b \in BOOLEAN : RunBaseline(b)) \/ EndBaseline
           \/ (\E b \in BOOLEAN : ExcludeTests(b)) \/ Freeze
  BY <1>4 DEF RunBaseline, EndBaseline, ExcludeTests, Freeze
<1>5. CASE LocalizeFiles \/ LocalizeSymbols \/ LocalizeEdit \/ SampleRepair \/ EndRepairs
           \/ SaveGeneration
  BY <1>5 DEF LocalizeFiles, LocalizeSymbols, LocalizeEdit, SampleRepair, EndRepairs, SaveGeneration
<1>6. CASE (\E b \in BOOLEAN : TrySample(b)) \/ EndSamples \/ SelectCandidate \/ Export \/ Return
  BY <1>6 DEF TrySample, EndSamples, SelectCandidate, Export, Return
<1>7. CASE AskFails \/ Break \/ HandleException \/ Interrupt \/ Leave \/ Expire \/ UNCHANGED vars
  BY <1>7 DEF AskFails, Break, HandleException, Interrupt, Leave, Expire, vars
<1> QED BY <1>1, <1>2, <1>3, <1>4, <1>5, <1>6, <1>7 DEF Next

----------------------------------------------------------------------------
LEMMA RunnerStep == ShapeInv /\ RunnerIsRestored /\ [Next]_vars => RunnerIsRestored'
<1> SUFFICES ASSUME ShapeInv, RunnerIsRestored, [Next]_vars PROVE RunnerIsRestored'
  OBVIOUS
<1> USE DEF RunnerIsRestored, Goto, Raise, frame, stages, Working, Evidence, Generation, Validation
<1>1. ASSUME NEW p \in Plans, Begin(p) PROVE RunnerIsRestored'
  BY <1>1 DEF Begin
<1>2. CASE RecordResponses \/ AskReproduction \/ EndReproduction
  BY <1>2 DEF RecordResponses, AskReproduction, EndReproduction
<1>3. CASE SampleUnparsable \/ (\E v \in {"pass", "infrastructure"} \cup Sources : VerifySample(v))
           \/ AdoptSample \/ (\E b \in BOOLEAN : SaveTest(b))
           \/ (\E v \in {"pass", "infrastructure"} \cup Sources : VerifyTest(v))
  BY <1>3 DEF SampleUnparsable, VerifySample, AdoptSample, SaveTest, VerifyTest, Unjudged
<1>4. CASE (\E b \in BOOLEAN : RunBaseline(b)) \/ EndBaseline
           \/ (\E b \in BOOLEAN : ExcludeTests(b)) \/ Freeze
  BY <1>4 DEF RunBaseline, EndBaseline, ExcludeTests, Freeze
<1>5. CASE LocalizeFiles \/ LocalizeSymbols \/ LocalizeEdit \/ SampleRepair \/ EndRepairs
           \/ SaveGeneration
  BY <1>5 DEF LocalizeFiles, LocalizeSymbols, LocalizeEdit, SampleRepair, EndRepairs, SaveGeneration
<1>6. CASE (\E b \in BOOLEAN : TrySample(b)) \/ EndSamples \/ SelectCandidate \/ Export \/ Return
  BY <1>6 DEF TrySample, EndSamples, SelectCandidate, Export, Return
<1>7. CASE AskFails \/ Break \/ HandleException \/ Interrupt \/ Leave \/ Expire \/ UNCHANGED vars
  BY <1>7 DEF AskFails, Asking, Break, HandleException, Interrupt, Leave, Expire, vars
<1> QED BY <1>1, <1>2, <1>3, <1>4, <1>5, <1>6, <1>7 DEF Next

----------------------------------------------------------------------------
(* The end of a run.                                                       *)

LEMMA EndStep == ShapeInv /\ EndInv /\ [Next]_vars => EndInv'
<1> SUFFICES ASSUME ShapeInv, EndInv, [Next]_vars PROVE EndInv'
  OBVIOUS
<1> USE DEF EndInv, Goto, Raise, Write, frame, stages, records, Working, Evidence, Generation,
            Validation
<1>1. ASSUME NEW p \in Plans, Begin(p) PROVE EndInv'
  BY <1>1 DEF Begin, Reset
<1>2. CASE RecordResponses \/ AskReproduction \/ EndReproduction
  BY <1>2 DEF RecordResponses, AskReproduction, EndReproduction
<1>3. CASE SampleUnparsable \/ (\E v \in {"pass", "infrastructure"} \cup Sources : VerifySample(v))
           \/ AdoptSample \/ (\E b \in BOOLEAN : SaveTest(b))
           \/ (\E v \in {"pass", "infrastructure"} \cup Sources : VerifyTest(v))
  BY <1>3 DEF SampleUnparsable, VerifySample, AdoptSample, SaveTest, VerifyTest, Unjudged
<1>4. CASE (\E b \in BOOLEAN : RunBaseline(b)) \/ EndBaseline
           \/ (\E b \in BOOLEAN : ExcludeTests(b)) \/ Freeze
  BY <1>4 DEF RunBaseline, EndBaseline, ExcludeTests, Freeze
<1>5. CASE LocalizeFiles \/ LocalizeSymbols \/ LocalizeEdit \/ SampleRepair \/ EndRepairs
           \/ SaveGeneration
  BY <1>5 DEF LocalizeFiles, LocalizeSymbols, LocalizeEdit, SampleRepair, EndRepairs, SaveGeneration
<1>6. CASE (\E b \in BOOLEAN : TrySample(b)) \/ EndSamples
  BY <1>6 DEF TrySample, EndSamples
<1>7. CASE SelectCandidate
  BY <1>7, ExportOrder DEF SelectCandidate, ShapeInv
<1>8. CASE Export
  <2>1. PICK name : /\ name = Exports(plan)[index + 1]
                    /\ files' = files \cup {name}
    BY <1>8 DEF Export
  <2>2. /\ index < Len(Exports(plan)) /\ index' = index + 1
        /\ UNCHANGED <<frame, phase, lost>> /\ phase = "export"
    BY <1>8 DEF Export
  <2>3. index + 1 \in 1..Len(Exports(plan)) /\ index \in Nat
    BY <2>2, ExportOrder DEF ShapeInv
  <2>4. name # "failure.json"
    BY <2>1, <2>3, ExportOrder DEF ShapeInv
  <2>5. \A n \in 1..(index + 1) : Exports(plan)[n] \in files'
    <3> SUFFICES ASSUME NEW n \in 1..(index + 1) PROVE Exports(plan)[n] \in files'
      OBVIOUS
    <3>1. CASE n = index + 1
      BY <3>1, <2>1
    <3>2. CASE n # index + 1
      <4>1. n \in 1..index
        BY <3>2, <2>3
      <4> QED BY <4>1, <2>1, <2>2
    <3> QED BY <3>1, <3>2
  <2>6. outcome = "none"
    BY <2>2
  <2> QED BY <2>1, <2>2, <2>3, <2>4, <2>5, <2>6, ExportOrder DEF ShapeInv
<1>9. CASE Return
  <2>1. DOMAIN Exports(plan) = 1..index /\ outcome = "none" /\ "failure.json" \notin files
    BY <1>9, ExportOrder DEF Return, ShapeInv
  <2> QED BY <1>9, <2>1 DEF Return
<1>10. CASE HandleException
  BY <1>10 DEF HandleException
<1>11. CASE AskFails \/ Break \/ Interrupt \/ Leave \/ Expire \/ UNCHANGED vars
  BY <1>11 DEF AskFails, Asking, Break, Interrupt, Leave, Expire, vars
<1> QED BY <1>1, <1>2, <1>3, <1>4, <1>5, <1>6, <1>7, <1>8, <1>9, <1>10, <1>11 DEF Next

----------------------------------------------------------------------------
(* The trail of a prediction.                                              *)

LEMMA TrailStep == ShapeInv /\ TrailInv /\ [Next]_vars => TrailInv'
<1> SUFFICES ASSUME ShapeInv, TrailInv, [Next]_vars PROVE TrailInv'
  OBVIOUS
<1> USE DEF TrailInv, PredictionHasItsTrail, Trail, EvidenceFiles, Goto, Raise, Write, frame,
            stages, requests, records, Working, Evidence, Generation, Validation
<1>1. ASSUME NEW p \in Plans, Begin(p) PROVE TrailInv'
  BY <1>1 DEF Begin, Reset
<1>2. CASE RecordResponses \/ AskReproduction \/ EndReproduction
  BY <1>2 DEF RecordResponses, AskReproduction, EndReproduction
<1>3. CASE SampleUnparsable \/ (\E v \in {"pass", "infrastructure"} \cup Sources : VerifySample(v))
           \/ AdoptSample \/ (\E b \in BOOLEAN : SaveTest(b))
           \/ (\E v \in {"pass", "infrastructure"} \cup Sources : VerifyTest(v))
  BY <1>3 DEF SampleUnparsable, VerifySample, AdoptSample, SaveTest, VerifyTest, Unjudged
<1>4. CASE (\E b \in BOOLEAN : RunBaseline(b)) \/ EndBaseline
           \/ (\E b \in BOOLEAN : ExcludeTests(b)) \/ Freeze
  BY <1>4 DEF RunBaseline, EndBaseline, ExcludeTests, Freeze
<1>5. CASE LocalizeFiles \/ LocalizeSymbols \/ LocalizeEdit \/ SampleRepair \/ EndRepairs
           \/ SaveGeneration
  BY <1>5 DEF LocalizeFiles, LocalizeSymbols, LocalizeEdit, SampleRepair, EndRepairs, SaveGeneration
<1>6. CASE (\E b \in BOOLEAN : TrySample(b)) \/ EndSamples \/ SelectCandidate
  BY <1>6 DEF TrySample, EndSamples, SelectCandidate, CandidatesOf, ShapeInv
<1>7. CASE Export
  <2>1. PICK name : /\ name = Exports(plan)[index + 1]
                    /\ files' = files \cup {name}
                    /\ counted' = IF name = "controller.json" THEN calls ELSE counted
    BY <1>7 DEF Export
  <2>2. /\ index < Len(Exports(plan)) /\ index' = index + 1 /\ phase = "export"
        /\ UNCHANGED <<frame, phase, requests, bundled, attempts>>
    BY <1>7 DEF Export
  <2>3. index + 1 \in 1..Len(Exports(plan)) /\ index \in Nat
    BY <2>2, ExportOrder DEF ShapeInv
  <2>4. /\ name = "controller.json" <=> index = 0
        /\ name = "prediction.json" <=> index = 1
    BY <2>1, <2>3, ExportOrder DEF ShapeInv
  <2>5. counted' = calls
    BY <2>1, <2>2, <2>3, <2>4
  <2>6. /\ files \subseteq files' /\ phase' = "export"
        /\ bundled' = bundled /\ answers' = answers /\ attempts' = attempts
        /\ CandidatesOf(plan)' = CandidatesOf(plan)
    BY <2>1, <2>2 DEF CandidatesOf
  <2>7. index' <= 1 => "prediction.json" \notin files'
    BY <2>1, <2>2, <2>3, <2>4
  <2> QED BY <2>2, <2>5, <2>6, <2>7
<1>8. CASE Return \/ AskFails \/ Break \/ Interrupt \/ Leave \/ Expire \/ UNCHANGED vars
  BY <1>8 DEF Return, AskFails, Asking, Break, Interrupt, Leave, Expire, vars
<1>9. CASE HandleException
  BY <1>9 DEF HandleException
<1> QED BY <1>1, <1>2, <1>3, <1>4, <1>5, <1>6, <1>7, <1>8, <1>9 DEF Next

----------------------------------------------------------------------------
(* The evidence.                                                           *)

\* The properties of the evidence do not change while nothing they name does.
LEMMA CompleteStable ==
  ASSUME Complete, UNCHANGED <<frozen, schedule, sound, plan, judged, adopted>>,
         files \subseteq files'
  PROVE  Complete'
BY DEF Complete, EvidenceFiles, Verified, SamplesOf

\* Every set of numbers that is not empty has a least and, if bounded, a greatest one.
LEMMA LeastNumber ==
  ASSUME NEW T \in SUBSET Nat, T # {}
  PROVE  \E m \in T : \A n \in T : m <= n
<1>1. PICK m \in T : \A n \in T : ~(<<n, m>> \in OpToRel(<, Nat))
  BY NatLessThanWellFounded, WFMin
<1>2. \A n \in T : ~(n < m)
  BY <1>1 DEF OpToRel
<1> QED BY <1>2

LEMMA GreatestNumber ==
  ASSUME NEW T \in SUBSET Nat, T # {}, NEW bound \in Nat, \A n \in T : n <= bound
  PROVE  \E m \in T : \A n \in T : n <= m
<1> DEFINE Rest == {bound - n : n \in T}
<1>1. Rest \in SUBSET Nat /\ Rest # {}
  <2>1. ASSUME NEW n \in T PROVE bound - n \in Nat
    <3>1. n \in Nat /\ n <= bound
      OBVIOUS
    <3> QED BY <3>1
  <2> QED BY <2>1
<1>2. PICK r \in Rest : \A q \in Rest : r <= q
  <2> HIDE DEF Rest
  <2> QED BY <1>1, LeastNumber
<1>3. PICK m \in T : r = bound - m
  BY <1>2
<1>4. ASSUME NEW n \in T PROVE n <= m
  <2>1. bound - n \in Rest
    OBVIOUS
  <2> QED BY <1>2, <1>3, <2>1
<1> QED BY <1>3, <1>4

\* A sample that wins the vote has failed on the original revision.
LEMMA PreferredIsVerified ==
  ASSUME judged \in Seq(Verdicts), Verified # {}
  PROVE  Preferred \in Verified
<1> DEFINE Leaders == {i \in Verified : \A j \in Verified : Backing(j) <= Backing(i)}
<1>1. Verified \subseteq 1..Len(judged) /\ Len(judged) \in Nat
  BY DEF Verified
<1>2. ASSUME NEW i \in Verified PROVE Backing(i) \in Nat /\ Backing(i) <= Len(judged)
  <2>1. {j \in Verified : judged[j] = judged[i]} \subseteq 1..Len(judged)
    BY <1>1
  <2>2. IsFiniteSet(1..Len(judged)) /\ Cardinality(1..Len(judged)) = Len(judged)
    <3>1. \A n \in Nat : IsFiniteSet(1..n) /\ Cardinality(1..n) = n
      <4> SUFFICES ASSUME NEW n \in Nat PROVE IsFiniteSet(1..n) /\ Cardinality(1..n) = n
        OBVIOUS
      <4>1. 1 \in Int /\ n \in Int /\ (1 > n <=> n = 0) /\ n - 1 + 1 = n
        OBVIOUS
      <4> QED BY <4>1, FS_Interval
    <3> QED BY <3>1, <1>1
  <2> QED BY <2>1, <2>2, FS_Subset, FS_CardinalityType DEF Backing
<1>3. Leaders # {}
  <2> DEFINE Counts == {Backing(i) : i \in Verified}
  <2>1. Counts \in SUBSET Nat /\ Counts # {} /\ \A n \in Counts : n <= Len(judged)
    BY <1>2
  <2>2. PICK m \in Counts : \A n \in Counts : n <= m
    <3> HIDE DEF Counts
    <3> QED BY <1>1, <2>1, GreatestNumber
  <2>3. PICK i \in Verified : m = Backing(i)
    BY <2>2
  <2>4. i \in Leaders
    BY <2>2, <2>3
  <2> QED BY <2>4
<1>4. \E i \in Leaders : \A j \in Leaders : i <= j
  <2>1. Leaders \subseteq Verified
    OBVIOUS
  <2>2. Leaders \in SUBSET Nat
    <3> HIDE DEF Leaders
    <3> QED BY <2>1, <1>1
  <2> HIDE DEF Leaders
  <2> QED BY <1>3, <2>2, LeastNumber
<1>5. Preferred \in Leaders
  BY <1>4 DEF Preferred, Min
<1> QED BY <1>5

\* EvidenceComesFirst asks for the complete evidence, no more and no less.
LEMMA ComesFirstMeansComplete ==
  EvidenceComesFirst <=> (calls > EvidenceCalls(plan) => Complete)
BY DEF EvidenceComesFirst, Complete, EvidenceFiles

\* Until the freeze no more requests are made than the evidence needs.
LEMMA EvidenceIsBounded ==
  ASSUME ShapeInv, EvidenceInv, phase \in Evidence
  PROVE  calls <= EvidenceCalls(plan) /\ EvidenceCalls(plan) \in Nat
<1>1. /\ plan.samples \in Nat /\ plan.regressions \in Nat
      /\ calls \in Nat /\ index \in Nat
  BY PlanFacts DEF ShapeInv
<1> QED BY <1>1 DEF EvidenceInv, Evidence, Asked, EvidenceCalls

LEMMA EvidenceStep == ShapeInv /\ EvidenceInv /\ [Next]_vars => EvidenceInv'
<1> SUFFICES ASSUME ShapeInv, EvidenceInv, [Next]_vars PROVE EvidenceInv'
  OBVIOUS
<1>p. /\ plan \in Plans /\ plan.samples \in Nat /\ plan.regressions \in Nat
      /\ plan.live \in BOOLEAN /\ plan.public \in BOOLEAN /\ plan.reproduces \in BOOLEAN
      /\ WellFormed(plan)
      /\ calls \in Nat /\ index \in Nat
  BY PlanFacts DEF ShapeInv
\* Without new requests a bound on them stays, and so does complete evidence.
<1>b. ASSUME UNCHANGED <<plan, calls>>, phase \in Evidence PROVE EvidenceComesFirst'
  <2>1. ~(calls > EvidenceCalls(plan))'
    BY <1>b, <1>p, EvidenceIsBounded DEF EvidenceCalls
  <2> QED BY <2>1 DEF EvidenceComesFirst
<1>c. ASSUME Complete' PROVE EvidenceComesFirst'
  BY <1>c DEF EvidenceComesFirst, Complete, EvidenceFiles
<1>d. ASSUME UNCHANGED <<plan, calls, frozen, schedule, sound, judged, adopted>>,
             files \subseteq files'
      PROVE  EvidenceComesFirst'
  <2>1. CASE Complete
    BY <2>1, <1>c, <1>d, CompleteStable
  <2>2. CASE ~Complete
    <3>1. ~(calls > EvidenceCalls(plan))
      BY <2>2, ComesFirstMeansComplete DEF EvidenceInv
    <3> QED BY <1>d, <3>1 DEF EvidenceComesFirst, EvidenceCalls
  <2> QED BY <2>1, <2>2
<1> USE DEF Goto, Raise, Write, frame, stages, requests, evidence, records
<1>1. ASSUME NEW p \in Plans, Begin(p) PROVE EvidenceInv'
  <2>1. p.samples \in Nat /\ p.regressions \in Nat /\ p.live \in BOOLEAN
    BY PlanFacts
  <2>2. ~(calls > EvidenceCalls(plan))'
    BY <1>1, <2>1 DEF Begin, Reset, EvidenceCalls
  <2> QED
    BY <1>1, <2>2 DEF Begin, Reset, EvidenceInv, EvidenceComesFirst, Generation, Validation
<1>2. CASE RecordResponses
  <2>1. EvidenceComesFirst'
    BY <1>2, <1>b DEF RecordResponses, Evidence
  <2> QED
    BY <1>2, <1>p, <2>1 DEF RecordResponses, EvidenceInv, Asked, Generation, Validation
<1>3. CASE AskReproduction
  <2>1. /\ phase = "reproduction" /\ phase' = phase /\ plan' = plan /\ plan.live
        /\ index < plan.samples /\ index' = index + 1 /\ calls' = calls + 1 /\ calls = index
        /\ sound /\ sound' = sound
    BY <1>3 DEF AskReproduction, Ask, EvidenceInv, Asked
  <2>2. ~(calls > EvidenceCalls(plan))'
    BY <2>1, <1>p DEF EvidenceCalls
  <2> QED
    BY <2>1, <2>2, <1>p DEF EvidenceInv, EvidenceComesFirst, Asked, Generation, Validation
<1>4. CASE EndReproduction
  <2>1. EvidenceComesFirst'
    BY <1>4, <1>b DEF EndReproduction, Evidence
  <2>2. phase = "reproduction" /\ sound /\ UNCHANGED <<plan, calls, files, sound>>
    BY <1>4 DEF EndReproduction, EvidenceInv
  <2>3. Asked(plan.samples)
    BY <1>4, <1>p DEF EndReproduction, EvidenceInv, Asked, WellFormed
  <2>4. phase' = "baseline" => ~plan.reproduces
    BY <1>4 DEF EndReproduction
  <2>5. phase' \in {"verify", "baseline"}
    BY <1>4 DEF EndReproduction
  <2> QED
    BY <2>1, <2>2, <2>3, <2>4, <2>5 DEF EvidenceInv, Asked, Gathered, Generation, Validation
<1>5. CASE SampleUnparsable \/ (\E v \in {"pass", "infrastructure"} \cup Sources : VerifySample(v))
  <2>1. /\ phase = "verify" /\ phase' \in {"verify", "raising"}
        /\ UNCHANGED <<plan, calls, sound>>
    BY <1>5 DEF SampleUnparsable, VerifySample, Unjudged
  <2>2. EvidenceComesFirst'
    BY <2>1, <1>b DEF Evidence
  <2> QED BY <2>1, <2>2 DEF EvidenceInv, Asked, Generation, Validation
<1>6. CASE AdoptSample
  <2>1. phase = "verify" /\ phase' \in {"baseline", "raising"} /\ UNCHANGED <<plan, calls, judged, sound>>
    BY <1>6 DEF AdoptSample
  <2>2. EvidenceComesFirst'
    BY <2>1, <1>b DEF Evidence
  <2>3. phase' = "baseline" =>
          /\ Len(judged) = SamplesOf(plan) /\ adopted' \in Verified /\ "reproduction" \in schedule'
    BY <1>6, PreferredIsVerified DEF AdoptSample, ShapeInv
  <2>4. phase' = "baseline" => Gathered'
    BY <2>1, <2>3 DEF Gathered, Verified, SamplesOf
  <2> QED BY <2>1, <2>2, <2>4 DEF EvidenceInv, Asked, Generation, Validation
<1>s. CASE \E b \in BOOLEAN : SaveTest(b)
  <2>1. /\ phase = "verify" /\ phase' \in {"verify", "raising"}
        /\ UNCHANGED <<plan, calls, sound>>
    BY <1>s DEF SaveTest
  <2>2. EvidenceComesFirst'
    BY <2>1, <1>b DEF Evidence
  <2> QED BY <2>1, <2>2 DEF EvidenceInv, Asked, Generation, Validation
<1>t. ASSUME NEW v \in {"pass", "infrastructure"} \cup Sources, VerifyTest(v) PROVE EvidenceInv'
  <2>1. /\ phase = "verify" /\ phase' \in {"baseline", "raising"} /\ plan.single
        /\ UNCHANGED <<plan, calls, sound>>
    BY <1>t DEF VerifyTest
  <2>2. EvidenceComesFirst'
    BY <2>1, <1>b DEF Evidence
  <2>3. phase' = "baseline" =>
          /\ v \in Sources /\ judged' = <<v>> /\ adopted' = 1 /\ "reproduction" \in schedule'
    BY <1>t DEF VerifyTest
  <2>4. phase' = "baseline" => Gathered'
    BY <2>1, <2>3 DEF Gathered, Verified, SamplesOf
  <2> QED BY <2>1, <2>2, <2>4 DEF EvidenceInv, Asked, Generation, Validation
<1>7. CASE (\E i \in BOOLEAN : RunBaseline(i))
  <2>1. phase = "baseline" /\ phase' = phase /\ UNCHANGED <<plan, calls, judged, adopted, schedule>>
    BY <1>7 DEF RunBaseline
  <2>2. EvidenceComesFirst'
    BY <2>1, <1>b DEF Evidence
  <2>3. Gathered'
    BY <2>1 DEF EvidenceInv, Gathered, Verified, SamplesOf
  <2>4. plan.regressions # 0
    BY <1>7, <1>p DEF RunBaseline
  <2> QED BY <2>1, <2>2, <2>3, <2>4 DEF EvidenceInv, Asked, Generation, Validation
<1>8. CASE EndBaseline
  <2>1. phase = "baseline" /\ UNCHANGED <<plan, calls, judged, adopted, schedule, sound>>
    BY <1>8 DEF EndBaseline
  <2>2. EvidenceComesFirst'
    BY <2>1, <1>b DEF Evidence
  <2>3. Gathered /\ Gathered'
    BY <2>1 DEF EvidenceInv, Gathered, Verified, SamplesOf
  <2>4. CASE plan.regressions = 0
    <3>1. phase' = "freeze"
      BY <1>8, <2>4 DEF EndBaseline
    <3>2. sound
      BY <2>1, <2>4 DEF EvidenceInv
    <3>3. (plan.public \/ schedule # {})'
      BY <2>1, <2>3, <2>4, <1>p DEF Gathered, WellFormed
    <3>4. (calls = EvidenceCalls(plan))'
      BY <2>1, <2>4, <1>p DEF EvidenceInv, Asked, EvidenceCalls
    <3> QED
      BY <2>1, <2>2, <2>3, <2>4, <3>1, <3>2, <3>3, <3>4 DEF EvidenceInv, Generation, Validation
  <2>5. CASE plan.regressions # 0
    <3>1. phase' = "raising" \/ (phase' = "exclusions" /\ sound)
      BY <1>8, <2>5 DEF EndBaseline
    <3> QED
      BY <2>1, <2>2, <2>3, <2>5, <3>1, <1>p DEF EvidenceInv, Asked, Generation, Validation
  <2> QED BY <2>4, <2>5
<1>9. ASSUME NEW left \in BOOLEAN, ExcludeTests(left) PROVE EvidenceInv'
  <2>1. /\ phase = "exclusions" /\ phase' \in {"freeze", "raising"}
        /\ UNCHANGED <<plan, judged, adopted, sound>>
        /\ schedule \subseteq schedule'
        /\ files' = files \cup {"regression-selection.json"}
        /\ phase' = "freeze" => plan.public \/ schedule' # {}
        /\ calls' = IF plan.live THEN calls + 1 ELSE calls
    BY <1>9, <1>p DEF ExcludeTests, AskOrReplay, Ask
  <2>2. Asked(plan.samples) /\ Gathered /\ sound /\ plan.regressions > 0
    BY <2>1 DEF EvidenceInv
  <2>3. calls' = EvidenceCalls(plan)
    BY <2>1, <2>2, <1>p DEF Asked, EvidenceCalls
  <2>4. EvidenceCalls(plan)' = EvidenceCalls(plan) /\ EvidenceCalls(plan) \in Nat
    BY <2>1, <1>p DEF EvidenceCalls
  <2>5. EvidenceComesFirst'
    BY <2>3, <2>4 DEF EvidenceComesFirst
  <2>6. Gathered'
    BY <2>1, <2>2 DEF Gathered, Verified, SamplesOf
  <2> QED BY <2>1, <2>2, <2>3, <2>4, <2>5, <2>6 DEF EvidenceInv, Generation, Validation
<1>10. CASE Freeze
  <2>1. /\ phase = "freeze" /\ phase' = "files" /\ frozen' = schedule'
        /\ UNCHANGED <<plan, calls, judged, adopted, sound>>
        /\ schedule' = schedule \cup (IF plan.public THEN {"public"} ELSE {})
        /\ files' = files \cup {"task.json", "controller.json"}
    BY <1>10 DEF Freeze
  <2>2. Gathered /\ sound /\ (plan.public \/ schedule # {})
        /\ (plan.regressions > 0 => "regression-selection.json" \in files)
    BY <2>1 DEF EvidenceInv
  <2>3. Complete'
    BY <2>1, <2>2 DEF Complete, EvidenceFiles, Gathered, Verified, SamplesOf
  <2> QED BY <2>1, <2>3, <1>c DEF EvidenceInv
<1>11. CASE LocalizeFiles \/ LocalizeSymbols \/ LocalizeEdit \/ SampleRepair \/ EndRepairs
            \/ SaveGeneration
  <2>1. /\ phase \in Generation /\ phase' \in Generation \cup Validation
        /\ UNCHANGED <<plan, judged, adopted, sound, schedule, frozen>>
        /\ files \subseteq files'
    BY <1>11 DEF LocalizeFiles, LocalizeSymbols, LocalizeEdit, SampleRepair, EndRepairs,
                 SaveGeneration, Generation, Validation
  <2>2. Complete'
    BY <2>1, CompleteStable DEF EvidenceInv
  <2> QED BY <2>1, <2>2, <1>c DEF EvidenceInv, Generation, Validation
<1>12. CASE (\E b \in BOOLEAN : TrySample(b)) \/ EndSamples \/ SelectCandidate \/ Export
            \/ Return
  <2>1. /\ phase \in Validation /\ phase' \in Validation \cup {"raising", "leaving"}
        /\ UNCHANGED <<plan, judged, adopted, sound, schedule, frozen>>
        /\ files \subseteq files'
    BY <1>12 DEF TrySample, EndSamples, SelectCandidate, Export, Return, Validation
  <2>2. Complete'
    BY <2>1, CompleteStable DEF EvidenceInv
  <2> QED BY <2>1, <2>2, <1>c DEF EvidenceInv, Generation, Validation
<1>13. CASE AskFails
  <2>1. /\ phase' = "raising" /\ calls' = calls + 1 /\ plan.live
        /\ UNCHANGED <<plan, judged, adopted, sound, schedule, frozen, files>>
    BY <1>13 DEF AskFails, Asking
  <2>2. CASE phase \in Generation
    <3>1. Complete'
      BY <2>1, <2>2, CompleteStable DEF EvidenceInv
    <3> QED BY <2>1, <3>1, <1>c DEF EvidenceInv, Generation, Validation
  <2>3. CASE phase = "reproduction" /\ index < plan.samples
    <3>1. ~(calls' > EvidenceCalls(plan)')
      BY <2>1, <2>3, <1>p DEF EvidenceInv, Asked, EvidenceCalls
    <3> QED BY <2>1, <3>1 DEF EvidenceInv, EvidenceComesFirst, Generation, Validation
  <2>4. CASE phase = "exclusions"
    <3>1. ~(calls' > EvidenceCalls(plan)')
      BY <2>1, <2>4, <1>p DEF EvidenceInv, Asked, EvidenceCalls
    <3> QED BY <2>1, <3>1 DEF EvidenceInv, EvidenceComesFirst, Generation, Validation
  <2> QED BY <1>13, <2>2, <2>3, <2>4 DEF AskFails, Asking, Generation
<1>14. CASE Break \/ HandleException \/ Interrupt \/ Leave
  <2>1. /\ phase' \in {"raising", "leaving", "idle"}
        /\ UNCHANGED <<plan, calls, judged, adopted, sound, schedule, frozen>>
        /\ files \subseteq files'
    BY <1>14 DEF Break, HandleException, Interrupt, Leave
  <2> QED BY <2>1, <1>d DEF EvidenceInv, Generation, Validation
<1>15. CASE Expire \/ UNCHANGED vars
  <2>1. UNCHANGED <<plan, stages, requests, evidence, records, attempts>>
    BY <1>15 DEF Expire, vars
  <2>2. EvidenceComesFirst'
    BY <2>1, <1>d
  <2>3. /\ Complete => Complete'
        /\ Gathered => Gathered'
        /\ EvidenceCalls(plan)' = EvidenceCalls(plan)
    BY <2>1 DEF Complete, Gathered, Verified, SamplesOf, EvidenceCalls
  <2> QED BY <2>1, <2>2, <2>3 DEF EvidenceInv, Asked
<1> QED
  BY <1>1, <1>2, <1>3, <1>4, <1>5, <1>6, <1>7, <1>8, <1>9, <1>10, <1>11, <1>12, <1>13, <1>14,
     <1>15, <1>s, <1>t DEF Next

----------------------------------------------------------------------------
(* What validation leaves alone.                                           *)

\* One step of a run in validation, or of one that has ended.
ForwardStep == attempts.begun > 0 /\ runs' = runs => UNCHANGED <<requests, evidence, frozen>>

LEMMA BehindStep ==
  ShapeInv /\ BehindInv /\ [Next]_vars => BehindInv' /\ (ForwardStep \/ UNCHANGED vars)
<1> SUFFICES ASSUME ShapeInv, BehindInv, [Next]_vars
             PROVE  BehindInv' /\ (ForwardStep \/ UNCHANGED vars)
  OBVIOUS
<1> USE DEF BehindInv, ForwardStep, Goto, Raise, frame, stages, requests, evidence, records,
            Evidence, Generation, Validation
<1>1. ASSUME NEW p \in Plans, Begin(p) PROVE BehindInv' /\ ForwardStep
  <2>1. runs' = runs + 1 /\ runs \in Nat /\ attempts' = [begun |-> 0, valid |-> 0]
    BY <1>1 DEF Begin, Reset
  <2>2. runs' \in Nat /\ runs' # runs /\ attempts'.begun = 0
    BY <2>1
  <2> QED BY <2>2
<1>2. CASE RecordResponses \/ AskReproduction \/ EndReproduction
  BY <1>2 DEF RecordResponses, AskReproduction, EndReproduction
<1>3. CASE SampleUnparsable \/ (\E v \in {"pass", "infrastructure"} \cup Sources : VerifySample(v))
           \/ AdoptSample \/ (\E b \in BOOLEAN : SaveTest(b))
           \/ (\E v \in {"pass", "infrastructure"} \cup Sources : VerifyTest(v))
  BY <1>3 DEF SampleUnparsable, VerifySample, AdoptSample, SaveTest, VerifyTest, Unjudged
<1>4. CASE (\E b \in BOOLEAN : RunBaseline(b)) \/ EndBaseline
           \/ (\E b \in BOOLEAN : ExcludeTests(b)) \/ Freeze
  <2>1. ASSUME NEW b \in BOOLEAN, ExcludeTests(b) PROVE BehindInv' /\ ForwardStep
    BY <2>1 DEF ExcludeTests
  <2>2. CASE (\E b \in BOOLEAN : RunBaseline(b)) \/ EndBaseline \/ Freeze
    BY <2>2 DEF RunBaseline, EndBaseline, Freeze
  <2> QED BY <1>4, <2>1, <2>2
<1>5. CASE LocalizeFiles \/ LocalizeSymbols \/ LocalizeEdit \/ SampleRepair \/ EndRepairs
           \/ SaveGeneration
  BY <1>5 DEF LocalizeFiles, LocalizeSymbols, LocalizeEdit, SampleRepair, EndRepairs, SaveGeneration
<1>6. CASE (\E b \in BOOLEAN : TrySample(b)) \/ EndSamples \/ SelectCandidate \/ Export \/ Return
  BY <1>6 DEF TrySample, EndSamples, SelectCandidate, Export, Return
<1>7. CASE AskFails \/ Break \/ HandleException \/ Interrupt \/ Leave \/ Expire
  BY <1>7 DEF AskFails, Asking, Break, HandleException, Interrupt, Leave, Expire, Working
<1>8. CASE UNCHANGED vars
  BY <1>8 DEF vars
<1> QED BY <1>1, <1>2, <1>3, <1>4, <1>5, <1>6, <1>7, <1>8 DEF Next

----------------------------------------------------------------------------
(* The number of requests.                                                 *)

\* Requests of one edit sample, and those a live run has made when edit sample k begins.
PerEdit(p) == 1 + p.repairs
MadeBefore(p, k) == EvidenceCalls(p) + 2 + k * PerEdit(p)

\* Each phase begins with the requests the ones before it make.
SamplingInv ==
  /\ rank \in Nat
  /\ phase \in Evidence \cup {"files", "symbols"} => rank = 0
  /\ phase \in {"edit", "repair"} => rank < plan.edits
  /\ phase = "repair" => index <= plan.repairs
  /\ ~plan.live => calls = 0
  /\ plan.live =>
       /\ phase = "files" => calls = EvidenceCalls(plan)
       /\ phase = "symbols" => calls = EvidenceCalls(plan) + 1
       /\ phase = "edit" => calls = MadeBefore(plan, rank)
       /\ phase = "repair" => calls = MadeBefore(plan, rank) + 1 + index
       /\ phase \in {"prompts"} \cup Validation => calls = PlannedCalls(plan)
  /\ SamplingIsPredetermined

\* Multiplication, as far as it is needed: k of e equal parts and one more.
LEMMA OneMorePart ==
  ASSUME NEW e \in Nat, NEW k \in Nat, NEW m \in Nat, k < e
  PROVE  /\ k * m \in Nat /\ e * m \in Nat
         /\ (k + 1) * m = k * m + m
         /\ k * m + m <= e * m
         /\ ~(k + 1 < e) => k * m + m = e * m
<1>1. (k + 1) * m = k * m + m /\ k * m \in Nat /\ e * m \in Nat
  OBVIOUS
<1> DEFINE d == e - (k + 1)
<1>2. d \in Nat /\ e = (k + 1) + d
  OBVIOUS
<1> HIDE DEF d
<1>3. d * m \in Nat /\ e * m = (k + 1) * m + d * m
  BY <1>2
<1>4. d = 0 => d * m = 0
  OBVIOUS
<1>5. ~(k + 1 < e) => d = 0
  BY <1>2
<1> QED BY <1>1, <1>3, <1>4, <1>5

\* The plan of requests, in numbers.
LEMMA PlannedFacts ==
  ASSUME NEW p \in Plans
  PROVE  /\ EvidenceCalls(p) \in Nat /\ PlannedCalls(p) \in Nat /\ PerEdit(p) \in Nat
         /\ p.edits * PerEdit(p) \in Nat
         /\ ~p.live => EvidenceCalls(p) = 0 /\ PlannedCalls(p) = 0
         /\ p.live => /\ PlannedCalls(p) = EvidenceCalls(p) + 2 + p.edits * PerEdit(p)
                      /\ p.edits > 0
<1>1. /\ p.samples \in Nat /\ p.regressions \in Nat /\ p.edits \in Nat /\ p.repairs \in Nat
      /\ p.live \in BOOLEAN
      /\ p.live => p.edits > 0
  BY PlanFacts DEF WellFormed
<1>2. EvidenceCalls(p) \in Nat /\ PerEdit(p) \in Nat /\ (~p.live => EvidenceCalls(p) = 0)
  BY <1>1 DEF EvidenceCalls, PerEdit
<1>3. p.edits * PerEdit(p) \in Nat
  BY <1>1, <1>2
<1> QED BY <1>1, <1>2, <1>3 DEF PlannedCalls, PerEdit

\* When an edit sample begins, at least its own requests are left of the plan.
LEMMA SampleFits ==
  ASSUME NEW p \in Plans, p.live, NEW k \in Nat, k < p.edits
  PROVE  /\ MadeBefore(p, k) \in Nat
         /\ MadeBefore(p, k) + 1 + p.repairs <= PlannedCalls(p)
         /\ MadeBefore(p, k + 1) = MadeBefore(p, k) + 1 + p.repairs
         /\ ~(k + 1 < p.edits) => MadeBefore(p, k) + 1 + p.repairs = PlannedCalls(p)
<1> DEFINE m == PerEdit(p)
           e == p.edits
<1>1. /\ m \in Nat /\ e \in Nat /\ p.repairs \in Nat /\ m = 1 + p.repairs
      /\ EvidenceCalls(p) \in Nat
      /\ PlannedCalls(p) = EvidenceCalls(p) + 2 + e * m
  BY PlanFacts, PlannedFacts DEF PerEdit
<1>2. /\ MadeBefore(p, k) = EvidenceCalls(p) + 2 + k * m
      /\ MadeBefore(p, k + 1) = EvidenceCalls(p) + 2 + (k + 1) * m
  BY DEF MadeBefore
<1> HIDE DEF m, e
<1>3. /\ k * m \in Nat /\ e * m \in Nat
      /\ (k + 1) * m = k * m + m
      /\ k * m + m <= e * m
      /\ ~(k + 1 < e) => k * m + m = e * m
  BY <1>1, OneMorePart DEF e
<1> QED BY <1>1, <1>2, <1>3 DEF e

LEMMA SamplingStep ==
  ShapeInv /\ EndInv /\ EvidenceInv /\ SamplingInv /\ [Next]_vars => SamplingInv'
<1> SUFFICES ASSUME ShapeInv, EndInv, EvidenceInv, SamplingInv, [Next]_vars
             PROVE  SamplingInv'
  OBVIOUS
<1>p. /\ plan \in Plans /\ calls \in Nat /\ index \in Nat /\ rank \in Nat
      /\ plan.samples \in Nat /\ plan.repairs \in Nat /\ plan.edits \in Nat
      /\ plan.live \in BOOLEAN
      /\ EvidenceCalls(plan) \in Nat /\ PlannedCalls(plan) \in Nat
      /\ EvidenceCalls(plan) <= PlannedCalls(plan)
      /\ plan.live => plan.edits > 0 /\ EvidenceCalls(plan) + 2 <= PlannedCalls(plan)
  BY PlanFacts, PlannedFacts DEF ShapeInv, SamplingInv
<1>n. calls <= PlannedCalls(plan) /\ (outcome = "returned" => calls = PlannedCalls(plan))
  BY DEF SamplingInv, SamplingIsPredetermined
<1>f. plan.live /\ rank < plan.edits =>
        /\ MadeBefore(plan, rank) \in Nat
        /\ MadeBefore(plan, rank) + 1 + plan.repairs <= PlannedCalls(plan)
        /\ MadeBefore(plan, rank + 1) = MadeBefore(plan, rank) + 1 + plan.repairs
        /\ ~(rank + 1 < plan.edits) =>
              MadeBefore(plan, rank) + 1 + plan.repairs = PlannedCalls(plan)
  BY <1>p, SampleFits
\* A step that leaves the plan and the requests alone, in the evidence or on the way out.
<1>k. ASSUME UNCHANGED <<plan, calls, rank>>,
             \/ (phase \in Evidence /\ phase' \in Evidence \cup {"raising"})
             \/ phase' \in {"raising", "leaving", "idle"},
             outcome' = "returned" => outcome = "returned"
      PROVE  SamplingInv'
  BY <1>k, <1>n DEF SamplingInv, SamplingIsPredetermined, Evidence, Validation
<1> USE DEF Goto, Raise, frame, stages, requests
<1>1. ASSUME NEW p \in Plans, Begin(p) PROVE SamplingInv'
  <2>1. /\ plan' = p /\ calls' = 0 /\ rank' = 0 /\ phase' = "responses" /\ outcome' = "none"
        /\ PlannedCalls(p) \in Nat
    BY <1>1, PlannedFacts DEF Begin, Reset
  <2> QED BY <2>1 DEF SamplingInv, SamplingIsPredetermined, Evidence, Validation
<1>2. CASE RecordResponses \/ EndReproduction \/ SampleUnparsable
           \/ (\E v \in {"pass", "infrastructure"} \cup Sources : VerifySample(v))
           \/ (\E b \in BOOLEAN : SaveTest(b))
           \/ (\E v \in {"pass", "infrastructure"} \cup Sources : VerifyTest(v)) \/ AdoptSample
           \/ (\E b \in BOOLEAN : RunBaseline(b)) \/ EndBaseline
  <2>1. /\ UNCHANGED <<plan, calls, rank, outcome>>
        /\ phase \in Evidence /\ phase' \in Evidence \cup {"raising"}
    BY <1>2 DEF RecordResponses, EndReproduction, SampleUnparsable, VerifySample, SaveTest,
                VerifyTest, AdoptSample, RunBaseline, EndBaseline, Unjudged, Evidence
  <2> QED BY <2>1, <1>k
<1>3. CASE AskReproduction
  <2>1. /\ phase = "reproduction" /\ plan.live /\ index < plan.samples
        /\ calls' = calls + 1 /\ UNCHANGED <<plan, rank, phase, outcome>>
    BY <1>3 DEF AskReproduction, Ask
  <2>2. calls + 1 <= EvidenceCalls(plan)
    BY <2>1, <1>p, PlanFacts DEF EvidenceInv, Asked, EvidenceCalls
  <2>3. outcome = "none"
    BY <2>1 DEF EndInv, Working, Evidence
  <2>4. calls' <= PlannedCalls(plan)
    BY <2>1, <2>2, <1>p
  <2> QED
    BY <2>1, <2>3, <2>4 DEF SamplingInv, SamplingIsPredetermined, Evidence, Validation,
                            PlannedCalls, EvidenceCalls
<1>4. ASSUME NEW left \in BOOLEAN, ExcludeTests(left) PROVE SamplingInv'
  <2>1. /\ phase = "exclusions" /\ phase' \in {"freeze", "raising"}
        /\ UNCHANGED <<plan, rank, outcome>>
        /\ calls' = IF plan.live THEN calls + 1 ELSE calls
    BY <1>4, <1>p DEF ExcludeTests, AskOrReplay, Ask
  <2>2. calls' <= PlannedCalls(plan)
    BY <2>1, <1>p, <1>n, PlanFacts DEF EvidenceInv, Asked, EvidenceCalls
  <2>3. outcome = "none"
    BY <2>1 DEF EndInv, Working, Evidence
  <2> QED
    BY <2>1, <2>2, <2>3 DEF SamplingInv, SamplingIsPredetermined, Evidence, Validation,
                            PlannedCalls, EvidenceCalls
<1>5. CASE Freeze
  <2>1. phase = "freeze" /\ phase' = "files" /\ UNCHANGED <<plan, rank, calls, outcome>>
    BY <1>5 DEF Freeze
  <2>2. calls = EvidenceCalls(plan) /\ rank = 0
    BY <2>1 DEF EvidenceInv, SamplingInv, Evidence
  <2> QED
    BY <2>1, <2>2, <1>n DEF SamplingInv, SamplingIsPredetermined, Evidence, Validation,
                            PlannedCalls, EvidenceCalls
<1>6. CASE LocalizeFiles \/ LocalizeSymbols \/ LocalizeEdit \/ SampleRepair
  <2>1. /\ phase \in {"files", "symbols", "edit", "repair"}
        /\ UNCHANGED <<plan, rank, outcome>>
        /\ calls' = IF plan.live THEN calls + 1 ELSE calls
    BY <1>6, <1>p DEF LocalizeFiles, LocalizeSymbols, LocalizeEdit, SampleRepair, AskOrReplay, Ask
  <2>2. outcome = "none"
    BY <2>1 DEF EndInv, Working, Generation
  <2>3. CASE LocalizeFiles
    <3>1. phase = "files" /\ phase' = "symbols"
      BY <2>3 DEF LocalizeFiles
    <3>2. calls' <= PlannedCalls(plan)
      BY <2>1, <3>1, <1>p, <1>n DEF SamplingInv
    <3> QED
      BY <2>1, <2>2, <3>1, <3>2, <1>p DEF SamplingInv, SamplingIsPredetermined, Evidence,
                                 Validation, PlannedCalls, EvidenceCalls
  <2>4. CASE LocalizeSymbols
    <3>1. phase = "symbols" /\ phase' = IF plan.edits > 0 THEN "edit" ELSE "prompts"
      BY <2>4 DEF LocalizeSymbols
    <3>2. rank = 0 /\ (plan.live => calls = EvidenceCalls(plan) + 1)
      BY <3>1 DEF SamplingInv
    <3>3. calls' <= PlannedCalls(plan)
      BY <2>1, <3>2, <1>p, <1>n
    <3>4. plan.live => calls' = MadeBefore(plan, 0)
      <4>1. PerEdit(plan) \in Nat /\ 0 * PerEdit(plan) = 0
        BY <1>p, PlannedFacts
      <4> QED BY <2>1, <3>2, <4>1, <1>p DEF MadeBefore
    <3> QED
      BY <2>1, <2>2, <3>1, <3>2, <3>3, <3>4, <1>p
      DEF SamplingInv, SamplingIsPredetermined, Evidence, Validation, PlannedCalls,
          EvidenceCalls, MadeBefore, PerEdit
  <2>5. CASE LocalizeEdit
    <3>1. phase = "edit" /\ phase' = "repair" /\ index' = 0
      BY <2>5 DEF LocalizeEdit
    <3>2. rank < plan.edits /\ (plan.live => calls = MadeBefore(plan, rank))
      BY <3>1 DEF SamplingInv
    <3>3. calls' <= PlannedCalls(plan)
      BY <2>1, <3>2, <1>p, <1>n, <1>f
    <3>4. plan.live => calls' = MadeBefore(plan, rank) + 1 + 0
      BY <2>1, <3>2, <1>p, <1>f
    <3> QED
      BY <2>1, <2>2, <3>1, <3>2, <3>3, <3>4, <1>p
      DEF SamplingInv, SamplingIsPredetermined, Evidence, Validation, PlannedCalls,
          EvidenceCalls, MadeBefore, PerEdit
  <2>6. CASE SampleRepair
    <3>1. phase = "repair" /\ phase' = phase /\ index < plan.repairs /\ index' = index + 1
      BY <2>6 DEF SampleRepair
    <3>2. rank < plan.edits /\ (plan.live => calls = MadeBefore(plan, rank) + 1 + index)
      BY <3>1 DEF SamplingInv
    <3>3. calls' <= PlannedCalls(plan)
      BY <2>1, <3>1, <3>2, <1>p, <1>n, <1>f
    <3>4. plan.live => calls' = MadeBefore(plan, rank) + 1 + index'
      BY <2>1, <3>1, <3>2, <1>p, <1>f
    <3>5. index' <= plan.repairs
      BY <3>1, <1>p
    <3> QED
      BY <2>1, <2>2, <3>1, <3>2, <3>3, <3>4, <3>5, <1>p
      DEF SamplingInv, SamplingIsPredetermined, Evidence, Validation, PlannedCalls,
          EvidenceCalls, MadeBefore, PerEdit
  <2> QED BY <1>6, <2>3, <2>4, <2>5, <2>6
<1>7. CASE EndRepairs
  <2>1. /\ phase = "repair" /\ index = plan.repairs /\ rank' = rank + 1
        /\ phase' = IF rank + 1 < plan.edits THEN "edit" ELSE "prompts"
        /\ UNCHANGED <<plan, calls, outcome>>
    BY <1>7 DEF EndRepairs
  <2>2. rank < plan.edits /\ (plan.live => calls = MadeBefore(plan, rank) + 1 + plan.repairs)
    BY <2>1 DEF SamplingInv
  <2>3. plan.live => /\ calls = MadeBefore(plan, rank + 1)
                     /\ ~(rank + 1 < plan.edits) => calls = PlannedCalls(plan)
    BY <2>1, <2>2, <1>f
  <2>4. rank' \in Nat
    BY <2>1, <1>p
  <2> QED
    BY <2>1, <2>2, <2>3, <2>4, <1>n DEF SamplingInv, SamplingIsPredetermined, Evidence,
         Validation, PlannedCalls, EvidenceCalls, MadeBefore, PerEdit
<1>8. CASE SaveGeneration \/ (\E b \in BOOLEAN : TrySample(b)) \/ EndSamples \/ SelectCandidate
           \/ Export \/ Return
  <2>1. /\ UNCHANGED <<plan, calls, rank>>
        /\ phase \in {"prompts"} \cup Validation
        /\ phase' \in Validation \cup {"raising", "leaving"}
        /\ outcome' = outcome \/ outcome' = "returned"
    BY <1>8 DEF SaveGeneration, TrySample, EndSamples, SelectCandidate, Export, Return, Validation
  <2>2. calls = PlannedCalls(plan)
    BY <2>1, <1>p, PlannedFacts DEF SamplingInv
  <2> QED
    BY <2>1, <2>2, <1>p DEF SamplingInv, SamplingIsPredetermined, Evidence, Validation,
                      PlannedCalls, EvidenceCalls
<1>9. CASE AskFails
  <2>1. /\ plan.live /\ calls' = calls + 1 /\ phase' = "raising" /\ UNCHANGED <<plan, rank, outcome>>
    BY <1>9 DEF AskFails, Asking
  <2>2. \/ phase = "reproduction" /\ index < plan.samples
        \/ phase = "exclusions" \/ phase = "files" \/ phase = "symbols" \/ phase = "edit"
        \/ phase = "repair" /\ index < plan.repairs
    BY <1>9 DEF AskFails, Asking
  <2>3. outcome = "none"
    BY <2>2 DEF EndInv, Working, Evidence, Generation
  <2>4. calls + 1 <= PlannedCalls(plan)
    <3>1. CASE phase = "reproduction" \/ phase = "exclusions"
      BY <3>1, <2>1, <2>2, <1>p, PlanFacts DEF EvidenceInv, Asked, EvidenceCalls
    <3>2. CASE phase = "files" \/ phase = "symbols"
      BY <3>2, <2>1, <1>p DEF SamplingInv
    <3>3. CASE phase = "edit"
      BY <3>3, <2>1, <1>p, <1>f DEF SamplingInv
    <3>4. CASE phase = "repair" /\ index < plan.repairs
      BY <3>4, <2>1, <1>p, <1>f DEF SamplingInv
    <3> QED BY <2>2, <3>1, <3>2, <3>3, <3>4
  <2> QED
    BY <2>1, <2>3, <2>4 DEF SamplingInv, SamplingIsPredetermined, Evidence, Validation,
                            PlannedCalls, EvidenceCalls
<1>10. CASE Break \/ HandleException \/ Interrupt \/ Leave
  <2>1. /\ UNCHANGED <<plan, calls, rank>> /\ phase' \in {"raising", "leaving", "idle"}
        /\ outcome' = "returned" => outcome = "returned"
    BY <1>10 DEF Break, HandleException, Interrupt, Leave
  <2> QED BY <2>1, <1>k
<1>11. CASE Expire \/ UNCHANGED vars
  <2>1. UNCHANGED <<plan, calls, rank, phase, index, outcome>>
    BY <1>11 DEF Expire, vars
  <2> QED
    BY <2>1 DEF SamplingInv, SamplingIsPredetermined, PlannedCalls, EvidenceCalls, MadeBefore,
                PerEdit
<1> QED
  BY <1>1, <1>2, <1>3, <1>4, <1>5, <1>6, <1>7, <1>8, <1>9, <1>10, <1>11 DEF Next

----------------------------------------------------------------------------
(* The theorems.                                                           *)

\* The parts together are kept by every step, whatever the plans and the samples.
THEOREM WorkflowInvariant == Spec => []WorkflowInv
<1>1. WorkflowInv /\ [Next]_vars => WorkflowInv'
  BY ShapeStep, RunnerStep, EndStep, TrailStep, EvidenceStep, BehindStep
     DEF WorkflowInv
<1> QED BY InitWorkflow, <1>1, PTL DEF Spec

\* No run of a controller leaves its budget runner to the next one, however it ends.
THEOREM RunnerAlwaysRestored == Spec => []RunnerIsRestored
<1>1. WorkflowInv => RunnerIsRestored
  BY DEF WorkflowInv
<1> QED BY WorkflowInvariant, <1>1, PTL

\* A finished run shows its whole export, or failure.json and its budget.
THEOREM RunAlwaysTellsItsEnd == Spec => []RunTellsItsEnd
<1>1. WorkflowInv => RunTellsItsEnd
  BY DEF WorkflowInv, EndInv, RunTellsItsEnd
<1> QED BY WorkflowInvariant, <1>1, PTL

\* A prediction on disk always has its replies, its count of calls, its attempts
\* and its schedule beside it, whatever interrupted the run and when.
THEOREM PredictionAlwaysHasItsTrail == Spec => []PredictionHasItsTrail
<1>1. WorkflowInv => PredictionHasItsTrail
  BY DEF WorkflowInv, TrailInv
<1> QED BY WorkflowInvariant, <1>1, PTL

\* No request for a localization or a repair is made before the evidence on the
\* original revision is complete and frozen.
THEOREM EvidenceAlwaysComesFirst == Spec => []EvidenceComesFirst
<1>1. WorkflowInv => EvidenceComesFirst
  BY DEF WorkflowInv, EvidenceInv
<1> QED BY WorkflowInvariant, <1>1, PTL

\* Once a sample has been tried, no step of that run asks the model, changes the
\* evidence or the schedule.
THEOREM ValidationNeverFeedsBack == Spec => ValidationFeedsNothingBack
<1>1. WorkflowInv /\ [Next]_vars => [ForwardStep]_vars
  BY BehindStep DEF WorkflowInv
<1>2. Spec => [][ForwardStep]_vars
  BY WorkflowInvariant, <1>1, PTL DEF Spec
<1> QED BY <1>2 DEF ValidationFeedsNothingBack, ForwardStep

\* A run makes the requests of its plan and no more: no answer, no verdict and no failure
\* adds one, and a run that returns has made every one of them.
THEOREM SamplingIsAlwaysPredetermined == Spec => []SamplingIsPredetermined
<1>1. Init => SamplingInv
  <2>1. ASSUME Init PROVE SamplingInv
    <3>1. /\ plan \in Plans /\ calls = 0 /\ rank = 0 /\ phase = "idle" /\ outcome = "none"
          /\ PlannedCalls(plan) \in Nat
      BY <2>1, PlannedFacts DEF Init
    <3> QED BY <3>1 DEF SamplingInv, SamplingIsPredetermined, Evidence, Validation
  <2> QED BY <2>1
<1>2. WorkflowInv /\ SamplingInv /\ [Next]_vars => SamplingInv'
  BY SamplingStep DEF WorkflowInv
<1>3. SamplingInv => SamplingIsPredetermined
  BY DEF SamplingInv
<1> QED BY WorkflowInvariant, <1>1, <1>2, <1>3, PTL DEF Spec
----------------------------------------------------------------------------
(* Localization: merged intervals.                                         *)

\* Merging makes up no number that is not an end of an interval.
LEMMA MergeEnds ==
  ASSUME NEW intervals, NEW m \in Merge(intervals)
  PROVE  \E s, t \in intervals : m = <<s[1], t[2]>>
BY DEF Merge

\* Whatever an interval covers, merged intervals cover.
LEMMA MergeCovers ==
  ASSUME NEW bound \in Nat, NEW intervals \in SUBSET ((0..bound) \X (0..bound)),
         NEW s \in intervals, NEW n \in s[1]..s[2]
  PROVE  \E m \in Merge(intervals) : n \in m[1]..m[2]
<1> DEFINE starts == {u[1] : u \in {u \in intervals :
                                \A t \in intervals : t[1] >= u[1] \/ t[2] < u[1]}}
           ends == {u[2] : u \in {u \in intervals :
                                \A t \in intervals : t[1] > u[2] \/ t[2] <= u[2]}}
<1>1. n \in 0..bound /\ s[1] \in 0..bound /\ s[2] \in 0..bound /\ s[1] <= n /\ n <= s[2]
  OBVIOUS
<1>2. \A t \in intervals : t[1] \in 0..bound /\ t[2] \in 0..bound
  OBVIOUS
<1>3. starts \subseteq 0..bound /\ ends \subseteq 0..bound
  BY <1>2
<1>4. PICK a \in starts : a <= n /\ \A c \in starts : c <= n => c <= a
  <2> DEFINE Before == {c \in starts : c <= n}
             Firsts == {t[1] : t \in intervals}
  <2>1. Before # {}
    <3>1. Firsts \in SUBSET Nat /\ Firsts # {}
      BY <1>2
    <3>2. PICK f \in Firsts : \A g \in Firsts : f <= g
      <4> HIDE DEF Firsts
      <4> QED BY <3>1, LeastNumber
    <3>3. PICK u \in intervals : f = u[1]
      BY <3>2
    <3>4. \A t \in intervals : t[1] >= u[1]
      BY <3>2, <3>3, <1>2
    <3>5. u[1] \in starts
      BY <3>4
    <3>6. u[1] <= n
      BY <3>4, <1>1, <1>2
    <3> QED BY <3>5, <3>6
  <2>2. Before \in SUBSET Nat /\ \A c \in Before : c <= bound
    <3>1. ASSUME NEW c \in Before PROVE c \in 0..bound
      BY <1>3
    <3> HIDE DEF Before
    <3> QED BY <3>1
  <2>3. PICK a \in Before : \A c \in Before : c <= a
    <3> HIDE DEF Before
    <3> QED BY <2>1, <2>2, GreatestNumber
  <2> HIDE DEF starts
  <2> QED BY <2>3
<1>5. PICK b \in ends : n <= b /\ \A e \in ends : n <= e => b <= e
  <2> DEFINE After == {e \in ends : n <= e}
             Lasts == {t[2] : t \in intervals}
  <2>1. After # {}
    <3>1. Lasts \in SUBSET Nat /\ Lasts # {} /\ \A l \in Lasts : l <= bound
      BY <1>2
    <3>2. PICK l \in Lasts : \A g \in Lasts : g <= l
      <4> HIDE DEF Lasts
      <4> QED BY <3>1, GreatestNumber
    <3>3. PICK u \in intervals : l = u[2]
      BY <3>2
    <3>4. \A t \in intervals : t[2] <= u[2]
      BY <3>2, <3>3, <1>2
    <3>5. u[2] \in ends
      BY <3>4
    <3>6. n <= u[2]
      BY <3>4, <1>1, <1>2
    <3> QED BY <3>5, <3>6
  <2>2. After \in SUBSET Nat
    <3>1. ASSUME NEW e \in After PROVE e \in 0..bound
      BY <1>3
    <3> HIDE DEF After
    <3> QED BY <3>1
  <2>3. PICK b \in After : \A e \in After : b <= e
    <3> HIDE DEF After
    <3> QED BY <2>1, <2>2, LeastNumber
  <2> HIDE DEF ends
  <2> QED BY <2>3
<1>6. ASSUME NEW c \in starts PROVE c <= a \/ c > b
  <2> SUFFICES ASSUME n < c, c <= b PROVE FALSE
    <3>1. a \in 0..bound /\ b \in 0..bound /\ c \in 0..bound
      BY <1>3, <1>4, <1>5, <1>6
    <3> QED BY <3>1, <1>1, <1>4, <1>6
  <2>1. c \in 0..bound /\ \A t \in intervals : t[1] >= c \/ t[2] < c
    BY <1>2, <1>6
  <2> DEFINE Earlier == {t[2] : t \in {t \in intervals : t[1] < c}}
  <2>2. Earlier \in SUBSET Nat /\ \A l \in Earlier : l <= bound
    BY <1>2
  <2>3. s[2] \in Earlier
    BY <1>1, <2>1
  <2>4. PICK e \in Earlier : \A l \in Earlier : l <= e
    <3> HIDE DEF Earlier
    <3> QED BY <2>2, <2>3, GreatestNumber
  <2>5. PICK u \in intervals : e = u[2] /\ u[1] < c
    BY <2>4
  <2>6. e < c /\ e \in Nat
    BY <2>1, <2>5, <1>2
  <2>7. ASSUME NEW t \in intervals PROVE t[1] > u[2] \/ t[2] <= u[2]
    <3>1. CASE t[1] < c
      BY <3>1, <2>4, <2>5
    <3>2. CASE ~(t[1] < c)
      BY <3>2, <2>1, <2>5, <2>6, <1>2
    <3> QED BY <3>1, <3>2
  <2>8. e \in ends
    BY <2>5, <2>7
  <2>9. n <= e
    <3>1. s[2] <= e
      <4> HIDE DEF Earlier
      <4> QED BY <2>3, <2>4
    <3> QED BY <3>1, <2>6, <1>1
  <2>10. b <= e
    BY <1>5, <2>8, <2>9
  <2>11. b \in 0..bound
    BY <1>3, <1>5
  <2> QED BY <2>1, <2>6, <2>10, <2>11
<1>7. <<a, b>> \in Merge(intervals)
  <2>1. a <= b
    <3>1. a \in 0..bound /\ b \in 0..bound
      BY <1>3, <1>4, <1>5
    <3> QED BY <3>1, <1>1, <1>4, <1>5
  <2>2. <<a, b>> \in starts \X ends /\ <<a, b>>[1] = a /\ <<a, b>>[2] = b
    BY <1>4, <1>5
  <2> QED BY <1>6, <2>1, <2>2 DEF Merge
<1>8. n \in a..b
  <2>1. a \in 0..bound /\ b \in 0..bound
    BY <1>3, <1>4, <1>5
  <2> QED BY <2>1, <1>1, <1>4, <1>5
<1> QED BY <1>7, <1>8

----------------------------------------------------------------------------
(* Localization: what a run may edit.                                      *)

\* The last line that an interval of file f can have.
LastOf(f) == IF language = "python" THEN nodes[f].split ELSE nodes[f].lines

\* What has been fixed so far is about files of the repository.
FilesInv ==
  /\ language \in Languages
  /\ selected \subseteq DOMAIN SourceFiles
  /\ nodes = [f \in selected |-> SourceFiles[f]]
  /\ DOMAIN coarse \subseteq selected
  /\ \A f \in DOMAIN coarse : coarse[f] \subseteq Nat \X (0..LastOf(f))

\* The repair contexts are a list, and there is none before the symbols are located.
ListInv ==
  /\ repairPlan \in Seq({repairPlan[i] : i \in DOMAIN repairPlan})
  /\ stage \in {"files", "symbols"} => repairPlan = <<>> /\ DOMAIN coarse = {}

LocalizeInv == FilesInv /\ ListInv /\ AuthorizedLinesAreShown /\ TargetsAreEditable

LEMMA FileFacts ==
  ASSUME FilesInv, NEW f \in selected
  PROVE  /\ nodes[f] = SourceFiles[f]
         /\ nodes[f].lines \in Nat /\ nodes[f].split \in Nat /\ nodes[f].split >= 1
         /\ LastOf(f) \in Nat
         /\ \A i \in DOMAIN nodes[f].symbols :
              /\ IsRegion(nodes[f].symbols[i])
              /\ language = "python" =>
                   \A j \in DOMAIN nodes[f].symbols[i].children :
                     IsRegion(nodes[f].symbols[i].children[j])
         /\ \A name \in DOMAIN nodes[f].globals : IsRegion(nodes[f].globals[name])
<1>1. nodes[f] = SourceFiles[f] /\ language \in Languages /\ f \in DOMAIN FilesOf[language]
  BY DEF FilesInv, SourceFiles
<1>2. nodes[f] = FilesOf[language][f]
  BY <1>1 DEF SourceFiles
<1>3. nodes[f].lines \in Nat /\ nodes[f].split \in Nat /\ nodes[f].split >= 1
  BY <1>1, <1>2, LocalizeAssumption
<1>4. \A i \in DOMAIN nodes[f].symbols :
        /\ IsRegion(nodes[f].symbols[i])
        /\ language = "python" =>
             \A j \in DOMAIN nodes[f].symbols[i].children :
               IsRegion(nodes[f].symbols[i].children[j])
  BY <1>1, <1>2, LocalizeAssumption
<1>5. \A name \in DOMAIN nodes[f].globals : IsRegion(nodes[f].globals[name])
  BY <1>1, <1>2, LocalizeAssumption
<1> QED BY <1>1, <1>3, <1>4, <1>5 DEF LastOf

----------------------------------------------------------------------------
(* Regions.                                                                *)

\* Both ends of a region are numbers, and but for Python's lines natural ones.
AreRegions(spans) ==
  \A s \in spans : /\ s = <<s[1], s[2]>> /\ s[1] \in Int /\ s[2] \in Int
                   /\ language # "python" => s[1] \in Nat /\ s[2] \in Nat

LEMMA SpansAreRegions ==
  ASSUME NEW symbols, NEW indices, \A i \in indices : IsRegion(symbols[i])
  PROVE  AreRegions(Spans(symbols, indices))
<1>1. ASSUME NEW i \in indices
      PROVE  LET s == Span(symbols[i])
             IN  s = <<s[1], s[2]>> /\ s[1] \in Nat /\ s[2] \in Nat
  BY DEF Span, IsRegion
<1> QED BY <1>1 DEF AreRegions, Spans

LEMMA MethodsAreRegions ==
  ASSUME FilesInv, NEW f \in selected, language = "python",
         NEW classes \in SUBSET DOMAIN nodes[f].symbols, NEW name
  PROVE  AreRegions(MethodSpans(f, classes, name))
<1>1. ASSUME NEW i \in classes
      PROVE  LET methods == nodes[f].symbols[i].children
             IN  AreRegions(Spans(methods, Earliest(Named(methods, name))))
  <2> DEFINE methods == nodes[f].symbols[i].children
  <2>1. \A j \in Earliest(Named(methods, name)) : IsRegion(methods[j])
    BY FileFacts DEF Earliest, Named
  <2> QED BY <2>1, SpansAreRegions
<1> QED BY <1>1 DEF MethodSpans, AreRegions

LEMMA RegionsAreRegions ==
  ASSUME FilesInv, NEW f \in selected, NEW location, location.is = "line" => location.n \in Int,
         NEW scope \in SUBSET DOMAIN nodes[f].symbols
  PROVE  AreRegions(RegionsOf(f, location, scope))
<1> DEFINE name == location.name
           symbols == nodes[f].symbols
           functions == OfKind(f, "function") \cap Named(symbols, name[1])
           methods == UNION {{i} \X Named(symbols[i].children, name[1]) : i \in OfKind(f, "class")}
           globals == nodes[f].globals
           line == <<location.n, location.n>>
<1>1. \A indices \in SUBSET DOMAIN symbols : AreRegions(Spans(symbols, indices))
  <2>1. ASSUME NEW indices \in SUBSET DOMAIN symbols PROVE AreRegions(Spans(symbols, indices))
    <3>1. \A i \in indices : IsRegion(symbols[i])
      BY FileFacts
    <3> QED BY <3>1, SpansAreRegions
  <2> QED BY <2>1
<1>2. AreRegions({})
  BY DEF AreRegions
<1>3. CASE language # "python"
  <2> DEFINE Matches(s) ==
               /\ location.label \in DOMAIN Labels /\ s.kind \in Labels[location.label]
               /\ s.qualified = name \/ (Len(name) = 1 /\ s.name = name)
             matches == {i \in DOMAIN symbols : Matches(symbols[i])}
  <2>1. AreRegions(Spans(symbols, matches))
    <3> HIDE DEF Matches
    <3> QED BY <1>1
  <2>2. ASSUME location.is = "line", location.n \in 1..nodes[f].lines PROVE AreRegions({line})
    <3>1. location.n \in Nat
      BY <2>2, FileFacts
    <3> QED BY <3>1 DEF AreRegions
  <2>3. NeutralRegions(f, location) =
          IF location.is = "line"
            THEN IF location.n \in 1..nodes[f].lines THEN {line} ELSE {}
            ELSE IF Cardinality(matches) = 1 THEN Spans(symbols, matches) ELSE {}
    BY DEF NeutralRegions
  <2> HIDE DEF matches, line
  <2> QED BY <1>2, <1>3, <2>1, <2>2, <2>3 DEF RegionsOf
<1>4. CASE language = "python"
  <2>1. location.is = "line" => AreRegions({line})
    BY <1>4 DEF AreRegions
  <2>2. \A c : Class(f, c) \subseteq DOMAIN symbols
    BY DEF Class, Earliest, Named
  <2>3. \A classes \in SUBSET DOMAIN symbols : \A n : AreRegions(MethodSpans(f, classes, n))
    BY <1>4, MethodsAreRegions
  <2>4. Earliest(functions) \subseteq DOMAIN symbols
    BY DEF Earliest, Named
  <2>5. {m[1] : m \in methods} \subseteq DOMAIN symbols
    BY DEF OfKind
  <2>6. name[1] \in DOMAIN globals => AreRegions({Span(globals[name[1]])})
    <3> SUFFICES ASSUME name[1] \in DOMAIN globals PROVE AreRegions({Span(globals[name[1]])})
      OBVIOUS
    <3>1. IsRegion(globals[name[1]])
      BY FileFacts
    <3> QED BY <3>1 DEF AreRegions, Span, IsRegion
  <2>7. PythonRegions(f, location, scope) =
      IF location.is = "line" THEN {line}
      ELSE IF location.label = "class" /\ Len(name) = 1 THEN Spans(symbols, Class(f, name[1]))
      ELSE IF Len(name) > 1 THEN MethodSpans(f, Class(f, name[1]), name[2])
      ELSE IF location.label = "function" THEN
        IF functions # {} THEN Spans(symbols, Earliest(functions))
        ELSE IF scope # {} THEN MethodSpans(f, scope, name[1])
        ELSE IF Cardinality(methods) = 1 THEN MethodSpans(f, {m[1] : m \in methods}, name[1]) ELSE {}
      ELSE IF location.label = "variable" /\ name[1] \in DOMAIN globals THEN {Span(globals[name[1]])}
      ELSE {}
    BY DEF PythonRegions
  <2> HIDE DEF line, name, functions, methods, globals, symbols
  <2>8. AreRegions(Spans(symbols, Class(f, name[1]))) /\ AreRegions(Spans(symbols, Earliest(functions)))
    BY <1>1, <2>2, <2>4
  <2>9. /\ AreRegions(MethodSpans(f, Class(f, name[1]), name[2]))
        /\ AreRegions(MethodSpans(f, scope, name[1]))
        /\ AreRegions(MethodSpans(f, {m[1] : m \in methods}, name[1]))
    BY <2>2, <2>3, <2>5 DEF symbols
  <2> QED BY <1>2, <1>4, <2>1, <2>6, <2>7, <2>8, <2>9 DEF RegionsOf
<1> QED BY <1>3, <1>4

LEMMA ScopeIsClass ==
  ASSUME NEW f, NEW reply, NEW i
  PROVE  Scope(f, reply, i) \subseteq DOMAIN nodes[f].symbols
<1>1. \A location : ClassNamed(f, location) \subseteq DOMAIN nodes[f].symbols
  BY DEF ClassNamed, Class, Earliest, Named
<1> QED BY <1>1 DEF Scope

----------------------------------------------------------------------------
(* Localization: what intervals show.                                      *)

\* Intervals end in their file, wherever a region was.
LEMMA WidenedIsWithin ==
  ASSUME FilesInv, NEW f \in selected, NEW s, s[1] \in Int, s[2] \in Int,
         language # "python" => s[1] \in Nat /\ s[2] \in Nat
  PROVE  Widened(f, s) \in Nat \X (0..LastOf(f))
<1>1. Window \in Nat /\ nodes[f].lines \in Nat /\ nodes[f].split \in Nat
  BY WindowAssumption, FileFacts
<1>2. CASE language = "python"
  BY <1>1, <1>2 DEF Widened, Least, Most, LastOf
<1>3. CASE language # "python"
  BY <1>1, <1>3 DEF Widened, Least, Most, LastOf
<1> QED BY <1>2, <1>3

LEMMA MergeIsWithin ==
  ASSUME NEW last \in Nat, NEW intervals \in SUBSET (Nat \X (0..last))
  PROVE  Merge(intervals) \subseteq Nat \X (0..last)
<1>1. ASSUME NEW m \in Merge(intervals) PROVE m \in Nat \X (0..last)
  <2>1. PICK s \in intervals, t \in intervals : m = <<s[1], t[2]>>
    BY MergeEnds
  <2>2. s[1] \in Nat /\ t[2] \in 0..last
    OBVIOUS
  <2> QED BY <2>1, <2>2
<1> QED BY <1>1

LEMMA ContextIsWithin ==
  ASSUME FilesInv, NEW regions, DOMAIN regions \subseteq selected,
         \A f \in DOMAIN regions : AreRegions(regions[f])
  PROVE  /\ DOMAIN Context(regions) = {f \in DOMAIN regions : regions[f] # {}}
         /\ \A f \in DOMAIN Context(regions) :
              /\ Context(regions)[f] = Merge({Widened(f, s) : s \in regions[f]})
              /\ Context(regions)[f] \subseteq Nat \X (0..LastOf(f))
<1>1. DOMAIN Context(regions) = {f \in DOMAIN regions : regions[f] # {}}
  BY DEF Context
<1>2. ASSUME NEW f \in DOMAIN Context(regions)
      PROVE  /\ Context(regions)[f] = Merge({Widened(f, s) : s \in regions[f]})
             /\ Context(regions)[f] \subseteq Nat \X (0..LastOf(f))
  <2> DEFINE intervals == {Widened(f, s) : s \in regions[f]}
  <2>1. f \in selected /\ AreRegions(regions[f])
    BY <1>1
  <2>2. \A s \in regions[f] : Widened(f, s) \in Nat \X (0..LastOf(f))
    BY <2>1, WidenedIsWithin DEF AreRegions
  <2>3. intervals \in SUBSET (Nat \X (0..LastOf(f)))
    BY <2>2
  <2>4. Context(regions)[f] = Merge(intervals)
    BY <1>1 DEF Context
  <2>5. LastOf(f) \in Nat
    BY <2>1, FileFacts
  <2> HIDE DEF intervals
  <2>6. Merge(intervals) \subseteq Nat \X (0..LastOf(f))
    BY <2>3, <2>5, MergeIsWithin
  <2> QED BY <2>4, <2>6 DEF intervals
<1> QED BY <1>1, <1>2

\* What an interval lets a repair edit is rendered.
LEMMA RenderedCovers ==
  ASSUME NEW f, NEW intervals \in SUBSET (Nat \X Nat), nodes[f].split \in Nat,
         NEW s \in intervals, NEW l \in 1..nodes[f].split,
         l \in FromOne(f, s)[1]..FromOne(f, s)[2] \/ l \in Shown(f, s)[1]..Shown(f, s)[2]
  PROVE  l \in RenderedLines(f, intervals)
<1>1. s[1] \in Nat /\ s[2] \in Nat
  OBVIOUS
<1>2. l >= s[1] /\ l <= s[2]
  BY <1>1 DEF FromOne, Shown, Most, Least
<1> QED BY <1>2 DEF RenderedLines

\* The lines of a context that may be edited are shown.
LEMMA ContextIsShown ==
  ASSUME FilesInv, NEW context, DOMAIN context \subseteq selected,
         \A f \in DOMAIN context : context[f] \subseteq Nat \X (0..LastOf(f)),
         NEW visible \in BOOLEAN, NEW f \in DOMAIN context
  PROVE  /\ DOMAIN Over(context, visible) = DOMAIN context
         /\ DOMAIN Rendered(context) = DOMAIN context
         /\ Rendered(context)[f] = RenderedLines(f, context[f])
         /\ LinesOf(Over(context, visible)[f]) \cap (1..nodes[f].split) \subseteq Rendered(context)[f]
<1>1. DOMAIN Over(context, visible) = DOMAIN context /\ DOMAIN Rendered(context) = DOMAIN context
  BY DEF Over, Rendered
<1>2. Rendered(context)[f] = RenderedLines(f, context[f])
  BY DEF Rendered
<1>3. nodes[f].split \in Nat /\ LastOf(f) \in Nat
  BY FileFacts
<1>4. context[f] \in SUBSET (Nat \X Nat)
  BY <1>3
<1>5. ASSUME NEW l \in LinesOf(Over(context, visible)[f]) \cap (1..nodes[f].split)
      PROVE  l \in RenderedLines(f, context[f])
  <2>1. PICK s \in context[f] :
          LET shown == IF visible THEN Shown(f, s) ELSE FromOne(f, s)
          IN  l \in shown[1]..shown[2]
    BY DEF LinesOf, Over
  <2>2. l \in FromOne(f, s)[1]..FromOne(f, s)[2] \/ l \in Shown(f, s)[1]..Shown(f, s)[2]
    BY <2>1
  <2> QED BY <1>3, <1>4, <2>2, RenderedCovers
<1> QED BY <1>1, <1>2, <1>5

----------------------------------------------------------------------------
(* The steps.                                                              *)

\* A list with one more element.
LEMMA OneMoreContext ==
  ASSUME ListInv, NEW entry
  PROVE  LET longer == Append(repairPlan, entry)
         IN  /\ longer \in Seq({longer[i] : i \in DOMAIN longer})
             /\ DOMAIN longer = DOMAIN repairPlan \cup {Len(repairPlan) + 1}
             /\ longer[Len(repairPlan) + 1] = entry
             /\ \A i \in DOMAIN repairPlan : longer[i] = repairPlan[i]
<1> DEFINE S == {repairPlan[i] : i \in DOMAIN repairPlan}
           longer == Append(repairPlan, entry)
           T == {longer[i] : i \in DOMAIN longer}
<1>1. repairPlan \in Seq(S \cup {entry}) /\ entry \in S \cup {entry}
  <2> HIDE DEF S
  <2>1. repairPlan \in Seq(S)
    BY DEF ListInv, S
  <2> QED BY <2>1
<1> HIDE DEF S
<1>2. longer \in Seq(S \cup {entry}) /\ Len(longer) = Len(repairPlan) + 1
  BY <1>1
<1>3. longer[Len(repairPlan) + 1] = entry /\ \A i \in 1..Len(repairPlan) : longer[i] = repairPlan[i]
  BY <1>1
<1>4. DOMAIN longer = 1..Len(longer) /\ DOMAIN repairPlan = 1..Len(repairPlan)
  BY <1>1, <1>2
<1>5. longer = [i \in 1..Len(longer) |-> longer[i]] /\ Len(longer) \in Nat
  <2> HIDE DEF longer, T
  <2> QED BY <1>2
<1>6. longer \in [1..Len(longer) -> T]
  BY <1>4, <1>5
<1>7. longer \in Seq(T)
  <2> HIDE DEF T, longer
  <2> QED BY <1>5, <1>6
<1>8. Len(repairPlan) \in Nat
  BY <1>1
<1> QED BY <1>2, <1>3, <1>4, <1>7, <1>8

\* Nothing that the properties are about changes if a run fails.
LEMMA FailKeeps == LocalizeInv /\ FailToLocalize => LocalizeInv'
<1> SUFFICES ASSUME LocalizeInv, FailToLocalize PROVE LocalizeInv'
  OBVIOUS
<1>1. UNCHANGED <<language, selected, nodes, coarse, repairPlan>> /\ stage' = "failed"
  BY DEF FailToLocalize
<1>2. FilesInv'
  BY <1>1 DEF LocalizeInv, FilesInv, SourceFiles, LastOf
<1>3. ListInv'
  BY <1>1 DEF LocalizeInv, ListInv
<1>4. AuthorizedLinesAreShown'
  BY <1>1 DEF LocalizeInv, AuthorizedLinesAreShown, LinesOf
<1>5. TargetsAreEditable'
  BY <1>1 DEF LocalizeInv, TargetsAreEditable, LinesOf, RenderedLines, Most
<1> QED BY <1>2, <1>3, <1>4, <1>5 DEF LocalizeInv

LEMMA FileStep ==
  ASSUME LocalizeInv, NEW reply, FileReply(reply)
  PROVE  LocalizeInv'
<1>1. CASE FailToLocalize
  BY <1>1, FailKeeps
<1>2. CASE ~FailToLocalize
  <2> DEFINE chosen == ParseFiles(reply)
  <2>1. /\ stage = "files" /\ stage' = "symbols"
        /\ selected' = chosen /\ nodes' = [f \in chosen |-> SourceFiles[f]]
        /\ UNCHANGED <<language, coarse, repairPlan>>
    BY <1>2 DEF FileReply, Localize
  <2>2. chosen \subseteq DOMAIN SourceFiles
    BY DEF ParseFiles, Known
  <2>3. repairPlan = <<>> /\ DOMAIN coarse = {}
    BY <2>1 DEF LocalizeInv, ListInv
  <2> HIDE DEF chosen
  <2>4. FilesInv'
    BY <2>1, <2>2, <2>3 DEF LocalizeInv, FilesInv, SourceFiles
  <2>5. ListInv'
    BY <2>1, <2>3 DEF LocalizeInv, ListInv
  <2>6. DOMAIN repairPlan' = {}
    BY <2>1, <2>3
  <2> QED BY <2>4, <2>5, <2>6 DEF LocalizeInv, AuthorizedLinesAreShown, TargetsAreEditable
<1> QED BY <1>1, <1>2

LEMMA SymbolStep ==
  ASSUME LocalizeInv, NEW reply \in SymbolReplies[language], SymbolReply(reply)
  PROVE  LocalizeInv'
<1> DEFINE regions == SymbolRegions(reply)
           context == Context(regions)
           entry == [shown |-> Rendered(context), authorized |-> Over(context, FALSE),
                     targets |-> <<>>]
<1>1. CASE FailToLocalize
  BY <1>1, FailKeeps
<1>2. CASE ~FailToLocalize
  <2>1. /\ stage = "symbols" /\ stage' \in {"repair", "edit"}
        /\ coarse' = context
        /\ repairPlan' = IF mode # "coarse" THEN repairPlan ELSE <<entry>>
        /\ UNCHANGED <<language, selected, nodes>>
    BY <1>2 DEF SymbolReply
  <2>2. FilesInv /\ repairPlan = <<>>
    BY <2>1 DEF LocalizeInv, ListInv
  <2>3. DOMAIN regions = selected
    BY DEF SymbolRegions
  <2>4. ASSUME NEW f \in selected PROVE AreRegions(regions[f])
    <3>1. ASSUME NEW i \in LocationsOf(f, reply)
          PROVE  AreRegions(RegionsOf(f, reply[i], Scope(f, reply, i)))
      <4>1. reply[i].is = "line" => reply[i].n \in Int
        BY <2>2, LocalizeAssumption DEF LocationsOf, FilesInv
      <4>2. Scope(f, reply, i) \in SUBSET DOMAIN nodes[f].symbols
        BY ScopeIsClass
      <4> QED BY <2>2, <4>1, <4>2, RegionsAreRegions
    <3>2. regions[f] = UNION {RegionsOf(f, reply[i], Scope(f, reply, i)) : i \in LocationsOf(f, reply)}
      BY DEF SymbolRegions
    <3> QED BY <3>1, <3>2 DEF AreRegions
  <2> HIDE DEF regions
  <2>5. /\ DOMAIN context \subseteq selected
        /\ \A f \in DOMAIN context : context[f] \subseteq Nat \X (0..LastOf(f))
    BY <2>2, <2>3, <2>4, ContextIsWithin
  <2> HIDE DEF context
  <2>6. FilesInv'
    BY <2>1, <2>2, <2>5 DEF FilesInv, SourceFiles, LastOf
  <2>7. CASE mode # "coarse"
    <3>1. repairPlan' = <<>>
      BY <2>1, <2>2, <2>7
    <3>2. ListInv'
      <4>1. stage' # "files" /\ stage' # "symbols"
        <5>1. stage' \in {"repair", "edit"}
          BY <2>1
        <5> QED BY <5>1
      <4>2. repairPlan' \in Seq({repairPlan'[i] : i \in DOMAIN repairPlan'})
        BY <3>1
      <4> QED BY <4>1, <4>2 DEF ListInv
    <3> QED BY <2>6, <3>1, <3>2 DEF LocalizeInv, AuthorizedLinesAreShown, TargetsAreEditable
  <2>8. CASE mode = "coarse"
    <3>1. repairPlan' = <<entry>> /\ DOMAIN repairPlan' = {1} /\ repairPlan'[1] = entry
      BY <2>1, <2>8
    <3>2. ListInv'
      <4> HIDE DEF entry
      <4>1. {repairPlan'[i] : i \in DOMAIN repairPlan'} = {entry}
        BY <3>1
      <4>2. repairPlan' \in Seq({entry})
        BY <3>1
      <4>3. stage' # "files" /\ stage' # "symbols"
        BY <2>1
      <4> QED BY <4>1, <4>2, <4>3 DEF ListInv
    <3>3. /\ DOMAIN entry.authorized = DOMAIN context /\ DOMAIN entry.shown = DOMAIN context
          /\ \A f \in DOMAIN context :
               LinesOf(entry.authorized[f]) \cap (1..nodes[f].split) \subseteq entry.shown[f]
      <4>1. entry.authorized = Over(context, FALSE) /\ entry.shown = Rendered(context)
        OBVIOUS
      <4>2. \A f \in DOMAIN context :
              /\ DOMAIN Over(context, FALSE) = DOMAIN context
              /\ DOMAIN Rendered(context) = DOMAIN context
              /\ LinesOf(Over(context, FALSE)[f]) \cap (1..nodes[f].split) \subseteq Rendered(context)[f]
        BY <2>2, <2>5, ContextIsShown
      <4>3. DOMAIN Over(context, FALSE) = DOMAIN context /\ DOMAIN Rendered(context) = DOMAIN context
        BY DEF Over, Rendered
      <4> QED BY <4>1, <4>2, <4>3
    <3>4. entry.targets = <<>> /\ DOMAIN entry.targets = {}
      OBVIOUS
    <3> HIDE DEF entry
    <3>5. AuthorizedLinesAreShown'
      BY <2>1, <3>1, <3>3 DEF AuthorizedLinesAreShown, LinesOf
    <3>6. TargetsAreEditable'
      BY <3>1, <3>4 DEF TargetsAreEditable
    <3> QED BY <2>6, <3>2, <3>5, <3>6 DEF LocalizeInv
  <2> QED BY <2>7, <2>8
<1> QED BY <1>1, <1>2

\* A line of the file is its own region.
LEMMA LineRegion ==
  ASSUME FilesInv, NEW f \in selected, NEW n \in 1..LastOf(f)
  PROVE  /\ RegionsOf(f, [is |-> "line", n |-> n], {}) = {<<n, n>>}
         /\ Widened(f, <<n, n>>) \in (0..LastOf(f)) \X (0..LastOf(f))
         /\ n \in Widened(f, <<n, n>>)[1]..Widened(f, <<n, n>>)[2]
<1>1. Window \in Nat /\ nodes[f].lines \in Nat /\ nodes[f].split \in Nat /\ LastOf(f) \in Nat
  BY WindowAssumption, FileFacts
<1>2. CASE language = "python"
  <2>1. RegionsOf(f, [is |-> "line", n |-> n], {}) = {<<n, n>>}
    BY <1>2 DEF RegionsOf, PythonRegions
  <2> QED BY <1>1, <1>2, <2>1 DEF Widened, Least, Most, LastOf
<1>3. CASE language # "python"
  <2>1. RegionsOf(f, [is |-> "line", n |-> n], {}) = {<<n, n>>}
    BY <1>3 DEF RegionsOf, NeutralRegions, LastOf
  <2> QED BY <1>1, <1>3, <2>1 DEF Widened, Least, Most, LastOf
<1> QED BY <1>2, <1>3

\* A line that a reply names was shown, and is in its file however lines are counted.
LEMMA TargetWasShown ==
  ASSUME FilesInv, NEW reply \in EditReplies[language], \A i \in DOMAIN reply : IsTarget(reply, i),
         NEW f \in DOMAIN ParseTargets(reply), NEW n \in ParseTargets(reply)[f]
  PROVE  /\ n \in 1..LastOf(f) /\ n \in 1..nodes[f].split
         /\ n \in RenderedLines(f, coarse[f])
<1>1. f \in DOMAIN VisibleIntervals
      /\ \E i \in DOMAIN reply : reply[i].is = "line" /\ f \in TargetFile(reply, i) /\ n = reply[i].n
  BY DEF ParseTargets
<1>2. PICK i \in DOMAIN reply : reply[i].is = "line" /\ f \in TargetFile(reply, i) /\ n = reply[i].n
  BY <1>1
<1>3. DOMAIN VisibleIntervals = DOMAIN coarse /\ f \in DOMAIN coarse /\ f \in selected
  BY <1>1 DEF VisibleIntervals, Over, FilesInv
<1>4. language \in Languages /\ \A j \in DOMAIN reply : j \in Nat
  BY LocalizeAssumption DEF FilesInv
<1>5. i \in Nat /\ n \in Int
  BY <1>2, <1>4, LocalizeAssumption
<1>6. ASSUME NEW g \in TargetFile(reply, i) PROVE g = f
  <2> DEFINE headings == {j \in 1..i : reply[j].is \in {"file", "boundary"}}
  <2>1. PICK j \in Latest(headings) : g = reply[j].path
    BY DEF TargetFile
  <2>2. PICK k \in Latest(headings) : f = reply[k].path
    BY <1>2 DEF TargetFile
  <2>3. j \in 1..i /\ k \in 1..i /\ j <= k /\ k <= j
    BY <2>1, <2>2 DEF Latest
  <2>4. j = k
    BY <1>5, <2>3
  <2> QED BY <2>1, <2>2, <2>4
<1>7. n >= 1 /\ n \in LinesOf(VisibleIntervals[f])
  BY <1>2, <1>6 DEF IsTarget
<1>8. PICK s \in coarse[f] : n \in Shown(f, s)[1]..Shown(f, s)[2]
  BY <1>3, <1>7 DEF VisibleIntervals, Over, LinesOf
<1>9. nodes[f].split \in Nat /\ LastOf(f) \in Nat
  BY <1>3, FileFacts
<1>10. coarse[f] \subseteq Nat \X (0..LastOf(f))
  BY <1>3 DEF FilesInv
<1>11. s[1] \in Nat /\ s[2] \in 0..LastOf(f)
  BY <1>8, <1>10
<1>12. n <= nodes[f].split /\ n <= LastOf(f)
  BY <1>5, <1>8, <1>9, <1>11 DEF Shown, Least, Most
<1>13. n \in 1..nodes[f].split /\ n \in 1..LastOf(f)
  BY <1>5, <1>7, <1>9, <1>12
<1>14. coarse[f] \in SUBSET (Nat \X Nat)
  BY <1>9, <1>10
<1>15. n \in RenderedLines(f, coarse[f])
  BY <1>8, <1>9, <1>13, <1>14, RenderedCovers
<1> QED BY <1>13, <1>15

\* A line inside an interval of a context may be edited if the file has it.
LEMMA ContextHasLine ==
  ASSUME FilesInv, NEW context, DOMAIN context \subseteq selected,
         \A f \in DOMAIN context : context[f] \subseteq Nat \X (0..LastOf(f)),
         NEW f \in DOMAIN context, NEW n \in 1..nodes[f].split,
         \E s \in context[f] : n \in s[1]..s[2]
  PROVE  n \in LinesOf(Over(context, TRUE)[f])
<1>1. PICK s \in context[f] : n \in s[1]..s[2]
  OBVIOUS
<1>2. nodes[f].split \in Nat /\ LastOf(f) \in Nat
  BY FileFacts
<1>3. s[1] \in Nat /\ s[2] \in Nat
  BY <1>2
<1>4. n \in Shown(f, s)[1]..Shown(f, s)[2]
  BY <1>1, <1>2, <1>3 DEF Shown, Most, Least
<1>5. Over(context, TRUE)[f] = {Shown(f, t) : t \in context[f]}
  BY DEF Over
<1>6. Shown(f, s) \in Over(context, TRUE)[f]
  BY <1>5
<1> QED BY <1>4, <1>6 DEF LinesOf

\* The context of a reply covers each line the reply names.
LEMMA TargetsAreCovered ==
  ASSUME FilesInv, NEW targets, DOMAIN targets \subseteq selected,
         \A f \in DOMAIN targets : targets[f] \subseteq 1..LastOf(f),
         NEW f \in DOMAIN targets, NEW n \in targets[f]
  PROVE  /\ DOMAIN TargetRegions(targets) = DOMAIN targets
         /\ AreRegions(TargetRegions(targets)[f])
         /\ f \in DOMAIN Context(TargetRegions(targets))
         /\ \E s \in Context(TargetRegions(targets))[f] : n \in s[1]..s[2]
<1> DEFINE regions == TargetRegions(targets)
           intervals == {Widened(f, s) : s \in regions[f]}
<1>1. DOMAIN regions = DOMAIN targets
      /\ regions[f] = UNION {RegionsOf(f, [is |-> "line", n |-> k], {}) : k \in targets[f]}
  BY DEF TargetRegions
<1>2. \A k \in targets[f] : RegionsOf(f, [is |-> "line", n |-> k], {}) = {<<k, k>>}
  BY LineRegion
<1>3. regions[f] = {<<k, k>> : k \in targets[f]}
  <2>1. regions[f] = UNION {{<<k, k>>} : k \in targets[f]}
    BY <1>1, <1>2
  <2> HIDE DEF regions
  <2> QED BY <2>1
<1>4. LastOf(f) \in Nat /\ \A k \in targets[f] : k \in Nat
  BY FileFacts
<1> HIDE DEF regions
<1>5. AreRegions(regions[f])
  BY <1>3, <1>4 DEF AreRegions
<1>6. f \in DOMAIN Context(regions) /\ Context(regions)[f] = Merge(intervals)
  <2>1. regions[f] # {}
    BY <1>3
  <2>2. f \in {g \in DOMAIN regions : regions[g] # {}}
    BY <1>1, <2>1
  <2> QED BY <2>2 DEF Context
<1>7. intervals = {Widened(f, <<k, k>>) : k \in targets[f]}
  BY <1>3
<1>8. /\ intervals \in SUBSET ((0..LastOf(f)) \X (0..LastOf(f)))
      /\ \E s \in intervals : n \in s[1]..s[2]
  <2> HIDE DEF intervals
  <2>1. \A k \in targets[f] : /\ Widened(f, <<k, k>>) \in (0..LastOf(f)) \X (0..LastOf(f))
                               /\ k \in Widened(f, <<k, k>>)[1]..Widened(f, <<k, k>>)[2]
    BY LineRegion
  <2> QED BY <1>7, <2>1
<1> HIDE DEF intervals
<1>9. \E s \in Merge(intervals) : n \in s[1]..s[2]
  BY <1>4, <1>8, MergeCovers
<1> QED BY <1>1, <1>5, <1>6, <1>9 DEF regions
LEMMA EditStep ==
  ASSUME LocalizeInv, NEW reply \in EditReplies[language], EditReply(reply)
  PROVE  LocalizeInv'
<1> DEFINE targets == ParseTargets(reply)
           regions == TargetRegions(targets)
           context == Context(regions)
           entry == Entry(regions, targets)
           last == Len(repairPlan) + 1
<1>1. CASE FailToLocalize
  BY <1>1, FailKeeps
<1>2. CASE ~FailToLocalize
  <2>1. /\ stage = "edit" /\ stage' \in {"repair", "edit"}
        /\ repairPlan' = Append(repairPlan, entry)
        /\ \A i \in DOMAIN reply : IsTarget(reply, i)
        /\ UNCHANGED <<language, selected, nodes, coarse>>
    BY <1>2 DEF EditReply
  <2>2. FilesInv /\ ListInv
    BY DEF LocalizeInv
  <2>3. DOMAIN targets \subseteq selected /\ DOMAIN targets \subseteq DOMAIN coarse
    BY <2>2 DEF ParseTargets, VisibleIntervals, Over, FilesInv
  <2>4. \A f \in DOMAIN targets : \A n \in targets[f] :
          /\ n \in 1..LastOf(f) /\ n \in 1..nodes[f].split
          /\ n \in RenderedLines(f, coarse[f])
    BY <2>1, <2>2, TargetWasShown
  <2> HIDE DEF targets
  <2>5. \A f \in DOMAIN targets : targets[f] \subseteq 1..LastOf(f)
    BY <2>4
  <2>6. DOMAIN regions = DOMAIN targets
    BY DEF TargetRegions
  <2>7. ASSUME NEW f \in DOMAIN targets PROVE AreRegions(regions[f])
    <3>1. targets[f] = {} => regions[f] = {}
      BY DEF TargetRegions
    <3>2. CASE targets[f] = {}
      BY <3>1, <3>2 DEF AreRegions
    <3>3. CASE targets[f] # {}
      BY <2>2, <2>3, <2>5, <3>3, TargetsAreCovered
    <3> QED BY <3>2, <3>3
  <2> HIDE DEF regions
  <2>8. /\ DOMAIN context \subseteq selected
        /\ \A f \in DOMAIN context : context[f] \subseteq Nat \X (0..LastOf(f))
    BY <2>2, <2>3, <2>6, <2>7, ContextIsWithin
  <2>9. entry = [shown |-> Rendered(context), authorized |-> Over(context, TRUE),
                 targets |-> targets]
    BY DEF Entry
  <2>10. ASSUME NEW f \in DOMAIN targets, NEW n \in targets[f]
         PROVE  f \in DOMAIN context /\ \E s \in context[f] : n \in s[1]..s[2]
    BY <2>2, <2>3, <2>5, TargetsAreCovered DEF regions
  <2> HIDE DEF context
  <2>11. ASSUME NEW f \in DOMAIN context
         PROVE  /\ DOMAIN Over(context, TRUE) = DOMAIN context
                /\ DOMAIN Rendered(context) = DOMAIN context
                /\ LinesOf(Over(context, TRUE)[f]) \cap (1..nodes[f].split) \subseteq Rendered(context)[f]
    BY <2>2, <2>8, ContextIsShown
  <2>12. DOMAIN Over(context, TRUE) = DOMAIN context
    BY DEF Over
  <2>13. entry.authorized = Over(context, TRUE) /\ entry.shown = Rendered(context)
         /\ entry.targets = targets
    BY <2>9
  <2>14. \A f \in DOMAIN targets : targets[f] # {}
    <3> USE DEF targets
    <3>1. ASSUME NEW f \in DOMAIN targets PROVE targets[f] # {}
      <4> DEFINE lines == {i \in DOMAIN reply : reply[i].is = "line" /\ f \in TargetFile(reply, i)}
      <4>1. lines # {} /\ targets[f] = {reply[i].n : i \in lines}
        BY DEF ParseTargets
      <4> HIDE DEF lines, targets
      <4> QED BY <4>1
    <3> QED BY <3>1
  <2> HIDE DEF entry
  <2>15. \A f \in DOMAIN entry.authorized :
           /\ f \in DOMAIN entry.shown
           /\ LinesOf(entry.authorized[f]) \cap (1..nodes[f].split) \subseteq entry.shown[f]
    BY <2>11, <2>12, <2>13
  <2>16. ASSUME NEW f \in DOMAIN entry.targets
         PROVE  /\ f \in DOMAIN coarse /\ entry.targets[f] \subseteq RenderedLines(f, coarse[f])
                /\ f \in DOMAIN entry.authorized
                /\ entry.targets[f] \subseteq LinesOf(entry.authorized[f])
    <3>1. f \in DOMAIN targets /\ f \in DOMAIN context
      BY <2>10, <2>13, <2>14
    <3>2. ASSUME NEW n \in targets[f] PROVE n \in LinesOf(Over(context, TRUE)[f])
      BY <2>2, <2>4, <2>8, <2>10, <3>1, ContextHasLine
    <3> QED BY <2>3, <2>4, <2>12, <2>13, <3>1, <3>2
  <2>17. /\ repairPlan' \in Seq({repairPlan'[i] : i \in DOMAIN repairPlan'})
         /\ DOMAIN repairPlan' = DOMAIN repairPlan \cup {last}
         /\ repairPlan'[last] = entry
         /\ \A i \in DOMAIN repairPlan : repairPlan'[i] = repairPlan[i]
    <3> DEFINE longer == Append(repairPlan, entry)
    <3>1. /\ longer \in Seq({longer[i] : i \in DOMAIN longer})
          /\ DOMAIN longer = DOMAIN repairPlan \cup {last}
          /\ longer[last] = entry
          /\ \A i \in DOMAIN repairPlan : longer[i] = repairPlan[i]
      BY <2>2, OneMoreContext
    <3>2. repairPlan' = longer
      BY <2>1
    <3> HIDE DEF longer, last
    <3> QED BY <3>1, <3>2
  <2> HIDE DEF last
  <2>18. FilesInv'
    BY <2>1, <2>2 DEF FilesInv, SourceFiles, LastOf
  <2>19. ListInv'
    <3>1. stage' # "files" /\ stage' # "symbols"
      <4>1. stage' \in {"repair", "edit"}
        BY <2>1
      <4> QED BY <4>1
    <3> QED BY <2>17, <3>1 DEF ListInv
  <2>20. AuthorizedLinesAreShown'
    <3>1. AuthorizedLinesAreShown
      BY DEF LocalizeInv
    <3>2. ASSUME NEW i \in DOMAIN repairPlan', NEW f \in DOMAIN repairPlan'[i].authorized
          PROVE  /\ f \in DOMAIN repairPlan'[i].shown
                 /\ LinesOf(repairPlan'[i].authorized[f]) \cap (1..nodes[f].split)
                      \subseteq repairPlan'[i].shown[f]
      <4>1. CASE i = last
        BY <2>15, <2>17, <4>1
      <4>2. CASE i \in DOMAIN repairPlan
        BY <2>17, <3>1, <4>2 DEF AuthorizedLinesAreShown
      <4> QED BY <2>17, <4>1, <4>2
    <3> QED BY <2>1, <3>2 DEF AuthorizedLinesAreShown, LinesOf
  <2>21. TargetsAreEditable'
    <3>1. TargetsAreEditable
      BY DEF LocalizeInv
    <3>2. ASSUME NEW i \in DOMAIN repairPlan', NEW f \in DOMAIN repairPlan'[i].targets
          PROVE  /\ f \in DOMAIN coarse
                 /\ repairPlan'[i].targets[f] \subseteq RenderedLines(f, coarse[f])
                 /\ f \in DOMAIN repairPlan'[i].authorized
                 /\ repairPlan'[i].targets[f] \subseteq LinesOf(repairPlan'[i].authorized[f])
      <4>1. CASE i = last
        BY <2>16, <2>17, <4>1
      <4>2. CASE i \in DOMAIN repairPlan
        BY <2>17, <3>1, <4>2 DEF TargetsAreEditable
      <4> QED BY <2>17, <4>1, <4>2
    <3> QED BY <2>1, <3>2 DEF TargetsAreEditable, LinesOf, RenderedLines, Most
  <2> QED BY <2>18, <2>19, <2>20, <2>21 DEF LocalizeInv
<1> QED BY <1>1, <1>2

----------------------------------------------------------------------------
(* Localization: every run.                                                *)

\* A run begins with nothing localized.
LEMMA LocalizeBegins == LocalizeInit => LocalizeInv
<1> SUFFICES ASSUME LocalizeInit PROVE LocalizeInv
  OBVIOUS
<1>1. /\ language \in Languages /\ selected = {}
      /\ nodes = <<>> /\ coarse = <<>> /\ repairPlan = <<>>
  BY DEF LocalizeInit
<1>2. DOMAIN nodes = {} /\ DOMAIN coarse = {} /\ DOMAIN repairPlan = {}
  BY <1>1
<1>3. nodes = [f \in {} |-> SourceFiles[f]]
  BY <1>1
<1>4. FilesInv
  BY <1>1, <1>2, <1>3 DEF FilesInv
<1>5. repairPlan \in Seq({repairPlan[i] : i \in DOMAIN repairPlan})
  BY <1>1
<1>6. ListInv
  BY <1>1, <1>2, <1>5 DEF ListInv
<1>7. AuthorizedLinesAreShown /\ TargetsAreEditable
  BY <1>2 DEF AuthorizedLinesAreShown, TargetsAreEditable
<1> QED BY <1>4, <1>6, <1>7 DEF LocalizeInv

LEMMA LocalizeStep == LocalizeInv /\ [LocalizeNext]_lvars => LocalizeInv'
<1> SUFFICES ASSUME LocalizeInv, [LocalizeNext]_lvars PROVE LocalizeInv'
  OBVIOUS
<1>1. CASE \E reply \in FileReplies[language] : FileReply(reply)
  BY <1>1, FileStep
<1>2. CASE \E reply \in SymbolReplies[language] : SymbolReply(reply)
  BY <1>2, SymbolStep
<1>3. CASE \E reply \in EditReplies[language] : EditReply(reply)
  BY <1>3, EditStep
<1>4. CASE UNCHANGED lvars
  <2>1. UNCHANGED <<language, stage, selected, nodes, coarse, repairPlan>>
    BY <1>4 DEF lvars
  <2>2. FilesInv'
    BY <2>1 DEF LocalizeInv, FilesInv, SourceFiles, LastOf
  <2>3. ListInv'
    BY <2>1 DEF LocalizeInv, ListInv
  <2>4. AuthorizedLinesAreShown'
    BY <2>1 DEF LocalizeInv, AuthorizedLinesAreShown, LinesOf
  <2>5. TargetsAreEditable'
    BY <2>1 DEF LocalizeInv, TargetsAreEditable, LinesOf, RenderedLines, Most
  <2> QED BY <2>2, <2>3, <2>4, <2>5 DEF LocalizeInv
<1> QED BY <1>1, <1>2, <1>3, <1>4 DEF LocalizeNext

\* Whatever the localization replies are and in any repository, what a run has selected,
\* parsed and located is about lines of its files, and the two properties below hold.
THEOREM LocalizeInvariant == LocalizeSpec => []LocalizeInv
BY LocalizeBegins, LocalizeStep, PTL DEF LocalizeSpec

\* No repair can be authorized to edit a line that its own prompt does not show.
THEOREM AuthorizedLinesAlwaysShown == LocalizeSpec => []AuthorizedLinesAreShown
<1>1. LocalizeInv => AuthorizedLinesAreShown
  BY DEF LocalizeInv
<1> QED BY <1>1, LocalizeInvariant, PTL

\* A line that an accepted reply names was in the numbered context, and may be edited by
\* the repair it is named for.
THEOREM TargetsAlwaysEditable == LocalizeSpec => []TargetsAreEditable
<1>1. LocalizeInv => TargetsAreEditable
  BY DEF LocalizeInv
<1> QED BY <1>1, LocalizeInvariant, PTL

----------------------------------------------------------------------------
(* Program structure: the languages.                                       *)

\* The kinds a rule can give to what declares itself.
KindsOf(rule) ==
  {rule.kind} \cup {rule.typed[type] : type \in DOMAIN rule.typed}
    \cup {rule.within[kind] : kind \in DOMAIN rule.within}

\* What no rule declares: a container whose members are in a body that is hidden.
RuleIsOpen(spec, type, rule) ==
  IF rule.form \in {"declares", "each"}
    THEN KindsOf(rule) \cap DOMAIN spec.containers = {}
           \/ type \in DOMAIN spec.declarations \ spec.elided
    ELSE /\ type \notin spec.elided
         /\ rule.kind \notin DOMAIN spec.containers
         /\ \A value \in DOMAIN rule.values :
              rule.values[value] \in DOMAIN spec.containers =>
                /\ value \notin spec.elided
                /\ \/ spec.containers[rule.values[value]] = ""
                   \/ value \in DOMAIN spec.declarations

SpecIsOpen(spec) ==
  /\ \A type \in DOMAIN spec.declarations : RuleIsOpen(spec, type, spec.declarations[type])
  /\ \A type \in DOMAIN spec.members : RuleIsOpen(spec, type, spec.members[type])
  /\ DOMAIN spec.wrappers \cap spec.elided = {}
  /\ "assignment_expression" \notin spec.elided
  /\ "constant" \notin DOMAIN spec.containers

\* A rule that leaves a slot at its default has no table of kinds.
LEMMA EmptyTable == DOMAIN NoKinds = {}
BY DEF NoKinds

LEMMA GoIsOpen == SpecIsOpen(Go)
<1>1. DOMAIN Go.members = {"method_elem"} /\ DOMAIN Go.wrappers \cap Go.elided = {}
  BY DEF Go, AllTo
<1>2. DOMAIN Go.containers = {"interface"}
  BY DEF Go
<1>3. DOMAIN Go.declarations = {"function_declaration", "method_declaration", "type_spec", "type_alias",
                                "var_spec", "const_spec"}
  BY DEF Go
<1>4. Go.elided = {"function_declaration", "method_declaration"}
  BY DEF Go
<1>5. Go.declarations["function_declaration"] = Declares("function")
  BY DEF Go
<1>6. Go.declarations["method_declaration"] = [Declares("method") EXCEPT !.owner = "receiver"]
  BY DEF Go
<1>7. Go.members["method_elem"] = Declares("method")
  BY DEF Go
<1>8. /\ KindsOf(Declares("function")) = {"function"}
      /\ KindsOf(Declares("method")) = {"method"}
      /\ KindsOf([Declares("method") EXCEPT !.owner = "receiver"]) = {"method"}
  BY EmptyTable DEF KindsOf, Declares, Rule
<1>9. \A t \in DOMAIN Go.declarations : Go.declarations[t].form \in {"declares", "each"}
  BY DEF Go, Declares, Rule, DeclaresEach
<1>10. \A t \in DOMAIN Go.members : Go.members[t].form \in {"declares", "each"}
  BY DEF Go, Declares, Rule, DeclaresEach
<1>11. ASSUME NEW t \in DOMAIN Go.declarations
       PROVE  RuleIsOpen(Go, t, Go.declarations[t])
  <2>1. CASE t \in Go.elided
    <3>1. KindsOf(Go.declarations[t]) \subseteq {"function", "method"}
      BY <1>4, <1>5, <1>6, <1>8, <2>1
    <3> QED BY <1>2, <1>9, <3>1 DEF RuleIsOpen
  <2>2. CASE t \notin Go.elided
    BY <1>9, <2>2 DEF RuleIsOpen
  <2> QED BY <2>1, <2>2
<1>12. ASSUME NEW t \in DOMAIN Go.members
       PROVE  RuleIsOpen(Go, t, Go.members[t])
  BY <1>1, <1>2, <1>7, <1>8, <1>10 DEF RuleIsOpen
<1>13. "assignment_expression" \notin Go.elided /\ "constant" \notin DOMAIN Go.containers
  BY <1>2, <1>4
<1> QED BY <1>1, <1>11, <1>12, <1>13 DEF SpecIsOpen

LEMMA RustIsOpen == SpecIsOpen(Rust)
<1>1. DOMAIN Rust.members = {} /\ DOMAIN Rust.wrappers \cap Rust.elided = {}
  BY DEF Rust
<1>2. Rust.elided = {"function_item"} /\ "constant" \notin DOMAIN Rust.containers
  BY DEF Rust, AllTo
<1>3. "function" \notin DOMAIN Rust.containers /\ "method" \notin DOMAIN Rust.containers
  BY DEF Rust, AllTo
<1>4. KindsOf(Rust.declarations["function_item"]) \subseteq {"function", "method"}
  BY EmptyTable DEF KindsOf, Rust, Declares, Rule
<1>5. \A t \in DOMAIN Rust.declarations : Rust.declarations[t].form = "declares"
  BY DEF Rust, Declares, Rule
<1> QED BY <1>1, <1>2, <1>3, <1>4, <1>5 DEF SpecIsOpen, RuleIsOpen
LEMMA JoinedOnEither ==
  ASSUME NEW f, NEW g, NEW x \in DOMAIN Joined(f, g)
  PROVE  \/ x \in DOMAIN f /\ Joined(f, g)[x] = f[x]
         \/ x \in DOMAIN g /\ Joined(f, g)[x] = g[x]
BY DEF Joined

LEMMA ValueKindsAreOpen ==
  ASSUME NEW value \in DOMAIN ValueKinds, ValueKinds[value] \in DOMAIN JavaScript.containers
  PROVE  /\ value \notin JavaScript.elided
         /\ \/ JavaScript.containers[ValueKinds[value]] = ""
            \/ value \in DOMAIN JavaScript.declarations
<1>1. /\ DOMAIN JavaScript.containers = {"class", "interface", "object"}
      /\ JavaScript.containers["object"] = ""
  BY DEF JavaScript
<1>2. JavaScript.elided = FunctionNodes \cup MethodNodes
  BY DEF JavaScript
<1>3. ClassNodes \subseteq DOMAIN JavaScript.declarations
  BY DEF JavaScript, Joined, AllTo
<1>4. \/ value \in FunctionNodes /\ ValueKinds[value] = "function"
      \/ value \in ClassNodes /\ ValueKinds[value] = "class"
      \/ value = "object" /\ ValueKinds[value] = "object"
  BY JoinedOnEither DEF ValueKinds, AllTo
<1>5. CASE value \in FunctionNodes /\ ValueKinds[value] = "function"
  BY <1>1, <1>5
<1>6. CASE value \in ClassNodes /\ ValueKinds[value] = "class"
  <2>1. value \notin FunctionNodes \cup MethodNodes
    BY <1>6 DEF ClassNodes, FunctionNodes, MethodNodes
  <2> QED BY <1>2, <1>3, <1>6, <2>1
<1>7. CASE value = "object" /\ ValueKinds[value] = "object"
  <2>1. value \notin FunctionNodes \cup MethodNodes
    BY <1>7 DEF FunctionNodes, MethodNodes
  <2> QED BY <1>1, <1>2, <1>7, <2>1
<1> QED BY <1>4, <1>5, <1>6, <1>7

LEMMA JavaScriptIsOpen == SpecIsOpen(JavaScript)
<1> DEFINE spec == JavaScript
           functions == AllTo(FunctionNodes, Declares("function"))
           classes == AllTo(ClassNodes, Declares("class"))
           others == [interface_declaration |-> Declares("interface"),
             type_alias_declaration |-> Declares("type"),
             enum_declaration |-> Declares("enum"),
             variable_declarator |-> [Binds("variable", ValueKinds) EXCEPT !.names = "keyword"],
             export_statement |-> [Rule("export", "constant") EXCEPT !.values = ValueKinds],
             expression_statement |-> [Rule("assignment", "variable") EXCEPT !.values = ValueKinds]]
<1>1. /\ DOMAIN spec.containers = {"class", "interface", "object"}
      /\ spec.elided = FunctionNodes \cup MethodNodes
      /\ DOMAIN spec.wrappers = {"export_statement", "ambient_declaration", "lexical_declaration",
                                 "variable_declaration"}
  BY DEF JavaScript
<1>2. spec.declarations = Joined(Joined(functions, classes), others)
  BY DEF JavaScript
<1>3. spec.members = Joined(AllTo(MethodNodes, [Declares("method") EXCEPT !.fields = MemberName]),
            AllTo(FieldNodes, [Binds("field", AllTo(FunctionNodes, "method")) EXCEPT
                                 !.fields = MemberName]))
  BY DEF JavaScript
<1>4. DOMAIN spec.wrappers \cap spec.elided = {} /\ "assignment_expression" \notin spec.elided
  BY <1>1 DEF FunctionNodes, MethodNodes
<1>5. {"interface_declaration", "type_alias_declaration", "enum_declaration", "variable_declarator",
       "export_statement", "expression_statement"} \cap spec.elided = {}
  BY <1>1 DEF FunctionNodes, MethodNodes
<1>6. ClassNodes \cap spec.elided = {}
  BY <1>1 DEF ClassNodes, FunctionNodes, MethodNodes
<1>7. FieldNodes \cap spec.elided = {}
  BY <1>1 DEF FieldNodes, FunctionNodes, MethodNodes
<1>8. ASSUME NEW type \in DOMAIN spec.declarations
      PROVE  RuleIsOpen(spec, type, spec.declarations[type])
  <2>1. \/ type \in FunctionNodes /\ spec.declarations[type] = Declares("function")
        \/ type \in ClassNodes
        \/ type \in DOMAIN others /\ spec.declarations[type] = others[type]
    <3> HIDE DEF others, spec
    <3> QED BY <1>2, <1>8, JoinedOnEither DEF AllTo
  <2>2. CASE type \in FunctionNodes /\ spec.declarations[type] = Declares("function")
    <3>1. KindsOf(Declares("function")) = {"function"} /\ Declares("function").form = "declares"
      BY EmptyTable DEF KindsOf, Declares, Rule
    <3> HIDE DEF spec
    <3> QED BY <1>1, <2>2, <3>1 DEF RuleIsOpen
  <2>3. CASE type \in ClassNodes
    <3>1. spec.declarations[type].form = "declares"
      BY <2>3 DEF JavaScript, Joined, AllTo, Declares, Rule, FunctionNodes, ClassNodes
    <3> HIDE DEF spec
    <3> QED BY <1>6, <2>3, <3>1 DEF RuleIsOpen
  <2>4. CASE type \in DOMAIN others /\ spec.declarations[type] = others[type]
    <3>1. type \in {"interface_declaration", "type_alias_declaration", "enum_declaration",
                    "variable_declarator", "export_statement", "expression_statement"}
      BY <2>4
    <3>2. CASE type \in {"interface_declaration", "type_alias_declaration", "enum_declaration"}
      <4>1. others[type].form = "declares"
        BY <3>2 DEF Declares, Rule
      <4> HIDE DEF others, spec
      <4> QED BY <1>5, <1>8, <2>4, <3>1, <4>1 DEF RuleIsOpen
    <3>3. CASE type \in {"variable_declarator", "export_statement", "expression_statement"}
      <4>1. /\ others[type].form \in {"binds", "export", "assignment"}
            /\ others[type].values = ValueKinds
            /\ others[type].kind \in {"variable", "constant"}
        <5>1. CASE type = "variable_declarator"
          BY <5>1 DEF Binds, Rule
        <5>2. CASE type = "export_statement"
          BY <5>2 DEF Rule
        <5>3. CASE type = "expression_statement"
          BY <5>3 DEF Rule
        <5> QED BY <3>3, <5>1, <5>2, <5>3
      <4> HIDE DEF others
      <4> QED BY <1>1, <1>5, <2>4, <3>1, <4>1, ValueKindsAreOpen DEF RuleIsOpen
    <3> QED BY <3>1, <3>2, <3>3
  <2> QED BY <2>1, <2>2, <2>3, <2>4
<1>9. ASSUME NEW type \in DOMAIN spec.members
      PROVE  RuleIsOpen(spec, type, spec.members[type])
  <2> DEFINE method == [Declares("method") EXCEPT !.fields = MemberName]
             field == [Binds("field", AllTo(FunctionNodes, "method")) EXCEPT !.fields = MemberName]
  <2>1. \/ spec.members[type] = method
        \/ type \in FieldNodes /\ spec.members[type] = field
    <3> HIDE DEF spec, method, field
    <3> QED BY <1>3, <1>9, JoinedOnEither DEF AllTo, method, field
  <2>2. KindsOf(method) = {"method"} /\ method.form = "declares"
    BY EmptyTable DEF KindsOf, Declares, Rule
  <2>3. /\ field.form = "binds" /\ field.kind = "field"
        /\ \A value \in DOMAIN field.values : field.values[value] = "method"
    BY DEF Binds, Rule, AllTo
  <2> HIDE DEF spec, method, field
  <2> QED BY <1>1, <1>7, <2>1, <2>2, <2>3 DEF RuleIsOpen
<1>10. "constant" \notin DOMAIN spec.containers
  BY <1>1
<1> QED BY <1>4, <1>8, <1>9, <1>10 DEF SpecIsOpen

\* No language has a rule that looks for members in a body that its skeletons hide.
LEMMA SpecsAreOpen ==
  ASSUME NEW l \in DOMAIN Specs
  PROVE  SpecIsOpen(Specs[l])
<1>1. Specs[l] \in {Go, Rust, JavaScript, TypeScript}
  BY DEF Specs
<1>2. SpecIsOpen(TypeScript)
  <2>1. /\ TypeScript.declarations = JavaScript.declarations /\ TypeScript.members = JavaScript.members
        /\ TypeScript.wrappers = JavaScript.wrappers /\ TypeScript.elided = JavaScript.elided
        /\ TypeScript.containers = JavaScript.containers
    BY DEF TypeScript, JavaScript
  <2> QED BY <2>1, JavaScriptIsOpen DEF SpecIsOpen, RuleIsOpen
<1> QED BY <1>1, <1>2, GoIsOpen, RustIsOpen, JavaScriptIsOpen

----------------------------------------------------------------------------
(* Program structure: places in a tree.                                    *)

\* Induction over one given set of numbers.
LEMMA SetOfNumbers ==
  ASSUME NEW S \in SUBSET Nat, 0 \in S, \A n \in Nat : n \in S => n + 1 \in S
  PROVE  Nat = S
<1> SUFFICES ASSUME Nat \ S # {} PROVE FALSE
  OBVIOUS
<1>1. PICK m \in Nat \ S : \A n \in Nat \ S : m <= n
  BY LeastNumber
<1>2. m # 0 /\ m - 1 \in Nat
  BY <1>1
<1>3. m - 1 \in S
  BY <1>1, <1>2
<1> QED BY <1>1, <1>2, <1>3

\* The places above a child are its parent and the places above that.
LEMMA AboveChild ==
  ASSUME NEW p \in Seq(Nat), NEW i \in Nat
  PROVE  Above(Append(p, i)) = Above(p) \cup {p}
<1> DEFINE q == Append(p, i)
<1>1. Len(q) = Len(p) + 1 /\ Len(p) \in Nat
  OBVIOUS
<1>2. ASSUME NEW n \in 0..Len(p)
      PROVE  SubSeq(q, 1, n) = SubSeq(p, 1, n)
  OBVIOUS
<1>3. SubSeq(p, 1, Len(p)) = p
  OBVIOUS
<1>4. Above(q) = {SubSeq(q, 1, n) : n \in 0..Len(p)}
  BY <1>1 DEF Above
<1> HIDE DEF q
<1> QED BY <1>1, <1>2, <1>3, <1>4 DEF Above

\* Above is up.
LEMMA AboveIsShorter ==
  ASSUME NEW p \in Seq(Nat), NEW q \in Above(p)
  PROVE  q \in Seq(Nat) /\ Len(q) < Len(p)
BY DEF Above

LEMMA PlaceFacts ==
  ASSUME NEW tree, IsTree(tree), NEW p \in DOMAIN tree
  PROVE  p \in Seq(Nat) /\ Len(p) \in Nat /\ Above(p) \subseteq DOMAIN tree
<1>1. p \in Seq(Nat) /\ Above(p) \subseteq DOMAIN tree
  BY DEF IsTree
<1> QED BY <1>1

\* What holds of a place when it holds of all places above, holds of all places.
LEMMA PlaceInduction ==
  ASSUME NEW tree, IsTree(tree), NEW S, \A p \in DOMAIN tree : Above(p) \subseteq S => p \in S
  PROVE  DOMAIN tree \subseteq S
<1> DEFINE T == {Len(p) : p \in DOMAIN tree \ S}
<1> SUFFICES ASSUME DOMAIN tree \ S # {} PROVE FALSE
  OBVIOUS
<1>1. \A p \in DOMAIN tree : p \in Seq(Nat) /\ Len(p) \in Nat /\ Above(p) \subseteq DOMAIN tree
  BY PlaceFacts
<1>2. T \in SUBSET Nat /\ T # {}
  <2>1. \A n \in T : n \in Nat
    BY <1>1
  <2>2. T # {}
    <3>1. PICK p \in DOMAIN tree \ S : TRUE
      OBVIOUS
    <3>2. Len(p) \in T
      OBVIOUS
    <3> QED BY <3>2
  <2> HIDE DEF T
  <2> QED BY <2>1, <2>2
<1>3. PICK m \in T : \A n \in T : m <= n
  <2> HIDE DEF T
  <2> QED BY <1>2, LeastNumber
<1>4. PICK p \in DOMAIN tree \ S : m = Len(p)
  BY <1>3
<1>5. PICK q \in Above(p) : q \notin S
  BY <1>4
<1>6. Len(q) \in T /\ Len(q) < Len(p)
  BY <1>1, <1>4, <1>5, AboveIsShorter
<1> HIDE DEF T
<1> QED BY <1>1, <1>3, <1>4, <1>6, <1>2

\* A child by its field is one of the children.
LEMMA ChildIsKid ==
  ASSUME NEW tree, NEW p \in DOMAIN tree, NEW field, IsTree(tree), ChildAt(tree, p, field) # None
  PROVE  \E i \in 1..tree[p].kids : ChildAt(tree, p, field) = Append(p, i)
<1> DEFINE filling == {i \in 1..tree[p].kids : tree[Append(p, i)].role = field}
<1>1. filling \in SUBSET Nat
  BY DEF IsTree
<1>2. filling # {}
  BY DEF ChildAt
<1>3. PICK i \in filling : \A j \in filling : i <= j
  <2> HIDE DEF filling
  <2> QED BY <1>1, <1>2, LeastNumber
<1>4. (CHOOSE j \in filling : \A k \in filling : j <= k) \in filling
  BY <1>3
<1> QED BY <1>2, <1>4 DEF ChildAt

LEMMA KidFacts ==
  ASSUME NEW tree, IsTree(tree), NEW p \in DOMAIN tree, NEW i \in 1..tree[p].kids
  PROVE  /\ Append(p, i) \in DOMAIN tree
         /\ Above(Append(p, i)) = Above(p) \cup {p}
<1>1. p \in Seq(Nat) /\ i \in Nat /\ Kids(tree, p) \subseteq DOMAIN tree
  BY DEF IsTree
<1> QED BY <1>1, AboveChild DEF Kids

----------------------------------------------------------------------------
(* Program structure: the walks over a tree.                                *)

\* The equation of Walks(), for some of the places.
IsWalks(f, spec, tree, places) == f = [p \in places |-> WalksBy(spec, tree, f, p)]

Under(tree, n) == {p \in DOMAIN tree : Len(p) < n}

\* The walks by a place come from the walks by the places above it.
LEMMA WalksFromAbove ==
  ASSUME NEW spec, NEW tree, NEW f, NEW g, NEW p, \A q \in Above(p) : f[q] = g[q]
  PROVE  WalksBy(spec, tree, f, p) = WalksBy(spec, tree, g, p)
<1>1. UNION {UNION {Opened(spec, tree, q, w) : w \in f[q]} : q \in Above(p)}
        = UNION {UNION {Opened(spec, tree, q, w) : w \in g[q]} : q \in Above(p)}
  <2>1. \A q \in Above(p) : UNION {Opened(spec, tree, q, w) : w \in f[q]}
                              = UNION {Opened(spec, tree, q, w) : w \in g[q]}
    OBVIOUS
  <2> QED BY <2>1
<1> QED BY <1>1 DEF WalksBy

\* Two solutions for parts of a tree agree on what they share.
LEMMA WalksAgree ==
  ASSUME NEW spec, NEW tree, IsTree(tree), NEW m \in Nat, NEW n \in Nat, NEW f, NEW g,
         IsWalks(f, spec, tree, Under(tree, m)), IsWalks(g, spec, tree, Under(tree, n))
  PROVE  \A p \in Under(tree, m) \cap Under(tree, n) : f[p] = g[p]
<1> DEFINE both == Under(tree, m) \cap Under(tree, n)
           S == {p \in DOMAIN tree : p \in both => f[p] = g[p]}
<1>1. ASSUME NEW p \in DOMAIN tree, Above(p) \subseteq S
      PROVE  p \in S
  <2> SUFFICES ASSUME p \in both PROVE f[p] = g[p]
    OBVIOUS
  <2>1. ASSUME NEW q \in Above(p) PROVE f[q] = g[q]
    <3>1. p \in Seq(Nat) /\ Len(p) \in Nat
      BY DEF IsTree
    <3>2. q \in Seq(Nat) /\ Len(q) < Len(p) /\ q \in DOMAIN tree
      BY <1>1, <3>1, AboveIsShorter
    <3>3. q \in both
      BY <3>1, <3>2 DEF Under
    <3> QED BY <1>1, <3>3
  <2>2. WalksBy(spec, tree, f, p) = WalksBy(spec, tree, g, p)
    BY <2>1, WalksFromAbove
  <2> QED BY <2>2 DEF IsWalks
<1>2. DOMAIN tree \subseteq S
  <2> HIDE DEF S
  <2> QED BY <1>1, PlaceInduction
<1> QED BY <1>2 DEF Under

\* There is a solution for the places down to every depth.
LEMMA WalksUnder ==
  ASSUME NEW spec, NEW tree, IsTree(tree), NEW n \in Nat
  PROVE  \E f : IsWalks(f, spec, tree, Under(tree, n))
<1> DEFINE S == {k \in Nat : \E f : IsWalks(f, spec, tree, Under(tree, k))}
<1>1. \A p \in DOMAIN tree : p \in Seq(Nat) /\ Len(p) \in Nat /\ Above(p) \subseteq DOMAIN tree
  BY PlaceFacts
<1>2. 0 \in S
  <2>1. Under(tree, 0) = {}
    BY <1>1 DEF Under
  <2>2. IsWalks([p \in {} |-> {}], spec, tree, {})
    BY DEF IsWalks
  <2> QED BY <2>1, <2>2
<1>3. ASSUME NEW k \in Nat, k \in S
      PROVE  k + 1 \in S
  <2>1. PICK f : IsWalks(f, spec, tree, Under(tree, k))
    BY <1>3
  <2> DEFINE g == [p \in Under(tree, k + 1) |-> IF p \in Under(tree, k) THEN f[p] ELSE WalksBy(spec, tree, f, p)]
  <2>2. ASSUME NEW p \in Under(tree, k + 1)
        PROVE  g[p] = WalksBy(spec, tree, g, p)
    <3>1. ASSUME NEW q \in Above(p) PROVE f[q] = g[q]
      <4>1. p \in Seq(Nat) /\ Len(p) \in Nat /\ Len(p) < k + 1
        BY <1>1 DEF Under
      <4>2. q \in Seq(Nat) /\ Len(q) \in Nat /\ Len(q) < Len(p) /\ q \in DOMAIN tree
        BY <1>1, <4>1, AboveIsShorter DEF Under
      <4>3. q \in Under(tree, k) /\ q \in Under(tree, k + 1)
        BY <4>1, <4>2 DEF Under
      <4> QED BY <4>3
    <3>2. WalksBy(spec, tree, f, p) = WalksBy(spec, tree, g, p)
      <4> HIDE DEF g
      <4> QED BY <3>1, WalksFromAbove
    <3>3. g[p] = WalksBy(spec, tree, f, p)
      BY <2>1 DEF IsWalks
    <3> QED BY <3>2, <3>3
  <2>3. g = [p \in Under(tree, k + 1) |-> g[p]]
    OBVIOUS
  <2> HIDE DEF g
  <2>4. IsWalks(g, spec, tree, Under(tree, k + 1))
    BY <2>2, <2>3 DEF IsWalks
  <2> QED BY <2>4
<1>4. n \in S
  <2> HIDE DEF S
  <2>1. S \in SUBSET Nat
    BY DEF S
  <2> QED BY <1>2, <1>3, <2>1, SetOfNumbers
<1> QED BY <1>4

\* The recursion over the places of a tree has a solution, which Walks() is.
LEMMA WalksAreWalks ==
  ASSUME NEW spec, NEW tree, IsTree(tree)
  PROVE  IsWalks(Walks(spec, tree), spec, tree, DOMAIN tree)
<1> DEFINE part(n) == CHOOSE f : IsWalks(f, spec, tree, Under(tree, n))
           all == [p \in DOMAIN tree |-> part(Len(p) + 1)[p]]
<1>1. \A p \in DOMAIN tree : p \in Seq(Nat) /\ Len(p) \in Nat /\ Above(p) \subseteq DOMAIN tree
  BY PlaceFacts
<1>2. ASSUME NEW n \in Nat
      PROVE  IsWalks(part(n), spec, tree, Under(tree, n))
  BY WalksUnder
<1>3. ASSUME NEW p \in DOMAIN tree
      PROVE  all[p] = WalksBy(spec, tree, all, p)
  <2> DEFINE f == part(Len(p) + 1)
  <2>1. Len(p) + 1 \in Nat /\ p \in Under(tree, Len(p) + 1)
    BY <1>1 DEF Under
  <2>2. IsWalks(f, spec, tree, Under(tree, Len(p) + 1))
    BY <1>2, <2>1
  <2>3. ASSUME NEW q \in Above(p)
        PROVE  f[q] = all[q]
    <3>1. q \in DOMAIN tree /\ Len(q) \in Nat /\ Len(q) < Len(p) /\ Len(p) \in Nat
      BY <1>1, AboveIsShorter
    <3>2. q \in Under(tree, Len(p) + 1) \cap Under(tree, Len(q) + 1)
      BY <3>1 DEF Under
    <3>3. IsWalks(part(Len(q) + 1), spec, tree, Under(tree, Len(q) + 1))
      BY <1>2, <3>1
    <3>4. all[q] = part(Len(q) + 1)[q]
      BY <3>1
    <3>5. Len(q) + 1 \in Nat
      BY <3>1
    <3> HIDE DEF part, all
    <3> QED BY <2>1, <2>2, <3>2, <3>3, <3>4, <3>5, WalksAgree
  <2>4. WalksBy(spec, tree, f, p) = WalksBy(spec, tree, all, p)
    <3> HIDE DEF f, all
    <3> QED BY <2>3, WalksFromAbove
  <2>5. all[p] = f[p]
    OBVIOUS
  <2> HIDE DEF all, f
  <2> QED BY <2>1, <2>2, <2>4, <2>5 DEF IsWalks
<1>4. all = [p \in DOMAIN tree |-> WalksBy(spec, tree, all, p)]
  <2>1. all = [p \in DOMAIN tree |-> all[p]]
    OBVIOUS
  <2> HIDE DEF all
  <2> QED BY <1>3, <2>1
<1> HIDE DEF all
<1> QED BY <1>4 DEF IsWalks, Walks

----------------------------------------------------------------------------
(* Program structure: what walks visit is in the skeleton.                 *)

\* What a node that is shown and hides nothing contains, is shown.
LEMMA KidsSurvive ==
  ASSUME NEW spec, NEW tree, IsTree(tree), NEW p \in Survivors(spec, tree), tree[p].type \notin spec.elided
  PROVE  Kids(tree, p) \subseteq Survivors(spec, tree)
<1> SUFFICES ASSUME NEW i \in 1..tree[p].kids PROVE Append(p, i) \in Survivors(spec, tree)
  BY DEF Kids
<1>1. p \in DOMAIN tree /\ ~Hides(spec, tree, p)
  BY DEF Survivors, Hides
<1>2. Append(p, i) \in DOMAIN tree /\ Above(Append(p, i)) = Above(p) \cup {p}
  BY <1>1, KidFacts
<1> QED BY <1>1, <1>2 DEF Survivors

LEMMA ChildSurvives ==
  ASSUME NEW spec, NEW tree, IsTree(tree), NEW p \in Survivors(spec, tree), tree[p].type \notin spec.elided,
         NEW field, ChildAt(tree, p, field) # None
  PROVE  ChildAt(tree, p, field) \in Survivors(spec, tree)
<1>1. p \in DOMAIN tree
  BY DEF Survivors
<1>2. ChildAt(tree, p, field) \in Kids(tree, p)
  BY <1>1, ChildIsKid DEF Kids
<1> QED BY <1>2, KidsSurvive

----------------------------------------------------------------------------
(* What a rule finds.                                                      *)

LEMMA GetFrom ==
  ASSUME NEW table, NEW key, NEW default
  PROVE  Get(table, key, default) \in {default} \cup {table[k] : k \in DOMAIN table}
BY DEF Get

LEMMA DeclaredFacts ==
  ASSUME NEW spec, NEW tree, NEW rule, NEW p, NEW scope,
         NEW i \in DOMAIN Declared(spec, tree, rule, p, scope)
  PROVE  LET found == Declared(spec, tree, rule, p, scope)[i]
         IN  found.owner = p /\ found.kind \in KindsOf(rule)
<1> DEFINE found == Declared(spec, tree, rule, p, scope)[i]
<1>1. DeclaredKind(rule, tree, p, scope) \in KindsOf(rule)
  BY GetFrom DEF DeclaredKind, KindsOf
<1>2. found.owner = p /\ found.kind = DeclaredKind(rule, tree, p, scope)
  BY DEF Declared, Declaration
<1> QED BY <1>1, <1>2

LEMMA EachFacts ==
  ASSUME NEW spec, NEW tree, NEW rule, NEW p, NEW i \in DOMAIN DeclaredEach(spec, tree, rule, p)
  PROVE  LET found == DeclaredEach(spec, tree, rule, p)[i]
         IN  found.owner = p /\ found.kind \in KindsOf(rule)
BY DEF DeclaredEach, Declaration, KindsOf

\* A symbol that has a value for an owner.
OwnedBy(tree, rule, found, value) ==
  found.owner = value /\ found.kind = Get(rule.values, tree[value].type, rule.kind)

LEMMA BoundFacts ==
  ASSUME NEW spec, NEW tree, NEW rule, NEW p, NEW i \in DOMAIN Bound(spec, tree, rule, p)
  PROVE  LET found == Bound(spec, tree, rule, p)[i]
             value == ChildAt(tree, p, "value")
         IN  \/ found.owner = p /\ found.kind \in {"constant", rule.kind}
             \/ value # None /\ OwnedBy(tree, rule, found, value)
<1> DEFINE value == ChildAt(tree, p, "value")
           name == RuleName(spec, tree, rule, p)
<1>1. name # None
  BY DEF Bound
<1>2. CASE value # None /\ tree[value].type \in DOMAIN rule.values
  <2>1. Bound(spec, tree, rule, p) = <<Valued(tree, rule, value, name, p)>>
    BY <1>1, <1>2 DEF Bound
  <2> QED BY <1>2, <2>1 DEF Valued, OwnedBy, Declaration
<1>3. CASE ~(value # None /\ tree[value].type \in DOMAIN rule.values)
  <2>1. \E kind \in {"constant", rule.kind} :
          Bound(spec, tree, rule, p) = <<Declaration(p, name, kind, p, None)>>
    BY <1>1, <1>3 DEF Bound
  <2> QED BY <2>1 DEF Declaration
<1> QED BY <1>2, <1>3

LEMMA ExportedFacts ==
  ASSUME NEW spec, NEW tree, NEW rule, NEW p, NEW i \in DOMAIN Exported(spec, tree, rule, p)
  PROVE  LET found == Exported(spec, tree, rule, p)[i]
             value == ChildAt(tree, p, "value")
         IN  value # None /\ OwnedBy(tree, rule, found, value)
BY DEF Exported, Valued, OwnedBy, Declaration

LEMMA AssignedFacts ==
  ASSUME NEW spec, NEW tree, NEW rule, NEW p, NEW i \in DOMAIN Assigned(spec, tree, rule, p)
  PROVE  LET found == Assigned(spec, tree, rule, p)[i]
         IN  /\ tree[p].kids = 1 /\ tree[Append(p, 1)].type = "assignment_expression"
             /\ OwnedBy(tree, rule, found, ChildAt(tree, Append(p, 1), "right"))
<1> DEFINE right == ChildAt(tree, Append(p, 1), "right")
<1>1. tree[p].kids = 1 /\ tree[Append(p, 1)].type = "assignment_expression"
  BY DEF Assigned
<1>2. \E name : Assigned(spec, tree, rule, p) = <<Valued(tree, rule, right, name, Append(p, 1))>>
  <2> DEFINE target == NameOf(spec, tree, ChildAt(tree, Append(p, 1), "left"))
  <2>1. Assigned(spec, tree, rule, p) \in {<<>>, <<Valued(tree, rule, right, target, Append(p, 1))>>}
    BY DEF Assigned
  <2> QED BY <2>1
<1> QED BY <1>1, <1>2 DEF Valued, OwnedBy, Declaration

\* A symbol whose members are looked for owns them where nothing is hidden.
OwnerIsOpen(spec, tree, found) ==
  found.kind \in DOMAIN spec.containers =>
    LET type == tree[found.owner].type
    IN  /\ type \notin spec.elided
        /\ spec.containers[found.kind] = "" \/ type \in DOMAIN spec.declarations

LEMMA ValueIsOpen ==
  ASSUME NEW spec, NEW tree, NEW type, NEW rule, RuleIsOpen(spec, type, rule),
         rule.form \notin {"declares", "each"},
         NEW found, NEW value, OwnedBy(tree, rule, found, value)
  PROVE  OwnerIsOpen(spec, tree, found)
<1>1. CASE tree[value].type \in DOMAIN rule.values
  BY <1>1 DEF OwnerIsOpen, OwnedBy, RuleIsOpen, Get
<1>2. CASE tree[value].type \notin DOMAIN rule.values
  BY <1>2 DEF OwnerIsOpen, OwnedBy, RuleIsOpen, Get
<1> QED BY <1>1, <1>2

\* The rule of a node, when it finds something there.
RuleOf(spec, tree, p, walk) ==
  (IF walk.member THEN spec.members ELSE spec.declarations)[tree[p].type]

LEMMA FoundByRule ==
  ASSUME NEW spec, NEW tree, SpecIsOpen(spec), NEW p, NEW walk,
         NEW i \in DOMAIN Found(spec, tree, p, walk)
  PROVE  LET rule  == RuleOf(spec, tree, p, walk)
             found == Found(spec, tree, p, walk)
         IN  /\ RuleIsOpen(spec, tree[p].type, rule)
             /\ \/ rule.form = "declares" /\ found = Declared(spec, tree, rule, p, walk)
                \/ rule.form = "each" /\ found = DeclaredEach(spec, tree, rule, p)
                \/ rule.form \notin {"declares", "each"} /\ found = Bound(spec, tree, rule, p)
                \/ rule.form \notin {"declares", "each"} /\ found = Exported(spec, tree, rule, p)
                \/ rule.form \notin {"declares", "each"} /\ found = Assigned(spec, tree, rule, p)
<1>1. tree[p].type \in DOMAIN (IF walk.member THEN spec.members ELSE spec.declarations)
  BY DEF Found
<1>2. tree[p].type \notin spec.ignored \cup spec.leading
  BY DEF Found
<1>3. RuleIsOpen(spec, tree[p].type, RuleOf(spec, tree, p, walk))
  BY <1>1 DEF SpecIsOpen, RuleOf
<1>4. Found(spec, tree, p, walk) = FoundBy(spec, tree, RuleOf(spec, tree, p, walk), p, walk)
  BY <1>1, <1>2 DEF Found, RuleOf
<1> QED BY <1>3, <1>4 DEF FoundBy

LEMMA FoundFacts ==
  ASSUME NEW spec, NEW tree, SpecIsOpen(spec), IsTree(tree), IsGrammatical(spec, tree),
         NEW p \in Survivors(spec, tree), NEW walk, NEW i \in DOMAIN Found(spec, tree, p, walk)
  PROVE  LET found == Found(spec, tree, p, walk)[i]
         IN  found.owner \in Survivors(spec, tree) /\ OwnerIsOpen(spec, tree, found)
<1> DEFINE rule  == RuleOf(spec, tree, p, walk)
           all   == Found(spec, tree, p, walk)
           found == all[i]
           type  == tree[p].type
<1>1. RuleIsOpen(spec, type, rule)
  BY FoundByRule
<1>2. p \in DOMAIN tree
  BY DEF Survivors
<1>3. CASE rule.form \in {"declares", "each"}
  <2>1. all = Declared(spec, tree, rule, p, walk) \/ all = DeclaredEach(spec, tree, rule, p)
    <3> HIDE DEF rule, all
    <3> QED BY <1>3, FoundByRule DEF rule, all
  <2>2. found.owner = p /\ found.kind \in KindsOf(rule)
    <3> HIDE DEF rule
    <3> QED BY <2>1, DeclaredFacts, EachFacts
  <2>3. found.kind \in DOMAIN spec.containers => type \in DOMAIN spec.declarations \ spec.elided
    <3>1. \/ KindsOf(rule) \cap DOMAIN spec.containers = {}
          \/ type \in DOMAIN spec.declarations \ spec.elided
      <4> HIDE DEF rule, type
      <4> QED BY <1>1, <1>3 DEF RuleIsOpen
    <3> HIDE DEF rule, found, type
    <3> QED BY <2>2, <3>1
  <2> HIDE DEF rule
  <2> QED BY <2>2, <2>3 DEF OwnerIsOpen
<1>4. CASE rule.form \notin {"declares", "each"}
  <2>1. type \notin spec.elided /\ rule.kind \notin DOMAIN spec.containers
    <3> HIDE DEF rule
    <3> QED BY <1>1, <1>4 DEF RuleIsOpen
  <2>2. ASSUME all = Bound(spec, tree, rule, p)
        PROVE  found.owner \in Survivors(spec, tree) /\ OwnerIsOpen(spec, tree, found)
    <3> DEFINE value == ChildAt(tree, p, "value")
    <3>1. \/ found.owner = p /\ found.kind \in {"constant", rule.kind}
          \/ value # None /\ OwnedBy(tree, rule, found, value)
      <4> HIDE DEF rule
      <4> QED BY <2>2, BoundFacts
    <3>2. CASE found.owner = p /\ found.kind \in {"constant", rule.kind}
      <4> HIDE DEF rule, found
      <4> QED BY <2>1, <3>2 DEF OwnerIsOpen, SpecIsOpen
    <3>3. CASE value # None /\ OwnedBy(tree, rule, found, value)
      <4>1. value \in Survivors(spec, tree)
        BY <2>1, <3>3, ChildSurvives
      <4> HIDE DEF rule, found, value, type
      <4>2. OwnerIsOpen(spec, tree, found)
        BY <1>1, <1>4, <3>3, ValueIsOpen
      <4> QED BY <3>3, <4>1, <4>2 DEF OwnedBy
    <3> QED BY <3>1, <3>2, <3>3
  <2>3. ASSUME all = Exported(spec, tree, rule, p)
        PROVE  found.owner \in Survivors(spec, tree) /\ OwnerIsOpen(spec, tree, found)
    <3> DEFINE value == ChildAt(tree, p, "value")
    <3>1. value # None /\ OwnedBy(tree, rule, found, value)
      <4> HIDE DEF rule
      <4> QED BY <2>3, ExportedFacts
    <3>2. value \in Survivors(spec, tree)
      BY <2>1, <3>1, ChildSurvives
    <3> HIDE DEF rule, found, value, type
    <3>3. OwnerIsOpen(spec, tree, found)
      BY <1>1, <1>4, <3>1, ValueIsOpen
    <3> QED BY <3>1, <3>2, <3>3 DEF OwnedBy
  <2>4. ASSUME all = Assigned(spec, tree, rule, p)
        PROVE  found.owner \in Survivors(spec, tree) /\ OwnerIsOpen(spec, tree, found)
    <3> DEFINE assignment == Append(p, 1)
               right == ChildAt(tree, assignment, "right")
    <3>1. /\ tree[p].kids = 1 /\ tree[assignment].type = "assignment_expression"
          /\ OwnedBy(tree, rule, found, right)
      <4> HIDE DEF rule
      <4> QED BY <2>4, AssignedFacts
    <3>2. assignment \in Survivors(spec, tree)
      <4>1. assignment \in Kids(tree, p)
        BY <3>1 DEF Kids
      <4> QED BY <2>1, <4>1, KidsSurvive
    <3>3. right # None
      BY <3>1, <3>2 DEF IsGrammatical, Survivors
    <3>4. right \in Survivors(spec, tree)
      <4> HIDE DEF assignment
      <4> QED BY <3>1, <3>2, <3>3, ChildSurvives DEF SpecIsOpen
    <3> HIDE DEF rule, found, right, type
    <3>5. OwnerIsOpen(spec, tree, found)
      BY <1>1, <1>4, <3>1, ValueIsOpen
    <3> QED BY <3>1, <3>4, <3>5 DEF OwnedBy
  <2> HIDE DEF rule, all
  <2> QED BY <1>4, <2>2, <2>3, <2>4, FoundByRule DEF rule, all
<1> HIDE DEF rule
<1> QED BY <1>3, <1>4

----------------------------------------------------------------------------
\* A walk visits only nodes that the skeleton shows.
LEMMA OpenedIsShown ==
  ASSUME NEW spec, NEW tree, SpecIsOpen(spec), IsTree(tree), IsGrammatical(spec, tree),
         NEW p \in Survivors(spec, tree), NEW walk, NEW opened \in Opened(spec, tree, p, walk)
  PROVE  opened.nodes \subseteq Survivors(spec, tree)
<1>1. CASE opened \in Inside(spec, tree, walk, Found(spec, tree, p, walk))
  <2> DEFINE found == Found(spec, tree, p, walk)
  <2>1. PICK i \in DOMAIN found : /\ Members(spec, tree, found[i]) # None
                                  /\ opened.nodes = Kids(tree, Members(spec, tree, found[i]))
    BY <1>1 DEF Inside, WalkOf
  <2> DEFINE owner == found[i].owner
             members == Members(spec, tree, found[i])
             field == spec.containers[found[i].kind]
  <2>2. owner \in Survivors(spec, tree) /\ OwnerIsOpen(spec, tree, found[i])
    BY FoundFacts
  <2>3. found[i].kind \in DOMAIN spec.containers
    BY <2>1 DEF Members
  <2>4. tree[owner].type \notin spec.elided
    BY <2>2, <2>3 DEF OwnerIsOpen
  <2>5. CASE field = ""
    <3>1. members = owner
      BY <2>3, <2>5 DEF Members
    <3> HIDE DEF found, owner, members
    <3> QED BY <2>1, <2>2, <2>4, <3>1, KidsSurvive DEF members
  <2>6. CASE field # ""
    <3>1. members = ChildAt(tree, owner, field)
      BY <2>3, <2>6 DEF Members
    <3>2. tree[owner].type \in DOMAIN spec.declarations
      BY <2>2, <2>3, <2>6 DEF OwnerIsOpen
    <3>3. members \in Survivors(spec, tree)
      <4> HIDE DEF found, owner, field
      <4> QED BY <2>1, <2>2, <2>4, <3>1, ChildSurvives
    <3>4. tree[members].type \notin spec.elided
      <4>1. owner \in DOMAIN tree
        BY <2>2 DEF Survivors
      <4> HIDE DEF found, owner
      <4> QED BY <2>1, <2>3, <2>4, <2>6, <3>1, <3>2, <4>1 DEF IsGrammatical
    <3> HIDE DEF found, members
    <3> QED BY <2>1, <3>3, <3>4, KidsSurvive DEF members
  <2> QED BY <2>5, <2>6
<1>2. CASE opened \in Wrapped(spec, tree, p, walk)
  <2> DEFINE wrapper == spec.wrappers[tree[p].type]
             child == ChildAt(tree, p, wrapper.field)
             inner == IF wrapper.field = "" THEN Kids(tree, p) ELSE {child} \ {None}
  <2>1. tree[p].type \in DOMAIN spec.wrappers /\ ~walk.member
    BY <1>2 DEF Wrapped
  <2>2. tree[p].type \notin spec.elided
    BY <2>1 DEF SpecIsOpen
  <2>3. inner \subseteq Survivors(spec, tree)
    <3>1. Kids(tree, p) \subseteq Survivors(spec, tree)
      BY <2>2, KidsSurvive
    <3>2. child # None => child \in Survivors(spec, tree)
      <4> HIDE DEF wrapper
      <4> QED BY <2>2, ChildSurvives
    <3> HIDE DEF child, wrapper
    <3> QED BY <3>1, <3>2
  <2>4. opened.nodes = inner
    <3>1. opened = WalkOf(inner, walk.kind, walk.prefix, FALSE, IF wrapper.widens THEN p ELSE walk.span)
      BY <1>2, <2>1 DEF Wrapped
    <3> HIDE DEF inner
    <3> QED BY <3>1 DEF WalkOf
  <2> QED BY <2>3, <2>4
<1> QED BY <1>1, <1>2 DEF Opened

LEMMA WalksAreShown ==
  ASSUME NEW spec, NEW tree, SpecIsOpen(spec), IsTree(tree), IsGrammatical(spec, tree),
         NEW p \in DOMAIN tree, Walks(spec, tree)[p] # {}
  PROVE  p \in Survivors(spec, tree)
<1> DEFINE walks == Walks(spec, tree)
           S == {q \in DOMAIN tree : walks[q] # {} => q \in Survivors(spec, tree)}
<1>1. ASSUME NEW q \in DOMAIN tree, Above(q) \subseteq S, walks[q] # {}
      PROVE  q \in Survivors(spec, tree)
  <2>1. PICK walk \in walks[q] : TRUE
    BY <1>1
  <2>2. walks[q] = WalksBy(spec, tree, walks, q)
    BY WalksAreWalks DEF IsWalks
  <2> HIDE DEF walks
  <2>3. /\ walk \in {Top(tree)} \cup UNION {UNION {Opened(spec, tree, r, w) : w \in walks[r]} : r \in Above(q)}
        /\ q \in walk.nodes
    BY <2>1, <2>2 DEF WalksBy
  <2>4. CASE walk = Top(tree)
    <3>1. <<>> \in DOMAIN tree /\ tree[<<>>].type \notin spec.elided
      BY DEF IsTree, IsGrammatical
    <3>2. <<>> \in Survivors(spec, tree)
      BY <3>1 DEF Survivors, Above
    <3> QED BY <2>3, <2>4, <3>1, <3>2, KidsSurvive DEF Top, WalkOf
  <2>5. CASE walk # Top(tree)
    <3>1. PICK r \in Above(q) : \E w \in walks[r] : walk \in Opened(spec, tree, r, w)
      BY <2>3, <2>5
    <3>2. r \in Survivors(spec, tree)
      BY <1>1, <3>1
    <3> QED BY <2>3, <3>1, <3>2, OpenedIsShown
  <2> QED BY <2>4, <2>5
<1>2. DOMAIN tree \subseteq S
  <2>1. \A q \in DOMAIN tree : Above(q) \subseteq S => q \in S
    BY <1>1
  <2> HIDE DEF S
  <2> QED BY <2>1, PlaceInduction
<1> QED BY <1>2

LEMMA SymbolsSurvive ==
  ASSUME NEW spec, NEW tree, SpecIsOpen(spec), IsTree(tree), IsGrammatical(spec, tree),
         NEW s \in DOMAIN Symbols(spec, tree)
  PROVE  Symbols(spec, tree)[s].node \in Survivors(spec, tree)
<1> DEFINE walks == Walks(spec, tree)
<1>1. PICK p \in DOMAIN tree : \E walk \in walks[p] : \E i \in DOMAIN Found(spec, tree, p, walk) :
          s = <<<<p, walk>>, i>>
  BY DEF Symbols, Visits
<1>2. PICK walk \in walks[p] : \E i \in DOMAIN Found(spec, tree, p, walk) : s = <<<<p, walk>>, i>>
  BY <1>1
<1>3. PICK i \in DOMAIN Found(spec, tree, p, walk) : s = <<<<p, walk>>, i>>
  BY <1>2
<1>4. p \in Survivors(spec, tree)
  BY <1>2, WalksAreShown
<1>5. Found(spec, tree, p, walk)[i].owner \in Survivors(spec, tree)
  BY <1>4, FoundFacts
<1>6. Symbols(spec, tree)[s].node = Found(spec, tree, p, walk)[i].owner
  BY <1>3 DEF Symbols, SymbolOf
<1> QED BY <1>5, <1>6

LEMMA PythonSymbolsSurvive ==
  ASSUME NEW tree, NEW i \in DOMAIN PythonSymbols(tree)
  PROVE  LET symbol == PythonSymbols(tree)[i]
         IN  /\ symbol.node \in PythonSurvivors(tree)
             /\ \A j \in DOMAIN symbol.children : symbol.children[j].node \in PythonSurvivors(tree)
<1> DEFINE symbol == PythonSymbols(tree)[i]
<1>1. i \in KidsOfType(tree, <<>>, PythonDefinitions \cup {"Assign"})
  BY DEF PythonSymbols, KidsOfType
<1>2. symbol.node = <<i>>
  BY DEF PythonSymbols, PythonSymbol
<1>3. <<i>> \in PythonSurvivors(tree)
  BY <1>1 DEF PythonSurvivors
<1>4. ASSUME NEW j \in DOMAIN symbol.children
      PROVE  symbol.children[j].node \in PythonSurvivors(tree)
  <2>1. CASE tree[<<i>>].type = "ClassDef"
    <3>1. symbol.children = PythonMethods(tree, <<i>>)
      BY <2>1 DEF PythonSymbols, PythonSymbol
    <3>2. j \in KidsOfType(tree, <<i>>, PythonFunctions)
      BY <3>1 DEF PythonMethods
    <3>3. symbol.children[j].node = Append(<<i>>, j)
      BY <3>1, <3>2 DEF PythonMethods, PythonSymbol
    <3>4. Append(<<i>>, j) \in Kids(tree, <<i>>)
      BY <3>2 DEF KidsOfType, Kids
    <3>5. tree[Append(<<i>>, j)].type \in PythonFunctions
      BY <3>2 DEF KidsOfType
    <3>6. tree[Append(<<i>>, j)].type # "Docstring"
      BY <3>5 DEF PythonFunctions
    <3> DEFINE top == {<<k>> : k \in KidsOfType(tree, <<>>, PythonDefinitions \cup {"Assign"})}
               classes == {p \in top : tree[p].type = "ClassDef"}
               Inner(p) == {q \in Kids(tree, p) : tree[q].type # "Docstring"}
    <3>7. <<i>> \in classes
      BY <1>1, <2>1
    <3>8. Append(<<i>>, j) \in Inner(<<i>>)
      BY <3>4, <3>6
    <3>9. PythonSurvivors(tree) = top \cup UNION {Inner(p) : p \in classes}
      BY DEF PythonSurvivors
    <3> HIDE DEF top, classes, Inner
    <3> QED BY <3>3, <3>7, <3>8, <3>9
  <2>2. CASE tree[<<i>>].type # "ClassDef"
    <3>1. symbol.children = <<>>
      BY <2>2 DEF PythonSymbols, PythonSymbol
    <3> QED BY <3>1
  <2> QED BY <2>1, <2>2
<1> QED BY <1>2, <1>3, <1>4

\* Every declaration by which a reply can name lines of a file is one that the skeleton of
\* this file still shows, in every language and for every parse tree: hide_bodies() hides
\* no body that _walk() looks into for symbols.
THEOREM SymbolsAlwaysInSkeleton == LocalizeSpec => []SymbolsAreInSkeleton
<1>1. LocalizeInv => SymbolsAreInSkeleton
  <2> SUFFICES ASSUME FilesInv, NEW f \in selected
               PROVE  LET tree    == nodes[f].tree
                          symbols == nodes[f].symbols
                      IN  IF language = "python"
                            THEN \A i \in DOMAIN symbols :
                                   /\ symbols[i].node \in PythonSurvivors(tree)
                                   /\ \A j \in DOMAIN symbols[i].children :
                                        symbols[i].children[j].node \in PythonSurvivors(tree)
                            ELSE \A s \in DOMAIN symbols : symbols[s].node \in Survivors(Specs[language], tree)
    BY DEF LocalizeInv, SymbolsAreInSkeleton
  <2> DEFINE tree == nodes[f].tree
  <2>1. language \in Languages /\ f \in DOMAIN FilesOf[language] /\ nodes[f] = FilesOf[language][f]
    BY DEF FilesInv, SourceFiles
  <2>2. /\ IsTree(tree) /\ nodes[f].symbols = SymbolsOf(language, tree)
        /\ language # "python" => IsGrammatical(Specs[language], tree)
    BY <2>1, TreesAssumption
  <2>3. CASE language = "python"
    <3>1. nodes[f].symbols = PythonSymbols(tree)
      BY <2>2, <2>3 DEF SymbolsOf
    <3> HIDE DEF tree
    <3> QED BY <2>3, <3>1, PythonSymbolsSurvive DEF tree
  <2>4. CASE language # "python"
    <3>1. nodes[f].symbols = Symbols(Specs[language], tree)
      BY <2>2, <2>4 DEF SymbolsOf
    <3>2. SpecIsOpen(Specs[language])
      BY <2>1, <2>4, LanguagesAssumption, SpecsAreOpen
    <3>3. \A s \in DOMAIN nodes[f].symbols : nodes[f].symbols[s].node \in Survivors(Specs[language], tree)
      BY <2>2, <2>4, <3>1, <3>2, SymbolsSurvive
    <3> QED BY <2>4, <3>3
  <2> QED BY <2>3, <2>4
<1> QED BY <1>1, LocalizeInvariant, PTL
=============================================================================
