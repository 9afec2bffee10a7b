---------------------- MODULE RegressionScheduleProofs ----------------------
(***************************************************************************)
(* Proofs about RegressionSchedule: whatever the inventory and whatever    *)
(* the commands do, the failures a candidate is counted for are exactly    *)
(* the regressions it shows.                                               *)
(***************************************************************************)
EXTENDS ReportedSchedule, FiniteSetTheorems, TLAPS

----------------------------------------------------------------------------
(* The inductive invariant.                                                *)

\* Each baseline is what its run on the unpatched revision is worth.
BaselinesAreEarned ==
  \A n \in DOMAIN baselines :
    /\ baselines[n].run \in RunsOf(n)
    /\ baselines[n] = Baseline(n, baselines[n].run)

\* No two commands contribute the same test.
BaselinesAreDisjoint ==
  \A n, m \in DOMAIN baselines :
    n # m => baselines[n].passing \cap baselines[m].passing = {}

ScheduleIsKept ==
  /\ schedule \subseteq DOMAIN baselines
  /\ \A n \in schedule : Kept(n) # {}

ObservedIsScheduled ==
  /\ DOMAIN observed \subseteq schedule
  /\ observed = [n \in DOMAIN observed |-> observed[n]]
  /\ \A n \in DOMAIN observed : observed[n] \in RunsOf(n)

NothingBeforeChoice ==
  phase \in {"baseline", "choosing"} => schedule = {} /\ observed = Unobserved

BaselinesAreListed ==
  /\ phase \in {"baseline", "choosing", "validating", "failed"}
  /\ baselines \in Seq(Baselines)
  /\ Len(baselines) <= Inventory
  /\ excluded \subseteq PassingIds

ScheduleInv ==
  /\ BaselinesAreListed
  /\ BaselinesAreEarned
  /\ BaselinesAreDisjoint
  /\ ScheduleIsKept
  /\ ObservedIsScheduled
  /\ NothingBeforeChoice

----------------------------------------------------------------------------
(* What a run is worth.                                                    *)

LEMMA RunsAreTyped ==
  ASSUME NEW n \in 1..Inventory, NEW run \in RunsOf(n)
  PROVE  /\ run \in Runs
         /\ ~Declares[n] => run.report = NoCases
         /\ run.report = [t \in DOMAIN run.report |-> run.report[t]]
  BY InventoryAssumption DEF RunsOf, Runs, Reports

LEMMA BaselineIsTyped ==
  ASSUME NEW n \in 1..Inventory, NEW run \in RunsOf(n)
  PROVE  Baseline(n, run) \in Baselines
<1> DEFINE command == [report |-> Declares[n], counted |-> {}]
           result == Judge(command, run)
<1>1. run \in Runs
  BY RunsAreTyped
<1>2. NoCases \in Reports
  BY DEF NoCases, Reports, CaseStatuses
<1>3. result.status \in Statuses /\ result.cases \in Reports
  BY <1>1, <1>2
     DEF Judge, StatusOfRun, StatusOfExit, Contradicts, Runs, Statuses, Usable, Proven
<1>4. DOMAIN result.cases \subseteq Tests
  BY <1>3 DEF Reports
<1>5. BaselineIds(n, result) \subseteq Tests
  BY <1>4, InventoryAssumption DEF BaselineIds, CasesWith
<1> QED
  BY <1>1, <1>3, <1>5 DEF Baseline, Baselines

\* A command with a report contributes nothing unless its report was usable; a
\* plain command contributes itself.
LEMMA EvidenceOfBaseline ==
  ASSUME NEW n \in 1..Inventory, NEW run \in RunsOf(n)
  PROVE  LET b == Baseline(n, run)
         IN  /\ Declares[n] /\ b.passing # {} => b.from_report
             /\ ~Declares[n] => ~b.from_report /\ b.passing \subseteq Names[n]
<1>1. Declares[n] \in BOOLEAN
  BY InventoryAssumption
<1> QED
  BY <1>1 DEF Baseline, BaselineIds, Judge, Proven, Usable

\* A suite that proved itself on the unpatched revision fails in the counted
\* tests that do not pass.
LEMMA CountOfSuite ==
  ASSUME NEW n \in 1..Inventory, NEW run \in RunsOf(n), Declares[n],
         NEW kept, kept # {},
         Judge([report |-> TRUE, counted |-> kept], run).status \in Usable
  PROVE  LET command == [report |-> TRUE, counted |-> kept]
         IN  FailureCount(command, Judge(command, run))
               = Cardinality({id \in kept : ~DidPass(n, id, run)})
<1> DEFINE command == [report |-> TRUE, counted |-> kept]
           result == Judge(command, run)
           lost == {id \in kept : ~DidPass(n, id, run)}
<1>1. Proven(command)
  BY DEF Proven
<1>2. CASE run.report = NoCases
  <2>1. result.cases = NoCases /\ result.status = "fail"
    BY <1>1, <1>2 DEF Judge, Usable
  <2>2. lost = kept
    BY <1>2 DEF DidPass, NoCases
  <2> QED
    BY <2>1, <2>2 DEF FailureCount
<1>3. CASE run.report # NoCases
  <2>1. result.cases = run.report
    BY <1>3 DEF Judge, Usable
  <2>2. lost = kept \ CasesWith(run.report, {"passed"})
    BY DEF DidPass, CasesWith
  <2> QED
    BY <1>3, <2>1, <2>2 DEF FailureCount
<1> QED
  BY <1>2, <1>3

\* A plain command is one unit.
LEMMA CountOfPlain ==
  ASSUME NEW n \in 1..Inventory, NEW run \in RunsOf(n), ~Declares[n],
         NEW kept, kept # {}, kept \subseteq Names[n],
         Judge([report |-> FALSE, counted |-> {}], run).status \in Usable
  PROVE  LET command == [report |-> FALSE, counted |-> {}]
         IN  FailureCount(command, Judge(command, run))
               = Cardinality({id \in kept : ~DidPass(n, id, run)})
<1> DEFINE command == [report |-> FALSE, counted |-> {}]
           result == Judge(command, run)
           lost == {id \in kept : ~DidPass(n, id, run)}
<1>0. PICK unit \in Tests : Names[n] = {unit}
  BY InventoryAssumption
<1>1. kept = {unit}
  BY <1>0
<1>2. result.cases = NoCases /\ result.status = StatusOfRun(command, run)
  BY DEF Judge
<1>3. (result.status = "pass") = (run.exit = "success")
  BY <1>2 DEF StatusOfRun, StatusOfExit, Usable, Proven
<1>4. Cardinality(lost) = IF result.status = "pass" THEN 0 ELSE 1
  <2>1. lost = IF result.status = "pass" THEN {} ELSE {unit}
    BY <1>1, <1>3 DEF DidPass
  <2>2. Cardinality({}) = 0 /\ Cardinality({unit}) = 1
    BY FS_EmptySet, FS_Singleton
  <2> QED
    BY <2>1, <2>2
<1>5. FailureCount(command, result) = IF result.status = "pass" THEN 0 ELSE 1
  BY <1>2 DEF FailureCount
<1> QED
  BY <1>4, <1>5

----------------------------------------------------------------------------
(* The invariant is inductive.                                             *)

LEMMA InitSchedule == Init => ScheduleInv
<1> SUFFICES ASSUME Init PROVE ScheduleInv
  OBVIOUS
<1>1. baselines \in Seq(Baselines) /\ Len(baselines) = 0 /\ DOMAIN baselines = {}
  BY DEF Init
<1> QED
  BY <1>1, InventoryAssumption
     DEF Init, ScheduleInv, BaselinesAreListed, BaselinesAreEarned, BaselinesAreDisjoint,
         ScheduleIsKept, ObservedIsScheduled, NothingBeforeChoice, Unobserved, PassingIds

\* An action that leaves baselines, exclusions and schedule alone.
LEMMA SameSchedule ==
  ASSUME ScheduleInv, UNCHANGED <<baselines, excluded, schedule>>
  PROVE  /\ BaselinesAreEarned'
         /\ BaselinesAreDisjoint'
         /\ ScheduleIsKept'
         /\ phase' \in {"baseline", "choosing", "validating", "failed"} => BaselinesAreListed'
  BY DEF ScheduleInv, BaselinesAreListed, BaselinesAreEarned, BaselinesAreDisjoint,
         ScheduleIsKept, PassingIds, Kept

LEMMA FailSchedule ==
  ASSUME ScheduleInv, Fail
  PROVE  ScheduleInv'
  BY SameSchedule DEF Fail, ScheduleInv, ObservedIsScheduled, NothingBeforeChoice

LEMMA RunBaselineSchedule ==
  ASSUME ScheduleInv, NEW n \in 1..Inventory, NEW run \in RunsOf(n), RunBaseline(n, run)
  PROVE  ScheduleInv'
<1> DEFINE next == Baseline(n, run)
<1>1. CASE next.passing \cap PassingIds # {}
  BY <1>1, FailSchedule DEF RunBaseline
<1>2. CASE next.passing \cap PassingIds = {}
  <2>1. /\ baselines' = Append(baselines, next)
        /\ UNCHANGED <<phase, excluded, schedule, observed>>
        /\ phase = "baseline"
        /\ n = Len(baselines) + 1
    BY <1>2 DEF RunBaseline
  <2>2. next \in Baselines /\ baselines \in Seq(Baselines)
    BY BaselineIsTyped DEF ScheduleInv, BaselinesAreListed
  <2>3. /\ baselines' \in Seq(Baselines)
        /\ Len(baselines') = n
        /\ DOMAIN baselines' = DOMAIN baselines \cup {n}
        /\ baselines'[n] = next
        /\ \A i \in DOMAIN baselines : baselines'[i] = baselines[i]
    BY <2>1, <2>2
  <2>4. PassingIds \subseteq PassingIds'
    BY <2>3 DEF PassingIds
  <2>5. BaselinesAreListed'
    BY <2>1, <2>3, <2>4 DEF ScheduleInv, BaselinesAreListed
  <2>6. next.run = run
    BY DEF Baseline
  <2>7. BaselinesAreEarned'
    <3>1. ASSUME NEW i \in DOMAIN baselines
          PROVE  baselines'[i].run \in RunsOf(i) /\ baselines'[i] = Baseline(i, baselines'[i].run)
      BY <2>3 DEF ScheduleInv, BaselinesAreEarned
    <3>2. baselines'[n].run \in RunsOf(n) /\ baselines'[n] = Baseline(n, baselines'[n].run)
      BY <2>3, <2>6
    <3> QED
      BY <2>3, <3>1, <3>2 DEF BaselinesAreEarned
  <2>8. BaselinesAreDisjoint'
    <3>1. \A i \in DOMAIN baselines : baselines[i].passing \subseteq PassingIds
      BY DEF PassingIds
    <3>2. \A i \in DOMAIN baselines : baselines'[i].passing \cap next.passing = {}
      BY <1>2, <2>3, <3>1
    <3> QED
      BY <2>3, <3>2 DEF ScheduleInv, BaselinesAreDisjoint
  <2> QED
    BY <2>1, <2>3, <2>5, <2>7, <2>8
       DEF ScheduleInv, ScheduleIsKept, ObservedIsScheduled, NothingBeforeChoice, Unobserved
<1> QED
  BY <1>1, <1>2

LEMMA EndBaselineSchedule ==
  ASSUME ScheduleInv, EndBaseline
  PROVE  ScheduleInv'
<1>1. CASE Fail
  BY <1>1, FailSchedule
<1>2. CASE phase' = "choosing" /\ UNCHANGED <<baselines, excluded, schedule, observed>>
  BY <1>2, SameSchedule
     DEF EndBaseline, ScheduleInv, ObservedIsScheduled, NothingBeforeChoice
<1> QED
  BY <1>1, <1>2 DEF EndBaseline

LEMMA ExcludeSchedule ==
  ASSUME ScheduleInv, NEW ids \in SUBSET Tests, Exclude(ids)
  PROVE  ScheduleInv'
<1>1. CASE Fail
  BY <1>1, FailSchedule
<1>2. CASE ~Fail
  <2>1. /\ phase = "choosing" /\ phase' = "validating"
        /\ ids \subseteq PassingIds
        /\ excluded' = ids
        /\ schedule' = Scheduled(ids)
        /\ UNCHANGED <<baselines, observed>>
    BY <1>2 DEF Exclude
  <2>2. BaselinesAreListed' /\ BaselinesAreEarned' /\ BaselinesAreDisjoint'
    BY <2>1
       DEF ScheduleInv, BaselinesAreListed, BaselinesAreEarned, BaselinesAreDisjoint, PassingIds
  <2>3. ScheduleIsKept'
    BY <2>1 DEF ScheduleIsKept, Scheduled, Kept
  <2>4. ObservedIsScheduled' /\ NothingBeforeChoice'
    BY <2>1 DEF ScheduleInv, ObservedIsScheduled, NothingBeforeChoice, Unobserved
  <2> QED
    BY <2>2, <2>3, <2>4 DEF ScheduleInv
<1> QED
  BY <1>1, <1>2

LEMMA ValidateSchedule ==
  ASSUME ScheduleInv, NEW n \in schedule, NEW run \in RunsOf(n), Validate(n, run)
  PROVE  ScheduleInv'
<1>1. /\ BaselinesAreListed' /\ BaselinesAreEarned'
      /\ BaselinesAreDisjoint' /\ ScheduleIsKept'
  BY SameSchedule DEF Validate, ScheduleInv, BaselinesAreListed
<1>2. ObservedIsScheduled'
  BY DEF Validate, ScheduleInv, ObservedIsScheduled
<1> QED
  BY <1>1, <1>2 DEF Validate, ScheduleInv, NothingBeforeChoice

LEMMA NextCandidateSchedule ==
  ASSUME ScheduleInv, NextCandidate
  PROVE  ScheduleInv'
<1>1. /\ BaselinesAreListed' /\ BaselinesAreEarned'
      /\ BaselinesAreDisjoint' /\ ScheduleIsKept'
  BY SameSchedule DEF NextCandidate, ScheduleInv, BaselinesAreListed
<1> QED
  BY <1>1
     DEF NextCandidate, ScheduleInv, ObservedIsScheduled, NothingBeforeChoice, Unobserved

LEMMA StepSchedule == ScheduleInv /\ [Next]_vars => ScheduleInv'
<1> SUFFICES ASSUME ScheduleInv, [Next]_vars PROVE ScheduleInv'
  OBVIOUS
<1>1. CASE \E n \in 1..Inventory : \E run \in RunsOf(n) : RunBaseline(n, run)
  BY <1>1, RunBaselineSchedule
<1>2. CASE EndBaseline
  BY <1>2, EndBaselineSchedule
<1>3. CASE \E ids \in SUBSET Tests : Exclude(ids)
  BY <1>3, ExcludeSchedule
<1>4. CASE \E n \in schedule : \E run \in RunsOf(n) : Validate(n, run)
  BY <1>4, ValidateSchedule
<1>5. CASE NextCandidate
  BY <1>5, NextCandidateSchedule
<1>6. CASE UNCHANGED vars
  <2>1. UNCHANGED <<phase, baselines, excluded, schedule, observed>>
    BY <1>6 DEF vars
  <2>2. /\ BaselinesAreListed' /\ BaselinesAreEarned'
        /\ BaselinesAreDisjoint' /\ ScheduleIsKept'
    BY <2>1, SameSchedule DEF ScheduleInv, BaselinesAreListed
  <2> QED
    BY <2>1, <2>2 DEF ScheduleInv, ObservedIsScheduled, NothingBeforeChoice
<1> QED
  BY <1>1, <1>2, <1>3, <1>4, <1>5, <1>6 DEF Next

\* The inductive invariant: baselines are what their runs are worth, each scheduled
\* command keeps a test, and only scheduled commands are observed on candidates.
THEOREM ScheduleInvariant == Spec => []ScheduleInv
<1>1. Init => ScheduleInv
  BY InitSchedule
<1>2. ScheduleInv /\ [Next]_vars => ScheduleInv'
  BY StepSchedule
<1> QED
  BY <1>1, <1>2, PTL DEF Spec

----------------------------------------------------------------------------
(* What it is for.                                                         *)

LEMMA InventoryDomain ==
  ASSUME ScheduleInv
  PROVE  DOMAIN baselines \subseteq 1..Inventory
<1>1. baselines \in Seq(Baselines) /\ Len(baselines) <= Inventory
  BY DEF ScheduleInv, BaselinesAreListed
<1>2. DOMAIN baselines = 1..Len(baselines) /\ Len(baselines) \in Nat
  BY <1>1
<1> QED
  BY <1>1, <1>2, InventoryAssumption

\* Type correctness of the schedule, for every inventory.
THEOREM ScheduleTypes == Spec => []TypeOK
<1>1. ScheduleInv => TypeOK
  <2> SUFFICES ASSUME ScheduleInv PROVE TypeOK
    OBVIOUS
  <2>1. \A n \in DOMAIN observed : n \in 1..Inventory /\ observed[n] \in RunsOf(n)
    BY InventoryDomain DEF ScheduleInv, ScheduleIsKept, ObservedIsScheduled
  <2>2. \A n \in DOMAIN observed : observed[n] \in Runs
    BY <2>1, RunsAreTyped
  <2>3. observed \in [DOMAIN observed -> Runs]
    BY <2>2 DEF ScheduleInv, ObservedIsScheduled
  <2> QED
    BY <2>3
       DEF ScheduleInv, BaselinesAreListed, ScheduleIsKept, ObservedIsScheduled, TypeOK
<1> QED
  BY <1>1, ScheduleInvariant, PTL

\* For every inventory no test is counted by two commands of the schedule.
THEOREM CommandsShareNoTest == Spec => []TestsCountOnce
<1>1. ScheduleInv => TestsCountOnce
  BY DEF ScheduleInv, BaselinesAreDisjoint, ScheduleIsKept, TestsCountOnce, Kept
<1> QED
  BY <1>1, ScheduleInvariant, PTL

\* For every inventory, every baseline, every choice of exclusions and every run: a
\* usable result of a scheduled command counts as failed exactly the kept tests that
\* passed on the unpatched revision and do not pass on the candidate.
THEOREM CountsAreRegressions == Spec => []FailuresAreRegressions
<1>1. ScheduleInv => FailuresAreRegressions
  <2> SUFFICES ASSUME ScheduleInv, NEW n \in DOMAIN observed, Counts(n)
               PROVE  CountOf(n) = Cardinality({id \in Kept(n) : ~DidPass(n, id, observed[n])})
    BY DEF FailuresAreRegressions
  <2> DEFINE base == baselines[n].run
  <2>1. n \in schedule /\ n \in DOMAIN baselines /\ n \in 1..Inventory
    BY InventoryDomain DEF ScheduleInv, ScheduleIsKept, ObservedIsScheduled
  <2>2. observed[n] \in RunsOf(n) /\ Kept(n) # {}
    BY <2>1 DEF ScheduleInv, ScheduleIsKept, ObservedIsScheduled
  <2>3. base \in RunsOf(n) /\ baselines[n] = Baseline(n, base)
    BY <2>1 DEF ScheduleInv, BaselinesAreEarned
  <2>4. Kept(n) \subseteq baselines[n].passing /\ Declares[n] \in BOOLEAN
    BY <2>1, InventoryAssumption DEF Kept
  <2>5. CASE Declares[n]
    <3>1. Frozen(n) = [report |-> TRUE, counted |-> Kept(n)]
      BY <2>1, <2>2, <2>3, <2>4, <2>5, EvidenceOfBaseline DEF Frozen
    <3> QED
      BY <2>1, <2>2, <2>5, <3>1, CountOfSuite DEF CountOf, Counts, ResultOf
  <2>6. CASE ~Declares[n]
    <3>1. Frozen(n) = [report |-> FALSE, counted |-> {}] /\ Kept(n) \subseteq Names[n]
      BY <2>1, <2>3, <2>4, <2>6, EvidenceOfBaseline DEF Frozen
    <3> QED
      BY <2>1, <2>2, <2>6, <3>1, CountOfPlain DEF CountOf, Counts, ResultOf
  <2> QED
    BY <2>5, <2>6
<1> QED
  BY <1>1, ScheduleInvariant, PTL

----------------------------------------------------------------------------
(* What a document shows and what its parser makes of it.                  *)

Passes(report, id) == id \in DOMAIN report /\ report[id] = "passed"

\* An ID a report can have: masked where the policy masks, and of the members of a
\* family only the parent.
IsKey(policy, id) ==
  /\ id = [path |-> id.path, random |-> id.random]
  /\ policy \in DOMAIN Maskable /\ id.path \in Maskable[policy] => id = Whole(id.path)
  /\ policy = "pebble-random-parent" =>
       IF id.path \in Roots THEN id = Whole(id.path) ELSE \A root \in Roots : ~Under(root, id)

\* The worst outcome of a test is "passed" if it passed and nothing worse was reported.
LEMMA WorstIsPassed ==
  ASSUME NEW S \in SUBSET CaseStatuses, S # {}
  PROVE  Worst(S) = "passed" <=> "passed" \in S /\ S \cap {"failed", "error"} = {}
<1>1. /\ Severity["skipped"] = 0 /\ Severity["passed"] = 1
      /\ Severity["failed"] = 2 /\ Severity["error"] = 3
  BY DEF Severity
<1>2. \A s \in S : s = "skipped" \/ s = "passed" \/ s = "failed" \/ s = "error"
  BY DEF CaseStatuses
<1> HIDE DEF Severity
<1>3. \E w \in S : \A t \in S : Severity[w] >= Severity[t]
  <2>1. CASE "error" \in S
    BY <1>1, <1>2, <2>1
  <2>2. CASE "error" \notin S /\ "failed" \in S
    BY <1>1, <1>2, <2>2
  <2>3. CASE "error" \notin S /\ "failed" \notin S /\ "passed" \in S
    BY <1>1, <1>2, <2>3
  <2>4. CASE "error" \notin S /\ "failed" \notin S /\ "passed" \notin S
    BY <1>1, <1>2, <2>4
  <2> QED BY <2>1, <2>2, <2>3, <2>4
<1>4. Worst(S) \in S /\ \A t \in S : Severity[Worst(S)] >= Severity[t]
  BY <1>3 DEF Worst
<1> QED BY <1>1, <1>2, <1>4

\* What the entries of a document that can be read say.
LEMMA EntriesAreCases ==
  ASSUME NEW doc, DocumentShape(doc), ~Malformed(doc)
  PROVE  \A e \in doc.entries :
           /\ StatusSaid(doc.format, e.says) \in CaseStatuses
           /\ e.id = [path |-> e.id.path, random |-> e.id.random]
<1> SUFFICES ASSUME NEW e \in doc.entries
             PROVE  /\ StatusSaid(doc.format, e.says) \in CaseStatuses
                    /\ e.id = [path |-> e.id.path, random |-> e.id.random]
  OBVIOUS
<1>1. e.id # Unnamed /\ (doc.format = "ctrf-json" => e.says \in DOMAIN CtrfStatus)
  BY DEF Malformed
<1>2. /\ \A s \in DOMAIN CtrfStatus : CtrfStatus[s] \in CaseStatuses
      /\ \A s \in DOMAIN MochaStatus : MochaStatus[s] \in CaseStatuses
      /\ \A tags : JunitStatus(tags) \in CaseStatuses
  BY DEF CtrfStatus, MochaStatus, JunitStatus, CaseStatuses
<1>3. StatusSaid(doc.format, e.says) \in CaseStatuses
  BY <1>1, <1>2 DEF StatusSaid, DocumentShape, Formats
<1> QED BY <1>1, <1>3 DEF DocumentShape

\* One case per name and status of the entries.
LEMMA CasesOfDocument ==
  ASSUME NEW doc
  PROVE  /\ \A c \in Cases(doc) : \E e \in doc.entries :
              c.id = e.id /\ c.status = StatusSaid(doc.format, e.says)
         /\ \A e \in doc.entries : \E c \in Cases(doc) :
              c.id = e.id /\ c.status = StatusSaid(doc.format, e.says)
<1>1. ASSUME NEW c \in Cases(doc)
      PROVE  \E e \in doc.entries : c.id = e.id /\ c.status = StatusSaid(doc.format, e.says)
  <2>1. PICK e \in doc.entries : c = [id |-> e.id, status |-> StatusSaid(doc.format, e.says)]
    BY DEF Cases
  <2> QED BY <2>1
<1>2. ASSUME NEW e \in doc.entries
      PROVE  \E c \in Cases(doc) : c.id = e.id /\ c.status = StatusSaid(doc.format, e.says)
  <2> DEFINE c == [id |-> e.id, status |-> StatusSaid(doc.format, e.says)]
  <2>1. c \in Cases(doc)
    BY DEF Cases
  <2>2. c.id = e.id /\ c.status = StatusSaid(doc.format, e.says)
    OBVIOUS
  <2> QED BY <2>1, <2>2
<1> QED BY <1>1, <1>2

\* A root is a sequence, and so lies in its own family.
LEMMA RootIsUnderItself ==
  ASSUME NEW root \in Roots, NEW id, id.path = root
  PROVE  Under(root, id)
<1> DEFINE parts == {root[k] : k \in DOMAIN root}
<1>1. root \in Seq(parts)
  BY PolicyAssumption
<1> HIDE DEF parts
<1>2. Len(root) >= Len(root) /\ SubSeq(root, 1, Len(root)) = root
  BY <1>1
<1> QED BY <1>2 DEF Under

\* Without families: the entries behind an ID are those of the same name, masked where
\* the policy masks, and all of them have one raw ID.
LEMMA PlainReport ==
  ASSUME NEW doc, DocumentShape(doc), NEW policy, policy # "pebble-random-parent",
         ParseReport(doc, policy) # NoCases
  PROVE  /\ \A id \in DOMAIN ParseReport(doc, policy) : IsKey(policy, id)
         /\ \A id : IsKey(policy, id) =>
              (Passes(ParseReport(doc, policy), id) <=> Shows(doc, policy, id))
<1> DEFINE cases == Cases(doc)
           report == ParseReport(doc, policy)
<1>1. ~Malformed(doc) /\ ~Collides(cases, policy)
  BY DEF ParseReport
<1>2. report = [t \in {TestId(policy, c.id) : c \in cases} |->
                  Worst({c.status : c \in {d \in cases : TestId(policy, d.id) = t}})]
  BY <1>1 DEF ParseReport
<1>3. \A e \in doc.entries :
        /\ StatusSaid(doc.format, e.says) \in CaseStatuses
        /\ e.id = [path |-> e.id.path, random |-> e.id.random]
  BY <1>1, EntriesAreCases
<1>4. /\ \A c \in cases : \E e \in doc.entries :
           c.id = e.id /\ c.status = StatusSaid(doc.format, e.says)
      /\ \A e \in doc.entries : \E c \in cases :
           c.id = e.id /\ c.status = StatusSaid(doc.format, e.says)
  BY CasesOfDocument
<1> HIDE DEF cases, report
<1>5. ASSUME NEW id \in DOMAIN report
      PROVE  IsKey(policy, id)
  <2>1. PICK c \in cases : id = TestId(policy, c.id)
    BY <1>2
  <2>2. c.id = [path |-> c.id.path, random |-> c.id.random]
    BY <1>3, <1>4
  <2> QED BY <2>1, <2>2 DEF IsKey, TestId, Whole
<1>6. ASSUME NEW id, IsKey(policy, id)
      PROVE  Passes(report, id) <=> Shows(doc, policy, id)
  <2> DEFINE mine == {e \in doc.entries :
                        e.id = id \/ (e.id.path = id.path /\ policy \in DOMAIN Maskable
                                        /\ id.path \in Maskable[policy])}
             said == {StatusSaid(doc.format, e.says) : e \in mine}
             raw == {e.id : e \in mine}
             behind == {d \in cases : TestId(policy, d.id) = id}
  <2>1. Shows(doc, policy, id) <=>
          /\ "passed" \in said /\ said \cap {"failed", "error"} = {}
          /\ \E one \in raw : raw = {one}
    BY DEF Shows
  <2>2. \A e \in doc.entries : e \in mine <=> TestId(policy, e.id) = id
    <3> SUFFICES ASSUME NEW e \in doc.entries
                 PROVE  e \in mine <=> TestId(policy, e.id) = id
      OBVIOUS
    <3>1. e.id = [path |-> e.id.path, random |-> e.id.random]
      BY <1>3
    <3>2. id = [path |-> id.path, random |-> id.random]
      BY <1>6 DEF IsKey
    <3>3. CASE policy \in DOMAIN Maskable /\ id.path \in Maskable[policy]
      BY <1>6, <3>1, <3>2, <3>3 DEF IsKey, TestId, Whole
    <3>4. CASE ~(policy \in DOMAIN Maskable /\ id.path \in Maskable[policy])
      BY <3>1, <3>2, <3>4 DEF TestId, Whole
    <3> QED BY <3>3, <3>4
  <2> HIDE DEF mine
  <2>3. said = {c.status : c \in behind}
    <3>1. \A s \in said : \E c \in behind : s = c.status
      BY <1>4, <2>2 DEF mine
    <3>2. \A c \in behind : c.status \in said
      BY <1>4, <2>2 DEF mine
    <3> QED BY <3>1, <3>2
  <2>4. said \subseteq CaseStatuses
    BY <1>3 DEF mine
  <2>5. \A d, e \in mine : d.id = e.id
    BY <1>1, <1>4, <2>2 DEF Collides, mine
  <2>6. said # {} => \E one \in raw : raw = {one}
    BY <2>5
  <2>7. id \in DOMAIN report <=> said # {}
    BY <1>2, <2>3
  <2>8. id \in DOMAIN report => report[id] = Worst(said)
    BY <1>2, <2>3
  <2> HIDE DEF said, raw, behind
  <2>9. said # {} => (Worst(said) = "passed" <=> "passed" \in said /\ said \cap {"failed", "error"} = {})
    BY <2>4, WorstIsPassed
  <2> QED BY <2>1, <2>6, <2>7, <2>8, <2>9 DEF Passes
<1> QED BY <1>5, <1>6 DEF report

\* With families: a parent stands for all of its family, and other tests for themselves.
LEMMA FamilyReport ==
  ASSUME NEW doc, DocumentShape(doc), NEW policy, policy = "pebble-random-parent",
         ParseReport(doc, policy) # NoCases
  PROVE  /\ \A id \in DOMAIN ParseReport(doc, policy) : IsKey(policy, id)
         /\ \A id : IsKey(policy, id) =>
              (Passes(ParseReport(doc, policy), id) <=> Shows(doc, policy, id))
<1> DEFINE all == Cases(doc)
           cases == Grouped(all)
           report == ParseReport(doc, policy)
           family(root) == {c \in all : Under(root, c.id)}
           present == {root \in Roots : family(root) # {}}
           alone == all \ UNION {family(root) : root \in present}
           parents == {[id |-> Whole(root), status |-> GroupStatus(root, family(root))] :
                         root \in present}
<1>1. ~Malformed(doc) /\ policy \notin DOMAIN Maskable
  BY PolicyAssumption DEF ParseReport
<1>2. \A id : TestId(policy, id) = id
  BY <1>1 DEF TestId
<1>3. report = [t \in {c.id : c \in cases} |->
                  Worst({c.status : c \in {d \in cases : d.id = t}})]
  <2>1. report = [t \in {TestId(policy, c.id) : c \in cases} |->
                    Worst({c.status : c \in {d \in cases : TestId(policy, d.id) = t}})]
    BY <1>1 DEF ParseReport
  <2> HIDE DEF cases, report
  <2> QED BY <1>2, <2>1
<1>4. \A e \in doc.entries :
        /\ StatusSaid(doc.format, e.says) \in CaseStatuses
        /\ e.id = [path |-> e.id.path, random |-> e.id.random]
  BY <1>1, EntriesAreCases
<1>5. /\ \A c \in all : \E e \in doc.entries :
           c.id = e.id /\ c.status = StatusSaid(doc.format, e.says)
      /\ \A e \in doc.entries : \E c \in all :
           c.id = e.id /\ c.status = StatusSaid(doc.format, e.says)
  BY CasesOfDocument
<1>6. cases = alone \cup parents
  BY DEF Grouped
<1>7. \A c \in all : c \in alone <=> \A root \in Roots : ~Under(root, c.id)
  OBVIOUS
<1>8. \A c \in all : c.status \in CaseStatuses /\ c.id = [path |-> c.id.path, random |-> c.id.random]
  BY <1>4, <1>5
<1>9. \A c \in parents : c.id = Whole(c.id.path) /\ c.id.path \in Roots
  <2> SUFFICES ASSUME NEW c \in parents PROVE c.id = Whole(c.id.path) /\ c.id.path \in Roots
    OBVIOUS
  <2>1. PICK root \in present : c = [id |-> Whole(root), status |-> GroupStatus(root, family(root))]
    OBVIOUS
  <2>2. c.id = Whole(root) /\ root \in Roots
    BY <2>1
  <2> QED BY <2>2 DEF Whole
<1>10. \A c \in alone : c.id.path \notin Roots
  BY <1>7, RootIsUnderItself
<1> HIDE DEF all, cases, report
<1>11. ASSUME NEW id \in DOMAIN report
       PROVE  IsKey(policy, id)
  <2>1. PICK c \in cases : id = c.id
    BY <1>3
  <2>2. CASE c \in alone
    BY <1>1, <1>7, <1>8, <1>10, <2>1, <2>2 DEF IsKey
  <2>3. CASE c \in parents
    <3>1. id = Whole(id.path) /\ id.path \in Roots
      BY <1>9, <2>1, <2>3
    <3>2. id = [path |-> id.path, random |-> id.random]
      BY <3>1 DEF Whole
    <3> QED BY <1>1, <3>1, <3>2 DEF IsKey
  <2> QED BY <1>6, <2>1, <2>2, <2>3
<1>12. ASSUME NEW id, IsKey(policy, id), id.path \notin Roots
       PROVE  Passes(report, id) <=> Shows(doc, policy, id)
  <2> DEFINE mine == {e \in doc.entries : e.id = id}
             said == {StatusSaid(doc.format, e.says) : e \in mine}
             raw == {e.id : e \in mine}
             behind == {d \in cases : d.id = id}
  <2>1. Shows(doc, policy, id) <=>
          /\ "passed" \in said /\ said \cap {"failed", "error"} = {}
          /\ \E one \in raw : raw = {one}
    BY <1>1, <1>12 DEF Shows
  <2>2. behind = {c \in all : c.id = id}
    <3>1. \A root \in Roots : ~Under(root, id)
      BY <1>12 DEF IsKey
    <3>2. \A c \in parents : c.id # id
      BY <1>9, <1>12
    <3>3. \A c \in all : c.id = id => c \in alone
      BY <1>7, <3>1
    <3> HIDE DEF alone, parents
    <3>4. alone \subseteq all
      BY DEF alone
    <3> QED BY <1>6, <3>2, <3>3, <3>4
  <2>3. said = {c.status : c \in behind}
    <3>1. \A s \in said : \E c \in behind : s = c.status
      BY <1>5, <2>2
    <3>2. \A c \in behind : c.status \in said
      BY <1>5, <2>2
    <3> QED BY <3>1, <3>2
  <2>4. said \subseteq CaseStatuses
    BY <1>4
  <2>5. said # {} => \E one \in raw : raw = {one}
    OBVIOUS
  <2>6. /\ id \in DOMAIN report <=> said # {}
        /\ id \in DOMAIN report => report[id] = Worst(said)
    BY <1>3, <2>3
  <2> HIDE DEF said, raw, behind
  <2>7. said # {} => (Worst(said) = "passed" <=> "passed" \in said /\ said \cap {"failed", "error"} = {})
    BY <2>4, WorstIsPassed
  <2> QED BY <2>1, <2>5, <2>6, <2>7 DEF Passes
<1>13. ASSUME NEW id, IsKey(policy, id), id.path \in Roots
       PROVE  Passes(report, id) <=> Shows(doc, policy, id)
  <2> DEFINE root == id.path
             mine == {e \in doc.entries : Under(root, e.id)}
             said == {StatusSaid(doc.format, e.says) : e \in mine}
             raw == {e.id : e \in mine}
             status == GroupStatus(root, family(root))
  <2>1. id = Whole(root) /\ root \in Roots
    BY <1>13 DEF IsKey
  <2>2. Shows(doc, policy, id) <=>
          /\ "passed" \in said /\ said \cap {"failed", "error"} = {}
          /\ id \in raw /\ raw # {id} /\ "skipped" \notin said
    BY <1>13 DEF Shows
  <2>3. /\ said = {c.status : c \in family(root)}
        /\ raw = {c.id : c \in family(root)}
    <3>1. /\ \A e \in mine : \E c \in family(root) :
               c.id = e.id /\ c.status = StatusSaid(doc.format, e.says)
          /\ \A c \in family(root) : \E e \in mine :
               c.id = e.id /\ c.status = StatusSaid(doc.format, e.says)
      BY <1>5
    <3> HIDE DEF mine, family
    <3> QED BY <3>1
  <2>4. said \subseteq CaseStatuses
    BY <1>4
  <2>5. status = "passed" <=>
          /\ id \in raw /\ raw # {id}
          /\ "error" \notin said /\ "failed" \notin said /\ "skipped" \notin said
    BY <2>1, <2>3 DEF GroupStatus
  <2>6. {d \in cases : d.id = id} =
          IF family(root) = {} THEN {} ELSE {[id |-> id, status |-> status]}
    <3>1. \A c \in alone : c.id # id
      BY <1>10, <2>1
    <3>2. \A r \in present : Whole(r) = id <=> r = root
      BY <2>1 DEF Whole
    <3>3. ASSUME NEW c \in parents
          PROVE  c.id = id <=> root \in present /\ c = [id |-> id, status |-> status]
      <4> HIDE DEF present, family
      <4>1. PICK r \in present : c = [id |-> Whole(r), status |-> GroupStatus(r, family(r))]
        BY DEF parents
      <4>2. c.id = Whole(r)
        BY <4>1
      <4>3. CASE r = root
        BY <2>1, <4>1, <4>2, <4>3
      <4>4. CASE r # root
        BY <3>2, <4>2, <4>4
      <4> QED BY <4>3, <4>4
    <3>4. root \in present => [id |-> id, status |-> status] \in parents
      BY <2>1
    <3>5. root \in present <=> family(root) # {}
      BY <2>1
    <3> HIDE DEF alone, parents, present, family, status
    <3> QED BY <1>6, <3>1, <3>3, <3>4, <3>5
  <2>7. status \in CaseStatuses
    BY DEF GroupStatus, CaseStatuses
  <2>8. raw # {} <=> family(root) # {}
    BY <2>3
  <2> HIDE DEF said, raw, status, mine
  <2>9. /\ id \in DOMAIN report <=> family(root) # {}
        /\ id \in DOMAIN report => report[id] = Worst({status})
    <3>1. id \in DOMAIN report <=> {d \in cases : d.id = id} # {}
      BY <1>3
    <3>2. id \in DOMAIN report => report[id] = Worst({c.status : c \in {d \in cases : d.id = id}})
      BY <1>3
    <3>3. ASSUME family(root) # {}
          PROVE  {c.status : c \in {d \in cases : d.id = id}} = {status}
      <4> DEFINE one == [id |-> id, status |-> status]
      <4>1. {d \in cases : d.id = id} = {one}
        BY <2>6, <3>3
      <4>2. one.status = status
        OBVIOUS
      <4> HIDE DEF one, family
      <4> QED BY <4>1, <4>2
    <3> HIDE DEF family
    <3> QED BY <2>6, <3>1, <3>2, <3>3
  <2>10. Worst({status}) = "passed" <=> status = "passed"
    BY <2>7, WorstIsPassed
  <2>11. raw # {} /\ "error" \notin said /\ "failed" \notin said /\ "skipped" \notin said
           => "passed" \in said
    <3>1. raw # {} => said # {}
      BY <2>3
    <3> QED BY <2>4, <3>1 DEF CaseStatuses
  <2> HIDE DEF family
  <2> QED BY <2>2, <2>5, <2>8, <2>9, <2>10, <2>11 DEF Passes
<1> QED BY <1>11, <1>12, <1>13 DEF report

\* The two together: what parse_report() makes of a document is what it shows.
LEMMA ReportShowsEntries ==
  ASSUME NEW doc, DocumentShape(doc), NEW policy, ParseReport(doc, policy) # NoCases
  PROVE  /\ \A id \in DOMAIN ParseReport(doc, policy) : IsKey(policy, id)
         /\ \A id : IsKey(policy, id) =>
              (Passes(ParseReport(doc, policy), id) <=> Shows(doc, policy, id))
BY PlainReport, FamilyReport

----------------------------------------------------------------------------
(* The schedule over documents.                                            *)

\* What a report of a run is read from.
ReadFrom(report, doc, n) ==
  /\ doc \in suite[n].documents
  /\ report = NoCases \/ report = ParseReport(doc, suite[n].policy)

DocumentsInv ==
  /\ suite \in [Reporting -> Suites]
  /\ \A n \in DOMAIN baselines \cap Reporting : ReadFrom(baselines[n].run.report, before[n], n)
  /\ \A n \in DOMAIN observed \cap Reporting : ReadFrom(observed[n].report, now[n], n)

\* Over documents the schedule takes the steps it takes over reports.
LEMMA ReportedStepIsStep ==
  [ReportedNext]_rvars => [Next]_vars
<1> SUFFICES ASSUME [ReportedNext]_rvars PROVE [Next]_vars
  OBVIOUS
<1>1. ASSUME NEW n \in 1..Inventory, NEW ended \in Endings, NEW doc \in Documents(n),
             ReportedBaseline(n, ended, doc)
      PROVE  Next
  <2>1. RunBaseline(n, RunOf(n, ended, doc)) /\ RunOf(n, ended, doc) \in RunsOf(n)
    BY <1>1 DEF ReportedBaseline, RunBaseline
  <2> QED BY <2>1 DEF Next
<1>2. ASSUME NEW n \in schedule, NEW ended \in Endings, NEW doc \in Documents(n),
             ReportedValidate(n, ended, doc)
      PROVE  Next
  <2>1. Validate(n, RunOf(n, ended, doc)) /\ RunOf(n, ended, doc) \in RunsOf(n)
    BY <1>2 DEF ReportedValidate, Validate
  <2> QED BY <2>1 DEF Next
<1>3. CASE EndBaseline \/ (\E ids \in SUBSET Tests : Exclude(ids)) \/ NextCandidate
  BY <1>3 DEF Next
<1>4. CASE UNCHANGED rvars
  BY <1>4 DEF rvars
<1> QED BY <1>1, <1>2, <1>3, <1>4 DEF ReportedNext

\* What is read of a document, whatever the end of the run.
LEMMA RunIsReadFrom ==
  ASSUME NEW n, NEW ended, NEW doc \in Documents(n), n \in Reporting
  PROVE  ReadFrom(RunOf(n, ended, doc).report, doc, n)
BY DEF ReadFrom, RunOf, Documents, Reporting

LEMMA DocumentsStep ==
  ScheduleInv /\ DocumentsInv /\ [ReportedNext]_rvars => DocumentsInv'
<1> SUFFICES ASSUME ScheduleInv, DocumentsInv, [ReportedNext]_rvars
             PROVE  DocumentsInv'
  OBVIOUS
<1>1. ASSUME NEW n \in 1..Inventory, NEW ended \in Endings, NEW doc \in Documents(n),
             ReportedBaseline(n, ended, doc)
      PROVE  DocumentsInv'
  <2> DEFINE run == RunOf(n, ended, doc)
  <2>1. /\ RunBaseline(n, run)
        /\ before' = [m \in Reporting |-> IF m = n THEN doc ELSE before[m]]
        /\ UNCHANGED <<suite, now>>
    BY <1>1 DEF ReportedBaseline
  <2>2. /\ baselines \in Seq(Baselines)
        /\ n = Len(baselines) + 1
        /\ observed' = observed
        /\ baselines' = baselines \/ baselines' = Append(baselines, Baseline(n, run))
    BY <2>1 DEF RunBaseline, Fail, ScheduleInv, BaselinesAreListed
  <2>3. n \notin DOMAIN baselines
    BY <2>2
  <2>4. ASSUME NEW m \in DOMAIN baselines' \cap Reporting
        PROVE  ReadFrom(baselines[m].run.report, before[m], m)'
    <3>1. CASE m \in DOMAIN baselines
      <4>1. baselines'[m] = baselines[m] /\ before'[m] = before[m] /\ suite' = suite
        BY <2>1, <2>2, <2>3, <2>4, <3>1
      <4> QED BY <2>4, <3>1, <4>1 DEF DocumentsInv, ReadFrom
    <3>2. CASE m \notin DOMAIN baselines
      <4>1. m = n /\ baselines'[m] = Baseline(n, run)
        BY <2>2, <2>4, <3>2
      <4>2. baselines'[m].run = run
        BY <4>1 DEF Baseline
      <4>3. before'[m] = doc /\ suite' = suite
        BY <2>1, <2>4, <4>1
      <4>4. ReadFrom(run.report, doc, m)
        BY <2>4, <4>1, RunIsReadFrom
      <4> QED BY <4>2, <4>3, <4>4 DEF ReadFrom
    <3> QED BY <3>1, <3>2
  <2> QED BY <2>1, <2>2, <2>4 DEF DocumentsInv, ReadFrom
<1>2. ASSUME NEW n \in schedule, NEW ended \in Endings, NEW doc \in Documents(n),
             ReportedValidate(n, ended, doc)
      PROVE  DocumentsInv'
  <2> DEFINE run == RunOf(n, ended, doc)
  <2>1. /\ observed' = [m \in DOMAIN observed \cup {n} |-> IF m = n THEN run ELSE observed[m]]
        /\ now' = [m \in Reporting |-> IF m = n THEN doc ELSE now[m]]
        /\ n \notin DOMAIN observed
        /\ UNCHANGED <<suite, before, baselines>>
    BY <1>2 DEF ReportedValidate, Validate
  <2>2. ASSUME NEW m \in DOMAIN observed' \cap Reporting
        PROVE  ReadFrom(observed[m].report, now[m], m)'
    <3>1. CASE m = n
      <4>1. observed'[m] = run /\ now'[m] = doc /\ suite' = suite
        BY <2>1, <2>2, <3>1
      <4>2. ReadFrom(run.report, doc, m)
        BY <2>2, <3>1, RunIsReadFrom
      <4> QED BY <4>1, <4>2 DEF ReadFrom
    <3>2. CASE m # n
      <4>1. m \in DOMAIN observed /\ observed'[m] = observed[m] /\ now'[m] = now[m] /\ suite' = suite
        BY <2>1, <2>2, <3>2
      <4> QED BY <2>2, <4>1 DEF DocumentsInv, ReadFrom
    <3> QED BY <3>1, <3>2
  <2> QED BY <2>1, <2>2 DEF DocumentsInv, ReadFrom
<1>3. CASE (EndBaseline \/ (\E ids \in SUBSET Tests : Exclude(ids))) /\ UNCHANGED documents
  <2>1. UNCHANGED <<baselines, observed, suite, before, now>>
    BY <1>3 DEF EndBaseline, Exclude, Fail, documents
  <2> QED BY <2>1 DEF DocumentsInv, ReadFrom
<1>4. CASE NextCandidate /\ UNCHANGED documents
  <2>1. DOMAIN observed' = {} /\ UNCHANGED <<baselines, suite, before, now>>
    BY <1>4 DEF NextCandidate, Unobserved, documents
  <2> QED BY <2>1 DEF DocumentsInv, ReadFrom
<1>5. CASE UNCHANGED rvars
  BY <1>5 DEF rvars, vars, documents, DocumentsInv, ReadFrom
<1> QED BY <1>1, <1>2, <1>3, <1>4, <1>5 DEF ReportedNext

\* The schedule over documents implements the schedule over reports.
THEOREM ReportedScheduleIsSchedule == ReportedSpec => Spec
<1>1. ReportedInit => Init
  BY DEF ReportedInit
<1> QED BY <1>1, ReportedStepIsStep, PTL DEF ReportedSpec, Spec

\* Every report is read from the document that is remembered for its run.
THEOREM DocumentsInvariant == ReportedSpec => [](ScheduleInv /\ DocumentsInv)
<1>1. ReportedInit => DocumentsInv
  <2>1. ASSUME ReportedInit PROVE DocumentsInv
    <3>1. DOMAIN baselines = {} /\ DOMAIN observed = {} /\ suite \in [Reporting -> Suites]
      BY <2>1 DEF ReportedInit, Init, Unobserved
    <3> QED BY <3>1 DEF DocumentsInv
  <2> QED BY <2>1
<1>2. ReportedSpec => []ScheduleInv
  BY ReportedScheduleIsSchedule, ScheduleInvariant, PTL
<1> QED BY <1>1, <1>2, DocumentsStep, PTL DEF ReportedSpec

\* Read without the parser, the two documents of a command show what a usable result
\* counts: the kept tests passed on the unpatched revision, and the failed units are those
\* of them the candidate's document does not show as passed.
THEOREM CountsAlwaysRestOnEntries == ReportedSpec => []CountsRestOnEntries
<1>1. ScheduleInv /\ DocumentsInv /\ FailuresAreRegressions => CountsRestOnEntries
  <2> SUFFICES ASSUME ScheduleInv, DocumentsInv, FailuresAreRegressions,
                      NEW n \in DOMAIN observed \cap Reporting, Counts(n)
               PROVE  /\ \A id \in Kept(n) : Shows(before[n], suite[n].policy, id)
                      /\ CountOf(n) = Cardinality({id \in Kept(n) :
                           observed[n].report = NoCases
                             \/ ~Shows(now[n], suite[n].policy, id)})
    BY DEF CountsRestOnEntries
  <2> DEFINE policy == suite[n].policy
             earned == baselines[n].run.report
             shown == observed[n].report
  <2>1. n \in schedule /\ n \in DOMAIN baselines /\ Declares[n] /\ suite[n] \in Suites
    BY DEF ScheduleInv, ScheduleIsKept, ObservedIsScheduled, Reporting, DocumentsInv
  <2>2. ReadFrom(earned, before[n], n) /\ ReadFrom(shown, now[n], n)
    BY <2>1 DEF DocumentsInv
  <2>3. DocumentShape(before[n]) /\ DocumentShape(now[n])
    BY <2>1, <2>2, SuitesAssumption DEF ReadFrom
  <2>4. ASSUME NEW id \in Kept(n)
        PROVE  Passes(earned, id)
    <3> DEFINE result == Judge([report |-> Declares[n], counted |-> {}], baselines[n].run)
    <3>1. baselines[n] = Baseline(n, baselines[n].run)
      BY <2>1 DEF ScheduleInv, BaselinesAreEarned
    <3>2. baselines[n].passing = BaselineIds(n, result)
      BY <3>1 DEF Baseline
    <3>3. id \in BaselineIds(n, result)
      BY <3>2 DEF Kept
    <3>4. result.cases # NoCases => result.cases = earned
      BY DEF Judge
    <3>5. result.cases # NoCases
      <4>1. ASSUME result.cases = NoCases PROVE result.status # "pass"
        BY <2>1, <4>1 DEF Judge, Proven, Usable
      <4> QED BY <3>3, <4>1 DEF BaselineIds
    <3> QED BY <3>3, <3>4, <3>5 DEF BaselineIds, CasesWith, Passes
  <2>5. ASSUME NEW id \in Kept(n)
        PROVE  IsKey(policy, id) /\ Shows(before[n], policy, id)
    <3>1. Passes(earned, id)
      BY <2>4
    <3>2. earned # NoCases
      BY <3>1 DEF Passes, NoCases
    <3>3. earned = ParseReport(before[n], policy)
      BY <2>2, <3>2 DEF ReadFrom
    <3>4. /\ \A t \in DOMAIN ParseReport(before[n], policy) : IsKey(policy, t)
          /\ \A t : IsKey(policy, t) =>
               (Passes(ParseReport(before[n], policy), t) <=> Shows(before[n], policy, t))
      BY <2>3, <3>2, <3>3, ReportShowsEntries
    <3> QED BY <3>1, <3>3, <3>4 DEF Passes
  <2>6. ASSUME NEW id \in Kept(n)
        PROVE  ~DidPass(n, id, observed[n]) <=> shown = NoCases \/ ~Shows(now[n], policy, id)
    <3>1. DidPass(n, id, observed[n]) <=> Passes(shown, id)
      BY <2>1 DEF DidPass, Passes
    <3>2. CASE shown = NoCases
      BY <3>1, <3>2 DEF Passes, NoCases
    <3>3. CASE shown # NoCases
      <4>1. shown = ParseReport(now[n], policy)
        BY <2>2, <3>3 DEF ReadFrom
      <4>2. \A t : IsKey(policy, t) =>
              (Passes(ParseReport(now[n], policy), t) <=> Shows(now[n], policy, t))
        BY <2>3, <3>3, <4>1, ReportShowsEntries
      <4>3. IsKey(policy, id)
        BY <2>5
      <4> QED BY <3>1, <3>3, <4>1, <4>2, <4>3
    <3> QED BY <3>2, <3>3
  <2>7. CountOf(n) = Cardinality({id \in Kept(n) : ~DidPass(n, id, observed[n])})
    BY DEF FailuresAreRegressions
  <2>8. {id \in Kept(n) : ~DidPass(n, id, observed[n])} =
          {id \in Kept(n) : shown = NoCases \/ ~Shows(now[n], policy, id)}
    BY <2>6
  <2> QED BY <2>5, <2>7, <2>8
<1>2. ReportedSpec => []FailuresAreRegressions
  BY ReportedScheduleIsSchedule, CountsAreRegressions, PTL
<1> QED BY <1>1, <1>2, DocumentsInvariant, PTL
=============================================================================
