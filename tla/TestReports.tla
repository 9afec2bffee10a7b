---------------------------- MODULE TestReports ----------------------------
(***************************************************************************)
(* parse_report() (validation/reports.py): from the report a test runner   *)
(* has written to one outcome per test.                                    *)
(*                                                                         *)
(* A document is [state, format, entries]; its state says whether it can   *)
(* be read at all.  An entry is [id, says]: says holds the tags of a JUnit *)
(* testcase, the status of a CTRF test, or the list of a Mocha report the  *)
(* entry is in.  An ID is [path, random]: the components of its name, and  *)
(* the part of it that differs from run to run, 0 if there is none.  How   *)
(* components are joined and line breaks escaped is left out.              *)
(***************************************************************************)
EXTENDS TestVerdict, Sequences

CONSTANTS
  Unnamed,   \* ID of an entry without a name
  Maskable,  \* Maskable[policy]: paths the text policies mask
  Roots      \* PEBBLE_RANDOM_PARENTS, as paths

\* No text policy groups, and no family lies in another.
ASSUME PolicyAssumption ==
  /\ DOMAIN Maskable \subseteq {"python-repr-address", "helm-save-tempdir"}
  /\ \A root \in Roots : root \in Seq({root[k] : k \in DOMAIN root})
  /\ \A root, other \in Roots : Len(root) <= Len(other) /\ SubSeq(other, 1, Len(root)) = root
                               => root = other

Formats == {"junit-xml", "ctrf-json", "mocha-json"}
Policies == {"none", "python-repr-address", "helm-save-tempdir", "pebble-random-parent"}

\* _validate_id_policy(): what TestReport() accepts.
PolicyFits(format, policy) ==
  \/ policy = "none"
  \/ policy = "python-repr-address" /\ format = "junit-xml"
  \/ policy \in {"helm-save-tempdir", "pebble-random-parent"} /\ format = "ctrf-json"

CtrfStatus ==
  [passed |-> "passed", failed |-> "failed", skipped |-> "skipped", pending |-> "skipped",
   other |-> "error"]
MochaStatus == [passes |-> "passed", failures |-> "failed", pending |-> "skipped"]

JunitStatus(tags) ==
  IF "error" \in tags THEN "error"
  ELSE IF "failure" \in tags THEN "failed"
  ELSE IF "skipped" \in tags THEN "skipped"
  ELSE "passed"

StatusSaid(format, says) ==
  IF format = "junit-xml" THEN JunitStatus(says)
  ELSE IF format = "ctrf-json" THEN CtrfStatus[says]
  ELSE MochaStatus[says]

\* A document as its format has it; a Mocha entry is in one of the three lists.
DocumentShape(doc) ==
  /\ doc.format \in Formats
  /\ \A e \in doc.entries :
       /\ e.id = Unnamed \/ e.id = [path |-> e.id.path, random |-> e.id.random]
       /\ doc.format = "mocha-json" => e.says \in DOMAIN MochaStatus

\* One entry without a name or with an unknown status spoils a report, and so does the
\* lack of any case.
Malformed(doc) ==
  \/ doc.state # "whole"
  \/ doc.entries = {}
  \/ \E e \in doc.entries :
       e.id = Unnamed \/ (doc.format = "ctrf-json" /\ e.says \notin DOMAIN CtrfStatus)

Cases(doc) == {[id |-> e.id, status |-> StatusSaid(doc.format, e.says)] : e \in doc.entries}

----------------------------------------------------------------------------
Under(root, id) == Len(id.path) >= Len(root) /\ SubSeq(id.path, 1, Len(root)) = root
Whole(path) == [path |-> path, random |-> 0]

\* A passing child cannot stand in for its parent, nor the parent hide a failing child.
GroupStatus(root, group) ==
  LET statuses == {c.status : c \in group}
  IN  IF Whole(root) \notin {c.id : c \in group} \/ {c.id : c \in group} = {Whole(root)}
           \/ "error" \in statuses
        THEN "error"
      ELSE IF "failed" \in statuses THEN "failed"
      ELSE IF "skipped" \in statuses THEN "skipped"
      ELSE "passed"

\* _pebble_parent_cases(): each allowlisted family is one case.
Grouped(cases) ==
  LET family(root) == {c \in cases : Under(root, c.id)}
      present == {root \in Roots : family(root) # {}}
  IN  (cases \ UNION {family(root) : root \in present})
        \cup {[id |-> Whole(root), status |-> GroupStatus(root, family(root))] : root \in present}

TestId(policy, id) ==
  IF policy \in DOMAIN Maskable /\ id.path \in Maskable[policy] THEN Whole(id.path) ELSE id

Severity == [skipped |-> 0, passed |-> 1, failed |-> 2, error |-> 3]

\* Mutant: a rerun that did better counts.
Best(statuses) == CHOOSE s \in statuses : \A t \in statuses : Severity[s] <= Severity[t]

\* "The same test can appear twice (reruns, duplicated suites); keep the worst."
Worst(statuses) == CHOOSE s \in statuses : \A t \in statuses : Severity[s] >= Severity[t]

\* Distinct raw IDs that masking makes one.
Collides(cases, policy) ==
  \E c, d \in cases : c.id # d.id /\ TestId(policy, c.id) = TestId(policy, d.id)

\* parse_report(); no cases if it raises ReportError.
ParseReport(doc, policy) ==
  LET cases == IF policy = "pebble-random-parent" THEN Grouped(Cases(doc)) ELSE Cases(doc)
  IN  IF Malformed(doc) THEN NoCases
      ELSE IF Collides(cases, policy) THEN NoCases
      ELSE [t \in {TestId(policy, c.id) : c \in cases} |->
              Worst({c.status : c \in {d \in cases : TestId(policy, d.id) = t}})]
=============================================================================
