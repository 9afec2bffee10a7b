-------------------------- MODULE ReportedSchedule --------------------------
(***************************************************************************)
(* The regression schedule over reports as test runners write them: the    *)
(* baseline of a command and its runs on candidates are read from          *)
(* documents (DockerTestRunner.run reads one whenever the command passed   *)
(* or failed) and matched by the test IDs parse_report() makes.            *)
(***************************************************************************)
EXTENDS RegressionSchedule, TestReports

CONSTANT Suites  \* how a command may report: [format, policy, documents]

ASSUME SuitesAssumption ==
  \A s \in Suites :
    /\ PolicyFits(s.format, s.policy)
    /\ \A doc \in s.documents : DocumentShape(doc)

VARIABLES
  suite,   \* of each command that declares a report
  before,  \* its report on the unpatched revision
  now      \* its report on the candidate at hand

documents == <<suite, before, now>>
rvars == <<vars, documents>>

Reporting == {n \in 1..Inventory : Declares[n]}
NoDocument == [state |-> "absent", format |-> "none", entries |-> {}]

ReportedInit ==
  /\ Init
  /\ suite \in [Reporting -> Suites]
  /\ before = [n \in Reporting |-> NoDocument]
  /\ now = [n \in Reporting |-> NoDocument]

Documents(n) == IF Declares[n] THEN suite[n].documents ELSE {NoDocument}

\* How the command itself may end: by an exit, a timeout, without memory, or stopped.
Endings ==
  {[timeout |-> FALSE, oom |-> FALSE, stopped |-> FALSE, exit |-> e] : e \in Exits}
    \cup {[timeout |-> f = "timeout", oom |-> f = "oom", stopped |-> f = "stopped", exit |-> "other"] :
            f \in {"timeout", "oom", "stopped"}}

RunOf(n, ended, doc) ==
  LET read == Declares[n] /\ ~(ended.timeout \/ ended.oom \/ ended.stopped)
  IN  [timeout |-> ended.timeout, oom |-> ended.oom, stopped |-> ended.stopped, exit |-> ended.exit,
       report |-> IF read THEN ParseReport(doc, suite[n].policy) ELSE NoCases]

ReportedBaseline(n, ended, doc) ==
  /\ RunBaseline(n, RunOf(n, ended, doc))
  /\ before' = [m \in Reporting |-> IF m = n THEN doc ELSE before[m]]
  /\ UNCHANGED <<suite, now>>

ReportedValidate(n, ended, doc) ==
  /\ Validate(n, RunOf(n, ended, doc))
  /\ now' = [m \in Reporting |-> IF m = n THEN doc ELSE now[m]]
  /\ UNCHANGED <<suite, before>>

ReportedNext ==
  \/ \E n \in 1..Inventory : \E ended \in Endings : \E doc \in Documents(n) :
       ReportedBaseline(n, ended, doc)
  \/ EndBaseline /\ UNCHANGED documents
  \/ \E ids \in SUBSET Tests : Exclude(ids) /\ UNCHANGED documents
  \/ \E n \in schedule : \E ended \in Endings : \E doc \in Documents(n) :
       ReportedValidate(n, ended, doc)
  \/ NextCandidate /\ UNCHANGED documents

ReportedSpec == ReportedInit /\ [][ReportedNext]_rvars

----------------------------------------------------------------------------
(* Properties.                                                             *)

\* A document, read without its parser, shows that a test passed: it ran, no entry of it
\* failed, and its entries are of one raw ID or, for a family, of the parent and of
\* descendants none of which was skipped.
Shows(doc, policy, id) ==
  LET mine == {e \in doc.entries :
                 IF policy = "pebble-random-parent" /\ id.path \in Roots THEN Under(id.path, e.id)
                 ELSE e.id = id \/ (e.id.path = id.path /\ policy \in DOMAIN Maskable
                                      /\ id.path \in Maskable[policy])}
      said == {StatusSaid(doc.format, e.says) : e \in mine}
      raw  == {e.id : e \in mine}
  IN  /\ "passed" \in said /\ said \cap {"failed", "error"} = {}
      /\ IF policy = "pebble-random-parent" /\ id.path \in Roots
           THEN id \in raw /\ raw # {id} /\ "skipped" \notin said
           ELSE \E one \in raw : raw = {one}

\* A usable result counts exactly the tests that the report on the unpatched revision shows
\* as passed and the report on the candidate does not, by their entries: no rerun, no
\* duplicated suite, no masked name and no family hides or invents a failure.
CountsRestOnEntries ==
  \A n \in DOMAIN observed \cap Reporting :
    Counts(n) =>
      /\ \A id \in Kept(n) : Shows(before[n], suite[n].policy, id)
      /\ CountOf(n) = Cardinality({id \in Kept(n) :
           observed[n].report = NoCases \/ ~Shows(now[n], suite[n].policy, id)})
=============================================================================
