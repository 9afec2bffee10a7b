------------------------ MODULE MCReportedSchedule -------------------------
(* A suite in one of five formats and policies, with a test whose ID has a random part or *)
(* a family and an ordinary test, and a plain command with the ID of the latter.          *)
EXTENDS ReportedSchedule

CONSTANT unnamed

Id(path, random) == [path |-> path, random |-> random]
A  == Id(<<"a">>, 0)
A1 == Id(<<"a">>, 1)
A2 == Id(<<"a">>, 2)
AX == Id(<<"a", "x">>, 0)
AY == Id(<<"a", "y">>, 3)
B  == Id(<<"b">>, 0)

MCTests == {A, B}
SuiteThenPlain == <<TRUE, FALSE>>
SharedNames == <<{A, B}, {B}>>
MCMaskable == [policy \in {"python-repr-address", "helm-save-tempdir"} |-> {<<"a">>}]
MCRoots == {<<"a">>}

E(id, says) == [id |-> id, says |-> says]
Doc(format, entries) == [state |-> "whole", format |-> format, entries |-> entries]

\* Entries as a format says them: passed, failed, skipped, in error.
Said(format, pass, fail, skip, err, ids) ==
  LET P(i) == E(ids[i], pass)
  IN  {[state |-> "oversized", format |-> format, entries |-> {P(1)}],
       Doc(format, {}), Doc(format, {P(1)}), Doc(format, {P(1), E(B, pass)}),
       Doc(format, {E(ids[1], fail), E(B, pass)}), Doc(format, {P(2), E(B, fail)}),
       Doc(format, {E(ids[2], skip), E(B, pass)}), Doc(format, {P(1), E(ids[1], skip)}),
       Doc(format, {P(1), E(ids[1], fail)}), Doc(format, {P(1), P(2)}),
       Doc(format, {P(1), E(ids[2], fail), E(B, pass)}), Doc(format, {P(1), P(2), E(B, skip)}),
       Doc(format, {P(1), E(ids[2], err), E(B, pass)}), Doc(format, {P(1), E(unnamed, pass)})}

Junit(ids) == Said("junit-xml", {}, {"failure"}, {"skipped"}, {"error", "failure"}, ids)
Ctrf(ids)  == Said("ctrf-json", "passed", "failed", "pending", "other", ids)
Mocha(ids) == Said("mocha-json", "passes", "failures", "pending", "failures", ids)

MCSuites ==
  {[format |-> "junit-xml", policy |-> "none", documents |-> Junit(<<A, A>>)],
   [format |-> "junit-xml", policy |-> "python-repr-address", documents |-> Junit(<<A1, A2>>)],
   [format |-> "ctrf-json", policy |-> "helm-save-tempdir", documents |-> Ctrf(<<A2, A1>>)],
   [format |-> "ctrf-json", policy |-> "pebble-random-parent",
    documents |-> Ctrf(<<A, AX>>) \cup {Doc("ctrf-json", {E(A, "passed"), E(AX, "passed"), E(AY, s), E(B, "passed")}) :
                                          s \in {"passed", "unknown", "skipped"}}],
   [format |-> "mocha-json", policy |-> "none", documents |-> Mocha(<<A, A>>)]}
=============================================================================
