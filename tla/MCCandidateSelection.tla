----------------------- MODULE MCCandidateSelection ------------------------
(* Small instances of CandidateSelection for TLC.                          *)
EXTENDS CandidateSelection, TLC

SomeFaults == {"timeout", "harness_error"}
OneFault == {"harness_error"}

MCOwnPaths == {"a.py", "b.py", "c.py"}

\* A file with two classes, of which the first has a method and the second an
\* attribute.
A == Line(None, "class A")
B == Line(None, "class B")
M == Line("B", "m")
N == Line("B", "n")
F0 == Function("A", "f", "wrong", None)
F1 == Function("A", "f", "right", None)
G  == Function("A", "g", "new", None)
GB == Function("B", "g", "new", None)
\* A function that is nothing but its docstring.
H0 == Function("A", "h", None, "todo")
H1 == Function("A", "h", None, "done")

Before == Source(<<A, F0, B, M>>, None, "plain")
Stub   == Source(<<A, F0, H0, M>>, None, "plain")
Stub1  == Source(<<A, F0, H1, M>>, None, "plain")
Fixed  == Source(<<A, F1, B, M>>, None, "plain")

In(p, old, new) == [old |-> (p :> old), new |-> (p :> new)]
Of(pieces) == In("a.py", Before, Source(pieces, None, "plain"))
Also(r, p, old, new) == [old |-> r.old @@ (p :> old), new |-> r.new @@ (p :> new)]

Fix      == Of(<<A, F1, B, M>>)
NewAfter == Of(<<A, F0, G, B, M>>)

MCSampled == {Fix, NewAfter}

\* The fix with other comments, layout or docstring; repairs of comments only;
\* new functions and lines in other places and classes; files created, deleted, emptied,
\* of another format or not to be parsed.
MCRepairs ==
  MCSampled \cup
  {In("a.py", Before, [Fixed EXCEPT !.notes = notes, !.layout = layout]) :
     notes \in {None, "why"}, layout \in {"plain", "trailing", "dense"}} \cup
  {Of(<<A, [F1 EXCEPT !.doc = "says"], B, M>>),
   Of(<<A, [F0 EXCEPT !.doc = "says"], B, M>>),
   Of(<<A, [G EXCEPT !.doc = "says"], F0, B, M>>),
   Of(<<A, G, F0, B, M>>), Of(<<A, G, F1, B, M>>), Of(<<A, F1, G, B, M>>),
   Of(<<A, F0, B, GB, M>>), Of(<<A, F0, B, M, GB>>), Of(<<A, F0, [G EXCEPT !.name = "other"], B, M>>),
   Of(<<A, F0, G, B>>), Of(<<A, F0, G, B, N>>), Of(<<A, F0, G, B, N, M>>), Of(<<A, F0, N, G, B, M>>),
   In("a.py", Before, [Before EXCEPT !.notes = "why"]),
   In("a.py", Before, NoFile),
   In("a.py", Before, Source(<<>>, None, "plain")),
   In("a.py", Before, Unparsable(Fixed)),
   In("b.py", Stub, Stub1),
   Also(Fix, "c.py", NoFile, Source(<<>>, None, "plain")),
   Also(NewAfter, "b.py", Stub, Stub1),
   Also(Fix, "data.txt", Before, [Before EXCEPT !.notes = "why"]),
   In("data.txt", Before, Fixed)}

\* Those without a docstring, for another language.
MCPlainRepairs ==
  {r \in MCRepairs : \A p \in Touched(r) :
     \A f \in Range(r.old[p].pieces) \cup Range(r.new[p].pieces) : f.doc = None}
=============================================================================
