----------------------------- MODULE MCScoring -----------------------------
(* Small instances of Scoring for TLC.                                     *)
EXTENDS Scoring, TLC

CONSTANTS d1, d2, c1, c2, i1, i2, g1, g2, none

Good == [schema |-> TRUE, tables |-> TRUE, offline |-> TRUE, linux |-> TRUE, named |-> TRUE,
         numbers |-> TRUE, instruction |-> "text", language |-> "go", commit |-> c1,
         abbreviated |-> FALSE, image |-> i1, crlf |-> FALSE]
Corpus(v) == (d1 :> v) @@ (d2 :> [Good EXCEPT !.image = i2])

\* The pinned corpus: all well, or one thing about the first task that a loader refuses.
MCPins ==
  {Corpus(v) : v \in
     {Good} \cup {[Good EXCEPT ![f] = FALSE] : f \in {"schema", "named", "numbers"}}
     \cup {[Good EXCEPT !.instruction = "delivery"], [Good EXCEPT !.instruction = "blank"],
           [Good EXCEPT !.language = none], [Good EXCEPT !.abbreviated = TRUE]}}

\* Another revision: line endings, another image for the task, a task that is gone.
MCEdits == {Corpus([Good EXCEPT !.crlf = TRUE]), Corpus([Good EXCEPT !.image = i2]),
            d2 :> [Good EXCEPT !.image = i2]}

Row == [complete |-> TRUE, language |-> "go", commit |-> c1]
MCSplits == {(d1 :> r) @@ (d2 :> Row) : r \in {Row, [Row EXCEPT !.commit = none]}} \cup {d1 :> Row}

Plain == [commit |-> none, language |-> none, reason |-> FALSE, digest |-> g1]
MCOptions == {Plain, [Plain EXCEPT !.digest = none], [Plain EXCEPT !.commit = c1],
              [Plain EXCEPT !.commit = c2], [Plain EXCEPT !.language = "rust"],
              [Plain EXCEPT !.language = "rust", !.reason = TRUE]}

Material == [image |-> i1, shape |-> TRUE, settings |-> TRUE]
MCVerifiers == {Material, [Material EXCEPT !.shape = FALSE], [Material EXCEPT !.settings = FALSE]}
MCImageOf == (d1 :> i1) @@ (d2 :> i2)
=============================================================================
