----------------------------- MODULE VotingKey ------------------------------
(***************************************************************************)
(* The key under which a repair votes: normalize_patch,                    *)
(* comment_normalized_diff and build_patch_candidate (repair/patches.py)   *)
(* over the comment strippers of the language adapters.                    *)
(*                                                                         *)
(* A source file is what the rules tell apart: whether its language parses *)
(* it, its pieces in their order, its comments and its layout.  A piece is *)
(* a function with its code and (in Python) docstring, or a line of code   *)
(* outside the functions; it stands in a class or in none.  A repair is    *)
(* the contents of the files it touches, before and after.  Every repair   *)
(* of a run starts from the same sources and moves no piece it keeps.      *)
(***************************************************************************)
EXTENDS Integers, Sequences, FiniteSets, Functions

CONSTANTS
  Python,    \* TRUE: the task is in Python
  OwnPaths   \* files with an extension of the task's language

\* No class, comment or docstring; the name of what is no function; the code of a
\* function that is its docstring and nothing else.
None == "none"

Function(class, name, code, doc) == [class |-> class, name |-> name, code |-> code, doc |-> doc]
Line(class, code) == Function(class, None, code, None)

Source(pieces, notes, layout) ==
  [exists |-> TRUE, parses |-> TRUE, pieces |-> pieces, notes |-> notes, layout |-> layout]
NoFile == [exists |-> FALSE, parses |-> TRUE, pieces |-> <<>>, notes |-> None, layout |-> None]
Unparsable(s) == [s EXCEPT !.parses = FALSE]

Touched(r) == DOMAIN r.old

----------------------------------------------------------------------------
(* build_unified_diff and normalize_patch.                                 *)

\* Blanks at the ends of lines are not part of the key.
Trimmed(s) == [s EXCEPT !.layout = IF @ = "trailing" THEN "plain" ELSE @]

\* One chunk per file that differs; a file without content keeps its path.
Diff(r) ==
  {[path |-> p, context |-> TRUE, lines |-> {}, old |-> r.old[p], new |-> r.new[p]] :
     p \in {p \in Touched(r) : r.old[p] # r.new[p]}}

NormalizePatch(diff) ==
  {[c EXCEPT !.old = Trimmed(@), !.new = Trimmed(@)] : c \in diff}

----------------------------------------------------------------------------
(* strip_comments of the adapters.                                         *)

\* ast.unparse(ast.parse()): docstrings stay.
Canonical(s) == [s EXCEPT !.notes = None, !.layout = "canonical"]

\* Comments of any language: the whole line if it held nothing else.
StripCommentNodes(s) == [s EXCEPT !.notes = None]

\* Mutant: docstrings take part in the vote.
StripNotDocstrings(s) == StripCommentNodes(s)

\* PythonAdapter.strip_comments: docstrings go as well.
StripComments(s) ==
  [StripCommentNodes(s) EXCEPT
    !.pieces = [n \in DOMAIN @ |-> [@[n] EXCEPT !.doc = None]]]

\* A function whose only statement was its docstring has lost its body.
KeepsBodies(s) == \A f \in Range(s.pieces) : f.code # None

\* The other adapters refuse what they do not parse: no candidate is built.
HasKey(r) ==
  Python \/ \A p \in Touched(r) \cap OwnPaths : r.old[p].parses /\ r.new[p].parses

\* What Python does not parse stays as it is.
Stripped(p, s) ==
  IF \/ s = NoFile
     \/ p \notin OwnPaths
     \/ Python /\ ~s.parses
    THEN s
    ELSE IF ~Python THEN StripCommentNodes(s)
    ELSE IF KeepsBodies(s) THEN StripComments(Canonical(s)) ELSE Canonical(s)

----------------------------------------------------------------------------
(* comment_normalized_diff.                                                *)

\* _python_functions(): a function goes by its name and its class.
FunctionsOf(s) == {f \in Range(s.pieces) : f.name # None}
NamesOf(s) == {<<f.class, f.name>> : f \in FunctionsOf(s)}

IsJustNewFunction(old, new) ==
  /\ old.parses /\ new.parses
  /\ FunctionsOf(old) \subseteq FunctionsOf(new)
  /\ NamesOf(new) \ NamesOf(old) # {}

\* Stripped sources end without a line break: the last piece of a file is another line
\* once something follows it.
Ended(pieces) == [n \in DOMAIN pieces |-> [piece |-> pieces[n], last |-> n = Len(pieces)]]

\* What s has and t has not, with the number of common pieces before each.
Missing(s, t, sign) ==
  {[sign |-> sign, at |-> n, kept |-> Cardinality({k \in 1..n-1 : s[k] \in Range(t)}),
    text |-> [name |-> s[n].piece.name, code |-> s[n].piece.code, doc |-> s[n].piece.doc]] :
     n \in {n \in DOMAIN s : s[n] \notin Range(t)}}

\* In a diff a removed line stands before the lines that were added in its place.
Above(k, l) ==
  \/ k.kept < l.kept
  \/ k.kept = l.kept /\ k.sign = "-" /\ l.sign = "+"
  \/ k.kept = l.kept /\ k.sign = l.sign /\ k.at < l.at

\* Only the lines that begin with - or + are kept, in their order: neither the class of a
\* function nor where in the file it stands.
ChangedLines(c) ==
  LET old == Ended(c.old.pieces)
      new == Ended(c.new.pieces)
      changed == Missing(old, new, "-") \cup Missing(new, old, "+")
      place(l) == Cardinality({k \in changed : Above(k, l)})
  IN  [path |-> c.path, context |-> FALSE,
       lines |-> {<<place(l), l.sign, l.text>> : l \in changed},
       old |-> NoFile, new |-> NoFile]

\* Updated files of a repair, after the comments are gone.
StrippedRepair(r) ==
  [old |-> [p \in Touched(r) |-> Stripped(p, r.old[p])],
   new |-> [p \in Touched(r) |-> Stripped(p, r.new[p])]]

CommentNormalizedDiff(r) ==
  LET s == StrippedRepair(r)
      single == \E p \in OwnPaths :
                  /\ Touched(s) = {p}
                  /\ s.old[p] # NoFile /\ s.new[p] # NoFile
                  /\ IsJustNewFunction(s.old[p], s.new[p])
  IN  NormalizePatch(IF Python /\ single THEN {ChangedLines(c) : c \in Diff(s)} ELSE Diff(s))

\* A repair of nothing but comments votes with the text of its diff.
VotingKey(r) ==
  LET semantic == CommentNormalizedDiff(r)
  IN  IF semantic # {} THEN semantic ELSE NormalizePatch(Diff(r))

----------------------------------------------------------------------------
(* What the key is meant to tell apart, said without it.                   *)

\* The pieces of a file, whatever is said about them, wherever they stand and in whatever
\* class.
Text(f) == [name |-> f.name, code |-> f.code]
Bodies(s) == {Text(f) : f \in Range(s.pieces)}
CodeOf(s) == [exists |-> s.exists, bodies |-> Bodies(s)]

\* Two versions of a file with the same code in the same order and the same classes; in
\* a language other than Python the layout is part of it.
SameCode(s, t) ==
  /\ s.exists = t.exists /\ s.parses = t.parses
  /\ Python \/ s.layout = t.layout
  /\ DOMAIN s.pieces = DOMAIN t.pieces
  /\ \A n \in DOMAIN s.pieces :
       s.pieces[n].class = t.pieces[n].class /\ Text(s.pieces[n]) = Text(t.pieces[n])

\* Files of the task's language whose comments can be told from their code.
Readable(r) ==
  /\ Touched(r) \subseteq OwnPaths
  /\ \A p \in Touched(r) : \A s \in {r.old[p], r.new[p]} : s.parses /\ KeepsBodies(s)

ChangesCode(r) == \E p \in Touched(r) : ~SameCode(r.old[p], r.new[p])

\* Two readable repairs that leave the same code.
SameRepair(q, r) ==
  /\ Readable(q) /\ Readable(r)
  /\ ChangesCode(q) /\ ChangesCode(r)
  /\ Touched(q) = Touched(r)
  /\ \A p \in Touched(q) : SameCode(q.old[p], r.old[p]) /\ SameCode(q.new[p], r.new[p])

\* The code of a file after a repair, which need not touch it.
CodeAfter(r, p, source) == CodeOf(IF p \in Touched(r) THEN r.new[p] ELSE source)

\* Two repairs that leave different pieces in some file.
DifferentRepair(q, r) ==
  \/ \E p \in Touched(q) : CodeAfter(q, p, q.old[p]) # CodeAfter(r, p, q.old[p])
  \/ \E p \in Touched(r) : CodeAfter(q, p, r.old[p]) # CodeAfter(r, p, r.old[p])

----------------------------------------------------------------------------
(* Sources and repairs as the adapters and the controller have them.       *)

\* Only Python has docstrings.  No piece has the code of another, and no function the
\* name of another in its class.
SourceShape(s) ==
  /\ s = [exists |-> s.exists, parses |-> s.parses, pieces |-> s.pieces,
          notes |-> s.notes, layout |-> s.layout]
  /\ s.exists \in BOOLEAN
  /\ s.pieces \in Seq(Range(s.pieces))
  /\ ~s.exists => s = NoFile
  /\ \A f \in Range(s.pieces) :
       /\ f = Function(f.class, f.name, f.code, f.doc)
       /\ f.doc = None \/ (Python /\ f.name # None)
  /\ \A m, n \in DOMAIN s.pieces : m # n =>
       /\ Text(s.pieces[m]) # Text(s.pieces[n])
       /\ s.pieces[m].name # None =>
            <<s.pieces[m].class, s.pieces[m].name>> # <<s.pieces[n].class, s.pieces[n].name>>

\* What is kept stays in its class and in its order.
MovesNothing(s, t) ==
  \A i, k \in DOMAIN s.pieces, j, l \in DOMAIN t.pieces :
    Text(s.pieces[i]) = Text(t.pieces[j]) /\ Text(s.pieces[k]) = Text(t.pieces[l]) =>
      s.pieces[i].class = t.pieces[j].class /\ (i < k <=> j < l)

RepairShape(r) ==
  /\ r = [old |-> r.old, new |-> r.new]
  /\ DOMAIN r.new = Touched(r)
  /\ \A p \in Touched(r) : /\ SourceShape(r.old[p]) /\ SourceShape(r.new[p])
                           /\ MovesNothing(r.old[p], r.new[p])

SameSources(q, r) == \A p \in Touched(q) \cap Touched(r) : q.old[p] = r.old[p]
=============================================================================
