----------------------------- MODULE RepairEdits -----------------------------
(***************************************************************************)
(* How the controller turns one repair response into a patch:              *)
(* parse_search_replace_edits() and apply_search_replace_edits()           *)
(* (repair/edits.py), then build_unified_diff() (repair/patches.py).        *)
(*                                                                         *)
(* The edits of a response are applied one after another to the evolving    *)
(* sources, inside intervals of lines that localization has authorized and  *)
(* that move with the text.  One edit that cannot be applied refuses the    *)
(* whole response.  SEARCH and REPLACE blocks are sequences of whole lines. *)
(***************************************************************************)
EXTENDS RepositoryTree

CONSTANTS
  Visible,        \* localized files: the sources the controller hands over
  Allowed,        \* their authorized intervals of lines
  Searches,       \* SEARCH blocks a response may hold
  Replacements,   \* REPLACE blocks
  Targets,        \* destinations of creations and renames
  MaxEdits        \* bound: edits of one response

ASSUME EditsAssumption ==
  /\ Visible \subseteq Present(Tree)
  /\ Allowed \in [Paths -> Seq(Nat \X Nat)]
  /\ \A p \in Paths : \A n \in DOMAIN Allowed[p] :
       1 <= Allowed[p][n][1] /\ Allowed[p][n][1] <= Allowed[p][n][2]
  /\ Searches \subseteq Seq(Texts) \ {<<>>, <<Blank>>}
  /\ Replacements \subseteq Seq(Texts) \ {<<>>}
  /\ Targets \subseteq Paths
  /\ MaxEdits \in Nat

\* A line with its number in the file it comes from; 0 for a line of an edit.
Line == [text : Texts, from : Nat]
TextOf(lines) == [n \in DOMAIN lines |-> lines[n].text]
Original(texts) == [n \in DOMAIN texts |-> [text |-> texts[n], from |-> n]]
Written(texts) == [n \in DOMAIN texts |-> [text |-> texts[n], from |-> 0]]

\* originals
Sources == [p \in Paths |-> IF p \in Visible THEN Tree[p] ELSE <<>>]

VARIABLES
  seen,        \* edits of the response so far
  updated,     \* updated: path to lines
  intervals,   \* normalized_intervals
  taken,       \* taken
  created,     \* created_paths
  renamed,     \* renamed_paths
  structural,  \* structural_paths
  changed,     \* changed_paths
  origin,      \* history: for each path the visible file its lines come from
  patch,       \* changes of the diff
  status       \* how far the response got

locals == <<seen, intervals, taken, structural>>
repair == <<updated, created, renamed, changed, origin>>
editVars == <<locals, repair, patch, status>>

\* One file of a diff: a creation has no old lines, a deletion no new ones.
Change == [path : Paths, target : Paths, old : Seq(Texts), new : Seq(Texts)]

TypeOK ==
  /\ Cardinality(seen) <= MaxEdits
  /\ updated \in [Paths -> Seq(Line)]
  /\ intervals \in [Paths -> Seq(Nat \X Nat)]
  /\ taken \subseteq Paths /\ created \subseteq Paths \ Tracked
  /\ renamed \subseteq Paths \X Paths
  /\ structural \subseteq Paths /\ changed \subseteq Paths
  /\ origin \in [Paths -> Paths]
  /\ patch \subseteq Change
  /\ status \in {"editing", "refused", "repaired", "unbuildable", "built"}

Init ==
  /\ seen = {}
  /\ updated = [p \in Paths |-> Original(Sources[p])]
  /\ intervals = Allowed
  /\ taken = Tracked
  /\ created = {} /\ renamed = {} /\ structural = {} /\ changed = {}
  /\ origin = [p \in Paths |-> p]
  /\ patch = {}
  /\ status = "editing"

\* An edit that repeats an earlier one of the response is dropped.
Parsed(edit) ==
  /\ status = "editing"
  /\ edit \notin seen
  /\ Cardinality(seen) < MaxEdits
Note(edit) == seen' = seen \cup {edit}

----------------------------------------------------------------------------
(* SEARCH/REPLACE on a visible file.                                       *)

Occurs(lines, search, i) ==
  /\ i + Len(search) <= Len(lines) + 1
  /\ \A k \in DOMAIN search : lines[i + k - 1].text = search[k]

\* The scan from the left goes on behind an occurrence it has found.
Occurrences(lines, search) ==
  LET reached[i \in 1..Len(lines)] ==
        \A j \in 1..(i - 1) :
          reached[j] /\ Occurs(lines, search, j) => j + Len(search) <= i
  IN  {i \in 1..Len(lines) : Occurs(lines, search, i) /\ reached[i]}

Inside(spans, first, last) ==
  \E n \in DOMAIN spans : spans[n][1] <= first /\ last <= spans[n][2]

\* Mutant: localization is not asked.
EligibleAnywhere(p, search) == Occurrences(updated[p], search)

Eligible(p, search) ==
  {i \in Occurrences(updated[p], search) :
     p \in created \/ Inside(intervals[p], i, i + Len(search) - 1)}

Splice(lines, first, size, new) ==
  [i \in 1..(Len(lines) - size + Len(new)) |->
     IF i < first THEN lines[i]
     ELSE IF i < first + Len(new) THEN new[i - first + 1]
     ELSE lines[i - Len(new) + size]]

\* The interval after size lines from first became length lines.
Shifted(span, first, size, length) ==
  IF span[2] < first THEN span
  ELSE IF first + size - 1 < span[1]
    THEN <<span[1] + length - size, span[2] + length - size>>
    ELSE <<IF span[1] < first THEN span[1] ELSE first,
           IF span[2] + length - size < first + length - 1
             THEN first + length - 1 ELSE span[2] + length - size>>

Shift(spans, first, size, length) ==
  [n \in DOMAIN spans |-> Shifted(spans[n], first, size, length)]

CanReplace(p, search) == updated[p] # <<>> /\ Cardinality(Eligible(p, search)) = 1

Replace(p, search, replacement) ==
  /\ Parsed(<<"replace", p, search, replacement>>)
  /\ CanReplace(p, search)
  /\ \E first \in Eligible(p, search) :
       /\ updated' = [updated EXCEPT ![p] =
                        Splice(@, first, Len(search), Written(replacement))]
       /\ intervals' = IF p \in created THEN intervals
                       ELSE [intervals EXCEPT ![p] =
                               Shift(@, first, Len(search), Len(replacement))]
  /\ changed' = changed \cup {p}
  /\ Note(<<"replace", p, search, replacement>>)
  /\ UNCHANGED <<taken, created, renamed, structural, origin, patch, status>>

----------------------------------------------------------------------------
(* Files created, deleted and renamed.                                     *)

\* Mutant: paths this response has added are not looked at.
FreshAgainstTree(p) == \A q \in Tracked : ~Clash(p, q)

\* _require_new_path()
Fresh(p) == \A q \in taken : ~Clash(p, q)

CanCreate(p) == updated[p] = <<>> /\ p \notin created /\ Fresh(p)

\* Content that is not empty ends with a line end.
Ended(texts) == IF texts[Len(texts)] = Blank THEN texts ELSE Append(texts, Blank)

Create(p, content) ==
  /\ Parsed(<<"create", p, content>>)
  /\ CanCreate(p)
  /\ updated' = [updated EXCEPT ![p] = Written(Ended(content))]
  /\ taken' = taken \cup {p}
  /\ created' = created \cup {p}
  /\ changed' = changed \cup {p}
  /\ Note(<<"create", p, content>>)
  /\ UNCHANGED <<intervals, renamed, structural, origin, patch, status>>

CanMove(p) ==
  /\ Sources[p] # <<>> /\ updated[p] # <<>>
  /\ p \notin structural
  /\ intervals[p] # <<>>

Delete(p) ==
  /\ Parsed(<<"delete", p>>)
  /\ CanMove(p)
  /\ updated' = [updated EXCEPT ![p] = <<>>]
  /\ structural' = structural \cup {p}
  /\ changed' = changed \cup {p}
  /\ Note(<<"delete", p>>)
  /\ UNCHANGED <<intervals, taken, created, renamed, origin, patch, status>>

\* Mutant: the destination is not authorized like the file that moves there.
RenameUnauthorized(p, q) ==
  /\ Parsed(<<"rename", p, q>>)
  /\ CanMove(p) /\ Fresh(q)
  /\ updated' = [updated EXCEPT ![q] = updated[p], ![p] = <<>>]
  /\ intervals' = [intervals EXCEPT ![q] = Allowed[p]]
  /\ taken' = taken \cup {q}
  /\ renamed' = renamed \cup {<<p, q>>}
  /\ structural' = structural \cup {p, q}
  /\ changed' = changed \cup {p, q}
  /\ origin' = [origin EXCEPT ![q] = p]
  /\ Note(<<"rename", p, q>>)
  /\ UNCHANGED <<created, patch, status>>

Rename(p, q) ==
  /\ Parsed(<<"rename", p, q>>)
  /\ CanMove(p) /\ Fresh(q)
  /\ updated' = [updated EXCEPT ![q] = updated[p], ![p] = <<>>]
  /\ intervals' = [intervals EXCEPT ![q] = intervals[p]]
  /\ taken' = taken \cup {q}
  /\ renamed' = renamed \cup {<<p, q>>}
  /\ structural' = structural \cup {p, q}
  /\ changed' = changed \cup {p, q}
  /\ origin' = [origin EXCEPT ![q] = p]
  /\ Note(<<"rename", p, q>>)
  /\ UNCHANGED <<created, patch, status>>

----------------------------------------------------------------------------
(* The end of the response.                                                *)

\* EditApplicationError: an edit that no rule above accepts.
Refuse ==
  /\ \/ \E p \in Paths, s \in Searches, r \in Replacements :
          Parsed(<<"replace", p, s, r>>) /\ ~CanReplace(p, s)
     \/ \E p \in Targets, r \in Replacements :
          Parsed(<<"create", p, r>>) /\ ~CanCreate(p)
     \/ \E p \in Paths : Parsed(<<"delete", p>>) /\ ~CanMove(p)
     \/ \E p \in Paths, q \in Targets :
          Parsed(<<"rename", p, q>>) /\ ~(CanMove(p) /\ Fresh(q))
  /\ status' = "refused"
  /\ UNCHANGED <<locals, repair, patch>>

Differs(p) ==
  \/ Sources[p] = <<>>
  \/ updated[p] = <<>>
  \/ TextOf(updated[p]) # Sources[p]

\* The locals of the function end with it.
Finish ==
  /\ status = "editing"
  /\ seen # {}
  /\ LET real == {p \in changed : Differs(p)}
     IN  /\ changed' = real
         /\ status' = IF real = {} THEN "refused" ELSE "repaired"
  /\ seen' = {} /\ taken' = {} /\ structural' = {}
  /\ intervals' = [p \in Paths |-> <<>>]
  /\ UNCHANGED <<updated, created, renamed, origin, patch>>

Destinations == {pair[2] : pair \in renamed}
Destination(p) ==
  IF \E q \in Paths : <<p, q>> \in renamed THEN CHOOSE q \in Paths : <<p, q>> \in renamed ELSE p

\* The snapshots do not fit the renames.
Mismatch ==
  \/ \E a, b \in renamed : a # b /\ (a[1] = b[1] \/ a[2] = b[2])
  \/ \E pair \in renamed :
       \/ Sources[pair[1]] = <<>> \/ updated[pair[1]] # <<>>
       \/ Sources[pair[2]] # <<>> \/ updated[pair[2]] = <<>>

Difference(p) ==
  [path |-> p, target |-> Destination(p),
   old |-> Sources[p], new |-> TextOf(updated[Destination(p)])]

\* Mutant: a rename without an edit is no change.
ChunksOfText ==
  {c \in {Difference(p) : p \in (Present(Sources) \cup Present(updated)) \ Destinations} :
     c.old # c.new}

Chunks ==
  {c \in {Difference(p) : p \in (Present(Sources) \cup Present(updated)) \ Destinations} :
     c.old # c.new \/ c.path # c.target}

BuildDiff ==
  /\ status = "repaired"
  /\ patch' = IF Mismatch THEN {} ELSE Chunks
  /\ status' = IF patch' = {} THEN "unbuildable" ELSE "built"
  /\ UNCHANGED <<locals, repair>>

EditStep ==
  \/ \E p \in Paths, s \in Searches, r \in Replacements : Replace(p, s, r)
  \/ \E p \in Targets, r \in Replacements : Create(p, r)
  \/ \E p \in Paths : Delete(p)
  \/ \E p \in Paths, q \in Targets : Rename(p, q)
  \/ Refuse \/ Finish \/ BuildDiff

EditSpec == Init /\ [][EditStep]_editVars

----------------------------------------------------------------------------
(* Properties.                                                             *)

Authorized(p, k) == \E n \in DOMAIN Allowed[p] : Allowed[p][n][1] <= k /\ k <= Allowed[p][n][2]
Covered(p, i) == \E n \in DOMAIN intervals[p] : intervals[p][n][1] <= i /\ i <= intervals[p][n][2]

\* Files of the response whose lines come from a localized file.
Carried == Present(updated) \ created

\* Authorization moves with the text (the shifting of normalized_intervals): in
\* every file, whatever was inserted, removed or renamed before, exactly the lines
\* localization authorized and the lines edits have written can still be edited.
AuthorizationMovesWithText ==
  status = "editing" =>
    \A p \in Carried : \A i \in DOMAIN updated[p] :
      LET from == updated[p][i].from
      IN  Covered(p, i) <=> from = 0 \/ Authorized(origin[p], from)

\* The lines outside the authorized intervals of a file that is not deleted are
\* all there, with their text and in their order, and nothing stands between two
\* of them that were neighbours, before the first or behind the last line.
UnauthorizedLinesStay ==
  \A p \in Carried :
    LET source == Sources[origin[p]]
        lines == updated[p]
        fixed == {k \in DOMAIN source : ~Authorized(origin[p], k)}
    IN  /\ \A k \in fixed : \E i \in DOMAIN lines :
             /\ lines[i] = [text |-> source[k], from |-> k]
             /\ k = 1 => i = 1
             /\ k = Len(source) => i = Len(lines)
             /\ k + 1 \in fixed => i < Len(lines) /\ lines[i + 1].from = k + 1
        /\ \A i, j \in DOMAIN lines :
             i < j /\ lines[i].from > 0 /\ lines[j].from > 0 => lines[i].from < lines[j].from

\* A path this response adds gets in the way of no tracked path and of no other
\* path it adds, whatever else it moves away (_require_new_path and taken).
NewPathsHaveRoom ==
  \A p \in Present(updated) \ Tracked :
    \A q \in (Tracked \cup Present(updated)) \ {p} : ~Clash(p, q)

\* The files a patch takes from a tree, and those it puts there.
Footprint(changes) == {c.path : c \in changes} \cup {c.target : c \in changes}
Patched(files, changes) ==
  [p \in Paths |->
     IF \E c \in changes : c.target = p
       THEN (CHOOSE c \in changes : c.target = p).new
       ELSE IF \E c \in changes : c.path = p THEN <<>> ELSE files[p]]

\* Every repair has its patch, and the patch is the repair: build_unified_diff()
\* never meets snapshots that contradict the renames, nor an empty difference;
\* applied to the base commit the patch leaves the edited files and every other file
\* as it was, and it touches the changed paths only.
PatchIsTheRepair ==
  /\ status # "unbuildable"
  /\ status = "built" =>
       /\ Footprint(patch) = changed
       /\ Patched(Tree, patch) =
            [p \in Paths |-> IF p \in Visible \cup Present(updated)
                               THEN TextOf(updated[p]) ELSE Tree[p]]
=============================================================================
