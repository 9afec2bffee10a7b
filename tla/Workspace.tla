------------------------------ MODULE Workspace ------------------------------
(***************************************************************************)
(* LocalGitWorkspaceProvider.create() and the life of the LocalGitWorkspace *)
(* it returns (workspace/local_git.py): a directory of its own with a clone *)
(* of the base commit, one attempt to apply a patch, and the removal of     *)
(* what was made.                                                          *)
(*                                                                         *)
(* Every call of git may fail or time out, other programs may write into    *)
(* the checkout until the patch is in it, and files may be held open while  *)
(* the directory is removed.  Nobody else touches the marker.              *)
(***************************************************************************)
EXTENDS RepositoryTree

CONSTANT MaxDirty    \* bound: paths other programs write to

VARIABLES
  patch,      \* candidate.diff, changes of files
  stage,      \* where create(), apply_candidate() or close() stands
  contents,   \* entries of the owned directory
  checkout,   \* index of the clone: path to lines
  dirty,      \* paths whose file in the checkout is not the one in the index
  attempted,  \* _attempted
  result      \* what apply_candidate() returned

workspaceVars == <<stage, contents, checkout, dirty, attempted, result>>

Creating == {"clone", "detach", "disconnect", "examine", "record"}
Applying == {"inspect", "check", "apply", "compare"}
Stages == Creating \cup Applying \cup
          {"absent", "open", "done", "abandon", "close", "unmark", "vacate", "stuck", "left",
           "gone"}
Results == {"none", "refused", "applied", "patch_error", "harness_error", "timeout"}
Entries == {".owner", "empty-template", "checkout", "provenance.json"}

WorkspaceTypeOK ==
  /\ stage \in Stages
  /\ contents \subseteq Entries
  /\ checkout \in [Paths -> Seq(Texts)]
  /\ dirty \subseteq Paths
  /\ attempted \in BOOLEAN
  /\ result \in Results

WorkspaceInit ==
  /\ stage = "absent"
  /\ contents = {}
  /\ checkout = [p \in Paths |-> <<>>]
  /\ dirty = {}
  /\ attempted = FALSE
  /\ result = "none"

Proceed(next) == stage' = next

----------------------------------------------------------------------------
(* create()                                                                *)

\* The directory, its marker and the empty template.
Allocate ==
  /\ stage = "absent"
  /\ contents' = {".owner", "empty-template"}
  /\ Proceed("clone")
  /\ UNCHANGED <<checkout, dirty, attempted, result>>

\* An error before the try: nobody removes what is there.
AllocateFails ==
  /\ stage = "absent"
  /\ contents' \in {{}, {".owner"}}
  /\ Proceed("left")
  /\ UNCHANGED <<checkout, dirty, attempted, result>>

Clone ==
  /\ stage = "clone"
  /\ contents' = contents \cup {"checkout"}
  /\ Proceed("detach")
  /\ UNCHANGED <<checkout, dirty, attempted, result>>

Detach ==
  /\ stage = "detach"
  /\ checkout' = Tree
  /\ Proceed("disconnect")
  /\ UNCHANGED <<contents, dirty, attempted, result>>

\* The remote is removed and the version of git is read.
Disconnect ==
  /\ stage = "disconnect"
  /\ Proceed("examine")
  /\ UNCHANGED <<contents, checkout, dirty, attempted, result>>

Pristine == checkout = Tree /\ dirty = {}

Examine ==
  /\ stage = "examine"
  /\ Proceed(IF Pristine THEN "record" ELSE "abandon")
  /\ UNCHANGED <<contents, checkout, dirty, attempted, result>>

Record ==
  /\ stage = "record"
  /\ contents' = contents \cup {"provenance.json"}
  /\ Proceed("open")
  /\ UNCHANGED <<checkout, dirty, attempted, result>>

\* A step of create() fails; a clone may be there in part.
CreateFails ==
  /\ stage \in Creating
  /\ contents' \in {contents, contents \cup (IF stage = "clone" THEN {"checkout"} ELSE {})}
  /\ Proceed("abandon")
  /\ UNCHANGED <<checkout, dirty, attempted, result>>

----------------------------------------------------------------------------
(* apply_candidate()                                                       *)

\* One attempt, and only on a pristine checkout.
BeginAttempt ==
  /\ stage \in {"open", "done"}
  /\ ~attempted /\ Pristine
  /\ attempted' = TRUE
  /\ Proceed("inspect")
  /\ UNCHANGED <<contents, checkout, dirty, result>>

\* WorkspaceError: a second attempt, a checkout that is not pristine, or a git
\* that does not tell.
RefuseAttempt ==
  /\ stage \in {"open", "done"}
  /\ result' = IF result = "none" THEN "refused" ELSE result
  /\ UNCHANGED <<stage, contents, checkout, dirty, attempted>>

\* Something at p, above or below it that is not in the index.
Disturbed(p) == \E q \in dirty : q = p \/ Under(p, q) \/ Under(q, p)

\* _require_creatable()
Creatable(p) ==
  /\ \A q \in Tracked : Fold(p) # Fold(q) /\ ~Under(Fold(p), Fold(q)) /\ ~Under(q, p)
  /\ ~Disturbed(p)

\* Mutant: every path of a patch must be a file of the base commit.
AcceptableKnown(change) == change.path \in Present(Tree)

\* No name a checkout may not hold; what a patch takes must be a regular file, what
\* it adds must have room.
Acceptable(change) ==
  /\ Safe(change.path) /\ Safe(change.target)
  /\ IF change.old = <<>> THEN Creatable(change.path)
     ELSE change.path \in Present(Tree)
  /\ change.target # change.path => Creatable(change.target)

Answer(answer) == result' = answer /\ Proceed("done")

\* The patch is read: digest, modes, git apply --numstat, and each file of it.
Inspect ==
  /\ stage = "inspect"
  /\ IF patch # {} /\ \A change \in patch : Acceptable(change)
       THEN Proceed("check") /\ UNCHANGED result
       ELSE Answer("patch_error")
  /\ UNCHANGED <<contents, checkout, dirty, attempted>>

Footprint == {c.path : c \in patch} \cup {c.target : c \in patch}
After ==
  [p \in Paths |->
     IF \E c \in patch : c.target = p THEN (CHOOSE c \in patch : c.target = p).new
     ELSE IF p \in Footprint THEN <<>> ELSE checkout[p]]

\* Mutant: the files in the checkout are not compared with the index.
FitsIndex ==
  \A c \in patch : checkout[c.path] = c.old /\ (c.target # c.path => checkout[c.target] = <<>>)

\* git apply --index wants the files of the patch as in the index, and as the
\* patch has them.
Fits ==
  /\ \A p \in Footprint : ~Disturbed(p)
  /\ \A c \in patch : checkout[c.path] = c.old /\ (c.target # c.path => checkout[c.target] = <<>>)

\* git apply --check --index
CheckPatch ==
  /\ stage = "check"
  /\ IF Fits THEN Proceed("apply") /\ UNCHANGED result ELSE Answer("patch_error")
  /\ UNCHANGED <<contents, checkout, dirty, attempted>>

\* git apply --index
ApplyPatch ==
  /\ stage = "apply"
  /\ IF Fits
       THEN checkout' = After /\ Proceed("compare") /\ UNCHANGED result
       ELSE Answer("patch_error") /\ UNCHANGED checkout
  /\ UNCHANGED <<contents, dirty, attempted>>

\* The time is up, or git breaks, while some of the files are written; the index
\* is replaced behind the last of them.
ApplyBreaks ==
  /\ stage = "apply"
  /\ \/ UNCHANGED <<checkout, dirty>>
     \/ /\ Fits
        /\ \E written \in SUBSET Footprint : dirty' = dirty \cup written
        /\ UNCHANGED checkout
     \/ Fits /\ checkout' = After /\ UNCHANGED dirty
  /\ \E answer \in {"timeout", "harness_error"} : Answer(answer)
  /\ UNCHANGED <<contents, attempted>>

\* git diff --cached names what the patch names.
Compare ==
  /\ stage = "compare"
  /\ LET actual == {p \in Paths : checkout[p] # Tree[p]}
     IN  Answer(IF actual # {} /\ actual = Footprint THEN "applied" ELSE "harness_error")
  /\ UNCHANGED <<contents, checkout, dirty, attempted>>

AttemptFails ==
  /\ stage \in Applying \ {"apply"}
  /\ \E answer \in {"timeout", "patch_error", "harness_error"} : Answer(answer)
  /\ UNCHANGED <<contents, checkout, dirty, attempted>>

----------------------------------------------------------------------------
(* close() and the removal after a failed create().                        *)

\* The caller closes the handle, again if the removal has failed.
BeginClose ==
  /\ stage \in {"open", "done", "stuck"}
  /\ Proceed(IF ".owner" \in contents THEN "close" ELSE "stuck")
  /\ UNCHANGED <<contents, checkout, dirty, attempted, result>>

Removing == stage \in {"close", "abandon"}

RemoveEntry ==
  /\ Removing
  /\ \E entry \in contents \ {".owner"} : contents' = contents \ {entry}
  /\ UNCHANGED <<stage, checkout, dirty, attempted, result>>

\* The marker goes last, then the directory.
RemoveMarker ==
  /\ Removing
  /\ contents = {".owner"}
  /\ contents' = {}
  /\ UNCHANGED <<stage, checkout, dirty, attempted, result>>

RemoveDirectory ==
  /\ Removing
  /\ contents = {}
  /\ Proceed("gone")
  /\ UNCHANGED <<contents, checkout, dirty, attempted, result>>

\* A file is held open for longer than the removal is retried.
RemovalFails ==
  /\ Removing
  /\ Proceed(IF stage = "close" THEN "stuck" ELSE "left")
  /\ UNCHANGED <<contents, checkout, dirty, attempted, result>>

----------------------------------------------------------------------------
(* Other programs.                                                         *)

\* A file in the checkout is written or a new one made, before the patch is in.
Disturb ==
  /\ stage \in {"examine", "record", "open", "inspect", "check", "apply"}
  /\ Cardinality(dirty) < MaxDirty
  /\ \E p \in Paths \ dirty :
       /\ \A q \in Tracked : ~Under(p, q) /\ ~Under(q, p)
       /\ dirty' = dirty \cup {p}
  /\ UNCHANGED <<stage, contents, checkout, attempted, result>>

WorkspaceStep ==
  /\ \/ Allocate \/ AllocateFails \/ Clone \/ Detach \/ Disconnect \/ Examine \/ Record
     \/ CreateFails
     \/ BeginAttempt \/ RefuseAttempt \/ Inspect \/ CheckPatch \/ ApplyPatch \/ ApplyBreaks \/ Compare
     \/ AttemptFails
     \/ BeginClose \/ RemoveEntry \/ RemoveMarker \/ RemoveDirectory \/ RemovalFails
     \/ Disturb
  /\ UNCHANGED patch
=============================================================================
