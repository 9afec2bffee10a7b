--------------------------- MODULE CandidatePatch ---------------------------
(***************************************************************************)
(* One repair response on its way into a checkout: the edits become a patch *)
(* (RepairEdits), and the patch is applied in a workspace of its own        *)
(* (Workspace), as run() (workflow/fixed.py) and validate_candidate()       *)
(* (validation/pipeline.py) do it.                                          *)
(***************************************************************************)
EXTENDS RepairEdits

CONSTANT MaxDirty    \* bound: paths other programs write to

VARIABLES stage, contents, checkout, dirty, attempted, result

WS == INSTANCE Workspace

workspaceVars == <<stage, contents, checkout, dirty, attempted, result>>
vars == <<editVars, workspaceVars>>

CandidateInit == Init /\ WS!WorkspaceInit

\* A response without a patch is an attempt with an error and gets no workspace.
CandidateNext ==
  \/ EditStep /\ UNCHANGED workspaceVars
  \/ status = "built" /\ WS!WorkspaceStep /\ UNCHANGED <<locals, repair, status>>

Spec == CandidateInit /\ [][CandidateNext]_vars

----------------------------------------------------------------------------
(* Properties.                                                             *)

CandidateTypeOK == TypeOK /\ WS!WorkspaceTypeOK

\* The files of the repository with the repair in them.
Repaired ==
  [p \in Paths |-> IF p \in Visible \cup Present(updated) THEN TextOf(updated[p]) ELSE Tree[p]]

\* An application result "applied" means that the checkout is the base commit with
\* exactly this repair, and that no other program has written to a file of it before
\* the patch was in.
AppliedIsTheRepair ==
  result = "applied" => checkout = Repaired /\ changed \cap dirty = {}

\* The workspace has its own rules for what a patch may take and add; in a checkout
\* nobody else has touched they differ from the rules of the edits in one thing only: a
\* repair is refused as a patch error exactly if it adds a path with a name that
\* _safe_path() (local_git.py) refuses and _normalize_path() (edits.py) lets through.
\* Every other repair the edits allow reaches git, and git has no reason to refuse it.
RepairsFitWorkspaces ==
  dirty = {} =>
    /\ stage = "inspect" =>
         /\ patch # {}
         /\ (\A change \in patch : WS!Acceptable(change))
              <=> (\A p \in Present(updated) \ Tracked : Safe(p))
    /\ stage \in {"check", "apply"} => WS!Fits

\* As long as anything is left of the directory its marker is there, so that a removal
\* that failed can be tried again.
MarkerGoesLast == contents # {} => ".owner" \in contents
=============================================================================
