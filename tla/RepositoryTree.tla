--------------------------- MODULE RepositoryTree ---------------------------
(***************************************************************************)
(* The pinned revision of a repository, as edits and workspaces see it: the *)
(* regular files with their lines, the symbolic links, and which paths get  *)
(* in each other's way.                                                     *)
(*                                                                         *)
(* A path is a sequence of names.  A file is the sequence of its lines as   *)
(* split at line ends, so that every file has at least one, possibly blank; *)
(* a path without a file has none.                                          *)
(***************************************************************************)
EXTENDS Integers, Sequences, FiniteSets

CONSTANTS
  Paths,      \* paths an edit may name
  CaseFold,   \* names to names: str.casefold()
  Reserved,   \* names no checkout may hold: devices, "git~1", "?", "x." ...
  Texts,      \* texts of lines
  Blank,      \* the empty line
  Tree,       \* regular files of the base commit
  Links       \* paths of its symbolic links

Present(files) == {p \in Paths : files[p] # <<>>}

\* Every name the base commit takes: provider.paths | provider.symlink_paths.
Tracked == Present(Tree) \cup Links

\* _safe_path()
Safe(p) == \A n \in DOMAIN p : p[n] \notin Reserved

\* A repository with a tracked path that is not safe gets no workspace provider, and so
\* no run.
ASSUME TreeAssumption ==
  /\ Paths \subseteq Seq(DOMAIN CaseFold)
  /\ Tree \in [Paths -> Seq(Texts)]
  /\ Links \subseteq Paths \ Present(Tree)
  /\ Blank \in Texts
  /\ \A p \in Tracked : Safe(p)

Fold(p) == [n \in DOMAIN p |-> CaseFold[p[n]]]
Under(p, q) == Len(q) < Len(p) /\ SubSeq(p, 1, Len(q)) = q

\* Equal, or one a directory on the way to the other, on a file system that
\* does not tell cases apart.
Clash(p, q) ==
  \/ Fold(p) = Fold(q)
  \/ Under(Fold(p), Fold(q))
  \/ Under(Fold(q), Fold(p))
=============================================================================
