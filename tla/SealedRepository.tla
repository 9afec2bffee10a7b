-------------------------- MODULE SealedRepository --------------------------
(***************************************************************************)
(* Cloning a task's repository and cutting off everything after its base   *)
(* commit: prepare_sealed_repository() and verify_sealed_repository()      *)
(* (workspace/prepare.py), as tools/prepare_deepswe_repositories.py calls  *)
(* them, one destination and several processes at work on it.              *)
(*                                                                         *)
(* History is what matters of a repository: which refs point behind the    *)
(* base commit, whether such commits are in the object store, and whether  *)
(* anything can bring them back.  An editor fetches into a repository in a *)
(* folder it watches; the staging directory is in none.  Any git call may  *)
(* fail, and a process may be killed at any step.                          *)
(***************************************************************************)


CONSTANTS
  Procs,   \* processes that prepare or verify the one destination
  Clones,  \* what cloning upstream can yield
  Found    \* what can be at the destination before

\* Refs of a repository; every other ref of a clone is like one of these.
Branches == {"heads/main", "heads/master"}
Tags     == {"tags/before", "tags/after"}
Refs     == Branches \cup Tags \cup {"origin/HEAD", "origin/main"}

\* A ref leads to the base commit or its history, to a later commit, or nowhere.
Targets  == {"base", "later", "nowhere"}
RefMaps  == UNION {[names -> Targets] : names \in SUBSET Refs}

\* remote: the upstream address is configured; locked: protocol.allow is never;
\* later: commits behind the base are stored; reflog: the reflog names one;
\* git: all that a verification reads of .git is there, else git sees no repository;
\* files: the whole checkout is there; nested: another clone lies inside it.
Repositories ==
  [head : {"base", "later"}, refs : RefMaps, remote : BOOLEAN, locked : BOOLEAN,
   later : BOOLEAN, reflog : BOOLEAN, git : BOOLEAN, files : BOOLEAN, nested : BOOLEAN]
Whole(repo) == repo.git /\ repo.files
Nothing == [git |-> FALSE, files |-> FALSE]

ASSUME RepositoryAssumption ==
  /\ Clones \subseteq {repo \in Repositories : Whole(repo)}
  /\ Found \subseteq {repo \in Repositories : Whole(repo)} \cup {Nothing}

VARIABLES
  pc,        \* where each process stands
  staging,   \* the clone in its temporary directory, or Nothing
  dest,      \* the repository at the destination, or Nothing
  trusted,   \* history: dest has passed a verification, or came from the staging
  recorded,  \* destination.sealed.json exists
  interrupted \* history: a copy or a cleanup was cut short, or a copy lost its destination

vars == <<pc, staging, dest, trusted, recorded, interrupted>>

AfterStage ==
  [clone |-> "checkout", checkout |-> "prune", prune |-> "unlink", unlink |-> "lock",
   lock |-> "expire", expire |-> "gc", gc |-> "verify", verify |-> "move"]
AfterCheck ==
  [head |-> "refs", refs |-> "revs", revs |-> "remotes", remotes |-> "protocol",
   protocol |-> "fsck"]
Stages  == DOMAIN AfterStage
Checks  == DOMAIN AfterCheck \cup {"fsck"}
Copying == {"copy", "copy_git", "copy_files"}
Busy    == Copying \cup {"cleanup", "remove"}
Ends    == {"ready", "failed", "killed"}
Steps   == Stages \cup Checks \cup Busy \cup Ends
             \cup {"look", "check", "move", "discard", "record"}

TypeOK ==
  /\ pc \in [Procs -> Steps]
  /\ staging \in [Procs -> Repositories \cup {Nothing}]
  /\ dest \in Repositories \cup {Nothing}
  /\ trusted \in BOOLEAN
  /\ recorded \in BOOLEAN
  /\ interrupted \in BOOLEAN

Init ==
  /\ pc = [p \in Procs |-> "look"]
  /\ staging = [p \in Procs |-> Nothing]
  /\ dest \in Found
  /\ trusted = FALSE
  /\ recorded = FALSE
  /\ interrupted = FALSE

Goto(p, step) == pc' = [pc EXCEPT ![p] = step]
Exists == dest # Nothing

----------------------------------------------------------------------------
(* The tool and the entry of prepare_sealed_repository().                  *)

\* A destination that exists is verified, and with --verify-only nothing else is done.
Look(p) ==
  /\ pc[p] = "look"
  /\ \/ Goto(p, "head")
     \/ ~Exists /\ Goto(p, "check")
  /\ UNCHANGED <<staging, dest, trusted, recorded, interrupted>>

\* The commit, the time limit or the source is refused; a second look at the
\* destination; then the temporary directory.
Check(p) ==
  /\ pc[p] = "check"
  /\ \/ Goto(p, "failed")
     \/ ~Exists /\ Goto(p, "clone")
  /\ UNCHANGED <<staging, dest, trusted, recorded, interrupted>>

----------------------------------------------------------------------------
(* _clone_and_seal(), in the temporary directory.                          *)

Stage(p, step, repo) ==
  /\ pc[p] = step
  /\ staging' = [staging EXCEPT ![p] = repo]
  /\ Goto(p, AfterStage[step])
  /\ UNCHANGED <<dest, trusted, recorded, interrupted>>

Clone(p) == \E repo \in Clones : Stage(p, "clone", repo)

\* The branch upstream's HEAD names, or main.
Branch(repo) ==
  IF "origin/HEAD" \in DOMAIN repo.refs /\ "heads/master" \in DOMAIN repo.refs
    THEN "heads/master" ELSE "heads/main"

\* git checkout -B branch base_commit
Checkout(p) ==
  LET repo == staging[p]
      names == DOMAIN repo.refs \cup {Branch(repo)}
  IN  Stage(p, "checkout",
        [repo EXCEPT
           !.head = "base",
           !.refs = [r \in names |-> IF r = Branch(repo) THEN "base" ELSE repo.refs[r]]])

\* _prune_refs() keeps the branch and the tags in its history.
Kept(repo, branch) ==
  {r \in DOMAIN repo.refs : r = branch \/ (r \in Tags /\ repo.refs[r] = "base")}

\* The branch is known since the checkout: the one that HEAD is on.
Prune(p) ==
  LET repo == staging[p]
      kept == Kept(repo, Branch(repo))
  IN  Stage(p, "prune", [repo EXCEPT !.refs = [r \in kept |-> repo.refs[r]]])

Unlink(p) == Stage(p, "unlink", [staging[p] EXCEPT !.remote = FALSE])

Lock(p) == Stage(p, "lock", [staging[p] EXCEPT !.locked = TRUE])

ExpireReflog(p) == Stage(p, "expire", [staging[p] EXCEPT !.reflog = FALSE])

LeadsLater(repo) == \E r \in DOMAIN repo.refs : repo.refs[r] = "later"
Gc(p) ==
  LET repo == staging[p]
  IN  Stage(p, "gc", [repo EXCEPT !.later = @ /\ (LeadsLater(repo) \/ repo.reflog)])

----------------------------------------------------------------------------
(* verify_sealed_repository(): six questions to git, in this order.        *)

\* Mutant: the lock is not asked for.
PassesUnlocked(check, repo) ==
  /\ check = "head"     => repo.head = "base"
  /\ check = "refs"     => /\ DOMAIN repo.refs \subseteq Branches \cup Tags
                           /\ \A r \in DOMAIN repo.refs : repo.refs[r] # "nowhere"
  /\ check = "revs"     => ~LeadsLater(repo)
  /\ check = "remotes"  => ~repo.remote
  /\ check = "fsck"     => ~repo.later \/ LeadsLater(repo)

\* The last one is about commits that no ref leads to.
Passes(check, repo) ==
  /\ check = "head"     => repo.head = "base"
  /\ check = "refs"     => /\ DOMAIN repo.refs \subseteq Branches \cup Tags
                           /\ \A r \in DOMAIN repo.refs : repo.refs[r] # "nowhere"
  /\ check = "revs"     => ~LeadsLater(repo)
  /\ check = "remotes"  => ~repo.remote
  /\ check = "protocol" => repo.locked
  /\ check = "fsck"     => ~repo.later \/ LeadsLater(repo)

\* Nobody else knows the temporary directory: there the six are one step.
VerifyStaging(p) ==
  /\ pc[p] = "verify"
  /\ \A check \in Checks : Passes(check, staging[p])
  /\ Stage(p, "verify", staging[p])

Preparing(p) == staging[p] # Nothing

\* One of the six at the destination; none of them looks at the checkout.  Git finds no
\* repository where .git is not complete, and a failed check is handled by the caller.
VerifyDestination(p) ==
  /\ pc[p] \in Checks
  /\ IF dest.git /\ Passes(pc[p], dest)
       THEN /\ Goto(p, IF pc[p] # "fsck" THEN AfterCheck[pc[p]]
                       ELSE IF Preparing(p) THEN "discard" ELSE "ready")
            /\ trusted' = (trusted \/ pc[p] = "fsck")
       ELSE /\ Goto(p, IF Preparing(p) THEN "cleanup" ELSE "failed")
            /\ UNCHANGED trusted
  /\ UNCHANGED <<staging, dest, recorded, interrupted>>

----------------------------------------------------------------------------
(* The move into place, and the end.                                       *)

\* shutil.move() on one file system is a rename; into a directory that exists it
\* puts the clone inside, unless one is inside already.
Move(p) ==
  /\ pc[p] = "move"
  /\ IF Exists
       THEN IF dest.nested
              THEN Goto(p, "cleanup") /\ UNCHANGED <<dest, trusted>>
              ELSE Goto(p, "head") /\ dest' = [dest EXCEPT !.nested = TRUE] /\ UNCHANGED trusted
       ELSE Goto(p, "head") /\ dest' = staging[p] /\ trusted' = TRUE
  /\ UNCHANGED <<staging, recorded, interrupted>>

\* Between file systems it copies, the .git directory and the checkout in either order.
Bare(repo) == [repo EXCEPT !.git = FALSE, !.files = FALSE]
BeginCopy(p) ==
  /\ pc[p] = "move"
  /\ ~Exists
  /\ Goto(p, "copy")
  /\ dest' = Bare(staging[p])
  /\ UNCHANGED <<staging, trusted, recorded, interrupted>>

\* What someone else's cleanup has removed so far is not copied again: if the copy goes on
\* at all, it makes the directory anew for what is left.
Begun(p) == IF Exists THEN dest ELSE Bare(staging[p])
Advance(p, half) ==
  /\ Goto(p, IF pc[p] = "copy" THEN half ELSE "head")
  /\ trusted' = (trusted \/ pc[p] # "copy")
  /\ UNCHANGED <<staging, recorded, interrupted>>

CopyGit(p) ==
  /\ pc[p] \in {"copy", "copy_files"}
  /\ dest' = [Begun(p) EXCEPT !.git = TRUE]
  /\ Advance(p, "copy_git")

CopyFiles(p) ==
  /\ pc[p] \in {"copy", "copy_git"}
  /\ dest' = [Begun(p) EXCEPT !.files = TRUE]
  /\ Advance(p, "copy_files")

\* The staging directory goes, then the record is written beside the destination.
Discard(p) ==
  /\ pc[p] = "discard"
  /\ staging' = [staging EXCEPT ![p] = Nothing]
  /\ Goto(p, "record")
  /\ UNCHANGED <<dest, trusted, recorded, interrupted>>

Record(p) ==
  /\ pc[p] = "record"
  /\ recorded' = TRUE
  /\ Goto(p, "ready")
  /\ UNCHANGED <<staging, dest, trusted, interrupted>>

----------------------------------------------------------------------------
(* Errors.                                                                 *)

\* A git call fails or exceeds its timeout, the file system refuses, or what is copied
\* has lost its directory.
StepFails(p) ==
  /\ pc[p] \in (Stages \cup Checks \cup Copying \cup {"move"})
  /\ Goto(p, IF Preparing(p) \/ pc[p] \in Stages THEN "cleanup" ELSE "failed")
  /\ UNCHANGED <<staging, dest, trusted, recorded, interrupted>>

\* Mutant: only the staging directory is removed.
CleanupStaging(p) ==
  /\ pc[p] = "cleanup"
  /\ staging' = [staging EXCEPT ![p] = Nothing]
  /\ Goto(p, "failed")
  /\ UNCHANGED <<dest, trusted, recorded, interrupted>>

\* except BaseException: the staging directory, then the destination.
Cleanup(p) ==
  /\ pc[p] = "cleanup"
  /\ staging' = [staging EXCEPT ![p] = Nothing]
  /\ Goto(p, "remove")
  /\ UNCHANGED <<dest, trusted, recorded, interrupted>>

RemoveDestination(p) ==
  /\ pc[p] = "remove"
  /\ dest' = Nothing
  /\ trusted' = FALSE
  /\ interrupted' = (interrupted \/ (Exists /\ \E q \in Procs \ {p} : pc[q] \in Copying))
  /\ Goto(p, "failed")
  /\ UNCHANGED <<staging, recorded>>

\* A file that is held open stops rmtree; in a cleanup the destination is not reached.
RemovalFails(p) ==
  /\ pc[p] \in {"cleanup", "discard"}
  /\ interrupted' = (interrupted \/ pc[p] = "cleanup")
  /\ Goto(p, "failed")
  /\ UNCHANGED <<staging, dest, trusted, recorded>>

\* The removal of the destination ends early, by such a file or with the process:
\* any part of it may be left.
RemovalCutShort(p) ==
  /\ pc[p] = "remove"
  /\ Exists
  /\ \E git \in {FALSE, dest.git}, files \in {FALSE, dest.files} :
       dest' = [dest EXCEPT !.git = git, !.files = files]
  /\ interrupted' = TRUE
  /\ \E end \in {"failed", "killed"} : Goto(p, end)
  /\ UNCHANGED <<staging, trusted, recorded>>

RecordFails(p) ==
  /\ pc[p] = "record"
  /\ Goto(p, "failed")
  /\ UNCHANGED <<staging, dest, trusted, recorded, interrupted>>

Kill(p) ==
  /\ pc[p] \notin Ends
  /\ interrupted' = (interrupted \/ pc[p] \in Busy)
  /\ Goto(p, "killed")
  /\ UNCHANGED <<staging, dest, trusted, recorded>>

\* The editor fetches by an address it once saw, whatever remotes are left; the
\* lock in the repository's own configuration makes the fetch fail.
EditorFetches ==
  /\ dest.git
  /\ ~dest.locked
  /\ \E names \in {DOMAIN dest.refs, DOMAIN dest.refs \cup {"origin/main"}} :
       dest' = [dest EXCEPT !.later = TRUE,
                            !.refs = [r \in names |-> IF r = "origin/main" THEN "later" ELSE dest.refs[r]]]
  /\ UNCHANGED <<pc, staging, trusted, recorded, interrupted>>

Process(p) ==
  \/ Look(p) \/ Check(p)
  \/ Clone(p) \/ Checkout(p) \/ Prune(p) \/ Unlink(p) \/ Lock(p) \/ ExpireReflog(p) \/ Gc(p)
  \/ VerifyStaging(p) \/ VerifyDestination(p)
  \/ Move(p) \/ BeginCopy(p) \/ CopyGit(p) \/ CopyFiles(p) \/ Discard(p) \/ Record(p)
  \/ StepFails(p) \/ Cleanup(p) \/ RemoveDestination(p) \/ RemovalFails(p) \/ RemovalCutShort(p)
  \/ RecordFails(p) \/ Kill(p)

Next == (\E p \in Procs : Process(p)) \/ EditorFetches

Spec == Init /\ [][Next]_vars

----------------------------------------------------------------------------
(* Properties.                                                             *)

\* What the workflow may read holds nothing after the base commit, and can get none:
\* once a repository is in place, or has been verified while others fetch into it, no
\* later commit is in it, whatever the editor does.
TrustedIsSealed ==
  trusted /\ dest.git => ~dest.later /\ dest.head = "base" /\ ~LeadsLater(dest)

\* The verification does not see a partial checkout; that none is taken for a prepared
\* repository is what the cleanup is for.  Whatever fails, in however many processes, one is
\* reported ready only while a process is still copying or cleaning up, or after a copy or a
\* cleanup was cut short, or after one process removed what another was copying.
PartialHasCause ==
  [][\A p \in Procs :
       pc[p] \notin {"discard", "record"} /\ pc'[p] \in {"discard", "ready"} /\ pc'[p] # pc[p] =>
         dest.files \/ interrupted \/ \E q \in Procs : pc[q] \in Busy]_vars
=============================================================================
