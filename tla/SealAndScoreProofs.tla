------------------------- MODULE SealAndScoreProofs -----------------------
(***************************************************************************)
(* Proofs about the two ends of a run: the sealed repository it starts     *)
(* from, for every number of processes, every clone and whatever the       *)
(* destination was before; and the score of its patch, whatever is checked *)
(* out, pulled or cut off meanwhile.                                       *)
(***************************************************************************)
EXTENDS SealedRepository, Scoring, TLAPS

----------------------------------------------------------------------------
(* Sealed repositories.                                                    *)

Clean(repo) == repo.head = "base" /\ ~LeadsLater(repo)
Sealed(repo) == Clean(repo) /\ repo.locked /\ ~repo.later

\* Once true it stays: nobody puts anything but a sealed repository at the destination,
\* and a locked one does not change behind the processes' backs.
Safe == dest = Nothing \/ Sealed(dest)

\* Where a process has a clone of its own.
Owning == (Stages \ {"clone"}) \cup Copying \cup {"move"}

\* What a process at work on the staging directory knows of it.
StagingInv ==
  \A p \in Procs :
    /\ pc[p] \in Owning => staging[p] \in Repositories /\ Whole(staging[p])
    /\ pc[p] \in Copying \cup {"move"} => Sealed(staging[p])
    /\ pc[p] \in Copying => Safe

\* What a process in the middle of a verification knows of the destination, which others
\* and the editor may change between two checks: a fetch is possible up to the moment in
\* which the lock is seen, and then there has been none that led later.
CheckInv ==
  \A p \in Procs :
    /\ pc[p] \in {"refs", "revs"} => Safe \/ dest.head = "base"
    /\ pc[p] \in {"remotes", "protocol"} => Safe \/ (dest.head = "base" /\ (dest.locked => Clean(dest)))
    /\ pc[p] = "fsck" => Safe \/ (dest.locked /\ Clean(dest))

\* What is still copied is there as far as it got, and what is partial has someone at work
\* on it, unless a step was cut short.
PartsInv ==
  \/ interrupted
  \/ /\ Exists => Whole(dest) \/ \E p \in Procs : pc[p] \in Busy
     /\ \A p \in Procs :
          /\ pc[p] \in Copying => Exists
          /\ pc[p] = "copy_git" => dest.git
          /\ pc[p] = "copy_files" => dest.files

SealInv == TypeOK /\ StagingInv /\ CheckInv /\ PartsInv /\ (trusted => Safe)

\* The field of a repository that has been rewritten.
LEMMA RepositoryFields ==
  ASSUME NEW repo \in Repositories
  PROVE  /\ repo.refs \in RefMaps
         /\ \A h \in {"base", "later"} : [repo EXCEPT !.head = h] \in Repositories
         /\ \A refs \in RefMaps : [repo EXCEPT !.refs = refs] \in Repositories
         /\ \A b \in BOOLEAN :
              /\ [repo EXCEPT !.remote = b] \in Repositories
              /\ [repo EXCEPT !.locked = b] \in Repositories
              /\ [repo EXCEPT !.later = b] \in Repositories
              /\ [repo EXCEPT !.reflog = b] \in Repositories
              /\ [repo EXCEPT !.git = b] \in Repositories
              /\ [repo EXCEPT !.files = b] \in Repositories
              /\ [repo EXCEPT !.nested = b] \in Repositories
<1> DEFINE R == RefMaps
<1> HIDE DEF R
<1> QED BY DEF Repositories

\* What is known of a map of refs, and when something is one.
LEMMA RefMapFacts ==
  /\ \A refs \in RefMaps : DOMAIN refs \subseteq Refs /\ \A r \in DOMAIN refs : refs[r] \in Targets
  /\ \A names \in SUBSET Refs : \A refs \in [names -> Targets] : refs \in RefMaps
BY DEF RefMaps

\* The members of the small sets that steps name.
LEMMA Kinds ==
  /\ Branches \subseteq Refs /\ "origin/main" \in Refs
  /\ "later" \in Targets /\ "base" \in Targets
BY DEF Refs, Branches, Targets

\* What each step of the sealing makes of a repository is one.
LEMMA StagesKeepTypes ==
  ASSUME NEW repo \in Repositories
  PROVE  /\ [repo EXCEPT !.head = "base",
                         !.refs = [r \in DOMAIN repo.refs \cup {Branch(repo)} |->
                                     IF r = Branch(repo) THEN "base" ELSE repo.refs[r]]] \in Repositories
         /\ \A kept \in SUBSET DOMAIN repo.refs :
              [repo EXCEPT !.refs = [r \in kept |-> repo.refs[r]]] \in Repositories
         /\ \A names \in SUBSET Refs :
              names \subseteq DOMAIN repo.refs \cup {"origin/main"} =>
                [repo EXCEPT !.later = TRUE,
                             !.refs = [r \in names |-> IF r = "origin/main" THEN "later"
                                                       ELSE repo.refs[r]]] \in Repositories
<1>1. repo.refs \in RefMaps
  BY RepositoryFields
<1>2. DOMAIN repo.refs \subseteq Refs /\ \A r \in DOMAIN repo.refs : repo.refs[r] \in Targets
  BY <1>1, RefMapFacts
<1>3. Branch(repo) \in Refs
  BY Kinds DEF Branch, Branches
<1>4. [repo EXCEPT !.head = "base",
                   !.refs = [r \in DOMAIN repo.refs \cup {Branch(repo)} |->
                               IF r = Branch(repo) THEN "base" ELSE repo.refs[r]]] \in Repositories
  <2> DEFINE names == DOMAIN repo.refs \cup {Branch(repo)}
             new   == [r \in names |-> IF r = Branch(repo) THEN "base" ELSE repo.refs[r]]
  <2>1. names \in SUBSET Refs
    BY <1>2, <1>3
  <2>2. new \in [names -> Targets]
    BY <1>2, Kinds
  <2> HIDE DEF names, new
  <2>3. new \in RefMaps
    BY <2>1, <2>2, RefMapFacts
  <2>4. [repo EXCEPT !.head = "base"] \in Repositories
    BY RepositoryFields
  <2>5. [[repo EXCEPT !.head = "base"] EXCEPT !.refs = new] \in Repositories
    BY <2>3, <2>4, RepositoryFields
  <2>6. [repo EXCEPT !.head = "base", !.refs = new] \in Repositories
    BY <2>5
  <2> QED BY <2>6 DEF names, new
<1>5. ASSUME NEW kept \in SUBSET DOMAIN repo.refs
      PROVE  [repo EXCEPT !.refs = [r \in kept |-> repo.refs[r]]] \in Repositories
  <2> DEFINE new == [r \in kept |-> repo.refs[r]]
  <2>1. kept \in SUBSET Refs /\ new \in [kept -> Targets]
    BY <1>2
  <2> HIDE DEF new
  <2>2. new \in RefMaps
    BY <2>1, RefMapFacts
  <2>3. [repo EXCEPT !.refs = new] \in Repositories
    BY <2>2, RepositoryFields
  <2> QED BY <2>3 DEF new
<1>6. ASSUME NEW names \in SUBSET Refs, names \subseteq DOMAIN repo.refs \cup {"origin/main"}
      PROVE  [repo EXCEPT !.later = TRUE,
                          !.refs = [r \in names |-> IF r = "origin/main" THEN "later"
                                                    ELSE repo.refs[r]]] \in Repositories
  <2> DEFINE new == [r \in names |-> IF r = "origin/main" THEN "later" ELSE repo.refs[r]]
  <2>1. new \in [names -> Targets]
    BY <1>2, <1>6, Kinds
  <2> HIDE DEF new
  <2>2. new \in RefMaps
    BY <2>1, RefMapFacts
  <2>3. [repo EXCEPT !.later = TRUE] \in Repositories
    BY RepositoryFields
  <2>4. [[repo EXCEPT !.later = TRUE] EXCEPT !.refs = new] \in Repositories
    BY <2>2, <2>3, RepositoryFields
  <2>5. [repo EXCEPT !.later = TRUE, !.refs = new] \in Repositories
    BY <2>4
  <2> QED BY <2>5 DEF new
<1> QED BY <1>4, <1>5, <1>6

----------------------------------------------------------------------------
\* Nothing is known of a destination before the first look.
LEMMA InitSeal == Init => SealInv
<1> SUFFICES ASSUME Init PROVE SealInv
  OBVIOUS
<1>1. TypeOK
  BY RepositoryAssumption DEF Init, TypeOK, Steps
<1>2. StagingInv
  BY DEF Init, StagingInv, Owning, Stages, AfterStage, Copying
<1>3. PartsInv
  BY RepositoryAssumption DEF Init, PartsInv, Exists, Copying
<1> QED BY <1>1, <1>2, <1>3 DEF Init, SealInv, CheckInv

\* One part of a copy.
CopyPart(p) == CopyGit(p) \/ CopyFiles(p)

\* The processes that leave the destination alone.
Aside(p) ==
  \/ Look(p) \/ Check(p)
  \/ Clone(p) \/ Checkout(p) \/ Prune(p) \/ Unlink(p) \/ Lock(p) \/ ExpireReflog(p) \/ Gc(p)
  \/ VerifyStaging(p) \/ Discard(p) \/ Record(p)
  \/ StepFails(p) \/ Cleanup(p) \/ RemovalFails(p) \/ RecordFails(p) \/ Kill(p)

\* The steps, by whether they touch the destination.
LEMMA StepKinds ==
  ASSUME Next
  PROVE  \/ \E p \in Procs : Aside(p) \/ VerifyDestination(p) \/ Move(p) \/ BeginCopy(p)
                               \/ CopyPart(p) \/ RemoveDestination(p) \/ RemovalCutShort(p)
         \/ EditorFetches
BY DEF Next, Process, Aside, CopyPart

\* Most steps leave the destination alone.
LEMMA AsideLeavesDestination ==
  ASSUME NEW p \in Procs, Aside(p)
  PROVE  dest' = dest /\ trusted' = trusted
BY DEF Aside, Look, Check, Clone, Checkout, Prune, Unlink, Lock, ExpireReflog, Gc, VerifyStaging,
       Stage, Discard, Record, StepFails, Cleanup, RemovalFails, RecordFails, Kill

\* Same history, whatever else of the repository has changed.
Alike(old, new) ==
  new.head = old.head /\ new.refs = old.refs /\ new.locked = old.locked /\ new.later = old.later

\* Being sealed depends on the history and the lock only.
LEMMA AlikeKeeps ==
  ASSUME NEW old, NEW new, Alike(old, new)
  PROVE  (Clean(old) => Clean(new)) /\ (Sealed(old) => Sealed(new))
BY DEF Alike, Clean, Sealed, LeadsLater

\* A nested clone or a missing part changes no history.
LEMMA FieldsApart ==
  ASSUME NEW repo \in Repositories, NEW b \in BOOLEAN
  PROVE  /\ Alike(repo, [repo EXCEPT !.nested = b])
         /\ Alike(repo, [repo EXCEPT !.git = b])
         /\ Alike(repo, [repo EXCEPT !.files = b])
<1> DEFINE R == RefMaps
<1> HIDE DEF R
<1> QED BY DEF Repositories, Alike

\* Each part is a field of its own.
LEMMA PartFields ==
  ASSUME NEW repo \in Repositories
  PROVE  /\ [repo EXCEPT !.git = TRUE].git /\ [repo EXCEPT !.git = TRUE].files = repo.files
         /\ [repo EXCEPT !.files = TRUE].files /\ [repo EXCEPT !.files = TRUE].git = repo.git
         /\ [repo EXCEPT !.nested = TRUE].files = repo.files
         /\ [repo EXCEPT !.nested = TRUE].git = repo.git
<1> DEFINE R == RefMaps
<1> HIDE DEF R
<1> QED BY DEF Repositories

\* Both parts at once.
LEMMA BothApart ==
  ASSUME NEW repo \in Repositories
  PROVE  /\ repo.git \in BOOLEAN /\ repo.files \in BOOLEAN
         /\ \A b \in BOOLEAN, c \in BOOLEAN :
              /\ [repo EXCEPT !.git = b, !.files = c] \in Repositories
              /\ Alike(repo, [repo EXCEPT !.git = b, !.files = c])
<1> DEFINE R == RefMaps
<1> HIDE DEF R
<1> QED BY DEF Repositories, Alike

\* A whole repository is something, and no stage takes a part of it away.
LEMMA WholeStays ==
  ASSUME NEW repo \in Repositories, Whole(repo)
  PROVE  /\ repo # Nothing
         /\ \A x : /\ Whole([repo EXCEPT !.head = x]) /\ Whole([repo EXCEPT !.refs = x])
                   /\ Whole([repo EXCEPT !.remote = x]) /\ Whole([repo EXCEPT !.locked = x])
                   /\ Whole([repo EXCEPT !.later = x]) /\ Whole([repo EXCEPT !.reflog = x])
                   /\ \A y : Whole([repo EXCEPT !.head = y, !.refs = x])
<1> DEFINE R == RefMaps
<1> HIDE DEF R
<1>1. repo # Nothing
  BY DEF Whole, Nothing
<1>2. ASSUME NEW x
      PROVE  /\ Whole([repo EXCEPT !.head = x]) /\ Whole([repo EXCEPT !.refs = x])
             /\ Whole([repo EXCEPT !.remote = x]) /\ Whole([repo EXCEPT !.locked = x])
             /\ Whole([repo EXCEPT !.later = x]) /\ Whole([repo EXCEPT !.reflog = x])
             /\ \A y : Whole([repo EXCEPT !.head = y, !.refs = x])
  BY DEF Repositories, Whole
<1> QED BY <1>1, <1>2

\* One step changes the destination in one of four ways.
LEMMA DestinationStep ==
  ASSUME SealInv, Next
  PROVE  /\ dest' \in Repositories \cup {Nothing}
         /\ \/ dest' = dest
            \/ Safe'
            \/ Alike(dest, dest') /\ dest # Nothing
            \/ dest.git /\ ~dest.locked /\ ~dest'.locked /\ dest'.head = dest.head
<1> USE DEF SealInv
<1>t. dest \in Repositories \cup {Nothing} /\ Nothing.git = FALSE
  BY DEF TypeOK, Nothing
<1>1. ASSUME NEW p \in Procs, Aside(p) \/ VerifyDestination(p) PROVE dest' = dest
  BY <1>1, AsideLeavesDestination DEF VerifyDestination
<1>2. ASSUME NEW p \in Procs, Move(p)
      PROVE  /\ dest' \in Repositories \cup {Nothing}
             /\ dest' = dest \/ Safe' \/ (Alike(dest, dest') /\ dest # Nothing)
  <2>1. CASE Exists
    <3>1. dest \in Repositories /\ (dest' = dest \/ dest' = [dest EXCEPT !.nested = TRUE])
      BY <1>2, <1>t, <2>1 DEF Move, Exists
    <3> QED BY <2>1, <3>1, RepositoryFields, FieldsApart DEF Exists
  <2>2. CASE ~Exists
    <3>1. dest' = staging[p] /\ pc[p] = "move"
      BY <1>2, <2>2 DEF Move
    <3>2. staging[p] \in Repositories /\ Sealed(staging[p])
      BY <3>1 DEF StagingInv, Owning
    <3> QED BY <3>1, <3>2 DEF Safe
  <2> QED BY <2>1, <2>2
<1>3. ASSUME NEW p \in Procs, BeginCopy(p)
      PROVE  dest' \in Repositories \cup {Nothing} /\ Safe'
  <2>1. dest' = [staging[p] EXCEPT !.git = FALSE, !.files = FALSE] /\ pc[p] = "move"
    BY <1>3 DEF BeginCopy, Bare
  <2>2. staging[p] \in Repositories /\ Sealed(staging[p])
    BY <2>1 DEF StagingInv, Owning
  <2>3. dest' \in Repositories /\ Alike(staging[p], dest')
    BY <2>1, <2>2, BothApart
  <2>4. Sealed(dest')
    BY <2>2, <2>3, AlikeKeeps
  <2> QED BY <2>3, <2>4 DEF Safe
<1>4. ASSUME NEW p \in Procs, CopyPart(p)
      PROVE  dest' \in Repositories /\ Safe'
  <2>1. pc[p] \in Copying
    BY <1>4 DEF CopyPart, CopyGit, CopyFiles, Copying
  <2>2. staging[p] \in Repositories /\ Sealed(staging[p]) /\ Safe
    BY <2>1 DEF StagingInv, Owning
  <2>3. Begun(p) \in Repositories /\ Sealed(Begun(p))
    <3>1. CASE Exists
      BY <1>t, <2>2, <3>1 DEF Begun, Safe, Exists
    <3>2. CASE ~Exists
      <4>1. Begun(p) = [staging[p] EXCEPT !.git = FALSE, !.files = FALSE]
        BY <3>2 DEF Begun, Bare
      <4>2. Begun(p) \in Repositories /\ Alike(staging[p], Begun(p))
        BY <2>2, <4>1, BothApart
      <4> QED BY <2>2, <4>2, AlikeKeeps
    <3> QED BY <3>1, <3>2
  <2>4. dest' = [Begun(p) EXCEPT !.git = TRUE] \/ dest' = [Begun(p) EXCEPT !.files = TRUE]
    BY <1>4 DEF CopyPart, CopyGit, CopyFiles
  <2>5. dest' \in Repositories /\ Alike(Begun(p), dest')
    BY <2>3, <2>4, RepositoryFields, FieldsApart
  <2>6. Sealed(dest')
    BY <2>3, <2>5, AlikeKeeps
  <2> QED BY <2>5, <2>6 DEF Safe
<1>6. ASSUME NEW p \in Procs, RemoveDestination(p) \/ RemovalCutShort(p)
      PROVE  /\ dest' \in Repositories \cup {Nothing}
             /\ Safe' \/ (Alike(dest, dest') /\ dest # Nothing)
  <2>1. CASE RemoveDestination(p)
    BY <2>1 DEF Safe, RemoveDestination
  <2>2. CASE RemovalCutShort(p)
    <3>1. dest \in Repositories
      BY <1>t, <2>2 DEF RemovalCutShort, Exists
    <3>2. \E git \in BOOLEAN, files \in BOOLEAN : dest' = [dest EXCEPT !.git = git, !.files = files]
      BY <2>2, <3>1, BothApart DEF RemovalCutShort
    <3> QED BY <2>2, <3>1, <3>2, BothApart DEF RemovalCutShort, Exists
  <2> QED BY <1>6, <2>1, <2>2
<1>5. ASSUME EditorFetches
      PROVE  /\ dest' \in Repositories
             /\ dest.git /\ ~dest.locked /\ ~dest'.locked /\ dest'.head = dest.head
  <2>1. dest.git /\ ~dest.locked
    BY <1>5 DEF EditorFetches
  <2>2. dest \in Repositories
    BY <2>1, <1>t
  <2>3. PICK names \in {DOMAIN dest.refs, DOMAIN dest.refs \cup {"origin/main"}} :
          dest' = [dest EXCEPT !.later = TRUE,
                     !.refs = [r \in names |-> IF r = "origin/main" THEN "later" ELSE dest.refs[r]]]
    BY <1>5 DEF EditorFetches
  <2>4. dest.refs \in RefMaps /\ DOMAIN dest.refs \subseteq Refs
    BY <2>2, RepositoryFields, RefMapFacts
  <2>5. names \in SUBSET Refs /\ names \subseteq DOMAIN dest.refs \cup {"origin/main"}
    BY <2>4, Kinds
  <2>6. dest' \in Repositories
    BY <2>2, <2>3, <2>5, StagesKeepTypes
  <2>7. dest'.locked = dest.locked /\ dest'.head = dest.head
    <3> DEFINE new == [r \in names |-> IF r = "origin/main" THEN "later" ELSE dest.refs[r]]
               R == RefMaps
    <3>1. dest' = [dest EXCEPT !.later = TRUE, !.refs = new]
      BY <2>3
    <3> HIDE DEF new, R
    <3> QED BY <2>2, <3>1 DEF Repositories
  <2> QED BY <2>1, <2>6, <2>7
<1> QED BY <1>t, <1>1, <1>2, <1>3, <1>4, <1>5, <1>6, StepKinds

\* What is sealed stays sealed.
LEMMA SafeStays ==
  ASSUME SealInv, Next, Safe
  PROVE  Safe'
<1>1. CASE dest' = dest
  BY <1>1 DEF Safe, Sealed, Clean, LeadsLater
<1>2. CASE Alike(dest, dest') /\ dest # Nothing
  BY <1>2, AlikeKeeps DEF Safe
<1>3. CASE dest.git /\ ~dest.locked
  BY <1>3 DEF Safe, Sealed, Nothing
<1> QED BY <1>1, <1>2, <1>3, DestinationStep

----------------------------------------------------------------------------
(* Types, and the staging directories.                                     *)

\* The order of the stages and of the checks, as sets of names.
LEMMA StepNames ==
  /\ Stages = {"clone", "checkout", "prune", "unlink", "lock", "expire", "gc", "verify"}
  /\ \A step \in Stages : AfterStage[step] \in Steps
  /\ \A step \in Stages : AfterStage[step] \in Owning \ Copying
  /\ \A step \in Stages : AfterStage[step] = "move" => step = "verify"
  /\ \A step \in DOMAIN AfterCheck : AfterCheck[step] \in Steps \ (Owning \cup {"clone"})
  /\ Checks \cap Owning = {}
  /\ Copying \cup Busy \subseteq Steps /\ Stages \cap Busy = {} /\ Checks \cap Busy = {}
BY DEF Stages, Steps, AfterStage, Checks, AfterCheck, Owning, Ends, Copying, Busy

\* The stages of one process.
Sealing(p) ==
  \/ Clone(p) \/ Checkout(p) \/ Prune(p) \/ Unlink(p) \/ Lock(p) \/ ExpireReflog(p) \/ Gc(p)
  \/ VerifyStaging(p)

\* Each stage puts a repository into the staging directory, the last one a sealed one.
LEMMA SealingStep ==
  ASSUME SealInv, NEW p \in Procs, Sealing(p)
  PROVE  \E step \in Stages : \E repo \in Repositories :
           Stage(p, step, repo) /\ Whole(repo) /\ (step = "verify" => Sealed(repo))
<1> USE DEF SealInv
<1>1. CASE Clone(p)
  BY <1>1, StepNames, RepositoryAssumption DEF Clone
<1>2. ASSUME ~Clone(p)
      PROVE  staging[p] \in Repositories /\ Whole(staging[p])
  <2>1. pc[p] \in Stages \ {"clone"}
    BY <1>2, StepNames DEF Sealing, Checkout, Prune, Unlink, Lock, ExpireReflog, Gc, VerifyStaging, Stage
  <2> QED BY <2>1 DEF StagingInv, Owning
<1>3. CASE ~Clone(p) /\ Checkout(p)
  <2> DEFINE new == [r \in DOMAIN staging[p].refs \cup {Branch(staging[p])} |->
                       IF r = Branch(staging[p]) THEN "base" ELSE staging[p].refs[r]]
  <2>1. Stage(p, "checkout", [staging[p] EXCEPT !.head = "base", !.refs = new])
    BY <1>3 DEF Checkout
  <2>2. [staging[p] EXCEPT !.head = "base", !.refs = new] \in Repositories
    BY <1>2, <1>3, StagesKeepTypes
  <2> HIDE DEF new
  <2> QED BY <1>2, <1>3, <2>1, <2>2, StepNames, WholeStays
<1>4. CASE ~Clone(p) /\ Prune(p)
  <2>1. Kept(staging[p], Branch(staging[p])) \in SUBSET DOMAIN staging[p].refs
    BY DEF Kept
  <2> DEFINE new == [r \in Kept(staging[p], Branch(staging[p])) |-> staging[p].refs[r]]
  <2>2. Stage(p, "prune", [staging[p] EXCEPT !.refs = new])
    BY <1>4 DEF Prune
  <2>3. [staging[p] EXCEPT !.refs = new] \in Repositories
    BY <1>2, <1>4, <2>1, StagesKeepTypes
  <2> HIDE DEF new
  <2> QED BY <1>2, <1>4, <2>2, <2>3, StepNames, WholeStays
<1>5. CASE ~Clone(p) /\ (Unlink(p) \/ Lock(p) \/ ExpireReflog(p))
  BY <1>2, <1>5, RepositoryFields, StepNames, WholeStays DEF Unlink, Lock, ExpireReflog
<1>6. CASE ~Clone(p) /\ Gc(p)
  <2> DEFINE b == staging[p].later /\ (LeadsLater(staging[p]) \/ staging[p].reflog)
  <2>1. b \in BOOLEAN
    OBVIOUS
  <2>2. Stage(p, "gc", [staging[p] EXCEPT !.later = b])
    BY <1>6 DEF Gc
  <2> HIDE DEF b
  <2> QED BY <1>2, <1>6, <2>1, <2>2, RepositoryFields, StepNames, WholeStays
<1>7. CASE ~Clone(p) /\ VerifyStaging(p)
  <2>1. \A check \in {"head", "revs", "protocol", "fsck"} : Passes(check, staging[p])
    BY <1>7 DEF VerifyStaging, Checks, AfterCheck
  <2>2. Sealed(staging[p])
    BY <2>1 DEF Passes, Sealed, Clean
  <2> QED BY <1>2, <1>7, <2>2, StepNames DEF VerifyStaging
<1> QED BY <1>1, <1>3, <1>4, <1>5, <1>6, <1>7 DEF Sealing

\* The steps that end outside the staging directory.
Placing(p) ==
  \/ Look(p) \/ Check(p) \/ Discard(p) \/ Record(p) \/ StepFails(p) \/ Cleanup(p)
  \/ RecordFails(p) \/ Kill(p) \/ VerifyDestination(p) \/ Move(p)
  \/ (CopyPart(p) /\ pc'[p] \notin Copying)
  \/ RemoveDestination(p) \/ RemovalFails(p) \/ RemovalCutShort(p)

\* A process that leaves its place goes where it may, and only a sealing step gives it a
\* clone to own.
LEMMA PlaceStep ==
  ASSUME SealInv, Next
  PROVE  /\ pc' \in [Procs -> Steps]
         /\ staging' \in [Procs -> Repositories \cup {Nothing}]
         /\ \A p \in Procs :
              \/ pc'[p] = pc[p] /\ staging'[p] = staging[p]
              \/ pc'[p] \notin Owning
              \/ /\ staging'[p] \in Repositories /\ Whole(staging'[p])
                 /\ pc'[p] \notin Copying /\ (pc'[p] = "move" => Sealed(staging'[p]))
              \/ /\ pc'[p] \in Copying /\ staging'[p] = staging[p]
                 /\ BeginCopy(p) \/ pc[p] \in Copying
<1> USE DEF SealInv
<1>t. pc \in [Procs -> Steps] /\ staging \in [Procs -> Repositories \cup {Nothing}]
  BY DEF TypeOK
<1>1. ASSUME NEW p \in Procs, Sealing(p)
      PROVE  /\ pc' \in [Procs -> Steps]
             /\ staging' \in [Procs -> Repositories \cup {Nothing}]
             /\ \A q \in Procs \ {p} : pc'[q] = pc[q] /\ staging'[q] = staging[q]
             /\ staging'[p] \in Repositories /\ Whole(staging'[p])
             /\ pc'[p] \notin Copying /\ (pc'[p] = "move" => Sealed(staging'[p]))
  <2>1. PICK step \in Stages, repo \in Repositories :
          Stage(p, step, repo) /\ Whole(repo) /\ (step = "verify" => Sealed(repo))
    BY <1>1, SealingStep
  <2>2. /\ pc' = [pc EXCEPT ![p] = AfterStage[step]]
        /\ staging' = [staging EXCEPT ![p] = repo]
    BY <2>1 DEF Stage, Goto
  <2>3. /\ AfterStage[step] \in Steps /\ AfterStage[step] \notin Copying
        /\ AfterStage[step] = "move" => step = "verify"
    BY StepNames
  <2> QED BY <1>t, <2>1, <2>2, <2>3
<1>2. ASSUME NEW p \in Procs, BeginCopy(p) \/ (CopyPart(p) /\ pc'[p] \in Copying)
      PROVE  /\ BeginCopy(p) \/ pc[p] \in Copying
             /\ \E step \in Copying : pc' = [pc EXCEPT ![p] = step]
             /\ staging' = staging
  <2>1. CASE BeginCopy(p)
    BY <2>1 DEF BeginCopy, Goto, Copying
  <2>2. CASE CopyPart(p) /\ pc'[p] \in Copying
    <3>1. /\ pc[p] \in Copying /\ staging' = staging
          /\ \E step \in {"copy_git", "copy_files", "head"} : pc' = [pc EXCEPT ![p] = step]
      BY <2>2 DEF CopyPart, CopyGit, CopyFiles, Advance, Goto, Copying
    <3>2. PICK step \in {"copy_git", "copy_files", "head"} : pc' = [pc EXCEPT ![p] = step]
      BY <3>1
    <3>3. step \in Copying
      BY <1>t, <2>2, <3>2
    <3> QED BY <3>1, <3>2, <3>3
  <2> QED BY <1>2, <2>1, <2>2
<1>3. ASSUME NEW p \in Procs, Placing(p)
      PROVE  /\ \E step \in Steps \ Owning : pc' = [pc EXCEPT ![p] = step]
             /\ staging' \in [Procs -> Repositories \cup {Nothing}]
             /\ \A q \in Procs \ {p} : staging'[q] = staging[q]
  <2>1. {"head", "check", "clone", "cleanup", "remove", "discard", "record", "ready", "failed", "killed"}
          \subseteq Steps \ Owning
    BY StepNames DEF Steps, Owning, Ends, Checks, AfterCheck, Copying, Busy
  <2>2. \E step \in Steps \ Owning : pc' = [pc EXCEPT ![p] = step]
    <3>1. CASE VerifyDestination(p)
      <4>1. pc[p] \in Checks /\ (pc[p] # "fsck" => pc[p] \in DOMAIN AfterCheck)
        BY <3>1 DEF VerifyDestination, Checks
      <4>2. pc[p] # "fsck" => AfterCheck[pc[p]] \in Steps \ Owning
        BY <4>1, StepNames
      <4> QED BY <3>1, <2>1, <4>2 DEF VerifyDestination, Goto
    <3>2. CASE CopyPart(p) /\ pc'[p] \notin Copying
      <4>1. \E step \in {"copy_git", "copy_files", "head"} : pc' = [pc EXCEPT ![p] = step]
        BY <3>2 DEF CopyPart, CopyGit, CopyFiles, Advance, Goto
      <4>2. pc' = [pc EXCEPT ![p] = "head"]
        BY <1>t, <3>2, <4>1 DEF Copying
      <4> QED BY <2>1, <4>2
    <3>3. CASE RemovalCutShort(p)
      BY <2>1, <3>3 DEF RemovalCutShort, Goto
    <3>4. CASE ~(VerifyDestination(p) \/ (CopyPart(p) /\ pc'[p] \notin Copying) \/ RemovalCutShort(p))
      BY <1>3, <2>1, <3>4 DEF Placing, Look, Check, Discard, Record, StepFails, Cleanup, RecordFails, Kill,
                              Move, RemoveDestination, RemovalFails, Goto
    <3> QED BY <3>1, <3>2, <3>3, <3>4
  <2>3. staging' = staging \/ staging' = [staging EXCEPT ![p] = Nothing]
    BY <1>3 DEF Placing, Look, Check, Discard, Record, StepFails, Cleanup, RecordFails, Kill,
                VerifyDestination, Move, CopyPart, CopyGit, CopyFiles, Advance, RemoveDestination,
                RemovalFails, RemovalCutShort
  <2> QED BY <1>t, <2>2, <2>3
<1>4. ASSUME EditorFetches PROVE pc' = pc /\ staging' = staging
  BY <1>4 DEF EditorFetches
<1>5. CASE \E p \in Procs : Sealing(p)
  BY <1>1, <1>5
<1>6. CASE \E p \in Procs : BeginCopy(p) \/ (CopyPart(p) /\ pc'[p] \in Copying)
  <2>1. PICK p \in Procs : BeginCopy(p) \/ (CopyPart(p) /\ pc'[p] \in Copying)
    BY <1>6
  <2>2. PICK step \in Copying : pc' = [pc EXCEPT ![p] = step]
    BY <1>2, <2>1
  <2> QED BY <1>2, <1>t, <2>1, <2>2, StepNames
<1>7. CASE \E p \in Procs : Placing(p)
  <2>1. PICK p \in Procs : /\ \E step \in Steps \ Owning : pc' = [pc EXCEPT ![p] = step]
                           /\ staging' \in [Procs -> Repositories \cup {Nothing}]
                           /\ \A q \in Procs \ {p} : staging'[q] = staging[q]
    BY <1>3, <1>7
  <2>2. PICK step \in Steps \ Owning : pc' = [pc EXCEPT ![p] = step]
    BY <2>1
  <2>3. pc' \in [Procs -> Steps]
    BY <1>t, <2>2
  <2>4. ASSUME NEW q \in Procs
        PROVE  (pc'[q] = pc[q] /\ staging'[q] = staging[q]) \/ pc'[q] \notin Owning
    <3>1. CASE q = p
      BY <1>t, <2>2, <3>1
    <3>2. CASE q # p
      BY <1>t, <2>1, <2>2, <3>2
    <3> QED BY <3>1, <3>2
  <2> QED BY <2>1, <2>3, <2>4
<1> QED BY <1>t, <1>4, <1>5, <1>6, <1>7 DEF Next, Process, Sealing, Placing, CopyPart

\* A process keeps knowing its clone.
LEMMA StagingStays ==
  ASSUME SealInv, Next
  PROVE  StagingInv'
<1> SUFFICES ASSUME NEW p \in Procs
             PROVE  /\ pc'[p] \in Owning => staging'[p] \in Repositories /\ Whole(staging'[p])
                    /\ pc'[p] \in Copying \cup {"move"} => Sealed(staging'[p])
                    /\ pc'[p] \in Copying => Safe'
  BY DEF StagingInv, Sealed, Clean, LeadsLater, Whole
<1>0. StagingInv
  BY DEF SealInv
<1>1. CASE pc'[p] = pc[p] /\ staging'[p] = staging[p]
  <2>1. pc[p] \in Copying => Safe'
    BY <1>0, SafeStays DEF StagingInv
  <2> QED BY <1>0, <1>1, <2>1 DEF StagingInv
<1>2. CASE pc'[p] \notin Owning
  BY <1>2 DEF Owning
<1>3. CASE /\ staging'[p] \in Repositories /\ Whole(staging'[p])
           /\ pc'[p] \notin Copying /\ (pc'[p] = "move" => Sealed(staging'[p]))
  BY <1>3
<1>4. CASE /\ pc'[p] \in Copying /\ staging'[p] = staging[p]
           /\ BeginCopy(p) \/ pc[p] \in Copying
  <2>1. Safe
    BY <1>0, <1>4 DEF BeginCopy, Exists, Safe, StagingInv
  <2>2. staging[p] \in Repositories /\ Whole(staging[p]) /\ Sealed(staging[p])
    BY <1>0, <1>4 DEF StagingInv, Owning, BeginCopy
  <2> QED BY <1>4, <2>1, <2>2, SafeStays
<1> QED BY <1>1, <1>2, <1>3, <1>4, PlaceStep

----------------------------------------------------------------------------
(* The destination between two checks.                                     *)

\* How a process gets to a check: it stays, or answers the one before with yes.
LEMMA CheckOrder ==
  ASSUME SealInv, Next, NEW p \in Procs, pc'[p] # pc[p],
         pc'[p] \in {"refs", "revs", "remotes", "protocol", "fsck"}
  PROVE  /\ dest' = dest /\ dest.git /\ Passes(pc[p], dest)
         /\ pc[p] \in DOMAIN AfterCheck /\ pc'[p] = AfterCheck[pc[p]]
<1> DEFINE Middle == {"refs", "revs", "remotes", "protocol", "fsck"}
<1>t. pc \in [Procs -> Steps]
  BY DEF SealInv, TypeOK
<1>1. ASSUME NEW q \in Procs, VerifyDestination(q)
      PROVE  q = p /\ dest.git /\ Passes(pc[p], dest) /\ pc[p] # "fsck" /\ pc'[p] = AfterCheck[pc[p]]
  <2>1. \E step \in Steps \cup {"cleanup", "failed", "discard", "ready"} \cup {AfterCheck[pc[q]]} :
          pc' = [pc EXCEPT ![q] = step]
    BY <1>1 DEF VerifyDestination, Goto
  <2>2. q = p
    BY <1>t, <2>1
  <2>3. CASE dest.git /\ Passes(pc[p], dest)
    BY <1>1, <1>t, <2>2, <2>3 DEF VerifyDestination, Goto
  <2>4. CASE ~(dest.git /\ Passes(pc[p], dest))
    BY <1>1, <1>t, <2>2, <2>4 DEF VerifyDestination, Goto
  <2> QED BY <2>2, <2>3, <2>4
<1>2. ASSUME NEW q \in Procs, Sealing(q) PROVE FALSE
  <2>1. PICK step \in Stages, repo \in Repositories : Stage(q, step, repo)
    BY <1>2, SealingStep
  <2>2. pc' = [pc EXCEPT ![q] = AfterStage[step]] /\ AfterStage[step] \in Owning
    BY <2>1, StepNames DEF Stage, Goto
  <2>3. Middle \cap Owning = {}
    BY StepNames DEF Owning, Copying
  <2> QED BY <1>t, <2>2, <2>3
<1>3. ASSUME NEW q \in Procs,
             \/ Look(q) \/ Check(q) \/ Discard(q) \/ Record(q) \/ StepFails(q) \/ Cleanup(q)
             \/ RecordFails(q) \/ Kill(q) \/ Move(q) \/ BeginCopy(q) \/ CopyPart(q)
             \/ RemoveDestination(q) \/ RemovalFails(q) \/ RemovalCutShort(q)
      PROVE  FALSE
  BY <1>3, <1>t DEF Look, Check, Discard, Record, StepFails, Cleanup, RecordFails, Kill, Move, BeginCopy,
                    CopyPart, CopyGit, CopyFiles, Advance, RemoveDestination, RemovalFails,
                    RemovalCutShort, Goto
<1>4. ~EditorFetches
  BY DEF EditorFetches
<1>5. PICK q \in Procs : VerifyDestination(q)
  BY <1>2, <1>3, <1>4 DEF Next, Process, Sealing, CopyPart
<1>6. pc[p] \in DOMAIN AfterCheck /\ dest' = dest
  BY <1>1, <1>5 DEF VerifyDestination, Checks
<1> QED BY <1>1, <1>5, <1>6

\* What the checks so far have shown survives what others and the editor do.
LEMMA CheckStays ==
  ASSUME SealInv, Next
  PROVE  CheckInv'
<1> SUFFICES ASSUME NEW p \in Procs
             PROVE  /\ pc'[p] \in {"refs", "revs"} => Safe' \/ dest'.head = "base"
                    /\ pc'[p] \in {"remotes", "protocol"} =>
                         Safe' \/ (dest'.head = "base" /\ (dest'.locked => Clean(dest')))
                    /\ pc'[p] = "fsck" => Safe' \/ (dest'.locked /\ Clean(dest'))
  BY DEF CheckInv, Clean, LeadsLater
<1>0. /\ pc[p] \in {"refs", "revs"} => Safe \/ dest.head = "base"
      /\ pc[p] \in {"remotes", "protocol"} => Safe \/ (dest.head = "base" /\ (dest.locked => Clean(dest)))
      /\ pc[p] = "fsck" => Safe \/ (dest.locked /\ Clean(dest))
  BY DEF SealInv, CheckInv
<1>1. CASE pc'[p] = pc[p]
  <2>1. CASE Safe'
    BY <2>1
  <2>2. CASE dest' = dest /\ ~Safe'
    BY <1>0, <1>1, <2>2, SafeStays
  <2>3. CASE Alike(dest, dest') /\ ~Safe'
    <3>1. dest'.head = dest.head /\ dest'.locked = dest.locked /\ (Clean(dest) => Clean(dest'))
      BY <2>3, AlikeKeeps DEF Alike
    <3> QED BY <1>0, <1>1, <2>3, <3>1, SafeStays
  <2>4. CASE ~dest.locked /\ ~dest'.locked /\ dest'.head = dest.head /\ ~Safe'
    BY <1>0, <1>1, <2>4, SafeStays
  <2> QED BY <2>1, <2>2, <2>3, <2>4, DestinationStep
<1>2. CASE pc'[p] # pc[p] /\ pc'[p] \in {"refs", "revs", "remotes", "protocol", "fsck"}
  <2>1. /\ dest' = dest /\ dest.git /\ Passes(pc[p], dest)
        /\ pc[p] \in DOMAIN AfterCheck /\ pc'[p] = AfterCheck[pc[p]]
    BY <1>2, CheckOrder
  <2>2. /\ pc'[p] = "refs" => pc[p] = "head"
        /\ pc'[p] = "revs" => pc[p] = "refs"
        /\ pc'[p] = "remotes" => pc[p] = "revs"
        /\ pc'[p] = "protocol" => pc[p] = "remotes"
        /\ pc'[p] = "fsck" => pc[p] = "protocol"
    BY <2>1 DEF AfterCheck
  <2>3. /\ pc'[p] = "refs" => dest.head = "base"
        /\ pc'[p] = "remotes" => ~LeadsLater(dest)
        /\ pc'[p] = "fsck" => dest.locked
    BY <2>1, <2>2 DEF Passes
  <2>4. Safe => Safe'
    BY SafeStays
  <2> QED BY <1>0, <1>2, <2>1, <2>2, <2>3, <2>4 DEF Clean
<1>3. CASE pc'[p] \notin {"refs", "revs", "remotes", "protocol", "fsck"}
  BY <1>3
<1> QED BY <1>1, <1>2, <1>3

\* Trust is given to a sealed repository only.
LEMMA TrustStays ==
  ASSUME SealInv, Next, trusted'
  PROVE  Safe'
<1>1. CASE trusted
  BY <1>1, SafeStays DEF SealInv
<1>2. CASE ~trusted
  <2>1. ASSUME NEW p \in Procs, VerifyDestination(p) PROVE Safe'
    <3>1. pc[p] = "fsck" /\ dest' = dest /\ Passes("fsck", dest)
      BY <1>2, <2>1 DEF VerifyDestination
    <3>2. Safe \/ (dest.locked /\ Clean(dest))
      BY <3>1 DEF SealInv, CheckInv
    <3>3. Safe
      BY <3>1, <3>2 DEF Passes, Safe, Sealed, Clean
    <3> QED BY <3>3, SafeStays
  <2>2. ASSUME NEW p \in Procs, Move(p) PROVE Safe'
    <3>1. pc[p] = "move" /\ dest' = staging[p]
      BY <1>2, <2>2 DEF Move
    <3>2. Sealed(staging[p])
      BY <3>1 DEF SealInv, StagingInv
    <3> QED BY <3>1, <3>2 DEF Safe
  <2>3. ASSUME NEW p \in Procs, CopyPart(p) PROVE Safe'
    <3>1. Safe
      BY <2>3 DEF CopyPart, CopyGit, CopyFiles, Copying, SealInv, StagingInv
    <3> QED BY <3>1, SafeStays
  <2>4. ASSUME NEW p \in Procs,
               Aside(p) \/ BeginCopy(p) \/ RemoveDestination(p) \/ RemovalCutShort(p)
        PROVE  FALSE
    BY <1>2, <2>4, AsideLeavesDestination DEF BeginCopy, RemoveDestination, RemovalCutShort
  <2>5. ~EditorFetches
    BY <1>2 DEF EditorFetches
  <2> QED BY <2>1, <2>2, <2>3, <2>4, <2>5, StepKinds
<1> QED BY <1>1, <1>2

\* A repository, however little of it is there, is not nothing.
LEMMA SomethingThere == \A repo \in Repositories : repo # Nothing
<1> SUFFICES ASSUME NEW repo \in Repositories PROVE repo # Nothing
  OBVIOUS
<1>1. "head" \in DOMAIN repo
  BY DEF Repositories
<1>2. "head" \notin DOMAIN Nothing
  BY DEF Nothing
<1> QED BY <1>1, <1>2

\* Whoever leaves a part of the destination behind is still at work on it, and nobody else
\* takes away what it has copied, unless something was cut short.
LEMMA PartsStay ==
  ASSUME SealInv, Next
  PROVE  PartsInv'
<1> DEFINE Parts == /\ Exists => Whole(dest) \/ \E p \in Procs : pc[p] \in Busy
                    /\ \A p \in Procs : /\ pc[p] \in Copying => Exists
                                        /\ pc[p] = "copy_git" => dest.git
                                        /\ pc[p] = "copy_files" => dest.files
<1>t. /\ pc \in [Procs -> Steps] /\ dest \in Repositories \cup {Nothing}
      /\ "copy_git" \in Copying /\ "copy_files" \in Copying /\ Copying \subseteq Busy
  BY DEF SealInv, TypeOK, Copying, Busy
<1>s. \A p \in Procs : pc[p] \in Copying \cup {"move"} =>
        staging[p] \in Repositories /\ Whole(staging[p]) /\ staging[p] # Nothing
  BY SomethingThere DEF SealInv, StagingInv, Owning
<1> SUFFICES ASSUME ~interrupted' PROVE Parts'
  BY DEF PartsInv
<1>0. ~interrupted
  <2>1. ASSUME NEW p \in Procs, Sealing(p) PROVE interrupted' = interrupted
    BY <2>1, SealingStep DEF Stage
  <2>2. ASSUME NEW p \in Procs, Process(p), ~Sealing(p) PROVE interrupted => interrupted'
    BY <2>2 DEF Process, Sealing, Look, Check, VerifyDestination, Move, BeginCopy, CopyGit, CopyFiles, Advance,
                Discard, Record, StepFails, Cleanup, RemoveDestination, RemovalFails, RemovalCutShort,
                RecordFails, Kill
  <2> QED BY <2>1, <2>2 DEF Next, EditorFetches
<1>p. Parts
  BY <1>0 DEF SealInv, PartsInv
<1>g. ASSUME NEW p \in Procs, NEW step, pc' = [pc EXCEPT ![p] = step], dest' = dest,
             step \notin Copying, pc[p] \notin Busy \/ step \in Busy
      PROVE  Parts'
  <2>1. \A q \in Procs : pc'[q] = IF q = p THEN step ELSE pc[q]
    BY <1>t, <1>g
  <2>2. Exists' => Whole(dest') \/ \E q \in Procs : pc'[q] \in Busy
    BY <1>p, <1>g, <2>1 DEF Exists, Whole
  <2>3. \A q \in Procs : pc'[q] \in Copying => pc'[q] = pc[q]
    BY <1>g, <2>1
  <2> QED BY <1>t, <1>p, <1>g, <2>2, <2>3 DEF Exists
<1>1. ASSUME NEW p \in Procs, Sealing(p) PROVE Parts'
  <2>1. PICK step \in Stages, repo \in Repositories : Stage(p, step, repo)
    BY <1>1, SealingStep
  <2>2. /\ pc' = [pc EXCEPT ![p] = AfterStage[step]] /\ dest' = dest /\ pc[p] \in Stages
        /\ AfterStage[step] \notin Copying /\ pc[p] \notin Busy
    BY <2>1, StepNames DEF Stage, Goto
  <2> QED BY <1>g, <2>2
<1>2. ASSUME NEW p \in Procs,
             Look(p) \/ Check(p) \/ Discard(p) \/ Record(p) \/ RecordFails(p) \/ RemovalFails(p) \/ Kill(p)
      PROVE  Parts'
  <2>1. /\ \E step \in {"head", "check", "failed", "clone", "record", "ready", "killed"} :
             pc' = [pc EXCEPT ![p] = step]
        /\ dest' = dest /\ pc[p] \notin Busy
    BY <1>2 DEF Look, Check, Discard, Record, RecordFails, RemovalFails, Kill, Goto, Busy, Copying
  <2>2. PICK step \in {"head", "check", "failed", "clone", "record", "ready", "killed"} :
          pc' = [pc EXCEPT ![p] = step]
    BY <2>1
  <2>3. step \notin Copying
    BY DEF Copying
  <2> QED BY <1>g, <2>1, <2>2, <2>3
<1>3. ASSUME NEW p \in Procs, VerifyDestination(p) PROVE Parts'
  <2>1. pc[p] \in Checks /\ pc[p] \notin Busy /\ dest' = dest
    BY <1>3, StepNames DEF VerifyDestination
  <2>2. \E step : pc' = [pc EXCEPT ![p] = step] /\ step \notin Copying
    <3>1. pc[p] # "fsck" => AfterCheck[pc[p]] \notin Copying
      BY <2>1 DEF Checks, AfterCheck, Copying
    <3>2. {"discard", "ready", "cleanup", "failed"} \cap Copying = {}
      BY DEF Copying
    <3> QED BY <1>3, <3>1, <3>2 DEF VerifyDestination, Goto
  <2> QED BY <1>g, <2>1, <2>2
<1>4. ASSUME NEW p \in Procs, StepFails(p) \/ Cleanup(p) PROVE Parts'
  <2>1. CASE Cleanup(p)
    <3>1. pc' = [pc EXCEPT ![p] = "remove"] /\ dest' = dest /\ "remove" \in Busy /\ "remove" \notin Copying
      BY <2>1 DEF Cleanup, Goto, Busy, Copying
    <3> QED BY <1>g, <3>1
  <2>2. CASE StepFails(p)
    <3>1. dest' = dest /\ \E step \in {"cleanup", "failed"} :
             /\ pc' = [pc EXCEPT ![p] = step]
             /\ Preparing(p) => step = "cleanup"
      BY <2>2 DEF StepFails, Goto
    <3>2. PICK step \in {"cleanup", "failed"} :
             pc' = [pc EXCEPT ![p] = step] /\ (Preparing(p) => step = "cleanup")
      BY <3>1
    <3>3. pc[p] \in Copying => step = "cleanup"
      BY <1>s, <3>2 DEF Preparing
    <3>4. pc[p] \in Busy => pc[p] \in Copying
      BY <2>2, StepNames DEF StepFails, Busy
    <3>5. step \notin Copying /\ "cleanup" \in Busy
      BY DEF Copying, Busy
    <3> QED BY <1>g, <3>1, <3>2, <3>3, <3>4, <3>5
  <2> QED BY <1>4, <2>1, <2>2
<1>5. ASSUME NEW p \in Procs, Move(p) PROVE Parts'
  <2>1. /\ \E step \in {"head", "cleanup"} : pc' = [pc EXCEPT ![p] = step]
        /\ pc[p] = "move" /\ pc[p] \notin Busy
    BY <1>5 DEF Move, Goto, Busy, Copying
  <2>2. PICK step \in {"head", "cleanup"} : pc' = [pc EXCEPT ![p] = step]
    BY <2>1
  <2>3. \A q \in Procs : pc'[q] \in Busy => q = p \/ pc[q] \in Busy
    BY <1>t, <2>2
  <2>4. step \notin Copying /\ \A q \in Procs : pc'[q] \in Copying => pc'[q] = pc[q]
    BY <1>t, <2>2 DEF Copying
  <2>5. CASE ~Exists
    <3>1. dest' = staging[p]
      BY <1>5, <2>5 DEF Move
    <3>2. \A q \in Procs : pc'[q] \notin Copying
      BY <1>p, <2>4, <2>5
    <3>3. Exists' /\ Whole(dest')
      BY <1>s, <2>1, <3>1 DEF Exists, Whole
    <3> QED BY <1>t, <3>2, <3>3
  <2>6. CASE Exists
    <3>1. dest \in Repositories /\ (dest' = dest \/ dest' = [dest EXCEPT !.nested = TRUE])
      BY <1>5, <1>t, <2>6 DEF Move, Exists
    <3>2. dest'.git = dest.git /\ dest'.files = dest.files /\ dest' \in Repositories
      BY <3>1, PartFields, RepositoryFields
    <3>3. \A q \in Procs : pc[q] \in Busy => pc'[q] \in Busy
      BY <1>t, <2>1, <2>2
    <3>4. Exists'
      BY <3>2, SomethingThere DEF Exists
    <3>5. Whole(dest)  => Whole(dest')
      BY <3>2 DEF Whole
    <3> QED BY <1>t, <1>p, <2>4, <2>6, <3>2, <3>3, <3>4, <3>5
  <2> QED BY <2>5, <2>6
<1>6. ASSUME NEW p \in Procs, BeginCopy(p) PROVE Parts'
  <2>1. ~Exists /\ pc' = [pc EXCEPT ![p] = "copy"] /\ pc[p] = "move"
        /\ dest' = [staging[p] EXCEPT !.git = FALSE, !.files = FALSE]
    BY <1>6 DEF BeginCopy, Goto, Bare
  <2>2. \A q \in Procs : pc'[q] = IF q = p THEN "copy" ELSE pc[q]
    BY <1>t, <2>1
  <2>3. \A q \in Procs \ {p} : pc'[q] \notin Copying
    BY <1>p, <2>1, <2>2
  <2>4. dest' \in Repositories
    BY <1>s, <2>1, BothApart
  <2>5. Exists'
    BY <2>4, SomethingThere DEF Exists
  <2>6. pc'[p] = "copy" /\ "copy" \in Busy
    BY <2>2 DEF Busy, Copying
  <2> QED BY <1>t, <2>3, <2>5, <2>6
<1>7. ASSUME NEW p \in Procs, CopyPart(p) PROVE Parts'
  <2>1. pc[p] \in Copying
    BY <1>7 DEF CopyPart, CopyGit, CopyFiles, Copying
  <2>2. dest \in Repositories /\ Begun(p) = dest
    BY <1>p, <1>t, <2>1 DEF Begun, Exists
  <2>3. PICK step \in {"copy_git", "copy_files", "head"} : pc' = [pc EXCEPT ![p] = step]
    BY <1>7 DEF CopyPart, CopyGit, CopyFiles, Advance, Goto
  <2>4. \A q \in Procs : pc'[q] = IF q = p THEN step ELSE pc[q]
    BY <1>t, <2>3
  <2>5. /\ dest' \in Repositories
        /\ (dest.git => dest'.git) /\ (dest.files => dest'.files)
        /\ CopyGit(p) => dest'.git
        /\ CopyFiles(p) => dest'.files
    <3>1. /\ CopyGit(p) => dest' = [dest EXCEPT !.git = TRUE]
          /\ CopyFiles(p) => dest' = [dest EXCEPT !.files = TRUE]
      BY <2>2 DEF CopyGit, CopyFiles
    <3>2. [dest EXCEPT !.git = TRUE] \in Repositories /\ [dest EXCEPT !.files = TRUE] \in Repositories
      BY <2>2, RepositoryFields
    <3>3. /\ [dest EXCEPT !.git = TRUE].git /\ [dest EXCEPT !.git = TRUE].files = dest.files
          /\ [dest EXCEPT !.files = TRUE].files /\ [dest EXCEPT !.files = TRUE].git = dest.git
      BY <2>2, PartFields
    <3>4. CASE CopyGit(p) /\ ~CopyFiles(p)
      <4>1. dest' \in Repositories /\ dest'.git /\ dest'.files = dest.files
        BY <3>1, <3>4, <3>2, <3>3, Zenon
      <4> QED BY <3>4, <4>1, Zenon
    <3>5. CASE CopyFiles(p) /\ ~CopyGit(p)
      <4>1. dest' \in Repositories /\ dest'.files /\ dest'.git = dest.git
        BY <3>1, <3>5, <3>2, <3>3, Zenon
      <4> QED BY <3>5, <4>1, Zenon
    <3>6. ~(CopyGit(p) /\ CopyFiles(p))
      <4>1. "copy_git" # "copy_files" /\ "head" # "copy_git" /\ "head" # "copy_files"
        OBVIOUS
      <4> QED BY <1>t, <4>1 DEF CopyGit, CopyFiles, Advance, Goto
    <3> QED BY <1>7, <3>4, <3>5, <3>6 DEF CopyPart
  <2>6. /\ step = "copy_git" => CopyGit(p)
        /\ step = "copy_files" => CopyFiles(p)
        /\ step = "head" => (pc[p] = "copy_files" /\ CopyGit(p)) \/ (pc[p] = "copy_git" /\ CopyFiles(p))
    BY <1>7, <1>t, <2>3, <2>4 DEF CopyPart, CopyGit, CopyFiles, Advance, Goto
  <2>7. Exists'
    BY <2>5, SomethingThere DEF Exists
  <2>8. Whole(dest') \/ \E q \in Procs : pc'[q] \in Busy
    <3>1. CASE step = "head"
      BY <1>p, <2>5, <2>6, <3>1 DEF Whole
    <3>2. CASE step # "head"
      BY <1>t, <2>3, <2>4, <3>2
    <3> QED BY <3>1, <3>2
  <2>9. ASSUME NEW q \in Procs
        PROVE  (pc'[q] = "copy_git" => dest'.git) /\ (pc'[q] = "copy_files" => dest'.files)
    BY <1>p, <2>4, <2>5, <2>6
  <2> QED BY <2>7, <2>8, <2>9
<1>8. ASSUME NEW p \in Procs, RemoveDestination(p) PROVE Parts'
  <2>1. /\ dest' = Nothing /\ pc' = [pc EXCEPT ![p] = "failed"] /\ pc[p] = "remove"
        /\ Exists => \A q \in Procs \ {p} : pc[q] \notin Copying
    BY <1>8 DEF RemoveDestination, Goto
  <2>2. \A q \in Procs : pc'[q] = IF q = p THEN "failed" ELSE pc[q]
    BY <1>t, <2>1
  <2>3. \A q \in Procs : pc'[q] \notin Copying
    BY <1>p, <2>1, <2>2 DEF Copying
  <2> QED BY <1>t, <2>1, <2>3 DEF Exists
<1>9. ASSUME NEW p \in Procs PROVE ~RemovalCutShort(p)
  BY DEF RemovalCutShort
<1>10. ASSUME EditorFetches PROVE Parts'
  <2>1. dest \in Repositories /\ pc' = pc
    BY <1>10, <1>t DEF EditorFetches, Nothing
  <2>2. PICK names \in {DOMAIN dest.refs, DOMAIN dest.refs \cup {"origin/main"}} :
          dest' = [dest EXCEPT !.later = TRUE,
                     !.refs = [r \in names |-> IF r = "origin/main" THEN "later" ELSE dest.refs[r]]]
    BY <1>10 DEF EditorFetches
  <2>3. dest'.git = dest.git /\ dest'.files = dest.files
    <3> DEFINE new == [r \in names |-> IF r = "origin/main" THEN "later" ELSE dest.refs[r]]
               R == RefMaps
    <3>1. dest' = [dest EXCEPT !.later = TRUE, !.refs = new]
      BY <2>2
    <3> HIDE DEF new, R
    <3> QED BY <2>1, <3>1 DEF Repositories
  <2>4. Exists
    BY <2>1, SomethingThere DEF Exists
  <2>5. Exists'
    <3>1. "git" \in DOMAIN dest' /\ "head" \in DOMAIN dest'
      BY <2>1, <2>2 DEF Repositories
    <3> QED BY <3>1 DEF Exists, Nothing
  <2> QED BY <1>p, <2>1, <2>3, <2>4, <2>5 DEF Whole
<1> QED BY <1>1, <1>2, <1>3, <1>4, <1>5, <1>6, <1>7, <1>8, <1>9, <1>10 DEF Next, Process, Sealing, CopyPart

\* The types.
LEMMA TypesStay ==
  ASSUME SealInv, Next
  PROVE  TypeOK'
<1>1. trusted' \in BOOLEAN /\ recorded' \in BOOLEAN /\ interrupted' \in BOOLEAN
  <2>1. trusted \in BOOLEAN /\ recorded \in BOOLEAN /\ interrupted \in BOOLEAN
    BY DEF SealInv, TypeOK
  <2>2. ASSUME NEW p \in Procs, Sealing(p)
        PROVE  trusted' = trusted /\ recorded' = recorded /\ interrupted' = interrupted
    BY <2>2, SealingStep DEF Stage
  <2>3. ASSUME NEW p \in Procs, Process(p), ~Sealing(p)
        PROVE  trusted' \in BOOLEAN /\ recorded' \in BOOLEAN /\ interrupted' \in BOOLEAN
    BY <2>1, <2>3 DEF Process, Sealing, Look, Check, VerifyDestination, Move, BeginCopy, CopyGit, CopyFiles,
                      Advance, Discard, Record, StepFails, Cleanup, RemoveDestination, RemovalFails,
                      RemovalCutShort, RecordFails, Kill
  <2> QED BY <2>1, <2>2, <2>3 DEF Next, EditorFetches
<1> QED BY <1>1, PlaceStep, DestinationStep DEF TypeOK

----------------------------------------------------------------------------
(* The theorems.                                                           *)

\* Types, clones in hand, checks under way and the destination together are kept by
\* every step of any number of processes and of the editor.
THEOREM SealInvariant == Spec => []SealInv
<1>1. SealInv /\ [Next]_vars => SealInv'
  <2> SUFFICES ASSUME SealInv, [Next]_vars PROVE SealInv'
    OBVIOUS
  <2>1. CASE Next
    <3>1. trusted' => Safe'
      BY <2>1, TrustStays
    <3> QED BY <2>1, <3>1, StagingStays, CheckStays, PartsStay, TypesStay DEF SealInv
  <2>2. CASE UNCHANGED vars
    BY <2>2 DEF vars, SealInv, TypeOK, StagingInv, CheckInv, PartsInv, Safe, Sealed, Clean, LeadsLater,
               Whole, Exists
  <2> QED BY <2>1, <2>2
<1> QED BY InitSeal, <1>1, PTL DEF Spec

\* However many processes prepare, verify and clean up at once, and whatever the editor
\* fetches in between: a repository that has been verified reaches no later commit.
THEOREM TrustedAlwaysSealed == Spec => []TrustedIsSealed
<1>1. SealInv => TrustedIsSealed
  BY DEF SealInv, TrustedIsSealed, Safe, Sealed, Clean, Nothing
<1> QED BY SealInvariant, <1>1, PTL

\* For any number of processes, whatever fails in them: a destination of which only a part
\* is there is reported ready only while a process is still at work on it or after something
\* was cut short; a failed process leaves none behind.
THEOREM PartialAlwaysHasCause == Spec => PartialHasCause
<1>1. ASSUME SealInv, Next, NEW p \in Procs,
             pc[p] \notin {"discard", "record"}, pc'[p] \in {"discard", "ready"}, pc'[p] # pc[p]
      PROVE  dest.files \/ interrupted \/ \E q \in Procs : pc[q] \in Busy
  <2>t. pc \in [Procs -> Steps]
    BY <1>1 DEF SealInv, TypeOK
  <2>1. ASSUME NEW q \in Procs, VerifyDestination(q)
        PROVE  dest.git
    <3>1. CASE dest.git
      BY <3>1
    <3>2. CASE ~dest.git
      BY <1>1, <2>t, <2>1, <3>2 DEF VerifyDestination, Goto
    <3> QED BY <3>1, <3>2
  <2>2. ASSUME NEW q \in Procs, Sealing(q) PROVE FALSE
    <3>1. PICK step \in Stages, repo \in Repositories : Stage(q, step, repo)
      BY <1>1, <2>2, SealingStep
    <3>2. pc' = [pc EXCEPT ![q] = AfterStage[step]] /\ AfterStage[step] \in Owning
      BY <3>1, StepNames DEF Stage, Goto
    <3>3. {"discard", "ready"} \cap Owning = {}
      BY StepNames DEF Owning, Copying
    <3> QED BY <1>1, <2>t, <3>2, <3>3
  <2>3. ASSUME NEW q \in Procs,
               \/ Look(q) \/ Check(q) \/ Discard(q) \/ Record(q) \/ StepFails(q) \/ Cleanup(q)
               \/ RecordFails(q) \/ Kill(q) \/ Move(q) \/ BeginCopy(q) \/ CopyPart(q)
               \/ RemoveDestination(q) \/ RemovalFails(q) \/ RemovalCutShort(q)
        PROVE  FALSE
    BY <1>1, <2>3, <2>t DEF Look, Check, Discard, Record, StepFails, Cleanup, RecordFails, Kill, Move,
                            BeginCopy, CopyPart, CopyGit, CopyFiles, Advance, RemoveDestination,
                            RemovalFails, RemovalCutShort, Goto
  <2>4. ~EditorFetches
    BY <1>1 DEF EditorFetches
  <2>5. dest.git
    BY <1>1, <2>1, <2>2, <2>3, <2>4 DEF Next, Process, Sealing, CopyPart
  <2>6. Exists
    BY <2>5 DEF Exists, Nothing
  <2> QED BY <1>1, <2>6 DEF SealInv, PartsInv, Whole
<1>2. SealInv /\ [Next]_vars =>
        [\A p \in Procs :
           pc[p] \notin {"discard", "record"} /\ pc'[p] \in {"discard", "ready"} /\ pc'[p] # pc[p] =>
             dest.files \/ interrupted \/ \E q \in Procs : pc[q] \in Busy]_vars
  BY <1>1
<1> QED BY SealInvariant, <1>2, PTL DEF Spec, PartialHasCause

----------------------------------------------------------------------------
(* Scoring.                                                                *)

\* Where the tool can stand: before the task is loaded, before there is a container, while
\* there is one, and after it.
Loading == {"digest", "hash", "read"}
Unrun   == Loading \cup {"patch", "material", "inspect", "create", "refused"}
InRun   == {"copy", "start", "export", "remove"}
AfterRun == {"write", "scored", "raised"}

\* The task is the one asked for, with the ID the pin names; once the verifier's files
\* have been read, its image is theirs.
TaskInv ==
  /\ stage \in Unrun \cup InRun \cup AfterRun
  /\ stage \in {"hash", "read"} /\ bench = "v2" =>
       asked.id \in DOMAIN pinned.rows /\ RowAllowed(pinned.rows[asked.id])
  /\ stage \notin Loading \cup {"refused"} => task \in TaskType /\ task.digest = Opt.digest
  /\ stage \in {"inspect", "create"} \cup InRun => task.image = pinned.verifier.image

\* A container exists only where finally will see it, or has been removed, or counts as
\* not removed.
ContainerInv ==
  /\ stage \in Unrun => container = NoContainer /\ ~unremoved
  /\ stage \in InRun => container.state # "none"
  /\ container.state # "none" =>
       container.image = Opt.digest /\ task.image = pinned.verifier.image
  /\ stage \in AfterRun => unremoved \/ container.state = "removed"

\* There is no status before the export, and a status there is rests on what was run.
VerdictInv ==
  /\ run \in Runs
  /\ stage \in Unrun \cup (InRun \ {"remove"}) => status = "none"
  /\ stage = "export" => container.state = "ended" \/ run = NoRun
  /\ VerdictIsVerifiers

ScoreInv == ScoreTypeOK /\ TaskInv /\ ContainerInv /\ VerdictInv

\* A loader that accepts a task has all of its fields.
LEMMA LoadedTask ==
  ASSUME ScoreTypeOK, TaskInv, stage = "read", asked.id \in DOMAIN tree,
         Readable(asked.id, tree[asked.id])
  PROVE  /\ TaskOf(asked.id, tree[asked.id]) \in TaskType
         /\ TaskOf(asked.id, tree[asked.id]).digest = Opt.digest
         /\ tree[asked.id] \in VisibleType
<1> DEFINE d == asked.id
           v == tree[d]
<1>1. v \in VisibleType /\ d \in Ids
  BY DEF ScoreTypeOK, IsCorpus
<1>2. Opt \in OptionType
  BY CorpusAssumption DEF ScoreTypeOK, Opt
<1>3. CASE bench = "v2"
  <2>1. v = seen /\ V2Allowed(v, ImageOf[d])
    BY <1>3 DEF Readable
  <2>2. v.image \in Images
    BY <1>1, <2>1, CorpusAssumption DEF V2Allowed
  <2>3. pinned.rows[d] \in RowType /\ RowAllowed(pinned.rows[d])
    BY <1>3, CorpusAssumption DEF TaskInv, ScoreTypeOK, IsSplit
  <2>4. pinned.rows[d].language \in Languages /\ pinned.rows[d].commit \in Commits
    BY <2>3 DEF RowAllowed, RowType
  <2>5. TaskOf(d, v) = V2Task(d, v, pinned.rows[d], Opt)
    BY <1>3 DEF TaskOf
  <2>6. Opt.digest \in Digests \cup {None}
    BY <1>2 DEF OptionType
  <2> QED BY <1>1, <2>2, <2>4, <2>5, <2>6 DEF V2Task, TaskType
<1>4. CASE bench = "deepswe"
  <2>1. Normalizes(v, Opt)
    BY <1>4 DEF Readable
  <2>2. v.language \in Languages /\ v.commit \in Commits /\ v.image \in Images
    BY <1>1, <2>1 DEF Normalizes, LanguageAllowed, CommitAllowed, VisibleType
  <2>3. /\ Opt.digest \in Digests \cup {None}
        /\ Opt.language # None => Opt.language \in Languages
    BY <1>2 DEF OptionType
  <2>4. TaskOf(d, v) = DeepSWETask(d, v, Opt)
    BY <1>4 DEF TaskOf
  <2> QED BY <1>1, <2>2, <2>3, <2>4 DEF DeepSWETask, TaskType
<1> QED BY <1>1, <1>3, <1>4 DEF ScoreTypeOK, Benchmarks

\* A status that is a verdict has the run behind it.
LEMMA StatusOfRun ==
  ASSUME NEW r \in Runs, bench \in Benchmarks
  PROVE  /\ StatusOf(r) \in Statuses
         /\ StatusOf(r) \in {"resolved", "unresolved"} =>
              /\ r # NoRun /\ r.applied
              /\ r.reward = (IF StatusOf(r) = "resolved" THEN 1 ELSE 0)
              /\ bench = "v2" => (r.exit = 0) = (StatusOf(r) = "resolved")
         /\ StatusOf(r) = "patch_not_applied" => ~r.applied
         /\ StatusOf([r EXCEPT !.reward = None]) \in {"verifier_error", "patch_not_applied"}
         /\ StatusOf([r EXCEPT !.reward = None]) = "patch_not_applied" => ~r.applied
<1>1. /\ r.exit \in {0, 1, 30} /\ r.reward \in {0, 1, 2, None} /\ r.applied \in BOOLEAN
      /\ r.reward = 1 => r.applied
      /\ bench = "v2" /\ r.exit = 30 => r.reward = None /\ ~r.applied
      /\ bench = "v2" /\ ~r.applied => r.reward = None
  BY DEF Runs, RunType, Rewards
<1> DEFINE none == [r EXCEPT !.reward = None]
<1>2. none.exit = r.exit /\ none.reward = None /\ none.applied = r.applied
  BY DEF Runs, RunType
<1>3. NoRun.reward = None
  BY DEF NoRun
<1> HIDE DEF none
<1>4. StatusOf(none) \in {"verifier_error", "patch_not_applied"}
      /\ (StatusOf(none) = "patch_not_applied" => ~r.applied)
  BY <1>1, <1>2, RewardAssumption DEF StatusOf, StatusV2, StatusDeepSWE
<1>5. CASE bench = "v2"
  BY <1>1, <1>3, <1>4, <1>5, RewardAssumption DEF StatusOf, StatusV2, Statuses, none
<1>6. CASE bench = "deepswe"
  BY <1>1, <1>3, <1>4, <1>6, RewardAssumption DEF StatusOf, StatusDeepSWE, Statuses, none
<1> QED BY <1>5, <1>6 DEF Benchmarks

LEMMA InitScore == ScoreInit => ScoreInv
<1> SUFFICES ASSUME ScoreInit PROVE ScoreInv
  OBVIOUS
<1>1. ScoreTypeOK
  <2>1. bench \in Benchmarks /\ IsCorpus(tree)
    BY CorpusAssumption DEF ScoreInit, Benchmarks
  <2>2. run \in RunType /\ container \in [state : {"none"}, image : {None}]
    BY DEF ScoreInit, NoRun, NoContainer, RunType, Rewards
  <2> QED BY <2>1, <2>2 DEF ScoreInit, ScoreTypeOK, Statuses
<1>2. run \in Runs
  BY RewardAssumption DEF ScoreInit, NoRun, Runs, RunType, Rewards
<1> QED BY <1>1, <1>2 DEF ScoreInit, ScoreInv, TaskInv, ContainerInv, VerdictInv, VerdictIsVerifiers,
                          NoContainer, Loading, Unrun, InRun, AfterRun

\* Until there is a container only the task and the place of the tool change.
LEMMA LoadingStep ==
  ASSUME ScoreInv,
         VerifyCorpus \/ HashFiles \/ LoadTask \/ ChoosePatch \/ ReadMaterial \/ InspectImage
           \/ CheckOut \/ Pull
  PROVE  ScoreInv'
<1> USE DEF Loading, Unrun, InRun, AfterRun, inputs, world, score, Proceed
<1>1. UNCHANGED <<bench, asked, pinned, container, run, ended, status, unremoved>>
  BY DEF VerifyCorpus, HashFiles, LoadTask, ChoosePatch, ReadMaterial, InspectImage, CheckOut, Pull
<1>2. stage \in Unrun /\ stage' \in Unrun
  BY DEF ScoreInv, TaskInv, VerifyCorpus, HashFiles, LoadTask, ChoosePatch, ReadMaterial,
         InspectImage, CheckOut, Pull
<1>3. ContainerInv' /\ VerdictInv'
  BY <1>1, <1>2 DEF ScoreInv, ContainerInv, VerdictInv, VerdictIsVerifiers, NoContainer, Runs, Opt
<1>4. ASSUME UNCHANGED <<tree, tags>>, task' \in TaskType \cup {NoTask}, seen' \in VisibleType \cup {None}
      PROVE  ScoreTypeOK'
  BY <1>1, <1>4 DEF ScoreInv, ScoreTypeOK
<1>5. task \in TaskType \cup {NoTask} /\ seen \in VisibleType \cup {None}
  BY DEF ScoreInv, ScoreTypeOK
<1>6. CASE VerifyCorpus
  <2>1. UNCHANGED <<tree, tags, seen, task>> /\ stage = "digest"
    BY <1>6 DEF VerifyCorpus
  <2>2. stage' \in {"hash", "read"} /\ bench = "v2" =>
          asked.id \in DOMAIN pinned.rows /\ RowAllowed(pinned.rows[asked.id])
    BY <1>6 DEF VerifyCorpus, SplitAllowed
  <2>3. stage' \in {"hash", "read", "refused"}
    BY <1>6 DEF VerifyCorpus
  <2> QED BY <1>1, <1>3, <1>4, <1>5, <2>1, <2>2, <2>3 DEF ScoreInv, TaskInv
<1>7. CASE HashFiles
  <2>1. UNCHANGED <<tree, tags, task>> /\ stage = "hash" /\ stage' \in {"read", "refused"}
    BY <1>7 DEF HashFiles
  <2>2. seen' \in VisibleType \cup {None}
    BY <1>5, <1>7 DEF HashFiles, ScoreInv, ScoreTypeOK, IsCorpus
  <2> QED BY <1>1, <1>3, <1>4, <1>5, <2>1, <2>2 DEF ScoreInv, TaskInv
<1>8. CASE LoadTask
  <2>1. UNCHANGED <<tree, tags>> /\ stage = "read"
    BY <1>8 DEF LoadTask
  <2>2. CASE asked.id \in DOMAIN tree /\ Readable(asked.id, tree[asked.id])
    <3>1. task' = TaskOf(asked.id, tree[asked.id]) /\ seen' = tree[asked.id] /\ stage' = "patch"
      BY <1>8, <2>2 DEF LoadTask
    <3>2. /\ task' \in TaskType /\ task'.digest = Opt.digest
          /\ seen' \in VisibleType
      BY <2>1, <2>2, <3>1, LoadedTask DEF ScoreInv
    <3>3. Opt' = Opt
      BY <1>1 DEF Opt
    <3> QED BY <1>1, <1>3, <1>4, <2>1, <3>1, <3>2, <3>3 DEF ScoreInv, TaskInv
  <2>3. CASE ~(asked.id \in DOMAIN tree /\ Readable(asked.id, tree[asked.id]))
    <3>1. UNCHANGED <<task, seen>> /\ stage' = "refused"
      BY <1>8, <2>3 DEF LoadTask
    <3> QED BY <1>1, <1>3, <1>4, <1>5, <2>1, <3>1 DEF ScoreInv, TaskInv
  <2> QED BY <2>2, <2>3
<1>9. CASE ChoosePatch \/ ReadMaterial \/ InspectImage
  <2>1. UNCHANGED <<tree, tags, seen, task>>
    BY <1>9 DEF ChoosePatch, ReadMaterial, InspectImage
  <2>2. /\ stage \in {"patch", "material", "inspect"}
        /\ stage' \in {"refused", "material", "inspect", "create"}
        /\ stage' \in {"inspect", "create"} => task.image = pinned.verifier.image
    BY <1>9 DEF ChoosePatch, ReadMaterial, InspectImage, MaterialAllowed, ScoreInv, TaskInv
  <2> QED BY <1>1, <1>3, <1>4, <1>5, <2>1, <2>2 DEF ScoreInv, TaskInv, Opt
<1>10. CASE CheckOut \/ Pull
  <2>1. UNCHANGED <<stage, seen, task>>
    BY <1>10 DEF CheckOut, Pull
  <2>2. IsCorpus(tree')
    BY <1>10, CorpusAssumption DEF CheckOut, Pull, ScoreInv, ScoreTypeOK
  <2>3. tags' \in [Images -> Digests]
    BY <1>10 DEF CheckOut, Pull, ScoreInv, ScoreTypeOK
  <2>4. ScoreTypeOK'
    BY <1>1, <2>1, <2>2, <2>3 DEF ScoreInv, ScoreTypeOK
  <2> QED BY <1>1, <1>3, <2>1, <2>4 DEF ScoreInv, TaskInv, Opt
<1> QED BY <1>6, <1>7, <1>8, <1>9, <1>10

\* From the creation of the container on the task and the pins stay.
LEMMA RunningStep ==
  ASSUME ScoreInv,
         \/ Create \/ CreateFails \/ CopyInputs
         \/ (\E r \in RunType : Start(r)) \/ StartBreaks \/ StartTimesOut
         \/ Export \/ ExportEmpty \/ ExportUnreadable \/ ContainerStepFails
         \/ Remove \/ RemoveFails \/ WriteScore
  PROVE  ScoreInv'
<1> USE DEF Loading, Unrun, InRun, AfterRun, inputs, world, score, Proceed
<1>1. UNCHANGED <<bench, asked, pinned, tree, tags, seen, task>>
  BY DEF Create, CreateFails, CopyInputs, Start, StartBreaks, StartTimesOut, Export, ExportEmpty,
         ExportUnreadable, ContainerStepFails, Remove, RemoveFails, WriteScore
<1>2. /\ stage \in {"create", "write"} \cup InRun
      /\ stage' \in InRun \cup AfterRun
      /\ stage' \in InRun => stage # "write"
  BY DEF Create, CreateFails, CopyInputs, Start, StartBreaks, StartTimesOut, Export, ExportEmpty,
         ExportUnreadable, ContainerStepFails, Remove, RemoveFails, WriteScore, AfterRemove
<1>3. TaskInv'
  BY <1>1, <1>2 DEF ScoreInv, TaskInv, Opt
<1>4. /\ container \in [state : {"none", "late", "created", "ended", "removed"}, image : Digests \cup {None}]
      /\ run \in RunType /\ run \in Runs /\ ended \in BOOLEAN /\ unremoved \in BOOLEAN
      /\ status \in Statuses /\ bench \in Benchmarks
  BY DEF ScoreInv, ScoreTypeOK, VerdictInv
<1>5. ContainerInv' /\ container' \in [state : {"none", "late", "created", "ended", "removed"}, image : Digests \cup {None}]
       /\ unremoved' \in BOOLEAN
  <2>1. CASE Create \/ CreateFails
    <3>1. task \in TaskType /\ task.digest = Opt.digest /\ task.image = pinned.verifier.image
      BY <2>1 DEF Create, CreateFails, ScoreInv, TaskInv
    <3>2. task.digest \in Digests \cup {None}
      BY <3>1 DEF TaskType
    <3>3. CASE Create
      <4>1. /\ container' = [state |-> "created", image |-> task.digest]
            /\ stage' = "copy" /\ UNCHANGED unremoved
        BY <3>3 DEF Create
      <4> QED BY <1>1, <1>4, <3>1, <3>2, <4>1 DEF ContainerInv, Opt
    <3>4. CASE CreateFails
      <4>1. /\ container' = container \/ container' = [state |-> "late", image |-> task.digest]
            /\ stage' = "write" /\ unremoved'
        BY <3>4 DEF CreateFails
      <4> QED BY <1>1, <1>4, <3>1, <3>2, <4>1 DEF ScoreInv, ContainerInv, Opt
    <3> QED BY <2>1, <3>3, <3>4
  <2>2. CASE CopyInputs \/ StartBreaks \/ StartTimesOut \/ Export \/ ExportEmpty \/ ExportUnreadable
               \/ ContainerStepFails
    <3>1. UNCHANGED <<container, unremoved>> /\ stage \in InRun /\ stage' \in InRun
      BY <2>2 DEF CopyInputs, StartBreaks, StartTimesOut, Export, ExportEmpty, ExportUnreadable,
                  ContainerStepFails
    <3> QED BY <1>1, <1>4, <3>1 DEF ScoreInv, ContainerInv, Opt
  <2>3. CASE \E r \in RunType : Start(r)
    <3>1. /\ container' = [container EXCEPT !.state = "ended"] /\ stage' = "export"
          /\ UNCHANGED unremoved /\ stage = "start"
      BY <2>3 DEF Start
    <3>2. task.digest = Opt.digest /\ container.image = container'.image /\ container'.state = "ended"
      BY <1>4, <3>1 DEF ScoreInv, TaskInv
    <3>3. container.state # "none"
      BY <3>1 DEF ScoreInv, ContainerInv
    <3> QED BY <1>1, <1>4, <3>1, <3>2, <3>3 DEF ScoreInv, ContainerInv, Opt
  <2>4. CASE Remove
    <3>1. /\ container' = [container EXCEPT !.state = "removed"] /\ stage' \in {"raised", "write"}
          /\ UNCHANGED unremoved /\ stage = "remove"
      BY <2>4 DEF Remove, AfterRemove
    <3>3. container.state # "none"
      BY <3>1 DEF ScoreInv, ContainerInv
    <3> QED BY <1>1, <1>4, <3>1, <3>3 DEF ScoreInv, ContainerInv, Opt
  <2>5. CASE RemoveFails
    <3>1. UNCHANGED container /\ unremoved' = TRUE /\ stage' \in AfterRun
      BY <2>5 DEF RemoveFails, AfterRemove
    <3> QED BY <1>1, <1>4, <3>1 DEF ScoreInv, ContainerInv, Opt
  <2>6. CASE WriteScore
    <3>1. UNCHANGED <<container, unremoved>> /\ stage = "write" /\ stage' \in AfterRun
      BY <2>6 DEF WriteScore
    <3> QED BY <1>1, <1>4, <3>1 DEF ScoreInv, ContainerInv, Opt
  <2> QED BY <2>1, <2>2, <2>3, <2>4, <2>5, <2>6
<1>6. ASSUME status' \in Statuses, run' \in Runs, ended' \in BOOLEAN
      PROVE  ScoreTypeOK'
  BY <1>1, <1>5, <1>6 DEF ScoreInv, ScoreTypeOK, Runs
<1>7. VerdictInv' /\ status' \in Statuses /\ run' \in Runs /\ ended' \in BOOLEAN
  <2>1. CASE Create \/ CopyInputs
    <3>1. UNCHANGED <<run, ended, status>> /\ stage \in Unrun \cup {"copy"} /\ stage' \in {"copy", "start"}
      BY <2>1 DEF Create, CopyInputs
    <3> QED BY <1>1, <1>4, <3>1 DEF ScoreInv, VerdictInv, VerdictIsVerifiers, Runs
  <2>2. CASE CreateFails \/ StartTimesOut \/ ContainerStepFails
    <3>1. /\ UNCHANGED <<run, ended>> /\ stage' \in {"write", "remove"}
          /\ status' \in {"verifier_error", "timeout"}
      BY <2>2 DEF CreateFails, StartTimesOut, ContainerStepFails
    <3> QED BY <1>1, <1>4, <3>1 DEF VerdictInv, VerdictIsVerifiers, Runs, Statuses
  <2>3. CASE (\E r \in RunType : Start(r)) \/ StartBreaks
    <3>1. /\ UNCHANGED <<ended, status>> /\ stage = "start" /\ stage' = "export"
          /\ run' \in Runs \/ run' = NoRun
          /\ container'.state = "ended" \/ run' = NoRun
      BY <1>4, <2>3 DEF Start, StartBreaks
    <3>2. NoRun \in Runs
      BY RewardAssumption DEF NoRun, Runs, RunType, Rewards
    <3>3. status = "none"
      BY <3>1 DEF ScoreInv, VerdictInv
    <3>4. Runs' = Runs
      BY <1>1 DEF Runs
    <3> QED BY <1>4, <3>1, <3>2, <3>3, <3>4 DEF VerdictInv, VerdictIsVerifiers
  <2>4. CASE Export \/ ExportEmpty
    <3>1. /\ UNCHANGED <<run, container>> /\ stage = "export" /\ stage' = "remove"
          /\ \/ status' = StatusOf(run) /\ ended' = (container.state = "ended")
             \/ status' = StatusOf([run EXCEPT !.reward = None]) /\ UNCHANGED ended
      BY <2>4 DEF Export, ExportEmpty
    <3>2. Runs' = Runs
      BY <1>1 DEF Runs
    <3>3. container.state = "ended" \/ run = NoRun
      BY <3>1 DEF ScoreInv, VerdictInv
    <3>4. CASE status' = StatusOf(run) /\ ended' = (container.state = "ended")
      <4>1. ended' \in BOOLEAN /\ (run # NoRun => ended')
        BY <3>3, <3>4
      <4> HIDE DEF NoRun
      <4> QED BY <1>1, <1>4, <3>1, <3>2, <3>4, <4>1, StatusOfRun DEF VerdictInv, VerdictIsVerifiers
    <3>5. CASE status' = StatusOf([run EXCEPT !.reward = None]) /\ UNCHANGED ended
      BY <1>1, <1>4, <3>1, <3>2, <3>5, StatusOfRun DEF VerdictInv, VerdictIsVerifiers, Statuses
    <3> QED BY <3>1, <3>4, <3>5
  <2>5. CASE ExportUnreadable \/ Remove \/ RemoveFails \/ WriteScore
    <3>1. /\ UNCHANGED <<run, ended, status>> /\ stage' \in {"remove"} \cup AfterRun
      BY <2>5 DEF ExportUnreadable, Remove, RemoveFails, WriteScore, AfterRemove
    <3> QED BY <1>1, <1>4, <3>1 DEF ScoreInv, VerdictInv, VerdictIsVerifiers, Runs
  <2> QED BY <2>1, <2>2, <2>3, <2>4, <2>5
<1> QED BY <1>3, <1>5, <1>6, <1>7 DEF ScoreInv

\* The inductive invariant of scoring.
THEOREM ScoreInvariant == ScoreSpec => []ScoreInv
<1>1. ScoreInv /\ [ScoreNext]_scoreVars => ScoreInv'
  <2> SUFFICES ASSUME ScoreInv, [ScoreNext]_scoreVars PROVE ScoreInv'
    OBVIOUS
  <2>1. CASE ScoreNext
    BY <2>1, LoadingStep, RunningStep DEF ScoreNext, Tool
  <2>2. CASE UNCHANGED scoreVars
    BY <2>2 DEF scoreVars, inputs, world, score, ScoreInv, ScoreTypeOK, TaskInv, ContainerInv,
                VerdictInv, VerdictIsVerifiers, Runs, Opt
  <2> QED BY <2>1, <2>2
<1> QED BY InitScore, <1>1, PTL DEF ScoreSpec

\* Whatever is checked out or pulled between two reads, a patch runs in the image whose ID
\* the pin states, under the reference the pinned verifier builds on (score()).
THEOREM PatchAlwaysRunsInPinnedImage == ScoreSpec => []RunsInPinnedImage
<1>1. ScoreInv => RunsInPinnedImage
  BY DEF ScoreInv, ContainerInv, RunsInPinnedImage
<1> QED BY ScoreInvariant, <1>1, PTL

\* A verdict is what the verifier itself said of the applied patch, wherever Docker fails
\* and whatever combination of reward and exit status it leaves (_status, score()).
THEOREM VerdictIsAlwaysTheVerifiers == ScoreSpec => []VerdictIsVerifiers
<1>1. ScoreInv => VerdictIsVerifiers
  BY DEF ScoreInv, VerdictInv
<1> QED BY ScoreInvariant, <1>1, PTL

\* However scoring ends, its container is gone unless the removal failed.
THEOREM ScoringNeverLeavesContainer == ScoreSpec => []ScoringLeavesNoContainer
<1>1. ScoreInv => ScoringLeavesNoContainer
  BY DEF ScoreInv, ContainerInv, TaskInv, ScoringLeavesNoContainer, Working, Failed, NoContainer,
         Unrun, Loading, InRun, AfterRun
<1> QED BY ScoreInvariant, <1>1, PTL
=============================================================================
