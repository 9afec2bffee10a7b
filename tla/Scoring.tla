------------------------------ MODULE Scoring ------------------------------
(***************************************************************************)
(* Scoring one patch with the verifier of its benchmark:                   *)
(* tools/score_deepswe.py and tools/score_swe_bench_pro_v2.py, the loaders *)
(* they call and the verifiers of scoring/deepswe.py and                   *)
(* scoring/swe_bench_pro_v2.py.                                            *)
(*                                                                         *)
(* The corpus is read three times: for its digest, for the task, and (from *)
(* git at the pinned revision) for the verifier's files.  Meanwhile other  *)
(* programs may check out another revision or pull another image.  Every   *)
(* call of Docker can fail or exceed its timeout.                          *)
(***************************************************************************)
EXTENDS BenchmarkTask

CONSTANTS
  Pins,        \* corpora that pins identify
  Splits1,     \* V1 splits that pins identify
  Edits,       \* what else a working tree can hold
  PinOptions,  \* what a pin file or command line can say of a task
  Verifiers,   \* verifier material of a task at the pinned revision
  ImageOf      \* the V2 image named for each directory

\* FROM and settings of the verifier; FALSE for shapes nobody has reviewed.
VerifierType == [image : Images, shape : BOOLEAN, settings : BOOLEAN]

ASSUME CorpusAssumption ==
  /\ \A c \in Pins \cup Edits : IsCorpus(c)
  /\ \A s \in Splits1 : IsSplit(s)
  /\ PinOptions \subseteq OptionType
  /\ Verifiers \subseteq VerifierType
  /\ ImageOf \in [Ids -> Images]

Benchmarks == {"deepswe", "v2"}
Sources    == {"prediction", "foreign", "patch", "empty", "reference"}

\* What a verifier can leave: its exit status, reward, and whether the patch applied.
Rewards == {0, 1, 2, None}
RunType == [exit : {0, 1, 30}, reward : Rewards, applied : BOOLEAN]
NoRun   == [exit |-> 1, reward |-> None, applied |-> FALSE]

\* No reward is not a reward.
ASSUME RewardAssumption == None \notin {0, 1, 2}

Statuses == {"none", "resolved", "unresolved", "patch_not_applied", "verifier_error", "timeout"}

VARIABLES
  bench,      \* the benchmark
  asked,      \* [id, source, options]: the command line and the pin file
  pinned,     \* [visible, rows, verifier]: what the revisions of the pins hold
  tree,       \* visible files in the working tree
  tags,       \* image ID behind each reference, in the local Docker
  stage,      \* what the tool does next
  seen,       \* the task's visible files as hashed (V2), then as read
  task,       \* the TaskSpec
  container,  \* [state, image]
  run,        \* what the verifier did
  ended,      \* history: it ended by itself and its results were exported
  status,     \* status
  unremoved   \* history: docker rm failed or was never due

inputs == <<bench, asked, pinned>>
world  == <<tree, tags>>
score  == <<run, ended, status>>
scoreVars == <<inputs, world, stage, seen, task, container, score, unremoved>>

NoTask      == [id |-> None]
NoContainer == [state |-> "none", image |-> None]
Failed      == {"refused", "raised"}

ScoreTypeOK ==
  /\ bench \in Benchmarks
  /\ asked \in [id : Ids, source : Sources, options : PinOptions]
  /\ pinned \in [visible : Pins, rows : Splits1, verifier : Verifiers]
  /\ IsCorpus(tree)
  /\ tags \in [Images -> Digests]
  /\ seen \in VisibleType \cup {None}
  /\ task \in TaskType \cup {NoTask}
  /\ container \in [state : {"none", "late", "created", "ended", "removed"}, image : Digests \cup {None}]
  /\ run \in RunType
  /\ ended \in BOOLEAN /\ unremoved \in BOOLEAN
  /\ status \in Statuses

\* The command line of V2 names the image ID and nothing else.
OnlyDigest(o) == o.digest # None /\ o.commit = None /\ o.language = None

ScoreInit ==
  /\ bench \in Benchmarks
  /\ asked \in [id : Ids, source : Sources, options : PinOptions]
  /\ bench = "v2" => OnlyDigest(asked.options)
  /\ pinned \in [visible : Pins, rows : Splits1, verifier : Verifiers]
  /\ tree \in {pinned.visible} \cup Edits
  /\ tags \in [Images -> Digests]
  /\ stage = "digest"
  /\ seen = None
  /\ task = NoTask
  /\ container = NoContainer
  /\ run = NoRun
  /\ ended = FALSE
  /\ status = "none"
  /\ unremoved = FALSE

Proceed(next) == stage' = next
Opt == asked.options

----------------------------------------------------------------------------
(* Loading the task.                                                       *)

\* The pin file, the directories and their digest; for V2 the V1 split as well.
VerifyCorpus ==
  /\ stage = "digest"
  /\ LET matches ==
           /\ bench = "deepswe" => OptionsAllowed(Opt)
           /\ MatchesPin(tree, pinned.visible)
           /\ bench = "v2" => /\ SplitAllowed(pinned.rows)
                              /\ DOMAIN tree \subseteq DOMAIN pinned.rows
           /\ asked.id \in DOMAIN tree
         next == IF bench = "v2" THEN "hash" ELSE "read"
     IN  Proceed(IF matches THEN next ELSE "refused")
  /\ UNCHANGED <<inputs, world, seen, task, container, score, unremoved>>

\* V2 hashes the files of the task itself and checks what it reads against that.
HashFiles ==
  /\ stage = "hash"
  /\ IF asked.id \in DOMAIN tree
       THEN seen' = tree[asked.id] /\ Proceed("read")
       ELSE UNCHANGED seen /\ Proceed("refused")
  /\ UNCHANGED <<inputs, world, task, container, score, unremoved>>

Readable(d, v) ==
  IF bench = "v2" THEN v = seen /\ V2Allowed(v, ImageOf[d])
                  ELSE Projects(v) /\ Normalizes(v, Opt)
TaskOf(d, v) ==
  IF bench = "v2" THEN V2Task(d, v, pinned.rows[d], Opt) ELSE DeepSWETask(d, v, Opt)

LoadTask ==
  LET d == asked.id
  IN  /\ stage = "read"
      /\ IF d \in DOMAIN tree /\ Readable(d, tree[d])
           THEN /\ task' = TaskOf(d, tree[d])
                /\ seen' = tree[d]
                /\ Proceed("patch")
           ELSE UNCHANGED <<task, seen>> /\ Proceed("refused")
      /\ UNCHANGED <<inputs, world, container, score, unremoved>>

\* A prediction must be for this task.
ChoosePatch ==
  /\ stage = "patch"
  /\ Proceed(IF asked.source = "foreign" THEN "refused" ELSE "material")
  /\ UNCHANGED <<inputs, world, seen, task, container, score, unremoved>>

----------------------------------------------------------------------------
(* score(), before there is anything to record.                            *)

\* verifier_files(), verifier_limits(), _settings()
MaterialAllowed(v) == v.image = task.image /\ v.shape /\ v.settings

\* The digest is asked for first; timeout_seconds can be refused as well.
ReadMaterial ==
  /\ stage = "material"
  /\ \/ Proceed("refused")
     \/ task.digest # None /\ MaterialAllowed(pinned.verifier) /\ Proceed("inspect")
  /\ UNCHANGED <<inputs, world, seen, task, container, score, unremoved>>

InspectImage ==
  /\ stage = "inspect"
  /\ Proceed(IF tags[task.image] = task.digest THEN "create" ELSE "refused")
  /\ UNCHANGED <<inputs, world, seen, task, container, score, unremoved>>

----------------------------------------------------------------------------
(* The container.                                                          *)

\* Mutant: the container is created from the reference, not from the ID.
CreateFromTag ==
  /\ stage = "create"
  /\ container' = [state |-> "created", image |-> tags[task.image]]
  /\ Proceed("copy")
  /\ UNCHANGED <<inputs, world, seen, task, score, unremoved>>

Create ==
  /\ stage = "create"
  /\ container' = [state |-> "created", image |-> task.digest]
  /\ Proceed("copy")
  /\ UNCHANGED <<inputs, world, seen, task, score, unremoved>>

\* A create that was given up on may be completed later: created stays False, and
\* nobody removes the container.
CreateFails ==
  /\ stage = "create"
  /\ \/ UNCHANGED container
     \/ container' = [state |-> "late", image |-> task.digest]
  /\ status' = "verifier_error"
  /\ unremoved' = TRUE
  /\ Proceed("write")
  /\ UNCHANGED <<inputs, world, seen, task, run, ended>>

CopyInputs ==
  /\ stage = "copy"
  /\ Proceed("start")
  /\ UNCHANGED <<inputs, world, seen, task, container, score, unremoved>>

\* What a verifier does: it applies the patch or says that it does not, and rewards 1
\* only a patch that applies.  The command of V2 exits with 30 if the patch does not
\* apply, with another status if the checkout is not as expected, and only then runs it.
Runs ==
  {r \in RunType :
     /\ r.reward = 1 => r.applied
     /\ bench = "v2" /\ r.exit = 30 => r.reward = None /\ ~r.applied
     /\ bench = "v2" /\ ~r.applied => r.reward = None}

Start(r) ==
  /\ stage = "start"
  /\ r \in Runs
  /\ run' = r
  /\ container' = [container EXCEPT !.state = "ended"]
  /\ Proceed("export")
  /\ UNCHANGED <<inputs, world, seen, task, ended, status, unremoved>>

\* docker start itself fails, which looks like an exit status.
StartBreaks ==
  /\ stage = "start"
  /\ run' = NoRun
  /\ Proceed("export")
  /\ UNCHANGED <<inputs, world, seen, task, container, ended, status, unremoved>>

\* The verifier exceeds its time: kill, whose failure is an error, and no results.
StartTimesOut ==
  /\ stage = "start"
  /\ status' \in {"timeout", "verifier_error"}
  /\ Proceed("remove")
  /\ UNCHANGED <<inputs, world, seen, task, container, run, ended, unremoved>>

----------------------------------------------------------------------------
(* The verdict.                                                            *)

\* _status() of DeepSWE: the reward file alone.
StatusDeepSWE(r) ==
  IF r.reward = None THEN "verifier_error"
  ELSE IF ~r.applied THEN "patch_not_applied"
  ELSE IF r.reward = 1 THEN "resolved"
  ELSE IF r.reward = 0 THEN "unresolved"
  ELSE "verifier_error"

\* Mutant: the reward counts whatever the exit status says.
StatusV2ByReward(r) ==
  IF r.reward \in {0, 1}
    THEN IF r.reward = 1 THEN "resolved" ELSE "unresolved"
  ELSE IF r.exit = 30 THEN "patch_not_applied"
  ELSE "verifier_error"

\* V2: reward and exit status must agree.
StatusV2(r) ==
  IF r.reward \in {0, 1}
    THEN IF (r.reward = 1) # (r.exit = 0) THEN "verifier_error"
         ELSE IF r.reward = 1 THEN "resolved" ELSE "unresolved"
  ELSE IF r.exit = 30 THEN "patch_not_applied"
  ELSE "verifier_error"

StatusOf(r) == IF bench = "v2" THEN StatusV2(r) ELSE StatusDeepSWE(r)

\* _results() keeps the known regular files.
Export ==
  /\ stage = "export"
  /\ status' = StatusOf(run)
  /\ ended' = (container.state = "ended")
  /\ Proceed("remove")
  /\ UNCHANGED <<inputs, world, seen, task, container, run, unremoved>>

\* docker cp fails, or the files are not there or too large: no results.
ExportEmpty ==
  /\ stage = "export"
  /\ status' = StatusOf([run EXCEPT !.reward = None])
  /\ Proceed("remove")
  /\ UNCHANGED <<inputs, world, seen, task, container, run, ended, unremoved>>

\* What was exported is no archive: tarfile's error is not among those that are caught.
ExportUnreadable ==
  /\ stage = "export"
  /\ Proceed("remove")
  /\ UNCHANGED <<inputs, world, seen, task, container, score, unremoved>>

\* except (ScoringError, OSError, TimeoutExpired, ValueError, KeyError)
ContainerStepFails ==
  /\ stage \in {"copy", "start", "export"}
  /\ status' = "verifier_error"
  /\ Proceed("remove")
  /\ UNCHANGED <<inputs, world, seen, task, container, run, ended, unremoved>>

AfterRemove == IF status = "none" THEN "raised" ELSE "write"

\* Mutant: a container whose verifier timed out is left to its kill.
RemoveUnlessTimeout ==
  /\ stage = "remove"
  /\ container' = IF status = "timeout" THEN container ELSE [container EXCEPT !.state = "removed"]
  /\ Proceed(AfterRemove)
  /\ UNCHANGED <<inputs, world, seen, task, score, unremoved>>

\* finally: docker rm
Remove ==
  /\ stage = "remove"
  /\ container' = [container EXCEPT !.state = "removed"]
  /\ Proceed(AfterRemove)
  /\ UNCHANGED <<inputs, world, seen, task, score, unremoved>>

\* A failure of rm is ignored; exceeding its timeout raises out of the finally clause.
RemoveFails ==
  /\ stage = "remove"
  /\ unremoved' = TRUE
  /\ Proceed(AfterRemove) \/ Proceed("raised")
  /\ UNCHANGED <<inputs, world, seen, task, container, score>>

\* score.json
WriteScore ==
  /\ stage = "write"
  /\ Proceed("scored") \/ Proceed("raised")
  /\ UNCHANGED <<inputs, world, seen, task, container, score, unremoved>>

----------------------------------------------------------------------------
(* Other programs.                                                         *)

Working == stage \notin Failed \cup {"scored"}

\* git checks out another revision of the corpus, or the pinned one again.
CheckOut ==
  /\ stage \in {"digest", "hash", "read"}
  /\ tree' \in ({pinned.visible} \cup Edits) \ {tree}
  /\ UNCHANGED <<inputs, tags, stage, seen, task, container, score, unremoved>>

\* docker pull moves a reference to another image.
Pull ==
  /\ stage \in {"inspect", "create"}
  /\ \E i \in Images : \E g \in Digests \ {tags[i]} : tags' = [tags EXCEPT ![i] = g]
  /\ UNCHANGED <<inputs, tree, stage, seen, task, container, score, unremoved>>

Tool ==
  \/ VerifyCorpus \/ HashFiles \/ LoadTask \/ ChoosePatch \/ ReadMaterial \/ InspectImage
  \/ Create \/ CreateFails \/ CopyInputs
  \/ (\E r \in RunType : Start(r)) \/ StartBreaks \/ StartTimesOut
  \/ Export \/ ExportEmpty \/ ExportUnreadable \/ ContainerStepFails
  \/ Remove \/ RemoveFails \/ WriteScore

ScoreNext == Tool \/ CheckOut \/ Pull

ScoreSpec == ScoreInit /\ [][ScoreNext]_scoreVars

----------------------------------------------------------------------------
(* Properties.                                                             *)

\* Whatever is checked out or pulled meanwhile, a patch is only ever run in the image
\* the pin names by its ID, under a reference the verifier of the pinned revision itself
\* builds on.
RunsInPinnedImage ==
  container.state # "none" =>
    /\ container.image = Opt.digest
    /\ task.image = pinned.verifier.image

\* A verdict is the verifier's: it ended by itself, its results were exported, it
\* rewarded what the status says and the patch had applied; for V2 the exit status agrees.
VerdictIsVerifiers ==
  /\ status \in {"resolved", "unresolved"} =>
       /\ ended /\ run.applied
       /\ run.reward = (IF status = "resolved" THEN 1 ELSE 0)
       /\ bench = "v2" => (run.exit = 0) = (status = "resolved")
  /\ status = "patch_not_applied" => ~run.applied

\* However scoring ends, a container that Docker reported as created is removed unless
\* the removal itself failed.
ScoringLeavesNoContainer ==
  ~Working /\ ~unremoved => container.state \in {"none", "removed"}
=============================================================================
