---------------------------- MODULE SnapshotRun ----------------------------
(***************************************************************************)
(* A test command in a container that holds a snapshot of a checkout:      *)
(* DockerTestRunner.run() with the archive it makes, its extraction and    *)
(* the setup of specialised runners.                                       *)
(***************************************************************************)
EXTENDS TestRun, SafeSnapshot

CONSTANT Checkouts  \* what run() may be given

\* The host's entries are a tree; a target that is not refused has at most MaxParts parts.
ASSUME CheckoutAssumption ==
  \A c \in Checkouts :
    /\ IsFiniteSet(DOMAIN c.links)
    /\ DOMAIN c.links \cup DOMAIN c.disk \subseteq Paths
    /\ c.links \in [DOMAIN c.links -> [form : {"plain", "refused"}, parts : Seq(Names)]]
    /\ \A p \in DOMAIN c.links :
         c.links[p].form = "plain" => Len(c.links[p].parts) <= MaxParts
    /\ \A p \in DOMAIN c.disk : \A i \in 1..(Len(p) - 1) :
         LET parent == SubSeq(p, 1, i)
         IN  parent \in DOMAIN c.disk /\ c.disk[parent].type = "directory"

VARIABLES
  archive,  \* the temporary source.tar, until it is extracted
  work      \* /tmp/work in the container, until the command starts

svars == <<vars, archive, work>>

Nothing == [entries |-> <<>>]

SnapshotInit == Init /\ archive = Nothing /\ work = Nothing

Archives == {Archive(c) : c \in {c \in Checkouts : IsArchivable(c)}}

TakeSnapshot ==
  /\ Snapshot
  /\ archive' \in Archives
  /\ UNCHANGED work

\* Nothing is written but the archive: an entry that cannot be created fails the call.
Extract ==
  /\ step = "copy"
  /\ Proceed
  /\ work' = archive
  /\ archive' = Nothing

PrepareWorkspace ==
  /\ step = "prepare"
  /\ Proceed
  /\ CanPrepare(work)
  /\ work' = Prepared(work)
  /\ UNCHANGED archive

\* All other steps of a run: the archive is deleted when it ends, and what the command
\* has found is of no concern once it runs.
Otherwise ==
  /\ \/ CallRefused \/ CallFails \/ CallCut
     \/ Enter \/ EnterFails \/ SnapshotFails \/ Create \/ Start \/ (step = "stdout" /\ Proceed)
     \/ (\E r \in Finished : Exec(r))
     \/ ExecBreaks \/ ExecTimesOut \/ ExecCut
     \/ Inspect \/ Stderr \/ Report \/ ReportBreaks
     \/ NothingToRemove \/ RemoveContainer \/ RemoveFails \/ Write \/ WriteFails \/ Leave
  /\ archive' = IF step' \in {"start", "copy"} THEN archive ELSE Nothing
  /\ work' = IF step' \in {"prepare", "exec"} THEN work ELSE Nothing

SnapshotContinue == TakeSnapshot \/ Extract \/ PrepareWorkspace \/ Otherwise

SnapshotNext == SnapshotContinue \/ ((Expire \/ LateCreate) /\ UNCHANGED <<archive, work>>)

SnapshotSpec == SnapshotInit /\ [][SnapshotNext]_svars

\* As for TestRun: every call has a timeout.
LiveSnapshotSpec == SnapshotSpec /\ WF_svars(SnapshotContinue)

----------------------------------------------------------------------------
(* Properties.                                                             *)

\* What a command finds is the checkout it is to judge and nothing else: every tracked
\* link as HEAD has it, no other link, every other entry of the host in its own place
\* and not behind a link, nothing of the history.  And but for the reviewed fixtures no
\* link leads out of the copy or in a circle, also through other links.
CommandFindsCheckout ==
  step = "exec" /\ work # Nothing =>
    LET checkout == work.checkout
        fixtures == IF checkout.helm THEN HelmSpecial ELSE {}
        ordinary == Others(work.links, fixtures)
    IN  /\ work.links = HeadLinks(checkout)
        /\ DOMAIN work.entries \cup DOMAIN work.links =
             {p \in DOMAIN checkout.disk : ~IsHistory(p)}
        /\ \A p \in DOMAIN work.entries :
             checkout.disk[p].type = work.entries[p] /\ ~Behind(p, DOMAIN work.links)
        /\ \A p \in DOMAIN ordinary :
             ordinary[p].form = "plain" /\ Ends(ordinary)[p] \notin {Unknown, Outside}
=============================================================================
