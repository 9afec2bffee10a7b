---------------------------- MODULE SafeSnapshot ----------------------------
(***************************************************************************)
(* How a checkout gets into a container: _snapshot() and its helpers       *)
(* (validation/docker.py), and the setup of Helm's fixtures                *)
(* (validation/helm_fixtures.py, tools/deepswe_environments.py).           *)
(*                                                                         *)
(* A path is a sequence of names.  A target of a link is [form, parts];    *)
(* its form is "refused" if it is empty, too long, absolute or of another  *)
(* system.  A checkout is [git, base, links, disk, helm]: what stands at    *)
(* .git, whether HEAD is Helm's pinned base, the links of HEAD, the        *)
(* entries on the host as [type, says], and whether the runner is Helm's.  *)
(* An entry with the text of a target says it: a link, or the placeholder  *)
(* that Windows has for one.                                               *)
(***************************************************************************)
EXTENDS Integers, SequencesExt, FiniteSets

CONSTANTS
  GitNames,       \* spellings of .git
  GitAliases,     \* spellings of git~1, which Windows takes for it
  MaxExpansions,  \* 40
  MaxParts,       \* components of a target: 4095 bytes have no more than 4096
  HelmLinks,      \* ALL_LINKS: path -> target
  HelmSpecial     \* the paths of SPECIAL_LINKS

ASSUME SnapshotAssumption ==
  /\ MaxExpansions \in Nat \ {0}
  /\ MaxParts \in Nat
  /\ HelmSpecial \subseteq DOMAIN HelmLinks

Names == STRING

\* Components that are no names: they stay where they are, or go up.
Skipped == {"", "."}
Up == ".."

\* A path as git and the host have it: _safe_path() lets no other one through.
Paths == {p \in Seq(Names) : p # <<>> /\ ToSet(p) \cap (Skipped \cup {Up}) = {}}

Others(links, paths) == [p \in DOMAIN links \ paths |-> links[p]]

\* Path p lies behind a member of paths.
Behind(p, paths) == \E i \in 1..(Len(p) - 1) : SubSeq(p, 1, i) \in paths

\* A part of the repository's own metadata.
IsHistory(p) == ToSet(p) \cap GitNames # {}

----------------------------------------------------------------------------
(* Validation of links.                                                    *)

\* One turn of the loop: the next component that is still to be looked at, behind the
\* place those before it have led to.  A component that is refused stays the next one.
Turn(links, at) ==
  LET part == Head(at.pending)
      rest == Tail(at.pending)
      place == Append(at.resolved, part)
      Goto(pending, resolved, expansions) ==
        [pending |-> pending, resolved |-> resolved, expansions |-> expansions]
  IN  IF at.pending = <<>> THEN at
      ELSE IF part \in Skipped THEN Goto(rest, at.resolved, at.expansions)
      ELSE IF part = Up THEN
        IF at.resolved = <<>> THEN at ELSE Goto(rest, Front(at.resolved), at.expansions)
      ELSE IF part \in GitNames \cup GitAliases THEN at
      ELSE IF place \notin DOMAIN links THEN Goto(rest, place, at.expansions)
      ELSE IF at.expansions = MaxExpansions THEN at
      ELSE Goto(links[place].parts \o rest, at.resolved, at.expansions + 1)

\* No walk is longer: a turn that is not refused takes a component away or spends an
\* expansion, which brings MaxParts of them at most.
Turns(p) == Len(p) + MaxExpansions * MaxParts

\* The walk along a link ends in the checkout.
StaysInside(links, p) ==
  LET turn[n \in 0..Turns(p)] ==
        IF n = 0 THEN [pending |-> p, resolved |-> <<>>, expansions |-> 0]
        ELSE Turn(links, turn[n - 1])
  IN  turn[Turns(p)].pending = <<>>

\* Mutant: ".." is collapsed before links are followed, as normpath() does.
Collapsed(path) ==
  LET Component(done, part) ==
        IF part = Up /\ done # <<>> /\ Last(done) # ".." THEN Front(done)
        ELSE IF part \in Skipped THEN done ELSE Append(done, part)
  IN  FoldLeft(Component, <<>>, path)
LinksAreValidCollapsed(links) ==
  \A p \in DOMAIN links :
    /\ links[p].form = "plain"
    /\ LET target == Collapsed(Front(p) \o links[p].parts)
       IN  target # <<>> => Head(target) # ".." /\ target \notin DOMAIN links

LinksAreValid(links) ==
  \A p \in DOMAIN links : links[p].form = "plain" /\ StaysInside(links, p)

----------------------------------------------------------------------------
(* The archive.                                                            *)

\* A checkout without metadata of its own is plain source, of which nothing is tracked.
HeadLinks(checkout) == IF checkout.git = "plain" THEN <<>> ELSE checkout.links
MetadataIsReadable(checkout) == checkout.git \in {"plain", "clone"}

\* What visit() comes to: nothing named .git, nothing behind a link.
Visited(checkout) ==
  {p \in DOMAIN checkout.disk :
     ~IsHistory(p) /\ ~Behind(p, DOMAIN HeadLinks(checkout))}

EntryIsKnown(checkout, p) ==
  LET entry == checkout.disk[p]
      links == HeadLinks(checkout)
  IN  IF p \in DOMAIN links THEN entry.type \in {"file", "link"} /\ entry.says = links[p]
      ELSE entry.type \in {"file", "directory"}

\* Helm's runner leaves out the pinned special links, all other runners none.
Deferred(checkout) == IF checkout.helm THEN HelmSpecial ELSE {}
ScopeIsPinned(checkout) == checkout.helm => checkout.base /\ HeadLinks(checkout) = HelmLinks

IsArchivable(checkout) ==
  /\ MetadataIsReadable(checkout)
  /\ ScopeIsPinned(checkout)
  /\ LinksAreValid(Others(HeadLinks(checkout), Deferred(checkout)))
  /\ DOMAIN HeadLinks(checkout) \subseteq Visited(checkout)
  /\ \A p \in Visited(checkout) : EntryIsKnown(checkout, p)

\* Entries as they are on the host, links as they are in HEAD.
Archive(checkout) ==
  [entries |-> [p \in Visited(checkout) \ DOMAIN HeadLinks(checkout) |-> checkout.disk[p].type],
   links |-> Others(HeadLinks(checkout), Deferred(checkout)),
   checkout |-> checkout]

----------------------------------------------------------------------------
(* CONTAINER_SETUP: fixtures are made again where they were, in real       *)
(* directories, over nothing.                                              *)

CanPrepare(work) ==
  work.checkout.helm =>
    \A p \in HelmSpecial :
      /\ \A i \in 1..(Len(p) - 1) :
           LET parent == SubSeq(p, 1, i)
           IN  parent \in DOMAIN work.entries /\ work.entries[parent] = "directory"
      /\ p \notin DOMAIN work.entries \cup DOMAIN work.links

Prepared(work) ==
  [work EXCEPT !.links = [p \in DOMAIN @ \cup Deferred(work.checkout) |->
                            IF p \in DOMAIN @ THEN @[p] ELSE HelmLinks[p]]]

----------------------------------------------------------------------------
(* What links mean, for the properties.                                    *)

\* Where a path leads as Linux follows it, when it is known where links end.  No place
\* has a part Up.
Unknown == <<Up, Up>>
Outside == <<Up>>
Step(links, known, place, part) ==
  IF place \in {Unknown, Outside} \/ part \in Skipped THEN place
  ELSE IF part = Up THEN (IF place = <<>> THEN Outside ELSE Front(place))
  ELSE IF part \in GitNames \cup GitAliases THEN Outside
  ELSE IF Append(place, part) \in DOMAIN links THEN known[Append(place, part)]
  ELSE Append(place, part)
Follow(links, known, from, path) ==
  LET place[i \in 0..Len(path)] ==
        IF i = 0 THEN from ELSE Step(links, known, place[i - 1], path[i])
  IN  place[Len(path)]

\* What is known when all links have been looked at once more.
Round(links, known) == [p \in DOMAIN links |-> Follow(links, known, Front(p), links[p].parts)]

\* A chain is never longer than there are links.
Ends(links) ==
  LET chain == Cardinality(DOMAIN links)
      round[n \in 0..chain] ==
        IF n = 0 THEN [p \in DOMAIN links |-> Unknown] ELSE Round(links, round[n - 1])
  IN  round[chain]
=============================================================================
