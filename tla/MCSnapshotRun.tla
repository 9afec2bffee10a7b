--------------------------- MODULE MCSnapshotRun ---------------------------
(* MCTestRun with checkouts of up to four links, on hosts with links and   *)
(* on hosts with placeholders for them, as committed and changed since.    *)
EXTENDS MCTestRun, SnapshotRun, TLC

To(parts) == [form |-> "plain", parts |-> parts]
Absolute == [form |-> "refused", parts |-> <<>>]
Ordinary(type) == [type |-> type, says |-> "content"]

MCGitNames == {".git", ".GIT"}
MCGitAliases == {"git~1"}
MCHelmLinks == (<<"d", "null">> :> Absolute) @@ (<<"d", "safe">> :> To(<<"..", "f">>))
MCHelmSpecial == {<<"d", "null">>}

\* Links of HEAD: none, a chain, a directory and its parent, a name and its directory;
\* escapes and history, plainly and through a link; circles; Helm's links.
LinkMaps ==
  {<<>>,
   (<<"l">> :> To(<<"m">>)) @@ (<<"m">> :> To(<<"d", "g">>)),
   (<<"l">> :> To(<<"m", "..", "f">>)) @@ (<<"m">> :> To(<<"d">>)),
   (<<"d", "l">> :> To(<<"..", "m", "x">>)) @@ (<<"m">> :> To(<<".">>)),
   <<"l">> :> To(<<"..", "x">>),
   (<<"l">> :> To(<<"d", "a", "..", "x">>)) @@ (<<"d", "a">> :> To(<<"..">>)),
   <<"l">> :> To(<<"d", "..", ".GIT", "x">>),
   (<<"l">> :> To(<<"m", ".git">>)) @@ (<<"m">> :> To(<<".">>)),
   <<"l">> :> To(<<"git~1", "x">>),
   <<"l">> :> To(<<"l">>),
   (<<"l">> :> To(<<"m">>)) @@ (<<"m">> :> To(<<"l">>)),
   <<"l">> :> Absolute,
   MCHelmLinks, MCHelmLinks @@ (<<"l">> :> To(<<"d", "null">>))}

Source == (<<"d">> :> Ordinary("directory")) @@ (<<"d", "g">> :> Ordinary("file"))
            @@ (<<"f">> :> Ordinary("file")) @@ (<<".git">> :> Ordinary("directory"))
            @@ (<<".git", "x">> :> Ordinary("file"))

\* The host as it was checked out, and what else it can hold when run() reads it.
CheckedOut(links, type) == [p \in DOMAIN links |-> [type |-> type, says |-> links[p]]] @@ Source
Changed(links, type) ==
  LET disk == CheckedOut(links, type)
      linked == DOMAIN links
  IN  {[p \in DOMAIN disk \ {l} |-> disk[p]] : l \in linked}
        \cup {[disk EXCEPT ![l] = [type |-> type, says |-> To(<<"f">>)]] : l \in linked}
        \cup {(Append(l, "x") :> Ordinary("file")) @@ [disk EXCEPT ![l] = Ordinary("directory")] : l \in linked}
        \cup {(<<"u">> :> [type |-> t, says |-> To(<<"f">>)]) @@ disk : t \in {"file", "link", "other"}}

MCCheckouts ==
  LET Here(git, links, disk, helm) ==
        [git |-> git, base |-> TRUE, links |-> links, disk |-> disk, helm |-> helm]
      OtherHead(links, type) ==
        {[Here("clone", links, CheckedOut(links, type), helm) EXCEPT !.base = FALSE] : helm \in BOOLEAN}
  IN  UNION {
        {Here(git, links, CheckedOut(links, type), helm) : git \in {"clone", "plain"}, helm \in BOOLEAN}
          \cup {Here(git, links, CheckedOut(links, type), FALSE) : git \in {"symlink", "unreadable", "elsewhere"}}
          \cup (IF links = MCHelmLinks THEN OtherHead(links, type) ELSE {})
          \cup {Here("clone", links, disk, links = MCHelmLinks) : disk \in Changed(links, type)}
        : links \in LinkMaps, type \in {"file", "link"}}
=============================================================================
