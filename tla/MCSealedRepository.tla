------------------------- MODULE MCSealedRepository -------------------------
(* Small instances of SealedRepository for TLC.                            *)
EXTENDS SealedRepository, TLC

CONSTANTS p1, p2, p3

MCProcs == {p1, p2, p3}
Symmetry == Permutations(MCProcs)

\* A clone of an upstream whose default branch is master; one made while upstream was
\* pushed to, its HEAD leading nowhere; one of a repository without a HEAD.
Fresh(refs) == [head |-> "later", refs |-> refs, remote |-> TRUE, locked |-> FALSE,
                later |-> TRUE, reflog |-> TRUE, git |-> TRUE, files |-> TRUE, nested |-> FALSE]
Pushed == ("heads/master" :> "later") @@ ("origin/HEAD" :> "nowhere") @@ ("origin/main" :> "later")
            @@ ("tags/before" :> "base") @@ ("tags/after" :> "later")
Usual == [Pushed EXCEPT !["origin/HEAD"] = "later"]
Headless == ("heads/master" :> "later") @@ ("origin/main" :> "later")
MCClones == {Fresh(Usual), Fresh(Pushed), Fresh(Headless)}

\* Nothing, a plain clone, or a repository sealed by hand: checked out at the base
\* commit and pruned, but not locked.
ByHand == [Fresh("heads/main" :> "base") EXCEPT !.head = "base", !.remote = FALSE,
             !.later = FALSE, !.reflog = FALSE]
MCFound == {Nothing, Fresh(Usual), ByHand}
=============================================================================
