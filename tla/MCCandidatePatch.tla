--------------------------- MODULE MCCandidatePatch ---------------------------
(* A small repository for RepairEdits and CandidatePatch.                  *)
EXTENDS CandidatePatch

A == <<"a.py">>
B == <<"b.py">>
Hidden == <<"d", "c.py">>     \* tracked, not localized
Link == <<"l">>
NewFile == <<"e.py">>
OtherCase == <<"E.py">>
Directory == <<"d">>          \* in the way of d/c.py
BehindLink == <<"l", "f">>
Device == <<"d", "aux.py">>   \* a name of Windows

MCPaths == {A, B, Hidden, Link, NewFile, OtherCase, Directory, BehindLink, Device}
MCTexts == {"x", "y", "z", ""}
MCCaseFold == [n \in {"a.py", "b.py", "d", "c.py", "l", "e.py", "E.py", "f", "aux.py"} |->
                 IF n = "E.py" THEN "e.py" ELSE n]
MCTree == [p \in MCPaths |->
             CASE p = A -> <<"x", "y", "x", "z", "">>
               [] p = B -> <<"x", "">>
               [] p = Hidden -> <<"z", "">>
               [] OTHER -> <<>>]
MCLinks == {Link}
MCReserved == {"aux.py"}
MCVisible == {A, B}
MCAllowed == [p \in MCPaths |->
                CASE p = A -> <<<<1, 1>>, <<3, 4>>>>
                  [] p = B -> <<<<1, 1>>>>
                  [] OTHER -> <<>>]
MCSearches == {<<"x">>, <<"y">>, <<"x", "z">>}
MCReplacements == {<<"">>, <<"x", "z">>}
MCTargets == {A, NewFile, OtherCase, Directory, BehindLink, Device}
=============================================================================
