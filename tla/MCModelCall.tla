---------------------------- MODULE MCModelCall ----------------------------
(* Small instances of ModelCall for TLC.                                   *)
EXTENDS ModelCall

CONSTANTS blank, k1, k2

\* The empty reply costs as much as the shorter of the other two entries: the
\* ledger counts the message, not its text.
MCContents == {blank, k1, k2}
MCCost == [k \in Contents |-> IF k = k2 THEN 2 ELSE 1]
=============================================================================
