----------------------------- MODULE Allowance -----------------------------
(***************************************************************************)
(* What a budget promises whoever works under it, whatever it measures:    *)
(* work is granted only while no limit has been reached, a limit that has  *)
(* been reached stays reached, and so the first refusal is the last answer *)
(* (docs/pilot-budget-contract.md: "The first reached limit stops work").  *)
(***************************************************************************)
VARIABLES
  spent,   \* a limit has been reached
  answer   \* the last answer: "none", "granted" or "refused"

Init ==
  /\ spent = FALSE
  /\ answer = "none"

Grant ==
  /\ ~spent
  /\ answer' = "granted"
  /\ UNCHANGED spent

Refuse ==
  /\ spent' = TRUE
  /\ answer' = "refused"

\* Work goes on, or time passes; a limit may be reached before anyone asks.
Work ==
  /\ spent' \in {spent, TRUE}
  /\ answer' \in {answer, "none"}

Next == Grant \/ Refuse \/ Work

Spec == Init /\ [][Next]_<<spent, answer>>
=============================================================================
