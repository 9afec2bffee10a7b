----------------------------- MODULE ModelCall -----------------------------
(***************************************************************************)
(* One model request after another under a budget: ask() of                *)
(* FixedWorkflowController.run (workflow/fixed.py), AttemptBudget beneath  *)
(* it and SubscriptionResponses.complete (workflow/subscription.py) behind *)
(* it.  Every step of ask() that reads the clock or the ledger is a step   *)
(* here, so the deadline can pass between any two of them.                 *)
(*                                                                         *)
(* Between requests the controller runs regression baselines, which the    *)
(* budget excludes.  Any error ends the attempt: the handler of run()      *)
(* writes budget.json and failure.json and raises.                         *)
(***************************************************************************)
EXTENDS AttemptBudget

CONSTANTS
  Blank,      \* the entry of a reply without text
  MaxCalls    \* bound: requests of one attempt

ASSUME CallAssumption ==
  /\ Blank \in Contents
  /\ MaxCalls \in Nat

VARIABLES
  phase,      \* where ask() stands; "idle" between requests
  prompt,     \* entry of the prompt being asked
  optional,   \* stage = "regression-selection": an empty reply is an answer
  calls,      \* calls, and the number of request.json files
  deadline,   \* when the worker process is killed
  reply,      \* the completed response, as in response.json
  reported,   \* history: tokens the response.json files report
  received,   \* history: occurrences of each entry in the response.json files
  ledger      \* counts in budget.json: <<used_tokens, processed_tokens>>

callVars == <<prompt, optional, calls, deadline, reply, reported, received>>
mvars == <<vars, phase, callVars, ledger>>

Phases == {"idle", "checking", "recording", "admitting", "sending", "waiting",
           "accounting", "crediting", "judging", "failed", "done"}

Unusable == -1
Replies  == [usage : 0..MaxUsage \cup {Unusable}, text : Contents, expected : BOOLEAN]
NoReply  == [usage |-> 0, text |-> Blank, expected |-> TRUE]
Snapshot == <<Counted, used>>
Single(k) == [j \in Contents |-> IF j = k THEN 1 ELSE 0]

CallTypeOK ==
  /\ TypeOK
  /\ phase \in Phases
  /\ prompt \in Contents
  /\ optional \in BOOLEAN
  /\ calls \in 0..MaxCalls
  /\ deadline \in Nat
  /\ reply \in Replies
  /\ reported \in Nat
  /\ received \in [Contents -> Nat]
  /\ ledger \in Nat \X Nat

CallInit ==
  /\ Init
  /\ phase = "idle"
  /\ prompt = Blank
  /\ optional = FALSE
  /\ calls = 0
  /\ deadline = 0
  /\ reply = NoReply
  /\ reported = 0
  /\ received = Nothing
  /\ ledger = <<0, 0>>

\* A budget operation decides whether ask() goes on; a refusal is an exception,
\* and the handler of run() writes the final budget.json.
Proceed(next) ==
  /\ phase' = IF answer' = "granted" THEN next ELSE "failed"
  /\ ledger' = IF answer' = "granted" THEN ledger ELSE Snapshot'

Raise ==
  /\ phase' = "failed"
  /\ ledger' = Snapshot'

----------------------------------------------------------------------------
(* ask(), up to the request.                                               *)

Ask(k, empty) ==
  /\ phase = "idle"
  /\ baseline = NoBaseline
  /\ calls < MaxCalls
  /\ Start
  /\ phase' = "checking"
  /\ prompt' = k
  /\ optional' = empty
  /\ UNCHANGED <<calls, deadline, reply, reported, received, ledger>>

CheckBudget ==
  /\ phase = "checking"
  /\ Check
  /\ Proceed("recording")
  /\ UNCHANGED callVars

\* request.json is written, then observe_request() counts the prompt.
RecordRequest ==
  /\ phase = "recording"
  /\ calls' = calls + 1
  /\ IF OnceOnly
       THEN ObserveRequest(Single(prompt)) /\ phase' = "admitting"
       ELSE UNCHANGED vars /\ phase' = "sending"
  /\ UNCHANGED <<prompt, optional, deadline, reply, reported, received, ledger>>

CountPrompt ==
  /\ phase = "admitting"
  /\ CountEntry(prompt)
  /\ UNCHANGED <<phase, callVars, ledger>>

AdmitRequest ==
  /\ phase = "admitting"
  /\ EndObserve
  /\ Proceed("sending")
  /\ UNCHANGED callVars

----------------------------------------------------------------------------
(* The provider.                                                           *)

\* Mutant: every request gets the full time limit.
SendUnclamped ==
  /\ phase = "sending"
  /\ phase' = "waiting"
  /\ deadline' = now + Seconds
  /\ UNCHANGED <<vars, prompt, optional, calls, reply, reported, received, ledger>>

\* complete(prompt, remaining_seconds = budget.remaining) starts the worker.
Send ==
  /\ phase = "sending"
  /\ phase' = "waiting"
  /\ deadline' = now + Remaining
  /\ UNCHANGED <<vars, prompt, optional, calls, reply, reported, received, ledger>>

\* A completed response; response.json is written whatever it holds.
Receive(r) ==
  /\ phase = "waiting"
  /\ used + NotNegative(r.usage) <= MaxUsed
  /\ phase' = "accounting"
  /\ reply' = r
  /\ reported' = reported + NotNegative(r.usage)
  /\ received' = [received EXCEPT ![r.text] = @ + 1]
  /\ UNCHANGED <<vars, prompt, optional, calls, deadline, ledger>>

\* The worker fails, or its output is not a response: no usage is known.
ProviderError ==
  /\ phase = "waiting"
  /\ UNCHANGED <<vars, callVars>>
  /\ Raise

\* Mutant: only a stalled read is bounded, not the worker.
ProviderTimeoutIgnored ==
  /\ phase = "waiting"
  /\ now >= deadline
  /\ UNCHANGED mvars

\* subprocess.run kills the worker at the deadline.
ProviderTimeout ==
  /\ phase = "waiting"
  /\ now >= deadline
  /\ UNCHANGED <<vars, callVars>>
  /\ Raise

----------------------------------------------------------------------------
(* ask(), from the response on.                                            *)

RejectUsage ==
  /\ phase = "accounting"
  /\ reply.usage = Unusable
  /\ ChargeUnusable
  /\ Raise
  /\ UNCHANGED callVars

\* charge(); budget.json is rewritten even when it raises.
ChargeUsage ==
  /\ phase = "accounting"
  /\ reply.usage # Unusable
  /\ Charge(reply.usage)
  /\ phase' = IF answer' = "granted" THEN "crediting" ELSE "failed"
  /\ ledger' = Snapshot'
  /\ UNCHANGED callVars

\* observe_response(), reached only when the charge went through.
CreditReply ==
  /\ phase = "crediting"
  /\ observing = "no"
  /\ IF OnceOnly
       THEN ObserveResponse(Single(reply.text)) /\ UNCHANGED <<phase, ledger>>
       ELSE UNCHANGED vars /\ phase' = "judging" /\ ledger' = Snapshot
  /\ UNCHANGED callVars

CountReply ==
  /\ phase = "crediting"
  /\ CountEntry(reply.text)
  /\ UNCHANGED <<phase, callVars, ledger>>

\* Mutant: the ledger is saved before the reply is counted.
EndCreditEarlyLedger ==
  /\ phase = "crediting"
  /\ EndObserve
  /\ phase' = IF answer' = "granted" THEN "judging" ELSE "failed"
  /\ UNCHANGED <<callVars, ledger>>

EndCredit ==
  /\ phase = "crediting"
  /\ EndObserve
  /\ phase' = IF answer' = "granted" THEN "judging" ELSE "failed"
  /\ ledger' = Snapshot'
  /\ UNCHANGED callVars

\* The text is an answer of the expected model, and not empty unless the stage allows it.
Acceptable == reply.expected /\ (reply.text # Blank \/ optional)

Accept ==
  /\ phase = "judging"
  /\ Acceptable
  /\ phase' = "idle"
  /\ UNCHANGED <<vars, callVars, ledger>>

Reject ==
  /\ phase = "judging"
  /\ ~Acceptable
  /\ UNCHANGED <<vars, callVars>>
  /\ Raise

----------------------------------------------------------------------------
(* The rest of the run: time, baselines, the end.                          *)

\* While the worker runs, time passes up to its deadline.
Elapse ==
  /\ phase \notin {"failed", "done"}
  /\ IF phase = "waiting" THEN now < deadline ELSE now < MaxNow
  /\ Advance
  /\ UNCHANGED <<phase, callVars, ledger>>

Baseline ==
  /\ phase = "idle"
  /\ BeginBaseline \/ EndBaseline
  /\ UNCHANGED <<phase, callVars, ledger>>

\* budget.check() before a candidate or before the selection.
CheckWork ==
  /\ phase = "idle"
  /\ Check
  /\ Proceed("idle")
  /\ UNCHANGED callVars

Finish ==
  /\ phase = "idle"
  /\ Idle
  /\ phase' = "done"
  /\ ledger' = Snapshot
  /\ UNCHANGED <<vars, callVars>>

Ended ==
  /\ phase \in {"failed", "done"}
  /\ UNCHANGED mvars

Controller ==
  \/ CheckBudget \/ RecordRequest \/ CountPrompt \/ AdmitRequest \/ Send
  \/ RejectUsage \/ ChargeUsage \/ CreditReply \/ CountReply \/ EndCredit
  \/ Accept \/ Reject

CallNext ==
  \/ \E k \in Contents \ {Blank}, empty \in BOOLEAN : Ask(k, empty)
  \/ Controller
  \/ \E r \in Replies : Receive(r)
  \/ ProviderError
  \/ ProviderTimeout
  \/ Elapse
  \/ Baseline
  \/ CheckWork
  \/ Finish
  \/ Ended

\* The controller runs on, the clock advances, and an expired worker is killed.
CallSpec ==
  /\ CallInit
  /\ [][CallNext]_mvars
  /\ WF_mvars(Controller)
  /\ WF_mvars(Elapse)
  /\ WF_mvars(ProviderTimeout)

----------------------------------------------------------------------------
(* Properties.                                                             *)

Settled == phase \in {"idle", "failed", "done"}

\* The occurrences in the observed responses and in the reply at hand.
MadeAndReply == [k \in Contents |-> made[k] + Single(reply.text)[k]]

\* The attempt ended with a refusal and one reply received but not observed.
LastReplyUncounted == phase = "failed" /\ refused /\ received = MadeAndReply

\* Whenever the run stands between requests or has ended, the record is complete:
\* the processed tokens equal what the saved responses report, so that a completed
\* reply is charged once and never lost, also when its own charge ends the attempt or
\* the controller refuses the reply for another reason; budget.json holds the budget as
\* it is (zero tokens before the file exists); and of the replies received only the last
\* can be missing from the content count, when its own charge was refused: the code
\* raises before it observes that reply (fixed.py, ask()).
RecordIsComplete ==
  Settled =>
    /\ used = reported
    /\ ledger = Snapshot
    /\ OnceOnly => received = made \/ LastReplyUncounted

\* The provider gets no time beyond the deadline of the attempt.
ProviderStopsAtDeadline ==
  [][phase = "waiting" /\ now' > now => WorkTime < Seconds]_mvars

\* A request always ends, even if the provider never answers.
EveryRequestEnds == (phase # "idle") ~> Settled
=============================================================================
