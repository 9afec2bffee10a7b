--------------------------- MODULE AttemptBudget ---------------------------
(***************************************************************************)
(* The aggregate budget of one attempt (agentless_ml/attempt_budget.py):   *)
(* a deadline on worked time that leaves the public baselines out, and an  *)
(* allowance of tokens, counted either as reported usage ("cumulative") or *)
(* as content that is new to the attempt ("once_only_context").            *)
(*                                                                         *)
(* One caller uses the object, as FixedWorkflowController and BudgetRunner *)
(* do: no operation runs while another one, or a baseline, is open.  The   *)
(* clock advances between any two steps, also inside an operation.         *)
(***************************************************************************)
EXTENDS Integers, FiniteSetsExt

CONSTANTS
  Seconds,    \* the time limit
  Tokens,     \* the token limit
  OnceOnly,   \* TRUE: accounting = 'once_only_context'
  Contents,   \* normalized entries, identified by their digest
  Cost,       \* tokens of each entry
  MaxNow,     \* bound: the clock stops here
  MaxMult,    \* bound: occurrences of one entry in one payload
  MaxUsage,   \* bound: tokens one response can report
  MaxUsed,    \* bound: tokens processed in total
  MaxMade     \* bound: occurrences of one entry observed in responses

ASSUME LimitsAssumption ==
  /\ Seconds \in Nat \ {0}
  /\ Tokens \in Nat \ {0}
  /\ OnceOnly \in BOOLEAN

ASSUME ContentAssumption ==
  /\ Cost \in [Contents -> Nat \ {0}]

ASSUME BoundAssumption ==
  /\ MaxNow \in Nat
  /\ MaxMult \in Nat
  /\ MaxUsage \in Nat
  /\ MaxUsed \in Nat
  /\ MaxMade \in Nat

VARIABLES
  now,        \* clock()
  started,    \* NotStarted until the first start()
  excluded,   \* time spent in baselines after start
  used,       \* processed_inputs + processed_outputs
  context,    \* context_used
  seen,       \* _seen
  stop,       \* stop_reason
  baseline,   \* begin of the open exclude_baseline block, or NoBaseline
  observing,  \* the loop of _observe: "no", "request" or "response"
  pending,    \* counts not yet processed by that loop
  answer,     \* what the last operation told its caller
  worked,     \* history: time passed after start outside baselines
  refused,    \* history: some operation has raised BudgetExceeded
  sent,       \* history: most occurrences of each entry in one request
  made        \* history: occurrences of each entry in the responses observed

clockVars   == <<started, excluded, baseline>>
ledgerVars  == <<used, context, seen>>
loopVars    == <<observing, pending>>
historyVars == <<worked, sent, made>>
vars == <<now, clockVars, ledgerVars, stop, loopVars, answer, refused, historyVars>>

NotStarted == -1
NoBaseline == -1
Nothing    == [k \in Contents |-> 0]
Reasons    == {"usage_unavailable", "token_limit", "time_limit"}
Answers    == {"none", "granted", "value_error"} \cup Reasons

TypeOK ==
  /\ now \in Nat
  /\ started \in Nat \cup {NotStarted}
  /\ excluded \in Nat
  /\ used \in Nat
  /\ context \in Nat
  /\ seen \in [Contents -> Nat]
  /\ stop \in {"none", "usage_unavailable"}
  /\ baseline \in Nat \cup {NoBaseline}
  /\ observing \in {"no", "request", "response"}
  /\ pending \in [Contents -> Nat]
  /\ answer \in Answers
  /\ worked \in Nat
  /\ refused \in BOOLEAN
  /\ sent \in [Contents -> Nat]
  /\ made \in [Contents -> Nat]

Init ==
  /\ now = 0
  /\ started = NotStarted
  /\ excluded = 0
  /\ used = 0
  /\ context = 0
  /\ seen = Nothing
  /\ stop = "none"
  /\ baseline = NoBaseline
  /\ observing = "no"
  /\ pending = Nothing
  /\ answer = "none"
  /\ worked = 0
  /\ refused = FALSE
  /\ sent = Nothing
  /\ made = Nothing

----------------------------------------------------------------------------
(* What the object computes.                                               *)

NotNegative(n) == IF n > 0 THEN n ELSE 0

CountedOf(u, c) == IF OnceOnly THEN c ELSE u
Counted == CountedOf(used, context)

Remaining ==
  IF started = NotStarted
    THEN Seconds
    ELSE NotNegative(Seconds - (now - started - excluded))

\* check() after the ledgers hold u processed and c content tokens.
Verdict(s, u, c) ==
  IF s # "none" THEN s
  ELSE IF CountedOf(u, c) >= Tokens THEN "token_limit"
  ELSE IF Remaining <= 0 THEN "time_limit"
  ELSE "granted"

\* The caller sees the verdict; a refusal is an exception it cannot overlook.
Tell(v) ==
  /\ answer' = v
  /\ refused' = (refused \/ v \in Reasons)

Idle == observing = "no" /\ baseline = NoBaseline

----------------------------------------------------------------------------
(* Time.                                                                   *)

Advance ==
  /\ now' = now + 1
  /\ worked' = IF started # NotStarted /\ baseline = NoBaseline
                 THEN worked + 1 ELSE worked
  /\ UNCHANGED <<clockVars, ledgerVars, stop, loopVars, answer, refused, sent, made>>

Tick == now < MaxNow /\ Advance

\* start(): only the first call starts the clock.
Start ==
  /\ Idle
  /\ started' = IF started = NotStarted THEN now ELSE started
  /\ answer' = "none"
  /\ UNCHANGED <<now, excluded, baseline, ledgerVars, stop, loopVars, refused, historyVars>>

\* check()
Check ==
  /\ Idle
  /\ Tell(Verdict(stop, used, context))
  /\ UNCHANGED <<now, clockVars, ledgerVars, stop, loopVars, historyVars>>

----------------------------------------------------------------------------
(* Tokens.                                                                 *)

\* Mutant: usage that reaches a limit is refused instead of recorded.
ChargeRefusedUncounted(n) ==
  /\ Idle
  /\ used + n <= MaxUsed
  /\ Tell(Verdict(stop, used + n, context))
  /\ used' = IF answer' = "granted" THEN used + n ELSE used
  /\ UNCHANGED <<now, clockVars, context, seen, stop, loopVars, historyVars>>

\* charge(inputs, outputs) with usable numbers: recorded first, then checked.
Charge(n) ==
  /\ Idle
  /\ used + n <= MaxUsed
  /\ used' = used + n
  /\ Tell(Verdict(stop, used + n, context))
  /\ UNCHANGED <<now, clockVars, context, seen, stop, loopVars, historyVars>>

\* charge() without usable numbers ends the attempt for good.
ChargeUnusable ==
  /\ Idle
  /\ stop' = "usage_unavailable"
  /\ Tell("usage_unavailable")
  /\ UNCHANGED <<now, clockVars, ledgerVars, loopVars, historyVars>>

\* observe_request() and observe_response(): count the entries of a payload.
\* Reasoning items are not entries; in cumulative mode nothing happens.
Observe(kind, counts) ==
  /\ Idle
  /\ OnceOnly
  /\ observing' = kind
  /\ pending' = counts
  /\ answer' = "none"
  /\ sent' = IF kind = "request"
               THEN [k \in Contents |-> IF counts[k] > sent[k] THEN counts[k] ELSE sent[k]]
               ELSE sent
  /\ made' = IF kind = "response"
               THEN [k \in Contents |-> made[k] + counts[k]]
               ELSE made
  /\ UNCHANGED <<now, clockVars, ledgerVars, stop, refused, worked>>

ObserveRequest(counts) == Observe("request", counts)
ObserveResponse(counts) ==
  /\ \A k \in Contents : made[k] + counts[k] <= MaxMade
  /\ Observe("response", counts)

\* An item of a kind the ledger does not know raises before anything is counted.
ObserveUnsupported ==
  /\ Idle
  /\ OnceOnly
  /\ answer' = "value_error"
  /\ UNCHANGED <<now, clockVars, ledgerVars, stop, loopVars, refused, historyVars>>

\* Mutant: a repeated reply is matched with what was seen, like input.
AddedByMultiplicity(k) == NotNegative(pending[k] - seen[k])

\* Generated entries are new occurrences; replayed input is matched by
\* multiplicity with what the attempt has already seen.
Added(k) == IF observing = "response"
              THEN pending[k]
              ELSE NotNegative(pending[k] - seen[k])

CountEntry(k) ==
  /\ observing # "no"
  /\ pending[k] > 0
  /\ seen' = [seen EXCEPT ![k] = @ + Added(k)]
  /\ context' = context + Added(k) * Cost[k]
  /\ pending' = [pending EXCEPT ![k] = 0]
  /\ answer' = "none"
  /\ UNCHANGED <<now, clockVars, used, stop, observing, refused, historyVars>>

\* Mutant: the payload is counted and work goes on unchecked.
EndObserveUnchecked ==
  /\ observing # "no"
  /\ pending = Nothing
  /\ observing' = "no"
  /\ Tell("granted")
  /\ UNCHANGED <<now, clockVars, ledgerVars, stop, pending, historyVars>>

\* The check() that ends _observe, still under the lock.
EndObserve ==
  /\ observing # "no"
  /\ pending = Nothing
  /\ observing' = "no"
  /\ Tell(Verdict(stop, used, context))
  /\ UNCHANGED <<now, clockVars, ledgerVars, stop, pending, historyVars>>

----------------------------------------------------------------------------
(* Baselines.                                                              *)

BeginBaseline ==
  /\ Idle
  /\ baseline' = now
  /\ answer' = "none"
  /\ UNCHANGED <<now, started, excluded, ledgerVars, stop, loopVars, refused, historyVars>>

\* Mutant: a baseline that ended before start() is excluded all the same.
EndBaselineBeforeStart ==
  /\ baseline # NoBaseline
  /\ excluded' = excluded + (now - baseline)
  /\ baseline' = NoBaseline
  /\ answer' = "none"
  /\ UNCHANGED <<now, started, ledgerVars, stop, loopVars, refused, historyVars>>

EndBaseline ==
  /\ baseline # NoBaseline
  /\ excluded' = IF started # NotStarted THEN excluded + (now - baseline) ELSE excluded
  /\ baseline' = NoBaseline
  /\ answer' = "none"
  /\ UNCHANGED <<now, started, ledgerVars, stop, loopVars, refused, historyVars>>

----------------------------------------------------------------------------
Payloads == [Contents -> 0..MaxMult]

Next ==
  \/ Tick
  \/ Start
  \/ Check
  \/ \E n \in 0..MaxUsage : Charge(n)
  \/ ChargeUnusable
  \/ \E counts \in Payloads : ObserveRequest(counts) \/ ObserveResponse(counts)
  \/ ObserveUnsupported
  \/ \E k \in Contents : CountEntry(k)
  \/ EndObserve
  \/ BeginBaseline
  \/ EndBaseline

Spec == Init /\ [][Next]_vars

----------------------------------------------------------------------------
(* Properties.                                                             *)

\* Time the attempt has worked: the clock since start() without the closed
\* baselines and without the open one.
WorkTime ==
  IF started = NotStarted THEN 0
  ELSE (IF baseline = NoBaseline THEN now ELSE baseline) - started - excluded

\* exclude_baseline takes out of the deadline exactly the time spent inside
\* its blocks: no second is excluded twice, and a baseline that ran before
\* start() gives no credit to the work that follows it.
BaselinesAreFree == WorkTime = worked

\* "The first reached limit stops work": whatever reason an operation was
\* refused for, no later operation is told to go on; baselines entered and
\* left in between, further charges and further observations included.
FirstLimitStops == refused => answer # "granted"

\* Once-only counting (_observe, _seen): an entry counts at least as often as
\* it occurred in the responses that were observed and as it occurred in one
\* request, and never more often than both together, however often history was
\* replayed or dropped.  A response the caller never observes is not counted;
\* which one that can be is a matter of ask() (RecordIsComplete of ModelCall).
CountedOnce ==
  \A k \in Contents :
    pending[k] = 0 =>
      /\ made[k] <= seen[k]
      /\ sent[k] <= seen[k]
      /\ seen[k] <= made[k] + sent[k]

\* A limit has been reached, told or not.
LimitReached == stop # "none" \/ Counted >= Tokens \/ WorkTime >= Seconds

Promise == INSTANCE Allowance WITH
  spent  <- LimitReached,
  answer <- IF answer \in Reasons THEN "refused"
            ELSE IF answer = "granted" THEN "granted" ELSE "none"

\* The budget object keeps the promise of Allowance.
KeepsPromise == Promise!Spec
=============================================================================
