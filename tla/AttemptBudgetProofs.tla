------------------------ MODULE AttemptBudgetProofs ------------------------
(***************************************************************************)
(* Proofs about AttemptBudget, for every limit and price list, and about   *)
(* ModelCall, the requests made under it.                                  *)
(*                                                                         *)
(* The argument: the clock never runs behind what was subtracted from it   *)
(* (ClockOrder), so the time worked is the clock minus the exclusions      *)
(* (BaselinesAreFree); it never decreases, nor does the token count, nor   *)
(* is stop_reason cleared, so a limit once reached stays reached           *)
(* (LimitStays); every refusal happens at a limit and every grant happens  *)
(* below all of them, which gives FirstLimitStops and the refinement.      *)
(*                                                                         *)
(* All this is proved of BudgetStep, the operations without the bounds of  *)
(* the runs.  Every step of a request is a BudgetStep or leaves the budget *)
(* alone (CallIsBudget), so it holds of requests as well; CallInv adds     *)
(* what ask() knows at each of its places.                                 *)
(***************************************************************************)
EXTENDS ModelCall, TLAPS

\* An operation of the object, or a second of the clock.
BudgetStep ==
  \/ Advance
  \/ Start
  \/ Check
  \/ \E n \in Nat : Charge(n)
  \/ ChargeUnusable
  \/ \E counts \in [Contents -> Nat] : ObserveRequest(counts) \/ ObserveResponse(counts)
  \/ ObserveUnsupported
  \/ \E k \in Contents : CountEntry(k)
  \/ EndObserve
  \/ BeginBaseline
  \/ EndBaseline

Unbounded == Init /\ [][BudgetStep]_vars

\* Where the three marks of the clock stand, that nothing is excluded before
\* start(), and that an observation is over before a baseline opens.
ClockOrder ==
  /\ started = NotStarted => excluded = 0
  /\ observing # "no" => baseline = NoBaseline
  /\ started # NotStarted => started <= now
  /\ baseline # NoBaseline => baseline <= now
  /\ started # NotStarted /\ baseline # NoBaseline => started <= baseline

RefusedAtLimit == refused => LimitReached

IInv ==
  /\ TypeOK
  /\ ClockOrder
  /\ BaselinesAreFree
  /\ RefusedAtLimit
  /\ FirstLimitStops

----------------------------------------------------------------------------
(* Facts about the operators.                                              *)

LEMMA NotNegativeNat ==
  ASSUME NEW n \in Int
  PROVE  /\ NotNegative(n) \in Nat
         /\ NotNegative(n) <= 0 <=> n <= 0
         /\ n <= NotNegative(n)
BY DEF NotNegative

\* check() grants exactly below every limit and otherwise names a reason.
LEMMA VerdictAtLimit ==
  ASSUME TypeOK, ClockOrder, baseline = NoBaseline,
         NEW u \in Nat, NEW c \in Nat
  PROVE  /\ Verdict(stop, u, c) \in Reasons \cup {"granted"}
         /\ Verdict(stop, u, c) = "granted" <=>
              ~(stop # "none" \/ CountedOf(u, c) >= Tokens \/ WorkTime >= Seconds)
<1>1. /\ Seconds \in Nat \ {0}
      /\ Tokens \in Nat \ {0}
      /\ CountedOf(u, c) \in Nat
      /\ stop \in {"none", "usage_unavailable"}
  BY LimitsAssumption DEF TypeOK, CountedOf
<1>2. Remaining <= 0 <=> WorkTime >= Seconds
  <2>1. CASE started = NotStarted
    BY <2>1, <1>1 DEF Remaining, WorkTime
  <2>2. CASE started # NotStarted
    <3>1. /\ Seconds - (now - started - excluded) \in Int
          /\ WorkTime = now - started - excluded
          /\ now - started - excluded \in Int
      BY <2>2, <1>1 DEF TypeOK, WorkTime
    <3>2. Remaining = NotNegative(Seconds - (now - started - excluded))
      BY <2>2 DEF Remaining
    <3>3. QED
      BY <3>1, <3>2, <1>1, NotNegativeNat
  <2>3. QED
    BY <2>1, <2>2
<1>3. QED
  BY <1>1, <1>2 DEF Verdict, Reasons

LEMMA AddedNat ==
  ASSUME TypeOK, NEW k \in Contents
  PROVE  Added(k) \in Nat
BY NotNegativeNat DEF TypeOK, Added

----------------------------------------------------------------------------
(* The inductive invariant.                                                *)

LEMMA InitIInv == Init => IInv
<1> SUFFICES ASSUME Init PROVE IInv
  OBVIOUS
<1>1. TypeOK
  BY DEF Init, TypeOK, Nothing, Answers, NotStarted, NoBaseline
<1>2. QED
  BY <1>1 DEF Init, IInv, ClockOrder, BaselinesAreFree, RefusedAtLimit,
              FirstLimitStops, WorkTime, NotStarted, NoBaseline

LEMMA TypeStep ==
  ASSUME TypeOK, ClockOrder, [BudgetStep]_vars
  PROVE  TypeOK'
<1> USE DEF TypeOK, Answers, Reasons
<1>1. CASE Advance
  BY <1>1 DEF Advance, clockVars, ledgerVars, loopVars
<1>2. CASE Start
  BY <1>2 DEF Start, ledgerVars, loopVars, historyVars
<1>3. ASSUME NEW u \in Nat, NEW c \in Nat,
             baseline = NoBaseline, Tell(Verdict(stop, u, c))
      PROVE  answer' \in Answers /\ refused' \in BOOLEAN
  BY <1>3, VerdictAtLimit DEF Tell
<1>4. CASE Check
  BY <1>4, <1>3 DEF Check, Idle, clockVars, ledgerVars, loopVars, historyVars
<1>5. ASSUME NEW n \in Nat, Charge(n)
      PROVE  TypeOK'
  <2>1. n \in Nat /\ used + n \in Nat
    OBVIOUS
  <2>2. answer' \in Answers /\ refused' \in BOOLEAN
    BY <1>5, <2>1, <1>3 DEF Charge, Idle
  <2>3. QED
    BY <1>5, <2>1, <2>2 DEF Charge, clockVars, loopVars, historyVars
<1>6. CASE ChargeUnusable
  BY <1>6 DEF ChargeUnusable, Tell, clockVars, ledgerVars, loopVars, historyVars
<1>7. ASSUME NEW counts \in [Contents -> Nat], NEW kind \in {"request", "response"}, Observe(kind, counts)
      PROVE  TypeOK'
  <2>1. counts \in [Contents -> Nat]
    OBVIOUS
  <2>2. sent' \in [Contents -> Nat] /\ made' \in [Contents -> Nat]
    BY <1>7, <2>1 DEF Observe
  <2>3. QED
    BY <1>7, <2>1, <2>2 DEF Observe, clockVars, ledgerVars
<1>8. CASE ObserveUnsupported
  BY <1>8 DEF ObserveUnsupported, clockVars, ledgerVars, loopVars, historyVars
<1>9. ASSUME NEW k \in Contents, CountEntry(k)
      PROVE  TypeOK'
  <2>1. Added(k) \in Nat /\ Added(k) * Cost[k] \in Nat
    BY AddedNat, ContentAssumption
  <2>2. /\ seen' \in [Contents -> Nat]
        /\ context' \in Nat
        /\ pending' \in [Contents -> Nat]
    BY <1>9, <2>1 DEF CountEntry
  <2>3. QED
    BY <1>9, <2>2 DEF CountEntry, clockVars, historyVars
<1>10. CASE EndObserve
  <2>1. answer' \in Answers /\ refused' \in BOOLEAN
    BY <1>10, <1>3 DEF EndObserve, ClockOrder
  <2>2. QED
    BY <1>10, <2>1 DEF EndObserve, clockVars, ledgerVars, historyVars
<1>11. CASE BeginBaseline
  BY <1>11 DEF BeginBaseline, ledgerVars, loopVars, historyVars
<1>12. CASE EndBaseline
  <2>1. now - baseline \in Nat
    BY <1>12 DEF EndBaseline, ClockOrder
  <2>2. QED
    BY <1>12, <2>1 DEF EndBaseline, ledgerVars, loopVars, historyVars, NoBaseline
<1>13. CASE UNCHANGED vars
  BY <1>13 DEF vars, clockVars, ledgerVars, loopVars, historyVars
<1>14. QED
  BY <1>1, <1>2, <1>4, <1>5, <1>6, <1>7, <1>8, <1>9, <1>10, <1>11, <1>12, <1>13
     DEF BudgetStep, ObserveRequest, ObserveResponse

\* Only Advance moves the work time, by the second it also adds to the history.
LEMMA ClockStep ==
  ASSUME TypeOK, ClockOrder, [BudgetStep]_vars
  PROVE  /\ ClockOrder'
         /\ WorkTime' - WorkTime = worked' - worked
         /\ worked' >= worked
<1> USE DEF TypeOK, ClockOrder, WorkTime, NotStarted, NoBaseline
<1>1. CASE Advance
  BY <1>1 DEF Advance, clockVars, loopVars
<1>2. CASE Start
  BY <1>2 DEF Start, Idle, loopVars, historyVars
<1>3. CASE Check
  BY <1>3 DEF Check, clockVars, loopVars, historyVars
<1>4. ASSUME NEW n \in Nat, Charge(n)
      PROVE  /\ ClockOrder'
             /\ WorkTime' - WorkTime = worked' - worked
             /\ worked' >= worked
  BY <1>4 DEF Charge, clockVars, loopVars, historyVars
<1>5. CASE ChargeUnusable
  BY <1>5 DEF ChargeUnusable, clockVars, loopVars, historyVars
<1>6. ASSUME NEW counts \in [Contents -> Nat], NEW kind \in {"request", "response"}, Observe(kind, counts)
      PROVE  /\ ClockOrder'
             /\ WorkTime' - WorkTime = worked' - worked
             /\ worked' >= worked
  BY <1>6 DEF Observe, Idle, clockVars
<1>7. CASE ObserveUnsupported
  BY <1>7 DEF ObserveUnsupported, clockVars, loopVars, historyVars
<1>8. ASSUME NEW k \in Contents, CountEntry(k)
      PROVE  /\ ClockOrder'
             /\ WorkTime' - WorkTime = worked' - worked
             /\ worked' >= worked
  BY <1>8 DEF CountEntry, clockVars, historyVars
<1>9. CASE EndObserve
  BY <1>9 DEF EndObserve, clockVars, historyVars
<1>10. CASE BeginBaseline
  BY <1>10 DEF BeginBaseline, Idle, loopVars, historyVars
<1>11. CASE EndBaseline
  BY <1>11 DEF EndBaseline, loopVars, historyVars
<1>12. CASE UNCHANGED vars
  BY <1>12 DEF vars, clockVars, loopVars, historyVars
<1>13. QED
  BY <1>1, <1>2, <1>3, <1>4, <1>5, <1>6, <1>7, <1>8, <1>9, <1>10, <1>11, <1>12
     DEF BudgetStep, ObserveRequest, ObserveResponse

\* stop_reason is never cleared and no token is ever taken back.
LEMMA LedgerStep ==
  ASSUME TypeOK, [BudgetStep]_vars
  PROVE  /\ stop # "none" => stop' # "none"
         /\ used' >= used
         /\ context' >= context
<1> USE DEF TypeOK
<1>1. ASSUME NEW n \in Nat, Charge(n)
      PROVE  /\ stop # "none" => stop' # "none"
             /\ used' >= used
             /\ context' >= context
  BY <1>1 DEF Charge
<1>2. CASE ChargeUnusable
  BY <1>2 DEF ChargeUnusable, ledgerVars
<1>3. ASSUME NEW k \in Contents, CountEntry(k)
      PROVE  /\ stop # "none" => stop' # "none"
             /\ used' >= used
             /\ context' >= context
  <2>1. Added(k) * Cost[k] \in Nat
    BY AddedNat, ContentAssumption
  <2>2. QED
    BY <1>3, <2>1 DEF CountEntry
<1>4. ASSUME UNCHANGED <<ledgerVars, stop>>
      PROVE  /\ stop # "none" => stop' # "none"
             /\ used' >= used
             /\ context' >= context
  BY <1>4 DEF ledgerVars
<1>5. QED
  BY <1>1, <1>2, <1>3, <1>4
     DEF BudgetStep, vars, Advance, Start, Check, ObserveRequest, ObserveResponse, Observe,
         ObserveUnsupported, EndObserve, BeginBaseline, EndBaseline

LEMMA LimitStays ==
  ASSUME TypeOK, ClockOrder, [BudgetStep]_vars, LimitReached
  PROVE  LimitReached'
<1>1. /\ TypeOK'
      /\ WorkTime' - WorkTime = worked' - worked
      /\ worked' >= worked
  BY TypeStep, ClockStep
<1>2. /\ WorkTime \in Int
      /\ WorkTime' \in Int
  BY <1>1 DEF TypeOK, WorkTime, NotStarted, NoBaseline
<1>3. WorkTime' >= WorkTime
  BY <1>1, <1>2 DEF TypeOK
<1>4. Counted' >= Counted
  BY LedgerStep, LimitsAssumption DEF Counted, CountedOf
<1>5. /\ Counted \in Nat
      /\ Counted' \in Nat
  BY <1>1, LimitsAssumption DEF TypeOK, Counted, CountedOf
<1>6. QED
  BY <1>2, <1>3, <1>4, <1>5, LedgerStep, LimitsAssumption DEF LimitReached

----------------------------------------------------------------------------
(* Refusals and grants.                                                    *)

\* An operation refuses only at a limit, and grants only below all of them.
LEMMA AnswerAtLimit ==
  ASSUME TypeOK, ClockOrder, [BudgetStep]_vars
  PROVE  \/ UNCHANGED <<answer, refused>>
         \/ answer' \in {"none", "value_error"} /\ UNCHANGED refused
         \/ answer' = "granted" /\ UNCHANGED refused /\ ~LimitReached'
         \/ answer' \in Reasons /\ refused' /\ LimitReached'
<1> DEFINE Outcome == \/ UNCHANGED <<answer, refused>>
                      \/ answer' \in {"none", "value_error"} /\ UNCHANGED refused
                      \/ answer' = "granted" /\ UNCHANGED refused /\ ~LimitReached'
                      \/ answer' \in Reasons /\ refused' /\ LimitReached'
<1>1. ASSUME NEW u \in Nat, NEW c \in Nat,
             baseline = NoBaseline, Tell(Verdict(stop, u, c)),
             used' = u, context' = c, UNCHANGED <<stop, now, started, excluded, baseline>>
      PROVE  Outcome
  <2>1. LimitReached' <=> (stop # "none" \/ CountedOf(u, c) >= Tokens \/ WorkTime >= Seconds)
    BY <1>1 DEF LimitReached, Counted, CountedOf, WorkTime
  <2>2. /\ Verdict(stop, u, c) \in Reasons \cup {"granted"}
        /\ Verdict(stop, u, c) = "granted" <=> ~LimitReached'
    BY <1>1, <2>1, VerdictAtLimit
  <2>3. CASE Verdict(stop, u, c) = "granted"
    <3>1. answer' = "granted" /\ refused' = (refused \/ "granted" \in Reasons)
      BY <1>1, <2>3 DEF Tell
    <3>2. "granted" \notin Reasons /\ refused \in BOOLEAN
      BY DEF Reasons, TypeOK
    <3>3. QED
      BY <3>1, <3>2, <2>2, <2>3
  <2>4. CASE Verdict(stop, u, c) \in Reasons
    <3>1. answer' \in Reasons /\ refused' /\ LimitReached'
      BY <1>1, <2>2, <2>4 DEF Tell, Reasons
    <3>2. QED
      BY <3>1
  <2>5. QED
    BY <2>2, <2>3, <2>4
<1>2. CASE Check
  BY <1>2, <1>1 DEF Check, Idle, clockVars, ledgerVars, TypeOK
<1>3. ASSUME NEW n \in Nat, Charge(n)
      PROVE  Outcome
  <2>1. used + n \in Nat /\ context \in Nat
    BY DEF TypeOK
  <2>2. QED
    BY <1>3, <2>1, <1>1 DEF Charge, Idle, clockVars
<1>4. CASE EndObserve
  BY <1>4, <1>1 DEF EndObserve, ClockOrder, clockVars, ledgerVars, TypeOK
<1>5. CASE ChargeUnusable
  <2>1. "usage_unavailable" \in Reasons /\ stop' # "none"
    BY <1>5 DEF ChargeUnusable, Reasons
  <2>2. QED
    BY <1>5, <2>1 DEF ChargeUnusable, Tell, LimitReached
<1>6. CASE UNCHANGED vars \/ Advance
  BY <1>6 DEF Advance, vars
<1>7. CASE Start \/ ObserveUnsupported \/ BeginBaseline \/ EndBaseline
  BY <1>7 DEF Start, ObserveUnsupported, BeginBaseline, EndBaseline
<1>8. ASSUME NEW counts \in [Contents -> Nat], NEW kind \in {"request", "response"}, Observe(kind, counts)
      PROVE  Outcome
  BY <1>8 DEF Observe
<1>9. ASSUME NEW k \in Contents, CountEntry(k)
      PROVE  Outcome
  BY <1>9 DEF CountEntry
<1>10. QED
  BY <1>2, <1>3, <1>4, <1>5, <1>6, <1>7, <1>8, <1>9 DEF BudgetStep, ObserveRequest, ObserveResponse

LEMMA IInvStep == IInv /\ [BudgetStep]_vars => IInv'
<1> SUFFICES ASSUME IInv, [BudgetStep]_vars PROVE IInv'
  OBVIOUS
<1> USE DEF IInv
<1>1. TypeOK' /\ ClockOrder'
  BY TypeStep, ClockStep
<1>2. BaselinesAreFree'
  <2>1. /\ WorkTime' \in Int
        /\ WorkTime \in Int
        /\ worked \in Int
        /\ worked' \in Int
    BY <1>1 DEF TypeOK, WorkTime, NotStarted, NoBaseline
  <2>2. QED
    BY <2>1, ClockStep DEF BaselinesAreFree
<1>3. RefusedAtLimit'
  BY AnswerAtLimit, LimitStays DEF RefusedAtLimit
<1>4. FirstLimitStops'
  BY AnswerAtLimit, <1>3, LimitStays DEF RefusedAtLimit, FirstLimitStops, Reasons
<1>5. QED
  BY <1>1, <1>2, <1>3, <1>4

LEMMA UnboundedInvariant == Unbounded => []IInv
BY InitIInv, IInvStep, PTL DEF Unbounded

LEMMA UnboundedPromise == Unbounded => KeepsPromise
<1> DEFINE told == IF answer \in Reasons THEN "refused"
                   ELSE IF answer = "granted" THEN "granted" ELSE "none"
<1>1. Init => Promise!Init
  BY LimitsAssumption DEF Init, Promise!Init, LimitReached, Counted, CountedOf,
                          WorkTime, Reasons
<1>2. IInv /\ [BudgetStep]_vars => [Promise!Next]_<<LimitReached, told>>
  <2> SUFFICES ASSUME IInv, [BudgetStep]_vars
               PROVE  Promise!Next \/ UNCHANGED <<LimitReached, told>>
    BY DEF Promise!Next
  <2>1. LimitReached \in BOOLEAN /\ LimitReached' \in BOOLEAN
    BY DEF LimitReached
  <2>2. LimitReached => LimitReached'
    BY LimitStays DEF IInv
  <2>3. CASE UNCHANGED <<answer, refused>>
    BY <2>1, <2>2, <2>3 DEF Promise!Next, Promise!Work
  <2>4. CASE answer' \in {"none", "value_error"}
    BY <2>1, <2>2, <2>4 DEF Promise!Next, Promise!Work, Reasons
  <2>5. CASE answer' = "granted" /\ ~LimitReached'
    BY <2>1, <2>2, <2>5 DEF Promise!Next, Promise!Grant, Reasons
  <2>6. CASE answer' \in Reasons /\ LimitReached'
    BY <2>1, <2>6 DEF Promise!Next, Promise!Refuse
  <2>7. QED
    BY <2>3, <2>4, <2>5, <2>6, AnswerAtLimit DEF IInv
<1>3. QED
  BY <1>1, <1>2, UnboundedInvariant, PTL DEF Unbounded, KeepsPromise, Promise!Spec

----------------------------------------------------------------------------
(* The once-only ledger.  While _observe runs, the entries still pending    *)
(* are the difference between what was counted and what has passed.         *)

EntryCounted(k) ==
  /\ observing = "no" => pending[k] = 0
  /\ observing = "response" =>
       /\ made[k] <= seen[k] + pending[k]
       /\ seen[k] + pending[k] <= made[k] + sent[k]
       /\ sent[k] <= seen[k]
  /\ observing # "response" =>
       /\ made[k] <= seen[k]
       /\ seen[k] <= made[k] + sent[k]
       /\ pending[k] <= sent[k]
       /\ sent[k] <= seen[k] \/ sent[k] <= pending[k]

LedgerInv == \A k \in Contents : EntryCounted(k)

LEMMA LedgerInvStep ==
  ASSUME TypeOK, LedgerInv, [BudgetStep]_vars
  PROVE  LedgerInv'
<1> SUFFICES ASSUME NEW k \in Contents PROVE EntryCounted(k)'
  BY DEF LedgerInv
<1> USE DEF TypeOK, LedgerInv, EntryCounted
<1>1. ASSUME NEW counts \in [Contents -> Nat], ObserveRequest(counts)
      PROVE  EntryCounted(k)'
  <2>1. counts[k] \in Nat
    OBVIOUS
  <2>2. /\ observing = "no"
        /\ observing' = "request"
        /\ pending' = counts
        /\ UNCHANGED <<seen, made>>
        /\ sent'[k] = IF counts[k] > sent[k] THEN counts[k] ELSE sent[k]
    BY <1>1 DEF ObserveRequest, Observe, Idle, ledgerVars
  <2>3. QED
    BY <2>1, <2>2
<1>2. ASSUME NEW counts \in [Contents -> Nat], ObserveResponse(counts)
      PROVE  EntryCounted(k)'
  <2>1. counts[k] \in Nat
    OBVIOUS
  <2>2. /\ observing = "no"
        /\ observing' = "response"
        /\ pending' = counts
        /\ UNCHANGED <<seen, sent>>
        /\ made'[k] = made[k] + counts[k]
    BY <1>2 DEF ObserveResponse, Observe, Idle, ledgerVars
  <2>3. QED
    BY <2>1, <2>2
<1>3. ASSUME NEW j \in Contents, CountEntry(j)
      PROVE  EntryCounted(k)'
  <2>1. /\ observing # "no"
        /\ UNCHANGED <<observing, sent, made>>
        /\ seen' = [seen EXCEPT ![j] = @ + Added(j)]
        /\ pending' = [pending EXCEPT ![j] = 0]
    BY <1>3 DEF CountEntry, historyVars
  <2>2. CASE j # k
    BY <2>1, <2>2
  <2>3. CASE j = k
    <3>1. seen'[k] = seen[k] + Added(k) /\ pending'[k] = 0
      BY <2>1, <2>3, AddedNat
    <3>2. CASE observing = "response"
      BY <2>1, <3>1, <3>2 DEF Added
    <3>3. CASE observing = "request"
      BY <2>1, <3>1, <3>3 DEF Added, NotNegative
    <3>4. QED
      BY <2>1, <3>2, <3>3
  <2>4. QED
    BY <2>2, <2>3
<1>4. CASE EndObserve
  BY <1>4 DEF EndObserve, ledgerVars, historyVars, Nothing
<1>5. ASSUME UNCHANGED <<seen, loopVars, sent, made>>
      PROVE  EntryCounted(k)'
  BY <1>5 DEF loopVars
<1>6. QED
  BY <1>1, <1>2, <1>3, <1>4, <1>5
     DEF BudgetStep, vars, Advance, Start, Check, Charge, ChargeUnusable, ObserveUnsupported,
         BeginBaseline, EndBaseline, ledgerVars, historyVars

LEMMA UnboundedLedger == Unbounded => []CountedOnce
<1>1. Init => LedgerInv
  BY DEF Init, LedgerInv, EntryCounted, Nothing
<1>2. TypeOK /\ LedgerInv /\ [BudgetStep]_vars => LedgerInv'
  BY LedgerInvStep
<1>3. TypeOK /\ LedgerInv => CountedOnce
  <2> SUFFICES ASSUME TypeOK, LedgerInv, NEW k \in Contents, pending[k] = 0
               PROVE  /\ made[k] <= seen[k]
                      /\ sent[k] <= seen[k]
                      /\ seen[k] <= made[k] + sent[k]
    BY DEF CountedOnce
  <2>1. EntryCounted(k)
    BY DEF LedgerInv
  <2>2. QED
    BY <2>1 DEF EntryCounted, TypeOK
<1>4. IInv => TypeOK
  BY DEF IInv
<1>5. QED
  BY <1>1, <1>2, <1>3, <1>4, UnboundedInvariant, PTL DEF Unbounded

----------------------------------------------------------------------------
(* Requests.                                                               *)

\* What ask() knows at each of its places.  A request is under way only after start()
\* and outside baselines; a payload is counted only while it is admitted or credited.
PlaceInv ==
  /\ phase \in {"checking", "recording", "admitting", "sending", "waiting", "accounting",
                 "crediting", "judging"} => started # NotStarted /\ baseline = NoBaseline
  /\ observing # "no" => phase \in {"admitting", "crediting"}
  /\ phase \in {"checking", "recording"} => calls < MaxCalls

\* What was reported has been charged, but for the reply at hand; and where ask() ends,
\* budget.json is up to date.
RecordInv ==
  /\ reported = used + (IF phase = "accounting" THEN NotNegative(reply.usage) ELSE 0)
  /\ phase \in {"idle", "judging", "failed", "done"} => ledger = Snapshot

\* A reply is received and not yet observed.
Uncredited == phase = "accounting" \/ (phase = "crediting" /\ observing = "no")

\* What was received has been observed, but for the reply at hand, which stays unobserved
\* when its charge is refused.
ContentInv ==
  OnceOnly =>
    IF Uncredited THEN received = MadeAndReply
    ELSE received = made \/ LastReplyUncounted

\* A worker that is waited for is killed when the budget ends, or at once.
DeadlineInv ==
  phase = "waiting" => deadline <= now \/ deadline = started + excluded + Seconds

CallInv == CallTypeOK /\ PlaceInv /\ RecordInv /\ ContentInv /\ DeadlineInv

\* Every step of a request is one of the budget's or none.
LEMMA CallStepIsBudgetStep ==
  ASSUME CallTypeOK, [CallNext]_mvars
  PROVE  [BudgetStep]_vars
<1> USE DEF CallTypeOK, BudgetStep
<1>1. ASSUME NEW k \in Contents, NEW empty \in BOOLEAN, Ask(k, empty)
      PROVE  BudgetStep
  BY <1>1 DEF Ask
<1>2. CASE CheckBudget \/ CheckWork
  BY <1>2 DEF CheckBudget, CheckWork
<1>3. ASSUME NEW k \in Contents
      PROVE  Single(k) \in [Contents -> Nat]
  BY DEF Single
<1>4. CASE RecordRequest
  BY <1>3, <1>4 DEF RecordRequest
<1>5. CASE CountPrompt
  BY <1>5 DEF CountPrompt
<1>6. CASE AdmitRequest \/ EndCredit
  BY <1>6 DEF AdmitRequest, EndCredit
<1>7. CASE ChargeUsage
  <2>1. reply.usage \in Nat
    BY <1>7 DEF ChargeUsage, Replies
  <2>2. QED
    BY <1>7, <2>1 DEF ChargeUsage
<1>8. CASE RejectUsage
  BY <1>8 DEF RejectUsage
<1>9. CASE CreditReply
  <2>1. reply.text \in Contents
    BY DEF Replies
  <2>2. QED
    BY <1>3, <1>9, <2>1 DEF CreditReply
<1>10. CASE CountReply
  <2>1. reply.text \in Contents
    BY DEF Replies
  <2>2. QED
    BY <1>10, <2>1 DEF CountReply
<1>11. CASE Elapse
  BY <1>11 DEF Elapse
<1>12. CASE Baseline
  BY <1>12 DEF Baseline
<1>13. CASE UNCHANGED vars
  BY <1>13
<1>14. QED
  BY <1>1, <1>2, <1>4, <1>5, <1>6, <1>7, <1>8, <1>9, <1>10, <1>11, <1>12, <1>13
     DEF CallNext, Controller, Send, Accept, Reject, Receive, ProviderError, ProviderTimeout,
         Finish, Ended, mvars

LEMMA SnapshotType == ASSUME TypeOK PROVE Snapshot \in Nat \X Nat
BY LimitsAssumption DEF Snapshot, TypeOK, Counted, CountedOf

LEMMA RemainingNat == ASSUME TypeOK, ClockOrder PROVE Remaining \in Nat
BY LimitsAssumption, NotNegativeNat DEF TypeOK, ClockOrder, Remaining, NotStarted

LEMMA UsageNat == ASSUME NEW r \in Replies PROVE NotNegative(r.usage) \in Nat
<1>1. r.usage \in Int
  BY BoundAssumption DEF Replies, Unusable
<1>2. QED
  BY <1>1, NotNegativeNat

LEMMA CallTypeStep ==
  ASSUME IInv, CallTypeOK, PlaceInv, [CallNext]_mvars
  PROVE  CallTypeOK'
<1>1. TypeOK' /\ Snapshot' \in Nat \X Nat
  <2>1. TypeOK'
    BY CallStepIsBudgetStep, TypeStep DEF IInv
  <2>2. QED
    BY <2>1, LimitsAssumption DEF Snapshot, TypeOK, Counted, CountedOf
<1>2. Snapshot \in Nat \X Nat
  BY SnapshotType DEF IInv
<1> USE <1>1, <1>2 DEF CallTypeOK, Phases
<1>3. ASSUME NEW k \in Contents, NEW empty \in BOOLEAN, Ask(k, empty)
      PROVE  CallTypeOK'
  BY <1>3 DEF Ask
<1>4. CASE CheckBudget \/ AdmitRequest \/ CheckWork
  BY <1>4 DEF CheckBudget, AdmitRequest, CheckWork, Proceed, callVars
<1>5. CASE RecordRequest
  <2>1. calls' \in 0..MaxCalls
    BY <1>5, CallAssumption DEF RecordRequest, PlaceInv
  <2>2. QED
    BY <1>5, <2>1 DEF RecordRequest
<1>6. CASE CountPrompt \/ CountReply
  BY <1>6 DEF CountPrompt, CountReply, callVars
<1>7. CASE Send
  <2>1. deadline' \in Nat
    BY <1>7, RemainingNat DEF Send, IInv, TypeOK
  <2>2. QED
    BY <1>7, <2>1 DEF Send
<1>8. ASSUME NEW r \in Replies, Receive(r)
      PROVE  CallTypeOK'
  <2>1. reported' \in Nat /\ received' \in [Contents -> Nat]
    BY <1>8, UsageNat DEF Receive, Replies
  <2>2. QED
    BY <1>8, <2>1 DEF Receive
<1>9. CASE ProviderError \/ ProviderTimeout \/ RejectUsage \/ Reject
  BY <1>9 DEF ProviderError, ProviderTimeout, RejectUsage, Reject, Raise, callVars
<1>10. CASE ChargeUsage \/ CreditReply \/ EndCredit
  BY <1>10 DEF ChargeUsage, CreditReply, EndCredit, callVars
<1>11. CASE Accept \/ Finish \/ Elapse \/ Baseline
  BY <1>11 DEF Accept, Finish, Elapse, Baseline, callVars
<1>12. CASE UNCHANGED mvars
  BY <1>12 DEF mvars, callVars
<1>13. QED
  BY <1>3, <1>4, <1>5, <1>6, <1>7, <1>8, <1>9, <1>10, <1>11, <1>12
     DEF CallNext, Controller, Ended
LEMMA PlaceStep ==
  ASSUME CallTypeOK, PlaceInv, [CallNext]_mvars
  PROVE  PlaceInv'
<1> USE DEF PlaceInv, CallTypeOK
<1>1. ASSUME NEW k \in Contents, NEW empty \in BOOLEAN, Ask(k, empty)
      PROVE  PlaceInv'
  BY <1>1 DEF Ask, Start, Idle, loopVars, TypeOK, NotStarted
<1>2. CASE CheckBudget \/ CheckWork
  BY <1>2 DEF CheckBudget, CheckWork, Proceed, Check, clockVars, loopVars, callVars
<1>3. CASE RecordRequest
  BY <1>3 DEF RecordRequest, ObserveRequest, Observe, vars, clockVars, loopVars
<1>4. CASE CountPrompt \/ CountReply
  BY <1>4 DEF CountPrompt, CountReply, CountEntry, clockVars, callVars
<1>5. CASE AdmitRequest \/ EndCredit
  BY <1>5 DEF AdmitRequest, EndCredit, EndObserve, Proceed, clockVars, callVars
<1>6. CASE Send \/ Accept \/ Finish
  BY <1>6 DEF Send, Accept, Finish, vars, clockVars, loopVars, callVars
<1>7. ASSUME NEW r \in Replies, Receive(r)
      PROVE  PlaceInv'
  BY <1>7 DEF Receive, vars, clockVars, loopVars
<1>8. CASE ProviderError \/ ProviderTimeout \/ Reject
  BY <1>8 DEF ProviderError, ProviderTimeout, Reject, Raise, vars, clockVars, loopVars, callVars
<1>9. CASE RejectUsage
  BY <1>9 DEF RejectUsage, Raise, ChargeUnusable, clockVars, loopVars, callVars
<1>10. CASE ChargeUsage
  BY <1>10 DEF ChargeUsage, Charge, clockVars, loopVars, callVars
<1>11. CASE CreditReply
  BY <1>11 DEF CreditReply, ObserveResponse, Observe, vars, clockVars, loopVars, callVars
<1>12. CASE Elapse
  BY <1>12 DEF Elapse, Advance, clockVars, loopVars, callVars
<1>13. CASE Baseline
  BY <1>13 DEF Baseline, BeginBaseline, EndBaseline, loopVars, callVars
<1>14. CASE UNCHANGED mvars
  BY <1>14 DEF mvars, vars, clockVars, loopVars, callVars
<1>15. QED
  BY <1>1, <1>2, <1>3, <1>4, <1>5, <1>6, <1>7, <1>8, <1>9, <1>10, <1>11, <1>12, <1>13, <1>14
     DEF CallNext, Controller, Ended

\* Content and usage stay as they are unless they are counted.
LEMMA RecordStep ==
  ASSUME CallTypeOK, PlaceInv, RecordInv, [CallNext]_mvars
  PROVE  RecordInv'
<1>1. /\ used \in Nat
      /\ reported \in Nat
      /\ reply \in Replies
      /\ \A r \in Replies : NotNegative(r.usage) \in Nat
  BY UsageNat DEF CallTypeOK, TypeOK
<1>2. ASSUME UNCHANGED <<used, context>>
      PROVE  Snapshot' = Snapshot
  BY <1>2 DEF Snapshot, Counted, CountedOf
<1> USE <1>1 DEF RecordInv
<1>3. ASSUME NEW k \in Contents, NEW empty \in BOOLEAN, Ask(k, empty)
      PROVE  RecordInv'
  BY <1>3, <1>2 DEF Ask, Start, ledgerVars
<1>4. CASE CheckBudget \/ CheckWork
  BY <1>4, <1>2 DEF CheckBudget, CheckWork, Proceed, Check, ledgerVars, callVars
<1>5. CASE RecordRequest
  BY <1>5 DEF RecordRequest, ObserveRequest, Observe, vars, ledgerVars
<1>6. CASE CountPrompt \/ CountReply
  BY <1>6 DEF CountPrompt, CountReply, CountEntry, callVars
<1>7. CASE AdmitRequest \/ EndCredit
  BY <1>7 DEF AdmitRequest, EndCredit, EndObserve, Proceed, ledgerVars, callVars
<1>8. CASE Send \/ Accept \/ Finish
  BY <1>8, <1>2 DEF Send, Accept, Finish, vars, ledgerVars, callVars
<1>9. ASSUME NEW r \in Replies, Receive(r)
      PROVE  RecordInv'
  BY <1>9 DEF Receive, vars, ledgerVars
<1>10. CASE ProviderError \/ ProviderTimeout \/ Reject
  BY <1>10 DEF ProviderError, ProviderTimeout, Reject, Raise, vars, ledgerVars, callVars
<1>11. CASE RejectUsage
  <2>1. NotNegative(reply.usage) = 0
    BY <1>11 DEF RejectUsage, NotNegative, Unusable
  <2>2. QED
    BY <1>11, <2>1 DEF RejectUsage, Raise, ChargeUnusable, ledgerVars, callVars
<1>12. CASE ChargeUsage
  <2>1. NotNegative(reply.usage) = reply.usage
    BY <1>12 DEF ChargeUsage, NotNegative, Replies
  <2>2. used' = used + reply.usage
    BY <1>12 DEF ChargeUsage, Charge
  <2>3. QED
    BY <1>12, <2>1, <2>2 DEF ChargeUsage, callVars
<1>13. CASE CreditReply
  BY <1>13, <1>2 DEF CreditReply, ObserveResponse, Observe, vars, ledgerVars, callVars
<1>14. CASE Elapse \/ Baseline
  BY <1>14, <1>2 DEF Elapse, Advance, Baseline, BeginBaseline, EndBaseline, ledgerVars, callVars
<1>15. CASE UNCHANGED mvars
  BY <1>15, <1>2 DEF mvars, vars, ledgerVars, callVars
<1>16. QED
  BY <1>3, <1>4, <1>5, <1>6, <1>7, <1>8, <1>9, <1>10, <1>11, <1>12, <1>13, <1>14, <1>15
     DEF CallNext, Controller, Ended

\* A reply is received once and observed at most once, and only a refused charge keeps it
\* from being observed.
LEMMA ContentStep ==
  ASSUME CallTypeOK, PlaceInv, ContentInv, [CallNext]_mvars
  PROVE  ContentInv'
<1> SUFFICES ASSUME OnceOnly PROVE ContentInv'
  BY DEF ContentInv
<1> USE DEF Uncredited, LastReplyUncounted
<1>1. /\ received \in [Contents -> Nat]
      /\ made \in [Contents -> Nat]
      /\ reply \in Replies
  BY DEF CallTypeOK, TypeOK
<1>2. ASSUME UNCHANGED <<received, made>>, received = made, ~Uncredited'
      PROVE  ContentInv'
  BY <1>2 DEF ContentInv
<1>3. ASSUME UNCHANGED <<received, made, reply, phase, observing, refused>>
      PROVE  ContentInv'
  BY <1>3 DEF ContentInv, MadeAndReply
<1>4. ASSUME NEW k \in Contents, NEW empty \in BOOLEAN, Ask(k, empty)
      PROVE  ContentInv'
  BY <1>2, <1>4 DEF Ask, Start, historyVars, ContentInv
<1>5. CASE CheckBudget \/ CheckWork
  BY <1>2, <1>5 DEF CheckBudget, CheckWork, Check, Proceed, historyVars, callVars, ContentInv
<1>6. CASE RecordRequest \/ CountPrompt
  BY <1>2, <1>6
     DEF RecordRequest, ObserveRequest, Observe, CountPrompt, CountEntry, historyVars, callVars,
         ContentInv
<1>7. CASE AdmitRequest
  BY <1>2, <1>7 DEF AdmitRequest, EndObserve, Proceed, historyVars, callVars, ContentInv
<1>8. CASE Send \/ ProviderError \/ ProviderTimeout \/ Accept \/ Reject \/ Finish
  BY <1>2, <1>8
     DEF Send, ProviderError, ProviderTimeout, Accept, Reject, Finish, Raise, vars, historyVars,
         callVars, ContentInv
<1>9. ASSUME NEW r \in Replies, Receive(r)
      PROVE  ContentInv'
  <2>1. received = made /\ UNCHANGED made /\ reply' = r /\ phase' = "accounting"
    BY <1>9 DEF Receive, ContentInv, vars, historyVars
  <2>2. received' = [k \in Contents |-> made[k] + Single(r.text)[k]]
    <3>1. received' = [made EXCEPT ![r.text] = @ + 1]
      BY <1>9, <2>1 DEF Receive
    <3>2. \A k \in Contents : made[k] \in Nat
      BY <1>1
    <3>3. \A k \in Contents : Single(r.text)[k] = IF k = r.text THEN 1 ELSE 0
      BY DEF Single
    <3>4. \A k \in Contents : made[k] + Single(r.text)[k] =
                              IF k = r.text THEN made[k] + 1 ELSE made[k]
      BY <3>2, <3>3
    <3>5. r.text \in Contents
      BY DEF Replies
    <3>6. received' = [k \in Contents |-> IF k = r.text THEN made[k] + 1 ELSE made[k]]
      BY <1>1, <3>1, <3>5
    <3>7. QED
      BY <3>4, <3>6
  <2>3. received' = MadeAndReply'
    BY <2>1, <2>2 DEF MadeAndReply, Single
  <2>4. QED
    BY <2>1, <2>3 DEF ContentInv
<1>10. CASE RejectUsage
  <2>1. /\ received' = MadeAndReply'
        /\ phase' = "failed"
        /\ refused'
    BY <1>10
       DEF RejectUsage, ChargeUnusable, Tell, Reasons, Raise, historyVars, callVars, ContentInv,
           MadeAndReply
  <2>2. QED
    BY <2>1 DEF ContentInv
<1>11. CASE ChargeUsage
  <2>1. /\ received' = MadeAndReply'
        /\ phase' = IF answer' = "granted" THEN "crediting" ELSE "failed"
        /\ UNCHANGED observing
    BY <1>11
       DEF ChargeUsage, Charge, loopVars, historyVars, callVars, ContentInv, MadeAndReply
  <2>2. observing = "no"
    BY <1>11 DEF ChargeUsage, Charge, Idle
  <2>3. answer' # "granted" => refused'
    BY <1>11 DEF ChargeUsage, Charge, Tell, Verdict, Reasons, CallTypeOK, TypeOK
  <2>4. QED
    BY <2>1, <2>2, <2>3 DEF ContentInv
<1>12. CASE CreditReply
  <2>1. /\ received = MadeAndReply
        /\ made' = [k \in Contents |-> made[k] + Single(reply.text)[k]]
        /\ UNCHANGED received
        /\ observing' = "response"
        /\ phase' = "crediting"
    BY <1>12
       DEF CreditReply, ObserveResponse, Observe, callVars, ContentInv
  <2>2. received' = made' /\ ~Uncredited'
    BY <2>1 DEF MadeAndReply
  <2>3. QED
    BY <2>2 DEF ContentInv
<1>13. CASE CountReply \/ EndCredit
  <2>1. observing # "no"
    BY <1>13 DEF CountReply, CountEntry, EndCredit, EndObserve
  <2>2. received = made
    BY <1>13, <2>1 DEF CountReply, EndCredit, ContentInv
  <2>3. UNCHANGED <<received, made>>
    BY <1>13 DEF CountReply, CountEntry, EndCredit, EndObserve, historyVars, callVars
  <2>4. CASE CountReply
    <3>1. phase' = "crediting" /\ observing' # "no"
      BY <2>1, <2>4 DEF CountReply, CountEntry
    <3>2. ~Uncredited'
      BY <3>1
    <3>3. QED
      BY <1>2, <2>2, <2>3, <3>2
  <2>5. CASE EndCredit
    <3>1. phase' \in {"judging", "failed"}
      BY <2>5 DEF EndCredit
    <3>2. ~Uncredited'
      BY <3>1
    <3>3. QED
      BY <1>2, <2>2, <2>3, <3>2
  <2>6. QED
    BY <1>13, <2>4, <2>5
<1>14. CASE Elapse \/ Baseline
  BY <1>3, <1>14
     DEF Elapse, Advance, Baseline, BeginBaseline, EndBaseline, loopVars, historyVars, callVars
<1>15. CASE UNCHANGED mvars
  BY <1>3, <1>15 DEF mvars, vars, loopVars, historyVars, callVars
<1>16. QED
  BY <1>4, <1>5, <1>6, <1>7, <1>8, <1>9, <1>10, <1>11, <1>12, <1>13, <1>14, <1>15
     DEF CallNext, Controller, Ended

\* What the worker may take is what is left; while it runs, only the clock moves.
LEMMA DeadlineStep ==
  ASSUME IInv, CallTypeOK, PlaceInv, DeadlineInv, [CallNext]_mvars
  PROVE  DeadlineInv'
<1> USE DEF DeadlineInv
<1>1. CASE Send
  <2>1. started # NotStarted /\ UNCHANGED <<now, started, excluded>>
    BY <1>1 DEF Send, PlaceInv, vars, clockVars
  <2>2. /\ started \in Nat
        /\ now \in Nat
        /\ excluded \in Nat
        /\ Seconds \in Nat
    BY <2>1, LimitsAssumption DEF IInv, TypeOK
  <2>3. deadline' = now + NotNegative(Seconds - (now - started - excluded))
    BY <1>1, <2>1 DEF Send, Remaining
  <2>4. CASE Seconds - (now - started - excluded) > 0
    BY <2>1, <2>2, <2>3, <2>4 DEF NotNegative
  <2>5. CASE ~(Seconds - (now - started - excluded) > 0)
    BY <2>1, <2>2, <2>3, <2>5 DEF NotNegative
  <2>6. QED
    BY <2>4, <2>5
<1>2. CASE Elapse
  <2>1. /\ now \in Nat
        /\ deadline \in Nat
    BY DEF CallTypeOK, TypeOK
  <2>2. QED
    BY <1>2, <2>1 DEF Elapse, Advance, clockVars, callVars
<1>3. ASSUME UNCHANGED <<now, started, excluded, deadline, phase>>
      PROVE  DeadlineInv'
  BY <1>3
<1>4. ASSUME phase' # "waiting"
      PROVE  DeadlineInv'
  BY <1>4
<1>5. QED
  BY <1>1, <1>2, <1>3, <1>4
     DEF CallNext, Controller, Ask, CheckBudget, RecordRequest, CountPrompt, AdmitRequest,
         RejectUsage, ChargeUsage, CreditReply, CountReply, EndCredit, Accept, Reject, Receive,
         ProviderError, ProviderTimeout, Baseline, CheckWork, Finish, Ended, Proceed, Raise,
         CountEntry, mvars, vars, clockVars, callVars
LEMMA InitCallInv == CallInit => CallInv
<1> SUFFICES ASSUME CallInit PROVE CallInv
  OBVIOUS
<1>1. TypeOK
  BY InitIInv DEF CallInit, IInv
<1>2. CallTypeOK
  <2>1. NoReply \in Replies
    BY CallAssumption, BoundAssumption DEF NoReply, Replies
  <2>2. /\ reply \in Replies
        /\ calls \in 0..MaxCalls
        /\ received \in [Contents -> Nat]
        /\ ledger \in Nat \X Nat
    BY <2>1, CallAssumption DEF CallInit, Nothing
  <2>3. QED
    BY <1>1, <2>2, CallAssumption DEF CallInit, CallTypeOK, Phases
<1>3. PlaceInv
  BY DEF CallInit, Init, PlaceInv
<1>4. RecordInv
  <2>1. Counted = 0 /\ used = 0
    BY DEF CallInit, Init, Counted, CountedOf
  <2>2. QED
    BY <2>1 DEF CallInit, RecordInv, Snapshot
<1>5. ContentInv /\ DeadlineInv
  BY DEF CallInit, Init, ContentInv, Uncredited, DeadlineInv
<1>6. QED
  BY <1>2, <1>3, <1>4, <1>5 DEF CallInv

----------------------------------------------------------------------------
(* The theorems: the budget by itself and under requests.                  *)

\* ask(), with everything between two requests, uses the budget as it is meant to be
\* used: each of its steps is one operation of the object, or none.
THEOREM CallIsBudget == CallSpec => Unbounded
<1>1. CallInit => Init /\ IInv /\ CallInv
  BY InitIInv, InitCallInv DEF CallInit
<1>2. IInv /\ CallInv /\ [CallNext]_mvars => (IInv /\ CallInv)'
  BY IInvStep, CallStepIsBudgetStep, CallTypeStep, PlaceStep, RecordStep, ContentStep,
     DeadlineStep
     DEF CallInv
<1>3. CallInv /\ [CallNext]_mvars => [BudgetStep]_vars
  BY CallStepIsBudgetStep DEF CallInv
<1>4. QED
  BY <1>1, <1>2, <1>3, PTL DEF CallSpec, Unbounded

LEMMA SpecIsUnbounded == Spec => Unbounded
<1>1. [Next]_vars => [BudgetStep]_vars
  BY BoundAssumption DEF Next, BudgetStep, Tick, Payloads
<1>2. QED
  BY <1>1, PTL DEF Spec, Unbounded

\* The invariant that carries the properties of the budget, alone and under requests.
THEOREM BudgetInvariant == Spec \/ CallSpec => []IInv
BY SpecIsUnbounded, CallIsBudget, UnboundedInvariant, PTL

\* Every variable keeps its type: no count and no excluded time is ever negative.
THEOREM BudgetTypes == Spec \/ CallSpec => []TypeOK
<1>1. IInv => TypeOK
  BY DEF IInv
<1>2. QED
  BY <1>1, BudgetInvariant, PTL

\* The deadline is measured on worked time, whatever the sequence of baselines.
THEOREM DeadlineIsWorkTime == Spec \/ CallSpec => []BaselinesAreFree
<1>1. IInv => BaselinesAreFree
  BY DEF IInv
<1>2. QED
  BY <1>1, BudgetInvariant, PTL

\* After the first BudgetExceeded no operation ever grants work again.
THEOREM FirstRefusalIsFinal == Spec \/ CallSpec => []FirstLimitStops
<1>1. IInv => FirstLimitStops
  BY DEF IInv
<1>2. QED
  BY <1>1, BudgetInvariant, PTL

\* attempt_budget.py implements the abstract Allowance, alone and as ask() uses it.
THEOREM BudgetKeepsPromise == Spec \/ CallSpec => KeepsPromise
BY SpecIsUnbounded, CallIsBudget, UnboundedPromise, PTL

\* Replayed history is free and repeated replies that are observed are not, for every
\* price list and every interleaving of requests, responses, charges and baselines.
THEOREM LedgerCountsOnce == Spec \/ CallSpec => []CountedOnce
BY SpecIsUnbounded, CallIsBudget, UnboundedLedger, PTL

\* What ask() knows at each of its places, the record and the deadline among it.
THEOREM CallInvariant == CallSpec => []CallInv
<1>1. CallInit => IInv /\ CallInv
  BY InitIInv, InitCallInv DEF CallInit
<1>2. IInv /\ CallInv /\ [CallNext]_mvars => (IInv /\ CallInv)'
  BY IInvStep, CallStepIsBudgetStep, CallTypeStep, PlaceStep, RecordStep, ContentStep,
     DeadlineStep
     DEF CallInv
<1>3. QED
  BY <1>1, <1>2, PTL DEF CallSpec

\* Wherever ask() has returned or failed, what the saved responses report has been
\* charged, once, budget.json holds the budget as it is, and no reply is missing from the
\* content count but a last one whose own charge was refused.
THEOREM RecordAlwaysComplete == CallSpec => []RecordIsComplete
<1>1. CallInv => RecordIsComplete
  <2> SUFFICES ASSUME CallInv, Settled
               PROVE  /\ used = reported
                      /\ ledger = Snapshot
                      /\ OnceOnly => received = made \/ LastReplyUncounted
    BY DEF RecordIsComplete
  <2>1. phase # "accounting" /\ phase \in {"idle", "failed", "done"}
    BY DEF Settled
  <2>2. used \in Nat /\ reported = used + 0 /\ ledger = Snapshot
    BY <2>1 DEF CallInv, RecordInv, CallTypeOK, TypeOK
  <2>3. OnceOnly => received = made \/ LastReplyUncounted
    BY <2>1 DEF CallInv, ContentInv, Uncredited
  <2>4. QED
    BY <2>2, <2>3
<1>2. QED
  BY <1>1, CallInvariant, PTL

\* While a worker is waited for the clock moves only within the work time allowed.
THEOREM ProviderAlwaysStops == CallSpec => ProviderStopsAtDeadline
<1>1. ASSUME IInv, CallInv, [CallNext]_mvars, phase = "waiting", now' > now
      PROVE  WorkTime < Seconds
  <2>1. now \in Nat /\ now' # now
    BY <1>1 DEF IInv, TypeOK
  <2>2. Elapse
    BY <1>1, <2>1
       DEF CallNext, Controller, Ask, CheckBudget, RecordRequest, CountPrompt, AdmitRequest,
           Send, RejectUsage, ChargeUsage, CreditReply, CountReply, EndCredit, Accept, Reject,
           Receive, ProviderError, ProviderTimeout, Baseline, CheckWork, Finish, Ended, mvars, vars
  <2>3. /\ now < deadline
        /\ started # NotStarted
        /\ baseline = NoBaseline
    BY <1>1, <2>2 DEF Elapse, CallInv, PlaceInv
  <2>4. /\ started \in Nat
        /\ excluded \in Nat
        /\ deadline \in Nat
        /\ Seconds \in Nat
    BY <1>1, <2>3, LimitsAssumption DEF IInv, TypeOK, CallInv, CallTypeOK
  <2>5. deadline = started + excluded + Seconds
    BY <1>1, <2>1, <2>3, <2>4 DEF CallInv, DeadlineInv
  <2>6. WorkTime = now - started - excluded
    BY <2>3 DEF WorkTime
  <2>7. QED
    BY <2>1, <2>3, <2>4, <2>5, <2>6
<1>2. IInv /\ CallInv /\ [CallNext]_mvars =>
        [phase = "waiting" /\ now' > now => WorkTime < Seconds]_mvars
  BY <1>1
<1>3. QED
  BY <1>2, BudgetInvariant, CallInvariant, PTL DEF CallSpec, ProviderStopsAtDeadline
=============================================================================
