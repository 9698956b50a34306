---------------------------- MODULE Subscription ----------------------------
(***************************************************************************)
(* The Subscription entity workflow: one durable process per subscription, *)
(* run by Temporal, that trials, activates, charges, duns, cancels and     *)
(* continues as new once per billing period (src/internal/workflow).       *)
(*                                                                         *)
(* `at' is where the root coroutine stands: "start" and "nextPeriod" are   *)
(* the two ends of a run, a hook's name is the dispatch of that hook, and  *)
(* the remaining values are the activity or the timer it is blocked on.    *)
(* A workflow is cooperative, so the signal coroutines run only while the  *)
(* root is blocked, and no time passes between two blocking points.        *)
(***************************************************************************)
EXTENDS PlanTerms, Sequences, FiniteSets

CONSTANTS
    Plans,          \* the plans a subscription may be created on
    MaxRenewals,    \* bound: continue-as-new is followed this many times
    MaxDelay,       \* bound: how late a timer, task or activity may be
    MaxUpdates,     \* bound: how many context updates are sent
    BuffersUpdates, \* does Temporal keep an update that has no handler yet?
    Resends         \* may anybody send Activate again when the trial is over?

Timers == {"trialNotice", "trialEnd", "backoff", "noticeWait", "periodWait",
           "canceledWait"}

Locations == Hooks \cup Timers \cup
    {"start", "awaitActivation", "charging", "recording", "nextPeriod", "done"}

Phases == {"starting", "trialing", "active", "past_due", "canceled", "deactivated"}

ASSUME PlansAssumption == Plans \subseteq Plan
ASSUME BoundsAssumption == MaxRenewals \in Nat /\ MaxDelay \in Nat /\ MaxUpdates \in Nat
ASSUME SwitchesAssumption == BuffersUpdates \in BOOLEAN /\ Resends \in BOOLEAN

\* Facts about the factors of the backoffs, which the provers need to be told.
ASSUME PowersAssumption ==
    /\ 2^0 = 1
    /\ \A p \in Plans : \A n \in 1..p.DunningMaxAttempts :
           2^(n - 1) \in Nat /\ 2^n = 2 * 2^(n - 1)

VARIABLES
    plan,            \* frozen at creation
    intervalID,      \* identity of this run's billing interval
    renewalCount, periodStart, periodEnd,
    periodEndAttr,   \* SubflowPeriodEnd, as Visibility has it
    phase,
    phaseAttr,       \* SubflowPhase, as Visibility has it
    at,              \* where the root coroutine stands
    now,             \* workflow.Now of the root's latest step
    dunningAttempt,
    chargeOk,        \* chargeErr = nil, for the latest charge
    occurredAt,      \* when the latest charge of this run was answered
    charges,         \* what the payment gateway has answered, ever
    successes, failures,
    used,            \* idempotency keys of the activities completed so far
    cancelRequested, context,
    cancelSignal,    \* a cancel was accepted and is not handled yet
    contextSignals,  \* context updates accepted and not handled yet
    contextSent,     \* the latest context update accepted
    activate         \* what became of the Activate update

run        == <<plan, intervalID, renewalCount, periodStart, periodEnd, periodEndAttr>>
phases     == <<phase, phaseAttr>>
billing    == <<chargeOk, occurredAt, charges, successes, failures>>
inbox      == <<cancelSignal, contextSignals, contextSent>>
signalled  == <<cancelRequested, context>>
vars == <<run, phases, at, now, dunningAttempt, billing, used, signalled, inbox, activate>>

-----------------------------------------------------------------------------
(* Time and blocking *)

\* Mutant: the backoff does not grow.
BackoffFlat == plan.DunningRetryBackoff

\* Exponential backoff: initial * 2^(attempt-1).
Backoff == BackoffOf(plan, dunningAttempt)

\* When the timer armed at time t at location loc fires; t itself for the rest.
Deadline(loc, t) ==
    CASE loc = "trialNotice" -> periodEnd - plan.TrialEndNoticeBefore
      [] loc = "noticeWait"  -> periodEnd - plan.RenewalUpcomingBefore
      [] loc = "backoff"     -> t + Backoff
      [] loc \in {"trialEnd", "periodWait", "canceledWait"} -> periodEnd
      [] OTHER -> t

\* Does the root coroutine yield at loc? Not for a hook the plan does not
\* enable, a timer that is due when it is armed, or the ends of a run.
Blocks(loc, t) ==
    CASE loc \in Hooks  -> loc \in plan.EnabledHooks
      [] loc \in Timers -> Deadline(loc, t) > t
      [] OTHER -> loc \in {"awaitActivation", "charging", "recording"}

Yielded == Blocks(at, now)

Later(a, b) == IF a > b THEN a ELSE b

\* The moments at which the root may make its next step: at once unless it is
\* blocked or its first task has not been picked up yet.
Moments ==
    IF Yielded \/ at = "start"
    THEN now..(Later(now, Deadline(at, now)) + MaxDelay)
    ELSE {now}

Due(t) == t >= Deadline(at, now)

\* Mutant: Await, which has no timeout.
WakesOnCancel(t) == cancelRequested

\* AwaitWithTimeout on the cancel flag.
Wakes(t) == cancelRequested \/ Due(t)

-----------------------------------------------------------------------------
(* Pieces of a step of the root coroutine *)

Purpose ==
    CASE phase = "past_due" -> "dunning"
      [] phase # "past_due" /\ renewalCount = 0 -> "activation"
      [] OTHER -> "renewal"

\* Mutant: the keys of dunning attempts do not differ.
KeyWithoutAttempt == <<intervalID, IF at \in Hooks THEN at ELSE Purpose, 0>>

\* The key of the charge or the hook dispatched at `at'. The billing event
\* bears its charge's key on purpose and is not counted.
Key == <<intervalID,
         IF at \in Hooks THEN at ELSE Purpose,
         IF at \in {"charging"} \cup PaymentHooks THEN dunningAttempt ELSE 0>>

Dispatching == at = "charging" \/ at \in plan.EnabledHooks

\* The root leaves location here at time t.
Leave(here, t) ==
    /\ at = here
    /\ t \in Moments
    /\ now' = t
    /\ used' = IF Dispatching THEN used \cup {Key} ELSE used
    /\ UNCHANGED <<run, signalled, inbox>>

\* Temporal rejects an update whose handler is not registered by the time the
\* first workflow task blocks.
Settle(loc, t) ==
    activate' = IF activate = "sent" /\ ~BuffersUpdates
                   /\ loc # "awaitActivation" /\ Blocks(loc, t)
                THEN "rejected" ELSE activate

GoTo(loc, t) == at' = loc /\ Settle(loc, t)

\* Mutant: a phase change that is not upserted.
TransitionUnpublished(p) == phase' = p /\ UNCHANGED phaseAttr

TransitionTo(p) == phase' = p /\ phaseAttr' = p

Deactivate == TransitionTo("deactivated") /\ at' = "Deactivated"

\* Mutant: a cancel that does not wait for the end of the period.
CancelAtOnce == Deactivate

\* The canceled tail of Run.
Cancel == TransitionTo("canceled") /\ at' = "Canceled"

\* Where Run waits, from its second half on.
WaitFor(t) ==
    CASE periodEnd <= t -> "nextPeriod"
      [] plan.RenewalUpcomingBefore > 0
         /\ periodEnd - plan.RenewalUpcomingBefore > t -> "noticeWait"
      [] OTHER -> "periodWait"

\* Mutant: a cancel that came while the period was being paid for is missed.
AwaitPeriodEndBlind(t) == at' = WaitFor(t) /\ UNCHANGED phases

\* The period is paid for: wait for its end.
AwaitPeriodEnd(t) ==
    IF cancelRequested THEN Cancel ELSE at' = WaitFor(t) /\ UNCHANGED phases

\* Mutant: one attempt too many.
AttemptsLeftOneMore == dunningAttempt <= plan.DunningMaxAttempts

AttemptsLeft == dunningAttempt < plan.DunningMaxAttempts

\* Mutant: Run returns Dun's error.
ExhaustedUnhandled == at' = "done" /\ UNCHANGED phases

\* Dun returns ErrDunningExhausted.
Exhausted == Deactivate

\* The head of the loop in Dun.
NextDunningAttempt ==
    IF AttemptsLeft
    THEN /\ dunningAttempt' = dunningAttempt + 1
         /\ at' = "backoff"
         /\ UNCHANGED phases
    ELSE Exhausted /\ UNCHANGED dunningAttempt

-----------------------------------------------------------------------------
(* The first period: trial and activation *)

StartTrial(t) ==
    /\ Leave("start", t)
    /\ renewalCount = 0 /\ plan.TrialDuration > 0
    /\ TransitionTo("trialing")
    /\ GoTo("TrialStarted", t)
    /\ UNCHANGED <<dunningAttempt, billing>>

StartWithoutTrial(t) ==
    /\ Leave("start", t)
    /\ renewalCount = 0 /\ plan.TrialDuration <= 0
    /\ GoTo("awaitActivation", t)
    /\ UNCHANGED <<phases, dunningAttempt, billing>>

\* Trial, from the hook that opens it to its first wait.
Trial(t) ==
    /\ Leave("TrialStarted", t)
    /\ IF cancelRequested THEN Deactivate /\ UNCHANGED activate
       ELSE /\ GoTo(CASE periodEnd <= t -> "awaitActivation"
                      [] plan.TrialEndNoticeBefore > 0
                         /\ periodEnd - plan.TrialEndNoticeBefore > t -> "trialNotice"
                      [] OTHER -> "trialEnd", t)
            /\ UNCHANGED phases
    /\ UNCHANGED <<dunningAttempt, billing>>

TrialNotice(t) ==
    /\ Leave("trialNotice", t)
    /\ Wakes(t)
    /\ IF cancelRequested THEN Deactivate
       ELSE at' = "TrialWillEnd" /\ UNCHANGED phases
    /\ UNCHANGED <<dunningAttempt, billing, activate>>

\* Mutant: the notice of the trial's end is taken for the end.
TrialWillEndHasty(t) ==
    /\ Leave("TrialWillEnd", t)
    /\ at' = "awaitActivation"
    /\ UNCHANGED <<phases, dunningAttempt, billing, activate>>

TrialWillEnd(t) ==
    /\ Leave("TrialWillEnd", t)
    /\ at' = "trialEnd"
    /\ UNCHANGED <<phases, dunningAttempt, billing, activate>>

\* Mutant: the cancel flag is not read after the wait.
TrialEndBlind(t) ==
    /\ Leave("trialEnd", t) /\ Wakes(t)
    /\ at' = "awaitActivation"
    /\ UNCHANGED <<phases, dunningAttempt, billing, activate>>

TrialEnd(t) ==
    /\ Leave("trialEnd", t)
    /\ Wakes(t)
    /\ IF cancelRequested THEN Deactivate
       ELSE at' = "awaitActivation" /\ UNCHANGED phases
    /\ UNCHANGED <<dunningAttempt, billing, activate>>

\* The Activate update finds its handler.
Activate(t) ==
    /\ activate = "sent"
    /\ Leave("awaitActivation", t)
    /\ activate' = "running"
    /\ at' = "charging"
    /\ UNCHANGED <<phases, dunningAttempt, billing>>

\* The update answers its caller once the hook is out.
Activated(t) ==
    /\ Leave("Activated", t)
    /\ activate' = "completed"
    /\ AwaitPeriodEnd(t)
    /\ UNCHANGED <<dunningAttempt, billing>>

-----------------------------------------------------------------------------
(* Charging *)

StartRenewal(t) ==
    /\ Leave("start", t)
    /\ renewalCount > 0
    /\ at' = "charging"
    /\ UNCHANGED <<phases, dunningAttempt, billing, activate>>

\* The ChargePayment activity ends, retries included.
ChargePayment(t, ok) ==
    /\ Leave("charging", t)
    /\ chargeOk' = ok
    /\ occurredAt' = t
    /\ charges' = charges \cup
           {[interval |-> intervalID, purpose |-> Purpose, attempt |-> dunningAttempt, ok |-> ok]}
    /\ at' = "recording"
    /\ UNCHANGED <<phases, dunningAttempt, successes, failures, activate>>

\* Mutant: failures are not counted.
CountSuccesses(ok) ==
    successes' = (IF ok THEN successes + 1 ELSE successes) /\ UNCHANGED failures

Count(ok) ==
    /\ successes' = IF ok THEN successes + 1 ELSE successes
    /\ failures' = IF ok THEN failures ELSE failures + 1

\* Mutant: the charge's error is dropped.
OutcomeIgnored == "PaymentOK"

Outcome == IF chargeOk THEN "PaymentOK" ELSE "PaymentFailed"

\* The RecordBillingEvent activity ends, well or badly: its result is dropped.
RecordBillingEvent(t) ==
    /\ Leave("recording", t)
    /\ Count(chargeOk)
    /\ at' = Outcome
    /\ UNCHANGED <<phases, dunningAttempt, chargeOk, occurredAt, charges, activate>>

\* Charge returns nil to Activate, Renew or Dun.
ChargeSucceeded(t) ==
    /\ Leave("PaymentOK", t)
    /\ TransitionTo("active")
    /\ dunningAttempt' = 0
    /\ at' = CASE Purpose = "activation" -> "Activated"
               [] Purpose = "renewal"    -> "Renewed"
               [] Purpose = "dunning"    -> "Recovered"
    /\ UNCHANGED <<billing, activate>>

\* Charge returns an error: the caller of Activate learns of it.
ActivationFailed(t) ==
    /\ Leave("PaymentFailed", t)
    /\ Purpose = "activation"
    /\ activate' = "failed"
    /\ Deactivate
    /\ UNCHANGED <<dunningAttempt, billing>>

RenewalFailed(t) ==
    /\ Leave("PaymentFailed", t)
    /\ Purpose = "renewal"
    /\ TransitionTo("past_due")
    /\ at' = "PastDue"
    /\ UNCHANGED <<dunningAttempt, billing, activate>>

DunningFailed(t) ==
    /\ Leave("PaymentFailed", t)
    /\ Purpose = "dunning"
    /\ NextDunningAttempt
    /\ UNCHANGED <<billing, activate>>

Renewed(t) ==
    /\ Leave("Renewed", t)
    /\ AwaitPeriodEnd(t)
    /\ UNCHANGED <<dunningAttempt, billing, activate>>

-----------------------------------------------------------------------------
(* Dunning *)

PastDue(t) ==
    /\ Leave("PastDue", t)
    /\ NextDunningAttempt
    /\ UNCHANGED <<billing, activate>>

SleepBackoff(t) ==
    /\ Leave("backoff", t)
    /\ Due(t)
    /\ at' = "charging"
    /\ UNCHANGED <<phases, dunningAttempt, billing, activate>>

Recovered(t) ==
    /\ Leave("Recovered", t)
    /\ AwaitPeriodEnd(t)
    /\ UNCHANGED <<dunningAttempt, billing, activate>>

-----------------------------------------------------------------------------
(* The end of the period *)

\* Mutant: the notice goes out whatever ended the wait.
NoticeWaitBlind(t) ==
    /\ Leave("noticeWait", t) /\ Wakes(t)
    /\ at' = "RenewalUpcoming"
    /\ UNCHANGED <<phases, dunningAttempt, billing, activate>>

NoticeWait(t) ==
    /\ Leave("noticeWait", t)
    /\ Wakes(t)
    /\ IF cancelRequested THEN Cancel
       ELSE at' = "RenewalUpcoming" /\ UNCHANGED phases
    /\ UNCHANGED <<dunningAttempt, billing, activate>>

\* Mutant: the wait that follows the notice is left out.
RenewalUpcomingHasty(t) ==
    /\ Leave("RenewalUpcoming", t)
    /\ IF cancelRequested THEN Cancel
       ELSE at' = "nextPeriod" /\ UNCHANGED phases
    /\ UNCHANGED <<dunningAttempt, billing, activate>>

RenewalUpcoming(t) ==
    /\ Leave("RenewalUpcoming", t)
    /\ IF cancelRequested THEN Cancel
       ELSE at' = "periodWait" /\ UNCHANGED phases
    /\ UNCHANGED <<dunningAttempt, billing, activate>>

PeriodWait(t) ==
    /\ Leave("periodWait", t)
    /\ Wakes(t)
    /\ IF cancelRequested THEN Cancel
       ELSE at' = "nextPeriod" /\ UNCHANGED phases
    /\ UNCHANGED <<dunningAttempt, billing, activate>>

Canceled(t) ==
    /\ Leave("Canceled", t)
    /\ IF periodEnd > t THEN at' = "canceledWait" /\ UNCHANGED phases
       ELSE Deactivate
    /\ UNCHANGED <<dunningAttempt, billing, activate>>

CanceledWait(t) ==
    /\ Leave("canceledWait", t)
    /\ Due(t)
    /\ Deactivate
    /\ UNCHANGED <<dunningAttempt, billing, activate>>

Deactivated(t) ==
    /\ Leave("Deactivated", t)
    /\ at' = "done"
    /\ UNCHANGED <<phases, dunningAttempt, billing, activate>>

\* Mutant: the interval's identity is not rotated.
SameIntervalID == intervalID

\* A UUID no interval has had before.
FreshIntervalID == intervalID + 1

\* Mutant: the context is left behind.
ContextForgotten == 0

\* Context.Clone, into the next run's input.
ContextCarried == context

\* The input of the next run: the same plan, the period that follows.
NextBillingPeriod ==
    /\ intervalID' = FreshIntervalID
    /\ renewalCount' = renewalCount + 1
    /\ periodStart' = periodEnd
    /\ periodEnd' = periodEnd + plan.Cadence
    /\ context' = ContextCarried
    /\ cancelRequested' = FALSE
    /\ UNCHANGED plan

\* NewSubscription: whatever is not in the input starts afresh.
NewSubscription ==
    /\ phase' = "starting" /\ at' = "start"
    /\ dunningAttempt' = 0
    /\ chargeOk' = FALSE /\ occurredAt' = 0
    /\ successes' = 0 /\ failures' = 0

\* Continue-as-new. The signals still in the channels of the ending run are
\* lost with it, and SubflowPhase stays as it is.
NextPeriod ==
    /\ at = "nextPeriod"
    /\ renewalCount < MaxRenewals
    /\ NextBillingPeriod
    /\ NewSubscription
    /\ periodEndAttr' = periodEnd'
    /\ cancelSignal' = FALSE /\ contextSignals' = <<>>
    /\ UNCHANGED <<phaseAttr, now, charges, used, contextSent, activate>>

-----------------------------------------------------------------------------
(* Signals and updates *)

unsignalled == <<run, phases, at, now, dunningAttempt, billing, used>>

\* CancelSubscription returns once Temporal has the signal.
SignalCancel ==
    /\ at # "done" /\ ~cancelSignal
    /\ cancelSignal' = TRUE
    /\ UNCHANGED <<unsignalled, signalled, contextSignals, contextSent, activate>>

OnCancel ==
    /\ Yielded /\ cancelSignal
    /\ cancelSignal' = FALSE
    /\ cancelRequested' = TRUE
    /\ UNCHANGED <<unsignalled, context, contextSignals, contextSent, activate>>

\* The n-th UpdateSubscriptionContext gives one key of the context the value n.
SignalUpdateContext ==
    /\ at # "done" /\ contextSent < MaxUpdates
    /\ contextSent' = contextSent + 1
    /\ contextSignals' = Append(contextSignals, contextSent + 1)
    /\ UNCHANGED <<unsignalled, signalled, cancelSignal, activate>>

OnContextUpdate ==
    /\ Yielded /\ contextSignals # <<>>
    /\ context' = Head(contextSignals)
    /\ contextSignals' = Tail(contextSignals)
    /\ UNCHANGED <<unsignalled, cancelRequested, cancelSignal, contextSent, activate>>

\* Somebody may send Activate to the workflow once the trial is over. Nobody has
\* to, and nothing that the repository deploys does.
ResendActivate ==
    /\ Resends
    /\ at = "awaitActivation" /\ activate = "rejected"
    /\ activate' = "sent"
    /\ UNCHANGED <<unsignalled, signalled, inbox>>

\* The workflow has completed, or the bound on renewals is reached.
Stopped ==
    /\ at = "done" \/ (at = "nextPeriod" /\ renewalCount = MaxRenewals)
    /\ UNCHANGED vars

-----------------------------------------------------------------------------
\* CreateSubscription starts the workflow and sends Activate in one call.
CreateSubscription(p) ==
    LET trial == p.TrialDuration > 0 IN
    /\ plan = p
    /\ intervalID = 0 /\ renewalCount = 0
    /\ periodStart = 0
    /\ periodEnd = IF trial THEN p.TrialDuration ELSE p.Cadence
    /\ periodEndAttr = periodEnd
    /\ phase = "starting"
    /\ phaseAttr = IF trial THEN "trialing" ELSE "active"
    /\ activate = "sent"

Init ==
    /\ \E p \in Plans : CreateSubscription(p)
    /\ at = "start" /\ now = 0 /\ dunningAttempt = 0
    /\ chargeOk = FALSE /\ occurredAt = 0 /\ charges = {}
    /\ successes = 0 /\ failures = 0 /\ used = {}
    /\ cancelRequested = FALSE /\ context = 0
    /\ cancelSignal = FALSE /\ contextSignals = <<>> /\ contextSent = 0

FirstPeriodStep(t) ==
    \/ StartTrial(t) \/ StartWithoutTrial(t) \/ Trial(t) \/ TrialNotice(t)
    \/ TrialWillEnd(t) \/ TrialEnd(t) \/ Activate(t) \/ Activated(t)

ChargeStep(t) ==
    \/ StartRenewal(t) \/ \E ok \in BOOLEAN : ChargePayment(t, ok)
    \/ RecordBillingEvent(t) \/ ChargeSucceeded(t) \/ ActivationFailed(t)
    \/ RenewalFailed(t) \/ DunningFailed(t) \/ Renewed(t)
    \/ PastDue(t) \/ SleepBackoff(t) \/ Recovered(t)

PeriodStep(t) ==
    \/ NoticeWait(t) \/ RenewalUpcoming(t) \/ PeriodWait(t) \/ Canceled(t)
    \/ CanceledWait(t) \/ Deactivated(t)

\* A step of the root coroutine (or of the update handler it waits for).
RootStep(t) == FirstPeriodStep(t) \/ ChargeStep(t) \/ PeriodStep(t)

Progress == (\E t \in Moments : RootStep(t)) \/ NextPeriod

Environment ==
    \/ SignalCancel \/ OnCancel \/ SignalUpdateContext \/ OnContextUpdate
    \/ ResendActivate \/ Stopped

Next == Progress \/ Environment

Spec == Init /\ [][Next]_vars

=============================================================================
