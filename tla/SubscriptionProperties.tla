----------------------- MODULE SubscriptionProperties -----------------------
(***************************************************************************)
(* What makes the subscription workflow correct: its type invariant, the   *)
(* safety properties, the liveness properties under the fairness Temporal  *)
(* gives, and the promise of Lifecycle that it implements.                 *)
(***************************************************************************)
EXTENDS Subscription, Workflows

Charges(interval) == {c \in charges : c.interval = interval}
Paid == \E c \in charges : c.interval = intervalID /\ c.ok

TrialStages  == {"TrialStarted", "trialNotice", "TrialWillEnd", "trialEnd"}
ChargeStages == {"charging", "recording"} \cup PaymentHooks
PaidStages   == {"Activated", "Renewed", "Recovered", "noticeWait", "RenewalUpcoming",
                 "periodWait", "nextPeriod"}

\* Every variable has its type; dunning stays within the plan's attempts.
TypeOK ==
    /\ plan \in Plans
    /\ intervalID \in Nat /\ renewalCount \in 0..MaxRenewals
    /\ periodStart \in Nat /\ periodEnd \in Nat /\ periodEndAttr \in Nat
    /\ phase \in Phases /\ phaseAttr \in Phases \ {"starting"}
    /\ at \in Locations /\ now \in Nat
    /\ dunningAttempt \in 0..plan.DunningMaxAttempts
    /\ chargeOk \in BOOLEAN /\ occurredAt \in Nat
    /\ charges \subseteq [interval: Nat, purpose: {"activation", "renewal", "dunning"},
                          attempt: Nat, ok: BOOLEAN]
    /\ successes \in Nat /\ failures \in Nat
    /\ used \subseteq Nat \X (Hooks \cup {"activation", "renewal", "dunning"}) \X Nat
    /\ cancelRequested \in BOOLEAN /\ context \in 0..MaxUpdates
    /\ cancelSignal \in BOOLEAN /\ contextSent \in 0..MaxUpdates
    /\ contextSignals \in Seq(1..MaxUpdates)
    /\ activate \in {"sent", "rejected", "running", "completed", "failed"}

-----------------------------------------------------------------------------
(* Money *)

\* Whatever is retried, duned or replayed, a billing interval is charged for
\* with success at most once (Charge, Renew, Dun and the rotation of IntervalID).
OneSuccessfulChargePerInterval ==
    \A c, d \in charges : c.ok /\ d.ok /\ c.interval = d.interval => c = d

\* The customer is never ahead of the calendar: the n-th successful charge is
\* not made before the n-th paid period has begun, the trial being free.
NeverChargedAhead ==
    LET n == Cardinality({c \in charges : c.ok})
        free == IF plan.TrialDuration > 0 THEN plan.TrialDuration ELSE 0
    IN  n > 0 => now >= free + (n - 1) * plan.Cadence

\* Nothing is charged, or even attempted, before the trial is over.
TrialIsFree == plan.TrialDuration > 0 /\ charges # {} => now >= plan.TrialDuration

\* "Exponential backoff: initial * 2^(attempt-1)", as it is written.
PromisedBackoff(n) == plan.DunningRetryBackoff * 2^(n - 1)

\* The n-th dunning charge comes the initial backoff times 2^(n-1) after the
\* charge that failed before it, however late the hooks in between were. Where
\* that is too long for a duration the code's product wraps around, and dunning
\* may charge at once: but not before it has waited through a quarter of the
\* range of durations (Dun; any plan, any number of attempts).
DunningBackoffHonoured ==
    at = "charging" /\ phase = "past_due" =>
        \/ now >= occurredAt + PromisedBackoff(dunningAttempt)
        \/ occurredAt >= periodStart + Quarter

\* No two activities other than a charge and its billing event bear the same
\* idempotency key, in any interval (idempotencyKey, hookID).
KeyIsFresh == Dispatching => Key \notin used

\* Away from a charge under way, the counters of the View are the number of
\* this interval's charges that succeeded and failed.
CountersAgree ==
    at # "recording" =>
        /\ successes = Cardinality({c \in Charges(intervalID) : c.ok})
        /\ failures = Cardinality({c \in Charges(intervalID) : ~c.ok})

\* The sender of Activate is told "activated" only when the first period is paid,
\* and "failed" only when nothing was ever taken and the subscription is over
\* (Activate's handler and Run agree on the outcome). Of an update that is
\* rejected this says nothing.
CallerLearnsTheOutcome ==
    /\ activate = "completed" => \E c \in charges : c.interval = 0 /\ c.ok
    /\ activate = "failed" => phase = "deactivated" /\ ~\E c \in charges : c.ok

-----------------------------------------------------------------------------
(* Leaving *)

HandledCancelIsFinal ==
    [][cancelRequested => cancelRequested' /\ renewalCount' = renewalCount]_vars

NoRenewalNoticeAfterCancel ==
    [][at # at' /\ at' = "RenewalUpcoming" => ~cancelRequested]_vars

\* A cancel the workflow has handled is never undone, and is followed neither by
\* another period nor by the notice of one.
CancelIsHeeded == HandledCancelIsFinal /\ NoRenewalNoticeAfterCancel

\* A period that was paid for is served to its end, cancel or not.
PaidPeriodServed == phase = "deactivated" /\ Paid => now >= periodEnd

\* A cancel that reaches the workflow while the trial runs costs nothing.
TrialCancelIsFree ==
    [](cancelRequested /\ at \in TrialStages => [](charges = {}))

-----------------------------------------------------------------------------
(* What the outside sees *)

\* What the API takes this workflow for: that its first charge has gone through
\* it knows once the phase says so.
Known == [phase |-> phase, run |-> renewalCount + 1, trial |-> plan.TrialDuration,
          open |-> at # "done",
          paid |-> \/ renewalCount > 0 \/ phase \in {"active", "canceled"}
                   \/ phase = "deactivated" /\ Paid]

\* Visibility, which lists subscriptions and counts them for the per-user
\* limit, tells what the workflow's own View tells; while the View says
\* "starting", it tells what the API and continue-as-new have left there.
AttributesTellTheView == periodEndAttr = periodEnd /\ phaseAttr = PhaseAttr(Known)

\* The workflow does only what SubscriptionService, and with it the per-user
\* limit, the listing and the answers to callers, take workflows to do.
AsTheApiTakesIt ==
    Known = Started(plan.TrialDuration) /\ [][MayBecome(Known, Known')]_Known

\* What was merged into the context is not undone by an older update, nor by
\* continue-as-new. (An update that is still in its channel when the run ends is
\* lost with it, as a cancel is.)
ContextNeverGoesBack == [][context' >= context]_vars

\* The lifecycle promise.
Promise == INSTANCE Lifecycle WITH
    phase   <- IF phase # "starting" THEN phase
               ELSE IF renewalCount = 0 THEN "start" ELSE "active",
    cycle   <- renewalCount,
    paid    <- Paid,
    leaving <- cancelRequested

ImplementsLifecycle == Promise!Spec

\* The numbers of this interval's charges that came to this end.
Attempts(ok) == {c.attempt : c \in {d \in Charges(intervalID) : d.ok = ok}}

\* How far the collection of the interval's payment has come. Trials, backoffs
\* and the rest of the period are no steps of it.
CollectionStep ==
    CASE at = "recording" -> "record"
      [] at \in PaymentHooks \cup {"PastDue"} -> "notify"
      [] OTHER -> IF Paid THEN "paid"
                  ELSE IF at \in {"Deactivated", "done"} /\ Charges(intervalID) # {}
                  THEN "exhausted" ELSE "charge"

\* The charge of an activation stands alone, a renewal's is followed by dunning.
LastAttempt == IF renewalCount = 0 THEN 0 ELSE plan.DunningMaxAttempts

Collected == INSTANCE Collection WITH
    step <- CollectionStep, declined <- Attempts(FALSE), accepted <- Attempts(TRUE),
    limit <- LastAttempt

\* The charges of every interval are made, recorded and notified one after the
\* other, none once one was accepted, and dunning gives up after the last only
\* (Charge, Renew, Dun, Run).
CollectsInTurn == Collected!Spec

-----------------------------------------------------------------------------
(* Why the safety properties hold: where the root stands tells what it has  *)
(* done. Inv is inductive together with TypeOK.                             *)

\* The phase that goes with each location.
PhaseFollows ==
    /\ at = "start" => phase = "starting"
    /\ at \in TrialStages => phase = "trialing"
    /\ at = "awaitActivation" => phase \in {"starting", "trialing"} /\ renewalCount = 0
    /\ at \in ChargeStages => phase \in {"starting", "trialing", "past_due"}
    /\ at \in {"PastDue", "backoff"} => phase = "past_due"
    /\ at \in PaidStages => phase = "active"
    /\ at \in {"Canceled", "canceledWait"} => phase = "canceled"
    /\ at \in {"Deactivated", "done"} => phase = "deactivated"
    /\ phase = "trialing" => renewalCount = 0
    /\ phase = "past_due" => renewalCount > 0
    /\ at = "Activated" => renewalCount = 0

\* Whether the interval has been paid for.
PaidFollows ==
    /\ at \in {"start", "awaitActivation", "charging", "PaymentFailed", "PastDue", "backoff"}
           \cup TrialStages => ~Paid
    /\ at = "recording" => (chargeOk <=> Paid)
    /\ at \in {"PaymentOK", "Canceled", "canceledWait"} \cup PaidStages => Paid

\* Dunning counts its attempts from one, and nothing else does.
DunningFollows ==
    /\ at = "backoff" => dunningAttempt > 0
    /\ at \in ChargeStages => (phase = "past_due" <=> dunningAttempt > 0)
    /\ at \in {"start", "awaitActivation", "PastDue"} \cup TrialStages \cup PaidStages
           => dunningAttempt = 0

\* Whoever is canceled was heard, and whoever renews was not.
CancelFollows ==
    /\ at \in {"Canceled", "canceledWait"} => cancelRequested
    /\ at = "nextPeriod" => ~cancelRequested

\* The ledger knows no interval but the past ones and this one.
LedgerInOrder ==
    /\ intervalID = renewalCount
    /\ \A c \in charges : c.interval <= intervalID

\* Time passes, and the trial is over before the first charge.
TimeInOrder ==
    /\ occurredAt <= now
    /\ renewalCount = 0 /\ plan.TrialDuration > 0 => periodEnd = plan.TrialDuration
    /\ renewalCount > 0 \/ charges # {} \/ at \in {"awaitActivation", "charging"}
          => plan.TrialDuration <= 0 \/ now >= plan.TrialDuration

\* The phase, the payment, the attempts and the cancel go with the location.
Control == PhaseFollows /\ PaidFollows /\ DunningFollows /\ CancelFollows

\* A period has begun before it is charged for, and is over before the next begins.
\* A charge that dunning made was late by its backoff; and the next backoff fits
\* a duration, or the ones before it add up to a quarter of the range.
DunningInTime ==
    /\ periodStart <= now
    /\ at = "nextPeriod" => now >= periodEnd
    /\ at = "recording" \/ at \in PaymentHooks \/ phase = "past_due" => occurredAt >= periodStart
    /\ at = "backoff" =>
           \/ PromisedBackoff(dunningAttempt) < 2 * Quarter
           \/ occurredAt >= periodStart + Quarter
    /\ phase = "past_due" /\ (at = "recording" \/ at \in PaymentHooks) =>
           \/ occurredAt >= periodStart + PromisedBackoff(dunningAttempt)
           \/ occurredAt >= periodStart + Quarter

\* What every step of Run, its phases and its handlers relies on and preserves.
Inv ==
    /\ Control /\ LedgerInOrder /\ TimeInOrder /\ DunningInTime
    /\ OneSuccessfulChargePerInterval /\ DunningBackoffHonoured
    /\ PaidPeriodServed /\ AttributesTellTheView /\ CallerLearnsTheOutcome

-----------------------------------------------------------------------------
(* Liveness: Temporal retries tasks and fires timers for ever, and payment  *)
(* and billing activities end after a bounded number of attempts.           *)

\* Hooks are retried without limit: they end only if the integrator answers.
\* Nobody is taken to send anything: not a cancel, not an update, not Activate.
Fairness == WF_vars(Progress) /\ WF_vars(OnCancel) /\ WF_vars(OnContextUpdate)
FairSpec == Spec /\ Fairness

\* The same, with an integrator that may never answer.
SpecWithoutIntegrator ==
    Spec /\ WF_vars(Progress /\ at \notin plan.EnabledHooks)
         /\ WF_vars(OnCancel) /\ WF_vars(OnContextUpdate)

\* A trial is over and nobody has activated it: where, as it is deployed, it stays
\* for ever (TrialEnds, which the code does not keep).
Inactivated == at = "awaitActivation" /\ phase = "trialing"

\* A cancel the workflow has handled ends it, through hooks, dunning and what is
\* left of the period; on a plan with a trial, unless it waits for an activation.
HandledCancelEnds == cancelRequested ~> at = "done" \/ Inactivated

\* Dunning ends: recovered or exhausted.
DunningEnds == phase = "past_due" ~> phase \in {"active", "deactivated"}

\* A renewal under way comes to its outcome.
RenewalResolves == renewalCount > 0 /\ phase = "starting" ~> phase \in {"active", "past_due"}

\* Every period comes to an end, in a renewal or in the end of the workflow; a
\* trial at least to the wait for its activation.
EveryPeriodEnds ==
    \A n \in 0..(MaxRenewals - 1) :
        renewalCount = n ~> renewalCount > n \/ at = "done" \/ Inactivated

-----------------------------------------------------------------------------
(* What documents and comments say of the workflow, and its runs refute *)

\* A trial converts or ends: "the Activate update will be processed at trial end".
TrialEnds == phase = "trialing" ~> phase \in {"active", "deactivated"}

\* "defers Deactivation to the end of the current Billing Period": a cancel
\* the API has accepted is not followed by another period.
AcceptedCancelIsHonoured ==
    [][cancelSignal \/ cancelRequested => renewalCount' = renewalCount]_vars

=============================================================================
