------------------------- MODULE SubscriptionProofs -------------------------
(***************************************************************************)
(* Theorems about the subscription workflow, for every set of plans and    *)
(* every bound.                                                            *)
(***************************************************************************)
EXTENDS SubscriptionProperties, SequenceTheorems, TLAPS

\* The fields of a plan have their types.
LEMMA PlanType ==
    ASSUME plan \in Plans
    PROVE  /\ plan.Cadence \in Nat \ {0}
           /\ plan.TrialDuration \in Int
           /\ plan.TrialEndNoticeBefore \in Int
           /\ plan.RenewalUpcomingBefore \in Int
           /\ plan.DunningMaxAttempts \in Nat
           /\ plan.DunningRetryBackoff \in Duration
           /\ plan.EnabledHooks \subseteq Hooks
<1>1. Duration \subseteq Int
  BY WidthAssumption DEF Duration
<1>2. plan \in Plan
  BY PlansAssumption
<1>. QED
  BY <1>1, <1>2 DEF Plan

\* The root steps at a moment that is not before its last.
LEMMA MomentsType ==
    ASSUME TypeOK, NEW t \in Moments
    PROVE  t \in Nat /\ t >= now
<1>1. CASE t \in now..(Later(now, Deadline(at, now)) + MaxDelay)
  BY <1>1 DEF TypeOK
<1>2. CASE t \in {now}
  BY <1>2 DEF TypeOK
<1>. QED
  BY <1>1, <1>2 DEF Moments

\* A key is made of an interval, the name of what is dispatched, an attempt.
LEMMA KeyType ==
    ASSUME TypeOK
    PROVE  Key \in Nat \X (Hooks \cup {"activation", "renewal", "dunning"}) \X Nat
BY DEF TypeOK, Key, Purpose

\* What Leave leaves: time moves forward, the keys keep their type, and the
\* identity of the run, the flags and the channels stay as they are.
LEMMA LeaveType ==
    ASSUME TypeOK, NEW here, NEW t, Leave(here, t)
    PROVE  /\ now' \in Nat /\ now' >= now
           /\ used' \subseteq Nat \X (Hooks \cup {"activation", "renewal", "dunning"}) \X Nat
           /\ UNCHANGED <<plan, intervalID, renewalCount, periodStart, periodEnd,
                          periodEndAttr, cancelRequested, context, cancelSignal,
                          contextSignals, contextSent>>
<1>1. now' \in Nat /\ now' >= now
  BY MomentsType DEF Leave
<1>2. used' \subseteq Nat \X (Hooks \cup {"activation", "renewal", "dunning"}) \X Nat
  BY KeyType DEF Leave, TypeOK
<1>. QED
  BY <1>1, <1>2 DEF Leave, run, signalled, inbox

\* The Activate update is in one of its states, settled or not.
LEMMA SettleType ==
    ASSUME TypeOK, NEW loc, NEW t, Settle(loc, t)
    PROVE  activate' \in {"sent", "rejected", "running", "completed", "failed"}
BY DEF TypeOK, Settle

\* A step of the root that leaves the charges and the attempts alone.
LEMMA MoveType ==
    ASSUME TypeOK, NEW here, NEW t, Leave(here, t),
           at' \in Locations,
           UNCHANGED phases \/ \E p \in Phases \ {"starting"} : TransitionTo(p),
           UNCHANGED dunningAttempt,
           UNCHANGED billing,
           activate' \in {"sent", "rejected", "running", "completed", "failed"}
    PROVE  TypeOK'
<1>1. phase' \in Phases /\ phaseAttr' \in Phases \ {"starting"}
  BY DEF TypeOK, phases, TransitionTo
<1>2. UNCHANGED <<chargeOk, occurredAt, charges, successes, failures>>
  BY DEF billing
<1>. QED
  BY LeaveType, <1>1, <1>2 DEF TypeOK

\* The steps of the trial and of the activation keep the types.
LEMMA FirstPeriodType ==
    ASSUME TypeOK, NEW t \in Moments, FirstPeriodStep(t)
    PROVE  TypeOK'
<1>. USE DEF Locations, Hooks, PaymentHooks, Timers, Phases
<1>1. CASE StartTrial(t)
  BY <1>1, MoveType, SettleType DEF StartTrial, GoTo
<1>2. CASE StartWithoutTrial(t)
  BY <1>2, MoveType, SettleType DEF StartWithoutTrial, GoTo
<1>3. CASE Trial(t)
  <2>1. CASE cancelRequested
    BY <1>3, <2>1, MoveType DEF Trial, Deactivate, TypeOK
  <2>2. CASE ~cancelRequested
    <3>1. at' \in {"awaitActivation", "trialNotice", "trialEnd"}
      BY <1>3, <2>2 DEF Trial, GoTo
    <3>2. activate' \in {"sent", "rejected", "running", "completed", "failed"}
      BY <1>3, <2>2, SettleType DEF Trial, GoTo
    <3>. QED
      BY <1>3, <2>2, <3>1, <3>2, MoveType DEF Trial
  <2>. QED
    BY <2>1, <2>2
<1>4. CASE TrialNotice(t)
  BY <1>4, MoveType DEF TrialNotice, Deactivate, TypeOK
<1>5. CASE TrialWillEnd(t)
  BY <1>5, MoveType DEF TrialWillEnd, TypeOK
<1>6. CASE TrialEnd(t)
  BY <1>6, MoveType DEF TrialEnd, Deactivate, TypeOK
<1>7. CASE Activate(t)
  BY <1>7, MoveType DEF Activate
<1>8. CASE Activated(t)
  BY <1>8, MoveType DEF Activated, AwaitPeriodEnd, WaitFor, Cancel
<1>. QED
  BY <1>1, <1>2, <1>3, <1>4, <1>5, <1>6, <1>7, <1>8 DEF FirstPeriodStep

\* A step of the root that counts a dunning attempt and leaves the charges alone.
LEMMA DunningType ==
    ASSUME TypeOK, NEW here, NEW t, Leave(here, t),
           at' \in Locations,
           UNCHANGED phases \/ \E p \in Phases \ {"starting"} : TransitionTo(p),
           dunningAttempt' \in 0..plan.DunningMaxAttempts,
           UNCHANGED <<billing, activate>>
    PROVE  TypeOK'
<1>1. phase' \in Phases /\ phaseAttr' \in Phases \ {"starting"}
  BY DEF TypeOK, phases, TransitionTo
<1>2. UNCHANGED <<chargeOk, occurredAt, charges, successes, failures, activate>>
  BY DEF billing
<1>. QED
  BY LeaveType, <1>1, <1>2 DEF TypeOK

\* The loop of Dun keeps the attempts within the plan's.
LEMMA NextDunningAttemptType ==
    ASSUME TypeOK, NEW here, NEW t, Leave(here, t), NextDunningAttempt,
           UNCHANGED <<billing, activate>>
    PROVE  TypeOK'
<1>. USE DEF Locations, Hooks, PaymentHooks, Timers, Phases
<1>1. CASE AttemptsLeft
  <2>1. dunningAttempt' \in 0..plan.DunningMaxAttempts
    BY <1>1, PlanType DEF NextDunningAttempt, AttemptsLeft, TypeOK
  <2>. QED
    BY <1>1, <2>1, DunningType DEF NextDunningAttempt
<1>2. CASE ~AttemptsLeft
  <2>1. dunningAttempt' \in 0..plan.DunningMaxAttempts
    BY <1>2 DEF NextDunningAttempt, TypeOK
  <2>. QED
    BY <1>2, <2>1, DunningType DEF NextDunningAttempt, Exhausted, Deactivate
<1>. QED
  BY <1>1, <1>2

\* The end of a charge keeps the types, of the ledger too.
LEMMA ChargePaymentType ==
    ASSUME TypeOK, NEW t \in Moments, NEW ok \in BOOLEAN, ChargePayment(t, ok)
    PROVE  TypeOK'
<1>1. charges' \subseteq [interval: Nat, purpose: {"activation", "renewal", "dunning"},
                         attempt: Nat, ok: BOOLEAN]
  <2>1. Purpose \in {"activation", "renewal", "dunning"}
    BY DEF Purpose
  <2>2. intervalID \in Nat /\ dunningAttempt \in Nat
    BY PlanType DEF TypeOK
  <2>. QED
    BY <2>1, <2>2 DEF ChargePayment, TypeOK
<1>2. occurredAt' \in Nat
  BY MomentsType DEF ChargePayment
<1>3. UNCHANGED <<phase, phaseAttr, dunningAttempt, successes, failures, activate>>
  BY DEF ChargePayment, phases
<1>. QED
  BY <1>1, <1>2, <1>3, LeaveType DEF ChargePayment, TypeOK, Locations

\* The billing event keeps the types, of the counters too.
LEMMA RecordBillingEventType ==
    ASSUME TypeOK, NEW t, RecordBillingEvent(t)
    PROVE  TypeOK'
<1>1. successes' \in Nat /\ failures' \in Nat
  BY DEF RecordBillingEvent, Count, TypeOK
<1>2. at' \in Locations
  BY DEF RecordBillingEvent, Outcome, Locations, Hooks, PaymentHooks
<1>3. UNCHANGED <<phase, phaseAttr, dunningAttempt, chargeOk, occurredAt, charges, activate>>
  BY DEF RecordBillingEvent, phases
<1>4. Leave("recording", t)
  BY DEF RecordBillingEvent
<1>. QED
  BY <1>1, <1>2, <1>3, <1>4, LeaveType DEF TypeOK

\* Charges, renewals and dunning keep the types.
LEMMA ChargeStepType ==
    ASSUME TypeOK, NEW t \in Moments, ChargeStep(t)
    PROVE  TypeOK'
<1>. USE DEF Locations, Hooks, PaymentHooks, Timers, Phases
<1>1. CASE StartRenewal(t)
  BY <1>1, MoveType DEF StartRenewal, TypeOK
<1>2. CASE \E ok \in BOOLEAN : ChargePayment(t, ok)
  BY <1>2, ChargePaymentType
<1>3. CASE RecordBillingEvent(t)
  BY <1>3, RecordBillingEventType
<1>4. CASE ChargeSucceeded(t)
  <2>1. at' \in Locations
    BY <1>4 DEF ChargeSucceeded, Purpose
  <2>2. dunningAttempt' \in 0..plan.DunningMaxAttempts
    BY <1>4, PlanType DEF ChargeSucceeded, TypeOK
  <2>. QED
    BY <1>4, <2>1, <2>2, DunningType DEF ChargeSucceeded
<1>5. CASE ActivationFailed(t)
  BY <1>5, MoveType DEF ActivationFailed, Deactivate
<1>6. CASE RenewalFailed(t)
  BY <1>6, MoveType DEF RenewalFailed, TypeOK
<1>7. CASE DunningFailed(t)
  BY <1>7, NextDunningAttemptType DEF DunningFailed
<1>8. CASE Renewed(t)
  BY <1>8, MoveType DEF Renewed, AwaitPeriodEnd, WaitFor, Cancel, TypeOK
<1>9. CASE PastDue(t)
  BY <1>9, NextDunningAttemptType DEF PastDue
<1>10. CASE SleepBackoff(t)
  BY <1>10, MoveType DEF SleepBackoff, TypeOK
<1>11. CASE Recovered(t)
  BY <1>11, MoveType DEF Recovered, AwaitPeriodEnd, WaitFor, Cancel, TypeOK
<1>. QED
  BY <1>1, <1>2, <1>3, <1>4, <1>5, <1>6, <1>7, <1>8, <1>9, <1>10, <1>11 DEF ChargeStep

\* The waits for the end of the period keep the types.
LEMMA PeriodStepType ==
    ASSUME TypeOK, NEW t \in Moments, PeriodStep(t)
    PROVE  TypeOK'
<1>. USE DEF Locations, Hooks, PaymentHooks, Timers, Phases
<1>1. CASE NoticeWait(t)
  BY <1>1, MoveType DEF NoticeWait, Cancel, TypeOK
<1>2. CASE RenewalUpcoming(t)
  BY <1>2, MoveType DEF RenewalUpcoming, Cancel, TypeOK
<1>3. CASE PeriodWait(t)
  BY <1>3, MoveType DEF PeriodWait, Cancel, TypeOK
<1>4. CASE Canceled(t)
  BY <1>4, MoveType DEF Canceled, Deactivate, TypeOK
<1>5. CASE CanceledWait(t)
  BY <1>5, MoveType DEF CanceledWait, Deactivate, TypeOK
<1>6. CASE Deactivated(t)
  BY <1>6, MoveType DEF Deactivated, TypeOK
<1>. QED
  BY <1>1, <1>2, <1>3, <1>4, <1>5, <1>6 DEF PeriodStep

\* Continue-as-new keeps the types.
LEMMA NextPeriodType ==
    ASSUME TypeOK, NextPeriod
    PROVE  TypeOK'
<1>1. periodEnd' \in Nat /\ periodStart' \in Nat /\ periodEndAttr' \in Nat
  BY PlanType DEF NextPeriod, NextBillingPeriod, TypeOK
<1>2. intervalID' \in Nat /\ renewalCount' \in 0..MaxRenewals
  BY BoundsAssumption DEF NextPeriod, NextBillingPeriod, FreshIntervalID, TypeOK
<1>3. dunningAttempt' \in 0..plan'.DunningMaxAttempts
  BY PlanType DEF NextPeriod, NextBillingPeriod, NewSubscription, TypeOK
<1>4. UNCHANGED <<plan, phaseAttr, now, charges, used, context, contextSent, activate>>
  BY DEF NextPeriod, NextBillingPeriod, ContextCarried
<1>5. /\ phase' = "starting" /\ at' = "start"
      /\ chargeOk' = FALSE /\ occurredAt' = 0 /\ successes' = 0 /\ failures' = 0
      /\ cancelRequested' = FALSE /\ cancelSignal' = FALSE /\ contextSignals' = <<>>
  BY DEF NextPeriod, NextBillingPeriod, NewSubscription
<1>. QED
  BY <1>1, <1>2, <1>3, <1>4, <1>5, EmptySeq DEF TypeOK, Phases, Locations

\* Signals, updates and their handlers keep the types.
LEMMA EnvironmentType ==
    ASSUME TypeOK, Environment
    PROVE  TypeOK'
<1>. USE DEF unsignalled, signalled, inbox, run, phases, billing
<1>1. CASE SignalCancel
  BY <1>1 DEF SignalCancel, TypeOK
<1>2. CASE OnCancel
  BY <1>2 DEF OnCancel, TypeOK
<1>3. CASE SignalUpdateContext
  <2>1. contextSent' \in 1..MaxUpdates /\ contextSignals' \in Seq(1..MaxUpdates)
    BY <1>3, BoundsAssumption DEF SignalUpdateContext, TypeOK
  <2>. QED
    BY <1>3, <2>1 DEF SignalUpdateContext, TypeOK
<1>4. CASE OnContextUpdate
  <2>1. context' \in 1..MaxUpdates /\ contextSignals' \in Seq(1..MaxUpdates)
    BY <1>4, HeadTailProperties DEF OnContextUpdate, TypeOK
  <2>. QED
    BY <1>4, <2>1 DEF OnContextUpdate, TypeOK
<1>5. CASE ResendActivate
  BY <1>5 DEF ResendActivate, TypeOK
<1>6. CASE Stopped
  BY <1>6 DEF Stopped, vars, TypeOK
<1>. QED
  BY <1>1, <1>2, <1>3, <1>4, <1>5, <1>6 DEF Environment

\* A subscription just created has its types.
LEMMA InitType ==
    ASSUME Init
    PROVE  TypeOK
<1>1. PICK p \in Plans : CreateSubscription(p)
  BY DEF Init
<1>2. plan \in Plans
  BY <1>1 DEF CreateSubscription
<1>3. periodStart \in Nat /\ periodEnd \in Nat /\ periodEndAttr \in Nat
  BY <1>1, <1>2, PlanType DEF CreateSubscription
<1>4. /\ intervalID = 0 /\ renewalCount = 0 /\ activate = "sent"
      /\ phase = "starting" /\ phaseAttr \in {"trialing", "active"}
  BY <1>1 DEF CreateSubscription
<1>5. contextSignals \in Seq(1..MaxUpdates)
  BY EmptySeq DEF Init
<1>6. 0 \in 0..plan.DunningMaxAttempts /\ 0 \in 0..MaxRenewals /\ 0 \in 0..MaxUpdates
  BY <1>2, PlanType, BoundsAssumption
<1>. QED
  BY <1>2, <1>3, <1>4, <1>5, <1>6 DEF Init, TypeOK, Phases, Locations

\* A step of the specification preserves the types.
LEMMA NextType ==
    ASSUME TypeOK, [Next]_vars
    PROVE  TypeOK'
<1>1. CASE Progress
  BY <1>1, FirstPeriodType, ChargeStepType, PeriodStepType, NextPeriodType DEF Progress, RootStep
<1>2. CASE Environment
  BY <1>2, EnvironmentType
<1>3. CASE UNCHANGED vars
  BY <1>3 DEF vars, run, phases, billing, signalled, inbox, TypeOK
<1>. QED
  BY <1>1, <1>2, <1>3 DEF Next

\* Every variable keeps its type, and dunning stays within the plan's attempts,
\* whatever the plans.
THEOREM TypeCorrect == Spec => []TypeOK
BY InitType, NextType, PTL DEF Spec

-----------------------------------------------------------------------------
(* The inductive invariant: where the root stands *)

\* Whether the interval is paid for is a matter of the ledger alone.
LEMMA PaidUnchanged ==
    ASSUME UNCHANGED <<charges, intervalID>>
    PROVE  Paid' <=> Paid
BY DEF Paid

\* What a step of the root that leaves the ledger alone does not touch.
LEMMA LeaveKeeps ==
    ASSUME NEW here, NEW t, Leave(here, t), UNCHANGED billing
    PROVE  /\ at = here /\ now' = t
           /\ UNCHANGED <<plan, renewalCount, intervalID, periodStart, periodEnd,
                          periodEndAttr, cancelRequested, chargeOk, occurredAt, charges>>
           /\ Paid' <=> Paid
BY PaidUnchanged DEF Leave, run, signalled, billing

\* The trial and the activation keep to the control.
LEMMA FirstPeriodControl ==
    ASSUME TypeOK, Control, NEW t \in Moments, FirstPeriodStep(t)
    PROVE  Control'
<1>. USE DEF Control, PhaseFollows, PaidFollows, DunningFollows, CancelFollows,
             TrialStages, ChargeStages, PaidStages, PaymentHooks
<1>1. CASE StartTrial(t)
  BY <1>1, LeaveKeeps DEF StartTrial, GoTo, TransitionTo
<1>2. CASE StartWithoutTrial(t)
  BY <1>2, LeaveKeeps DEF StartWithoutTrial, GoTo, phases
<1>3. CASE Trial(t)
  <2>1. CASE cancelRequested
    BY <1>3, <2>1, LeaveKeeps DEF Trial, Deactivate, TransitionTo
  <2>2. CASE ~cancelRequested
    <3>1. at' \in {"awaitActivation", "trialNotice", "trialEnd"}
      BY <1>3, <2>2 DEF Trial, GoTo
    <3>. QED
      BY <1>3, <2>2, <3>1, LeaveKeeps DEF Trial, phases
  <2>. QED
    BY <2>1, <2>2
<1>4. CASE TrialNotice(t)
  BY <1>4, LeaveKeeps DEF TrialNotice, Deactivate, TransitionTo, phases
<1>5. CASE TrialWillEnd(t)
  BY <1>5, LeaveKeeps DEF TrialWillEnd, phases
<1>6. CASE TrialEnd(t)
  BY <1>6, LeaveKeeps DEF TrialEnd, Deactivate, TransitionTo, phases
<1>7. CASE Activate(t)
  BY <1>7, LeaveKeeps DEF Activate, phases, TypeOK
<1>8. CASE Activated(t)
  BY <1>8, LeaveKeeps DEF Activated, AwaitPeriodEnd, WaitFor, Cancel, TransitionTo, phases
<1>. QED
  BY <1>1, <1>2, <1>3, <1>4, <1>5, <1>6, <1>7, <1>8 DEF FirstPeriodStep

\* The loop of Dun, entered unpaid and past due, keeps to the control.
LEMMA NextDunningAttemptControl ==
    ASSUME TypeOK, Control, NEW here \in {"PaymentFailed", "PastDue"}, NEW t,
           Leave(here, t), NextDunningAttempt, phase = "past_due", UNCHANGED billing
    PROVE  Control'
<1>. USE DEF Control, PhaseFollows, PaidFollows, DunningFollows, CancelFollows,
             TrialStages, ChargeStages, PaidStages, PaymentHooks
<1>0. dunningAttempt \in Nat
  BY PlanType DEF TypeOK
<1>1. CASE AttemptsLeft
  BY <1>0, <1>1, LeaveKeeps DEF NextDunningAttempt, phases
<1>2. CASE ~AttemptsLeft
  BY <1>0, <1>2, LeaveKeeps DEF NextDunningAttempt, Exhausted, Deactivate, TransitionTo
<1>. QED
  BY <1>1, <1>2

\* A charge has been paid for exactly if it ended well.
LEMMA ChargePaymentControl ==
    ASSUME TypeOK, Control, NEW t, NEW ok \in BOOLEAN, ChargePayment(t, ok)
    PROVE  Control'
<1>1. /\ at = "charging" /\ at' = "recording" /\ chargeOk' = ok
      /\ UNCHANGED <<intervalID, renewalCount, phase, dunningAttempt, cancelRequested>>
  BY DEF ChargePayment, Leave, run, signalled, phases
<1>2. Paid' <=> ok
  <2>. DEFINE new == [interval |-> intervalID, purpose |-> Purpose,
                      attempt |-> dunningAttempt, ok |-> ok]
  <2>1. ~Paid
    BY <1>1 DEF Control, PaidFollows
  <2>2. charges' = charges \cup {new} /\ intervalID' = intervalID
    BY <1>1 DEF ChargePayment
  <2>3. new.interval = intervalID /\ new.ok = ok
    OBVIOUS
  <2>. HIDE DEF new
  <2>. QED
    BY <2>1, <2>2, <2>3 DEF Paid
<1>. QED
  BY <1>1, <1>2 DEF Control, PhaseFollows, PaidFollows, DunningFollows, CancelFollows,
                    TrialStages, ChargeStages, PaidStages, PaymentHooks

\* The hook of a payment tells what the charge told.
LEMMA RecordBillingEventControl ==
    ASSUME TypeOK, Control, NEW t, RecordBillingEvent(t)
    PROVE  Control'
<1>1. /\ at = "recording" /\ at' = IF chargeOk THEN "PaymentOK" ELSE "PaymentFailed"
      /\ UNCHANGED <<charges, intervalID, renewalCount, phase, dunningAttempt, cancelRequested>>
  BY DEF RecordBillingEvent, Outcome, Leave, run, signalled, phases
<1>2. Paid' <=> Paid
  BY <1>1, PaidUnchanged
<1>. QED
  BY <1>1, <1>2 DEF Control, PhaseFollows, PaidFollows, DunningFollows, CancelFollows,
                    TrialStages, ChargeStages, PaidStages, PaymentHooks

\* Charges, renewals and dunning keep to the control.
LEMMA ChargeStepControl ==
    ASSUME TypeOK, Control, NEW t \in Moments, ChargeStep(t)
    PROVE  Control'
<1>. USE DEF Control, PhaseFollows, PaidFollows, DunningFollows, CancelFollows,
             TrialStages, ChargeStages, PaidStages, PaymentHooks
<1>1. CASE StartRenewal(t)
  BY <1>1, LeaveKeeps DEF StartRenewal, phases
<1>2. CASE \E ok \in BOOLEAN : ChargePayment(t, ok)
  BY <1>2, ChargePaymentControl
<1>3. CASE RecordBillingEvent(t)
  BY <1>3, RecordBillingEventControl
<1>4. CASE ChargeSucceeded(t)
  BY <1>4, LeaveKeeps DEF ChargeSucceeded, TransitionTo, Purpose
<1>5. CASE ActivationFailed(t)
  BY <1>5, LeaveKeeps DEF ActivationFailed, Deactivate, TransitionTo
<1>6. CASE RenewalFailed(t)
  BY <1>6, LeaveKeeps DEF RenewalFailed, TransitionTo, Purpose, TypeOK
<1>7. CASE DunningFailed(t)
  <2>1. phase = "past_due"
    BY <1>7 DEF DunningFailed, Purpose
  <2>. QED
    BY <1>7, <2>1, NextDunningAttemptControl DEF DunningFailed
<1>8. CASE Renewed(t)
  BY <1>8, LeaveKeeps DEF Renewed, AwaitPeriodEnd, WaitFor, Cancel, TransitionTo, phases
<1>9. CASE PastDue(t)
  <2>1. phase = "past_due"
    BY <1>9 DEF PastDue, Leave
  <2>. QED
    BY <1>9, <2>1, NextDunningAttemptControl DEF PastDue
<1>10. CASE SleepBackoff(t)
  BY <1>10, LeaveKeeps DEF SleepBackoff, phases
<1>11. CASE Recovered(t)
  BY <1>11, LeaveKeeps DEF Recovered, AwaitPeriodEnd, WaitFor, Cancel, TransitionTo, phases
<1>. QED
  BY <1>1, <1>2, <1>3, <1>4, <1>5, <1>6, <1>7, <1>8, <1>9, <1>10, <1>11 DEF ChargeStep

\* The waits for the end of the period keep to the control.
LEMMA PeriodStepControl ==
    ASSUME TypeOK, Control, NEW t \in Moments, PeriodStep(t)
    PROVE  Control'
<1>. USE DEF Control, PhaseFollows, PaidFollows, DunningFollows, CancelFollows,
             TrialStages, ChargeStages, PaidStages, PaymentHooks
<1>1. CASE NoticeWait(t)
  BY <1>1, LeaveKeeps DEF NoticeWait, Cancel, TransitionTo, phases
<1>2. CASE RenewalUpcoming(t)
  BY <1>2, LeaveKeeps DEF RenewalUpcoming, Cancel, TransitionTo, phases
<1>3. CASE PeriodWait(t)
  BY <1>3, LeaveKeeps DEF PeriodWait, Cancel, TransitionTo, phases
<1>4. CASE Canceled(t)
  BY <1>4, LeaveKeeps DEF Canceled, Deactivate, TransitionTo, phases
<1>5. CASE CanceledWait(t)
  BY <1>5, LeaveKeeps DEF CanceledWait, Deactivate, TransitionTo, phases
<1>6. CASE Deactivated(t)
  BY <1>6, LeaveKeeps DEF Deactivated, phases
<1>. QED
  BY <1>1, <1>2, <1>3, <1>4, <1>5, <1>6 DEF PeriodStep

\* A fresh interval has not been paid for.
LEMMA NextPeriodControl ==
    ASSUME TypeOK, Control, LedgerInOrder, NextPeriod
    PROVE  Control'
<1>1. ~Paid'
  <2>1. intervalID' = intervalID + 1 /\ charges' = charges
    BY DEF NextPeriod, NextBillingPeriod, FreshIntervalID
  <2>2. \A c \in charges : c.interval # intervalID + 1
    BY DEF LedgerInOrder, TypeOK
  <2>. QED
    BY <2>1, <2>2 DEF Paid
<1>2. at' = "start" /\ phase' = "starting" /\ dunningAttempt' = 0
  BY DEF NextPeriod, NewSubscription
<1>. QED
  BY <1>1, <1>2 DEF Control, PhaseFollows, PaidFollows, DunningFollows, CancelFollows,
                    TrialStages, ChargeStages, PaidStages, PaymentHooks

\* Signals are handled only where the root is blocked, so the decision to
\* renew is not overtaken by one.
LEMMA EnvironmentControl ==
    ASSUME TypeOK, Control, Environment
    PROVE  Control'
<1>1. UNCHANGED <<at, phase, renewalCount, intervalID, charges, chargeOk, dunningAttempt>>
  BY DEF Environment, SignalCancel, OnCancel, SignalUpdateContext, OnContextUpdate,
         ResendActivate, Stopped, vars, unsignalled, run, phases, billing
<1>2. Paid' <=> Paid
  BY <1>1, PaidUnchanged
<1>3. PhaseFollows' /\ PaidFollows' /\ DunningFollows'
  BY <1>1, <1>2 DEF Control, PhaseFollows, PaidFollows, DunningFollows
<1>4. CancelFollows'
  <2>1. CASE OnCancel
    <3>1. at # "nextPeriod" /\ cancelRequested'
      BY <2>1 DEF OnCancel, Yielded, Blocks, Hooks, PaymentHooks, Timers
    <3>. QED
      BY <1>1, <3>1 DEF CancelFollows
  <2>2. CASE ~OnCancel
    <3>1. cancelRequested' = cancelRequested
      BY <2>2 DEF Environment, SignalCancel, SignalUpdateContext, OnContextUpdate,
                  ResendActivate, Stopped, vars, signalled
    <3>. QED
      BY <1>1, <3>1 DEF Control, CancelFollows
  <2>. QED
    BY <2>1, <2>2
<1>. QED
  BY <1>3, <1>4 DEF Control

\* A subscription just created has nothing paid and nothing handled.
LEMMA InitControl ==
    ASSUME Init
    PROVE  Control
<1>1. at = "start" /\ charges = {} /\ dunningAttempt = 0 /\ phase = "starting"
  BY DEF Init, CreateSubscription
<1>. QED
  BY <1>1 DEF Control, PhaseFollows, PaidFollows, DunningFollows, CancelFollows, Paid,
              TrialStages, ChargeStages, PaidStages, PaymentHooks

-----------------------------------------------------------------------------
(* The inductive invariant: the ledger, the clock and what they promise *)

\* Every step of the root lets time pass and leaves the run's identity alone.
LEMMA RootKeepsRun ==
    ASSUME TypeOK, NEW t \in Moments, RootStep(t)
    PROVE  /\ now' = t /\ t \in Nat /\ now \in Nat /\ t >= now
           /\ UNCHANGED <<plan, renewalCount, intervalID, periodStart, periodEnd,
                          periodEndAttr, cancelRequested, context, cancelSignal,
                          contextSignals, contextSent>>
<1>1. \E here : Leave(here, t)
  BY DEF RootStep, FirstPeriodStep, StartTrial, StartWithoutTrial, Trial, TrialNotice,
         TrialWillEnd, TrialEnd, Activate, Activated, ChargeStep, StartRenewal,
         ChargePayment, RecordBillingEvent, ChargeSucceeded, ActivationFailed,
         RenewalFailed, DunningFailed, Renewed, PastDue, SleepBackoff, Recovered,
         PeriodStep, NoticeWait, RenewalUpcoming, PeriodWait, Canceled, CanceledWait,
         Deactivated
<1>. QED
  BY <1>1, MomentsType DEF Leave, run, signalled, inbox, TypeOK

\* Nothing but the end of a charge writes to the ledger.
LEMMA RootKeepsLedger ==
    ASSUME NEW t \in Moments, RootStep(t), ~\E ok \in BOOLEAN : ChargePayment(t, ok)
    PROVE  UNCHANGED <<charges, occurredAt>>
BY DEF RootStep, FirstPeriodStep, StartTrial, StartWithoutTrial, Trial, TrialNotice,
       TrialWillEnd, TrialEnd, Activate, Activated, ChargeStep, StartRenewal,
       RecordBillingEvent, ChargeSucceeded, ActivationFailed,
       RenewalFailed, DunningFailed, Renewed, PastDue, SleepBackoff, Recovered,
       PeriodStep, NoticeWait, RenewalUpcoming, PeriodWait, Canceled, CanceledWait,
       Deactivated, billing

\* Signals, updates and their handlers touch neither phase nor ledger nor clock.
LEMMA EnvironmentKeeps ==
    ASSUME Environment
    PROVE  UNCHANGED <<plan, renewalCount, intervalID, periodStart, periodEnd, periodEndAttr,
                       phase, phaseAttr, at, now, dunningAttempt, charges, occurredAt>>
BY DEF Environment, SignalCancel, OnCancel, SignalUpdateContext, OnContextUpdate,
       ResendActivate, Stopped, vars, unsignalled, run, phases, billing

\* The parts of the invariant that tell what was charged.
Ledger == LedgerInOrder /\ OneSuccessfulChargePerInterval

\* A charge finds its interval unpaid, so the ledger holds one success at most.
LEMMA NextLedger ==
    ASSUME TypeOK, Control, Ledger, [Next]_vars
    PROVE  Ledger'
<1>. USE DEF Ledger
<1>1. ASSUME NEW t \in Moments, NEW ok \in BOOLEAN, ChargePayment(t, ok)
      PROVE  Ledger'
  <2>. DEFINE new == [interval |-> intervalID, purpose |-> Purpose,
                      attempt |-> dunningAttempt, ok |-> ok]
  <2>1. /\ charges' = charges \cup {new}
        /\ UNCHANGED <<intervalID, renewalCount>>
    BY <1>1 DEF ChargePayment, Leave, run
  <2>2. new.interval = intervalID /\ new.ok = ok
    OBVIOUS
  <2>3. \A c \in charges : c.ok => c.interval # intervalID
    BY <1>1 DEF ChargePayment, Leave, Control, PaidFollows, Paid
  <2>4. LedgerInOrder'
    BY <2>1, <2>2 DEF LedgerInOrder, TypeOK
  <2>. HIDE DEF new
  <2>5. OneSuccessfulChargePerInterval'
    BY <2>1, <2>2, <2>3 DEF OneSuccessfulChargePerInterval
  <2>. QED
    BY <2>4, <2>5
<1>2. ASSUME NEW t \in Moments, RootStep(t), ~\E ok \in BOOLEAN : ChargePayment(t, ok)
      PROVE  Ledger'
  BY <1>2, RootKeepsRun, RootKeepsLedger DEF LedgerInOrder, OneSuccessfulChargePerInterval
<1>3. CASE NextPeriod
  <2>1. /\ intervalID' = intervalID + 1 /\ renewalCount' = renewalCount + 1
        /\ charges' = charges
    BY <1>3 DEF NextPeriod, NextBillingPeriod, FreshIntervalID
  <2>2. \A c \in charges : c.interval \in Nat
    BY DEF TypeOK
  <2>. QED
    BY <2>1, <2>2 DEF LedgerInOrder, OneSuccessfulChargePerInterval, TypeOK
<1>4. CASE Environment
  BY <1>4, EnvironmentKeeps DEF LedgerInOrder, OneSuccessfulChargePerInterval
<1>5. CASE UNCHANGED vars
  BY <1>5 DEF vars, run, billing, LedgerInOrder, OneSuccessfulChargePerInterval
<1>. QED
  BY <1>1, <1>2, <1>3, <1>4, <1>5 DEF Next, Progress

\* What fits a duration is kept by it, and whatever does not is still a number.
LEMMA WrappedKeeps ==
    ASSUME NEW x \in Int
    PROVE  /\ Wrapped(x) \in Int
           /\ x >= -(2 * Quarter) /\ x < 2 * Quarter => Wrapped(x) = x
<1>1. Quarter \in Nat \ {0}
  BY WidthAssumption
<1>. QED
  BY <1>1 DEF Wrapped

\* The backoffs of a plan are numbers, each twice the one before it.
LEMMA PromisedBackoffType ==
    ASSUME plan \in Plans, NEW n \in 1..plan.DunningMaxAttempts
    PROVE  /\ PromisedBackoff(n) \in Int
           /\ PromisedBackoff(1) = plan.DunningRetryBackoff
           /\ n + 1 \in 1..plan.DunningMaxAttempts
                => PromisedBackoff(n + 1) = 2 * PromisedBackoff(n)
<1>. DEFINE B == plan.DunningRetryBackoff
<1>1. B \in Int
  BY PlanType, WidthAssumption DEF Duration
<1>2. 2^(n - 1) \in Nat /\ 2^n = 2 * 2^(n - 1)
  BY PowersAssumption
<1>3. PromisedBackoff(n) = B * 2^(n - 1)
  BY DEF PromisedBackoff
<1>4. PromisedBackoff(1) = B
  BY <1>1, PowersAssumption DEF PromisedBackoff
<1>5. PromisedBackoff(n + 1) = B * 2^n
  BY DEF PromisedBackoff
<1>. HIDE DEF B
<1>6. PromisedBackoff(n) \in Int
  BY <1>1, <1>2, <1>3
<1>7. PromisedBackoff(n + 1) = 2 * PromisedBackoff(n)
  BY <1>1, <1>2, <1>3, <1>5
<1>. QED
  BY <1>4, <1>6, <1>7 DEF B

\* The root sleeps for a number, the one that was promised where it fits.
LEMMA BackoffType ==
    ASSUME TypeOK, dunningAttempt > 0
    PROVE  /\ dunningAttempt \in 1..plan.DunningMaxAttempts
           /\ Backoff \in Int /\ PromisedBackoff(dunningAttempt) \in Int
           /\ PromisedBackoff(dunningAttempt) >= -(2 * Quarter)
              /\ PromisedBackoff(dunningAttempt) < 2 * Quarter
                => Backoff = PromisedBackoff(dunningAttempt)
<1>1. dunningAttempt \in 1..plan.DunningMaxAttempts /\ plan \in Plans
  BY PlanType DEF TypeOK
<1>2. Backoff = Wrapped(PromisedBackoff(dunningAttempt))
  BY DEF Backoff, BackoffOf, PromisedBackoff
<1>3. PromisedBackoff(dunningAttempt) \in Int
  BY <1>1, PromisedBackoffType
<1>. HIDE DEF Backoff
<1>. QED
  BY <1>1, <1>2, <1>3, WrappedKeeps

\* The parts of the invariant that tell the time.
Clock == TimeInOrder /\ DunningInTime /\ DunningBackoffHonoured /\ PaidPeriodServed

\* Where the root goes once a period is paid for.
LEMMA AfterPayment ==
    ASSUME NEW t, AwaitPeriodEnd(t)
    PROVE  at' \in {"Canceled", "nextPeriod", "noticeWait", "periodWait"}
BY DEF AwaitPeriodEnd, WaitFor, Cancel

\* The ways to the wait for activation, and to a charge.
LEMMA WaysIn ==
    ASSUME NEW t, RootStep(t)
    PROVE  /\ at' = "awaitActivation" => StartWithoutTrial(t) \/ Trial(t) \/ TrialEnd(t)
           /\ at' = "charging" => StartRenewal(t) \/ Activate(t) \/ SleepBackoff(t)
<1>. DEFINE Elsewhere == at' \notin {"awaitActivation", "charging"}
<1>1. Trial(t) => at' # "charging"
  BY DEF Trial, GoTo, Deactivate
<1>2. StartWithoutTrial(t) \/ TrialEnd(t) => at' # "charging"
  BY DEF StartWithoutTrial, TrialEnd, GoTo, Deactivate
<1>3. StartRenewal(t) \/ Activate(t) \/ SleepBackoff(t) => at' # "awaitActivation"
  BY DEF StartRenewal, Activate, SleepBackoff
<1>4. StartTrial(t) \/ TrialNotice(t) \/ TrialWillEnd(t) => Elsewhere
  BY DEF StartTrial, TrialNotice, TrialWillEnd, GoTo, Deactivate
<1>5. Activated(t) \/ Renewed(t) \/ Recovered(t) => Elsewhere
  BY AfterPayment DEF Activated, Renewed, Recovered
<1>6. (\E ok \in BOOLEAN : ChargePayment(t, ok)) \/ RecordBillingEvent(t) => Elsewhere
  BY DEF ChargePayment, RecordBillingEvent, Outcome
<1>7. ChargeSucceeded(t) => Elsewhere
  BY DEF ChargeSucceeded, Purpose
<1>8. ActivationFailed(t) \/ RenewalFailed(t) => Elsewhere
  BY DEF ActivationFailed, RenewalFailed, Deactivate
<1>9. DunningFailed(t) \/ PastDue(t) => Elsewhere
  BY DEF DunningFailed, PastDue, NextDunningAttempt, Exhausted, Deactivate
<1>10. PeriodStep(t) => Elsewhere
  BY DEF PeriodStep, NoticeWait, RenewalUpcoming, PeriodWait, Canceled, CanceledWait,
         Deactivated, Deactivate, Cancel
<1>. HIDE DEF Elsewhere
<1>11. Elsewhere => at' # "awaitActivation" /\ at' # "charging"
  BY DEF Elsewhere
<1>. QED
  BY <1>1, <1>2, <1>3, <1>4, <1>5, <1>6, <1>7, <1>8, <1>9, <1>10, <1>11
     DEF RootStep, FirstPeriodStep, ChargeStep

\* The trial is over wherever the root goes on to charge.
LEMMA RootTime ==
    ASSUME TypeOK, Control, TimeInOrder, NEW t \in Moments, RootStep(t)
    PROVE  TimeInOrder'
<1>. DEFINE Over(m) == plan.TrialDuration <= 0 \/ m >= plan.TrialDuration
<1>0. /\ now' = t /\ t \in Nat /\ now \in Nat /\ t >= now
      /\ UNCHANGED <<plan, renewalCount, periodEnd>>
      /\ plan.TrialDuration \in Int /\ renewalCount \in Nat
  BY RootKeepsRun, PlanType, BoundsAssumption DEF TypeOK
<1>1. occurredAt' <= now'
  <2>1. CASE \E ok \in BOOLEAN : ChargePayment(t, ok)
    BY <1>0, <2>1 DEF ChargePayment
  <2>2. CASE ~\E ok \in BOOLEAN : ChargePayment(t, ok)
    BY <1>0, <2>2, RootKeepsLedger DEF TimeInOrder, TypeOK
  <2>. QED
    BY <2>1, <2>2
<1>2. renewalCount > 0 \/ charges # {} => Over(t)
  BY <1>0 DEF TimeInOrder
<1>3. at = "charging" => Over(t)
  BY <1>0 DEF TimeInOrder
<1>4. charges' # {} => Over(t)
  BY <1>2, <1>3, RootKeepsLedger DEF ChargePayment, Leave
<1>5. at' = "awaitActivation" => Over(t)
  <2>1. CASE StartWithoutTrial(t)
    BY <1>0, <2>1 DEF StartWithoutTrial
  <2>2. CASE Trial(t)
    <3>1. SUFFICES ASSUME at' = "awaitActivation" PROVE periodEnd <= t
      BY <1>0, <2>2 DEF Trial, Leave, TimeInOrder, Control, PhaseFollows, TrialStages
    <3>. QED
      BY <2>2, <3>1 DEF Trial, GoTo, Deactivate
  <2>3. CASE TrialEnd(t)
    <3>1. SUFFICES ASSUME at' = "awaitActivation" PROVE periodEnd <= t
      BY <1>0, <2>3 DEF TrialEnd, Leave, TimeInOrder, Control, PhaseFollows, TrialStages
    <3>. QED
      BY <2>3, <3>1 DEF TrialEnd, Leave, Wakes, Due, Deadline, Deactivate, TypeOK
  <2>. QED
    BY <2>1, <2>2, <2>3, WaysIn
<1>6. at' = "charging" => Over(t)
  <2>1. CASE StartRenewal(t)
    BY <1>2, <2>1 DEF StartRenewal
  <2>2. CASE SleepBackoff(t)
    BY <1>2, <2>2 DEF SleepBackoff, Leave, Control, PhaseFollows
  <2>3. CASE Activate(t)
    BY <1>0, <2>3 DEF Activate, Leave, TimeInOrder
  <2>. QED
    BY <2>1, <2>2, <2>3, WaysIn
<1>. QED
  BY <1>0, <1>1, <1>2, <1>4, <1>5, <1>6 DEF TimeInOrder

\* How the root comes to the end of its run: the period is over.
LEMMA WaysToNextPeriod ==
    ASSUME TypeOK, NEW t \in Moments, RootStep(t), at' = "nextPeriod"
    PROVE  t >= periodEnd
<1>1. CASE Activated(t) \/ Renewed(t) \/ Recovered(t)
  <2>1. AwaitPeriodEnd(t)
    BY <1>1 DEF Activated, Renewed, Recovered
  <2>2. periodEnd <= t
    BY <2>1 DEF AwaitPeriodEnd, WaitFor, Cancel
  <2>. QED
    BY <2>2, MomentsType DEF TypeOK
<1>2. CASE PeriodWait(t)
  BY <1>2 DEF PeriodWait, Leave, Wakes, Due, Deadline, Cancel
<1>3. ~Trial(t) /\ ~ChargeSucceeded(t)
  BY DEF Trial, ChargeSucceeded, GoTo, Deactivate, Purpose
<1>. QED
  BY <1>1, <1>2, <1>3
     DEF RootStep, FirstPeriodStep, StartTrial, StartWithoutTrial, TrialNotice,
         TrialWillEnd, TrialEnd, Activate, ChargeStep, StartRenewal, ChargePayment,
         RecordBillingEvent, Outcome, ActivationFailed, RenewalFailed, DunningFailed, PastDue,
         NextDunningAttempt, Exhausted, SleepBackoff, PeriodStep, NoticeWait, RenewalUpcoming,
         Canceled, CanceledWait, Deactivated, Deactivate, Cancel, GoTo

\* The ways of dunning: to a charge that is answered, to its notice, to a backoff.
LEMMA WaysOfDunning ==
    ASSUME NEW t, RootStep(t)
    PROVE  /\ at' = "recording" => \E ok \in BOOLEAN : ChargePayment(t, ok)
           /\ at' \in PaymentHooks => RecordBillingEvent(t)
           /\ at' = "backoff" => PastDue(t) \/ DunningFailed(t)
<1>. DEFINE Elsewhere == at' \notin {"recording", "backoff"} \cup PaymentHooks
<1>. USE DEF PaymentHooks
<1>1. FirstPeriodStep(t) => Elsewhere
  BY AfterPayment DEF FirstPeriodStep, StartTrial, StartWithoutTrial, Trial, TrialNotice,
     TrialWillEnd, TrialEnd, Activate, Activated, GoTo, Deactivate
<1>2. Renewed(t) \/ Recovered(t) => Elsewhere
  BY AfterPayment DEF Renewed, Recovered
<1>3. StartRenewal(t) \/ SleepBackoff(t) \/ ChargeSucceeded(t) => Elsewhere
  BY DEF StartRenewal, SleepBackoff, ChargeSucceeded, Purpose
<1>4. ActivationFailed(t) \/ RenewalFailed(t) => Elsewhere
  BY DEF ActivationFailed, RenewalFailed, Deactivate
<1>5. RecordBillingEvent(t) => at' \in PaymentHooks
  BY DEF RecordBillingEvent, Outcome
<1>6. DunningFailed(t) \/ PastDue(t) => at' \in {"backoff", "Deactivated"}
  BY DEF DunningFailed, PastDue, NextDunningAttempt, Exhausted, Deactivate
<1>7. PeriodStep(t) => Elsewhere
  BY DEF PeriodStep, NoticeWait, RenewalUpcoming, PeriodWait, Canceled, CanceledWait,
         Deactivated, Deactivate, Cancel
<1>8. Elsewhere => at' # "recording" /\ at' \notin PaymentHooks /\ at' # "backoff"
  OBVIOUS
<1>. HIDE DEF Elsewhere
<1>. QED
  BY <1>1, <1>2, <1>3, <1>4, <1>5, <1>6, <1>7, <1>8 DEF RootStep, ChargeStep, ChargePayment

\* Nothing is past due but after the charge of a renewal has failed.
LEMMA WaysToPastDue ==
    ASSUME NEW t, RootStep(t), phase' = "past_due"
    PROVE  phase = "past_due" \/ at = "PaymentFailed"
BY DEF RootStep, FirstPeriodStep, StartTrial, StartWithoutTrial, Trial, TrialNotice,
       TrialWillEnd, TrialEnd, Activate, Activated, ChargeStep, StartRenewal,
       ChargePayment, RecordBillingEvent, ChargeSucceeded, ActivationFailed,
       RenewalFailed, DunningFailed, Renewed, PastDue, SleepBackoff, Recovered,
       PeriodStep, NoticeWait, RenewalUpcoming, PeriodWait, Canceled, CanceledWait,
       Deactivated, Leave, phases, TransitionTo, Deactivate, Cancel, AwaitPeriodEnd,
       NextDunningAttempt, Exhausted

\* A charge is answered after its period has begun, and dunning's is late by its
\* backoff; so backoffs that double do not leave the range before they have
\* added up to a quarter of it.
LEMMA RootDunning ==
    ASSUME TypeOK, Control, TimeInOrder, DunningInTime, DunningBackoffHonoured,
           NEW t \in Moments, RootStep(t)
    PROVE  DunningInTime'
<1>. DEFINE P(n) == PromisedBackoff(n)
            Notified(loc) == loc = "recording" \/ loc \in PaymentHooks
<1>0. /\ now' = t /\ t \in Nat /\ now \in Nat /\ t >= now
      /\ UNCHANGED <<plan, periodStart, periodEnd>>
      /\ periodStart \in Nat /\ periodEnd \in Nat /\ occurredAt \in Nat
      /\ periodStart <= now /\ occurredAt <= now
      /\ Quarter \in Nat \ {0} /\ dunningAttempt \in Nat
  BY RootKeepsRun, PlanType, WidthAssumption DEF TypeOK, DunningInTime, TimeInOrder
<1>1. /\ Notified(at) \/ phase = "past_due" => occurredAt >= periodStart
      /\ phase = "past_due" /\ Notified(at) =>
             \/ occurredAt >= periodStart + P(dunningAttempt)
             \/ occurredAt >= periodStart + Quarter
  BY DEF DunningInTime
<1>2. \/ Notified(at') /\ occurredAt' = t /\ UNCHANGED <<phase, dunningAttempt>>
         /\ at = "charging"
      \/ Notified(at') /\ UNCHANGED <<phase, dunningAttempt, occurredAt>> /\ at = "recording"
      \/ ~Notified(at') /\ UNCHANGED occurredAt
  BY WaysOfDunning, RootKeepsLedger
     DEF ChargePayment, RecordBillingEvent, Leave, phases, PaymentHooks
<1>3. Notified(at') \/ phase' = "past_due" => occurredAt' >= periodStart
  BY <1>0, <1>1, <1>2, WaysToPastDue DEF PaymentHooks
<1>4. ASSUME at' = "backoff"
      PROVE  P(dunningAttempt') < 2 * Quarter \/ occurredAt' >= periodStart + Quarter
  <2>1. /\ dunningAttempt' = dunningAttempt + 1 /\ UNCHANGED occurredAt
        /\ dunningAttempt' \in 1..plan.DunningMaxAttempts /\ plan \in Plans
    <3>1. NextDunningAttempt /\ AttemptsLeft
      BY <1>4, WaysOfDunning DEF PastDue, DunningFailed, NextDunningAttempt, Exhausted, Deactivate
    <3>. QED
      BY <1>0, <1>2, <1>4, <3>1, PlanType DEF NextDunningAttempt, AttemptsLeft, PaymentHooks, TypeOK
  <2>2. CASE PastDue(t)
    <3>1. dunningAttempt' = 1
      BY <1>0, <2>1, <2>2 DEF PastDue, Leave, Control, DunningFollows
    <3>2. plan.DunningRetryBackoff < 2 * Quarter
      BY <1>0, <2>1, PlanType DEF Duration
    <3>. QED
      BY <2>1, <3>1, <3>2, PromisedBackoffType
  <2>3. CASE DunningFailed(t)
    <3>1. at = "PaymentFailed" /\ phase = "past_due"
      BY <2>3 DEF DunningFailed, Leave, Purpose
    <3>2. dunningAttempt \in 1..plan.DunningMaxAttempts
      BY <1>0, <2>1, <3>1, PlanType
         DEF Control, DunningFollows, ChargeStages, PaymentHooks
    <3>3. P(dunningAttempt) \in Int /\ P(dunningAttempt') = 2 * P(dunningAttempt)
      BY <2>1, <3>2, PromisedBackoffType
    <3>4. \/ occurredAt >= periodStart + P(dunningAttempt)
          \/ occurredAt >= periodStart + Quarter
      BY <1>1, <3>1 DEF PaymentHooks
    <3>. HIDE DEF P
    <3>. QED
      BY <1>0, <2>1, <3>3, <3>4
  <2>. QED
    BY <1>4, <2>2, <2>3, WaysOfDunning
<1>5. ASSUME phase' = "past_due", Notified(at')
      PROVE  \/ occurredAt' >= periodStart + P(dunningAttempt')
             \/ occurredAt' >= periodStart + Quarter
  <2>1. CASE at = "charging" /\ occurredAt' = t /\ UNCHANGED <<phase, dunningAttempt>>
    <3>1. \/ now >= occurredAt + P(dunningAttempt)
          \/ occurredAt >= periodStart + Quarter
      BY <1>5, <2>1 DEF DunningBackoffHonoured
    <3>2. dunningAttempt > 0
      BY <1>5, <2>1, <1>0 DEF Control, DunningFollows, ChargeStages
    <3>3. P(dunningAttempt) \in Int
      BY <3>2, BackoffType
    <3>4. occurredAt >= periodStart
      BY <1>1, <1>5, <2>1
    <3>. HIDE DEF P
    <3>. QED
      BY <1>0, <2>1, <3>1, <3>3, <3>4
  <2>2. CASE at = "recording" /\ UNCHANGED <<phase, dunningAttempt, occurredAt>>
    BY <1>1, <1>5, <2>2
  <2>. QED
    BY <1>2, <1>5, <2>1, <2>2
<1>6. PromisedBackoff(dunningAttempt)' = P(dunningAttempt')
  BY <1>0 DEF PromisedBackoff
<1>7. periodStart <= t /\ (at' = "nextPeriod" => t >= periodEnd)
  BY <1>0, WaysToNextPeriod
<1>. QED
  BY <1>0, <1>3, <1>4, <1>5, <1>6, <1>7 DEF DunningInTime, Quarter

\* Dunning charges only when its backoff is over, unless that left the range.
LEMMA RootBackoff ==
    ASSUME TypeOK, Control, TimeInOrder, DunningInTime, NEW t \in Moments, RootStep(t)
    PROVE  DunningBackoffHonoured'
<1>. DEFINE P == PromisedBackoff(dunningAttempt)
<1>0. now' = t /\ UNCHANGED <<plan, periodStart>>
  BY RootKeepsRun
<1>1. CASE SleepBackoff(t)
  <2>1. at = "backoff" /\ Due(t) /\ UNCHANGED <<plan, dunningAttempt, occurredAt>>
    BY <1>1, <1>0 DEF SleepBackoff, Leave, billing
  <2>2. dunningAttempt > 0
    BY <2>1 DEF Control, DunningFollows
  <2>3. t >= now + Backoff
    BY <2>1 DEF Due, Deadline
  <2>4. P < 2 * Quarter \/ occurredAt >= periodStart + Quarter
    BY <2>1 DEF DunningInTime
  <2>5. /\ P \in Int /\ Backoff \in Int
        /\ P >= -(2 * Quarter) /\ P < 2 * Quarter => Backoff = P
    BY <2>2, BackoffType
  <2>6. /\ t \in Nat /\ now \in Nat /\ t >= now /\ occurredAt \in Nat /\ occurredAt <= now
        /\ Quarter \in Nat \ {0}
    BY RootKeepsRun, WidthAssumption DEF TypeOK, TimeInOrder
  <2>. HIDE DEF P
  <2>7. t >= occurredAt + P \/ occurredAt >= periodStart + Quarter
    BY <2>3, <2>4, <2>5, <2>6
  <2>8. PromisedBackoff(dunningAttempt)' = P
    BY <2>1 DEF P, PromisedBackoff
  <2>. QED
    BY <1>0, <2>1, <2>7, <2>8 DEF DunningBackoffHonoured, Quarter
<1>2. CASE ~SleepBackoff(t)
  <2>1. at' = "charging" => phase' # "past_due"
    BY <1>2, WaysIn DEF StartRenewal, Activate, Leave, phases, Control, PhaseFollows
  <2>. QED
    BY <2>1 DEF DunningBackoffHonoured
<1>. QED
  BY <1>1, <1>2

\* A paid period is left for deactivation only at its end.
LEMMA RootServes ==
    ASSUME TypeOK, Control, PaidPeriodServed, NEW t \in Moments, RootStep(t)
    PROVE  PaidPeriodServed'
<1>0. /\ now' = t /\ t \in Nat /\ now \in Nat /\ t >= now /\ periodEnd' = periodEnd
      /\ periodEnd \in Nat
  BY RootKeepsRun DEF TypeOK
<1>1. SUFFICES ASSUME phase' = "deactivated", Paid' PROVE t >= periodEnd
  BY <1>0 DEF PaidPeriodServed
<1>2. CASE at = "charging"
  BY <1>1, <1>2 DEF RootStep, FirstPeriodStep, StartTrial, StartWithoutTrial, Trial,
         TrialNotice, TrialWillEnd, TrialEnd, Activate, Activated, ChargeStep, StartRenewal,
         ChargePayment, RecordBillingEvent, ChargeSucceeded, ActivationFailed,
         RenewalFailed, DunningFailed, Renewed, PastDue, SleepBackoff, Recovered,
         PeriodStep, NoticeWait, RenewalUpcoming, PeriodWait, Canceled, CanceledWait,
         Deactivated, Leave, phases, Control, PhaseFollows, ChargeStages
<1>3. CASE at # "charging"
  <2>1. Paid
    BY <1>1, <1>3, RootKeepsLedger, RootKeepsRun, PaidUnchanged DEF ChargePayment, Leave
  <2>2. CASE phase = "deactivated"
    BY <1>0, <2>1, <2>2 DEF PaidPeriodServed
  <2>3. CASE Canceled(t)
    BY <1>0, <1>1, <2>3 DEF Canceled, phases, Leave, Control, PhaseFollows
  <2>4. CASE CanceledWait(t)
    BY <1>0, <2>4 DEF CanceledWait, Leave, Due, Deadline
  <2>. QED
    BY <1>1, <1>3, <2>1, <2>2, <2>3, <2>4
       DEF RootStep, FirstPeriodStep, StartTrial, StartWithoutTrial, Trial, TrialNotice,
           TrialWillEnd, TrialEnd, Activate, Activated, ChargeStep, StartRenewal,
           ChargePayment, RecordBillingEvent, ChargeSucceeded, ActivationFailed,
           RenewalFailed, DunningFailed, Renewed, PastDue, SleepBackoff, Recovered,
           NextDunningAttempt, PeriodStep, NoticeWait, RenewalUpcoming, PeriodWait,
           Deactivated, AwaitPeriodEnd, Cancel, TransitionTo, GoTo,
           Leave, phases, Control, PaidFollows, TrialStages
<1>. QED
  BY <1>2, <1>3

\* The next period begins on time, with the trial over and nothing due yet.
LEMMA NextPeriodClock ==
    ASSUME TypeOK, Control, TimeInOrder, DunningInTime, NextPeriod
    PROVE  Clock'
<1>1. /\ at = "nextPeriod" /\ at' = "start" /\ phase' = "starting" /\ occurredAt' = 0
      /\ UNCHANGED <<plan, now, charges>> /\ renewalCount' > 0
      /\ periodStart' = periodEnd
  BY DEF NextPeriod, NextBillingPeriod, NewSubscription, TypeOK
<1>2. Paid
  BY DEF NextPeriod, Control, PaidFollows, PaidStages
<1>3. plan.TrialDuration <= 0 \/ now >= plan.TrialDuration
  BY <1>2 DEF TimeInOrder, Paid
<1>4. periodStart' <= now'
  BY <1>1 DEF DunningInTime, TypeOK
<1>. QED
  BY <1>1, <1>3, <1>4 DEF Clock, TimeInOrder, DunningInTime, PaymentHooks,
     DunningBackoffHonoured, PaidPeriodServed, TypeOK

\* Every step keeps the clock.
LEMMA NextClock ==
    ASSUME TypeOK, Control, Clock, [Next]_vars
    PROVE  Clock'
<1>1. CASE \E t \in Moments : RootStep(t)
  BY <1>1, RootTime, RootDunning, RootBackoff, RootServes DEF Clock
<1>2. CASE NextPeriod
  BY <1>2, NextPeriodClock DEF Clock
<1>3. CASE Environment \/ UNCHANGED vars
  <2>1. UNCHANGED <<plan, renewalCount, intervalID, periodStart, periodEnd, phase, at, now,
                    dunningAttempt, charges, occurredAt>>
    BY <1>3, EnvironmentKeeps DEF vars, run, phases, billing
  <2>2. Paid' <=> Paid
    BY <2>1, PaidUnchanged
  <2>3. PromisedBackoff(dunningAttempt)' = PromisedBackoff(dunningAttempt)
    BY <2>1 DEF PromisedBackoff
  <2>. QED
    BY <2>1, <2>2, <2>3
       DEF Clock, TimeInOrder, DunningInTime, DunningBackoffHonoured, PaidPeriodServed, Quarter
<1>. QED
  BY <1>1, <1>2, <1>3 DEF Next, Progress

-----------------------------------------------------------------------------
(* The inductive invariant: what the outside sees *)

\* Every change of phase of the root is published.
LEMMA RootPublishes ==
    ASSUME NEW t \in Moments, RootStep(t)
    PROVE  UNCHANGED phases \/ \E p \in Phases \ {"starting"} : TransitionTo(p)
<1>1. Deactivate \/ Cancel => \E p \in Phases \ {"starting"} : TransitionTo(p)
  BY DEF Deactivate, Cancel, Phases
<1>2. AwaitPeriodEnd(t) => UNCHANGED phases \/ Cancel
  BY DEF AwaitPeriodEnd
<1>3. NextDunningAttempt => UNCHANGED phases \/ Deactivate
  BY DEF NextDunningAttempt, Exhausted
<1>4. CASE FirstPeriodStep(t)
  BY <1>1, <1>2, <1>4 DEF FirstPeriodStep, StartTrial, StartWithoutTrial, Trial,
     TrialNotice, TrialWillEnd, TrialEnd, Activate, Activated, Phases
<1>5. CASE ChargeStep(t)
  BY <1>1, <1>2, <1>3, <1>5 DEF ChargeStep, StartRenewal, ChargePayment,
     RecordBillingEvent, ChargeSucceeded, ActivationFailed, RenewalFailed, DunningFailed,
     Renewed, PastDue, SleepBackoff, Recovered, Phases
<1>6. CASE PeriodStep(t)
  BY <1>1, <1>6 DEF PeriodStep, NoticeWait, RenewalUpcoming, PeriodWait, Canceled,
     CanceledWait, Deactivated
<1>. QED
  BY <1>4, <1>5, <1>6 DEF RootStep

\* Every step keeps Visibility and the View together.
LEMMA NextAttributes ==
    ASSUME TypeOK, Control, AttributesTellTheView, [Next]_vars
    PROVE  AttributesTellTheView'
<1>. USE DEF AttributesTellTheView, PhaseAttr, Known
<1>1. ASSUME NEW t \in Moments, RootStep(t)
      PROVE  AttributesTellTheView'
  <2>1. UNCHANGED <<plan, renewalCount, periodEnd, periodEndAttr>>
    BY <1>1, RootKeepsRun
  <2>2. CASE phase' = phase /\ phaseAttr' = phaseAttr
    BY <2>1, <2>2
  <2>3. CASE phase' # "starting" /\ phaseAttr' = phase'
    BY <2>1, <2>3
  <2>. QED
    BY <1>1, <2>2, <2>3, RootPublishes DEF TransitionTo, phases
<1>2. CASE NextPeriod
  <2>1. phase = "active" /\ phaseAttr = "active"
    BY <1>2 DEF NextPeriod, Control, PhaseFollows, PaidStages
  <2>2. /\ phaseAttr' = phaseAttr /\ phase' = "starting" /\ periodEndAttr' = periodEnd'
        /\ renewalCount' = renewalCount + 1
    BY <1>2 DEF NextPeriod, NextBillingPeriod, NewSubscription
  <2>3. renewalCount' + 1 # 1
    BY <2>2, BoundsAssumption DEF TypeOK
  <2>. QED
    BY <2>1, <2>2, <2>3
<1>3. CASE Environment \/ UNCHANGED vars
  <2>1. UNCHANGED <<plan, renewalCount, periodEnd, periodEndAttr, phase, phaseAttr>>
    BY <1>3, EnvironmentKeeps DEF vars, run, phases
  <2>. QED
    BY <2>1
<1>. QED
  BY <1>1, <1>2, <1>3 DEF Next, Progress

\* The steps that decide what the caller of Activate learns.
LEMMA WaysToAnswer ==
    ASSUME NEW t \in Moments, RootStep(t), activate' # activate
    PROVE  \/ Activated(t) \/ ActivationFailed(t)
           \/ activate' \in {"rejected", "running"}
BY DEF RootStep, FirstPeriodStep, StartTrial, StartWithoutTrial, Trial, TrialNotice,
       TrialWillEnd, TrialEnd, Activate, ChargeStep, StartRenewal,
       ChargePayment, RecordBillingEvent, ChargeSucceeded,
       RenewalFailed, DunningFailed, Renewed, PastDue, SleepBackoff, Recovered,
       PeriodStep, NoticeWait, RenewalUpcoming, PeriodWait, Canceled, CanceledWait,
       Deactivated, GoTo, Settle

\* A subscription that is over stays so.
LEMMA DeactivatedStays ==
    ASSUME Control, NEW t \in Moments, RootStep(t), phase = "deactivated"
    PROVE  phase' = "deactivated" /\ charges' = charges
<1>1. CASE Deactivated(t)
  BY <1>1 DEF Deactivated, phases, billing
<1>. QED
  BY <1>1 DEF RootStep, FirstPeriodStep, StartTrial, StartWithoutTrial, Trial, TrialNotice,
       TrialWillEnd, TrialEnd, Activate, Activated, ChargeStep, StartRenewal,
       ChargePayment, RecordBillingEvent, ChargeSucceeded, ActivationFailed,
       RenewalFailed, DunningFailed, Renewed, PastDue, SleepBackoff, Recovered,
       PeriodStep, NoticeWait, RenewalUpcoming, PeriodWait, Canceled, CanceledWait,
       Leave, Control, PhaseFollows, TrialStages, ChargeStages, PaidStages, PaymentHooks

\* Every step keeps the caller of Activate told the truth.
LEMMA NextCaller ==
    ASSUME TypeOK, Control, LedgerInOrder, CallerLearnsTheOutcome, [Next]_vars
    PROVE  CallerLearnsTheOutcome'
<1>1. ASSUME NEW t \in Moments, RootStep(t)
      PROVE  CallerLearnsTheOutcome'
  <2>1. charges \subseteq charges'
    BY <1>1, RootKeepsLedger DEF ChargePayment
  <2>2. CASE activate' = activate
    BY <1>1, <2>1, <2>2, DeactivatedStays DEF CallerLearnsTheOutcome
  <2>3. CASE Activated(t)
    <3>1. Paid /\ intervalID = 0 /\ charges' = charges /\ activate' = "completed"
      BY <2>3 DEF Activated, Leave, billing, Control, PhaseFollows, PaidFollows, PaidStages,
                  LedgerInOrder
    <3>. QED
      BY <3>1 DEF Paid, CallerLearnsTheOutcome
  <2>4. CASE ActivationFailed(t)
    <3>1. /\ ~Paid /\ renewalCount = 0 /\ charges' = charges
          /\ activate' = "failed" /\ phase' = "deactivated"
      <4>1. at = "PaymentFailed" /\ Purpose = "activation"
        BY <2>4 DEF ActivationFailed, Leave
      <4>. QED
        BY <2>4, <4>1 DEF ActivationFailed, Deactivate, TransitionTo, billing,
           Control, PaidFollows, Purpose, TypeOK
    <3>2. \A c \in charges : c.interval = intervalID
      BY <3>1 DEF LedgerInOrder, TypeOK
    <3>. QED
      BY <3>1, <3>2 DEF Paid, CallerLearnsTheOutcome
  <2>5. CASE activate' \in {"rejected", "running"}
    BY <2>5 DEF CallerLearnsTheOutcome
  <2>. QED
    BY <1>1, <2>2, <2>3, <2>4, <2>5, WaysToAnswer
<1>2. CASE NextPeriod
  <2>1. phase # "deactivated" /\ UNCHANGED <<activate, charges>>
    BY <1>2 DEF NextPeriod, Control, PhaseFollows, PaidStages
  <2>. QED
    BY <2>1 DEF CallerLearnsTheOutcome
<1>3. CASE Environment
  <2>1. activate' = activate \/ activate' = "sent"
    BY <1>3 DEF Environment, SignalCancel, OnCancel, SignalUpdateContext, OnContextUpdate,
                ResendActivate, Stopped, vars
  <2>. QED
    BY <1>3, <2>1, EnvironmentKeeps DEF CallerLearnsTheOutcome
<1>4. CASE UNCHANGED vars
  BY <1>4 DEF vars, run, phases, billing, CallerLearnsTheOutcome
<1>. QED
  BY <1>1, <1>2, <1>3, <1>4 DEF Next, Progress

-----------------------------------------------------------------------------
(* The theorems *)

\* A subscription just created satisfies the invariant.
LEMMA InitInv ==
    ASSUME Init
    PROVE  Inv
<1>1. PICK p \in Plans : CreateSubscription(p)
  BY DEF Init
<1>2. p \in Plan
  BY PlansAssumption
<1>3. /\ charges = {} /\ intervalID = 0 /\ renewalCount = 0 /\ now = 0 /\ occurredAt = 0
      /\ at = "start" /\ phase = "starting" /\ plan = p /\ activate = "sent"
      /\ phaseAttr = (IF p.TrialDuration > 0 THEN "trialing" ELSE "active")
      /\ periodEndAttr = periodEnd
      /\ (p.TrialDuration > 0 => periodEnd = p.TrialDuration)
      /\ periodStart = 0
  BY <1>1 DEF Init, CreateSubscription
<1>4. AttributesTellTheView
  BY <1>3 DEF AttributesTellTheView, PhaseAttr, Known
<1>. QED
  BY <1>3, <1>4, InitControl DEF Inv, LedgerInOrder, TimeInOrder, DunningInTime, PaymentHooks,
     OneSuccessfulChargePerInterval, DunningBackoffHonoured, PaidPeriodServed,
     CallerLearnsTheOutcome

\* Every step preserves the invariant.
LEMMA NextInv ==
    ASSUME TypeOK, Inv, [Next]_vars
    PROVE  Inv'
<1>1. Control'
  <2>1. CASE \E t \in Moments : RootStep(t)
    BY <2>1, FirstPeriodControl, ChargeStepControl, PeriodStepControl DEF RootStep, Inv
  <2>2. CASE NextPeriod
    BY <2>2, NextPeriodControl DEF Inv
  <2>3. CASE Environment
    BY <2>3, EnvironmentControl DEF Inv
  <2>4. CASE UNCHANGED vars
    BY <2>4, PaidUnchanged DEF vars, run, phases, billing, signalled, Inv, Control,
       PhaseFollows, PaidFollows, DunningFollows, CancelFollows
  <2>. QED
    BY <2>1, <2>2, <2>3, <2>4 DEF Next, Progress
<1>. QED
  BY <1>1, NextLedger, NextClock, NextAttributes, NextCaller DEF Inv, Ledger, Clock

\* The inductive invariant: the control, the ledger, the clock and what they
\* promise hold in every state of the workflow, whatever plans it is used with.
THEOREM InvHolds == Spec => []Inv
<1>1. TypeOK /\ Inv /\ TypeOK' /\ [Next]_vars => Inv'
  BY NextInv
<1>. QED
  BY InitInv, TypeCorrect, <1>1, PTL DEF Spec

\* Whatever is retried or duned, and however late, an interval is charged for
\* with success at most once.
THEOREM ChargedAtMostOnce == Spec => []OneSuccessfulChargePerInterval
BY InvHolds, PTL DEF Inv

\* A dunning charge comes no earlier than the documented backoff after the charge
\* that failed, for every plan and every number of attempts, overflow included:
\* what does not fit a duration comes only after a quarter of their range.
THEOREM BackoffIsHonoured == Spec => []DunningBackoffHonoured
BY InvHolds, PTL DEF Inv

\* A subscription that has paid for its period is deactivated at its end.
THEOREM PaidPeriodIsServed == Spec => []PaidPeriodServed
BY InvHolds, PTL DEF Inv

\* Visibility agrees with the View, but for "starting".
THEOREM AttributesAgree == Spec => []AttributesTellTheView
BY InvHolds, PTL DEF Inv

\* The caller of CreateSubscription is told the truth about the first charge.
THEOREM CallerIsToldTheTruth == Spec => []CallerLearnsTheOutcome
BY InvHolds, PTL DEF Inv

\* No charge is attempted while the trial runs.
THEOREM TrialsAreFree == Spec => []TrialIsFree
<1>1. TypeOK /\ Inv => TrialIsFree
  BY PlanType DEF Inv, TimeInOrder, TrialIsFree, TypeOK
<1>. QED
  BY <1>1, InvHolds, TypeCorrect, PTL

\* A cancel the workflow has handled stays with it: no step undoes it, and
\* none of those that follow begins another period.
THEOREM HandledCancelStays == Spec => HandledCancelIsFinal
<1>1. TypeOK /\ Inv /\ [Next]_vars
      => [cancelRequested => cancelRequested' /\ renewalCount' = renewalCount]_vars
  <2>1. SUFFICES ASSUME TypeOK, Inv, Next, cancelRequested
                 PROVE  cancelRequested' /\ renewalCount' = renewalCount
    OBVIOUS
  <2>2. CASE \E t \in Moments : RootStep(t)
    BY <2>1, <2>2, RootKeepsRun
  <2>3. CASE NextPeriod
    BY <2>1, <2>3 DEF NextPeriod, Inv, Control, CancelFollows
  <2>4. CASE Environment
    <3>1. cancelRequested' = cancelRequested \/ cancelRequested' = TRUE
      BY <2>4 DEF Environment, SignalCancel, OnCancel, SignalUpdateContext,
                  OnContextUpdate, ResendActivate, Stopped, vars, signalled
    <3>. QED
      BY <2>1, <2>4, <3>1, EnvironmentKeeps
  <2>. QED
    BY <2>1, <2>2, <2>3, <2>4 DEF Next, Progress
<1>. QED
  BY <1>1, InvHolds, TypeCorrect, PTL DEF Spec, HandledCancelIsFinal

=============================================================================
