----------------------- MODULE SubscriptionRefinement -----------------------
(***************************************************************************)
(* The subscription workflow implements the promise of Lifecycle: every    *)
(* step of the workflow is a step of the phase diagram or is invisible,    *)
(* and is one that the API, which sees less of it, takes workflows to do.  *)
(***************************************************************************)
EXTENDS SubscriptionProofs

\* The phases of the diagram that "starting" stands for.
Fresh  == phase = "trialing" \/ (phase = "starting" /\ renewalCount = 0)
Lapsed == phase = "starting" /\ renewalCount > 0

\* What the root does to the phase, charges apart.
LEMMA PhaseMoves ==
    ASSUME TypeOK, Control, NEW t \in Moments, RootStep(t),
           ~\E ok \in BOOLEAN : ChargePayment(t, ok)
    PROVE  \/ phase' = phase
           \/ phase = "starting" /\ renewalCount = 0 /\ phase' = "trialing"
           \/ Fresh /\ Paid /\ phase' = "active"
           \/ Fresh /\ ~Paid /\ phase' = "deactivated"
           \/ Lapsed /\ phase' = "active"
           \/ Lapsed /\ ~Paid /\ phase' = "past_due"
           \/ phase = "past_due" /\ Paid /\ phase' = "active"
           \/ phase = "past_due" /\ ~Paid /\ phase' = "deactivated"
           \/ phase = "active" /\ Paid /\ cancelRequested /\ phase' = "canceled"
           \/ phase = "canceled" /\ phase' = "deactivated"
<1>0. renewalCount = 0 \/ renewalCount > 0
  BY BoundsAssumption DEF TypeOK
<1>1. CASE FirstPeriodStep(t)
  <2>1. CASE StartTrial(t)
    BY <2>1 DEF StartTrial, Leave, TransitionTo, Control, PhaseFollows
  <2>2. CASE Trial(t) \/ TrialNotice(t) \/ TrialEnd(t)
    <3>1. Fresh /\ ~Paid
      BY <2>2 DEF Trial, TrialNotice, TrialEnd, Leave, Control, PhaseFollows, PaidFollows,
                  TrialStages, Fresh
    <3>2. phase' = phase \/ phase' = "deactivated"
      BY <2>2 DEF Trial, TrialNotice, TrialEnd, Deactivate, TransitionTo, phases
    <3>. QED
      BY <3>1, <3>2
  <2>3. CASE Activated(t)
    <3>1. phase = "active" /\ Paid
      BY <2>3 DEF Activated, Leave, Control, PhaseFollows, PaidFollows, PaidStages
    <3>. QED
      BY <2>3, <3>1 DEF Activated, AwaitPeriodEnd, Cancel, TransitionTo, phases
  <2>. QED
    BY <1>1, <2>1, <2>2, <2>3 DEF FirstPeriodStep, StartWithoutTrial, TrialWillEnd, Activate,
       phases
<1>2. CASE ChargeStep(t)
  <2>1. CASE ChargeSucceeded(t)
    <3>1. /\ Paid /\ phase \in {"starting", "trialing", "past_due"} /\ phase' = "active"
      BY <2>1 DEF ChargeSucceeded, Leave, TransitionTo, Control, PhaseFollows, PaidFollows,
                  ChargeStages, PaymentHooks
    <3>. QED
      BY <1>0, <3>1 DEF Fresh, Lapsed
  <2>2. CASE ActivationFailed(t) \/ RenewalFailed(t)
    <3>1. /\ ~Paid /\ phase \in {"starting", "trialing", "past_due"}
          /\ (phase = "trialing" => renewalCount = 0)
      BY <2>2 DEF ActivationFailed, RenewalFailed, Leave, Control, PhaseFollows, PaidFollows,
                  ChargeStages, PaymentHooks
    <3>2. \/ Purpose = "activation" /\ phase' = "deactivated"
          \/ Purpose = "renewal" /\ phase' = "past_due"
      BY <2>2 DEF ActivationFailed, RenewalFailed, Deactivate, TransitionTo
    <3>3. CASE Purpose = "activation" /\ phase' = "deactivated"
      <4>1. phase # "past_due" /\ renewalCount = 0
        BY <1>0, <3>3 DEF Purpose
      <4>. QED
        BY <3>1, <3>3, <4>1 DEF Fresh
    <3>4. CASE Purpose = "renewal" /\ phase' = "past_due"
      <4>1. phase # "past_due" /\ renewalCount > 0
        BY <1>0, <3>4 DEF Purpose
      <4>. QED
        BY <3>1, <3>4, <4>1 DEF Lapsed
    <3>. QED
      BY <3>2, <3>3, <3>4
  <2>3. CASE DunningFailed(t) \/ PastDue(t)
    <3>1. phase = "past_due" /\ ~Paid
      <4>1. CASE DunningFailed(t)
        BY <4>1 DEF DunningFailed, Leave, Purpose, Control, PaidFollows
      <4>2. CASE PastDue(t)
        BY <4>2 DEF PastDue, Leave, Control, PhaseFollows, PaidFollows
      <4>. QED
        BY <2>3, <4>1, <4>2
    <3>2. phase' = phase \/ phase' = "deactivated"
      BY <2>3 DEF DunningFailed, PastDue, NextDunningAttempt, Exhausted, Deactivate,
                  TransitionTo, phases
    <3>. QED
      BY <3>1, <3>2
  <2>4. CASE Renewed(t) \/ Recovered(t)
    <3>1. phase = "active" /\ Paid
      BY <2>4 DEF Renewed, Recovered, Leave, Control, PhaseFollows, PaidFollows, PaidStages
    <3>. QED
      BY <2>4, <3>1 DEF Renewed, Recovered, AwaitPeriodEnd, Cancel, TransitionTo, phases
  <2>. QED
    BY <1>2, <2>1, <2>2, <2>3, <2>4 DEF ChargeStep, StartRenewal, RecordBillingEvent,
       SleepBackoff, phases
<1>3. CASE PeriodStep(t)
  <2>1. CASE NoticeWait(t) \/ RenewalUpcoming(t) \/ PeriodWait(t)
    <3>1. phase = "active" /\ Paid
      BY <2>1 DEF NoticeWait, RenewalUpcoming, PeriodWait, Leave, Control, PhaseFollows,
                  PaidFollows, PaidStages
    <3>. QED
      BY <2>1, <3>1 DEF NoticeWait, RenewalUpcoming, PeriodWait, Cancel, TransitionTo, phases
  <2>2. CASE Canceled(t) \/ CanceledWait(t)
    <3>1. phase = "canceled"
      BY <2>2 DEF Canceled, CanceledWait, Leave, Control, PhaseFollows
    <3>. QED
      BY <2>2, <3>1 DEF Canceled, CanceledWait, Deactivate, TransitionTo, phases
  <2>. QED
    BY <1>3, <2>1, <2>2 DEF PeriodStep, Deactivated, phases
<1>. QED
  BY <1>1, <1>2, <1>3 DEF RootStep

\* Paid is a truth value.
LEMMA PaidIsBoolean == Paid \in BOOLEAN /\ (Paid' \in BOOLEAN)
BY DEF Paid

\* A run that charges nothing stays as paid as it was.
LEMMA PaidStays ==
    ASSUME UNCHANGED <<charges, intervalID>>
    PROVE  Paid' = Paid
<1>1. Paid' <=> Paid
  BY PaidUnchanged
<1>. QED
  BY <1>1, PaidIsBoolean

\* Every step of the root is one of the diagram's, or none.
LEMMA RootKeepsPromise ==
    ASSUME TypeOK, Control, NEW t \in Moments, RootStep(t)
    PROVE  [Promise!Next]_(Promise!lifecycle)
<1>0. /\ UNCHANGED <<renewalCount, intervalID, cancelRequested>>
      /\ renewalCount = 0 \/ renewalCount > 0
  BY RootKeepsRun, BoundsAssumption DEF TypeOK
<1>1. CASE \E ok \in BOOLEAN : ChargePayment(t, ok)
  <2>1. PICK ok \in BOOLEAN : ChargePayment(t, ok)
    BY <1>1
  <2>2. /\ phase' = phase /\ ~Paid
        /\ phase \in {"starting", "trialing", "past_due"}
    BY <2>1 DEF ChargePayment, Leave, phases, Control, PhaseFollows, PaidFollows, ChargeStages
  <2>3. Paid' <=> ok
    <3>. DEFINE new == [interval |-> intervalID, purpose |-> Purpose,
                        attempt |-> dunningAttempt, ok |-> ok]
    <3>1. intervalID' = intervalID /\ charges' = charges \cup {new}
      BY <1>0, <2>1 DEF ChargePayment
    <3>2. new.interval = intervalID /\ new.ok = ok
      OBVIOUS
    <3>. HIDE DEF new
    <3>3. ok => Paid'
      BY <3>1, <3>2 DEF Paid
    <3>4. ASSUME Paid' PROVE ok
      <4>1. PICK c \in charges' : c.interval = intervalID /\ c.ok
        BY <3>1, <3>4 DEF Paid
      <4>2. c = new
        BY <2>2, <3>1, <4>1 DEF Paid
      <4>. QED
        BY <3>2, <4>1, <4>2
    <3>. QED
      BY <3>3, <3>4
  <2>4. CASE ok
    <3>1. Paid' = TRUE
      BY <2>3, <2>4
    <3>2. Promise!Charge
      BY <1>0, <2>2, <3>1 DEF Promise!Charge
    <3>. QED
      BY <3>2 DEF Promise!Next
  <2>5. CASE ~ok
    <3>1. Paid' = Paid
      BY <2>2, <2>3, <2>5, PaidIsBoolean
    <3>. QED
      BY <1>0, <2>2, <3>1 DEF Promise!lifecycle
  <2>. QED
    BY <2>4, <2>5
<1>2. CASE ~\E ok \in BOOLEAN : ChargePayment(t, ok)
  <2>1. Paid' = Paid
    BY <1>0, <1>2, RootKeepsLedger, PaidStays
  <2>2. CASE phase' = phase \/ (Lapsed /\ phase' = "active")
    BY <1>0, <2>1, <2>2 DEF Promise!lifecycle, Lapsed
  <2>3. CASE phase = "starting" /\ renewalCount = 0 /\ phase' = "trialing"
    <3>1. Promise!BeginTrial
      BY <1>0, <2>1, <2>3 DEF Promise!BeginTrial, Promise!Move
    <3>. QED
      BY <3>1 DEF Promise!Next
  <2>4. CASE Fresh /\ Paid /\ phase' = "active"
    <3>1. Promise!Activate
      BY <1>0, <2>1, <2>4 DEF Promise!Activate, Promise!Move, Fresh
    <3>. QED
      BY <3>1 DEF Promise!Next
  <2>5. CASE Fresh /\ ~Paid /\ phase' = "deactivated"
    <3>1. Promise!NeverActivate
      BY <1>0, <2>1, <2>5 DEF Promise!NeverActivate, Promise!Move, Fresh
    <3>. QED
      BY <3>1 DEF Promise!Next
  <2>6. CASE Lapsed /\ ~Paid /\ phase' = "past_due"
    <3>1. Promise!FallDue
      BY <1>0, <2>1, <2>6 DEF Promise!FallDue, Promise!Move, Lapsed
    <3>. QED
      BY <3>1 DEF Promise!Next
  <2>7. CASE phase = "past_due" /\ Paid /\ phase' = "active"
    <3>1. Promise!Recover
      BY <1>0, <2>1, <2>7 DEF Promise!Recover, Promise!Move
    <3>. QED
      BY <3>1 DEF Promise!Next
  <2>8. CASE phase = "past_due" /\ ~Paid /\ phase' = "deactivated"
    <3>1. Promise!Exhaust
      BY <1>0, <2>1, <2>8 DEF Promise!Exhaust, Promise!Move
    <3>. QED
      BY <3>1 DEF Promise!Next
  <2>9. CASE phase = "active" /\ Paid /\ cancelRequested /\ phase' = "canceled"
    <3>1. Promise!Cancel
      BY <1>0, <2>1, <2>9 DEF Promise!Cancel, Promise!Move
    <3>. QED
      BY <3>1 DEF Promise!Next
  <2>10. CASE phase = "canceled" /\ phase' = "deactivated"
    <3>1. Promise!End
      BY <1>0, <2>1, <2>10 DEF Promise!End, Promise!Move
    <3>. QED
      BY <3>1 DEF Promise!Next
  <2>. QED
    BY <1>2, <2>2, <2>3, <2>4, <2>5, <2>6, <2>7, <2>8, <2>9, <2>10, PhaseMoves
<1>. QED
  BY <1>1, <1>2

\* Continue-as-new is the renewal of a paid cycle that nobody leaves.
LEMMA NextPeriodKeepsPromise ==
    ASSUME TypeOK, Inv, NextPeriod
    PROVE  Promise!Renew
<1>1. /\ phase = "active" /\ Paid /\ ~cancelRequested
  BY DEF NextPeriod, Inv, Control, PhaseFollows, PaidFollows, CancelFollows, PaidStages
<1>2. /\ phase' = "starting" /\ renewalCount' = renewalCount + 1 /\ renewalCount' # 0
      /\ cancelRequested' = FALSE
  BY BoundsAssumption DEF NextPeriod, NextBillingPeriod, NewSubscription, TypeOK
<1>4. cancelRequested = FALSE
  BY <1>1 DEF TypeOK
<1>3. Paid' = FALSE
  <2>1. charges' = charges /\ intervalID' = intervalID + 1
    BY DEF NextPeriod, NextBillingPeriod, FreshIntervalID
  <2>2. \A c \in charges : c.interval # intervalID + 1
    BY DEF Inv, LedgerInOrder, TypeOK
  <2>. QED
    BY <2>1, <2>2 DEF Paid
<1>. QED
  BY <1>1, <1>2, <1>3, <1>4 DEF Promise!Renew

\* Nothing the outside does is visible in the diagram, but a cancel handled.
LEMMA EnvironmentKeepsPromise ==
    ASSUME TypeOK, Environment
    PROVE  [Promise!Next]_(Promise!lifecycle)
<1>1. UNCHANGED <<phase, renewalCount>> /\ Paid' = Paid
  BY EnvironmentKeeps, PaidStays
<1>2. CASE OnCancel
  <2>1. Promise!Leave
    BY <1>1, <1>2 DEF OnCancel, Promise!Leave
  <2>. QED
    BY <2>1 DEF Promise!Next
<1>3. CASE ~OnCancel
  <2>1. cancelRequested' = cancelRequested
    BY <1>3 DEF Environment, SignalCancel, SignalUpdateContext, OnContextUpdate,
                ResendActivate, Stopped, vars, signalled
  <2>. QED
    BY <1>1, <2>1 DEF Promise!lifecycle
<1>. QED
  BY <1>2, <1>3

\* The workflow keeps to the phase diagram: a cycle is paid for at most once,
\* only a paid cycle is followed by another, and who leaves does not renew.
THEOREM Refinement == Spec => ImplementsLifecycle
<1>1. Init => Promise!Init
  <2>1. SUFFICES ASSUME Init PROVE Promise!Init
    OBVIOUS
  <2>2. /\ phase = "starting" /\ renewalCount = 0 /\ charges = {}
        /\ cancelRequested = FALSE
    <3>1. PICK p \in Plans : CreateSubscription(p)
      BY <2>1 DEF Init
    <3>. QED
      BY <2>1, <3>1 DEF Init, CreateSubscription
  <2>. QED
    BY <2>2 DEF Promise!Init, Paid
<1>2. TypeOK /\ Inv /\ [Next]_vars => [Promise!Next]_(Promise!lifecycle)
  <2>1. SUFFICES ASSUME TypeOK, Inv, [Next]_vars
                 PROVE  [Promise!Next]_(Promise!lifecycle)
    OBVIOUS
  <2>2. CASE \E t \in Moments : RootStep(t)
    BY <2>1, <2>2, RootKeepsPromise DEF Inv
  <2>3. CASE NextPeriod
    BY <2>1, <2>3, NextPeriodKeepsPromise DEF Promise!Next
  <2>4. CASE Environment
    BY <2>1, <2>4, EnvironmentKeepsPromise
  <2>5. CASE UNCHANGED vars
    <3>1. UNCHANGED <<phase, renewalCount, cancelRequested>> /\ Paid' = Paid
      BY <2>5, PaidStays DEF vars, run, phases, billing, signalled
    <3>. QED
      BY <3>1 DEF Promise!lifecycle
  <2>. QED
    BY <2>1, <2>2, <2>3, <2>4, <2>5 DEF Next, Progress
<1>. QED
  BY <1>1, <1>2, InvHolds, TypeCorrect, PTL DEF Spec, ImplementsLifecycle, Promise!Spec

-----------------------------------------------------------------------------
(* What the API takes the workflow for *)

\* Past the location where it starts, a first run that is still starting has no
\* trial to serve.
TrialFirst == phase = "starting" /\ renewalCount = 0 => at = "start" \/ plan.TrialDuration <= 0

\* From the location where a run starts, the phase moves into the trial only;
\* no other step moves it there.
LEMMA StartMoves ==
    ASSUME NEW t \in Moments, RootStep(t), Control
    PROVE  /\ at = "start" => \/ phase' = phase /\ renewalCount > 0
                              \/ phase' = "trialing" /\ plan.TrialDuration > 0
                              \/ phase' = phase /\ plan.TrialDuration <= 0
           /\ at # "start" /\ phase # "trialing" => phase' # "trialing"
<1>1. CASE at = "start"
  <2>1. StartTrial(t) \/ StartWithoutTrial(t) \/ StartRenewal(t)
    BY <1>1 DEF RootStep, FirstPeriodStep, Trial, TrialNotice, TrialWillEnd, TrialEnd, Activate,
       Activated, ChargeStep, ChargePayment, RecordBillingEvent, ChargeSucceeded,
       ActivationFailed, RenewalFailed, DunningFailed, Renewed, PastDue, SleepBackoff,
       Recovered, PeriodStep, NoticeWait, RenewalUpcoming, PeriodWait, Canceled,
       CanceledWait, Deactivated, Leave
  <2>. QED
    BY <1>1, <2>1 DEF StartTrial, StartWithoutTrial, StartRenewal, TransitionTo, phases
<1>2. CASE at # "start"
  <2>1. ~StartTrial(t)
    BY <1>2 DEF StartTrial, Leave
  <2>. QED
    BY <1>2, <2>1 DEF RootStep, FirstPeriodStep, StartWithoutTrial, Trial, TrialNotice,
       TrialWillEnd, TrialEnd, Activate, Activated, AwaitPeriodEnd, ChargeStep, StartRenewal,
       ChargePayment, RecordBillingEvent, ChargeSucceeded, ActivationFailed, RenewalFailed,
       DunningFailed, Renewed, PastDue, NextDunningAttempt, Exhausted, SleepBackoff, Recovered,
       PeriodStep, NoticeWait, RenewalUpcoming, PeriodWait, Canceled, CanceledWait,
       Deactivated, Cancel, Deactivate, TransitionTo, phases
<1>. QED
  BY <1>1, <1>2

\* Every step leaves it at that.
LEMMA TrialFirstStays ==
    ASSUME TypeOK, Inv, TrialFirst, [Next]_vars
    PROVE  TrialFirst'
<1>1. ASSUME NEW t \in Moments, RootStep(t)
      PROVE  TrialFirst'
  <2>1. plan' = plan /\ renewalCount' = renewalCount
    BY <1>1, RootKeepsRun
  <2>2. phase' = "starting" => phase = "starting"
    <3>1. CASE \E ok \in BOOLEAN : ChargePayment(t, ok)
      BY <3>1 DEF ChargePayment, phases
    <3>2. CASE ~\E ok \in BOOLEAN : ChargePayment(t, ok)
      BY <1>1, <3>2, PhaseMoves DEF Inv
    <3>. QED
      BY <3>1, <3>2
  <2>3. CASE at = "start" /\ phase = "starting" /\ renewalCount = 0
    BY <1>1, <2>1, <2>3, StartMoves DEF TrialFirst, Inv
  <2>4. CASE ~(at = "start" /\ phase = "starting" /\ renewalCount = 0)
    BY <2>1, <2>2, <2>4 DEF TrialFirst
  <2>. QED
    BY <2>3, <2>4
<1>2. CASE NextPeriod
  BY <1>2 DEF NextPeriod, NewSubscription, TrialFirst
<1>3. CASE Environment
  BY <1>3, EnvironmentKeeps DEF TrialFirst
<1>4. CASE UNCHANGED vars
  BY <1>4 DEF vars, run, phases, TrialFirst
<1>. QED
  BY <1>1, <1>2, <1>3, <1>4 DEF Next, Progress

\* Only a deactivated workflow completes, and nothing follows.
LEMMA RootOpens ==
    ASSUME NEW t \in Moments, RootStep(t), Control
    PROVE  /\ at # "done"
           /\ at' = "done" => phase = "deactivated" /\ phase' = phase
<1>1. at # "done"
  BY DEF RootStep, FirstPeriodStep, StartTrial, StartWithoutTrial, Trial, TrialNotice,
     TrialWillEnd, TrialEnd, Activate, Activated, ChargeStep, StartRenewal, ChargePayment,
     RecordBillingEvent, ChargeSucceeded, ActivationFailed, RenewalFailed, DunningFailed,
     Renewed, PastDue, SleepBackoff, Recovered, PeriodStep, NoticeWait, RenewalUpcoming,
     PeriodWait, Canceled, CanceledWait, Deactivated, Leave
<1>2. CASE Deactivated(t)
  BY <1>1, <1>2 DEF Deactivated, Leave, Control, PhaseFollows, phases
<1>3. CASE Activated(t) \/ Renewed(t) \/ Recovered(t)
  <2>1. at' # "done"
    BY <1>3, AfterPayment DEF Activated, Renewed, Recovered
  <2>. QED
    BY <1>1, <2>1
<1>4. CASE ~(Deactivated(t) \/ Activated(t) \/ Renewed(t) \/ Recovered(t))
  <2>1. CASE FirstPeriodStep(t)
    <3>1. at' # "done"
      BY <1>4, <2>1 DEF FirstPeriodStep, StartTrial, StartWithoutTrial, Trial, TrialNotice,
         TrialWillEnd, TrialEnd, Activate, GoTo, Deactivate
    <3>. QED
      BY <1>1, <3>1
  <2>2. CASE ChargeStep(t)
    <3>1. at' # "done"
      BY <1>4, <2>2 DEF ChargeStep, StartRenewal, ChargePayment, RecordBillingEvent, Outcome,
         ChargeSucceeded, Purpose, ActivationFailed, RenewalFailed, DunningFailed, PastDue,
         NextDunningAttempt, Exhausted, SleepBackoff, Deactivate
    <3>. QED
      BY <1>1, <3>1
  <2>3. CASE PeriodStep(t)
    <3>1. at' # "done"
      BY <1>4, <2>3 DEF PeriodStep, NoticeWait, RenewalUpcoming, PeriodWait, Canceled,
         CanceledWait, Cancel, Deactivate
    <3>. QED
      BY <1>1, <3>1
  <2>. QED
    BY <2>1, <2>2, <2>3 DEF RootStep
<1>. QED
  BY <1>2, <1>3, <1>4

\* The payment as the API knows it.
KnownPaid == \/ renewalCount > 0 \/ phase \in {"active", "canceled"}
             \/ phase = "deactivated" /\ Paid

\* What the API may see of a workflow.
Views == [phase: Phases, run: Int, trial: Int, open: BOOLEAN, paid: BOOLEAN]

\* Seen field by field: a change of phase, a renewal, a completion.
LEMMA ViewMoves ==
    ASSUME NEW w \in Views, NEW v \in Views, v.trial = w.trial
    PROVE  /\ v.run = w.run /\ v.open = w.open /\ v.paid = (w.paid \/ v.phase = "active")
                  => v = InPhase(w, v.phase)
           /\ v.phase = "starting" /\ v.run = w.run + 1 /\ v.open = w.open /\ v.paid = w.paid
                  => v = InNextRun(w)
           /\ v.phase = w.phase /\ v.run = w.run /\ v.open = FALSE /\ v.paid = w.paid
                  => v = Closed(w)
<1>1. ASSUME v.run = w.run, v.open = w.open, v.paid = (w.paid \/ v.phase = "active")
      PROVE  v = InPhase(w, v.phase)
  BY <1>1 DEF InPhase, Views
<1>2. ASSUME v.phase = "starting", v.run = w.run + 1, v.open = w.open, v.paid = w.paid
      PROVE  v = InNextRun(w)
  BY <1>2 DEF InNextRun, Views
<1>3. ASSUME v.phase = w.phase, v.run = w.run, v.open = FALSE, v.paid = w.paid
      PROVE  v = Closed(w)
  BY <1>3 DEF Closed, Views
<1>. QED
  BY <1>1, <1>2, <1>3

\* What the API sees of this one.
LEMMA KnownView ==
    ASSUME TypeOK
    PROVE  /\ Known \in Views
           /\ Known.phase = phase /\ Known.run = renewalCount + 1
           /\ Known.trial = plan.TrialDuration
           /\ Known.open = (at # "done") /\ Known.paid = KnownPaid
<1>1. KnownPaid \in BOOLEAN /\ renewalCount + 1 \in Int /\ plan.TrialDuration \in Int
      /\ phase \in Phases
  BY PlanType, BoundsAssumption DEF KnownPaid, TypeOK
<1>. QED
  BY <1>1 DEF Known, KnownPaid, Views

\* And after a step.
LEMMA NextView ==
    ASSUME TypeOK'
    PROVE  /\ Known' \in Views
           /\ Known'.phase = phase' /\ Known'.run = renewalCount' + 1
           /\ Known'.trial = plan'.TrialDuration
           /\ Known'.open = (at' # "done") /\ Known'.paid = KnownPaid'
<1>1. KnownPaid' \in BOOLEAN /\ phase' \in Phases
  <2>1. KnownPaid' \in BOOLEAN
    BY Zenon DEF KnownPaid
  <2>2. phase' \in Phases
    BY DEF TypeOK
  <2>. QED
    BY <2>1, <2>2
<1>2. renewalCount' + 1 \in Int
  <2>1. renewalCount' \in 0..MaxRenewals
    BY DEF TypeOK
  <2>. QED
    BY <2>1, BoundsAssumption
<1>3. plan'.TrialDuration \in Int
  <2>1. plan' \in Plan
    BY PlansAssumption DEF TypeOK
  <2>2. Duration \subseteq Int
    BY WidthAssumption DEF Duration
  <2>. QED
    BY <2>1, <2>2 DEF Plan
<1>. QED
  BY <1>1, <1>2, <1>3 DEF Known, KnownPaid, Views

\* Every step of the root is one the API takes workflows to do, or none.
LEMMA RootAsTaken ==
    ASSUME TypeOK, TypeOK', Control, TrialFirst, NEW t \in Moments, RootStep(t)
    PROVE  MayBecome(Known, Known') \/ Known' = Known
<1>0. renewalCount \in 0..MaxRenewals
  BY DEF TypeOK
<1>1. /\ plan' = plan /\ renewalCount' = renewalCount
      /\ renewalCount \in Nat /\ (renewalCount = 0 \/ renewalCount > 0)
  BY <1>0, RootKeepsRun, BoundsAssumption
<1>2. at # "done"
  BY RootOpens
<1>3. CASE at' = "done"
  <2>1. phase = "deactivated" /\ phase' = phase
    BY <1>3, RootOpens
  <2>2. KnownPaid' = KnownPaid
    <3>1. charges' = charges /\ intervalID' = intervalID
      BY <2>1, DeactivatedStays, RootKeepsRun
    <3>2. Paid' = Paid
      BY <3>1, PaidStays
    <3>. QED
      BY <1>1, <2>1, <3>2 DEF KnownPaid
  <2>3. MayClose(Known) /\ Known' = Closed(Known)
    <3>1. Known'.open = FALSE /\ Known.open = TRUE
      BY <1>2, <1>3, KnownView, NextView
    <3>2. Known'.paid = Known.paid
      BY <2>2, KnownView, NextView
    <3>. QED
      BY <1>1, <2>1, <3>1, <3>2, KnownView, NextView, ViewMoves DEF MayClose
  <2>. QED
    BY <2>3 DEF MayBecome
<1>4. CASE at' # "done" /\ \E ok \in BOOLEAN : ChargePayment(t, ok)
  <2>1. phase' = phase /\ phase # "deactivated"
    BY <1>4 DEF ChargePayment, Leave, phases, Control, PhaseFollows, ChargeStages
  <2>2. Known' = Known
    BY <1>1, <1>2, <1>4, <2>1 DEF Known
  <2>. QED
    BY <2>2
<1>5. CASE at' # "done" /\ ~\E ok \in BOOLEAN : ChargePayment(t, ok)
  <2>1. Paid' = Paid
    BY <1>5, RootKeepsRun, RootKeepsLedger, PaidStays
  <2>2. CASE phase' = phase
    <3>1. KnownPaid' = KnownPaid
      BY <1>1, <2>1, <2>2 DEF KnownPaid
    <3>. QED
      BY <1>1, <1>2, <1>5, <2>2, <3>1 DEF Known, KnownPaid
  <2>3. CASE phase' # phase
    <3>1. phase' \in NextPhases(Known)
      <4>1. /\ Known.phase = phase /\ Known.run = renewalCount + 1
            /\ Known.trial = plan.TrialDuration
        BY DEF Known
      <4>2. phase = "starting" /\ renewalCount = 0 /\ phase' # "trialing"
                => plan.TrialDuration <= 0
        <5>1. phase = "starting" /\ renewalCount = 0 /\ at # "start"
                => plan.TrialDuration <= 0
          BY DEF TrialFirst
        <5>2. at = "start" => phase' = "trialing"
          BY <2>3, StartMoves
        <5>. QED
          BY <5>1, <5>2
      <4>3. phase # "trialing" /\ phase' = "trialing" => plan.TrialDuration > 0
        BY <2>3, StartMoves
      <4>4. plan.TrialDuration \in Int
        BY PlanType DEF TypeOK
      <4>5. renewalCount > 0 <=> renewalCount + 1 > 1
        BY <1>1
      <4>6. phase \in {"trialing", "past_due", "active", "canceled", "starting"}
        BY <2>3, <1>5, PhaseMoves DEF Fresh, Lapsed
      <4>7. CASE phase = "starting"
        <5>1. CASE renewalCount = 0
          BY <1>1, <1>5, <2>3, <4>1, <4>2, <4>3, <4>4, <4>7, <5>1, PhaseMoves
             DEF NextPhases, Fresh, Lapsed
        <5>2. CASE renewalCount > 0
          BY <1>1, <1>5, <2>3, <4>1, <4>5, <4>7, <5>2, PhaseMoves DEF NextPhases, Fresh, Lapsed
        <5>. QED
          BY <1>1, <5>1, <5>2
      <4>8. CASE phase # "starting"
        BY <1>5, <2>3, <4>1, <4>6, <4>8, PhaseMoves DEF NextPhases, Fresh, Lapsed
      <4>. QED
        BY <4>7, <4>8
    <3>2. KnownPaid' = (KnownPaid \/ phase' = "active")
      <4>1. phase \in {"starting", "trialing"} /\ phase' = "deactivated" => renewalCount > 0 \/ ~Paid
        BY <1>5, <2>3, PhaseMoves DEF Fresh, Lapsed
      <4>2. phase \in {"past_due"} => renewalCount > 0
        BY DEF Control, PhaseFollows
      <4>3. phase = "active" => phase' = "canceled"
        BY <1>5, <2>3, PhaseMoves DEF Fresh, Lapsed
      <4>4. phase = "canceled" => phase' = "deactivated" /\ Paid
        <5>1. phase = "canceled" => at \in {"Canceled", "canceledWait"}
          BY DEF TypeOK, Locations, Hooks, Timers, Control, PhaseFollows, TrialStages,
                 ChargeStages, PaidStages, PaymentHooks
        <5>. QED
          BY <1>5, <2>3, <5>1, PhaseMoves DEF Fresh, Lapsed, Control, PaidFollows
      <4>5. phase = "deactivated" => phase' = phase
        BY DeactivatedStays
      <4>6. KnownPaid <=> \/ renewalCount > 0 \/ phase \in {"active", "canceled"}
                          \/ phase = "deactivated" /\ Paid
        BY DEF KnownPaid
      <4>7. KnownPaid' <=> \/ renewalCount > 0 \/ phase' \in {"active", "canceled"}
                           \/ phase' = "deactivated" /\ Paid
        BY <1>1, <2>1 DEF KnownPaid
      <4>8. phase' = "canceled" => phase = "active"
        BY <1>5, <2>3, PhaseMoves DEF Fresh, Lapsed
      <4>9. phase \in {"starting", "trialing", "past_due", "active", "canceled", "deactivated"}
        BY DEF TypeOK, Phases
      <4>10. KnownPaid' <=> KnownPaid \/ phase' = "active"
        <5>. HIDE DEF KnownPaid
        <5>. QED
          BY <2>3, <4>1, <4>2, <4>3, <4>4, <4>5, <4>6, <4>7, <4>8, <4>9
      <4>. QED
        BY <4>10 DEF KnownPaid
    <3>3. Known' = InPhase(Known, phase')
      <4>1. Known'.open = Known.open
        BY <1>2, <1>5, KnownView, NextView
      <4>2. Known'.paid = (Known.paid \/ phase' = "active")
        BY <3>2, KnownView, NextView
      <4>. QED
        BY <1>1, <4>1, <4>2, KnownView, NextView, ViewMoves
    <3>. QED
      BY <3>1, <3>3 DEF MayBecome
  <2>. QED
    BY <2>2, <2>3
<1>. QED
  BY <1>3, <1>4, <1>5

\* Continue-as-new is a renewal of an active workflow.
LEMMA NextPeriodAsTaken ==
    ASSUME TypeOK, TypeOK', Control, NextPeriod
    PROVE  MayBecome(Known, Known')
<1>1. /\ phase = "active" /\ at = "nextPeriod" /\ renewalCount \in Nat
      /\ plan' = plan /\ phase' = "starting" /\ at' = "start"
      /\ renewalCount' = renewalCount + 1
  BY BoundsAssumption DEF NextPeriod, NextBillingPeriod, NewSubscription, Control, PhaseFollows,
     PaidStages, TypeOK
<1>2. /\ renewalCount' > 0 /\ renewalCount' + 1 = (renewalCount + 1) + 1
  BY <1>1
<1>3. Known' = InNextRun(Known) /\ MayRenew(Known)
  <2>1. KnownPaid' = KnownPaid
    BY <1>1, <1>2 DEF KnownPaid
  <2>2. Known'.open = Known.open /\ Known'.paid = Known.paid
    BY <1>1, <2>1, KnownView, NextView
  <2>. QED
    BY <1>1, <1>2, <2>2, KnownView, NextView, ViewMoves DEF MayRenew
<1>. QED
  BY <1>3 DEF MayBecome

\* The workflow moves, renews and completes as SubscriptionService, with the
\* per-user limit, the listing and the answers to callers, takes workflows to.
THEOREM ApiTakesItRight == Spec => AsTheApiTakesIt
<1>1. Init => Known = Started(plan.TrialDuration) /\ TrialFirst
  <2>1. SUFFICES ASSUME Init PROVE Known = Started(plan.TrialDuration) /\ TrialFirst
    OBVIOUS
  <2>2. phase = "starting" /\ renewalCount = 0 /\ at = "start"
    <3>1. PICK p \in Plans : CreateSubscription(p)
      BY <2>1 DEF Init
    <3>. QED
      BY <2>1, <3>1 DEF Init, CreateSubscription
  <2>. QED
    <3>1. KnownPaid = FALSE /\ (at # "done") = TRUE /\ renewalCount + 1 = 1
      BY <2>2 DEF KnownPaid
    <3>. QED
      BY <2>2, <3>1 DEF Known, KnownPaid, Started, TrialFirst
<1>2. TypeOK /\ Inv /\ TrialFirst /\ [Next]_vars => TrialFirst'
  BY TrialFirstStays
<1>3. TypeOK /\ TypeOK' /\ Inv /\ TrialFirst /\ [Next]_vars => [MayBecome(Known, Known')]_Known
  <2>1. SUFFICES ASSUME TypeOK, TypeOK', Inv, TrialFirst, [Next]_vars
                 PROVE  MayBecome(Known, Known') \/ Known' = Known
    OBVIOUS
  <2>2. CASE \E t \in Moments : RootStep(t)
    BY <2>1, <2>2, RootAsTaken DEF Inv
  <2>3. CASE NextPeriod
    BY <2>1, <2>3, NextPeriodAsTaken DEF Inv
  <2>4. CASE Environment \/ UNCHANGED vars
    <3>1. UNCHANGED <<plan, phase, renewalCount, at>> /\ Paid' = Paid
      <4>1. UNCHANGED <<plan, phase, renewalCount, at, charges, intervalID>>
        BY <2>4, EnvironmentKeeps DEF vars, run, phases, billing
      <4>. QED
        BY <4>1, PaidStays
    <3>. QED
      BY <3>1 DEF Known
  <2>. QED
    BY <2>1, <2>2, <2>3, <2>4 DEF Next, Progress
<1>. QED
  BY <1>1, <1>2, <1>3, InvHolds, TypeCorrect, PTL DEF Spec, AsTheApiTakesIt

=============================================================================
