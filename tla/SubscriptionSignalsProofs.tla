---------------------- MODULE SubscriptionSignalsProofs ----------------------
(***************************************************************************)
(* Theorems about signals: what a cancel stops, in the trial and after,    *)
(* and that context updates are merged in the order sent.                  *)
(***************************************************************************)
EXTENDS SubscriptionLedgerProofs

-----------------------------------------------------------------------------
(* A cancel and the notice of a renewal *)

\* The root comes to the notice from the wait for it, if nobody has canceled.
LEMMA WaysToNotice ==
    ASSUME NEW t \in Moments, RootStep(t), at' = "RenewalUpcoming"
    PROVE  ~cancelRequested
<1>1. CASE NoticeWait(t)
  BY <1>1 DEF NoticeWait, Cancel
<1>2. ~(Activated(t) \/ Renewed(t) \/ Recovered(t))
  BY AfterPayment DEF Activated, Renewed, Recovered
<1>3. ~Trial(t) /\ ~ChargeSucceeded(t)
  BY DEF Trial, ChargeSucceeded, GoTo, Deactivate, Purpose
<1>. QED
  BY <1>1, <1>2, <1>3
     DEF RootStep, FirstPeriodStep, StartTrial, StartWithoutTrial, TrialNotice,
         TrialWillEnd, TrialEnd, Activate, ChargeStep, StartRenewal, ChargePayment,
         RecordBillingEvent, Outcome, ActivationFailed, RenewalFailed, DunningFailed, PastDue,
         NextDunningAttempt, Exhausted, SleepBackoff, PeriodStep, RenewalUpcoming, PeriodWait,
         Canceled, CanceledWait, Deactivated, Deactivate, Cancel, GoTo

\* Who has been heard to cancel is not told of an upcoming renewal.
THEOREM NoticesStop == Spec => NoRenewalNoticeAfterCancel
<1>1. TypeOK /\ [Next]_vars
          => [at # at' /\ at' = "RenewalUpcoming" => ~cancelRequested]_vars
  <2>1. SUFFICES ASSUME TypeOK, Next, at # at', at' = "RenewalUpcoming"
                 PROVE  ~cancelRequested
    OBVIOUS
  <2>2. CASE \E t \in Moments : RootStep(t)
    BY <2>1, <2>2, WaysToNotice
  <2>3. CASE NextPeriod
    BY <2>1, <2>3 DEF NextPeriod, NewSubscription
  <2>4. CASE Environment
    BY <2>1, <2>4, EnvironmentKeeps
  <2>. QED
    BY <2>1, <2>2, <2>3, <2>4 DEF Next, Progress
<1>. QED
  BY <1>1, TypeCorrect, PTL DEF Spec, NoRenewalNoticeAfterCancel

\* A cancel that was heard stands: it is not undone, no period follows it, and no
\* notice of one.
THEOREM CancelsAreHeeded == Spec => CancelIsHeeded
BY HandledCancelStays, NoticesStop DEF CancelIsHeeded

-----------------------------------------------------------------------------
(* A cancel in the trial *)

\* Who leaves in the trial leaves uncharged, and stays so.
LeftTrial ==
    /\ charges = {}
    /\ phase = "deactivated" \/ (cancelRequested /\ at \in TrialStages)

\* In the trial there is nothing in the ledger: its interval is the first, and
\* no attempt is counted.
LEMMA TrialHasNoCharges ==
    ASSUME TypeOK, Inv, ChargesNumbered, at \in TrialStages
    PROVE  charges = {}
<1>1. dunningAttempt = 0 /\ at \in Uncharged /\ phase = "trialing"
  BY DEF Inv, Control, DunningFollows, PhaseFollows, Uncharged
<1>2. intervalID = 0
  BY <1>1 DEF Inv, Control, PhaseFollows, LedgerInOrder
<1>3. \A c \in charges : c.interval = intervalID
  BY <1>2 DEF Inv, LedgerInOrder, TypeOK
<1>4. Charges(intervalID) = {}
  BY <1>1, UnchargedIsEmpty
<1>. QED
  BY <1>3, <1>4 DEF Charges

\* Every step of the root keeps who has left the trial out.
LEMMA RootStaysOut ==
    ASSUME TypeOK, Inv, LeftTrial, NEW t \in Moments, RootStep(t)
    PROVE  LeftTrial'
<1>1. CASE phase = "deactivated"
  BY <1>1, DeactivatedStays DEF LeftTrial, Inv
<1>2. CASE cancelRequested /\ at \in TrialStages
  <2>1. Trial(t) \/ TrialNotice(t) \/ TrialWillEnd(t) \/ TrialEnd(t)
    BY <1>2 DEF RootStep, FirstPeriodStep, StartTrial, StartWithoutTrial, Activate,
       Activated, ChargeStep, StartRenewal, ChargePayment, RecordBillingEvent,
       ChargeSucceeded, ActivationFailed, RenewalFailed, DunningFailed, Renewed, PastDue,
       SleepBackoff, Recovered, PeriodStep, NoticeWait, RenewalUpcoming, PeriodWait,
       Canceled, CanceledWait, Deactivated, Leave, TrialStages
  <2>2. charges' = charges
    BY <2>1 DEF Trial, TrialNotice, TrialWillEnd, TrialEnd, billing
  <2>3. CASE TrialWillEnd(t)
    <3>1. at' = "trialEnd" /\ cancelRequested'
      BY <1>1, <1>2, <2>3 DEF TrialWillEnd, Leave, signalled
    <3>. QED
      BY <2>2, <3>1 DEF LeftTrial, TrialStages
  <2>4. CASE ~TrialWillEnd(t)
    <3>1. phase' = "deactivated"
      BY <1>2, <2>1, <2>4 DEF Trial, TrialNotice, TrialEnd, Deactivate, TransitionTo
    <3>. QED
      BY <2>2, <3>1 DEF LeftTrial
  <2>. QED
    BY <2>3, <2>4
<1>. QED
  BY <1>1, <1>2 DEF LeftTrial

\* So does every step.
LEMMA NextStaysOut ==
    ASSUME TypeOK, Inv, LeftTrial, [Next]_vars
    PROVE  LeftTrial'
<1>1. CASE \E t \in Moments : RootStep(t)
  BY <1>1, RootStaysOut
<1>2. CASE NextPeriod
  <2>1. at = "nextPeriod" /\ phase = "active"
    BY <1>2 DEF NextPeriod, Inv, Control, PhaseFollows, PaidStages
  <2>. QED
    BY <2>1 DEF LeftTrial, TrialStages
<1>3. CASE Environment
  <2>1. cancelRequested => cancelRequested'
    BY <1>3 DEF Environment, SignalCancel, OnCancel, SignalUpdateContext, OnContextUpdate,
                ResendActivate, Stopped, vars, signalled
  <2>. QED
    BY <1>3, <2>1, EnvironmentKeeps DEF LeftTrial
<1>4. CASE UNCHANGED vars
  BY <1>4 DEF vars, phases, billing, signalled, LeftTrial
<1>. QED
  BY <1>1, <1>2, <1>3, <1>4 DEF Next, Progress

\* A cancel that reaches the workflow while the trial runs costs nothing, then
\* or ever after.
THEOREM LeavingTheTrialIsFree == Spec => TrialCancelIsFree
<1>1. TypeOK /\ Inv /\ ChargesNumbered /\ cancelRequested /\ at \in TrialStages => LeftTrial
  BY TrialHasNoCharges DEF LeftTrial
<1>2. TypeOK /\ Inv /\ LeftTrial /\ [Next]_vars => LeftTrial'
  BY NextStaysOut
<1>3. LeftTrial => charges = {}
  BY DEF LeftTrial
<1>. QED
  BY <1>1, <1>2, <1>3, TypeCorrect, InvHolds, NumbersHold, PTL DEF Spec, TrialCancelIsFree

-----------------------------------------------------------------------------
(* Context updates *)

\* The updates under way are later than what was merged, in the order sent.
ContextInOrder ==
    /\ context <= contextSent
    /\ \A i \in 1..Len(contextSignals) :
           /\ context < contextSignals[i] /\ contextSignals[i] <= contextSent
           /\ \A j \in 1..(i - 1) : contextSignals[j] < contextSignals[i]

\* An update that is sent comes after those under way.
LEMMA SendInOrder ==
    ASSUME TypeOK, ContextInOrder, SignalUpdateContext
    PROVE  ContextInOrder' /\ context' = context
<1>1. /\ context' = context /\ contextSent' = contextSent + 1
      /\ contextSignals' = Append(contextSignals, contextSent + 1)
  BY DEF SignalUpdateContext, signalled
<1>2. /\ context \in Nat /\ contextSent \in Nat
      /\ contextSignals \in Seq(Nat) /\ contextSent + 1 \in Nat
  <2>1. Seq(1..MaxUpdates) \subseteq Seq(Nat)
    BY BoundsAssumption
  <2>. QED
    BY <2>1, BoundsAssumption DEF TypeOK
<1>3. /\ Len(contextSignals') = Len(contextSignals) + 1
      /\ \A i \in 1..Len(contextSignals) : contextSignals'[i] = contextSignals[i]
      /\ contextSignals'[Len(contextSignals) + 1] = contextSent + 1
  BY <1>1, <1>2, AppendProperties
<1>4. Len(contextSignals) \in Nat /\ \A i \in 1..Len(contextSignals) : contextSignals[i] \in Nat
  BY <1>2
<1>5. ASSUME NEW i \in 1..Len(contextSignals')
      PROVE  /\ context' < contextSignals'[i] /\ contextSignals'[i] <= contextSent'
             /\ \A j \in 1..(i - 1) : contextSignals'[j] < contextSignals'[i]
  <2>1. CASE i \in 1..Len(contextSignals)
    BY <1>1, <1>2, <1>3, <1>4, <2>1 DEF ContextInOrder
  <2>2. CASE i = Len(contextSignals) + 1
    BY <1>1, <1>2, <1>3, <1>4, <2>2 DEF ContextInOrder
  <2>. QED
    BY <1>3, <1>4, <2>1, <2>2
<1>. QED
  BY <1>1, <1>2, <1>5 DEF ContextInOrder

\* The update that is merged comes before those that stay under way.
LEMMA MergeInOrder ==
    ASSUME TypeOK, ContextInOrder, OnContextUpdate
    PROVE  ContextInOrder' /\ context' >= context
<1>1. /\ contextSignals # <<>> /\ context' = Head(contextSignals)
      /\ contextSignals' = Tail(contextSignals) /\ contextSent' = contextSent
  BY DEF OnContextUpdate
<1>2. /\ context \in Nat /\ contextSent \in Nat /\ contextSignals \in Seq(Nat)
  <2>1. Seq(1..MaxUpdates) \subseteq Seq(Nat)
    BY BoundsAssumption
  <2>. QED
    BY <2>1, BoundsAssumption DEF TypeOK
<1>3. /\ Len(contextSignals') = Len(contextSignals) - 1
      /\ \A i \in 1..Len(contextSignals') : contextSignals'[i] = contextSignals[i + 1]
  BY <1>1, <1>2, HeadTailProperties
<1>4. Len(contextSignals) \in Nat \ {0} /\ context' = contextSignals[1]
  BY <1>1, <1>2
<1>5. \A i \in 1..Len(contextSignals) : contextSignals[i] \in Nat
  BY <1>2
<1>6. context' > context /\ context' <= contextSent
  BY <1>2, <1>4, <1>5 DEF ContextInOrder
<1>7. ASSUME NEW i \in 1..Len(contextSignals')
      PROVE  /\ context' < contextSignals'[i] /\ contextSignals'[i] <= contextSent'
             /\ \A j \in 1..(i - 1) : contextSignals'[j] < contextSignals'[i]
  <2>1. i + 1 \in 1..Len(contextSignals) /\ contextSignals'[i] = contextSignals[i + 1]
    BY <1>3, <1>4
  <2>2. contextSignals[1] < contextSignals[i + 1] /\ contextSignals[i + 1] <= contextSent
    BY <1>4, <2>1 DEF ContextInOrder
  <2>3. ASSUME NEW j \in 1..(i - 1) PROVE contextSignals'[j] < contextSignals'[i]
    <3>1. j + 1 \in 1..((i + 1) - 1) /\ contextSignals'[j] = contextSignals[j + 1]
      BY <1>3, <1>4, <2>3
    <3>. QED
      BY <2>1, <3>1 DEF ContextInOrder
  <2>. QED
    BY <1>1, <1>4, <2>1, <2>2, <2>3
<1>. QED
  BY <1>1, <1>2, <1>6, <1>7 DEF ContextInOrder

\* Every step keeps the updates in order, and the context does not go back.
LEMMA NextContext ==
    ASSUME TypeOK, ContextInOrder, [Next]_vars
    PROVE  ContextInOrder' /\ context' >= context
<1>0. context \in Nat /\ contextSent \in Nat
  BY BoundsAssumption DEF TypeOK
<1>1. CASE SignalUpdateContext
  BY <1>0, <1>1, SendInOrder
<1>2. CASE OnContextUpdate
  BY <1>2, MergeInOrder
<1>3. CASE NextPeriod
  <2>1. contextSignals' = <<>> /\ UNCHANGED <<context, contextSent>>
    BY <1>3 DEF NextPeriod, NextBillingPeriod, ContextCarried
  <2>2. Len(contextSignals') = 0
    BY <2>1
  <2>. QED
    BY <1>0, <2>1, <2>2 DEF ContextInOrder
<1>4. CASE UNCHANGED <<context, contextSignals, contextSent>>
  BY <1>0, <1>4 DEF ContextInOrder
<1>5. CASE \E t \in Moments : RootStep(t)
  BY <1>4, <1>5, RootKeepsRun
<1>6. CASE SignalCancel \/ OnCancel \/ ResendActivate \/ Stopped \/ UNCHANGED vars
  BY <1>4, <1>6 DEF SignalCancel, OnCancel, ResendActivate, Stopped, vars, signalled, inbox
<1>. QED
  BY <1>1, <1>2, <1>3, <1>5, <1>6 DEF Next, Progress, Environment

\* No merged update is undone: updates are merged in the order sent and survive
\* continue-as-new; those lost with a run are later than all that was merged.
THEOREM ContextGrows == Spec => ContextNeverGoesBack
<1>1. Init => ContextInOrder
  BY DEF Init, ContextInOrder
<1>2. TypeOK /\ ContextInOrder /\ [Next]_vars => ContextInOrder'
  BY NextContext
<1>3. TypeOK /\ ContextInOrder /\ [Next]_vars => [context' >= context]_vars
  BY NextContext
<1>. QED
  BY <1>1, <1>2, <1>3, TypeCorrect, PTL DEF Spec, ContextNeverGoesBack

=============================================================================
