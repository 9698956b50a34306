-------------------- MODULE SubscriptionCollectionProofs --------------------
(***************************************************************************)
(* The subscription workflow implements Collection: the charges of every   *)
(* interval are made, recorded and notified in turn, and none is left out. *)
(***************************************************************************)
EXTENDS SubscriptionLedgerProofs

\* Until an interval is paid for, each of its attempts so far has failed: those
\* before the present one, and the present one where it has been charged for.
AttemptsInTurn ==
    /\ at \in Uncharged => Attempts(FALSE) = 0..(dunningAttempt - 1)
    /\ at \in {"recording", "PaymentFailed", "PastDue"} /\ ~Paid
          => Attempts(FALSE) = 0..dunningAttempt

-----------------------------------------------------------------------------
(* Lemmas *)

\* An interval is paid for if some attempt succeeded.
LEMMA PaidByAttempt ==
    ASSUME TypeOK
    PROVE  /\ Paid <=> Attempts(TRUE) # {}
           /\ Charges(intervalID) = {} => Attempts(TRUE) = {} /\ Attempts(FALSE) = {}
BY DEF TypeOK, Paid, Attempts, Charges

\* The ledger and the interval decide the attempts.
LEMMA SameAttempts ==
    ASSUME UNCHANGED <<charges, intervalID>>
    PROVE  /\ Attempts(TRUE)' = Attempts(TRUE) /\ Attempts(FALSE)' = Attempts(FALSE)
           /\ Charges(intervalID)' = Charges(intervalID)
           /\ Paid' <=> Paid
BY DEF Attempts, Charges, Paid

\* A charge adds its attempt to those that came to the same end.
LEMMA AttemptMade ==
    ASSUME TypeOK, Inv, ChargesNumbered, NEW t \in Moments, NEW ok \in BOOLEAN,
           ChargePayment(t, ok)
    PROVE  /\ Attempts(ok)' = Attempts(ok) \cup {dunningAttempt}
           /\ Attempts(~ok)' = Attempts(~ok)
           /\ Attempts(TRUE) = {}
           /\ Paid' <=> ok
<1>1. PICK new : /\ new.interval = intervalID /\ new.attempt = dunningAttempt /\ new.ok = ok
                 /\ charges' = charges \cup {new}
  BY ChargeIsNew
<1>2. /\ intervalID' = intervalID /\ ~Paid
  BY DEF ChargePayment, Leave, run, Inv, Control, PaidFollows
<1>3. Attempts(TRUE) = {}
  BY <1>2, PaidByAttempt
<1>4. Charges(intervalID)' = Charges(intervalID) \cup {new}
  BY <1>1, <1>2 DEF Charges
<1>5. Attempts(ok)' = Attempts(ok) \cup {dunningAttempt}
  BY <1>1, <1>4 DEF Attempts
<1>6. Attempts(~ok)' = Attempts(~ok)
  BY <1>1, <1>4 DEF Attempts
<1>7. Paid' <=> ok
  BY <1>1, <1>2 DEF Paid
<1>. QED
  BY <1>3, <1>5, <1>6, <1>7

\* The present attempt is one the interval allows.
LEMMA AttemptAllowed ==
    ASSUME TypeOK, Inv
    PROVE  /\ LastAttempt \in Nat
           /\ at = "charging" => dunningAttempt \in 0..LastAttempt
<1>1. /\ plan.DunningMaxAttempts \in Nat /\ dunningAttempt \in 0..plan.DunningMaxAttempts
      /\ renewalCount = 0 \/ renewalCount > 0
  BY PlanType, BoundsAssumption DEF TypeOK
<1>2. at = "charging" /\ renewalCount = 0 => dunningAttempt = 0
  BY <1>1 DEF Inv, Control, PhaseFollows, DunningFollows, ChargeStages
<1>. QED
  BY <1>1, <1>2 DEF LastAttempt

-----------------------------------------------------------------------------
(* Attempts are made in turn *)

LEMMA NextInTurn ==
    ASSUME TypeOK, Inv, ChargesNumbered, AttemptsInTurn, [Next]_vars
    PROVE  AttemptsInTurn'
<1>0. dunningAttempt \in Nat
  BY PlanType DEF TypeOK
<1>1. ASSUME NEW t \in Moments, NEW ok \in BOOLEAN, ChargePayment(t, ok)
      PROVE  AttemptsInTurn'
  <2>1. /\ at = "charging" /\ at' = "recording" /\ dunningAttempt' = dunningAttempt
    BY <1>1 DEF ChargePayment, Leave
  <2>2. Attempts(FALSE) = 0..(dunningAttempt - 1)
    BY <2>1 DEF AttemptsInTurn, Uncharged
  <2>3. ~Paid' => Attempts(FALSE)' = 0..(dunningAttempt - 1) \cup {dunningAttempt}
    <3>1. Paid' <=> ok
      BY <1>1, AttemptMade
    <3>2. CASE ok = FALSE
      BY <1>1, <2>2, <3>2, AttemptMade
    <3>. QED
      BY <3>1, <3>2
  <2>4. 0..(dunningAttempt - 1) \cup {dunningAttempt} = 0..dunningAttempt
    BY <1>0
  <2>. QED
    BY <2>1, <2>3, <2>4 DEF AttemptsInTurn, Uncharged, TrialStages
<1>2. CASE NextPeriod
  <2>1. /\ intervalID' = intervalID + 1 /\ charges' = charges /\ at' = "start"
        /\ dunningAttempt' = 0
    BY <1>2 DEF NextPeriod, NextBillingPeriod, NewSubscription, FreshIntervalID
  <2>2. \A c \in charges : c.interval # intervalID + 1
    BY DEF Inv, LedgerInOrder, TypeOK
  <2>3. Attempts(FALSE)' = {}
    BY <2>1, <2>2 DEF Attempts, Charges
  <2>4. 0..(0 - 1) = {}
    OBVIOUS
  <2>. QED
    BY <2>1, <2>3, <2>4 DEF AttemptsInTurn
<1>3. ASSUME NEW t \in Moments, RootStep(t), ~\E ok \in BOOLEAN : ChargePayment(t, ok)
      PROVE  AttemptsInTurn'
  <2>1. Attempts(FALSE)' = Attempts(FALSE) /\ (Paid' <=> Paid)
    BY <1>3, RootKeepsRun, RootKeepsLedger, SameAttempts
  <2>2. at \in {"PaymentFailed", "PastDue"} => ~Paid
    BY DEF Inv, Control, PaidFollows
  <2>3. ASSUME at' \in Uncharged PROVE Attempts(FALSE)' = 0..(dunningAttempt' - 1)
    <3>1. CASE at \in Uncharged /\ dunningAttempt' = dunningAttempt
      BY <2>1, <3>1 DEF AttemptsInTurn
    <3>2. CASE at \in {"PaymentFailed", "PastDue"} /\ dunningAttempt' = dunningAttempt + 1
      <4>1. dunningAttempt' - 1 = dunningAttempt
        BY <1>0, <3>2
      <4>. QED
        BY <2>1, <2>2, <3>2, <4>1 DEF AttemptsInTurn
    <3>. QED
      BY <1>3, <2>3, <3>1, <3>2, WaysBack DEF Inv
  <2>4. ASSUME at' \in {"recording", "PaymentFailed", "PastDue"}, ~Paid'
        PROVE  Attempts(FALSE)' = 0..dunningAttempt'
    BY <1>3, <2>1, <2>4, WaysBack DEF Inv, AttemptsInTurn
  <2>. QED
    BY <2>3, <2>4 DEF AttemptsInTurn
<1>4. CASE UNCHANGED <<at, intervalID, charges, dunningAttempt>>
  BY <1>4, SameAttempts DEF AttemptsInTurn
<1>. QED
  BY <1>1, <1>2, <1>3, <1>4, StepKinds

\* Whatever is retried, an attempt is made only after all before it failed, and
\* none is skipped.
THEOREM NoAttemptSkipped == Spec => []AttemptsInTurn
<1>1. Init => AttemptsInTurn
  <2>1. 0..(0 - 1) = {}
    OBVIOUS
  <2>. QED
    BY <2>1 DEF Init, AttemptsInTurn, Attempts, Charges
<1>2. TypeOK /\ Inv /\ ChargesNumbered /\ AttemptsInTurn /\ [Next]_vars => AttemptsInTurn'
  BY NextInTurn
<1>. QED
  BY <1>1, <1>2, TypeCorrect, InvHolds, NumbersHold, PTL DEF Spec

-----------------------------------------------------------------------------
(* The refinement *)

\* Where nothing of the collection happens.
Aside == Locations \ (PaymentHooks \cup {"recording", "PastDue"})

\* A step between such places leaves the collection where it was: an unpaid
\* interval is left behind uncharged, or exhausted already.
LEMMA AsideIsAside ==
    ASSUME TypeOK, Inv, ChargesNumbered, at \in Aside, at' \in Aside,
           ~Paid /\ at \notin {"Deactivated", "done"} /\ at' \in {"Deactivated", "done"}
               => at \in TrialStages,
           at \in {"Deactivated", "done"} => at' \in {"Deactivated", "done"},
           UNCHANGED <<charges, intervalID>>
    PROVE  CollectionStep' = CollectionStep
<1>1. (Paid' <=> Paid) /\ Charges(intervalID)' = Charges(intervalID)
  BY SameAttempts
<1>2. at \in TrialStages => Charges(intervalID) = {}
  BY UnchargedIsEmpty DEF Inv, Control, DunningFollows, Uncharged
<1>3. CollectionStep = IF Paid THEN "paid"
                       ELSE IF at \in {"Deactivated", "done"} /\ Charges(intervalID) # {}
                       THEN "exhausted" ELSE "charge"
  BY DEF CollectionStep, Aside
<1>4. CollectionStep' = IF Paid' THEN "paid"
                        ELSE IF at' \in {"Deactivated", "done"} /\ Charges(intervalID)' # {}
                        THEN "exhausted" ELSE "charge"
  BY DEF CollectionStep, Aside
<1>. QED
  BY <1>1, <1>2, <1>3, <1>4 DEF TrialStages

\* A step of the root from such a place to another.
LEMMA RootAside ==
    ASSUME TypeOK, Inv, NEW t \in Moments, RootStep(t), at \in Aside, at # "charging"
    PROVE  /\ at' \in Aside
           /\ ~Paid /\ at \notin {"Deactivated", "done"} /\ at' \in {"Deactivated", "done"}
                  => at \in TrialStages
           /\ at \in {"Deactivated", "done"} => at' \in {"Deactivated", "done"}
<1>. USE DEF Aside, Locations, Hooks, Timers, PaymentHooks
<1>1. at \in {"Canceled", "canceledWait"} \cup PaidStages => Paid
  BY DEF Inv, Control, PaidFollows
<1>2. CASE FirstPeriodStep(t)
  <2>1. CASE Activated(t)
    BY <2>1, AfterPayment DEF Activated, Leave, PaidStages
  <2>2. CASE Trial(t)
    BY <2>2 DEF Trial, Leave, GoTo, Deactivate, TrialStages
  <2>. QED
    BY <1>2, <2>1, <2>2 DEF FirstPeriodStep, StartTrial, StartWithoutTrial, TrialNotice,
       TrialWillEnd, TrialEnd, Activate, Leave, GoTo, Deactivate, TrialStages
<1>3. CASE ChargeStep(t)
  <2>1. CASE Renewed(t) \/ Recovered(t)
    BY <2>1, AfterPayment DEF Renewed, Recovered, Leave, PaidStages
  <2>. QED
    BY <1>3, <2>1 DEF ChargeStep, ChargePayment, RecordBillingEvent, ChargeSucceeded,
       DunningFailed, PastDue, StartRenewal, ActivationFailed, RenewalFailed, SleepBackoff, Leave
<1>4. CASE PeriodStep(t)
  BY <1>1, <1>4 DEF PeriodStep, NoticeWait, RenewalUpcoming, PeriodWait, Canceled, CanceledWait,
     Deactivated, Deactivate, Cancel, Leave, PaidStages
<1>. QED
  BY <1>2, <1>3, <1>4 DEF RootStep

\* From the end of a charge to the integrator, and on from there.
LEMMA RootCollects ==
    ASSUME TypeOK, Inv, ChargesNumbered, AttemptsInTurn, NEW t \in Moments, RootStep(t),
           at \in {"recording", "PastDue"} \cup PaymentHooks
    PROVE  [Collected!Next]_(Collected!collection)
<1>. USE DEF PaymentHooks
<1>0. /\ UNCHANGED <<plan, renewalCount, charges, intervalID, LastAttempt>>
      /\ UNCHANGED <<Attempts(TRUE), Attempts(FALSE)>>
      /\ (Paid' <=> Paid) /\ (Paid <=> Attempts(TRUE) # {})
      /\ ~\E ok \in BOOLEAN : ChargePayment(t, ok)
  <2>1. ~\E ok \in BOOLEAN : ChargePayment(t, ok)
    BY DEF ChargePayment, Leave
  <2>. QED
    BY <2>1, RootKeepsRun, RootKeepsLedger, SameAttempts, PaidByAttempt DEF LastAttempt
<1>1. /\ dunningAttempt \in 0..plan.DunningMaxAttempts /\ plan.DunningMaxAttempts \in Nat
      /\ renewalCount \in Nat /\ LastAttempt \in Nat
  BY PlanType, AttemptAllowed, BoundsAssumption DEF TypeOK
<1>2. at \in {"PaymentFailed", "PastDue"} => ~Paid /\ Attempts(FALSE) = 0..dunningAttempt
  BY DEF Inv, Control, PaidFollows, AttemptsInTurn
<1>3. CASE RecordBillingEvent(t)
  <2>1. at = "recording" /\ at' \in {"PaymentOK", "PaymentFailed"}
    BY <1>3 DEF RecordBillingEvent, Leave, Outcome
  <2>2. CollectionStep = "record" /\ CollectionStep' = "notify"
    BY <2>1 DEF CollectionStep
  <2>. QED
    BY <1>0, <2>2 DEF Collected!Next, Collected!Record
<1>4. CASE ChargeSucceeded(t)
  <2>1. at = "PaymentOK" /\ at' \in {"Activated", "Renewed", "Recovered"} /\ Paid
    BY <1>4 DEF ChargeSucceeded, Leave, Purpose, Inv, Control, PaidFollows
  <2>2. CollectionStep = "notify" /\ CollectionStep' = "paid"
    BY <1>0, <2>1 DEF CollectionStep
  <2>. QED
    BY <1>0, <2>1, <2>2 DEF Collected!Next, Collected!Notify
<1>5. ASSUME at \in {"PaymentFailed", "PastDue"}, at' = "Deactivated",
             dunningAttempt = LastAttempt
      PROVE  Collected!Next
  <2>1. Attempts(FALSE) = 0..LastAttempt /\ Attempts(FALSE) # {}
    <3>1. 0 \in 0..LastAttempt
      BY <1>1
    <3>. QED
      BY <1>2, <1>5, <3>1
  <2>2. Charges(intervalID)' # {}
    BY <1>0, <2>1 DEF Attempts, Charges
  <2>3. CollectionStep = "notify" /\ CollectionStep' = "exhausted"
    BY <1>0, <1>2, <1>5, <2>2 DEF CollectionStep
  <2>. QED
    BY <1>0, <1>2, <1>5, <2>1, <2>3 DEF Collected!Next, Collected!Notify
<1>6. CASE ActivationFailed(t)
  <2>1. at = "PaymentFailed" /\ at' = "Deactivated" /\ phase # "past_due" /\ renewalCount = 0
    BY <1>1, <1>6 DEF ActivationFailed, Leave, Purpose, Deactivate
  <2>2. dunningAttempt = 0
    BY <1>1, <2>1 DEF Inv, Control, DunningFollows, ChargeStages
  <2>. QED
    BY <1>5, <2>1, <2>2 DEF LastAttempt
<1>7. CASE RenewalFailed(t)
  BY <1>0, <1>7 DEF RenewalFailed, Leave, CollectionStep, Collected!collection
<1>8. CASE DunningFailed(t) \/ PastDue(t)
  <2>1. /\ at \in {"PaymentFailed", "PastDue"} /\ phase = "past_due"
        /\ NextDunningAttempt
    BY <1>8 DEF DunningFailed, PastDue, Leave, Purpose, Inv, Control, PhaseFollows
  <2>2. LastAttempt = plan.DunningMaxAttempts
    BY <1>1, <2>1 DEF Inv, Control, PhaseFollows, LastAttempt
  <2>3. CASE AttemptsLeft
    <3>1. at' = "backoff" /\ dunningAttempt < LastAttempt
      BY <2>1, <2>2, <2>3 DEF NextDunningAttempt, AttemptsLeft
    <3>2. Attempts(FALSE) # 0..LastAttempt
      <4>1. LastAttempt \in 0..LastAttempt /\ LastAttempt \notin 0..dunningAttempt
        BY <1>1, <3>1
      <4>. QED
        BY <1>2, <2>1, <4>1
    <3>3. CollectionStep = "notify" /\ CollectionStep' = "charge"
      BY <1>0, <1>2, <2>1, <3>1 DEF CollectionStep
    <3>. QED
      BY <1>0, <1>2, <2>1, <3>2, <3>3 DEF Collected!Next, Collected!Notify
  <2>4. CASE ~AttemptsLeft
    <3>1. at' = "Deactivated" /\ dunningAttempt = LastAttempt
      BY <1>1, <2>1, <2>2, <2>4 DEF NextDunningAttempt, AttemptsLeft, Exhausted, Deactivate
    <3>. QED
      BY <1>5, <2>1, <3>1
  <2>. QED
    BY <2>3, <2>4
<1>. QED
  BY <1>3, <1>4, <1>6, <1>7, <1>8 DEF RootStep, FirstPeriodStep, ChargeStep, PeriodStep,
     StartTrial, StartWithoutTrial, Trial, TrialNotice, TrialWillEnd, TrialEnd, Activate,
     Activated, StartRenewal, ChargePayment, Renewed, SleepBackoff, Recovered, NoticeWait,
     RenewalUpcoming, PeriodWait, Canceled, CanceledWait, Deactivated, Leave

\* Every step is one of Collection's, or none.
LEMMA WorkflowCollects ==
    ASSUME TypeOK, Inv, ChargesNumbered, AttemptsInTurn, [Next]_vars
    PROVE  [Collected!Next]_(Collected!collection)
<1>1. ASSUME NEW t \in Moments, NEW ok \in BOOLEAN, ChargePayment(t, ok)
      PROVE  Collected!Charge
  <2>1. /\ at = "charging" /\ at' = "recording"
        /\ UNCHANGED <<plan, renewalCount, LastAttempt>>
    BY <1>1 DEF ChargePayment, Leave, run, LastAttempt
  <2>2. CollectionStep = "charge" /\ CollectionStep' = "record"
    BY <2>1 DEF CollectionStep, PaymentHooks, Inv, Control, PaidFollows
  <2>3. Attempts(FALSE) = 0..(dunningAttempt - 1) /\ dunningAttempt \in 0..LastAttempt
    BY <2>1, AttemptAllowed DEF AttemptsInTurn, Uncharged
  <2>4. CASE ok = TRUE
    <3>1. Attempts(TRUE)' = {dunningAttempt} /\ Attempts(FALSE)' = Attempts(FALSE)
      BY <1>1, <2>4, AttemptMade
    <3>. QED
      BY <2>1, <2>2, <2>3, <3>1 DEF Collected!Charge
  <2>5. CASE ok = FALSE
    <3>1. /\ Attempts(FALSE)' = Attempts(FALSE) \cup {dunningAttempt}
          /\ Attempts(TRUE)' = Attempts(TRUE)
      BY <1>1, <2>5, AttemptMade
    <3>. QED
      BY <2>1, <2>2, <2>3, <3>1 DEF Collected!Charge
  <2>. QED
    BY <2>4, <2>5
<1>2. CASE NextPeriod
  <2>1. /\ at = "nextPeriod" /\ at' = "start" /\ plan' = plan
        /\ intervalID' = intervalID + 1 /\ charges' = charges
        /\ renewalCount' = renewalCount + 1
    BY <1>2 DEF NextPeriod, NextBillingPeriod, NewSubscription, FreshIntervalID
  <2>2. CollectionStep = "paid"
    BY <2>1 DEF CollectionStep, PaymentHooks, Inv, Control, PaidFollows, PaidStages
  <2>3. \A c \in charges : c.interval # intervalID + 1
    BY DEF Inv, LedgerInOrder, TypeOK
  <2>4. Charges(intervalID)' = {}
    BY <2>1, <2>3 DEF Charges
  <2>5. Attempts(TRUE)' = {} /\ Attempts(FALSE)' = {} /\ ~Paid'
    BY <2>1, <2>3, <2>4 DEF Attempts, Paid
  <2>6. CollectionStep' = "charge"
    BY <2>1, <2>5 DEF CollectionStep, PaymentHooks
  <2>7. LastAttempt' \in Nat
    BY <2>1, PlanType DEF TypeOK, LastAttempt
  <2>8. Collected!Begin'
    BY <2>5, <2>6 DEF Collected!Begin
  <2>9. Collected!Rotate
    BY <2>2, <2>7, <2>8 DEF Collected!Rotate
  <2>. QED
    BY <2>9 DEF Collected!Next
<1>3. ASSUME NEW t \in Moments, RootStep(t), ~\E ok \in BOOLEAN : ChargePayment(t, ok)
      PROVE  [Collected!Next]_(Collected!collection)
  <2>1. CASE at \in {"recording", "PastDue"} \cup PaymentHooks
    BY <1>3, <2>1, RootCollects
  <2>2. CASE at \in Aside
    <3>1. at # "charging"
      BY <1>3 DEF RootStep, FirstPeriodStep, ChargeStep, PeriodStep, StartTrial,
         StartWithoutTrial, Trial, TrialNotice, TrialWillEnd, TrialEnd, Activate, Activated,
         StartRenewal, RecordBillingEvent, ChargeSucceeded, ActivationFailed, RenewalFailed,
         DunningFailed, Renewed, PastDue, SleepBackoff, Recovered, NoticeWait,
         RenewalUpcoming, PeriodWait, Canceled, CanceledWait, Deactivated, Leave
    <3>2. UNCHANGED <<plan, renewalCount, charges, intervalID>>
      BY <1>3, RootKeepsRun, RootKeepsLedger
    <3>3. CollectionStep' = CollectionStep
      BY <1>3, <2>2, <3>1, <3>2, RootAside, AsideIsAside
    <3>4. UNCHANGED <<Attempts(TRUE), Attempts(FALSE), LastAttempt>>
      BY <3>2, SameAttempts DEF LastAttempt
    <3>. QED
      BY <3>3, <3>4 DEF Collected!collection
  <2>. QED
    BY <2>1, <2>2 DEF Aside, TypeOK
<1>4. CASE UNCHANGED <<at, intervalID, charges, plan, renewalCount>>
  <2>1. UNCHANGED <<Attempts(TRUE), Attempts(FALSE), LastAttempt>>
    BY <1>4, SameAttempts DEF LastAttempt
  <2>2. CollectionStep' = CollectionStep
    BY <1>4, SameAttempts DEF CollectionStep
  <2>. QED
    BY <2>1, <2>2 DEF Collected!collection
<1>. QED
  BY <1>1, <1>2, <1>3, <1>4, StepKinds DEF Collected!Next

\* The workflow collects the payment of every interval charge by charge, as
\* Collection says.
THEOREM WorkflowCollectsInTurn == Spec => CollectsInTurn
<1>1. Init => Collected!Init
  <2>. SUFFICES ASSUME Init PROVE Collected!Init
    OBVIOUS
  <2>1. Attempts(TRUE) = {} /\ Attempts(FALSE) = {} /\ ~Paid /\ LastAttempt \in Nat
    BY DEF Init, CreateSubscription, Attempts, Charges, Paid, LastAttempt
  <2>2. CollectionStep = "charge"
    BY <2>1 DEF Init, CollectionStep, PaymentHooks
  <2>. QED
    BY <2>1, <2>2 DEF Collected!Init, Collected!Begin
<1>2. TypeOK /\ Inv /\ ChargesNumbered /\ AttemptsInTurn /\ [Next]_vars
          => [Collected!Next]_(Collected!collection)
  BY WorkflowCollects
<1>. QED
  BY <1>1, <1>2, TypeCorrect, InvHolds, NumbersHold, NoAttemptSkipped, PTL
     DEF Spec, CollectsInTurn, Collected!Spec

=============================================================================
