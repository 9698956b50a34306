---------------------- MODULE SubscriptionLedgerProofs ----------------------
(***************************************************************************)
(* Theorems about what the workflow has charged and dispatched: charges    *)
(* are numbered and counted as they are made, periods are paid for one by  *)
(* one and not before their time, and no idempotency key is used twice.    *)
(***************************************************************************)
EXTENDS SubscriptionProofs, FiniteSetTheorems

\* What a step does to the ledger, to the identity of the run and to the place
\* of the root: a charge is entered, a period begins, the root goes elsewhere, or
\* nothing of the kind happens.
LEMMA StepKinds ==
    ASSUME TypeOK, [Next]_vars
    PROVE  \/ \E t \in Moments, ok \in BOOLEAN : ChargePayment(t, ok)
           \/ NextPeriod
           \/ /\ UNCHANGED <<plan, intervalID, renewalCount, periodStart, periodEnd, charges>>
              /\ \/ \E t \in Moments : RootStep(t)
                 \/ UNCHANGED <<at, now, phase, dunningAttempt, chargeOk, successes, failures, used>>
<1>1. ASSUME NEW t \in Moments, RootStep(t), ~\E ok \in BOOLEAN : ChargePayment(t, ok)
      PROVE  UNCHANGED <<plan, intervalID, renewalCount, periodStart, periodEnd, charges>>
  BY <1>1, RootKeepsRun, RootKeepsLedger
<1>2. CASE Environment
  BY <1>2 DEF Environment, SignalCancel, OnCancel, SignalUpdateContext, OnContextUpdate,
              ResendActivate, Stopped, vars, unsignalled, run, phases, billing
<1>3. CASE UNCHANGED vars
  BY <1>3 DEF vars, run, phases, billing
<1>. QED
  BY <1>1, <1>2, <1>3 DEF Next, Progress

-----------------------------------------------------------------------------
(* Charges are numbered *)

\* The locations from which no charge is under way, of this attempt or, where
\* none is counted, at all.
Uncharged == {"start", "awaitActivation", "charging", "backoff"} \cup TrialStages

\* A charge of this interval bears the number of an attempt that came before,
\* or of the present one if that has been charged for.
ChargesNumbered ==
    /\ IsFiniteSet(charges)
    /\ at \in Uncharged => \A c \in Charges(intervalID) : c.attempt < dunningAttempt
    /\ at \in {"recording", "PaymentFailed", "PastDue"}
          => \A c \in Charges(intervalID) : c.attempt <= dunningAttempt

\* Where no dunning attempt is counted, and none is charged for, there is no
\* charge yet.
LEMMA UnchargedIsEmpty ==
    ASSUME TypeOK, ChargesNumbered, at \in Uncharged, dunningAttempt = 0
    PROVE  Charges(intervalID) = {}
BY DEF TypeOK, ChargesNumbered, Charges

\* A charge gets a number that no earlier charge of its interval bears.
LEMMA ChargeIsNew ==
    ASSUME TypeOK, ChargesNumbered, NEW t \in Moments, NEW ok \in BOOLEAN, ChargePayment(t, ok)
    PROVE  \E new :
               /\ new.interval = intervalID /\ new.attempt = dunningAttempt /\ new.ok = ok
               /\ charges' = charges \cup {new}
               /\ \A c \in Charges(intervalID) : c.attempt < dunningAttempt
               /\ new \notin charges
<1>. DEFINE new == [interval |-> intervalID, purpose |-> Purpose,
                    attempt |-> dunningAttempt, ok |-> ok]
<1>1. new.interval = intervalID /\ new.attempt = dunningAttempt /\ new.ok = ok
  OBVIOUS
<1>2. charges' = charges \cup {new} /\ at = "charging"
  BY DEF ChargePayment, Leave
<1>3. \A c \in Charges(intervalID) : c.attempt < dunningAttempt
  BY <1>2 DEF ChargesNumbered, Uncharged
<1>. HIDE DEF new
<1>4. new \notin charges
  BY <1>1, <1>3, PlanType DEF Charges, TypeOK
<1>. QED
  BY <1>1, <1>2, <1>3, <1>4

\* How the root comes to where it has not charged yet, or has.
LEMMA WaysBack ==
    ASSUME TypeOK, Control, NEW t \in Moments, RootStep(t),
           ~\E ok \in BOOLEAN : ChargePayment(t, ok)
    PROVE  /\ at' \in Uncharged =>
                \/ at \in Uncharged /\ dunningAttempt' = dunningAttempt
                \/ /\ at \in {"PaymentFailed", "PastDue"}
                   /\ dunningAttempt' = dunningAttempt + 1
           /\ at' \in {"recording", "PaymentFailed", "PastDue"} =>
                /\ at \in {"recording", "PaymentFailed"}
                /\ dunningAttempt' = dunningAttempt
<1>. USE DEF Uncharged, TrialStages
<1>1. CASE FirstPeriodStep(t)
  <2>1. CASE Activated(t)
    BY <2>1, AfterPayment DEF Activated
  <2>2. CASE Trial(t)
    BY <2>2 DEF Trial, Leave, GoTo, Deactivate
  <2>. QED
    BY <1>1, <2>1, <2>2 DEF FirstPeriodStep, StartTrial, StartWithoutTrial, TrialNotice,
       TrialWillEnd, TrialEnd, Activate, Leave, GoTo, Deactivate
<1>2. CASE ChargeStep(t)
  <2>1. CASE Renewed(t) \/ Recovered(t)
    BY <2>1, AfterPayment DEF Renewed, Recovered
  <2>2. CASE RecordBillingEvent(t)
    BY <2>2 DEF RecordBillingEvent, Leave, Outcome
  <2>3. CASE ChargeSucceeded(t)
    BY <2>3 DEF ChargeSucceeded, Purpose
  <2>4. CASE DunningFailed(t) \/ PastDue(t)
    BY <2>4 DEF DunningFailed, PastDue, Leave, NextDunningAttempt, Exhausted, Deactivate
  <2>. QED
    BY <1>2, <2>1, <2>2, <2>3, <2>4 DEF ChargeStep, StartRenewal, ActivationFailed,
       RenewalFailed, SleepBackoff, Leave, Deactivate
<1>3. CASE PeriodStep(t)
  BY <1>3 DEF PeriodStep, NoticeWait, RenewalUpcoming, PeriodWait, Canceled, CanceledWait,
     Deactivated, Deactivate, Cancel
<1>. QED
  BY <1>1, <1>2, <1>3 DEF RootStep

\* Every step keeps the numbers.
LEMMA NextNumbered ==
    ASSUME TypeOK, Inv, ChargesNumbered, [Next]_vars
    PROVE  ChargesNumbered'
<1>1. ASSUME NEW t \in Moments, NEW ok \in BOOLEAN, ChargePayment(t, ok)
      PROVE  ChargesNumbered'
  <2>1. PICK new : /\ new.interval = intervalID /\ new.attempt = dunningAttempt
                   /\ charges' = charges \cup {new}
                   /\ \A c \in Charges(intervalID) : c.attempt < dunningAttempt
    BY <1>1, ChargeIsNew
  <2>2. at' = "recording" /\ UNCHANGED <<intervalID, dunningAttempt>>
    BY <1>1 DEF ChargePayment, Leave, run
  <2>3. IsFiniteSet(charges')
    BY <2>1, FS_AddElement DEF ChargesNumbered
  <2>4. dunningAttempt \in Nat /\ \A c \in charges : c.attempt \in Nat
    BY PlanType DEF TypeOK
  <2>. QED
    BY <2>1, <2>2, <2>3, <2>4 DEF ChargesNumbered, Charges, Uncharged, TrialStages
<1>2. CASE NextPeriod
  <2>1. intervalID' = intervalID + 1 /\ charges' = charges /\ at' = "start"
    BY <1>2 DEF NextPeriod, NextBillingPeriod, NewSubscription, FreshIntervalID
  <2>2. \A c \in charges : c.interval # intervalID + 1
    BY DEF Inv, LedgerInOrder, TypeOK
  <2>. QED
    BY <2>1, <2>2 DEF ChargesNumbered, Charges
<1>3. ASSUME NEW t \in Moments, RootStep(t), ~\E ok \in BOOLEAN : ChargePayment(t, ok)
      PROVE  ChargesNumbered'
  <2>1. UNCHANGED <<charges, intervalID>>
    BY <1>3, RootKeepsRun, RootKeepsLedger
  <2>2. dunningAttempt \in Nat /\ \A c \in charges : c.attempt \in Nat
    BY PlanType DEF TypeOK
  <2>3. Charges(intervalID)' = Charges(intervalID)
    BY <2>1 DEF Charges
  <2>4. \A c \in Charges(intervalID) : c.attempt \in Nat
    BY <2>2 DEF Charges
  <2>5. \A c \in Charges(intervalID) :
            at \in Uncharged \cup {"recording", "PaymentFailed", "PastDue"}
                => c.attempt <= dunningAttempt
    BY <2>2, <2>4 DEF ChargesNumbered
  <2>6. at' \in Uncharged => \A c \in Charges(intervalID)' : c.attempt < dunningAttempt'
    BY <1>3, <2>2, <2>3, <2>4, <2>5, WaysBack DEF Inv, ChargesNumbered
  <2>7. at' \in {"recording", "PaymentFailed", "PastDue"}
            => \A c \in Charges(intervalID)' : c.attempt <= dunningAttempt'
    BY <1>3, <2>3, <2>5, WaysBack DEF Inv
  <2>. QED
    BY <2>1, <2>6, <2>7 DEF ChargesNumbered
<1>4. CASE UNCHANGED <<at, intervalID, charges, dunningAttempt>>
  BY <1>4 DEF ChargesNumbered, Charges
<1>. QED
  BY <1>1, <1>2, <1>3, <1>4, StepKinds

\* Whatever is retried, no two charges of an interval are of the same attempt.
THEOREM NumbersHold == Spec => []ChargesNumbered
<1>1. Init => ChargesNumbered
  BY FS_EmptySet DEF Init, ChargesNumbered, Charges
<1>2. TypeOK /\ Inv /\ ChargesNumbered /\ [Next]_vars => ChargesNumbered'
  BY NextNumbered
<1>. QED
  BY <1>1, <1>2, TypeCorrect, InvHolds, PTL DEF Spec

-----------------------------------------------------------------------------
(* The counters *)

Succeeded == {c \in Charges(intervalID) : c.ok}
Failed    == {c \in Charges(intervalID) : ~c.ok}

\* The counters are the numbers of charges, short of one while a charge is
\* made but its event not recorded yet.
Counted ==
    /\ IsFiniteSet(Succeeded) /\ IsFiniteSet(Failed)
    /\ Cardinality(Succeeded) =
           successes + (IF at = "recording" /\ chargeOk THEN 1 ELSE 0)
    /\ Cardinality(Failed) =
           failures + (IF at = "recording" /\ ~chargeOk THEN 1 ELSE 0)

\* Charges and their events apart, the root changes neither the ledger nor the
\* counters, and is not about to record.
LEMMA RootKeepsCounters ==
    ASSUME NEW t \in Moments, RootStep(t),
           ~\E ok \in BOOLEAN : ChargePayment(t, ok), ~RecordBillingEvent(t)
    PROVE  /\ UNCHANGED <<charges, successes, failures>>
           /\ at # "recording" /\ at' # "recording"
<1>1. UNCHANGED <<charges, successes, failures>>
  BY DEF RootStep, FirstPeriodStep, StartTrial, StartWithoutTrial, Trial, TrialNotice,
         TrialWillEnd, TrialEnd, Activate, Activated, ChargeStep, StartRenewal,
         ChargeSucceeded, ActivationFailed, RenewalFailed, DunningFailed, Renewed, PastDue,
         SleepBackoff, Recovered, PeriodStep, NoticeWait, RenewalUpcoming, PeriodWait,
         Canceled, CanceledWait, Deactivated, billing
<1>2. at # "recording"
  BY DEF RootStep, FirstPeriodStep, StartTrial, StartWithoutTrial, Trial, TrialNotice,
         TrialWillEnd, TrialEnd, Activate, Activated, ChargeStep, StartRenewal,
         ChargeSucceeded, ActivationFailed, RenewalFailed, DunningFailed, Renewed, PastDue,
         SleepBackoff, Recovered, PeriodStep, NoticeWait, RenewalUpcoming, PeriodWait,
         Canceled, CanceledWait, Deactivated, Leave
<1>3. at' # "recording"
  <2>1. CASE Activated(t) \/ Renewed(t) \/ Recovered(t)
    BY <2>1, AfterPayment DEF Activated, Renewed, Recovered
  <2>2. CASE Trial(t)
    BY <2>2 DEF Trial, GoTo, Deactivate
  <2>3. CASE ChargeSucceeded(t)
    BY <2>3 DEF ChargeSucceeded, Purpose
  <2>. QED
    BY <2>1, <2>2, <2>3
       DEF RootStep, FirstPeriodStep, StartTrial, StartWithoutTrial, TrialNotice,
           TrialWillEnd, TrialEnd, Activate, ChargeStep, StartRenewal, ActivationFailed,
           RenewalFailed, DunningFailed, PastDue, NextDunningAttempt, Exhausted, SleepBackoff,
           PeriodStep, NoticeWait, RenewalUpcoming, PeriodWait, Canceled, CanceledWait,
           Deactivated, Deactivate, Cancel, GoTo
<1>. QED
  BY <1>1, <1>2, <1>3

\* Every step keeps the count.
LEMMA NextCounted ==
    ASSUME TypeOK, Inv, ChargesNumbered, Counted, [Next]_vars
    PROVE  Counted'
<1>0. successes \in Nat /\ failures \in Nat
  BY DEF TypeOK
<1>1. ASSUME NEW t \in Moments, NEW ok \in BOOLEAN, ChargePayment(t, ok)
      PROVE  Counted'
  <2>1. PICK new : /\ new.interval = intervalID /\ new.ok = ok
                   /\ charges' = charges \cup {new} /\ new \notin charges
    BY <1>1, ChargeIsNew
  <2>2. /\ at = "charging" /\ at' = "recording" /\ chargeOk' = ok
        /\ UNCHANGED <<intervalID, successes, failures>>
    BY <1>1 DEF ChargePayment, Leave, run
  <2>3. CASE ok
    <3>1. Succeeded' = Succeeded \cup {new} /\ new \notin Succeeded /\ Failed' = Failed
      BY <2>1, <2>2, <2>3 DEF Succeeded, Failed, Charges
    <3>. QED
      BY <1>0, <2>2, <2>3, <3>1, FS_AddElement DEF Counted
  <2>4. CASE ~ok
    <3>1. Failed' = Failed \cup {new} /\ new \notin Failed /\ Succeeded' = Succeeded
      BY <2>1, <2>2, <2>4 DEF Succeeded, Failed, Charges
    <3>. QED
      BY <1>0, <2>2, <2>4, <3>1, FS_AddElement DEF Counted
  <2>. QED
    BY <2>3, <2>4
<1>2. ASSUME NEW t \in Moments, RecordBillingEvent(t)
      PROVE  Counted'
  <2>1. /\ at = "recording" /\ at' # "recording" /\ Count(chargeOk)
        /\ UNCHANGED <<charges, intervalID>>
    BY <1>2 DEF RecordBillingEvent, Leave, Outcome, run
  <2>2. Succeeded' = Succeeded /\ Failed' = Failed
    BY <2>1 DEF Succeeded, Failed, Charges
  <2>. QED
    BY <1>0, <2>1, <2>2 DEF Counted, Count
<1>3. ASSUME NEW t \in Moments, RootStep(t),
             ~\E ok \in BOOLEAN : ChargePayment(t, ok), ~RecordBillingEvent(t)
      PROVE  Counted'
  <2>1. /\ UNCHANGED <<charges, intervalID, successes, failures>>
        /\ at # "recording" /\ at' # "recording"
    BY <1>3, RootKeepsCounters, RootKeepsRun
  <2>2. Succeeded' = Succeeded /\ Failed' = Failed
    BY <2>1 DEF Succeeded, Failed, Charges
  <2>. QED
    BY <2>1, <2>2 DEF Counted
<1>4. CASE NextPeriod
  <2>1. /\ intervalID' = intervalID + 1 /\ charges' = charges /\ at' = "start"
        /\ successes' = 0 /\ failures' = 0
    BY <1>4 DEF NextPeriod, NextBillingPeriod, NewSubscription, FreshIntervalID
  <2>2. \A c \in charges : c.interval # intervalID + 1
    BY DEF Inv, LedgerInOrder, TypeOK
  <2>3. Succeeded' = {} /\ Failed' = {}
    BY <2>1, <2>2 DEF Succeeded, Failed, Charges
  <2>. QED
    BY <2>1, <2>3, FS_EmptySet DEF Counted
<1>5. CASE UNCHANGED <<at, intervalID, charges, chargeOk, successes, failures>>
  <2>1. Succeeded' = Succeeded /\ Failed' = Failed
    BY <1>5 DEF Succeeded, Failed, Charges
  <2>. QED
    BY <1>5, <2>1 DEF Counted
<1>. QED
  BY <1>1, <1>2, <1>3, <1>4, <1>5, StepKinds

\* A subscription just created has charged nothing.
LEMMA InitCounted ==
    ASSUME Init
    PROVE  Counted
<1>1. charges = {} /\ successes = 0 /\ failures = 0 /\ at = "start"
  BY DEF Init
<1>2. Succeeded = {} /\ Failed = {}
  BY <1>1 DEF Succeeded, Failed, Charges
<1>. QED
  BY <1>1, <1>2, FS_EmptySet DEF Counted

\* The counters of the View are the number of the interval's charges that
\* succeeded and failed, wherever none is under way.
THEOREM CountersTellTheLedger == Spec => []CountersAgree
<1>1. TypeOK /\ Inv /\ ChargesNumbered /\ Counted /\ [Next]_vars => Counted'
  BY NextCounted
<1>2. TypeOK /\ Counted => CountersAgree
  BY DEF TypeOK, Counted, CountersAgree, Succeeded, Failed
<1>. QED
  BY InitCounted, <1>1, <1>2, TypeCorrect, InvHolds, NumbersHold, PTL DEF Spec

-----------------------------------------------------------------------------
(* The periods paid for *)

\* The charges that succeeded, of every period.
Successful == {c \in charges : c.ok}

\* Every period that is over has been paid for, once, and the present one is
\* paid for or not.
PaidInTurn ==
    /\ IsFiniteSet(Successful)
    /\ Cardinality(Successful) = renewalCount + (IF Paid THEN 1 ELSE 0)

\* The end of the first period, of a trial if there is one.
FirstEnd == IF plan.TrialDuration > 0 THEN plan.TrialDuration ELSE plan.Cadence

\* Periods follow each other, each a cadence long but a trial, and the root does
\* not begin one before its time.
PeriodsInTime ==
    /\ periodEnd = FirstEnd + renewalCount * plan.Cadence
    /\ renewalCount > 0 => now >= periodEnd - plan.Cadence
    /\ at = "nextPeriod" => now >= periodEnd

\* Every step keeps the payments in turn: a charge that succeeds finds its period
\* unpaid, and only a paid period is followed by another, which is not paid yet.
LEMMA NextPaidInTurn ==
    ASSUME TypeOK, Inv, ChargesNumbered, PaidInTurn, [Next]_vars
    PROVE  PaidInTurn'
<1>0. Inv' /\ renewalCount \in Nat
  BY NextInv, BoundsAssumption DEF TypeOK
<1>1. ASSUME NEW t \in Moments, NEW ok \in BOOLEAN, ChargePayment(t, ok)
      PROVE  PaidInTurn'
  <2>1. PICK new : /\ new.ok = ok /\ charges' = charges \cup {new} /\ new \notin charges
    BY <1>1, ChargeIsNew
  <2>2. /\ at = "charging" /\ at' = "recording" /\ chargeOk' = ok /\ renewalCount' = renewalCount
    BY <1>1 DEF ChargePayment, Leave, run
  <2>3. ~Paid /\ (Paid' <=> ok)
    BY <1>0, <2>2 DEF Inv, Control, PaidFollows
  <2>4. CASE ok
    <3>1. Successful' = Successful \cup {new} /\ new \notin Successful
      BY <2>1, <2>4 DEF Successful
    <3>. QED
      BY <1>0, <2>2, <2>3, <2>4, <3>1, FS_AddElement DEF PaidInTurn
  <2>5. CASE ~ok
    <3>1. Successful' = Successful
      BY <2>1, <2>5 DEF Successful
    <3>. QED
      BY <2>2, <2>3, <2>5, <3>1 DEF PaidInTurn
  <2>. QED
    BY <2>4, <2>5
<1>2. CASE NextPeriod
  <2>1. /\ renewalCount' = renewalCount + 1 /\ charges' = charges
        /\ at = "nextPeriod" /\ at' = "start"
    BY <1>2 DEF NextPeriod, NextBillingPeriod, NewSubscription
  <2>2. Paid /\ ~Paid'
    BY <1>0, <2>1 DEF Inv, Control, PaidFollows, PaidStages
  <2>. QED
    BY <1>0, <2>1, <2>2 DEF PaidInTurn, Successful
<1>3. CASE UNCHANGED <<intervalID, renewalCount, charges>>
  BY <1>3, PaidUnchanged DEF PaidInTurn, Successful
<1>. QED
  BY <1>1, <1>2, <1>3, StepKinds

\* A product grows with its factor, ...
LEMMA ProductGrows ==
    ASSUME NEW a \in Int, NEW b \in Int, NEW c \in Nat, a <= b
    PROVE  a * c <= b * c
OBVIOUS

\* ... each time by the other one.
LEMMA ProductStep ==
    ASSUME NEW a \in Int, NEW c \in Int
    PROVE  (a + 1) * c = a * c + c
OBVIOUS

\* Every step keeps the periods in time.
LEMMA NextInTime ==
    ASSUME TypeOK, PeriodsInTime, [Next]_vars
    PROVE  PeriodsInTime'
<1>0. /\ plan.Cadence \in Nat \ {0} /\ plan.TrialDuration \in Int
      /\ renewalCount \in Nat /\ periodEnd \in Nat /\ now \in Nat
  BY PlanType, BoundsAssumption DEF TypeOK
<1>1. ASSUME NEW t \in Moments, RootStep(t)
      PROVE  PeriodsInTime'
  <2>1. /\ now' = t /\ t \in Nat /\ t >= now /\ UNCHANGED <<plan, renewalCount, periodEnd>>
    BY <1>1, RootKeepsRun
  <2>2. at' = "nextPeriod" => now' >= periodEnd
    BY <1>1, <2>1, WaysToNextPeriod
  <2>. QED
    BY <1>0, <2>1, <2>2 DEF PeriodsInTime, FirstEnd
<1>2. CASE NextPeriod
  <2>1. /\ at = "nextPeriod" /\ at' = "start" /\ UNCHANGED <<plan, now>>
        /\ renewalCount' = renewalCount + 1 /\ periodEnd' = periodEnd + plan.Cadence
    BY <1>2 DEF NextPeriod, NextBillingPeriod, NewSubscription
  <2>2. FirstEnd' = FirstEnd /\ FirstEnd \in Int
    BY <1>0, <2>1 DEF FirstEnd
  <2>3. periodEnd + plan.Cadence = FirstEnd + (renewalCount + 1) * plan.Cadence
    <3>1. (renewalCount + 1) * plan.Cadence = renewalCount * plan.Cadence + plan.Cadence
      <4>1. renewalCount \in Int /\ plan.Cadence \in Int
        BY <1>0
      <4>. QED
        BY <4>1, ProductStep, Zenon
    <3>2. renewalCount * plan.Cadence \in Int
      BY <1>0
    <3>. QED
      BY <1>0, <2>2, <3>1, <3>2 DEF PeriodsInTime
  <2>4. now >= periodEnd /\ periodEnd = (periodEnd + plan.Cadence) - plan.Cadence
    BY <1>0, <2>1 DEF PeriodsInTime
  <2>. QED
    BY <2>1, <2>2, <2>3, <2>4 DEF PeriodsInTime
<1>3. CASE UNCHANGED <<plan, renewalCount, periodEnd, now, at>>
  BY <1>3 DEF PeriodsInTime, FirstEnd
<1>4. CASE Environment \/ UNCHANGED vars
  BY <1>3, <1>4, EnvironmentKeeps DEF vars, run
<1>. QED
  BY <1>1, <1>2, <1>4 DEF Next, Progress

\* A charge that takes money beyond the calendar takes it one period ahead, and no
\* more: what a trial's end costs (Run after Activate).
AtMostOnePeriodAhead ==
    LET n == Cardinality(Successful)
        free == IF plan.TrialDuration > 0 THEN plan.TrialDuration ELSE 0
    IN  n > 1 => now >= free + (n - 2) * plan.Cadence

\* What payments in turn and periods in time say of the calendar.
LEMMA CalendarKept ==
    ASSUME TypeOK, PaidInTurn, PeriodsInTime
    PROVE  /\ plan.TrialDuration <= 0 => NeverChargedAhead
           /\ AtMostOnePeriodAhead
<1>. DEFINE n == Cardinality(Successful)
            free == IF plan.TrialDuration > 0 THEN plan.TrialDuration ELSE 0
<1>0. /\ plan.Cadence \in Nat \ {0} /\ plan.TrialDuration \in Int
      /\ renewalCount \in Nat /\ periodEnd \in Nat /\ now \in Nat /\ free \in Nat
  BY PlanType, BoundsAssumption DEF TypeOK
<1>1. n \in Nat /\ n <= renewalCount + 1
  BY <1>0 DEF PaidInTurn
<1>2. NeverChargedAhead <=> (n > 0 => now >= free + (n - 1) * plan.Cadence)
  BY DEF NeverChargedAhead, Successful
<1>3. AtMostOnePeriodAhead <=> (n > 1 => now >= free + (n - 2) * plan.Cadence)
  BY DEF AtMostOnePeriodAhead
<1>. HIDE DEF n
<1>4. (n - 1) * plan.Cadence <= renewalCount * plan.Cadence
  BY <1>0, <1>1, ProductGrows
<1>5. (n - 2) * plan.Cadence <= (renewalCount - 1) * plan.Cadence
  BY <1>0, <1>1, ProductGrows
<1>6. (renewalCount - 1) * plan.Cadence = renewalCount * plan.Cadence - plan.Cadence
  BY <1>0
<1>7. /\ (n - 1) * plan.Cadence \in Int /\ (n - 2) * plan.Cadence \in Int
      /\ renewalCount * plan.Cadence \in Int /\ (renewalCount - 1) * plan.Cadence \in Int
  BY <1>0, <1>1
<1>8. renewalCount > 0 => now >= FirstEnd + (renewalCount - 1) * plan.Cadence
  BY <1>0, <1>6, <1>7 DEF PeriodsInTime, FirstEnd
<1>9. ASSUME plan.TrialDuration <= 0, n > 0 PROVE now >= free + (n - 1) * plan.Cadence
  <2>1. free = 0 /\ FirstEnd = plan.Cadence
    BY <1>0, <1>9 DEF FirstEnd
  <2>2. CASE renewalCount = 0
    <3>1. n - 1 = 0
      BY <1>1, <1>9, <2>2
    <3>. QED
      BY <1>0, <2>1, <3>1
  <2>3. CASE renewalCount > 0
    BY <1>0, <1>4, <1>6, <1>7, <1>8, <2>1, <2>3
  <2>. QED
    BY <1>0, <2>2, <2>3
<1>10. ASSUME n > 1 PROVE now >= free + (n - 2) * plan.Cadence
  <2>1. renewalCount > 0
    BY <1>0, <1>1, <1>10
  <2>2. FirstEnd >= free /\ FirstEnd \in Int
    BY <1>0 DEF FirstEnd
  <2>. HIDE DEF free
  <2>. QED
    BY <1>0, <1>5, <1>7, <1>8, <2>1, <2>2
<1>. QED
  BY <1>2, <1>3, <1>9, <1>10

\* A subscription just created is in its first period, unpaid.
LEMMA InitCalendar ==
    ASSUME Init
    PROVE  PaidInTurn /\ PeriodsInTime
<1>1. PICK p \in Plans : CreateSubscription(p)
  BY DEF Init
<1>2. /\ charges = {} /\ renewalCount = 0 /\ plan = p /\ at = "start"
      /\ periodEnd = IF p.TrialDuration > 0 THEN p.TrialDuration ELSE p.Cadence
  BY <1>1 DEF Init, CreateSubscription
<1>3. Successful = {} /\ ~Paid
  BY <1>2 DEF Successful, Paid
<1>4. PaidInTurn
  BY <1>2, <1>3, FS_EmptySet DEF PaidInTurn
<1>5. FirstEnd = periodEnd /\ FirstEnd \in Int /\ plan.Cadence \in Int
  BY <1>2, PlanType DEF FirstEnd
<1>6. FirstEnd + 0 * plan.Cadence = FirstEnd
  BY <1>5
<1>. QED
  BY <1>2, <1>4, <1>5, <1>6 DEF PeriodsInTime

\* Every period that is over has been paid for exactly once, and the present one
\* at most once, however often each was charged for.
THEOREM PaidPeriodByPeriod == Spec => []PaidInTurn
<1>1. TypeOK /\ Inv /\ ChargesNumbered /\ PaidInTurn /\ [Next]_vars => PaidInTurn'
  BY NextPaidInTurn
<1>. QED
  BY InitCalendar, <1>1, TypeCorrect, InvHolds, NumbersHold, PTL DEF Spec

\* No period begins before the one it follows is over.
LEMMA CalendarHolds == Spec => []PeriodsInTime
<1>1. TypeOK /\ PeriodsInTime /\ [Next]_vars => PeriodsInTime'
  BY NextInTime
<1>. QED
  BY InitCalendar, <1>1, TypeCorrect, PTL DEF Spec

\* Without a trial, the n-th successful charge is not made before the n-th period.
THEOREM NobodyPaysAhead == Spec => [](plan.TrialDuration <= 0 => NeverChargedAhead)
<1>1. TypeOK /\ PaidInTurn /\ PeriodsInTime => (plan.TrialDuration <= 0 => NeverChargedAhead)
  BY CalendarKept
<1>. QED
  BY <1>1, TypeCorrect, PaidPeriodByPeriod, CalendarHolds, PTL

\* With one, a customer may be charged ahead of the calendar, by one period.
THEOREM NobodyPaysTwoAhead == Spec => []AtMostOnePeriodAhead
<1>1. TypeOK /\ PaidInTurn /\ PeriodsInTime => AtMostOnePeriodAhead
  BY CalendarKept
<1>. QED
  BY <1>1, TypeCorrect, PaidPeriodByPeriod, CalendarHolds, PTL

-----------------------------------------------------------------------------
(* The idempotency keys *)

\* The places of a run in the order the root comes by them. Charges, their
\* events and hooks, and the hook and the waits of dunning share a turn, ...
Turn(place) ==
    CASE place = "start"           -> 0
      [] place = "TrialStarted"    -> 1
      [] place = "trialNotice"     -> 2
      [] place = "TrialWillEnd"    -> 3
      [] place = "trialEnd"        -> 4
      [] place = "awaitActivation" -> 5
      [] place \in {"Activated", "Renewed", "Recovered"} -> 7
      [] place = "noticeWait"      -> 8
      [] place = "RenewalUpcoming" -> 9
      [] place = "periodWait"      -> 10
      [] place = "nextPeriod"      -> 11
      [] place = "Canceled"        -> 12
      [] place = "canceledWait"    -> 13
      [] place = "Deactivated"     -> 14
      [] place = "done"            -> 15
      [] OTHER                     -> 6

\* ... of which each dunning attempt makes a round, the n-th from 5 * n on.
Round(place, n) ==
    CASE place = "backoff"       -> 5 * n
      [] place = "recording"     -> 5 * n + 2
      [] place \in PaymentHooks  -> 5 * n + 3
      [] place = "PastDue"       -> 5 * n + 4
      [] OTHER                   -> 5 * n + 1

\* The key was used at a place before this one.
UsedBefore(k, place, n) ==
    \/ Turn(k[2]) < Turn(place)
    \/ /\ Turn(k[2]) = 6 /\ Turn(place) = 6
       /\ Round(k[2], k[3]) < Round(place, n)

\* The keys used are those of earlier periods and of earlier places of this one.
KeysInOrder ==
    \A k \in used : \/ k[1] < intervalID
                    \/ k[1] = intervalID /\ UsedBefore(k, at, dunningAttempt)

\* The turns and rounds, place by place.
LEMMA TurnsAndRounds ==
    /\ Turn("start") = 0 /\ Turn("TrialStarted") = 1 /\ Turn("trialNotice") = 2
    /\ Turn("TrialWillEnd") = 3 /\ Turn("trialEnd") = 4 /\ Turn("awaitActivation") = 5
    /\ \A place \in {"charging", "recording", "PaymentOK", "PaymentFailed", "PastDue",
                     "backoff", "activation", "renewal", "dunning"} : Turn(place) = 6
    /\ Turn("Activated") = 7 /\ Turn("Renewed") = 7 /\ Turn("Recovered") = 7
    /\ Turn("noticeWait") = 8 /\ Turn("RenewalUpcoming") = 9 /\ Turn("periodWait") = 10
    /\ Turn("nextPeriod") = 11 /\ Turn("Canceled") = 12 /\ Turn("canceledWait") = 13
    /\ Turn("Deactivated") = 14 /\ Turn("done") = 15
    /\ \A n : /\ Round("backoff", n) = 5 * n
              /\ \A place \in {"charging", "activation", "renewal", "dunning"} :
                     Round(place, n) = 5 * n + 1
              /\ Round("recording", n) = 5 * n + 2
              /\ \A place \in PaymentHooks : Round(place, n) = 5 * n + 3
              /\ Round("PastDue", n) = 5 * n + 4
<1>1. /\ Turn("start") = 0 /\ Turn("TrialStarted") = 1 /\ Turn("trialNotice") = 2
      /\ Turn("TrialWillEnd") = 3 /\ Turn("trialEnd") = 4 /\ Turn("awaitActivation") = 5
  BY DEF Turn
<1>2. \A place \in {"charging", "recording", "PaymentOK", "PaymentFailed", "PastDue",
                    "backoff", "activation", "renewal", "dunning"} : Turn(place) = 6
  BY DEF Turn
<1>3. /\ Turn("Activated") = 7 /\ Turn("Renewed") = 7 /\ Turn("Recovered") = 7
      /\ Turn("noticeWait") = 8 /\ Turn("RenewalUpcoming") = 9 /\ Turn("periodWait") = 10
      /\ Turn("nextPeriod") = 11 /\ Turn("Canceled") = 12 /\ Turn("canceledWait") = 13
      /\ Turn("Deactivated") = 14 /\ Turn("done") = 15
  BY DEF Turn
<1>4. ASSUME NEW n
      PROVE  /\ Round("backoff", n) = 5 * n
             /\ \A place \in {"charging", "activation", "renewal", "dunning"} :
                    Round(place, n) = 5 * n + 1
             /\ Round("recording", n) = 5 * n + 2
             /\ \A place \in PaymentHooks : Round(place, n) = 5 * n + 3
             /\ Round("PastDue", n) = 5 * n + 4
  BY DEF Round, PaymentHooks
<1>. QED
  BY <1>1, <1>2, <1>3, <1>4

\* The key dispatched belongs to the place where the root stands.
LEMMA KeyIsHere ==
    ASSUME TypeOK, Control, Dispatching
    PROVE  /\ Key[1] = intervalID
           /\ Turn(Key[2]) = Turn(at)
           /\ Turn(at) = 6 => Round(Key[2], Key[3]) = Round(at, dunningAttempt)
<1>0. dunningAttempt \in Nat
  BY PlanType DEF TypeOK
<1>1. CASE at = "charging"
  <2>1. Key = <<intervalID, Purpose, dunningAttempt>>
    BY <1>1 DEF Key, Hooks, PaymentHooks
  <2>2. Purpose \in {"activation", "renewal", "dunning"}
    BY DEF Purpose
  <2>3. Turn(Purpose) = 6 /\ Turn("charging") = 6
        /\ Round(Purpose, dunningAttempt) = 5 * dunningAttempt + 1
        /\ Round("charging", dunningAttempt) = 5 * dunningAttempt + 1
    BY <2>2, TurnsAndRounds
  <2>. QED
    BY <1>1, <2>1, <2>3
<1>2. CASE at \in Hooks
  <2>1. /\ Key[1] = intervalID /\ Key[2] = at
        /\ Key[3] = IF at \in PaymentHooks THEN dunningAttempt ELSE 0
    BY <1>2 DEF Key, Hooks, PaymentHooks
  <2>2. CASE at \in PaymentHooks
    BY <2>1, <2>2
  <2>3. CASE at = "PastDue"
    <3>1. dunningAttempt = 0 /\ Key[3] = 0
      BY <2>1, <2>3 DEF Control, DunningFollows, PaymentHooks
    <3>. QED
      BY <2>1, <2>3, <3>1
  <2>4. CASE at \notin PaymentHooks /\ at # "PastDue"
    <3>1. Turn(at) # 6
      BY <1>2, <2>4, TurnsAndRounds DEF Hooks
    <3>. QED
      BY <2>1, <3>1
  <2>. QED
    BY <2>2, <2>3, <2>4
<1>. QED
  BY <1>1, <1>2, PlanType DEF Dispatching, TypeOK

\* The root comes by no place twice in a run: the turns grow from step to step,
\* or else the rounds of dunning do.
LEMMA RootMovesOn ==
    ASSUME TypeOK, Control, NEW t \in Moments, RootStep(t)
    PROVE  \/ Turn(at) < Turn(at')
           \/ /\ Turn(at) = 6 /\ Turn(at') = 6
              /\ Round(at, dunningAttempt) < Round(at', dunningAttempt')
<1>0. dunningAttempt \in Nat
  BY PlanType DEF TypeOK
<1>1. CASE FirstPeriodStep(t)
  <2>1. CASE StartTrial(t) \/ StartWithoutTrial(t)
    BY <2>1, TurnsAndRounds DEF StartTrial, StartWithoutTrial, Leave, GoTo
  <2>2. CASE Trial(t)
    <3>1. at = "TrialStarted"
          /\ at' \in {"Deactivated", "awaitActivation", "trialNotice", "trialEnd"}
      BY <2>2 DEF Trial, Leave, GoTo, Deactivate
    <3>. QED
      BY <3>1, TurnsAndRounds
  <2>3. CASE TrialNotice(t) \/ TrialWillEnd(t) \/ TrialEnd(t)
    BY <2>3, TurnsAndRounds DEF TrialNotice, TrialWillEnd, TrialEnd, Leave, Deactivate
  <2>4. CASE Activate(t)
    BY <2>4, TurnsAndRounds DEF Activate, Leave
  <2>5. CASE Activated(t)
    <3>1. at = "Activated" /\ at' \in {"Canceled", "nextPeriod", "noticeWait", "periodWait"}
      BY <2>5, AfterPayment DEF Activated, Leave
    <3>. QED
      BY <3>1, TurnsAndRounds
  <2>. QED
    BY <1>1, <2>1, <2>2, <2>3, <2>4, <2>5 DEF FirstPeriodStep
<1>2. CASE ChargeStep(t)
  <2>1. CASE StartRenewal(t)
    BY <2>1, TurnsAndRounds DEF StartRenewal, Leave
  <2>2. CASE \E ok \in BOOLEAN : ChargePayment(t, ok)
    <3>1. at = "charging" /\ at' = "recording" /\ dunningAttempt' = dunningAttempt
      BY <2>2 DEF ChargePayment, Leave
    <3>. QED
      BY <1>0, <3>1, TurnsAndRounds
  <2>3. CASE RecordBillingEvent(t)
    <3>1. at = "recording" /\ at' \in PaymentHooks /\ dunningAttempt' = dunningAttempt
      BY <2>3 DEF RecordBillingEvent, Outcome, Leave, PaymentHooks
    <3>2. Turn(at') = 6
      BY <3>1, TurnsAndRounds DEF PaymentHooks
    <3>. QED
      BY <1>0, <3>1, <3>2, TurnsAndRounds
  <2>4. CASE ChargeSucceeded(t)
    <3>1. at = "PaymentOK" /\ at' \in {"Activated", "Renewed", "Recovered"}
      BY <2>4 DEF ChargeSucceeded, Purpose, Leave
    <3>. QED
      BY <3>1, TurnsAndRounds
  <2>5. CASE ActivationFailed(t)
    BY <2>5, TurnsAndRounds DEF ActivationFailed, Deactivate, Leave
  <2>6. CASE RenewalFailed(t)
    <3>1. at = "PaymentFailed" /\ at' = "PastDue" /\ dunningAttempt' = dunningAttempt
      BY <2>6 DEF RenewalFailed, Leave
    <3>2. Round(at, dunningAttempt) = 5 * dunningAttempt + 3
      BY <3>1, TurnsAndRounds DEF PaymentHooks
    <3>. QED
      BY <1>0, <3>1, <3>2, TurnsAndRounds
  <2>7. CASE DunningFailed(t) \/ PastDue(t)
    <3>1. at \in {"PaymentFailed", "PastDue"} /\ NextDunningAttempt
      BY <2>7 DEF DunningFailed, PastDue, Leave
    <3>2. CASE AttemptsLeft
      <4>1. at' = "backoff" /\ dunningAttempt' = dunningAttempt + 1
        BY <3>1, <3>2 DEF NextDunningAttempt
      <4>2. Round(at, dunningAttempt) \in {5 * dunningAttempt + 3, 5 * dunningAttempt + 4}
        BY <3>1, TurnsAndRounds DEF PaymentHooks
      <4>. QED
        BY <1>0, <3>1, <4>1, <4>2, TurnsAndRounds
    <3>3. CASE ~AttemptsLeft
      <4>1. at' = "Deactivated"
        BY <3>1, <3>3 DEF NextDunningAttempt, Exhausted, Deactivate
      <4>. QED
        BY <3>1, <4>1, TurnsAndRounds
    <3>. QED
      BY <3>2, <3>3
  <2>8. CASE SleepBackoff(t)
    <3>1. at = "backoff" /\ at' = "charging" /\ dunningAttempt' = dunningAttempt
      BY <2>8 DEF SleepBackoff, Leave
    <3>. QED
      BY <1>0, <3>1, TurnsAndRounds
  <2>9. CASE Renewed(t) \/ Recovered(t)
    <3>1. /\ at \in {"Renewed", "Recovered"}
          /\ at' \in {"Canceled", "nextPeriod", "noticeWait", "periodWait"}
      BY <2>9, AfterPayment DEF Renewed, Recovered, Leave
    <3>. QED
      BY <3>1, TurnsAndRounds
  <2>. QED
    BY <1>2, <2>1, <2>2, <2>3, <2>4, <2>5, <2>6, <2>7, <2>8, <2>9 DEF ChargeStep
<1>3. CASE PeriodStep(t)
  BY <1>3, TurnsAndRounds DEF PeriodStep, NoticeWait, RenewalUpcoming, PeriodWait, Canceled,
     CanceledWait, Deactivated, Deactivate, Cancel, Leave
<1>. QED
  BY <1>1, <1>2, <1>3 DEF RootStep

\* Turns and rounds are integers.
LEMMA TurnType == \A place : Turn(place) \in Nat
BY DEF Turn

LEMMA RoundType == \A place : \A n \in Nat : Round(place, n) \in Nat
BY DEF Round

\* A root step uses the key of its place, if any.
LEMMA RootUsesKey ==
    ASSUME NEW t \in Moments, RootStep(t)
    PROVE  used' = IF Dispatching THEN used \cup {Key} ELSE used
<1>1. \E here : Leave(here, t)
  BY DEF RootStep, FirstPeriodStep, StartTrial, StartWithoutTrial, Trial, TrialNotice,
         TrialWillEnd, TrialEnd, Activate, Activated, ChargeStep, StartRenewal,
         ChargePayment, RecordBillingEvent, ChargeSucceeded, ActivationFailed,
         RenewalFailed, DunningFailed, Renewed, PastDue, SleepBackoff, Recovered,
         PeriodStep, NoticeWait, RenewalUpcoming, PeriodWait, Canceled, CanceledWait,
         Deactivated
<1>. QED
  BY <1>1 DEF Leave

\* Every step keeps the keys in order.
LEMMA NextKeys ==
    ASSUME TypeOK, Inv, KeysInOrder, [Next]_vars
    PROVE  KeysInOrder'
<1>0. /\ intervalID \in Nat /\ dunningAttempt \in Nat /\ dunningAttempt' \in Nat
      /\ \A k \in used : k[1] \in Nat /\ k[3] \in Nat
  <2>1. dunningAttempt \in Nat /\ intervalID \in Nat
    BY PlanType DEF TypeOK
  <2>2. dunningAttempt' \in Nat
    <3>1. TypeOK'
      BY NextType
    <3>2. plan' \in Plans /\ dunningAttempt' \in 0..plan'.DunningMaxAttempts
      BY <3>1 DEF TypeOK
    <3>. QED
      BY <3>2, PlansAssumption DEF Plan
  <2>. QED
    BY <2>1, <2>2 DEF TypeOK
<1>1. ASSUME NEW t \in Moments, RootStep(t)
      PROVE  KeysInOrder'
  <2>1. intervalID' = intervalID
    BY <1>1, RootKeepsRun
  <2>2. \/ Turn(at) < Turn(at')
        \/ /\ Turn(at) = 6 /\ Turn(at') = 6
           /\ Round(at, dunningAttempt) < Round(at', dunningAttempt')
    BY <1>1, RootMovesOn DEF Inv
  <2>3. ASSUME NEW k \in used
        PROVE  \/ k[1] < intervalID
               \/ k[1] = intervalID /\ UsedBefore(k, at', dunningAttempt')
    <3>1. CASE k[1] < intervalID
      BY <3>1
    <3>2. CASE k[1] = intervalID /\ UsedBefore(k, at, dunningAttempt)
      <4>1. /\ Turn(k[2]) \in Nat /\ Turn(at) \in Nat /\ Turn(at') \in Nat
            /\ Round(k[2], k[3]) \in Nat /\ Round(at, dunningAttempt) \in Nat
            /\ Round(at', dunningAttempt') \in Nat
        BY <1>0, TurnType, RoundType
      <4>. QED
        BY <2>2, <3>2, <4>1 DEF UsedBefore
    <3>. QED
      BY <3>1, <3>2 DEF KeysInOrder
  <2>4. ASSUME Dispatching
        PROVE  Key[1] = intervalID /\ UsedBefore(Key, at', dunningAttempt')
    BY <1>0, <2>2, <2>4, KeyIsHere DEF Inv, UsedBefore
  <2>. QED
    BY <1>1, <2>1, <2>3, <2>4, RootUsesKey DEF KeysInOrder
<1>2. CASE NextPeriod
  <2>1. intervalID' = intervalID + 1 /\ used' = used
    BY <1>2 DEF NextPeriod, NextBillingPeriod, FreshIntervalID
  <2>2. \A k \in used : k[1] < intervalID + 1
    BY <1>0 DEF KeysInOrder
  <2>. QED
    BY <2>1, <2>2 DEF KeysInOrder
<1>3. CASE UNCHANGED <<intervalID, used, at, dunningAttempt>>
  BY <1>3 DEF KeysInOrder
<1>. QED
  BY <1>1, <1>2, <1>3, StepKinds DEF RootStep, ChargeStep

\* A key that is in order is not the one of this place.
LEMMA OrderMeansFresh ==
    ASSUME TypeOK, Inv, KeysInOrder
    PROVE  KeyIsFresh
<1>1. SUFFICES ASSUME Dispatching, Key \in used PROVE FALSE
  BY DEF KeyIsFresh
<1>2. /\ Key[1] = intervalID /\ Turn(Key[2]) = Turn(at)
      /\ Turn(at) = 6 => Round(Key[2], Key[3]) = Round(at, dunningAttempt)
  BY <1>1, KeyIsHere DEF Inv
<1>3. intervalID \in Nat /\ dunningAttempt \in Nat
  BY PlanType DEF TypeOK
<1>4. UsedBefore(Key, at, dunningAttempt)
  BY <1>1, <1>2, <1>3 DEF KeysInOrder
<1>. QED
  BY <1>2, <1>3, <1>4, TurnType, RoundType DEF UsedBefore

\* No two charges or hooks ever bear the same idempotency key, in any period.
THEOREM KeysAreFresh == Spec => []KeyIsFresh
<1>1. Init => KeysInOrder
  BY DEF Init, KeysInOrder
<1>2. TypeOK /\ Inv /\ KeysInOrder /\ [Next]_vars => KeysInOrder'
  BY NextKeys
<1>3. TypeOK /\ Inv /\ KeysInOrder => KeyIsFresh
  BY OrderMeansFresh
<1>. QED
  BY <1>1, <1>2, <1>3, TypeCorrect, InvHolds, PTL DEF Spec

=============================================================================
