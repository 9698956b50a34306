----------------------- MODULE ActivityDeliveryProofs -----------------------
(***************************************************************************)
(* Theorems about the activities of one billing interval, for every number *)
(* of dunning attempts, of attempts of an activity and of calls under way. *)
(***************************************************************************)
EXTENDS ActivityDelivery, TLAPS

-----------------------------------------------------------------------------
(* The inductive invariant *)

\* Charges run one after the other: those before this one have failed and were
\* reported to the integrator, those after it have not begun.
InTurn ==
    /\ \A n \in Charges : n < charge => told[n] = "failed" /\ settled[n] # "nothing"
    /\ \A n \in Charges : n > charge => told[n] = "nothing" /\ settled[n] = "nothing"
    /\ activity = "ChargePayment" <=> told[charge] = "nothing"
    /\ Ended <=> settled[charge] # "nothing"

\* What the gateway took and the workflow does not know of, it could not report;
\* and only the current attempt is waited for.
Money ==
    /\ \A n \in Charges : told[n] = "paid" => n \in taken
    /\ \A n \in taken : n <= charge /\ (told[n] # "paid" => n \in lost)
    /\ \A e \in executions : e.charge <= charge
    /\ \A e \in executions : e.awaited =>
           waiting /\ activity = "ChargePayment" /\ e.charge = charge

\* A call carries what its charge came to; one at most is waited for.
Calls ==
    /\ \A r \in Slots : requests[r].at = "none" => ~requests[r].awaited
    /\ \A r \in Slots : requests[r].at # "none" =>
           LET e == requests[r].event IN
           /\ told[e.id] # "nothing"
           /\ e.type = "PaymentOK" <=> told[e.id] = "paid"
    /\ \A r \in Slots : requests[r].awaited =>
           waiting /\ activity = "DispatchHook" /\ requests[r].event.id = charge
    /\ \A q, r \in Slots : requests[q].awaited /\ requests[r].awaited => q = r

\* What an event's handling has left: a mark, or an excuse for handling it again.
Effects ==
    /\ \A n \in seen : handled[n] > 0
    /\ \A n \in Charges : handled[n] > 0 => n \in seen \cup excused
    /\ \A n \in Charges : handled[n] > 1 => n \in excused
    /\ \A n \in Charges : settled[n] = "delivered" => handled[n] > 0
    /\ \A r \in Slots : requests[r].at = "checked" /\ handled[requests[r].event.id] > 0
           => requests[r].event.id \in excused
    /\ \A q, r \in Slots :
           /\ q # r /\ requests[q].at = "checked" /\ requests[r].at = "checked"
           /\ requests[q].event.id = requests[r].event.id
           => requests[r].event.id \in excused

\* A worker that is past the index has it.
Indexed ==
    /\ workerStage > 1 => "reference_unique" \in workerPrepared
    /\ recorded # {} => "reference_unique" \in workerPrepared

IInv == TypeOK /\ InTurn /\ Money /\ Calls /\ Effects /\ Indexed

-----------------------------------------------------------------------------
(* Lemmas *)

\* The two steps of the worker's start-up.
LEMMA WorkerMain ==
    /\ Len(WorkerSteps) = 2 /\ DOMAIN WorkerSteps = 1..2
    /\ WorkerSteps[1] = "reference_unique" /\ WorkerSteps[2] = "temporal"
BY DEF WorkerSteps

\* The initial states.
LEMMA InitIInv == Init => IInv
<1>. SUFFICES ASSUME Init PROVE IInv
  OBVIOUS
<1>. USE AttemptsAssumption, CallsAssumption, WorkerMain
<1>1. 0 \in Charges /\ \A n \in Charges : n \in Nat
  BY DEF Charges
<1>2. TypeOK
  <2>1. Nothing \in Events
    BY <1>1 DEF Nothing, Events
  <2>2. NoRequest \in [event: Events, at: {"none", "sent", "checked"}, awaited: BOOLEAN]
    BY <2>1 DEF NoRequest
  <2>3. requests \in [Slots -> [event: Events, at: {"none", "sent", "checked"}, awaited: BOOLEAN]]
    BY <2>2 DEF Init
  <2>4. workerStage \in 0..(Len(WorkerSteps) + 1) /\ workerPrepared \subseteq WorkerDurable
    BY DEF Init, Worker!Init
  <2>5. told \in [Charges -> {"nothing", "paid", "failed"}]
        /\ settled \in [Charges -> {"nothing", "delivered", "rejected"}]
        /\ handled \in [Charges -> 0..2]
    BY DEF Init
  <2>6. charge \in Charges /\ attempts \in 0..ChargeAttempts
    BY <1>1 DEF Init
  <2>. QED
    BY <2>3, <2>4, <2>5, <2>6 DEF Init, TypeOK, WorkerTypeOK, SchedulingTypeOK, GatewayTypeOK, IntegratorTypeOK
<1>3. InTurn
  BY <1>1 DEF Init, InTurn, Ended
<1>4. Money /\ Calls
  BY <1>1 DEF Init, Money, Calls, NoRequest, Nothing
<1>5. Effects /\ Indexed
  BY <1>1 DEF Init, Effects, Indexed, NoRequest, Nothing, Worker!Init
<1>. QED
  BY <1>2, <1>3, <1>4, <1>5 DEF IInv

\* Charges are numbered, and the workflow may go on to the next.
LEMMA ChargeNumbers ==
    /\ \A n \in Charges : n \in Nat /\ n <= DunningMaxAttempts
    /\ \A n \in Charges : n < DunningMaxAttempts => n + 1 \in Charges
BY AttemptsAssumption DEF Charges

-----------------------------------------------------------------------------
(* The steps *)

\* The worker starts up, stops or crashes.
LEMMA WorkerStep == IInv /\ WorkerProcess => IInv'
<1>. SUFFICES ASSUME IInv, WorkerProcess PROVE IInv'
  OBVIOUS
<1>. USE DEF IInv, worker, scheduling, gateway, integrator
<1>1. CASE /\ Worker!Start \/ Worker!Succeed \/ Worker!Fail
           /\ UNCHANGED <<scheduling, gateway, integrator, recorded, settled>>
  <2>0. workerStage \in 0..3 /\ workerPrepared \subseteq WorkerDurable
    BY WorkerMain DEF TypeOK, WorkerTypeOK, SchedulingTypeOK, GatewayTypeOK, IntegratorTypeOK
  <2>a. ASSUME Worker!Start PROVE TypeOK' /\ Indexed'
    <3>1. workerStage' = 1 /\ workerPrepared' = workerPrepared
      BY <2>a DEF Worker!Start
    <3>2. TypeOK'
      BY <1>1, <2>0, <3>1, WorkerMain DEF TypeOK, WorkerTypeOK, SchedulingTypeOK, GatewayTypeOK, IntegratorTypeOK
    <3>. QED
      BY <1>1, <3>1, <3>2 DEF Indexed
  <2>b. ASSUME Worker!Succeed \/ Worker!Fail PROVE TypeOK' /\ Indexed'
    <3>1. workerStage \in 1..2
      BY <2>b, WorkerMain DEF Worker!Succeed, Worker!Fail, Worker!Starting
    <3>2. workerPrepared \subseteq workerPrepared' /\ workerPrepared' \subseteq WorkerDurable
      BY <2>0, <2>b DEF Worker!Succeed, Worker!Fail, Worker!TakesEffect
    <3>3. \/ workerStage' = 0
          \/ workerStage' = workerStage + 1 /\ WorkerSteps[workerStage] \in WorkerDurable
                 => WorkerSteps[workerStage] \in workerPrepared'
      BY <2>b DEF Worker!Succeed, Worker!Fail, Worker!TakesEffect
    <3>4. workerStage' \in {0, workerStage + 1}
      BY <2>b DEF Worker!Succeed, Worker!Fail
    <3>5. TypeOK'
      BY <1>1, <3>1, <3>2, <3>4, WorkerMain DEF TypeOK, WorkerTypeOK, SchedulingTypeOK, GatewayTypeOK, IntegratorTypeOK
    <3>6. workerStage' > 1 => "reference_unique" \in workerPrepared'
      <4>1. CASE workerStage = 1
        BY <2>b, <3>3, <4>1, WorkerMain DEF WorkerDurable, Worker!Succeed, Worker!Fail, Worker!TakesEffect
      <4>2. CASE workerStage = 2
        BY <3>2, <4>2 DEF Indexed
      <4>. QED
        BY <3>1, <4>1, <4>2
    <3>. QED
      BY <1>1, <3>2, <3>5, <3>6 DEF Indexed
  <2>1. TypeOK' /\ Indexed'
    BY <1>1, <2>a, <2>b
  <2>3. InTurn' /\ Money' /\ Calls' /\ Effects'
    BY <1>1 DEF InTurn, Money, Calls, Effects, Ended
  <2>. QED
    BY <2>1, <2>3
<1>2. CASE /\ Worker!Crash
           /\ executions' = {}
           /\ requests' = Abandoned
           /\ UNCHANGED <<scheduling, told, taken, lost, seen, handled, excused, recorded, settled>>
  <2>1. \A r \in Slots : /\ requests'[r].at = requests[r].at
                         /\ requests'[r].event = requests[r].event
                         /\ ~requests'[r].awaited
    BY <1>2 DEF TypeOK, WorkerTypeOK, SchedulingTypeOK, GatewayTypeOK, IntegratorTypeOK, Abandoned
  <2>2. TypeOK'
    <3>1. requests' \in [Slots -> [event: Events, at: {"none", "sent", "checked"}, awaited: BOOLEAN]]
      BY <1>2 DEF TypeOK, WorkerTypeOK, SchedulingTypeOK, GatewayTypeOK, IntegratorTypeOK, Abandoned
    <3>2. workerStage' = 0 /\ workerPrepared' = workerPrepared
      BY <1>2 DEF Worker!Crash
    <3>. QED
      BY <1>2, <3>1, <3>2, WorkerMain DEF TypeOK, WorkerTypeOK, SchedulingTypeOK, GatewayTypeOK, IntegratorTypeOK
  <2>3. InTurn' /\ Money'
    BY <1>2 DEF InTurn, Money, Ended
  <2>4. Calls'
    BY <1>2, <2>1 DEF Calls
  <2>5. Effects'
    BY <1>2, <2>1 DEF Effects
  <2>6. Indexed'
    BY <1>2 DEF Indexed, Worker!Crash
  <2>. QED
    BY <2>2, <2>3, <2>4, <2>5, <2>6
<1>. QED
  BY <1>1, <1>2 DEF WorkerProcess

\* What ends a charge.
LEMMA ChargeEndsStep ==
    ASSUME IInv, NEW outcome \in {"paid", "failed"}, activity = "ChargePayment",
           ChargeEnds(outcome), outcome = "paid" => charge \in taken',
           taken' \in {taken, taken \cup {charge}},
           outcome = "failed" => taken' = taken,
           lost' = lost, TypeOK',
           executions' \subseteq [charge: Charges, awaited: BOOLEAN],
           \A e \in executions' : e.charge <= charge /\ ~e.awaited,
           UNCHANGED <<worker, integrator, recorded, settled>>
    PROVE  IInv'
<1>. USE ChargeNumbers DEF IInv
<1>1. charge' = charge /\ waiting' = FALSE /\ activity' = "RecordBillingEvent"
  BY DEF ChargeEnds, GoOn
<1>2. \A n \in Charges : told'[n] = IF n = charge THEN outcome ELSE told[n]
  BY DEF ChargeEnds, TypeOK, WorkerTypeOK, SchedulingTypeOK, GatewayTypeOK, IntegratorTypeOK
<1>3. charge \in Charges /\ told[charge] = "nothing"
  BY DEF TypeOK, WorkerTypeOK, SchedulingTypeOK, GatewayTypeOK, IntegratorTypeOK, InTurn
<1>4. \A r \in Slots : ~requests[r].awaited
  BY DEF Calls
<1>5. InTurn'
  BY <1>1, <1>2, <1>3 DEF InTurn, Ended
<1>6. Money'
  BY <1>1, <1>2, <1>3 DEF Money, TypeOK, WorkerTypeOK, SchedulingTypeOK, GatewayTypeOK, IntegratorTypeOK
<1>7. \A r \in Slots : requests[r].at # "none" => requests[r].event.id # charge
  BY <1>3 DEF Calls
<1>8. Calls'
  <2>1. \A r \in Slots : requests[r].event.id \in Charges
    BY DEF TypeOK, WorkerTypeOK, SchedulingTypeOK, GatewayTypeOK, IntegratorTypeOK, Events
  <2>. QED
    BY <1>1, <1>2, <1>4, <1>7, <2>1 DEF Calls, integrator
<1>9. Effects' /\ Indexed'
  BY DEF Effects, Indexed, integrator, worker
<1>. QED
  BY <1>5, <1>6, <1>8, <1>9

\* The charge is refused, or its attempt times out: it is tried again, or has failed.
LEMMA ChargeFailsStep ==
    ASSUME IInv, NEW error, activity = "ChargePayment", waiting, ChargeFails(error),
           executions' \subseteq [charge: Charges, awaited: BOOLEAN],
           \A e \in executions' : e.charge <= charge /\ ~e.awaited,
           UNCHANGED <<worker, taken, lost, integrator, recorded, settled>>
    PROVE  IInv'
<1>. USE DEF IInv
<1>1. CASE GivesUp(error)
  <2>1. ChargeEnds("failed")
    BY <1>1 DEF ChargeFails
  <2>2. TypeOK'
    <3>0. waiting' \in BOOLEAN
      BY <2>1 DEF ChargeEnds, GoOn
    <3>1. SchedulingTypeOK'
      BY <2>1, <3>0, AttemptsAssumption DEF TypeOK, SchedulingTypeOK, ChargeEnds, GoOn
    <3>2. told' \in [Charges -> {"nothing", "paid", "failed"}]
      BY <2>1 DEF TypeOK, GatewayTypeOK, ChargeEnds
    <3>3. GatewayTypeOK'
      BY <3>2 DEF TypeOK, GatewayTypeOK
    <3>. QED
      BY <3>1, <3>3 DEF TypeOK, WorkerTypeOK, IntegratorTypeOK, worker, integrator
  <2>. QED
    BY <2>1, <2>2, ChargeEndsStep
<1>2. CASE ~GivesUp(error)
  <2>1. waiting' = FALSE /\ UNCHANGED <<activity, charge, attempts, told>>
    BY <1>2 DEF ChargeFails, TryAgain
  <2>2. TypeOK'
    BY <2>1 DEF TypeOK, WorkerTypeOK, SchedulingTypeOK, GatewayTypeOK, IntegratorTypeOK, worker, integrator
  <2>3. InTurn' /\ Effects' /\ Indexed'
    BY <2>1 DEF InTurn, Ended, Effects, Indexed, worker, integrator
  <2>4. Money'
    BY <2>1 DEF Money
  <2>5. Calls'
    BY <2>1 DEF Calls, integrator
  <2>. QED
    BY <2>2, <2>3, <2>4, <2>5
<1>. QED
  BY <1>1, <1>2

\* ChargePayment, attempt by attempt.
LEMMA ChargeStep == IInv /\ ChargePayment => IInv'
<1>. SUFFICES ASSUME IInv, ChargePayment PROVE IInv'
  OBVIOUS
<1>. USE ChargeNumbers DEF IInv
<1>0. charge \in Charges
  BY DEF TypeOK, WorkerTypeOK, SchedulingTypeOK, GatewayTypeOK, IntegratorTypeOK
<1>1. CASE AttemptCharge
  <2>1. /\ activity = "ChargePayment" /\ ~waiting /\ waiting' = TRUE
        /\ attempts' \in 0..ChargeAttempts
        /\ UNCHANGED <<activity, charge>>
    BY <1>1, AttemptsAssumption DEF AttemptCharge, Attempt, TypeOK, WorkerTypeOK, SchedulingTypeOK, GatewayTypeOK, IntegratorTypeOK
  <2>2. executions' = executions \cup {[charge |-> charge, awaited |-> TRUE]}
    BY <1>1 DEF AttemptCharge
  <2>0. SchedulingTypeOK'
    <3>1. waiting' \in BOOLEAN
      BY <2>1
    <3>2. charge' \in Charges
      BY <1>0, <2>1
    <3>. QED
      BY <2>1, <3>1, <3>2 DEF SchedulingTypeOK
  <2>. USE <1>1 DEF AttemptCharge, worker, integrator
  <2>3. TypeOK'
    <3>1. [charge |-> charge, awaited |-> TRUE] \in [charge: Charges, awaited: BOOLEAN]
      BY <1>0
    <3>2. executions' \subseteq [charge: Charges, awaited: BOOLEAN]
      BY <2>2, <3>1 DEF TypeOK, GatewayTypeOK
    <3>3. GatewayTypeOK'
      BY <3>2 DEF TypeOK, GatewayTypeOK
    <3>. QED
      BY <2>0, <3>3 DEF TypeOK, WorkerTypeOK, IntegratorTypeOK
  <2>4. InTurn' /\ Effects' /\ Indexed'
    BY <2>1 DEF InTurn, Ended, Effects, Indexed
  <2>5. Money'
    BY <1>0, <2>1, <2>2 DEF Money, TypeOK, WorkerTypeOK, SchedulingTypeOK, GatewayTypeOK, IntegratorTypeOK
  <2>6. Calls'
    BY <2>1 DEF Calls
  <2>. QED
    BY <2>3, <2>4, <2>5, <2>6
<1>2. ASSUME NEW e \in executions, PaymentTaken(e, TRUE) PROVE IInv'
  <2>1. e.awaited /\ e.charge = charge /\ activity = "ChargePayment" /\ ChargeEnds("paid")
    BY <1>2 DEF PaymentTaken, Money
  <2>2. /\ executions' = executions \ {e} /\ taken' = taken \cup {charge} /\ lost' = lost
        /\ UNCHANGED <<worker, integrator, recorded, settled>>
    BY <1>2, <2>1 DEF PaymentTaken
  <2>3. \A f \in executions' : f.charge <= charge /\ ~f.awaited
    <3>1. \A f \in executions : f.awaited => f = e
      BY <2>1 DEF Money, TypeOK, WorkerTypeOK, SchedulingTypeOK, GatewayTypeOK, IntegratorTypeOK
    <3>. QED
      BY <2>2, <3>1 DEF Money
  <2>4. executions' \subseteq [charge: Charges, awaited: BOOLEAN]
    BY <2>2 DEF TypeOK, WorkerTypeOK, SchedulingTypeOK, GatewayTypeOK, IntegratorTypeOK
  <2>5. TypeOK'
    <3>0. waiting' \in BOOLEAN
      BY <2>1 DEF ChargeEnds, GoOn
    <3>1. SchedulingTypeOK'
      BY <2>1, <3>0, AttemptsAssumption DEF TypeOK, SchedulingTypeOK, ChargeEnds, GoOn
    <3>2. told' \in [Charges -> {"nothing", "paid", "failed"}]
      BY <2>1 DEF TypeOK, GatewayTypeOK, ChargeEnds
    <3>3. GatewayTypeOK'
      BY <1>0, <2>2, <2>4, <3>2 DEF TypeOK, GatewayTypeOK
    <3>. QED
      BY <2>2, <3>1, <3>3 DEF TypeOK, WorkerTypeOK, IntegratorTypeOK, worker, integrator
  <2>. QED
    BY <2>1, <2>2, <2>3, <2>4, <2>5, ChargeEndsStep
<1>3. ASSUME NEW e \in executions, PaymentTaken(e, FALSE) PROVE IInv'
  <2>1. /\ executions' = executions \ {e} /\ taken' = taken \cup {e.charge}
        /\ lost' = lost \cup {e.charge}
        /\ UNCHANGED <<scheduling, told, worker, integrator, recorded, settled>>
    BY <1>3 DEF PaymentTaken
  <2>2. e.charge \in Charges /\ e.charge <= charge
    BY DEF TypeOK, WorkerTypeOK, SchedulingTypeOK, GatewayTypeOK, IntegratorTypeOK, Money
  <2>. USE <2>1 DEF worker, scheduling, integrator
  <2>3. TypeOK'
    BY <2>2 DEF TypeOK, WorkerTypeOK, SchedulingTypeOK, GatewayTypeOK, IntegratorTypeOK
  <2>4. InTurn' /\ Effects' /\ Indexed' /\ Calls'
    BY DEF InTurn, Ended, Effects, Indexed, Calls
  <2>5. Money'
    BY <2>2 DEF Money
  <2>. QED
    BY <2>3, <2>4, <2>5
<1>4. ASSUME NEW e \in executions, NEW error \in {"declined", "transient"},
             PaymentRefused(e, error)
      PROVE  IInv'
  <2>1. e.awaited /\ e.charge = charge /\ activity = "ChargePayment" /\ waiting
    BY <1>4 DEF PaymentRefused, Money
  <2>2. /\ executions' = executions \ {e} /\ ChargeFails(error)
        /\ UNCHANGED <<worker, taken, lost, integrator, recorded, settled>>
    BY <1>4 DEF PaymentRefused
  <2>3. \A f \in executions : f.awaited => f = e
    BY <2>1 DEF Money, TypeOK, WorkerTypeOK, SchedulingTypeOK, GatewayTypeOK, IntegratorTypeOK
  <2>4. \A f \in executions' : f.charge <= charge /\ ~f.awaited
    BY <2>2, <2>3 DEF Money
  <2>5. executions' \subseteq [charge: Charges, awaited: BOOLEAN]
    BY <2>2 DEF TypeOK, WorkerTypeOK, SchedulingTypeOK, GatewayTypeOK, IntegratorTypeOK
  <2>. QED
    BY <2>1, <2>2, <2>4, <2>5, ChargeFailsStep
<1>5. CASE ChargeTimesOut
  <2>1. /\ activity = "ChargePayment" /\ waiting /\ ChargeFails("timeout")
        /\ executions' = {[e EXCEPT !.awaited = FALSE] : e \in executions}
        /\ UNCHANGED <<worker, taken, lost, integrator, recorded, settled>>
    BY <1>5 DEF ChargeTimesOut
  <2>2. /\ executions' \subseteq [charge: Charges, awaited: BOOLEAN]
        /\ \A e \in executions' : e.charge <= charge /\ ~e.awaited
    <3>1. ASSUME NEW e \in executions
          PROVE  LET f == [e EXCEPT !.awaited = FALSE] IN
                 /\ f \in [charge: Charges, awaited: BOOLEAN]
                 /\ f.charge <= charge /\ ~f.awaited
      BY <3>1 DEF Money, TypeOK, GatewayTypeOK
    <3>. QED
      BY <2>1, <3>1
  <2>. QED
    BY <2>1, <2>2, ChargeFailsStep
<1>. QED
  BY <1>1, <1>2, <1>3, <1>4, <1>5 DEF ChargePayment

\* RecordBillingEvent.
LEMMA RecordStep == IInv /\ RecordBillingEvent => IInv'
<1>. SUFFICES ASSUME IInv, RecordBillingEvent PROVE IInv'
  OBVIOUS
<1>. USE DEF IInv
<1>1. /\ activity = "RecordBillingEvent" /\ activity' = "DispatchHook"
      /\ charge' = charge /\ attempts' = 0 /\ waiting' = FALSE
      /\ recorded' = recorded \cup {charge}
      /\ UNCHANGED <<worker, gateway, integrator, settled>>
  BY DEF RecordBillingEvent, GoOn
<1>. USE DEF worker, gateway, integrator
<1>2. TypeOK'
  <2>0. waiting' \in BOOLEAN
    BY <1>1
  <2>1. SchedulingTypeOK'
    BY <1>1, <2>0, AttemptsAssumption DEF TypeOK, SchedulingTypeOK
  <2>2. recorded' \subseteq Charges
    BY <1>1 DEF TypeOK, SchedulingTypeOK
  <2>. QED
    BY <1>1, <2>1, <2>2 DEF TypeOK, WorkerTypeOK, GatewayTypeOK, IntegratorTypeOK
<1>3. InTurn' /\ Money' /\ Calls' /\ Effects'
  BY <1>1 DEF InTurn, Money, Calls, Effects, Ended
<1>4. "reference_unique" \in workerPrepared
  BY WorkerMain DEF RecordBillingEvent, Worker!Serving, Indexed
<1>5. Indexed'
  BY <1>1, <1>4 DEF Indexed
<1>. QED
  BY <1>2, <1>3, <1>5

\* What the end of a hook, or of one of its attempts, does to the schedule.
LEMMA ScheduleAfterHook ==
    ASSUME IInv, activity = "DispatchHook", waiting,
           NEW outcome \in {"delivered", "rejected"},
           HookEnds(outcome) \/ (TryAgain /\ UNCHANGED settled),
           UNCHANGED gateway
    PROVE  /\ InTurn' /\ Money'
           /\ activity' \in {"ChargePayment", "DispatchHook", "paid", "exhausted"}
           /\ charge' \in Charges /\ attempts' \in 0..ChargeAttempts /\ waiting' = FALSE
           /\ settled' \in [Charges -> {"nothing", "delivered", "rejected"}]
           /\ \A n \in Charges : settled'[n] \in {settled[n], outcome}
           /\ \A n \in Charges : settled'[n] # settled[n] => HookEnds(outcome) /\ n = charge
<1>. USE ChargeNumbers, AttemptsAssumption DEF IInv, gateway
<1>0. charge \in Charges /\ told[charge] \in {"paid", "failed"} /\ settled[charge] = "nothing"
  BY DEF TypeOK, WorkerTypeOK, SchedulingTypeOK, GatewayTypeOK, IntegratorTypeOK, InTurn, Ended
<1>1. CASE TryAgain /\ UNCHANGED settled
  BY <1>0, <1>1 DEF TryAgain, InTurn, Money, TypeOK, WorkerTypeOK, SchedulingTypeOK, GatewayTypeOK, IntegratorTypeOK, Ended
<1>2. CASE HookEnds(outcome)
  <2>1. /\ settled' \in [Charges -> {"nothing", "delivered", "rejected"}]
        /\ \A n \in Charges : settled'[n] = IF n = charge THEN outcome ELSE settled[n]
    BY <1>0, <1>2 DEF HookEnds, TypeOK, WorkerTypeOK, SchedulingTypeOK, GatewayTypeOK, IntegratorTypeOK
  <2>2. waiting' = FALSE /\ attempts' = 0
    BY <1>2 DEF HookEnds, GoOn
  <2>3. CASE told[charge] = "paid"
    <3>1. activity' = "paid" /\ charge' = charge
      BY <1>2, <2>3 DEF HookEnds, GoOn
    <3>2. InTurn'
      BY <1>0, <2>1, <2>3, <3>1 DEF InTurn, Ended
    <3>3. Money'
      BY <3>1 DEF Money
    <3>. QED
      BY <1>0, <1>2, <2>1, <2>2, <3>1, <3>2, <3>3
  <2>4. CASE told[charge] = "failed" /\ charge < DunningMaxAttempts
    <3>1. activity' = "ChargePayment" /\ charge' = charge + 1
      BY <1>2, <2>4 DEF HookEnds, GoOn
    <3>2. charge' \in Charges /\ told[charge'] = "nothing" /\ settled[charge'] = "nothing"
      BY <1>0, <2>4, <3>1 DEF InTurn
    <3>3. \A n \in Charges : n < charge' => n < charge \/ n = charge
      BY <1>0, <3>1
    <3>4. InTurn'
      BY <1>0, <2>1, <2>4, <3>1, <3>2, <3>3 DEF InTurn, Ended
    <3>5. Money'
      BY <1>0, <3>1 DEF Money, TypeOK, WorkerTypeOK, SchedulingTypeOK, GatewayTypeOK, IntegratorTypeOK
    <3>. QED
      BY <1>2, <2>1, <2>2, <3>1, <3>2, <3>4, <3>5
  <2>5. CASE told[charge] = "failed" /\ ~(charge < DunningMaxAttempts)
    <3>1. activity' = "exhausted" /\ charge' = charge
      BY <1>2, <2>5 DEF HookEnds, GoOn
    <3>2. InTurn'
      BY <1>0, <2>1, <2>5, <3>1 DEF InTurn, Ended
    <3>3. Money'
      BY <3>1 DEF Money
    <3>. QED
      BY <1>0, <1>2, <2>1, <2>2, <3>1, <3>2, <3>3
  <2>. QED
    BY <1>0, <2>3, <2>4, <2>5
<1>. QED
  BY <1>1, <1>2

\* The slots after a step that ends, drops or abandons calls.
LEMMA CallsWithdrawn ==
    ASSUME IInv, UNCHANGED told,
           NEW kept \in SUBSET Slots,
           \A r \in Slots : ~requests'[r].awaited,
           \A r \in kept : /\ requests'[r].at = requests[r].at
                           /\ requests'[r].event = requests[r].event,
           \A r \in Slots \ kept : requests'[r].at = "none"
    PROVE  Calls'
BY DEF IInv, Calls

\* What an answer may do: nothing, if it is not reported; else end the hook, or
\* have it tried again.
LEMMA Answered ==
    ASSUME IInv, NEW r \in Slots, NEW answer \in {"ok", "terminal", "transient"},
           NEW reported \in BOOLEAN, requests[r].at # "none",
           Answer(r, answer, reported), UNCHANGED gateway
    PROVE  /\ requests' = [requests EXCEPT ![r] = NoRequest]
           /\ requests' \in [Slots -> [event: Events, at: {"none", "sent", "checked"}, awaited: BOOLEAN]]
           /\ SchedulingTypeOK'
           /\ InTurn' /\ Money' /\ Calls'
           /\ settled' \in [Charges -> {"nothing", "delivered", "rejected"}]
           /\ \A n \in Charges : settled'[n] = "delivered" =>
                  settled[n] = "delivered" \/ (answer = "ok" /\ n = requests[r].event.id)
<1>. USE DEF IInv, gateway
<1>1. requests' = [requests EXCEPT ![r] = NoRequest]
  BY DEF Answer
<1>2. /\ requests'[r].at = "none" /\ ~requests'[r].awaited
      /\ \A q \in Slots \ {r} : requests'[q] = requests[q]
  BY <1>1 DEF TypeOK, IntegratorTypeOK, NoRequest
<1>3. requests' \in [Slots -> [event: Events, at: {"none", "sent", "checked"}, awaited: BOOLEAN]]
  <2>1. NoRequest \in [event: Events, at: {"none", "sent", "checked"}, awaited: BOOLEAN]
    <3>1. 0 \in Charges
      BY AttemptsAssumption DEF Charges
    <3>2. Nothing \in Events
      BY <3>1 DEF Nothing, Events
    <3>. QED
      BY <3>2 DEF NoRequest
  <2>. QED
    BY <1>1, <2>1 DEF TypeOK, IntegratorTypeOK
<1>4. CASE ~reported
  <2>1. UNCHANGED <<scheduling, settled>>
    BY <1>4 DEF Answer
  <2>2. SchedulingTypeOK' /\ InTurn' /\ Money'
    BY <2>1 DEF scheduling, TypeOK, SchedulingTypeOK, InTurn, Ended, Money
  <2>3. Calls'
    BY <1>2, <2>1 DEF scheduling, Calls
  <2>. QED
    BY <1>1, <1>3, <2>1, <2>2, <2>3 DEF TypeOK
<1>5. CASE reported
  <2>1. /\ requests[r].awaited /\ waiting /\ activity = "DispatchHook"
        /\ requests[r].event.id = charge
        /\ \A q \in Slots \ {r} : ~requests[q].awaited
    BY <1>5 DEF Answer, Calls
  <2>2. PICK outcome \in {"delivered", "rejected"} :
           /\ HookEnds(outcome) \/ (TryAgain /\ UNCHANGED settled)
           /\ answer # "ok" => outcome = "rejected"
    <3>1. CASE answer = "ok"
      BY <1>5, <3>1 DEF Answer
    <3>2. CASE answer = "terminal"
      BY <1>5, <3>2 DEF Answer, HookFails, GivesUp, NonRetryable
    <3>3. CASE answer = "transient"
      <4>1. ~GivesUp(answer)
        BY <2>1, <3>3 DEF GivesUp, NonRetryable, Exhausted
      <4>. QED
        BY <1>5, <3>3, <4>1 DEF Answer, HookFails
    <3>. QED
      BY <3>1, <3>2, <3>3
  <2>3. /\ InTurn' /\ Money'
        /\ activity' \in {"ChargePayment", "DispatchHook", "paid", "exhausted"}
        /\ charge' \in Charges /\ attempts' \in 0..ChargeAttempts /\ waiting' = FALSE
        /\ settled' \in [Charges -> {"nothing", "delivered", "rejected"}]
        /\ \A n \in Charges : settled'[n] \in {settled[n], outcome}
        /\ \A n \in Charges : settled'[n] # settled[n] => HookEnds(outcome) /\ n = charge
    BY <2>1, <2>2, ScheduleAfterHook
  <2>4. waiting' \in BOOLEAN
    BY <2>3
  <2>5. SchedulingTypeOK'
    BY <2>3, <2>4 DEF SchedulingTypeOK
  <2>6. Calls'
    BY <1>2, <2>1, CallsWithdrawn
  <2>. QED
    BY <1>1, <1>3, <2>1, <2>2, <2>3, <2>5, <2>6
<1>. QED
  BY <1>4, <1>5

\* The integrator checks an event, handles it or refuses it.
LEMMA IntegratorStep == IInv /\ Integrator => IInv'
<1>. SUFFICES ASSUME IInv, Integrator PROVE IInv'
  OBVIOUS
<1>. USE DEF IInv
<1>1. ASSUME NEW r \in Slots, NEW reported \in BOOLEAN, Check(r, reported) PROVE IInv'
  <2>. DEFINE id == requests[r].event.id
  <2>1. /\ requests[r].at = "sent" /\ id \in Charges
        /\ UNCHANGED <<worker, gateway, seen, handled, recorded>>
    BY <1>1 DEF Check, TypeOK, IntegratorTypeOK, Events
  <2>2. CASE id \in seen
    <3>1. Answer(r, "ok", reported) /\ UNCHANGED excused
      BY <1>1, <2>2 DEF Check
    <3>2. /\ requests' = [requests EXCEPT ![r] = NoRequest]
          /\ requests' \in [Slots -> [event: Events, at: {"none", "sent", "checked"}, awaited: BOOLEAN]]
          /\ SchedulingTypeOK'
          /\ InTurn' /\ Money' /\ Calls'
          /\ settled' \in [Charges -> {"nothing", "delivered", "rejected"}]
          /\ \A n \in Charges : settled'[n] = "delivered" => settled[n] = "delivered" \/ n = id
      BY <2>1, <3>1, Answered
    <3>3. TypeOK'
      BY <2>1, <3>1, <3>2 DEF TypeOK, WorkerTypeOK, GatewayTypeOK, IntegratorTypeOK, worker, gateway
    <3>4. \A q \in Slots : requests'[q].at = "none" \/ requests'[q] = requests[q]
      BY <3>2 DEF NoRequest, TypeOK, IntegratorTypeOK
    <3>5. Effects'
      BY <2>1, <2>2, <3>1, <3>2, <3>4 DEF Effects
    <3>6. Indexed'
      BY <2>1 DEF Indexed, worker
    <3>. QED
      BY <3>2, <3>3, <3>5, <3>6
  <2>3. CASE id \notin seen
    <3>1. /\ requests' = [requests EXCEPT ![r].at = "checked"]
          /\ excused' = IF \E q \in Slots : requests[q].at = "checked" /\ requests[q].event.id = id
                        THEN excused \cup {id} ELSE excused
          /\ UNCHANGED <<scheduling, settled>>
      BY <1>1, <2>3 DEF Check
    <3>2. /\ requests' \in [Slots -> [event: Events, at: {"none", "sent", "checked"}, awaited: BOOLEAN]]
          /\ requests'[r].at = "checked"
          /\ \A q \in Slots : /\ requests'[q].event = requests[q].event
                              /\ requests'[q].awaited = requests[q].awaited
                              /\ q # r => requests'[q].at = requests[q].at
      BY <3>1 DEF TypeOK, IntegratorTypeOK
    <3>3. excused \subseteq excused' /\ excused' \subseteq excused \cup {id}
      BY <3>1
    <3>4. TypeOK'
      BY <2>1, <3>1, <3>2, <3>3 DEF TypeOK, WorkerTypeOK, SchedulingTypeOK, GatewayTypeOK,
           IntegratorTypeOK, worker, scheduling, gateway
    <3>5. InTurn' /\ Money' /\ Indexed'
      BY <2>1, <3>1 DEF InTurn, Ended, Money, Indexed, worker, scheduling, gateway
    <3>6. Calls'
      BY <2>1, <3>1, <3>2 DEF Calls, scheduling, gateway
    <3>7. Effects'
      <4>1. handled[id] > 0 => id \in excused'
        BY <2>1, <2>3, <3>3 DEF Effects
      <4>2. \A q \in Slots : requests[q].at = "checked" /\ requests[q].event.id = id
                => id \in excused'
        BY <3>1
      <4>. QED
        BY <2>1, <3>1, <3>2, <3>3, <4>1, <4>2 DEF Effects
    <3>. QED
      BY <3>4, <3>5, <3>6, <3>7
  <2>. QED
    BY <2>2, <2>3
<1>2. ASSUME NEW r \in Slots, NEW reported \in BOOLEAN, Handle(r, reported) PROVE IInv'
  <2>. DEFINE id == requests[r].event.id
  <2>1. /\ requests[r].at = "checked" /\ id \in Charges
        /\ seen' = seen \cup {id}
        /\ handled' = [handled EXCEPT ![id] = IF @ < 2 THEN @ + 1 ELSE 2]
        /\ Answer(r, "ok", reported)
        /\ UNCHANGED <<worker, gateway, excused, recorded>>
    BY <1>2 DEF Handle, TypeOK, IntegratorTypeOK, Events
  <2>2. /\ requests' = [requests EXCEPT ![r] = NoRequest]
        /\ requests' \in [Slots -> [event: Events, at: {"none", "sent", "checked"}, awaited: BOOLEAN]]
        /\ SchedulingTypeOK'
        /\ InTurn' /\ Money' /\ Calls'
        /\ settled' \in [Charges -> {"nothing", "delivered", "rejected"}]
        /\ \A n \in Charges : settled'[n] = "delivered" => settled[n] = "delivered" \/ n = id
    BY <2>1, Answered
  <2>3. /\ handled' \in [Charges -> 0..2]
        /\ \A n \in Charges : n # id => handled'[n] = handled[n]
        /\ handled'[id] > 0 /\ (handled'[id] > 1 => handled[id] > 0)
    BY <2>1 DEF TypeOK, IntegratorTypeOK
  <2>4. TypeOK'
    BY <2>1, <2>2, <2>3 DEF TypeOK, WorkerTypeOK, GatewayTypeOK, IntegratorTypeOK, worker, gateway
  <2>5. /\ requests'[r].at = "none"
        /\ \A q \in Slots : q # r => requests'[q] = requests[q]
    BY <2>2 DEF NoRequest, TypeOK, IntegratorTypeOK
  <2>6. handled[id] > 0 => id \in excused
    BY <2>1 DEF Effects
  <2>7. \A q \in Slots : q # r /\ requests[q].at = "checked" /\ requests[q].event.id = id
            => id \in excused
    BY <2>1 DEF Effects
  <2>8. \A q \in Slots : requests[q].event.id \in Charges
    BY DEF TypeOK, IntegratorTypeOK, Events
  <2>9. Effects'
    <3>1. /\ \A n \in seen' : handled'[n] > 0
          /\ \A n \in Charges : handled'[n] > 0 => n \in seen' \cup excused'
          /\ \A n \in Charges : handled'[n] > 1 => n \in excused'
          /\ \A n \in Charges : settled'[n] = "delivered" => handled'[n] > 0
      BY <2>1, <2>2, <2>3, <2>6 DEF Effects, TypeOK, IntegratorTypeOK
    <3>2. \A q \in Slots : requests'[q].at = "checked" /\ handled'[requests'[q].event.id] > 0
              => requests'[q].event.id \in excused'
      BY <2>1, <2>3, <2>5, <2>7, <2>8 DEF Effects
    <3>3. \A p, q \in Slots :
              /\ p # q /\ requests'[p].at = "checked" /\ requests'[q].at = "checked"
              /\ requests'[p].event.id = requests'[q].event.id
              => requests'[q].event.id \in excused'
      BY <2>1, <2>5 DEF Effects
    <3>. QED
      BY <3>1, <3>2, <3>3 DEF Effects
  <2>10. Indexed'
    BY <2>1 DEF Indexed, worker
  <2>. QED
    BY <2>2, <2>4, <2>9, <2>10
<1>3. ASSUME NEW r \in Slots, NEW reported \in BOOLEAN,
             NEW error \in {"terminal", "transient"}, RefuseEvent(r, error, reported)
      PROVE  IInv'
  <2>1. /\ requests[r].at = "checked" /\ Answer(r, error, reported)
        /\ UNCHANGED <<worker, gateway, seen, handled, excused, recorded>>
    BY <1>3 DEF RefuseEvent
  <2>2. /\ requests' = [requests EXCEPT ![r] = NoRequest]
        /\ requests' \in [Slots -> [event: Events, at: {"none", "sent", "checked"}, awaited: BOOLEAN]]
        /\ SchedulingTypeOK'
        /\ InTurn' /\ Money' /\ Calls'
        /\ settled' \in [Charges -> {"nothing", "delivered", "rejected"}]
        /\ \A n \in Charges : settled'[n] = "delivered" => settled[n] = "delivered"
    BY <2>1, Answered
  <2>3. TypeOK'
    BY <2>1, <2>2 DEF TypeOK, WorkerTypeOK, GatewayTypeOK, IntegratorTypeOK, worker, gateway
  <2>4. \A q \in Slots : requests'[q].at = "none" \/ requests'[q] = requests[q]
    BY <2>2 DEF NoRequest, TypeOK, IntegratorTypeOK
  <2>5. Effects'
    BY <2>1, <2>2, <2>4 DEF Effects
  <2>6. Indexed'
    BY <2>1 DEF Indexed, worker
  <2>. QED
    BY <2>2, <2>3, <2>5, <2>6
<1>4. CASE IntegratorRestarts
  <2>1. /\ seen' = {} /\ excused' = excused \cup seen
        /\ UNCHANGED <<worker, scheduling, gateway, handled, recorded, settled>>
    BY <1>4 DEF IntegratorRestarts
  <2>2. NoRequest.at = "none" /\ NoRequest.awaited = FALSE
    BY DEF NoRequest
  <2>3. NoRequest \in [event: Events, at: {"none", "sent", "checked"}, awaited: BOOLEAN]
    <3>1. 0 \in Charges
      BY AttemptsAssumption DEF Charges
    <3>2. Nothing \in Events
      BY <3>1 DEF Nothing, Events
    <3>. QED
      BY <3>2 DEF NoRequest
  <2>4. \A q \in Slots : requests'[q] = IF requests[q].at = "checked" THEN NoRequest ELSE requests[q]
    BY <1>4 DEF IntegratorRestarts
  <2>5. requests' \in [Slots -> [event: Events, at: {"none", "sent", "checked"}, awaited: BOOLEAN]]
    BY <1>4, <2>3 DEF IntegratorRestarts, TypeOK, IntegratorTypeOK
  <2>. USE DEF worker, scheduling, gateway
  <2>6. TypeOK'
    BY <2>1, <2>5 DEF TypeOK, WorkerTypeOK, SchedulingTypeOK, GatewayTypeOK, IntegratorTypeOK
  <2>7. InTurn' /\ Money' /\ Indexed'
    BY <2>1 DEF InTurn, Ended, Money, Indexed
  <2>8. Calls'
    BY <2>1, <2>2, <2>4 DEF Calls
  <2>9. Effects'
    BY <2>1, <2>2, <2>4 DEF Effects
  <2>. QED
    BY <2>6, <2>7, <2>8, <2>9
<1>. QED
  BY <1>1, <1>2, <1>3, <1>4 DEF Integrator

\* DispatchHook, as the worker sees it.
LEMMA HookStep == IInv /\ DispatchHook => IInv'
<1>. SUFFICES ASSUME IInv, DispatchHook PROVE IInv'
  OBVIOUS
<1>. USE DEF IInv
<1>0. charge \in Charges
  BY DEF TypeOK, SchedulingTypeOK
<1>1. CASE AttemptHook
  <2>1. /\ activity = "DispatchHook" /\ ~waiting /\ waiting'
        /\ UNCHANGED <<activity, charge, worker, gateway, seen, handled, excused, recorded, settled>>
    BY <1>1 DEF AttemptHook, Attempt
  <2>2. waiting' \in BOOLEAN /\ attempts' \in 0..ChargeAttempts
    BY <1>1, AttemptsAssumption DEF AttemptHook, Attempt, TypeOK, SchedulingTypeOK
  <2>. DEFINE ev == PaymentEvent
  <2>3. PICK r \in Slots : requests' = [requests EXCEPT ![r] =
                               [event |-> ev, at |-> "sent", awaited |-> TRUE]]
    BY <1>1 DEF AttemptHook
  <2>4. /\ ev.id = charge
        /\ ev.type = IF told[charge] = "paid" THEN "PaymentOK" ELSE "PaymentFailed"
        /\ ev \in Events
    BY <1>0 DEF PaymentEvent, PaymentType, Events
  <2>. HIDE DEF ev
  <2>5. requests' \in [Slots -> [event: Events, at: {"none", "sent", "checked"}, awaited: BOOLEAN]]
    BY <2>3, <2>4 DEF TypeOK, IntegratorTypeOK
  <2>6. /\ requests'[r].event = ev /\ requests'[r].at = "sent" /\ requests'[r].awaited
        /\ \A q \in Slots : q # r => requests'[q] = requests[q]
    BY <2>3 DEF TypeOK, IntegratorTypeOK
  <2>7. SchedulingTypeOK'
    BY <2>1, <2>2 DEF TypeOK, SchedulingTypeOK
  <2>8. TypeOK'
    BY <2>1, <2>5, <2>7 DEF TypeOK, WorkerTypeOK, GatewayTypeOK, IntegratorTypeOK, worker, gateway
  <2>9. InTurn' /\ Indexed'
    BY <2>1 DEF InTurn, Ended, Indexed, worker, gateway
  <2>10. Money'
    BY <2>1 DEF Money, gateway
  <2>11. \A q \in Slots : ~requests[q].awaited
    BY <2>1 DEF Calls
  <2>12. told[charge] # "nothing"
    BY <2>1 DEF InTurn
  <2>13. Calls'
    BY <2>1, <2>4, <2>6, <2>11, <2>12 DEF Calls, gateway
  <2>14. Effects'
    BY <2>1, <2>6 DEF Effects
  <2>. QED
    BY <2>8, <2>9, <2>10, <2>13, <2>14
<1>2. CASE HookTimesOut
  <2>1. /\ activity = "DispatchHook" /\ waiting /\ HookFails("timeout")
        /\ UNCHANGED <<worker, gateway, seen, handled, excused, recorded>>
    BY <1>2 DEF HookTimesOut
  <2>2. TryAgain /\ UNCHANGED settled
    BY <2>1 DEF HookFails, GivesUp, NonRetryable, Exhausted
  <2>3. /\ InTurn' /\ Money'
        /\ activity' \in {"ChargePayment", "DispatchHook", "paid", "exhausted"}
        /\ charge' \in Charges /\ attempts' \in 0..ChargeAttempts /\ waiting' = FALSE
    BY <2>1, <2>2, ScheduleAfterHook
  <2>4. waiting' \in BOOLEAN
    BY <2>3
  <2>5. requests' \in [Slots -> [event: Events, at: {"none", "sent", "checked"}, awaited: BOOLEAN]]
    BY <1>2 DEF HookTimesOut, Abandoned, TypeOK, IntegratorTypeOK
  <2>6. \A q \in Slots : /\ requests'[q].at = requests[q].at
                         /\ requests'[q].event = requests[q].event
                         /\ ~requests'[q].awaited
    BY <1>2 DEF HookTimesOut, Abandoned, TypeOK, IntegratorTypeOK
  <2>7. SchedulingTypeOK'
    BY <2>3, <2>4 DEF SchedulingTypeOK
  <2>8. TypeOK'
    BY <2>1, <2>2, <2>5, <2>7 DEF TypeOK, WorkerTypeOK, GatewayTypeOK, IntegratorTypeOK, worker, gateway
  <2>9. Calls'
    BY <2>1, <2>6, CallsWithdrawn DEF gateway
  <2>10. Effects' /\ Indexed'
    BY <2>1, <2>2, <2>6 DEF Effects, Indexed, worker
  <2>. QED
    BY <2>3, <2>8, <2>9, <2>10
<1>3. ASSUME NEW r \in Slots, LoseRequest(r) PROVE IInv'
  <2>1. /\ requests[r].at = "sent" /\ Answer(r, "ok", FALSE)
        /\ UNCHANGED <<worker, scheduling, gateway, seen, handled, excused, recorded, settled>>
    BY <1>3 DEF LoseRequest, Answer
  <2>2. /\ requests' = [requests EXCEPT ![r] = NoRequest]
        /\ requests' \in [Slots -> [event: Events, at: {"none", "sent", "checked"}, awaited: BOOLEAN]]
        /\ SchedulingTypeOK'
        /\ InTurn' /\ Money' /\ Calls'
    BY <2>1, Answered
  <2>3. TypeOK'
    BY <2>1, <2>2 DEF TypeOK, WorkerTypeOK, GatewayTypeOK, IntegratorTypeOK, worker, gateway
  <2>4. \A q \in Slots : requests'[q].at = "none" \/ requests'[q] = requests[q]
    BY <2>2 DEF NoRequest, TypeOK, IntegratorTypeOK
  <2>5. Effects' /\ Indexed'
    BY <2>1, <2>2, <2>4 DEF Effects, Indexed, worker
  <2>. QED
    BY <2>2, <2>3, <2>5
<1>. QED
  BY <1>1, <1>2, <1>3 DEF DispatchHook

-----------------------------------------------------------------------------
(* Theorems *)

\* The invariant holds of every reachable state.
THEOREM Invariance == Spec => []IInv
<1>1. Init => IInv
  BY InitIInv
<1>2. IInv /\ [Next]_vars => IInv'
  <2>. SUFFICES ASSUME IInv, [Next]_vars PROVE IInv'
    OBVIOUS
  <2>1. CASE Next
    BY <2>1, WorkerStep, ChargeStep, RecordStep, HookStep, IntegratorStep DEF Next
  <2>2. CASE UNCHANGED vars
    BY <2>2 DEF vars, worker, scheduling, gateway, integrator, IInv, TypeOK, WorkerTypeOK,
         SchedulingTypeOK, GatewayTypeOK, IntegratorTypeOK, InTurn, Ended, Money, Calls,
         Effects, Indexed
  <2>. QED
    BY <2>1, <2>2
<1>. QED
  BY <1>1, <1>2, PTL DEF Spec

\* Every variable keeps its type.
THEOREM TypeCorrect == Spec => []TypeOK
<1>1. IInv => TypeOK
  BY DEF IInv
<1>. QED
  BY <1>1, Invariance, PTL

\* A customer pays for an interval again only if an answer of the gateway was
\* lost, and an interval is taken for paid only if it is (Charge, Dun).
THEOREM PaymentsAccounted == Spec => []MoneyAccountedFor
<1>1. IInv => MoneyAccountedFor
  <2>. SUFFICES ASSUME IInv PROVE MoneyAccountedFor
    OBVIOUS
  <2>1. PaidMeansTaken
    BY DEF IInv, Money, PaidMeansTaken
  <2>2. ASSUME NEW m \in taken, NEW n \in taken, m < n PROVE m \in lost
    <3>1. m \in Charges /\ n \in Charges /\ n <= charge /\ charge \in Charges
      BY DEF IInv, Money, TypeOK, GatewayTypeOK, SchedulingTypeOK
    <3>2. m < charge
      BY <2>2, <3>1, ChargeNumbers
    <3>. QED
      BY <3>1, <3>2 DEF IInv, InTurn, Money
  <2>. QED
    BY <2>1, <2>2 DEF MoneyAccountedFor, PaidOnceUnlessAnswersLost
<1>. QED
  BY <1>1, Invariance, PTL

\* An event takes effect again only after an overlap or a restart (maybeFail).
THEOREM HandledOnce == Spec => []HandledOnceUnlessOverlapped
<1>1. IInv => HandledOnceUnlessOverlapped
  BY DEF IInv, Effects, HandledOnceUnlessOverlapped
<1>. QED
  BY <1>1, Invariance, PTL

\* What the workflow takes for delivered has taken effect, and no call under way
\* contradicts what it knows (hookID, mapHookError, acknowledgements).
THEOREM DeliveriesHandled == Spec => []DeliveredMeansHandled
<1>1. IInv => DeliveredMeansHandled
  BY DEF IInv, Effects, Calls, DeliveredMeansHandled
<1>. QED
  BY <1>1, Invariance, PTL

\* Hooks are never skipped (HookRetry).
THEOREM HooksReported == Spec => []NoHookSkipped
<1>1. IInv => NoHookSkipped
  BY DEF IInv, InTurn, TypeOK, NoHookSkipped
<1>. QED
  BY <1>1, Invariance, PTL

\* Nothing is recorded without the index (main of cmd/worker).
THEOREM IndexFirst == Spec => []RecordedUnderIndex
<1>1. IInv => RecordedUnderIndex
  BY DEF IInv, Indexed, RecordedUnderIndex
<1>. QED
  BY <1>1, Invariance, PTL

-----------------------------------------------------------------------------
(* The refinement of Collection *)

\* The charges before this one were declined, and this one came to what the
\* workflow was told.
LEMMA ToldInTurn ==
    ASSUME IInv
    PROVE  /\ charge \in Charges /\ charge \in Nat
           /\ Told("failed") = 0..(charge - 1) \cup {n \in {charge} : told[n] = "failed"}
           /\ Told("paid") = {n \in {charge} : told[n] = "paid"}
<1>1. charge \in Charges /\ charge \in Nat
  BY ChargeNumbers DEF IInv, TypeOK, SchedulingTypeOK
<1>2. \A n \in Charges : /\ n < charge => told[n] = "failed"
                         /\ n > charge => told[n] = "nothing"
  BY DEF IInv, InTurn
<1>3. \A n : n \in 0..(charge - 1) <=> n \in Charges /\ n < charge
  BY <1>1, AttemptsAssumption DEF Charges
<1>4. \A n \in Charges : n < charge \/ n = charge \/ n > charge
  BY <1>1, ChargeNumbers
<1>. QED
  BY <1>1, <1>2, <1>3, <1>4 DEF Told

\* What a step is to the workflow: a charge ends, an event is recorded, a hook
\* ends, or nothing it knows of.
LEMMA WorkflowSteps ==
    ASSUME IInv, [Next]_vars
    PROVE  \/ UNCHANGED <<activity, charge, told>>
           \/ /\ activity = "ChargePayment"
              /\ \E outcome \in {"paid", "failed"} : ChargeEnds(outcome)
           \/ RecordBillingEvent
           \/ /\ activity = "DispatchHook" /\ UNCHANGED told
              /\ \E outcome : HookEnds(outcome)
<1>. USE DEF scheduling, gateway
<1>1. CASE WorkerProcess
  BY <1>1 DEF WorkerProcess
<1>2. CASE ChargePayment
  <2>1. ASSUME NEW error, ChargeFails(error)
        PROVE  UNCHANGED <<activity, charge, told>> \/ ChargeEnds("failed")
    BY <2>1 DEF ChargeFails, TryAgain
  <2>2. CASE AttemptCharge
    BY <2>2 DEF AttemptCharge, Attempt
  <2>3. ASSUME NEW e \in executions, NEW reported \in BOOLEAN, PaymentTaken(e, reported)
        PROVE  \/ UNCHANGED <<activity, charge, told>>
               \/ activity = "ChargePayment" /\ ChargeEnds("paid")
    BY <2>3 DEF PaymentTaken, IInv, Money
  <2>4. ASSUME NEW e \in executions, NEW error \in {"declined", "transient"},
               PaymentRefused(e, error)
        PROVE  \/ UNCHANGED <<activity, charge, told>>
               \/ activity = "ChargePayment" /\ ChargeEnds("failed")
    BY <2>1, <2>4 DEF PaymentRefused, IInv, Money
  <2>5. CASE ChargeTimesOut
    BY <2>1, <2>5 DEF ChargeTimesOut
  <2>. QED
    BY <1>2, <2>2, <2>3, <2>4, <2>5 DEF ChargePayment
<1>3. CASE RecordBillingEvent
  BY <1>3
<1>4. CASE DispatchHook
  BY <1>4 DEF DispatchHook, AttemptHook, Attempt, HookTimesOut, HookFails, GivesUp,
     NonRetryable, Exhausted, TryAgain, LoseRequest
<1>5. CASE Integrator
  <2>1. ASSUME NEW r \in Slots, NEW answer, NEW reported \in BOOLEAN,
               Answer(r, answer, reported), UNCHANGED gateway
        PROVE  \/ UNCHANGED <<activity, charge, told>>
               \/ /\ activity = "DispatchHook" /\ UNCHANGED told
                  /\ \E outcome : HookEnds(outcome)
    <3>1. CASE ~reported
      BY <2>1, <3>1 DEF Answer
    <3>2. CASE reported
      <4>1. activity = "DispatchHook"
        BY <2>1, <3>2 DEF Answer, IInv, Calls
      <4>. QED
        BY <2>1, <3>2, <4>1 DEF Answer, HookFails, TryAgain
    <3>. QED
      BY <2>1, <3>1, <3>2
  <2>2. ASSUME NEW r \in Slots, NEW reported \in BOOLEAN, Check(r, reported)
        PROVE  \/ UNCHANGED <<activity, charge, told>>
               \/ Answer(r, "ok", reported) /\ UNCHANGED gateway
    BY <2>2 DEF Check
  <2>. QED
    BY <1>5, <2>1, <2>2 DEF Integrator, Handle, RefuseEvent, IntegratorRestarts
<1>6. CASE UNCHANGED vars
  BY <1>6 DEF vars
<1>. QED
  BY <1>1, <1>2, <1>3, <1>4, <1>5, <1>6 DEF Next

\* Every step is one of Collection's, or none.
LEMMA CollectsStepByStep ==
    ASSUME IInv, [Next]_vars
    PROVE  [Collected!Next]_(Collected!collection)
<1>. USE DEF CollectionStep
<1>1. /\ charge \in Charges /\ charge \in Nat
      /\ Told("failed") = 0..(charge - 1) \cup {n \in {charge} : told[n] = "failed"}
      /\ Told("paid") = {n \in {charge} : told[n] = "paid"}
  BY ToldInTurn
<1>2. charge <= DunningMaxAttempts /\ DunningMaxAttempts \in Nat
  BY <1>1, ChargeNumbers, AttemptsAssumption
<1>3. activity = "ChargePayment" <=> told[charge] = "nothing"
  BY DEF IInv, InTurn
<1>4. told \in [Charges -> {"nothing", "paid", "failed"}]
  BY DEF IInv, TypeOK, GatewayTypeOK
<1>5. CASE UNCHANGED <<activity, charge, told>>
  BY <1>5 DEF Told, Collected!collection
<1>6. ASSUME activity = "ChargePayment", NEW outcome \in {"paid", "failed"}, ChargeEnds(outcome)
      PROVE  Collected!Charge
  <2>1. /\ activity' = "RecordBillingEvent"
        /\ \A n \in Charges : told'[n] = IF n = charge THEN outcome ELSE told[n]
    BY <1>4, <1>6 DEF ChargeEnds, GoOn
  <2>2. Told("failed") = 0..(charge - 1) /\ Told("paid") = {}
    BY <1>1, <1>3, <1>6
  <2>3. CASE outcome = "paid"
    <3>1. Told("paid")' = {charge} /\ Told("failed")' = Told("failed")
      BY <1>1, <1>3, <1>6, <2>1, <2>2, <2>3 DEF Told
    <3>. QED
      BY <1>1, <1>2, <1>6, <2>1, <2>2, <3>1 DEF Collected!Charge
  <2>4. CASE outcome = "failed"
    <3>1. Told("failed")' = Told("failed") \cup {charge} /\ Told("paid")' = Told("paid")
      BY <1>1, <1>3, <1>6, <2>1, <2>2, <2>4 DEF Told
    <3>. QED
      BY <1>1, <1>2, <1>6, <2>1, <2>2, <3>1 DEF Collected!Charge
  <2>. QED
    BY <2>3, <2>4
<1>7. ASSUME RecordBillingEvent PROVE Collected!Record
  BY <1>7 DEF RecordBillingEvent, GoOn, gateway, Told, Collected!Record
<1>8. ASSUME activity = "DispatchHook", UNCHANGED told, NEW outcome, HookEnds(outcome)
      PROVE  Collected!Notify
  <2>1. UNCHANGED <<Told("failed"), Told("paid")>>
    BY <1>8 DEF Told
  <2>2. told[charge] \in {"paid", "failed"}
    BY <1>1, <1>3, <1>4, <1>8
  <2>3. CASE told[charge] = "paid"
    <3>1. activity' = "paid" /\ Told("paid") # {}
      BY <1>1, <1>8, <2>3 DEF HookEnds, GoOn
    <3>. QED
      BY <1>8, <2>1, <3>1 DEF Collected!Notify
  <2>4. CASE told[charge] = "failed"
    <3>1. Told("paid") = {} /\ Told("failed") = 0..charge
      <4>1. Told("paid") = {} /\ Told("failed") = 0..(charge - 1) \cup {charge}
        BY <1>1, <2>4
      <4>2. 0..(charge - 1) \cup {charge} = 0..charge
        BY <1>1
      <4>. QED
        BY <4>1, <4>2
    <3>2. charge = DunningMaxAttempts <=> Told("failed") = 0..DunningMaxAttempts
      BY <1>1, <1>2, <3>1
    <3>3. IF charge < DunningMaxAttempts THEN activity' = "ChargePayment"
          ELSE activity' = "exhausted"
      BY <1>8, <2>4 DEF HookEnds, GoOn
    <3>. QED
      BY <1>1, <1>2, <1>8, <2>1, <3>1, <3>2, <3>3 DEF Collected!Notify
  <2>. QED
    BY <2>2, <2>3, <2>4
<1>. QED
  BY <1>5, <1>6, <1>7, <1>8, WorkflowSteps DEF Collected!Next

\* The activities, with all that is lost, late and repeated, collect the payment
\* charge by charge, as Collection says and as the workflow takes for granted.
THEOREM ActivitiesCollectInTurn == Spec => CollectsInTurn
<1>1. Init => Collected!Init
  BY AttemptsAssumption DEF Init, Collected!Init, Collected!Begin, CollectionStep, Told
<1>2. IInv /\ [Next]_vars => [Collected!Next]_(Collected!collection)
  BY CollectsStepByStep
<1>. QED
  BY <1>1, <1>2, Invariance, PTL DEF Spec, CollectsInTurn, Collected!Spec

=============================================================================
