-------------------------- MODULE ActivityDelivery --------------------------
(***************************************************************************)
(* The charges of one billing interval, attempt by attempt: Temporal hands *)
(* the activities of Charge (charge.go) to a worker that may crash, the    *)
(* worker asks the payment gateway (activity_payment.go) and dispatches    *)
(* the payment hook (activity_hook.go, integration/client.go) to an        *)
(* integrator that de-duplicates events (cmd/mock-integration). Answers    *)
(* are lost and come late; attempts time out and are repeated.             *)
(*                                                                         *)
(* Charge 0 is the renewal's, charge n the n-th dunning attempt's: each    *)
(* has a reference, and an event ID, of its own. The recording of billing  *)
(* events has a module of its own, BillingHistory.                         *)
(***************************************************************************)
EXTENDS Integers, Sequences, FiniteSets

CONSTANTS
    DunningMaxAttempts, \* of the plan
    ChargeAttempts,     \* attempts of ChargePayment, 5 in the code
    MaxCalls            \* bound: the calls that may be under way to the integrator

ASSUME AttemptsAssumption == DunningMaxAttempts \in Nat /\ ChargeAttempts \in Nat \ {0}
ASSUME CallsAssumption == MaxCalls \in Nat

Charges == 0..DunningMaxAttempts
Slots   == 1..MaxCalls

\* main of cmd/worker, up to Run. What comes before the index fails as it does.
WorkerSteps   == <<"reference_unique", "temporal">>
WorkerDurable == {"reference_unique"}

VARIABLES
    workerStage, workerPrepared, \* the process
    activity,   \* the activity that Charge waits for, or how the interval ended
    charge,     \* which charge it belongs to
    attempts,   \* of the activity, up to ChargeAttempts
    waiting,    \* is an attempt under way, as far as Temporal knows?
    executions, \* what the worker executes of ChargePayment, awaited or not
    told,       \* what the workflow was told of each charge
    recorded,   \* charges whose event the worker tried to store
    requests,   \* calls of the integrator: one or none for each slot
    seen,       \* event IDs in the integrator's memory
    \* history:
    taken,      \* charges that the gateway has taken
    lost,       \* those of them of which some success was not reported
    settled,    \* what became of each hook
    handled,    \* how often each event took effect, up to twice
    excused     \* events found unseen while another call was to mark them, or
                \* seen by an integrator that then restarted

Worker == INSTANCE Process WITH
    Steps <- WorkerSteps, Durable <- WorkerDurable,
    stage <- workerStage, prepared <- workerPrepared

worker     == <<workerStage, workerPrepared>>
scheduling == <<activity, charge, attempts, waiting>>
gateway    == <<executions, told, taken, lost>>
integrator == <<requests, seen, handled, excused>>
vars == <<worker, scheduling, gateway, integrator, recorded, settled>>

-----------------------------------------------------------------------------
(* Retry policies *)

\* The errors that no policy retries.
NonRetryable == {"declined", "terminal"}

\* Mutant: a policy without a maximum.
NeverExhausted == FALSE

\* ChargePaymentRetry ends; HookRetry has no maximum.
Exhausted == activity = "ChargePayment" /\ attempts = ChargeAttempts

\* Mutant: HookRetry ends as ChargePaymentRetry does.
GivesUpLikeCharge(error) == error \in NonRetryable \/ attempts = ChargeAttempts

GivesUp(error) == error \in NonRetryable \/ Exhausted

\* Temporal hands the worker another attempt.
Attempt(name) ==
    /\ Worker!Serving
    /\ activity = name /\ ~waiting
    /\ waiting' = TRUE
    /\ attempts' = IF attempts < ChargeAttempts THEN attempts + 1 ELSE attempts
    /\ UNCHANGED <<activity, charge>>

\* The workflow goes on to an activity, of this charge or the next.
GoOn(name, n) == activity' = name /\ charge' = n /\ attempts' = 0 /\ waiting' = FALSE

TryAgain == waiting' = FALSE /\ UNCHANGED <<activity, charge, attempts>>

-----------------------------------------------------------------------------
(* ChargePayment *)

AttemptCharge ==
    /\ Attempt("ChargePayment")
    /\ executions' = executions \cup {[charge |-> charge, awaited |-> TRUE]}
    /\ UNCHANGED <<worker, told, taken, lost, integrator, recorded, settled>>

\* Mutant: an error of RecordBillingEvent is returned for the charge's.
ChargeEndsUnrecorded(outcome) ==
    /\ \E error \in BOOLEAN : told' = [told EXCEPT ![charge] = IF error THEN "failed" ELSE outcome]
    /\ GoOn("RecordBillingEvent", charge)

\* The outcome that Charge acts on, and returns, is ChargePayment's.
ChargeEnds(outcome) ==
    /\ told' = [told EXCEPT ![charge] = outcome]
    /\ GoOn("RecordBillingEvent", charge)

ChargeFails(error) ==
    IF GivesUp(error) THEN ChargeEnds("failed") ELSE TryAgain /\ UNCHANGED told

\* The gateway takes the money; the worker reports it if somebody waits for it,
\* and may fail to.
PaymentTaken(e, reported) ==
    /\ e \in executions
    /\ reported => e.awaited
    /\ executions' = executions \ {e}
    /\ taken' = taken \cup {e.charge}
    /\ IF reported THEN ChargeEnds("paid") /\ UNCHANGED lost
       ELSE lost' = lost \cup {e.charge} /\ UNCHANGED <<scheduling, told>>
    /\ UNCHANGED <<worker, integrator, recorded, settled>>

\* It declines, or fails for now. No answer at all is as good as a late one.
PaymentRefused(e, error) ==
    /\ e \in executions /\ e.awaited
    /\ executions' = executions \ {e}
    /\ ChargeFails(error)
    /\ UNCHANGED <<worker, taken, lost, integrator, recorded, settled>>

\* StartToCloseTimeout: the worker may be executing the attempt all the same.
ChargeTimesOut ==
    /\ activity = "ChargePayment" /\ waiting
    /\ executions' = {[e EXCEPT !.awaited = FALSE] : e \in executions}
    /\ ChargeFails("timeout")
    /\ UNCHANGED <<worker, taken, lost, integrator, recorded, settled>>

\* The activity ends, well or badly.
RecordBillingEvent ==
    /\ Worker!Serving
    /\ activity = "RecordBillingEvent"
    /\ recorded' = recorded \cup {charge}
    /\ GoOn("DispatchHook", charge)
    /\ UNCHANGED <<worker, gateway, integrator, settled>>

-----------------------------------------------------------------------------
(* DispatchHook *)

PaymentType == IF told[charge] = "paid" THEN "PaymentOK" ELSE "PaymentFailed"

\* Mutant: the dunning attempt is left out of the event's ID.
EventOfInterval == [id |-> 0, type |-> PaymentType]

\* Which event it is, by emitPayment and hookID, and what it says. Nothing here
\* depends on what its payload holds.
PaymentEvent == [id |-> charge, type |-> PaymentType]

Nothing   == [id |-> 0, type |-> "PaymentOK"]
NoRequest == [event |-> Nothing, at |-> "none", awaited |-> FALSE]

\* The worker calls the integrator. The connection to its endpoint is made for
\* the first call, under a mutex, and is kept.
AttemptHook ==
    /\ Attempt("DispatchHook")
    /\ \E r \in Slots :
           /\ requests[r] = NoRequest /\ \A q \in 1..(r - 1) : requests[q] # NoRequest
           /\ requests' = [requests EXCEPT ![r] =
                  [event |-> PaymentEvent, at |-> "sent", awaited |-> TRUE]]
    /\ UNCHANGED <<worker, gateway, seen, handled, excused, recorded, settled>>

\* Mutant: the last dunning attempt is left out.
HookEndsEarly(outcome) ==
    /\ settled' = [settled EXCEPT ![charge] = outcome]
    /\ IF told[charge] = "paid" THEN GoOn("paid", charge)
       ELSE IF charge + 1 < DunningMaxAttempts THEN GoOn("ChargePayment", charge + 1)
       ELSE GoOn("exhausted", charge)

\* Charge returns to Dun, which goes on to the next attempt if there is one.
HookEnds(outcome) ==
    /\ settled' = [settled EXCEPT ![charge] = outcome]
    /\ IF told[charge] = "paid" THEN GoOn("paid", charge)
       ELSE IF charge < DunningMaxAttempts THEN GoOn("ChargePayment", charge + 1)
       ELSE GoOn("exhausted", charge)

HookFails(error) ==
    IF GivesUp(error)
    THEN HookEnds(IF error = "terminal" THEN "rejected" ELSE "undelivered")
    ELSE TryAgain /\ UNCHANGED settled

\* The integrator answers. The worker reports it, through mapHookError, if
\* somebody waits for it and it is not lost on the way.
Answer(r, answer, reported) ==
    /\ reported => requests[r].awaited
    /\ requests' = [requests EXCEPT ![r] = NoRequest]
    /\ CASE ~reported -> UNCHANGED <<scheduling, settled>>
         [] reported /\ answer = "ok" -> HookEnds("delivered")
         [] reported /\ answer # "ok" -> HookFails(answer)

\* Mutant: the ID is marked before it is known that the event is handled.
CheckAndMark(r, reported) ==
    /\ requests[r].at = "sent"
    /\ IF requests[r].event.id \in seen THEN Answer(r, "ok", reported)
       ELSE /\ requests' = [requests EXCEPT ![r].at = "checked"]
            /\ UNCHANGED <<scheduling, settled>>
    /\ seen' = seen \cup {requests[r].event.id}
    /\ UNCHANGED <<worker, gateway, handled, excused, recorded>>

\* The first critical section of maybeFail: an event that was seen is
\* acknowledged at once.
Check(r, reported) ==
    LET id == requests[r].event.id IN
    /\ requests[r].at = "sent"
    /\ IF id \in seen THEN Answer(r, "ok", reported) /\ UNCHANGED excused
       ELSE /\ requests' = [requests EXCEPT ![r].at = "checked"]
            /\ excused' = IF \E q \in Slots : requests[q].at = "checked" /\ requests[q].event.id = id
                          THEN excused \cup {id} ELSE excused
            /\ UNCHANGED <<scheduling, settled>>
    /\ UNCHANGED <<worker, gateway, seen, handled, recorded>>

\* The integrator rejects the event for good, or fails for now.
RefuseEvent(r, error, reported) ==
    /\ requests[r].at = "checked"
    /\ Answer(r, error, reported)
    /\ UNCHANGED <<worker, gateway, seen, handled, excused, recorded>>

\* Mutant: the event is not marked.
HandleUnmarked(r, reported) ==
    LET id == requests[r].event.id IN
    /\ requests[r].at = "checked"
    /\ handled' = [handled EXCEPT ![id] = IF @ < 2 THEN @ + 1 ELSE 2]
    /\ Answer(r, "ok", reported)
    /\ UNCHANGED <<worker, gateway, seen, excused, recorded>>

\* The second critical section.
Handle(r, reported) ==
    LET id == requests[r].event.id IN
    /\ requests[r].at = "checked"
    /\ seen' = seen \cup {id}
    /\ handled' = [handled EXCEPT ![id] = IF @ < 2 THEN @ + 1 ELSE 2]
    /\ Answer(r, "ok", reported)
    /\ UNCHANGED <<worker, gateway, excused, recorded>>

\* A call is lost on the way.
LoseRequest(r) ==
    /\ requests[r].at = "sent"
    /\ requests' = [requests EXCEPT ![r] = NoRequest]
    /\ UNCHANGED <<worker, scheduling, gateway, seen, handled, excused, recorded, settled>>

\* Nobody waits for the calls that are under way any more.
Abandoned == [r \in Slots |-> [requests[r] EXCEPT !.awaited = FALSE]]

HookTimesOut ==
    /\ activity = "DispatchHook" /\ waiting
    /\ requests' = Abandoned
    /\ HookFails("timeout")
    /\ UNCHANGED <<worker, gateway, seen, handled, excused, recorded>>

\* The integrator restarts: it forgets what it has seen and drops what it was
\* handling, which is to its callers as good as a timeout.
IntegratorRestarts ==
    /\ seen' = {}
    /\ excused' = excused \cup seen
    /\ requests' = [r \in Slots |-> IF requests[r].at = "checked" THEN NoRequest ELSE requests[r]]
    /\ UNCHANGED <<worker, scheduling, gateway, handled, recorded, settled>>

-----------------------------------------------------------------------------
Init ==
    /\ Worker!Init
    /\ activity = "ChargePayment" /\ charge = 0 /\ attempts = 0 /\ waiting = FALSE
    /\ executions = {} /\ taken = {} /\ lost = {} /\ recorded = {}
    /\ told = [n \in Charges |-> "nothing"]
    /\ settled = [n \in Charges |-> "nothing"]
    /\ requests = [r \in Slots |-> NoRequest]
    /\ seen = {} /\ excused = {}
    /\ handled = [n \in Charges |-> 0]

\* A crash ends whatever the worker was executing; what it has sent is on its
\* way, and Temporal learns of it by timeouts only.
WorkerProcess ==
    \/ /\ Worker!Start \/ Worker!Succeed \/ Worker!Fail
       /\ UNCHANGED <<scheduling, gateway, integrator, recorded, settled>>
    \/ /\ Worker!Crash
       /\ executions' = {}
       /\ requests' = Abandoned
       /\ UNCHANGED <<scheduling, told, taken, lost, seen, handled, excused, recorded, settled>>

ChargePayment ==
    \/ AttemptCharge
    \/ \E e \in executions :
           \/ \E reported \in BOOLEAN : PaymentTaken(e, reported)
           \/ \E error \in {"declined", "transient"} : PaymentRefused(e, error)
    \/ ChargeTimesOut

DispatchHook == AttemptHook \/ HookTimesOut \/ \E r \in Slots : LoseRequest(r)

Integrator ==
    \/ \E r \in Slots, reported \in BOOLEAN :
           \/ Check(r, reported) \/ Handle(r, reported)
           \/ \E error \in {"terminal", "transient"} : RefuseEvent(r, error, reported)
    \/ IntegratorRestarts

Ended == activity \in {"paid", "exhausted"}

Next == WorkerProcess \/ ChargePayment \/ RecordBillingEvent \/ DispatchHook \/ Integrator

Spec == Init /\ [][Next]_vars

-----------------------------------------------------------------------------
(* Safety *)

Events == [id: Charges, type: {"PaymentOK", "PaymentFailed"}]

WorkerTypeOK ==
    workerStage \in 0..(Len(WorkerSteps) + 1) /\ workerPrepared \subseteq WorkerDurable
SchedulingTypeOK ==
    /\ activity \in {"ChargePayment", "RecordBillingEvent", "DispatchHook", "paid", "exhausted"}
    /\ charge \in Charges /\ attempts \in 0..ChargeAttempts /\ waiting \in BOOLEAN
GatewayTypeOK ==
    /\ executions \subseteq [charge: Charges, awaited: BOOLEAN]
    /\ told \in [Charges -> {"nothing", "paid", "failed"}]
    /\ taken \subseteq Charges /\ lost \subseteq taken
IntegratorTypeOK ==
    /\ requests \in [Slots -> [event: Events, at: {"none", "sent", "checked"}, awaited: BOOLEAN]]
    /\ seen \subseteq Charges /\ excused \subseteq Charges /\ handled \in [Charges -> 0..2]

\* Every variable has its type.
TypeOK ==
    /\ WorkerTypeOK /\ SchedulingTypeOK /\ GatewayTypeOK /\ IntegratorTypeOK
    /\ recorded \subseteq Charges
    /\ settled \in [Charges -> {"nothing", "delivered", "rejected"}]

\* Whatever is retried, times out or crashes, a customer pays twice for an
\* interval only if the first charge was taken and its answer was lost: the
\* next one has another reference (ChargePaymentRetry, Charge, Dun).
PaidOnceUnlessAnswersLost == \A m, n \in taken : m < n => m \in lost

\* The workflow takes a charge for paid only if the gateway has taken it.
PaidMeansTaken == \A n \in Charges : told[n] = "paid" => n \in taken

\* What was taken and what is taken for paid differ by lost answers only.
MoneyAccountedFor == PaidOnceUnlessAnswersLost /\ PaidMeansTaken

\* An event takes effect twice only if two calls overlapped, or the integrator
\* forgot (the two critical sections of maybeFail, its map in memory).
HandledOnceUnlessOverlapped == \A n \in Charges : handled[n] > 1 => n \in excused

\* An event whose delivery the workflow was told of has taken effect, however its
\* calls were lost, overlapped or were repeated, and whoever restarted meanwhile;
\* and one that is under way, however late, says what the workflow knows of that
\* charge (hookID, mapHookError, the acknowledgement of what was seen).
DeliveredMeansHandled ==
    /\ \A n \in Charges : settled[n] = "delivered" => handled[n] > 0
    /\ \A r \in Slots : requests[r].at # "none" =>
           LET e == requests[r].event IN e.type = "PaymentOK" <=> told[e.id] = "paid"

\* "Hooks must eventually deliver": the workflow never goes past one that was
\* neither delivered nor rejected for good (HookRetry, mapHookError).
NoHookSkipped ==
    \A n \in Charges : n < charge \/ (n = charge /\ Ended)
        => settled[n] \in {"delivered", "rejected"}

\* Billing events are stored under the unique index on their reference only.
RecordedUnderIndex == recorded # {} => "reference_unique" \in workerPrepared

\* How far the collection of the interval's payment has come, for the workflow.
CollectionStep ==
    CASE activity = "ChargePayment" -> "charge"
      [] activity = "RecordBillingEvent" -> "record"
      [] activity = "DispatchHook" -> "notify"
      [] OTHER -> activity

Told(outcome) == {n \in Charges : told[n] = outcome}

Collected == INSTANCE Collection WITH
    step <- CollectionStep, declined <- Told("failed"), accepted <- Told("paid"),
    limit <- DunningMaxAttempts

\* Whatever crashes, is lost, times out or comes late, the workflow's charges are
\* made, recorded and notified one after the other, none once one was accepted,
\* and none is left out (the retry policies, Charge, Dun).
CollectsInTurn == Collected!Spec

-----------------------------------------------------------------------------
(* Liveness: Temporal times attempts out and repeats them, a worker comes up  *)
(* again after a crash, and an integrator that is called for ever answers.    *)

Unaffected == UNCHANGED <<scheduling, gateway, integrator, recorded, settled>>

Fairness ==
    /\ WF_vars(Worker!Start /\ Unaffected)
    /\ \A k \in DOMAIN WorkerSteps : SF_vars(workerStage = k /\ Worker!Succeed /\ Unaffected)
    /\ SF_vars(AttemptCharge \/ RecordBillingEvent \/ AttemptHook)
    /\ WF_vars(ChargeTimesOut \/ HookTimesOut)
    /\ SF_vars(\E r \in Slots : requests[r].awaited /\ Check(r, TRUE))
    /\ SF_vars(\E r \in Slots : requests[r].awaited /\ Handle(r, TRUE))
    /\ WF_vars(\E r \in Slots : ~requests[r].awaited /\ (Check(r, FALSE) \/ Handle(r, FALSE)))

FairSpec == Spec /\ Fairness

\* The charges of an interval come to an end, paid or exhausted.
ChargesEnd == <>Ended

=============================================================================
