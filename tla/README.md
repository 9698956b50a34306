# A verification development of Subflow

Subflow runs subscriptions as durable workflows: each subscription is one Temporal
workflow that trials, activates, charges, duns, cancels and *continues as new* once per
billing period, and tells an integrator about it through hooks. This directory holds TLA+
modules that model its core, configurations that check them with TLC, and theorems about
them that TLAPS checks. Paths below are those of the repository, under `src/`.

## The system and what makes it hard

| Component | State | Operations | Hard because | Correct when |
|---|---|---|---|---|
| Subscription workflow `internal/workflow/{subscription,handlers,charge,input,hook,phase_*}.go` | plan (frozen), period, interval ID, renewal count, phase, counters, cancel flag, context | `Run`: `Trial`, `AwaitActivation`, `Charge`, `Renew`, `Dun`, `Deactivate`, `NextPeriod`; signals `Cancel`, `UpdateContext`; update `Activate`; query `View` | signals arrive at every blocking point, a run ends and another takes over its state, timers and workers may be late | an interval is paid for once, nobody is charged too early, a cancel is final, a paid period is served, each trial, dunning and period ends |
| Activities and retry policies `activity_*.go`, `retry.go` | attempts | `ChargePayment` (at most 5 attempts), `RecordBillingEvent` (at most 20), `DispatchHook` (no limit) | an answer may be lost and the attempt repeated, an attempt that timed out may still be executing | idempotency keys are stable across attempts and fresh across charges; what the workflow is told is what happened |
| Billing history `internal/billing`, `internal/server/billing_events.go` | documents under a unique index on `reference` | `Append`, `List` page by page | late and repeated inserts, appends between two pages, equal times | each event is there once and is listed once |
| Subscription API `internal/server/subscriptions.go` | none of its own; Temporal and Visibility | create (with the per-user limit), cancel, update context, get, list | count and start are two calls, Visibility lags, answers are lost | the limit holds as far as it can be seen, the caller knows what was started |
| Plan API and repository `internal/server/plans.go`, `internal/domain/plan`, `internal/store` | plan documents under a unique index on `code` | create, get, list, delete | optional durations may be negative, and travel as text | a stored plan is the one requested and one the workflow can run |
| Hooks `internal/hook`, integration client `internal/integration` | connections by endpoint | dispatch one event | calls are lost, late and repeated | each hook is told of, under an ID of its own, until it is delivered or rejected for good |
| Mock integrator `cmd/mock-integration` | event IDs seen, in memory | receive an event | check and mark are two critical sections, a restart forgets | an event takes effect once |
| Processes `cmd/api`, `cmd/worker`, `internal/config`, search attributes | where `main` is; indexes and attributes made | start, fail, serve, crash | a step may take effect and fail all the same | nothing is served before what it relies on is there |
| Protocol `api/v1` | | | generated code | |

How they interact: the API starts the workflow and sends `Activate` in one call
(`UpdateWithStartWorkflow`), and later sends signals; the workflow calls its activities, which
call the payment gateway, MongoDB and the integrator; it upserts `SubflowPhase` and
`SubflowPeriodEnd`, which Visibility answers from.

The hazards that follow from this, each at its line and with the properties that would catch
it, are in `PROJECT.json` under `hazards`.

## Modules

| Module | What it is |
|---|---|
| `PlanTerms` | hooks, the terms of a plan, and the arithmetic of the backoff; shared by the workflow and the catalog |
| `Subscription` | the workflow: every phase, wait, activity, signal, update and continue-as-new |
| `SubscriptionProperties` | its type invariant, safety, action and liveness properties, and the inductive invariant |
| `Lifecycle` | the abstract promise: the phase diagram of `README.md` with payment and cancellation |
| `Collection` | the abstract collection of an interval's payment, which both `Subscription` and `ActivityDelivery` implement |
| `Workflows` | what the API takes a workflow for: its phase, its runs, whether it is open, and how it may move |
| `ActivityDelivery` | the charges of one interval attempt by attempt: worker, gateway, integrator, and what is lost between them |
| `BillingHistory` | `Append` with its retries and `List` with its cursors, and their properties |
| `PlanCatalog` | plan requests, documents and messages, and the operations of the plan API over the repository |
| `SubscriptionService` | callers of `CreateSubscription`, the workflows they start, Visibility, and listings over it; on top of `PlanCatalog` and `Workflows` |
| `Process` | the life of a process, instantiated for the API in `SubscriptionService` and for the worker in `ActivityDelivery` |
| `SubscriptionProofs` | the type and the inductive invariant of the workflow, and what follows from them |
| `SubscriptionRefinement` | the workflow implements `Lifecycle`, and moves as `Workflows` says |
| `SubscriptionLedgerProofs` | the workflow's charges: their numbers, the counters, the calendar, the keys |
| `SubscriptionSignalsProofs` | cancels, in the trial and after, and context updates |
| `SubscriptionCollectionProofs` | the workflow implements `Collection` |
| `ActivityDeliveryProofs`, `BillingHistoryProofs`, `SubscriptionServiceProofs` | theorems about the modules they are named for |
| `MCSubscription`, `MCBillingHistory`, `MCSubscriptionService`, `MCActivityDelivery` | plans, events, requests and queries for TLC |

### How `Subscription` corresponds to the code

`at` is where the root coroutine (`Run`, or the `Activate` handler it waits for) stands:
`start` and `nextPeriod` are the ends of a run, the name of a hook is the dispatch of that hook,
`charging` and `recording` are the two activities of `Charge`, and the rest are timers. An action
takes the root from one such point to the next, with everything the code does in between: the
branch taken, the phase transition *and* its upsert, the counters, the flags.

* **Cooperative scheduling.** The Temporal SDK runs a workflow's coroutines one at a time, and the
  two signal coroutines (`handlers.go:56`) get their turn only when the root yields. `Blocks` says
  where it does: not for a hook the plan does not enable, nor for a timer that is already due.
  `OnCancel` and `OnContextUpdate` are enabled only where `Yielded` holds, so in a task
  in which a signal and the timer of the root have both arrived, either order is possible, and a
  root that does not yield never sees the signal.
* **Time** is `now`, the `workflow.Now` of the root's latest step. A step may happen at any of the
  `Moments`: at once if the root does not block, else from the earliest possible moment to `MaxDelay`
  after the deadline (a late worker, a slow activity). Only the root's steps let time pass;
  what time it is when a signal is handled makes no difference to the code.
* **`AwaitWithTimeout`** tests its condition before it arms its timer and returns at once for a
  timeout that is not positive; `Wakes` and `WaitFor` say so.
* **Activities** are one step that ends, well or badly; `ActivityDelivery` opens that step. A charge that fails after its five attempts
  and one that is declined are the same to the workflow; the result of `RecordBillingEvent` is
  dropped by the code, so only its end matters here.
* **The update.** An update without a handler is rejected when the first workflow task blocks:
  `Settle`. The constant `BuffersUpdates` says whether Temporal keeps such an update instead, and
  `Resends` whether anybody sends it again, as the repository's own test does
  (`subscription_test.go:133`).
* **Continue-as-new** (`NextPeriod`) hands `NextBillingPeriod`'s input to a new run. What is
  not in the input starts afresh (phase, attempts, counters), pending signals are gone, and `SubflowPhase`
  keeps its value, for search attributes carry over and `NewSubscription` does not upsert.
* **History variables.** `charges` is what the gateway has answered, ever; `used` the
  idempotency keys of the charges and hooks that completed; `contextSent` the latest update accepted.
  The workflow does not read them.
* **Numbers.** Dunning's backoff is a product of two `time.Duration`s of `DurationBits` bits (64 in the code) and wraps around as
  in Go (`BackoffOf`): a wrapped, negative sleep returns at once. The clock does not wrap. `DunningBackoffHonoured` is about the exact
  product, as the comment of `phase_dunning.go:26` has it. A product that does not fit is preceded by sleeps that double, so it takes dunning
  that has gone on, within one period, for a quarter of the range of durations (`Quarter`, 146 years in the code); with the default of 24 hours
  that is the eighteenth attempt, and 99 are valid. Until then each backoff is waited out in full, from then on dunning
  may charge at once; the property and its theorem say exactly that.
* **Data left out.** Amounts, currencies, texts of errors, the contents of hook payloads and of the
  context (one key that takes increasing values).

### How `Lifecycle` relates

Its state is the phase, the cycle, whether the cycle is paid for and whether the workflow has seen a
cancel. The mapping is in `SubscriptionProperties` (`Promise`): `starting` is `start` in the
first period and `active` later on, since nobody outside can tell a renewal that is being charged
for from an active subscription. One edge is the code's and not the diagram's: a first charge that fails
deactivates a subscription that never started.

### How `Collection` relates

`Subscription` takes an activity for one step, and `ActivityDelivery` says what happens behind such a step; `Collection` is what the two
agree on. Its state is the charges of the present interval that were declined and accepted, by number, what comes next, and the last
number that dunning allows. Both models map to it (`Collected`, in `SubscriptionProperties` and in `ActivityDelivery`), the one over all
intervals of a workflow (`Rotate` is continue-as-new), the other over one. That the numbers are used in turn is what makes one `ActivityDelivery` enough for every interval: the
workflow hands its activities the charges 0, 1, 2, ... that `ActivityDelivery` expects, each after the failure of the one before.

### How `Workflows` relates

`SubscriptionService` knows little of a workflow: five fields, and that they move as `Started`, `NextPhases`, `MayRenew` and `MayClose` let them.
What it shows about the limit, the listing and the answers rests on that, so it is a promise of `Subscription` and not an assumption: `Known` is what is
seen of a `Subscription` (in particular, the API knows a first charge has gone through once the phase says so), `AsTheApiTakesIt` says that `Known` starts as `Started` and moves as
`MayBecome`, and the theorem `ApiTakesItRight` that it does. `PhaseAttr`, what Visibility shows of a workflow, is likewise both what
`SubscriptionService` publishes and what `AttributesTellTheView` says `Subscription` upserts.

### How `BillingHistory` corresponds to the code

An event is recorded by an activity with up to `MaxAttempts` attempts. Each attempt is an insert that
MongoDB may execute at once, late or never (`calls`), with an answer that may be lost (`Record`,
`AttemptFails`); an insert refused by the unique index ends well. A client lists page by page: `Find` is
the set of answers MongoDB may give to the sorted, limited query, any order among equal times included, and
`List` is one call with the cursor of the page before. The conversion of the cursor to text and back keeps the
time, so the cursor is the time. Reads that fail change nothing and are left out.

### How `ActivityDelivery` corresponds to the code

It is one interval, from `Renew`'s charge through `Dun`'s, with the sleeps between them left out: `charge` is 0 for the
renewal and *n* for the *n*-th dunning attempt, which is also what tells references and event IDs apart. `activity` is what
`Charge` is waiting for. Temporal (`Attempt`, `TryAgain`, and what they count) hands attempts to a worker while it serves; an attempt
ends with an answer, with an error that `GivesUp` tells from one to retry, or with its `StartToCloseTimeout`, and what it
has started then goes on: `executions` for the gateway, `requests` for the integrator, each `awaited` or not. A
crash of the worker ends its executions; what it has sent is on its way.

The gateway is external. It is assumed idempotent on the reference, which is what the code's references are for: taking the
same charge twice counts once (`taken` is a set). The gateway in the repository is a mock that keeps nothing. Every charge has its hook
(a plan that enables `payment.succeeded` and `payment.failed`); billing events are recorded in one step, for `BillingHistory`
has their attempts. The integrator is `cmd/mock-integration` with its two critical sections `Check` and `Handle`, and
it may refuse in between and restart at any moment. `taken`, `lost`, `settled`, `handled` and `excused` are history.

### How `PlanCatalog` and `SubscriptionService` correspond to the code

A duration in a request, document or message is a text: empty, that of a duration, or one that does not parse. `Valid` is the
conjunction of `buildPlanFromRequest`'s early returns; `PlanToDoc` and `DocToPlan` are the two conversions of
the repository. The unique index on `code` binds `Insert` only once the API's start-up has made it; that plans are created only by an
API that serves is why it always has been (`OneCodeOnePlan`). `GetByCode` has no caller and is left out.

A call of `CreateSubscription` goes through `GetPlanOf`, `CountActiveForUser` (if the plan has a limit), `StartWorkflow` and
`Return`, and may fail between any two of them (`FailCall`: an error, a deadline, a client that went away), which leaves behind what it
had started. A retry is another call. A workflow is known by its phase, its runs and whether its first charge went through;
it moves as `Workflows` says. *Visibility* has an entry for each run, and may answer from anything that run
has published or not know it yet (`Shown`, `Readings`); `blind` and `seen` are history that records
which rivals a count could see, so that `LimitKept` can say exactly when the limit is passed.

Temporal rejects the early `Activate` of a trial (see `stuck_trial`), which the API never reads: its answer is "trialing" either
way.

`ListSubscriptions` is a call to Visibility, filtered by user, plan code and phase, and then a query for each run it has found, by workflow
ID. Between any two of these everything else may happen (`ListWorkflow`, `GetSubscription`, and `listing`, the runs still to
be asked); a query that fails leaves its run out. What answers is the workflow's latest run as it is then, so `ListedHaveGotThere` relates the phase
that was asked for, out of entries as old as can be, to the workflow of that later moment. One page stands for all, since page tokens are Temporal's,
and one listing at a time for many, since listings change nothing that another sees.

`Process` takes a process through its start-up: a step that fails ends the process whether or not it took effect, and
indexes and search attributes, each registered in a step of its own, outlive it.

## Runs

| Run | Question | Expected |
|---|---|---|
| `paid` | Is money right without a trial: one success per interval, never ahead of the calendar, backoffs waited out, fresh keys, honest counters; are cancels heeded (final, and followed by no notice of a renewal), paid periods served, attributes and the context right? | holds |
| `lifecycle` | Does every plan keep to the phase diagram, collect its payments as `Collection` says, and move as the API takes workflows to move; is `Inv` an invariant, is a trial free for whoever stays and for whoever leaves; do dunning, periods and handled cancels come to their end, but for a trial nobody activates? | holds |
| `delivery` | Is what the workflow is told what happened: is a second payment always due to a lost answer, is an acknowledged event handled, once unless calls overlap or the integrator restarts, is no hook passed over, are charges made as `Collection` says whatever is late or lost, and does the interval end? | holds |
| `history` | Is each event in the history once, however its attempts go, and does paging show every event once, newest first, where no two share a time, and come to an end? | holds |
| `api` | Do plans survive the store and fit the workflow, is the limit passed only by who could not see a rival, are callers told the truth, and has each subscription listed under a phase got there when it is asked for its View? | holds |
| the other seven | see *What the code does otherwise* | violated |

**Bounds.** Two renewals (`MaxRenewals`) in `paid`, so that a period that follows a renewal is itself renewed; one elsewhere.
`MaxDelay = 1` lets every timer, task and activity be late by a moment, which is half of the shortest
period: enough for a late root to pass a notice, and, with dunning, the end of the period. `MaxUpdates` is the
number of context updates: two in `paid`, so that two can be out of order. The plans are chosen for the paths they open: `Quiet` has
no endpoint, dunning that outlasts its period, and a backoff of 1 that, in durations of four bits (`DurationBits`, -8 to 7), is 2, 4 and at the
fourth attempt -8 instead of 8: both sides of what `DunningBackoffHonoured` says; `Noisy` enables every hook, each a place where
signals may come in; `Degenerate` has a notice longer than its period and a backoff of -3, which wraps to above zero at the third attempt; `Trialled` and
`SilentTrial` are a trial with all its hooks and one with none. In the history, three events, pages of
one and two, and two attempts per event give late inserts, appends between pages and, with equal times, ties across pages. The default
and the greatest page size, 50 and 200 in the code, are constants, and so are the 20 attempts.

In `api`, two callers and two subscriptions (`MaxSubs`) are what it takes to race; two runs (`MaxRuns`) before it may renew no more let the first of them
renew, so that a closed run and an open one are in Visibility when the second is counted for; two plans (`MaxPlans`), one with a limit and one without, of the same code, let
one be deleted and the other take its place. One has a trial and no limit. Listings ask for `active` and for `canceled` (`Filters`), the phases that can be undone
by a renewal, or by a trial, if runs are mistaken for one another. The requests hold one of each kind that is to be refused. The bounds stop the API in the end, so this run and
its two companions do not check for deadlock. In `delivery`, a renewal and one dunning attempt, two attempts each and two calls (`MaxCalls`) under way to
the integrator at once: enough for a late charge beside a retried one, and for two deliveries of one event between check and mark.

**Fairness.** Temporal redelivers workflow tasks and fires durable timers until they are acted on, and payment
and billing activities end after a bounded number of attempts: weak fairness of the root's steps. A coroutine that has a signal to receive
is run whenever the root yields: weak fairness of the handlers. Hooks are retried without
limit (`retry.go:39`), so `FairSpec` also assumes *an integrator that answers*; `SpecWithoutIntegrator` drops that.
Nobody is taken to send anything: no cancel, no update, and no `Activate`. In `lifecycle` somebody *may* send `Activate` once a trial is over
(`Resends`), so that what follows an activated trial is checked, but there is no fairness for it, for nothing in the repository but a test
does it. A trial may therefore wait for its activation for ever, which is what `stuck_trial` shows of the program as it is deployed, and
`HandledCancelEnds` and `EveryPeriodEnds` say so (`Inactivated`); on plans without a trial they promise an end without reservation. `DunningEnds` needs no such
reservation, for dunning comes after a renewal. For the history's listings, the only assumption is that the client goes on asking.
`ActivityDelivery` says what lies behind this: Temporal times attempts out (weak fairness) and hands out another whenever a worker serves for it
(strong, for the worker may crash in between); a worker that is down is started again, and each of its start-up steps, tried for ever, succeeds some time; and an
integrator that is called again and again some time answers one who waits (strong fairness of `Check` and `Handle`, since a call may be
lost or time out). Calls nobody waits for are executed, and so leave room for others.

## What the code does otherwise

Each of these is a run in which TLC finds a statement of the repository violated.

* `lost_cancel`: a cancel the API has accepted is lost if it is still in the channel
  when the root continues as new. `NextPeriod` does not drain the channels, so context updates are lost in the same way.
* `stuck_trial`: the `Activate` sent at creation finds no handler while the trial runs, is rejected, and the
  workflow then waits in `AwaitActivation` for ever, where not even a cancel ends it.
* `trial_charges`: after a trial the period is still the trial's, so the activated subscription continues as new at
  once and is charged a second time. `NobodyPaysAhead` proves that this takes a trial, and `NobodyPaysTwoAhead` that it
  costs the customer one period in advance and never more.
* `integrator_down`: a renewal waits for hooks that are retried without limit.
* `history_ties`: events of equal time on either side of a page's end are skipped.
* `over_limit`: two creates at once both count before either starts, and both pass a limit of one. `LimitKept`, in `api`, says
  what holds instead.
* `unpaid_active`: a trial below zero is valid, is no trial to the workflow, and is not zero to the API, which then does not
  read the outcome of the activation it waited for: the caller of a declined activation is told "active". The requests of
  `api` have no such trial, and `AnswersAreTrue` assumes there is none (`TrialsAsked`).

Three more are known and have no run of their own.

* Dunning that has lasted long enough charges at once, as *Numbers* above says: no valid plan reaches it in less than 146 years of one period.
* A listing over a Visibility that lags may hold a subscription twice, by a run that has closed and by the present one, for both are asked by workflow ID
  and answered by the present one.
* `TrialCancelIsFree` is about cancels handled before the trial's end, for one handled after it
and before `Activate` does not stop the charge (`phase_activation.go:36` waits for the activation alone), though `CONTEXT.md:66` says that
a cancel during `trialing` deactivates at once.

## Proofs

Everything here holds for every set of plans, requests, callers and users, every number of renewals, attempts, calls, runs and updates, every delay and
every width of durations. The assumptions are those the modules name: plans and requests have the fields of their types, the bounds
are naturals, the switches Boolean, events and queries are well formed and sizes positive. That the plans the API hands to workflows have the type `Plan`, which
the theorems about the workflow assume, is itself part of `CatalogKept`.

| Module | Theorem | Property |
|---|---|---|
| `SubscriptionProofs` | `TypeCorrect` | `TypeOK` |
| | `InvHolds` | `Inv` |
| | `ChargedAtMostOnce` | `OneSuccessfulChargePerInterval` |
| | `BackoffIsHonoured` | `DunningBackoffHonoured` |
| | `PaidPeriodIsServed` | `PaidPeriodServed` |
| | `TrialsAreFree` | `TrialIsFree` |
| | `AttributesAgree` | `AttributesTellTheView` |
| | `CallerIsToldTheTruth` | `CallerLearnsTheOutcome` |
| `SubscriptionRefinement` | `Refinement` | `ImplementsLifecycle` |
| | `ApiTakesItRight` | `AsTheApiTakesIt` |
| `SubscriptionLedgerProofs` | `NumbersHold` | (no two charges of an interval share an attempt) |
| | `CountersTellTheLedger` | `CountersAgree` |
| | `PaidPeriodByPeriod` | (payments: one per period that is over, at most one for the present one) |
| | `NobodyPaysAhead` | `NeverChargedAhead`, for plans without a trial |
| | `NobodyPaysTwoAhead` | (with a trial: at most one period ahead) |
| | `KeysAreFresh` | `KeyIsFresh` |
| `SubscriptionSignalsProofs` | `CancelsAreHeeded` | `CancelIsHeeded` |
| | `LeavingTheTrialIsFree` | `TrialCancelIsFree` |
| | `ContextGrows` | `ContextNeverGoesBack` |
| `SubscriptionCollectionProofs` | `NoAttemptSkipped` | (until paid, the attempts so far are 0 to the present one, all failed) |
| | `WorkflowCollectsInTurn` | `CollectsInTurn` |
| `ActivityDeliveryProofs` | `TypeCorrect` | `TypeOK` |
| | `PaymentsAccounted` | `MoneyAccountedFor` |
| | `HandledOnce` | `HandledOnceUnlessOverlapped` |
| | `DeliveriesHandled` | `DeliveredMeansHandled` |
| | `HooksReported` | `NoHookSkipped` |
| | `IndexFirst` | `RecordedUnderIndex` |
| | `ActivitiesCollectInTurn` | `CollectsInTurn` |
| `BillingHistoryProofs` | `TypeCorrect` | `TypeOK` |
| | `RecordedOnce` | `StoredOnce` |
| | `ListedInOrderOnce` | `PagesInOrder` |
| | `ListedCompletely` | `ListingComplete`, assuming `TimesDiffer` |
| `SubscriptionServiceProofs` | `TypeCorrect` | `TypeOK` |
| | `CatalogKept` | `PlansAreSound` |
| | `OneCode` | `OneCodeOnePlan` |
| | `LimitHolds` | `LimitKept` |
| | `AnswersAreTrue` | `AnswerTellsTheTruth`, assuming `TrialsAsked` |
| | `ListingsGetThere` | `ListedHaveGotThere` |

**The workflow.** None of these properties is inductive: that an interval is charged for once depends on where
the root stands when it charges, which depends on the phase, which depends on how the run began. `Inv` is the
strengthening. Its *control* part goes with the location: which phase (`PhaseFollows`), whether the interval is paid
for (`PaidFollows`), whether dunning is counting (`DunningFollows`), whether a cancel was heard (`CancelFollows`). Its
*ledger* part says that no charge bears an interval still to come, so that a fresh `IntervalID` is
unpaid. Its *clock* part says that the latest charge is not in the future and the trial is over
before the first one. `DunningInTime` adds that a charge made by dunning came at least its exact backoff after the period began. The next backoff, twice as long, then either fits a
duration, and the code's product is the exact one (`WrappedKeeps`), or it does not, and a quarter of the range has passed already. The proof of `NextInv` has one lemma per part, with one step per action: a charge finds its interval unpaid
because `PaidFollows` says so at `charging`; continue-as-new keeps control because `LedgerInOrder` makes the new interval unpaid;
a signal handler disturbs nothing but the cancel flag, and cannot run at `nextPeriod`, where the root does not yield.
`Refinement` uses `Inv` to show that each step is one of `Lifecycle`'s or changes nothing it sees.
`ApiTakesItRight` adds one fact, that a first run which has left its beginning and is still `starting` has no trial (`TrialFirst`), for only then may such a workflow
go straight to `active` or `deactivated`.

**The ledger.** `ChargesNumbered` says that the charges of the present interval bear attempts before the present one, the present one included where it has been
charged for; `Inv` keeps other intervals apart. So each charge is new (`ChargeIsNew`), and adding it to a finite set adds one to its size: that is what lets
`Counted` (the counters are the numbers of charges, less one between a charge and its event) and `PaidInTurn` (as many payments as renewals, and one more while `Paid`) be
inductive. `PeriodsInTime` is the calendar: periods are a cadence long, the first one excepted, and none begins before the one it
follows is over. The two together bound the payments by the time that has passed (`CalendarKept`).

Keys are ordered. A place in `Run` has a *turn*, and within dunning a *round* that goes from the charge to its hook to the
next attempt; `RootMovesOn` says that the root never comes back to a turn and round of its run. `KeysInOrder` says that every key used is of an earlier period, or
of this one and of an earlier turn or round, so the key at hand is none of them.

**Signals.** `LeftTrial` is that nothing has been charged and either the subscription is deactivated or the cancel is in and the
trial has not ended; no step leaves it. `ContextInOrder` is that updates under way increase and are later than what was merged; what a
run loses when it continues as new is the tail.

**Collection.** `AttemptsInTurn` is that, until the interval is paid for, the attempts that failed are exactly 0 up to the present one. With it each charge is
`Collection`'s next, dunning gives up only after the last, and steps elsewhere change nothing `Collection` sees (`AsideIsAside`). For `ActivityDelivery`, `InTurn` of its `IInv` is the counterpart.

**The history.** `FindProperties` and `ListStep` say what one page is, whatever MongoDB chooses among equal times: distinct
documents, newest first, none left out that is newer, and nothing left out by the last page (an injection between finite sets of one
size is onto). The order then follows from `CursorBelowListed`: what was shown is not below the cursor, and a page is strictly below it.
Completeness follows from `Completing`: what was there at the start is listed or strictly below the cursor; this is where times must
differ, and where the code fails if they do not (`history_ties`).

**The activities.** `IInv` of `ActivityDeliveryProofs` says that charges are made in turn (`InTurn`: every earlier one failed and its hook is settled), that the gateway has taken what the
workflow was told it took, and that a failed charge that was taken lost an answer (`Money`); that each call, however late, bears the event of a charge the workflow has
been told of (`Calls`); and that what the integrator has seen has taken effect (`Effects`). A late answer disturbs nothing, for it is not awaited; that a hook is never given up
makes `GivesUp` true for terminal errors alone.

**The API.** `Counts` is the core of `LimitHolds`: where a subscription was not blind, the live ones started before it were among those its
count saw, all distinct, and the count was below the limit. It needs that only what is deactivated is ever shown as deactivated (`Published`), so that a rival that
is seen is counted, and that no subscription comes back to life. `CatalogKept` is the round trip of a duration through text, zero and negative ones included.
`Published` says more: whatever a run has ever published is a phase its workflow has got to, and `HasGotTo` is never undone (`Aged`), neither by a later phase nor by
the next run. So what Visibility answers holds of the workflow however old it is (`ListStep`), and goes on holding while the runs found are asked one by one (`ListingsAge`).
That is all `ListingsGetThere` needs, and the reason it holds for any lag.

**Only model-checked.** Every invariant and action property the passing runs check is a theorem, with the three hypotheses named in the table. What
has to happen eventually rests on fairness, which is beyond the prover, and is checked by TLC alone: `HandledCancelEnds`, `DunningEnds`, `EveryPeriodEnds`,
`ChargesEnd` and `ListingEnds`. The provers know nothing of powers of two: what the proofs use of them is assumed, and evaluated by TLC
(`WidthAssumption`: a quarter of the range is a number; `PowersAssumption`: as many powers as the plans have attempts, each twice the one before).

## Plan

1. *Done:* the workflow, its abstract lifecycle and their proofs; the billing history; activities and their delivery; the
   catalog, the API and the processes, each with its proofs.
2. *Done:* the remaining invariants and action properties proved: numbers, counters, calendar, keys, cancels, trial, context.
3. *Done:* the models tied together: `ActivityDelivery` and `Subscription` both implement `Collection`, and `Subscription` keeps what
   `SubscriptionService` takes workflows for.
4. The tie between `BillingHistory` and the one step in which `ActivityDelivery` records an event; the conversion of cursors, and of events with its
   error paths; `Dispatch`'s choice of a message.
5. Conditional progress that needs no fairness: what a workflow that has stopped may be waiting for.

## Not modelled, and why

Of the protocol, two messages are types (`CreatePlanRequest` and the texts of `Plan`); the rest of `api/v1`, more than half of all lines, is accessors and
stubs that protoc generates and has no behaviour of its own. The integration client's map of connections is a cache under one mutex, of which a plan uses one entry; closing it
happens at exit. The payloads of hooks are left out, and with them their conversion to JSON and back (`internal/hook/event.go`), a pure function with unit tests of its own, and the switch by which
`Dispatch` makes a message of them, whose default, an error that is not retried, no caller reaches: an event is the ID it has and the hook it is. The BSON conversion of billing events is pure as well. The values of settings, logging, names,
currencies and amounts are left out. `GetByCode` has no caller. Temporal itself, MongoDB and the payment gateway are
external: what the code relies on of them is stated where the modules use it.
