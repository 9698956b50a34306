------------------------ MODULE SubscriptionService -------------------------
(***************************************************************************)
(* The API process: callers that create subscriptions through              *)
(* server/subscriptions.go on plans of the catalog, the workflows they     *)
(* start, and Visibility, the index of workflow runs that the per-user     *)
(* limit and the listing are computed from.                                *)
(*                                                                         *)
(* A workflow is known here by what module Workflows says of it (module    *)
(* Subscription has the rest, and keeps to that).                          *)
(***************************************************************************)
EXTENDS PlanCatalog, Workflows, FiniteSets

CONSTANTS
    Callers,   \* concurrent calls of CreateSubscription
    Users,
    Filters,   \* the phases that listings ask for, "" for any
    MaxSubs,   \* bound: how many subscriptions are ever started
    MaxRuns    \* bound: how many runs subscriptions have, together

\* main of cmd/api, up to Serve.
ApiSteps == <<"mongo", "plans_code_unique", "reference_unique", "temporal",
              "SubflowUserId", "SubflowPlanCode", "SubflowPhase", "SubflowPeriodEnd",
              "SubflowTrialEnd", "listen">>
ApiDurable == {"plans_code_unique", "reference_unique", "SubflowUserId", "SubflowPlanCode",
               "SubflowPhase", "SubflowPeriodEnd", "SubflowTrialEnd"}

CountedPhases == {"trialing", "active", "past_due", "canceled"}
Entries == CountedPhases \cup {"deactivated"}

ASSUME CallersAssumption == IsFiniteSet(Callers)
ASSUME FiltersAssumption == Filters \subseteq Entries \cup {""}
ASSUME ServiceBounds == MaxSubs \in Nat /\ MaxRuns \in Nat \ {0}

VARIABLES
    apiStage, apiPrepared, \* the process
    call,  \* what each caller's call has come to
    listing, \* a call of ListSubscriptions: its filter, the runs still to be asked
    subs,  \* the subscriptions, in the order they were started
    published \* for each, what each of its runs has given Visibility to show

Api == INSTANCE Process WITH
    Steps <- ApiSteps, Durable <- ApiDurable,
    stage <- apiStage, prepared <- apiPrepared

api  == <<apiStage, apiPrepared>>
vars == <<catalog, api, call, listing, subs, published>>

\* `seen' is history: the live subscriptions Visibility had when it was asked.
Idle == [at |-> "idle", user |-> "", code |-> "", limit |-> 0, trial |-> 0,
         seen |-> {}, sub |-> 0]

NoListing == [phase |-> "", found |-> {}]

-----------------------------------------------------------------------------
(* Visibility *)

Runs == {sr \in (DOMAIN subs) \X (1..MaxRuns) : sr[2] <= subs[sr[1]].run}

\* The runs that a query of a user and a plan code is about; "" filters nothing.
RunsOf(user, code) ==
    {sr \in Runs : user \in {"", subs[sr[1]].user} /\ code \in {"", subs[sr[1]].code}}

\* Visibility may answer from anything a run has published; and a run that it
\* does not know yet is to a query what one it knows to be closed is.
Shown(sr) == {"closed"} \cup published[sr[1]][sr[2]]
Readings(runs) == {view \in [runs -> UNION {Shown(sr) : sr \in runs}] :
                      \A sr \in DOMAIN view : view[sr] \in Shown(sr)}

\* ExecutionStatus='Running'.
Running(entry) == entry # "closed"

\* Mutant: who has canceled does not count.
CountedUncanceled(view) == {sr \in DOMAIN view : view[sr] \in CountedPhases \ {"canceled"}}

\* The runs that countActiveForUser counts.
Counted(view) == {sr \in DOMAIN view : view[sr] \in CountedPhases}

\* The subscriptions of which the view shows a run.
Seen(view) == {sr[1] : sr \in {x \in DOMAIN view : Running(view[x])}}

Live(s) == subs[s].phase # "deactivated"

Rivals(user, code) ==
    {s \in DOMAIN subs : subs[s].user = user /\ subs[s].code = code /\ Live(s)}

-----------------------------------------------------------------------------
(* CreateSubscription *)

\* The plan is read; a caller whose plan is not found is told so.
GetPlanOf(c, user, id) ==
    LET p == Get(id) IN
    /\ Api!Serving
    /\ call[c] = Idle
    /\ id \in DOMAIN documents
    /\ Len(subs) < MaxSubs
    /\ call' = [call EXCEPT ![c] =
           [Idle EXCEPT !.at = IF p.PerUserLimit > 0 THEN "counting" ELSE "starting",
                        !.user = user, !.code = p.Code, !.limit = p.PerUserLimit,
                        !.trial = p.Terms.TrialDuration]]
    /\ UNCHANGED <<catalog, api, listing, subs, published>>

BelowLimit(k, count) == count < k.limit

\* The caller goes on if the limit allows it, and is refused if not.
Checked(k, view) ==
    IF BelowLimit(k, Cardinality(Counted(view)))
    THEN [k EXCEPT !.at = "starting", !.seen = Seen(view) \cap Rivals(k.user, k.code)]
    ELSE Idle

CountActiveForUser(c) ==
    LET k == call[c] IN
    /\ k.at = "counting"
    /\ \E next \in {Checked(k, view) : view \in Readings(RunsOf(k.user, k.code))} :
           call' = [call EXCEPT ![c] = next]
    /\ UNCHANGED <<catalog, api, listing, subs, published>>

\* UpdateWithStartWorkflow starts the workflow. `blind' is history: another
\* live subscription was not seen by the count.
StartWorkflow(c) ==
    LET k == call[c]
        w == Started(k.trial)
    IN
    /\ k.at = "starting"
    /\ Len(subs) < MaxSubs
    /\ subs' = Append(subs,
           [user |-> k.user, code |-> k.code, limit |-> k.limit, trial |-> w.trial,
            phase |-> w.phase, run |-> w.run, open |-> w.open, paid |-> w.paid,
            blind |-> ~(Rivals(k.user, k.code) \subseteq k.seen), told |-> "nothing"])
    /\ published' = Append(published, <<{PhaseAttr(w)}>>)
    /\ call' = [call EXCEPT ![c] =
           [Idle EXCEPT !.at = "awaiting", !.trial = k.trial, !.sub = Len(subs) + 1]]
    /\ UNCHANGED <<catalog, api, listing>>

Paid(s) == subs[s].paid
Declined(s) == subs[s].phase = "deactivated" /\ ~subs[s].paid

\* Mutant: whoever waits for an activation is told of a success.
OutcomeUnread(c) == IF call[c].trial > 0 THEN "trialing" ELSE "active"

\* What the caller is told. The outcome of the update is read only where the
\* trial is exactly zero.
Outcome(c) ==
    IF call[c].trial > 0 THEN "trialing"
    ELSE IF call[c].trial = 0 /\ Declined(call[c].sub) THEN "declined" ELSE "active"

\* The call returns: at once for a trial, else when the update is completed.
Return(c) ==
    /\ call[c].at = "awaiting"
    /\ call[c].trial > 0 \/ Paid(call[c].sub) \/ Declined(call[c].sub)
    /\ subs' = [subs EXCEPT ![call[c].sub].told = Outcome(c)]
    /\ call' = [call EXCEPT ![c] = Idle]
    /\ UNCHANGED <<catalog, api, listing, published>>

\* MongoDB, Visibility or Temporal fails, or the caller gives up: what was
\* started by then goes on.
FailCall(c) ==
    /\ call[c].at # "idle"
    /\ call' = [call EXCEPT ![c] = Idle]
    /\ UNCHANGED <<catalog, api, listing, subs, published>>

-----------------------------------------------------------------------------
(* The workflows *)

\* A phase change and its upsert.
ChangePhase(s) ==
    /\ \E to \in NextPhases(subs[s]) :
           /\ subs' = [subs EXCEPT ![s] = InPhase(@, to)]
           /\ published' = [published EXCEPT ![s][subs[s].run] = @ \cup {to}]
    /\ UNCHANGED <<catalog, api, call, listing>>

ContinueAsNew(s) ==
    /\ MayRenew(subs[s]) /\ Cardinality(Runs) < MaxRuns
    /\ subs' = [subs EXCEPT ![s] = InNextRun(@)]
    /\ published' = [published EXCEPT ![s] = Append(@, {"active"})]
    /\ UNCHANGED <<catalog, api, call, listing>>

Complete(s) ==
    /\ MayClose(subs[s])
    /\ subs' = [subs EXCEPT ![s] = Closed(@)]
    /\ UNCHANGED <<catalog, api, call, listing, published>>

-----------------------------------------------------------------------------
(* ListSubscriptions *)

\* Mutant: the phase asked for does not reach the query.
PhaseUnasked(entry, phase) == TRUE

InPhaseAsked(entry, phase) == phase \in {"", entry}

\* The runs that buildListQuery's query finds.
Found(view, phase) == {sr \in DOMAIN view : Running(view[sr]) /\ InPhaseAsked(view[sr], phase)}

Listing(phase, found) ==
    IF found = {} THEN NoListing ELSE [phase |-> phase, found |-> found]

\* A listing asks for a user, a plan code, both or neither.
Listable == {RunsOf(f[1], f[2]) : f \in (Users \cup {""}) \X (Codes \cup {""})}

\* The page is found in Visibility, among the runs asked for, ...
ListWorkflow(runs, phase) ==
    /\ Api!Serving
    /\ listing = NoListing
    /\ \E found \in {Found(view, phase) : view \in Readings(runs)} :
           listing' = Listing(phase, found)
    /\ UNCHANGED <<catalog, api, call, subs, published>>

\* ... and one by one its runs are asked, by workflow ID, for the View: what
\* answers is the workflow's latest run, as it is by now. One whose query fails
\* is skipped.
GetSubscription(sr) ==
    /\ sr \in listing.found
    /\ listing' = Listing(listing.phase, listing.found \ {sr})
    /\ UNCHANGED <<catalog, api, call, subs, published>>

-----------------------------------------------------------------------------
Init ==
    /\ CatalogInit
    /\ Api!Init
    /\ call = [c \in Callers |-> Idle] /\ listing = NoListing
    /\ subs = <<>> /\ published = <<>>

CreateSubscription(c) ==
    \/ \E user \in Users, id \in 1..MaxPlans : GetPlanOf(c, user, id)
    \/ CountActiveForUser(c) \/ StartWorkflow(c) \/ Return(c) \/ FailCall(c)

PlanService ==
    /\ Api!Serving
    /\ \/ \E r \in PlanRequests : CreatePlan(r, "plans_code_unique" \in apiPrepared)
       \/ \E id \in 1..MaxPlans : Delete(id)
    /\ UNCHANGED <<api, call, listing, subs, published>>

ListSubscriptions ==
    \/ \E runs \in Listable, phase \in Filters : ListWorkflow(runs, phase)
    \/ \E sr \in listing.found : GetSubscription(sr)

Workflow(s) == ChangePhase(s) \/ ContinueAsNew(s) \/ Complete(s)

\* The calls under way are lost with the process.
ApiProcess ==
    \/ /\ Api!Start \/ Api!Succeed \/ Api!Fail
       /\ UNCHANGED <<catalog, call, listing, subs, published>>
    \/ /\ Api!Crash
       /\ call' = [c \in Callers |-> Idle] /\ listing' = NoListing
       /\ UNCHANGED <<catalog, subs, published>>

Next ==
    \/ ApiProcess \/ PlanService \/ ListSubscriptions
    \/ \E c \in Callers : CreateSubscription(c)
    \/ \E s \in DOMAIN subs : Workflow(s)

Spec == Init /\ [][Next]_vars

-----------------------------------------------------------------------------
(* Properties *)

Call == [at: {"idle", "counting", "starting", "awaiting"}, user: Users \cup {""},
         code: Codes \cup {""}, limit: Nat, trial: Int, seen: SUBSET Nat, sub: Nat]

Subscribed == [user: Users, code: Codes, limit: Nat, trial: Int,
               phase: CountedPhases \cup {"starting", "deactivated"},
               run: 1..MaxRuns, open: BOOLEAN, paid: BOOLEAN, blind: BOOLEAN,
               told: {"nothing", "active", "trialing", "declined"}]

\* Every variable has its type; a call waits for a subscription that exists.
TypeOK ==
    /\ CatalogTypeOK
    /\ apiStage \in 0..(Len(ApiSteps) + 1) /\ apiPrepared \subseteq ApiDurable
    /\ subs \in Seq(Subscribed)
    /\ DOMAIN published = DOMAIN subs
    /\ \A s \in DOMAIN subs : published[s] \in [1..subs[s].run -> SUBSET Entries]
    /\ call \in [Callers -> Call]
    /\ \A c \in Callers : call[c].at = "awaiting" => call[c].sub \in DOMAIN subs
    /\ listing \in [phase: Filters \cup {""}, found: SUBSET Runs]

\* The limit counts the subscriptions of one user on one plan code.
UpTo(s) == {t \in Rivals(subs[s].user, subs[s].code) : t <= s}
WithinLimit(s) == Live(s) /\ subs[s].limit > 0 => Cardinality(UpTo(s)) <= subs[s].limit

\* However creates race, are lost and are retried, and plans come and go, the
\* limit can be passed only by a subscription whose count was blind to another:
\* started since, or not in Visibility yet (CreateSubscription,
\* countActiveForUser, the attributes that runs publish).
LimitKept == \A s \in DOMAIN subs : subs[s].blind \/ WithinLimit(s)

\* Who is told "active" has paid, who is told of a failure is deactivated and
\* has not, and who is told "trialing" is on a plan with a trial
\* (CreateSubscription's three ways out).
AnswerTellsTheTruth ==
    \A s \in DOMAIN subs :
        /\ subs[s].told = "active" => Paid(s)
        /\ subs[s].told = "declined" => Declined(s)
        /\ subs[s].told = "trialing" => subs[s].trial > 0

\* The workflow w has come as far as the phase.
HasGotTo(phase, w) ==
    CASE phase = "deactivated" -> w.phase = "deactivated"
      [] phase = "canceled" -> w.phase \in {"canceled", "deactivated"}
      [] phase \in {"active", "past_due"} ->
             w.phase # "trialing" /\ (w.phase = "starting" /\ w.run = 1 => w.trial <= 0)
      [] OTHER -> TRUE

\* However far Visibility lags, and whatever happens while a page is being
\* asked run by run, what is listed under a phase has got there: a View may show
\* a later phase than the one asked for, never an earlier one. Who is listed as
\* canceled is not seen renewing, nor on trial who is listed as active
\* (ListSubscriptions, continue-as-new, the attributes that runs publish).
ListedHaveGotThere ==
    \A sr \in listing.found : HasGotTo(listing.phase, subs[sr[1]])

\* "CreateSubscription enforces per-user limit", without reservation.
LimitEnforced == \A s \in DOMAIN subs : WithinLimit(s)

=============================================================================
