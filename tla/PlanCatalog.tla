---------------------------- MODULE PlanCatalog -----------------------------
(***************************************************************************)
(* The plan API (server/plans.go) over the plan repository                 *)
(* (store/plans.go): what becomes of a request on its way to a document,   *)
(* and of a document on its way back to a plan that a workflow runs.       *)
(*                                                                         *)
(* A duration travels as text: <<>> is the empty text, <<d>> the text of   *)
(* the duration d, and anything else (a number too great for a duration    *)
(* included) a text time.ParseDuration refuses.                            *)
(***************************************************************************)
EXTENDS PlanTerms, Sequences

CONSTANTS
    PlanRequests,    \* the requests that clients make
    DefaultAttempts, \* 3 in the code
    DefaultBackoff,  \* 24 hours in the code
    MaxPlans         \* bound: how many plans are ever inserted

Text == Seq(Int)

\* One text that hook.Parse refuses stands for all.
HookTexts == Hooks \cup {"unknown"}

\* The terms of a plan as its document and its message spell them.
SpelledTerms == [Cadence: Text, TrialDuration: Text, TrialEndNoticeBefore: Text,
                 RenewalUpcomingBefore: Text, DunningMaxAttempts: Int,
                 DunningRetryBackoff: Text, EnabledHooks: SUBSET HookTexts]

CreatePlanRequest == [Code: STRING, PriceCents: Int, PerUserLimit: Int,
                      IntegrationEndpoint: STRING, Terms: SpelledTerms]

ASSUME RequestsAssumption == PlanRequests \subseteq CreatePlanRequest
ASSUME DefaultsAssumption == DefaultAttempts \in Nat \ {0} /\ DefaultBackoff \in Duration
ASSUME MaxPlansAssumption == MaxPlans \in Nat

Codes == {r.Code : r \in PlanRequests}

VARIABLES
    documents,  \* the collection "plans": a document for each ID
    built       \* the plans inserted, ever: the n-th has the ID n

catalog == <<documents, built>>

-----------------------------------------------------------------------------
(* Durations as text *)

Parses(text) == Len(text) = 1 /\ text[1] \in Duration
ParsesOptionally(text) == text = <<>> \/ Parses(text)

ParseOptional(text) == IF text = <<>> THEN 0 ELSE text[1]

\* Mutant: an optional duration below zero is dropped.
PositiveOrEmpty(d) == IF d <= 0 THEN <<>> ELSE <<d>>

DurationOrEmpty(d) == IF d = 0 THEN <<>> ELSE <<d>>

-----------------------------------------------------------------------------
(* buildPlanFromRequest *)

CadenceValid(t) == Parses(t.Cadence) /\ t.Cadence[1] > 0

OptionalsParse(t) ==
    \A text \in {t.TrialDuration, t.TrialEndNoticeBefore, t.RenewalUpcomingBefore,
                 t.DunningRetryBackoff} : ParsesOptionally(text)

\* The notice is compared with the trial only where there are both.
NoticeValid(t) ==
    LET trial == ParseOptional(t.TrialDuration)
        notice == ParseOptional(t.TrialEndNoticeBefore)
    IN  notice > 0 /\ trial > 0 => notice < trial

\* Mutant: numbers are not looked at.
ValidTexts(r) ==
    /\ CadenceValid(r.Terms) /\ OptionalsParse(r.Terms) /\ NoticeValid(r.Terms)
    /\ r.Terms.EnabledHooks \subseteq Hooks

Valid(r) ==
    /\ CadenceValid(r.Terms)
    /\ OptionalsParse(r.Terms)
    /\ NoticeValid(r.Terms)
    /\ r.Terms.DunningMaxAttempts \in 0..99
    /\ r.PriceCents >= 0
    /\ r.PerUserLimit >= 0
    /\ r.Terms.EnabledHooks \subseteq Hooks

OrDefault(n, default) == IF n = 0 THEN default ELSE n

ParsedTerms(t) ==
    [Cadence               |-> t.Cadence[1],
     TrialDuration         |-> ParseOptional(t.TrialDuration),
     TrialEndNoticeBefore  |-> ParseOptional(t.TrialEndNoticeBefore),
     RenewalUpcomingBefore |-> ParseOptional(t.RenewalUpcomingBefore),
     DunningMaxAttempts    |-> t.DunningMaxAttempts,
     DunningRetryBackoff   |-> ParseOptional(t.DunningRetryBackoff),
     EnabledHooks          |-> t.EnabledHooks]

WithDefaults(t) ==
    [t EXCEPT !.DunningMaxAttempts = OrDefault(@, DefaultAttempts),
              !.DunningRetryBackoff = OrDefault(@, DefaultBackoff)]

BuildPlan(r) == [r EXCEPT !.Terms = WithDefaults(ParsedTerms(@))]

-----------------------------------------------------------------------------
(* Documents and messages *)

\* planToDoc and planToProto spell durations alike.
Spelled(t) ==
    [Cadence               |-> <<t.Cadence>>,
     TrialDuration         |-> DurationOrEmpty(t.TrialDuration),
     TrialEndNoticeBefore  |-> DurationOrEmpty(t.TrialEndNoticeBefore),
     RenewalUpcomingBefore |-> DurationOrEmpty(t.RenewalUpcomingBefore),
     DunningMaxAttempts    |-> t.DunningMaxAttempts,
     DunningRetryBackoff   |-> DurationOrEmpty(t.DunningRetryBackoff),
     EnabledHooks          |-> t.EnabledHooks]

PlanToDoc(p) == [p EXCEPT !.Terms = Spelled(@)]

PlanToProto(p) == [p EXCEPT !.Terms = Spelled(@)]

\* docToPlan fails for a document it cannot parse: none is ever inserted.
DocToPlan(d) == [d EXCEPT !.Terms = ParsedTerms(@)]

\* What a workflow makes of a plan: without an endpoint no hook is dispatched.
RunningTerms(p) ==
    IF p.IntegrationEndpoint = "" THEN [p.Terms EXCEPT !.EnabledHooks = {}] ELSE p.Terms

-----------------------------------------------------------------------------
(* The repository, and the API over it *)

FreshPlanID == Len(built) + 1

\* InsertOne, under the unique index on the code if there is one. Whether the
\* client hears of it makes no difference to the collection.
Insert(p, indexed) ==
    /\ indexed => \A i \in DOMAIN documents : documents[i].Code # p.Code
    /\ built' = Append(built, p)
    /\ documents' = [i \in DOMAIN documents \cup {FreshPlanID} |->
                        IF i = FreshPlanID THEN PlanToDoc(p) ELSE documents[i]]

Get(id) == DocToPlan(documents[id])
List    == {Get(id) : id \in DOMAIN documents}

\* One that is gone already, or never was, is not found.
Delete(id) ==
    /\ id \in DOMAIN documents
    /\ documents' = [i \in DOMAIN documents \ {id} |-> documents[i]]
    /\ UNCHANGED built

CreatePlan(r, indexed) ==
    /\ Len(built) < MaxPlans
    /\ Valid(r)
    /\ Insert(BuildPlan(r), indexed)

GetPlan(id) == PlanToProto(Get(id))
ListPlans   == {PlanToProto(p) : p \in List}

CatalogInit == documents = <<>> /\ built = <<>>

-----------------------------------------------------------------------------
(* Properties *)

\* The documents are those of inserted plans, and spell their terms.
CatalogTypeOK ==
    /\ DOMAIN documents \subseteq DOMAIN built
    /\ \A i \in DOMAIN documents : documents[i] \in CreatePlanRequest
    /\ \A i \in DOMAIN built : built[i].PerUserLimit \in Nat

\* A plan that comes back from the store, to a workflow or to a client, is the
\* plan that was built from the request: no duration is lost on the way
\* (planToDoc, docToPlan, planToProto).
PlansAreKept ==
    \A id \in DOMAIN documents :
        /\ Get(id) = built[id]
        /\ DocToPlan(GetPlan(id)) = built[id]
        /\ GetPlan(id) \in ListPlans

\* Whatever the requests, a workflow is only given plans it can run: those of
\* the type that the theorems about the workflow assume of its plans.
PlansAreRunnable ==
    \A id \in DOMAIN documents : RunningTerms(Get(id)) \in Plan

\* Between a request and a workflow nothing is lost, and nothing unfit passes.
PlansAreSound == PlansAreKept /\ PlansAreRunnable

\* No two plans share a code, by which subscriptions are counted.
OneCodeOnePlan ==
    \A i, j \in DOMAIN documents : documents[i].Code = documents[j].Code => i = j

=============================================================================
