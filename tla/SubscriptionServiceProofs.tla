---------------------- MODULE SubscriptionServiceProofs ----------------------
(***************************************************************************)
(* Theorems about the API: the catalog keeps its plans, the limit is kept  *)
(* by every count that saw its rivals, callers are told the truth, and a   *)
(* listing shows no subscription in a phase earlier than the one asked for. *)
(***************************************************************************)
EXTENDS SubscriptionService, FiniteSetTheorems, TLAPS

-----------------------------------------------------------------------------
(* The catalog *)

\* Plans as buildPlanFromRequest makes them.
PlanRecord == [Code: Codes, PriceCents: Int, PerUserLimit: Nat,
               IntegrationEndpoint: STRING, Terms: Plan]

\* Durations are numbers.
LEMMA DurationType == Duration \subseteq Int /\ 0 \in Duration
BY WidthAssumption DEF Duration

\* Valid requests make plans of that type.
LEMMA BuildPlanType ==
    ASSUME NEW r \in PlanRequests, Valid(r)
    PROVE  BuildPlan(r) \in PlanRecord
<1>. DEFINE t == r.Terms
<1>1. r \in CreatePlanRequest /\ t \in SpelledTerms
  BY RequestsAssumption DEF CreatePlanRequest
<1>2. /\ t.TrialDuration \in Seq(Int) /\ t.TrialEndNoticeBefore \in Seq(Int)
      /\ t.RenewalUpcomingBefore \in Seq(Int) /\ t.DunningRetryBackoff \in Seq(Int)
      /\ t.Cadence \in Seq(Int) /\ t.DunningMaxAttempts \in Int
  BY <1>1 DEF SpelledTerms, Text
<1>3. /\ ParsesOptionally(t.TrialDuration) /\ ParsesOptionally(t.TrialEndNoticeBefore)
      /\ ParsesOptionally(t.RenewalUpcomingBefore) /\ ParsesOptionally(t.DunningRetryBackoff)
  BY DEF Valid, OptionalsParse
<1>4. ASSUME NEW text \in Seq(Int), ParsesOptionally(text)
      PROVE  ParseOptional(text) \in Duration
  BY <1>4, DurationType DEF ParsesOptionally, Parses, ParseOptional
<1>5. t.Cadence[1] \in Duration \cap (Nat \ {0})
  BY <1>2, DurationType DEF Valid, CadenceValid, Parses
<1>6. /\ ParseOptional(t.TrialDuration) \in Duration
      /\ ParseOptional(t.TrialEndNoticeBefore) \in Duration
      /\ ParseOptional(t.RenewalUpcomingBefore) \in Duration
      /\ ParseOptional(t.DunningRetryBackoff) \in Duration
  BY <1>2, <1>3, <1>4
<1>7. OrDefault(ParseOptional(t.DunningRetryBackoff), DefaultBackoff) \in Duration
  BY <1>6, DefaultsAssumption DEF OrDefault
<1>8. OrDefault(t.DunningMaxAttempts, DefaultAttempts) \in Nat
  BY DefaultsAssumption DEF OrDefault, Valid
<1>9. t.EnabledHooks \in SUBSET Hooks
  BY DEF Valid
<1>10. BuildPlan(r).Terms \in Plan
  <2>. DEFINE u == ParsedTerms(t)
  <2>1. /\ u.DunningMaxAttempts = t.DunningMaxAttempts
        /\ u.DunningRetryBackoff = ParseOptional(t.DunningRetryBackoff)
    BY DEF ParsedTerms
  <2>2. u \in [Cadence: Duration \cap (Nat \ {0}), TrialDuration: Duration,
               TrialEndNoticeBefore: Duration, RenewalUpcomingBefore: Duration,
               DunningMaxAttempts: Int, DunningRetryBackoff: Duration,
               EnabledHooks: SUBSET Hooks]
    BY <1>2, <1>5, <1>6, <1>9 DEF ParsedTerms
  <2>3. BuildPlan(r).Terms = WithDefaults(u)
    BY <1>1 DEF BuildPlan, CreatePlanRequest
  <2>. HIDE DEF u
  <2>. QED
    BY <1>7, <1>8, <2>1, <2>2, <2>3 DEF WithDefaults, Plan
<1>11. r.PerUserLimit \in Nat /\ r.PriceCents \in Int /\ r.Code \in Codes
       /\ r.IntegrationEndpoint \in STRING
  BY <1>1 DEF CreatePlanRequest, Valid, Codes
<1>. QED
  BY <1>1, <1>10, <1>11 DEF BuildPlan, PlanRecord, CreatePlanRequest

\* No duration is lost in its text.
LEMMA TextRoundTrip ==
    ASSUME NEW x \in Int
    PROVE  DurationOrEmpty(x) \in Seq(Int) /\ ParseOptional(DurationOrEmpty(x)) = x
BY DEF DurationOrEmpty, ParseOptional

\* Nor in the text of a plan's terms.
LEMMA TermsRoundTrip ==
    ASSUME NEW t \in Plan
    PROVE  ParsedTerms(Spelled(t)) = t /\ Spelled(t) \in SpelledTerms
<1>. DEFINE s == Spelled(t)
            u == ParsedTerms(s)
<1>1. /\ t.Cadence \in Int /\ t.TrialDuration \in Int /\ t.TrialEndNoticeBefore \in Int
      /\ t.RenewalUpcomingBefore \in Int /\ t.DunningRetryBackoff \in Int
      /\ t.DunningMaxAttempts \in Int
  <2>1. /\ t.Cadence \in Duration /\ t.TrialDuration \in Duration
        /\ t.TrialEndNoticeBefore \in Duration /\ t.RenewalUpcomingBefore \in Duration
        /\ t.DunningRetryBackoff \in Duration /\ t.DunningMaxAttempts \in Nat
    BY DEF Plan
  <2>2. \A d \in Duration : d \in Int
    BY DurationType
  <2>. HIDE DEF s, u
  <2>. QED
    BY <2>1, <2>2, SMT
<1>2. t.EnabledHooks \in SUBSET HookTexts
  BY DEF Plan, HookTexts
<1>3. <<t.Cadence>> \in Seq(Int)
  BY <1>1
<1>4. s \in SpelledTerms
  BY <1>1, <1>2, <1>3, TextRoundTrip DEF Spelled, SpelledTerms, Text
<1>5. /\ u.Cadence = t.Cadence /\ u.TrialDuration = t.TrialDuration
      /\ u.TrialEndNoticeBefore = t.TrialEndNoticeBefore
      /\ u.RenewalUpcomingBefore = t.RenewalUpcomingBefore
      /\ u.DunningMaxAttempts = t.DunningMaxAttempts
      /\ u.DunningRetryBackoff = t.DunningRetryBackoff
      /\ u.EnabledHooks = t.EnabledHooks
  BY <1>1, TextRoundTrip DEF Spelled, ParsedTerms
<1>6. u = [Cadence |-> u.Cadence, TrialDuration |-> u.TrialDuration,
           TrialEndNoticeBefore |-> u.TrialEndNoticeBefore,
           RenewalUpcomingBefore |-> u.RenewalUpcomingBefore,
           DunningMaxAttempts |-> u.DunningMaxAttempts,
           DunningRetryBackoff |-> u.DunningRetryBackoff,
           EnabledHooks |-> u.EnabledHooks]
  BY DEF ParsedTerms
<1>. HIDE DEF u
<1>7. t = [Cadence |-> t.Cadence, TrialDuration |-> t.TrialDuration,
           TrialEndNoticeBefore |-> t.TrialEndNoticeBefore,
           RenewalUpcomingBefore |-> t.RenewalUpcomingBefore,
           DunningMaxAttempts |-> t.DunningMaxAttempts,
           DunningRetryBackoff |-> t.DunningRetryBackoff,
           EnabledHooks |-> t.EnabledHooks]
  BY DEF Plan
<1>8. u = t
  BY <1>5, <1>6, <1>7
<1>. QED
  BY <1>4, <1>8 DEF u

\* The type of codes.
LEMMA CodesAreStrings == Codes \subseteq STRING
BY RequestsAssumption DEF Codes, CreatePlanRequest

\* What a document keeps of a plan, and that nothing is lost on the way back.
LEMMA RoundTrip ==
    ASSUME NEW p \in PlanRecord
    PROVE  DocToPlan(PlanToDoc(p)) = p /\ PlanToDoc(p) \in CreatePlanRequest
<1>1. p.Terms \in Plan
  BY DEF PlanRecord
<1>2. ParsedTerms(Spelled(p.Terms)) = p.Terms /\ Spelled(p.Terms) \in SpelledTerms
  BY <1>1, TermsRoundTrip
<1>3. PlanToDoc(p) = [p EXCEPT !.Terms = Spelled(p.Terms)]
  BY DEF PlanToDoc, PlanRecord
<1>4. PlanToDoc(p) \in CreatePlanRequest
  BY <1>2, <1>3, CodesAreStrings DEF PlanRecord, CreatePlanRequest
<1>5. DocToPlan(PlanToDoc(p)) = [PlanToDoc(p) EXCEPT !.Terms = ParsedTerms(PlanToDoc(p).Terms)]
  BY <1>4 DEF DocToPlan, CreatePlanRequest
<1>6. DocToPlan(PlanToDoc(p)) = p
  BY <1>2, <1>3, <1>5 DEF PlanRecord
<1>. QED
  BY <1>4, <1>6

\* A workflow can run such a plan.
LEMMA Runnable ==
    ASSUME NEW p \in PlanRecord
    PROVE  RunningTerms(p) \in Plan
<1>1. p.Terms \in Plan
  BY DEF PlanRecord
<1>. QED
  BY <1>1 DEF RunningTerms, Plan

-----------------------------------------------------------------------------
(* The inductive invariant *)

\* Documents spell the plans that were inserted under their IDs.
Kept ==
    /\ built \in Seq(PlanRecord)
    /\ DOMAIN documents \subseteq DOMAIN built
    /\ \A i \in DOMAIN documents : documents[i] = PlanToDoc(built[i])

\* An API that is past the index has it.
Indexed ==
    /\ apiStage \in 0..(Len(ApiSteps) + 1) /\ apiPrepared \subseteq ApiDurable
    /\ apiStage > 2 => "plans_code_unique" \in apiPrepared

\* A call that is to start a workflow has counted fewer rivals than the limit.
Calls ==
    /\ call \in [Callers -> Call]
    /\ \A c \in Callers :
           LET k == call[c] IN
           /\ k.at \in {"counting", "starting"} => k.user \in Users /\ k.code \in Codes
           /\ k.at = "counting" => k.limit > 0
           /\ k.at = "starting" /\ k.limit > 0 =>
                  IsFiniteSet(k.seen) /\ Cardinality(k.seen) < k.limit
           /\ k.at = "awaiting" => k.sub \in DOMAIN subs /\ k.trial = subs[k.sub].trial

\* Each run has an entry list, of phases that its subscription has got to.
Published ==
    /\ subs \in Seq(Subscribed)
    /\ published \in Seq(Seq(SUBSET Entries)) /\ Len(published) = Len(subs)
    /\ \A s \in DOMAIN subs :
           /\ Len(published[s]) = subs[s].run
           /\ \A n \in DOMAIN published[s] :
                  \A to \in published[s][n] : HasGotTo(to, subs[s])

\* The limit at the time of the count, which deactivations can only relax.
Counts ==
    \A s \in DOMAIN subs : ~subs[s].blind /\ subs[s].limit > 0
        => Cardinality(UpTo(s)) <= subs[s].limit

\* A listing has found runs that there are, of subscriptions that got there.
Listings ==
    /\ listing \in [phase: Filters \cup {""}, found: SUBSET Runs]
    /\ ListedHaveGotThere

IInv == Kept /\ OneCodeOnePlan /\ Indexed /\ Calls /\ Published /\ Counts /\ Listings

-----------------------------------------------------------------------------
(* Lemmas *)

\* The steps of the API's start-up.
LEMMA ApiMain ==
    /\ Len(ApiSteps) = 10 /\ DOMAIN ApiSteps = 1..10
    /\ ApiSteps[2] = "plans_code_unique" /\ "plans_code_unique" \in ApiDurable
BY DEF ApiSteps, ApiDurable

\* The rivals up to a subscription are finitely many.
LEMMA UpToFinite ==
    ASSUME subs \in Seq(Subscribed), NEW s \in DOMAIN subs
    PROVE  IsFiniteSet(UpTo(s)) /\ Cardinality(UpTo(s)) \in Nat
<1>1. IsFiniteSet(1..Len(subs))
  BY FS_Interval
<1>2. UpTo(s) \subseteq 1..Len(subs)
  BY DEF UpTo, Rivals
<1>. QED
  BY <1>1, <1>2, FS_Subset, FS_CardinalityType

\* What workflows do to the subscriptions there are: none changes hands, and
\* none comes back to life.
Aged ==
    /\ subs' \in Seq(Subscribed) /\ Len(subs') >= Len(subs)
    /\ \A s \in DOMAIN subs :
           /\ subs'[s].user = subs[s].user /\ subs'[s].code = subs[s].code
           /\ subs'[s].limit = subs[s].limit /\ subs'[s].trial = subs[s].trial
           /\ subs'[s].blind = subs[s].blind
           /\ subs[s].phase = "deactivated" => subs'[s].phase = "deactivated"
           /\ subs'[s].run >= subs[s].run
           /\ \A to \in Entries : HasGotTo(to, subs[s]) => HasGotTo(to, subs'[s])

\* As they age, the rivals of a subscription only become fewer.
LEMMA RivalsAge ==
    ASSUME subs \in Seq(Subscribed), Aged, NEW s \in DOMAIN subs
    PROVE  UpTo(s)' \subseteq UpTo(s) /\ Cardinality(UpTo(s)') <= Cardinality(UpTo(s))
<1>1. s \in Nat /\ DOMAIN subs = 1..Len(subs) /\ DOMAIN subs' = 1..Len(subs')
  BY DEF Aged
<1>2. ASSUME NEW t \in UpTo(s)' PROVE t \in UpTo(s)
  <2>1. /\ t \in DOMAIN subs' /\ t <= s
        /\ subs'[t].user = subs'[s].user /\ subs'[t].code = subs'[s].code
        /\ subs'[t].phase # "deactivated"
    BY <1>2 DEF UpTo, Rivals, Live
  <2>2. t \in DOMAIN subs
    BY <1>1, <2>1
  <2>. QED
    BY <2>1, <2>2 DEF Aged, UpTo, Rivals, Live
<1>. QED
  BY <1>2, UpToFinite, FS_Subset

\* So their counts stay within the limit.
LEMMA CountAges ==
    ASSUME Published, Counts, Aged, NEW s \in DOMAIN subs,
           ~subs'[s].blind, subs'[s].limit > 0
    PROVE  Cardinality(UpTo(s)') <= subs'[s].limit
<1>1. subs[s].limit \in Nat /\ subs'[s].limit = subs[s].limit /\ ~subs[s].blind
  <2>1. subs[s] \in Subscribed
    BY DEF Published
  <2>2. subs[s].limit \in Nat
    BY <2>1 DEF Subscribed
  <2>3. subs'[s].limit = subs[s].limit
    BY Zenon DEF Aged
  <2>4. ~subs[s].blind
    BY Zenon DEF Aged
  <2>. QED
    BY <2>2, <2>3, <2>4
<1>2. Cardinality(UpTo(s)) <= subs[s].limit
  BY <1>1 DEF Counts
<1>3. Cardinality(UpTo(s)') <= Cardinality(UpTo(s)) /\ UpTo(s)' \subseteq UpTo(s)
  BY RivalsAge DEF Published
<1>4. /\ IsFiniteSet(UpTo(s)) /\ Cardinality(UpTo(s)) \in Nat
      /\ Cardinality(UpTo(s)') \in Nat
  BY <1>3, UpToFinite, FS_Subset, FS_CardinalityType DEF Published
<1>. QED
  BY <1>1, <1>2, <1>3, <1>4

\* And calls that wait do so for the same subscription.
LEMMA CallsAge ==
    ASSUME Calls, Aged, Published, UNCHANGED call
    PROVE  Calls'
<1>1. ASSUME NEW c \in Callers, call[c].at = "awaiting"
      PROVE  call[c].sub \in DOMAIN subs' /\ call[c].trial = subs'[call[c].sub].trial
  <2>1. call[c].sub \in DOMAIN subs /\ call[c].trial = subs[call[c].sub].trial
    BY <1>1 DEF Calls
  <2>2. subs'[call[c].sub].trial = subs[call[c].sub].trial
    BY <2>1, Zenon DEF Aged
  <2>3. DOMAIN subs \subseteq DOMAIN subs'
    BY DEF Aged, Published
  <2>. QED
    BY <2>1, <2>2, <2>3
<1>. QED
  BY <1>1 DEF Calls

\* What a listing has found keeps its place, and gets no younger.
LEMMA ListingsAge ==
    ASSUME Listings, Published, Aged, UNCHANGED listing
    PROVE  Listings'
<1>1. ASSUME NEW sr \in listing.found
      PROVE  sr \in Runs' /\ HasGotTo(listing.phase, subs'[sr[1]])
  <2>1. sr \in Runs /\ HasGotTo(listing.phase, subs[sr[1]])
        /\ listing.phase \in Entries \cup {""}
    BY FiltersAssumption DEF Listings, ListedHaveGotThere
  <2>2. /\ sr = <<sr[1], sr[2]>> /\ sr[1] \in DOMAIN subs /\ sr[2] \in 1..MaxRuns
        /\ sr[2] <= subs[sr[1]].run
    <3>1. sr \in (DOMAIN subs) \X (1..MaxRuns) /\ sr[2] <= subs[sr[1]].run
      BY <2>1 DEF Runs
    <3>. QED
      BY <3>1
  <2>3. subs[sr[1]].run \in Nat /\ subs'[sr[1]].run \in Nat /\ sr[1] \in DOMAIN subs'
    <3>1. sr[1] \in DOMAIN subs'
      BY <2>2 DEF Aged, Published
    <3>2. subs[sr[1]] \in Subscribed /\ subs'[sr[1]] \in Subscribed
      BY <2>2, <3>1 DEF Aged, Published
    <3>. QED
      BY <3>1, <3>2, ServiceBounds DEF Subscribed
  <2>4. subs'[sr[1]].run >= subs[sr[1]].run
    BY <2>2 DEF Aged
  <2>5. sr[2] <= subs'[sr[1]].run
    BY <2>2, <2>3, <2>4, ServiceBounds
  <2>6. sr \in Runs'
    BY <2>2, <2>3, <2>5 DEF Runs
  <2>7. HasGotTo(listing.phase, subs'[sr[1]])
    <3>1. CASE listing.phase \in Entries
      BY <2>1, <2>2, <3>1 DEF Aged
    <3>2. CASE listing.phase = ""
      BY <3>2 DEF HasGotTo
    <3>. QED
      BY <2>1, <3>1, <3>2
  <2>. QED
    BY <2>6, <2>7
<1>. QED
  BY <1>1 DEF Listings, ListedHaveGotThere

\* Where no subscription changes, there is nothing to show.
LEMMA ListingsStand ==
    ASSUME Listings, UNCHANGED <<listing, subs>>
    PROVE  Listings'
BY DEF Listings, ListedHaveGotThere, Runs

-----------------------------------------------------------------------------
(* The steps *)

\* The process starts up, stops or crashes, and takes its calls with it.
LEMMA ApiStep == IInv /\ ApiProcess => IInv'
<1>. SUFFICES ASSUME IInv, ApiProcess PROVE IInv'
  OBVIOUS
<1>. USE DEF IInv, catalog
<1>1. UNCHANGED <<catalog, subs, published>>
  BY DEF ApiProcess
<1>6. Listings'
  <2>1. CASE UNCHANGED listing
    BY <1>1, <2>1, ListingsStand
  <2>2. CASE listing' = NoListing
    BY <2>2 DEF NoListing, Listings, ListedHaveGotThere
  <2>. QED
    BY <2>1, <2>2 DEF ApiProcess
<1>2. Kept' /\ OneCodeOnePlan'
  BY <1>1 DEF Kept, OneCodeOnePlan
<1>3. Published' /\ Counts'
  BY <1>1 DEF Published, Counts, UpTo, Rivals, Live
<1>4. Calls'
  <2>1. CASE UNCHANGED call
    BY <1>1, <2>1 DEF Calls
  <2>2. CASE call' = [c \in Callers |-> Idle]
    <3>1. Idle \in Call
      BY DEF Idle, Call
    <3>2. Idle.at = "idle"
      BY DEF Idle
    <3>. HIDE DEF Idle
    <3>. QED
      BY <2>2, <3>1, <3>2 DEF Calls
  <2>. QED
    BY <2>1, <2>2 DEF ApiProcess
<1>5. Indexed'
  <2>1. CASE Api!Start \/ Api!Crash
    BY <2>1, ApiMain DEF Indexed, Api!Start, Api!Crash
  <2>2. CASE Api!Succeed \/ Api!Fail
    <3>1. apiStage \in 1..10
      BY <2>2, ApiMain DEF Api!Succeed, Api!Fail, Api!Starting
    <3>2. apiPrepared \subseteq apiPrepared' /\ apiPrepared' \subseteq ApiDurable
      BY <2>2 DEF Indexed, Api!Succeed, Api!Fail, Api!TakesEffect
    <3>3. apiStage' \in {0, apiStage + 1}
      BY <2>2 DEF Api!Succeed, Api!Fail
    <3>4. CASE apiStage' = apiStage + 1 /\ apiStage = 2
      BY <2>2, <3>2, <3>4, ApiMain DEF Indexed, Api!Succeed, Api!Fail, Api!TakesEffect
    <3>. QED
      BY <3>1, <3>2, <3>3, <3>4, ApiMain DEF Indexed
  <2>. QED
    BY <2>1, <2>2 DEF ApiProcess
<1>. QED
  BY <1>2, <1>3, <1>4, <1>5, <1>6

\* Plans come and go.
LEMMA PlanStep == IInv /\ PlanService => IInv'
<1>. SUFFICES ASSUME IInv, PlanService PROVE IInv'
  OBVIOUS
<1>. USE DEF IInv, api
<1>1. UNCHANGED <<api, call, listing, subs, published>>
  BY DEF PlanService
<1>2. Calls' /\ Published' /\ Counts' /\ Indexed' /\ Listings'
  BY <1>1, ListingsStand DEF Calls, Published, Counts, UpTo, Rivals, Live, Indexed
<1>3. ASSUME NEW r \in PlanRequests, CreatePlan(r, "plans_code_unique" \in apiPrepared)
      PROVE  Kept' /\ OneCodeOnePlan'
  <2>. DEFINE p == BuildPlan(r)
              n == Len(built) + 1
  <2>1. "plans_code_unique" \in apiPrepared
    BY ApiMain DEF PlanService, Api!Serving, Indexed
  <2>2. p \in PlanRecord
    BY <1>3, BuildPlanType DEF CreatePlan
  <2>8. p.Code = r.Code
    <3>1. r \in CreatePlanRequest
      BY RequestsAssumption
    <3>. QED
      BY <3>1 DEF BuildPlan, CreatePlanRequest
  <2>3. /\ built' = Append(built, p)
        /\ documents' = [i \in DOMAIN documents \cup {n} |->
                            IF i = n THEN PlanToDoc(p) ELSE documents[i]]
        /\ \A i \in DOMAIN documents : documents[i].Code # r.Code
    BY <1>3, <2>1, <2>8 DEF CreatePlan, Insert, FreshPlanID
  <2>4. p.Code = r.Code /\ PlanToDoc(p).Code = r.Code
    <3>. HIDE DEF p
    <3>1. PlanToDoc(p).Code = p.Code
      BY <2>2 DEF PlanToDoc, PlanRecord
    <3>. QED
      BY <2>8, <3>1
  <2>. HIDE DEF p
  <2>5. Kept'
    BY <2>2, <2>3 DEF Kept
  <2>6. n \notin DOMAIN documents
    BY DEF Kept
  <2>7. OneCodeOnePlan'
    BY <2>3, <2>4, <2>6 DEF OneCodeOnePlan
  <2>. QED
    BY <2>5, <2>7
<1>4. ASSUME NEW id \in 1..MaxPlans, Delete(id)
      PROVE  Kept' /\ OneCodeOnePlan'
  BY <1>4 DEF Delete, Kept, OneCodeOnePlan
<1>. QED
  BY <1>2, <1>3, <1>4 DEF PlanService

\* A call that only changes itself.
LEMMA CallAlone ==
    ASSUME IInv, NEW c \in Callers, NEW k \in Call, call' = [call EXCEPT ![c] = k],
           k.at \in {"counting", "starting"} => k.user \in Users /\ k.code \in Codes,
           k.at = "counting" => k.limit > 0,
           k.at = "starting" /\ k.limit > 0 =>
               IsFiniteSet(k.seen) /\ Cardinality(k.seen) < k.limit,
           k.at # "awaiting",
           UNCHANGED <<catalog, api, listing, subs, published>>
    PROVE  IInv'
<1>. USE DEF IInv, catalog, api
<1>1. Kept' /\ OneCodeOnePlan' /\ Indexed' /\ Published' /\ Counts'
  BY DEF Kept, OneCodeOnePlan, Indexed, Published, Counts, UpTo, Rivals, Live
<1>2. Calls' /\ Listings'
  BY ListingsStand DEF Calls
<1>. QED
  BY <1>1, <1>2

\* An idle call.
LEMMA IdleType == Idle \in Call /\ Idle.at = "idle"
BY DEF Idle, Call

\* The plan is read.
LEMMA GetPlanStep ==
    ASSUME IInv, NEW c \in Callers, NEW user \in Users, NEW id \in 1..MaxPlans,
           GetPlanOf(c, user, id)
    PROVE  IInv'
<1>. DEFINE p == Get(id)
            k == [Idle EXCEPT !.at = IF p.PerUserLimit > 0 THEN "counting" ELSE "starting",
                              !.user = user, !.code = p.Code, !.limit = p.PerUserLimit,
                              !.trial = p.Terms.TrialDuration]
<1>1. p \in PlanRecord
  <2>1. id \in DOMAIN documents /\ id \in DOMAIN built
    BY DEF GetPlanOf, IInv, Kept
  <2>. QED
    BY <2>1, RoundTrip DEF IInv, Kept, Get
<1>. HIDE DEF p
<1>2. p.PerUserLimit \in Nat /\ p.Code \in Codes /\ p.Terms.TrialDuration \in Int
  BY <1>1, DurationType DEF PlanRecord, Plan
<1>3. k \in Call
  BY <1>2 DEF Idle, Call
<1>4. /\ k.at = IF p.PerUserLimit > 0 THEN "counting" ELSE "starting"
      /\ k.user = user /\ k.code = p.Code /\ k.limit = p.PerUserLimit
  BY DEF Idle
<1>5. call' = [call EXCEPT ![c] = k] /\ UNCHANGED <<catalog, api, listing, subs, published>>
  BY DEF GetPlanOf, p
<1>. HIDE DEF k
<1>. QED
  BY <1>2, <1>3, <1>4, <1>5, CallAlone

\* A rival that a view shows is one of the runs that it counts.
LEMMA SeenAreCounted ==
    ASSUME IInv, NEW user, NEW code, NEW view \in Readings(RunsOf(user, code)),
           IsFiniteSet(Runs)
    PROVE  LET seen == Seen(view) \cap Rivals(user, code) IN
           IsFiniteSet(seen) /\ Cardinality(seen) <= Cardinality(Counted(view))
                             /\ Cardinality(Counted(view)) \in Nat
<1>. DEFINE seen == Seen(view) \cap Rivals(user, code)
            subOf == [sr \in Counted(view) |-> sr[1]]
<1>1. DOMAIN view = RunsOf(user, code) /\ \A sr \in DOMAIN view : view[sr] \in Shown(sr)
  BY DEF Readings
<1>2. Counted(view) \subseteq Runs
  BY <1>1 DEF Counted, RunsOf
<1>3. IsFiniteSet(Counted(view)) /\ Cardinality(Counted(view)) \in Nat
  BY <1>2, FS_Subset, FS_CardinalityType
<1>4. ASSUME NEW s \in seen PROVE \E sr \in Counted(view) : sr[1] = s
  <2>1. PICK sr \in DOMAIN view : view[sr] # "closed" /\ sr[1] = s
    BY DEF Seen, Running
  <2>2. sr \in Runs /\ s \in DOMAIN subs /\ sr[2] \in 1..subs[s].run
    <3>1. sr \in Runs
      BY <1>1 DEF RunsOf
    <3>2. sr \in (DOMAIN subs) \X (1..MaxRuns) /\ sr[2] <= subs[sr[1]].run
      BY <3>1 DEF Runs
    <3>3. sr[1] \in DOMAIN subs /\ sr[2] \in 1..MaxRuns
      BY <3>2
    <3>4. subs[s].run \in Nat
      <4>1. subs[s] \in Subscribed
        BY <2>1, <3>3 DEF IInv, Published
      <4>. QED
        BY <4>1, ServiceBounds DEF Subscribed
    <3>. QED
      BY <2>1, <3>1, <3>2, <3>3, <3>4, ServiceBounds
  <2>3. view[sr] \in published[s][sr[2]]
    BY <1>1, <2>1 DEF Shown
  <2>4. subs[s].phase # "deactivated"
    BY DEF Rivals, Live
  <2>5. sr[2] \in DOMAIN published[s] /\ published[s][sr[2]] \subseteq Entries
    <3>1. s \in DOMAIN published
      BY <2>2 DEF IInv, Published
    <3>2. published[s] \in Seq(SUBSET Entries) /\ Len(published[s]) = subs[s].run
      BY <2>2, <3>1 DEF IInv, Published
    <3>. QED
      BY <2>2, <3>2
  <2>6. view[sr] # "deactivated"
    BY <2>1, <2>2, <2>3, <2>4, <2>5 DEF IInv, Published, HasGotTo
  <2>7. view[sr] \in CountedPhases
    BY <2>3, <2>5, <2>6 DEF Entries
  <2>. QED
    BY <2>1, <2>7 DEF Counted
<1>. DEFINE image == {subOf[sr] : sr \in Counted(view)}
<1>5. IsFiniteSet(image) /\ Cardinality(image) <= Cardinality(Counted(view))
  <2>. HIDE DEF subOf
  <2>1. subOf \in Surjection(Counted(view), image)
    BY DEF subOf, Surjection
  <2>. QED
    BY <1>3, <2>1, FS_Surjection
<1>6. seen \subseteq image
  BY <1>4
<1>7. IsFiniteSet(seen) /\ Cardinality(seen) <= Cardinality(image)
  BY <1>5, <1>6, FS_Subset
<1>8. Cardinality(seen) \in Nat /\ Cardinality(image) \in Nat
  BY <1>5, <1>7, FS_CardinalityType
<1>. QED
  BY <1>3, <1>5, <1>7, <1>8

\* There are finitely many runs.
LEMMA RunsFinite == IInv => IsFiniteSet(Runs)
<1>. SUFFICES ASSUME IInv PROVE IsFiniteSet(Runs)
  OBVIOUS
<1>1. IsFiniteSet(DOMAIN subs)
  BY FS_Interval DEF IInv, Published
<1>2. IsFiniteSet(1..MaxRuns)
  BY ServiceBounds, FS_Interval
<1>3. IsFiniteSet((DOMAIN subs) \X (1..MaxRuns))
  BY <1>1, <1>2, FS_Product
<1>. QED
  BY <1>3, FS_Subset DEF Runs

\* The rivals are counted.
LEMMA CountStep ==
    ASSUME IInv, NEW c \in Callers, CountActiveForUser(c)
    PROVE  IInv'
<1>. DEFINE k == call[c]
<1>1. /\ k \in Call /\ k.at = "counting" /\ k.user \in Users /\ k.code \in Codes
      /\ UNCHANGED <<catalog, api, listing, subs, published>>
  BY DEF CountActiveForUser, IInv, Calls
<1>2. PICK view \in Readings(RunsOf(k.user, k.code)) : call' = [call EXCEPT ![c] = Checked(k, view)]
  BY DEF CountActiveForUser
<1>. HIDE DEF k
<1>3. CASE ~BelowLimit(k, Cardinality(Counted(view)))
  <2>1. Checked(k, view) = Idle
    BY <1>3 DEF Checked
  <2>. QED
    BY <1>1, <1>2, <2>1, IdleType, CallAlone
<1>4. CASE BelowLimit(k, Cardinality(Counted(view)))
  <2>. DEFINE seen == Seen(view) \cap Rivals(k.user, k.code)
              next == [k EXCEPT !.at = "starting", !.seen = seen]
  <2>1. Checked(k, view) = next
    BY <1>4 DEF Checked
  <2>2. /\ IsFiniteSet(seen) /\ Cardinality(seen) <= Cardinality(Counted(view))
        /\ Cardinality(Counted(view)) \in Nat
    BY RunsFinite, SeenAreCounted
  <2>3. seen \subseteq Nat
    BY DEF Rivals, IInv, Published
  <2>4. Cardinality(seen) \in Nat
    BY <2>2, FS_CardinalityType
  <2>. HIDE DEF seen
  <2>5. /\ next \in Call /\ next.at = "starting" /\ next.seen = seen /\ next.user = k.user
        /\ next.code = k.code /\ next.limit = k.limit /\ k.limit \in Nat
    BY <1>1, <2>3 DEF Call
  <2>6. Cardinality(seen) < k.limit
    BY <1>4, <2>2, <2>4, <2>5 DEF BelowLimit
  <2>. HIDE DEF next
  <2>. QED
    BY <1>1, <1>2, <2>1, <2>2, <2>5, <2>6, CallAlone
<1>. QED
  BY <1>3, <1>4

\* A workflow is started.
LEMMA StartStep ==
    ASSUME IInv, NEW c \in Callers, StartWorkflow(c)
    PROVE  IInv'
<1>. DEFINE k == call[c]
            unseen == ~(Rivals(k.user, k.code) \subseteq k.seen)
            new == [user |-> k.user, code |-> k.code, limit |-> k.limit, trial |-> k.trial,
                    phase |-> "starting", run |-> 1, open |-> TRUE, paid |-> FALSE,
                    blind |-> unseen, told |-> "nothing"]
            n == Len(subs) + 1
            next == [Idle EXCEPT !.at = "awaiting", !.trial = k.trial, !.sub = n]
            entry == {IF k.trial > 0 THEN "trialing" ELSE "active"}
<1>1. /\ k \in Call /\ k.at = "starting" /\ k.user \in Users /\ k.code \in Codes
      /\ subs \in Seq(Subscribed) /\ n \in Nat
  BY DEF StartWorkflow, IInv, Calls, Published
<1>2. /\ subs' = Append(subs, new) /\ published' = Append(published, <<entry>>)
      /\ call' = [call EXCEPT ![c] = next] /\ UNCHANGED <<catalog, api, listing>>
  <2>. DEFINE w == Started(k.trial)
  <2>1. /\ w.phase = "starting" /\ w.run = 1 /\ w.trial = k.trial /\ w.open = TRUE
        /\ w.paid = FALSE /\ PhaseAttr(w) = IF k.trial > 0 THEN "trialing" ELSE "active"
    BY DEF Started, PhaseAttr
  <2>2. /\ subs' = Append(subs,
               [user |-> k.user, code |-> k.code, limit |-> k.limit, trial |-> w.trial,
                phase |-> w.phase, run |-> w.run, open |-> w.open, paid |-> w.paid,
                blind |-> unseen, told |-> "nothing"])
        /\ published' = Append(published, <<{PhaseAttr(w)}>>)
        /\ call' = [call EXCEPT ![c] = next] /\ UNCHANGED <<catalog, api, listing>>
    BY DEF StartWorkflow
  <2>. HIDE DEF w
  <2>. QED
    BY <2>1, <2>2
<1>3. k.limit > 0 => IsFiniteSet(k.seen) /\ Cardinality(k.seen) < k.limit
  BY <1>1 DEF IInv, Calls
<1>4. new \in Subscribed
  <2>1. k.limit \in Nat /\ k.trial \in Int
    BY <1>1 DEF Call
  <2>2. 1 \in 1..MaxRuns /\ unseen \in BOOLEAN
    BY ServiceBounds
  <2>. HIDE DEF k, unseen
  <2>. QED
    BY <1>1, <2>1, <2>2 DEF Subscribed
<1>5. /\ new.user = k.user /\ new.code = k.code /\ new.limit = k.limit /\ new.run = 1
      /\ new.trial = k.trial /\ k.limit \in Nat /\ new.blind = unseen
  BY <1>1 DEF Call
<1>6. next \in Call /\ next.at = "awaiting" /\ next.trial = k.trial /\ next.sub = n
  BY <1>1 DEF Idle, Call
<1>7. entry \in SUBSET Entries /\ \A to \in entry : HasGotTo(to, new)
  <2>1. new.phase = "starting" /\ new.run = 1 /\ new.trial = k.trial /\ k.trial \in Int
    BY <1>1 DEF Call
  <2>. HIDE DEF new, k
  <2>2. CASE k.trial > 0
    BY <2>1, <2>2 DEF Entries, CountedPhases, HasGotTo
  <2>3. CASE ~(k.trial > 0)
    BY <2>1, <2>3 DEF Entries, CountedPhases, HasGotTo
  <2>. QED
    BY <2>2, <2>3
<1>. HIDE DEF k, unseen, new, next, entry
<1>8. /\ subs' \in Seq(Subscribed) /\ Len(subs') = n /\ subs'[n] = new
      /\ DOMAIN subs' = (DOMAIN subs) \cup {n} /\ n \notin DOMAIN subs
      /\ \A s \in DOMAIN subs : subs'[s] = subs[s]
  BY <1>1, <1>2, <1>4
<1>9. Aged
  <2>1. Len(subs') >= Len(subs)
    BY <1>1, <1>8
  <2>2. \A s \in DOMAIN subs : subs[s].run \in Nat
    <3>1. \A s \in DOMAIN subs : subs[s] \in Subscribed
      BY <1>1
    <3>2. \A w \in Subscribed : w.run \in Nat
      BY ServiceBounds DEF Subscribed
    <3>. QED
      BY <3>1, <3>2
  <2>. QED
    BY <1>8, <2>1, <2>2 DEF Aged
<1>10. Kept' /\ OneCodeOnePlan' /\ Indexed'
  BY <1>2 DEF IInv, Kept, OneCodeOnePlan, Indexed, catalog, api
<1>11. Published'
  <2>1. /\ published \in Seq(Seq(SUBSET Entries)) /\ Len(published) = Len(subs)
        /\ <<entry>> \in Seq(SUBSET Entries)
    BY <1>7 DEF IInv, Published
  <2>2. /\ published' \in Seq(Seq(SUBSET Entries)) /\ Len(published') = n
        /\ published'[n] = <<entry>>
        /\ \A s \in DOMAIN subs : published'[s] = published[s]
    BY <1>2, <1>1, <2>1
  <2>3. Len(published'[n]) = subs'[n].run
        /\ \A m \in DOMAIN published'[n] :
               \A to \in published'[n][m] : HasGotTo(to, subs'[n])
    BY <1>5, <1>7, <1>8, <2>2
  <2>. QED
    BY <1>8, <2>2, <2>3 DEF IInv, Published
<1>12. Calls'
  <2>1. ASSUME NEW d \in Callers, d # c
        PROVE  call'[d] = call[d]
    BY <1>2, <2>1 DEF IInv, Calls
  <2>2. call'[c] = next /\ call' \in [Callers -> Call]
    BY <1>2, <1>6 DEF IInv, Calls
  <2>3. ASSUME NEW d \in Callers, d # c, call[d].at = "awaiting"
        PROVE  call[d].sub \in DOMAIN subs' /\ call[d].trial = subs'[call[d].sub].trial
    BY <1>8, <2>3 DEF IInv, Calls
  <2>4. n \in DOMAIN subs' /\ next.trial = subs'[n].trial
    BY <1>5, <1>6, <1>8
  <2>. QED
    BY <1>6, <2>1, <2>2, <2>3, <2>4 DEF IInv, Calls
<1>13. Counts'
  <2>. SUFFICES ASSUME NEW s \in DOMAIN subs', ~subs'[s].blind, subs'[s].limit > 0
                PROVE  Cardinality(UpTo(s)') <= subs'[s].limit
    BY DEF Counts
  <2>1. CASE s \in DOMAIN subs
    BY <1>9, <2>1, CountAges DEF IInv
  <2>2. CASE s = n
    <3>1. Rivals(k.user, k.code) \subseteq k.seen
      BY <1>5, <1>8, <2>2 DEF unseen
    <3>2. ASSUME NEW t \in UpTo(s)', t # s PROVE t \in Rivals(k.user, k.code)
      <4>1. /\ t \in DOMAIN subs' /\ subs'[t].user = subs'[s].user
            /\ subs'[t].code = subs'[s].code /\ subs'[t].phase # "deactivated"
        BY <3>2 DEF UpTo, Rivals, Live
      <4>2. t \in DOMAIN subs /\ subs'[t] = subs[t]
        BY <1>8, <2>2, <3>2, <4>1
      <4>3. /\ subs[t].user = k.user /\ subs[t].code = k.code
            /\ subs[t].phase # "deactivated"
        BY <1>5, <1>8, <2>2, <4>1, <4>2
      <4>. QED
        BY <4>2, <4>3 DEF Rivals, Live
    <3>3. UpTo(s)' \subseteq k.seen \cup {n}
      BY <2>2, <3>1, <3>2
    <3>4. IsFiniteSet(k.seen) /\ Cardinality(k.seen) < k.limit
          /\ Cardinality(k.seen) \in Nat
      BY <1>3, <1>5, <1>8, <2>2, FS_CardinalityType
    <3>5. IsFiniteSet(k.seen \cup {n}) /\ Cardinality(k.seen \cup {n}) \in Nat
          /\ Cardinality(k.seen \cup {n}) <= Cardinality(k.seen) + 1
      <4>. DEFINE seen == k.seen
      <4>1. IsFiniteSet(seen) /\ Cardinality(seen) \in Nat
        BY <3>4
      <4>. HIDE DEF seen
      <4>2. /\ IsFiniteSet(seen \cup {n})
            /\ \/ Cardinality(seen \cup {n}) = Cardinality(seen)
               \/ Cardinality(seen \cup {n}) = Cardinality(seen) + 1
        BY <4>1, FS_AddElement
      <4>3. Cardinality(seen \cup {n}) \in Nat
        BY <4>2, FS_CardinalityType
      <4>. QED
        BY <4>1, <4>2, <4>3 DEF seen
    <3>6. Cardinality(UpTo(s)') <= Cardinality(k.seen \cup {n})
          /\ Cardinality(UpTo(s)') \in Nat
      <4>. DEFINE upto == UpTo(s)'
                  all == k.seen \cup {n}
      <4>1. IsFiniteSet(all) /\ upto \subseteq all
        BY <3>3, <3>5
      <4>. HIDE DEF upto, all
      <4>2. IsFiniteSet(upto) /\ Cardinality(upto) <= Cardinality(all)
        BY <4>1, FS_Subset
      <4>3. Cardinality(upto) \in Nat
        BY <4>2, FS_CardinalityType
      <4>. QED
        BY <4>2, <4>3 DEF upto, all
    <3>. QED
      BY <1>5, <1>8, <2>2, <3>4, <3>5, <3>6
  <2>. QED
    BY <1>8, <2>1, <2>2
<1>14. Listings'
  BY <1>2, <1>9, ListingsAge DEF IInv
<1>. QED
  BY <1>10, <1>11, <1>12, <1>13, <1>14 DEF IInv

\* A step that only ages the subscriptions.
LEMMA AgingStep ==
    ASSUME IInv, Aged, Published', DOMAIN subs' = DOMAIN subs,
           UNCHANGED <<catalog, api, call, listing>>
    PROVE  IInv'
<1>1. Kept' /\ OneCodeOnePlan' /\ Indexed'
  BY DEF IInv, Kept, OneCodeOnePlan, Indexed, catalog, api
<1>2. Counts'
  BY CountAges DEF Counts, IInv
<1>3. Calls' /\ Listings'
  BY CallsAge, ListingsAge DEF IInv
<1>. QED
  BY <1>1, <1>2, <1>3 DEF IInv

\* What becomes of the others when one subscription changes.
LEMMA OneChanges ==
    ASSUME subs \in Seq(Subscribed), NEW s \in DOMAIN subs, NEW new \in Subscribed,
           subs' = [subs EXCEPT ![s] = new]
    PROVE  /\ subs' \in Seq(Subscribed) /\ Len(subs') = Len(subs)
           /\ DOMAIN subs' = DOMAIN subs
           /\ subs'[s] = new /\ \A t \in DOMAIN subs : t # s => subs'[t] = subs[t]
OBVIOUS

\* A change that ages one subscription ages them all.
LEMMA OneAges ==
    ASSUME subs \in Seq(Subscribed), NEW s \in DOMAIN subs, NEW new \in Subscribed,
           subs' = [subs EXCEPT ![s] = new],
           new.user = subs[s].user, new.code = subs[s].code, new.limit = subs[s].limit,
           new.trial = subs[s].trial, new.blind = subs[s].blind,
           new.run >= subs[s].run,
           \A to \in Entries : HasGotTo(to, subs[s]) => HasGotTo(to, new)
    PROVE  Aged
<1>0. subs[s].phase = "deactivated" => new.phase = "deactivated"
  BY DEF HasGotTo, Entries
<1>1. /\ subs' \in Seq(Subscribed) /\ Len(subs') = Len(subs)
      /\ subs'[s] = new /\ \A t \in DOMAIN subs : t # s => subs'[t] = subs[t]
  BY OneChanges
<1>2. Len(subs') >= Len(subs)
  BY <1>1
<1>3. ASSUME NEW t \in DOMAIN subs
      PROVE  /\ subs'[t].user = subs[t].user /\ subs'[t].code = subs[t].code
             /\ subs'[t].limit = subs[t].limit /\ subs'[t].trial = subs[t].trial
             /\ subs'[t].blind = subs[t].blind
             /\ subs[t].phase = "deactivated" => subs'[t].phase = "deactivated"
             /\ \A to \in Entries : HasGotTo(to, subs[t]) => HasGotTo(to, subs'[t])
  <2>1. CASE t = s
    BY <1>0, <1>1, <2>1, Zenon
  <2>2. CASE t # s
    BY <1>1, <2>2, Zenon
  <2>. QED
    BY <2>1, <2>2
<1>4. ASSUME NEW t \in DOMAIN subs PROVE subs'[t].run >= subs[t].run
  <2>1. subs[t] \in Subscribed
    OBVIOUS
  <2>2. subs[t].run \in Nat
    BY <2>1, ServiceBounds DEF Subscribed
  <2>. QED
    BY <1>1, <2>2
<1>. QED
  BY <1>1, <1>2, <1>3, <1>4 DEF Aged

\* Workflows tell callers nothing, and who has paid, or was not made to before
\* the end, stays so.
AnswersStand ==
    \A s \in DOMAIN subs :
        /\ subs'[s].told = subs[s].told
        /\ subs[s].paid => subs'[s].paid
        /\ subs[s].phase = "deactivated" => subs'[s].paid = subs[s].paid

\* One subscription's change is enough for that, too.
LEMMA OneStands ==
    ASSUME subs \in Seq(Subscribed), NEW s \in DOMAIN subs, NEW new \in Subscribed,
           subs' = [subs EXCEPT ![s] = new],
           new.told = subs[s].told, subs[s].paid => new.paid,
           subs[s].phase = "deactivated" => new.paid = subs[s].paid
    PROVE  AnswersStand
<1>1. subs'[s] = new /\ \A t \in DOMAIN subs : t # s => subs'[t] = subs[t]
  BY OneChanges
<1>2. ASSUME NEW t \in DOMAIN subs
      PROVE  /\ subs'[t].told = subs[t].told
             /\ subs[t].paid => subs'[t].paid
             /\ subs[t].phase = "deactivated" => subs'[t].paid = subs[t].paid
  <2>1. CASE t = s
    BY <1>1, <2>1, Zenon
  <2>2. CASE t # s
    BY <1>1, <2>2, Zenon
  <2>. QED
    BY <2>1, <2>2
<1>. QED
  BY <1>2, Zenon DEF AnswersStand

\* The phases that a workflow goes to.
LEMMA NextPhasesType ==
    ASSUME NEW s \in Subscribed, NEW to \in NextPhases(s)
    PROVE  to \in Entries /\ s.phase # "deactivated"
BY DEF NextPhases, Entries, CountedPhases, Subscribed

\* No phase change, and no new run, takes a workflow back.
LEMMA GotThere ==
    ASSUME NEW w \in Subscribed, NEW v \in Subscribed, v.trial = w.trial,
           \/ v.phase = w.phase /\ v.run = w.run
           \/ v.phase \in NextPhases(w) /\ v.run = w.run
           \/ w.phase = "active" /\ v.phase = "starting" /\ v.run = w.run + 1,
           NEW to \in Entries, HasGotTo(to, w)
    PROVE  HasGotTo(to, v)
<1>1. /\ w.run \in Nat /\ w.run >= 1 /\ w.trial \in Int
      /\ w.phase \in {"starting", "trialing", "active", "past_due", "canceled", "deactivated"}
      /\ to \in {"trialing", "active", "past_due", "canceled", "deactivated"}
  BY ServiceBounds DEF Subscribed, Entries, CountedPhases
<1>2. CASE v.phase = w.phase /\ v.run = w.run
  BY <1>2 DEF HasGotTo
<1>3. CASE v.phase \in NextPhases(w) /\ v.run = w.run
  BY <1>1, <1>3 DEF HasGotTo, NextPhases
<1>4. CASE w.phase = "active" /\ v.phase = "starting" /\ v.run = w.run + 1
  BY <1>1, <1>4 DEF HasGotTo
<1>. QED
  BY <1>2, <1>3, <1>4

\* A phase change.
LEMMA PhaseStep ==
    ASSUME IInv, NEW s \in DOMAIN subs, ChangePhase(s)
    PROVE  IInv' /\ Aged /\ AnswersStand /\ DOMAIN subs' = DOMAIN subs
<1>. DEFINE r == subs[s].run
<1>1. PICK to \in NextPhases(subs[s]) :
          /\ subs' = [subs EXCEPT ![s] = InPhase(subs[s], to)]
          /\ published' = [published EXCEPT ![s][r] = @ \cup {to}]
  BY DEF ChangePhase
<1>2. /\ subs \in Seq(Subscribed) /\ subs[s] \in Subscribed
      /\ to \in Entries /\ subs[s].phase # "deactivated"
  BY NextPhasesType DEF IInv, Published
<1>. DEFINE pays == subs[s].paid \/ to = "active"
            new == [subs[s] EXCEPT !.phase = to, !.paid = pays]
            entry == published[s][r] \cup {to}
<1>3. new \in Subscribed
  <2>1. pays \in BOOLEAN
    OBVIOUS
  <2>. HIDE DEF pays
  <2>. QED
    BY <1>2, <2>1 DEF Subscribed, Entries
<1>4. /\ new.user = subs[s].user /\ new.code = subs[s].code /\ new.limit = subs[s].limit
      /\ new.trial = subs[s].trial /\ new.blind = subs[s].blind /\ new.phase = to
      /\ new.run = r /\ new.told = subs[s].told /\ (subs[s].paid => new.paid)
  BY <1>2 DEF Subscribed
<1>5. subs' = [subs EXCEPT ![s] = new]
  <2>1. InPhase(subs[s], to) = new
    BY <1>2 DEF Subscribed, InPhase
  <2>. QED
    BY <1>1, <2>1
<1>6. published' = [published EXCEPT ![s] = [@ EXCEPT ![r] = entry]]
  BY <1>1
<1>. HIDE DEF new
<1>7. /\ subs' \in Seq(Subscribed) /\ Len(subs') = Len(subs) /\ DOMAIN subs' = DOMAIN subs
      /\ subs'[s] = new /\ \A t \in DOMAIN subs : t # s => subs'[t] = subs[t]
  BY <1>2, <1>3, <1>5, OneChanges
<1>0. ASSUME NEW x \in Entries, HasGotTo(x, subs[s]) PROVE HasGotTo(x, new)
  BY <1>0, <1>1, <1>2, <1>3, <1>4, GotThere
<1>8. Aged
  <2>1. new.run >= subs[s].run
    BY <1>2, <1>4, ServiceBounds DEF Subscribed
  <2>. QED
    BY <1>0, <1>2, <1>3, <1>4, <1>5, <2>1, OneAges
<1>9. Published'
  <2>1. /\ published \in Seq(Seq(SUBSET Entries)) /\ Len(published) = Len(subs)
        /\ published[s] \in Seq(SUBSET Entries) /\ Len(published[s]) = r
        /\ r \in DOMAIN published[s]
    <3>1. r \in 1..MaxRuns
      BY <1>2 DEF Subscribed
    <3>. QED
      BY <1>2, <3>1, ServiceBounds DEF IInv, Published
  <2>2. entry \in SUBSET Entries
    BY <1>2, <2>1
  <2>. DEFINE list == [published[s] EXCEPT ![r] = entry]
  <2>. HIDE DEF entry, r
  <2>3. list \in Seq(SUBSET Entries) /\ Len(list) = r /\ list[r] = entry
        /\ DOMAIN list = DOMAIN published[s]
        /\ \A m \in DOMAIN list : m # r => list[m] = published[s][m]
    BY <2>1, <2>2
  <2>4. published' = [published EXCEPT ![s] = list]
    BY <1>6
  <2>. HIDE DEF list
  <2>5. /\ published' \in Seq(Seq(SUBSET Entries)) /\ Len(published') = Len(subs)
        /\ published'[s] = list /\ \A t \in DOMAIN subs : t # s => published'[t] = published[t]
    BY <1>2, <2>1, <2>3, <2>4
  <2>6. ASSUME NEW m \in DOMAIN list, NEW x \in list[m]
        PROVE  HasGotTo(x, new)
    <3>1. CASE x = to /\ m = r
      BY <1>2, <1>4, <3>1 DEF HasGotTo, Entries, CountedPhases
    <3>2. ASSUME NEW y \in DOMAIN published[s], x \in published[s][y]
          PROVE  HasGotTo(x, new)
      <4>1. HasGotTo(x, subs[s])
        BY <3>2 DEF IInv, Published
      <4>2. x \in Entries
        BY <2>1, <3>2
      <4>. QED
        BY <1>0, <4>1, <4>2
    <3>. QED
      BY <2>1, <2>3, <2>6, <3>1, <3>2 DEF entry
  <2>7. Len(published'[s]) = subs'[s].run
    BY <1>4, <1>7, <2>3, <2>5
  <2>. QED
    BY <1>7, <2>5, <2>6, <2>7 DEF IInv, Published
<1>10. AnswersStand
  BY <1>2, <1>3, <1>4, <1>5, OneStands
<1>. QED
  BY <1>7, <1>8, <1>9, <1>10, AgingStep DEF ChangePhase

\* So many numbers there are up to n.
LEMMA IntervalCardinality ==
    ASSUME NEW n \in Nat
    PROVE  IsFiniteSet(1..n) /\ Cardinality(1..n) = n
<1>1. IsFiniteSet(1..n) /\ Cardinality(1..n) = IF 1 > n THEN 0 ELSE n - 1 + 1
  BY FS_Interval
<1>. QED
  BY <1>1

\* Every run there is takes its place among the runs.
LEMMA RunsOfOne ==
    ASSUME IInv, NEW s \in DOMAIN subs
    PROVE  subs[s].run \in Nat /\ subs[s].run <= Cardinality(Runs) /\ Cardinality(Runs) \in Nat
<1>. DEFINE r == subs[s].run
            mine == {s} \X (1..r)
<1>1. r \in 1..MaxRuns /\ r \in Nat
  <2>1. subs[s] \in Subscribed
    BY DEF IInv, Published
  <2>. QED
    BY <2>1, ServiceBounds DEF Subscribed
<1>2. mine \subseteq Runs
  <2>. SUFFICES ASSUME NEW sr \in mine PROVE sr \in Runs
    OBVIOUS
  <2>1. sr = <<sr[1], sr[2]>> /\ sr[1] = s /\ sr[2] \in 1..r
    OBVIOUS
  <2>2. sr[2] \in 1..MaxRuns /\ sr[2] <= subs[sr[1]].run
    BY <1>1, <2>1, ServiceBounds
  <2>3. sr \in (DOMAIN subs) \X (1..MaxRuns)
    BY <2>1, <2>2
  <2>. QED
    BY <2>2, <2>3 DEF Runs
<1>3. IsFiniteSet(Runs) /\ Cardinality(Runs) \in Nat /\ Cardinality(mine) <= Cardinality(Runs)
  BY <1>2, RunsFinite, FS_Subset, FS_CardinalityType
<1>4. /\ IsFiniteSet({s}) /\ Cardinality({s}) = 1
      /\ IsFiniteSet(1..r) /\ Cardinality(1..r) = r
  <2>1. IsFiniteSet(1..r) /\ Cardinality(1..r) = r
    BY <1>1, IntervalCardinality
  <2>2. IsFiniteSet({s}) /\ Cardinality({s}) = 1
    BY FS_Singleton
  <2>. QED
    BY <2>1, <2>2
<1>5. Cardinality(mine) = 1 * r
  <2>1. Cardinality({s} \X (1..r)) = Cardinality({s}) * Cardinality(1..r)
    BY <1>4, FS_Product
  <2>. QED
    BY <1>4, <2>1
<1>6. 1 * r = r
  BY <1>1
<1>. QED
  BY <1>1, <1>3, <1>5, <1>6

\* Another run.
LEMMA RunStep ==
    ASSUME IInv, NEW s \in DOMAIN subs, ContinueAsNew(s)
    PROVE  IInv' /\ Aged /\ AnswersStand /\ DOMAIN subs' = DOMAIN subs
<1>. DEFINE r == subs[s].run
            new == [subs[s] EXCEPT !.run = r + 1, !.phase = "starting"]
            list == Append(published[s], {"active"})
<1>1. /\ subs \in Seq(Subscribed) /\ subs[s] \in Subscribed
      /\ subs[s].phase = "active"
  BY DEF IInv, Published, ContinueAsNew, MayRenew
<1>2. r + 1 \in 1..MaxRuns
  BY RunsOfOne, ServiceBounds DEF ContinueAsNew
<1>3. new \in Subscribed
  BY <1>1, <1>2 DEF Subscribed
<1>4. /\ new.user = subs[s].user /\ new.code = subs[s].code /\ new.limit = subs[s].limit
      /\ new.trial = subs[s].trial /\ new.blind = subs[s].blind /\ new.phase = "starting"
      /\ new.run = r + 1 /\ new.told = subs[s].told /\ new.paid = subs[s].paid
  BY <1>1 DEF Subscribed
<1>5. subs' = [subs EXCEPT ![s] = new]
  BY <1>1 DEF ContinueAsNew, InNextRun, Subscribed
<1>6. published' = [published EXCEPT ![s] = list]
  BY DEF ContinueAsNew
<1>. HIDE DEF new, r
<1>7. /\ subs' \in Seq(Subscribed) /\ Len(subs') = Len(subs) /\ DOMAIN subs' = DOMAIN subs
      /\ subs'[s] = new /\ \A t \in DOMAIN subs : t # s => subs'[t] = subs[t]
  BY <1>1, <1>3, <1>5, OneChanges
<1>0. ASSUME NEW x \in Entries, HasGotTo(x, subs[s]) PROVE HasGotTo(x, new)
  BY <1>0, <1>1, <1>3, <1>4, GotThere DEF r
<1>8. Aged
  <2>1. new.run >= subs[s].run
    BY <1>1, <1>4, ServiceBounds DEF Subscribed, r
  <2>. QED
    BY <1>0, <1>1, <1>3, <1>4, <1>5, <2>1, OneAges
<1>9. Published'
  <2>1. /\ published \in Seq(Seq(SUBSET Entries)) /\ Len(published) = Len(subs)
        /\ published[s] \in Seq(SUBSET Entries) /\ Len(published[s]) = r
    BY DEF IInv, Published, r
  <2>2. {"active"} \in SUBSET Entries
    BY DEF Entries, CountedPhases
  <2>3. /\ list \in Seq(SUBSET Entries) /\ Len(list) = r + 1 /\ list[r + 1] = {"active"}
        /\ \A m \in DOMAIN list : m # r + 1 => m \in DOMAIN published[s]
                                                /\ list[m] = published[s][m]
    BY <2>1, <2>2
  <2>. HIDE DEF list
  <2>4. /\ published' \in Seq(Seq(SUBSET Entries)) /\ Len(published') = Len(subs)
        /\ published'[s] = list /\ \A t \in DOMAIN subs : t # s => published'[t] = published[t]
    BY <1>6, <2>1, <2>3
  <2>5. ASSUME NEW m \in DOMAIN list, NEW x \in list[m] PROVE HasGotTo(x, new)
    <3>1. CASE m = r + 1
      <4>1. x = "active" /\ new.phase = "starting" /\ new.run # 1
        BY <1>1, <1>2, <1>4, <2>3, <2>5, <3>1, ServiceBounds DEF r, Subscribed
      <4>. QED
        BY <4>1 DEF HasGotTo
    <3>2. CASE m # r + 1
      <4>1. m \in DOMAIN published[s] /\ x \in published[s][m]
        BY <2>3, <2>5, <3>2
      <4>2. HasGotTo(x, subs[s]) /\ x \in Entries
        BY <2>1, <4>1 DEF IInv, Published
      <4>. QED
        BY <1>0, <4>2
    <3>. QED
      BY <3>1, <3>2
  <2>6. Len(published'[s]) = subs'[s].run
    BY <1>4, <1>7, <2>3, <2>4
  <2>. QED
    BY <1>7, <2>4, <2>5, <2>6 DEF IInv, Published
<1>10. AnswersStand
  BY <1>1, <1>3, <1>4, <1>5, OneStands
<1>. QED
  BY <1>7, <1>8, <1>9, <1>10, AgingStep DEF ContinueAsNew

\* A change that leaves runs, phases and what they have published alone.
LEMMA QuietChange ==
    ASSUME IInv, NEW s \in DOMAIN subs, NEW new \in Subscribed,
           subs' = [subs EXCEPT ![s] = new], UNCHANGED published,
           new.run = subs[s].run, new.phase = subs[s].phase, new.trial = subs[s].trial
    PROVE  Published' /\ DOMAIN subs' = DOMAIN subs
<1>1. /\ subs' \in Seq(Subscribed) /\ Len(subs') = Len(subs) /\ DOMAIN subs' = DOMAIN subs
      /\ subs'[s] = new /\ \A t \in DOMAIN subs : t # s => subs'[t] = subs[t]
  BY OneChanges DEF IInv, Published
<1>2. \A t \in DOMAIN subs : /\ subs'[t].run = subs[t].run
                              /\ subs'[t].phase = subs[t].phase
                              /\ subs'[t].trial = subs[t].trial
  BY <1>1
<1>3. \A t \in DOMAIN subs : \A to : HasGotTo(to, subs'[t]) <=> HasGotTo(to, subs[t])
  BY <1>2 DEF HasGotTo
<1>. QED
  BY <1>1, <1>2, <1>3 DEF IInv, Published

\* Such a change ages nothing.
LEMMA QuietlyOlder ==
    ASSUME subs \in Seq(Subscribed), NEW s \in DOMAIN subs, NEW new \in Subscribed,
           subs' = [subs EXCEPT ![s] = new],
           new.user = subs[s].user, new.code = subs[s].code, new.limit = subs[s].limit,
           new.trial = subs[s].trial, new.blind = subs[s].blind,
           new.run = subs[s].run, new.phase = subs[s].phase
    PROVE  Aged
<1>1. subs[s] \in Subscribed
  OBVIOUS
<1>2. new.run >= subs[s].run
  BY <1>1, ServiceBounds DEF Subscribed
<1>3. \A to \in Entries : HasGotTo(to, subs[s]) => HasGotTo(to, new)
  BY <1>1, GotThere
<1>. QED
  BY <1>2, <1>3, OneAges

\* A workflow completes.
LEMMA CompleteStep ==
    ASSUME IInv, NEW s \in DOMAIN subs, Complete(s)
    PROVE  IInv' /\ Aged /\ AnswersStand /\ DOMAIN subs' = DOMAIN subs
<1>. DEFINE new == [subs[s] EXCEPT !.open = FALSE]
<1>1. subs \in Seq(Subscribed) /\ subs[s] \in Subscribed
  BY DEF IInv, Published
<1>2. new \in Subscribed
  BY <1>1 DEF Subscribed
<1>3. /\ new.user = subs[s].user /\ new.code = subs[s].code /\ new.limit = subs[s].limit
      /\ new.trial = subs[s].trial /\ new.blind = subs[s].blind
      /\ new.phase = subs[s].phase /\ new.run = subs[s].run
      /\ new.told = subs[s].told /\ new.paid = subs[s].paid
  BY <1>1 DEF Subscribed
<1>4. subs' = [subs EXCEPT ![s] = new] /\ UNCHANGED <<catalog, api, call, listing, published>>
  BY DEF Complete, Closed
<1>. HIDE DEF new
<1>5. Aged
  BY <1>1, <1>2, <1>3, <1>4, QuietlyOlder
<1>6. Published' /\ DOMAIN subs' = DOMAIN subs
  BY <1>2, <1>3, <1>4, QuietChange
<1>7. AnswersStand
  BY <1>1, <1>2, <1>3, <1>4, OneStands
<1>. QED
  BY <1>4, <1>5, <1>6, <1>7, AgingStep

\* What a caller can be told.
LEMMA OutcomeType ==
    ASSUME NEW c \in Callers
    PROVE  Outcome(c) \in {"nothing", "active", "trialing", "declined"}
BY DEF Outcome

\* A call returns.
LEMMA ReturnStep ==
    ASSUME IInv, NEW c \in Callers, Return(c)
    PROVE  IInv'
<1>. DEFINE s == call[c].sub
            out == Outcome(c)
            new == [subs[s] EXCEPT !.told = out]
<1>1. /\ s \in DOMAIN subs /\ subs \in Seq(Subscribed) /\ subs[s] \in Subscribed
      /\ call \in [Callers -> Call]
  BY DEF IInv, Calls, Published, Return
<1>2. subs' = [subs EXCEPT ![s] = new] /\ UNCHANGED <<catalog, api, listing, published>>
      /\ call' = [call EXCEPT ![c] = Idle]
  BY DEF Return
<1>3. new \in Subscribed
  <2>1. out \in {"nothing", "active", "trialing", "declined"}
    BY OutcomeType
  <2>. HIDE DEF s, out
  <2>. QED
    BY <1>1, <2>1 DEF Subscribed
<1>4. /\ new.user = subs[s].user /\ new.code = subs[s].code /\ new.limit = subs[s].limit
      /\ new.trial = subs[s].trial /\ new.blind = subs[s].blind
      /\ new.phase = subs[s].phase /\ new.run = subs[s].run
  BY <1>1 DEF Subscribed
<1>. HIDE DEF new, s
<1>5. Aged
  BY <1>1, <1>2, <1>3, <1>4, QuietlyOlder
<1>6. Published' /\ DOMAIN subs' = DOMAIN subs
  BY <1>1, <1>2, <1>3, <1>4, QuietChange
<1>10. Listings'
  BY <1>2, <1>5, ListingsAge DEF IInv
<1>7. Kept' /\ OneCodeOnePlan' /\ Indexed'
  BY <1>2 DEF IInv, Kept, OneCodeOnePlan, Indexed, catalog, api
<1>8. Counts'
  BY <1>5, <1>6, CountAges DEF Counts, IInv
<1>9. Calls'
  <2>1. /\ call' \in [Callers -> Call] /\ call'[c].at = "idle"
        /\ \A d \in Callers : d # c => call'[d] = call[d]
    <3>. HIDE DEF Idle
    <3>. QED
      BY <1>1, <1>2, IdleType
  <2>2. ASSUME NEW d \in Callers, d # c, call[d].at = "awaiting"
        PROVE  call[d].sub \in DOMAIN subs' /\ call[d].trial = subs'[call[d].sub].trial
    <3>1. call[d].sub \in DOMAIN subs /\ call[d].trial = subs[call[d].sub].trial
      BY <2>2 DEF IInv, Calls
    <3>2. subs'[call[d].sub].trial = subs[call[d].sub].trial
      BY <1>5, <3>1, Zenon DEF Aged
    <3>. QED
      BY <1>6, <3>1, <3>2
  <2>. QED
    BY <2>1, <2>2 DEF IInv, Calls
<1>. QED
  BY <1>6, <1>7, <1>8, <1>9, <1>10 DEF IInv

\* A page is found: what a run has published, its subscription has got to.
LEMMA ListStep ==
    ASSUME IInv, NEW user, NEW code, NEW phase \in Filters,
           ListWorkflow(RunsOf(user, code), phase)
    PROVE  IInv'
<1>1. UNCHANGED <<catalog, api, call, subs, published>>
  BY DEF ListWorkflow
<1>2. PICK view \in Readings(RunsOf(user, code)) : listing' = Listing(phase, Found(view, phase))
  BY DEF ListWorkflow
<1>3. ASSUME NEW sr \in Found(view, phase)
      PROVE  sr \in Runs /\ HasGotTo(phase, subs[sr[1]])
  <2>1. /\ sr \in RunsOf(user, code) /\ view[sr] \in Shown(sr)
        /\ view[sr] # "closed" /\ phase \in {"", view[sr]}
    BY DEF Found, Readings, Running, InPhaseAsked
  <2>2. sr \in Runs /\ view[sr] \in published[sr[1]][sr[2]]
    BY <2>1 DEF RunsOf, Shown
  <2>3. /\ sr[1] \in DOMAIN subs /\ sr[2] \in 1..MaxRuns /\ sr[2] <= subs[sr[1]].run
    BY <2>2 DEF Runs
  <2>4. sr[2] \in DOMAIN published[sr[1]]
    <3>1. subs[sr[1]] \in Subscribed /\ sr[1] \in DOMAIN published
      BY <2>3 DEF IInv, Published
    <3>2. published[sr[1]] \in Seq(SUBSET Entries) /\ Len(published[sr[1]]) = subs[sr[1]].run
      BY <2>3, <3>1 DEF IInv, Published
    <3>3. subs[sr[1]].run \in Nat
      BY <3>1, ServiceBounds DEF Subscribed
    <3>. QED
      BY <2>3, <3>2, <3>3, ServiceBounds
  <2>5. HasGotTo(view[sr], subs[sr[1]])
    BY <2>2, <2>3, <2>4 DEF IInv, Published
  <2>6. CASE phase = view[sr]
    BY <2>2, <2>5, <2>6
  <2>7. CASE phase = ""
    BY <2>2, <2>7 DEF HasGotTo
  <2>. QED
    BY <2>1, <2>6, <2>7
<1>4. Listings'
  <2>. DEFINE found == Found(view, phase)
  <2>1. CASE found = {}
    BY <1>2, <2>1 DEF Listing, NoListing, Listings, ListedHaveGotThere
  <2>2. CASE found # {}
    <3>1. listing' = [phase |-> phase, found |-> found]
      BY <1>2, <2>2 DEF Listing
    <3>2. found \subseteq Runs /\ \A sr \in found : HasGotTo(phase, subs[sr[1]])
      BY <1>3
    <3>. HIDE DEF found
    <3>. QED
      BY <1>1, <3>1, <3>2 DEF Listings, ListedHaveGotThere, Runs
  <2>. QED
    BY <2>1, <2>2
<1>5. Kept' /\ OneCodeOnePlan' /\ Indexed' /\ Published' /\ Counts' /\ Calls'
  BY <1>1 DEF IInv, catalog, api, Kept, OneCodeOnePlan, Indexed, Published, Counts, UpTo,
              Rivals, Live, Calls
<1>. QED
  BY <1>4, <1>5 DEF IInv

\* A run of the page is asked.
LEMMA AskStep ==
    ASSUME IInv, NEW sr, GetSubscription(sr)
    PROVE  IInv'
<1>1. UNCHANGED <<catalog, api, call, subs, published>>
  BY DEF GetSubscription
<1>2. Listings'
  <2>. DEFINE found == listing.found \ {sr}
  <2>1. listing' = Listing(listing.phase, found)
    BY DEF GetSubscription
  <2>2. CASE found = {}
    BY <2>1, <2>2 DEF Listing, NoListing, Listings, ListedHaveGotThere
  <2>3. CASE found # {}
    <3>1. listing' = [phase |-> listing.phase, found |-> found]
      BY <2>1, <2>3 DEF Listing
    <3>. QED
      BY <1>1, <3>1 DEF IInv, Listings, ListedHaveGotThere, Runs
  <2>. QED
    BY <2>2, <2>3
<1>3. Kept' /\ OneCodeOnePlan' /\ Indexed' /\ Published' /\ Counts' /\ Calls'
  BY <1>1 DEF IInv, catalog, api, Kept, OneCodeOnePlan, Indexed, Published, Counts, UpTo,
              Rivals, Live, Calls
<1>. QED
  BY <1>2, <1>3 DEF IInv

\* Every step keeps the invariant.
LEMMA Inductive == IInv /\ [Next]_vars => IInv'
<1>. SUFFICES ASSUME IInv, [Next]_vars PROVE IInv'
  OBVIOUS
<1>1. CASE ApiProcess
  BY <1>1, ApiStep
<1>2. CASE PlanService
  BY <1>2, PlanStep
<1>3. ASSUME NEW c \in Callers, CreateSubscription(c) PROVE IInv'
  <2>1. ASSUME NEW user \in Users, NEW id \in 1..MaxPlans, GetPlanOf(c, user, id) PROVE IInv'
    BY <2>1, GetPlanStep
  <2>2. CASE CountActiveForUser(c)
    BY <2>2, CountStep
  <2>3. CASE StartWorkflow(c)
    BY <2>3, StartStep
  <2>4. CASE Return(c)
    BY <2>4, ReturnStep
  <2>5. CASE FailCall(c)
    BY <2>5, IdleType, CallAlone DEF FailCall
  <2>. QED
    BY <1>3, <2>1, <2>2, <2>3, <2>4, <2>5 DEF CreateSubscription
<1>4. ASSUME NEW s \in DOMAIN subs, Workflow(s) PROVE IInv'
  BY <1>4, PhaseStep, RunStep, CompleteStep DEF Workflow
<1>6. CASE ListSubscriptions
  <2>1. ASSUME NEW runs \in Listable, NEW phase \in Filters, ListWorkflow(runs, phase)
        PROVE  IInv'
    <3>1. PICK f \in (Users \cup {""}) \X (Codes \cup {""}) : runs = RunsOf(f[1], f[2])
      BY <2>1 DEF Listable
    <3>. QED
      BY <2>1, <3>1, ListStep
  <2>2. ASSUME NEW sr \in listing.found, GetSubscription(sr)
        PROVE  IInv'
    BY <2>2, AskStep
  <2>. QED
    BY <1>6, <2>1, <2>2 DEF ListSubscriptions
<1>5. CASE UNCHANGED vars
  <2>1. UNCHANGED <<catalog, api, call, listing, subs, published>>
    BY <1>5 DEF vars
  <2>2. Kept' /\ OneCodeOnePlan' /\ Indexed'
    BY <2>1 DEF IInv, Kept, OneCodeOnePlan, Indexed, catalog, api
  <2>3. Calls' /\ Published' /\ Counts' /\ Listings'
    BY <2>1, ListingsStand DEF IInv, Calls, Published, Counts, UpTo, Rivals, Live
  <2>. QED
    BY <2>2, <2>3 DEF IInv
<1>. QED
  BY <1>1, <1>2, <1>3, <1>4, <1>5, <1>6 DEF Next

\* The invariant of the API.
THEOREM Invariance == Spec => []IInv
<1>1. Init => IInv
  <2>. SUFFICES ASSUME Init PROVE IInv
    OBVIOUS
  <2>1. Kept /\ OneCodeOnePlan
    BY DEF Init, CatalogInit, Kept, OneCodeOnePlan
  <2>2. Indexed
    BY ApiMain DEF Init, Api!Init, Indexed
  <2>3. Calls
    <3>. HIDE DEF Idle
    <3>. QED
      BY IdleType DEF Init, Calls
  <2>4. Published /\ Counts
    BY DEF Init, Published, Counts
  <2>5. Listings
    BY DEF Init, Listings, NoListing, ListedHaveGotThere
  <2>. QED
    BY <2>1, <2>2, <2>3, <2>4, <2>5 DEF IInv
<1>. QED
  BY <1>1, Inductive, PTL DEF Spec

-----------------------------------------------------------------------------
(* What the invariant means *)

\* Whatever the requests, plans come back from the store as they were built,
\* and are plans that a workflow can run (buildPlanFromRequest, planToDoc,
\* docToPlan, planToProto).
THEOREM CatalogKept == Spec => []PlansAreSound
<1>1. IInv => PlansAreSound
  <2>. SUFFICES ASSUME IInv, NEW id \in DOMAIN documents
                PROVE  /\ Get(id) = built[id]
                       /\ DocToPlan(GetPlan(id)) = built[id]
                       /\ GetPlan(id) \in ListPlans
                       /\ RunningTerms(Get(id)) \in Plan
    BY DEF PlansAreSound, PlansAreKept, PlansAreRunnable
  <2>1. built[id] \in PlanRecord /\ documents[id] = PlanToDoc(built[id])
    BY DEF IInv, Kept
  <2>2. Get(id) = built[id]
    BY <2>1, RoundTrip DEF Get
  <2>4. GetPlan(id) \in ListPlans
    BY DEF GetPlan, ListPlans, List
  <2>3. GetPlan(id) = PlanToDoc(built[id])
    BY <2>2 DEF GetPlan, PlanToProto, PlanToDoc
  <2>. QED
    BY <2>1, <2>2, <2>3, <2>4, RoundTrip, Runnable
<1>. QED
  BY <1>1, Invariance, PTL

\* No two plans share a code, however often the API fails to start up: it
\* serves only after the unique index is there (main, NewPlanRepository).
THEOREM OneCode == Spec => []OneCodeOnePlan
<1>1. IInv => OneCodeOnePlan
  BY DEF IInv
<1>. QED
  BY <1>1, Invariance, PTL

\* The limit is passed only by a subscription whose count was blind to another
\* (countActiveForUser).
THEOREM LimitHolds == Spec => []LimitKept
<1>1. IInv => LimitKept
  BY DEF IInv, Counts, LimitKept, WithinLimit
<1>. QED
  BY <1>1, Invariance, PTL

\* Every variable has its type.
THEOREM TypeCorrect == Spec => []TypeOK
<1>1. IInv => TypeOK
  <2>. SUFFICES ASSUME IInv PROVE TypeOK
    OBVIOUS
  <2>1. CatalogTypeOK
    <3>1. ASSUME NEW i \in DOMAIN documents PROVE documents[i] \in CreatePlanRequest
      BY RoundTrip DEF IInv, Kept
    <3>2. ASSUME NEW i \in DOMAIN built PROVE built[i].PerUserLimit \in Nat
      <4>1. built[i] \in PlanRecord
        BY DEF IInv, Kept
      <4>. QED
        BY <4>1 DEF PlanRecord
    <3>. QED
      BY <3>1, <3>2 DEF IInv, Kept, CatalogTypeOK
  <2>2. DOMAIN published = DOMAIN subs
        /\ \A s \in DOMAIN subs : published[s] \in [1..subs[s].run -> SUBSET Entries]
    BY DEF IInv, Published
  <2>3. \A c \in Callers : call[c].at = "awaiting" => call[c].sub \in DOMAIN subs
    BY DEF IInv, Calls
  <2>. QED
    BY <2>1, <2>2, <2>3 DEF IInv, Indexed, Calls, Published, Listings, TypeOK
<1>. QED
  BY <1>1, Invariance, PTL

\* What is listed under a phase has got there, however far Visibility lags and
\* whatever workflows do while the page is asked run by run: by every filter, for
\* any number of users, plans, subscriptions and runs (ListSubscriptions).
THEOREM ListingsGetThere == Spec => []ListedHaveGotThere
<1>1. IInv => ListedHaveGotThere
  BY DEF IInv, Listings
<1>. QED
  BY <1>1, Invariance, PTL

-----------------------------------------------------------------------------
(* Answers *)

\* No request asks for a trial shorter than none.
TrialsAsked == \A r \in PlanRequests : ParseOptional(r.Terms.TrialDuration) >= 0

\* Then no plan has one, and no call.
Trials ==
    /\ \A i \in DOMAIN built : built[i].Terms.TrialDuration >= 0
    /\ \A c \in Callers : call[c].trial >= 0

\* Deactivation is final, and who has paid is not declined.
LEMMA AnswersAge ==
    ASSUME AnswerTellsTheTruth, Aged, AnswersStand, DOMAIN subs' = DOMAIN subs
    PROVE  AnswerTellsTheTruth'
<1>. SUFFICES ASSUME NEW s \in DOMAIN subs
              PROVE  /\ subs'[s].told = "active" => Paid(s)'
                     /\ subs'[s].told = "declined" => Declined(s)'
                     /\ subs'[s].told = "trialing" => subs'[s].trial > 0
  BY DEF AnswerTellsTheTruth
<1>1. subs'[s].trial = subs[s].trial
  BY Zenon DEF Aged
<1>2. subs[s].phase = "deactivated" => subs'[s].phase = "deactivated"
  BY Zenon DEF Aged
<1>3. /\ subs'[s].told = subs[s].told
      /\ subs[s].paid => subs'[s].paid
      /\ subs[s].phase = "deactivated" => subs'[s].paid = subs[s].paid
  BY Zenon DEF AnswersStand
<1>4. subs'[s].told = "active" => Paid(s)'
  BY <1>3, Zenon DEF AnswerTellsTheTruth, Paid
<1>5. subs'[s].told = "declined" => Declined(s)'
  BY <1>2, <1>3, Zenon DEF AnswerTellsTheTruth, Declined
<1>6. subs'[s].told = "trialing" => subs'[s].trial > 0
  BY <1>1, <1>3, Zenon DEF AnswerTellsTheTruth
<1>. QED
  BY <1>4, <1>5, <1>6

\* Workflows and calls keep answers true.
LEMMA AnswersKept ==
    ASSUME IInv, Trials, AnswerTellsTheTruth, IInv', [Next]_vars, TrialsAsked
    PROVE  Trials' /\ AnswerTellsTheTruth'
<1>. USE DEF vars, catalog, api
<1>1. subs \in Seq(Subscribed) /\ \A s \in DOMAIN subs : subs[s] \in Subscribed
  BY DEF IInv, Published
<1>2. ASSUME UNCHANGED subs PROVE AnswerTellsTheTruth'
  BY <1>2 DEF AnswerTellsTheTruth, Paid, Declined
<1>3. ASSUME UNCHANGED <<built, call>> PROVE Trials'
  BY <1>3 DEF Trials
<1>4. ASSUME UNCHANGED built, NEW c \in Callers, NEW k \in Call,
             call' = [call EXCEPT ![c] = k], k.trial >= 0
      PROVE  Trials'
  BY <1>4 DEF Trials, IInv, Calls
<1>5. Idle \in Call /\ Idle.trial = 0 /\ Idle.trial >= 0
  BY DEF Idle, Call
<1>. HIDE DEF Idle
<1>6. CASE ApiProcess
  <2>1. UNCHANGED <<built, subs>>
    BY <1>6 DEF ApiProcess
  <2>2. Trials'
    <3>1. CASE UNCHANGED call
      BY <2>1, <3>1, <1>3
    <3>2. CASE call' = [c \in Callers |-> Idle]
      BY <1>5, <2>1, <3>2 DEF Trials
    <3>. QED
      BY <1>6, <3>1, <3>2 DEF ApiProcess
  <2>. QED
    BY <1>2, <2>1, <2>2
<1>7. CASE PlanService
  <2>1. UNCHANGED <<call, subs>>
    BY <1>7 DEF PlanService
  <2>2. ASSUME NEW r \in PlanRequests, CreatePlan(r, "plans_code_unique" \in apiPrepared)
        PROVE  Trials'
    <3>. DEFINE p == BuildPlan(r)
    <3>1. built' = Append(built, p) /\ Valid(r) /\ built \in Seq(PlanRecord)
      BY <2>2 DEF CreatePlan, Insert, IInv, Kept
    <3>2. p.Terms.TrialDuration = ParseOptional(r.Terms.TrialDuration)
      <4>1. r \in CreatePlanRequest
        BY RequestsAssumption
      <4>. QED
        BY <4>1 DEF BuildPlan, WithDefaults, ParsedTerms, CreatePlanRequest
    <3>3. p \in PlanRecord
      BY <3>1, BuildPlanType
    <3>4. p.Terms.TrialDuration >= 0
      BY <3>2 DEF TrialsAsked
    <3>. HIDE DEF p
    <3>. QED
      BY <2>1, <3>1, <3>3, <3>4 DEF Trials
  <2>3. ASSUME NEW id \in 1..MaxPlans, Delete(id) PROVE Trials'
    BY <1>3, <2>1, <2>3 DEF Delete
  <2>. QED
    BY <1>2, <1>7, <2>1, <2>2, <2>3 DEF PlanService
<1>8. ASSUME NEW c \in Callers, NEW user \in Users, NEW id \in 1..MaxPlans,
             GetPlanOf(c, user, id)
      PROVE  Trials' /\ AnswerTellsTheTruth'
  <2>. DEFINE p == Get(id)
              k == [Idle EXCEPT !.at = IF p.PerUserLimit > 0 THEN "counting" ELSE "starting",
                                !.user = user, !.code = p.Code, !.limit = p.PerUserLimit,
                                !.trial = p.Terms.TrialDuration]
  <2>1. id \in DOMAIN documents /\ built[id] \in PlanRecord /\ id \in DOMAIN built
        /\ documents[id] = PlanToDoc(built[id])
    BY <1>8 DEF GetPlanOf, IInv, Kept
  <2>2. p = built[id]
    BY <2>1, RoundTrip DEF Get
  <2>3. k.trial = p.Terms.TrialDuration
    BY <1>5 DEF Call
  <2>4. call' = [call EXCEPT ![c] = k] /\ UNCHANGED <<built, subs>>
    BY <1>8 DEF GetPlanOf
  <2>5. call'[c] = k /\ \A d \in Callers : d # c => call'[d] = call[d]
    BY <2>4 DEF IInv, Calls
  <2>. HIDE DEF k, p
  <2>6. Trials'
    BY <2>1, <2>2, <2>3, <2>4, <2>5 DEF Trials
  <2>. QED
    BY <1>2, <2>4, <2>6
<1>9. ASSUME NEW c \in Callers, CountActiveForUser(c)
      PROVE  Trials' /\ AnswerTellsTheTruth'
  <2>. DEFINE k == call[c]
  <2>1. UNCHANGED <<built, subs>> /\ k \in Call /\ k.trial >= 0
    BY <1>9 DEF CountActiveForUser, IInv, Calls, Trials
  <2>2. PICK view \in Readings(RunsOf(k.user, k.code)) :
            call' = [call EXCEPT ![c] = Checked(k, view)]
    BY <1>9 DEF CountActiveForUser
  <2>. HIDE DEF k
  <2>3. Checked(k, view).trial >= 0
    <3>1. CASE Checked(k, view) = Idle
      BY <1>5, <3>1
    <3>2. CASE Checked(k, view).trial = k.trial
      BY <2>1, <3>2
    <3>. QED
      BY <2>1, <3>1, <3>2 DEF Checked, Call
  <2>4. call'[c] = Checked(k, view) /\ \A d \in Callers : d # c => call'[d] = call[d]
    BY <2>2 DEF IInv, Calls
  <2>. QED
    BY <1>2, <2>1, <2>3, <2>4 DEF Trials
<1>10. ASSUME NEW c \in Callers, FailCall(c)
       PROVE  Trials' /\ AnswerTellsTheTruth'
  <2>1. UNCHANGED <<built, subs>> /\ call' = [call EXCEPT ![c] = Idle]
    BY <1>10 DEF FailCall
  <2>. QED
    BY <1>2, <1>4, <1>5, <2>1
<1>11. ASSUME NEW c \in Callers, StartWorkflow(c)
       PROVE  Trials' /\ AnswerTellsTheTruth'
  <2>. DEFINE k == call[c]
              n == Len(subs) + 1
              next == [Idle EXCEPT !.at = "awaiting", !.trial = k.trial, !.sub = n]
  <2>1. UNCHANGED built /\ k.trial >= 0 /\ k \in Call /\ call' = [call EXCEPT ![c] = next]
    BY <1>11 DEF StartWorkflow, IInv, Calls, Trials
  <2>2. next.trial = k.trial
    BY <1>5 DEF Call
  <2>3. call'[c] = next /\ \A d \in Callers : d # c => call'[d] = call[d]
    BY <2>1 DEF IInv, Calls
  <2>. HIDE DEF next
  <2>4. Trials'
    BY <2>1, <2>2, <2>3 DEF Trials
  <2>5. PICK new : subs' = Append(subs, new) /\ new.told = "nothing"
    BY <1>11 DEF StartWorkflow
  <2>6. /\ DOMAIN subs' = (DOMAIN subs) \cup {n} /\ subs'[n] = new
        /\ \A s \in DOMAIN subs : subs'[s] = subs[s]
    BY <1>1, <2>5
  <2>. HIDE DEF n
  <2>7. AnswerTellsTheTruth'
    BY <2>5, <2>6 DEF AnswerTellsTheTruth, Paid, Declined
  <2>. QED
    BY <2>4, <2>7
<1>12. ASSUME NEW c \in Callers, Return(c)
       PROVE  Trials' /\ AnswerTellsTheTruth'
  <2>. DEFINE s == call[c].sub
              out == Outcome(c)
  <2>1. UNCHANGED built /\ call' = [call EXCEPT ![c] = Idle]
        /\ subs' = [subs EXCEPT ![s].told = out]
    BY <1>12 DEF Return
  <2>2. Trials'
    BY <1>4, <1>5, <2>1
  <2>3. /\ s \in DOMAIN subs /\ call[c].trial = subs[s].trial /\ call[c].trial \in Int
        /\ call[c].trial >= 0 /\ subs[s] \in Subscribed
    <3>1. call[c] \in Call
      BY DEF IInv, Calls
    <3>2. call[c].at = "awaiting"
      BY <1>12 DEF Return
    <3>. QED
      BY <1>1, <3>1, <3>2 DEF IInv, Calls, Call, Trials
  <2>4. /\ out = "active" => Paid(s)
        /\ out = "declined" => Declined(s)
        /\ out = "trialing" => subs[s].trial > 0
    BY <1>12, <2>3 DEF Return, Outcome
  <2>. HIDE DEF s, out
  <2>5. /\ DOMAIN subs' = DOMAIN subs /\ subs'[s].told = out
        /\ \A t \in DOMAIN subs : /\ subs'[t].paid = subs[t].paid
                                  /\ subs'[t].phase = subs[t].phase
                                  /\ subs'[t].trial = subs[t].trial
        /\ \A t \in DOMAIN subs : t # s => subs'[t] = subs[t]
    <3>1. subs'[s] = [subs[s] EXCEPT !.told = out] /\ DOMAIN subs' = DOMAIN subs
          /\ \A t \in DOMAIN subs : t # s => subs'[t] = subs[t]
      BY <1>1, <2>1, <2>3
    <3>2. /\ subs'[s].told = out /\ subs'[s].paid = subs[s].paid
          /\ subs'[s].phase = subs[s].phase /\ subs'[s].trial = subs[s].trial
      BY <2>3, <3>1, Zenon DEF Subscribed
    <3>. QED
      BY <3>1, <3>2, Zenon
  <2>6. ASSUME NEW t \in DOMAIN subs'
        PROVE  /\ subs'[t].told = "active" => Paid(t)'
               /\ subs'[t].told = "declined" => Declined(t)'
               /\ subs'[t].told = "trialing" => subs'[t].trial > 0
    <3>1. Paid(t)' = Paid(t) /\ Declined(t)' = Declined(t)
      BY <2>5, <2>6, Zenon DEF Paid, Declined
    <3>2. CASE t = s
      BY <2>4, <2>5, <2>3, <3>1, <3>2
    <3>3. CASE t # s
      BY <2>5, <2>6, <3>1, <3>3 DEF AnswerTellsTheTruth
    <3>. QED
      BY <3>2, <3>3
  <2>. QED
    BY <2>2, <2>6 DEF AnswerTellsTheTruth
<1>13. ASSUME NEW s \in DOMAIN subs, Workflow(s)
       PROVE  Trials' /\ AnswerTellsTheTruth'
  <2>1. UNCHANGED <<built, call>>
    BY <1>13 DEF Workflow, ChangePhase, ContinueAsNew, Complete
  <2>2. Aged /\ AnswersStand /\ DOMAIN subs' = DOMAIN subs
    BY <1>13, PhaseStep, RunStep, CompleteStep DEF Workflow
  <2>3. AnswerTellsTheTruth'
    BY <2>2, AnswersAge
  <2>. QED
    BY <1>3, <2>1, <2>3
<1>14. CASE UNCHANGED vars
  BY <1>2, <1>3, <1>14
<1>15. CASE ListSubscriptions
  <2>1. UNCHANGED catalog /\ UNCHANGED <<call, subs>>
    <3>1. ASSUME NEW runs \in Listable, NEW phase \in Filters, ListWorkflow(runs, phase)
          PROVE  UNCHANGED catalog /\ UNCHANGED <<call, subs>>
      BY <3>1 DEF ListWorkflow
    <3>2. ASSUME NEW sr \in listing.found, GetSubscription(sr)
          PROVE  UNCHANGED catalog /\ UNCHANGED <<call, subs>>
      BY <3>2 DEF GetSubscription
    <3>. QED
      BY <1>15, <3>1, <3>2 DEF ListSubscriptions
  <2>2. UNCHANGED <<built, call, subs>>
    BY <2>1 DEF catalog
  <2>. QED
    BY <1>2, <1>3, <2>1
<1>. QED
  BY <1>6, <1>7, <1>8, <1>9, <1>10, <1>11, <1>12, <1>13, <1>14, <1>15
  DEF Next, CreateSubscription

\* Unless a request asks for a negative trial, callers are told the truth
\* (CreateSubscription's three ways out).
THEOREM AnswersAreTrue == TrialsAsked /\ Spec => []AnswerTellsTheTruth
<1>1. Init => Trials /\ AnswerTellsTheTruth
  <2>. SUFFICES ASSUME Init PROVE Trials /\ AnswerTellsTheTruth
    OBVIOUS
  <2>1. Idle.trial >= 0
    BY DEF Idle
  <2>. HIDE DEF Idle
  <2>. QED
    BY <2>1 DEF Init, CatalogInit, Trials, AnswerTellsTheTruth
<1>2. SUFFICES ASSUME TrialsAsked PROVE Spec => []AnswerTellsTheTruth
  OBVIOUS
<1>3. IInv /\ IInv' /\ (Trials /\ AnswerTellsTheTruth) /\ [Next]_vars
          => Trials' /\ AnswerTellsTheTruth'
  BY <1>2, AnswersKept
<1>. QED
  BY <1>1, <1>3, Invariance, PTL DEF Spec

=============================================================================
