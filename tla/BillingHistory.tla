--------------------------- MODULE BillingHistory ---------------------------
(***************************************************************************)
(* The billing history: the events that the charges of many subscriptions  *)
(* append through a retried activity (activity_billing.go), and a client   *)
(* that lists them page by page with the cursor of the page before         *)
(* (mongo_store.go). Times are those MongoDB keeps, in milliseconds.       *)
(***************************************************************************)
EXTENDS Integers, Sequences, FiniteSets

CONSTANTS
    Events,          \* the events that charges give rise to
    Queries,         \* the queries clients make; "" in a field filters nothing
    PageSizes,       \* the page sizes clients ask for
    DefaultPageSize, \* 50 in the code
    MaxPageSize,     \* 200 in the code
    MaxAttempts      \* attempts of RecordBillingEvent, 20 in the code

Event == [reference: STRING, subscription: STRING, user: STRING, type: STRING,
          occurredAt: Nat \ {0}]
Query == [subscription: STRING, user: STRING, type: STRING]

ASSUME EventsAssumption == Events \subseteq Event /\ IsFiniteSet(Events)
ASSUME QueriesAssumption == Queries \subseteq Query
ASSUME SizesAssumption ==
    /\ PageSizes \subseteq Int
    /\ DefaultPageSize \in Nat \ {0} /\ MaxPageSize \in Nat \ {0}
    /\ MaxAttempts \in Nat \ {0}

VARIABLES
    attempts,  \* attempts made to record each event
    outcome,   \* what the activity that records each event has come to
    calls,     \* attempts whose insert MongoDB may still execute
    store,     \* the documents of the collection, in the order of insertion
    reader,    \* what the client does
    query,
    cursor,    \* the time the next page starts below; 0 for the first page
    listed,    \* the documents returned to the client, page after page
    atStart    \* the documents that matched when the client began

recording == <<attempts, outcome, calls>>
listing   == <<reader, query, cursor, listed, atStart>>
vars      == <<recording, store, listing>>

-----------------------------------------------------------------------------
(* RecordBillingEvent and Append *)

Attempt(e) ==
    /\ outcome[e] = "due"
    /\ attempts' = [attempts EXCEPT ![e] = @ + 1]
    /\ calls' = [calls EXCEPT ![e] = @ \cup {attempts[e] + 1}]
    /\ outcome' = [outcome EXCEPT ![e] = "trying"]
    /\ UNCHANGED <<store, listing>>

\* Mutant: no unique index.
InsertAlways(e) == store' = Append(store, e)

\* The insert, under the unique index on reference.
InsertOne(e) ==
    store' = IF \E i \in DOMAIN store : store[i].reference = e.reference
             THEN store ELSE Append(store, e)

\* MongoDB executes the insert of the n-th attempt, however late. The attempt,
\* if it is still waited for, ends well unless the answer is lost: a duplicate
\* is no error.
Record(e, n, answered) ==
    /\ n \in calls[e]
    /\ answered => n = attempts[e] /\ outcome[e] = "trying"
    /\ InsertOne(e)
    /\ calls' = [calls EXCEPT ![e] = @ \ {n}]
    /\ outcome' = IF answered THEN [outcome EXCEPT ![e] = "recorded"] ELSE outcome
    /\ UNCHANGED <<attempts, listing>>

\* Mutant: Append returns nil whatever the error.
AttemptFailsSilently(e) ==
    /\ outcome[e] = "trying"
    /\ outcome' = [outcome EXCEPT ![e] = "recorded"]
    /\ UNCHANGED <<attempts, calls, store, listing>>

\* Mutant: a retry policy without a maximum.
AttemptFailsForever(e) ==
    /\ outcome[e] = "trying"
    /\ outcome' = [outcome EXCEPT ![e] = "due"]
    /\ UNCHANGED <<attempts, calls, store, listing>>

\* The attempt times out, or Append returns an error: Temporal tries again
\* until the attempts are spent, and the workflow goes on without.
AttemptFails(e) ==
    /\ outcome[e] = "trying"
    /\ outcome' = [outcome EXCEPT ![e] =
                       IF attempts[e] < MaxAttempts THEN "due" ELSE "gaveUp"]
    /\ UNCHANGED <<attempts, calls, store, listing>>

-----------------------------------------------------------------------------
(* List *)

PageSize(n) ==
    IF n <= 0 THEN DefaultPageSize
    ELSE IF n > MaxPageSize THEN MaxPageSize ELSE n

Matches(q, e) ==
    /\ q.subscription \in {"", e.subscription}
    /\ q.user \in {"", e.user}
    /\ q.type \in {"", e.type}

\* Mutant: $lte.
AtOrBelowCursor(e) == cursor # 0 => e.occurredAt <= cursor

BelowCursor(e) == cursor # 0 => e.occurredAt < cursor

\* Mutant: the sort is ascending.
OldestFirst(e, f) == e.occurredAt <= f.occurredAt

NewestFirst(e, f) == e.occurredAt >= f.occurredAt

\* The documents that the next page and those after it are to show.
Pending == {i \in DOMAIN store : Matches(query, store[i]) /\ BelowCursor(store[i])}

\* The answers MongoDB may give: it promises nothing on events of equal time.
Find(limit) ==
    LET n == IF Cardinality(Pending) < limit THEN Cardinality(Pending) ELSE limit
    IN  {s \in [1..n -> Pending] :
            /\ \A i, j \in 1..n : i < j => s[i] # s[j] /\ NewestFirst(store[s[i]], store[s[j]])
            /\ \A d \in Pending : (\A i \in 1..n : s[i] # d)
                   => \A i \in 1..n : NewestFirst(store[s[i]], store[d])}

\* Mutant: the cursor is the time of the document that was left out.
CursorOfTheNext(found, size) == store[found[size + 1]].occurredAt

NextCursor(found, size) == store[found[size]].occurredAt

BeginListing(q) ==
    /\ reader \in {"idle", "done"}
    /\ reader' = "paging"
    /\ query' = q
    /\ cursor' = 0
    /\ listed' = <<>>
    /\ atStart' = {i \in DOMAIN store : Matches(q, store[i])}
    /\ UNCHANGED <<recording, store>>

\* Mutant: there is always a cursor for the next page.
ListOnAndOn(size) ==
    /\ reader = "paging"
    /\ Len(listed) <= Cardinality(Events)
    /\ \E found \in Find(size) :
           /\ listed' = listed \o found
           /\ cursor' = IF found = <<>> THEN cursor ELSE NextCursor(found, Len(found))
    /\ UNCHANGED <<recording, store, query, atStart, reader>>

\* One call of ListBillingEvents. The bound on what is listed is never met, as
\* NothingListedTwice shows.
List(size) ==
    /\ reader = "paging"
    /\ Len(listed) <= Cardinality(Events)
    /\ \E found \in Find(size + 1) :
           IF Len(found) > size
           THEN /\ listed' = listed \o SubSeq(found, 1, size)
                /\ cursor' = NextCursor(found, size)
                /\ UNCHANGED reader
           ELSE /\ listed' = listed \o found
                /\ cursor' = 0
                /\ reader' = "done"
    /\ UNCHANGED <<recording, store, query, atStart>>

-----------------------------------------------------------------------------
Init ==
    /\ attempts = [e \in Events |-> 0]
    /\ outcome = [e \in Events |-> "due"]
    /\ calls = [e \in Events |-> {}]
    /\ store = <<>>
    /\ reader = "idle" /\ query \in Queries /\ cursor = 0
    /\ listed = <<>> /\ atStart = {}

RecordBillingEvent(e) ==
    \/ Attempt(e)
    \/ \E n \in 1..MaxAttempts, answered \in BOOLEAN : Record(e, n, answered)
    \/ AttemptFails(e)

ListBillingEvents ==
    \/ \E q \in Queries : BeginListing(q)
    \/ \E n \in PageSizes : List(PageSize(n))

Next == (\E e \in Events : RecordBillingEvent(e)) \/ ListBillingEvents

Spec == Init /\ [][Next]_vars

\* The client goes on asking for pages.
PatientSpec == Spec /\ WF_vars(\E n \in PageSizes : List(PageSize(n)))

-----------------------------------------------------------------------------
(* Properties *)

\* Every variable has its type.
TypeOK ==
    /\ attempts \in [Events -> 0..MaxAttempts]
    /\ outcome \in [Events -> {"due", "trying", "recorded", "gaveUp"}]
    /\ calls \in [Events -> SUBSET (1..MaxAttempts)]
    /\ store \in Seq(Events)
    /\ reader \in {"idle", "paging", "done"} /\ query \in Queries /\ cursor \in Nat
    /\ listed \in Seq(DOMAIN store) /\ atStart \subseteq DOMAIN store

OneDocumentPerReference ==
    \A i, j \in DOMAIN store : store[i].reference = store[j].reference => i = j

RecordedMeansStored ==
    \A e \in Events : outcome[e] = "recorded"
        => \E i \in DOMAIN store : store[i].reference = e.reference

\* However often an event is tried, and however late its inserts arrive, it is
\* in the history at most once (the index on reference), and it is there if its
\* activity ended well.
StoredOnce == OneDocumentPerReference /\ RecordedMeansStored

ListedNewestFirst ==
    \A i, j \in DOMAIN listed : i < j =>
        store[listed[i]].occurredAt >= store[listed[j]].occurredAt

NothingListedTwice == \A i, j \in DOMAIN listed : listed[i] = listed[j] => i = j

\* The pages, one after the other, run from the newest event to the oldest and
\* show none twice, whatever is appended between two calls.
PagesInOrder == ListedNewestFirst /\ NothingListedTwice

\* A listing that comes to its end has shown every event that matched when it
\* began.
ListingComplete ==
    reader = "done" => \A d \in atStart : \E i \in DOMAIN listed : listed[i] = d

\* A client that follows the cursors comes to the last page.
ListingEnds == reader = "paging" ~> reader = "done"

=============================================================================
