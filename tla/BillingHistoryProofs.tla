------------------------ MODULE BillingHistoryProofs ------------------------
(***************************************************************************)
(* Theorems about the billing history, for every set of events, queries    *)
(* and page sizes, and any number of attempts.                             *)
(***************************************************************************)
EXTENDS BillingHistory, SequenceTheorems, FiniteSetTheorems, TLAPS

\* The time of a document.
Time(d) == store[d].occurredAt

\* The fields of an event have their types.
LEMMA EventType ==
    ASSUME TypeOK, NEW d \in DOMAIN store
    PROVE  store[d] \in Events /\ Time(d) \in Nat \ {0}
<1>1. store[d] \in Events
  BY DEF TypeOK
<1>. QED
  BY <1>1, EventsAssumption DEF Event, Time

\* A page has room for one event at least.
LEMMA PageSizeType ==
    ASSUME NEW n \in PageSizes
    PROVE  PageSize(n) \in Nat \ {0}
BY SizesAssumption DEF PageSize

\* What the sorted, limited query of List returns: distinct documents, newest
\* first, that leave out none newer, and all of them if the limit is not met.
LEMMA FindProperties ==
    ASSUME TypeOK, NEW limit \in Nat, NEW found \in Find(limit)
    PROVE  /\ found \in Seq(Pending)
           /\ Len(found) <= limit
           /\ \A i, j \in 1..Len(found) : i < j =>
                  found[i] # found[j] /\ Time(found[i]) >= Time(found[j])
           /\ \A d \in Pending : (\A i \in 1..Len(found) : found[i] # d)
                  => \A i \in 1..Len(found) : Time(found[i]) >= Time(d)
           /\ Len(found) < limit => \A d \in Pending : \E i \in 1..Len(found) : found[i] = d
<1>. DEFINE card == Cardinality(Pending)
            n == IF card < limit THEN card ELSE limit
<1>1. IsFiniteSet(Pending) /\ card \in Nat
  <2>1. IsFiniteSet(DOMAIN store)
    BY FS_Interval DEF TypeOK
  <2>2. Pending \subseteq DOMAIN store
    BY DEF Pending
  <2>. QED
    BY <2>1, <2>2, FS_Subset, FS_CardinalityType
<1>2. n \in Nat /\ n <= limit
  BY <1>1
<1>3. found \in [1..n -> Pending]
  BY DEF Find
<1>4. Len(found) = n /\ found \in Seq(Pending)
  BY <1>2, <1>3
<1>5. /\ \A i, j \in 1..n : i < j => found[i] # found[j] /\ Time(found[i]) >= Time(found[j])
      /\ \A d \in Pending : (\A i \in 1..n : found[i] # d)
             => \A i \in 1..n : Time(found[i]) >= Time(d)
  BY DEF Find, NewestFirst, Time
<1>6. ASSUME n < limit PROVE \A d \in Pending : \E i \in 1..n : found[i] = d
  <2>1. n = card
    BY <1>6
  <2>2. found \in Injection(1..n, Pending)
    <3>1. \A i, j \in 1..n : found[i] = found[j] => i = j
      BY <1>2, <1>5
    <3>. QED
      BY <1>3, <3>1 DEF Injection, IsInjective
  <2>3. Cardinality(1..n) = n
    BY <1>2, FS_Interval
  <2>4. found \in Surjection(1..n, Pending)
    BY <1>1, <2>1, <2>2, <2>3, FS_Injection
  <2>. QED
    BY <2>4 DEF Surjection
<1>. HIDE DEF n
<1>. QED
  BY <1>2, <1>4, <1>5, <1>6

\* One call of List adds a page: distinct documents, newest first. Unless it is
\* the last one, the cursor is the least time on it, and what it leaves out is
\* not above the cursor; the last one leaves out nothing.
LEMMA ListStep ==
    ASSUME TypeOK, NEW size \in Nat \ {0}, List(size)
    PROVE  \E page \in Seq(Pending) :
               /\ listed' = listed \o page
               /\ \A i, j \in 1..Len(page) : i < j =>
                      page[i] # page[j] /\ Time(page[i]) >= Time(page[j])
               /\ \/ /\ reader' = "done"
                     /\ \A d \in Pending : \E i \in 1..Len(page) : page[i] = d
                  \/ /\ reader' = "paging"
                     /\ page # <<>> /\ cursor' = Time(page[Len(page)])
                     /\ \A d \in Pending : (\A i \in 1..Len(page) : page[i] # d)
                            => Time(d) <= cursor'
<1>1. PICK found \in Find(size + 1) :
          IF Len(found) > size
          THEN /\ listed' = listed \o SubSeq(found, 1, size)
               /\ cursor' = NextCursor(found, size)
               /\ UNCHANGED reader
          ELSE /\ listed' = listed \o found
               /\ cursor' = 0
               /\ reader' = "done"
  BY DEF List
<1>2. /\ found \in Seq(Pending)
      /\ Len(found) <= size + 1
      /\ \A i, j \in 1..Len(found) : i < j =>
             found[i] # found[j] /\ Time(found[i]) >= Time(found[j])
      /\ \A d \in Pending : (\A i \in 1..Len(found) : found[i] # d)
             => \A i \in 1..Len(found) : Time(found[i]) >= Time(d)
      /\ Len(found) < size + 1 => \A d \in Pending : \E i \in 1..Len(found) : found[i] = d
  BY FindProperties
<1>3. Len(found) \in Nat
  BY <1>2
<1>4. CASE Len(found) <= size
  <2>1. listed' = listed \o found /\ reader' = "done"
    BY <1>1, <1>3, <1>4
  <2>2. \A d \in Pending : \E i \in 1..Len(found) : found[i] = d
    BY <1>2, <1>3, <1>4
  <2>. QED
    BY <1>2, <2>1, <2>2
<1>5. CASE Len(found) > size
  <2>. DEFINE page == SubSeq(found, 1, size)
  <2>1. Len(found) = size + 1
    BY <1>2, <1>3, <1>5
  <2>2. /\ page \in Seq(Pending) /\ Len(page) = size
        /\ \A i \in 1..size : page[i] = found[i]
    BY <1>2, <2>1, SubSeqProperties
  <2>. HIDE DEF page
  <2>3. listed' = listed \o page /\ reader' = "paging"
    BY <1>1, <1>5 DEF page, List
  <2>4. cursor' = Time(page[size])
    BY <1>1, <1>5, <2>2 DEF NextCursor, Time
  <2>5. \A i, j \in 1..size : i < j => page[i] # page[j] /\ Time(page[i]) >= Time(page[j])
    BY <1>2, <2>1, <2>2
  <2>6. ASSUME NEW d \in Pending, \A i \in 1..size : page[i] # d
        PROVE  Time(d) <= cursor'
    <3>1. size \in 1..Len(found) /\ Len(found) \in 1..Len(found) /\ size < Len(found)
      BY <2>1
    <3>2. Time(found[Len(found)]) <= Time(found[size])
      BY <1>2, <3>1
    <3>3. CASE d = found[Len(found)]
      BY <2>2, <2>4, <3>2, <3>3
    <3>4. CASE d # found[Len(found)]
      <4>1. \A i \in 1..Len(found) : found[i] # d
        BY <2>1, <2>2, <2>6, <3>4
      <4>. QED
        BY <1>2, <2>2, <2>4, <3>1, <4>1
    <3>. QED
      BY <3>3, <3>4
  <2>7. page # <<>>
    BY <2>2
  <2>. QED
    BY <2>2, <2>3, <2>4, <2>5, <2>6, <2>7
<1>6. Len(found) <= size \/ Len(found) > size
  BY <1>3
<1>. QED
  BY <1>4, <1>5, <1>6, Zenon

-----------------------------------------------------------------------------
(* Types *)

\* The history only grows.
LEMMA StoreGrows ==
    ASSUME TypeOK, NEW e \in Events, InsertOne(e)
    PROVE  /\ store' \in Seq(Events)
           /\ DOMAIN store \subseteq DOMAIN store'
           /\ \A d \in DOMAIN store : store'[d] = store[d]
           /\ \A d \in DOMAIN store' \ DOMAIN store : store'[d] = e
           /\ \E d \in DOMAIN store' : store'[d].reference = e.reference
<1>1. CASE \E i \in DOMAIN store : store[i].reference = e.reference
  BY <1>1 DEF InsertOne, TypeOK
<1>2. CASE ~\E i \in DOMAIN store : store[i].reference = e.reference
  <2>1. store' = Append(store, e) /\ store \in Seq(Events)
    BY <1>2 DEF InsertOne, TypeOK
  <2>2. /\ Len(store) \in Nat /\ DOMAIN store = 1..Len(store)
        /\ store' \in Seq(Events) /\ Len(store') = Len(store) + 1
        /\ \A i \in 1..Len(store) : store'[i] = store[i]
        /\ store'[Len(store) + 1] = e
    BY <2>1, AppendProperties, LenProperties
  <2>3. DOMAIN store' = 1..(Len(store) + 1)
    BY <2>2, LenProperties
  <2>. QED
    BY <2>2, <2>3
<1>. QED
  BY <1>1, <1>2

\* A page goes to a client that is listing, and changes nothing else.
LEMMA ListType ==
    ASSUME TypeOK, NEW size \in Nat \ {0}, List(size)
    PROVE  TypeOK'
<1>1. PICK page \in Seq(Pending) :
          /\ listed' = listed \o page
          /\ \/ reader' = "done"
             \/ reader' = "paging" /\ page # <<>> /\ cursor' = Time(page[Len(page)])
  BY ListStep
<1>2. page \in Seq(DOMAIN store) /\ listed \in Seq(DOMAIN store)
  <2>1. Pending \subseteq DOMAIN store
    BY DEF Pending
  <2>. QED
    BY <2>1, SeqMonotonic DEF TypeOK
<1>3. listed' \in Seq(DOMAIN store)
  BY <1>1, <1>2, ConcatProperties
<1>4. cursor' \in Nat
  <2>1. CASE reader' = "done"
    BY <2>1 DEF List
  <2>2. CASE page # <<>> /\ cursor' = Time(page[Len(page)])
    <3>1. Len(page) \in 1..Len(page)
      BY <1>2, <2>2, EmptySeq
    <3>. QED
      BY <1>2, <2>2, <3>1, ElementOfSeq, EventType
  <2>. QED
    BY <1>1, <2>1, <2>2
<1>. QED
  BY <1>1, <1>3, <1>4 DEF TypeOK, List, recording

\* An activity is retried only while it has attempts left.
AttemptsRemain == \A e \in Events : outcome[e] = "due" => attempts[e] < MaxAttempts

\* The steps of an activity that records an event keep the types.
LEMMA RecordType ==
    ASSUME TypeOK, AttemptsRemain, NEW e \in Events, RecordBillingEvent(e)
    PROVE  TypeOK' /\ AttemptsRemain'
<1>1. CASE Attempt(e)
  BY <1>1, SizesAssumption DEF Attempt, TypeOK, AttemptsRemain, listing
<1>2. ASSUME NEW n \in 1..MaxAttempts, NEW answered \in BOOLEAN, Record(e, n, answered)
      PROVE  TypeOK' /\ AttemptsRemain'
  <2>1. /\ store' \in Seq(Events) /\ DOMAIN store \subseteq DOMAIN store'
    BY <1>2, StoreGrows DEF Record
  <2>2. listed' \in Seq(DOMAIN store') /\ atStart' \subseteq DOMAIN store'
    BY <1>2, <2>1, SeqMonotonic DEF Record, listing, TypeOK
  <2>3. /\ attempts' \in [Events -> 0..MaxAttempts]
        /\ outcome' \in [Events -> {"due", "trying", "recorded", "gaveUp"}]
        /\ calls' \in [Events -> SUBSET (1..MaxAttempts)]
    BY <1>2 DEF Record, TypeOK
  <2>4. AttemptsRemain'
    BY <1>2 DEF Record, TypeOK, AttemptsRemain
  <2>. QED
    BY <1>2, <2>1, <2>2, <2>3, <2>4 DEF Record, listing, TypeOK
<1>3. CASE AttemptFails(e)
  BY <1>3, SizesAssumption DEF AttemptFails, TypeOK, AttemptsRemain, listing
<1>. QED
  BY <1>1, <1>2, <1>3 DEF RecordBillingEvent

\* Every variable keeps its type, and no activity is tried once too often.
THEOREM TypeCorrect == Spec => [](TypeOK /\ AttemptsRemain)
<1>1. Init => TypeOK /\ AttemptsRemain
  BY SizesAssumption, EmptySeq DEF Init, TypeOK, AttemptsRemain
<1>2. TypeOK /\ AttemptsRemain /\ [Next]_vars => TypeOK' /\ AttemptsRemain'
  <2>1. SUFFICES ASSUME TypeOK, AttemptsRemain, [Next]_vars
                 PROVE  TypeOK' /\ AttemptsRemain'
    OBVIOUS
  <2>2. CASE \E e \in Events : RecordBillingEvent(e)
    BY <2>1, <2>2, RecordType
  <2>3. ASSUME NEW q \in Queries, BeginListing(q)
        PROVE  TypeOK' /\ AttemptsRemain'
    BY <2>1, <2>3, EmptySeq DEF BeginListing, recording, TypeOK, AttemptsRemain
  <2>4. ASSUME NEW n \in PageSizes, List(PageSize(n))
        PROVE  TypeOK' /\ AttemptsRemain'
    <3>1. TypeOK'
      BY <2>1, <2>4, PageSizeType, ListType
    <3>2. AttemptsRemain'
      BY <2>1, <2>4 DEF List, recording, AttemptsRemain
    <3>. QED
      BY <3>1, <3>2
  <2>5. CASE UNCHANGED vars
    BY <2>1, <2>5 DEF vars, recording, listing, TypeOK, AttemptsRemain
  <2>. QED
    BY <2>1, <2>2, <2>3, <2>4, <2>5 DEF Next, ListBillingEvents
<1>. QED
  BY <1>1, <1>2, PTL DEF Spec

-----------------------------------------------------------------------------
(* Append *)

\* The steps that touch the history keep it so.
LEMMA NextRecording ==
    ASSUME TypeOK, StoredOnce, [Next]_vars
    PROVE  StoredOnce'
<1>. USE DEF StoredOnce
<1>1. ASSUME NEW e \in Events, NEW n, NEW answered \in BOOLEAN, Record(e, n, answered)
      PROVE  StoredOnce'
  <2>1. /\ store' \in Seq(Events)
        /\ DOMAIN store \subseteq DOMAIN store'
        /\ \A d \in DOMAIN store : store'[d] = store[d]
        /\ \E d \in DOMAIN store' : store'[d].reference = e.reference
    BY <1>1, StoreGrows DEF Record
  <2>2. OneDocumentPerReference'
    <3>1. CASE \E i \in DOMAIN store : store[i].reference = e.reference
      BY <1>1, <3>1 DEF Record, InsertOne, OneDocumentPerReference
    <3>2. CASE ~\E i \in DOMAIN store : store[i].reference = e.reference
      <4>1. store' = Append(store, e) /\ store \in Seq(Events)
        BY <1>1, <3>2 DEF Record, InsertOne, TypeOK
      <4>2. /\ Len(store) \in Nat /\ DOMAIN store = 1..Len(store)
            /\ DOMAIN store' = 1..(Len(store) + 1)
            /\ store'[Len(store) + 1] = e
        BY <2>1, <4>1, AppendProperties, LenProperties
      <4>3. \A i \in DOMAIN store' : i \in DOMAIN store \/ store'[i] = e
        BY <4>2
      <4>4. \A i \in DOMAIN store' \ DOMAIN store : i = Len(store) + 1
        BY <4>2
      <4>. QED
        BY <2>1, <3>2, <4>3, <4>4 DEF OneDocumentPerReference
    <3>. QED
      BY <3>1, <3>2
  <2>3. RecordedMeansStored'
    <3>1. \A f \in Events : f # e => outcome'[f] = outcome[f]
      BY <1>1 DEF Record, TypeOK
    <3>. QED
      BY <2>1, <3>1 DEF RecordedMeansStored
  <2>. QED
    BY <2>2, <2>3
<1>2. ASSUME NEW e \in Events, Attempt(e) \/ AttemptFails(e)
      PROVE  StoredOnce'
  <2>1. /\ store' = store
        /\ \A f \in Events : outcome'[f] = "recorded" => outcome[f] = "recorded"
    BY <1>2 DEF Attempt, AttemptFails, TypeOK
  <2>. QED
    BY <2>1 DEF OneDocumentPerReference, RecordedMeansStored
<1>3. CASE ListBillingEvents \/ UNCHANGED vars
  <2>1. UNCHANGED <<store, outcome>>
    BY <1>3 DEF ListBillingEvents, BeginListing, List, recording, vars
  <2>. QED
    BY <2>1 DEF OneDocumentPerReference, RecordedMeansStored
<1>. QED
  BY <1>1, <1>2, <1>3 DEF Next, RecordBillingEvent

\* However an event's attempts go, the history holds it at most once, and holds
\* it if its activity ended well.
THEOREM RecordedOnce == Spec => []StoredOnce
<1>1. Init => StoredOnce
  BY DEF Init, StoredOnce, OneDocumentPerReference, RecordedMeansStored
<1>2. TypeOK /\ StoredOnce /\ [Next]_vars => StoredOnce'
  BY NextRecording
<1>. QED
  BY <1>1, <1>2, TypeCorrect, PTL DEF Spec

-----------------------------------------------------------------------------
(* List *)

\* While a client pages, what it was shown is not below its cursor.
CursorBelowListed ==
    reader = "paging" =>
        IF cursor = 0 THEN listed = <<>>
        ELSE \A i \in DOMAIN listed : Time(listed[i]) >= cursor

\* What has been listed, in order and once.
Listing == ListedNewestFirst /\ NothingListedTwice /\ CursorBelowListed

\* A page goes below what was listed before it.
LEMMA ListKeepsOrder ==
    ASSUME TypeOK, Listing, NEW size \in Nat \ {0}, List(size)
    PROVE  Listing'
<1>1. PICK page \in Seq(Pending) :
          /\ listed' = listed \o page
          /\ \A i, j \in 1..Len(page) : i < j =>
                 page[i] # page[j] /\ Time(page[i]) >= Time(page[j])
          /\ \/ reader' = "done"
             \/ reader' = "paging" /\ page # <<>> /\ cursor' = Time(page[Len(page)])
  BY ListStep
<1>2. /\ reader = "paging" /\ store' = store
  BY DEF List
<1>3. /\ page \in Seq(DOMAIN store) /\ listed \in Seq(DOMAIN store)
      /\ Len(page) \in Nat /\ DOMAIN page = 1..Len(page)
      /\ Len(listed) \in Nat /\ DOMAIN listed = 1..Len(listed)
  <2>1. Pending \subseteq DOMAIN store
    BY DEF Pending
  <2>. QED
    BY <2>1, SeqMonotonic, LenProperties DEF TypeOK
<1>4. /\ DOMAIN listed' = 1..(Len(listed) + Len(page))
      /\ \A i \in 1..(Len(listed) + Len(page)) :
             listed'[i] = IF i <= Len(listed) THEN listed[i] ELSE page[i - Len(listed)]
  BY <1>1, <1>3, ConcatProperties, LenProperties
<1>5. \A i \in 1..Len(listed), j \in 1..Len(page) : Time(listed[i]) > Time(page[j])
  <2>1. SUFFICES ASSUME NEW i \in 1..Len(listed), NEW j \in 1..Len(page)
                 PROVE  Time(listed[i]) > Time(page[j])
    OBVIOUS
  <2>2. cursor # 0 /\ Time(listed[i]) >= cursor
    BY <1>2, <1>3, <2>1 DEF Listing, CursorBelowListed
  <2>3. Time(page[j]) < cursor
    BY <1>1, <2>2, ElementOfSeq DEF Pending, BelowCursor, Time
  <2>4. Time(listed[i]) \in Nat /\ Time(page[j]) \in Nat /\ cursor \in Nat
    BY <1>3, <2>1, EventType, ElementOfSeq DEF TypeOK
  <2>. QED
    BY <2>2, <2>3, <2>4
<1>6. \A d \in DOMAIN store : Time(d) \in Nat \ {0} /\ Time(d)' = Time(d)
  BY <1>2, EventType DEF Time
<1>7. \A i \in 1..Len(listed) : listed[i] \in DOMAIN store
  BY <1>3, ElementOfSeq
<1>8. \A i \in 1..Len(page) : page[i] \in DOMAIN store
  BY <1>3, ElementOfSeq
<1>9. ASSUME NEW i \in DOMAIN listed', NEW j \in DOMAIN listed', i < j
      PROVE  Time(listed'[i]) >= Time(listed'[j]) /\ listed'[i] # listed'[j]
  <2>1. CASE j <= Len(listed)
    <3>1. listed'[i] = listed[i] /\ listed'[j] = listed[j] /\ i \in DOMAIN listed
          /\ j \in DOMAIN listed
      BY <1>3, <1>4, <1>9, <2>1
    <3>. QED
      BY <1>9, <3>1 DEF Listing, ListedNewestFirst, NothingListedTwice, Time
  <2>2. CASE i > Len(listed)
    <3>1. /\ listed'[i] = page[i - Len(listed)] /\ listed'[j] = page[j - Len(listed)]
          /\ i - Len(listed) \in 1..Len(page) /\ j - Len(listed) \in 1..Len(page)
          /\ i - Len(listed) < j - Len(listed)
      BY <1>3, <1>4, <1>9, <2>2
    <3>. QED
      BY <1>1, <3>1
  <2>3. CASE i <= Len(listed) /\ j > Len(listed)
    <3>1. /\ listed'[i] = listed[i] /\ listed'[j] = page[j - Len(listed)]
          /\ i \in 1..Len(listed) /\ j - Len(listed) \in 1..Len(page)
      BY <1>3, <1>4, <1>9, <2>3
    <3>2. Time(listed[i]) > Time(page[j - Len(listed)])
      BY <1>5, <3>1
    <3>3. Time(listed[i]) \in Nat /\ Time(page[j - Len(listed)]) \in Nat
      BY <1>6, <1>7, <1>8, <3>1
    <3>. QED
      BY <3>1, <3>2, <3>3
  <2>. QED
    BY <1>3, <1>4, <1>9, <2>1, <2>2, <2>3
<1>10. ListedNewestFirst'
  BY <1>2, <1>9 DEF ListedNewestFirst, Time
<1>11. NothingListedTwice'
  BY <1>4, <1>9 DEF NothingListedTwice
<1>12. CursorBelowListed'
  <2>1. CASE reader' = "done"
    BY <2>1 DEF CursorBelowListed
  <2>2. CASE reader' = "paging" /\ page # <<>> /\ cursor' = Time(page[Len(page)])
    <3>1. Len(page) \in 1..Len(page)
      BY <1>3, <2>2, EmptySeq
    <3>2. cursor' # 0 /\ cursor' \in Nat
      BY <1>6, <1>8, <2>2, <3>1
    <3>3. /\ DOMAIN listed' = 1..(Len(listed) + Len(page))
          /\ listed'[Len(listed) + Len(page)] = page[Len(page)]
      BY <1>3, <1>4, <3>1
    <3>4. ASSUME NEW i \in DOMAIN listed' PROVE Time(listed'[i]) >= cursor'
      <4>1. CASE i = Len(listed) + Len(page)
        BY <2>2, <3>1, <3>2, <3>3, <4>1
      <4>2. CASE i # Len(listed) + Len(page)
        <5>1. i < Len(listed) + Len(page) /\ Len(listed) + Len(page) \in DOMAIN listed'
          BY <1>3, <3>1, <3>3, <4>2
        <5>. QED
          BY <1>9, <2>2, <3>3, <5>1
      <4>. QED
        BY <4>1, <4>2
    <3>. QED
      BY <1>2, <3>2, <3>4 DEF CursorBelowListed, Time
  <2>. QED
    BY <1>1, <2>1, <2>2
<1>. QED
  BY <1>10, <1>11, <1>12 DEF Listing

\* What is recorded meanwhile leaves the documents already there as they are.
LEMMA RecordKeepsDocuments ==
    ASSUME TypeOK, NEW e \in Events, RecordBillingEvent(e)
    PROVE  /\ UNCHANGED listing
           /\ DOMAIN store \subseteq DOMAIN store'
           /\ \A d \in DOMAIN store : store'[d] = store[d]
BY StoreGrows DEF RecordBillingEvent, Attempt, Record, AttemptFails

\* Every step keeps what has been listed in order.
LEMMA NextListing ==
    ASSUME TypeOK, Listing, [Next]_vars
    PROVE  Listing'
<1>1. ASSUME NEW e \in Events, RecordBillingEvent(e)
      PROVE  Listing'
  <2>1. /\ UNCHANGED listing
        /\ \A d \in DOMAIN store : store'[d] = store[d]
    BY <1>1, RecordKeepsDocuments
  <2>2. \A i \in DOMAIN listed : listed[i] \in DOMAIN store
    BY DEF TypeOK
  <2>. QED
    BY <2>1, <2>2 DEF listing, Listing, ListedNewestFirst, NothingListedTwice,
       CursorBelowListed, Time
<1>2. ASSUME NEW q \in Queries, BeginListing(q)
      PROVE  Listing'
  BY <1>2 DEF BeginListing, Listing, ListedNewestFirst, NothingListedTwice,
     CursorBelowListed
<1>3. ASSUME NEW n \in PageSizes, List(PageSize(n))
      PROVE  Listing'
  BY <1>3, PageSizeType, ListKeepsOrder
<1>4. CASE UNCHANGED vars
  BY <1>4 DEF vars, listing, Listing, ListedNewestFirst, NothingListedTwice,
     CursorBelowListed, Time
<1>. QED
  BY <1>1, <1>2, <1>3, <1>4 DEF Next, ListBillingEvents

\* The pages of a listing run from the newest event to the oldest and show none
\* twice, whatever is appended meanwhile, equal times included.
THEOREM ListedInOrderOnce == Spec => []PagesInOrder
<1>1. Init => Listing
  BY DEF Init, Listing, ListedNewestFirst, NothingListedTwice, CursorBelowListed
<1>2. TypeOK /\ Listing /\ [Next]_vars => Listing'
  BY NextListing
<1>. QED
  BY <1>1, <1>2, TypeCorrect, PTL DEF Spec, Listing, PagesInOrder

\* No two events at the same time.
TimesDiffer == \A e, f \in Events : e.occurredAt = f.occurredAt => e = f

\* What was there when the client began is listed, or still below the cursor.
Completing ==
    /\ \A d \in atStart : Matches(query, store[d])
    /\ reader = "paging" => \A d \in atStart :
           (\E i \in DOMAIN listed : listed[i] = d) \/ BelowCursor(store[d])
    /\ ListingComplete

\* A page leaves below its cursor whatever it leaves out.
LEMMA ListCompletes ==
    ASSUME TimesDiffer, TypeOK, OneDocumentPerReference, Completing,
           NEW size \in Nat \ {0}, List(size)
    PROVE  Completing'
<1>1. PICK page \in Seq(Pending) :
          /\ listed' = listed \o page
          /\ \/ /\ reader' = "done"
                /\ \A d \in Pending : \E i \in 1..Len(page) : page[i] = d
             \/ /\ reader' = "paging"
                /\ page # <<>> /\ cursor' = Time(page[Len(page)])
                /\ \A d \in Pending : (\A i \in 1..Len(page) : page[i] # d)
                       => Time(d) <= cursor'
  BY ListStep
<1>2. reader = "paging" /\ UNCHANGED <<store, query, atStart>>
  BY DEF List
<1>3. /\ page \in Seq(DOMAIN store) /\ listed \in Seq(DOMAIN store)
      /\ Len(page) \in Nat /\ Len(listed) \in Nat /\ DOMAIN listed = 1..Len(listed)
  <2>1. Pending \subseteq DOMAIN store
    BY DEF Pending
  <2>. QED
    BY <2>1, SeqMonotonic, LenProperties DEF TypeOK
<1>4. /\ DOMAIN listed' = 1..(Len(listed) + Len(page))
      /\ \A i \in 1..(Len(listed) + Len(page)) :
             listed'[i] = IF i <= Len(listed) THEN listed[i] ELSE page[i - Len(listed)]
  BY <1>1, <1>3, ConcatProperties, LenProperties
<1>5. ASSUME NEW d \in atStart
      PROVE  \/ \E i \in DOMAIN listed : listed[i] = d
             \/ d \in Pending
  BY <1>2 DEF Completing, Pending, TypeOK
<1>6. ASSUME NEW d, \E i \in DOMAIN listed : listed[i] = d
      PROVE  \E i \in DOMAIN listed' : listed'[i] = d
  <2>1. PICK i \in DOMAIN listed : listed[i] = d
    BY <1>6
  <2>2. i \in DOMAIN listed' /\ listed'[i] = d
    BY <1>3, <1>4, <2>1
  <2>. QED
    BY <2>2
<1>7. ASSUME NEW d, \E i \in 1..Len(page) : page[i] = d
      PROVE  \E i \in DOMAIN listed' : listed'[i] = d
  <2>1. PICK i \in 1..Len(page) : page[i] = d
    BY <1>7
  <2>2. Len(listed) + i \in DOMAIN listed' /\ listed'[Len(listed) + i] = d
    BY <1>3, <1>4, <2>1
  <2>. QED
    BY <2>2
<1>8. CASE reader' = "done" /\ \A d \in Pending : \E i \in 1..Len(page) : page[i] = d
  BY <1>2, <1>5, <1>6, <1>7, <1>8 DEF Completing, ListingComplete
<1>9. CASE /\ reader' = "paging"
           /\ page # <<>> /\ cursor' = Time(page[Len(page)])
           /\ \A d \in Pending : (\A i \in 1..Len(page) : page[i] # d) => Time(d) <= cursor'
  <2>1. Len(page) \in 1..Len(page) /\ page[Len(page)] \in DOMAIN store
    BY <1>3, <1>9, EmptySeq, ElementOfSeq
  <2>2. ASSUME NEW d \in Pending, \A i \in 1..Len(page) : page[i] # d
        PROVE  BelowCursor(store[d])'
    <3>1. d \in DOMAIN store /\ d # page[Len(page)]
      BY <2>1, <2>2 DEF Pending
    <3>2. store[d] # store[page[Len(page)]]
      BY <2>1, <3>1 DEF OneDocumentPerReference
    <3>3. Time(d) # cursor'
      BY <1>9, <2>1, <3>1, <3>2, EventType DEF TimesDiffer, Time
    <3>4. Time(d) <= cursor' /\ Time(d) \in Nat /\ cursor' \in Nat
      BY <1>9, <2>1, <2>2, <3>1, EventType
    <3>5. Time(d) < cursor'
      BY <3>3, <3>4
    <3>. QED
      BY <1>2, <3>5 DEF BelowCursor, Time
  <2>3. ASSUME NEW d \in atStart
        PROVE  (\E i \in DOMAIN listed' : listed'[i] = d) \/ BelowCursor(store[d])'
    BY <1>5, <1>6, <1>7, <2>2
  <2>. QED
    BY <1>2, <1>9, <2>3 DEF Completing, ListingComplete, BelowCursor
<1>. QED
  BY <1>1, <1>8, <1>9

\* Every step keeps a listing on its way to be complete.
LEMMA NextCompletes ==
    ASSUME TimesDiffer, TypeOK, OneDocumentPerReference, Completing, [Next]_vars
    PROVE  Completing'
<1>1. ASSUME NEW e \in Events, RecordBillingEvent(e)
      PROVE  Completing'
  <2>1. /\ UNCHANGED listing
        /\ \A d \in DOMAIN store : store'[d] = store[d]
    BY <1>1, RecordKeepsDocuments
  <2>2. \A d \in atStart : d \in DOMAIN store
    BY DEF TypeOK
  <2>. QED
    BY <2>1, <2>2 DEF listing, Completing, ListingComplete, BelowCursor
<1>2. ASSUME NEW q \in Queries, BeginListing(q)
      PROVE  Completing'
  BY <1>2 DEF BeginListing, Completing, ListingComplete, BelowCursor
<1>3. ASSUME NEW n \in PageSizes, List(PageSize(n))
      PROVE  Completing'
  BY <1>3, PageSizeType, ListCompletes
<1>4. CASE UNCHANGED vars
  BY <1>4 DEF vars, listing, Completing, ListingComplete, BelowCursor
<1>. QED
  BY <1>1, <1>2, <1>3, <1>4 DEF Next, ListBillingEvents

\* If no two events share a time, a listing that comes to its end has shown
\* every event that matched when it began.
THEOREM ListedCompletely ==
    ASSUME TimesDiffer
    PROVE  Spec => []ListingComplete
<1>1. Init => Completing
  BY DEF Init, Completing, ListingComplete
<1>2. TypeOK /\ OneDocumentPerReference /\ Completing /\ [Next]_vars => Completing'
  BY NextCompletes
<1>3. StoredOnce => OneDocumentPerReference
  BY DEF StoredOnce
<1>. QED
  BY <1>1, <1>2, <1>3, TypeCorrect, RecordedOnce, PTL DEF Spec, Completing

=============================================================================
