------------------------ MODULE HistoryQueriesProofs ------------------------
(***************************************************************************)
(* With a wall clock that advances between any two saves, created_at       *)
(* orders the rows as their ids do, for any number of rows, and the        *)
(* current allocation is the last correction of the latest date.           *)
(***************************************************************************)
EXTENDS HistoryQueries, SequenceTheorems, EnumerationProofs, TLAPS

ClockAdvances == ClockSteps \subseteq Nat \ {0}

(* The invariant: created_at grows strictly with the id, up to the clock.  *)
CreatedInOrder ==
    /\ QueriesTypeOK
    /\ \A i \in DOMAIN rows : rows[i].created =< clock
    /\ \A i, k \in DOMAIN rows : i < k => rows[i].created < rows[k].created

(* Nothing was saved yet.                                                  *)
LEMMA CreatedInit == QueriesInit => CreatedInOrder
  BY EmptySeq DEF QueriesInit, CreatedInOrder, QueriesTypeOK

(* A save adds a row stamped later than every row there is.                *)
LEMMA CreatedStep ==
    ClockAdvances /\ CreatedInOrder /\ [QueriesNext]_queryVars
        => CreatedInOrder'
<1> SUFFICES ASSUME ClockAdvances, CreatedInOrder, [QueriesNext]_queryVars
             PROVE  CreatedInOrder'
  OBVIOUS
<1>1. CASE UNCHANGED queryVars
  BY <1>1 DEF queryVars, CreatedInOrder, QueriesTypeOK
<1>2. CASE QueriesNext
  <2>1. PICK p \in Portfolio, e \in Date, src \in Source, w \in Weights :
            Save(p, e, src, w)
    BY <1>2 DEF QueriesNext
  <2> DEFINE new == [portfolio |-> p, effective |-> e, source |-> src,
                     created |-> clock', weights |-> w]
  <2>2. PICK step \in ClockSteps : clock' = clock + step
    BY <2>1 DEF Save
  <2>3. /\ step \in Int /\ step > 0
        /\ clock \in Int /\ rows \in Seq(Row)
    BY DEF ClockAdvances, CreatedInOrder, QueriesTypeOK
  <2>4. clock' \in Int /\ clock < clock'
    BY <2>2, <2>3
  <2>5. new \in Row /\ new.created = clock'
    BY <2>4 DEF Row
  <2>6. rows' = Append(rows, new)
    BY <2>1 DEF Save
  <2> HIDE DEF new
  <2>7. /\ rows' \in Seq(Row) /\ Len(rows') = Len(rows) + 1
        /\ Len(rows) \in Nat
        /\ \A i \in 1 .. Len(rows) : rows'[i] = rows[i]
        /\ rows'[Len(rows) + 1] = new
    BY <2>3, <2>5, <2>6, AppendProperties
  <2>8. \A i \in 1 .. Len(rows) :
           rows[i].created \in Int /\ rows[i].created =< clock
    <3>1. \A i \in 1 .. Len(rows) : rows[i] \in Row
      BY <2>3
    <3> QED
      BY <3>1 DEF CreatedInOrder, Row
  <2>9. \A i \in DOMAIN rows' : rows'[i].created =< clock'
    BY <2>3, <2>4, <2>5, <2>7, <2>8
  <2>10. \A i, k \in DOMAIN rows' :
            i < k => rows'[i].created < rows'[k].created
    <3> SUFFICES ASSUME NEW i \in DOMAIN rows', NEW k \in DOMAIN rows', i < k
                 PROVE  rows'[i].created < rows'[k].created
      OBVIOUS
    <3>1. i \in 1 .. Len(rows) /\ rows'[i] = rows[i]
      BY <2>7
    <3>2. CASE k = Len(rows) + 1
      BY <2>3, <2>4, <2>5, <2>7, <2>8, <3>1, <3>2
    <3>3. CASE k # Len(rows) + 1
      <4>1. k \in 1 .. Len(rows) /\ rows'[k] = rows[k]
        BY <2>7, <3>3
      <4> QED
        BY <2>3, <3>1, <4>1 DEF CreatedInOrder
    <3> QED
      BY <3>2, <3>3
  <2> QED
    BY <2>4, <2>7, <2>9, <2>10 DEF CreatedInOrder, QueriesTypeOK
<1> QED
  BY <1>1, <1>2

(* The table stays typed, whatever the clock does.                         *)
LEMMA QueriesTypeStep ==
    QueriesTypeOK /\ [QueriesNext]_queryVars => QueriesTypeOK'
<1> SUFFICES ASSUME QueriesTypeOK, [QueriesNext]_queryVars
             PROVE  QueriesTypeOK'
  OBVIOUS
<1>1. CASE UNCHANGED queryVars
  BY <1>1 DEF queryVars, QueriesTypeOK
<1>2. CASE QueriesNext
  <2>1. PICK p \in Portfolio, e \in Date, src \in Source, w \in Weights :
            Save(p, e, src, w)
    BY <1>2 DEF QueriesNext
  <2> DEFINE new == [portfolio |-> p, effective |-> e, source |-> src,
                     created |-> clock', weights |-> w]
  <2>2. clock' \in Int
    BY <2>1, QueriesAssumption DEF Save, QueriesTypeOK
  <2>3. new \in Row
    BY <2>2 DEF Row
  <2>4. rows' = Append(rows, new)
    BY <2>1 DEF Save
  <2> HIDE DEF new
  <2> QED
    BY <2>2, <2>3, <2>4, AppendProperties DEF QueriesTypeOK
<1> QED
  BY <1>1, <1>2

(* The type invariant of the table.                                        *)
THEOREM QueriesTypeCorrect == QueriesSpec => []QueriesTypeOK
<1>1. QueriesInit => QueriesTypeOK
  BY EmptySeq DEF QueriesInit, QueriesTypeOK
<1> QED
  BY <1>1, QueriesTypeStep, PTL DEF QueriesSpec

(* The stamp and the effective date of a row are integers.                 *)
LEMMA StampsAndDates ==
    ASSUME QueriesTypeOK, NEW i \in DOMAIN rows
    PROVE  /\ i \in Int
           /\ rows[i].created \in Int
           /\ rows[i].effective \in Int
<1>1. rows[i] \in Row /\ i \in Int
  BY DEF QueriesTypeOK
<1>2. rows[i].created \in Int /\ rows[i].effective \in Date
  BY <1>1 DEF Row
<1> QED
  BY <1>1, <1>2, QueriesAssumption

(* Ids and stamps order two committed rows alike.                          *)
LEMMA NewerMeansLater ==
    ASSUME CreatedInOrder, NEW p \in Portfolio,
           NEW i \in Committed(p), NEW k \in Committed(p)
    PROVE  Newer(i, k) <=> \/ rows[i].effective > rows[k].effective
                           \/ /\ rows[i].effective = rows[k].effective
                              /\ i > k
<1>1. /\ i \in DOMAIN rows /\ k \in DOMAIN rows
      /\ i \in Int /\ k \in Int
  BY DEF Committed, CreatedInOrder, QueriesTypeOK
<1>2. rows[i].created \in Int /\ rows[k].created \in Int
  BY <1>1, StampsAndDates DEF CreatedInOrder
<1>3. rows[i].created > rows[k].created <=> i > k
  BY <1>1, <1>2 DEF CreatedInOrder
<1> QED
  BY <1>3 DEF Newer

(* get_current() answers with the last correction of the latest date.      *)
THEOREM CurrentIsLatest ==
    ClockAdvances => (QueriesSpec => []LatestCorrectionIsCurrent)
<1> SUFFICES ASSUME ClockAdvances PROVE QueriesSpec => []LatestCorrectionIsCurrent
  OBVIOUS
<1>1. CreatedInOrder => LatestCorrectionIsCurrent
  <2> SUFFICES ASSUME CreatedInOrder, NEW p \in Portfolio,
                      NEW i \in Current(p), NEW k \in Committed(p)
               PROVE  \/ rows[k].effective < rows[i].effective
                      \/ rows[k].effective = rows[i].effective /\ k =< i
    BY DEF LatestCorrectionIsCurrent
  <2>1. i \in Committed(p) /\ ~Newer(k, i)
    BY DEF Current
  <2>2. /\ i \in DOMAIN rows /\ k \in DOMAIN rows /\ i \in Int /\ k \in Int
    BY <2>1 DEF Committed, CreatedInOrder, QueriesTypeOK
  <2>3. rows[i].effective \in Int /\ rows[k].effective \in Int
    BY <2>2, StampsAndDates DEF CreatedInOrder
  <2> QED
    BY <2>1, <2>2, <2>3, NewerMeansLater
<1>2. CreatedInOrder /\ [QueriesNext]_queryVars => CreatedInOrder'
  BY CreatedStep
<1> QED
  BY <1>1, <1>2, CreatedInit, PTL DEF QueriesSpec

CurrentIsDeterministic ==
    \A p \in Portfolio : \A i, k \in Current(p) : i = k

(* get_current() never has a choice between two rows.                      *)
THEOREM CurrentIsUnique ==
    ClockAdvances => (QueriesSpec => []CurrentIsDeterministic)
<1> SUFFICES ASSUME ClockAdvances PROVE QueriesSpec => []CurrentIsDeterministic
  OBVIOUS
<1>1. CreatedInOrder => CurrentIsDeterministic
  <2> SUFFICES ASSUME CreatedInOrder, NEW p \in Portfolio,
                      NEW i \in Current(p), NEW k \in Current(p)
               PROVE  i = k
    BY DEF CurrentIsDeterministic
  <2>1. /\ i \in Committed(p) /\ k \in Committed(p)
        /\ ~Newer(k, i) /\ ~Newer(i, k)
    BY DEF Current
  <2>2. /\ i \in DOMAIN rows /\ k \in DOMAIN rows /\ i \in Int /\ k \in Int
    BY <2>1 DEF Committed, CreatedInOrder, QueriesTypeOK
  <2>3. rows[i].effective \in Int /\ rows[k].effective \in Int
    BY <2>2, StampsAndDates DEF CreatedInOrder
  <2> QED
    BY <2>1, <2>2, <2>3, NewerMeansLater
<1>2. CreatedInOrder /\ [QueriesNext]_queryVars => CreatedInOrder'
  BY CreatedStep
<1> QED
  BY <1>1, <1>2, CreatedInit, PTL DEF QueriesSpec

----------------------------------------------------------------------------
(* The timeline as an enumeration of the committed rows.                   *)

(* The committed rows that come before row k of portfolio p.               *)
Before(p) == [k \in Committed(p) |-> {i \in Committed(p) : Older(i, k)}]

(* The rows are finitely many, and so are the committed ones.              *)
LEMMA CommittedIsFinite ==
    ASSUME QueriesTypeOK, NEW p
    PROVE  /\ Committed(p) \subseteq DOMAIN rows
           /\ Committed(p) \subseteq 1 .. Len(rows) /\ Len(rows) \in Nat
           /\ IsFiniteSet(Committed(p)) /\ Cardinality(Committed(p)) \in Nat
<1>1. DOMAIN rows = 1 .. Len(rows) /\ Len(rows) \in Nat
  BY DEF QueriesTypeOK
<1>2. Committed(p) \subseteq DOMAIN rows
  BY DEF Committed
<1>3. IsFiniteSet(1 .. Len(rows))
  BY <1>1, FS_Interval
<1> QED
  BY <1>1, <1>2, <1>3, FS_Subset, FS_CardinalityType

(* Ids and dates decide between two committed rows.                        *)
LEMMA OlderMeansEarlier ==
    ASSUME CreatedInOrder, NEW p, NEW i \in Committed(p), NEW k \in Committed(p)
    PROVE  /\ Older(i, k) <=> \/ rows[i].effective < rows[k].effective
                              \/ /\ rows[i].effective = rows[k].effective
                                 /\ i < k
           /\ Newer(i, k) <=> Older(k, i)
           /\ i \in Int /\ k \in Int
           /\ rows[i].effective \in Int /\ rows[k].effective \in Int
<1>1. i \in DOMAIN rows /\ k \in DOMAIN rows
  BY DEF Committed
<1>2. /\ i \in Int /\ k \in Int
      /\ rows[i].created \in Int /\ rows[k].created \in Int
      /\ rows[i].effective \in Int /\ rows[k].effective \in Int
  BY <1>1, StampsAndDates DEF CreatedInOrder
<1>3. rows[i].created < rows[k].created <=> i < k
  BY <1>1, <1>2 DEF CreatedInOrder
<1> QED
  BY <1>2, <1>3 DEF Older, Newer

(* They order the rows strictly and leave no choice.                       *)
LEMMA OlderIsOrder ==
    ASSUME CreatedInOrder, NEW p
    PROVE  IsStrictOrder(Committed(p), Before(p))
<1> DEFINE C == Committed(p)
<1>1. \A i, k \in C : i \in Before(p)[k] <=> Older(i, k)
  BY DEF Before
<1>2. Before(p) \in [C -> SUBSET C]
  BY DEF Before
<1>3. ASSUME NEW i \in C, NEW k \in C
      PROVE  /\ ~Older(i, i)
             /\ i # k => Older(i, k) \/ Older(k, i)
  BY OlderMeansEarlier
<1>4. ASSUME NEW h \in C, NEW i \in C, NEW k \in C, Older(h, i), Older(i, k)
      PROVE  Older(h, k)
  <2>1. /\ h \in Int /\ i \in Int /\ k \in Int
        /\ rows[h].effective \in Int /\ rows[i].effective \in Int
        /\ rows[k].effective \in Int
    BY OlderMeansEarlier
  <2>2. \/ rows[h].effective < rows[i].effective
        \/ rows[h].effective = rows[i].effective /\ h < i
    BY <1>4, OlderMeansEarlier
  <2>3. \/ rows[i].effective < rows[k].effective
        \/ rows[i].effective = rows[k].effective /\ i < k
    BY <1>4, OlderMeansEarlier
  <2>4. \/ rows[h].effective < rows[k].effective
        \/ rows[h].effective = rows[k].effective /\ h < k
    BY <2>1, <2>2, <2>3
  <2> QED
    BY <2>4, OlderMeansEarlier
<1>5. ASSUME NEW i \in C, NEW k \in C, i \in Before(p)[k]
      PROVE  Before(p)[i] \subseteq Before(p)[k]
  BY <1>1, <1>2, <1>4, <1>5
<1> QED
  BY <1>1, <1>2, <1>3, <1>5 DEF IsStrictOrder

(* chained_timeline() lists the committed rows, strictly from old to new.  *)
LEMMA TimelinesAreListings ==
    ASSUME CreatedInOrder, NEW p, NEW q
    PROVE  q \in Timelines(p) <=>
              /\ IsListing(Committed(p), q)
              /\ \A a, b \in 1 .. Cardinality(Committed(p)) :
                    a < b => q[a] \in Before(p)[q[b]]
<1> DEFINE C == Committed(p)
           n == Cardinality(C)
<1>1. q \in SetToSeqs(C) <=> IsListing(C, q)
  BY DEF SetToSeqs, IsListing
<1>2. ASSUME IsListing(C, q)
      PROVE  (\A a, b \in DOMAIN q : a < b => ~Older(q[b], q[a]))
                <=> (\A a, b \in 1 .. n : a < b => q[a] \in Before(p)[q[b]])
  <2>1. /\ DOMAIN q = 1 .. n
        /\ \A a \in 1 .. n : q[a] \in C
        /\ \A a, b \in 1 .. n : a < b => q[a] # q[b]
    BY <1>2, CommittedIsFinite DEF IsListing, CreatedInOrder
  <2>2. \A i, k \in C : i # k => (~Older(k, i) <=> Older(i, k))
    BY OlderMeansEarlier
  <2>3. \A i, k \in C : i \in Before(p)[k] <=> Older(i, k)
    BY DEF Before
  <2> QED
    BY <2>1, <2>2, <2>3
<1> QED
  BY <1>1, <1>2 DEF Timelines

(* There is one timeline, and it is a sequence of all the committed rows.  *)
LEMMA OneTimeline ==
    ASSUME CreatedInOrder, NEW p
    PROVE  /\ \E q : q \in Timelines(p)
           /\ \A q, r \in Timelines(p) : q = r
<1>1. IsFiniteSet(Committed(p)) /\ IsStrictOrder(Committed(p), Before(p))
  BY CommittedIsFinite, OlderIsOrder DEF CreatedInOrder
<1>2. \E q : q \in Timelines(p)
  BY <1>1, OrderedListing, TimelinesAreListings
<1>3. \A q, r \in Timelines(p) : q = r
  BY <1>1, TimelinesAreListings, ListingIsUnique
<1> QED
  BY <1>2, <1>3

(* A timeline is the listing of the committed rows by effective date.      *)
LEMMA TimelineFacts ==
    ASSUME CreatedInOrder, NEW p, NEW q \in Timelines(p)
    PROVE  /\ Len(q) \in Nat /\ Len(q) = Cardinality(Committed(p))
           /\ DOMAIN q = 1 .. Len(q)
           /\ q \in [1 .. Len(q) -> Committed(p)]
           /\ q \in Seq(Committed(p))
           /\ \A a \in 1 .. Len(q) : q[a] \in Committed(p)
           /\ \A a, b \in 1 .. Len(q) : a < b => Older(q[a], q[b])
           /\ \A i \in Committed(p) : \E a \in 1 .. Len(q) : q[a] = i
<1> DEFINE C == Committed(p)
           n == Cardinality(C)
<1>1. IsFiniteSet(C) /\ n \in Nat
  BY CommittedIsFinite DEF CreatedInOrder
<1>2. /\ IsListing(C, q)
      /\ \A a, b \in 1 .. n : a < b => q[a] \in Before(p)[q[b]]
  BY TimelinesAreListings
<1>3. q \in [1 .. n -> C]
  BY <1>2 DEF IsListing
<1>4. q \in Seq(C) /\ Len(q) = n
  BY <1>1, <1>3
<1>5. \A i \in C : \E a \in 1 .. n : q[a] = i
  BY <1>1, <1>2, ListingIsOnto
<1>6. \A a, b \in 1 .. n : a < b => Older(q[a], q[b])
  BY <1>2, <1>3 DEF Before
<1> QED
  BY <1>1, <1>3, <1>4, <1>5, <1>6

----------------------------------------------------------------------------
(* The weights in force on a day.                                          *)

(* The last correction of the latest effective date not after day d.       *)
InForceOn(p, d) ==
    LET started == {i \in Committed(p) : rows[i].effective =< d}
    IN  {i \in started : \A k \in started :
            \/ rows[k].effective < rows[i].effective
            \/ rows[k].effective = rows[i].effective /\ k =< i}

(* The scan of portfolio_returns() finds it, on every day.                 *)
LEMMA ActiveIsInForce ==
    ASSUME CreatedInOrder, NEW p, NEW q \in Timelines(p), NEW d \in Int
    PROVE  Active(q, d) = InForceOn(p, d)
<1> DEFINE started == {i \in Committed(p) : rows[i].effective =< d}
           inForce == {a \in DOMAIN q : rows[q[a]].effective =< d}
<1>1. /\ DOMAIN q = 1 .. Len(q) /\ Len(q) \in Nat
      /\ \A a \in 1 .. Len(q) : q[a] \in Committed(p)
      /\ \A a, b \in 1 .. Len(q) : a < b => Older(q[a], q[b])
      /\ \A i \in Committed(p) : \E a \in 1 .. Len(q) : q[a] = i
  BY TimelineFacts
<1>2. \A i, k \in Committed(p) :
         /\ Older(k, i) <=> \/ rows[k].effective < rows[i].effective
                            \/ rows[k].effective = rows[i].effective /\ k < i
         /\ i \in Int /\ k \in Int
         /\ rows[i].effective \in Int /\ rows[k].effective \in Int
  BY OlderMeansEarlier
<1>3. \A i, k \in Committed(p) :
         (\/ rows[k].effective < rows[i].effective
          \/ rows[k].effective = rows[i].effective /\ k =< i)
            <=> Older(k, i) \/ k = i
  BY <1>2
<1>4. InForceOn(p, d) = {i \in started : \A k \in started : Older(k, i) \/ k = i}
  BY <1>3 DEF InForceOn
<1>5. Active(q, d) = {q[a] : a \in {a \in inForce : \A b \in inForce : b =< a}}
  BY DEF Active
<1>6. ASSUME NEW a \in 1 .. Len(q), NEW b \in 1 .. Len(q)
      PROVE  (Older(q[b], q[a]) \/ q[b] = q[a]) <=> b =< a
  <2>1. a \in Int /\ b \in Int
    OBVIOUS
  <2>2. b < a => Older(q[b], q[a])
    BY <1>1
  <2>3. a < b => ~Older(q[b], q[a]) /\ q[b] # q[a]
    <3> SUFFICES ASSUME a < b PROVE ~Older(q[b], q[a]) /\ q[b] # q[a]
      OBVIOUS
    <3>1. Older(q[a], q[b]) /\ q[a] \in Committed(p) /\ q[b] \in Committed(p)
      BY <1>1
    <3> QED
      BY <1>2, <3>1
  <2> QED
    BY <2>1, <2>2, <2>3
<1>7. \A a \in 1 .. Len(q) : a \in inForce <=> q[a] \in started
  BY <1>1
<1> HIDE DEF started, inForce
<1>8. ASSUME NEW a \in 1 .. Len(q)
      PROVE  (a \in inForce /\ \A b \in inForce : b =< a)
                <=> q[a] \in InForceOn(p, d)
  <2>1. inForce \subseteq 1 .. Len(q) /\ started \subseteq Committed(p)
    BY <1>1 DEF inForce, started
  <2> QED
    BY <1>1, <1>4, <1>6, <1>7, <2>1
<1>9. inForce \subseteq 1 .. Len(q) /\ InForceOn(p, d) \subseteq Committed(p)
  BY <1>1, <1>4 DEF inForce, started
<1> QED
  BY <1>1, <1>5, <1>8, <1>9

(* portfolio_returns() applies the weights in force on the very day.       *)
THEOREM DaysFollow ==
    ClockAdvances => (QueriesSpec => []DaysFollowLatestCorrection)
<1> SUFFICES ASSUME ClockAdvances
             PROVE  QueriesSpec => []DaysFollowLatestCorrection
  OBVIOUS
<1>1. CreatedInOrder => DaysFollowLatestCorrection
  <2> SUFFICES ASSUME CreatedInOrder, NEW p \in Portfolio,
                      NEW q \in Timelines(p), NEW d \in Date
               PROVE  Active(q, d) = InForceOn(p, d)
    BY DEF DaysFollowLatestCorrection, InForceOn
  <2> QED
    BY QueriesAssumption, ActiveIsInForce
<1>2. CreatedInOrder /\ [QueriesNext]_queryVars => CreatedInOrder'
  BY CreatedStep
<1> QED
  BY <1>1, <1>2, CreatedInit, PTL DEF QueriesSpec

----------------------------------------------------------------------------
(* The queries agree.                                                      *)

(* get_current() is the end of the timeline.                               *)
LEMMA CurrentEndsTimeline ==
    ASSUME CreatedInOrder, NEW p, NEW q \in Timelines(p)
    PROVE  Current(p) = IF Len(q) = 0 THEN {} ELSE {q[Len(q)]}
<1>1. /\ Len(q) \in Nat
      /\ \A a \in 1 .. Len(q) : q[a] \in Committed(p)
      /\ \A a, b \in 1 .. Len(q) : a < b => Older(q[a], q[b])
      /\ \A i \in Committed(p) : \E a \in 1 .. Len(q) : q[a] = i
  BY TimelineFacts
<1>2. \A i, k \in Committed(p) : /\ Newer(k, i) <=> Older(i, k)
                                 /\ ~(Older(i, k) /\ Older(k, i))
                                 /\ ~Older(i, i)
  BY OlderMeansEarlier
<1>3. Current(p) = {i \in Committed(p) : \A k \in Committed(p) : ~Older(i, k)}
  BY <1>2 DEF Current
<1>4. CASE Len(q) = 0
  BY <1>1, <1>3, <1>4
<1>5. CASE Len(q) # 0
  <2> DEFINE n == Len(q)
  <2>1. n \in 1 .. n /\ \A a \in 1 .. n : a < n \/ a = n
    BY <1>1, <1>5
  <2> HIDE DEF n
  <2>2. \A a \in 1 .. n : a = n \/ Older(q[a], q[n])
    BY <1>1, <2>1 DEF n
  <2>3. \A i \in Committed(p) : i = q[n] \/ Older(i, q[n])
    BY <1>1, <2>2 DEF n
  <2>4. q[n] \in Committed(p)
    BY <1>1, <2>1 DEF n
  <2>5. \A i \in Committed(p) : i \in Current(p) <=> i = q[n]
    BY <1>2, <1>3, <2>3, <2>4
  <2>6. Current(p) \subseteq Committed(p)
    BY <1>3
  <2>7. Current(p) = {q[n]}
    BY <2>4, <2>5, <2>6
  <2> QED
    BY <1>5, <2>7 DEF n
<1> QED
  BY <1>4, <1>5

(* get_previous() is what the timeline holds before its end.               *)
LEMMA PreviousBeforeEnd ==
    ASSUME CreatedInOrder, NEW p, NEW q \in Timelines(p)
    PROVE  Previous(p) = IF Len(q) < 2 THEN {} ELSE {q[Len(q) - 1]}
<1> DEFINE n == Len(q)
<1>1. /\ n \in Nat
      /\ \A a \in 1 .. n : q[a] \in Committed(p)
      /\ \A a, b \in 1 .. n : a < b => Older(q[a], q[b])
      /\ \A i \in Committed(p) : \E a \in 1 .. n : q[a] = i
  BY TimelineFacts
<1>2. Current(p) = IF n = 0 THEN {} ELSE {q[n]}
  BY CurrentEndsTimeline
<1> HIDE DEF n
<1>3. \A i, k \in Committed(p) : /\ Newer(k, i) <=> Older(i, k)
                                 /\ ~(Older(i, k) /\ Older(k, i))
                                 /\ ~Older(i, i)
  BY OlderMeansEarlier
<1>4. Previous(p) \subseteq Committed(p)
  BY DEF Previous
<1>5. CASE n < 2
  <2>1. \A i \in Committed(p), k \in Committed(p) : i = k
    <3>1. \A a, b \in 1 .. n : a = b
      BY <1>1, <1>5
    <3> QED
      BY <1>1, <3>1
  <2>2. Current(p) \subseteq Committed(p)
    BY DEF Current
  <2>3. Previous(p) = {}
    BY <1>4, <2>1, <2>2 DEF Previous
  <2> QED
    BY <1>5, <2>3 DEF n
<1>6. CASE ~(n < 2)
  <2>1. /\ n \in 1 .. n /\ n - 1 \in 1 .. n /\ n - 1 < n /\ n # 0
        /\ \A a \in 1 .. n : a = n \/ a = n - 1 \/ a < n - 1
    BY <1>1, <1>6
  <2> DEFINE last == q[n]
             prev == q[n - 1]
  <2>2. /\ last \in Committed(p) /\ prev \in Committed(p)
        /\ Older(prev, last) /\ last # prev /\ Current(p) = {last}
    BY <1>1, <1>2, <1>3, <2>1
  <2>3. \A a \in 1 .. n : a = n \/ a = n - 1 \/ Older(q[a], prev)
    BY <1>1, <2>1
  <2>4. \A i \in Committed(p) : i = last \/ i = prev \/ Older(i, prev)
    BY <1>1, <2>3
  <2> HIDE DEF last, prev
  <2>5. \A k \in Committed(p) : k \in Previous(p) <=>
           k # last /\ \A m \in Committed(p) \ {last, k} : ~Older(k, m)
    <3>1. \A k : k \in Previous(p) <=>
             /\ k \in Committed(p)
             /\ \E i \in Current(p) \ {k} :
                   \A m \in Committed(p) \ {i, k} : ~Newer(m, k)
      BY DEF Previous
    <3> QED
      BY <1>3, <2>2, <3>1
  <2>6. prev \in Previous(p)
    BY <1>3, <2>2, <2>4, <2>5
  <2>7. \A k \in Previous(p) : k = prev
    BY <1>3, <1>4, <2>2, <2>4, <2>5
  <2>8. Previous(p) = {prev}
    BY <2>6, <2>7
  <2> QED
    BY <1>6, <2>8 DEF n, prev
<1> QED
  BY <1>5, <1>6

(* Read backwards, a list of the rows from new to old is the timeline.     *)
LEMMA BackwardsIsTimeline ==
    ASSUME CreatedInOrder, NEW p, NEW q \in Timelines(p), NEW r
    PROVE  (/\ r \in SetToSeqs(Committed(p))
            /\ \A a, b \in DOMAIN r : a < b => ~Newer(r[b], r[a]))
              <=> r = Reverse(q)
<1> DEFINE C == Committed(p)
           n == Len(q)
<1>1. /\ n \in Nat /\ n = Cardinality(C)
      /\ q \in [1 .. n -> C]
      /\ \A a \in 1 .. n : q[a] \in C
      /\ \A a, b \in 1 .. n : a < b => Older(q[a], q[b])
  BY TimelineFacts
<1>2. \A i, k \in C : /\ Newer(i, k) <=> Older(k, i)
                      /\ ~(Older(i, k) /\ Older(k, i))
                      /\ ~Older(i, i)
                      /\ i # k => Older(i, k) \/ Older(k, i)
  BY OlderMeansEarlier
<1>3. Reverse(q) = [k \in 1 .. n |-> q[n - k + 1]]
  BY DEF Reverse
<1> HIDE DEF n
<1>4. \A k \in 1 .. n : n - k + 1 \in 1 .. n /\ n - (n - k + 1) + 1 = k
  BY <1>1
<1>5. \A a, b \in 1 .. n : a < b => n - b + 1 < n - a + 1
  BY <1>1
<1>6. r \in SetToSeqs(C) <=>
         /\ r \in [1 .. n -> C]
         /\ \A a, b \in 1 .. n : a # b => r[a] # r[b]
  BY <1>1 DEF SetToSeqs
<1>7. ASSUME r = Reverse(q)
      PROVE  /\ r \in SetToSeqs(C)
             /\ \A a, b \in DOMAIN r : a < b => ~Newer(r[b], r[a])
  <2>1. /\ r \in [1 .. n -> C] /\ DOMAIN r = 1 .. n
        /\ \A k \in 1 .. n : r[k] = q[n - k + 1]
    BY <1>1, <1>3, <1>4, <1>7
  <2>2. ASSUME NEW a \in 1 .. n, NEW b \in 1 .. n, a < b
        PROVE  Older(r[b], r[a])
    <3>1. /\ n - b + 1 \in 1 .. n /\ n - a + 1 \in 1 .. n
          /\ n - b + 1 < n - a + 1
      BY <1>1, <2>2
    <3>2. Older(q[n - b + 1], q[n - a + 1])
      BY <1>1, <3>1 DEF n
    <3> QED
      BY <2>1, <3>2
  <2>3. \A a, b \in 1 .. n : a < b => r[a] # r[b] /\ ~Newer(r[b], r[a])
    BY <1>2, <2>1, <2>2
  <2>4. \A a, b \in 1 .. n : a # b => a < b \/ b < a
    OBVIOUS
  <2> QED
    BY <1>6, <2>1, <2>3, <2>4
<1>8. ASSUME r \in SetToSeqs(C),
             \A a, b \in DOMAIN r : a < b => ~Newer(r[b], r[a])
      PROVE  r = Reverse(q)
  <2> DEFINE s == [k \in 1 .. n |-> r[n - k + 1]]
  <2>1. /\ r \in [1 .. n -> C] /\ DOMAIN r = 1 .. n
        /\ \A a \in 1 .. n : r[a] \in C
        /\ \A a, b \in 1 .. n : a # b => r[a] # r[b]
    BY <1>6, <1>8
  <2>2. \A a, b \in 1 .. n : a < b => Older(r[b], r[a]) /\ a # b
    BY <1>2, <1>8, <2>1
  <2>3. /\ s \in [1 .. n -> C]
        /\ \A k \in 1 .. n : s[k] = r[n - k + 1]
    BY <1>4, <2>1
  <2> HIDE DEF s
  <2>4. \A a, b \in 1 .. n : a < b => Older(s[a], s[b])
    BY <1>4, <1>5, <2>2, <2>3
  <2>5. \A a, b \in 1 .. n : a # b => s[a] # s[b]
    <3>1. \A a, b \in 1 .. n : a # b => a < b \/ b < a
      OBVIOUS
    <3> QED
      BY <1>2, <2>3, <2>4, <3>1
  <2>6. IsListing(C, s)
    BY <1>1, <2>3, <2>5 DEF IsListing
  <2>7. \A a, b \in 1 .. n : a < b => s[a] \in Before(p)[s[b]]
    BY <2>3, <2>4 DEF Before
  <2>8. s \in Timelines(p)
    BY <1>1, <2>6, <2>7, TimelinesAreListings
  <2>9. s = q
    BY <2>8, OneTimeline
  <2>10. \A k \in 1 .. n : r[k] = q[n - k + 1]
    BY <1>4, <2>3, <2>9
  <2>11. r = [k \in 1 .. n |-> r[k]]
    BY <2>1
  <2> QED
    BY <1>3, <2>10, <2>11
<1> QED
  BY <1>7, <1>8

(* get_current(), get_previous(), list_history() and chained_timeline()    *)
(* never contradict one another, however rows were backdated.              *)
THEOREM Agreement == ClockAdvances => (QueriesSpec => []QueriesAgree)
<1> SUFFICES ASSUME ClockAdvances PROVE QueriesSpec => []QueriesAgree
  OBVIOUS
<1>1. CreatedInOrder => QueriesAgree
  <2> SUFFICES ASSUME CreatedInOrder, NEW p \in Portfolio,
                      NEW q \in Timelines(p)
               PROVE  /\ Listings(p, 2) = {SubSeq(Reverse(q), 1,
                              IF Len(q) < 2 THEN Len(q) ELSE 2)}
                      /\ Current(p) = IF q = << >> THEN {} ELSE {Last(q)}
                      /\ Previous(p) = IF Len(q) < 2 THEN {}
                                       ELSE {q[Len(q) - 1]}
    BY DEF QueriesAgree
  <2>1. q \in Seq(Committed(p)) /\ Len(q) \in Nat
    BY TimelineFacts
  <2>2. Current(p) = IF q = << >> THEN {} ELSE {Last(q)}
    <3>1. q = << >> <=> Len(q) = 0
      BY <2>1, EmptySeq
    <3> QED
      BY <3>1, CurrentEndsTimeline DEF Last
  <2>3. Len(Reverse(q)) = Len(q)
    <3>1. /\ Reverse(q) = [k \in 1 .. Len(q) |-> q[Len(q) - k + 1]]
          /\ \A k \in 1 .. Len(q) : Len(q) - k + 1 \in 1 .. Len(q)
      BY <2>1 DEF Reverse
    <3>2. Reverse(q) \in [1 .. Len(q) -> Committed(p)]
      BY <2>1, <3>1
    <3> QED
      BY <2>1, <3>2
  <2>4. (IF 2 < Len(q) THEN 2 ELSE Len(q)) = (IF Len(q) < 2 THEN Len(q) ELSE 2)
    BY <2>1
  <2>5. {r \in SetToSeqs(Committed(p)) :
            \A a, b \in DOMAIN r : a < b => ~Newer(r[b], r[a])} = {Reverse(q)}
    BY BackwardsIsTimeline
  <2>6. Listings(p, 2) = {SubSeq(Reverse(q), 1,
                              IF Len(q) < 2 THEN Len(q) ELSE 2)}
    BY <2>3, <2>4, <2>5 DEF Listings
  <2> QED
    BY <2>2, <2>6, PreviousBeforeEnd
<1>2. CreatedInOrder /\ [QueriesNext]_queryVars => CreatedInOrder'
  BY CreatedStep
<1> QED
  BY <1>1, <1>2, CreatedInit, PTL DEF QueriesSpec

----------------------------------------------------------------------------
(* What a save does to the rows.                                           *)
LEMMA SaveAdds ==
    ASSUME QueriesTypeOK, NEW p \in Portfolio, NEW e \in Date,
           NEW src \in Source, NEW w \in Weights, Save(p, e, src, w)
    PROVE  /\ Len(rows) \in Nat /\ Len(rows') = Len(rows) + 1
           /\ DOMAIN rows = 1 .. Len(rows) /\ DOMAIN rows' = 1 .. Len(rows')
           /\ \A i \in 1 .. Len(rows) : rows'[i] = rows[i]
           /\ rows'[Len(rows')].portfolio = p
           /\ rows'[Len(rows')].effective = e
           /\ rows'[Len(rows')].source = src
           /\ rows'[Len(rows')].weights = w
<1> DEFINE new == [portfolio |-> p, effective |-> e, source |-> src,
                   created |-> clock', weights |-> w]
<1>1. clock' \in Int /\ rows \in Seq(Row)
  BY QueriesAssumption DEF Save, QueriesTypeOK
<1>2. new \in Row
  BY <1>1 DEF Row
<1>3. rows' = Append(rows, new)
  BY DEF Save
<1>4. /\ new.portfolio = p /\ new.effective = e
      /\ new.source = src /\ new.weights = w
  OBVIOUS
<1> HIDE DEF new
<1>5. /\ Len(rows) \in Nat /\ Len(rows') = Len(rows) + 1
      /\ DOMAIN rows = 1 .. Len(rows) /\ DOMAIN rows' = 1 .. Len(rows) + 1
      /\ \A i \in 1 .. Len(rows) : rows'[i] = rows[i]
      /\ rows'[Len(rows) + 1] = new
  BY <1>1, <1>2, <1>3, AppendProperties
<1> QED
  BY <1>4, <1>5

(* What a save adds to the committed rows.                                 *)
LEMMA SaveCommits ==
    ASSUME QueriesTypeOK, NEW p \in Portfolio, NEW e \in Date,
           NEW src \in Source, NEW w \in Weights, Save(p, e, src, w), NEW c
    PROVE  Committed(c)' = IF c = p /\ src \in CommittedSource
                           THEN Committed(c) \cup {Len(rows')}
                           ELSE Committed(c)
<1> DEFINE n == Len(rows)
<1>1. /\ n \in Nat /\ Len(rows') = n + 1
      /\ DOMAIN rows = 1 .. n /\ DOMAIN rows' = 1 .. n + 1
      /\ \A i \in 1 .. n : rows'[i] = rows[i]
      /\ rows'[n + 1].portfolio = p /\ rows'[n + 1].source = src
  BY SaveAdds
<1> HIDE DEF n
<1>2. /\ \A i \in 1 .. n + 1 : i \in 1 .. n \/ i = n + 1
      /\ 1 .. n \subseteq 1 .. n + 1
      /\ n + 1 \in 1 .. n + 1
  BY <1>1
<1> QED
  BY <1>1, <1>2 DEF Committed

(* A row that does not count on day d leaves what was in force there.      *)
LEMMA SaveKeepsOtherDays ==
    ASSUME QueriesTypeOK, NEW p \in Portfolio, NEW e \in Date,
           NEW src \in Source, NEW w \in Weights, Save(p, e, src, w),
           NEW c, NEW d \in Int,
           c # p \/ src \notin CommittedSource \/ d < e
    PROVE  InForceOn(c, d)' = InForceOn(c, d)
<1> DEFINE new == Len(rows')
<1>1. /\ Len(rows) \in Nat /\ new = Len(rows) + 1
      /\ \A i \in 1 .. Len(rows) : rows'[i] = rows[i]
      /\ rows'[new].effective = e
  BY SaveAdds
<1>6. Committed(c)' = IF c = p /\ src \in CommittedSource
                      THEN Committed(c) \cup {new} ELSE Committed(c)
  BY SaveCommits
<1>2. Committed(c) \subseteq 1 .. Len(rows)
  BY CommittedIsFinite
<1>3. e \in Int
  BY QueriesAssumption
<1> HIDE DEF new
<1>4. \A i \in Committed(c) : rows'[i].effective = rows[i].effective
  BY <1>1, <1>2
<1>5. {i \in Committed(c)' : rows'[i].effective =< d}
         = {i \in Committed(c) : rows[i].effective =< d}
  <2>1. CASE Committed(c)' = Committed(c)
    BY <1>4, <2>1
  <2>2. CASE Committed(c)' = Committed(c) \cup {new} /\ d < e
    <3>1. ~(rows'[new].effective =< d)
      BY <1>1, <1>3, <2>2
    <3> QED
      BY <1>4, <2>2, <3>1
  <2> QED
    BY <1>6, <2>1, <2>2
<1> QED
  BY <1>4, <1>5 DEF InForceOn

(* A save, a backdated one too, never changes the weights of an earlier    *)
(* day, of another portfolio, or of any day if it is a preview.            *)
THEOREM EarlierDaysKept ==
    ClockAdvances => (QueriesSpec => EarlierDaysKeepTheirWeights)
<1> SUFFICES ASSUME ClockAdvances
             PROVE  QueriesSpec => EarlierDaysKeepTheirWeights
  OBVIOUS
<1> DEFINE Kept ==
      \A p \in Portfolio, d \in Date :
         LET new == rows'[Len(rows')]
             Answers == {Active(q, d) : q \in Timelines(p)}
         IN  \/ new.portfolio # p
             \/ d < new.effective
             \/ new.source = "candidate_preview"
             => Answers' = Answers
<1>1. CreatedInOrder =>
        \A c \in Portfolio, d \in Date :
            {Active(q, d) : q \in Timelines(c)} = {InForceOn(c, d)}
  <2> SUFFICES ASSUME CreatedInOrder, NEW c \in Portfolio, NEW d \in Date
               PROVE  {Active(q, d) : q \in Timelines(c)} = {InForceOn(c, d)}
    OBVIOUS
  <2>1. \A q \in Timelines(c) : Active(q, d) = InForceOn(c, d)
    BY QueriesAssumption, ActiveIsInForce
  <2>2. \E q : q \in Timelines(c)
    BY OneTimeline
  <2> QED
    BY <2>1, <2>2
<1>2. (CreatedInOrder =>
         \A c \in Portfolio, d \in Date :
            {Active(q, d) : q \in Timelines(c)} = {InForceOn(c, d)})'
  BY <1>1, PTL
<1>3. CreatedInOrder /\ QueriesNext => Kept
  <2> SUFFICES ASSUME CreatedInOrder, QueriesNext,
                      NEW c \in Portfolio, NEW d \in Date,
                      \/ rows'[Len(rows')].portfolio # c
                      \/ d < rows'[Len(rows')].effective
                      \/ rows'[Len(rows')].source = "candidate_preview"
               PROVE  {Active(q, d) : q \in Timelines(c)}'
                         = {Active(q, d) : q \in Timelines(c)}
    BY DEF Kept
  <2>1. PICK p \in Portfolio, e \in Date, src \in Source, w \in Weights :
            Save(p, e, src, w)
    BY DEF QueriesNext
  <2>2. CreatedInOrder' /\ QueriesTypeOK /\ d \in Int
    BY CreatedStep, QueriesAssumption DEF CreatedInOrder
  <2>3. c # p \/ src \notin CommittedSource \/ d < e
    BY <2>1, <2>2, SaveAdds DEF CommittedSource
  <2>4. InForceOn(c, d)' = InForceOn(c, d)
    BY <2>1, <2>2, <2>3, SaveKeepsOtherDays
  <2>5. {Active(q, d) : q \in Timelines(c)} = {InForceOn(c, d)}
    BY <1>1
  <2>6. {Active(q, d) : q \in Timelines(c)}' = {InForceOn(c, d)}'
    BY <1>2, <2>2
  <2> QED
    BY <2>4, <2>5, <2>6
<1>4. CreatedInOrder /\ [QueriesNext]_queryVars => [Kept]_queryVars
  BY <1>3
<1>5. CreatedInOrder /\ [QueriesNext]_queryVars => CreatedInOrder'
  BY CreatedStep
<1> QED
  BY <1>4, <1>5, CreatedInit, PTL DEF QueriesSpec, EarlierDaysKeepTheirWeights
=============================================================================
