--------------------------- MODULE WorkbenchProofs ---------------------------
(***************************************************************************)
(* The series behind the figures, for any rows and any files: what         *)
(* portfolio_returns() appends in a loop is the enumeration of the covered *)
(* days, each with the weights in force on it.  That a series is point in  *)
(* time, that commits leave its past alone and that files of one start     *)
(* reconcile follow from it.                                               *)
(*                                                                         *)
(* The workbench is a session of Attribution, so all of this holds in it.  *)
(* Its engine tab commits what the user was last shown, however long the   *)
(* tab is open, and what a tool reports of its two queries lags behind the *)
(* history by the rows that overtook the first answer in between.          *)
(***************************************************************************)
EXTENDS Workbench, HistoryQueriesProofs

(* The days of the file on which some allocation is in force.              *)
CoveredDays == {d \in data : InForceOn(Selected, d) # {}}

(* One entry for each of them, with the weights and returns of that day.   *)
PointInTimeSeries ==
    [k \in 1 .. Cardinality(CoveredDays) |->
        [on |-> InOrder(CoveredDays)[k],
         active |-> InForceOn(Selected, InOrder(CoveredDays)[k]),
         of |-> InOrder(CoveredDays)[k]]]

(* The inductive invariant of the portfolio of this session.               *)
AttributionInv ==
    /\ CreatedInOrder
    /\ AttributionTypeOK
    /\ data # {} => Committed(Selected) # {} /\ FirstDay(data) \in firstDays
    /\ Committed(Selected) # {} =>
          \E i \in Committed(Selected) : rows[i].effective \in firstDays

----------------------------------------------------------------------------
(* A file has a first and a last day.                                      *)
LEMMA DaysOfFile ==
    ASSUME NEW file \in Files
    PROVE  /\ file \subseteq Date /\ file \subseteq Int /\ IsFiniteSet(file)
           /\ FirstDay(file) \in file /\ \A d \in file : FirstDay(file) =< d
           /\ LastDay(file) \in file /\ \A d \in file : d =< LastDay(file)
<1>1. /\ file \subseteq Date /\ file \in SUBSET Int
      /\ IsFiniteSet(file) /\ file # {}
  BY AttributionAssumption, QueriesAssumption
<1>2. /\ \E x \in file : \A y \in file : x =< y
      /\ \E x \in file : \A y \in file : y =< x
  BY <1>1, EndsOfSet
<1> QED
  BY <1>1, <1>2 DEF FirstDay, LastDay

(* The days of the loaded file are finitely many numbers.                  *)
LEMMA DaysOfData ==
    ASSUME AttributionTypeOK
    PROVE  data \in SUBSET Int /\ IsFiniteSet(data)
  BY DaysOfFile, FS_EmptySet DEF AttributionTypeOK

(* Seeding saves one row of the selected portfolio, or nothing.            *)
LEMMA SeedingSaves ==
    ASSUME NEW file \in Files, SeedDefaults(file)
    PROVE  \/ /\ Committed(Selected) = {}
              /\ \E w \in Weights : Save(Selected, FirstDay(file), "seed", w)
           \/ Committed(Selected) # {} /\ UNCHANGED queryVars
  BY DEF SeedDefaults

(* A row apart is saved like any other, but is not committed here.         *)
LEMMA ApartSaves ==
    ASSUME NEW e \in Date, SaveApart(e)
    PROVE  \E p \in Portfolio, src \in Source, w \in Weights :
              /\ Save(p, e, src, w)
              /\ p # Selected \/ src \notin CommittedSource
<1>1. /\ Selected \in Portfolio
      /\ "candidate_preview" \in Source \ CommittedSource /\ "engine" \in Source
  BY AttributionAssumption DEF Source, CommittedSource
<1> QED
  BY <1>1 DEF SaveApart

(* Whatever the session does, the table sees a save or nothing.            *)
LEMMA AttributionSaves == [AttributionNext]_attributionVars
                              => [QueriesNext]_queryVars
<1> SUFFICES ASSUME [AttributionNext]_attributionVars
             PROVE  [QueriesNext]_queryVars
  OBVIOUS
<1>1. Selected \in Portfolio /\ "seed" \in Source /\ "engine" \in Source
  BY AttributionAssumption DEF Source
<1>2. ASSUME NEW file \in Files, SeedDefaults(file)
      PROVE  [QueriesNext]_queryVars
  <2>1. FirstDay(file) \in Date
    BY DaysOfFile
  <2> QED
    BY <1>1, <1>2, <2>1, SeedingSaves DEF QueriesNext
<1>3. ASSUME NEW e \in Date, CommitAllocation(e) PROVE QueriesNext
  BY <1>1, <1>3 DEF CommitAllocation, QueriesNext
<1>4. RemoveFile => UNCHANGED queryVars
  BY DEF RemoveFile
<1>5. UNCHANGED attributionVars => UNCHANGED queryVars
  BY DEF attributionVars
<1>6. ASSUME NEW e \in Date, SaveApart(e) PROVE QueriesNext
  BY <1>6, ApartSaves DEF QueriesNext
<1> QED
  BY <1>2, <1>3, <1>4, <1>5, <1>6 DEF AttributionNext, Upload, UploadElsewhere

(* Sessions that load files and commit are users of the history store: all *)
(* that holds of the queries holds here.                                   *)
THEOREM AttributionImplementsQueries == AttributionSpec => QueriesSpec
<1>1. AttributionInit => QueriesInit
  BY DEF AttributionInit
<1>2. [AttributionNext]_attributionVars => [QueriesNext]_queryVars
  BY AttributionSaves
<1> QED
  BY <1>1, <1>2, PTL DEF AttributionSpec, QueriesSpec

(* The session stays typed, whatever the clock does.                       *)
LEMMA AttributionTypeStep ==
    AttributionTypeOK /\ [AttributionNext]_attributionVars
        => AttributionTypeOK'
<1> SUFFICES ASSUME AttributionTypeOK, [AttributionNext]_attributionVars
             PROVE  AttributionTypeOK'
  OBVIOUS
<1>1. QueriesTypeOK'
  BY AttributionSaves, QueriesTypeStep DEF AttributionTypeOK
<1>2. ASSUME NEW file \in Files, firstDays' = firstDays \cup {FirstDay(file)}
      PROVE  firstDays' \subseteq Date
  BY <1>2, DaysOfFile DEF AttributionTypeOK
<1>3. data' \in Files \cup {{}} /\ firstDays' \subseteq Date
  BY <1>2 DEF AttributionTypeOK, AttributionNext, attributionVars, Upload,
              UploadElsewhere, RemoveFile, CommitAllocation, SaveApart
<1> QED
  BY <1>1, <1>3 DEF AttributionTypeOK

(* The type invariant.                                                     *)
THEOREM AttributionTypeCorrect == AttributionSpec => []AttributionTypeOK
<1>1. AttributionInit => AttributionTypeOK
  BY EmptySeq DEF AttributionInit, QueriesInit, AttributionTypeOK, QueriesTypeOK
<1> QED
  BY <1>1, AttributionTypeStep, PTL DEF AttributionSpec

(* The invariant holds before a file is loaded.                            *)
LEMMA AttributionInvInit == AttributionInit => AttributionInv
<1> SUFFICES ASSUME AttributionInit PROVE AttributionInv
  OBVIOUS
<1>1. CreatedInOrder
  BY CreatedInit DEF AttributionInit
<1>2. AttributionTypeOK
  BY <1>1 DEF AttributionInit, AttributionTypeOK, CreatedInOrder
<1>3. Committed(Selected) = {}
  BY EmptySeq DEF AttributionInit, QueriesInit, Committed
<1> QED
  BY <1>1, <1>2, <1>3 DEF AttributionInit, AttributionInv

(* A committed row of the selected portfolio leaves the others committed.  *)
LEMMA SaveHere ==
    ASSUME QueriesTypeOK, NEW e \in Date, NEW src \in CommittedSource,
           NEW w \in Weights, Save(Selected, e, src, w)
    PROVE  /\ Committed(Selected)' = Committed(Selected) \cup {Len(rows')}
           /\ rows'[Len(rows')].effective = e
           /\ \A i \in Committed(Selected) : rows'[i] = rows[i]
<1>1. Selected \in Portfolio /\ src \in Source
  BY AttributionAssumption DEF Source, CommittedSource
<1> QED
  BY <1>1, SaveAdds, SaveCommits, CommittedIsFinite

(* Every step keeps the invariant.                                         *)
LEMMA AttributionInvStep ==
    ClockAdvances /\ AttributionInv /\ [AttributionNext]_attributionVars
        => AttributionInv'
<1> SUFFICES ASSUME ClockAdvances, AttributionInv,
                    [AttributionNext]_attributionVars
             PROVE  AttributionInv'
  OBVIOUS
<1> DEFINE C == Committed(Selected)
           Seeded == C # {} => \E i \in C : rows[i].effective \in firstDays
           Loaded == data # {} => C # {} /\ FirstDay(data) \in firstDays
<1>1. QueriesTypeOK /\ Seeded /\ Loaded
  BY DEF AttributionInv, CreatedInOrder
<1>2. CreatedInOrder' /\ AttributionTypeOK'
  BY AttributionSaves, CreatedStep, AttributionTypeStep DEF AttributionInv
<1>3. ASSUME UNCHANGED queryVars PROVE C' = C /\ rows' = rows
  BY <1>3 DEF queryVars, Committed
<1>4. ASSUME NEW file \in Files, SeedDefaults(file),
             firstDays' = firstDays \cup {FirstDay(file)}
      PROVE  Seeded' /\ C' # {}
  <2>1. CASE C = {}
    <3>1. PICK w \in Weights : Save(Selected, FirstDay(file), "seed", w)
      BY <1>4, <2>1, SeedingSaves
    <3>2. C' = {Len(rows')} /\ rows'[Len(rows')].effective = FirstDay(file)
      BY <1>1, <2>1, <3>1, DaysOfFile, SaveHere DEF CommittedSource
    <3> QED
      BY <1>4, <3>2
  <2>2. CASE C # {}
    <3>1. UNCHANGED queryVars
      BY <1>4, <2>2, SeedingSaves
    <3> QED
      BY <1>1, <1>3, <1>4, <2>2, <3>1
  <2> QED
    BY <2>1, <2>2
<1>5. ASSUME NEW file \in Files, Upload(file) PROVE Seeded' /\ Loaded'
  BY <1>4, <1>5 DEF Upload
<1>6. ASSUME NEW file \in Files, UploadElsewhere(file) PROVE Seeded' /\ Loaded'
  <2>1. data' = data /\ firstDays \subseteq firstDays' /\ Seeded' /\ C' # {}
    BY <1>4, <1>6 DEF UploadElsewhere
  <2> QED
    BY <1>1, <2>1
<1>7. ASSUME RemoveFile PROVE Seeded' /\ Loaded'
  <2>1. data' = {} /\ firstDays' = firstDays /\ UNCHANGED queryVars
    BY <1>7 DEF RemoveFile
  <2> QED
    BY <1>1, <1>3, <2>1
<1>8. ASSUME NEW e \in Date, CommitAllocation(e) PROVE Seeded' /\ Loaded'
  <2>1. PICK w \in Weights : Save(Selected, e, "engine", w)
    BY <1>8 DEF CommitAllocation
  <2>2. C # {} /\ data' = data /\ firstDays' = firstDays
    BY <1>8 DEF CommitAllocation
  <2>3. C' = C \cup {Len(rows')} /\ \A i \in C : rows'[i] = rows[i]
    BY <1>1, <2>1, SaveHere DEF CommittedSource
  <2> QED
    BY <1>1, <2>2, <2>3
<1>9. ASSUME UNCHANGED attributionVars PROVE Seeded' /\ Loaded'
  <2>1. data' = data /\ firstDays' = firstDays /\ UNCHANGED queryVars
    BY <1>9 DEF attributionVars
  <2> QED
    BY <1>1, <1>3, <2>1
<1>10. ASSUME NEW e \in Date, SaveApart(e) PROVE Seeded' /\ Loaded'
  <2>1. PICK p \in Portfolio, src \in Source, w \in Weights :
            /\ Save(p, e, src, w)
            /\ p # Selected \/ src \notin CommittedSource
    BY <1>10, ApartSaves
  <2>2. C' = C
    BY <1>1, <2>1, SaveCommits
  <2>3. \A i \in C : rows'[i] = rows[i]
    BY <1>1, <2>1, SaveAdds, CommittedIsFinite
  <2>4. data' = data /\ firstDays' = firstDays
    BY <1>10 DEF SaveApart
  <2> QED
    BY <1>1, <2>2, <2>3, <2>4
<1> QED
  BY <1>2, <1>5, <1>6, <1>7, <1>8, <1>9, <1>10 DEF AttributionInv, AttributionNext

(* The invariant holds in every reachable state.                           *)
LEMMA AttributionInvariant ==
    ClockAdvances => (AttributionSpec => []AttributionInv)
<1> SUFFICES ASSUME ClockAdvances PROVE AttributionSpec => []AttributionInv
  OBVIOUS
<1>1. AttributionInv /\ [AttributionNext]_attributionVars => AttributionInv'
  BY AttributionInvStep
<1> QED
  BY <1>1, AttributionInvInit, PTL DEF AttributionSpec

----------------------------------------------------------------------------
(* Some row is in force on a day exactly when one took effect by then.     *)
LEMMA SomeInForce ==
    ASSUME CreatedInOrder, NEW p, NEW d \in Int
    PROVE  InForceOn(p, d) # {} <=>
              \E i \in Committed(p) : rows[i].effective =< d
<1>1. PICK q \in Timelines(p) : TRUE
  BY OneTimeline
<1> DEFINE inForce == {a \in DOMAIN q : rows[q[a]].effective =< d}
<1>2. /\ Len(q) \in Nat /\ DOMAIN q = 1 .. Len(q)
      /\ \A a \in 1 .. Len(q) : q[a] \in Committed(p)
      /\ \A i \in Committed(p) : \E a \in 1 .. Len(q) : q[a] = i
  BY TimelineFacts
<1>3. inForce \in SUBSET Int /\ IsFiniteSet(inForce)
  <2>1. IsFiniteSet(1 .. Len(q)) /\ inForce \subseteq 1 .. Len(q)
    BY <1>2, FS_Interval
  <2> QED
    BY <2>1, FS_Subset
<1>4. inForce # {} => \E a \in inForce : \A b \in inForce : b =< a
  BY <1>3, EndsOfSet
<1>5. Active(q, d) = {q[a] : a \in {a \in inForce : \A b \in inForce : b =< a}}
  BY DEF Active
<1>6. Active(q, d) = InForceOn(p, d)
  BY ActiveIsInForce
<1>7. inForce # {} <=> \E i \in Committed(p) : rows[i].effective =< d
  BY <1>2
<1> HIDE DEF inForce
<1> QED
  BY <1>4, <1>5, <1>6, <1>7

(* The covered days are finitely many days.                                *)
LEMMA CoveredDaysAreFinite ==
    ASSUME AttributionTypeOK
    PROVE  /\ CoveredDays \in SUBSET Int /\ IsFiniteSet(CoveredDays)
           /\ Cardinality(CoveredDays) \in Nat
<1>1. CoveredDays \subseteq data
  BY DEF CoveredDays
<1> QED
  BY <1>1, DaysOfData, FS_Subset, FS_CardinalityType

(* The loop of portfolio_returns() over the whole file.                    *)
LEMMA SeriesIsPointInTime ==
    ASSUME CreatedInOrder, AttributionTypeOK, NEW q \in Timelines(Selected)
    PROVE  AttributionSeries(q) = PointInTimeSeries
<1> DEFINE n == Cardinality(data)
           entry == [t \in 1 .. Len(Dates) |->
                       [on |-> Dates[t], active |-> Active(q, Dates[t]),
                        of |-> Dates[t]]]
           T == {t \in 1 .. Len(Dates) : entry[t].active # {}}
           f == [t \in T |-> Dates[t]]
<1>1. data \in SUBSET Int /\ IsFiniteSet(data)
  BY DaysOfData
<1>2. /\ n \in Nat /\ Len(Dates) = n
      /\ \A t \in 1 .. n : Dates[t] \in data
      /\ \A d \in data : \E t \in 1 .. n : Dates[t] = d
      /\ \A a, b \in 1 .. n : a < b => Dates[a] < Dates[b]
  BY <1>1, InOrderLists DEF Dates
<1>3. \A t \in 1 .. n : /\ entry[t].on = Dates[t] /\ entry[t].of = Dates[t]
                        /\ entry[t].active = InForceOn(Selected, Dates[t])
  BY <1>1, <1>2, ActiveIsInForce
<1>4. \A t \in 1 .. n : entry[t] = [on |-> Dates[t],
             active |-> InForceOn(Selected, Dates[t]), of |-> Dates[t]]
  BY <1>1, <1>2, ActiveIsInForce
<1>5. \A t \in 1 .. n : t \in T <=> Dates[t] \in CoveredDays
  BY <1>2, <1>3 DEF CoveredDays
<1>6. T \subseteq 1 .. n /\ CoveredDays \subseteq data
  BY <1>2 DEF CoveredDays
<1>7. AttributionSeries(q)
         = [k \in 1 .. Len(InOrder(T)) |-> entry[InOrder(T)[k]]]
  BY DEF AttributionSeries, PortfolioReturns
<1> HIDE DEF n, entry, T
<1>8. T \in SUBSET Int /\ IsFiniteSet(T)
  <2>1. IsFiniteSet(1 .. n)
    BY <1>2, FS_Interval
  <2>2. \A t \in 1 .. n : t \in Int
    OBVIOUS
  <2> HIDE DEF f
  <2>3. IsFiniteSet(T)
    BY <1>6, <2>1, FS_Subset
  <2> QED
    BY <1>6, <2>2, <2>3
<1>9. /\ f \in [T -> CoveredDays]
      /\ \A d \in CoveredDays : \E t \in T : f[t] = d
      /\ \A a, b \in T : a < b => f[a] < f[b]
      /\ \A t \in T : f[t] = Dates[t]
  <2>1. \A t \in T : t \in 1 .. n /\ Dates[t] \in CoveredDays
    BY <1>5, <1>6
  <2>2. f \in [T -> CoveredDays] /\ \A t \in T : f[t] = Dates[t]
    BY <2>1
  <2> HIDE DEF f
  <2>3. \A a, b \in T : a < b => f[a] < f[b]
    BY <1>2, <2>1, <2>2
  <2>4. ASSUME NEW d \in CoveredDays PROVE \E t \in T : f[t] = d
    <3>1. PICK t \in 1 .. n : Dates[t] = d
      BY <1>2, <1>6
    <3> QED
      BY <1>5, <2>2, <3>1
  <2> QED
    BY <2>2, <2>3, <2>4
<1> HIDE DEF f
<1>10. /\ Cardinality(CoveredDays) = Cardinality(T)
       /\ \A k \in 1 .. Cardinality(T) :
             InOrder(CoveredDays)[k] = f[InOrder(T)[k]]
  BY <1>8, <1>9, CoveredDaysAreFinite, InOrderOfImage
<1>11. /\ Len(InOrder(T)) = Cardinality(T)
       /\ \A k \in 1 .. Cardinality(T) : InOrder(T)[k] \in T
  BY <1>8, InOrderLists
<1>12. ASSUME NEW k \in 1 .. Cardinality(T)
       PROVE  entry[InOrder(T)[k]] =
                [on |-> InOrder(CoveredDays)[k],
                 active |-> InForceOn(Selected, InOrder(CoveredDays)[k]),
                 of |-> InOrder(CoveredDays)[k]]
  <2>1. PICK t \in T : t = InOrder(T)[k]
    BY <1>11
  <2>2. InOrder(CoveredDays)[k] = Dates[t] /\ t \in 1 .. n
    BY <1>6, <1>9, <1>10, <2>1
  <2> QED
    BY <1>4, <2>1, <2>2
<1> QED
  BY <1>7, <1>10, <1>11, <1>12 DEF PointInTimeSeries

----------------------------------------------------------------------------
(* The rows of a timeline start with its earliest date.                    *)
LEMMA CoverageStarts ==
    ASSUME CreatedInOrder, AttributionTypeOK,
           NEW q \in Timelines(Selected), q # << >>
    PROVE  /\ CoveredDays = {d \in data : d >= rows[q[1]].effective}
           /\ \A i \in Committed(Selected) :
                 rows[q[1]].effective =< rows[i].effective
<1>1. /\ Len(q) \in Nat /\ q \in Seq(Committed(Selected))
      /\ \A a \in 1 .. Len(q) : q[a] \in Committed(Selected)
      /\ \A a, b \in 1 .. Len(q) : a < b => Older(q[a], q[b])
      /\ \A i \in Committed(Selected) : \E a \in 1 .. Len(q) : q[a] = i
  BY TimelineFacts
<1>2. 1 \in 1 .. Len(q)
  BY <1>1, EmptySeq
<1>3. \A i \in Committed(Selected) : rows[i].effective \in Int
  BY OlderMeansEarlier
<1>4. ASSUME NEW i \in Committed(Selected)
      PROVE  rows[q[1]].effective =< rows[i].effective
  <2>1. PICK a \in 1 .. Len(q) : q[a] = i
    BY <1>1
  <2>2. a = 1 \/ 1 < a
    BY <1>1
  <2>3. i = q[1] \/ Older(q[1], i)
    BY <1>1, <1>2, <2>1, <2>2
  <2>4. q[1] \in Committed(Selected)
    BY <1>1, <1>2
  <2> QED
    BY <1>3, <2>3, <2>4 DEF Older
<1>5. ASSUME NEW d \in data
      PROVE  InForceOn(Selected, d) # {} <=> d >= rows[q[1]].effective
  <2>1. d \in Int /\ q[1] \in Committed(Selected)
    BY <1>1, <1>2, DaysOfData
  <2>2. InForceOn(Selected, d) # {} <=>
           \E i \in Committed(Selected) : rows[i].effective =< d
    BY <2>1, SomeInForce
  <2> QED
    BY <1>3, <1>4, <2>1, <2>2
<1> QED
  BY <1>4, <1>5 DEF CoveredDays

(* The attribution of every file and every history is point in time.       *)
THEOREM PointInTime ==
    ClockAdvances => (AttributionSpec => []AttributionIsPointInTime)
<1> SUFFICES ASSUME ClockAdvances
             PROVE  AttributionSpec => []AttributionIsPointInTime
  OBVIOUS
<1>1. AttributionInv => AttributionIsPointInTime
  <2> DEFINE L == InOrder(CoveredDays)
  <2> SUFFICES ASSUME AttributionInv, NEW q \in Timelines(Selected), q # << >>
               PROVE  /\ Len(AttributionSeries(q)) = Len(Covered(q))
                      /\ \A k \in DOMAIN AttributionSeries(q) :
                          /\ AttributionSeries(q)[k].on = Covered(q)[k]
                          /\ AttributionSeries(q)[k].of = Covered(q)[k]
                          /\ AttributionSeries(q)[k].active
                               = InForce(Covered(q)[k])
    BY DEF AttributionIsPointInTime
  <2>1. CreatedInOrder /\ AttributionTypeOK
    BY DEF AttributionInv
  <2>2. Covered(q) = L
    BY <2>1, CoverageStarts DEF Covered
  <2>3. AttributionSeries(q) = PointInTimeSeries
    BY <2>1, SeriesIsPointInTime
  <2>4. Cardinality(CoveredDays) \in Nat /\ Len(L) = Cardinality(CoveredDays)
    BY <2>1, CoveredDaysAreFinite, InOrderLists
  <2>5. \A d : InForce(d) = InForceOn(Selected, d)
    BY DEF InForce, InForceOn
  <2> HIDE DEF L
  <2>6. PointInTimeSeries = [k \in 1 .. Cardinality(CoveredDays) |->
           [on |-> L[k], active |-> InForceOn(Selected, L[k]), of |-> L[k]]]
    BY DEF PointInTimeSeries, L
  <2>7. Len(PointInTimeSeries) = Cardinality(CoveredDays)
    BY <2>4, <2>6
  <2> QED
    BY <2>2, <2>3, <2>4, <2>5, <2>6, <2>7
<1> QED
  BY <1>1, AttributionInvariant, PTL

(* Files of one start reconcile, whichever of them seeded the portfolio.   *)
THEOREM OneStartReconciles ==
    ClockAdvances => (AttributionSpec => []FilesOfOneStartReconcile)
<1> SUFFICES ASSUME ClockAdvances
             PROVE  AttributionSpec => []FilesOfOneStartReconcile
  OBVIOUS
<1>1. AttributionInv => FilesOfOneStartReconcile
  <2> SUFFICES ASSUME AttributionInv, data # {},
                      firstDays = {FirstDay(data)},
                      NEW q \in Timelines(Selected)
               PROVE  /\ Len(AttributionSeries(q)) = Cardinality(data)
                      /\ q # << >> => ToolSeries(q) = AttributionSeries(q)
    BY DEF FilesOfOneStartReconcile, ToolsReconcile
  <2>1. CreatedInOrder /\ AttributionTypeOK /\ data \in Files
    BY DEF AttributionInv, AttributionTypeOK
  <2>2. PICK i \in Committed(Selected) : rows[i].effective = FirstDay(data)
    BY DEF AttributionInv
  <2>3. /\ data \in SUBSET Int
        /\ \A d \in data : rows[i].effective =< d
    BY <2>1, <2>2, DaysOfFile
  <2>4. \A d \in data : InForceOn(Selected, d) # {}
    BY <2>1, <2>3, SomeInForce
  <2>5. CoveredDays = data
    BY <2>4 DEF CoveredDays
  <2>6. AttributionSeries(q) = PointInTimeSeries
    BY <2>1, SeriesIsPointInTime
  <2>7. Cardinality(data) \in Nat
    BY <2>1, <2>5, CoveredDaysAreFinite
  <2>8. Len(AttributionSeries(q)) = Cardinality(data)
    BY <2>5, <2>6, <2>7 DEF PointInTimeSeries
  <2>9. ASSUME q # << >> PROVE ToolSeries(q) = AttributionSeries(q)
    <3>1. Covered(q) = Dates
      BY <2>1, <2>5, <2>9, CoverageStarts DEF Covered, Dates
    <3> QED
      BY <3>1 DEF ToolSeries, AttributionSeries
  <2> QED
    BY <2>8, <2>9
<1> QED
  BY <1>1, AttributionInvariant, PTL

----------------------------------------------------------------------------
(* The entries of series s are those of the days in S, in order.           *)
IsSeriesOf(s, S) ==
    /\ DOMAIN s = 1 .. Cardinality(S)
    /\ \A k \in 1 .. Cardinality(S) : s[k].on = InOrder(S)[k]

(* Days that agree before d give series with the same past.                *)
LEMMA PastOfSeries ==
    ASSUME NEW S \in SUBSET Int, IsFiniteSet(S),
           NEW T \in SUBSET Int, IsFiniteSet(T),
           NEW d \in Int, Below(S, d) = Below(T, d),
           NEW s, IsSeriesOf(s, S), NEW t, IsSeriesOf(t, T)
    PROVE  /\ Past(s, d) = Past(t, d)
           /\ \A k \in Past(s, d) : /\ k \in 1 .. Cardinality(S)
                                    /\ k \in 1 .. Cardinality(T)
                                    /\ InOrder(S)[k] = InOrder(T)[k]
                                    /\ InOrder(S)[k] < d
<1>1. \A k \in 1 .. Cardinality(S) : InOrder(S)[k] < d =>
         k \in 1 .. Cardinality(T) /\ InOrder(T)[k] = InOrder(S)[k]
  BY InOrderOfPrefix
<1>2. \A k \in 1 .. Cardinality(T) : InOrder(T)[k] < d =>
         k \in 1 .. Cardinality(S) /\ InOrder(S)[k] = InOrder(T)[k]
  BY InOrderOfPrefix
<1> QED
  BY <1>1, <1>2 DEF Past, IsSeriesOf

(* A commit leaves the entries before its effective date alone.            *)
THEOREM PastIsKept ==
    ClockAdvances => (AttributionSpec => CommitsDoNotRewriteThePast)
<1> SUFFICES ASSUME ClockAdvances
             PROVE  AttributionSpec => CommitsDoNotRewriteThePast
  OBVIOUS
<1> DEFINE Attributions == {AttributionSeries(q) : q \in Timelines(Selected)}
           Kept ==
             data' = data /\ rows' # rows =>
               LET effective == rows'[Len(rows')].effective IN
               \A before \in Attributions, after \in Attributions' :
                  /\ Past(after, effective) = Past(before, effective)
                  /\ \A k \in Past(before, effective) : after[k] = before[k]
<1> DEFINE C == CoveredDays
           n == Cardinality(C)
           L == InOrder(C)
           weights == [d \in Int |-> InForceOn(Selected, d)]
           series == [k \in 1 .. n |->
                        [on |-> L[k], active |-> weights[L[k]], of |-> L[k]]]
<1>1. AttributionInv => \A s \in Attributions : s = series
  <2> SUFFICES ASSUME AttributionInv, NEW q \in Timelines(Selected)
               PROVE  AttributionSeries(q) = series
    OBVIOUS
  <2>1. AttributionSeries(q) = PointInTimeSeries
    BY SeriesIsPointInTime DEF AttributionInv
  <2>2. \A k \in 1 .. n : L[k] \in Int
    BY CoveredDaysAreFinite, InOrderLists DEF AttributionInv
  <2>3. \A k \in 1 .. n : weights[L[k]] = InForceOn(Selected, L[k])
    BY <2>2
  <2> HIDE DEF weights
  <2> QED
    BY <2>1, <2>3 DEF PointInTimeSeries
<1>2. (AttributionInv => \A s \in Attributions : s = series)'
  BY <1>1, PTL
<1>3. AttributionInv => C \in SUBSET Int /\ IsFiniteSet(C)
  BY CoveredDaysAreFinite DEF AttributionInv
<1>4. (AttributionInv => C \in SUBSET Int /\ IsFiniteSet(C))'
  BY <1>3, PTL
<1>5. ASSUME QueriesTypeOK, NEW p \in Portfolio, NEW e \in Date, NEW src \in Source,
             NEW w \in Weights, Save(p, e, src, w),
             data' = data, data \in SUBSET Int
      PROVE  /\ rows'[Len(rows')].effective = e
             /\ \A d \in Int : d < e =>
                   InForceOn(Selected, d)' = InForceOn(Selected, d)
             /\ Below(C', e) = Below(C, e)
  <2>1. rows'[Len(rows')].effective = e
    BY <1>5, SaveAdds
  <2>3. ASSUME NEW d \in Int, d < e
        PROVE  InForceOn(Selected, d)' = InForceOn(Selected, d)
    BY <1>5, <2>3, SaveKeepsOtherDays
  <2>4. Below(C', e) = Below(C, e)
    BY <1>5, <2>3 DEF Below, CoveredDays
  <2> QED
    BY <2>1, <2>3, <2>4
<1>6. ASSUME AttributionInv, AttributionInv', AttributionNext,
             data' = data, rows' # rows
      PROVE  \E p \in Portfolio, e \in Date, src \in Source, w \in Weights :
                Save(p, e, src, w)
  <2>1. ~UNCHANGED queryVars
    BY <1>6 DEF queryVars
  <2> QED
    BY <1>6, <2>1, AttributionSaves DEF QueriesNext
<1>7. AttributionInv /\ AttributionInv' /\ AttributionNext => Kept
  <2> SUFFICES ASSUME AttributionInv, AttributionInv', AttributionNext,
                      data' = data, rows' # rows,
                      NEW before \in Attributions, NEW after \in Attributions'
               PROVE  LET effective == rows'[Len(rows')].effective IN
                      /\ Past(after, effective) = Past(before, effective)
                      /\ \A k \in Past(before, effective) :
                            after[k] = before[k]
    BY DEF Kept
  <2>1. PICK p \in Portfolio, e \in Date, src \in Source, w \in Weights :
            Save(p, e, src, w)
    BY <1>6
  <2>2. QueriesTypeOK /\ data \in SUBSET Int /\ e \in Int
    BY DaysOfData, QueriesAssumption DEF AttributionInv, CreatedInOrder
  <2>3. /\ rows'[Len(rows')].effective = e
        /\ \A d \in Int : d < e =>
              InForceOn(Selected, d)' = InForceOn(Selected, d)
        /\ Below(C', e) = Below(C, e)
    BY <1>5, <2>1, <2>2
  <2>4. /\ C \in SUBSET Int /\ IsFiniteSet(C)
        /\ C' \in SUBSET Int /\ IsFiniteSet(C')
    BY <1>3, <1>4
  <2>5. before = series /\ after = series'
    BY <1>1, <1>2
  <2>6. \A d \in Int : d < e => weights[d] = weights'[d]
    BY <2>3
  <2>7. \A k \in 1 .. n : L[k] \in Int
    BY <2>4, InOrderLists
  <2> HIDE DEF C, L, n, weights, Attributions
  <2>8. /\ DOMAIN before = 1 .. n /\ \A k \in 1 .. n : before[k].on = L[k]
        /\ DOMAIN after = 1 .. n' /\ \A k \in 1 .. n' : after[k].on = L'[k]
    BY <2>5
  <2>9. /\ Past(before, e) = Past(after, e)
        /\ \A k \in Past(before, e) : /\ k \in 1 .. n /\ k \in 1 .. n'
                                      /\ L[k] = L'[k] /\ L[k] < e
    <3>1. n = Cardinality(C) /\ L = InOrder(C)
      BY DEF n, L
    <3>2. n' = Cardinality(C') /\ L' = InOrder(C')
      BY DEF n, L
    <3>3. IsSeriesOf(before, C)
      BY <2>8, <3>1 DEF IsSeriesOf
    <3>4. IsSeriesOf(after, C')
      BY <2>8, <3>2 DEF IsSeriesOf
    <3>5. /\ Past(before, e) = Past(after, e)
          /\ \A k \in Past(before, e) :
                /\ k \in 1 .. Cardinality(C) /\ k \in 1 .. Cardinality(C')
                /\ InOrder(C)[k] = InOrder(C')[k] /\ InOrder(C)[k] < e
      BY ONLY <2>2, <2>3, <2>4, <3>3, <3>4, PastOfSeries
    <3> QED
      BY <3>1, <3>2, <3>5
  <2>10. ASSUME NEW k \in Past(before, e) PROVE after[k] = before[k]
    <3>1. /\ k \in 1 .. n /\ k \in 1 .. n'
          /\ L[k] = L'[k] /\ weights[L[k]] = weights'[L[k]]
      BY <2>6, <2>7, <2>9
    <3> QED
      BY <2>5, <3>1
  <2> QED
    BY <2>3, <2>9, <2>10
<1>8. AttributionInv /\ AttributionInv' /\ [AttributionNext]_attributionVars
         => [Kept]_attributionVars
  BY <1>7
<1> QED
  BY <1>8, AttributionInvariant, PTL
     DEF AttributionSpec, CommitsDoNotRewriteThePast

----------------------------------------------------------------------------
(* The workbench.                                                          *)

(* A tool between its two queries holds a row that was committed, one of   *)
(* the rows it saw.                                                        *)
CallOK ==
    call # None => /\ call \in Pending
                   /\ call.current \in Committed(Selected)
                   /\ call.current =< call.seen
                   /\ call.seen =< Len(rows)

(* The type invariant with what makes it inductive: data is there only     *)
(* when something is committed.                                            *)
WorkbenchInv ==
    /\ WorkbenchTypeOK
    /\ CallOK
    /\ data # {} => Committed(Selected) # {}

----------------------------------------------------------------------------
(* A save adds one row, and leaves the rows there are as they are.         *)
LEMMA RowsGrow ==
    ASSUME AttributionTypeOK, [AttributionNext]_attributionVars
    PROVE  /\ Len(rows) \in Nat
           /\ Committed(Selected) \subseteq Committed(Selected)'
           /\ Committed(Selected)' \subseteq Committed(Selected) \cup {Len(rows) + 1}
           /\ \A i \in 1 .. Len(rows) : rows'[i] = rows[i]
           /\ \/ UNCHANGED queryVars
              \/ Len(rows') = Len(rows) + 1 /\ rows' # rows
<1>1. QueriesTypeOK /\ Selected \in Portfolio
  BY AttributionAssumption DEF AttributionTypeOK
<1>2. CASE UNCHANGED queryVars
  BY <1>1, <1>2, CommittedIsFinite DEF queryVars, Committed
<1>3. CASE QueriesNext
  <2>1. PICK p \in Portfolio, e \in Date, src \in Source, w \in Weights :
            Save(p, e, src, w)
    BY <1>3 DEF QueriesNext
  <2>2. /\ Len(rows) \in Nat /\ Len(rows') = Len(rows) + 1
        /\ \A i \in 1 .. Len(rows) : rows'[i] = rows[i]
    BY <1>1, <2>1, SaveAdds
  <2>3. rows' # rows
    BY <2>2
  <2>4. Committed(Selected)' = Committed(Selected)
           \/ Committed(Selected)' = Committed(Selected) \cup {Len(rows')}
    BY <1>1, <2>1, SaveCommits
  <2> QED
    BY <2>2, <2>3, <2>4
<1> QED
  BY <1>2, <1>3, AttributionSaves

(* Every action of the workbench is one of the session, or leaves it alone.*)
LEMMA WorkbenchActs ==
    WorkbenchInv /\ [WorkbenchNext]_workbenchVars
        => [AttributionNext]_attributionVars
<1> SUFFICES ASSUME WorkbenchInv, [WorkbenchNext]_workbenchVars
             PROVE  [AttributionNext]_attributionVars
  OBVIOUS
<1>1. ASSUME NEW e \in Date, CommitRounded(e) PROVE CommitAllocation(e)
  <2>1. /\ data # {} /\ optResult \in Solution
        /\ Save(Selected, e, "engine", optResult.weights)
        /\ UNCHANGED <<data, firstDays>>
    BY <1>1 DEF CommitRounded, WorkbenchInv, WorkbenchTypeOK
  <2>2. optResult.weights \in Weights
    BY <2>1 DEF Solution
  <2> QED
    BY <2>1, <2>2 DEF CommitAllocation, WorkbenchInv
<1>2. ASSUME NEW file \in Files
      PROVE  /\ LoadFile(file) => Upload(file)
             /\ LoadElsewhere(file) => UploadElsewhere(file)
  BY DEF LoadFile, LoadElsewhere
<1>3. /\ DropFile => RemoveFile
      /\ \A e \in Date : /\ CommitElsewhere(e) => CommitAllocation(e)
                         /\ SaveElsewhere(e) => SaveApart(e)
  BY DEF DropFile, CommitElsewhere, SaveElsewhere
<1>4. /\ OptimizerSolves => UNCHANGED attributionVars
      /\ OptimizerRefuses => UNCHANGED attributionVars
      /\ \A tool : GetCurrent(tool) => UNCHANGED attributionVars
      /\ GetPrevious => UNCHANGED attributionVars
      /\ Attribute => UNCHANGED attributionVars
      /\ UNCHANGED workbenchVars => UNCHANGED attributionVars
  BY DEF OptimizerSolves, OptimizerRefuses, GetCurrent, GetPrevious,
         Attribute, workbenchVars
<1> QED
  BY <1>1, <1>2, <1>3, <1>4 DEF WorkbenchNext, AttributionNext

(* What a tool reads at its second query is made of row ids.               *)
LEMMA AnswersAreIds ==
    ASSUME QueriesTypeOK
    PROVE  /\ Committed(Selected) \subseteq Nat
           /\ Current(Selected) \subseteq Committed(Selected)
           /\ Previous(Selected) \subseteq Nat
           /\ \A q \in Timelines(Selected) :
                 q \in Seq(Nat) /\ \A d : Active(q, d) \subseteq Nat
<1> DEFINE C == Committed(Selected)
<1>1. C \subseteq Nat /\ Cardinality(C) \in Nat
  BY CommittedIsFinite
<1>2. Current(Selected) \subseteq C /\ Previous(Selected) \subseteq C
  BY DEF Current, Previous
<1>3. ASSUME NEW q \in Timelines(Selected)
      PROVE  q \in [1 .. Cardinality(C) -> Nat]
  BY <1>1, <1>3 DEF Timelines, SetToSeqs
<1>4. ASSUME NEW q \in Timelines(Selected), NEW d
      PROVE  Active(q, d) \subseteq Nat
  BY <1>3 DEF Active
<1> QED
  BY <1>1, <1>2, <1>3, <1>4

(* One target for each row.                                                *)
LEMMA RecordStep ==
    ASSUME WorkbenchTypeOK, NEW s \in Cap \cup {None}, Record(s),
           Len(rows) \in Nat,
           UNCHANGED queryVars \/ (Len(rows') = Len(rows) + 1 /\ rows' # rows)
    PROVE  targets' \in Seq(Cap \cup {None}) /\ Len(targets') = Len(rows')
<1>1. targets \in Seq(Cap \cup {None}) /\ Len(targets) = Len(rows)
  BY DEF WorkbenchTypeOK
<1>2. CASE rows' = rows
  BY <1>1, <1>2 DEF Record
<1>3. CASE rows' # rows
  <2>1. targets' = Append(targets, s) /\ Len(rows') = Len(rows) + 1
    BY <1>3 DEF Record, queryVars
  <2> QED
    BY <1>1, <2>1, AppendProperties
<1> QED
  BY <1>2, <1>3

(* After a file is loaded something is committed.                          *)
LEMMA LoadingCommits ==
    ASSUME AttributionTypeOK, NEW file \in Files, SeedDefaults(file)
    PROVE  Committed(Selected)' # {}
<1>1. QueriesTypeOK /\ FirstDay(file) \in Date
  BY DaysOfFile DEF AttributionTypeOK
<1>2. CASE Committed(Selected) = {}
  <2>1. PICK w \in Weights : Save(Selected, FirstDay(file), "seed", w)
    BY <1>2, SeedingSaves
  <2> QED
    BY <1>1, <2>1, SaveHere DEF CommittedSource
<1>3. CASE Committed(Selected) # {}
  BY <1>3, SeedingSaves DEF queryVars, Committed
<1> QED
  BY <1>2, <1>3

(* The invariant holds when the page is opened.                            *)
LEMMA WorkbenchInvInit == WorkbenchInit => WorkbenchInv
<1> SUFFICES ASSUME WorkbenchInit PROVE WorkbenchInv
  OBVIOUS
<1>1. AttributionTypeOK /\ rows = << >> /\ data = {}
  BY EmptySeq DEF WorkbenchInit, AttributionInit, QueriesInit,
     AttributionTypeOK, QueriesTypeOK
<1>2. targets \in Seq(Cap \cup {None}) /\ Len(targets) = Len(rows)
  BY <1>1, EmptySeq DEF WorkbenchInit
<1> QED
  BY <1>1, <1>2 DEF WorkbenchInit, WorkbenchInv, WorkbenchTypeOK, CallOK

(* Every step of the tab, the tools and other sessions keeps it.           *)
LEMMA WorkbenchInvStep ==
    WorkbenchInv /\ [WorkbenchNext]_workbenchVars => WorkbenchInv'
<1> SUFFICES ASSUME WorkbenchInv, [WorkbenchNext]_workbenchVars
             PROVE  WorkbenchInv'
  OBVIOUS
<1> DEFINE Targets == targets \in Seq(Cap \cup {None}) /\ Len(targets) = Len(rows)
           Tab == /\ optResult \in Solution \cup {None}
                  /\ lastRun \in Solution \cup {None}
           Tools == CallOK /\ report \in Report \cup {None}
           Seeded == data # {} => Committed(Selected) # {}
<1>1. /\ WorkbenchTypeOK /\ AttributionTypeOK /\ QueriesTypeOK
      /\ Targets /\ Tab /\ Tools /\ Seeded /\ here \in BOOLEAN
  BY DEF WorkbenchInv, WorkbenchTypeOK, AttributionTypeOK
<1>2. [AttributionNext]_attributionVars /\ AttributionTypeOK'
  BY <1>1, WorkbenchActs, AttributionTypeStep
<1>3. /\ Len(rows) \in Nat
      /\ Committed(Selected) \subseteq Committed(Selected)'
      /\ \/ UNCHANGED queryVars
         \/ Len(rows') = Len(rows) + 1 /\ rows' # rows
  BY <1>1, <1>2, RowsGrow
<1>4. Len(rows) =< Len(rows')
  BY <1>3 DEF queryVars
<1>5. ASSUME NEW s \in Cap \cup {None}, Record(s) PROVE Targets'
  BY <1>1, <1>3, <1>5, RecordStep
<1>6. ASSUME UNCHANGED call, report' \in Report \cup {None} PROVE Tools'
  <2>1. CASE call = None
    BY <1>1, <1>6, <2>1 DEF CallOK
  <2>2. CASE call # None
    <3>1. call.seen \in Nat /\ Len(rows') \in Int
      BY <1>1, <1>3, <2>2 DEF CallOK, Pending, queryVars
    <3>2. call.seen =< Len(rows')
      BY <1>1, <1>3, <1>4, <2>2, <3>1 DEF CallOK
    <3> QED
      BY <1>1, <1>3, <1>6, <2>2, <3>2 DEF CallOK
  <2> QED
    BY <2>1, <2>2
<1>7. ASSUME Own PROVE Tools'
  BY <1>7 DEF Own, CallOK
<1>8. ASSUME UNCHANGED attributionVars, UNCHANGED targets
      PROVE  Targets' /\ Seeded' /\ Committed(Selected)' = Committed(Selected)
  BY <1>1, <1>8 DEF attributionVars, queryVars, Committed
<1>9. ASSUME NEW file \in Files, LoadFile(file)
      PROVE  Targets' /\ Tab' /\ Tools' /\ Seeded' /\ here' \in BOOLEAN
  BY <1>1, <1>5, <1>7, <1>9, LoadingCommits DEF LoadFile, Upload, tabVars
<1>10. ASSUME NEW file \in Files, LoadElsewhere(file)
       PROVE  Targets' /\ Tab' /\ Tools' /\ Seeded' /\ here' \in BOOLEAN
  BY <1>1, <1>5, <1>6, <1>10, LoadingCommits
     DEF LoadElsewhere, UploadElsewhere, Other, tabVars
<1>11. ASSUME DropFile
       PROVE  Targets' /\ Tab' /\ Tools' /\ Seeded' /\ here' \in BOOLEAN
  BY <1>1, <1>7, <1>11 DEF DropFile, RemoveFile, tabVars, queryVars
<1>12. ASSUME OptimizerSolves \/ OptimizerRefuses
       PROVE  Targets' /\ Tab' /\ Tools' /\ Seeded' /\ here' \in BOOLEAN
  BY <1>1, <1>7, <1>8, <1>12 DEF OptimizerSolves, OptimizerRefuses
<1>13. ASSUME NEW e \in Date, CommitRounded(e)
       PROVE  Targets' /\ Tab' /\ Tools' /\ Seeded' /\ here' \in BOOLEAN
  <2>1. Record(optResult.cap) /\ optResult.cap \in Cap
    BY <1>1, <1>13 DEF CommitRounded, Solution
  <2> QED
    BY <1>1, <1>3, <1>5, <1>7, <1>13, <2>1 DEF CommitRounded, tabVars
<1>14. ASSUME NEW e \in Date, CommitElsewhere(e)
       PROVE  Targets' /\ Tab' /\ Tools' /\ Seeded' /\ here' \in BOOLEAN
  <2>1. PICK cap \in Cap : Record(cap)
    BY <1>14 DEF CommitElsewhere
  <2> QED
    BY <1>1, <1>3, <1>5, <1>6, <1>14, <2>1
       DEF CommitElsewhere, CommitAllocation, Other, tabVars
<1>20. ASSUME NEW e \in Date, SaveElsewhere(e)
       PROVE  Targets' /\ Tab' /\ Tools' /\ Seeded' /\ here' \in BOOLEAN
  BY <1>1, <1>3, <1>5, <1>6, <1>20 DEF SaveElsewhere, SaveApart, Other, tabVars
<1>15. ASSUME NEW tool \in {"composition_change", "target_vs_realized"},
              GetCurrent(tool)
       PROVE  Targets' /\ Tab' /\ Tools' /\ Seeded' /\ here' \in BOOLEAN
  <2>1. PICK i \in Current(Selected) :
            call' = [tool |-> tool, current |-> i, seen |-> Len(rows)]
    BY <1>15 DEF GetCurrent
  <2>2. i \in Committed(Selected) /\ i \in Nat
    BY <1>1, <2>1, AnswersAreIds
  <2>3. /\ UNCHANGED attributionVars /\ UNCHANGED <<targets, tabVars, here>>
        /\ report' = None
    BY <1>15 DEF GetCurrent
  <2>4. rows' = rows
    BY <2>3 DEF attributionVars, queryVars
  <2>5. /\ call' \in Pending /\ call'.current = i
        /\ call'.seen = Len(rows) /\ i =< Len(rows)
    BY <1>1, <1>3, <2>1, <2>2, CommittedIsFinite DEF Pending
  <2>6. CallOK'
    BY <1>3, <1>8, <2>2, <2>3, <2>4, <2>5 DEF CallOK
  <2> QED
    BY <1>1, <1>8, <2>3, <2>6 DEF tabVars
<1>16. ASSUME GetPrevious
       PROVE  Targets' /\ Tab' /\ Tools' /\ Seeded' /\ here' \in BOOLEAN
  <2>1. /\ call # None /\ call \in Pending
        /\ UNCHANGED attributionVars /\ UNCHANGED <<targets, tabVars, here>>
        /\ call' = None
    BY <1>1, <1>16 DEF GetPrevious, CallOK
  <2>2. report' \in Report
    <3>1. Previous(Selected) \subseteq Nat
      BY <1>1, AnswersAreIds
    <3> QED
      BY <1>16, <2>1, <3>1 DEF GetPrevious, Pending, Report
  <2> QED
    BY <1>1, <1>8, <2>1, <2>2 DEF tabVars, CallOK
<1>17. ASSUME Attribute
       PROVE  Targets' /\ Tab' /\ Tools' /\ Seeded' /\ here' \in BOOLEAN
  <2>1. /\ call # None /\ call \in Pending
        /\ call.current \in Committed(Selected)
        /\ UNCHANGED attributionVars /\ UNCHANGED <<targets, tabVars, here>>
        /\ call' = None
    BY <1>1, <1>17 DEF Attribute, CallOK
  <2>2. PICK q \in Timelines(Selected) :
            report' = [tool |-> call.tool, seen |-> call.seen,
                       current |-> call.current,
                       target |-> targets[call.current],
                       last |-> Active(q, LastDay(data))]
    BY <1>17 DEF Attribute
  <2>3. targets[call.current] \in Cap \cup {None}
    <3>1. call.current \in 1 .. Len(targets)
      BY <1>1, <2>1, CommittedIsFinite
    <3> QED
      BY <1>1, <3>1
  <2>4. q \in Seq(Nat) /\ Active(q, LastDay(data)) \in SUBSET Nat
    BY <1>1, AnswersAreIds
  <2>5. call.tool = "target_vs_realized" /\ call.seen \in Nat
        /\ call.current \in Nat
    BY <1>17, <2>1 DEF Attribute, Pending
  <2>6. report' \in Report
    BY <2>2, <2>3, <2>4, <2>5 DEF Report
  <2> QED
    BY <1>1, <1>8, <2>1, <2>6 DEF tabVars, CallOK
<1>18. ASSUME UNCHANGED workbenchVars
       PROVE  Targets' /\ Tab' /\ Tools' /\ Seeded' /\ here' \in BOOLEAN
  BY <1>1, <1>6, <1>8, <1>18 DEF workbenchVars, tabVars
<1>19. Targets' /\ Tab' /\ Tools' /\ Seeded' /\ here' \in BOOLEAN
  BY <1>9, <1>10, <1>11, <1>12, <1>13, <1>14, <1>15, <1>16, <1>17, <1>18, <1>20
     DEF WorkbenchNext
<1> QED
  BY <1>2, <1>19 DEF WorkbenchInv, WorkbenchTypeOK, CallOK

(* The type invariant.                                                     *)
THEOREM WorkbenchTypeCorrect == WorkbenchSpec => []WorkbenchTypeOK
<1>1. WorkbenchInv => WorkbenchTypeOK
  BY DEF WorkbenchInv
<1> QED
  BY <1>1, WorkbenchInvInit, WorkbenchInvStep, PTL DEF WorkbenchSpec

(* The engine tab and the tools are a session of Attribution.              *)
THEOREM WorkbenchImplementsAttribution == WorkbenchSpec => AttributionSpec
<1>1. WorkbenchInit => AttributionInit
  BY DEF WorkbenchInit
<1> QED
  BY <1>1, WorkbenchInvInit, WorkbenchInvStep, WorkbenchActs, PTL
     DEF WorkbenchSpec, AttributionSpec

(* The series of the workbench are point in time, files of one start       *)
(* reconcile and commits, those of the engine tab too, keep the past.      *)
THEOREM WorkbenchAttribution ==
    ClockAdvances => (WorkbenchSpec => /\ []AttributionIsPointInTime
                                       /\ []FilesOfOneStartReconcile
                                       /\ CommitsDoNotRewriteThePast)
  BY WorkbenchImplementsAttribution, PointInTime, OneStartReconciles, PastIsKept

----------------------------------------------------------------------------
(* What the tab would commit is what it last told the user.                *)
ResultIsLastRun == optResult = lastRun

(* The tab commits the last solution with its own cap, or nothing.         *)
THEOREM LastSolutionCommitted == WorkbenchSpec => CommitsAreTheLastSolution
<1> DEFINE AsShown == rows' # rows /\ here' =>
                        /\ lastRun # None
                        /\ Last(rows').weights = lastRun.weights
                        /\ Last(targets') = lastRun.cap
<1>1. WorkbenchInit => ResultIsLastRun
  BY DEF WorkbenchInit, ResultIsLastRun
<1>2. ResultIsLastRun /\ [WorkbenchNext]_workbenchVars => ResultIsLastRun'
  BY DEF ResultIsLastRun, WorkbenchNext, workbenchVars, tabVars, LoadFile,
         LoadElsewhere, DropFile, OptimizerSolves, OptimizerRefuses,
         CommitRounded, CommitElsewhere, SaveElsewhere, GetCurrent, GetPrevious,
         Attribute, Other
<1>3. ASSUME WorkbenchInv, ResultIsLastRun, NEW e \in Date, CommitRounded(e)
      PROVE  AsShown
  <2>1. /\ optResult # None /\ optResult = lastRun
        /\ Save(Selected, e, "engine", optResult.weights)
        /\ Record(optResult.cap)
    BY <1>3 DEF CommitRounded, ResultIsLastRun
  <2>2. /\ optResult.weights \in Weights /\ optResult.cap \in Cap
        /\ QueriesTypeOK /\ targets \in Seq(Cap \cup {None})
    BY <1>3, <2>1 DEF WorkbenchInv, WorkbenchTypeOK, AttributionTypeOK, Solution
  <2>3. Len(rows) \in Nat /\ Len(rows') = Len(rows) + 1
        /\ rows'[Len(rows')].weights = optResult.weights
    BY <2>1, <2>2, SaveAdds, AttributionAssumption DEF Source
  <2>4. targets' = Append(targets, optResult.cap)
    BY <2>1, <2>3 DEF Record
  <2>5. targets'[Len(targets')] = optResult.cap
    BY <2>2, <2>4, AppendProperties
  <2> QED
    BY <2>1, <2>3, <2>5 DEF Last
<1>4. ASSUME WorkbenchNext, ~(\E e \in Date : CommitRounded(e))
      PROVE  AsShown
  <2>1. \/ here' = FALSE
        \/ UNCHANGED attributionVars \/ UNCHANGED queryVars
    BY <1>4 DEF WorkbenchNext, LoadFile, LoadElsewhere, DropFile, RemoveFile,
       OptimizerSolves, OptimizerRefuses, CommitElsewhere, SaveElsewhere,
       GetCurrent, GetPrevious, Attribute
  <2> QED
    BY <2>1 DEF attributionVars, queryVars
<1>5. WorkbenchInv /\ ResultIsLastRun /\ [WorkbenchNext]_workbenchVars
         => [AsShown]_workbenchVars
  BY <1>3, <1>4
<1> QED
  BY <1>1, <1>2, <1>5, WorkbenchInvInit, WorkbenchInvStep, PTL
     DEF WorkbenchSpec, CommitsAreTheLastSolution

----------------------------------------------------------------------------
(* The row a tool holds is the latest of those it saw: a row saved since   *)
(* may come after it, one that was there cannot.                           *)
LatestSeen ==
    call # None =>
        \A k \in Committed(Selected) : k =< call.seen =>
            \/ rows[k].effective < rows[call.current].effective
            \/ rows[k].effective = rows[call.current].effective /\ k =< call.current

(* A timeline ends in what is in force on a day no row takes effect after. *)
LEMMA LastIsActive ==
    ASSUME CreatedInOrder, NEW q \in Timelines(Selected), Len(q) # 0, NEW d,
           \A i \in Committed(Selected) : rows[i].effective =< d
    PROVE  Active(q, d) = {q[Len(q)]}
<1>1. /\ Len(q) \in Nat /\ DOMAIN q = 1 .. Len(q)
      /\ \A a \in 1 .. Len(q) : q[a] \in Committed(Selected)
  BY TimelineFacts
<1>2. Len(q) \in 1 .. Len(q)
  BY <1>1
<1>3. {a \in DOMAIN q : rows[q[a]].effective =< d} = 1 .. Len(q)
  BY <1>1
<1>4. {a \in 1 .. Len(q) : \A b \in 1 .. Len(q) : b =< a} = {Len(q)}
  BY <1>1, <1>2
<1> QED
  BY <1>3, <1>4 DEF Active

(* The rows that overtook the first answer are those after it in the       *)
(* timeline: their number is its distance from the end.                    *)
LEMMA OvertakingIsAfter ==
    ASSUME CreatedInOrder, CallOK, LatestSeen, call # None,
           NEW r, r.seen = call.seen, r.current = call.current,
           NEW q \in Timelines(Selected)
    PROVE  /\ Len(q) \in Nat /\ Cardinality(Overtaking(r)) \in 0 .. Len(q) - 1
           /\ q[Len(q) - Cardinality(Overtaking(r))] = call.current
<1> DEFINE C == Committed(Selected)
           m == Len(q)
           i == call.current
<1>1. /\ m \in Nat /\ DOMAIN q = 1 .. m
      /\ \A a \in 1 .. m : q[a] \in C
      /\ \A a, b \in 1 .. m : a < b => Older(q[a], q[b])
      /\ \A k \in C : \E a \in 1 .. m : q[a] = k
  BY TimelineFacts
<1>2. /\ i \in C /\ i =< call.seen /\ call.seen \in Nat
  BY DEF CallOK, Pending
<1>3. PICK n \in 1 .. m : q[n] = i
  BY <1>1, <1>2
<1>4. \A k, l \in C : /\ Older(k, l) <=> \/ rows[k].effective < rows[l].effective
                                         \/ /\ rows[k].effective = rows[l].effective
                                            /\ k < l
                      /\ k \in Int /\ rows[k].effective \in Int
  BY OlderMeansEarlier
<1> DEFINE O == Overtaking(r)
           f == [a \in 1 .. m - n |-> q[n + a]]
<1>5. \A k : k \in O <=> /\ k \in C /\ k > call.seen
                         /\ rows[k].effective >= rows[i].effective
  BY DEF Overtaking
<1> HIDE DEF C, m, O
<1>6. m - n \in Nat /\ \A a \in 1 .. m - n : n + a \in 1 .. m /\ n < n + a
  BY <1>1, <1>3
<1>7. ASSUME NEW a \in 1 .. m - n PROVE f[a] \in O
  <2>1. q[n + a] \in C /\ Older(i, q[n + a])
    BY <1>1, <1>3, <1>6
  <2>2. ~(q[n + a] =< call.seen)
    <3>1. q[n + a] =< call.seen =>
             \/ rows[q[n + a]].effective < rows[i].effective
             \/ rows[q[n + a]].effective = rows[i].effective /\ q[n + a] =< i
      BY <2>1 DEF LatestSeen, C
    <3> HIDE DEF f, i
    <3> QED
      BY <1>2, <1>4, <2>1, <3>1
  <2>3. f[a] = q[n + a]
    OBVIOUS
  <2> HIDE DEF f, i
  <2> QED
    BY <1>2, <1>4, <1>5, <2>1, <2>2, <2>3
<1>8. ASSUME NEW k \in O PROVE \E a \in 1 .. m - n : f[a] = k
  <2>1. k \in C /\ k > call.seen /\ rows[k].effective >= rows[i].effective
    BY <1>5
  <2>2. PICK b \in 1 .. m : q[b] = k
    BY <1>1, <2>1
  <2>3. k # i /\ ~Older(k, i)
    <3> HIDE DEF i
    <3> QED
      BY <1>2, <1>4, <2>1
  <2>4. b > n
    <3>1. b = n \/ b < n \/ b > n
      BY <1>1, <1>3, <2>2
    <3>2. b < n => Older(q[b], q[n])
      BY <1>1
    <3> QED
      BY <1>3, <2>2, <2>3, <3>1, <3>2
  <2>5. b - n \in 1 .. m - n /\ n + (b - n) = b
    BY <1>1, <1>3, <2>4
  <2>6. f[b - n] = q[b]
    BY <2>5
  <2> QED
    BY <2>2, <2>5, <2>6
<1>9. ASSUME NEW a \in 1 .. m - n, NEW b \in 1 .. m - n, a # b PROVE f[a] # f[b]
  <2>1. \A k \in C : ~Older(k, k)
    BY <1>4
  <2>2. (n + a < n + b \/ n + b < n + a) /\ n + a \in 1 .. m /\ n + b \in 1 .. m
    BY <1>1, <1>3, <1>6, <1>9
  <2>3. q[n + a] # q[n + b]
    BY <1>1, <2>1, <2>2
  <2> QED
    BY <2>3
<1>10. f \in [1 .. m - n -> O]
  BY <1>7
<1> HIDE DEF f, i
<1>11. IsFiniteSet(1 .. m - n) /\ Cardinality(1 .. m - n) = m - n
  BY <1>6, IntervalSize
<1>12. Cardinality(O) = m - n
  BY <1>8, <1>9, <1>10, <1>11, ImageIsFinite
<1>13. Cardinality(O) \in 0 .. m - 1 /\ m - Cardinality(O) = n
  BY <1>1, <1>3, <1>12
<1>14. q[m - Cardinality(O)] = i
  BY <1>3, <1>13
<1> QED
  BY <1>1, <1>13, <1>14 DEF m, O, i

(* Rows that are added leave the first answer the latest of those seen.    *)
LEMMA LatestSeenStep ==
    CreatedInOrder /\ WorkbenchInv /\ LatestSeen
        /\ [WorkbenchNext]_workbenchVars => LatestSeen'
<1> SUFFICES ASSUME CreatedInOrder, WorkbenchInv, LatestSeen,
                    [WorkbenchNext]_workbenchVars
             PROVE  LatestSeen'
  OBVIOUS
<1>1. AttributionTypeOK /\ [AttributionNext]_attributionVars /\ QueriesTypeOK
  BY WorkbenchActs DEF WorkbenchInv, WorkbenchTypeOK, AttributionTypeOK
<1>2. /\ Len(rows) \in Nat
      /\ Committed(Selected)' \subseteq Committed(Selected) \cup {Len(rows) + 1}
      /\ \A i \in 1 .. Len(rows) : rows'[i] = rows[i]
  BY <1>1, RowsGrow
<1>3. ASSUME call' = None PROVE LatestSeen'
  BY <1>3 DEF LatestSeen
<1>4. ASSUME call' = call, call # None PROVE LatestSeen'
  <2>1. /\ call.current \in Committed(Selected) /\ call.seen \in Nat
        /\ call.seen =< Len(rows)
    BY <1>4 DEF WorkbenchInv, CallOK, Pending
  <2>2. Committed(Selected) \subseteq 1 .. Len(rows)
    BY <1>1, CommittedIsFinite
  <2>3. ASSUME NEW k \in Committed(Selected)', k =< call.seen
        PROVE  k \in Committed(Selected)
    BY <1>2, <2>1, <2>3
  <2>4. ASSUME NEW k \in Committed(Selected)', k =< call.seen
        PROVE  \/ rows'[k].effective < rows'[call.current].effective
               \/ rows'[k].effective = rows'[call.current].effective /\ k =< call.current
    <3>1. k \in Committed(Selected)
      BY <2>3, <2>4
    <3>2. rows'[k] = rows[k] /\ rows'[call.current] = rows[call.current]
      BY <1>2, <2>1, <2>2, <3>1
    <3>3. \/ rows[k].effective < rows[call.current].effective
          \/ rows[k].effective = rows[call.current].effective /\ k =< call.current
      BY <1>4, <2>4, <3>1 DEF LatestSeen
    <3> QED
      BY <3>2, <3>3
  <2> QED
    BY <1>4, <2>4 DEF LatestSeen
<1>5. ASSUME UNCHANGED call PROVE LatestSeen'
  BY <1>3, <1>4, <1>5
<1>6. ASSUME NEW tool, GetCurrent(tool) PROVE LatestSeen'
  <2>1. PICK i \in Current(Selected) :
            call' = [tool |-> tool, current |-> i, seen |-> Len(rows)]
    BY <1>6 DEF GetCurrent
  <2>2. rows' = rows /\ Committed(Selected)' = Committed(Selected)
    BY <1>6 DEF GetCurrent, attributionVars, queryVars, Committed
  <2>3. call'.current = i
    BY <2>1
  <2>4. i \in Committed(Selected) /\ \A k \in Committed(Selected) : ~Newer(k, i)
    BY DEF Current
  <2>5. ASSUME NEW k \in Committed(Selected)
        PROVE  \/ rows[k].effective < rows[i].effective
               \/ rows[k].effective = rows[i].effective /\ k =< i
    <3>1. /\ k \in Int /\ i \in Int /\ ~Newer(k, i)
          /\ rows[k].effective \in Int /\ rows[i].effective \in Int
      BY <2>4, OlderMeansEarlier
    <3>2. Newer(k, i) <=> \/ rows[i].effective < rows[k].effective
                          \/ rows[i].effective = rows[k].effective /\ i < k
      BY <2>4, OlderMeansEarlier
    <3> QED
      BY <3>1, <3>2
  <2> QED
    BY <2>2, <2>3, <2>5 DEF LatestSeen
<1>7. GetPrevious \/ Attribute => call' = None
  BY DEF GetPrevious, Attribute
<1>8. Own \/ Other \/ UNCHANGED workbenchVars => UNCHANGED call
  BY DEF Own, Other, workbenchVars
<1> QED
  BY <1>3, <1>5, <1>6, <1>7, <1>8
     DEF WorkbenchNext, LoadFile, LoadElsewhere, DropFile, OptimizerSolves,
         OptimizerRefuses, CommitRounded, CommitElsewhere, SaveElsewhere

(* What the property says of one report.                                   *)
Lags(r, q) ==
    LET lag == Cardinality(Overtaking(r))
        found == q[Len(q) - lag]
        started == \A i \in Committed(Selected) :
                      rows[i].effective =< LastDay(data)
    IN  \/ /\ r.tool = "composition_change"
           /\ r.current = found
           /\ r.previous = {q[k] : k \in (DOMAIN q) \cap {Len(q) - 1}}
        \/ /\ r.tool = "target_vs_realized"
           /\ r.target = targets[found]
           /\ lag = 0 /\ started => r.last = {found}

(* Every report lags by the rows that overtook its first answer.           *)
LEMMA EveryReportLags ==
    ASSUME CreatedInOrder, WorkbenchInv, LatestSeen, WorkbenchNext, report' # None,
           NEW q \in Timelines(Selected)
    PROVE  Lags(report', q)
<1> DEFINE lag == Cardinality(Overtaking(report'))
           m == Len(q)
<1>1. CASE GetPrevious
  <2>1. /\ call # None /\ CallOK
        /\ report'.tool = "composition_change" /\ report'.seen = call.seen
        /\ report'.current = call.current
        /\ report'.previous = Previous(Selected)
    BY <1>1 DEF GetPrevious, WorkbenchInv
  <2>2. /\ m \in Nat /\ lag \in 0 .. m - 1 /\ q[m - lag] = call.current
    BY <2>1, OvertakingIsAfter
  <2>3. Previous(Selected) = IF m < 2 THEN {} ELSE {q[m - 1]}
    BY PreviousBeforeEnd
  <2>4. DOMAIN q = 1 .. m
    BY TimelineFacts
  <2> HIDE DEF m, lag
  <2>5. (DOMAIN q) \cap {m - 1} = IF m < 2 THEN {} ELSE {m - 1}
    BY <2>2, <2>4
  <2>6. {q[k] : k \in (DOMAIN q) \cap {m - 1}} = Previous(Selected)
    BY <2>3, <2>5
  <2> QED
    BY <2>1, <2>2, <2>6 DEF Lags, m, lag
<1>2. CASE Attribute
  <2>1. PICK z \in Timelines(Selected) :
            report' = [tool |-> call.tool, seen |-> call.seen,
                       current |-> call.current,
                       target |-> targets[call.current],
                       last |-> Active(z, LastDay(data))]
    BY <1>2 DEF Attribute
  <2>2. /\ call # None /\ CallOK /\ z = q
        /\ report'.tool = "target_vs_realized" /\ report'.seen = call.seen
        /\ report'.current = call.current
        /\ report'.target = targets[call.current]
        /\ report'.last = Active(z, LastDay(data))
    BY <1>2, <2>1, OneTimeline DEF Attribute, WorkbenchInv
  <2>3. /\ m \in Nat /\ lag \in 0 .. m - 1 /\ q[m - lag] = call.current
    BY <2>2, OvertakingIsAfter
  <2>4. ASSUME lag = 0, \A i \in Committed(Selected) : rows[i].effective =< LastDay(data)
        PROVE  report'.last = {q[m - lag]}
    <3>1. m # 0 /\ m - lag = m
      BY <2>3, <2>4
    <3> QED
      BY <2>2, <2>4, <3>1, LastIsActive
  <2> QED
    BY <2>2, <2>3, <2>4 DEF Lags, m, lag
<1>3. ~GetPrevious /\ ~Attribute => report' = None
  BY DEF WorkbenchNext, LoadFile, LoadElsewhere, DropFile, OptimizerSolves,
         OptimizerRefuses, CommitRounded, CommitElsewhere, SaveElsewhere,
         GetCurrent, Own, Other
<1> QED
  BY <1>1, <1>2, <1>3

(* However many sessions save between the two queries of a tool, and       *)
(* whatever they save: the first answer is the n-th row from the end of    *)
(* the history when n rows have overtaken it, and its target is reported.  *)
THEOREM ReportsLag ==
    ClockAdvances => (WorkbenchSpec => ReportsLagByOvertakingRows)
<1> SUFFICES ASSUME ClockAdvances
             PROVE  WorkbenchSpec => ReportsLagByOvertakingRows
  OBVIOUS
<1> DEFINE AllLag == report' # None => \A q \in Timelines(Selected) : Lags(report', q)
<1>1. WorkbenchInit => LatestSeen
  BY DEF WorkbenchInit, LatestSeen
<1>2. WorkbenchSpec => []CreatedInOrder
  <2>1. AttributionInv => CreatedInOrder
    BY DEF AttributionInv
  <2> QED
    BY <2>1, WorkbenchImplementsAttribution, AttributionInvariant, PTL
<1>3. CreatedInOrder /\ WorkbenchInv /\ LatestSeen /\ [WorkbenchNext]_workbenchVars
         => [AllLag]_workbenchVars
  BY EveryReportLags
<1>4. [AllLag]_workbenchVars =>
         [report' # None =>
            \A q \in Timelines(Selected) :
               LET lag == Cardinality(Overtaking(report'))
                   found == q[Len(q) - lag]
                   started == \A i \in Committed(Selected) :
                                 rows[i].effective =< LastDay(data)
               IN  \/ /\ report'.tool = "composition_change"
                      /\ report'.current = found
                      /\ report'.previous =
                            {q[k] : k \in (DOMAIN q) \cap {Len(q) - 1}}
                   \/ /\ report'.tool = "target_vs_realized"
                      /\ report'.target = targets[found]
                      /\ lag = 0 /\ started => report'.last = {found}
         ]_workbenchVars
  BY DEF Lags
<1> QED
  BY <1>1, <1>2, <1>3, <1>4, LatestSeenStep, WorkbenchInvInit, WorkbenchInvStep, PTL
     DEF WorkbenchSpec, ReportsLagByOvertakingRows
=============================================================================
