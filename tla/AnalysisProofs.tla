---------------------------- MODULE AnalysisProofs --------------------------
(***************************************************************************)
(* For every file: the type invariant of load_nav(), that the report       *)
(* accounts for the rows, and that what is loaded is the table the file    *)
(* holds.  Of every series that is loaded: its drawdowns, the risk-free    *)
(* rate, what the funds contribute to it, and that its calendar tables,    *)
(* windows, trends and months agree.                                       *)
(***************************************************************************)
EXTENDS Toolkit, EnumerationProofs, SequenceTheorems

----------------------------------------------------------------------------
(* Rows kept of a sequence of rows.                                        *)

(* The rows that are kept, and the positions they had.                     *)
LEMMA KeptRows ==
    ASSUME NEW s \in Seq(Row), NEW K \in SUBSET DOMAIN s
    PROVE  /\ Kept(s, K) \in Seq(Row)
           /\ Len(Kept(s, K)) = Cardinality(K) /\ Cardinality(K) \in 0 .. Len(s)
           /\ \A n \in 1 .. Cardinality(K) :
                 InOrder(K)[n] \in K /\ Kept(s, K)[n] = s[InOrder(K)[n]]
           /\ \A i \in K : \E n \in 1 .. Cardinality(K) : InOrder(K)[n] = i
           /\ \A a, b \in 1 .. Cardinality(K) : a < b => InOrder(K)[a] < InOrder(K)[b]
<1>1. DOMAIN s = 1 .. Len(s) /\ Len(s) \in Nat /\ \A i \in 1 .. Len(s) : s[i] \in Row
  OBVIOUS
<1>2. K \in SUBSET (1 .. Len(s)) /\ K \in SUBSET Int
  BY <1>1
<1>3. IsFiniteSet(K) /\ Cardinality(K) \in 0 .. Len(s)
  BY <1>1, <1>2, PositionsSplit
<1>4. /\ InOrder(K) \in Seq(K) /\ Len(InOrder(K)) = Cardinality(K)
      /\ \A n \in 1 .. Cardinality(K) : InOrder(K)[n] \in K
      /\ \A i \in K : \E n \in 1 .. Cardinality(K) : InOrder(K)[n] = i
      /\ \A a, b \in 1 .. Cardinality(K) : a < b => InOrder(K)[a] < InOrder(K)[b]
  BY <1>2, <1>3, InOrderLists
<1>5. DOMAIN InOrder(K) = 1 .. Cardinality(K)
  BY <1>4
<1>6. Kept(s, K) = [n \in 1 .. Cardinality(K) |-> s[InOrder(K)[n]]]
  BY <1>5 DEF Kept
<1>7. \A n \in 1 .. Cardinality(K) : s[InOrder(K)[n]] \in Row
  BY <1>1, <1>2, <1>4
<1>8. Kept(s, K) \in Seq(Row) /\ Len(Kept(s, K)) = Cardinality(K)
  BY <1>3, <1>6, <1>7
<1> QED
  BY <1>3, <1>4, <1>6, <1>8

(* q holds the rows of the file at the positions S, each once.             *)
Traces(q, S) ==
    \E idx \in [1 .. Len(q) -> S] :
        /\ \A n \in 1 .. Len(q) : q[n] = file[idx[n]]
        /\ \A i \in S : \E n \in 1 .. Len(q) : idx[n] = i
        /\ \A a, b \in 1 .. Len(q) : a # b => idx[a] # idx[b]

(* The rows of a trace are as many as its positions.                       *)
LEMMA TracesCount ==
    ASSUME NEW q \in Seq(Row), NEW S, Traces(q, S)
    PROVE  Cardinality(S) = Len(q)
<1>1. PICK idx \in [1 .. Len(q) -> S] :
         /\ \A i \in S : \E n \in 1 .. Len(q) : idx[n] = i
         /\ \A a, b \in 1 .. Len(q) : a # b => idx[a] # idx[b]
  BY DEF Traces
<1>2. Len(q) \in Nat
  OBVIOUS
<1>3. IsFiniteSet(1 .. Len(q)) /\ Cardinality(1 .. Len(q)) = Len(q)
  BY <1>2, IntervalSize
<1> QED
  BY <1>1, <1>3, ImageIsFinite

(* Keeping the rows that are in T leaves the rows of T.                    *)
LEMMA KeptTraces ==
    ASSUME NEW q \in Seq(Row), NEW S, Traces(q, S), NEW T \in SUBSET S, NEW K \in SUBSET DOMAIN q,
           \A n \in DOMAIN q, i \in S : q[n] = file[i] => (n \in K <=> i \in T)
    PROVE  Traces(Kept(q, K), T)
<1>1. PICK idx \in [1 .. Len(q) -> S] :
         /\ \A n \in 1 .. Len(q) : q[n] = file[idx[n]]
         /\ \A i \in S : \E n \in 1 .. Len(q) : idx[n] = i
         /\ \A a, b \in 1 .. Len(q) : a # b => idx[a] # idx[b]
  BY DEF Traces
<1>2. DOMAIN q = 1 .. Len(q) /\ Len(q) \in Nat
  OBVIOUS
<1> DEFINE c == Cardinality(K)
           o == InOrder(K)
           new == [n \in 1 .. c |-> idx[o[n]]]
<1>3. /\ Len(Kept(q, K)) = c /\ c \in Nat
      /\ \A n \in 1 .. c : o[n] \in K /\ Kept(q, K)[n] = q[o[n]]
      /\ \A i \in K : \E n \in 1 .. c : o[n] = i
      /\ \A a, b \in 1 .. c : a < b => o[a] < o[b]
  BY KeptRows
<1> HIDE DEF c, o
<1>4. \A n \in 1 .. c : o[n] \in 1 .. Len(q)
  <2>1. \A i \in K : i \in 1 .. Len(q)
    BY <1>2
  <2> QED
    BY <1>3, <2>1
<1>5. \A n \in 1 .. Len(q) : n \in K <=> idx[n] \in T
  BY <1>1, <1>2
<1>6. new \in [1 .. c -> T]
  BY <1>3, <1>4, <1>5
<1>7. \A n \in 1 .. c : Kept(q, K)[n] = file[new[n]]
  BY <1>1, <1>3, <1>4
<1>8. ASSUME NEW i \in T PROVE \E n \in 1 .. c : new[n] = i
  <2>1. PICK n \in 1 .. Len(q) : idx[n] = i
    BY <1>1
  <2>2. n \in K
    BY <1>5, <2>1
  <2>3. PICK l \in 1 .. c : o[l] = n
    BY <1>3, <2>2
  <2> QED
    BY <2>1, <2>3
<1>9. ASSUME NEW a \in 1 .. c, NEW b \in 1 .. c, a # b PROVE new[a] # new[b]
  <2>1. o[a] # o[b]
    <3>1. o[a] \in Int /\ o[b] \in Int /\ (a < b \/ b < a)
      BY <1>3, <1>4, <1>9
    <3>2. a < b => o[a] < o[b]
      BY <1>3
    <3>3. b < a => o[b] < o[a]
      BY <1>3
    <3> QED
      BY <3>1, <3>2, <3>3
  <2> QED
    BY <1>1, <1>4, <2>1
<1> HIDE DEF new
<1> DEFINE z == Kept(q, K)
<1>10. Len(z) = c /\ \A n \in 1 .. c : z[n] = file[new[n]]
  BY <1>3, <1>7
<1> HIDE DEF z
<1>11. Traces(z, T)
  BY <1>6, <1>8, <1>9, <1>10 DEF Traces
<1> QED
  BY <1>11 DEF z

----------------------------------------------------------------------------
(* The inductive invariant.                                                *)

RowDay(r) == Day(r, report.convention)

NonBlank == {i \in DOMAIN file : ~IsBlankRow(file[i])}

Dated == {i \in NonBlank : RowDay(file[i]) # NaT}

(* Two rows of the file are read as the same date.                         *)
SameDayTwice ==
    \E i, j \in DOMAIN file :
        /\ i # j
        /\ Day(file[i], report.convention) = Day(file[j], report.convention)
        /\ Day(file[i], report.convention) # NaT
        /\ ~IsBlankRow(file[i]) /\ ~IsBlankRow(file[j])

(* The rows are of different dates, in order.                              *)
Ordered(q) == \A a, b \in DOMAIN q : a < b => RowDay(q[a]) < RowDay(q[b])

FromFile(q, S) == \A n \in DOMAIN q : \E i \in S : q[n] = file[i]

AllDays(q, S) == \A i \in S : \E n \in DOMAIN q : RowDay(q[n]) = RowDay(file[i])

Differences(q) ==
    [f \in Fund |-> [n \in 1 .. Len(q) - 1 |-> q[n + 1][f] - q[n][f]]]

ReportType ==
    report \in [blank : Nat, bad : Nat, filled : Nat,
                convention : {"none", "month-first", "day-first"},
                mode : {"none", "nav", "returns"}]

Counted == stage \in {"sort", "mode", "nav", "returns", "gate", "loaded"}
Computed == stage \in {"gate", "loaded"}
Sorted == stage \in {"mode", "nav", "returns"} \/ (Computed /\ report.mode = "returns")

(* Which rows there are still, and how many were dropped; and that no file *)
(* is ever read day-first, for what fails one way fails the other way too. *)
CountInv ==
    /\ stage = "blanks" => rows = file /\ report = EmptyReport
    /\ stage = "dates" => /\ Traces(rows, NonBlank)
                          /\ Cardinality(NonBlank) = Len(file) - report.blank
    /\ stage = "sort" => Traces(rows, Dated)
    /\ Counted => Cardinality(Dated) = Len(file) - report.blank - report.bad
    /\ Counted => report.convention = "month-first"

(* One row of each date, in order; of a file of returns, the series.       *)
SortedInv ==
    /\ Sorted => Ordered(rows) /\ FromFile(rows, Dated) /\ AllDays(rows, Dated)
    /\ stage \in {"nav", "returns"} => report.mode = stage
    /\ Computed /\ report.mode = "returns" =>
          /\ days = DaysOf(rows)
          /\ fundReturns = [f \in Fund |-> [i \in DOMAIN rows |-> Filled(rows[i][f])]]

(* Of a file of prices, the series of the rows without a gap.              *)
NavInv ==
    /\ Computed => report.mode \in {"nav", "returns"}
    /\ Computed /\ report.mode = "nav" =>
          /\ Ordered(rows) /\ FromFile(rows, Usable)
          /\ ~SameDayTwice => \A i \in Usable : \E n \in DOMAIN rows : rows[n] = file[i]
          /\ days = [n \in 1 .. Len(rows) - 1 |-> RowDay(rows[n + 1])]
          /\ fundReturns = Differences(rows)
    /\ stage = "loaded" => Len(days) >= MinObs

IngestInv == IngestTypeOK /\ ReportType /\ CountInv /\ SortedInv /\ NavInv

(* A file is a sequence of rows with days.                                 *)
LEMMA FileFacts ==
    ASSUME IngestTypeOK, ReportType
    PROVE  /\ file \in Seq(Row) /\ Len(file) \in Nat /\ DOMAIN file = 1 .. Len(file)
           /\ \A i \in DOMAIN file : file[i] \in Row /\ RowDay(file[i]) \in Nat
           /\ rows \in Seq(Row) /\ Len(rows) \in Nat /\ DOMAIN rows = 1 .. Len(rows)
           /\ \A i \in DOMAIN rows : rows[i] \in Row /\ RowDay(rows[i]) \in Nat
           /\ NonBlank \in SUBSET DOMAIN file /\ Dated \in SUBSET NonBlank
           /\ IsFiniteSet(NonBlank) /\ Cardinality(NonBlank) \in 0 .. Len(file)
           /\ IsFiniteSet(Dated) /\ Cardinality(Dated) \in 0 .. Len(file)
<1>1. /\ file \in Seq(Row) /\ Len(file) \in Nat /\ DOMAIN file = 1 .. Len(file)
      /\ \A i \in DOMAIN file : file[i] \in Row
      /\ rows \in Seq(Row) /\ Len(rows) \in Nat /\ DOMAIN rows = 1 .. Len(rows)
      /\ \A i \in DOMAIN rows : rows[i] \in Row
  BY DEF IngestTypeOK
<1>2. \A r \in Row : RowDay(r) \in Nat
  BY DEF RowDay, Day, Written, Row
<1>3. NonBlank \in SUBSET DOMAIN file /\ Dated \in SUBSET NonBlank
  BY DEF NonBlank, Dated
<1>4. NonBlank \in SUBSET (1 .. Len(file)) /\ Dated \in SUBSET (1 .. Len(file))
  BY <1>1, <1>3
<1>5. /\ IsFiniteSet(NonBlank) /\ Cardinality(NonBlank) \in 0 .. Len(file)
      /\ IsFiniteSet(Dated) /\ Cardinality(Dated) \in 0 .. Len(file)
  BY <1>1, <1>4, PositionsSplit
<1> QED
  BY <1>1, <1>2, <1>3, <1>5

(* How many rows there are, and how many are left without those of B.      *)
LEMMA RowsSplit ==
    ASSUME NEW s \in Seq(Row), NEW B \in SUBSET DOMAIN s
    PROVE  /\ Cardinality(B) \in 0 .. Len(s)
           /\ Cardinality(DOMAIN s \ B) = Len(s) - Cardinality(B)
<1>1. DOMAIN s = 1 .. Len(s) /\ Len(s) \in Nat
  OBVIOUS
<1> QED
  BY <1>1, PositionsSplit

(* The invariant holds of a file that was just read.                       *)
LEMMA IngestInitInv == IngestInit => IngestInv
<1> SUFFICES ASSUME IngestInit PROVE IngestInv
  OBVIOUS
<1>1. file \in Seq(Row) /\ rows = file /\ Len(file) \in Nat
  BY IngestAssumption DEF IngestInit
<1>2. ReportType
  BY DEF IngestInit, EmptyReport, ReportType
<1>3. << >> \in Seq(Nat \ {NaT}) /\ << >> \in Seq(Int) /\ Len(<< >>) = 0
  OBVIOUS
<1>4. IngestTypeOK
  <2>1. /\ report.blank = 0 /\ report.bad = 0 /\ report.filled = 0
        /\ report.convention = "none" /\ report.mode = "none"
    BY DEF IngestInit, EmptyReport
  <2>2. 0 \in 0 .. Len(file) /\ 0 \in 0 .. 2 * Len(file) /\ Len(rows) =< Len(file)
    BY <1>1
  <2>3. /\ days = << >> /\ fundReturns \in [Fund -> Seq(Int)]
        /\ \A f \in Fund : Len(fundReturns[f]) = Len(days)
    BY <1>3 DEF IngestInit
  <2>4. stage \in Stage /\ rows \in Seq(Row) /\ days \in Seq(Nat \ {NaT})
    BY <1>1, <1>3, <2>3 DEF IngestInit, Stage
  <2> QED
    BY <1>1, <2>1, <2>2, <2>3, <2>4 DEF IngestTypeOK
<1> QED
  BY <1>2, <1>4 DEF IngestInit, IngestInv, CountInv, SortedInv, NavInv, Counted, Computed, Sorted

(* Dropping blank rows leaves the other rows, and counts the blank ones.   *)
LEMMA DropBlanksKeepsInv == IngestInv /\ DropBlanks => IngestInv'
<1> SUFFICES ASSUME IngestInv, DropBlanks PROVE IngestInv'
  OBVIOUS
<1> DEFINE B == {i \in DOMAIN rows : IsBlankRow(rows[i])}
           K == {i \in DOMAIN rows : ~IsBlankRow(rows[i])}
<1>1. /\ stage = "blanks" /\ stage' = "dates" /\ UNCHANGED <<file, days, fundReturns>>
      /\ rows' = Kept(rows, K) /\ report' = [report EXCEPT !.blank = Cardinality(B)]
  BY DEF DropBlanks, Goto, Unless, Count
<1>2. IngestTypeOK /\ ReportType /\ rows = file
  BY <1>1 DEF IngestInv, CountInv
<1>3. K = DOMAIN rows \ B /\ B \in SUBSET DOMAIN rows /\ K \in SUBSET DOMAIN rows
      /\ K = NonBlank
  BY <1>2 DEF NonBlank
<1> HIDE DEF B, K
<1>4. rows \in Seq(Row) /\ Len(rows) \in Nat /\ DOMAIN rows = 1 .. Len(rows)
  BY <1>2, FileFacts
<1>5. Cardinality(B) \in 0 .. Len(rows) /\ Cardinality(K) = Len(rows) - Cardinality(B)
  BY <1>3, <1>4, RowsSplit
<1>6. rows' \in Seq(Row) /\ Len(rows') = Cardinality(K) /\ Len(rows') =< Len(file)
  BY <1>1, <1>2, <1>3, <1>4, <1>5, KeptRows
<1>7. Traces(rows, DOMAIN file)
  <2> DEFINE idx == [n \in 1 .. Len(rows) |-> n]
  <2>1. idx \in [1 .. Len(rows) -> DOMAIN file]
    BY <1>2, <1>4
  <2>2. /\ \A n \in 1 .. Len(rows) : rows[n] = file[idx[n]]
        /\ \A i \in DOMAIN file : \E n \in 1 .. Len(rows) : idx[n] = i
        /\ \A a, b \in 1 .. Len(rows) : a # b => idx[a] # idx[b]
    BY <1>2, <1>4
  <2> HIDE DEF idx
  <2> QED
    BY <2>1, <2>2 DEF Traces
<1>8. Traces(rows', NonBlank)
  <2>1. \A n \in DOMAIN rows, i \in DOMAIN file : rows[n] = file[i] => (n \in K <=> i \in NonBlank)
    BY DEF K, NonBlank
  <2>2. NonBlank \in SUBSET DOMAIN file
    BY DEF NonBlank
  <2> QED
    BY <1>1, <1>3, <1>4, <1>7, <2>1, <2>2, KeptTraces
<1>9. Traces(rows, NonBlank)' /\ NonBlank' = NonBlank
  BY <1>1, <1>8 DEF Traces, NonBlank
<1>10. /\ report'.blank = Cardinality(B) /\ report'.bad = report.bad
       /\ report'.filled = report.filled /\ report'.convention = report.convention
       /\ report'.mode = report.mode /\ ReportType'
  BY <1>1, <1>2, <1>4, <1>5 DEF ReportType
<1>11. IngestTypeOK'
  BY <1>1, <1>2, <1>5, <1>6, <1>10 DEF IngestTypeOK, Stage
<1>12. Cardinality(NonBlank) = Len(file) - report'.blank
  BY <1>2, <1>3, <1>5, <1>10
<1>13. CountInv'
  BY <1>1, <1>9, <1>12 DEF CountInv, Counted
<1> QED
  BY <1>1, <1>10, <1>11, <1>13 DEF IngestInv, SortedInv, NavInv, Sorted, Computed

(* No cell parses day-first only: the retry never parses more of them.     *)
LEMMA NeverDayFirst ==
    ASSUME NEW s \in Seq(Row)
    PROVE  Convention(s) = "month-first"
<1> DEFINE M == {i \in DOMAIN s : Day(s[i], "month-first") = NaT}
           D == {i \in DOMAIN s : Day(s[i], "day-first") = NaT}
<1>1. \A i \in DOMAIN s : Day(s[i], "month-first") = NaT <=> Day(s[i], "day-first") = NaT
  BY DEF Day, Written
<1>2. M = D
  BY <1>1
<1>3. M \in SUBSET DOMAIN s
  OBVIOUS
<1>4. Cardinality(M) \in Nat
  <2> HIDE DEF M
  <2>1. Len(s) \in Nat
    OBVIOUS
  <2>2. Cardinality(M) \in 0 .. Len(s)
    BY <1>3, RowsSplit
  <2> QED
    BY <2>1, <2>2
<1>5. Convention(s) = IF 5 * Cardinality(M) > Len(s) /\ Cardinality(D) < Cardinality(M)
                      THEN "day-first" ELSE "month-first"
  BY DEF Convention, Count
<1> HIDE DEF M, D
<1>6. ~(Cardinality(D) < Cardinality(M))
  BY <1>2, <1>4
<1> QED
  BY <1>5, <1>6

(* Reading the dates leaves the rows with a date, and counts the others.   *)
LEMMA ParseDatesKeepsInv == IngestInv /\ ParseDates => IngestInv'
<1> SUFFICES ASSUME IngestInv, ParseDates PROVE IngestInv'
  OBVIOUS
<1> DEFINE c == Convention(rows)
           B == {i \in DOMAIN rows : Day(rows[i], c) = NaT}
           K == {i \in DOMAIN rows : Day(rows[i], c) # NaT}
           D == {i \in NonBlank : Day(file[i], c) # NaT}
<1>1. /\ stage = "dates" /\ stage' = "sort" /\ UNCHANGED <<file, days, fundReturns>>
      /\ rows' = Kept(rows, K)
      /\ report' = [report EXCEPT !.bad = Cardinality(B), !.convention = c]
  BY DEF ParseDates, Goto, Unless, Count
<1>2. /\ IngestTypeOK /\ ReportType /\ Traces(rows, NonBlank)
      /\ Cardinality(NonBlank) = Len(file) - report.blank
  BY <1>1 DEF IngestInv, CountInv
<1>3. K = DOMAIN rows \ B /\ B \in SUBSET DOMAIN rows /\ K \in SUBSET DOMAIN rows
      /\ D \in SUBSET NonBlank
  OBVIOUS
<1>4. \A n \in DOMAIN rows, i \in NonBlank : rows[n] = file[i] => (n \in K <=> i \in D)
  OBVIOUS
<1>5. c = "month-first" /\ c \in {"none", "month-first", "day-first"}
  BY <1>2, NeverDayFirst DEF IngestTypeOK
<1> HIDE DEF B, K, c
<1>6. rows \in Seq(Row) /\ Len(rows) \in Nat /\ DOMAIN rows = 1 .. Len(rows) /\ Len(file) \in Nat
  BY <1>2, FileFacts
<1>7. Cardinality(B) \in 0 .. Len(rows) /\ Cardinality(K) = Len(rows) - Cardinality(B)
  BY <1>3, <1>6, RowsSplit
<1>8. rows' \in Seq(Row) /\ Len(rows') = Cardinality(K)
  BY <1>1, <1>3, <1>6, KeptRows
<1>9. Traces(rows', D)
  <2> HIDE DEF D
  <2> QED
    BY <1>1, <1>2, <1>3, <1>4, <1>6, KeptTraces
<1>10. Cardinality(NonBlank) = Len(rows) /\ Cardinality(D) = Len(rows')
  BY <1>2, <1>6, <1>8, <1>9, TracesCount
<1>11. /\ report'.blank = report.blank /\ report'.bad = Cardinality(B)
       /\ report'.filled = report.filled /\ report'.convention = c
       /\ report'.mode = report.mode
  BY <1>1, <1>2 DEF ReportType
<1>12. ReportType'
  <2> DEFINE b == Cardinality(B)
  <2>1. b \in Nat /\ report' = [report EXCEPT !.bad = b, !.convention = c]
    BY <1>1, <1>6, <1>7
  <2> HIDE DEF b
  <2> QED
    BY <1>2, <1>5, <2>1 DEF ReportType
<1>13. Dated' = D
  BY <1>1, <1>11 DEF Dated, NonBlank, RowDay
<1>14. Traces(rows, Dated)'
  BY <1>1, <1>9, <1>13 DEF Traces
<1>15. IngestTypeOK'
  <2>1. Cardinality(B) \in 0 .. Len(file) /\ Len(rows') =< Len(file)
    BY <1>2, <1>6, <1>7, <1>8 DEF IngestTypeOK
  <2>2. report'.convention \in {"none", "month-first", "day-first"}
    BY <1>5, <1>11
  <2> QED
    BY <1>1, <1>2, <1>8, <1>11, <2>1, <2>2 DEF IngestTypeOK, Stage
<1>16. Cardinality(Dated') = Len(file) - report'.blank - report'.bad
  <2>1. report.blank \in Nat
    BY <1>2 DEF ReportType
  <2> QED
    BY <1>2, <1>6, <1>7, <1>8, <1>10, <1>11, <1>13, <2>1
<1>17. CountInv'
  BY <1>1, <1>5, <1>11, <1>14, <1>16 DEF CountInv, Counted
<1> QED
  BY <1>1, <1>12, <1>15, <1>17 DEF IngestInv, SortedInv, NavInv, Sorted, Computed

(* Whichever row of a date comes last: one row of each date, in order.     *)
LEMMA SortKeepsInv == IngestInv /\ SortAndDropDuplicates => IngestInv'
<1> SUFFICES ASSUME IngestInv, SortAndDropDuplicates PROVE IngestInv'
  OBVIOUS
<1>1. PICK last \in SUBSET DOMAIN rows :
         /\ \A i \in DOMAIN rows : \E j \in last : DayOf(j) = DayOf(i)
         /\ rows' = ByDate(last)
  BY DEF SortAndDropDuplicates
<1>2. stage = "sort" /\ stage' = "mode" /\ UNCHANGED <<file, report, days, fundReturns>>
  BY DEF SortAndDropDuplicates, Goto
<1>3. /\ IngestTypeOK /\ ReportType /\ Traces(rows, Dated)
      /\ Cardinality(Dated) = Len(file) - report.blank - report.bad
  BY <1>2 DEF IngestInv, CountInv, Counted
<1>4. /\ rows \in Seq(Row) /\ Len(rows) \in Nat /\ DOMAIN rows = 1 .. Len(rows)
      /\ \A i \in DOMAIN rows : rows[i] \in Row /\ RowDay(rows[i]) \in Nat
      /\ Len(file) \in Nat /\ Len(rows) =< Len(file)
  BY <1>3, FileFacts DEF IngestTypeOK
<1>5. \A i : DayOf(i) = RowDay(rows[i])
  BY DEF DayOf, RowDay
<1> DEFINE D == {DayOf(i) : i \in last}
           dayOf == [i \in last |-> DayOf(i)]
           m == Cardinality(D)
           at(n) == CHOOSE i \in last : DayOf(i) = InOrder(D)[n]
<1>6. IsFiniteSet(D) /\ m \in Nat /\ m =< Len(rows) /\ D \in SUBSET Int
  <2>1. last \in SUBSET (1 .. Len(rows))
    BY <1>4
  <2>2. IsFiniteSet(last) /\ Cardinality(last) \in 0 .. Len(rows)
    BY <1>4, <2>1, PositionsSplit
  <2>3. dayOf \in [last -> D] /\ \A y \in D : \E x \in last : dayOf[x] = y
    OBVIOUS
  <2>4. D \in SUBSET Int
    BY <1>4, <1>5
  <2> HIDE DEF dayOf, D
  <2>5. IsFiniteSet(D) /\ Cardinality(D) \in Nat /\ Cardinality(D) =< Cardinality(last)
    BY <2>2, <2>3, ImageIsFinite
  <2> QED
    BY <1>4, <2>2, <2>4, <2>5
<1>7. \A i \in last : DayOf(i) \in D
  OBVIOUS
<1>8. \A d \in D : \E i \in last : DayOf(i) = d
  OBVIOUS
<1>9. ByDate(last) = [n \in DOMAIN InOrder(D) |-> rows[at(n)]]
  BY DEF ByDate
<1> HIDE DEF D
<1>10. /\ InOrder(D) \in Seq(D) /\ Len(InOrder(D)) = m
       /\ \A n \in 1 .. m : InOrder(D)[n] \in D
       /\ \A d \in D : \E n \in 1 .. m : InOrder(D)[n] = d
       /\ \A a, b \in 1 .. m : a < b => InOrder(D)[a] < InOrder(D)[b]
  BY <1>6, InOrderLists
<1>11. DOMAIN InOrder(D) = 1 .. m
  BY <1>10
<1>12. ASSUME NEW n \in 1 .. m
       PROVE  at(n) \in last /\ DayOf(at(n)) = InOrder(D)[n]
  <2>1. \E i \in last : DayOf(i) = InOrder(D)[n]
    BY <1>8, <1>10
  <2> QED
    BY <2>1
<1> HIDE DEF m, at
<1> DEFINE q == [n \in 1 .. m |-> rows[at(n)]]
<1>13. rows' = q
  BY <1>1, <1>9, <1>11
<1>14. \A n \in 1 .. m : at(n) \in DOMAIN rows /\ q[n] = rows[at(n)]
  BY <1>12
<1>15. q \in Seq(Row) /\ Len(q) = m /\ DOMAIN q = 1 .. m
  BY <1>4, <1>6, <1>14
<1>16. \A n \in 1 .. m : RowDay(q[n]) = InOrder(D)[n]
  BY <1>5, <1>12, <1>14
<1> HIDE DEF q
<1>17. Ordered(q)
  BY <1>10, <1>15, <1>16 DEF Ordered
<1>18. PICK idx \in [1 .. Len(rows) -> Dated] :
          /\ \A n \in 1 .. Len(rows) : rows[n] = file[idx[n]]
          /\ \A i \in Dated : \E n \in 1 .. Len(rows) : idx[n] = i
  BY <1>3 DEF Traces
<1>19. ASSUME NEW n \in DOMAIN q PROVE \E i \in Dated : q[n] = file[i]
  <2>1. at(n) \in 1 .. Len(rows) /\ q[n] = rows[at(n)]
    BY <1>4, <1>14, <1>15
  <2>2. idx[at(n)] \in Dated /\ q[n] = file[idx[at(n)]]
    BY <1>18, <2>1
  <2> QED
    BY <2>2
<1>20. ASSUME NEW i \in Dated PROVE \E n \in DOMAIN q : RowDay(q[n]) = RowDay(file[i])
  <2>1. PICK l \in 1 .. Len(rows) : rows[l] = file[i]
    BY <1>18
  <2>2. PICK j \in last : DayOf(j) = DayOf(l)
    BY <1>1, <1>4
  <2>3. PICK n \in 1 .. m : InOrder(D)[n] = DayOf(j)
    BY <1>7, <1>10
  <2> QED
    BY <1>5, <1>15, <1>16, <2>1, <2>2, <2>3
<1>21. FromFile(q, Dated) /\ AllDays(q, Dated)
  BY <1>19, <1>20 DEF FromFile, AllDays
<1>22. Dated' = Dated /\ (\A r : RowDay(r)' = RowDay(r'))
  BY <1>2 DEF Dated, NonBlank, RowDay
<1>23. Ordered(rows)' /\ FromFile(rows, Dated)' /\ AllDays(rows, Dated)'
  BY <1>2, <1>13, <1>17, <1>21, <1>22 DEF Ordered, FromFile, AllDays, RowDay
<1>24. ReportType'
  BY <1>2, <1>3 DEF ReportType
<1>25. IngestTypeOK'
  <2>1. rows' \in Seq(Row) /\ Len(rows') =< Len(file)
    BY <1>4, <1>6, <1>13, <1>15
  <2> QED
    BY <1>2, <1>3, <2>1 DEF IngestTypeOK, Stage
<1>26. CountInv'
  <2>1. report'.convention = "month-first"
    BY <1>2 DEF IngestInv, CountInv, Counted
  <2> QED
    BY <1>2, <1>3, <1>22, <2>1 DEF CountInv, Counted
<1> QED
  BY <1>2, <1>23, <1>24, <1>25, <1>26 DEF IngestInv, SortedInv, NavInv, Sorted, Computed

(* As long as the file and the convention stay, so does what they say.     *)
LEMMA ReadingStays ==
    ASSUME UNCHANGED file, report'.convention = report.convention
    PROVE  /\ NonBlank' = NonBlank /\ Dated' = Dated /\ SameDayTwice' = SameDayTwice
           /\ UNCHANGED rows => /\ Ordered(rows)' = Ordered(rows)
                                /\ FromFile(rows, Dated)' = FromFile(rows, Dated)
                                /\ AllDays(rows, Dated)' = AllDays(rows, Dated)
                                /\ DaysOf(rows)' = DaysOf(rows)
<1>1. NonBlank' = NonBlank /\ Dated' = Dated
  BY DEF NonBlank, Dated, RowDay
<1>2. SameDayTwice' = SameDayTwice
  BY DEF SameDayTwice
<1>3. ASSUME UNCHANGED rows
      PROVE  /\ Ordered(rows)' = Ordered(rows) /\ FromFile(rows, Dated)' = FromFile(rows, Dated)
             /\ AllDays(rows, Dated)' = AllDays(rows, Dated) /\ DaysOf(rows)' = DaysOf(rows)
  <2>1. Ordered(rows)' = Ordered(rows)
    BY <1>3 DEF Ordered, RowDay
  <2>2. FromFile(rows, Dated)' = FromFile(rows, Dated)
    BY <1>1, <1>3 DEF FromFile
  <2>3. AllDays(rows, Dated)' = AllDays(rows, Dated)
    BY <1>1, <1>3 DEF AllDays, RowDay
  <2>4. DaysOf(rows)' = DaysOf(rows)
    BY <1>3 DEF DaysOf
  <2> QED
    BY <2>1, <2>2, <2>3, <2>4
<1> QED
  BY <1>1, <1>2, <1>3

(* Detecting the mode touches no row.                                      *)
LEMMA DetectModeKeepsInv == IngestInv /\ DetectMode => IngestInv'
<1> SUFFICES ASSUME IngestInv, DetectMode PROVE IngestInv'
  OBVIOUS
<1>1. /\ stage = "mode" /\ stage' = Mode(rows) /\ UNCHANGED <<file, rows, days, fundReturns>>
      /\ report' = [report EXCEPT !.mode = Mode(rows)]
  BY DEF DetectMode, Goto
<1>2. Mode(rows) \in {"nav", "returns"}
  BY DEF Mode
<1>3. /\ IngestTypeOK /\ ReportType
      /\ Cardinality(Dated) = Len(file) - report.blank - report.bad
      /\ Ordered(rows) /\ FromFile(rows, Dated) /\ AllDays(rows, Dated)
  BY <1>1 DEF IngestInv, CountInv, SortedInv, Counted, Sorted
<1>4. /\ report'.blank = report.blank /\ report'.bad = report.bad
      /\ report'.filled = report.filled /\ report'.convention = report.convention
      /\ report'.mode = Mode(rows) /\ ReportType'
  BY <1>1, <1>2, <1>3 DEF ReportType
<1>5. /\ Dated' = Dated
      /\ Ordered(rows)' /\ FromFile(rows, Dated)' /\ AllDays(rows, Dated)'
  BY <1>1, <1>3, <1>4, ReadingStays
<1>6. IngestTypeOK'
  BY <1>1, <1>2, <1>3, <1>4 DEF IngestTypeOK, Stage
<1>7. CountInv'
  <2>1. report'.convention = "month-first"
    BY <1>1, <1>4 DEF IngestInv, CountInv, Counted
  <2> QED
    BY <1>1, <1>2, <1>3, <1>4, <1>5, <2>1 DEF CountInv, Counted
<1>8. SortedInv' /\ NavInv'
  BY <1>1, <1>2, <1>4, <1>5 DEF SortedInv, NavInv, Sorted, Computed
<1> QED
  BY <1>4, <1>6, <1>7, <1>8 DEF IngestInv

(* A file that is refused has no series.                                   *)
LEMMA RefusePricesKeepsInv == IngestInv /\ RefusePrices => IngestInv'
<1> SUFFICES ASSUME IngestInv, RefusePrices PROVE IngestInv'
  OBVIOUS
<1>1. stage' = "refused" /\ UNCHANGED <<file, rows, report, days, fundReturns>>
  BY DEF RefusePrices, Goto
<1> QED
  BY <1>1 DEF IngestInv, IngestTypeOK, ReportType, Stage, CountInv, SortedInv, NavInv,
              Counted, Sorted, Computed

(* The series of a file of returns is that of its rows, blanks as 0.       *)
LEMMA FillReturnsKeepsInv == IngestInv /\ FillReturns => IngestInv'
<1> SUFFICES ASSUME IngestInv, FillReturns PROVE IngestInv'
  OBVIOUS
<1> DEFINE filled == 2 * Len(rows) - Cardinality(Cells(rows))
           series == [f \in Fund |-> [i \in DOMAIN rows |-> Filled(rows[i][f])]]
<1>1. /\ stage = "returns" /\ stage' = "gate" /\ UNCHANGED <<file, rows>>
      /\ report' = [report EXCEPT !.filled = filled]
      /\ days' = DaysOf(rows) /\ fundReturns' = series
  BY DEF FillReturns, Goto
<1>2. /\ IngestTypeOK /\ ReportType /\ report.mode = "returns"
      /\ Cardinality(Dated) = Len(file) - report.blank - report.bad
      /\ Ordered(rows) /\ FromFile(rows, Dated) /\ AllDays(rows, Dated)
  BY <1>1 DEF IngestInv, CountInv, SortedInv, Counted, Sorted
<1>3. /\ rows \in Seq(Row) /\ Len(rows) \in Nat /\ DOMAIN rows = 1 .. Len(rows)
      /\ \A i \in 1 .. Len(rows) : rows[i] \in Row /\ RowDay(rows[i]) \in Nat
      /\ Len(file) \in Nat /\ Len(rows) =< Len(file)
  BY <1>2, FileFacts DEF IngestTypeOK
<1>4. filled \in 0 .. 2 * Len(file)
  <2> DEFINE P == (DOMAIN rows) \X Fund
             r == Cardinality(Cells(rows))
  <2>1. IsFiniteSet(1 .. Len(rows)) /\ Cardinality(1 .. Len(rows)) = Len(rows)
    BY <1>3, IntervalSize
  <2>2. IsFiniteSet(Fund) /\ Cardinality(Fund) = 2
    <3>1. IsFiniteSet({"a"}) /\ Cardinality({"a"}) = 1
      BY FS_Singleton
    <3>2. /\ IsFiniteSet({"a"} \cup {"b"})
          /\ Cardinality({"a"} \cup {"b"}) = Cardinality({"a"}) + 1
      BY <3>1, FS_AddElement
    <3>3. Fund = {"a"} \cup {"b"}
      BY DEF Fund
    <3> QED
      BY <3>1, <3>2, <3>3
  <2>3. IsFiniteSet(P) /\ Cardinality(P) = Len(rows) * 2
    <3>1. IsFiniteSet(DOMAIN rows) /\ Cardinality(DOMAIN rows) = Len(rows)
      BY <1>3, <2>1
    <3>2. IsFiniteSet(P) /\ Cardinality(P) = Cardinality(DOMAIN rows) * Cardinality(Fund)
      BY ONLY <2>2, <3>1, FS_Product
    <3> QED
      BY <2>2, <3>1, <3>2
  <2>4. Cells(rows) \in SUBSET P
    BY DEF Cells
  <2> HIDE DEF P
  <2>5. IsFiniteSet(Cells(rows)) /\ r =< Len(rows) * 2
    BY <2>3, <2>4, FS_Subset
  <2>6. r \in Nat
    BY <2>5, FS_CardinalityType
  <2>7. filled = 2 * Len(rows) - r
    OBVIOUS
  <2> HIDE DEF r, filled
  <2> QED
    BY <1>3, <2>5, <2>6, <2>7
<1> HIDE DEF filled
<1>5. ASSUME NEW i \in 1 .. Len(rows) PROVE RowDay(rows[i]) \in Nat \ {NaT}
  <2>1. PICK j \in Dated : rows[i] = file[j]
    BY <1>2, <1>3 DEF FromFile
  <2> QED
    BY <1>3, <2>1 DEF Dated
<1>6. DaysOf(rows) = [i \in 1 .. Len(rows) |-> RowDay(rows[i])]
  BY <1>3 DEF DaysOf, RowDay
<1>7. DaysOf(rows) \in Seq(Nat \ {NaT}) /\ Len(DaysOf(rows)) = Len(rows)
  BY <1>3, <1>5, <1>6
<1>8. ASSUME NEW f \in Fund PROVE series[f] \in Seq(Int) /\ Len(series[f]) = Len(rows)
  <2>1. ASSUME NEW i \in 1 .. Len(rows) PROVE Filled(rows[i][f]) \in Int
    <3>1. rows[i].a \in Number /\ rows[i].b \in Number
      BY <1>3 DEF Row
    <3>2. rows[i][f] \in Number
      BY <3>1 DEF Fund
    <3> QED
      BY <3>2 DEF Filled, Number
  <2>2. series[f] = [i \in 1 .. Len(rows) |-> Filled(rows[i][f])]
    BY <1>3
  <2> HIDE DEF series
  <2> QED
    BY <1>3, <2>1, <2>2
<1>9. series = [f \in Fund |-> series[f]]
  OBVIOUS
<1>10. /\ report'.blank = report.blank /\ report'.bad = report.bad /\ report'.filled = filled
       /\ report'.convention = report.convention /\ report'.mode = "returns" /\ ReportType'
  <2>1. filled \in Nat
    BY <1>3, <1>4
  <2> QED
    BY <1>1, <1>2, <2>1 DEF ReportType
<1>11. /\ Dated' = Dated /\ DaysOf(rows)' = DaysOf(rows)
       /\ Ordered(rows)' /\ FromFile(rows, Dated)' /\ AllDays(rows, Dated)'
  BY <1>1, <1>2, <1>10, ReadingStays
<1>12. series' = series
  BY <1>1
<1>13. SortedInv'
  <2>1. days' = DaysOf(rows)' /\ fundReturns' = series'
    BY <1>1, <1>11, <1>12
  <2> QED
    BY <1>1, <1>11, <2>1 DEF SortedInv
<1> HIDE DEF series
<1>14. IngestTypeOK'
  <2>1. fundReturns' \in [Fund -> Seq(Int)] /\ \A f \in Fund : Len(fundReturns'[f]) = Len(days')
    BY <1>1, <1>7, <1>8, <1>9
  <2> QED
    BY <1>1, <1>2, <1>4, <1>7, <1>10, <2>1 DEF IngestTypeOK, Stage
<1>15. CountInv'
  <2>1. report'.convention = "month-first"
    BY <1>1, <1>10 DEF IngestInv, CountInv, Counted
  <2> QED
    BY <1>1, <1>2, <1>10, <1>11, <2>1 DEF CountInv, Counted
<1>16. NavInv'
  BY <1>1, <1>10 DEF NavInv, Computed
<1> QED
  BY <1>10, <1>13, <1>14, <1>15, <1>16 DEF IngestInv

(* Only a series of MinObs observations is loaded.                         *)
LEMMA GateKeepsInv == IngestInv /\ Gate => IngestInv'
<1> SUFFICES ASSUME IngestInv, Gate PROVE IngestInv'
  OBVIOUS
<1>1. /\ stage = "gate" /\ UNCHANGED <<file, rows, report, days, fundReturns>>
      /\ stage' \in {"refused", "loaded"}
      /\ stage' = "loaded" => ~(Len(days) < MinObs)
  BY DEF Gate, Goto
<1>2. days \in Seq(Nat \ {NaT}) /\ Len(days) \in Nat
  BY DEF IngestInv, IngestTypeOK
<1>3. stage' = "loaded" => Len(days') >= MinObs
  BY <1>1, <1>2, IngestAssumption
<1>4. IngestTypeOK' /\ ReportType'
  BY <1>1 DEF IngestInv, IngestTypeOK, ReportType, Stage
<1>5. /\ Dated' = Dated /\ DaysOf(rows)' = DaysOf(rows) /\ SameDayTwice' = SameDayTwice
      /\ Ordered(rows)' = Ordered(rows) /\ FromFile(rows, Dated)' = FromFile(rows, Dated)
      /\ AllDays(rows, Dated)' = AllDays(rows, Dated)
  BY <1>1, ReadingStays
<1>6. Usable' = Usable /\ FromFile(rows, Usable)' = FromFile(rows, Usable)
      /\ Differences(rows)' = Differences(rows) /\ (\A r : RowDay(r)' = RowDay(r'))
  BY <1>1 DEF Usable, FromFile, Differences, RowDay
<1>7. CountInv'
  BY <1>1, <1>5 DEF IngestInv, CountInv, Counted
<1>8. SortedInv'
  BY <1>1, <1>5 DEF IngestInv, SortedInv, Sorted, Computed
<1>9. NavInv'
  BY <1>1, <1>3, <1>5, <1>6 DEF IngestInv, NavInv, Computed, RowDay
<1> QED
  BY <1>4, <1>7, <1>8, <1>9 DEF IngestInv

(* The invariant is about the variables of Ingest only.                    *)
LEMMA StutterKeepsIngestInv == IngestInv /\ UNCHANGED ivars => IngestInv'
<1> SUFFICES ASSUME IngestInv, UNCHANGED ivars PROVE IngestInv'
  OBVIOUS
<1>1. UNCHANGED <<stage, file, rows, report, days, fundReturns>>
  BY DEF ivars
<1>2. IngestTypeOK' /\ ReportType'
  BY <1>1 DEF IngestInv, IngestTypeOK, ReportType
<1>3. /\ NonBlank' = NonBlank /\ Dated' = Dated /\ DaysOf(rows)' = DaysOf(rows)
      /\ SameDayTwice' = SameDayTwice
      /\ Ordered(rows)' = Ordered(rows) /\ FromFile(rows, Dated)' = FromFile(rows, Dated)
      /\ AllDays(rows, Dated)' = AllDays(rows, Dated)
  BY <1>1, ReadingStays
<1>4. /\ Usable' = Usable /\ FromFile(rows, Usable)' = FromFile(rows, Usable)
      /\ Differences(rows)' = Differences(rows)
      /\ Traces(rows, NonBlank)' = Traces(rows, NonBlank)
      /\ Traces(rows, Dated)' = Traces(rows, Dated)
  BY <1>1, <1>3 DEF Usable, FromFile, Differences, Traces
<1>5. CountInv'
  BY <1>1, <1>3, <1>4 DEF IngestInv, CountInv, Counted, EmptyReport
<1>6. SortedInv'
  BY <1>1, <1>3 DEF IngestInv, SortedInv, Sorted, Computed
<1>7. NavInv'
  BY <1>1, <1>3, <1>4 DEF IngestInv, NavInv, Computed, RowDay
<1> QED
  BY <1>2, <1>5, <1>6, <1>7 DEF IngestInv

(* The series of a file of prices is that of its rows without a gap.       *)
LEMMA DifferenceKeepsInv == IngestInv /\ Difference => IngestInv'
<1> SUFFICES ASSUME IngestInv, Difference PROVE IngestInv'
  OBVIOUS
<1> DEFINE K == {i \in DOMAIN rows : ~HasGap(rows[i])}
           q == Kept(rows, K)
           later == IF q = << >> THEN << >> ELSE Tail(q)
<1>1. /\ stage = "nav" /\ stage' = "gate" /\ UNCHANGED <<file, report>>
      /\ rows' = q /\ days' = DaysOf(later)
      /\ fundReturns' = [f \in Fund |-> [i \in DOMAIN later |-> later[i][f] - q[i][f]]]
  BY DEF Difference, Goto, Unless
<1>2. /\ IngestTypeOK /\ ReportType /\ report.mode = "nav"
      /\ Cardinality(Dated) = Len(file) - report.blank - report.bad
      /\ Ordered(rows) /\ FromFile(rows, Dated) /\ AllDays(rows, Dated)
  BY <1>1 DEF IngestInv, CountInv, SortedInv, Counted, Sorted
<1>3. /\ rows \in Seq(Row) /\ Len(rows) \in Nat /\ DOMAIN rows = 1 .. Len(rows)
      /\ \A i \in 1 .. Len(rows) : rows[i] \in Row /\ RowDay(rows[i]) \in Nat
      /\ Len(file) \in Nat /\ Len(rows) =< Len(file)
  BY <1>2, FileFacts DEF IngestTypeOK
<1>4. K \in SUBSET (1 .. Len(rows)) /\ (\A i \in K : ~HasGap(rows[i]))
  BY <1>3
<1>5. ASSUME NEW i \in 1 .. Len(rows), ~HasGap(rows[i]) PROVE i \in K
  BY <1>3, <1>5
<1> DEFINE m == Cardinality(K)
           o == InOrder(K)
<1>6. /\ q \in Seq(Row) /\ Len(q) = m /\ m \in 0 .. Len(rows)
      /\ \A n \in 1 .. m : o[n] \in K /\ q[n] = rows[o[n]]
      /\ \A i \in K : \E n \in 1 .. m : o[n] = i
      /\ \A a, b \in 1 .. m : a < b => o[a] < o[b]
  <2>1. K \in SUBSET DOMAIN rows
    OBVIOUS
  <2> HIDE DEF K
  <2>2. /\ Kept(rows, K) \in Seq(Row)
        /\ Len(Kept(rows, K)) = Cardinality(K) /\ Cardinality(K) \in 0 .. Len(rows)
        /\ \A n \in 1 .. Cardinality(K) :
              InOrder(K)[n] \in K /\ Kept(rows, K)[n] = rows[InOrder(K)[n]]
        /\ \A i \in K : \E n \in 1 .. Cardinality(K) : InOrder(K)[n] = i
        /\ \A a, b \in 1 .. Cardinality(K) : a < b => InOrder(K)[a] < InOrder(K)[b]
    BY ONLY <1>3, <2>1, KeptRows
  <2> QED
    BY ONLY <2>2
<1> HIDE DEF K, m, o, q
<1>7. DOMAIN q = 1 .. m /\ m \in Nat
  BY <1>6
<1>8. \A n \in 1 .. m : o[n] \in 1 .. Len(rows) /\ ~HasGap(q[n]) /\ q[n] \in Row
  <2>1. \A i \in K : i \in 1 .. Len(rows) /\ ~HasGap(rows[i])
    BY <1>4
  <2>2. \A n \in 1 .. m : o[n] \in 1 .. Len(rows) /\ ~HasGap(rows[o[n]])
    BY <1>6, <2>1
  <2>3. \A n \in 1 .. m : q[n] \in Row
    BY <1>3, <1>6, <2>2
  <2> QED
    BY <1>6, <2>2, <2>3
<1>9. ASSUME NEW n \in 1 .. m PROVE \E i \in Usable : q[n] = file[i]
  <2>1. PICK i \in Dated : rows[o[n]] = file[i]
    BY <1>2, <1>3, <1>8 DEF FromFile
  <2>2. q[n] = file[i] /\ ~HasGap(file[i])
    BY <1>6, <1>8, <2>1
  <2>3. i \in Usable
    BY <2>2 DEF Dated, NonBlank, RowDay, Usable
  <2> QED
    BY <2>2, <2>3
<1>10. FromFile(q, Usable)
  BY <1>7, <1>9 DEF FromFile
<1>11. ASSUME NEW a \in 1 .. m, NEW b \in 1 .. m, a < b PROVE RowDay(q[a]) < RowDay(q[b])
  <2>1. o[a] \in DOMAIN rows /\ o[b] \in DOMAIN rows /\ o[a] < o[b]
    BY <1>3, <1>6, <1>8, <1>11
  <2>2. RowDay(rows[o[a]]) < RowDay(rows[o[b]])
    BY <1>2, <2>1 DEF Ordered
  <2> QED
    BY <1>6, <2>2
<1>12. Ordered(q)
  BY <1>7, <1>11 DEF Ordered
<1>13. ASSUME ~SameDayTwice, NEW i \in Usable PROVE \E n \in DOMAIN q : q[n] = file[i]
  <2>1. i \in Dated /\ ~HasGap(file[i])
    BY <1>2 DEF Usable, Dated, NonBlank, RowDay
  <2>2. PICK l \in 1 .. Len(rows) : RowDay(rows[l]) = RowDay(file[i])
    BY <1>2, <1>3, <2>1 DEF AllDays
  <2>3. PICK j \in Dated : rows[l] = file[j]
    BY <1>2, <1>3 DEF FromFile
  <2>4. i = j
    BY <1>13, <2>1, <2>2, <2>3 DEF SameDayTwice, Dated, NonBlank, RowDay
  <2>5. l \in K
    BY <1>5, <2>1, <2>3, <2>4
  <2>6. PICK n \in 1 .. m : o[n] = l
    BY <1>6, <2>5
  <2> QED
    BY <1>6, <1>7, <2>3, <2>4, <2>6
<1>14. /\ DOMAIN later = 1 .. m - 1
       /\ \A n \in 1 .. m - 1 : later[n] = q[n + 1] /\ n \in 1 .. m /\ n + 1 \in 1 .. m
  <2>1. CASE q = << >>
    <3>1. m = 0 /\ later = << >>
      BY <1>6, <2>1
    <3> QED
      BY <3>1
  <2>2. CASE q # << >>
    BY <1>6, <1>7, <2>2
  <2> QED
    BY <2>1, <2>2
<1> HIDE DEF later
<1>15. days' = [n \in 1 .. m - 1 |-> RowDay(q[n + 1])]
  BY <1>1, <1>14 DEF DaysOf, RowDay
<1>16. fundReturns' = Differences(q)
  BY <1>1, <1>6, <1>14 DEF Differences
<1> DEFINE k == IF m = 0 THEN 0 ELSE m - 1
<1>17. k \in Nat /\ 1 .. m - 1 = 1 .. k
  BY <1>7
<1>18. days' \in Seq(Nat \ {NaT}) /\ Len(days') = k
  <2>1. ASSUME NEW n \in 1 .. m PROVE RowDay(q[n]) \in Nat \ {NaT}
    <3>1. PICK i \in Usable : q[n] = file[i]
      BY <1>9
    <3>2. RowDay(q[n]) # NaT
      BY <3>1 DEF Usable, RowDay
    <3>3. RowDay(q[n]) \in Nat
      BY <1>3, <1>6, <1>8
    <3> QED
      BY <3>2, <3>3
  <2>2. days' = [n \in 1 .. k |-> RowDay(q[n + 1])]
    BY <1>15, <1>17
  <2>3. \A n \in 1 .. k : RowDay(q[n + 1]) \in Nat \ {NaT}
    BY <1>14, <1>17, <2>1
  <2> HIDE DEF k
  <2> QED
    BY <1>17, <2>2, <2>3
<1>19. ASSUME NEW f \in Fund
       PROVE  Differences(q)[f] \in Seq(Int) /\ Len(Differences(q)[f]) = k
  <2>1. ASSUME NEW n \in 1 .. m PROVE q[n][f] \in Int
    <3>1. q[n].a \in Number /\ q[n].b \in Number /\ q[n].a # Blank /\ q[n].b # Blank
      BY <1>8 DEF Row, HasGap
    <3> QED
      BY <3>1 DEF Fund, Number
  <2>2. Differences(q)[f] = [n \in 1 .. k |-> q[n + 1][f] - q[n][f]]
    BY <1>6, <1>17 DEF Differences
  <2>3. \A n \in 1 .. k : q[n + 1][f] \in Int /\ q[n][f] \in Int
    BY <1>14, <1>17, <2>1
  <2>4. \A n \in 1 .. k : q[n + 1][f] - q[n][f] \in Int
    BY <2>3
  <2> HIDE DEF k
  <2> QED
    BY <1>17, <2>2, <2>4
<1> HIDE DEF k
<1>20. Dated' = Dated /\ SameDayTwice' = SameDayTwice /\ Usable' = Usable
  BY <1>1, ReadingStays DEF Usable
<1>21. ReportType'
  BY <1>1, <1>2 DEF ReportType
<1>22. IngestTypeOK'
  <2>1. rows' \in Seq(Row) /\ Len(rows') =< Len(file)
    BY <1>1, <1>3, <1>6
  <2>2. fundReturns' \in [Fund -> Seq(Int)] /\ \A f \in Fund : Len(fundReturns'[f]) = Len(days')
    <3>1. Differences(q) = [f \in Fund |-> Differences(q)[f]]
      BY DEF Differences
    <3> QED
      BY <1>16, <1>18, <1>19, <3>1
  <2> QED
    BY <1>1, <1>2, <1>18, <2>1, <2>2 DEF IngestTypeOK, Stage
<1>23. CountInv'
  <2>1. report'.convention = "month-first"
    BY <1>1 DEF IngestInv, CountInv, Counted
  <2> QED
    BY <1>1, <1>2, <1>20, <2>1 DEF CountInv, Counted
<1>24. SortedInv'
  BY <1>1, <1>2 DEF SortedInv, Sorted, Computed
<1>25. Ordered(rows)' /\ FromFile(rows, Usable)'
  BY <1>1, <1>10, <1>12, <1>20 DEF Ordered, FromFile, RowDay
<1>26. (~SameDayTwice)' => (\A i \in Usable : \E n \in DOMAIN rows : rows[n] = file[i])'
  BY <1>1, <1>13, <1>20
<1>27. (days = [n \in 1 .. Len(rows) - 1 |-> RowDay(rows[n + 1])])'
  BY <1>1, <1>6, <1>15 DEF RowDay
<1>28. (fundReturns = Differences(rows))'
  BY <1>1, <1>16 DEF Differences
<1>29. NavInv'
  BY <1>1, <1>2, <1>25, <1>26, <1>27, <1>28 DEF NavInv, Computed
<1> QED
  BY <1>21, <1>22, <1>23, <1>24, <1>29 DEF IngestInv

----------------------------------------------------------------------------
(* Every step keeps the invariant.                                         *)
LEMMA IngestStep == IngestInv /\ [IngestNext]_ivars => IngestInv'
BY DropBlanksKeepsInv, ParseDatesKeepsInv, SortKeepsInv, DetectModeKeepsInv,
   RefusePricesKeepsInv, DifferenceKeepsInv, FillReturnsKeepsInv, GateKeepsInv,
   StutterKeepsIngestInv DEF IngestNext

(* The invariant holds in every reachable state.                           *)
LEMMA IngestInvariance == IngestSpec => []IngestInv
BY IngestInitInv, IngestStep, PTL DEF IngestSpec

(* What is loaded: rows of the file in ascending order of their days, each *)
(* of a row that is usable; of returns one of each day, and of prices too  *)
(* if the file names none twice.                                           *)
LEMMA LoadedRows ==
    ASSUME IngestInv, Loaded
    PROVE  /\ report.mode \in {"nav", "returns"}
           /\ Len(rows) \in Nat /\ DOMAIN rows = 1 .. Len(rows)
           /\ \A n \in 1 .. Len(rows) : RowDay(rows[n]) \in UsableDays
           /\ \A n \in 1 .. Len(rows) : \E i \in Usable : rows[n] = file[i]
           /\ \A a, b \in 1 .. Len(rows) : a < b => RowDay(rows[a]) < RowDay(rows[b])
           /\ UsableDays \in SUBSET Int /\ IsFiniteSet(UsableDays)
           /\ report.mode = "returns" \/ ~SameDayTwice =>
                 \A d \in UsableDays : \E n \in 1 .. Len(rows) : RowDay(rows[n]) = d
<1>1. /\ IngestTypeOK /\ ReportType /\ SortedInv /\ NavInv /\ stage = "loaded" /\ Computed
      /\ report.mode \in {"nav", "returns"}
  BY DEF IngestInv, Loaded, NavInv, Computed
<1>2. /\ Len(rows) \in Nat /\ DOMAIN rows = 1 .. Len(rows)
      /\ Len(file) \in Nat /\ DOMAIN file = 1 .. Len(file)
      /\ \A i \in DOMAIN file : RowDay(file[i]) \in Nat
  BY <1>1, FileFacts
<1>3. report.mode = "returns" => Usable = Dated
  BY DEF Usable, Dated, NonBlank, RowDay
<1>4. /\ Ordered(rows) /\ FromFile(rows, Usable)
      /\ report.mode = "returns" => AllDays(rows, Usable)
      /\ report.mode = "nav" /\ ~SameDayTwice => \A i \in Usable : \E n \in DOMAIN rows : rows[n] = file[i]
  <2>1. CASE report.mode = "returns"
    BY <1>1, <1>3, <2>1 DEF SortedInv, Sorted
  <2>2. CASE report.mode = "nav"
    BY <1>1, <2>2 DEF NavInv
  <2> QED
    BY <1>1, <2>1, <2>2
<1>5. UsableDays = {RowDay(file[i]) : i \in Usable}
  BY DEF UsableDays, RowDay
<1>6. Usable \in SUBSET (1 .. Len(file))
  BY <1>2 DEF Usable
<1>7. UsableDays \in SUBSET Int
  BY <1>2, <1>5, <1>6
<1>8. IsFiniteSet(UsableDays)
  <2> DEFINE D == {RowDay(file[i]) : i \in Usable}
             dayOf == [i \in Usable |-> RowDay(file[i])]
  <2>1. dayOf \in [Usable -> D] /\ \A d \in D : \E i \in Usable : dayOf[i] = d
    OBVIOUS
  <2>2. IsFiniteSet(Usable)
    BY <1>2, <1>6, PositionsSplit
  <2> HIDE DEF D, dayOf
  <2>3. IsFiniteSet(D)
    BY <2>1, <2>2, ImageIsFinite
  <2> QED
    BY <1>5, <2>3 DEF D
<1>9. \A n \in 1 .. Len(rows) : \E i \in Usable : rows[n] = file[i]
  BY <1>2, <1>4 DEF FromFile
<1>10. \A n \in 1 .. Len(rows) : RowDay(rows[n]) \in UsableDays
  BY <1>5, <1>9
<1>11. \A a, b \in 1 .. Len(rows) : a < b => RowDay(rows[a]) < RowDay(rows[b])
  BY <1>2, <1>4 DEF Ordered
<1>12. ASSUME report.mode = "returns" \/ ~SameDayTwice, NEW d \in UsableDays
       PROVE  \E n \in 1 .. Len(rows) : RowDay(rows[n]) = d
  <2>1. PICK i \in Usable : d = RowDay(file[i])
    BY <1>5
  <2>2. CASE report.mode = "returns"
    BY <1>2, <1>4, <2>1, <2>2 DEF AllDays
  <2>3. CASE report.mode # "returns"
    <3>1. PICK n \in DOMAIN rows : rows[n] = file[i]
      BY <1>1, <1>4, <1>12, <2>3
    <3> QED
      BY <1>2, <2>1, <3>1
  <2> QED
    BY <2>2, <2>3
<1> QED
  BY <1>1, <1>2, <1>7, <1>8, <1>9, <1>10, <1>11, <1>12

(* If they are all of the usable days, these days in order.                *)
LEMMA LoadedDays ==
    ASSUME IngestInv, Loaded, report.mode = "returns" \/ ~SameDayTwice
    PROVE  /\ Cardinality(UsableDays) = Len(rows)
           /\ InOrder(UsableDays) = [n \in 1 .. Len(rows) |-> RowDay(rows[n])]
<1> DEFINE q == [n \in 1 .. Len(rows) |-> RowDay(rows[n])]
<1>1. Len(rows) \in Nat /\ UsableDays \in SUBSET Int
  BY LoadedRows
<1>2. q \in [1 .. Len(rows) -> UsableDays]
  BY LoadedRows
<1>3. \A a, b \in 1 .. Len(rows) : a < b => q[a] < q[b]
  BY LoadedRows
<1>4. \A d \in UsableDays : \E n \in 1 .. Len(rows) : q[n] = d
  BY LoadedRows
<1> HIDE DEF q
<1>5. Cardinality(UsableDays) = Len(rows) /\ InOrder(UsableDays) = q
  BY <1>1, <1>2, <1>3, <1>4, AscendingIsInOrder
<1> QED
  BY <1>5 DEF q

(* The counts of the invariant are those of the report.                    *)
LEMMA InvAccounts == IngestInv => RowsAreAccountedFor
<1> SUFFICES ASSUME IngestInv, Loaded PROVE RowsAreAccountedFor
  BY DEF RowsAreAccountedFor
<1>1. /\ IngestTypeOK /\ CountInv /\ SortedInv /\ NavInv /\ stage = "loaded"
      /\ Computed /\ Counted
  BY DEF IngestInv, Loaded, Computed, Counted
<1>2. Dated = {i \in DOMAIN file :
                  /\ ~IsBlankRow(file[i])
                  /\ Day(file[i], report.convention) # NaT}
  BY DEF Dated, NonBlank, RowDay
<1>3. Len(file) - report.blank - report.bad = Cardinality(Dated)
  BY <1>1 DEF CountInv
<1>4. Len(rows) \in Nat /\ DOMAIN rows = 1 .. Len(rows)
  BY LoadedRows
<1>5. ASSUME report.mode = "returns" PROVE Len(days) = Cardinality(UsableDays)
  <2>1. days = [i \in 1 .. Len(rows) |-> Day(rows[i], report.convention)]
    BY <1>1, <1>4, <1>5 DEF SortedInv, DaysOf
  <2>2. Len(days) = Len(rows)
    BY <1>4, <2>1
  <2> QED
    BY <1>5, <2>2, LoadedDays
<1>6. ASSUME report.mode = "nav" PROVE Len(days) =< Cardinality(UsableDays) - 1
  <2> DEFINE n == Len(rows)
             q == [i \in 1 .. n |-> RowDay(rows[i])]
             S == {RowDay(rows[i]) : i \in 1 .. n}
  <2>1. days = [i \in 1 .. n - 1 |-> RowDay(rows[i + 1])] /\ Len(days) >= MinObs
    BY <1>1, <1>6 DEF NavInv
  <2>2. MinObs \in Nat /\ MinObs >= 1 /\ Len(days) \in Nat
    BY <1>1, IngestAssumption DEF IngestTypeOK
  <2>3. n \in Nat /\ Len(days) = n - 1
    <3>1. CASE n = 0
      <4>1. days = << >>
        BY <2>1, <3>1
      <4>2. Len(days) = 0
        BY <4>1
      <4>3. Len(days) >= MinObs
        BY <2>1
      <4> HIDE DEF n
      <4> QED
        BY <2>2, <4>2, <4>3
    <3>2. CASE n # 0
      <4>1. n - 1 \in Nat
        BY <1>4, <3>2
      <4>2. DOMAIN days = 1 .. n - 1
        BY <2>1
      <4>3. DOMAIN days = 1 .. Len(days)
        BY <1>1 DEF IngestTypeOK
      <4> HIDE DEF n
      <4>4. Len(days) = n - 1
        BY <2>2, <4>1, <4>2, <4>3
      <4> QED
        BY <1>4, <4>4 DEF n
    <3> QED
      BY <3>1, <3>2, <1>4
  <2>4. /\ UsableDays \in SUBSET Int /\ IsFiniteSet(UsableDays)
        /\ \A i \in 1 .. n : RowDay(rows[i]) \in UsableDays
        /\ \A a, b \in 1 .. n : a < b => RowDay(rows[a]) < RowDay(rows[b])
    BY LoadedRows
  <2>5. S \in SUBSET UsableDays /\ S \in SUBSET Int
    BY <2>4
  <2>6. /\ q \in [1 .. n -> S] /\ \A a, b \in 1 .. n : a < b => q[a] < q[b]
        /\ \A d \in S : \E i \in 1 .. n : q[i] = d
    BY <2>4
  <2> HIDE DEF S, q, n
  <2>7. Cardinality(S) = n
    BY <2>3, <2>5, <2>6, AscendingIsInOrder
  <2>8. Cardinality(S) =< Cardinality(UsableDays) /\ Cardinality(UsableDays) \in Nat
    BY <2>4, <2>5, FS_Subset, FS_CardinalityType
  <2> QED
    BY <2>3, <2>7, <2>8
<1> QED
  BY <1>2, <1>3, <1>5, <1>6 DEF RowsAreAccountedFor

(* As the dates were read, the rows of the invariant are those of the      *)
(* table.                                                                  *)
Source(d) == CHOOSE i \in Usable : Day(file[i], report.convention) = d

LoadedAsRead ==
    LET sorted == InOrder(UsableDays)
        Cell(d, f) == file[Source(d)][f]
    IN  IF report.mode = "nav"
        THEN /\ days = Tail(sorted)
             /\ \A i \in DOMAIN days, f \in Fund :
                   fundReturns[f][i] =
                      Cell(sorted[i + 1], f) - Cell(sorted[i], f)
        ELSE /\ days = sorted
             /\ \A i \in DOMAIN days, f \in Fund :
                   fundReturns[f][i] = Filled(Cell(days[i], f))

LEMMA InvMatchesRead ==
    ASSUME IngestInv, Loaded, ~SameDayTwice
    PROVE  LoadedAsRead
<1>1. IngestTypeOK /\ SortedInv /\ NavInv /\ stage = "loaded" /\ Computed
  BY DEF IngestInv, Loaded, Computed
<1> DEFINE m == Len(rows)
           sorted == InOrder(UsableDays)
           Cell(d, f) == file[Source(d)][f]
<1>2. /\ report.mode \in {"nav", "returns"} /\ m \in Nat /\ DOMAIN rows = 1 .. m
      /\ \A n \in 1 .. m : \E i \in Usable : rows[n] = file[i]
  BY LoadedRows
<1>3. sorted = [n \in 1 .. m |-> RowDay(rows[n])]
  BY LoadedDays
<1>4. ASSUME NEW n \in 1 .. m PROVE file[Source(sorted[n])] = rows[n]
  <2>1. PICK j \in Usable : rows[n] = file[j]
    BY <1>2
  <2>2. sorted[n] = Day(file[j], report.convention)
    BY <1>3, <2>1 DEF RowDay
  <2>3. /\ Source(sorted[n]) \in Usable
        /\ Day(file[Source(sorted[n])], report.convention) = sorted[n]
    BY <2>2 DEF Source
  <2>4. Source(sorted[n]) = j
    BY <2>2, <2>3 DEF SameDayTwice, Usable
  <2> QED
    BY <2>1, <2>4
<1> HIDE DEF sorted, m
<1>5. CASE report.mode = "nav"
  <2>1. /\ days = [n \in 1 .. m - 1 |-> RowDay(rows[n + 1])] /\ Len(days) >= MinObs
        /\ fundReturns = [f \in Fund |-> [n \in 1 .. m - 1 |-> rows[n + 1][f] - rows[n][f]]]
    BY <1>1, <1>5 DEF NavInv, Differences, m
  <2>2. Len(days) \in Nat /\ Len(days) >= 1
    <3>1. MinObs \in Nat /\ MinObs >= 1
      BY IngestAssumption
    <3>2. Len(days) \in Nat
      BY <1>1 DEF IngestTypeOK
    <3>3. Len(days) >= MinObs
      BY <2>1
    <3> QED
      BY <3>1, <3>2, <3>3
  <2>3. m # 0
    <3>1. m = 0 => days = << >>
      BY <2>1
    <3> QED
      BY <2>2, <3>1
  <2>4. \A n \in 1 .. m - 1 : n \in 1 .. m /\ n + 1 \in 1 .. m
    BY <1>2
  <2>5. days = Tail(sorted)
    <3>1. sorted \in Seq(Int) /\ Len(sorted) = m
      <4>1. \A n \in 1 .. m : RowDay(rows[n]) \in Int
        BY <1>1, <1>2, FileFacts DEF IngestInv
      <4> QED
        BY <1>2, <1>3, <4>1
    <3>2. Tail(sorted) = [n \in 1 .. m - 1 |-> sorted[n + 1]]
      <4> DEFINE t == Tail(sorted)
      <4>1. sorted # << >>
        BY <2>3, <3>1
      <4>2. t \in Seq(Int) /\ Len(t) = m - 1 /\ \A n \in 1 .. m - 1 : t[n] = sorted[n + 1]
        BY <1>2, <3>1, <4>1
      <4> HIDE DEF t
      <4>3. t = [n \in 1 .. m - 1 |-> t[n]]
        BY <4>2
      <4>4. t = [n \in 1 .. m - 1 |-> sorted[n + 1]]
        BY <4>2, <4>3
      <4> QED
        BY <4>4 DEF t
    <3>3. \A n \in 1 .. m - 1 : sorted[n + 1] = RowDay(rows[n + 1])
      BY <1>3, <2>4
    <3> QED
      BY <2>1, <3>2, <3>3
  <2>6. ASSUME NEW n \in DOMAIN days, NEW f \in Fund
        PROVE  fundReturns[f][n] = Cell(sorted[n + 1], f) - Cell(sorted[n], f)
    <3>1. n \in 1 .. m - 1
      BY <2>1
    <3>2. fundReturns[f][n] = rows[n + 1][f] - rows[n][f]
      BY <2>1, <3>1
    <3>3. Cell(sorted[n + 1], f) = rows[n + 1][f] /\ Cell(sorted[n], f) = rows[n][f]
      BY <1>4, <2>4, <3>1
    <3> QED
      BY <3>2, <3>3
  <2> QED
    BY <1>5, <2>5, <2>6 DEF LoadedAsRead, sorted
<1>6. CASE report.mode = "returns"
  <2>1. /\ days = DaysOf(rows)
        /\ fundReturns = [f \in Fund |-> [i \in 1 .. m |-> Filled(rows[i][f])]]
    BY <1>1, <1>2, <1>6 DEF SortedInv
  <2>2. days = sorted
    BY <1>2, <1>3, <2>1 DEF DaysOf, RowDay
  <2>3. ASSUME NEW n \in DOMAIN days, NEW f \in Fund
        PROVE  fundReturns[f][n] = Filled(Cell(days[n], f))
    BY <1>3, <1>4, <2>1, <2>2
  <2> QED
    BY <1>6, <2>2, <2>3 DEF LoadedAsRead, sorted
<1> QED
  BY <1>2, <1>5, <1>6

(* A file written in a convention, without an ambiguous date unless it is  *)
(* the month-first one, is read in that convention.                        *)
LEMMA ReadAsWritten ==
    ASSUME IngestInv, Loaded, NEW c \in {"month-first", "day-first"}, WrittenIn(c),
           c = "day-first" => \A i \in DOMAIN file : ~Ambiguous(file[i]),
           NEW i \in DOMAIN file, ~IsBlankRow(file[i])
    PROVE  Day(file[i], report.convention) = Written(file[i], c)
<1>1. report.convention = "month-first"
  BY DEF IngestInv, CountInv, Counted, Loaded
<1>2. \/ Written(file[i], c) # NaT
      \/ file[i].monthFirst = NaT /\ file[i].dayFirst = NaT
  BY DEF WrittenIn
<1>3. CASE c = "month-first"
  BY <1>1, <1>2, <1>3 DEF Day, Written
<1>4. CASE c = "day-first"
  <2>1. ~Ambiguous(file[i])
    BY <1>4
  <2> QED
    BY <1>1, <1>2, <1>4, <2>1 DEF Day, Written, Ambiguous
<1> QED
  BY <1>3, <1>4

(* So it is loaded as the table it is in that convention.                  *)
LEMMA InvMatches == IngestInv => LoadedMatchesFile
<1> SUFFICES ASSUME IngestInv, Loaded, NEW c \in {"month-first", "day-first"},
                    WrittenIn(c), ~RepeatsADate(c),
                    c = "day-first" => \A i \in DOMAIN file : ~Ambiguous(file[i])
             PROVE  LoadedAs(c)
  BY DEF LoadedMatchesFile
<1>1. \A i \in DOMAIN file :
         ~IsBlankRow(file[i]) => Day(file[i], report.convention) = Written(file[i], c)
  BY ReadAsWritten
<1>2. Usable = Stated(c)
  BY <1>1 DEF Usable, Stated
<1>3. \A i \in Stated(c) : Day(file[i], report.convention) = Written(file[i], c)
  BY <1>1 DEF Stated
<1>4. UsableDays = {Written(file[i], c) : i \in Stated(c)}
  BY <1>2, <1>3 DEF UsableDays
<1>5. ~SameDayTwice
  BY <1>1 DEF SameDayTwice, RepeatsADate
<1>6. \A d : Source(d) = CHOOSE i \in Stated(c) : Written(file[i], c) = d
  <2> SUFFICES ASSUME NEW d
               PROVE  Source(d) = CHOOSE i \in Stated(c) : Written(file[i], c) = d
    OBVIOUS
  <2>1. \A i : i \in Usable /\ Day(file[i], report.convention) = d
               <=> i \in Stated(c) /\ Written(file[i], c) = d
    BY <1>2, <1>3
  <2> QED
    BY <2>1 DEF Source
<1>7. LoadedAsRead
  BY <1>5, InvMatchesRead
<1> QED
  BY <1>4, <1>6, <1>7 DEF LoadedAsRead, LoadedAs

(* Through every cleaning step the rows stay rows of the file, the report  *)
(* counts no more rows than it has and each fund has a return per date.    *)
THEOREM IngestTypeCorrect == IngestSpec => []IngestTypeOK
<1>1. IngestInv => IngestTypeOK
  BY DEF IngestInv
<1> QED
  BY <1>1, IngestInvariance, PTL

(* Whatever the file: the blank and the unreadable rows the report counts  *)
(* are exactly those missing from the dated ones, of a file of returns     *)
(* every usable date is loaded, and of a file of prices all but the first  *)
(* at most.                                                                *)
THEOREM EveryRowAccountedFor == IngestSpec => []RowsAreAccountedFor
BY InvAccounts, IngestInvariance, PTL

(* Whatever the order of its rows, a file that names no date twice and is  *)
(* written month-first throughout, or day-first without an ambiguous date, *)
(* is loaded as the table it is by the dates as they are written.          *)
THEOREM FileIsLoadedAsItIs == IngestSpec => []LoadedMatchesFile
BY InvMatches, IngestInvariance, PTL

----------------------------------------------------------------------------
(* The risk-free rate.                                                     *)

YieldRow == [day : Nat, rate : Int]

(* The first position in order is the least.                               *)
LEMMA FirstIsLeast ==
    ASSUME NEW S \in SUBSET Int, IsFiniteSet(S), S # {}
    PROVE  InOrder(S)[1] \in S /\ \A x \in S : InOrder(S)[1] =< x
<1> DEFINE c == Cardinality(S)
<1>1. /\ c \in Nat /\ \A n \in 1 .. c : InOrder(S)[n] \in S
      /\ \A x \in S : \E n \in 1 .. c : InOrder(S)[n] = x
      /\ \A a, b \in 1 .. c : a < b => InOrder(S)[a] < InOrder(S)[b]
  BY InOrderLists
<1> HIDE DEF c
<1>2. 1 \in 1 .. c
  <2>1. PICK x \in S : TRUE
    OBVIOUS
  <2>2. PICK n \in 1 .. c : InOrder(S)[n] = x
    BY <1>1
  <2> QED
    BY <1>1, <2>2
<1>3. ASSUME NEW x \in S PROVE InOrder(S)[1] =< x
  <2>1. PICK n \in 1 .. c : InOrder(S)[n] = x
    BY <1>1
  <2>2. n = 1 \/ 1 < n
    BY <1>1
  <2>3. InOrder(S)[1] \in Int /\ x \in Int
    BY <1>1, <1>2
  <2>4. 1 < n => InOrder(S)[1] < x
    BY <1>1, <1>2, <2>1
  <2> QED
    BY <2>1, <2>2, <2>3, <2>4
<1> QED
  BY <1>1, <1>2, <1>3

(* sorted() keeps every yield and puts them in the order of their days.    *)
LEMMA YieldsAreSorted ==
    ASSUME NEW ys \in Seq(YieldRow)
    PROVE  \E idx \in [1 .. Len(ys) -> 1 .. Len(ys)] :
              /\ \A k \in 1 .. Len(ys) : ByDay(ys)[k] = ys[idx[k]]
              /\ \A n \in 1 .. Len(ys) : \E k \in 1 .. Len(ys) : idx[k] = n
              /\ \A a, b \in 1 .. Len(ys) : a < b => ys[idx[a]].day =< ys[idx[b]].day
<1> DEFINE D == 1 .. Len(ys)
           before == [n \in D |-> SortedBefore(ys, n)]
           rank == Ranks(D, before)
<1>1. Len(ys) \in Nat /\ DOMAIN ys = D /\ \A n \in D : ys[n].day \in Nat
  <2>1. Len(ys) \in Nat /\ DOMAIN ys = D /\ \A n \in D : ys[n] \in YieldRow
    OBVIOUS
  <2>2. \A y \in YieldRow : y.day \in Nat
    BY DEF YieldRow
  <2> QED
    BY <2>1, <2>2
<1>2. IsFiniteSet(D) /\ Cardinality(D) = Len(ys)
  BY <1>1, IntervalSize
<1>3. \A n, m \in D :
         m \in before[n] <=> ys[m].day < ys[n].day \/ (ys[m].day = ys[n].day /\ m < n)
  <2>1. \A n \in D : before[n] = SortedBefore(ys, n)
    OBVIOUS
  <2> HIDE DEF before, D
  <2> QED
    BY <1>1, <2>1 DEF SortedBefore
<1> HIDE DEF before
<1>4. IsStrictOrder(D, before)
  <2>1. before \in [D -> SUBSET D]
    BY <1>1 DEF before, SortedBefore
  <2>2. \A n \in D : n \notin before[n]
    <3> SUFFICES ASSUME NEW n \in D PROVE ~ (ys[n].day < ys[n].day) /\ ~ (n < n)
      BY <1>3
    <3>1. ys[n].day \in Nat /\ n \in Nat
      BY <1>1
    <3> QED
      BY <3>1
  <2>3. ASSUME NEW x \in D, NEW y \in D, x \in before[y], NEW z \in before[x] PROVE z \in before[y]
    <3>1. z \in D
      BY <2>1
    <3>2. x \in Int /\ y \in Int /\ z \in Int
      BY <1>1, <3>1
    <3>3. ys[x].day \in Int /\ ys[y].day \in Int /\ ys[z].day \in Int
      BY <1>1, <3>1
    <3>4. ys[x].day < ys[y].day \/ (ys[x].day = ys[y].day /\ x < y)
      BY <1>3, <2>3
    <3>5. ys[z].day < ys[x].day \/ (ys[z].day = ys[x].day /\ z < x)
      BY <1>3, <3>1
    <3>6. ys[z].day < ys[y].day \/ (ys[z].day = ys[y].day /\ z < y)
      BY <3>2, <3>3, <3>4, <3>5
    <3> QED
      BY <1>3, <3>1, <3>6
  <2>4. ASSUME NEW x \in D, NEW y \in D, x # y PROVE x \in before[y] \/ y \in before[x]
    <3>1. x \in Int /\ y \in Int /\ ys[x].day \in Int /\ ys[y].day \in Int
      BY <1>1
    <3>2. \/ ys[x].day < ys[y].day \/ (ys[x].day = ys[y].day /\ x < y)
          \/ ys[y].day < ys[x].day \/ (ys[y].day = ys[x].day /\ y < x)
      BY <2>4, <3>1
    <3> QED
      BY <1>3, <3>2
  <2> HIDE DEF D
  <2> QED
    BY <2>1, <2>2, <2>3, <2>4 DEF IsStrictOrder
<1>5. /\ rank \in Bijection(D, 1 .. Cardinality(D))
      /\ \A x, y \in D : x \in before[y] <=> rank[x] < rank[y]
  <2> HIDE DEF D
  <2> QED
    BY <1>2, <1>4, RanksOrder
<1>6. \A n \in D : rank[n] = Cardinality(SortedBefore(ys, n)) + 1
  BY DEF Ranks, before
<1> HIDE DEF rank
<1>7. /\ \A n \in D : rank[n] \in D
      /\ \A k \in D : \E n \in D : rank[n] = k
      /\ \A x, y \in D : rank[x] = rank[y] => x = y
  BY <1>2, <1>5 DEF Bijection, Injection, IsInjective, Surjection
<1>8. \A n \in D : Cardinality(SortedBefore(ys, n)) \in Nat
  <2> SUFFICES ASSUME NEW n \in D PROVE Cardinality(SortedBefore(ys, n)) \in Nat
    OBVIOUS
  <2>1. SortedBefore(ys, n) \in SUBSET D
    BY <1>1 DEF SortedBefore
  <2> QED
    BY <1>2, <2>1, FS_Subset, FS_CardinalityType
<1> DEFINE at(k) == CHOOSE n \in D : Cardinality(SortedBefore(ys, n)) = k - 1
           idx == [k \in D |-> at(k)]
<1>9. ASSUME NEW k \in D PROVE at(k) \in D /\ rank[at(k)] = k
  <2>1. PICK n \in D : rank[n] = k
    BY <1>7
  <2>2. Cardinality(SortedBefore(ys, n)) = k - 1
    BY <1>6, <1>8, <2>1
  <2>3. at(k) \in D /\ Cardinality(SortedBefore(ys, at(k))) = k - 1
    BY <2>2
  <2> HIDE DEF at
  <2>4. rank[at(k)] = (k - 1) + 1 /\ k \in Nat
    BY <1>1, <1>6, <2>3
  <2> QED
    BY <2>3, <2>4
<1>10. ByDay(ys) = [k \in D |-> ys[at(k)]]
  BY <1>1 DEF ByDay
<1> HIDE DEF at
<1>11. idx \in [D -> D] /\ \A k \in D : ByDay(ys)[k] = ys[idx[k]]
  BY <1>9, <1>10
<1>12. ASSUME NEW n \in D PROVE \E k \in D : idx[k] = n
  <2>1. rank[n] \in D /\ rank[at(rank[n])] = rank[n] /\ at(rank[n]) \in D
    BY <1>7, <1>9
  <2>2. at(rank[n]) = n
    BY <1>7, <2>1
  <2> QED
    BY <2>1, <2>2
<1>13. ASSUME NEW a \in D, NEW b \in D, a < b PROVE ys[idx[a]].day =< ys[idx[b]].day
  <2>1. idx[a] \in D /\ idx[b] \in D /\ rank[idx[a]] = a /\ rank[idx[b]] = b
    BY <1>9
  <2>2. idx[a] \in before[idx[b]]
    BY <1>5, <1>13, <2>1
  <2>3. ys[idx[a]].day < ys[idx[b]].day \/ ys[idx[a]].day = ys[idx[b]].day
    BY <1>3, <2>1, <2>2
  <2>4. ys[idx[a]].day \in Int /\ ys[idx[b]].day \in Int
    BY <1>1, <2>1
  <2> QED
    BY <2>3, <2>4
<1> HIDE DEF idx
<1> QED
  BY <1>11, <1>12, <1>13

(* So the lookup finds the earliest day with a yield from the target on.   *)
LEMMA LookupFindsNext ==
    ASSUME NEW ys \in Seq(YieldRow), NEW target \in Nat
    PROVE  LET after == {n \in DOMAIN ys : ys[n].day >= target}
           IN  IF after = {} THEN LookupYield(target, ByDay(ys)) = Fallback
               ELSE \E n \in after : /\ \A m \in after : ys[n].day =< ys[m].day
                                     /\ LookupYield(target, ByDay(ys)) = ys[n].rate
<1> DEFINE D == 1 .. Len(ys)
           s == ByDay(ys)
           after == {n \in D : ys[n].day >= target}
           found == {k \in D : s[k].day >= target}
<1>1. Len(ys) \in Nat /\ DOMAIN ys = D /\ \A n \in D : ys[n].day \in Nat
  <2>1. Len(ys) \in Nat /\ DOMAIN ys = D /\ \A n \in D : ys[n] \in YieldRow
    OBVIOUS
  <2>2. \A y \in YieldRow : y.day \in Nat
    BY DEF YieldRow
  <2> QED
    BY <2>1, <2>2
<1>2. PICK idx \in [D -> D] :
         /\ \A k \in D : s[k] = ys[idx[k]]
         /\ \A n \in D : \E k \in D : idx[k] = n
         /\ \A a, b \in D : a < b => ys[idx[a]].day =< ys[idx[b]].day
  BY YieldsAreSorted
<1>3. DOMAIN s = D
  BY <1>1 DEF ByDay
<1> HIDE DEF s
<1>4. LookupYield(target, s) = FirstRate(s, found)
  BY <1>3 DEF LookupYield
<1>5. \A k \in D : k \in found <=> idx[k] \in after
  BY <1>2
<1>6. \A n \in after : \E k \in found : idx[k] = n
  BY <1>2, <1>5
<1>7. CASE after = {}
  <2>1. found = {}
    BY <1>2, <1>5, <1>7
  <2>2. LookupYield(target, s) = Fallback
    BY <1>4, <2>1 DEF FirstRate
  <2> QED
    BY <1>1, <1>7, <2>2 DEF s
<1>8. CASE after # {}
  <2> DEFINE k == InOrder(found)[1]
  <2>1. found # {} /\ found \in SUBSET (1 .. Len(ys)) /\ found \in SUBSET Int
    BY <1>1, <1>6, <1>8
  <2>2. IsFiniteSet(found)
    BY <1>1, <2>1, PositionsSplit
  <2> HIDE DEF found
  <2>3. k \in found /\ \A j \in found : k =< j
    BY <2>1, <2>2, FirstIsLeast
  <2>4. LookupYield(target, s) = s[k].rate
    BY <1>4, <2>1 DEF FirstRate
  <2> HIDE DEF k
  <2>5. k \in D /\ idx[k] \in after /\ s[k] = ys[idx[k]]
    BY <1>2, <1>5, <2>1, <2>3
  <2>6. ASSUME NEW m \in after PROVE ys[idx[k]].day =< ys[m].day
    <3>1. PICK j \in found : idx[j] = m
      BY <1>6
    <3>2. j \in D /\ k =< j /\ k \in Int /\ j \in Int
      BY <2>1, <2>3, <3>1
    <3>3. k = j \/ k < j
      BY <3>2
    <3>4. CASE k = j
      BY <1>1, <1>2, <3>1, <3>2, <3>4
    <3>5. CASE k < j
      BY <1>2, <2>5, <3>1, <3>2, <3>5
    <3> QED
      BY <3>3, <3>4, <3>5
  <2> HIDE DEF after
  <2>7. \E n \in after : /\ \A m \in after : ys[n].day =< ys[m].day
                         /\ LookupYield(target, s) = ys[n].rate
    BY <2>4, <2>5, <2>6
  <2>8. after = {n \in DOMAIN ys : ys[n].day >= target}
    BY <1>1 DEF after
  <2> QED
    BY <1>8, <2>7, <2>8 DEF s
<1> QED
  BY <1>7, <1>8

(* The accrual of each day is that of the next published yield.            *)
LEMMA TypedRiskFree == IngestTypeOK => RiskFreeIsNextPublished
<1> SUFFICES ASSUME IngestTypeOK, NEW ys \in YieldFiles, NEW i \in DOMAIN days \ {1}
             PROVE  LET after == {n \in DOMAIN ys : ys[n].day >= days[i]}
                        Next1(n) == \A m \in after : ys[n].day =< ys[m].day
                        elapsed == days[i] - days[i - 1]
                    IN  IF after = {}
                        THEN RfPeriodSeries(ys)[i] = Fallback * elapsed
                        ELSE \E n \in after :
                                /\ Next1(n)
                                /\ RfPeriodSeries(ys)[i] = ys[n].rate * elapsed
  BY DEF RiskFreeIsNextPublished
<1>1. ys \in Seq(YieldRow)
  BY CalendarAssumption DEF YieldRow
<1>2. days[i] \in Nat
  BY DEF IngestTypeOK
<1> DEFINE y == LookupYield(days[i], ByDay(ys))
           elapsed == days[i] - days[i - 1]
<1>3. RfPeriodSeries(ys)[i] = y * elapsed
  BY DEF RfPeriodSeries
<1> DEFINE after == {n \in DOMAIN ys : ys[n].day >= days[i]}
<1>4. IF after = {} THEN y = Fallback
      ELSE \E n \in after : (\A m \in after : ys[n].day =< ys[m].day) /\ y = ys[n].rate
  BY <1>1, <1>2, LookupFindsNext
<1> HIDE DEF after, y, elapsed
<1>5. IF after = {} THEN RfPeriodSeries(ys)[i] = Fallback * elapsed
      ELSE \E n \in after : /\ \A m \in after : ys[n].day =< ys[m].day
                            /\ RfPeriodSeries(ys)[i] = ys[n].rate * elapsed
  BY <1>3, <1>4
<1> QED
  BY <1>5 DEF after, elapsed

(* Whatever the order of a yield file, every day of every loaded series    *)
(* accrues at the yield of the next date that has one, and beyond the last *)
(* one at the fallback.                                                    *)
THEOREM RiskFreeRate == IngestSpec => []RiskFreeIsNextPublished
BY TypedRiskFree, IngestTypeCorrect, PTL

----------------------------------------------------------------------------
(* Running sums.                                                           *)

(* The running sums exist: the first is 0, each adds one element.          *)
LEMMA TotalsAre ==
    ASSUME NEW r \in Seq(Int)
    PROVE  /\ Totals(r) \in [0 .. Len(r) -> Int] /\ Totals(r)[0] = 0
           /\ \A k \in 1 .. Len(r) : Totals(r)[k] = Totals(r)[k - 1] + r[k]
<1> DEFINE n == Len(r)
           Adds(f) == f = [k \in 0 .. n |-> IF k = 0 THEN 0 ELSE f[k - 1] + r[k]]
           step == [k \in 1 .. n |-> [x \in Int |-> x + r[k]]]
<1>1. n \in Nat /\ \A k \in 1 .. n : r[k] \in Int
  OBVIOUS
<1>2. step \in [1 .. n -> [Int -> Int]]
  BY <1>1
<1>3. \A k \in 1 .. n, x \in Int : step[k][x] = x + r[k]
  OBVIOUS
<1> HIDE DEF step, n
<1>4. PICK f \in [0 .. n -> Int] : Follows(f, n, 0, step)
  <2>1. 0 \in Int /\ n \in Nat
    BY <1>1
  <2> QED
    BY ONLY <1>2, <2>1, RecursionExists, Zenon
<1>5. Adds(f)
  <2>1. ASSUME NEW k \in 0 .. n
        PROVE  f[k] = IF k = 0 THEN 0 ELSE f[k - 1] + r[k]
    <3>1. f[k] = IF k = 0 THEN 0 ELSE step[k][f[k - 1]]
      BY <1>4 DEF Follows
    <3>2. k # 0 => k \in 1 .. n /\ f[k - 1] \in Int
      BY <1>1
    <3> QED
      BY <1>3, <3>1, <3>2
  <2>2. f = [k \in 0 .. n |-> f[k]]
    OBVIOUS
  <2> QED
    BY <2>1, <2>2
<1> DEFINE g == Totals(r)
<1>6. g = CHOOSE h : Adds(h)
  BY DEF Totals, n
<1>7. Adds(g)
  <2> HIDE DEF Adds
  <2> QED
    BY <1>5, <1>6
<1> HIDE DEF g
<1>8. g[0] = 0 /\ \A k \in 1 .. n : g[k] = g[k - 1] + r[k]
  BY <1>1, <1>7
<1> DEFINE T == {k \in Nat : k =< n => g[k] \in Int}
<1>9. \A k \in Nat : k \in T
  <2>1. 0 \in T
    BY <1>8
  <2>2. ASSUME NEW k \in Nat, k \in T PROVE k + 1 \in T
    <3> SUFFICES ASSUME k + 1 =< n PROVE g[k + 1] \in Int
      OBVIOUS
    <3>1. k + 1 \in 1 .. n /\ k =< n /\ (k + 1) - 1 = k
      BY <1>1
    <3>2. g[k + 1] = g[k] + r[k + 1]
      BY <1>8, <3>1
    <3> QED
      BY <1>1, <2>2, <3>1, <3>2
  <2> HIDE DEF T
  <2> QED
    BY <2>1, <2>2, InductiveNat
<1>10. \A k \in 0 .. n : g[k] \in Int
  BY <1>1, <1>9
<1>11. g \in [0 .. n -> Int]
  BY <1>7, <1>10
<1> QED
  BY <1>8, <1>11 DEF g, n

----------------------------------------------------------------------------
(* Drawdowns.                                                              *)

(* A drawdown is a number, not above 0, and 0 after the first return.      *)
LEMMA DrawdownsAre ==
    ASSUME IngestTypeOK
    PROVE  /\ Len(returns) = Len(days) /\ Len(returns) \in Nat
           /\ DOMAIN returns = 1 .. Len(returns)
           /\ \A i \in 1 .. Len(returns) : Drawdown(i) \in Int /\ Drawdown(i) =< 0
           /\ Len(returns) # 0 => Drawdown(1) = 0
<1> DEFINE n == Len(returns)
<1>1. returns \in Seq(Int) /\ n = Len(days)
  BY DEF IngestTypeOK, returns, Fund
<1>2. n \in Nat /\ DOMAIN returns = 1 .. n
  BY <1>1
<1>3. \A i \in 1 .. n : Nav[i] = Totals(returns)[i] /\ Nav[i] \in Int
  <2>1. Totals(returns) \in [0 .. n -> Int]
    BY <1>1, TotalsAre
  <2>2. Nav = [i \in 1 .. n |-> Totals(returns)[i]]
    BY <1>2 DEF Nav
  <2> HIDE DEF n
  <2> QED
    BY <1>2, <2>1, <2>2
<1> HIDE DEF n
<1>4. ASSUME NEW i \in 1 .. n PROVE Drawdown(i) \in Int /\ Drawdown(i) =< 0
  <2> DEFINE S == {Nav[j] : j \in 1 .. i}
             at == [j \in 1 .. i |-> Nav[j]]
             peak == CHOOSE v \in S : \A j \in 1 .. i : Nav[j] =< v
  <2>1. i \in Nat /\ i \in 1 .. i /\ (\A j \in 1 .. i : j \in 1 .. n)
    BY <1>2
  <2>2. S # {} /\ S \in SUBSET Int /\ (\A j \in 1 .. i : Nav[j] \in S)
    BY <1>3, <2>1
  <2>3. IsFiniteSet(S)
    <3>1. IsFiniteSet(1 .. i)
      BY <2>1, IntervalSize
    <3>2. at \in [1 .. i -> S] /\ \A v \in S : \E j \in 1 .. i : at[j] = v
      OBVIOUS
    <3> HIDE DEF at, S
    <3> QED
      BY <3>1, <3>2, ImageIsFinite
  <2> HIDE DEF S
  <2>4. \E v \in S : \A u \in S : u =< v
    BY <2>2, <2>3, EndsOfSet
  <2>5. peak \in S /\ \A j \in 1 .. i : Nav[j] =< peak
    BY <2>2, <2>4
  <2>6. Drawdown(i) = Nav[i] - peak
    BY DEF Drawdown, S
  <2> HIDE DEF peak
  <2> QED
    BY <1>3, <2>1, <2>2, <2>5, <2>6
<1>5. ASSUME n # 0 PROVE Drawdown(1) = 0
  <2>1. 1 \in 1 .. n /\ 1 .. 1 = {1}
    BY <1>2, <1>5
  <2>2. {Nav[j] : j \in 1 .. 1} = {Nav[1]}
    BY <2>1
  <2>3. \A j \in 1 .. 1 : Nav[j] =< Nav[1]
    BY <1>3, <2>1
  <2>4. (CHOOSE v \in {Nav[j] : j \in 1 .. 1} : \A j \in 1 .. 1 : Nav[j] =< v) = Nav[1]
    BY <2>2, <2>3
  <2> QED
    BY <1>3, <2>1, <2>4 DEF Drawdown
<1> QED
  BY <1>1, <1>2, <1>4, <1>5 DEF n

(* From the day after a peak to the day last the series is below it, and   *)
(* trough is the first of the deepest of these days.                       *)
Stretch(start, trough, last) ==
    /\ start >= 2 /\ start =< last
    /\ Drawdown(start - 1) = 0
    /\ \A j \in start .. last : Drawdown(j) < 0
    /\ trough \in start .. last
    /\ \A j \in start .. last : Drawdown(j) >= Drawdown(trough)
    /\ \A j \in start .. trough - 1 : Drawdown(j) > Drawdown(trough)

Triples == Nat \X Nat \X Nat

Scan == [inside : BOOLEAN, start : Nat, trough : Nat, episodes : SUBSET Triples]

(* What the loop knows after i days.                                       *)
ScanOK(s, i) ==
    /\ s \in Scan
    /\ s.inside <=> i # 0 /\ Drawdown(i) < 0
    /\ s.inside => Stretch(s.start, s.trough, i)
    /\ \A e \in s.episodes :
          /\ e[3] \in 1 .. i /\ Drawdown(e[3]) = 0
          /\ Stretch(e[1], e[2], e[3] - 1)
    /\ \A j \in 1 .. i : Drawdown(j) < 0 =>
          \/ \E e \in s.episodes : e[1] =< j /\ j < e[3]
          \/ s.inside /\ s.start =< j

(* One turn of the loop keeps the invariant of the scan.                   *)
LEMMA DrawdownStepOK ==
    ASSUME IngestTypeOK, NEW i \in Nat, i + 1 =< Len(returns), NEW s, ScanOK(s, i)
    PROVE  ScanOK(DrawdownStep(s, i + 1), i + 1)
<1> DEFINE d == i + 1
           t == DrawdownStep(s, d)
           later == IF Drawdown(d) < Drawdown(s.trough) THEN d ELSE s.trough
<1>1. /\ d \in Nat /\ d >= 1 /\ d \in 1 .. Len(returns) /\ Len(returns) \in Nat
      /\ \A j \in 1 .. d : j \in Nat /\ Drawdown(j) \in Int /\ Drawdown(j) =< 0
      /\ Drawdown(1) = 0
  BY DrawdownsAre
<1>2. s \in Scan /\ s.inside \in BOOLEAN /\ s.episodes \in SUBSET Triples
      /\ s.start \in Nat /\ s.trough \in Nat
  BY DEF ScanOK, Scan
<1>3. \A j \in 1 .. d : j \in 1 .. i \/ j = d
  OBVIOUS
<1>4. ASSUME NEW e \in s.episodes
      PROVE  /\ e[3] \in 1 .. d /\ Drawdown(e[3]) = 0 /\ Stretch(e[1], e[2], e[3] - 1)
  BY DEF ScanOK
<1>5. ASSUME NEW j \in 1 .. i, Drawdown(j) < 0
      PROVE  \/ \E e \in s.episodes : e[1] =< j /\ j < e[3]
             \/ s.inside /\ s.start =< j
  BY <1>5 DEF ScanOK
<1>6. CASE ~s.inside /\ Drawdown(d) < 0
  <2>1. t = [s EXCEPT !.inside = TRUE, !.start = d, !.trough = d]
    BY <1>6 DEF DrawdownStep
  <2>2. /\ t \in Scan /\ t.inside /\ t.start = d /\ t.trough = d /\ t.episodes = s.episodes
    BY <1>1, <1>2, <2>1 DEF Scan
  <2> HIDE DEF t
  <2>3. d # 1
    BY <1>1, <1>6
  <2>4. i \in 1 .. d /\ i # 0 /\ d - 1 = i
    BY <1>1, <2>3
  <2>5. Drawdown(i) = 0
    <3>1. ~ (Drawdown(i) < 0)
      BY <1>6, <2>4 DEF ScanOK
    <3> QED
      BY <1>1, <2>4, <3>1
  <2>6. Stretch(t.start, t.trough, d)
    <3>1. \A j \in d .. d : j = d
      BY <1>1
    <3>2. \A j \in d .. d - 1 : FALSE
      BY <1>1
    <3>3. d >= 2 /\ d =< d /\ d \in d .. d /\ Drawdown(d) >= Drawdown(d)
      BY <1>1, <2>3
    <3>4. Drawdown(d - 1) = 0
      BY <2>4, <2>5
    <3> HIDE DEF d
    <3> QED
      BY <1>6, <2>2, <3>1, <3>2, <3>3, <3>4 DEF Stretch
  <2>7. ASSUME NEW j \in 1 .. d, Drawdown(j) < 0
        PROVE  (\E e \in t.episodes : e[1] =< j /\ j < e[3]) \/ t.start =< j
    <3>1. CASE j \in 1 .. i
      BY <1>5, <1>6, <2>2, <2>7, <3>1
    <3>2. CASE j = d
      BY <1>1, <2>2, <3>2
    <3> QED
      BY <1>3, <3>1, <3>2
  <2> HIDE DEF d
  <2>8. ScanOK(t, d)
    BY <1>1, <1>4, <1>6, <2>2, <2>6, <2>7 DEF ScanOK
  <2> QED
    BY <2>8 DEF t, d
<1>7. CASE s.inside /\ Drawdown(d) >= 0
  <2>1. t = [s EXCEPT !.inside = FALSE, !.episodes = s.episodes \cup {<<s.start, later, d>>}]
    <3>1. d \in 1 .. d /\ Drawdown(d) \in Int
      BY <1>1
    <3>2. ~ (Drawdown(d) < 0)
      BY <1>7, <3>1
    <3> HIDE DEF d
    <3> QED
      BY <1>2, <1>7, <3>2 DEF DrawdownStep
  <2>2. Stretch(s.start, s.trough, i)
    BY <1>7 DEF ScanOK
  <2>3. s.trough \in 1 .. d /\ Drawdown(s.trough) < 0
    BY <1>1, <1>2, <2>2 DEF Stretch
  <2>4. later = s.trough
    BY <1>1, <1>7, <2>3
  <2> DEFINE e1 == <<s.start, s.trough, d>>
  <2>5. t = [s EXCEPT !.inside = FALSE, !.episodes = s.episodes \cup {e1}]
    BY <1>2, <2>1, <2>4 DEF Scan
  <2>6. e1 \in Triples /\ e1[1] = s.start /\ e1[2] = s.trough /\ e1[3] = d
    BY <1>1, <1>2 DEF Triples
  <2> HIDE DEF t, e1
  <2>7. /\ t \in Scan /\ ~t.inside /\ t.episodes = s.episodes \cup {e1}
    BY <1>2, <2>5, <2>6 DEF Scan
  <2>8. Drawdown(d) = 0
    BY <1>1, <1>7
  <2>9. ASSUME NEW e \in t.episodes
        PROVE  /\ e[3] \in 1 .. d /\ Drawdown(e[3]) = 0 /\ Stretch(e[1], e[2], e[3] - 1)
    <3>1. CASE e \in s.episodes
      BY <1>4, <3>1
    <3>2. CASE e = e1
      <4>1. d \in 1 .. d /\ d - 1 = i
        BY <1>1
      <4> QED
        BY <2>2, <2>6, <2>8, <3>2, <4>1
    <3> QED
      BY <2>7, <3>1, <3>2
  <2>10. ASSUME NEW j \in 1 .. d, Drawdown(j) < 0
         PROVE  \E e \in t.episodes : e[1] =< j /\ j < e[3]
    <3>1. j \in 1 .. i /\ j < d
      BY <1>1, <1>3, <2>8, <2>10
    <3>2. CASE \E e \in s.episodes : e[1] =< j /\ j < e[3]
      BY <2>7, <3>2
    <3>3. CASE s.start =< j
      <4>1. e1 \in t.episodes /\ e1[1] =< j /\ j < e1[3]
        BY <2>6, <2>7, <3>1, <3>3
      <4> QED
        BY <4>1
    <3> QED
      BY <1>5, <2>10, <3>1, <3>2, <3>3
  <2> HIDE DEF d
  <2>11. ScanOK(t, d)
    BY <1>1, <2>7, <2>8, <2>9, <2>10 DEF ScanOK
  <2> QED
    BY <2>11 DEF t, d
<1>8. CASE s.inside /\ Drawdown(d) < 0
  <2>1. t = [s EXCEPT !.trough = later]
    BY <1>1, <1>8 DEF DrawdownStep
  <2>2. Stretch(s.start, s.trough, i)
    BY <1>8 DEF ScanOK
  <2>3. /\ s.start >= 2 /\ s.start =< i /\ Drawdown(s.start - 1) = 0
        /\ s.trough \in s.start .. i
        /\ \A j \in s.start .. i : Drawdown(j) < 0 /\ Drawdown(j) >= Drawdown(s.trough)
        /\ \A j \in s.start .. s.trough - 1 : Drawdown(j) > Drawdown(s.trough)
    BY <2>2 DEF Stretch
  <2>4. \A j \in s.start .. d : j \in 1 .. d /\ (j \in s.start .. i \/ j = d)
    BY <1>1, <1>2, <2>3
  <2>5. s.trough \in s.start .. d /\ d \in s.start .. d
    BY <1>1, <1>2, <2>3
  <2>6. later \in s.start .. d /\ later \in Nat
    BY <1>1, <1>2, <2>5
  <2> HIDE DEF t
  <2>7. /\ t \in Scan /\ t.inside /\ t.start = s.start /\ t.trough = later
        /\ t.episodes = s.episodes
    <3> HIDE DEF later
    <3> QED
      BY <1>2, <1>8, <2>1, <2>6 DEF Scan
  <2>8. \A j \in s.start .. d : Drawdown(j) >= Drawdown(later)
    <3> SUFFICES ASSUME NEW j \in s.start .. d PROVE Drawdown(j) >= Drawdown(later)
      OBVIOUS
    <3>1. Drawdown(j) \in Int /\ Drawdown(d) \in Int /\ Drawdown(s.trough) \in Int
      BY <1>1, <2>4, <2>5
    <3>2. j = d \/ Drawdown(j) >= Drawdown(s.trough)
      BY <2>3, <2>4
    <3> HIDE DEF d
    <3> QED
      BY <3>1, <3>2
  <2>9. \A j \in s.start .. later - 1 : Drawdown(j) > Drawdown(later)
    <3> SUFFICES ASSUME NEW j \in s.start .. later - 1 PROVE Drawdown(j) > Drawdown(later)
      OBVIOUS
    <3>1. Drawdown(d) \in Int /\ Drawdown(s.trough) \in Int
      BY <1>1, <2>4, <2>5
    <3>2. CASE Drawdown(d) < Drawdown(s.trough)
      <4>1. later = d /\ j \in s.start .. i
        BY <1>1, <1>2, <3>2
      <4>2. Drawdown(j) >= Drawdown(s.trough) /\ Drawdown(j) \in Int
        BY <1>1, <2>3, <2>4, <2>5, <4>1
      <4> HIDE DEF d, later
      <4> QED
        BY <3>1, <3>2, <4>1, <4>2
    <3>3. CASE ~ (Drawdown(d) < Drawdown(s.trough))
      BY <2>3, <3>3
    <3> QED
      BY <3>2, <3>3
  <2>10. Stretch(t.start, t.trough, d)
    <3>1. s.start =< d
      BY <1>1, <1>2, <2>3
    <3>2. \A j \in s.start .. d : Drawdown(j) < 0
      BY <1>8, <2>3, <2>4
    <3> HIDE DEF d, later
    <3> QED
      BY <2>3, <2>6, <2>7, <2>8, <2>9, <3>1, <3>2 DEF Stretch
  <2>11. ASSUME NEW j \in 1 .. d, Drawdown(j) < 0
         PROVE  (\E e \in t.episodes : e[1] =< j /\ j < e[3]) \/ t.start =< j
    <3>1. CASE j \in 1 .. i
      BY <1>5, <2>7, <2>11, <3>1
    <3>2. CASE j = d
      BY <1>1, <1>2, <2>3, <2>7, <3>2
    <3> QED
      BY <1>3, <3>1, <3>2
  <2> HIDE DEF d
  <2>12. ScanOK(t, d)
    BY <1>1, <1>4, <1>8, <2>7, <2>10, <2>11 DEF ScanOK
  <2> QED
    BY <2>12 DEF t, d
<1>9. CASE ~s.inside /\ Drawdown(d) >= 0
  <2>1. t = s
    BY <1>1, <1>9 DEF DrawdownStep
  <2>2. Drawdown(d) = 0
    BY <1>1, <1>9
  <2>3. ASSUME NEW j \in 1 .. d, Drawdown(j) < 0
        PROVE  \E e \in s.episodes : e[1] =< j /\ j < e[3]
    <3>1. j \in 1 .. i
      BY <1>3, <2>2, <2>3
    <3> QED
      BY <1>5, <1>9, <2>3, <3>1
  <2> HIDE DEF t, d
  <2>4. ScanOK(t, d)
    BY <1>1, <1>2, <1>4, <1>9, <2>1, <2>2, <2>3 DEF ScanOK
  <2> QED
    BY <2>4 DEF t, d
<1>10. Drawdown(d) \in Int
  BY <1>1
<1>11. Drawdown(d) < 0 \/ Drawdown(d) >= 0
  <2> HIDE DEF d
  <2> QED
    BY <1>10
<1> QED
  BY <1>2, <1>6, <1>7, <1>8, <1>9, <1>11

(* The scan of drawdown_periods() is right after every day.                *)
LEMMA ScansOK ==
    ASSUME IngestTypeOK
    PROVE  \A i \in 0 .. Len(returns) : ScanOK(DrawdownScans[i], i)
<1> DEFINE n == Len(returns)
           Steps(f) == f = [i \in 0 .. n |->
                              IF i = 0 THEN Outside ELSE DrawdownStep(f[i - 1], i)]
           step == [i \in 1 .. n |-> [s \in Scan |-> DrawdownStep(s, i)]]
<1>1. n \in Nat /\ n = Len(returns)
  BY DrawdownsAre
<1>2. Outside \in Scan /\ ScanOK(Outside, 0)
  <2>1. /\ Outside \in Scan /\ Outside.inside = FALSE /\ Outside.episodes = {}
    BY DEF Outside, Scan
  <2>2. 1 .. 0 = {}
    OBVIOUS
  <2> QED
    BY <2>1, <2>2 DEF ScanOK
<1>3. step \in [1 .. n -> [Scan -> Scan]]
  <2> SUFFICES ASSUME NEW i \in 1 .. n, NEW s \in Scan PROVE DrawdownStep(s, i) \in Scan
    OBVIOUS
  <2>1. i \in Nat
    BY <1>1
  <2>2. /\ s.inside \in BOOLEAN /\ s.start \in Nat /\ s.trough \in Nat
        /\ s.episodes \in SUBSET Triples
    BY DEF Scan
  <2> DEFINE trough == IF Drawdown(i) < Drawdown(s.trough) THEN i ELSE s.trough
             e == <<s.start, trough, i>>
  <2>3. trough \in Nat
    BY <2>1, <2>2
  <2>4. e \in Triples
    <3> HIDE DEF trough
    <3> QED
      BY <2>1, <2>2, <2>3 DEF Triples
  <2>5. \/ DrawdownStep(s, i) = [s EXCEPT !.inside = TRUE, !.start = i, !.trough = i]
        \/ DrawdownStep(s, i) = [s EXCEPT !.inside = FALSE, !.episodes = s.episodes \cup {e}]
        \/ DrawdownStep(s, i) = [s EXCEPT !.trough = trough]
        \/ DrawdownStep(s, i) = s
    BY DEF DrawdownStep
  <2> HIDE DEF e, trough
  <2> QED
    BY <2>1, <2>2, <2>3, <2>4, <2>5 DEF Scan
<1>4. \A i \in 1 .. n, s \in Scan : step[i][s] = DrawdownStep(s, i)
  OBVIOUS
<1> HIDE DEF step, n
<1>5. PICK f \in [0 .. n -> Scan] : Follows(f, n, Outside, step)
  BY ONLY <1>1, DrawdownsAre, <1>2, <1>3, RecursionExists, Zenon
<1>6. Steps(f)
  <2>1. ASSUME NEW i \in 0 .. n
        PROVE  f[i] = IF i = 0 THEN Outside ELSE DrawdownStep(f[i - 1], i)
    <3>1. f[i] = IF i = 0 THEN Outside ELSE step[i][f[i - 1]]
      BY <1>5 DEF Follows
    <3>2. i # 0 => i \in 1 .. n /\ f[i - 1] \in Scan
      BY <1>1
    <3> QED
      BY <1>4, <3>1, <3>2
  <2>2. f = [i \in 0 .. n |-> f[i]]
    OBVIOUS
  <2> QED
    BY <2>1, <2>2
<1> DEFINE g == DrawdownScans
<1>7. g = CHOOSE h : Steps(h)
  BY DEF DrawdownScans, n
<1>8. Steps(g)
  <2> HIDE DEF Steps
  <2> QED
    BY <1>6, <1>7
<1> HIDE DEF g
<1>9. g[0] = Outside /\ \A i \in 1 .. n : g[i] = DrawdownStep(g[i - 1], i)
  BY <1>1, <1>8
<1> DEFINE T == {i \in Nat : i =< n => ScanOK(g[i], i)}
<1>10. \A i \in Nat : i \in T
  <2>1. 0 \in T
    BY <1>2, <1>9
  <2>2. ASSUME NEW i \in Nat, i \in T PROVE i + 1 \in T
    <3> SUFFICES ASSUME i + 1 =< n PROVE ScanOK(g[i + 1], i + 1)
      OBVIOUS
    <3>1. i + 1 \in 1 .. n /\ i =< n /\ (i + 1) - 1 = i
      BY <1>1
    <3>2. g[i + 1] = DrawdownStep(g[i], i + 1) /\ ScanOK(g[i], i)
      BY <1>9, <2>2, <3>1
    <3>3. i + 1 =< Len(returns)
      BY <1>1
    <3> QED
      BY <3>2, <3>3, DrawdownStepOK
  <2> HIDE DEF T
  <2> QED
    BY <2>1, <2>2, InductiveNat
<1>11. \A i \in 0 .. n : ScanOK(g[i], i)
  BY <1>1, <1>10
<1> QED
  BY <1>11 DEF g, n

Ends(e) == IF e[3] = NotYet THEN Len(returns) ELSE e[3] - 1

(* What drawdown_periods() returns: stretches that end when the series is  *)
(* back at its peak, or are open, and that leave out no day below one.     *)
LEMMA PeriodsAre ==
    ASSUME IngestTypeOK
    PROVE  /\ \A e \in DrawdownPeriods :
                 /\ e \in Triples /\ Stretch(e[1], e[2], Ends(e))
                 /\ e[3] # NotYet => e[3] \in 1 .. Len(returns) /\ Drawdown(e[3]) = 0
           /\ \A j \in 1 .. Len(returns) : Drawdown(j) < 0 =>
                 \E e \in DrawdownPeriods : e[1] =< j /\ (e[3] = NotYet \/ j < e[3])
<1> DEFINE n == Len(returns)
           s == DrawdownScans[n]
           open == <<s.start, s.trough, NotYet>>
<1>1. n \in Nat /\ n = Len(returns)
  BY DrawdownsAre
<1>2. ScanOK(s, n)
  BY <1>1, ScansOK
<1>3. DrawdownPeriods = s.episodes \cup IF s.inside THEN {open} ELSE {}
  BY DEF DrawdownPeriods
<1> HIDE DEF s
<1>4. s \in Scan /\ s.inside \in BOOLEAN /\ s.episodes \in SUBSET Triples
      /\ s.start \in Nat /\ s.trough \in Nat
  BY <1>2 DEF ScanOK, Scan
<1>5. open \in Triples /\ open[1] = s.start /\ open[2] = s.trough /\ open[3] = NotYet
  BY <1>4 DEF Triples, NotYet
<1> HIDE DEF open, n
<1>6. ASSUME NEW e \in s.episodes
      PROVE  /\ e \in Triples /\ Stretch(e[1], e[2], Ends(e))
             /\ e[3] # NotYet /\ e[3] \in 1 .. n /\ Drawdown(e[3]) = 0
  <2>1. e[3] \in 1 .. n /\ Drawdown(e[3]) = 0 /\ Stretch(e[1], e[2], e[3] - 1)
    BY <1>2 DEF ScanOK
  <2>2. e[3] # NotYet
    BY <1>1, <2>1 DEF NotYet
  <2> QED
    BY <1>4, <2>1, <2>2 DEF Ends
<1>7. ASSUME s.inside PROVE Stretch(open[1], open[2], Ends(open))
  BY <1>1, <1>2, <1>5, <1>7 DEF ScanOK, Ends
<1>8. ASSUME NEW e \in DrawdownPeriods
      PROVE  /\ e \in Triples /\ Stretch(e[1], e[2], Ends(e))
             /\ e[3] # NotYet => e[3] \in 1 .. n /\ Drawdown(e[3]) = 0
  <2>1. e \in s.episodes \/ (s.inside /\ e = open)
    BY <1>3
  <2> QED
    BY <1>5, <1>6, <1>7, <2>1
<1>9. ASSUME NEW j \in 1 .. n, Drawdown(j) < 0
      PROVE  \E e \in DrawdownPeriods : e[1] =< j /\ (e[3] = NotYet \/ j < e[3])
  <2>1. \/ \E e \in s.episodes : e[1] =< j /\ j < e[3]
        \/ s.inside /\ s.start =< j
    BY <1>2, <1>9 DEF ScanOK
  <2>2. CASE \E e \in s.episodes : e[1] =< j /\ j < e[3]
    BY <1>3, <2>2
  <2>3. CASE s.inside /\ s.start =< j
    <3>1. open \in DrawdownPeriods
      BY <1>3, <2>3
    <3> QED
      BY <1>5, <2>3, <3>1
  <2> QED
    BY <2>1, <2>2, <2>3
<1> QED
  BY <1>8, <1>9 DEF n

(* Two of them that share a day are one.                                   *)
LEMMA PeriodsAreApart ==
    ASSUME IngestTypeOK, NEW e \in DrawdownPeriods, NEW o \in DrawdownPeriods,
           NEW i \in 1 .. Len(returns),
           e[1] =< i, e[3] = NotYet \/ i < e[3], o[1] =< i, o[3] = NotYet \/ i < o[3]
    PROVE  e = o
<1> DEFINE n == Len(returns)
<1>1. n \in Nat /\ \A j \in 1 .. n : Drawdown(j) \in Int
  BY DrawdownsAre
<1>2. /\ e \in Triples /\ Stretch(e[1], e[2], Ends(e))
      /\ e[3] # NotYet => e[3] \in 1 .. n /\ Drawdown(e[3]) = 0
  BY PeriodsAre
<1>3. /\ o \in Triples /\ Stretch(o[1], o[2], Ends(o))
      /\ o[3] # NotYet => o[3] \in 1 .. n /\ Drawdown(o[3]) = 0
  BY PeriodsAre
<1>4. /\ e[1] \in Nat /\ e[2] \in Nat /\ e[3] \in Nat /\ e = <<e[1], e[2], e[3]>>
      /\ o[1] \in Nat /\ o[2] \in Nat /\ o[3] \in Nat /\ o = <<o[1], o[2], o[3]>>
  BY <1>2, <1>3 DEF Triples
<1>5. /\ Ends(e) = (IF e[3] = 0 THEN n ELSE e[3] - 1)
      /\ Ends(o) = (IF o[3] = 0 THEN n ELSE o[3] - 1)
  BY DEF Ends, NotYet
<1>6. /\ Ends(e) \in Nat /\ i =< Ends(e) /\ Ends(e) =< n
      /\ Ends(o) \in Nat /\ i =< Ends(o) /\ Ends(o) =< n /\ i \in Nat
  <2>1. e[3] # 0 => i < e[3] /\ e[3] =< n
    BY <1>1, <1>2 DEF NotYet
  <2>2. o[3] # 0 => i < o[3] /\ o[3] =< n
    BY <1>1, <1>3 DEF NotYet
  <2>3. i \in Nat /\ i =< n
    BY <1>1
  <2> HIDE DEF n
  <2> QED
    BY <1>1, <1>4, <1>5, <2>1, <2>2, <2>3
<1>7. /\ e[1] >= 2 /\ Drawdown(e[1] - 1) = 0
      /\ \A j \in e[1] .. Ends(e) : Drawdown(j) < 0
      /\ o[1] >= 2 /\ Drawdown(o[1] - 1) = 0
      /\ \A j \in o[1] .. Ends(o) : Drawdown(j) < 0
  BY <1>2, <1>3 DEF Stretch
<1>8. /\ e[2] \in e[1] .. Ends(e) /\ o[2] \in o[1] .. Ends(o)
      /\ \A j \in e[1] .. Ends(e) : Drawdown(j) >= Drawdown(e[2])
      /\ \A j \in e[1] .. e[2] - 1 : Drawdown(j) > Drawdown(e[2])
      /\ \A j \in o[1] .. Ends(o) : Drawdown(j) >= Drawdown(o[2])
      /\ \A j \in o[1] .. o[2] - 1 : Drawdown(j) > Drawdown(o[2])
  BY <1>2, <1>3 DEF Stretch
<1> HIDE DEF n
<1>9. e[1] = o[1]
  <2>1. CASE e[1] < o[1]
    <3>1. o[1] - 1 \in e[1] .. Ends(e)
      BY <1>4, <1>6, <2>1
    <3>2. Drawdown(o[1] - 1) < 0
      BY <1>7, <3>1
    <3> QED
      BY <1>7, <3>2
  <2>2. CASE o[1] < e[1]
    <3>1. e[1] - 1 \in o[1] .. Ends(o)
      BY <1>4, <1>6, <2>2
    <3>2. Drawdown(e[1] - 1) < 0
      BY <1>7, <3>1
    <3> QED
      BY <1>7, <3>2
  <2> QED
    BY <1>4, <2>1, <2>2
<1>10. e[3] = o[3]
  <2>1. CASE e[3] # 0 /\ (o[3] = 0 \/ e[3] < o[3])
    <3>1. e[3] \in 1 .. n /\ Drawdown(e[3]) = 0
      BY <1>2, <2>1 DEF NotYet, n
    <3>2. e[3] \in o[1] .. Ends(o)
      <4>1. i < e[3] /\ e[3] =< n
        BY <1>1, <2>1, <3>1 DEF NotYet
      <4> QED
        BY <1>4, <1>5, <1>6, <2>1, <4>1
    <3>3. Drawdown(e[3]) < 0
      BY <1>7, <3>2
    <3> QED
      BY <3>1, <3>3
  <2>2. CASE o[3] # 0 /\ (e[3] = 0 \/ o[3] < e[3])
    <3>1. o[3] \in 1 .. n /\ Drawdown(o[3]) = 0
      BY <1>3, <2>2 DEF NotYet, n
    <3>2. o[3] \in e[1] .. Ends(e)
      <4>1. i < o[3] /\ o[3] =< n
        BY <1>1, <2>2, <3>1 DEF NotYet
      <4> QED
        BY <1>4, <1>5, <1>6, <2>2, <4>1
    <3>3. Drawdown(o[3]) < 0
      BY <1>7, <3>2
    <3> QED
      BY <3>1, <3>3
  <2> QED
    BY <1>4, <2>1, <2>2
<1>11. Ends(e) = Ends(o)
  BY <1>5, <1>10
<1>12. e[2] = o[2]
  <2>1. e[2] \in 1 .. n /\ o[2] \in 1 .. n
    BY <1>1, <1>4, <1>6, <1>7, <1>8
  <2>2. Drawdown(e[2]) \in Int /\ Drawdown(o[2]) \in Int
    BY <1>1, <2>1 DEF n
  <2>3. Drawdown(o[2]) >= Drawdown(e[2]) /\ Drawdown(e[2]) >= Drawdown(o[2])
    BY <1>8, <1>9, <1>11
  <2>4. CASE e[2] < o[2]
    <3>1. e[2] \in o[1] .. o[2] - 1
      BY <1>4, <1>8, <1>9, <2>4
    <3>2. Drawdown(e[2]) > Drawdown(o[2])
      BY <1>8, <3>1
    <3> QED
      BY <2>2, <2>3, <3>2
  <2>5. CASE o[2] < e[2]
    <3>1. o[2] \in e[1] .. e[2] - 1
      BY <1>4, <1>8, <1>9, <2>5
    <3>2. Drawdown(o[2]) > Drawdown(e[2])
      BY <1>8, <3>1
    <3> QED
      BY <2>2, <2>3, <3>2
  <2> QED
    BY <1>4, <2>4, <2>5
<1> QED
  BY <1>4, <1>9, <1>10, <1>12

(* The episodes cover the days below the peak, each day once.              *)
LEMMA InvDrawdowns == IngestInv => DrawdownsReconcile
<1> SUFFICES ASSUME IngestInv, Loaded PROVE DrawdownsReconcile
  BY DEF DrawdownsReconcile
<1> IngestTypeOK
  BY DEF IngestInv
<1> DEFINE n == Len(returns)
           Covers(e, i) == e[1] =< i /\ (e[3] = NotYet \/ i < e[3])
<1>1. n \in Nat /\ DOMAIN returns = 1 .. n /\ \A j \in 1 .. n : Drawdown(j) \in Int
  BY DrawdownsAre
<1>2. ASSUME NEW e \in DrawdownPeriods PROVE IsEpisode(e)
  <2>1. /\ Stretch(e[1], e[2], Ends(e))
        /\ e[3] # NotYet => Drawdown(e[3]) = 0
    BY PeriodsAre
  <2> QED
    BY <2>1 DEF IsEpisode, Stretch, Ends
<1>3. ASSUME NEW i \in DOMAIN returns, Drawdown(i) < 0
      PROVE  \E e \in DrawdownPeriods :
                /\ Covers(e, i)
                /\ \A o \in DrawdownPeriods : Covers(o, i) => o = e
  <2>1. i \in 1 .. Len(returns)
    BY <1>1
  <2>2. PICK e \in DrawdownPeriods : Covers(e, i)
    BY <1>3, <2>1, PeriodsAre
  <2>3. ASSUME NEW o \in DrawdownPeriods, Covers(o, i) PROVE o = e
    BY <2>1, <2>2, <2>3, PeriodsAreApart
  <2> QED
    BY <2>2, <2>3
<1>4. ASSUME MaxDrawdown < 0, n # 0
      PROVE  \E e \in DrawdownPeriods : Drawdown(e[2]) = MaxDrawdown
  <2> DEFINE S == {Drawdown(j) : j \in 1 .. n}
             at == [j \in 1 .. n |-> Drawdown(j)]
  <2>1. IsFiniteSet(S)
    <3>1. IsFiniteSet(1 .. n)
      BY <1>1, IntervalSize
    <3>2. at \in [1 .. n -> S] /\ \A v \in S : \E j \in 1 .. n : at[j] = v
      OBVIOUS
    <3> HIDE DEF at, S
    <3> QED
      BY <3>1, <3>2, ImageIsFinite
  <2>2. S \in SUBSET Int /\ (\A j \in 1 .. n : Drawdown(j) \in S)
    BY <1>1
  <2>3. S # {}
    <3>1. 1 \in 1 .. n
      BY <1>1, <1>4
    <3> QED
      BY <2>2, <3>1
  <2>4. \A v \in S : \E j \in 1 .. n : v = Drawdown(j)
    OBVIOUS
  <2>5. MaxDrawdown = CHOOSE v \in S : \A j \in 1 .. n : v =< Drawdown(j)
    BY <1>1 DEF MaxDrawdown
  <2> HIDE DEF S, n
  <2>6. \E v \in S : \A u \in S : v =< u
    BY <2>1, <2>2, <2>3, EndsOfSet
  <2>7. MaxDrawdown \in S /\ \A j \in 1 .. n : MaxDrawdown =< Drawdown(j)
    BY <2>2, <2>5, <2>6
  <2>8. PICK i \in 1 .. n : MaxDrawdown = Drawdown(i)
    BY <2>4, <2>7
  <2>9. PICK e \in DrawdownPeriods : Covers(e, i)
    BY <1>4, <2>8, PeriodsAre DEF n
  <2>10. /\ e \in Triples /\ Stretch(e[1], e[2], Ends(e))
         /\ e[3] # NotYet => e[3] \in 1 .. n
    BY PeriodsAre DEF n
  <2>11. e[1] \in Nat /\ e[2] \in Nat /\ e[3] \in Nat
    BY <2>10 DEF Triples
  <2>12. Ends(e) \in Nat /\ i =< Ends(e) /\ Ends(e) =< n
    <3>1. Ends(e) = IF e[3] = 0 THEN n ELSE e[3] - 1
      BY DEF Ends, NotYet, n
    <3>2. i \in Nat /\ i =< n /\ (e[3] # 0 => i < e[3] /\ e[3] =< n)
      BY <1>1, <2>9, <2>10 DEF NotYet
    <3> QED
      BY <1>1, <2>11, <3>1, <3>2
  <2>13. i \in e[1] .. Ends(e)
    BY <1>1, <2>9, <2>11, <2>12
  <2>14. Drawdown(i) >= Drawdown(e[2])
    BY <2>10, <2>13 DEF Stretch
  <2>15. e[2] \in 1 .. n
    BY <1>1, <2>10, <2>11, <2>12 DEF Stretch
  <2>16. MaxDrawdown =< Drawdown(e[2]) /\ Drawdown(e[2]) \in Int /\ MaxDrawdown \in Int
    BY <2>2, <2>7, <2>15
  <2>17. Drawdown(e[2]) = MaxDrawdown
    BY <2>8, <2>14, <2>16
  <2> QED
    BY <2>17
<1>5. n # 0
  <2>1. Len(days) >= MinObs
    BY DEF IngestInv, NavInv, Loaded
  <2>2. Len(returns) = Len(days)
    BY DEF IngestTypeOK, returns, Fund
  <2>3. MinObs \in Nat /\ MinObs # 0 /\ Len(days) \in Nat
    BY IngestAssumption DEF IngestTypeOK
  <2> QED
    BY <2>1, <2>2, <2>3
<1>6. MaxDrawdown < 0 =>
        \E e \in DrawdownPeriods : Drawdown(e[2]) = MaxDrawdown
  BY <1>4, <1>5
<1> QED
  BY <1>2, <1>3, <1>6, Zenon DEF DrawdownsReconcile

(* Every day below the peak is covered by exactly one of the episodes      *)
(* drawdown_periods() lists, each episode goes from a peak over its lowest *)
(* day to the day that reaches the peak again, and one of them holds the   *)
(* largest fall of the whole series.                                       *)
THEOREM DrawdownsAreComplete == IngestSpec => []DrawdownsReconcile
BY InvDrawdowns, IngestInvariance, PTL

----------------------------------------------------------------------------
(* Decompositions: sums of series, weights in force, days covered.         *)

(* Compounding is linear.                                                  *)
LEMMA SumsAdd ==
    ASSUME NEW p \in Seq(Int), NEW q \in Seq(Int), NEW r \in Seq(Int),
           Len(p) = Len(r), Len(q) = Len(r),
           \A k \in 1 .. Len(r) : r[k] = p[k] + q[k]
    PROVE  /\ Compound(p) \in Int /\ Compound(q) \in Int
           /\ Compound(r) = Compound(p) + Compound(q)
<1> DEFINE n == Len(r)
           P == Totals(p)
           Q == Totals(q)
           R == Totals(r)
           T == {k \in Nat : k =< n => R[k] = P[k] + Q[k]}
<1>1. n \in Nat /\ Len(p) = n /\ Len(q) = n /\ \A k \in 1 .. n : p[k] \in Int /\ q[k] \in Int
  OBVIOUS
<1>2. /\ P \in [0 .. n -> Int] /\ Q \in [0 .. n -> Int]
      /\ P[0] = 0 /\ Q[0] = 0 /\ R[0] = 0
      /\ \A k \in 1 .. n : P[k] = P[k - 1] + p[k]
      /\ \A k \in 1 .. n : Q[k] = Q[k - 1] + q[k]
      /\ \A k \in 1 .. n : R[k] = R[k - 1] + r[k]
  BY <1>1, TotalsAre
<1>3. \A k \in 1 .. n : r[k] = p[k] + q[k]
  OBVIOUS
<1>4. Compound(p) = P[n] /\ Compound(q) = Q[n] /\ Compound(r) = R[n]
  BY <1>1 DEF Compound
<1> HIDE DEF n, P, Q, R
<1>5. 0 \in T
  BY <1>2
<1>6. ASSUME NEW k \in Nat, k \in T PROVE k + 1 \in T
  <2> SUFFICES ASSUME k + 1 =< n PROVE R[k + 1] = P[k + 1] + Q[k + 1]
    OBVIOUS
  <2>1. k + 1 \in 1 .. n /\ (k + 1) - 1 = k /\ k =< n /\ k \in 0 .. n
    BY <1>1
  <2>2. R[k] = P[k] + Q[k] /\ P[k] \in Int /\ Q[k] \in Int
    BY <1>2, <1>6, <2>1
  <2>3. p[k + 1] \in Int /\ q[k + 1] \in Int /\ r[k + 1] = p[k + 1] + q[k + 1]
    BY <1>1, <1>3, <2>1
  <2>4. /\ P[k + 1] = P[k] + p[k + 1] /\ Q[k + 1] = Q[k] + q[k + 1]
        /\ R[k + 1] = R[k] + r[k + 1]
    BY <1>2, <2>1
  <2>5. \A w, x, y, z \in Int : (w + x) + (y + z) = (w + y) + (x + z)
    OBVIOUS
  <2>6. R[k + 1] = (P[k] + Q[k]) + (p[k + 1] + q[k + 1])
    BY <2>2, <2>3, <2>4
  <2>7. R[k + 1] = (P[k] + p[k + 1]) + (Q[k] + q[k + 1])
    BY ONLY <2>2, <2>3, <2>5, <2>6
  <2> QED
    BY ONLY <2>4, <2>7
<1> HIDE DEF T
<1>7. n \in T
  BY <1>1, <1>5, <1>6, InductiveNat
<1> QED
  BY <1>1, <1>2, <1>4, <1>7 DEF T

(* A series scaled by w compounds to w times as much.                      *)
LEMMA SumsScale ==
    ASSUME NEW w \in Int, NEW p \in Seq(Int), NEW r \in Seq(Int), Len(p) = Len(r),
           \A k \in 1 .. Len(r) : r[k] = w * p[k]
    PROVE  Compound(p) \in Int /\ Compound(r) = w * Compound(p)
<1> DEFINE n == Len(r)
           P == Totals(p)
           R == Totals(r)
           T == {k \in Nat : k =< n => R[k] = w * P[k]}
<1>1. n \in Nat /\ Len(p) = n /\ \A k \in 1 .. n : p[k] \in Int
  OBVIOUS
<1>2. /\ P \in [0 .. n -> Int] /\ P[0] = 0 /\ R[0] = 0
      /\ \A k \in 1 .. n : P[k] = P[k - 1] + p[k]
      /\ \A k \in 1 .. n : R[k] = R[k - 1] + r[k]
  BY <1>1, TotalsAre
<1>3. \A k \in 1 .. n : r[k] = w * p[k]
  OBVIOUS
<1>4. Compound(p) = P[n] /\ Compound(r) = R[n]
  BY <1>1 DEF Compound
<1> HIDE DEF n, P, R
<1>5. 0 \in T
  BY <1>2
<1>6. ASSUME NEW k \in Nat, k \in T PROVE k + 1 \in T
  <2> SUFFICES ASSUME k + 1 =< n PROVE R[k + 1] = w * P[k + 1]
    OBVIOUS
  <2>1. k + 1 \in 1 .. n /\ (k + 1) - 1 = k /\ k =< n /\ k \in 0 .. n
    BY <1>1
  <2>2. R[k] = w * P[k] /\ P[k] \in Int
    BY <1>2, <1>6, <2>1
  <2>3. p[k + 1] \in Int /\ r[k + 1] = w * p[k + 1]
    BY <1>1, <1>3, <2>1
  <2>4. P[k + 1] = P[k] + p[k + 1] /\ R[k + 1] = R[k] + r[k + 1]
    BY <1>2, <2>1
  <2>5. \A x, y \in Int : w * (x + y) = w * x + w * y
    OBVIOUS
  <2> QED
    BY <2>2, <2>3, <2>4, <2>5
<1> HIDE DEF T
<1>7. n \in T
  BY <1>1, <1>5, <1>6, InductiveNat
<1> QED
  BY <1>1, <1>2, <1>4, <1>7 DEF T

(* The days a plan covers, and their order.                                *)
LEMMA DaysAscend ==
    ASSUME IngestInv, Loaded
    PROVE  /\ Len(days) \in Nat /\ DOMAIN days = 1 .. Len(days)
           /\ \A i \in 1 .. Len(days) : days[i] \in Nat
           /\ \A i, j \in 1 .. Len(days) : i < j => days[i] < days[j]
<1>1. /\ IngestTypeOK /\ SortedInv /\ NavInv /\ Computed
      /\ report.mode \in {"nav", "returns"}
  BY DEF IngestInv, NavInv, Loaded, Computed
<1>2. /\ Len(days) \in Nat /\ DOMAIN days = 1 .. Len(days)
      /\ \A i \in 1 .. Len(days) : days[i] \in Nat
  BY <1>1 DEF IngestTypeOK
<1>3. /\ Len(rows) \in Nat /\ DOMAIN rows = 1 .. Len(rows)
      /\ \A a, b \in 1 .. Len(rows) : a < b => RowDay(rows[a]) < RowDay(rows[b])
  BY LoadedRows
<1>4. CASE report.mode = "returns"
  <2>1. days = [n \in 1 .. Len(rows) |-> RowDay(rows[n])]
    BY <1>1, <1>3, <1>4 DEF SortedInv, DaysOf, RowDay
  <2>2. Len(days) = Len(rows)
    BY <1>3, <2>1
  <2> QED
    BY <1>2, <1>3, <2>1, <2>2
<1>5. CASE report.mode = "nav"
  <2>1. days = [n \in 1 .. Len(rows) - 1 |-> RowDay(rows[n + 1])]
    BY <1>1, <1>5 DEF NavInv
  <2>2. DOMAIN days = 1 .. Len(rows) - 1
    BY <2>1
  <2>3. ASSUME NEW i \in 1 .. Len(days), NEW j \in 1 .. Len(days), i < j
        PROVE  days[i] < days[j]
    <3>1. i \in 1 .. Len(rows) - 1 /\ j \in 1 .. Len(rows) - 1
      BY <1>2, <2>2
    <3>2. i + 1 \in 1 .. Len(rows) /\ j + 1 \in 1 .. Len(rows) /\ i + 1 < j + 1
      BY <1>3, <2>3, <3>1
    <3>3. days[i] = RowDay(rows[i + 1]) /\ days[j] = RowDay(rows[j + 1])
      BY <2>1, <3>1
    <3> QED
      BY <1>3, <3>2, <3>3
  <2> QED
    BY <1>2, <2>3
<1> QED
  BY <1>1, <1>4, <1>5

(* Positions of a series, in order.                                        *)
LEMMA PositionsInOrder ==
    ASSUME NEW n \in Nat, NEW K \in SUBSET (1 .. n)
    PROVE  /\ Cardinality(K) \in 0 .. n
           /\ InOrder(K) \in Seq(1 .. n) /\ Len(InOrder(K)) = Cardinality(K)
           /\ DOMAIN InOrder(K) = 1 .. Cardinality(K)
           /\ \A k \in 1 .. Cardinality(K) : InOrder(K)[k] \in K
           /\ \A i \in K : \E k \in 1 .. Cardinality(K) : InOrder(K)[k] = i
           /\ \A a, b \in 1 .. Cardinality(K) : a < b => InOrder(K)[a] < InOrder(K)[b]
<1>1. K \in SUBSET Int
  OBVIOUS
<1>2. IsFiniteSet(K) /\ Cardinality(K) \in 0 .. n
  BY PositionsSplit
<1>3. /\ InOrder(K) \in Seq(K) /\ Len(InOrder(K)) = Cardinality(K)
      /\ \A k \in 1 .. Cardinality(K) : InOrder(K)[k] \in K
      /\ \A i \in K : \E k \in 1 .. Cardinality(K) : InOrder(K)[k] = i
      /\ \A a, b \in 1 .. Cardinality(K) : a < b => InOrder(K)[a] < InOrder(K)[b]
  BY <1>1, <1>2, InOrderLists
<1>4. DOMAIN InOrder(K) = 1 .. Cardinality(K)
  BY <1>3
<1>5. \A k \in 1 .. Cardinality(K) : InOrder(K)[k] \in 1 .. n
  BY <1>3
<1>6. InOrder(K) \in Seq(1 .. n)
  BY <1>3, <1>4, <1>5
<1> QED
  BY <1>2, <1>3, <1>4, <1>6

(* They are days of the file, ascending, from the first effective date.    *)
LEMMA CoveredDaysAre ==
    ASSUME IngestInv, Loaded, NEW plan \in Plans
    PROVE  /\ CoveredDays(plan) \in Seq(Nat)
           /\ Len(CoveredDays(plan)) \in 0 .. Len(days)
           /\ DOMAIN CoveredDays(plan) = 1 .. Len(CoveredDays(plan))
           /\ \A t \in 1 .. Len(CoveredDays(plan)) :
                 CoveredDays(plan)[t] \in Nat /\ CoveredDays(plan)[t] >= plan[1].from
           /\ \A t, u \in 1 .. Len(CoveredDays(plan)) :
                 t < u => CoveredDays(plan)[t] < CoveredDays(plan)[u]
<1> DEFINE n == Len(days)
           K == {i \in DOMAIN days : days[i] >= plan[1].from}
           c == Cardinality(K)
           o == InOrder(K)
           D == CoveredDays(plan)
<1>1. /\ n \in Nat /\ DOMAIN days = 1 .. n
      /\ \A i \in 1 .. n : days[i] \in Nat
      /\ \A i, j \in 1 .. n : i < j => days[i] < days[j]
  BY DaysAscend
<1>2. K \in SUBSET (1 .. n) /\ \A i \in K : days[i] >= plan[1].from
  BY <1>1
<1>3. D = [k \in DOMAIN o |-> days[o[k]]]
  BY DEF CoveredDays, Kept
<1> HIDE DEF n, K
<1>4. /\ c \in 0 .. n /\ DOMAIN o = 1 .. c
      /\ \A k \in 1 .. c : o[k] \in K
      /\ \A a, b \in 1 .. c : a < b => o[a] < o[b]
  BY <1>1, <1>2, PositionsInOrder
<1> HIDE DEF o, c, D
<1>5. D = [k \in 1 .. c |-> days[o[k]]] /\ c \in Nat
  BY <1>1, <1>3, <1>4
<1>6. \A k \in 1 .. c : o[k] \in 1 .. n /\ days[o[k]] \in Nat /\ days[o[k]] >= plan[1].from
  BY <1>1, <1>2, <1>4
<1>7. D \in Seq(Nat) /\ Len(D) = c /\ DOMAIN D = 1 .. c
  BY <1>5, <1>6
<1>8. \A t, u \in 1 .. c : t < u => D[t] < D[u]
  BY <1>1, <1>4, <1>5, <1>6
<1> QED
  BY <1>4, <1>5, <1>6, <1>7, <1>8 DEF D, n

(* The last plan entry that has started gives the weights in force.        *)
LEMMA InForceIs ==
    ASSUME NEW plan \in Plans, NEW d \in Nat, d >= plan[1].from
    PROVE  /\ InForce(plan, d) \in [Fund -> 0 .. Whole]
           /\ d >= Last(plan).from => InForce(plan, d) = Last(plan).weights
<1> DEFINE n == Len(plan)
           T == {k \in 1 .. n : plan[k].from =< d}
           InForceAt(k) == plan[k].from =< d /\ \A m \in k + 1 .. n : plan[m].from > d
           last == CHOOSE k \in 1 .. n : InForceAt(k)
<1>1. plan \in Seq([from : Nat, weights : [Fund -> 0 .. Whole]]) /\ plan # << >>
  BY ToolkitAssumption
<1>2. /\ n \in Nat \ {0} /\ DOMAIN plan = 1 .. n
      /\ \A k \in 1 .. n : plan[k].from \in Nat /\ plan[k].weights \in [Fund -> 0 .. Whole]
  <2>1. n \in Nat /\ n # 0 /\ DOMAIN plan = 1 .. n
    BY <1>1
  <2> DEFINE E == [from : Nat, weights : [Fund -> 0 .. Whole]]
  <2>2. \A e \in E : e.from \in Nat /\ e.weights \in [Fund -> 0 .. Whole]
    OBVIOUS
  <2>3. plan \in Seq(E)
    BY <1>1
  <2> HIDE DEF E
  <2>4. \A k \in 1 .. n : plan[k] \in E
    BY <2>3
  <2> QED
    BY <2>1, <2>2, <2>4
<1>3. InForce(plan, d) = plan[last].weights
  BY <1>2 DEF InForce
<1>4. Last(plan) = plan[n]
  BY DEF Last
<1> HIDE DEF n
<1>5. \E k \in 1 .. n : InForceAt(k)
  <2>1. T \in SUBSET (1 .. n) /\ T \in SUBSET Int
    OBVIOUS
  <2>2. IsFiniteSet(T)
    BY <1>2, <2>1, PositionsSplit
  <2>3. 1 \in T
    BY <1>2
  <2> HIDE DEF T
  <2>4. PICK k \in T : \A m \in T : m =< k
    BY <2>1, <2>2, <2>3, EndsOfSet
  <2>5. k \in 1 .. n
    BY <2>1
  <2>6. plan[k].from =< d
    BY DEF T
  <2>7. ASSUME NEW m \in k + 1 .. n PROVE plan[m].from > d
    <3>1. m \in 1 .. n /\ ~(m =< k)
      BY <1>2, <2>5
    <3>2. m \notin T
      BY <2>4, <3>1
    <3>3. plan[m].from \in Nat /\ ~(plan[m].from =< d)
      BY <1>2, <3>1, <3>2 DEF T
    <3> QED
      BY <3>3
  <2> QED
    BY <2>5, <2>6, <2>7
<1>6. last \in 1 .. n /\ InForceAt(last)
  <2> HIDE DEF InForceAt
  <2> QED
    BY <1>5
<1> HIDE DEF last
<1>7. d >= plan[n].from => last = n
  <2> SUFFICES ASSUME d >= plan[n].from, last # n PROVE FALSE
    OBVIOUS
  <2>1. n \in last + 1 .. n
    BY <1>2, <1>6
  <2>2. plan[n].from > d /\ plan[n].from \in Nat
    BY <1>2, <1>6, <2>1
  <2> QED
    BY <2>2
<1> QED
  BY <1>2, <1>3, <1>4, <1>6, <1>7

(* The contributions of a fund and the series they add up to.              *)
LEMMA ContributionsAre ==
    ASSUME IngestInv, Loaded, NEW plan \in Plans
    PROVE  LET N == Len(CoveredDays(plan))
               c == Contributions(plan)
               p == PlanReturns(plan)
           IN  /\ N \in Nat /\ DOMAIN CoveredDays(plan) = 1 .. N
               /\ \A f \in Fund :
                     /\ c[f] \in Seq(Int) /\ Len(c[f]) = N
                     /\ fundReturns[f] \in Seq(Int) /\ N =< Len(fundReturns[f])
                     /\ \A t \in 1 .. N :
                           c[f][t] = InForce(plan, CoveredDays(plan)[t])[f] * fundReturns[f][t]
               /\ p \in Seq(Int) /\ Len(p) = N
               /\ \A t \in 1 .. N : p[t] = c["a"][t] + c["b"][t]
<1> DEFINE D == CoveredDays(plan)
           N == Len(D)
           c == Contributions(plan)
           p == PlanReturns(plan)
           W(t) == InForce(plan, D[t])
<1>1. /\ N \in Nat /\ DOMAIN D = 1 .. N /\ N =< Len(days) /\ Len(days) \in Nat
      /\ \A t \in 1 .. N : D[t] \in Nat /\ D[t] >= plan[1].from
  <2>1. /\ Len(CoveredDays(plan)) \in 0 .. Len(days) /\ Len(days) \in Nat
        /\ DOMAIN CoveredDays(plan) = 1 .. Len(CoveredDays(plan))
        /\ \A t \in 1 .. Len(CoveredDays(plan)) :
              CoveredDays(plan)[t] \in Nat /\ CoveredDays(plan)[t] >= plan[1].from
    BY CoveredDaysAre, DaysAscend
  <2> QED
    BY <2>1
<1>2. \A f \in Fund : fundReturns[f] \in Seq(Int) /\ Len(fundReturns[f]) = Len(days)
  BY DEF IngestInv, IngestTypeOK
<1>3. c = [f \in Fund |-> [t \in 1 .. N |-> W(t)[f] * fundReturns[f][t]]]
  BY <1>1 DEF Contributions
<1>4. p = [t \in 1 .. N |-> W(t)["a"] * fundReturns["a"][t] + W(t)["b"] * fundReturns["b"][t]]
  BY <1>1 DEF PlanReturns, Total, Fund
<1> HIDE DEF D, N, c, p
<1>5. \A t \in 1 .. N : W(t) \in [Fund -> 0 .. Whole]
  BY <1>1, InForceIs
<1> HIDE DEF W
<1>6. \A f \in Fund, t \in 1 .. N : W(t)[f] \in Int /\ fundReturns[f][t] \in Int
  <2> TAKE f \in Fund, t \in 1 .. N
  <2>1. W(t)[f] \in 0 .. Whole /\ Whole \in Nat
    BY <1>5, ToolkitAssumption
  <2>2. t \in 1 .. Len(fundReturns[f])
    BY <1>1, <1>2
  <2> QED
    BY <1>2, <2>1, <2>2
<1>7. \A f \in Fund, t \in 1 .. N : W(t)[f] * fundReturns[f][t] \in Int
  BY <1>6
<1>8. ASSUME NEW f \in Fund
      PROVE  /\ c[f] \in Seq(Int) /\ Len(c[f]) = N
             /\ \A t \in 1 .. N : c[f][t] = W(t)[f] * fundReturns[f][t]
  <2>1. c[f] = [t \in 1 .. N |-> W(t)[f] * fundReturns[f][t]]
    BY <1>3
  <2> QED
    BY <1>1, <1>7, <2>1
<1>9. "a" \in Fund /\ "b" \in Fund
  BY DEF Fund
<1>10. \A t \in 1 .. N : p[t] \in Int /\ p[t] = c["a"][t] + c["b"][t]
  BY <1>4, <1>7, <1>8, <1>9
<1>11. p \in Seq(Int) /\ Len(p) = N
  BY <1>1, <1>4, <1>10
<1>12. \A f \in Fund : N =< Len(fundReturns[f])
  BY <1>1, <1>2
<1> QED
  BY <1>1, <1>2, <1>8, <1>10, <1>11, <1>12 DEF W, D, N, c, p

(* Covariance is linear in its first series.                               *)
Covariance(c, p) ==
    Len(p) * Compound([t \in DOMAIN p |-> c[t] * p[t]]) - Compound(c) * Compound(p)

(* The covariances of two parts with their sum add up to its variance.     *)
LEMMA CovariancesAdd ==
    ASSUME NEW x \in Seq(Int), NEW y \in Seq(Int), NEW p \in Seq(Int),
           Len(x) = Len(p), Len(y) = Len(p),
           \A t \in 1 .. Len(p) : p[t] = x[t] + y[t]
    PROVE  /\ Compound(x) \in Int /\ Compound(y) \in Int
           /\ Covariance(x, p) \in Int /\ Covariance(y, p) \in Int
           /\ Compound(p) = Compound(x) + Compound(y)
           /\ Spread(p) = Covariance(x, p) + Covariance(y, p)
<1> DEFINE n == Len(p)
           xp == [t \in 1 .. n |-> x[t] * p[t]]
           yp == [t \in 1 .. n |-> y[t] * p[t]]
           pp == [t \in 1 .. n |-> p[t] * p[t]]
<1>1. /\ n \in Nat /\ DOMAIN p = 1 .. n
      /\ \A t \in 1 .. n : x[t] \in Int /\ y[t] \in Int /\ p[t] \in Int /\ p[t] = x[t] + y[t]
  OBVIOUS
<1>2. /\ Covariance(x, p) = n * Compound(xp) - Compound(x) * Compound(p)
      /\ Covariance(y, p) = n * Compound(yp) - Compound(y) * Compound(p)
      /\ Spread(p) = n * Compound(pp) - Compound(p) * Compound(p)
  BY <1>1 DEF Covariance, Spread
<1>3. /\ Compound(x) \in Int /\ Compound(y) \in Int
      /\ Compound(p) = Compound(x) + Compound(y)
  BY SumsAdd
<1>4. \A u, v, w \in Int : (u + v) * w = u * w + v * w /\ u * w \in Int
  OBVIOUS
<1>5. /\ xp \in Seq(Int) /\ yp \in Seq(Int) /\ pp \in Seq(Int)
      /\ Len(xp) = n /\ Len(yp) = n /\ Len(pp) = n
  <2>1. \A t \in 1 .. n : x[t] * p[t] \in Int /\ y[t] * p[t] \in Int /\ p[t] * p[t] \in Int
    BY <1>1, <1>4
  <2> QED
    BY <1>1, <2>1
<1>6. \A t \in 1 .. n : pp[t] = xp[t] + yp[t]
  BY <1>1, <1>4
<1> HIDE DEF n, xp, yp, pp
<1>7. /\ Compound(xp) \in Int /\ Compound(yp) \in Int
      /\ Compound(pp) = Compound(xp) + Compound(yp)
  <2>1. /\ Len(xp) = Len(pp) /\ Len(yp) = Len(pp)
        /\ \A t \in 1 .. Len(pp) : pp[t] = xp[t] + yp[t]
    BY ONLY <1>5, <1>6
  <2>2. xp \in Seq(Int) /\ yp \in Seq(Int) /\ pp \in Seq(Int)
    BY <1>5
  <2> QED
    BY ONLY <2>1, <2>2, SumsAdd, Zenon
<1> DEFINE A == Compound(xp)
           B == Compound(yp)
           X == Compound(x)
           Y == Compound(y)
           P == Compound(p)
<1>8. A \in Int /\ B \in Int /\ X \in Int /\ Y \in Int /\ P \in Int /\ P = X + Y /\ n \in Int
  BY <1>1, <1>3, <1>7
<1>9. /\ Covariance(x, p) = n * A - X * P /\ Covariance(y, p) = n * B - Y * P
      /\ Spread(p) = n * (A + B) - P * P
  BY <1>2, <1>7
<1> HIDE DEF A, B, X, Y, P
<1>10. n * (A + B) = n * A + n * B
  BY ONLY <1>8
<1>11. P * P = X * P + Y * P
  BY ONLY <1>4, <1>8
<1>12. n * A \in Int /\ n * B \in Int /\ X * P \in Int /\ Y * P \in Int
  BY ONLY <1>4, <1>8
<1>13. Spread(p) = (n * A - X * P) + (n * B - Y * P)
  BY ONLY <1>9, <1>10, <1>11, <1>12
<1> QED
  BY <1>3, <1>9, <1>12, <1>13

(* A fund that never contributed has none.                                 *)
LEMMA NothingContributed ==
    ASSUME NEW x \in Seq(Int), NEW p \in Seq(Int), Len(x) = Len(p),
           \A t \in 1 .. Len(p) : x[t] = 0
    PROVE  Compound(x) = 0 /\ Covariance(x, p) = 0
<1> DEFINE n == Len(p)
           xp == [t \in 1 .. n |-> x[t] * p[t]]
<1>1. n \in Nat /\ DOMAIN p = 1 .. n /\ \A t \in 1 .. n : p[t] \in Int
  OBVIOUS
<1>2. \A t \in 1 .. Len(x) : x[t] = 0 * x[t]
  OBVIOUS
<1>3. Compound(x) = 0
  <2>1. Compound(x) \in Int /\ Compound(x) = 0 * Compound(x)
    <3>1. 0 \in Int /\ x \in Seq(Int) /\ Len(x) = Len(x)
      OBVIOUS
    <3> QED
      BY ONLY <1>2, <3>1, SumsScale, Zenon
  <2> QED
    BY <2>1
<1>4. \A t \in 1 .. n : x[t] * p[t] = 0
  BY <1>1
<1>5. xp \in Seq(Int) /\ Len(xp) = n /\ \A t \in 1 .. Len(xp) : xp[t] = 0 * xp[t]
  BY <1>1, <1>4
<1>6. Covariance(x, p) = n * Compound(xp) - Compound(x) * Compound(p)
  BY <1>1 DEF Covariance
<1> HIDE DEF xp
<1>7. Compound(xp) = 0
  <2>1. Compound(xp) \in Int /\ Compound(xp) = 0 * Compound(xp)
    <3>1. 0 \in Int /\ xp \in Seq(Int) /\ Len(xp) = Len(xp)
      BY <1>5
    <3> QED
      BY ONLY <1>5, <3>1, SumsScale, Zenon
  <2> QED
    BY <2>1
<1>8. Compound(p) \in Int
  <2>1. \A t \in 1 .. Len(p) : p[t] = 1 * p[t]
    BY <1>1
  <2>2. 1 \in Int /\ p \in Seq(Int) /\ Len(p) = Len(p)
    OBVIOUS
  <2> QED
    BY ONLY <2>1, <2>2, SumsScale, Zenon
<1> QED
  BY <1>1, <1>3, <1>6, <1>7, <1>8

(* The funds with a row and those without: all of the return and risk.     *)
LEMMA InvContributions == IngestInv => ContributionsAddUp
<1> SUFFICES ASSUME IngestInv, Loaded, NEW plan \in Plans
             PROVE  LET parts == FundContribution(plan)
                        Of(f) == IF f \in DOMAIN parts
                                 THEN parts[f] ELSE [contribution |-> 0, risk |-> 0]
                    IN  /\ Total([f \in Fund |-> Of(f).contribution]) =
                              Compound(PlanReturns(plan))
                        /\ Total([f \in Fund |-> Of(f).risk]) = Spread(PlanReturns(plan))
  BY DEF ContributionsAddUp
<1> DEFINE c == Contributions(plan)
           p == PlanReturns(plan)
           N == Len(CoveredDays(plan))
           parts == FundContribution(plan)
           Of(f) == IF f \in DOMAIN parts THEN parts[f] ELSE [contribution |-> 0, risk |-> 0]
           active == {g \in Fund : \E t \in 1 .. N : c[g][t] # 0}
<1>1. /\ N \in Nat /\ DOMAIN CoveredDays(plan) = 1 .. N
      /\ \A f \in Fund : c[f] \in Seq(Int) /\ Len(c[f]) = N
      /\ p \in Seq(Int) /\ Len(p) = N /\ DOMAIN p = 1 .. N
      /\ \A t \in 1 .. N : p[t] = c["a"][t] + c["b"][t]
  BY ContributionsAre
<1>2. p = [t \in 1 .. N |-> c["a"][t] + c["b"][t]]
  BY <1>1
<1>3. parts = [f \in active |-> [contribution |-> Compound(c[f]), risk |-> Covariance(c[f], p)]]
  <2> DEFINE q == [t \in DOMAIN CoveredDays(plan) |-> Total([f \in Fund |-> c[f][t]])]
  <2>1. q = p
    BY <1>1, <1>2 DEF Total, Fund
  <2>2. FundContribution(plan) =
          [f \in {g \in Fund : \E t \in DOMAIN q : c[g][t] # 0} |->
              [contribution |-> Compound(c[f]),
               risk |-> Len(q) * Compound([t \in DOMAIN q |-> c[f][t] * q[t]])
                          - Compound(c[f]) * Compound(q)]]
    BY DEF FundContribution
  <2> HIDE DEF q, p, c
  <2>3. {g \in Fund : \E t \in DOMAIN q : c[g][t] # 0} = active
    BY <1>1, <2>1
  <2>4. \A f : Len(q) * Compound([t \in DOMAIN q |-> c[f][t] * q[t]])
                 - Compound(c[f]) * Compound(q) = Covariance(c[f], p)
    BY <2>1 DEF Covariance
  <2> QED
    BY ONLY <2>2, <2>3, <2>4
<1> HIDE DEF c, p, N, parts
<1>4. "a" \in Fund /\ "b" \in Fund
  BY DEF Fund
<1>5. ASSUME NEW f \in Fund
      PROVE  Of(f).contribution = Compound(c[f]) /\ Of(f).risk = Covariance(c[f], p)
  <2>1. CASE f \in active
    BY <1>3, <2>1
  <2>2. CASE f \notin active
    <3>1. \A t \in 1 .. Len(p) : c[f][t] = 0
      BY <1>1, <2>2
    <3>2. Compound(c[f]) = 0 /\ Covariance(c[f], p) = 0
      <4>1. c[f] \in Seq(Int) /\ p \in Seq(Int) /\ Len(c[f]) = Len(p)
        BY <1>1
      <4> QED
        BY ONLY <3>1, <4>1, NothingContributed, Zenon
    <3>3. Of(f) = [contribution |-> 0, risk |-> 0]
      BY <1>3, <2>2
    <3> QED
      BY <3>2, <3>3
  <2> QED
    BY <2>1, <2>2
<1>6. /\ Compound(p) = Compound(c["a"]) + Compound(c["b"])
      /\ Spread(p) = Covariance(c["a"], p) + Covariance(c["b"], p)
  <2>1. /\ c["a"] \in Seq(Int) /\ c["b"] \in Seq(Int) /\ p \in Seq(Int)
        /\ Len(c["a"]) = Len(p) /\ Len(c["b"]) = Len(p)
        /\ \A t \in 1 .. Len(p) : p[t] = c["a"][t] + c["b"][t]
    BY <1>1, <1>4
  <2> QED
    BY ONLY <2>1, CovariancesAdd, Zenon
<1> HIDE DEF active
<1>7. /\ Total([f \in Fund |-> Of(f).contribution]) = Of("a").contribution + Of("b").contribution
      /\ Total([f \in Fund |-> Of(f).risk]) = Of("a").risk + Of("b").risk
  BY <1>4 DEF Total
<1>8. /\ Total([f \in Fund |-> Of(f).contribution]) = Compound(p)
      /\ Total([f \in Fund |-> Of(f).risk]) = Spread(p)
  BY <1>4, <1>5, <1>6, <1>7
<1> QED
  BY <1>8 DEF parts, p

(* The groups of the funds hold the weight of the funds.                   *)
LEMMA GroupsHoldAll ==
    ASSUME NEW group, NEW weights \in [Fund -> Int]
    PROVE  SumOfGroups(group, weights) = Total(weights)
<1> DEFINE held == {f \in Fund : weights[f] # 0}
           breakdown == Breakdown(group, weights)
           In(k) == [f \in Fund |-> IF group[f] = k THEN weights[f] ELSE 0]
           Of(k) == IF k \in DOMAIN breakdown THEN breakdown[k] ELSE 0
<1>1. weights["a"] \in Int /\ weights["b"] \in Int /\ Fund = {"a", "b"} /\ "a" # "b"
  BY DEF Fund
<1>2. breakdown = [k \in {group[f] : f \in held} |-> Total(In(k))]
  BY DEF Breakdown
<1>3. \A k : Total(In(k)) = (IF group["a"] = k THEN weights["a"] ELSE 0)
                              + (IF group["b"] = k THEN weights["b"] ELSE 0)
  BY <1>1 DEF Total
<1> HIDE DEF breakdown, In
<1>4. ASSUME NEW f \in Fund PROVE Of(group[f]) = Total(In(group[f]))
  <2>1. CASE group[f] \in {group[g] : g \in held}
    BY <1>2, <2>1
  <2>2. CASE group[f] \notin {group[g] : g \in held}
    <3>1. \A g \in Fund : group[g] = group[f] => weights[g] = 0
      BY <2>2
    <3>2. Total(In(group[f])) = 0
      BY <1>1, <1>3, <3>1
    <3> QED
      BY <1>2, <2>2, <3>2
  <2> QED
    BY <2>1, <2>2
<1>5. SumOfGroups(group, weights) = IF group["a"] = group["b"] THEN Of(group["a"])
                                    ELSE Of(group["a"]) + Of(group["b"])
  BY DEF SumOfGroups, breakdown
<1> HIDE DEF Of
<1>6. Of(group["a"]) = Total(In(group["a"])) /\ Of(group["b"]) = Total(In(group["b"]))
  BY <1>1, <1>4
<1> QED
  BY <1>1, <1>3, <1>5, <1>6 DEF Total

(* The allocation in force at the end.                                     *)
LEMMA LastWeights ==
    ASSUME NEW plan \in Plans
    PROVE  /\ Last(plan).weights \in [Fund -> 0 .. Whole]
           /\ Last(plan).weights \in [Fund -> Int]
           /\ Last(plan).from \in Nat /\ plan[1].from \in Nat
<1> DEFINE E == [from : Nat, weights : [Fund -> 0 .. Whole]]
<1>1. \A e \in E : e.from \in Nat /\ e.weights \in [Fund -> 0 .. Whole]
  OBVIOUS
<1>2. plan \in Seq(E) /\ plan # << >> /\ Whole \in Nat
  BY ToolkitAssumption
<1> HIDE DEF E
<1>3. plan[Len(plan)] \in E /\ plan[1] \in E
  BY <1>2
<1>4. Last(plan) = plan[Len(plan)]
  BY DEF Last
<1>5. 0 .. Whole \subseteq Int
  BY <1>2
<1> QED
  BY <1>1, <1>3, <1>4, <1>5

(* Both breakdowns hold the weight of all funds.                           *)
LEMMA BreakdownsSumUp == BreakdownsAddUp
BY LastWeights, GroupsHoldAll DEF BreakdownsAddUp

(* 2 to the power of n: 1 for 0, more for more.                            *)
LEMMA DoublingsAre ==
    ASSUME NEW n \in Nat
    PROVE  Doublings(n) \in Nat /\ (n = 0 => Doublings(n) = 1) /\ (n > 0 => Doublings(n) > 1)
<1> DEFINE Doubles(f) == f = [k \in 0 .. n |-> IF k = 0 THEN 1 ELSE 2 * f[k - 1]]
           step == [k \in 1 .. n |-> [x \in Int |-> 2 * x]]
           g == CHOOSE h : Doubles(h)
<1>1. step \in [1 .. n -> [Int -> Int]] /\ \A k \in 1 .. n, x \in Int : step[k][x] = 2 * x
  OBVIOUS
<1> HIDE DEF step
<1>2. PICK f \in [0 .. n -> Int] : Follows(f, n, 1, step)
  <2>1. 1 \in Int /\ n \in Nat
    OBVIOUS
  <2> QED
    BY ONLY <1>1, <2>1, RecursionExists, Zenon
<1>3. Doubles(f)
  <2>1. ASSUME NEW k \in 0 .. n
        PROVE  f[k] = IF k = 0 THEN 1 ELSE 2 * f[k - 1]
    <3>1. f[k] = IF k = 0 THEN 1 ELSE step[k][f[k - 1]]
      BY <1>2 DEF Follows
    <3>2. k # 0 => k \in 1 .. n /\ f[k - 1] \in Int
      OBVIOUS
    <3> QED
      BY <1>1, <3>1, <3>2
  <2>2. f = [k \in 0 .. n |-> f[k]]
    OBVIOUS
  <2> QED
    BY <2>1, <2>2
<1>4. Doublings(n) = g[n]
  BY DEF Doublings
<1>5. Doubles(g)
  <2> HIDE DEF Doubles
  <2> QED
    BY <1>3
<1> HIDE DEF g
<1>6. g[0] = 1 /\ \A k \in 1 .. n : g[k] = 2 * g[k - 1]
  BY <1>5
<1> DEFINE T == {k \in Nat : k =< n => g[k] \in Nat /\ g[k] > k}
<1>7. 0 \in T
  BY <1>6
<1>8. ASSUME NEW k \in Nat, k \in T PROVE k + 1 \in T
  <2> SUFFICES ASSUME k + 1 =< n PROVE g[k + 1] \in Nat /\ g[k + 1] > k + 1
    OBVIOUS
  <2>1. k + 1 \in 1 .. n /\ k =< n /\ (k + 1) - 1 = k
    OBVIOUS
  <2>2. g[k] \in Nat /\ g[k] > k
    BY <1>8, <2>1
  <2>3. g[k + 1] = 2 * g[k]
    BY <1>6, <2>1
  <2> QED
    BY <2>2, <2>3
<1> HIDE DEF T
<1>9. n \in T
  BY <1>7, <1>8, InductiveNat
<1>10. g[n] \in Nat /\ g[n] > n
  BY <1>9 DEF T
<1> QED
  BY <1>4, <1>6, <1>10

(* The days since the last rebalance are the last days covered.            *)
LEMMA SinceRebalanceIs ==
    ASSUME IngestInv, Loaded, NEW plan \in Plans, CanDrift(plan)
    PROVE  LET N == Len(CoveredDays(plan))
               first == SinceRebalance(plan)[1]
           IN  /\ N \in Nat /\ first \in 1 .. N
               /\ SinceRebalance(plan) = [k \in 1 .. N - first + 1 |-> first + k - 1]
               /\ \A t \in first .. N : CoveredDays(plan)[t] >= Last(plan).from
<1> DEFINE D == CoveredDays(plan)
           N == Len(D)
           from == Last(plan).from
           K == {t \in DOMAIN D : D[t] >= from}
<1>1. /\ N \in Nat /\ DOMAIN D = 1 .. N
      /\ \A t \in 1 .. N : D[t] \in Nat
      /\ \A t, u \in 1 .. N : t < u => D[t] < D[u]
  BY CoveredDaysAre
<1>2. from \in Nat
  BY LastWeights
<1>3. SinceRebalance(plan) = InOrder(K)
  BY DEF SinceRebalance
<1> HIDE DEF D, N, from
<1>4. K \in SUBSET (1 .. N) /\ K \in SUBSET Int /\ \A t \in 1 .. N : t \in K <=> D[t] >= from
  BY <1>1
<1> HIDE DEF K
<1>5. IsFiniteSet(K) /\ DOMAIN InOrder(K) = 1 .. Cardinality(K) /\ InOrder(K) \in Seq(1 .. N)
      /\ Cardinality(K) \in Nat
  <2>1. IsFiniteSet(K)
    BY <1>1, <1>4, PositionsSplit
  <2> QED
    BY <1>1, <1>4, <2>1, PositionsInOrder
<1>6. K # {}
  <2>1. InOrder(K) # << >>
    BY <1>3 DEF CanDrift
  <2>2. Cardinality(K) # 0
    BY <1>5, <2>1
  <2> QED
    BY <2>2, FS_EmptySet
<1>7. PICK first \in K : \A t \in K : first =< t
  BY <1>4, <1>5, <1>6, EndsOfSet
<1>8. first \in 1 .. N
  BY <1>4
<1>9. \A t \in 1 .. N : t \in K <=> first =< t
  <2>1. ASSUME NEW t \in 1 .. N, first =< t PROVE t \in K
    <3>1. first = t \/ D[first] < D[t]
      BY <1>1, <1>8, <2>1
    <3>2. D[first] >= from /\ D[first] \in Nat /\ D[t] \in Nat
      BY <1>1, <1>4, <1>8
    <3> QED
      BY <1>2, <1>4, <3>1, <3>2
  <2> QED
    BY <1>7, <2>1
<1> DEFINE m == N - first + 1
           q == [k \in 1 .. m |-> first + k - 1]
<1>10. m \in Nat /\ m >= 1
  BY <1>1, <1>8
<1>11. q \in [1 .. m -> K]
  <2>1. \A k \in 1 .. m : first + k - 1 \in 1 .. N /\ first =< first + k - 1
    BY <1>1, <1>8
  <2> QED
    BY <1>9, <2>1
<1>12. \A t \in K : \E k \in 1 .. m : q[k] = t
  <2> TAKE t \in K
  <2>1. t \in 1 .. N /\ first =< t
    BY <1>4, <1>7
  <2>2. t - first + 1 \in 1 .. m /\ q[t - first + 1] = t
    BY <1>1, <1>8, <2>1
  <2> QED
    BY <2>2
<1>13. \A a, b \in 1 .. m : a < b => q[a] < q[b]
  BY <1>1, <1>8
<1>14. q[1] = first
  BY <1>8, <1>10
<1> HIDE DEF q, m
<1>15. q = InOrder(K)
  BY <1>4, <1>10, <1>11, <1>12, <1>13, AscendingIsInOrder
<1>16. \A t \in first .. N : D[t] >= from
  BY <1>1, <1>4, <1>8, <1>9
<1>17. SinceRebalance(plan)[1] = first
  BY <1>3, <1>14, <1>15
<1>18. SinceRebalance(plan) = [k \in 1 .. N - first + 1 |-> first + k - 1]
  BY <1>3, <1>15 DEF q, m
<1> QED
  BY <1>1, <1>8, <1>16, <1>17, <1>18 DEF N, D, from

(* What a fund contributed since is its weight times what it has grown by. *)
LEMMA ContributedSince ==
    ASSUME IngestInv, Loaded, NEW plan \in Plans, CanDrift(plan), NEW f \in Fund
    PROVE  /\ Growth(plan, f) \in Int
           /\ Compound(SubSeq(Contributions(plan)[f], SinceRebalance(plan)[1],
                              Len(CoveredDays(plan))))
                = Last(plan).weights[f] * Growth(plan, f)
<1> DEFINE N == Len(CoveredDays(plan))
           since == SinceRebalance(plan)
           first == since[1]
           w == Last(plan).weights[f]
           m == N - first + 1
           g == [k \in 1 .. m |-> fundReturns[f][first + k - 1]]
           s == SubSeq(Contributions(plan)[f], first, N)
<1>1. /\ N \in Nat /\ first \in 1 .. N /\ since = [k \in 1 .. m |-> first + k - 1]
      /\ \A t \in first .. N : CoveredDays(plan)[t] >= Last(plan).from
  BY SinceRebalanceIs
<1>2. /\ Contributions(plan)[f] \in Seq(Int) /\ Len(Contributions(plan)[f]) = N
      /\ fundReturns[f] \in Seq(Int) /\ N =< Len(fundReturns[f])
      /\ \A t \in 1 .. N : Contributions(plan)[f][t] =
            InForce(plan, CoveredDays(plan)[t])[f] * fundReturns[f][t]
  BY ContributionsAre
<1>3. w \in Int
  BY LastWeights
<1>4. Growth(plan, f) = Compound([k \in DOMAIN since |-> fundReturns[f][since[k]]])
  BY DEF Growth
<1>5. \A t \in first .. N : Contributions(plan)[f][t] = w * fundReturns[f][t]
  <2> TAKE t \in first .. N
  <2>1. t \in 1 .. N /\ CoveredDays(plan)[t] >= Last(plan).from
    BY <1>1
  <2>2. CoveredDays(plan)[t] \in Nat /\ CoveredDays(plan)[t] >= plan[1].from
    BY <2>1, CoveredDaysAre
  <2>3. InForce(plan, CoveredDays(plan)[t]) = Last(plan).weights
    BY <2>1, <2>2, InForceIs
  <2> QED
    BY <1>2, <2>1, <2>3
<1> HIDE DEF N, since, w
<1>6. m \in Nat /\ \A k \in 1 .. m : first + k - 1 \in first .. N /\ first + k - 1 \in 1 .. N
  BY <1>1
<1>7. Growth(plan, f) = Compound(g)
  <2>1. [k \in DOMAIN since |-> fundReturns[f][since[k]]] = g
    BY <1>1
  <2> QED
    BY <1>4, <2>1
<1>8. \A k \in 1 .. m : fundReturns[f][first + k - 1] \in Int
  BY <1>2, <1>6
<1>9. g \in Seq(Int) /\ Len(g) = m
  BY <1>6, <1>8
<1>10. s \in Seq(Int) /\ Len(s) = m /\ \A k \in 1 .. m : s[k] = Contributions(plan)[f][first + k - 1]
  <2>1. first \in Int /\ N \in Int /\ first =< N
    BY <1>1
  <2>2. \A t \in first .. N : Contributions(plan)[f][t] \in Int
    BY <1>1, <1>2
  <2> QED
    BY <2>1, <2>2, SubSeqProperties
<1>11. \A k \in 1 .. m : s[k] = w * g[k]
  BY <1>5, <1>6, <1>10
<1> HIDE DEF g, s
<1>12. Len(g) = Len(s) /\ \A k \in 1 .. Len(s) : s[k] = w * g[k]
  BY <1>9, <1>10, <1>11
<1>13. Compound(g) \in Int /\ Compound(s) = w * Compound(g)
  <2>1. g \in Seq(Int) /\ s \in Seq(Int)
    BY <1>9, <1>10
  <2> QED
    BY ONLY <1>3, <1>12, <2>1, SumsScale, Zenon
<1> QED
  BY <1>7, <1>13 DEF s, w, N, since

(* A fund drifts from its share by as much as it outgrew the other one.    *)
LEMMA DriftOfTwo ==
    ASSUME NEW x \in Nat, NEW y \in Nat, NEW p \in Int, NEW q \in Int
    PROVE  /\ (x + y) * (x * p) - x * (x * p + y * q) = (x * y) * (p - q)
           /\ (x + y) * (y * q) - y * (x * p + y * q) = (x * y) * (q - p)
           /\ (x * y) * (p - q) + (x * y) * (q - p) = 0
           /\ x > 0 /\ y > 0 => /\ (x * y) * (p - q) > 0 <=> p > q
                                /\ (x * p) * y > (y * q) * x <=> p > q
<1>1. \A u, v, w \in Int : /\ (u + v) * w = u * w + v * w /\ w * (u + v) = w * u + w * v
                           /\ w * (u - v) = w * u - w * v
                           /\ u * v \in Int /\ u * v = v * u /\ (u * v) * w = u * (v * w)
  OBVIOUS
<1> DEFINE z == x * y
<1>2. x * p \in Int /\ y * q \in Int /\ z \in Int /\ z * p \in Int /\ z * q \in Int
  BY <1>1
<1>3. /\ (x + y) * (x * p) = x * (x * p) + y * (x * p)
      /\ x * (x * p + y * q) = x * (x * p) + x * (y * q)
      /\ (x + y) * (y * q) = x * (y * q) + y * (y * q)
      /\ y * (x * p + y * q) = y * (x * p) + y * (y * q)
  BY <1>1, <1>2
<1>4. y * (x * p) = z * p /\ x * (y * q) = z * q
  <2>1. y * (x * p) = (y * x) * p /\ y * x = x * y /\ x * (y * q) = (x * y) * q
    BY <1>1
  <2> QED
    BY <2>1
<1>5. x * (x * p) \in Int /\ y * (y * q) \in Int
  BY <1>1, <1>2
<1>6. z * (p - q) = z * p - z * q /\ z * (q - p) = z * q - z * p
  BY <1>1, <1>2
<1>7. (x * p) * y = z * p /\ (y * q) * x = z * q
  BY <1>1, <1>2, <1>4
<1>8. x > 0 /\ y > 0 => z > 0
  OBVIOUS
<1>9. ASSUME z > 0 PROVE z * (p - q) > 0 <=> p > q
  <2>1. z \in Nat /\ p - q \in Int
    BY <1>2, <1>9
  <2>2. \A k \in Int : k > 0 => z * k > 0
    BY <1>9, <2>1
  <2>3. \A k \in Int : k =< 0 => z * k =< 0
    BY <1>9, <2>1
  <2>4. p > q => p - q > 0
    OBVIOUS
  <2>5. ~(p > q) => p - q =< 0
    OBVIOUS
  <2>6. z * (p - q) \in Int
    BY <1>1, <1>2, <2>1
  <2> HIDE DEF z
  <2> QED
    BY <2>1, <2>2, <2>3, <2>4, <2>5, <2>6
<1> HIDE DEF z
<1>10. /\ (x + y) * (x * p) - x * (x * p + y * q) = z * (p - q)
       /\ (x + y) * (y * q) - y * (x * p + y * q) = z * (q - p)
       /\ z * (p - q) + z * (q - p) = 0
  BY ONLY <1>2, <1>3, <1>4, <1>5, <1>6
<1>11. ASSUME x > 0, y > 0
       PROVE  (z * (p - q) > 0 <=> p > q) /\ ((x * p) * y > (y * q) * x <=> p > q)
  <2>1. z * (p - q) > 0 <=> p > q
    BY <1>8, <1>9, <1>11
  <2>2. (x * p) * y > (y * q) * x <=> z * p > z * q
    BY <1>7
  <2>3. z * p > z * q <=> z * (p - q) > 0
    BY ONLY <1>2, <1>6
  <2> QED
    BY <2>1, <2>2, <2>3
<1> QED
  BY <1>10, <1>11 DEF z

(* The fund that has grown more is worth more for its weight.              *)
LEMMA WorthIs ==
    ASSUME NEW plan, Growth(plan, "a") \in Int, Growth(plan, "b") \in Int,
           NEW weights \in [Fund -> Int], weights = Last(plan).weights
    PROVE  \E p, q \in Int :
              /\ Worth(plan)["a"] = weights["a"] * p /\ Worth(plan)["b"] = weights["b"] * q
              /\ p > q <=> Growth(plan, "a") > Growth(plan, "b")
              /\ q > p <=> Growth(plan, "b") > Growth(plan, "a")
<1> DEFINE Ga == Growth(plan, "a")
           Gb == Growth(plan, "b")
           least == IF Ga < Gb THEN Ga ELSE Gb
           p == Doublings(Ga - least)
           q == Doublings(Gb - least)
<1>1. "a" \in Fund /\ "b" \in Fund
  BY DEF Fund
<1>2. Worth(plan) = [f \in Fund |-> weights[f] * Doublings(Growth(plan, f) - least)]
  BY DEF Worth
<1>3. Worth(plan)["a"] = weights["a"] * p /\ Worth(plan)["b"] = weights["b"] * q
  BY <1>1, <1>2
<1>4. Ga \in Int /\ Gb \in Int
  OBVIOUS
<1> HIDE DEF Ga, Gb
<1>5. /\ Ga - least \in Nat /\ Gb - least \in Nat
      /\ Ga > Gb => Ga - least > 0 /\ Gb - least = 0
      /\ Gb > Ga => Gb - least > 0 /\ Ga - least = 0
      /\ Ga = Gb => Ga - least = 0 /\ Gb - least = 0
  BY <1>4
<1> HIDE DEF least
<1>6. /\ p \in Nat /\ (Ga - least = 0 => p = 1) /\ (Ga - least > 0 => p > 1)
      /\ q \in Nat /\ (Gb - least = 0 => q = 1) /\ (Gb - least > 0 => q > 1)
  BY <1>5, DoublingsAre
<1> HIDE DEF p, q
<1>7. (p > q <=> Ga > Gb) /\ (q > p <=> Gb > Ga)
  BY <1>4, <1>5, <1>6
<1>8. p \in Int /\ q \in Int
  BY <1>6
<1> QED
  BY <1>3, <1>7, <1>8 DEF Ga, Gb

(* Drifts cancel, and follow what was contributed since.                   *)
LEMMA InvDrifts == IngestInv => DriftsFollowContributions
<1> DEFINE drift(plan) == PortfolioDrift(plan)
           target(plan) == Last(plan).weights
           Of(plan, f) == IF f \in DOMAIN drift(plan) THEN drift(plan)[f] ELSE 0
           Since(plan, f) == Compound(SubSeq(Contributions(plan)[f], SinceRebalance(plan)[1],
                                             Len(CoveredDays(plan))))
<1> SUFFICES ASSUME IngestInv, Loaded, NEW plan \in Plans, CanDrift(plan),
                    Total(target(plan)) = Whole
             PROVE  /\ Of(plan, "a") + Of(plan, "b") = 0
                    /\ \A f, g \in DOMAIN drift(plan) :
                          Of(plan, f) > 0 /\ g # f <=>
                             Since(plan, f) * target(plan)[g] > Since(plan, g) * target(plan)[f]
  BY DEF DriftsFollowContributions
<1> DEFINE w == target(plan)
           x == w["a"]
           y == w["b"]
           W == Worth(plan)
<1>1. "a" \in Fund /\ "b" \in Fund /\ "a" # "b" /\ Fund = {"a", "b"}
  BY DEF Fund
<1>2. w \in [Fund -> 0 .. Whole] /\ w \in [Fund -> Int] /\ Whole \in Nat
  BY LastWeights, ToolkitAssumption
<1>3. x \in Nat /\ y \in Nat /\ Whole = x + y
  BY <1>1, <1>2 DEF Total
<1>4. ASSUME NEW f \in Fund
      PROVE  Growth(plan, f) \in Int /\ Since(plan, f) = w[f] * Growth(plan, f)
  BY ContributedSince
<1> DEFINE Ga == Growth(plan, "a")
           Gb == Growth(plan, "b")
<1>5. PICK p \in Int, q \in Int :
         /\ W["a"] = x * p /\ W["b"] = y * q
         /\ p > q <=> Ga > Gb
         /\ q > p <=> Gb > Ga
  BY <1>1, <1>2, <1>4, WorthIs
<1>6. drift(plan) = [f \in {g \in Fund : w[g] # 0} |-> Whole * W[f] - w[f] * Total(W)]
  BY DEF PortfolioDrift
<1>7. Total(W) = x * p + y * q
  BY <1>5 DEF Total
<1> DEFINE z == x * y
<1>8. /\ Whole * W["a"] - x * Total(W) = z * (p - q)
      /\ Whole * W["b"] - y * Total(W) = z * (q - p)
      /\ z * (p - q) + z * (q - p) = 0
      /\ x > 0 /\ y > 0 => /\ z * (p - q) > 0 <=> p > q
                           /\ z * (q - p) > 0 <=> q > p
  <2>1. /\ (x + y) * (x * p) - x * (x * p + y * q) = z * (p - q)
        /\ (x + y) * (y * q) - y * (x * p + y * q) = z * (q - p)
        /\ z * (p - q) + z * (q - p) = 0
        /\ x > 0 /\ y > 0 => (z * (p - q) > 0 <=> p > q)
    BY <1>3, <1>5, DriftOfTwo
  <2>2. x > 0 /\ y > 0 => ((y * x) * (q - p) > 0 <=> q > p)
    BY <1>3, <1>5, DriftOfTwo
  <2>3. y * x = z
    BY <1>3
  <2> QED
    BY <1>3, <1>5, <1>7, <2>1, <2>2, <2>3
<1>9. /\ Since(plan, "a") = x * Ga /\ Since(plan, "b") = y * Gb
      /\ Ga \in Int /\ Gb \in Int
  BY <1>1, <1>4
<1>10. x > 0 /\ y > 0 => /\ Since(plan, "a") * y > Since(plan, "b") * x <=> Ga > Gb
                         /\ Since(plan, "b") * x > Since(plan, "a") * y <=> Gb > Ga
  <2> HIDE DEF x, y, Ga, Gb, Since
  <2>1. x > 0 /\ y > 0 => ((x * Ga) * y > (y * Gb) * x <=> Ga > Gb)
    BY ONLY <1>3, <1>9, DriftOfTwo, Zenon
  <2>2. y > 0 /\ x > 0 => ((y * Gb) * x > (x * Ga) * y <=> Gb > Ga)
    BY ONLY <1>3, <1>9, DriftOfTwo, Zenon
  <2> QED
    BY ONLY <1>9, <2>1, <2>2
<1>11. z = 0 \/ (x > 0 /\ y > 0)
  BY <1>3
<1> HIDE DEF drift, w, x, y, W, Since, Ga, Gb
<1>12. /\ x # 0 => Of(plan, "a") = z * (p - q)
       /\ x = 0 => Of(plan, "a") = 0
       /\ y # 0 => Of(plan, "b") = z * (q - p)
       /\ y = 0 => Of(plan, "b") = 0
       /\ "a" \in DOMAIN drift(plan) <=> x # 0
       /\ "b" \in DOMAIN drift(plan) <=> y # 0
       /\ DOMAIN drift(plan) \subseteq Fund
  BY <1>1, <1>6, <1>8 DEF x, y
<1>13. Of(plan, "a") + Of(plan, "b") = 0
  <2>1. CASE x = 0 \/ y = 0
    <3>1. z * (p - q) = 0 /\ z * (q - p) = 0
      BY <1>3, <1>5, <2>1
    <3>2. Of(plan, "a") = 0 /\ Of(plan, "b") = 0
      BY <1>12, <3>1
    <3> QED
      BY <3>2
  <2>2. CASE x # 0 /\ y # 0
    BY <1>8, <1>12, <2>2
  <2> QED
    BY <2>1, <2>2
<1>14. ASSUME NEW f \in DOMAIN drift(plan), NEW g \in DOMAIN drift(plan)
       PROVE  Of(plan, f) > 0 /\ g # f <=>
                 Since(plan, f) * w[g] > Since(plan, g) * w[f]
  <2>1. (f = "a" \/ f = "b") /\ (g = "a" \/ g = "b")
    BY <1>1, <1>12
  <2>2. CASE f = g
    <3>1. Since(plan, f) * w[f] \in Int
      <4>1. Since(plan, f) \in Int
        BY <1>3, <1>9, <2>1
      <4>2. w[f] \in Int
        BY <1>1, <1>2, <2>1
      <4> QED
        BY <4>1, <4>2
    <3> QED
      BY <2>2, <3>1
  <2>3. CASE f # g
    <3>1. x # 0 /\ y # 0
      BY <1>12, <2>1, <2>3
    <3>2. x > 0 /\ y > 0
      BY <1>3, <3>1
    <3>3. CASE f = "a"
      <4>1. g = "b"
        BY <2>1, <2>3, <3>3
      <4>2. Of(plan, "a") > 0 <=> Since(plan, "a") * y > Since(plan, "b") * x
        BY <1>5, <1>8, <1>10, <1>12, <3>1, <3>2
      <4> QED
        BY <1>1, <3>3, <4>1, <4>2 DEF x, y
    <3>4. CASE f = "b"
      <4>1. g = "a"
        BY <2>1, <2>3, <3>4
      <4>2. Of(plan, "b") > 0 <=> Since(plan, "b") * x > Since(plan, "a") * y
        BY <1>5, <1>8, <1>10, <1>12, <3>1, <3>2
      <4> QED
        BY <1>1, <3>4, <4>1, <4>2 DEF x, y
    <3> QED
      BY <2>1, <3>3, <3>4
  <2> QED
    BY <2>2, <2>3
<1> QED
  BY <1>13, <1>14 DEF w

(* What the funds contribute adds up to the return and to the variance of  *)
(* the series, a fund drifts up exactly as the other drifts down and when  *)
(* it contributed more for its weight, and both breakdowns hold the whole  *)
(* allocation: fund_contribution(), portfolio_drift() and                  *)
(* allocation_breakdown() leave nothing out, for every file and plan.      *)
THEOREM NothingIsLeftOut == IngestSpec => []DecompositionsAddUp
<1>1. IngestInv => DecompositionsAddUp
  BY InvContributions, InvDrifts, BreakdownsSumUp DEF DecompositionsAddUp
<1> QED
  BY <1>1, IngestInvariance, PTL

----------------------------------------------------------------------------
(* Tables of runs: a series cut where its period changes.                  *)

(* A row of a table.                                                       *)
Entry == [period : Int, return : Int]

(* The table t has one entry for each run of equal periods ks of the first *)
(* n of a series whose running sums are T: the p-th one runs from after    *)
(* the b[p - 1]-th to the b[p]-th and returns what the sums grow by there. *)
Segmented(t, b, ks, T, n) ==
    /\ t \in Seq(Entry)
    /\ b \in [0 .. Len(t) -> 0 .. n] /\ b[0] = 0 /\ b[Len(t)] = n
    /\ \A p \in 1 .. Len(t) :
          /\ b[p - 1] < b[p]
          /\ t[p].return = T[b[p]] - T[b[p - 1]]
          /\ \A j \in b[p - 1] + 1 .. b[p] : ks[j] = t[p].period
    /\ \A p, q \in 1 .. Len(t) : p < q => t[p].period < t[q].period

(* Adding to a table gives a table, with one entry more or changed.        *)
LEMMA AddToIs ==
    ASSUME NEW t \in Seq(Entry), NEW k \in Int, NEW x \in Int
    PROVE  /\ AddTo(t, k, x) \in Seq(Entry)
           /\ (\A p \in 1 .. Len(t) : t[p].period # k) =>
                 /\ Len(AddTo(t, k, x)) = Len(t) + 1
                 /\ AddTo(t, k, x)[Len(t) + 1] = [period |-> k, return |-> x]
                 /\ \A p \in 1 .. Len(t) : AddTo(t, k, x)[p] = t[p]
           /\ (\E p \in 1 .. Len(t) : t[p].period = k) =>
                 /\ Len(AddTo(t, k, x)) = Len(t)
                 /\ \A p \in 1 .. Len(t) :
                       /\ t[p].period # k => AddTo(t, k, x)[p] = t[p]
                       /\ t[p].period = k => AddTo(t, k, x)[p] =
                             [period |-> k, return |-> t[p].return + x]
<1> DEFINE m == Len(t)
           at == {p \in DOMAIN t : t[p].period = k}
           e == [period |-> k, return |-> x]
           u == [p \in DOMAIN t |->
                    IF p \in at THEN [t[p] EXCEPT !.return = @ + x] ELSE t[p]]
<1>1. /\ m \in Nat /\ DOMAIN t = 1 .. m
      /\ \A p \in 1 .. m : t[p] \in Entry
  OBVIOUS
<1>2. \A s \in Entry : s.period \in Int /\ s.return \in Int
                       /\ [s EXCEPT !.return = @ + x] = [period |-> s.period, return |-> s.return + x]
  BY DEF Entry
<1>3. e \in Entry /\ \A y \in Int : [period |-> k, return |-> y] \in Entry
  BY DEF Entry
<1>4. AddTo(t, k, x) = IF at = {} THEN Append(t, e) ELSE u
  BY DEF AddTo
<1>5. \A p \in 1 .. m : p \in at <=> t[p].period = k
  BY <1>1
<1>6. CASE \A p \in 1 .. m : t[p].period # k
  <2>1. AddTo(t, k, x) = Append(t, e)
    <3>1. at = {}
      BY <1>1, <1>6
    <3> HIDE DEF at, u, e
    <3> QED
      BY <1>4, <3>1
  <2> HIDE DEF at, u, e
  <2>2. /\ Append(t, e) \in Seq(Entry) /\ Len(Append(t, e)) = m + 1
        /\ Append(t, e)[m + 1] = e
        /\ \A p \in 1 .. m : Append(t, e)[p] = t[p]
    BY <1>1, <1>3
  <2> QED
    BY <1>6, <2>1, <2>2 DEF e
<1>7. CASE \E p \in 1 .. m : t[p].period = k
  <2>1. AddTo(t, k, x) = u
    <3>1. at # {}
      BY <1>5, <1>7
    <3> HIDE DEF at, u, e
    <3> QED
      BY <1>4, <3>1
  <2>2. ASSUME NEW p \in 1 .. m
        PROVE  /\ t[p].period # k => u[p] = t[p]
               /\ t[p].period = k => u[p] = [period |-> k, return |-> t[p].return + x]
               /\ u[p] \in Entry
    <3>1. t[p] \in Entry /\ t[p].return \in Int
      BY <1>1, <1>2
    <3>2. u[p] = IF p \in at THEN [t[p] EXCEPT !.return = @ + x] ELSE t[p]
      BY <1>1
    <3>3. CASE t[p].period # k
      <4>1. u[p] = t[p]
        BY <1>5, <3>2, <3>3
      <4> QED
        BY <3>1, <3>3, <4>1
    <3>4. CASE t[p].period = k
      <4>1. u[p] = [t[p] EXCEPT !.return = @ + x]
        BY <1>5, <3>2, <3>4
      <4>2. u[p] = [period |-> k, return |-> t[p].return + x]
        BY <1>2, <3>1, <3>4, <4>1
      <4> HIDE DEF u
      <4> QED
        BY <1>3, <3>1, <3>4, <4>2
    <3> QED
      BY <3>3, <3>4
  <2>3. DOMAIN u = 1 .. m
    BY <1>1
  <2>4. u \in Seq(Entry) /\ Len(u) = m
    <3>1. u = [p \in 1 .. m |-> u[p]]
      BY <1>1
    <3> HIDE DEF u
    <3> QED
      BY <1>1, <2>2, <3>1
  <2> HIDE DEF u
  <2> QED
    BY <1>7, <2>1, <2>2, <2>4
<1> QED
  BY <1>6, <1>7

(* So a table built from a series has its first entry added to none, and   *)
(* then one more added at each step.                                       *)
LEMMA TabledIs ==
    ASSUME NEW r \in Seq(Int), NEW ks \in [1 .. Len(r) -> Int]
    PROVE  /\ Tabled(ks, r)[0] = << >>
           /\ \A n \in 1 .. Len(r) :
                 Tabled(ks, r)[n] = AddTo(Tabled(ks, r)[n - 1], ks[n], r[n])
<1> DEFINE n == Len(r)
           X == Seq(Entry)
           Adds(f) == f = [k \in 0 .. n |->
                              IF k = 0 THEN << >> ELSE AddTo(f[k - 1], ks[k], r[k])]
           step == [k \in 1 .. n |-> [x \in X |-> AddTo(x, ks[k], r[k])]]
<1>1. n \in Nat /\ \A k \in 1 .. n : r[k] \in Int /\ ks[k] \in Int
  OBVIOUS
<1>2. step \in [1 .. n -> [X -> X]]
  <2>1. \A k \in 1 .. n, x \in X : AddTo(x, ks[k], r[k]) \in X
    BY <1>1, AddToIs
  <2> QED
    BY <2>1
<1>3. \A k \in 1 .. n, x \in X : step[k][x] = AddTo(x, ks[k], r[k])
  OBVIOUS
<1>4. << >> \in X
  OBVIOUS
<1> HIDE DEF step, n, X
<1>5. PICK f \in [0 .. n -> X] : Follows(f, n, << >>, step)
  <2>1. n \in Nat
    BY <1>1
  <2> QED
    BY ONLY <1>2, <1>4, <2>1, RecursionExists, Zenon
<1>6. Adds(f)
  <2>1. ASSUME NEW k \in 0 .. n
        PROVE  f[k] = IF k = 0 THEN << >> ELSE AddTo(f[k - 1], ks[k], r[k])
    <3>1. f[k] = IF k = 0 THEN << >> ELSE step[k][f[k - 1]]
      BY <1>5 DEF Follows
    <3>2. k # 0 => k \in 1 .. n /\ f[k - 1] \in X
      BY <1>1
    <3> QED
      BY <1>3, <3>1, <3>2
  <2>2. f = [k \in 0 .. n |-> f[k]]
    OBVIOUS
  <2> QED
    BY <2>1, <2>2
<1> DEFINE g == Tabled(ks, r)
<1>7. g = CHOOSE h : Adds(h)
  BY DEF Tabled, n
<1>8. Adds(g)
  <2> HIDE DEF Adds
  <2> QED
    BY <1>6, <1>7
<1> HIDE DEF g
<1>9. g[0] = << >> /\ \A k \in 1 .. n : g[k] = AddTo(g[k - 1], ks[k], r[k])
  BY <1>1, <1>8
<1> QED
  BY <1>9 DEF g, n

(* What adding the next of a series of ordered periods does to a table of  *)
(* runs: the last run is longer, or a new one begins.                      *)
LEMMA AddExtends ==
    ASSUME NEW r \in Seq(Int), NEW ks \in [1 .. Len(r) -> Int],
           \A h, j \in 1 .. Len(r) : h < j => ks[h] =< ks[j],
           NEW i \in Nat, i + 1 =< Len(r),
           NEW t, NEW b, Segmented(t, b, ks, Totals(r), i)
    PROVE  \E c : Segmented(AddTo(t, ks[i + 1], r[i + 1]), c, ks, Totals(r), i + 1)
<1> DEFINE n == Len(r)
           m == Len(t)
           T == Totals(r)
           k == ks[i + 1]
           x == r[i + 1]
           u == AddTo(t, k, x)
<1>1. /\ n \in Nat /\ i + 1 \in 1 .. n /\ k \in Int /\ x \in Int
      /\ \A j \in 1 .. n : ks[j] \in Int
  OBVIOUS
<1>2. /\ \A j \in 0 .. n : T[j] \in Int
      /\ T[i + 1] = T[i] + x
  <2>1. T \in [0 .. n -> Int] /\ \A j \in 1 .. n : T[j] = T[j - 1] + r[j]
    BY TotalsAre
  <2>2. i + 1 \in 1 .. n /\ (i + 1) - 1 = i
    BY <1>1
  <2> HIDE DEF T, n
  <2> QED
    BY <2>1, <2>2
<1>3. /\ t \in Seq(Entry) /\ m \in Nat
      /\ b \in [0 .. m -> 0 .. i] /\ b[0] = 0 /\ b[m] = i
      /\ \A p \in 1 .. m : b[p - 1] < b[p] /\ t[p].return = T[b[p]] - T[b[p - 1]]
      /\ \A p \in 1 .. m : \A j \in b[p - 1] + 1 .. b[p] : ks[j] = t[p].period
      /\ \A p, q \in 1 .. m : p < q => t[p].period < t[q].period
  BY DEF Segmented
<1>4. \A p \in 1 .. m : t[p] \in Entry /\ t[p].period \in Int /\ t[p].return \in Int
  <2>1. \A p \in 1 .. m : t[p] \in Entry
    BY <1>3
  <2>2. \A e \in Entry : e.period \in Int /\ e.return \in Int
    BY DEF Entry
  <2> QED
    BY <2>1, <2>2
<1>5. /\ u \in Seq(Entry)
      /\ (\A p \in 1 .. m : t[p].period # k) =>
            /\ Len(u) = m + 1
            /\ u[m + 1] = [period |-> k, return |-> x]
            /\ \A p \in 1 .. m : u[p] = t[p]
      /\ (\E p \in 1 .. m : t[p].period = k) =>
            /\ Len(u) = m
            /\ \A p \in 1 .. m :
                  /\ t[p].period # k => u[p] = t[p]
                  /\ t[p].period = k => u[p] = [period |-> k, return |-> t[p].return + x]
  BY <1>1, <1>3, AddToIs
<1>6. \A h, j \in 1 .. n : h < j => ks[h] =< ks[j]
  OBVIOUS
<1> HIDE DEF n, m, T, k, x, u
<1>7. \A p \in 0 .. m : b[p] \in 0 .. i /\ b[p] \in Int /\ b[p] \in 0 .. n
  BY <1>1, <1>3
<1>8. ASSUME NEW p \in 1 .. m PROVE t[p].period =< k
  <2>1. b[p - 1] < b[p] /\ b[p] \in b[p - 1] + 1 .. b[p] /\ b[p] \in 1 .. n /\ b[p] < i + 1
    <3>1. p \in 0 .. m /\ p - 1 \in 0 .. m
      BY <1>3
    <3>2. b[p] \in 0 .. i /\ b[p - 1] \in 0 .. i /\ b[p - 1] < b[p]
      BY <1>3, <1>7, <3>1
    <3> QED
      BY <1>1, <3>2
  <2>2. ks[b[p]] = t[p].period
    BY <1>3, <2>1
  <2> QED
    BY <1>1, <1>6, <2>1, <2>2 DEF k
<1>9. ASSUME NEW M \in Nat \ {0}, Len(u) = M, M - 1 \in 0 .. m,
             \A p \in 1 .. M - 1 : p \in 1 .. m /\ u[p] = t[p] /\ t[p].period < k,
             u[M].period = k, u[M].return = T[i + 1] - T[b[M - 1]],
             \A j \in b[M - 1] + 1 .. i + 1 : ks[j] = k
      PROVE  \E c : Segmented(u, c, ks, T, i + 1)
  <2> DEFINE c == [p \in 0 .. M |-> IF p = M THEN i + 1 ELSE b[p]]
  <2>1. \A p \in 0 .. M : p = M \/ (p \in 0 .. M - 1 /\ p \in 0 .. m /\ b[p] \in 0 .. i + 1)
    <3>1. M - 1 \in 0 .. m /\ M \in Nat /\ m \in Nat
      BY <1>3, <1>9
    <3>2. \A p \in 0 .. M : p = M \/ (p \in 0 .. M - 1 /\ p \in 0 .. m)
      BY ONLY <3>1
    <3>3. \A p \in 0 .. m : b[p] \in 0 .. i
      BY <1>7
    <3>4. 0 .. i \subseteq 0 .. i + 1
      OBVIOUS
    <3> QED
      BY ONLY <3>2, <3>3, <3>4
  <2>2. c \in [0 .. M -> 0 .. i + 1]
    <3>1. i + 1 \in 0 .. i + 1
      OBVIOUS
    <3> QED
      BY <2>1, <3>1
  <2>3. c[0] = 0 /\ c[M] = i + 1 /\ \A p \in 0 .. M - 1 : c[p] = b[p]
    BY <1>3
  <2> HIDE DEF c
  <2>4. ASSUME NEW p \in 1 .. M
        PROVE  /\ c[p - 1] < c[p]
               /\ u[p].return = T[c[p]] - T[c[p - 1]]
               /\ \A j \in c[p - 1] + 1 .. c[p] : ks[j] = u[p].period
    <3>1. p - 1 \in 0 .. M - 1
      OBVIOUS
    <3>2. CASE p = M
      <4>1. c[p] = i + 1 /\ c[p - 1] = b[M - 1]
        BY <2>3, <3>1, <3>2
      <4>2. b[M - 1] \in 0 .. i
        BY <1>7, <1>9
      <4>3. b[M - 1] < i + 1
        BY <4>2
      <4> QED
        BY <1>9, <3>2, <4>1, <4>3
    <3>3. CASE p # M
      <4>1. p \in 1 .. M - 1 /\ p \in 0 .. M - 1
        BY <3>3
      <4>2. c[p] = b[p] /\ c[p - 1] = b[p - 1] /\ u[p] = t[p] /\ p \in 1 .. m
        BY <1>9, <2>3, <3>1, <4>1
      <4> QED
        BY <1>3, <4>2
    <3> QED
      BY <3>2, <3>3
  <2>5. ASSUME NEW p \in 1 .. M, NEW q \in 1 .. M, p < q PROVE u[p].period < u[q].period
    <3>1. p \in 1 .. M - 1
      BY <2>5
    <3>2. CASE q = M
      BY <1>9, <3>1, <3>2
    <3>3. CASE q # M
      <4>1. q \in 1 .. M - 1
        BY <3>3
      <4>2. p \in 1 .. m /\ q \in 1 .. m /\ u[p] = t[p] /\ u[q] = t[q]
        BY <1>9, <3>1, <4>1
      <4> QED
        BY <1>3, <2>5, <4>2
    <3> QED
      BY <3>2, <3>3
  <2>6. Segmented(u, c, ks, T, i + 1)
    BY <1>5, <1>9, <2>2, <2>3, <2>4, <2>5 DEF Segmented
  <2> QED
    BY <2>6
<1>10. CASE \E p \in 1 .. m : t[p].period = k
  <2>1. PICK p \in 1 .. m : t[p].period = k
    BY <1>10
  <2>2. p = m /\ m >= 1
    <3>1. SUFFICES ASSUME p < m PROVE FALSE
      BY <1>3
    <3>2. m \in 1 .. m
      BY <1>3
    <3>3. k < t[m].period /\ t[m].period =< k /\ t[m].period \in Int
      BY <1>3, <1>4, <1>8, <2>1, <3>1, <3>2
    <3> QED
      BY <1>1, <3>3
  <2>3. Len(u) = m /\ u[m] = [period |-> k, return |-> t[m].return + x]
    BY <1>5, <1>10, <2>1, <2>2
  <2>4. ASSUME NEW q \in 1 .. m - 1 PROVE q \in 1 .. m /\ u[q] = t[q] /\ t[q].period < k
    <3>1. q \in 1 .. m /\ q < m /\ m \in 1 .. m
      BY <1>3, <2>2
    <3>2. t[q].period < k /\ t[q].period \in Int
      BY <1>3, <1>4, <2>1, <2>2, <3>1
    <3>3. t[q].period # k
      BY <1>1, <3>2
    <3> QED
      BY <1>5, <1>10, <3>1, <3>2, <3>3
  <2>5. /\ m \in Nat \ {0} /\ m - 1 \in 0 .. m /\ m \in 1 .. m
        /\ b[m] = i /\ b[m - 1] \in 0 .. i /\ i \in 0 .. n /\ b[m - 1] \in 0 .. n
    BY <1>1, <1>3, <1>7, <2>2
  <2>6. u[m].period = k /\ u[m].return = T[i + 1] - T[b[m - 1]]
    <3>1. t[m].return = T[i] - T[b[m - 1]] /\ T[i] \in Int /\ T[b[m - 1]] \in Int
      BY <1>2, <1>3, <2>5
    <3>2. u[m].period = k /\ u[m].return = t[m].return + x
      BY <2>3
    <3> QED
      BY <1>1, <1>2, <3>1, <3>2
  <2>7. \A j \in b[m - 1] + 1 .. i + 1 : ks[j] = k
    <3>1. \A j \in b[m - 1] + 1 .. i + 1 : j = i + 1 \/ j \in b[m - 1] + 1 .. b[m]
      BY <2>5
    <3>2. \A j \in b[m - 1] + 1 .. b[m] : ks[j] = k
      BY <1>3, <2>1, <2>2, <2>5
    <3> QED
      BY <3>1, <3>2 DEF k
  <2>8. \E c : Segmented(u, c, ks, T, i + 1)
    BY <1>9, <2>3, <2>4, <2>5, <2>6, <2>7
  <2> QED
    BY <2>8 DEF u, T, k, x
<1>11. CASE \A p \in 1 .. m : t[p].period # k
  <2> DEFINE M == m + 1
  <2>1. M \in Nat \ {0} /\ M - 1 = m /\ m \in 0 .. m
    BY <1>3
  <2>2. Len(u) = M /\ u[M] = [period |-> k, return |-> x] /\ \A p \in 1 .. m : u[p] = t[p]
    BY <1>5, <1>11
  <2>3. \A p \in 1 .. m : t[p].period < k
    BY <1>1, <1>4, <1>8, <1>11
  <2>4. \A p \in 1 .. M - 1 : p \in 1 .. m /\ u[p] = t[p] /\ t[p].period < k
    BY <2>1, <2>2, <2>3
  <2>5. u[M].period = k /\ u[M].return = T[i + 1] - T[b[M - 1]]
    <3>1. b[M - 1] = i /\ T[i] \in Int
      BY <1>1, <1>2, <1>3, <2>1
    <3>2. u[M].period = k /\ u[M].return = x
      BY <2>2
    <3> HIDE DEF M
    <3> QED
      BY <1>1, <1>2, <3>1, <3>2
  <2>6. \A j \in b[M - 1] + 1 .. i + 1 : ks[j] = k
    BY <1>3, <2>1 DEF k
  <2> HIDE DEF M
  <2>7. M - 1 \in 0 .. m
    BY <2>1
  <2>8. \E c : Segmented(u, c, ks, T, i + 1)
    BY <1>9, <2>1, <2>2, <2>4, <2>5, <2>6, <2>7
  <2> QED
    BY <2>8 DEF u, T, k, x
<1> QED
  BY <1>10, <1>11

(* So a table of a series of ordered periods is a table of its runs.       *)
LEMMA TabledSegments ==
    ASSUME NEW r \in Seq(Int), NEW ks \in [1 .. Len(r) -> Int],
           \A h, j \in 1 .. Len(r) : h < j => ks[h] =< ks[j]
    PROVE  \E b : Segmented(Tabled(ks, r)[Len(r)], b, ks, Totals(r), Len(r))
<1> DEFINE n == Len(r)
           T == {i \in Nat : i =< n =>
                    \E b : Segmented(Tabled(ks, r)[i], b, ks, Totals(r), i)}
<1>1. n \in Nat
  OBVIOUS
<1>2. 0 \in T
  <2> DEFINE b == [p \in 0 .. 0 |-> 0]
             t == Tabled(ks, r)[0]
  <2>1. t = << >>
    BY TabledIs
  <2>2. t \in Seq(Entry) /\ Len(t) = 0
    BY <2>1
  <2>3. b \in [0 .. 0 -> 0 .. 0] /\ b[0] = 0
    OBVIOUS
  <2> HIDE DEF b, t
  <2>4. Segmented(t, b, ks, Totals(r), 0)
    BY <2>2, <2>3 DEF Segmented
  <2> QED
    BY <2>4 DEF t
<1>3. ASSUME NEW i \in Nat, i \in T PROVE i + 1 \in T
  <2> SUFFICES ASSUME i + 1 =< n
               PROVE  \E b : Segmented(Tabled(ks, r)[i + 1], b, ks, Totals(r), i + 1)
    OBVIOUS
  <2>1. i =< n /\ i + 1 \in 1 .. n /\ (i + 1) - 1 = i
    BY <1>1
  <2>2. PICK b : Segmented(Tabled(ks, r)[i], b, ks, Totals(r), i)
    BY <1>3, <2>1
  <2>3. \E c : Segmented(AddTo(Tabled(ks, r)[i], ks[i + 1], r[i + 1]), c, ks, Totals(r), i + 1)
    BY <2>2, AddExtends
  <2>4. Tabled(ks, r)[i + 1] = AddTo(Tabled(ks, r)[i], ks[i + 1], r[i + 1])
    BY <2>1, TabledIs
  <2> QED
    BY <2>3, <2>4
<1> HIDE DEF T
<1>4. n \in T
  BY <1>1, <1>2, <1>3, InductiveNat
<1> QED
  BY <1>1, <1>4 DEF T

(* What each number of s is the growth of B by, s adds up to.              *)
LEMMA Telescopes ==
    ASSUME NEW s \in Seq(Int), NEW B, \A k \in 0 .. Len(s) : B[k] \in Int,
           \A k \in 1 .. Len(s) : s[k] = B[k] - B[k - 1]
    PROVE  /\ Compound(s) = B[Len(s)] - B[0] /\ Compound(s) \in Int
           /\ \A k \in 0 .. Len(s) : Totals(s)[k] = B[k] - B[0]
<1> DEFINE n == Len(s)
           S == Totals(s)
           T == {k \in Nat : k =< n => S[k] = B[k] - B[0]}
<1>1. n \in Nat /\ \A k \in 0 .. n : B[k] \in Int
  OBVIOUS
<1>2. /\ S[0] = 0 /\ S[n] \in Int
      /\ \A k \in 1 .. n : S[k] = S[k - 1] + s[k]
  <2>1. S \in [0 .. n -> Int] /\ n \in 0 .. n
    BY <1>1, TotalsAre
  <2> QED
    BY <2>1, TotalsAre
<1>3. \A k \in 1 .. n : s[k] = B[k] - B[k - 1]
  OBVIOUS
<1>4. Compound(s) = S[n]
  BY DEF Compound
<1> HIDE DEF n, S
<1>5. 0 \in T
  <2>1. B[0] \in Int
    BY <1>1
  <2> QED
    BY <1>2, <2>1
<1>6. ASSUME NEW k \in Nat, k \in T PROVE k + 1 \in T
  <2> SUFFICES ASSUME k + 1 =< n PROVE S[k + 1] = B[k + 1] - B[0]
    OBVIOUS
  <2>1. k + 1 \in 1 .. n /\ (k + 1) - 1 = k /\ k =< n /\ k \in 0 .. n /\ k + 1 \in 0 .. n /\ 0 \in 0 .. n
    BY <1>1
  <2>2. S[k] = B[k] - B[0]
    BY <1>6, <2>1
  <2>3. S[k + 1] = S[k] + s[k + 1] /\ s[k + 1] = B[k + 1] - B[k]
    BY <1>2, <1>3, <2>1
  <2>4. B[k] \in Int /\ B[k + 1] \in Int /\ B[0] \in Int
    BY <1>1, <2>1
  <2> QED
    BY ONLY <2>2, <2>3, <2>4
<1> HIDE DEF T
<1>7. \A k \in Nat : k \in T
  BY <1>5, <1>6, InductiveNat
<1>8. \A k \in 0 .. n : S[k] = B[k] - B[0]
  BY <1>1, <1>7 DEF T
<1>9. S[n] = B[n] - B[0]
  BY <1>1, <1>8
<1> QED
  BY <1>2, <1>4, <1>8, <1>9 DEF S, n

(* The numbers after the a-th to the c-th add up to what the sums grow by. *)
LEMMA PartSums ==
    ASSUME NEW r \in Seq(Int), NEW a \in Nat, NEW c \in Nat, a =< c, c =< Len(r),
           NEW s \in Seq(Int), Len(s) = c - a, \A k \in 1 .. c - a : s[k] = r[a + k]
    PROVE  Compound(s) = Totals(r)[c] - Totals(r)[a] /\ Compound(s) \in Int
<1> DEFINE T == Totals(r)
           B == [k \in 0 .. c - a |-> T[a + k]]
<1>1. /\ \A k \in 0 .. Len(r) : T[k] \in Int
      /\ \A k \in 1 .. Len(r) : T[k] = T[k - 1] + r[k]
      /\ \A k \in 1 .. Len(r) : r[k] \in Int
      /\ Len(r) \in Nat
  <2>1. T \in [0 .. Len(r) -> Int] /\ \A k \in 1 .. Len(r) : T[k] = T[k - 1] + r[k]
    BY TotalsAre
  <2> HIDE DEF T
  <2>2. \A k \in 0 .. Len(r) : T[k] \in Int
    BY ONLY <2>1
  <2>3. Len(r) \in Nat /\ \A k \in 1 .. Len(r) : r[k] \in Int
    OBVIOUS
  <2> QED
    BY ONLY <2>1, <2>2, <2>3
<1> HIDE DEF T
<1>2. \A k \in 0 .. c - a : a + k \in 0 .. Len(r) /\ B[k] = T[a + k] /\ B[k] \in Int
  BY <1>1
<1> HIDE DEF B
<1>3. ASSUME NEW k \in 1 .. c - a PROVE s[k] = B[k] - B[k - 1]
  <2>1. k \in 0 .. c - a /\ k - 1 \in 0 .. c - a /\ a + k \in 1 .. Len(r) /\ a + (k - 1) = (a + k) - 1
    BY <1>1
  <2>2. B[k] = T[a + k] /\ B[k - 1] = T[(a + k) - 1]
    BY <1>2, <2>1
  <2>3. T[a + k] = T[(a + k) - 1] + r[a + k] /\ r[a + k] \in Int /\ T[(a + k) - 1] \in Int
    <3>1. (a + k) - 1 \in 0 .. Len(r)
      BY <1>1, <2>1
    <3> QED
      BY <1>1, <2>1, <3>1
  <2>4. s[k] = r[a + k]
    OBVIOUS
  <2> QED
    BY ONLY <2>2, <2>3, <2>4
<1>4. /\ \A k \in 0 .. Len(s) : B[k] \in Int
      /\ \A k \in 1 .. Len(s) : s[k] = B[k] - B[k - 1]
  BY <1>2, <1>3
<1>5. Compound(s) = B[Len(s)] - B[0] /\ Compound(s) \in Int
  BY ONLY <1>4, s \in Seq(Int), Telescopes, Zenon
<1>6. B[Len(s)] = T[c] /\ B[0] = T[a]
  <2>1. c - a \in 0 .. c - a /\ 0 \in 0 .. c - a /\ a + (c - a) = c /\ a + 0 = a
    OBVIOUS
  <2> QED
    BY <1>2, <2>1
<1> QED
  BY <1>5, <1>6 DEF T

(* A run of positions, in order, and what is kept of a sequence there.     *)
LEMMA RunInOrder ==
    ASSUME NEW a \in Nat, NEW c \in Nat, a =< c
    PROVE  /\ Cardinality(a + 1 .. c) = c - a
           /\ InOrder(a + 1 .. c) = [k \in 1 .. c - a |-> a + k]
<1> DEFINE S == a + 1 .. c
           m == c - a
           q == [k \in 1 .. m |-> a + k]
<1>1. m \in Nat /\ S \in SUBSET Int
  OBVIOUS
<1>2. q \in [1 .. m -> S]
  OBVIOUS
<1>3. ASSUME NEW x \in S PROVE \E k \in 1 .. m : q[k] = x
  <2>1. x - a \in 1 .. m /\ q[x - a] = x
    OBVIOUS
  <2> QED
    BY <2>1
<1>4. \A k, j \in 1 .. m : k < j => q[k] < q[j]
  OBVIOUS
<1> HIDE DEF S, m, q
<1>5. Cardinality(S) = m /\ q = InOrder(S)
  BY <1>1, <1>2, <1>3, <1>4, AscendingIsInOrder
<1> QED
  BY <1>5 DEF S, m, q

(* Keeping a run of rows leaves them as they follow each other.            *)
LEMMA KeptRun ==
    ASSUME NEW X, NEW s \in Seq(X), NEW a \in Nat, NEW c \in Nat, a =< c, c =< Len(s)
    PROVE  /\ Kept(s, a + 1 .. c) \in Seq(X) /\ Len(Kept(s, a + 1 .. c)) = c - a
           /\ \A k \in 1 .. c - a : a + k \in 1 .. Len(s) /\ Kept(s, a + 1 .. c)[k] = s[a + k]
<1> DEFINE o == InOrder(a + 1 .. c)
           z == Kept(s, a + 1 .. c)
<1>1. o = [k \in 1 .. c - a |-> a + k]
  BY RunInOrder
<1>2. z = [k \in DOMAIN o |-> s[o[k]]]
  BY DEF Kept
<1> HIDE DEF o, z
<1>3. z = [k \in 1 .. c - a |-> s[a + k]]
  BY <1>1, <1>2
<1>4. c - a \in Nat /\ \A k \in 1 .. c - a : a + k \in 1 .. Len(s)
  OBVIOUS
<1>5. \A k \in 1 .. c - a : s[a + k] \in X
  BY <1>4
<1>6. z \in Seq(X) /\ Len(z) = c - a
  BY <1>3, <1>4, <1>5
<1> QED
  BY <1>3, <1>4, <1>6 DEF z

(* The runs lie side by side, and their periods are all there are, in      *)
(* order.                                                                  *)
Runs(t, b, ks, n) ==
    /\ t \in Seq(Entry) /\ Len(t) \in Nat /\ DOMAIN t = 1 .. Len(t)
    /\ b[0] = 0 /\ b[Len(t)] = n
    /\ \A p \in 0 .. Len(t) : b[p] \in 0 .. n
    /\ \A p, q \in 0 .. Len(t) : p < q => b[p] < b[q]
    /\ \A p \in 1 .. Len(t) :
          /\ b[p] \in 1 .. n /\ t[p].period \in Int /\ t[p].return \in Int
          /\ \A i \in 1 .. n : ks[i] = t[p].period <=> i \in b[p - 1] + 1 .. b[p]
    /\ \A p, q \in 1 .. Len(t) : p < q => t[p].period < t[q].period
    /\ \A i \in 1 .. n : \E p \in 1 .. Len(t) : i \in b[p - 1] + 1 .. b[p]
    /\ n # 0 => Len(t) # 0 /\ t[Len(t)].period = ks[n]
    /\ [p \in 1 .. Len(t) |-> t[p].period] = InOrder({ks[i] : i \in 1 .. n})
    /\ Cardinality({ks[i] : i \in 1 .. n}) = Len(t)

(* The runs of a table of a series of ordered periods.                     *)
LEMMA RunsAre ==
    ASSUME NEW n \in Nat, NEW ks \in [1 .. n -> Int],
           \A h, j \in 1 .. n : h < j => ks[h] =< ks[j],
           NEW T, NEW t, NEW b, Segmented(t, b, ks, T, n)
    PROVE  Runs(t, b, ks, n)
<1> DEFINE m == Len(t)
           P == [p \in 1 .. m |-> t[p].period]
           K == {ks[i] : i \in 1 .. n}
<1>1. /\ t \in Seq(Entry) /\ m \in Nat /\ DOMAIN t = 1 .. m
      /\ b \in [0 .. m -> 0 .. n] /\ b[0] = 0 /\ b[m] = n
      /\ \A p \in 1 .. m : b[p - 1] < b[p]
      /\ \A p \in 1 .. m : \A j \in b[p - 1] + 1 .. b[p] : ks[j] = t[p].period
      /\ \A p, q \in 1 .. m : p < q => t[p].period < t[q].period
  <2>1. t \in Seq(Entry)
    BY DEF Segmented
  <2>2. m \in Nat /\ DOMAIN t = 1 .. m
    BY <2>1
  <2> QED
    BY <2>1, <2>2 DEF Segmented
<1>2. \A p \in 1 .. m : t[p].period \in Int /\ t[p].return \in Int
  <2>1. \A p \in 1 .. m : t[p] \in Entry
    BY <1>1
  <2>2. \A e \in Entry : e.period \in Int /\ e.return \in Int
    BY DEF Entry
  <2> QED
    BY <2>1, <2>2
<1>3. /\ \A i \in 1 .. n : ks[i] \in Int
      /\ \A h, j \in 1 .. n : h < j => ks[h] =< ks[j]
  OBVIOUS
<1> HIDE DEF m
<1>4. \A p \in 0 .. m : b[p] \in 0 .. n /\ b[p] \in Int
  BY <1>1
<1>5. ASSUME NEW p \in 1 .. m
      PROVE  /\ b[p] \in 1 .. n /\ b[p] \in b[p - 1] + 1 .. b[p] /\ ks[b[p]] = t[p].period
             /\ b[p - 1] \in 0 .. n
  <2>1. p - 1 \in 0 .. m /\ p \in 0 .. m
    BY <1>1
  <2>2. b[p - 1] \in 0 .. n /\ b[p] \in 0 .. n /\ b[p - 1] < b[p]
    BY <1>1, <1>4, <2>1
  <2>3. b[p] \in 1 .. n /\ b[p] \in b[p - 1] + 1 .. b[p]
    BY <2>2
  <2> QED
    BY <1>1, <2>2, <2>3
<1>6. ASSUME NEW p \in 0 .. m, NEW q \in 0 .. m, p < q PROVE b[p] < b[q]
  <2>1. q \in 1 .. m /\ b[q] \in 1 .. n
    <3>1. q \in 1 .. m
      BY <1>1, <1>6
    <3> QED
      BY <1>5, <3>1
  <2>2. CASE p = 0
    BY <1>1, <2>1, <2>2
  <2>3. CASE p # 0
    <3>1. p \in 1 .. m
      BY <1>1, <2>3
    <3>2. ks[b[p]] = t[p].period /\ ks[b[q]] = t[q].period /\ b[p] \in 1 .. n
      BY <1>5, <2>1, <3>1
    <3>3. t[p].period < t[q].period /\ t[p].period \in Int /\ t[q].period \in Int
      BY <1>1, <1>2, <1>6, <2>1, <3>1
    <3>4. b[p] # b[q]
      BY <3>2, <3>3
    <3>5. ~ b[q] < b[p]
      <4> SUFFICES ASSUME b[q] < b[p] PROVE FALSE
        OBVIOUS
      <4>1. ks[b[q]] =< ks[b[p]]
        BY <1>3, <2>1, <3>2
      <4> QED
        BY <3>2, <3>3, <4>1
    <3> QED
      BY <2>1, <3>2, <3>4, <3>5
  <2> QED
    BY <2>2, <2>3
<1>7. ASSUME NEW i \in 1 .. n PROVE \E p \in 1 .. m : i \in b[p - 1] + 1 .. b[p]
  <2> DEFINE S == {p \in 0 .. m : i =< b[p]}
  <2>1. m \in S /\ S \in SUBSET Nat
    BY <1>1
  <2>2. PICK p \in S : \A q \in S : p =< q
    BY <2>1, LeastNat
  <2>3. p \in 0 .. m /\ i =< b[p] /\ p # 0
    BY <1>1, <2>2
  <2>4. p \in 1 .. m /\ p - 1 \in 0 .. m /\ ~ p =< p - 1
    BY <1>1, <2>3
  <2>5. b[p - 1] < i /\ b[p - 1] \in Int /\ b[p] \in Int
    BY <1>4, <2>2, <2>3, <2>4
  <2> QED
    BY <2>3, <2>4, <2>5
<1>8. ASSUME NEW p \in 1 .. m, NEW i \in 1 .. n
      PROVE  ks[i] = t[p].period <=> i \in b[p - 1] + 1 .. b[p]
  <2> SUFFICES ASSUME ks[i] = t[p].period PROVE i \in b[p - 1] + 1 .. b[p]
    BY <1>1
  <2>1. PICK q \in 1 .. m : i \in b[q - 1] + 1 .. b[q]
    BY <1>7
  <2>2. t[q].period = t[p].period
    BY <1>1, <2>1
  <2>3. p = q
    <3>1. /\ p < q => t[p].period < t[q].period
          /\ q < p => t[q].period < t[p].period
          /\ t[p].period \in Int
      BY <1>1, <1>2
    <3>2. p \in Int /\ q \in Int
      OBVIOUS
    <3> QED
      BY ONLY <2>2, <3>1, <3>2
  <2> QED
    BY <2>1, <2>3
<1>9. n # 0 => m # 0 /\ t[m].period = ks[n]
  <2> SUFFICES ASSUME n # 0 PROVE m # 0 /\ t[m].period = ks[n]
    OBVIOUS
  <2>1. m # 0
    BY <1>1
  <2>2. m \in 1 .. m
    BY <1>1, <2>1
  <2> QED
    BY <1>1, <1>5, <2>1, <2>2
<1>10. K \in SUBSET Int /\ \A x \in K : \E i \in 1 .. n : x = ks[i]
  BY <1>3
<1>11. P \in [1 .. m -> K]
  <2>1. ASSUME NEW p \in 1 .. m PROVE t[p].period \in K
    <3>1. b[p] \in 1 .. n /\ ks[b[p]] = t[p].period
      BY <1>5
    <3> QED
      BY <3>1
  <2> HIDE DEF K
  <2> QED
    BY <2>1
<1>12. \A x \in K : \E p \in 1 .. m : P[p] = x
  <2> TAKE x \in K
  <2>1. PICK i \in 1 .. n : x = ks[i]
    BY <1>10
  <2>2. PICK p \in 1 .. m : i \in b[p - 1] + 1 .. b[p]
    BY <1>7
  <2>3. ks[i] = t[p].period
    BY <1>8, <2>2
  <2> QED
    BY <2>1, <2>3
<1>13. \A p, q \in 1 .. m : p < q => P[p] < P[q]
  BY <1>1
<1> HIDE DEF K, P
<1>14. Cardinality(K) = m /\ P = InOrder(K)
  <2>1. m \in Nat /\ K \in SUBSET Int
    BY <1>1, <1>10
  <2> QED
    BY ONLY <2>1, <1>11, <1>12, <1>13, AscendingIsInOrder, Zenon
<1> QED
  BY <1>1, <1>2, <1>4, <1>5, <1>6, <1>7, <1>8, <1>9, <1>14 DEF m, P, K, Runs

(* So it is the table that lists the periods and compounds each of them.   *)
LEMMA TableIsByRank ==
    ASSUME NEW r \in Seq(Int), NEW ks \in [1 .. Len(r) -> Int],
           \A h, j \in 1 .. Len(r) : h < j => ks[h] =< ks[j],
           NEW t, NEW b, Segmented(t, b, ks, Totals(r), Len(r))
    PROVE  LET keys == InOrder({ks[i] : i \in 1 .. Len(r)})
           IN  t = [p \in DOMAIN keys |->
                       [period |-> keys[p],
                        return |-> Compound(Kept(r, {i \in 1 .. Len(r) : ks[i] = keys[p]}))]]
<1> DEFINE n == Len(r)
           m == Len(t)
           T == Totals(r)
           keys == InOrder({ks[i] : i \in 1 .. n})
           Bucket(p) == {i \in 1 .. n : ks[i] = keys[p]}
           u == [p \in DOMAIN keys |->
                    [period |-> keys[p], return |-> Compound(Kept(r, Bucket(p)))]]
<1>1. n \in Nat
  OBVIOUS
<1>2. /\ t \in Seq(Entry) /\ m \in Nat /\ DOMAIN t = 1 .. m
      /\ \A p \in 0 .. m : b[p] \in 0 .. n
      /\ \A p, q \in 0 .. m : p < q => b[p] < b[q]
      /\ \A p \in 1 .. m :
            /\ b[p] \in 1 .. n /\ t[p].period \in Int /\ t[p].return \in Int
            /\ \A i \in 1 .. n : ks[i] = t[p].period <=> i \in b[p - 1] + 1 .. b[p]
      /\ [p \in 1 .. m |-> t[p].period] = keys
  <2>1. /\ ks \in [1 .. n -> Int] /\ Segmented(t, b, ks, T, n)
        /\ \A h, j \in 1 .. n : h < j => ks[h] =< ks[j]
    OBVIOUS
  <2> HIDE DEF n, m, T, keys
  <2>2. Runs(t, b, ks, n)
    BY ONLY <1>1, <2>1, RunsAre, Zenon
  <2> QED
    BY ONLY <2>2 DEF Runs, m, keys
<1>3. \A p \in 1 .. m : t[p].return = T[b[p]] - T[b[p - 1]]
  BY DEF Segmented
<1> HIDE DEF keys, m
<1>4. DOMAIN keys = 1 .. m /\ \A p \in 1 .. m : keys[p] = t[p].period
  BY <1>2
<1>5. ASSUME NEW p \in 1 .. m
      PROVE  Compound(Kept(r, Bucket(p))) = t[p].return
  <2> DEFINE a == b[p - 1]
             c == b[p]
             s == Kept(r, a + 1 .. c)
  <2>1. a \in Nat /\ c \in Nat /\ a =< c /\ c =< n /\ a \in 0 .. n /\ c \in 1 .. n
    <3>1. p - 1 \in 0 .. m /\ p \in 0 .. m /\ p - 1 < p
      BY <1>2
    <3>2. b[p - 1] \in 0 .. n /\ b[p] \in 1 .. n /\ b[p - 1] < b[p]
      BY <1>2, <3>1
    <3> QED
      BY <1>1, <3>2
  <2>2. Bucket(p) = a + 1 .. c
    <3>1. \A i \in 1 .. n : ks[i] = keys[p] <=> i \in a + 1 .. c
      BY <1>2, <1>4
    <3>2. \A i \in a + 1 .. c : i \in 1 .. n
      BY <1>1, <2>1
    <3> HIDE DEF a, c, n
    <3> QED
      BY <3>1, <3>2
  <2> HIDE DEF a, c
  <2>3. /\ s \in Seq(Int) /\ Len(s) = c - a
        /\ \A k \in 1 .. c - a : s[k] = r[a + k]
    BY <2>1, KeptRun
  <2> HIDE DEF s
  <2>4. Compound(s) = T[c] - T[a]
    BY <2>1, <2>3, PartSums
  <2>5. t[p].return = T[c] - T[a]
    BY <1>3 DEF a, c
  <2> HIDE DEF T, Bucket
  <2> QED
    BY <2>2, <2>4, <2>5 DEF s
<1> HIDE DEF Bucket
<1>6. ASSUME NEW p \in 1 .. m PROVE t[p] = u[p]
  <2>1. u[p] = [period |-> keys[p], return |-> Compound(Kept(r, Bucket(p)))]
    BY <1>4
  <2>2. t[p] \in Entry
    BY <1>2
  <2>3. t[p] = [period |-> t[p].period, return |-> t[p].return]
    BY <2>2 DEF Entry
  <2> HIDE DEF u
  <2> QED
    BY <1>4, <1>5, <2>1, <2>3
<1>7. DOMAIN u = 1 .. m
  BY <1>4
<1>8. u = [p \in 1 .. m |-> u[p]]
  BY <1>7
<1>9. t = [p \in 1 .. m |-> t[p]]
  BY <1>2
<1> HIDE DEF u
<1>10. t = u
  BY <1>6, <1>8, <1>9
<1> QED
  BY <1>10 DEF u, Bucket, keys, n

----------------------------------------------------------------------------
(* Calendar tables.                                                        *)

(* The month or the year of each observation.                              *)
Keys(freq) == [i \in DOMAIN days |-> Key(freq, days[i])]

(* Months and years count up as the days do.                               *)
LEMMA CalendarAscends ==
    ASSUME NEW d \in Nat \ {0}, NEW e \in Nat \ {0}, d =< e
    PROVE  /\ Month(d) \in Nat /\ Month(d) =< Month(e)
           /\ Year(d) \in Nat /\ Year(d) =< Year(e)
<1>1. DaysInMonth \in Nat \ {0} /\ MonthsInYear \in Nat \ {0}
  BY CalendarAssumption
<1>2. d - 1 \in Int /\ e - 1 \in Int /\ d - 1 =< e - 1 /\ d - 1 >= 0 /\ e - 1 =< e - 1 /\ e - 1 >= 0
  OBVIOUS
<1>3. /\ Month(d) \in Int /\ Month(d) =< Month(e) /\ Month(d) >= 0
      /\ Month(e) \in Int /\ Month(e) >= 0
  BY <1>1, <1>2, QuotientsKeepOrder DEF Month
<1>4. Year(d) \in Int /\ Year(d) =< Year(e) /\ Year(d) >= 0
  <2> DEFINE x == Month(d)
             y == Month(e)
  <2>1. Year(d) = x \div MonthsInYear /\ Year(e) = y \div MonthsInYear
    BY DEF Year
  <2>2. x \in Int /\ y \in Int /\ x =< y /\ x >= 0
    BY <1>3
  <2> HIDE DEF x, y
  <2>3. x \div MonthsInYear \in Int /\ x \div MonthsInYear =< y \div MonthsInYear
        /\ x \div MonthsInYear >= 0
    BY <1>1, <2>2, QuotientsKeepOrder
  <2> QED
    BY <2>1, <2>3
<1> QED
  BY <1>3, <1>4

(* What is loaded: a return for each day, and periods in order.            *)
LEMMA SeriesIs ==
    ASSUME IngestInv, Loaded, NEW freq \in {"year", "month"}
    PROVE  /\ returns \in Seq(Int) /\ Len(returns) \in Nat \ {0} /\ Len(days) = Len(returns)
           /\ DOMAIN days = 1 .. Len(returns)
           /\ \A i \in 1 .. Len(returns) : days[i] \in Nat \ {0}
           /\ Keys(freq) \in [1 .. Len(returns) -> Nat]
           /\ Keys(freq) \in [1 .. Len(returns) -> Int]
           /\ \A i \in 1 .. Len(returns) : Keys(freq)[i] = Key(freq, days[i])
           /\ \A h, j \in 1 .. Len(returns) : h < j => Keys(freq)[h] =< Keys(freq)[j]
<1> DEFINE n == Len(returns)
<1>1. IngestTypeOK /\ Len(days) >= MinObs
  BY DEF IngestInv, NavInv, Loaded
<1>2. returns \in Seq(Int) /\ n = Len(days) /\ \A i \in 1 .. Len(days) : days[i] \in Nat \ {0}
  BY <1>1 DEF IngestTypeOK, returns, Fund, NaT
<1>3. /\ Len(days) \in Nat /\ DOMAIN days = 1 .. Len(days)
      /\ \A i, j \in 1 .. Len(days) : i < j => days[i] < days[j]
  BY DaysAscend
<1> HIDE DEF n
<1>4. n \in Nat \ {0} /\ DOMAIN days = 1 .. n
  BY <1>1, <1>2, <1>3, IngestAssumption
<1>5. \A i \in 1 .. n : days[i] \in Nat \ {0}
  BY <1>2
<1>6. \A d \in Nat \ {0} : Key(freq, d) = IF freq = "year" THEN Year(d) ELSE Month(d)
  BY DEF Key
<1>7. \A d, e \in Nat \ {0} : d =< e => Key(freq, d) \in Nat /\ Key(freq, d) =< Key(freq, e)
  <2> TAKE d, e \in Nat \ {0}
  <2> HAVE d =< e
  <2>1. /\ Month(d) \in Nat /\ Month(d) =< Month(e)
        /\ Year(d) \in Nat /\ Year(d) =< Year(e)
    BY CalendarAscends
  <2> QED
    BY <1>6, <2>1
<1>8. \A i \in 1 .. n : Keys(freq)[i] = Key(freq, days[i])
  BY <1>4 DEF Keys
<1>9. \A i \in 1 .. n : Key(freq, days[i]) \in Nat
  <2> TAKE i \in 1 .. n
  <2>1. days[i] \in Nat \ {0} /\ days[i] =< days[i]
    BY <1>5
  <2> QED
    BY <1>7, <2>1
<1>10. Keys(freq) \in [1 .. n -> Nat]
  BY <1>4, <1>9 DEF Keys
<1>11. \A h, j \in 1 .. n : h < j => Keys(freq)[h] =< Keys(freq)[j]
  <2> TAKE h, j \in 1 .. n
  <2> HAVE h < j
  <2>1. days[h] < days[j] /\ days[h] \in Nat \ {0} /\ days[j] \in Nat \ {0}
    BY <1>2, <1>3, <1>5
  <2>2. days[h] =< days[j]
    BY <2>1
  <2> QED
    BY <1>7, <1>8, <2>1, <2>2
<1>12. Keys(freq) \in [1 .. n -> Int]
  BY <1>10
<1> QED
  BY <1>2, <1>4, <1>5, <1>8, <1>10, <1>11, <1>12 DEF n

(* A table of the runs of these periods is the one of periodic_returns().  *)
LEMMA TableIsPeriodic ==
    ASSUME IngestInv, Loaded, NEW freq \in {"year", "month"}, NEW t, NEW b,
           Segmented(t, b, Keys(freq), Totals(returns), Len(returns))
    PROVE  t = PeriodicReturns(freq)
<1> DEFINE n == Len(returns)
           ks == Keys(freq)
           K == {ks[i] : i \in 1 .. n}
           Bucket(k) == {i \in 1 .. n : ks[i] = k}
<1>1. /\ returns \in Seq(Int) /\ DOMAIN days = 1 .. n
      /\ ks \in [1 .. n -> Int]
      /\ \A i \in 1 .. n : ks[i] = Key(freq, days[i])
      /\ \A h, j \in 1 .. n : h < j => ks[h] =< ks[j]
  BY SeriesIs
<1>2. t = [p \in DOMAIN InOrder(K) |->
              [period |-> InOrder(K)[p],
               return |-> Compound(Kept(returns, Bucket(InOrder(K)[p])))]]
  <2>1. Segmented(t, b, ks, Totals(returns), n)
    OBVIOUS
  <2> HIDE DEF ks
  <2> QED
    BY <1>1, <2>1, TableIsByRank
<1>3. {Key(freq, days[i]) : i \in DOMAIN days} = K
  <2> HIDE DEF ks
  <2> QED
    BY <1>1
<1>4. \A k : {i \in DOMAIN days : Key(freq, days[i]) = k} = Bucket(k)
  <2> HIDE DEF ks
  <2> QED
    BY <1>1
<1>5. PeriodicReturns(freq) =
         [p \in DOMAIN InOrder(K) |->
             [period |-> InOrder(K)[p],
              return |-> Compound(Kept(returns, Bucket(InOrder(K)[p])))]]
  <2> HIDE DEF ks, K, Bucket
  <2> QED
    BY <1>3, <1>4 DEF PeriodicReturns
<1> QED
  BY <1>2, <1>5

(* Both modules' tables are the table of the runs: the toolkit's of any    *)
(* frequency, and the months of the benchmark tab.                         *)
LEMMA PeriodicIs ==
    ASSUME IngestInv, Loaded, NEW freq \in {"year", "month"}
    PROVE  /\ PeriodicReturns(freq) = Tabled(Keys(freq), returns)[Len(returns)]
           /\ \E b : Segmented(PeriodicReturns(freq), b, Keys(freq), Totals(returns), Len(returns))
<1>1. PICK b : Segmented(Tabled(Keys(freq), returns)[Len(returns)], b, Keys(freq),
                         Totals(returns), Len(returns))
  <2>1. /\ returns \in Seq(Int)
        /\ Keys(freq) \in [1 .. Len(returns) -> Int]
        /\ \A h, j \in 1 .. Len(returns) : h < j => Keys(freq)[h] =< Keys(freq)[j]
    BY SeriesIs
  <2> QED
    BY <2>1, TabledSegments
<1>2. Tabled(Keys(freq), returns)[Len(returns)] = PeriodicReturns(freq)
  BY <1>1, TableIsPeriodic
<1> QED
  BY <1>1, <1>2

(* monthly_returns() and periodic_returns() are two ways to one table.     *)
LEMMA MonthsArePeriodic ==
    ASSUME IngestInv, Loaded
    PROVE  MonthlyReturns = PeriodicReturns("month")
<1>1. Keys("month") = [i \in DOMAIN days |-> Month(days[i])]
  BY DEF Keys, Key
<1> QED
  BY <1>1, PeriodicIs DEF MonthlyReturns

(* Rows of a table, one after the other, add up to what the sums grow by.  *)
LEMMA RowsAddUp ==
    ASSUME NEW t \in Seq(Entry), NEW B, \A p \in 0 .. Len(t) : B[p] \in Int,
           \A p \in 1 .. Len(t) : t[p].return = B[p] - B[p - 1],
           NEW a \in Nat, NEW c \in Nat, a =< c, c =< Len(t),
           NEW s \in Seq(Entry), Len(s) = c - a, \A k \in 1 .. c - a : s[k] = t[a + k]
    PROVE  TotalOf(s) = B[c] - B[a] /\ TotalOf(s) \in Int
<1> DEFINE m == c - a
           r == [p \in DOMAIN s |-> s[p].return]
           D == [k \in 0 .. m |-> B[a + k]]
<1>1. m \in Nat /\ DOMAIN s = 1 .. m /\ Len(t) \in Nat
  OBVIOUS
<1>2. \A k \in 1 .. m : s[k] \in Entry /\ s[k].return \in Int
  <2>1. \A k \in 1 .. m : s[k] \in Entry
    BY <1>1
  <2>2. \A e \in Entry : e.return \in Int
    BY DEF Entry
  <2> QED
    BY <2>1, <2>2
<1>3. r = [p \in 1 .. m |-> s[p].return]
  BY <1>1
<1> HIDE DEF r
<1>4. r \in Seq(Int) /\ Len(r) = m
  <2>1. m \in Nat /\ \A p \in 1 .. m : s[p].return \in Int
    BY <1>1, <1>2
  <2> HIDE DEF m
  <2> QED
    BY ONLY <1>3, <2>1
<1>5. \A k \in 0 .. m : a + k \in 0 .. Len(t) /\ D[k] = B[a + k] /\ D[k] \in Int
  BY <1>1
<1> HIDE DEF D
<1>6. ASSUME NEW k \in 1 .. m PROVE r[k] = D[k] - D[k - 1]
  <2>1. k \in 0 .. m /\ k - 1 \in 0 .. m /\ a + (k - 1) = (a + k) - 1 /\ a + k \in 1 .. Len(t)
    BY <1>1
  <2>2. r[k] = t[a + k].return
    BY <1>3
  <2>3. t[a + k].return = B[a + k] - B[(a + k) - 1]
    BY <2>1
  <2> QED
    BY <1>5, <2>1, <2>2, <2>3
<1>7. /\ \A k \in 0 .. Len(r) : D[k] \in Int
      /\ \A k \in 1 .. Len(r) : r[k] = D[k] - D[k - 1]
  BY <1>4, <1>5, <1>6
<1>8. Compound(r) = D[Len(r)] - D[0] /\ Compound(r) \in Int
  BY <1>4, <1>7, Telescopes
<1>9. D[Len(r)] = B[c] /\ D[0] = B[a]
  <2>1. m \in 0 .. m /\ 0 \in 0 .. m /\ a + m = c /\ a + 0 = a
    BY <1>1
  <2> QED
    BY <1>4, <1>5, <2>1
<1>10. TotalOf(s) = Compound(r)
  BY DEF TotalOf, r
<1> QED
  BY <1>8, <1>9, <1>10

(* The return and the year of each month.                                  *)
MonthSeries == [p \in DOMAIN MonthlyReturns |-> MonthlyReturns[p].return]

(* and the year of each of the months.                                     *)
YearOf == [p \in DOMAIN MonthlyReturns |-> MonthlyReturns[p].period \div MonthsInYear]

(* The months, and where each of them ends.                                *)
LEMMA MonthsAre ==
    ASSUME IngestInv, Loaded
    PROVE  /\ MonthSeries \in Seq(Int) /\ Len(MonthSeries) = Len(MonthlyReturns)
           /\ YearOf \in [1 .. Len(MonthlyReturns) -> Int]
           /\ \A p, q \in 1 .. Len(MonthlyReturns) : p < q => YearOf[p] =< YearOf[q]
           /\ \E b : /\ Segmented(MonthlyReturns, b, Keys("month"), Totals(returns), Len(returns))
                     /\ Runs(MonthlyReturns, b, Keys("month"), Len(returns))
                     /\ \A p \in 0 .. Len(MonthlyReturns) :
                           /\ Totals(returns)[b[p]] \in Int
                           /\ Totals(MonthSeries)[p] = Totals(returns)[b[p]]
<1> DEFINE n == Len(returns)
           ks == Keys("month")
           T == Totals(returns)
           M == MonthlyReturns
           m == Len(M)
           r == MonthSeries
<1>1. /\ returns \in Seq(Int) /\ n \in Nat
      /\ ks \in [1 .. n -> Int]
      /\ \A h, j \in 1 .. n : h < j => ks[h] =< ks[j]
  BY SeriesIs
<1>2. PICK b : Segmented(M, b, ks, T, n)
  BY PeriodicIs, MonthsArePeriodic
<1>3. Runs(M, b, ks, n)
  <2> HIDE DEF n, ks, T, M
  <2> QED
    BY ONLY <1>1, <1>2, RunsAre, Zenon
<1>4. /\ M \in Seq(Entry) /\ m \in Nat /\ DOMAIN M = 1 .. m
      /\ b[0] = 0
      /\ \A p \in 0 .. m : b[p] \in 0 .. n
      /\ \A p \in 1 .. m : M[p].period \in Int /\ M[p].return \in Int
      /\ \A p, q \in 1 .. m : p < q => M[p].period < M[q].period
  BY <1>3 DEF Runs
<1>5. \A p \in 1 .. m : M[p].return = T[b[p]] - T[b[p - 1]]
  BY <1>2 DEF Segmented
<1>6. \A j \in 0 .. n : T[j] \in Int
  <2>1. T \in [0 .. n -> Int]
    BY <1>1, TotalsAre
  <2> HIDE DEF T, n
  <2> QED
    BY <2>1
<1>7. T[0] = 0
  BY <1>1, TotalsAre
<1>8. r = [p \in 1 .. m |-> M[p].return]
  BY <1>4 DEF MonthSeries
<1>9. YearOf = [p \in 1 .. m |-> M[p].period \div MonthsInYear]
  BY <1>4 DEF YearOf
<1> HIDE DEF n, ks, T, M, m, r
<1>10. r \in Seq(Int) /\ Len(r) = m
  BY <1>4, <1>8
<1>11. ASSUME NEW p \in 1 .. m, NEW q \in 1 .. m
       PROVE  YearOf[p] \in Int /\ (p < q => YearOf[p] =< YearOf[q])
  <2>1. MonthsInYear \in Nat \ {0}
    BY CalendarAssumption
  <2>2. M[p].period \in Int /\ M[q].period \in Int /\ (p < q => M[p].period =< M[q].period)
    BY <1>4
  <2>3. M[p].period \div MonthsInYear \in Int
    BY <2>1, <2>2, DivMod
  <2>4. p < q => M[p].period \div MonthsInYear =< M[q].period \div MonthsInYear
    BY <2>1, <2>2, QuotientsKeepOrder
  <2> QED
    BY <1>9, <2>3, <2>4
<1>12. YearOf \in [1 .. m -> Int]
  <2>1. \A p \in 1 .. m : M[p].period \div MonthsInYear \in Int
    BY <1>9, <1>11
  <2> QED
    BY <1>9, <2>1
<1> DEFINE B == [p \in 0 .. m |-> T[b[p]]]
<1>13. \A p \in 0 .. m : B[p] = T[b[p]] /\ T[b[p]] \in Int
  BY <1>4, <1>6
<1> HIDE DEF B
<1>14. /\ \A p \in 0 .. Len(r) : B[p] \in Int
       /\ \A p \in 1 .. Len(r) : r[p] = B[p] - B[p - 1]
  <2>1. \A p \in 1 .. m : p \in 0 .. m /\ p - 1 \in 0 .. m
    BY <1>4
  <2>2. \A p \in 1 .. m : r[p] = M[p].return
    BY <1>8
  <2>3. \A p \in 1 .. m : B[p] = T[b[p]] /\ B[p - 1] = T[b[p - 1]]
    BY <1>13, <2>1
  <2> QED
    BY <1>5, <1>10, <1>13, <2>2, <2>3
<1>15. \A p \in 0 .. Len(r) : Totals(r)[p] = B[p] - B[0]
  BY <1>10, <1>14, Telescopes
<1>16. \A p \in 0 .. m : T[b[p]] \in Int /\ Totals(r)[p] = T[b[p]]
  <2> TAKE p \in 0 .. m
  <2>1. Totals(r)[p] = B[p] - B[0] /\ B[p] = T[b[p]] /\ B[p] \in Int
    BY <1>10, <1>13, <1>15
  <2>2. B[0] = 0
    <3>1. 0 \in 0 .. m
      BY <1>4
    <3> QED
      BY <1>4, <1>7, <1>13, <3>1
  <2> QED
    BY <2>1, <2>2
<1> QED
  BY <1>2, <1>3, <1>10, <1>11, <1>12, <1>16 DEF n, ks, T, M, m, r

(* The years that the days fall into are runs of the months.               *)
LEMMA YearsOfMonths ==
    ASSUME IngestInv, Loaded
    PROVE  \E c : /\ Segmented(PeriodicReturns("year"), c, YearOf, Totals(MonthSeries),
                               Len(MonthlyReturns))
                  /\ Runs(PeriodicReturns("year"), c, YearOf, Len(MonthlyReturns))
<1> DEFINE n == Len(returns)
           ks == Keys("month")
           ys == Keys("year")
           T == Totals(returns)
           M == MonthlyReturns
           m == Len(M)
           r == MonthSeries
           V == Totals(r)
           u == Tabled(YearOf, r)[m]
<1>1. /\ n \in Nat
      /\ \A i \in 1 .. n : ks[i] = Month(days[i]) /\ ys[i] = Year(days[i])
  BY SeriesIs DEF Key
<1>2. /\ r \in Seq(Int) /\ Len(r) = m
      /\ YearOf \in [1 .. m -> Int]
      /\ \A p, q \in 1 .. m : p < q => YearOf[p] =< YearOf[q]
  BY MonthsAre
<1>3. PICK b : /\ Runs(M, b, ks, n)
               /\ \A p \in 0 .. m : T[b[p]] \in Int /\ V[p] = T[b[p]]
  BY MonthsAre
<1>4. /\ m \in Nat /\ DOMAIN M = 1 .. m
      /\ b[0] = 0 /\ b[m] = n
      /\ \A p \in 0 .. m : b[p] \in 0 .. n
      /\ \A p, q \in 0 .. m : p < q => b[p] < b[q]
      /\ \A p \in 1 .. m : \A i \in 1 .. n :
            ks[i] = M[p].period <=> i \in b[p - 1] + 1 .. b[p]
      /\ \A i \in 1 .. n : \E p \in 1 .. m : i \in b[p - 1] + 1 .. b[p]
  BY <1>3 DEF Runs
<1>5. \A p \in 1 .. m : YearOf[p] = M[p].period \div MonthsInYear
  BY <1>4 DEF YearOf
<1>6. PICK c : Segmented(u, c, YearOf, V, m)
  <2> HIDE DEF r, m
  <2>1. \A h, j \in 1 .. Len(r) : h < j => YearOf[h] =< YearOf[j]
    BY <1>2
  <2>2. YearOf \in [1 .. Len(r) -> Int] /\ r \in Seq(Int)
    BY <1>2
  <2>3. \E c : Segmented(Tabled(YearOf, r)[Len(r)], c, YearOf, Totals(r), Len(r))
    BY ONLY <2>1, <2>2, TabledSegments, Zenon
  <2> QED
    BY <1>2, <2>3
<1> HIDE DEF n, ks, ys, T, M, m, r, V, u
<1>7. Runs(u, c, YearOf, m)
  <2>1. m \in Nat /\ YearOf \in [1 .. m -> Int]
        /\ \A h, j \in 1 .. m : h < j => YearOf[h] =< YearOf[j]
    BY <1>2, <1>4
  <2> QED
    BY ONLY <1>6, <2>1, RunsAre, Zenon
<1> DEFINE w == Len(u)
           d == [x \in 0 .. w |-> b[c[x]]]
<1>8. /\ u \in Seq(Entry) /\ w \in Nat
      /\ c[0] = 0 /\ c[w] = m
      /\ \A x \in 0 .. w : c[x] \in 0 .. m
      /\ \A x, y \in 0 .. w : x < y => c[x] < c[y]
      /\ \A x, y \in 1 .. w : x < y => u[x].period < u[y].period
      /\ \A x \in 1 .. w : \A p \in 1 .. m :
            YearOf[p] = u[x].period <=> p \in c[x - 1] + 1 .. c[x]
  BY <1>7 DEF Runs
<1>9. \A x \in 1 .. w : u[x].return = V[c[x]] - V[c[x - 1]]
  BY <1>6 DEF Segmented
<1> HIDE DEF w
<1>10. \A x \in 0 .. w : d[x] = b[c[x]] /\ b[c[x]] \in 0 .. n /\ V[c[x]] = T[d[x]]
  BY <1>3, <1>4, <1>8
<1>11. d \in [0 .. w -> 0 .. n]
  BY <1>10
<1> HIDE DEF d
<1>12. d[0] = 0 /\ d[w] = n
  <2>1. 0 \in 0 .. w /\ w \in 0 .. w
    BY <1>8
  <2> QED
    BY <1>4, <1>8, <1>10, <2>1
<1>13. ASSUME NEW x \in 1 .. w
       PROVE  /\ d[x - 1] < d[x]
              /\ u[x].return = T[d[x]] - T[d[x - 1]]
              /\ \A j \in d[x - 1] + 1 .. d[x] : ys[j] = u[x].period
  <2>1. x \in 0 .. w /\ x - 1 \in 0 .. w /\ x - 1 < x
    BY <1>8
  <2>2. c[x - 1] \in 0 .. m /\ c[x] \in 0 .. m /\ c[x - 1] < c[x]
    BY <1>8, <2>1
  <2>3. /\ d[x - 1] = b[c[x - 1]] /\ d[x] = b[c[x]] /\ b[c[x - 1]] < b[c[x]]
        /\ d[x - 1] \in 0 .. n /\ d[x] \in 0 .. n
    BY <1>4, <1>10, <2>1, <2>2
  <2>4. V[c[x]] = T[d[x]] /\ V[c[x - 1]] = T[d[x - 1]]
    BY <1>10, <2>1
  <2>5. ASSUME NEW j \in d[x - 1] + 1 .. d[x] PROVE ys[j] = u[x].period
    <3>1. j \in 1 .. n
      BY <1>1, <2>3
    <3>2. PICK p \in 1 .. m : j \in b[p - 1] + 1 .. b[p]
      BY <1>4, <3>1
    <3>3. ks[j] = M[p].period /\ p \in 0 .. m /\ p - 1 \in 0 .. m
      BY <1>4, <3>1, <3>2
    <3>4. p \in c[x - 1] + 1 .. c[x]
      <4>1. b[p] \in 0 .. n /\ b[p - 1] \in 0 .. n /\ b[p - 1] < j /\ j =< b[p]
            /\ b[c[x - 1]] < j /\ j =< b[c[x]]
        <5>1. b[p] \in 0 .. n /\ b[p - 1] \in 0 .. n
          BY <1>4, <3>3
        <5> QED
          BY <1>1, <2>3, <3>1, <3>2, <5>1
      <4>2. c[x - 1] < p
        <5> SUFFICES ASSUME p =< c[x - 1] PROVE FALSE
          BY <2>2, <3>3
        <5>1. p = c[x - 1] \/ p < c[x - 1]
          BY <2>2
        <5>2. b[p] = b[c[x - 1]] \/ b[p] < b[c[x - 1]]
          BY <1>4, <2>2, <3>3, <5>1
        <5> QED
          BY <2>3, <4>1, <5>2
      <4>3. p =< c[x]
        <5> SUFFICES ASSUME c[x] < p PROVE FALSE
          BY <2>2, <3>3
        <5>1. c[x] = p - 1 \/ c[x] < p - 1
          BY <2>2, <3>3
        <5>2. b[c[x]] = b[p - 1] \/ b[c[x]] < b[p - 1]
          BY <1>4, <2>2, <3>3, <5>1
        <5> QED
          BY <2>3, <4>1, <5>2
      <4> QED
        BY <2>2, <4>2, <4>3
    <3>5. YearOf[p] = u[x].period
      BY <1>8, <3>4
    <3>6. ys[j] = Month(days[j]) \div MonthsInYear /\ ks[j] = Month(days[j])
      BY <1>1, <3>1 DEF Year
    <3> QED
      BY <1>5, <3>2, <3>3, <3>5, <3>6
  <2> QED
    BY <1>9, <2>3, <2>4, <2>5
<1>14. Segmented(u, d, ys, T, n)
  BY <1>8, <1>11, <1>12, <1>13 DEF Segmented, w
<1>15. u = PeriodicReturns("year")
  <2>1. Segmented(u, d, Keys("year"), Totals(returns), Len(returns))
    BY <1>14 DEF ys, T, n
  <2> QED
    BY <2>1, TableIsPeriodic
<1> QED
  BY <1>6, <1>7, <1>15 DEF M, m, r, V

(* The two modules' calendar tables agree with each other and with the     *)
(* whole.                                                                  *)
LEMMA InvTables == IngestInv => TablesAgree
<1> SUFFICES ASSUME IngestInv, Loaded
             PROVE  LET years == PeriodicReturns("year")
                    IN  /\ MonthlyReturns = PeriodicReturns("month")
                        /\ TotalOf(years) = Compound(returns)
                        /\ Trailing(Len(MonthlyReturns)) = Compound(returns)
                        /\ YearToDate = years[Len(years)].return
  BY DEF TablesAgree
<1> DEFINE n == Len(returns)
           T == Totals(returns)
           M == MonthlyReturns
           m == Len(M)
           Y == PeriodicReturns("year")
           w == Len(Y)
           V == Totals(MonthSeries)
<1>1. /\ returns \in Seq(Int) /\ n \in Nat \ {0}
      /\ \A i \in 1 .. n : Keys("month")[i] = Month(days[i])
      /\ Len(days) = n
  BY SeriesIs DEF Key
<1>2. PICK b : /\ Segmented(M, b, Keys("month"), T, n)
               /\ Runs(M, b, Keys("month"), n)
               /\ \A p \in 0 .. m : T[b[p]] \in Int /\ V[p] = T[b[p]]
  BY MonthsAre
<1>3. PICK c : Segmented(Y, c, YearOf, V, m) /\ Runs(Y, c, YearOf, m)
  BY YearsOfMonths
<1>4. /\ M \in Seq(Entry) /\ m \in Nat \ {0} /\ b[0] = 0 /\ b[m] = n /\ DOMAIN M = 1 .. m
      /\ M[m].period = Month(days[n])
  <2>1. n \in 1 .. n
    BY <1>1
  <2> QED
    BY <1>1, <1>2, <2>1 DEF Runs
<1>5. /\ Y \in Seq(Entry) /\ w \in Nat \ {0} /\ c[0] = 0 /\ c[w] = m
      /\ Y[w].period = YearOf[m]
      /\ \A x \in 0 .. w : c[x] \in 0 .. m
      /\ \A x, y \in 0 .. w : x < y => c[x] < c[y]
      /\ \A x \in 1 .. w : \A p \in 1 .. m :
            YearOf[p] = Y[x].period <=> p \in c[x - 1] + 1 .. c[x]
  BY <1>3, <1>4 DEF Runs
<1>6. \A x \in 1 .. w : Y[x].return = V[c[x]] - V[c[x - 1]]
  BY <1>3 DEF Segmented
<1>7. T[0] = 0 /\ T[n] = Compound(returns)
  BY <1>1, TotalsAre DEF Compound
<1>8. \A p \in 1 .. m : YearOf[p] = M[p].period \div MonthsInYear
  BY <1>4 DEF YearOf
<1>9. /\ \A p \in 0 .. m : V[p] \in Int
      /\ \A p \in 1 .. m : M[p].return = V[p] - V[p - 1]
      /\ V[0] = 0 /\ V[m] = Compound(returns)
  <2>1. \A p \in 0 .. m : V[p] = T[b[p]] /\ V[p] \in Int
    BY <1>2
  <2>2. \A p \in 1 .. m : M[p].return = T[b[p]] - T[b[p - 1]]
    BY <1>2 DEF Segmented
  <2>3. 0 \in 0 .. m /\ m \in 0 .. m /\ \A p \in 1 .. m : p \in 0 .. m /\ p - 1 \in 0 .. m
    BY <1>4
  <2> HIDE DEF n, T, M, m, V
  <2> QED
    BY <1>4, <1>7, <2>1, <2>2, <2>3
<1> HIDE DEF n, T, M, m, Y, w, V
<1>10. TotalOf(Y) = Compound(returns)
  <2> DEFINE B == [x \in 0 .. w |-> V[c[x]]]
  <2>1. /\ \A x \in 0 .. w : B[x] = V[c[x]] /\ B[x] \in Int
        /\ \A x \in 1 .. w : Y[x].return = B[x] - B[x - 1]
    <3>1. \A x \in 0 .. w : B[x] = V[c[x]] /\ B[x] \in Int
      BY <1>5, <1>9
    <3>2. \A x \in 1 .. w : x \in 0 .. w /\ x - 1 \in 0 .. w
      BY <1>5
    <3> HIDE DEF B
    <3> QED
      BY <1>6, <3>1, <3>2
  <2>2. B[0] = 0 /\ B[w] = Compound(returns)
    <3>1. 0 \in 0 .. w /\ w \in 0 .. w
      BY <1>5
    <3> HIDE DEF B
    <3> QED
      BY <1>5, <1>9, <2>1, <3>1
  <2> HIDE DEF B
  <2>3. /\ Y \in Seq(Entry) /\ 0 \in Nat /\ w \in Nat /\ 0 =< w /\ w =< Len(Y) /\ Len(Y) = w - 0
        /\ \A k \in 1 .. w - 0 : Y[k] = Y[0 + k]
        /\ \A x \in 0 .. Len(Y) : B[x] \in Int
        /\ \A x \in 1 .. Len(Y) : Y[x].return = B[x] - B[x - 1]
    BY <1>5, <2>1 DEF w
  <2>4. TotalOf(Y) = B[w] - B[0] /\ TotalOf(Y) \in Int
    BY ONLY <2>3, RowsAddUp, Zenon
  <2>5. B[w] \in Int
    <3>1. w \in 0 .. w
      BY <1>5
    <3> QED
      BY <2>1, <3>1
  <2> QED
    BY <2>2, <2>4, <2>5
<1>11. Trailing(m) = Compound(returns)
  <2> DEFINE s == SubSeq(M, m - m + 1, m)
  <2>1. s = M
    <3>1. m - m + 1 = 1
      BY <1>4
    <3> QED
      BY <1>4, <3>1 DEF m
  <2>2. Trailing(m) = TotalOf(M)
    BY <2>1 DEF Trailing, M, m
  <2>3. m = Len(M) /\ m \in Nat /\ 0 \in Nat /\ 0 =< m /\ m =< m /\ Len(M) = m - 0
        /\ \A k \in 1 .. m - 0 : M[k] = M[0 + k]
    BY <1>4 DEF m
  <2>4. TotalOf(M) = V[m] - V[0]
    BY <1>4, <1>9, <2>3, RowsAddUp
  <2>5. V[m] \in Int
    <3>1. m \in 0 .. m
      BY <1>4
    <3> QED
      BY <1>9, <3>1
  <2> QED
    BY <1>9, <2>2, <2>4, <2>5
<1>12. YearToDate = Y[w].return
  <2> DEFINE a == c[w - 1]
             K == {p \in 1 .. m : M[p].period \div MonthsInYear = Year(days[n])}
             s == Kept(M, a + 1 .. m)
  <2>1. w \in 1 .. w /\ w - 1 \in 0 .. w /\ w \in 0 .. w /\ w - 1 < w /\ m \in 1 .. m
    BY <1>4, <1>5
  <2>2. a \in Nat /\ a =< m /\ a \in 0 .. m
    BY <1>5, <2>1
  <2>3. YearOf[m] = Year(days[n])
    BY <1>4, <1>8, <2>1 DEF Year
  <2>4. K = a + 1 .. m
    <3>1. \A p \in 1 .. m : YearOf[p] = YearOf[m] <=> p \in a + 1 .. m
      BY <1>5, <2>1
    <3>2. \A p \in 1 .. m : M[p].period \div MonthsInYear = Year(days[n]) <=> p \in a + 1 .. m
      BY <1>8, <2>3, <3>1
    <3>3. \A p \in a + 1 .. m : p \in 1 .. m
      BY <1>4, <2>2
    <3> HIDE DEF a
    <3> QED
      BY <3>2, <3>3
  <2>5. YearToDate = TotalOf(Kept(M, K))
    BY <1>1, <1>4 DEF YearToDate, M, n
  <2> HIDE DEF a, K
  <2>6. /\ s \in Seq(Entry) /\ Len(s) = m - a
        /\ \A k \in 1 .. m - a : s[k] = M[a + k]
    <3>1. M \in Seq(Entry) /\ a \in Nat /\ m \in Nat /\ a =< m /\ m =< Len(M)
      BY <1>4, <2>2 DEF m
    <3> HIDE DEF s
    <3>2. /\ Kept(M, a + 1 .. m) \in Seq(Entry) /\ Len(Kept(M, a + 1 .. m)) = m - a
          /\ \A k \in 1 .. m - a :
                a + k \in 1 .. Len(M) /\ Kept(M, a + 1 .. m)[k] = M[a + k]
      BY ONLY <3>1, KeptRun, Zenon
    <3> QED
      BY <3>2 DEF s
  <2> HIDE DEF s
  <2>7. TotalOf(s) = V[m] - V[a]
    <3>1. /\ M \in Seq(Entry) /\ a \in Nat /\ m \in Nat /\ a =< m /\ m =< Len(M)
          /\ \A p \in 0 .. Len(M) : V[p] \in Int
          /\ \A p \in 1 .. Len(M) : M[p].return = V[p] - V[p - 1]
      BY <1>4, <1>9, <2>2 DEF m
    <3>2. s \in Seq(Entry) /\ Len(s) = m - a /\ \A k \in 1 .. m - a : s[k] = M[a + k]
      BY <2>6
    <3>3. TotalOf(s) = V[m] - V[a] /\ TotalOf(s) \in Int
      BY ONLY <3>1, <3>2, RowsAddUp
    <3> QED
      BY <3>3
  <2>8. Y[w].return = V[m] - V[a]
    BY <1>5, <1>6, <2>1 DEF a
  <2> QED
    BY <2>4, <2>5, <2>7, <2>8 DEF s
<1>13. M = PeriodicReturns("month")
  BY MonthsArePeriodic DEF M
<1> QED
  BY <1>10, <1>11, <1>12, <1>13 DEF M, m, Y, w

----------------------------------------------------------------------------
(* Windows.                                                                *)

(* The windows of n days, if there are any.                                *)
LEMMA RollingIs ==
    ASSUME IngestInv, Loaded, NEW n \in Nat \ {0}, Rolling(n) # << >>
    PROVE  LET size == Len(returns) - n + 1
           IN  /\ Len(returns) \in Nat /\ size \in Nat /\ size >= 2
               /\ Len(RollingVolatility(n)) = size
               /\ DOMAIN RollingReturn(n) = 1 .. size
               /\ \A p \in 1 .. size :
                     RollingReturn(n)[p] = Compound(SubSeq(returns, p, p + n - 1))
<1> DEFINE N == Len(returns)
           size == N - n + 1
           w == [p \in 1 .. size |-> <<p, p + n - 1>>]
<1>1. N \in Nat
  BY SeriesIs
<1>2. N >= n + 1 /\ Rolling(n) = w
  BY <1>1 DEF Rolling, WindowsOf
<1>3. size \in Nat /\ size >= 2
  BY <1>1, <1>2
<1> HIDE DEF N, size
<1>4. DOMAIN w = 1 .. size /\ \A p \in 1 .. size : w[p][1] = p /\ w[p][2] = p + n - 1
  OBVIOUS
<1> HIDE DEF w
<1>5. RollingVolatility(n) =
         [p \in 1 .. size |-> Spread(SubSeq(returns, w[p][1], w[p][2]))]
  BY <1>2, <1>4 DEF RollingVolatility
<1>6. Len(RollingVolatility(n)) = size
  BY <1>3, <1>5
<1>7. RollingReturn(n) = [p \in 1 .. size |-> Compound(SubSeq(returns, w[p][1], w[p][2]))]
  BY <1>2, <1>4 DEF RollingReturn
<1>8. ASSUME NEW p \in 1 .. size
      PROVE  RollingReturn(n)[p] = Compound(SubSeq(returns, p, p + n - 1))
  <2>1. RollingReturn(n)[p] = Compound(SubSeq(returns, w[p][1], w[p][2]))
    BY <1>7
  <2> QED
    BY <1>4, <2>1
<1>9. DOMAIN RollingReturn(n) = 1 .. size
  BY <1>7
<1> QED
  BY <1>1, <1>3, <1>6, <1>8, <1>9 DEF N, size

(* A trend compares what is later with what is earlier.                    *)
LEMMA InvTrends == IngestInv => TrendsLookBack
<1> SUFFICES ASSUME IngestInv, Loaded, NEW n \in Windows,
                    Len(RollingVolatility(n)) >= 2 * n - 1, Rolling(n) # << >>
             PROVE  LET trend == TrendWindows(n)
                    IN  /\ trend.prior # {}
                        /\ Cardinality(trend.recent) = n
                        /\ \A i \in trend.prior, j \in trend.recent : i < j
  BY DEF TrendsLookBack
<1> DEFINE size == Len(RollingVolatility(n))
           recent == TrendWindows(n).recent
           prior == TrendWindows(n).prior
<1>1. n \in Nat \ {0}
  BY ToolkitAssumption
<1>2. size \in Nat /\ size >= 2 /\ size >= 2 * n - 1
  BY <1>1, RollingIs
<1>3. /\ recent = Larger(1, size - n + 1) .. size
      /\ prior = IF size >= 2 * n THEN size - 2 * n + 1 .. size - n
                 ELSE 1 .. Larger(1, size \div 2)
  BY DEF TrendWindows
<1> HIDE DEF size, recent, prior
<1>4. Larger(1, size - n + 1) = size - n + 1
  <2>1. size - n + 1 >= 1
    BY <1>1, <1>2
  <2> QED
    BY <1>1, <1>2, <2>1 DEF Larger
<1>5. recent = (size - n) + 1 .. size /\ size - n \in Nat /\ size - n =< size
  <2>1. size - n \in Nat /\ size - n =< size /\ (size - n) + 1 = size - n + 1
    BY <1>1, <1>2
  <2> QED
    BY <1>3, <1>4, <2>1
<1>6. Cardinality(recent) = n
  <2>1. Cardinality((size - n) + 1 .. size) = size - (size - n)
    BY <1>2, <1>5, RunInOrder
  <2> QED
    BY <1>1, <1>2, <1>5, <2>1
<1>7. CASE size >= 2 * n
  <2>1. prior = size - 2 * n + 1 .. size - n
    BY <1>3, <1>7
  <2>2. size - n \in size - 2 * n + 1 .. size - n
    BY <1>1, <1>2
  <2>3. \A i \in size - 2 * n + 1 .. size - n, j \in (size - n) + 1 .. size : i < j
    BY <1>1, <1>2
  <2> QED
    BY <1>5, <1>6, <2>1, <2>2, <2>3 DEF recent, prior
<1>8. CASE ~ size >= 2 * n
  <2>1. size = 2 * n - 1 /\ n >= 2
    BY <1>1, <1>2, <1>8
  <2>2. size \div 2 = n - 1
    BY <1>1, <2>1
  <2>3. Larger(1, size \div 2) = n - 1
    BY <1>1, <2>1, <2>2 DEF Larger
  <2>4. prior = 1 .. n - 1 /\ recent = n .. size
    <3>1. (size - n) + 1 = n
      BY <1>1, <2>1
    <3> QED
      BY <1>3, <1>5, <1>8, <2>3, <3>1
  <2>5. 1 \in 1 .. n - 1 /\ \A i \in 1 .. n - 1, j \in n .. size : i < j
    BY <1>1, <1>2, <2>1
  <2> QED
    BY <1>6, <2>4, <2>5 DEF recent, prior
<1> QED
  BY <1>7, <1>8

(* The last n months are rows of the table, and their return a number.     *)
LEMMA TrailingIs ==
    ASSUME IngestInv, Loaded, NEW n \in Nat, n =< Len(MonthlyReturns)
    PROVE  /\ Trailing(n) \in Int /\ Trailing(n) # NoFigure
           /\ TrailingOrNone(n) = Trailing(n)
<1> DEFINE M == MonthlyReturns
           m == Len(M)
           a == m - n
           s == SubSeq(M, m - n + 1, m)
           V == Totals(MonthSeries)
<1>1. PICK b : /\ Segmented(M, b, Keys("month"), Totals(returns), Len(returns))
               /\ \A p \in 0 .. m : V[p] = Totals(returns)[b[p]] /\ V[p] \in Int
  BY MonthsAre
<1>2. M \in Seq(Entry) /\ m \in Nat /\ \A p \in 1 .. m : M[p].return = V[p] - V[p - 1]
  <2>1. M \in Seq(Entry)
    BY <1>1 DEF Segmented
  <2>2. m \in Nat
    BY <2>1
  <2>3. \A p \in 1 .. m : M[p].return = Totals(returns)[b[p]] - Totals(returns)[b[p - 1]]
    BY <1>1 DEF Segmented
  <2>4. \A p \in 1 .. m : p \in 0 .. m /\ p - 1 \in 0 .. m
    BY <2>2
  <2> HIDE DEF M, m, V
  <2> QED
    BY <1>1, <2>1, <2>2, <2>3, <2>4
<1>3. Trailing(n) = TotalOf(s)
  BY DEF Trailing
<1>4. n =< m
  OBVIOUS
<1> HIDE DEF M, m, V
<1>5. a \in Nat /\ a =< m /\ m - n + 1 = a + 1 /\ m =< m
  BY <1>2, <1>4
<1>6. s \in Seq(Entry) /\ Len(s) = m - a /\ \A k \in 1 .. m - a : s[k] = M[a + k]
  <2>1. \A i \in a + 1 .. m : M[i] \in Entry
    BY <1>2, <1>5 DEF m
  <2>2. s = SubSeq(M, a + 1, m)
    BY <1>5
  <2> HIDE DEF s, a
  <2> DEFINE z == SubSeq(M, a + 1, m)
  <2>3. z = [k \in 1 .. m - a |-> M[a + k]]
    <3>1. m - (a + 1) + 1 = m - a /\ \A k \in 1 .. m - a : (a + 1) + k - 1 = a + k
      BY <1>2, <1>5
    <3> QED
      BY <1>2, <1>5, <3>1
  <2>4. m - a \in Nat /\ \A k \in 1 .. m - a : a + k \in a + 1 .. m
    BY <1>2, <1>5
  <2> HIDE DEF z
  <2>5. z \in Seq(Entry) /\ Len(z) = m - a /\ \A k \in 1 .. m - a : z[k] = M[a + k]
    BY <2>1, <2>3, <2>4
  <2> QED
    BY <2>2, <2>5 DEF z
<1> HIDE DEF s, a
<1>7. /\ M \in Seq(Entry) /\ m =< Len(M)
      /\ \A p \in 0 .. Len(M) : V[p] \in Int
      /\ \A p \in 1 .. Len(M) : M[p].return = V[p] - V[p - 1]
  BY <1>1, <1>2 DEF m
<1>8. TotalOf(s) = V[m] - V[a] /\ TotalOf(s) \in Int
  BY ONLY <1>2, <1>5, <1>6, <1>7, RowsAddUp
<1>9. Trailing(n) \in Int /\ Trailing(n) # NoFigure
  BY <1>3, <1>8, ToolkitAssumption
<1>10. TrailingOrNone(n) = Trailing(n)
  BY <1>2, <1>4 DEF TrailingOrNone, M, m
<1> QED
  BY <1>9, <1>10

(* The rolling windows of months end with the trailing period.             *)
LEMMA LastWindowIsTrailing ==
    ASSUME IngestInv, Loaded, NEW n \in Windows
    PROVE  LET rolling == RollingPeriodReturns(n)
           IN  /\ (rolling = << >>) = (TrailingOrNone(n) = NoFigure)
               /\ rolling # << >> =>
                     /\ Last(rolling).return = TrailingOrNone(n)
                     /\ Last(rolling).month = Month(days[Len(days)])
<1> DEFINE M == MonthlyReturns
           m == Len(M)
           size == m - n + 1
           w == [p \in 1 .. size |-> <<p, p + n - 1>>]
           rolling == RollingPeriodReturns(n)
<1>1. n \in Nat \ {0}
  BY ToolkitAssumption
<1>2. /\ M \in Seq(Entry) /\ m \in Nat \ {0}
      /\ M[m].period = Month(days[Len(days)])
  <2>1. PICK b : Runs(M, b, Keys("month"), Len(returns))
    BY MonthsAre
  <2>2. /\ Len(returns) \in Nat \ {0} /\ Len(days) = Len(returns)
        /\ \A i \in 1 .. Len(returns) : Keys("month")[i] = Month(days[i])
    BY SeriesIs DEF Key
  <2>3. Len(returns) \in 1 .. Len(returns)
    BY <2>2
  <2> HIDE DEF M
  <2> QED
    BY <2>1, <2>2, <2>3 DEF Runs
<1>3. rolling = [p \in DOMAIN w |-> [month |-> M[w[p][2]].period,
                                     return |-> TotalOf(SubSeq(M, w[p][1], w[p][2]))]]
  BY DEF RollingPeriodReturns, WindowsOf
<1>4. DOMAIN w = 1 .. size /\ \A p \in 1 .. size : w[p][1] = p /\ w[p][2] = p + n - 1
  OBVIOUS
<1>5. TrailingOrNone(n) = IF m >= n THEN Trailing(n) ELSE NoFigure
  BY DEF TrailingOrNone
<1>6. n =< m => Trailing(n) # NoFigure
  BY <1>1, TrailingIs
<1>7. Trailing(n) = TotalOf(SubSeq(M, m - n + 1, m))
  BY DEF Trailing
<1> HIDE DEF M, m, w
<1>8. DOMAIN rolling = 1 .. size
  BY <1>3, <1>4
<1>9. CASE m < n
  <2>1. 1 .. size = {}
    BY <1>1, <1>2, <1>9
  <2>2. rolling = << >>
    <3>1. DOMAIN w = {}
      BY <1>4, <2>1
    <3> HIDE DEF rolling
    <3> QED
      BY <1>3, <3>1
  <2>3. TrailingOrNone(n) = NoFigure
    BY <1>1, <1>2, <1>5, <1>9
  <2> QED
    BY <2>2, <2>3
<1>10. CASE n =< m
  <2>1. size \in Nat /\ size >= 1 /\ size \in 1 .. size /\ size + n - 1 = m
    BY <1>1, <1>2, <1>10
  <2>2. rolling[size] = [month |-> M[m].period, return |-> TotalOf(SubSeq(M, size, m))]
    <3>1. w[size][1] = size /\ w[size][2] = m
      BY <1>4, <2>1
    <3>2. size \in DOMAIN w
      BY <1>4, <2>1
    <3> HIDE DEF rolling, size
    <3> QED
      BY <1>3, <3>1, <3>2
  <2>3. Len(rolling) = size /\ rolling # << >>
    <3>1. rolling = [p \in 1 .. size |-> rolling[p]]
      BY <1>3, <1>8
    <3> HIDE DEF rolling, size
    <3> QED
      BY <1>8, <2>1, <3>1
  <2>4. Last(rolling) = rolling[size]
    <3> HIDE DEF rolling, size
    <3> QED
      BY <2>3 DEF Last
  <2>5. Last(rolling).month = M[m].period /\ Last(rolling).return = Trailing(n)
    <3> HIDE DEF rolling
    <3> QED
      BY <1>7, <2>2, <2>4
  <2>6. TrailingOrNone(n) = Trailing(n) /\ TrailingOrNone(n) # NoFigure
    BY <1>1, <1>2, <1>5, <1>6, <1>10
  <2> HIDE DEF rolling
  <2> QED
    BY <1>2, <2>3, <2>5, <2>6 DEF rolling
<1> QED
  BY <1>1, <1>2, <1>9, <1>10

(* The observations of a month or a year are a run of the series, and what *)
(* they compound to is the return of the table.                            *)
LEMMA ObservedIs ==
    ASSUME IngestInv, Loaded, NEW freq \in {"year", "month"},
           NEW bucket \in Range(PeriodicReturns(freq))
    PROVE  \E a, c \in Nat :
              /\ a < c /\ c =< Len(returns)
              /\ Observed(freq, bucket.period) = a + 1 .. c
              /\ bucket.return = Totals(returns)[c] - Totals(returns)[a]
              /\ bucket.return = Compound(Kept(returns, a + 1 .. c))
<1> DEFINE n == Len(returns)
           ks == Keys(freq)
           T == Totals(returns)
           t == PeriodicReturns(freq)
<1>1. /\ returns \in Seq(Int) /\ n \in Nat /\ DOMAIN days = 1 .. n
      /\ ks \in [1 .. n -> Int]
      /\ \A i \in 1 .. n : ks[i] = Key(freq, days[i])
      /\ \A h, j \in 1 .. n : h < j => ks[h] =< ks[j]
  BY SeriesIs
<1>2. PICK b : Segmented(t, b, ks, T, n)
  BY PeriodicIs
<1>3. PICK p \in DOMAIN t : bucket = t[p]
  BY DEF Range
<1> HIDE DEF n, ks, T, t
<1>4. Runs(t, b, ks, n)
  BY ONLY <1>1, <1>2, RunsAre, Zenon
<1>5. /\ DOMAIN t = 1 .. Len(t) /\ Len(t) \in Nat
      /\ \A q \in 0 .. Len(t) : b[q] \in 0 .. n
      /\ \A x, q \in 0 .. Len(t) : x < q => b[x] < b[q]
      /\ \A i \in 1 .. n : ks[i] = t[p].period <=> i \in b[p - 1] + 1 .. b[p]
  BY <1>3, <1>4 DEF Runs
<1>6. t[p].return = T[b[p]] - T[b[p - 1]]
  BY <1>2, <1>3, <1>5 DEF Segmented
<1> DEFINE a == b[p - 1]
           c == b[p]
<1>7. a \in Nat /\ c \in Nat /\ a < c /\ c =< n
  <2>1. p \in 0 .. Len(t) /\ p - 1 \in 0 .. Len(t) /\ p - 1 < p
    BY <1>3, <1>5
  <2>2. b[p - 1] \in 0 .. n /\ b[p] \in 0 .. n /\ b[p - 1] < b[p]
    BY <1>5, <2>1
  <2> QED
    BY <1>1, <2>2
<1>8. Observed(freq, bucket.period) = a + 1 .. c
  <2>1. Observed(freq, bucket.period) = {i \in 1 .. n : Key(freq, days[i]) = t[p].period}
    BY <1>1, <1>3 DEF Observed
  <2>2. \A i \in 1 .. n : Key(freq, days[i]) = t[p].period <=> i \in a + 1 .. c
    BY <1>1, <1>5
  <2>3. \A i \in a + 1 .. c : i \in 1 .. n
    BY <1>1, <1>7
  <2> HIDE DEF a, c
  <2> QED
    BY <2>1, <2>2, <2>3
<1>9. bucket.return = T[c] - T[a]
  BY <1>3, <1>6
<1> HIDE DEF a, c
<1>10. Compound(Kept(returns, a + 1 .. c)) = T[c] - T[a]
  <2> DEFINE s == Kept(returns, a + 1 .. c)
  <2>1. returns \in Seq(Int) /\ a \in Nat /\ c \in Nat /\ a =< c /\ c =< Len(returns)
    BY <1>1, <1>7 DEF n
  <2>2. s \in Seq(Int) /\ Len(s) = c - a /\ \A k \in 1 .. c - a : s[k] = returns[a + k]
    BY <2>1, KeptRun
  <2> HIDE DEF s
  <2>3. Compound(s) = T[c] - T[a]
    BY ONLY <2>1, <2>2, PartSums DEF T
  <2> QED
    BY <2>3 DEF s
<1>11. bucket.return = Compound(Kept(returns, a + 1 .. c))
  BY <1>9, <1>10
<1> QED
  BY <1>7, <1>8, <1>9, <1>11 DEF n, T

(* A rolling window of as many days as a month or a year has, that starts  *)
(* with it, returns the same.                                              *)
LEMMA WindowOfPeriod ==
    ASSUME IngestInv, Loaded, NEW freq \in {"year", "month"},
           NEW bucket \in Range(PeriodicReturns(freq))
    PROVE  LET seen == Observed(freq, bucket.period)
               n == Cardinality(seen)
               first == CHOOSE i \in seen : \A j \in seen : i =< j
           IN  Rolling(n) # << >> => RollingReturn(n)[first] = bucket.return
<1> DEFINE seen == Observed(freq, bucket.period)
           n == Cardinality(seen)
           first == CHOOSE i \in seen : \A j \in seen : i =< j
           N == Len(returns)
           T == Totals(returns)
<1> SUFFICES ASSUME Rolling(n) # << >> PROVE RollingReturn(n)[first] = bucket.return
  OBVIOUS
<1>1. PICK a, c \in Nat :
         /\ a < c /\ c =< N
         /\ seen = a + 1 .. c
         /\ bucket.return = T[c] - T[a]
  BY ObservedIs
<1>2. returns \in Seq(Int) /\ N \in Nat
  BY SeriesIs
<1> HIDE DEF seen, N
<1>3. n = c - a /\ n \in Nat \ {0}
  <2>1. a \in Nat /\ c \in Nat /\ a =< c
    BY <1>1
  <2>2. Cardinality(a + 1 .. c) = c - a
    BY ONLY <2>1, RunInOrder
  <2> QED
    BY <1>1, <2>2
<1>4. first = a + 1
  <2>1. a + 1 \in seen /\ \A j \in seen : a + 1 =< j
    BY <1>1
  <2>2. \A i \in seen : i \in Int
    BY <1>1
  <2>3. first \in seen /\ \A j \in seen : first =< j
    BY <2>1
  <2> HIDE DEF first
  <2> QED
    BY <2>1, <2>2, <2>3
<1>5. /\ N - n + 1 \in Nat
      /\ \A p \in 1 .. N - n + 1 : RollingReturn(n)[p] = Compound(SubSeq(returns, p, p + n - 1))
  <2> HIDE DEF n
  <2> QED
    BY <1>3, RollingIs DEF N
<1> HIDE DEF n, first
<1>6. a + 1 \in 1 .. N - n + 1 /\ (a + 1) + n - 1 = c
  BY <1>1, <1>2, <1>3
<1>7. RollingReturn(n)[a + 1] = Compound(SubSeq(returns, a + 1, c))
  BY <1>5, <1>6
<1>8. Compound(SubSeq(returns, a + 1, c)) = T[c] - T[a]
  <2> DEFINE s == SubSeq(returns, a + 1, c)
  <2>1. \A i \in a + 1 .. c : returns[i] \in Int
    BY <1>1, <1>2 DEF N
  <2>2. a + 1 \in Int /\ c \in Int /\ a + 1 =< c
    BY <1>1
  <2>3. /\ s \in Seq(Int)
        /\ Len(s) = IF a + 1 <= c THEN c - (a + 1) + 1 ELSE 0
        /\ \A i \in 1 .. c - (a + 1) + 1 : s[i] = returns[(a + 1) + i - 1]
    BY ONLY <2>1, <2>2, SubSeqProperties
  <2> HIDE DEF s
  <2>4. Len(s) = c - a /\ \A k \in 1 .. c - a : s[k] = returns[a + k]
    <3>1. c - (a + 1) + 1 = c - a /\ \A k \in Int : (a + 1) + k - 1 = a + k
      BY <1>1
    <3> QED
      BY <2>2, <2>3, <3>1
  <2>5. returns \in Seq(Int) /\ a \in Nat /\ c \in Nat /\ a =< c /\ c =< Len(returns)
    BY <1>1, <1>2 DEF N
  <2>6. Compound(s) = T[c] - T[a]
    BY ONLY <2>3, <2>4, <2>5, PartSums
  <2> QED
    BY <2>6 DEF s
<1> QED
  BY <1>1, <1>4, <1>7, <1>8

(* The days of a year are those from its first to its last.                *)
LEMMA YearIsRange ==
    ASSUME NEW d \in Nat \ {0}, NEW k \in Int
    PROVE  Year(d) = k <=> Start(k) =< d /\ d =< Start(k + 1) - 1
<1> DEFINE D == DaysInMonth
           Y == MonthsInYear
           x == d - 1
           q == x \div D
<1>1. D \in Nat \ {0} /\ Y \in Nat \ {0} /\ x \in Int /\ q \in Int
  <2>1. D \in Nat \ {0} /\ Y \in Nat \ {0} /\ x \in Int
    BY CalendarAssumption
  <2> QED
    BY <2>1, DivMod
<1>2. Year(d) = q \div Y
  BY DEF Year, Month
<1>3. D * q =< x /\ x < D * q + D
  <2> HIDE DEF D, x
  <2> QED
    BY <1>1, QuotientIs DEF q
<1>4. Start(k) = k * Y * D + 1 /\ Start(k + 1) = (k + 1) * Y * D + 1 /\ d = x + 1
  BY DEF Start
<1> HIDE DEF D, Y, x, q
<1>5. q \div Y = k <=> Y * k =< q /\ q < Y * k + Y
  BY <1>1, QuotientIs
<1> DEFINE g == Y * k
           h == Y * k + Y
<1>6. g \in Int /\ h \in Int
  BY <1>1
<1>7. k * Y * D = D * g /\ (k + 1) * Y * D = D * h
  <2>1. k * Y = g /\ (k + 1) * Y = h
    BY <1>1
  <2> HIDE DEF g, h
  <2> QED
    BY <1>1, <1>6, <2>1
<1> HIDE DEF g, h
<1>8. D * q \in Int /\ D * g \in Int /\ D * h \in Int /\ D \in Int
  BY <1>1, <1>6
<1>9. g =< q <=> D * g =< x
  <2>1. ASSUME g =< q PROVE D * g =< x
    <3>1. D * g =< D * q
      <4>1. q - g \in Nat /\ D * (q - g) = D * q - D * g /\ D * (q - g) >= 0
        BY <1>1, <1>6, <2>1
      <4> QED
        BY <1>8, <4>1
    <3> QED
      BY <1>1, <1>3, <1>8, <3>1
  <2>2. ASSUME D * g =< x PROVE g =< q
    <3>1. D * g < D * q + D
      BY <1>1, <1>3, <1>8, <2>2
    <3> QED
      BY <1>1, <1>6, <3>1, Multiples
  <2> QED
    BY <2>1, <2>2
<1>10. q < h <=> x < D * h
  <2>1. ASSUME q < h PROVE x < D * h
    <3>1. h - (q + 1) \in Nat /\ D * (h - (q + 1)) >= 0
      BY <1>1, <1>6, <2>1
    <3>2. D * (h - (q + 1)) = D * h - D * q - D
      BY <1>1, <1>6
    <3> QED
      BY <1>1, <1>3, <1>8, <3>1, <3>2
  <2>2. ASSUME x < D * h PROVE q < h
    <3> SUFFICES ASSUME h =< q PROVE FALSE
      BY <1>1, <1>6
    <3>1. q - h \in Nat /\ D * (q - h) = D * q - D * h /\ D * (q - h) >= 0
      BY <1>1, <1>6
    <3> QED
      BY <1>1, <1>3, <1>8, <2>2, <3>1
  <2> QED
    BY <2>1, <2>2
<1>11. Year(d) = k <=> D * g =< x /\ x < D * h
  BY <1>2, <1>5, <1>9, <1>10 DEF g, h
<1>12. Start(k) = D * g + 1 /\ Start(k + 1) = D * h + 1
  BY <1>4, <1>7
<1> QED
  BY <1>1, <1>4, <1>8, <1>11, <1>12

(* The range from the first to the last day of a year returns what the     *)
(* year does, or is refused for want of observations.                      *)
LEMMA RangeOfYear ==
    ASSUME IngestInv, Loaded, NEW bucket \in Range(PeriodicReturns("year"))
    PROVE  LET k == bucket.period
               range == AttributionRange(Start(k), Start(k + 1) - 1)
           IN  IF Cardinality(Observed("year", k)) < MinObs
               THEN range = << >>
               ELSE Compound(range) = bucket.return
<1> DEFINE k == bucket.period
           seen == Observed("year", k)
           inside == {i \in DOMAIN days : Start(k) =< days[i] /\ days[i] =< Start(k + 1) - 1}
<1>1. PICK a, c \in Nat : seen = a + 1 .. c /\ bucket.return = Compound(Kept(returns, a + 1 .. c))
  BY ObservedIs
<1>2. k \in Int
  <2>1. PICK b : Segmented(PeriodicReturns("year"), b, YearOf, Totals(MonthSeries),
                           Len(MonthlyReturns))
    BY YearsOfMonths
  <2>2. PeriodicReturns("year") \in Seq(Entry)
    BY <2>1 DEF Segmented
  <2>3. bucket \in Entry
    BY <2>2 DEF Range
  <2> QED
    BY <2>3 DEF Entry
<1>3. DOMAIN days = 1 .. Len(returns) /\ \A i \in 1 .. Len(returns) : days[i] \in Nat \ {0}
  BY SeriesIs
<1>4. seen = {i \in DOMAIN days : Year(days[i]) = k}
  BY DEF Observed, Key
<1> HIDE DEF k
<1>5. \A i \in DOMAIN days :
         Year(days[i]) = k <=> Start(k) =< days[i] /\ days[i] =< Start(k + 1) - 1
  BY <1>2, <1>3, YearIsRange
<1>6. inside = seen
  BY <1>4, <1>5
<1>7. AttributionRange(Start(k), Start(k + 1) - 1) =
         IF Cardinality(inside) < MinObs THEN << >> ELSE Kept(returns, inside)
  BY DEF AttributionRange
<1> HIDE DEF inside, seen
<1> QED
  BY <1>1, <1>6, <1>7 DEF k, seen

(* A stretch of time returns the same whichever tool is asked.             *)
LEMMA InvWindows == IngestInv => WindowsAgree
BY LastWindowIsTrailing, WindowOfPeriod, RangeOfYear DEF WindowsAgree

----------------------------------------------------------------------------
(* Months.                                                                 *)

(* How many of these positions are among the first p.                      *)
CountTo(H, p) == Cardinality(H \cap (1 .. p))

(* K has the positions of H after a and up to c, numbered from a.          *)
Shifted(K, H, a, c) ==
    /\ K \in SUBSET (1 .. c - a)
    /\ \A k \in 1 .. c - a : k \in K <=> a + k \in H

(* How many of some positions lie in a run of them.                        *)
LEMMA CountOfPart ==
    ASSUME NEW m \in Nat, NEW H \in SUBSET (1 .. m),
           NEW a \in Nat, NEW c \in Nat, a =< c, c =< m,
           NEW K, Shifted(K, H, a, c)
    PROVE  /\ CountTo(H, a) \in Nat /\ CountTo(H, c) \in Nat
           /\ Cardinality(K) = CountTo(H, c) - CountTo(H, a)
<1>0. /\ K \in SUBSET (1 .. c - a)
      /\ \A k \in 1 .. c - a : k \in K <=> a + k \in H
  BY DEF Shifted
<1> DEFINE A == H \cap (1 .. a)
           C == H \cap (1 .. c)
           f == [k \in K |-> a + k]
<1>1. /\ IsFiniteSet(A) /\ Cardinality(A) \in Nat
      /\ IsFiniteSet(C) /\ Cardinality(C) \in Nat
  <2>1. A \in SUBSET (1 .. m) /\ C \in SUBSET (1 .. m)
    OBVIOUS
  <2> HIDE DEF A, C
  <2>2. IsFiniteSet(A) /\ Cardinality(A) \in 0 .. m
    BY <2>1, PositionsSplit
  <2>3. IsFiniteSet(C) /\ Cardinality(C) \in 0 .. m
    BY <2>1, PositionsSplit
  <2> QED
    BY <2>2, <2>3
<1>2. IsFiniteSet(K)
  <2>1. K \in SUBSET (1 .. c - a) /\ c - a \in Nat
    BY <1>0
  <2> QED
    BY <2>1, PositionsSplit
<1>3. C \cap A = A
  OBVIOUS
<1>4. Cardinality(C \ A) = Cardinality(C) - Cardinality(A)
  <2> HIDE DEF A, C
  <2> QED
    BY <1>1, <1>3, FS_Difference
<1>5. f \in [K -> C \ A]
  <2>1. \A k \in K : a + k \in C \ A
    BY <1>0
  <2> HIDE DEF A, C
  <2> QED
    BY <2>1
<1>6. \A i \in C \ A : \E k \in K : f[k] = i
  <2> TAKE i \in C \ A
  <2>1. i \in H /\ i \in a + 1 .. c
    OBVIOUS
  <2>2. i - a \in 1 .. c - a /\ a + (i - a) = i
    BY <2>1
  <2>3. i - a \in K
    BY <1>0, <2>1, <2>2
  <2>4. f[i - a] = i
    BY <2>2, <2>3
  <2> HIDE DEF f
  <2> QED
    BY <2>3, <2>4
<1>7. \A j, k \in K : j # k => f[j] # f[k]
  <2>1. \A k \in K : f[k] = a + k
    OBVIOUS
  <2>2. \A k \in K : k \in Int
    BY <1>0
  <2> HIDE DEF f
  <2> QED
    BY <2>1, <2>2
<1> HIDE DEF A, C, f
<1>8. Cardinality(C \ A) = Cardinality(K)
  BY <1>2, <1>5, <1>6, <1>7, ImageIsFinite
<1> QED
  BY <1>1, <1>4, <1>8 DEF A, C, CountTo

(* Counted run by run, nothing is counted twice or left out.               *)
LEMMA CountsAddUp ==
    ASSUME NEW m \in Nat, NEW H \in SUBSET (1 .. m), NEW w \in Nat,
           NEW c, c[0] = 0, c[w] = m, \A x \in 0 .. w : c[x] \in 0 .. m,
           \A x \in 1 .. w : c[x - 1] < c[x],
           NEW s, s = [x \in 1 .. w |-> s[x]], NEW K,
           \A x \in 1 .. w :
              /\ s[x] = Cardinality(K[x])
              /\ Shifted(K[x], H, c[x - 1], c[x])
    PROVE  Compound(s) = Cardinality(H)
<1> DEFINE W(p) == CountTo(H, p)
           B == [x \in 0 .. w |-> W(c[x])]
<1>1. ASSUME NEW x \in 1 .. w
      PROVE  W(c[x]) \in Nat /\ W(c[x - 1]) \in Nat /\ s[x] = W(c[x]) - W(c[x - 1])
  <2>1. x \in 0 .. w /\ x - 1 \in 0 .. w
    OBVIOUS
  <2>2. c[x - 1] \in 0 .. m /\ c[x] \in 0 .. m /\ c[x - 1] < c[x]
    BY <2>1
  <2>3. c[x - 1] \in Nat /\ c[x] \in Nat /\ c[x - 1] =< c[x] /\ c[x] =< m
    BY <2>2
  <2>4. s[x] = Cardinality(K[x]) /\ Shifted(K[x], H, c[x - 1], c[x])
    OBVIOUS
  <2>5. m \in Nat /\ H \in SUBSET (1 .. m)
    OBVIOUS
  <2> QED
    BY ONLY <2>3, <2>4, <2>5, CountOfPart
<1>2. W(0) = 0 /\ W(m) = Cardinality(H) /\ Cardinality(H) \in Nat
  <2>1. H \cap (1 .. 0) = {} /\ H \cap (1 .. m) = H
    OBVIOUS
  <2>2. Cardinality(H) \in 0 .. m
    BY PositionsSplit
  <2>3. Cardinality({}) = 0
    BY FS_EmptySet
  <2>4. W(0) = Cardinality({}) /\ W(m) = Cardinality(H)
    BY <2>1 DEF CountTo
  <2> HIDE DEF W
  <2> QED
    BY <2>2, <2>3, <2>4
<1> HIDE DEF W
<1>3. \A x \in 0 .. w : B[x] = W(c[x]) /\ W(c[x]) \in Int
  <2>1. \A x \in 0 .. w : x = 0 \/ x \in 1 .. w
    OBVIOUS
  <2> QED
    BY <1>1, <1>2, <2>1
<1> HIDE DEF B
<1>4. \A x \in 1 .. w : s[x] \in Int /\ s[x] = B[x] - B[x - 1]
  <2>1. \A x \in 1 .. w : x \in 0 .. w /\ x - 1 \in 0 .. w
    OBVIOUS
  <2> QED
    BY <1>1, <1>3, <2>1
<1>5. s \in Seq(Int) /\ Len(s) = w
  <2>1. \A x \in 1 .. w : s[x] \in Int
    BY <1>4
  <2>2. s = [x \in 1 .. w |-> s[x]] /\ w \in Nat
    OBVIOUS
  <2> QED
    BY ONLY <2>1, <2>2
<1>6. /\ \A x \in 0 .. Len(s) : B[x] \in Int
      /\ \A x \in 1 .. Len(s) : s[x] = B[x] - B[x - 1]
  BY <1>3, <1>4, <1>5
<1>7. Compound(s) = B[Len(s)] - B[0]
  BY ONLY <1>5, <1>6, Telescopes
<1>8. B[w] = Cardinality(H) /\ B[0] = 0
  <2>1. w \in 0 .. w /\ 0 \in 0 .. w
    OBVIOUS
  <2> QED
    BY <1>2, <1>3, <2>1
<1> QED
  BY <1>2, <1>5, <1>7, <1>8

(* p is the first of the positions of the greatest of these n numbers.     *)
FirstGreatest(v, n, p) ==
    /\ p \in 1 .. n
    /\ \A q \in 1 .. n : v[q] =< v[p] /\ (q < p => v[q] < v[p])

(* There is one, and no other.                                             *)
LEMMA FirstGreatestExists ==
    ASSUME NEW n \in Nat \ {0}, NEW v \in [1 .. n -> Int]
    PROVE  /\ \E p \in 1 .. n : FirstGreatest(v, n, p)
           /\ \A p, q : FirstGreatest(v, n, p) /\ FirstGreatest(v, n, q) => p = q
<1> DEFINE R == {v[q] : q \in 1 .. n}
<1>1. \A q \in 1 .. n : v[q] \in Int
  OBVIOUS
<1>2. R \in SUBSET Int /\ R # {} /\ (\A y \in R : \E q \in 1 .. n : v[q] = y)
      /\ v \in [1 .. n -> R] /\ \A q \in 1 .. n : v[q] \in R
  <2>1. 1 \in 1 .. n
    OBVIOUS
  <2> QED
    BY <1>1, <2>1
<1> HIDE DEF R
<1>3. IsFiniteSet(R)
  <2>1. IsFiniteSet(1 .. n)
    BY IntervalSize
  <2>2. v \in [1 .. n -> R] /\ \A y \in R : \E q \in 1 .. n : v[q] = y
    BY <1>2
  <2> QED
    BY ONLY <2>1, <2>2, ImageIsFinite, Zenon
<1>4. PICK top \in R : \A y \in R : y =< top
  BY <1>2, <1>3, EndsOfSet
<1> DEFINE S == {q \in 1 .. n : v[q] = top}
<1>5. S \in SUBSET Nat /\ S # {}
  BY <1>2
<1>6. PICK p \in S : \A q \in S : p =< q
  BY <1>5, LeastNat
<1>7. FirstGreatest(v, n, p)
  <2>1. p \in 1 .. n /\ v[p] = top
    BY <1>6
  <2>2. ASSUME NEW q \in 1 .. n PROVE v[q] =< v[p] /\ (q < p => v[q] < v[p])
    <3>1. v[q] =< top /\ v[q] \in Int /\ top \in Int
      BY <1>1, <1>2, <1>4
    <3>2. ASSUME q < p PROVE v[q] # top
      <4>1. ~ p =< q
        BY <2>1, <3>2
      <4> QED
        BY <1>6, <4>1
    <3> QED
      BY <2>1, <3>1, <3>2
  <2> QED
    BY <2>1, <2>2 DEF FirstGreatest
<1>8. ASSUME NEW x, NEW y, FirstGreatest(v, n, x), FirstGreatest(v, n, y) PROVE x = y
  <2>1. /\ x \in 1 .. n /\ y \in 1 .. n
        /\ v[x] =< v[y] /\ v[y] =< v[x]
        /\ (x < y => v[x] < v[y]) /\ (y < x => v[y] < v[x])
    BY <1>8 DEF FirstGreatest
  <2>2. v[x] \in Int /\ v[y] \in Int
    BY <1>1, <2>1
  <2> QED
    BY <2>1, <2>2
<1> QED
  BY <1>6, <1>7, <1>8 DEF FirstGreatest

(* What the months return, for the best of them,                           *)
High(t) == [q \in 1 .. Len(t) |-> t[q].return]

(* and for the worst.                                                      *)
Low(t) == [q \in 1 .. Len(t) |-> 0 - t[q].return]

(* argmax() and argmin() find them.                                        *)
LEMMA ExtremesAre ==
    ASSUME NEW t \in Seq(Entry), Len(t) # 0
    PROVE  /\ Len(t) \in Nat \ {0}
           /\ High(t) \in [1 .. Len(t) -> Int] /\ Low(t) \in [1 .. Len(t) -> Int]
           /\ FirstGreatest(High(t), Len(t), Best(t))
           /\ FirstGreatest(Low(t), Len(t), Worst(t))
<1> DEFINE n == Len(t)
           IsBest(p) == \A q \in 1 .. n :
                           /\ t[q].return =< t[p].return
                           /\ q < p => t[q].return < t[p].return
           IsWorst(p) == \A q \in 1 .. n :
                            /\ t[q].return >= t[p].return
                            /\ q < p => t[q].return > t[p].return
<1>1. n \in Nat \ {0} /\ DOMAIN t = 1 .. n
  OBVIOUS
<1>2. \A q \in 1 .. n : t[q].return \in Int
  <2>1. \A q \in 1 .. n : t[q] \in Entry
    OBVIOUS
  <2>2. \A e \in Entry : e.return \in Int
    BY DEF Entry
  <2> QED
    BY <2>1, <2>2
<1>3. /\ \A q \in 1 .. n : High(t)[q] = t[q].return
      /\ \A q \in 1 .. n : Low(t)[q] = 0 - t[q].return
  BY DEF High, Low
<1>4. High(t) \in [1 .. n -> Int] /\ Low(t) \in [1 .. n -> Int]
  BY <1>2 DEF High, Low
<1>5. Best(t) = (CHOOSE p \in 1 .. n : IsBest(p)) /\ Worst(t) = (CHOOSE p \in 1 .. n : IsWorst(p))
  BY <1>1 DEF Best, Worst
<1> HIDE DEF n
<1>6. ASSUME NEW p \in 1 .. n
      PROVE  /\ IsBest(p) <=> FirstGreatest(High(t), n, p)
             /\ IsWorst(p) <=> FirstGreatest(Low(t), n, p)
  <2>1. \A q \in 1 .. n :
           /\ t[q].return =< t[p].return <=> High(t)[q] =< High(t)[p]
           /\ t[q].return < t[p].return <=> High(t)[q] < High(t)[p]
    BY <1>3
  <2>2. \A q \in 1 .. n :
           /\ t[q].return >= t[p].return <=> Low(t)[q] =< Low(t)[p]
           /\ t[q].return > t[p].return <=> Low(t)[q] < Low(t)[p]
    BY <1>2, <1>3
  <2> QED
    BY <2>1, <2>2 DEF FirstGreatest
<1>7. \E p \in 1 .. n : FirstGreatest(High(t), n, p)
  BY <1>1, <1>4, FirstGreatestExists
<1>8. \E p \in 1 .. n : FirstGreatest(Low(t), n, p)
  BY <1>1, <1>4, FirstGreatestExists
<1> HIDE DEF IsBest, IsWorst
<1>9. Best(t) \in 1 .. n /\ IsBest(Best(t)) /\ Worst(t) \in 1 .. n /\ IsWorst(Worst(t))
  BY <1>5, <1>6, <1>7, <1>8
<1> QED
  BY <1>1, <1>4, <1>6, <1>9 DEF n

(* The best and the worst of a table are those of the part they are in.    *)
LEMMA ExtremesOfPart ==
    ASSUME NEW t \in Seq(Entry), Len(t) # 0, NEW a \in Nat, NEW c \in Nat,
           a < c, c =< Len(t),
           NEW s \in Seq(Entry), Len(s) = c - a, \A k \in 1 .. c - a : s[k] = t[a + k]
    PROVE  /\ Best(t) \in a + 1 .. c => s[Best(s)] = t[Best(t)]
           /\ Worst(t) \in a + 1 .. c => s[Worst(s)] = t[Worst(t)]
<1> DEFINE n == Len(t)
           m == c - a
<1>1. /\ n \in Nat \ {0}
      /\ FirstGreatest(High(t), n, Best(t)) /\ FirstGreatest(Low(t), n, Worst(t))
  BY ExtremesAre
<1>2. m \in Nat \ {0} /\ Len(s) = m /\ Len(s) # 0
  OBVIOUS
<1>3. /\ High(s) \in [1 .. m -> Int] /\ Low(s) \in [1 .. m -> Int]
      /\ FirstGreatest(High(s), m, Best(s)) /\ FirstGreatest(Low(s), m, Worst(s))
  BY <1>2, ExtremesAre
<1>4. \A k \in 1 .. m : a + k \in 1 .. n /\ s[k] = t[a + k]
  OBVIOUS
<1>5. \A k \in 1 .. m : High(s)[k] = High(t)[a + k] /\ Low(s)[k] = Low(t)[a + k]
  <2> TAKE k \in 1 .. m
  <2>1. a + k \in 1 .. n /\ s[k] = t[a + k] /\ k \in 1 .. Len(s)
    BY <1>2, <1>4
  <2> QED
    BY <2>1 DEF High, Low
<1>6. \A v, u, p : FirstGreatest(v, n, p) /\ p \in a + 1 .. c
                   /\ (\A k \in 1 .. m : u[k] = v[a + k])
                   => FirstGreatest(u, m, p - a)
  <2> SUFFICES ASSUME NEW v, NEW u, NEW p, FirstGreatest(v, n, p), p \in a + 1 .. c,
                      \A k \in 1 .. m : u[k] = v[a + k]
               PROVE  FirstGreatest(u, m, p - a)
    OBVIOUS
  <2>1. p - a \in 1 .. m /\ a + (p - a) = p
    OBVIOUS
  <2>2. ASSUME NEW q \in 1 .. m PROVE u[q] =< u[p - a] /\ (q < p - a => u[q] < u[p - a])
    <3>1. u[q] = v[a + q] /\ u[p - a] = v[p]
      BY <2>1
    <3>2. a + q \in 1 .. n
      BY <1>4
    <3>3. v[a + q] =< v[p] /\ (a + q < p => v[a + q] < v[p])
      BY <3>2 DEF FirstGreatest
    <3>4. q < p - a => a + q < p
      OBVIOUS
    <3> QED
      BY <3>1, <3>3, <3>4
  <2> QED
    BY <2>1, <2>2 DEF FirstGreatest
<1>7. ASSUME Best(t) \in a + 1 .. c PROVE s[Best(s)] = t[Best(t)]
  <2>1. FirstGreatest(High(s), m, Best(t) - a)
    BY <1>1, <1>5, <1>6, <1>7
  <2>2. Best(s) = Best(t) - a
    BY <1>2, <1>3, <2>1, FirstGreatestExists
  <2>3. Best(t) - a \in 1 .. m /\ a + (Best(t) - a) = Best(t)
    BY <1>7
  <2> QED
    BY <1>4, <2>2, <2>3
<1>8. ASSUME Worst(t) \in a + 1 .. c PROVE s[Worst(s)] = t[Worst(t)]
  <2>1. FirstGreatest(Low(s), m, Worst(t) - a)
    BY <1>1, <1>5, <1>6, <1>8
  <2>2. Worst(s) = Worst(t) - a
    BY <1>2, <1>3, <2>1, FirstGreatestExists
  <2>3. Worst(t) - a \in 1 .. m /\ a + (Worst(t) - a) = Worst(t)
    BY <1>8
  <2> QED
    BY <1>4, <2>2, <2>3
<1> QED
  BY <1>7, <1>8

(* The years for which monthly_stats() can be asked.                       *)
YearsSeen == InOrder({Year(days[i]) : i \in DOMAIN days})

(* The months t of all years, and where those of each of the years end.    *)
MonthRuns(t, years, c) ==
    /\ t \in Seq(Entry) /\ Len(t) \in Nat
    /\ Len(years) \in Nat /\ DOMAIN years = 1 .. Len(years)
    /\ c[0] = 0 /\ c[Len(years)] = Len(t)
    /\ \A x \in 0 .. Len(years) : c[x] \in 0 .. Len(t)
    /\ \A x \in 1 .. Len(years) :
          /\ c[x - 1] \in Nat /\ c[x] \in Nat
          /\ c[x - 1] < c[x] /\ c[x] =< Len(t)
          /\ ScopedMonths(years[x]) = Kept(t, c[x - 1] + 1 .. c[x])
    /\ \A i \in 1 .. Len(t) :
          \E x \in 1 .. Len(years) : i \in c[x - 1] + 1 .. c[x]

(* The months of a year are a run of all months.                           *)
LEMMA MonthsOfYears ==
    ASSUME IngestInv, Loaded
    PROVE  \E c : MonthRuns(MonthlyReturns, YearsSeen, c)
<1> DEFINE M == MonthlyReturns
           Y == PeriodicReturns("year")
           m == Len(M)
           w == Len(Y)
           keys == YearsSeen
<1>1. PICK c : Segmented(Y, c, YearOf, Totals(MonthSeries), m) /\ Runs(Y, c, YearOf, m)
  BY YearsOfMonths
<1>2. /\ w \in Nat /\ DOMAIN Y = 1 .. w /\ c[0] = 0 /\ c[w] = m
      /\ \A x \in 0 .. w : c[x] \in 0 .. m
      /\ \A x, y \in 0 .. w : x < y => c[x] < c[y]
      /\ \A x \in 1 .. w : \A i \in 1 .. m : YearOf[i] = Y[x].period <=> i \in c[x - 1] + 1 .. c[x]
      /\ \A i \in 1 .. m : \E x \in 1 .. w : i \in c[x - 1] + 1 .. c[x]
  BY <1>1 DEF Runs
<1>3. M \in Seq(Entry) /\ m \in Nat /\ DOMAIN M = 1 .. m
  <2>1. M \in Seq(Entry)
    BY MonthsAre DEF Segmented
  <2> HIDE DEF M
  <2> QED
    BY <2>1
<1>4. DOMAIN keys = 1 .. w /\ \A x \in 1 .. w : Y[x].period = keys[x]
  <2>1. {Key("year", days[i]) : i \in DOMAIN days} = {Year(days[i]) : i \in DOMAIN days}
    BY DEF Key
  <2>2. Y = [p \in DOMAIN keys |->
                [period |-> keys[p],
                 return |-> Compound(Kept(returns, {i \in DOMAIN days : Key("year", days[i]) = keys[p]}))]]
    BY <2>1 DEF PeriodicReturns, YearsSeen
  <2>3. DOMAIN Y = DOMAIN keys /\ \A x \in DOMAIN keys : Y[x].period = keys[x]
    <3> HIDE DEF Y, keys
    <3>1. Y = [p \in DOMAIN keys |->
                [period |-> keys[p],
                 return |-> Compound(Kept(returns, {i \in DOMAIN days : Key("year", days[i]) = keys[p]}))]]
      BY <2>2
    <3> QED
      BY ONLY <3>1
  <2> HIDE DEF Y, keys, w
  <2> QED
    BY <1>2, <2>3
<1>5. keys \in Seq(Nat) /\ Len(keys) = w
  <2>1. /\ DOMAIN days = 1 .. Len(returns) /\ Len(returns) \in Nat
        /\ \A i \in 1 .. Len(returns) : Year(days[i]) \in Nat
    <3>1. "year" \in {"year", "month"}
      OBVIOUS
    <3>2. /\ DOMAIN days = 1 .. Len(returns) /\ Len(returns) \in Nat
          /\ \A i \in 1 .. Len(returns) : days[i] \in Nat \ {0}
      BY <3>1, SeriesIs
    <3>3. \A i \in 1 .. Len(returns) : days[i] =< days[i]
      BY <3>2
    <3> QED
      BY <3>2, <3>3, CalendarAscends
  <2>2. \A x \in 1 .. w : keys[x] \in Nat
    <3> TAKE x \in 1 .. w
    <3>1. Y[x] \in Range(Y)
      BY <1>2 DEF Range
    <3>2. \E i \in DOMAIN days : Key("year", days[i]) = Y[x].period
      <4>1. "year" \in {"year", "month"}
        OBVIOUS
      <4>2. PICK a, e \in Nat : a < e /\ e =< Len(returns)
                                /\ Observed("year", Y[x].period) = a + 1 .. e
        BY <3>1, <4>1, ObservedIs
      <4>3. e \in Observed("year", Y[x].period)
        BY <4>2
      <4> QED
        BY <4>3 DEF Observed
    <3> QED
      BY <1>4, <2>1, <3>2 DEF Key
  <2>3. keys = [x \in 1 .. w |-> keys[x]]
    <3>1. keys = [x \in DOMAIN keys |-> keys[x]]
      <4> DEFINE S == {Year(days[i]) : i \in DOMAIN days}
      <4>1. InOrder(S) = [x \in DOMAIN InOrder(S) |-> InOrder(S)[x]]
        <5> HIDE DEF S
        <5> QED
          BY DEF InOrder
      <4> QED
        BY <4>1 DEF YearsSeen
    <3> HIDE DEF keys
    <3> QED
      BY <1>4, <3>1
  <2> HIDE DEF keys, w
  <2> QED
    BY <1>2, <2>2, <2>3
<1>6. ASSUME NEW x \in 1 .. w
      PROVE  ScopedMonths(keys[x]) = Kept(M, c[x - 1] + 1 .. c[x])
  <2>1. keys[x] # AllYears
    <3>1. keys[x] \in Nat
      <4> HIDE DEF keys, w
      <4> QED
        BY <1>2, <1>5
    <3> HIDE DEF keys
    <3> QED
      BY <3>1 DEF AllYears
  <2>2. {p \in DOMAIN M : M[p].period \div MonthsInYear = keys[x]} = c[x - 1] + 1 .. c[x]
    <3>1. \A p \in 1 .. m : YearOf[p] = M[p].period \div MonthsInYear
      BY <1>3 DEF YearOf
    <3>2. \A i \in 1 .. m : YearOf[i] = keys[x] <=> i \in c[x - 1] + 1 .. c[x]
      BY <1>2, <1>4
    <3>3. c[x - 1] + 1 .. c[x] \in SUBSET (1 .. m)
      <4>1. x - 1 \in 0 .. w /\ x \in 0 .. w
        BY <1>2
      <4>2. c[x - 1] \in 0 .. m /\ c[x] \in 0 .. m
        BY <1>2, <4>1
      <4> HIDE DEF m
      <4> QED
        BY <1>3, <4>2
    <3> HIDE DEF M, m, keys
    <3> QED
      BY <1>3, <3>1, <3>2, <3>3
  <2> QED
    BY <2>1, <2>2 DEF ScopedMonths
<1>7. \A x \in 1 .. w : c[x - 1] \in Nat /\ c[x] \in Nat /\ c[x - 1] < c[x] /\ c[x] =< m
  <2> TAKE x \in 1 .. w
  <2>1. x - 1 \in 0 .. w /\ x \in 0 .. w /\ x - 1 < x
    BY <1>2
  <2>2. c[x - 1] \in 0 .. m /\ c[x] \in 0 .. m /\ c[x - 1] < c[x]
    BY <1>2, <2>1
  <2> HIDE DEF m, w
  <2> QED
    BY <1>3, <2>2
<1>8. MonthRuns(M, keys, c)
  <2> HIDE DEF M, Y, m, w, keys
  <2>1. Len(keys) = w /\ DOMAIN keys = 1 .. Len(keys)
    BY <1>4, <1>5
  <2>2. m = Len(M)
    BY DEF m
  <2> QED
    BY <1>2, <1>3, <1>6, <1>7, <2>1, <2>2 DEF MonthRuns
<1> QED
  BY <1>8

(* The months that return more than this.                                  *)
Above(t, rate) == {p \in DOMAIN t : t[p].return > rate}

(* The months of the years that do add up to those of all years.           *)
LEMMA MonthsAboveAddUp ==
    ASSUME NEW t, NEW years, NEW c, MonthRuns(t, years, c), NEW rate \in Int
    PROVE  Compound([x \in DOMAIN years |-> Cardinality(Above(ScopedMonths(years[x]), rate))])
              = Cardinality(Above(t, rate))
<1> DEFINE m == Len(t)
           w == Len(years)
           H == Above(t, rate)
           K == [x \in 1 .. w |-> Above(ScopedMonths(years[x]), rate)]
           s == [x \in 1 .. w |-> Cardinality(K[x])]
<1>1. /\ t \in Seq(Entry) /\ m \in Nat /\ w \in Nat /\ DOMAIN years = 1 .. w
      /\ c[0] = 0 /\ c[w] = m
      /\ \A x \in 0 .. w : c[x] \in 0 .. m
      /\ \A x \in 1 .. w :
            /\ c[x - 1] \in Nat /\ c[x] \in Nat /\ c[x - 1] < c[x] /\ c[x] =< m
            /\ ScopedMonths(years[x]) = Kept(t, c[x - 1] + 1 .. c[x])
  BY DEF MonthRuns
<1>2. DOMAIN t = 1 .. m /\ H \in SUBSET (1 .. m) /\ \A p \in 1 .. m : p \in H <=> t[p].return > rate
  BY <1>1 DEF Above
<1>3. ASSUME NEW x \in 1 .. w
      PROVE  Shifted(K[x], H, c[x - 1], c[x])
  <2> DEFINE a == c[x - 1]
             e == c[x]
             u == Kept(t, a + 1 .. e)
             P == Above(u, rate)
  <2>1. a \in Nat /\ e \in Nat /\ a =< e /\ e =< m
    BY <1>1
  <2>2. K[x] = P
    BY <1>1
  <2> HIDE DEF a, e, P, K, H
  <2>3. /\ u \in Seq(Entry) /\ Len(u) = e - a
        /\ \A k \in 1 .. e - a : a + k \in 1 .. m /\ u[k] = t[a + k]
    BY ONLY <1>1, <2>1, KeptRun
  <2> HIDE DEF u
  <2>4. P \in SUBSET (1 .. e - a) /\ \A k \in 1 .. e - a : k \in P <=> u[k].return > rate
    <3>1. DOMAIN u = 1 .. e - a
      BY <2>3
    <3> QED
      BY <3>1 DEF P, Above
  <2>5. \A k \in 1 .. e - a : k \in P <=> a + k \in H
    BY <1>2, <2>3, <2>4
  <2>6. Shifted(P, H, a, e)
    BY <2>4, <2>5 DEF Shifted
  <2> QED
    BY <2>2, <2>6 DEF a, e
<1>4. s = [x \in 1 .. w |-> s[x]] /\ \A x \in 1 .. w : s[x] = Cardinality(K[x])
  OBVIOUS
<1>5. [x \in DOMAIN years |-> Cardinality(Above(ScopedMonths(years[x]), rate))] = s
  BY <1>1
<1> HIDE DEF m, w, H, K, s
<1>6. \A x \in 1 .. w : s[x] = Cardinality(K[x]) /\ Shifted(K[x], H, c[x - 1], c[x])
  BY <1>3, <1>4
<1>7. \A x \in 1 .. w : c[x - 1] < c[x]
  BY <1>1
<1>8. Compound(s) = Cardinality(H)
  <2>1. /\ m \in Nat /\ w \in Nat /\ H \in SUBSET (1 .. m)
        /\ c[0] = 0 /\ c[w] = m
    BY <1>1, <1>2
  <2>2. \A x \in 0 .. w : c[x] \in 0 .. m
    BY <1>1
  <2>3. s = [x \in 1 .. w |-> s[x]]
    BY <1>4
  <2> QED
    BY ONLY <2>1, <2>2, <2>3, <1>6, <1>7, CountsAddUp
<1> QED
  BY <1>5, <1>8 DEF H

(* The best and the worst month of all are those of a year.                *)
LEMMA ExtremesOfYears ==
    ASSUME NEW t, NEW years, NEW c, MonthRuns(t, years, c), Len(t) # 0
    PROVE  /\ \E x \in DOMAIN years :
                 ScopedMonths(years[x])[Best(ScopedMonths(years[x]))] = t[Best(t)]
           /\ \E x \in DOMAIN years :
                 ScopedMonths(years[x])[Worst(ScopedMonths(years[x]))] = t[Worst(t)]
<1> DEFINE m == Len(t)
           w == Len(years)
<1>1. /\ t \in Seq(Entry) /\ m \in Nat /\ w \in Nat /\ DOMAIN years = 1 .. w
      /\ \A x \in 1 .. w :
            /\ c[x - 1] \in Nat /\ c[x] \in Nat /\ c[x - 1] < c[x] /\ c[x] =< m
            /\ ScopedMonths(years[x]) = Kept(t, c[x - 1] + 1 .. c[x])
      /\ \A i \in 1 .. m : \E x \in 1 .. w : i \in c[x - 1] + 1 .. c[x]
  BY DEF MonthRuns
<1>2. Best(t) \in 1 .. m /\ Worst(t) \in 1 .. m
  BY <1>1, ExtremesAre DEF FirstGreatest
<1>3. ASSUME NEW x \in 1 .. w
      PROVE  LET u == ScopedMonths(years[x])
             IN  /\ Best(t) \in c[x - 1] + 1 .. c[x] => u[Best(u)] = t[Best(t)]
                 /\ Worst(t) \in c[x - 1] + 1 .. c[x] => u[Worst(u)] = t[Worst(t)]
  <2> DEFINE a == c[x - 1]
             e == c[x]
             u == Kept(t, a + 1 .. e)
  <2>1. a \in Nat /\ e \in Nat /\ a < e /\ a =< e /\ e =< Len(t)
    BY <1>1
  <2>2. ScopedMonths(years[x]) = u
    BY <1>1
  <2> HIDE DEF a, e
  <2>3. /\ u \in Seq(Entry) /\ Len(u) = e - a
        /\ \A k \in 1 .. e - a : a + k \in 1 .. Len(t) /\ u[k] = t[a + k]
    <3>1. t \in Seq(Entry)
      BY <1>1
    <3> QED
      BY ONLY <2>1, <3>1, KeptRun
  <2> HIDE DEF u
  <2>4. \A k \in 1 .. e - a : u[k] = t[a + k]
    BY <2>3
  <2>5. t \in Seq(Entry) /\ Len(t) # 0
    BY <1>1
  <2>6. /\ Best(t) \in a + 1 .. e => u[Best(u)] = t[Best(t)]
        /\ Worst(t) \in a + 1 .. e => u[Worst(u)] = t[Worst(t)]
    BY ONLY <2>1, <2>3, <2>4, <2>5, ExtremesOfPart
  <2> QED
    BY <2>2, <2>6 DEF a, e
<1> QED
  BY <1>1, <1>2, <1>3

(* The statistics of the years are parts of those of all months.           *)
LEMMA InvMonths == IngestInv => MonthsAgree
<1> SUFFICES ASSUME IngestInv, Loaded, ScopedMonths(AllYears) # << >>,
                    NEW rate \in MonthlyRates
             PROVE  LET each == [n \in DOMAIN YearsSeen |->
                                    MonthlyStats(rate, YearsSeen[n])]
                        all == MonthlyStats(rate, AllYears)
                    IN  /\ all.wins = Wins(rate)
                        /\ all.wins = Compound([n \in DOMAIN each |-> each[n].wins])
                        /\ all.positive =
                              Compound([n \in DOMAIN each |-> each[n].positive])
                        /\ all.best \in {each[n].best : n \in DOMAIN each}
                        /\ all.worst \in {each[n].worst : n \in DOMAIN each}
                        /\ Excess(Len(MonthlyReturns), rate) = Compound(returns) - rate
  BY DEF MonthsAgree, YearsSeen
<1> DEFINE M == MonthlyReturns
           keys == YearsSeen
           of(n) == ScopedMonths(keys[n])
           each == [n \in DOMAIN keys |-> MonthlyStats(rate, keys[n])]
           all == MonthlyStats(rate, AllYears)
<1>1. PICK c : MonthRuns(M, keys, c)
  BY MonthsOfYears
<1>2. M \in Seq(Entry) /\ Len(M) \in Nat
  BY <1>1 DEF MonthRuns
<1>3. ScopedMonths(AllYears) = M /\ Len(M) # 0
  <2>1. ScopedMonths(AllYears) = IF Len(M) < 3 THEN << >> ELSE M
    BY DEF ScopedMonths
  <2> HIDE DEF M
  <2> QED
    BY <1>2, <2>1
<1>4. rate \in Int /\ 0 \in Int /\ rate # NoFigure
  BY ToolkitAssumption
<1>5. /\ all.best = M[Best(M)] /\ all.worst = M[Worst(M)]
      /\ all.wins = Cardinality(Above(M, rate))
      /\ all.positive = Cardinality(Above(M, 0))
  BY <1>3 DEF MonthlyStats, Above
<1>6. \A n \in DOMAIN keys :
         /\ each[n].best = of(n)[Best(of(n))]
         /\ each[n].worst = of(n)[Worst(of(n))]
         /\ each[n].wins = Cardinality(Above(of(n), rate))
         /\ each[n].positive = Cardinality(Above(of(n), 0))
  BY DEF MonthlyStats, Above
<1>7. /\ DOMAIN each = DOMAIN keys
      /\ [n \in DOMAIN each |-> each[n].wins]
            = [n \in DOMAIN keys |-> Cardinality(Above(of(n), rate))]
      /\ [n \in DOMAIN each |-> each[n].positive]
            = [n \in DOMAIN keys |-> Cardinality(Above(of(n), 0))]
  <2>1. DOMAIN each = DOMAIN keys
    OBVIOUS
  <2> HIDE DEF each, keys, of
  <2> QED
    BY <1>6, <2>1
<1>8. all.wins = Compound([n \in DOMAIN each |-> each[n].wins])
  <2>1. Compound([n \in DOMAIN keys |-> Cardinality(Above(of(n), rate))]) = Cardinality(Above(M, rate))
    BY <1>1, <1>4, MonthsAboveAddUp
  <2> QED
    BY <1>5, <1>7, <2>1
<1>9. all.positive = Compound([n \in DOMAIN each |-> each[n].positive])
  <2>1. Compound([n \in DOMAIN keys |-> Cardinality(Above(of(n), 0))]) = Cardinality(Above(M, 0))
    BY <1>1, <1>4, MonthsAboveAddUp
  <2> QED
    BY <1>5, <1>7, <2>1
<1>10. all.best \in {each[n].best : n \in DOMAIN each} /\ all.worst \in {each[n].worst : n \in DOMAIN each}
  <2>1. /\ \E n \in DOMAIN keys : of(n)[Best(of(n))] = M[Best(M)]
        /\ \E n \in DOMAIN keys : of(n)[Worst(of(n))] = M[Worst(M)]
    BY <1>1, <1>3, ExtremesOfYears
  <2> HIDE DEF each, all, keys, of, M
  <2> QED
    BY <1>5, <1>6, <1>7, <2>1
<1>11. all.wins = Wins(rate)
  BY <1>5 DEF Wins, Above
<1>12. Excess(Len(M), rate) = Compound(returns) - rate
  <2>1. Len(M) =< Len(M)
    BY <1>2
  <2>2. Trailing(Len(M)) # NoFigure /\ TrailingOrNone(Len(M)) = Trailing(Len(M))
    BY <1>2, <2>1, TrailingIs
  <2>3. Trailing(Len(M)) = Compound(returns)
    BY InvTables DEF TablesAgree
  <2> QED
    BY <1>4, <2>2, <2>3 DEF Excess
<1> HIDE DEF each, all
<1>13. /\ all.wins = Wins(rate)
       /\ all.wins = Compound([n \in DOMAIN each |-> each[n].wins])
       /\ all.positive = Compound([n \in DOMAIN each |-> each[n].positive])
       /\ all.best \in {each[n].best : n \in DOMAIN each}
       /\ all.worst \in {each[n].worst : n \in DOMAIN each}
       /\ Excess(Len(MonthlyReturns), rate) = Compound(returns) - rate
  BY <1>8, <1>9, <1>10, <1>11, <1>12
<1> QED
  BY <1>13 DEF each, all

(* Whatever file is loaded, the calendar tables, the trailing and rolling  *)
(* windows, the ranges of dates, the trends of the volatility and the      *)
(* statistics of the months agree on every stretch of time they share:     *)
(* analytics.py and benchmark.py compute each of them by another way.      *)
THEOREM FiguresAlwaysAgree == IngestSpec => []FiguresAgree
<1>1. IngestInv => FiguresAgree
  BY InvTables, InvWindows, InvTrends, InvMonths DEF FiguresAgree
<1> QED
  BY <1>1, IngestInvariance, PTL
=============================================================================
