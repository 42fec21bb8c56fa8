------------------------------- MODULE Ingest -------------------------------
(***************************************************************************)
(* engine/ingest.py: load_nav() step by step, from the rows of a file to   *)
(* dated returns and a cleaning report.                                    *)
(*                                                                         *)
(* A cell holds a number or is blank.  Numbers are small integers that     *)
(* stand for the logarithm of a price, or for a logarithmic return: a      *)
(* quotient of prices is a difference, compounding is a sum.  Numbers      *)
(* below 2 are "small" (at most 0.05 in size), numbers below 1 are not     *)
(* positive.  A file has two funds, "a" and "b".  A date cell is a date in *)
(* each convention, or not one (NaT): 25/01/2024 is none month-first,      *)
(* 05/01/2024 is two different ones, 2024-01-05 is one.                    *)
(***************************************************************************)
EXTENDS Enumerations

CONSTANTS
    Files,      \* the files a user may upload: sequences of rows
    MinObs,     \* config.MIN_OBS
    Blank       \* a cell without a number

Fund == {"a", "b"}

NaT == 0        \* the day of a cell that cannot be parsed

Number == Int \cup {Blank}

Row == [monthFirst : Nat, dayFirst : Nat, a : Number, b : Number]

ASSUME IngestAssumption ==
    /\ MinObs \in Nat \ {0}
    /\ Files \subseteq Seq(Row)

VARIABLES
    stage,      \* where load_nav() is
    file,       \* the rows of the file, in its order
    rows,       \* the rows still there, as df
    report,     \* the cleaning report
    days,       \* the dates of the observations
    fundReturns \* the returns of each fund on these dates

ivars == <<stage, file, rows, report, days, fundReturns>>

(* The series of fund "a".                                                 *)
returns == fundReturns.a

Stage == {"blanks", "dates", "sort", "mode", "nav", "returns", "gate",
          "loaded", "refused"}

EmptyReport == [blank |-> 0, bad |-> 0, filled |-> 0, convention |-> "none",
                mode |-> "none"]

IngestTypeOK ==
    /\ stage \in Stage
    /\ file \in Seq(Row) /\ rows \in Seq(Row)
    /\ Len(rows) =< Len(file)
    /\ report.blank \in 0 .. Len(file) /\ report.bad \in 0 .. Len(file)
    /\ report.filled \in 0 .. 2 * Len(file)
    /\ report.convention \in {"none", "month-first", "day-first"}
    /\ report.mode \in {"none", "nav", "returns"}
    /\ days \in Seq(Nat \ {NaT})
    /\ fundReturns \in [Fund -> Seq(Int)]
    /\ \A f \in Fund : Len(fundReturns[f]) = Len(days)

----------------------------------------------------------------------------
(* Helpers.                                                                *)

IsBlankRow(r) == r.a = Blank /\ r.b = Blank

HasGap(r) == r.a = Blank \/ r.b = Blank

Count(s, Test(_)) == Cardinality({i \in DOMAIN s : Test(s[i])})

(* The date the cell of row r is in a convention.                          *)
Written(r, convention) ==
    IF convention = "day-first" THEN r.dayFirst ELSE r.monthFirst

(* pd.to_datetime(errors="coerce", format="mixed", dayfirst=...), cell by  *)
(* cell: dayfirst is a preference, a cell that is no date in the preferred *)
(* convention is read in the other one.                                    *)
Day(r, convention) ==
    IF Written(r, convention) # NaT THEN Written(r, convention)
    ELSE IF convention = "day-first" THEN r.monthFirst ELSE r.dayFirst

(* Mutant: day-first is tried first.                                       *)
ConventionDayFirst(s) == "day-first"

(* _parse_dates(): day-first when more than a fifth of the rows do not     *)
(* parse month-first and it parses more of them.                           *)
Convention(s) ==
    LET MonthFirstFails(r) == Day(r, "month-first") = NaT
        DayFirstFails(r) == Day(r, "day-first") = NaT
    IN  IF /\ 5 * Count(s, MonthFirstFails) > Len(s)
           /\ Count(s, DayFirstFails) < Count(s, MonthFirstFails)
        THEN "day-first" ELSE "month-first"

(* The cells of all rows that hold a number.                               *)
Cells(s) ==
    {x \in (DOMAIN s) \X Fund : s[x[1]][x[2]] # Blank}

(* _detect_mode(): a negative number, or a median size below 0.05.         *)
Mode(s) ==
    LET small == {x \in Cells(s) : s[x[1]][x[2]] < 2}
        negative == {x \in Cells(s) : s[x[1]][x[2]] < 0}
    IN  IF Cells(s) = {} \/ negative # {}
           \/ 2 * Cardinality(small) > Cardinality(Cells(s))
        THEN "returns" ELSE "nav"

Filled(cell) == IF cell = Blank THEN 0 ELSE cell

(* The rows at these indices, in the order in which they stand.            *)
Kept(s, indices) ==
    LET order == InOrder(indices)
    IN  [n \in DOMAIN order |-> s[order[n]]]

Unless(s, Test(_)) == Kept(s, {i \in DOMAIN s : ~Test(s[i])})

Goto(l) == stage' = l

----------------------------------------------------------------------------
IngestInit ==
    /\ stage = "blanks"
    /\ file \in Files
    /\ rows = file
    /\ report = EmptyReport
    /\ days = << >>
    /\ fundReturns = [f \in Fund |-> << >>]

(* Mutant: rows with a blank cell are dropped as if they were blank.       *)
DropGaps ==
    /\ stage = "blanks"
    /\ rows' = Unless(rows, HasGap)
    /\ report' = [report EXCEPT !.blank = Count(rows, IsBlankRow)]
    /\ Goto("dates")
    /\ UNCHANGED <<file, days, fundReturns>>

(* 2) Rows without any number are dropped and counted.                     *)
DropBlanks ==
    /\ stage = "blanks"
    /\ rows' = Unless(rows, IsBlankRow)
    /\ report' = [report EXCEPT !.blank = Count(rows, IsBlankRow)]
    /\ Goto("dates")
    /\ UNCHANGED <<file, days, fundReturns>>

(* 3) Dates are read; rows without one are dropped and counted.            *)
ParseDates ==
    /\ stage = "dates"
    /\ LET convention == Convention(rows)
           Fails(r) == Day(r, convention) = NaT
       IN  /\ rows' = Unless(rows, Fails)
           /\ report' = [report EXCEPT !.bad = Count(rows, Fails),
                                       !.convention = convention]
    /\ Goto("sort")
    /\ UNCHANGED <<file, days, fundReturns>>

DayOf(i) == Day(rows[i], report.convention)

(* These rows, one of each date, by date.                                  *)
ByDate(indices) ==
    LET dates == InOrder({DayOf(i) : i \in indices})
    IN  [n \in DOMAIN dates |->
            rows[CHOOSE i \in indices : DayOf(i) = dates[n]]]

(***************************************************************************)
(* sort_values() and drop_duplicates(keep="last").  The sort is not        *)
(* stable: among rows of one date any may come last and survive.           *)
(***************************************************************************)
SortAndDropDuplicates ==
    /\ stage = "sort"
    /\ \E last \in SUBSET DOMAIN rows :
          /\ \A i \in DOMAIN rows : \E j \in last : DayOf(j) = DayOf(i)
          /\ \A i, j \in last : i # j => DayOf(i) # DayOf(j)
          /\ rows' = ByDate(last)
    /\ Goto("mode")
    /\ UNCHANGED <<file, report, days, fundReturns>>

(* 4) Prices or returns?                                                   *)
DetectMode ==
    /\ stage = "mode"
    /\ report' = [report EXCEPT !.mode = Mode(rows)]
    /\ Goto(Mode(rows))
    /\ UNCHANGED <<file, rows, days, fundReturns>>

(* A price that is not positive is an error, not a row to drop.            *)
RefusePrices ==
    /\ stage = "nav"
    /\ \E x \in Cells(rows) : rows[x[1]][x[2]] < 1
    /\ Goto("refused")
    /\ UNCHANGED <<file, rows, report, days, fundReturns>>

DaysOf(s) == [i \in DOMAIN s |-> Day(s[i], report.convention)]

(* Mutant: the first return is cut off, its date is not.                   *)
DifferenceKeepsDates ==
    /\ stage = "nav"
    /\ \A x \in Cells(rows) : rows[x[1]][x[2]] >= 1
    /\ LET full == Unless(rows, HasGap)
           later == IF full = << >> THEN << >> ELSE Tail(full)
       IN  /\ rows' = full
           /\ days' = DaysOf(full)
           /\ fundReturns' = [f \in Fund |->
                 [i \in DOMAIN later |-> later[i][f] - full[i][f]]]
    /\ Goto("gate")
    /\ UNCHANGED <<file, report>>

(* Rows with a gap are dropped, then successive prices are compared.       *)
Difference ==
    /\ stage = "nav"
    /\ \A x \in Cells(rows) : rows[x[1]][x[2]] >= 1
    /\ LET full == Unless(rows, HasGap)
           later == IF full = << >> THEN << >> ELSE Tail(full)
       IN  /\ rows' = full
           /\ days' = DaysOf(later)
           /\ fundReturns' = [f \in Fund |->
                 [i \in DOMAIN later |-> later[i][f] - full[i][f]]]
    /\ Goto("gate")
    /\ UNCHANGED <<file, report>>

(* A blank return counts as 0; blanks are counted.                         *)
FillReturns ==
    /\ stage = "returns"
    /\ report' = [report EXCEPT !.filled =
                     2 * Len(rows) - Cardinality(Cells(rows))]
    /\ days' = DaysOf(rows)
    /\ fundReturns' = [f \in Fund |->
                         [i \in DOMAIN rows |-> Filled(rows[i][f])]]
    /\ Goto("gate")
    /\ UNCHANGED <<file, rows>>

Gate ==
    /\ stage = "gate"
    /\ Goto(IF Len(days) < MinObs THEN "refused" ELSE "loaded")
    /\ UNCHANGED <<file, rows, report, days, fundReturns>>

IngestNext ==
    \/ DropBlanks \/ ParseDates \/ SortAndDropDuplicates \/ DetectMode
    \/ RefusePrices \/ Difference \/ FillReturns \/ Gate

IngestSpec == IngestInit /\ [][IngestNext]_ivars

----------------------------------------------------------------------------
(* Properties.                                                             *)

Loaded == stage = "loaded"

(* The rows of the file that can give an observation.                      *)
Usable ==
    {i \in DOMAIN file :
        /\ ~IsBlankRow(file[i])
        /\ Day(file[i], report.convention) # NaT
        /\ report.mode = "nav" => ~HasGap(file[i])}

UsableDays == {Day(file[i], report.convention) : i \in Usable}

(* The report explains every row that is not an observation, but for rows  *)
(* that repeat a date, rows of prices with a gap, and the first price: the *)
(* cleaner drops those without a word.                                     *)
RowsAreAccountedFor ==
    Loaded =>
        LET dated == {i \in DOMAIN file :
                         /\ ~IsBlankRow(file[i])
                         /\ Day(file[i], report.convention) # NaT}
        IN  /\ Len(file) - report.blank - report.bad = Cardinality(dated)
            /\ report.mode = "returns" =>
                  Len(days) = Cardinality(UsableDays)
            /\ report.mode = "nav" =>
                  Len(days) =< Cardinality(UsableDays) - 1

(***************************************************************************)
(* What a file says when its dates are taken as written in a convention.   *)
(***************************************************************************)
WrittenIn(convention) ==
    \A i \in DOMAIN file :
        \/ IsBlankRow(file[i])
        \/ Written(file[i], convention) # NaT
        \/ file[i].monthFirst = NaT /\ file[i].dayFirst = NaT

(* The rows that say what the funds were worth, or earned, on a date.      *)
Stated(convention) ==
    {i \in DOMAIN file :
        /\ ~IsBlankRow(file[i])
        /\ Written(file[i], convention) # NaT
        /\ report.mode = "nav" => ~HasGap(file[i])}

RepeatsADate(convention) ==
    \E i, j \in DOMAIN file :
        /\ i # j
        /\ Written(file[i], convention) = Written(file[j], convention)
        /\ Written(file[i], convention) # NaT
        /\ ~IsBlankRow(file[i]) /\ ~IsBlankRow(file[j])

(* Ascending dates, and for each the return since the date before it, or   *)
(* the return stated.                                                      *)
LoadedAs(convention) ==
    LET sorted == InOrder({Written(file[i], convention) :
                              i \in Stated(convention)})
        At(d) == CHOOSE i \in Stated(convention) :
                      Written(file[i], convention) = d
        Cell(d, f) == file[At(d)][f]
    IN  IF report.mode = "nav"
        THEN /\ days = Tail(sorted)
             /\ \A i \in DOMAIN days, f \in Fund :
                   fundReturns[f][i] =
                      Cell(sorted[i + 1], f) - Cell(sorted[i], f)
        ELSE /\ days = sorted
             /\ \A i \in DOMAIN days, f \in Fund :
                   fundReturns[f][i] = Filled(Cell(days[i], f))

Ambiguous(r) ==
    r.monthFirst # NaT /\ r.dayFirst # NaT /\ r.monthFirst # r.dayFirst

(* Whatever the order of the rows, a file that names no date twice is read *)
(* as the table it is, whether it is written month-first, with ambiguous   *)
(* dates or not, or day-first without an ambiguous date.                   *)
LoadedMatchesFile ==
    Loaded =>
        \A convention \in {"month-first", "day-first"} :
            /\ WrittenIn(convention) /\ ~RepeatsADate(convention)
            /\ convention = "day-first" =>
                  \A i \in DOMAIN file : ~Ambiguous(file[i])
            => LoadedAs(convention)

(* "It tolerates ... both `M/D/YYYY` and `D/M/YYYY`" (README.md): a file   *)
(* that is written day-first and, by one of its dates, cannot be           *)
(* month-first is read as it is written.                                   *)
DayFirstFilesAreRead ==
    /\ Loaded
    /\ WrittenIn("day-first") /\ ~WrittenIn("month-first")
    /\ ~RepeatsADate("day-first")
    => LoadedAs("day-first")
=============================================================================
