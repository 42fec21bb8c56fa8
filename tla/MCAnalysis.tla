----------------------------- MODULE MCAnalysis -----------------------------
(***************************************************************************)
(* An instance of Ingest, Analysis and Toolkit for TLC: tables of six rows*)
(* with all series of three prices or three returns, with every            *)
(* irregularity for all series of two numbers, and with two irregularities *)
(* for a few.  Fund "b" falls when fund "a" rises.                         *)
(***************************************************************************)
EXTENDS Toolkit

N == 6

MCDays == <<1, 2, 5, 6, 8, 9>>

(* Fund "b" falls when fund "a" rises.                                     *)
Mirror(v) ==
    CASE v = Blank -> Blank [] v # Blank /\ v >= 2 -> 6 - v [] OTHER -> -v

Line(d, v) == [monthFirst |-> d, dayFirst |-> d, a |-> v, b |-> Mirror(v)]

Table(v) == [i \in 1 .. N |-> Line(MCDays[i], v[i])]

Swapped(t, i) == [t EXCEPT ![i] = t[i + 1], ![i + 1] = t[i]]

(* A file in one convention: dates up to the i-th are ambiguous, the       *)
(* others are dates in this convention only.                               *)
DayFirstFile(t, i) ==
    [n \in 1 .. N |-> [t[n] EXCEPT !.monthFirst =
                          IF n =< i THEN MCDays[N + 1 - n] ELSE NaT]]

MonthFirstFile(t, i) ==
    [n \in 1 .. N |-> [t[n] EXCEPT !.dayFirst =
                          IF n =< i THEN MCDays[N + 1 - n] ELSE NaT]]

Irregular(t) ==
    {SubSeq(t, 1, 3), Reverse(t), Append([t EXCEPT ![2].a = Blank], Line(NaT, Blank))} \cup
    {Swapped(t, i) : i \in {1, 3, 5}} \cup
    {[t EXCEPT ![i].a = Blank] : i \in 1 .. N} \cup
    {[t EXCEPT ![i].b = Blank] : i \in {1, 4}} \cup
    {[t EXCEPT ![i].monthFirst = NaT, ![i].dayFirst = NaT] : i \in {1, 4, N}} \cup
    {[t EXCEPT ![i].monthFirst = MCDays[i + 1], ![i].dayFirst = MCDays[i + 1]] :
        i \in {1, 4}} \cup
    {DayFirstFile(t, i) : i \in {0, 2, 5}} \cup
    {MonthFirstFile(t, i) : i \in {2, N}}

MCSeries == [1 .. N -> {2, 3, 4}] \cup [1 .. N -> {-1, 0, 1}]

MCSome ==
    [1 .. N -> {2, 4}] \cup [1 .. N -> {-1, 1}] \cup [1 .. N -> {0, 3}]

MCFew == {<<2, 3, 4, 3, 2, 4>>, <<1, -1, 0, 1, -1, 1>>, <<4, 2, 3, 2, 4, 4>>}

Tables(series) == {Table(v) : v \in series}

IrregularOf(tables) == UNION {Irregular(t) : t \in tables}

MCFiles ==
    LET once == IrregularOf(Tables(MCFew))
    IN  Tables(MCSeries) \cup Tables(MCSome) \cup IrregularOf(Tables(MCSome))
        \cup IrregularOf({t \in once : Len(t) = N})

(* Six dates, of which the first i are ambiguous.                          *)
MCDayFirstFiles ==
    {DayFirstFile(t, i) : t \in Tables(MCSome), i \in 0 .. N}

Yield(d, r) == [day |-> d, rate |-> r]

MCYields ==
    {<<Yield(2, 1), Yield(5, 2), Yield(7, 3)>>,
     <<Yield(8, 3), Yield(1, 1), Yield(8, 2)>>,
     <<Yield(12, 1)>>}

Weights(a, b) == [f \in Fund |-> IF f = "a" THEN a ELSE b]

From(d, weights) == [from |-> d, weights |-> weights]

(* One allocation; two changes, the second corrected on its own day; a     *)
(* fund that comes and one that goes; a start after that of the files.     *)
MCPlans ==
    {<<From(1, Weights(1, 3))>>,
     <<From(1, Weights(4, 0)), From(6, Weights(0, 4)), From(6, Weights(2, 2))>>,
     <<From(0, Weights(0, 4)), From(5, Weights(3, 1)), From(9, Weights(2, 2))>>,
     <<From(5, Weights(2, 2)), From(8, Weights(3, 1))>>}

MCAssetClass == [f \in Fund |-> "debt"]

MCGeography == [f \in Fund |-> IF f = "a" THEN "home" ELSE "abroad"]
=============================================================================
