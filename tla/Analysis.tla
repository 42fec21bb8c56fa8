------------------------------ MODULE Analysis ------------------------------
(***************************************************************************)
(* engine/analytics.py, engine/benchmark.py, engine/perf.py, engine/rf.py: *)
(* the algorithms that turn a loaded file into figures, on the series that *)
(* Ingest loads (an allocation that holds fund "a" alone).                 *)
(*                                                                         *)
(* Returns are logarithmic, so a value is the sum of the returns before it *)
(* and a drawdown the difference to the peak.  The calendar has            *)
(* DaysInMonth days in a month and MonthsInYear months in a year.          *)
(***************************************************************************)
EXTENDS Ingest, SequencesExt

CONSTANTS
    DaysInMonth, MonthsInYear,
    YieldFiles,       \* yield files: sequences of [day, rate]
    Fallback          \* config.RF_FALLBACK

ASSUME CalendarAssumption ==
    /\ DaysInMonth \in Nat \ {0}
    /\ MonthsInYear \in Nat \ {0}
    /\ Fallback \in Int
    /\ YieldFiles \subseteq Seq([day : Nat, rate : Int])

Month(d) == (d - 1) \div DaysInMonth

Year(d) == Month(d) \div MonthsInYear

(* The sums of the first returns, 0 of none of them: np.cumprod().         *)
Totals(r) ==
    LET total[n \in 0 .. Len(r)] == IF n = 0 THEN 0 ELSE total[n - 1] + r[n]
    IN  total

Compound(r) == Totals(r)[Len(r)]

----------------------------------------------------------------------------
(* Calendar tables.                                                        *)

Key(freq, d) == IF freq = "year" THEN Year(d) ELSE Month(d)

(* periodic_returns(): one bucket for each key, the keys in order.         *)
PeriodicReturns(freq) ==
    LET keys == InOrder({Key(freq, days[i]) : i \in DOMAIN days})
        Bucket(k) == {i \in DOMAIN days : Key(freq, days[i]) = k}
    IN  [p \in DOMAIN keys |->
            [period |-> keys[p],
             return |-> Compound(Kept(returns, Bucket(keys[p])))]]

(* A return is added to the entry of its period, a new one if it has none. *)
AddTo(table, period, return) ==
    LET at == {p \in DOMAIN table : table[p].period = period}
    IN  IF at = {}
        THEN Append(table, [period |-> period, return |-> return])
        ELSE [p \in DOMAIN table |->
                 IF p \in at
                 THEN [table[p] EXCEPT !.return = @ + return]
                 ELSE table[p]]

(* The table after each of these returns, of these periods.                *)
Tabled(periods, r) ==
    LET table[n \in 0 .. Len(r)] ==
            IF n = 0 THEN << >> ELSE AddTo(table[n - 1], periods[n], r[n])
    IN  table

(* monthly_returns(): months in the order in which they first appear.      *)
MonthlyReturns ==
    Tabled([i \in DOMAIN days |-> Month(days[i])], returns)[Len(returns)]

TotalOf(table) == Compound([p \in DOMAIN table |-> table[p].return])

(* trailing_period_returns(): the last n months, the year to date, all.    *)
Trailing(n) ==
    TotalOf(SubSeq(MonthlyReturns, Len(MonthlyReturns) - n + 1,
                   Len(MonthlyReturns)))

YearToDate ==
    TotalOf(Kept(MonthlyReturns,
                 {p \in DOMAIN MonthlyReturns :
                     MonthlyReturns[p].period \div MonthsInYear
                        = Year(days[Len(days)])}))

----------------------------------------------------------------------------
(* Drawdowns.                                                              *)

Nav == [i \in DOMAIN returns |-> Totals(returns)[i]]

Drawdown(i) ==
    LET peak == CHOOSE v \in {Nav[j] : j \in 1 .. i} :
                   \A j \in 1 .. i : Nav[j] =< v
    IN  Nav[i] - peak

(* perf._max_drawdown().                                                   *)
MaxDrawdown ==
    CHOOSE v \in {Drawdown(i) : i \in DOMAIN returns} :
        \A i \in DOMAIN returns : v =< Drawdown(i)

NotYet == 0       \* the episode has no recovery

(* Mutant: the trough is where the episode ends, not where it is deepest.  *)
DrawdownStepLast(scan, i) ==
    CASE ~scan.inside /\ Drawdown(i) < 0 ->
            [scan EXCEPT !.inside = TRUE, !.start = i, !.trough = i]
      [] scan.inside /\ Drawdown(i) >= 0 ->
            [scan EXCEPT !.inside = FALSE,
                         !.episodes = @ \cup
                            {<<scan.start, scan.trough, i>>}]
      [] scan.inside /\ Drawdown(i) < 0 -> [scan EXCEPT !.trough = i]
      [] OTHER -> scan

(* One turn of the loop of drawdown_periods().                             *)
DrawdownStep(scan, i) ==
    LET trough == IF Drawdown(i) < Drawdown(scan.trough)
                  THEN i ELSE scan.trough
    IN  CASE ~scan.inside /\ Drawdown(i) < 0 ->
                [scan EXCEPT !.inside = TRUE, !.start = i, !.trough = i]
          [] scan.inside /\ Drawdown(i) >= 0 ->
                [scan EXCEPT !.inside = FALSE,
                             !.episodes = @ \cup {<<scan.start, trough, i>>}]
          [] scan.inside /\ Drawdown(i) < 0 ->
                [scan EXCEPT !.trough = trough]
          [] OTHER -> scan

Outside == [inside |-> FALSE, start |-> 1, trough |-> 1, episodes |-> {}]

(* What the loop has found after each of its turns.                        *)
DrawdownScans ==
    LET scan[i \in 0 .. Len(returns)] ==
            IF i = 0 THEN Outside ELSE DrawdownStep(scan[i - 1], i)
    IN  scan

(* Its episodes <<start, trough, recovery>>, the open one at the end too.  *)
DrawdownPeriods ==
    LET scan == DrawdownScans[Len(returns)]
    IN  scan.episodes \cup
            IF scan.inside THEN {<<scan.start, scan.trough, NotYet>>} ELSE {}

----------------------------------------------------------------------------
(* The risk-free rate.                                                     *)

(* What sorted() puts before the n-th yield: its sort is stable.           *)
SortedBefore(ys, n) ==
    {m \in DOMAIN ys : ys[m].day < ys[n].day \/ (ys[m].day = ys[n].day /\ m < n)}

ByDay(ys) ==
    [k \in DOMAIN ys |->
        ys[CHOOSE n \in DOMAIN ys : Cardinality(SortedBefore(ys, n)) = k - 1]]

(* The rate of the first of these yields.                                  *)
FirstRate(ys, indices) ==
    IF indices = {} THEN Fallback ELSE ys[InOrder(indices)[1]].rate

(* Mutant: only dates strictly after the target are looked at.             *)
LookupYieldLater(target, ys) ==
    FirstRate(ys, {n \in DOMAIN ys : ys[n].day > target})

(* _lookup_yield_pct(): the exact date, or the next larger, or nothing.    *)
LookupYield(target, ys) ==
    FirstRate(ys, {n \in DOMAIN ys : ys[n].day >= target})

(* rf_period_series(): nothing on the first date, then day by day.         *)
RfPeriodSeries(ys) ==
    [i \in DOMAIN days |->
        IF i = 1 THEN 0
        ELSE LookupYield(days[i], ByDay(ys)) * (days[i] - days[i - 1])]

----------------------------------------------------------------------------
(* Properties.                                                             *)

(* The tables that two modules build in their own way tell one story: the  *)
(* months of the benchmark tab are those of the toolkit, every table       *)
(* compounds to the total, and the year to date is the last year.          *)
TablesAgree ==
    Loaded =>
        LET years == PeriodicReturns("year")
        IN  /\ MonthlyReturns = PeriodicReturns("month")
            /\ TotalOf(years) = Compound(returns)
            /\ Trailing(Len(MonthlyReturns)) = Compound(returns)
            /\ YearToDate = years[Len(years)].return

(* An episode starts on the first day below a peak, ends on the first day  *)
(* back at it, and its trough is the first of its deepest days.            *)
IsEpisode(e) ==
    LET last == IF e[3] = NotYet THEN Len(returns) ELSE e[3] - 1
    IN  /\ Drawdown(e[1] - 1) = 0
        /\ \A i \in e[1] .. last : Drawdown(i) < 0
        /\ e[3] # NotYet => Drawdown(e[3]) = 0
        /\ e[2] \in e[1] .. last
        /\ \A i \in e[1] .. last : Drawdown(i) >= Drawdown(e[2])
        /\ \A i \in e[1] .. e[2] - 1 : Drawdown(i) > Drawdown(e[2])

(* drawdown_periods() lists every day below a peak in exactly one such     *)
(* episode, and its deepest one is the max drawdown of the overview.       *)
DrawdownsReconcile ==
    Loaded =>
        LET Covers(e, i) == e[1] =< i /\ (e[3] = NotYet \/ i < e[3])
        IN  /\ \A e \in DrawdownPeriods : IsEpisode(e)
            /\ \A i \in DOMAIN returns : Drawdown(i) < 0 =>
                  \E e \in DrawdownPeriods :
                      /\ Covers(e, i)
                      /\ \A o \in DrawdownPeriods : Covers(o, i) => o = e
            /\ MaxDrawdown < 0 =>
                  \E e \in DrawdownPeriods : Drawdown(e[2]) = MaxDrawdown

(* Every day accrues at the yield of the next date on or after it that has *)
(* one, else at the fallback, for the days since the observation before.   *)
RiskFreeIsNextPublished ==
    Loaded =>
        \A ys \in YieldFiles : \A i \in DOMAIN days \ {1} :
            LET after == {n \in DOMAIN ys : ys[n].day >= days[i]}
                Next1(n) == \A m \in after : ys[n].day =< ys[m].day
                elapsed == days[i] - days[i - 1]
            IN  IF after = {}
                THEN RfPeriodSeries(ys)[i] = Fallback * elapsed
                ELSE \E n \in after :
                        /\ Next1(n)
                        /\ RfPeriodSeries(ys)[i] = ys[n].rate * elapsed
=============================================================================
