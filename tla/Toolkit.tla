------------------------------- MODULE Toolkit ------------------------------
(***************************************************************************)
(* engine/analytics.py, engine/benchmark.py: the answers of the analyst    *)
(* tools.  Windows, ranges and the comparison with a benchmark are computed*)
(* on the series of Analysis; what needs several funds (contributions,     *)
(* drift, breakdown) on a plan, the timeline of a portfolio.               *)
(*                                                                         *)
(* A weight is a whole number of parts of Whole.  Weighing the funds takes *)
(* their numbers as simple returns; the growth of a fund, for its drift, as*)
(* logarithms to the base 2.  An operator that refuses, with               *)
(* InsufficientHistoryError, has no points, rows or months.                *)
(***************************************************************************)
EXTENDS Analysis

CONSTANTS
    Whole,            \* all of a portfolio
    Plans,            \* timelines: sequences of [from, weights], oldest first
    AssetClass,       \* config.FUND_META: the asset class of each fund
    Geography,        \* and its geography
    MonthlyRates,     \* monthly rates of a benchmark
    Windows,          \* lengths of rolling windows
    NoFigure          \* Python's None, for a figure

ASSUME ToolkitAssumption ==
    /\ Whole \in Nat \ {0}
    /\ Plans \subseteq Seq([from : Nat, weights : [Fund -> 0 .. Whole]])
    /\ \A plan \in Plans :
          /\ plan # << >>
          /\ \A n \in 1 .. Len(plan) - 1 : plan[n].from =< plan[n + 1].from
    /\ MonthlyRates \subseteq Int
    /\ Windows \subseteq Nat \ {0}
    /\ NoFigure \notin Int

(* A sum over the funds.                                                   *)
Total(f) == f["a"] + f["b"]

----------------------------------------------------------------------------
(* Rolling windows.                                                        *)

(* The indices w[1] .. w[2] of each window of n of these elements.         *)
WindowsOf(n, s) == [p \in 1 .. Len(s) - n + 1 |-> <<p, p + n - 1>>]

(* Of days, one more than a window is required.                            *)
Rolling(n) == IF Len(returns) < n + 1 THEN << >> ELSE WindowsOf(n, returns)

RollingReturn(n) ==
    [p \in DOMAIN Rolling(n) |->
        Compound(SubSeq(returns, Rolling(n)[p][1], Rolling(n)[p][2]))]

(* The square of a deviation, times n * (n - 1).                           *)
Spread(r) ==
    Len(r) * Compound([i \in DOMAIN r |-> r[i] * r[i]])
        - Compound(r) * Compound(r)

RollingVolatility(n) ==
    [p \in DOMAIN Rolling(n) |->
        Spread(SubSeq(returns, Rolling(n)[p][1], Rolling(n)[p][2]))]

Larger(x, y) == IF x > y THEN x ELSE y

(* volatility_trend(): the points whose average is compared, as "recent"   *)
(* and "prior".                                                            *)
TrendWindows(n) ==
    LET size == Len(RollingVolatility(n))
    IN  [recent |-> Larger(1, size - n + 1) .. size,
         prior |-> IF size >= 2 * n
                   THEN size - 2 * n + 1 .. size - n
                   ELSE 1 .. Larger(1, size \div 2)]

(* Mutant: the window that ends with the last month is left out.           *)
RollingPeriodReturnsShort(n) ==
    LET m == MonthlyReturns
        windows == WindowsOf(n, m)
    IN  [p \in 1 .. Len(windows) - 1 |->
            [month |-> m[windows[p][2]].period,
             return |-> TotalOf(SubSeq(m, windows[p][1], windows[p][2]))]]

(* rolling_period_returns(): windows of n months.                          *)
RollingPeriodReturns(n) ==
    LET m == MonthlyReturns
        windows == WindowsOf(n, m)
    IN  [p \in DOMAIN windows |->
            [month |-> m[windows[p][2]].period,
             return |-> TotalOf(SubSeq(m, windows[p][1], windows[p][2]))]]

----------------------------------------------------------------------------
(* Ranges and months.                                                      *)

(* attribution_range(): the observations from one date to another.         *)
AttributionRange(start, end) ==
    LET inside == {i \in DOMAIN days : start =< days[i] /\ days[i] =< end}
    IN  IF Cardinality(inside) < MinObs THEN << >> ELSE Kept(returns, inside)

AllYears == -1

(* The months of monthly_stats(): three at least, or one in a year.        *)
ScopedMonths(year) ==
    LET m == MonthlyReturns
    IN  IF year # AllYears
        THEN Kept(m, {p \in DOMAIN m : m[p].period \div MonthsInYear = year})
        ELSE IF Len(m) < 3 THEN << >> ELSE m

(* numpy's argmax() and argmin(): the first of equals.                     *)
Best(m) ==
    CHOOSE p \in DOMAIN m :
        \A q \in DOMAIN m :
            /\ m[q].return =< m[p].return
            /\ q < p => m[q].return < m[p].return

Worst(m) ==
    CHOOSE p \in DOMAIN m :
        \A q \in DOMAIN m :
            /\ m[q].return >= m[p].return
            /\ q < p => m[q].return > m[p].return

MonthlyStats(rate, year) ==
    LET m == ScopedMonths(year)
    IN  [best |-> m[Best(m)], worst |-> m[Worst(m)],
         positive |-> Cardinality({p \in DOMAIN m : m[p].return > 0}),
         wins |-> Cardinality({p \in DOMAIN m : m[p].return > rate})]

(* trailing_period_returns(): None for more months than there are.         *)
TrailingOrNone(n) ==
    IF Len(MonthlyReturns) >= n THEN Trailing(n) ELSE NoFigure

(* benchmark_comparison(): of a period of n months, and all months.        *)
Excess(n, rate) ==
    IF TrailingOrNone(n) = NoFigure \/ rate = NoFigure THEN NoFigure
    ELSE TrailingOrNone(n) - rate

Wins(rate) ==
    Cardinality({p \in DOMAIN MonthlyReturns :
                    MonthlyReturns[p].return > rate})

----------------------------------------------------------------------------
(* Plans: the weights in force and what they earn.                         *)

(* Days before the first effective date are left out of the dates only.    *)
CoveredDays(plan) ==
    Kept(days, {i \in DOMAIN days : days[i] >= plan[1].from})

InForce(plan, d) ==
    plan[CHOOSE n \in DOMAIN plan :
            /\ plan[n].from =< d
            /\ \A m \in n + 1 .. Len(plan) : plan[m].from > d].weights

(* perf.portfolio_returns().                                               *)
PlanReturns(plan) ==
    [t \in DOMAIN CoveredDays(plan) |->
        Total([f \in Fund |-> InForce(plan, CoveredDays(plan)[t])[f]
                                  * fundReturns[f][t]])]

(* Mutant: the weights of today, for the whole period.                     *)
ContributionsStatic(plan) ==
    [f \in Fund |->
        [t \in DOMAIN CoveredDays(plan) |->
            Last(plan).weights[f] * fundReturns[f][t]]]

(* fund_contribution(): contrib_ts.                                        *)
Contributions(plan) ==
    [f \in Fund |->
        [t \in DOMAIN CoveredDays(plan) |->
            InForce(plan, CoveredDays(plan)[t])[f] * fundReturns[f][t]]]

(* Its rows: funds that contributed nothing have none.                     *)
FundContribution(plan) ==
    LET ts == Contributions(plan)
        p == [t \in DOMAIN CoveredDays(plan) |->
                 Total([f \in Fund |-> ts[f][t]])]
        Covariance(c) ==
            Len(p) * Compound([t \in DOMAIN p |-> c[t] * p[t]])
                - Compound(c) * Compound(p)
    IN  [f \in {g \in Fund : \E t \in DOMAIN p : ts[g][t] # 0} |->
            [contribution |-> Compound(ts[f]), risk |-> Covariance(ts[f])]]

(* portfolio_drift(): the positions of the days since the last rebalance.  *)
SinceRebalance(plan) ==
    InOrder({t \in DOMAIN CoveredDays(plan) :
                CoveredDays(plan)[t] >= Last(plan).from})

CanDrift(plan) == SinceRebalance(plan) # << >>

(* The logarithm of what a fund has grown by.                              *)
Growth(plan, f) ==
    LET since == SinceRebalance(plan)
    IN  Compound([n \in DOMAIN since |-> fundReturns[f][since[n]]])

Doublings(n) ==
    LET power[k \in 0 .. n] == IF k = 0 THEN 1 ELSE 2 * power[k - 1]
    IN  power[n]

(* What each fund is worth now, up to a factor all funds share.            *)
Worth(plan) ==
    LET target == Last(plan).weights
        least == IF Growth(plan, "a") < Growth(plan, "b")
                 THEN Growth(plan, "a") ELSE Growth(plan, "b")
    IN  [f \in Fund |-> target[f] * Doublings(Growth(plan, f) - least)]

(* drift_pp of each fund held, times Whole * Total(Worth(plan)).           *)
PortfolioDrift(plan) ==
    LET target == Last(plan).weights
    IN  [f \in {g \in Fund : target[g] # 0} |->
            Whole * Worth(plan)[f] - target[f] * Total(Worth(plan))]

(* allocation_breakdown(): the weight of each group that holds any.        *)
Breakdown(group, weights) ==
    LET held == {f \in Fund : weights[f] # 0}
        In(k) == [f \in Fund |-> IF group[f] = k THEN weights[f] ELSE 0]
    IN  [k \in {group[f] : f \in held} |-> Total(In(k))]

----------------------------------------------------------------------------
(* Properties.                                                             *)

(* The observations of a period, from its first to its last.               *)
Observed(freq, k) == {i \in DOMAIN days : Key(freq, days[i]) = k}

Start(k) == k * MonthsInYear * DaysInMonth + 1

(* What the tools say of one stretch of time does not depend on which tool *)
(* is asked: a month, a year, a rolling window of days that covers just    *)
(* these days and a range of dates have the same return, and the last      *)
(* rolling window of months is the trailing one, missing for the same      *)
(* lengths.                                                                *)
WindowsAgree ==
    Loaded =>
        /\ \A n \in Windows :
              LET rolling == RollingPeriodReturns(n)
              IN  /\ (rolling = << >>) = (TrailingOrNone(n) = NoFigure)
                  /\ rolling # << >> =>
                        /\ Last(rolling).return = TrailingOrNone(n)
                        /\ Last(rolling).month = Month(days[Len(days)])
        /\ \A freq \in {"year", "month"} :
              \A bucket \in Range(PeriodicReturns(freq)) :
                 LET seen == Observed(freq, bucket.period)
                     n == Cardinality(seen)
                     first == CHOOSE i \in seen : \A j \in seen : i =< j
                 IN  Rolling(n) # << >> =>
                        RollingReturn(n)[first] = bucket.return
        /\ \A bucket \in Range(PeriodicReturns("year")) :
              LET k == bucket.period
                  range == AttributionRange(Start(k), Start(k + 1) - 1)
              IN  IF Cardinality(Observed("year", k)) < MinObs
                  THEN range = << >>
                  ELSE Compound(range) = bucket.return

(* A trend compares a later average with an earlier one, of points that it *)
(* does not share with it, as soon as there are points for two windows but *)
(* one.  (With fewer, volatility_trend() compares windows that overlap.)   *)
TrendsLookBack ==
    Loaded =>
        \A n \in Windows :
            LET trend == TrendWindows(n)
            IN  Len(RollingVolatility(n)) >= 2 * n - 1 /\ Rolling(n) # << >>
                => /\ trend.prior # {}
                   /\ Cardinality(trend.recent) = n
                   /\ \A i \in trend.prior, j \in trend.recent : i < j

(* The statistics of the months of each year add up to those of all, the   *)
(* win rate is the one of the benchmark comparison, and the best and the   *)
(* worst month of all are among those of the years.                        *)
MonthsAgree ==
    Loaded /\ ScopedMonths(AllYears) # << >> =>
        \A rate \in MonthlyRates :
            LET years == {Year(days[i]) : i \in DOMAIN days}
                inOrder == InOrder(years)
                each == [n \in DOMAIN inOrder |->
                            MonthlyStats(rate, inOrder[n])]
                all == MonthlyStats(rate, AllYears)
            IN  /\ all.wins = Wins(rate)
                /\ all.wins = Compound([n \in DOMAIN each |-> each[n].wins])
                /\ all.positive =
                      Compound([n \in DOMAIN each |-> each[n].positive])
                /\ all.best \in {each[n].best : n \in DOMAIN each}
                /\ all.worst \in {each[n].worst : n \in DOMAIN each}
                /\ Excess(Len(MonthlyReturns), rate) = Compound(returns) - rate

(* Every figure the page or a tool shows of one stretch of time is the     *)
(* same, in whichever module and by whichever way it was computed.         *)
FiguresAgree ==
    TablesAgree /\ WindowsAgree /\ TrendsLookBack /\ MonthsAgree

(* What the funds of a portfolio are said to contribute to its return and  *)
(* to its variance adds up to those of the series that the other tools are *)
(* computed from, whenever the plan was changed and whatever it holds.     *)
ContributionsAddUp ==
    Loaded =>
        \A plan \in Plans :
            LET parts == FundContribution(plan)
                Of(f) == IF f \in DOMAIN parts
                         THEN parts[f] ELSE [contribution |-> 0, risk |-> 0]
            IN  /\ Total([f \in Fund |-> Of(f).contribution]) =
                      Compound(PlanReturns(plan))
                /\ Total([f \in Fund |-> Of(f).risk]) =
                      Spread(PlanReturns(plan))

(* Portfolio drift: what one fund drifts up by the others drift down by,   *)
(* and a fund drifts up exactly if it contributed more for its weight than *)
(* the other one on the days since the last rebalance.                     *)
DriftsFollowContributions ==
    Loaded =>
        \A plan \in {p \in Plans : CanDrift(p)} :
            LET drift == PortfolioDrift(plan)
                target == Last(plan).weights
                Of(f) == IF f \in DOMAIN drift THEN drift[f] ELSE 0
                Since(f) == Compound(SubSeq(Contributions(plan)[f],
                                            SinceRebalance(plan)[1],
                                            Len(CoveredDays(plan))))
            IN  Total(target) = Whole =>
                   /\ Of("a") + Of("b") = 0
                   /\ \A f, g \in DOMAIN drift :
                         Of(f) > 0 /\ g # f <=>
                            Since(f) * target[g] > Since(g) * target[f]

(* The weight of the groups of the funds, each counted once.               *)
SumOfGroups(group, weights) ==
    LET breakdown == Breakdown(group, weights)
        Of(k) == IF k \in DOMAIN breakdown THEN breakdown[k] ELSE 0
    IN  IF group["a"] = group["b"] THEN Of(group["a"])
        ELSE Of(group["a"]) + Of(group["b"])

(* The breakdowns by class and by geography hold the same weight, all of   *)
(* it, and the drift starts from the weights they show.                    *)
BreakdownsAddUp ==
    \A plan \in Plans :
        LET weights == Last(plan).weights
        IN  /\ SumOfGroups(AssetClass, weights) = Total(weights)
            /\ SumOfGroups(Geography, weights) = Total(weights)

(* Contributions, drift and breakdowns each account for the whole of what  *)
(* they decompose.                                                         *)
DecompositionsAddUp ==
    ContributionsAddUp /\ DriftsFollowContributions /\ BreakdownsAddUp
=============================================================================
