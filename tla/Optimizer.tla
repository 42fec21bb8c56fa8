------------------------------ MODULE Optimizer -----------------------------
(***************************************************************************)
(* engine/optimizer.py: the control flow of optimize() and the             *)
(* whole-percent rounding of its result.                                   *)
(*                                                                         *)
(* The solver (SciPy's SLSQP) is external: it fails, or returns any point  *)
(* within the bounds.  Percentages are integers: a percent has One units,  *)
(* the whole portfolio has Total of them, the points the solver returns    *)
(* lie on multiples of Grid.  Floating point is modelled by what it does   *)
(* to these numbers: a weight that went through a division and back, or    *)
(* through the solver, is off by at most Hair, a unit too small to matter  *)
(* for a sum and large enough to be seen by floor().                       *)
(***************************************************************************)
EXTENDS Integers, Sequences, FiniteSets, Functions, SequencesExt

CONSTANTS
    Fund,          \* the funds of isins
    One,           \* units of one percent
    Percents,      \* how many percents the whole portfolio has
    Grid,          \* the solver's points are multiples of Grid, and ...
    Hair,          \* ... a floating-point error of at most Hair
    BoundChoices   \* the <<min, max>> pairs a user may enter for a fund

Total == Percents * One

ASSUME OptimizerAssumption ==
    /\ IsFiniteSet(Fund) /\ Fund # {}
    /\ One \in Nat \ {0}
    /\ Percents \in Nat \ {0}
    /\ Grid \in Nat \ {0}
    /\ Hair \in Nat
    /\ 4 * Hair * Cardinality(Fund) < One
    /\ BoundChoices \subseteq Nat \X Nat

VARIABLES
    stage,     \* where optimize() is
    outcome,   \* "none" while it runs, then "ok" or the refusal
    lb, ub,    \* the bounds, in units
    w,         \* the continuous optimum, in units
    base,      \* the rounded weights being built
    short,     \* whole percents still to hand out when the loop starts
    order,     \* the funds by decreasing fraction
    k          \* the loop counter

ovars == <<stage, outcome, lb, ub, w, base, short, order, k>>

Stage == {"validate", "stats", "extreme", "solve", "floor", "share", "loop",
          "clip", "done"}

Refusal == {"target", "crossed", "sums", "history", "volatility", "solver"}

Units == 0 .. 2 * Total

OptimizerTypeOK ==
    /\ stage \in Stage
    /\ outcome \in {"none", "ok"} \cup Refusal
    /\ lb \in [Fund -> Nat] /\ ub \in [Fund -> Nat]
    /\ w \in [Fund -> Units]
    /\ base \in [Fund -> Units]
    /\ short \in -Percents .. Percents
    /\ order \in Seq(Fund)
    /\ k \in 0 .. Cardinality(Fund)

----------------------------------------------------------------------------
(* Arithmetic.                                                             *)

Sum(x) == FoldFunction(+, 0, x)

Floor(x) == One * (x \div One)

Fraction(x) == x % One

Clip(x, lo, hi) == IF x < lo THEN lo ELSE IF x > hi THEN hi ELSE x

(* Python's round(): to the nearest whole percent, ties to the even one.   *)
RoundHalfEven(x) ==
    LET q == x \div One
        r == Fraction(x)
    IN  IF 2 * r < One \/ (2 * r = One /\ q % 2 = 0) THEN q ELSE q + 1

Sign(n) == IF n > 0 THEN 1 ELSE IF n < 0 THEN -1 ELSE 0

(* Sums are compared with a tolerance (_EPS) above the error they carry.   *)
Tolerance == Hair * Cardinality(Fund)

Points == {g \in [Fund -> {Grid * i : i \in 0 .. Total \div Grid}] :
              Sum(g) = Total}

Errors == [Fund -> -Hair .. Hair]

Within(p, lo, hi) ==
    \A f \in Fund : lo[f] - Hair =< p[f] /\ p[f] =< hi[f] + Hair

(* The weights after "clip(best, lb, ub); w / w.sum()": none is negative.  *)
Continuous(lo, hi) ==
    {x \in {[f \in Fund |-> p[f] + e[f]] :
               p \in {q \in Points : Within(q, lo, hi)}, e \in Errors} :
        \A f \in Fund : x[f] >= 0}

(* argsort by decreasing fraction; the order of equal keys is open.        *)
ByFraction(x) ==
    {s \in SetToSeqs(Fund) :
        \A i, j \in DOMAIN s :
            i < j => Fraction(x[s[i]]) >= Fraction(x[s[j]])}

----------------------------------------------------------------------------
Zero == [f \in Fund |-> 0]

OptimizerInit ==
    /\ stage = "validate"
    /\ outcome = "none"
    /\ \E b \in [Fund -> BoundChoices] :
          /\ lb = [f \in Fund |-> b[f][1]]
          /\ ub = [f \in Fund |-> b[f][2]]
    /\ w = Zero
    /\ base = Zero
    /\ short = 0
    /\ order = << >>
    /\ k = 0

Crossed == {f \in Fund : lb[f] > ub[f]}

SumsImpossible == Sum(lb) > Total + Tolerance \/ Sum(ub) < Total - Tolerance

End(result) ==
    /\ stage' = "done"
    /\ outcome' = result
    /\ UNCHANGED <<lb, ub, w, base, short, order, k>>

(* sigma_target is not a decimal between 0 and 1.                          *)
RefuseTarget == stage = "validate" /\ End("target")

RefuseCrossed == stage = "validate" /\ Crossed # {} /\ End("crossed")

RefuseSums ==
    /\ stage = "validate"
    /\ Crossed = {}
    /\ SumsImpossible
    /\ End("sums")

Validate ==
    /\ stage = "validate"
    /\ Crossed = {}
    /\ ~SumsImpossible
    /\ stage' = "stats"
    /\ UNCHANGED <<outcome, lb, ub, w, base, short, order, k>>

(* fund_stats(): fewer than 30 observations, or go on.                     *)
FundStats ==
    /\ stage = "stats"
    /\ \/ End("history")
       \/ /\ stage' = "extreme"
          /\ UNCHANGED <<outcome, lb, ub, w, base, short, order, k>>

(* The least volatility under the bounds is above the target, or not.      *)
ExtremeVol ==
    /\ stage = "extreme"
    /\ \/ End("volatility")
       \/ /\ stage' = "solve"
          /\ UNCHANGED <<outcome, lb, ub, w, base, short, order, k>>

(* No start of the multi-start led anywhere, or the best point is taken,   *)
(* clipped to the bounds and normalised.                                   *)
Solve ==
    /\ stage = "solve"
    /\ \/ End("solver")
       \/ /\ \E x \in Continuous(lb, ub) : w' = x
          /\ stage' = "floor"
          /\ UNCHANGED <<outcome, lb, ub, base, short, order, k>>

----------------------------------------------------------------------------
(* _round_weights().                                                       *)

(* Mutant: every weight is rounded on its own, not down.                   *)
FloorToNearest ==
    /\ stage = "floor"
    /\ base' = [f \in Fund |->
                  Clip(One * RoundHalfEven(w[f]), lb[f], ub[f])]
    /\ stage' = "share"
    /\ UNCHANGED <<outcome, lb, ub, w, short, order, k>>

FloorAndClip ==
    /\ stage = "floor"
    /\ base' = [f \in Fund |-> Clip(Floor(w[f]), lb[f], ub[f])]
    /\ stage' = "share"
    /\ UNCHANGED <<outcome, lb, ub, w, short, order, k>>

(* Mutant: int() without round(), which truncates 0.99... to 0.            *)
ShareTruncates ==
    /\ stage = "share"
    /\ short' = (Total - Sum(base)) \div One
    /\ order' \in ByFraction(w)
    /\ k' = 0
    /\ stage' = "loop"
    /\ UNCHANGED <<outcome, lb, ub, w, base>>

(* The whole percents that are missing, and who gets them first.           *)
Share ==
    /\ stage = "share"
    /\ short' = RoundHalfEven(Total - Sum(base))
    /\ order' \in ByFraction(w)
    /\ k' = 0
    /\ stage' = "loop"
    /\ UNCHANGED <<outcome, lb, ub, w, base>>

Abs(n) == IF n < 0 THEN -n ELSE n

(* Mutant: one turn of the loop too many.                                  *)
IncrementOnceMore ==
    /\ stage = "loop"
    /\ k =< Abs(short)
    /\ LET i == order[(k % Len(order)) + 1]
       IN  base' = [base EXCEPT ![i] = @ + Sign(short) * One]
    /\ k' = k + 1
    /\ UNCHANGED <<stage, outcome, lb, ub, w, short, order>>

Increment ==
    /\ stage = "loop"
    /\ k < Abs(short)
    /\ LET i == order[(k % Len(order)) + 1]
       IN  base' = [base EXCEPT ![i] = @ + Sign(short) * One]
    /\ k' = k + 1
    /\ UNCHANGED <<stage, outcome, lb, ub, w, short, order>>

LoopEnds ==
    /\ stage = "loop"
    /\ k >= Abs(short)
    /\ stage' = "clip"
    /\ UNCHANGED <<outcome, lb, ub, w, base, short, order, k>>

FinalClip ==
    /\ stage = "clip"
    /\ base' = [f \in Fund |-> Clip(base[f], lb[f], ub[f])]
    /\ stage' = "done"
    /\ outcome' = "ok"
    /\ UNCHANGED <<lb, ub, w, short, order, k>>

OptimizerNext ==
    \/ RefuseTarget \/ RefuseCrossed \/ RefuseSums \/ Validate
    \/ FundStats \/ ExtremeVol \/ Solve
    \/ FloorAndClip \/ Share \/ Increment \/ LoopEnds \/ FinalClip

OptimizerSpec == OptimizerInit /\ [][OptimizerNext]_ovars

----------------------------------------------------------------------------
(* Properties.                                                             *)

Off(x, y) == Abs(x - y)

Whole(x) == Fraction(x) =< Hair \/ Fraction(x) >= One - Hair

(* Whole-percent bounds that leave every fund a percent of room.           *)
RoomyBounds ==
    \A f \in Fund :
        Whole(lb[f]) /\ Whole(ub[f]) /\ ub[f] - lb[f] >= One - 2 * Hair

WholePortfolio == Off(Sum(base), Total) =< Tolerance

(* The rounded weights sum to 100%, as tests/test_optimizer.py asserts.    *)
RoundedSumsToWhole == outcome = "ok" => WholePortfolio

(* They do when the bounds are whole percents and no fund is pinned: every *)
(* percent handed out survives the final clip, and all weights are whole.  *)
RoomyBoundsSumToWhole ==
    outcome = "ok" /\ RoomyBounds =>
        WholePortfolio /\ \A f \in Fund : Whole(base[f])

(* Rounding down never gives out too much, and what is missing is at most  *)
(* one percent for each fund: the loop never takes a percent back and      *)
(* never comes round to a fund a second time, whatever the bounds.         *)
ShortfallFits == stage = "loop" => short \in 0 .. Cardinality(Fund)
=============================================================================
