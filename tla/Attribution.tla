---------------------------- MODULE Attribution ----------------------------
(***************************************************************************)
(* The committed history of one portfolio (HistoryQueries) together with   *)
(* the price file a browser session has loaded, and the return series the  *)
(* figures are computed from: the one of _attribution() behind the         *)
(* overview, and the one every analyst tool gets.                          *)
(*                                                                         *)
(* A file is the set of its days.  fund_returns[isin][t] is the return of  *)
(* the t-th day of the FILE; an entry of a series records the day it is    *)
(* for, the row whose weights are used and the day whose fund returns they *)
(* are applied to.                                                         *)
(***************************************************************************)
EXTENDS HistoryQueries, Enumerations

CONSTANTS
    Selected,   \* the portfolio selected in the sidebar
    Files       \* the files that are uploaded, each the set of its days

ASSUME AttributionAssumption ==
    /\ Selected \in Portfolio
    /\ Files \subseteq (SUBSET Date) \ {{}}
    /\ \A file \in Files : IsFiniteSet(file)

VARIABLES
    data,       \* the days of the loaded file, {} when there is none
    firstDays   \* history variable: the first days of the files loaded so
                \* far, by this session or another one

attributionVars == <<queryVars, data, firstDays>>

AttributionTypeOK ==
    QueriesTypeOK /\ data \in Files \cup {{}} /\ firstDays \subseteq Date

----------------------------------------------------------------------------
(* data.dates; fund_returns[isin][t] is the return of day Dates[t].        *)
Dates == InOrder(data)

(* Mutant: the return of a day is earned with the weights of the day       *)
(* before it.                                                              *)
PortfolioReturnsLagged(q, dates, returns) ==
    LET entry == [t \in 1 .. Len(dates) |->
                    [on |-> dates[t], active |-> Active(q, dates[t] - 1),
                     of |-> returns[t]]]
        kept == InOrder({t \in 1 .. Len(dates) : entry[t].active # {}})
    IN  [k \in 1 .. Len(kept) |-> entry[kept[k]]]

(* portfolio_returns(): days before the first segment are left out.        *)
PortfolioReturns(q, dates, returns) ==
    LET entry == [t \in 1 .. Len(dates) |->
                    [on |-> dates[t], active |-> Active(q, dates[t]),
                     of |-> returns[t]]]
        kept == InOrder({t \in 1 .. Len(dates) : entry[t].active # {}})
    IN  [k \in 1 .. Len(kept) |-> entry[kept[k]]]

(* covered_dates, covered: from the first effective date on.               *)
Covered(q) == InOrder({d \in data : d >= rows[q[1]].effective})

(* _attribution(): the whole file, indexed by the whole file, for what     *)
(* chained_timeline() returns.                                             *)
AttributionSeries(q) == PortfolioReturns(q, Dates, Dates)

(* The analyst tools: the covered days, indexed by position among THEM.    *)
ToolSeries(q) == PortfolioReturns(q, Covered(q), Dates)

----------------------------------------------------------------------------
AttributionInit == QueriesInit /\ data = {} /\ firstDays = {}

FirstDay(file) == CHOOSE d \in file : \A e \in file : d =< e

LastDay(file) == CHOOSE d \in file : \A e \in file : e =< d

(* Mutant: the seed takes effect on the last day of the file.              *)
SeedDefaultsLast(file) ==
    IF Committed(Selected) = {}
    THEN \E w \in Weights : Save(Selected, LastDay(file), "seed", w)
    ELSE UNCHANGED queryVars

(* seed_defaults(): the portfolio takes effect on the first day of the     *)
(* file, unless something is committed already.                            *)
SeedDefaults(file) ==
    IF Committed(Selected) = {}
    THEN \E w \in Weights : Save(Selected, FirstDay(file), "seed", w)
    ELSE UNCHANGED queryVars

(* A file is loaded in this session.                                       *)
Upload(file) ==
    /\ SeedDefaults(file)
    /\ data' = file
    /\ firstDays' = firstDays \cup {FirstDay(file)}

(* A file is loaded in another session, before anything was committed.     *)
UploadElsewhere(file) ==
    /\ Committed(Selected) = {}
    /\ SeedDefaults(file)
    /\ firstDays' = firstDays \cup {FirstDay(file)}
    /\ UNCHANGED data

(* The user removes the file.                                              *)
RemoveFile ==
    /\ data # {}
    /\ data' = {}
    /\ UNCHANGED <<queryVars, firstDays>>

(* An allocation is committed from the engine tab of this session or of    *)
(* another one that has data; the date picker takes any effective date.    *)
CommitAllocation(e) ==
    /\ Committed(Selected) # {}
    /\ \E w \in Weights : Save(Selected, e, "engine", w)
    /\ UNCHANGED <<data, firstDays>>

(* A row that is not this portfolio's allocation: a preview, or what       *)
(* another session commits for another portfolio.                          *)
SaveApart(e) ==
    /\ \E w \in Weights :
          \/ Save(Selected, e, "candidate_preview", w)
          \/ \E p \in Portfolio \ {Selected} : Save(p, e, "engine", w)
    /\ UNCHANGED <<data, firstDays>>

AttributionNext ==
    \/ \E file \in Files : Upload(file) \/ UploadElsewhere(file)
    \/ RemoveFile
    \/ \E e \in Date : CommitAllocation(e) \/ SaveApart(e)

AttributionSpec == AttributionInit /\ [][AttributionNext]_attributionVars

----------------------------------------------------------------------------
(* Properties.                                                             *)

(* The row in force on day d: the last correction of the latest effective  *)
(* date not after d.                                                       *)
InForce(d) ==
    LET started == {i \in Committed(Selected) : rows[i].effective =< d}
    IN  {i \in started : \A k \in started :
            \/ rows[k].effective < rows[i].effective
            \/ rows[k].effective = rows[i].effective /\ k =< i}

(* The figures of the overview are point in time: the series has one entry *)
(* for each covered day, with the weights in force on that very day and    *)
(* the fund returns of that very day, whatever file was loaded before and  *)
(* however commits were backdated.  compute_metrics() pairs it with the    *)
(* covered dates by position.                                              *)
AttributionIsPointInTime ==
    \A q \in Timelines(Selected) : data # {} /\ q # << >> =>
        LET series == AttributionSeries(q)
            covered == Covered(q)
        IN  /\ Len(series) = Len(covered)
            /\ \A k \in DOMAIN series :
                  /\ series[k].on = covered[k]
                  /\ series[k].of = covered[k]
                  /\ series[k].active = InForce(covered[k])

(* The analyst tools reconcile with the attribution: they work on the same *)
(* series, day by day.                                                     *)
ToolsReconcile ==
    \A q \in Timelines(Selected) :
        data # {} /\ q # << >> => ToolSeries(q) = AttributionSeries(q)

(* As long as all files start on one day, no matter which of them seeded   *)
(* the portfolio and how commits are dated, every day of the file is       *)
(* attributed and the tools reconcile.                                     *)
FilesOfOneStartReconcile ==
    data # {} /\ firstDays = {FirstDay(data)} =>
        /\ \A q \in Timelines(Selected) :
              Len(AttributionSeries(q)) = Cardinality(data)
        /\ ToolsReconcile

(* The entries of a series for the days before day d, by position.         *)
Past(s, d) == {k \in DOMAIN s : s[k].on < d}

(* Committing an allocation never rewrites the past: the entries of the    *)
(* days before its effective date stay what they were.                     *)
CommitsDoNotRewriteThePast ==
    [][data' = data /\ rows' # rows =>
         LET effective == rows'[Len(rows')].effective
             Attributions == {AttributionSeries(q) : q \in Timelines(Selected)}
         IN  \A before \in Attributions, after \in Attributions' :
                /\ Past(after, effective) = Past(before, effective)
                /\ \A k \in Past(before, effective) : after[k] = before[k]
      ]_attributionVars
=============================================================================
