----------------------------- MODULE Workbench -----------------------------
(***************************************************************************)
(* The engine tab of app.py and the two tools that ask the store twice, in *)
(* one browser session, while other sessions load files and commit too.    *)
(*                                                                         *)
(* The tab keeps its last result in st.session_state.opt_result through    *)
(* reruns of the page: over other files, other caps and failures.  A tool  *)
(* reads get_current() and then get_previous() or chained_timeline(); the  *)
(* script thread of another session may commit in between.                 *)
(***************************************************************************)
EXTENDS Attribution

CONSTANTS
    Cap,        \* volatility caps
    None        \* no value

ASSUME WorkbenchAssumption == None \notin Cap

(* What optimize() returns: the rounded weights and the cap it was given.  *)
Solution == [weights : Weights, cap : Cap]

VARIABLES
    targets,    \* the column sigma_target of the rows
    optResult,  \* st.session_state.opt_result
    lastRun,    \* history variable: what the user was last told by the tab
    here,       \* history variable: the last row was committed in this tab
    call,       \* the tool between its two queries, with the first answer
    report      \* history variable: what a tool reports in this very step

tabVars == <<optResult, lastRun>>

workbenchVars ==
    <<attributionVars, targets, tabVars, here, call, report>>

Pending ==
    [tool : {"composition_change", "target_vs_realized"},
     current : Nat, seen : Nat]

Report ==
    [tool : {"composition_change"}, seen : Nat, current : Nat,
     previous : SUBSET Nat]
      \cup [tool : {"target_vs_realized"}, seen : Nat, current : Nat,
            target : Cap \cup {None}, last : SUBSET Nat]

WorkbenchTypeOK ==
    /\ AttributionTypeOK
    /\ targets \in Seq(Cap \cup {None})
    /\ Len(targets) = Len(rows)
    /\ optResult \in Solution \cup {None}
    /\ lastRun \in Solution \cup {None}
    /\ here \in BOOLEAN
    /\ call \in Pending \cup {None}
    /\ report \in Report \cup {None}

WorkbenchInit ==
    /\ AttributionInit
    /\ targets = << >>
    /\ optResult = None
    /\ lastRun = None
    /\ here = FALSE
    /\ call = None
    /\ report = None

----------------------------------------------------------------------------
(* A row that was added, if any, has target s.                             *)
Record(s) == targets' = IF rows' = rows THEN targets ELSE Append(targets, s)

(* The script thread of this session does one thing at a time.             *)
Own == call = None /\ report' = None /\ UNCHANGED call

(* Others do theirs at any time, also between the queries of a tool.       *)
Other == report' = None /\ UNCHANGED <<tabVars, call>>

(* Seeding on upload records no target.                                    *)
LoadFile(file) ==
    /\ Own
    /\ Upload(file)
    /\ Record(None)
    /\ here' = FALSE
    /\ UNCHANGED tabVars

DropFile == Own /\ RemoveFile /\ UNCHANGED <<targets, tabVars, here>>

LoadElsewhere(file) ==
    /\ Other
    /\ UploadElsewhere(file)
    /\ Record(None)
    /\ here' = FALSE

(* "Run optimizer" with the cap of the number input: it finds weights.     *)
OptimizerSolves ==
    /\ Own
    /\ data # {}
    /\ optResult' \in Solution
    /\ lastRun' = optResult'
    /\ UNCHANGED <<attributionVars, targets, here>>

(* It refuses with a CopilotError, which the tab reports.                  *)
OptimizerRefuses ==
    /\ Own
    /\ data # {}
    /\ optResult' = None
    /\ lastRun' = None
    /\ UNCHANGED <<attributionVars, targets, here>>

(* Mutant: the cap is the one the number input shows at the commit.        *)
CommitWithInput(e) ==
    /\ Own
    /\ data # {} /\ optResult # None
    /\ Save(Selected, e, "engine", optResult.weights)
    /\ \E cap \in Cap : Record(cap)
    /\ here' = TRUE
    /\ UNCHANGED <<data, firstDays, tabVars>>

(* "Commit rounded allocation", with any effective date: the button is     *)
(* there while opt_result is.  Another exception of the optimizer leaves   *)
(* opt_result, and the button, as they were.                               *)
CommitRounded(e) ==
    /\ Own
    /\ data # {} /\ optResult # None
    /\ Save(Selected, e, "engine", optResult.weights)
    /\ Record(optResult.cap)
    /\ here' = TRUE
    /\ UNCHANGED <<data, firstDays, tabVars>>

(* The same in another session.                                            *)
CommitElsewhere(e) ==
    /\ Other
    /\ CommitAllocation(e)
    /\ \E cap \in Cap : Record(cap)
    /\ here' = FALSE

(* A preview, or another portfolio's row, whose target nothing here reads. *)
SaveElsewhere(e) ==
    /\ Other
    /\ SaveApart(e)
    /\ Record(None)
    /\ here' = FALSE

----------------------------------------------------------------------------
(* The first query of a tool; NotFoundError ends it.                       *)
GetCurrent(tool) ==
    /\ call = None
    /\ data # {}
    /\ \E i \in Current(Selected) :
          call' = [tool |-> tool, current |-> i, seen |-> Len(rows)]
    /\ report' = None
    /\ UNCHANGED <<attributionVars, targets, tabVars, here>>

(* composition_change(): then get_previous(); without one there is nothing *)
(* to compare.                                                             *)
GetPrevious ==
    /\ call # None /\ call.tool = "composition_change"
    /\ report' = [tool |-> call.tool, seen |-> call.seen,
                  current |-> call.current, previous |-> Previous(Selected)]
    /\ call' = None
    /\ UNCHANGED <<attributionVars, targets, tabVars, here>>

(* Mutant: the target is that of the row that was saved last.              *)
AttributeLastSaved ==
    /\ call # None /\ call.tool = "target_vs_realized"
    /\ \E q \in Timelines(Selected) :
          report' = [tool |-> call.tool, seen |-> call.seen,
                     current |-> call.current, target |-> Last(targets),
                     last |-> Active(q, LastDay(data))]
    /\ call' = None
    /\ UNCHANGED <<attributionVars, targets, tabVars, here>>

(* target_vs_realized(): then _attribution() over the timeline, up to the  *)
(* last day of the file.                                                   *)
Attribute ==
    /\ call # None /\ call.tool = "target_vs_realized"
    /\ \E q \in Timelines(Selected) :
          report' = [tool |-> call.tool, seen |-> call.seen,
                     current |-> call.current, target |-> targets[call.current],
                     last |-> Active(q, LastDay(data))]
    /\ call' = None
    /\ UNCHANGED <<attributionVars, targets, tabVars, here>>

WorkbenchNext ==
    \/ \E file \in Files : LoadFile(file) \/ LoadElsewhere(file)
    \/ DropFile
    \/ OptimizerSolves \/ OptimizerRefuses
    \/ \E e \in Date :
          CommitRounded(e) \/ CommitElsewhere(e) \/ SaveElsewhere(e)
    \/ GetCurrent("composition_change") \/ GetCurrent("target_vs_realized")
    \/ GetPrevious \/ Attribute

WorkbenchSpec == WorkbenchInit /\ [][WorkbenchNext]_workbenchVars

----------------------------------------------------------------------------
(* Properties.                                                             *)

(* What this tab commits is what the user was last shown: the weights of   *)
(* the last solution together with the cap they were solved for, and       *)
(* nothing after a refusal, whatever was loaded, removed or committed      *)
(* elsewhere since.                                                        *)
CommitsAreTheLastSolution ==
    [][rows' # rows /\ here' =>
         /\ lastRun # None
         /\ Last(rows').weights = lastRun.weights
         /\ Last(targets') = lastRun.cap]_workbenchVars

(* The rows saved since the first query of a report that come after the    *)
(* row it found.                                                           *)
Overtaking(r) ==
    {i \in Committed(Selected) : /\ i > r.seen
                                 /\ rows[i].effective >= rows[r.current].effective}

(* The two queries of a tool are no transaction.  Whatever other sessions  *)
(* save between them - backdated allocations, corrections, previews, other *)
(* portfolios - what is reported as current lags behind the history by the *)
(* rows that have overtaken it since, and by nothing else: the n-th row    *)
(* from the end if n have.  Without any, "before" and "after" are the last *)
(* two allocations and the target is that of the allocation the last day's *)
(* return was earned with, unless one takes effect later; with one, the    *)
(* change reported is from an allocation to itself.                        *)
ReportsLagByOvertakingRows ==
    [][report' # None =>
         \A q \in Timelines(Selected) :
            LET lag == Cardinality(Overtaking(report'))
                found == q[Len(q) - lag]
                started == \A i \in Committed(Selected) :
                              rows[i].effective =< LastDay(data)
            IN  \/ /\ report'.tool = "composition_change"
                   /\ report'.current = found
                   /\ report'.previous =
                         {q[k] : k \in (DOMAIN q) \cap {Len(q) - 1}}
                \/ /\ report'.tool = "target_vs_realized"
                   /\ report'.target = targets[found]
                   /\ lag = 0 /\ started => report'.last = {found}
      ]_workbenchVars
=============================================================================
