----------------------------- MODULE MCToolRuns -----------------------------
(* Instances of ToolRuns for TLC. *)
EXTENDS ToolRuns

(* No call, a tool there is not and then an analysis, a tool.              *)
MCCallLists == {<< >>, <<UnknownTool, "run_analysis">>, <<"attribution">>}

(* One analysis.                                                           *)
MCOneAnalysis == {<< >>, <<"run_analysis">>}
=============================================================================
