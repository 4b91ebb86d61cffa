---------------------------- MODULE SearchPhases ----------------------------
(***************************************************************************)
(* The phases of a search run and the table of legal edges between them    *)
(* (cognitivetree/state.py).                                               *)
(***************************************************************************)
TERMINAL_PHASES == {"SUCCEEDED", "EXHAUSTED", "FAILED", "TIMED_OUT",
                    "BUDGET_EXHAUSTED", "CANCELLED"}

SearchPhase == {"IDLE", "SELECTION", "EXPANSION", "EVALUATION",
                "BACKPROPAGATION", "BACKTRACKING"} \cup TERMINAL_PHASES

(***************************************************************************)
(* The external constraints that may end a run in any non-terminal phase.  *)
(***************************************************************************)
ExternalStops == {"FAILED", "TIMED_OUT", "BUDGET_EXHAUSTED", "CANCELLED"}

TransitionTable ==
  [ p \in SearchPhase |->
      CASE p = "IDLE"            -> {"SELECTION"} \cup ExternalStops
        [] p = "SELECTION"       -> {"EXPANSION", "BACKTRACKING", "EXHAUSTED"}
                                      \cup ExternalStops
        [] p = "EXPANSION"       -> {"EVALUATION", "BACKTRACKING"}
                                      \cup ExternalStops
        [] p = "EVALUATION"      -> {"BACKPROPAGATION"} \cup ExternalStops
        [] p = "BACKPROPAGATION" -> {"SELECTION", "SUCCEEDED", "EXHAUSTED"}
                                      \cup ExternalStops
        [] p = "BACKTRACKING"    -> {"SELECTION", "EXHAUSTED"}
                                      \cup ExternalStops
        [] OTHER                 -> {} ]
=============================================================================
