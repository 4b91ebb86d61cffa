---------------------------- MODULE RunLifecycle ----------------------------
(***************************************************************************)
(* What run() (cognitivetree/search.py) looks like to its caller: the      *)
(* phases it announces, the iterations it starts, and where cancel_event   *)
(* is looked at.  The session and the server only rely on this automaton;  *)
(* RunRefinement shows that TreeSearch implements it, with an event sink   *)
(* that has not raised.                                                    *)
(*                                                                         *)
(* A run is at a boundary between iterations, past the cancellation check  *)
(* ("checked"), inside an iteration, announcing a revision ("reopened"),   *)
(* about to report a policy's exception ("failing"), or over.              *)
(***************************************************************************)
EXTENDS Naturals, SearchPhases

CONSTANT MaxIterations

Stages == {"new", "boundary", "checked", "inside", "reopened", "failing", "over"}

Runs == [stage : Stages, phase : SearchPhase, iteration : 0..MaxIterations]

NewRun == [stage |-> "new", phase |-> "IDLE", iteration |-> 0]

Moved(r, s, p) == [stage |-> s, phase |-> p, iteration |-> r.iteration]

(***************************************************************************)
(* The moves that depend on nothing but where the run is.                  *)
(***************************************************************************)
Moves ==
  { <<"new",      "IDLE",            "boundary", "SELECTION">>,
    <<"checked",  "SELECTION",       "over",     "TIMED_OUT">>,
    <<"checked",  "SELECTION",       "over",     "BUDGET_EXHAUSTED">>,
    <<"checked",  "SELECTION",       "failing",  "SELECTION">>,
    <<"inside",   "SELECTION",       "over",     "EXHAUSTED">>,
    <<"inside",   "SELECTION",       "reopened", "BACKTRACKING">>,
    <<"inside",   "SELECTION",       "inside",   "EXPANSION">>,
    <<"inside",   "SELECTION",       "failing",  "SELECTION">>,
    <<"reopened", "BACKTRACKING",    "reopened", "SELECTION">>,
    <<"reopened", "SELECTION",       "inside",   "EXPANSION">>,
    <<"inside",   "EXPANSION",       "inside",   "BACKTRACKING">>,
    <<"inside",   "EXPANSION",       "inside",   "EVALUATION">>,
    <<"inside",   "EXPANSION",       "failing",  "EXPANSION">>,
    <<"inside",   "BACKTRACKING",    "boundary", "SELECTION">>,
    <<"inside",   "EVALUATION",      "inside",   "BACKPROPAGATION">>,
    <<"inside",   "EVALUATION",      "failing",  "EVALUATION">>,
    <<"inside",   "BACKPROPAGATION", "boundary", "SELECTION">>,
    <<"inside",   "BACKPROPAGATION", "over",     "SUCCEEDED">>,
    <<"failing",  "SELECTION",       "over",     "FAILED">>,
    <<"failing",  "EXPANSION",       "over",     "FAILED">>,
    <<"failing",  "EVALUATION",      "over",     "FAILED">> }

(***************************************************************************)
(* The boundary: the iteration budget, then cancel_event, then the rest.   *)
(***************************************************************************)
Boundary(r, cancelled) ==
  CASE r.iteration = MaxIterations -> {Moved(r, "over", "EXHAUSTED")}
    [] r.iteration < MaxIterations /\ cancelled -> {Moved(r, "over", "CANCELLED")}
    [] OTHER                       -> {Moved(r, "checked", "SELECTION")}

Iterate(r) == [stage |-> "inside", phase |-> r.phase, iteration |-> r.iteration + 1]

(***************************************************************************)
(* The states a run may be in after its next step.                         *)
(***************************************************************************)
RunNext(r, cancelled) ==
  {Moved(r, m[3], m[4]) : m \in {m \in Moves : m[1] = r.stage /\ m[2] = r.phase}}
    \cup (IF r.stage = "boundary" THEN Boundary(r, cancelled) ELSE {})
    \cup (IF r.stage = "checked" THEN {Iterate(r)} ELSE {})
=============================================================================
