--------------------------- MODULE RunRefinement ---------------------------
(***************************************************************************)
(* TreeSearch implements RunLifecycle: what the session and the server     *)
(* rely on is what run() does.                                             *)
(***************************************************************************)
EXTENDS TreeSearch

Lifecycle == INSTANCE RunLifecycle

(***************************************************************************)
(* The stage of a run, from the point run() is at.  Leaving the loop with  *)
(* the iteration budget spent is announced after the loop.                 *)
(***************************************************************************)
Stage ==
  CASE pc = "start"                                       -> "new"
    [] pc = "loop" \/ (pc = "exit" /\ ~IsTerminal)        -> "boundary"
    [] pc \in {"deadline", "poll"}                        -> "checked"
    [] pc = "revived" \/ (pc = "expand" /\ revived)       -> "reopened"
    [] pc = "except"                                      -> "failing"
    [] pc = "exit" /\ IsTerminal                          -> "over"
    [] pc \in {"best", "greedy", "done"}                  -> "over"
    [] OTHER                                              -> "inside"

ThisRun == [stage |-> Stage, phase |-> phase, iteration |-> iteration]

(***************************************************************************)
(* As long as its sink has not raised, every step of a run is a step of    *)
(* the automaton or invisible to the caller: in particular a set           *)
(* cancel_event ends the run at the next boundary, whatever else would end *)
(* it there, and a policy's exception ends it in FAILED.                   *)
(***************************************************************************)
SinkRaised == "sink" \in {raised, error}

ImplementsLifecycle ==
  /\ ThisRun = Lifecycle!NewRun
  /\ [][ ~SinkRaised' => ThisRun' \in Lifecycle!RunNext(ThisRun, cancelAt # NotYet)
       ]_ThisRun
=============================================================================
