------------------------------- MODULE Replay -------------------------------
(***************************************************************************)
(* Replaying an archived run (cognitivetree/persistence/replay.py).  The   *)
(* archive keeps the phase history but not the iteration each transition   *)
(* was announced with; the replay infers it by counting expansions.  The   *)
(* live side is what TreeSearch delivered to the event sink.               *)
(***************************************************************************)
EXTENDS TreeSearch

\* Mutant: dead ends are not counted.
IterationByEvaluation(transition, current) ==
  IF transition.target = "EVALUATION" THEN current + 1 ELSE current

_iteration_for(transition, current) ==
  IF transition.target = "EXPANSION" THEN current + 1 ELSE current

(***************************************************************************)
(* ReplaySession.stream(): the iteration put on the i-th phase envelope.   *)
(***************************************************************************)
Replayed ==
  LET iterationAt[i \in 0..Len(history)] ==
        IF i = 0 THEN 0 ELSE _iteration_for(history[i], iterationAt[i - 1])
  IN  iterationAt

(***************************************************************************)
(* _iteration_for() claims "the same sequence the live stream carried".    *)
(* That is too much: an iteration that ends on an empty frontier was       *)
(* streamed with a number the replay does not reach.  What holds is that   *)
(* the replay is never ahead and at most one behind, and behind only       *)
(* between the start of an iteration and its expansion: when a node is     *)
(* reopened, when the frontier is empty, or when a policy fails there.     *)
(***************************************************************************)
ReplayLagsOnlyBeforeExpansion ==
  \A i \in DOMAIN history :
    \/ Replayed[i] = events[i].iteration
    \/ /\ Replayed[i] = events[i].iteration - 1
       /\ \/ history[i].note \in {"reopened", "notes_prepared", "frontier_empty"}
          \/ /\ history[i].target = "FAILED"
             /\ history[i].source \in {"SELECTION", "BACKTRACKING"}

=============================================================================
