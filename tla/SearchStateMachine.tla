------------------------- MODULE SearchStateMachine -------------------------
(***************************************************************************)
(* The finite-state machine that sequences one search run                  *)
(* (cognitivetree/state.py): a phase plus the record of every accepted     *)
(* transition.  It is the abstract specification of a run's phase trace:   *)
(* TreeSearch is shown to implement MachineSpec.                           *)
(***************************************************************************)
EXTENDS Naturals, Sequences, SearchPhases

VARIABLES phase,     \* SearchStateMachine._phase
          history    \* SearchStateMachine._history, without the timestamps

machineVars == <<phase, history>>

CanTransition(target) == target \in TransitionTable[phase]

IsTerminal == phase \in TERMINAL_PHASES

PhaseTransition(source, target, note) ==
  [source |-> source, target |-> target, note |-> note]

(***************************************************************************)
(* transition() on a legal edge.  On an illegal one it raises              *)
(* InvalidTransitionError and leaves the machine as it was.                *)
(***************************************************************************)
Transition(target, note) ==
  /\ CanTransition(target)
  /\ phase' = target
  /\ history' = Append(history, PhaseTransition(phase, target, note))

MachineInit == phase = "IDLE" /\ history = <<>>

(***************************************************************************)
(* Any caller may request any edge with any note; the note is whatever the *)
(* new record carries.                                                     *)
(***************************************************************************)
MachineNext ==
  \E target \in SearchPhase : Transition(target, history'[Len(history')].note)

(***************************************************************************)
(* What a run's phase trace promises: legal edges only, each recorded in   *)
(* order, terminal phases final.                                           *)
(***************************************************************************)
MachineSpec == MachineInit /\ [][MachineNext]_machineVars
=============================================================================
