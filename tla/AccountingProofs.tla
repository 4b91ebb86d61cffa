-------------------------- MODULE AccountingProofs --------------------------
(***************************************************************************)
(* The books of a run, for every configuration: the expansions its history *)
(* records are the iterations it counted; a replay infers from that history *)
(* the iteration numbers of the live stream but for a lag of one before an *)
(* expansion; the revisions announced are those granted; visits and values *)
(* add up over every subtree of a run that has not failed; the metrics     *)
(* computed from the result agree with all of it; the archive of the run   *)
(* reads back as that result; and every step is one fewer to the end.      *)
(***************************************************************************)
EXTENDS TreeSearchProofs, RunArchive, SumTheorems

(***************************************************************************)
(* A count k of the expansions against the loop counter, by the point the  *)
(* run is at: one behind from the start of an iteration to its expansion.  *)
(***************************************************************************)
Uncounted == {"select", "descend", "selected", "revived", "expand"}
Counted   == {"start", "loop", "deadline", "poll"} \cup InExpansion \cup InEvaluation
               \cup InBackpropagation \cup {"prune"}

Lag(k) ==
  /\ pc \in Counted => k = iteration
  /\ pc \in Uncounted => k + 1 = iteration
  /\ pc = "except" =>
       \/ k = iteration
       \/ k + 1 = iteration /\ phase \in {"SELECTION", "BACKTRACKING", "EXHAUSTED"}
  /\ pc \in Leaving =>
       \/ k = iteration
       \/ k + 1 = iteration /\ phase \in {"EXHAUSTED", "FAILED"}

(***************************************************************************)
(* What _advance() adds to the history and to the event log.               *)
(***************************************************************************)
Logged(target, note, n) ==
  /\ history' = Append(history, [source |-> phase, target |-> target, note |-> note])
  /\ events' = Append(events, [iteration |-> iteration, phase |-> target, node |-> n])
  /\ target \in TransitionTable[phase] /\ phase' = target

\* _advance() records one transition and emits one event, or is refused and
\* does neither.
LEMMA AdvanceLog ==
  ASSUME NEW target, NEW n, NEW note, NEW next, Advance(target, n, note, next)
  PROVE  \/ target \in TransitionTable[phase] /\ Logged(target, note, n)
         \/ target \notin TransitionTable[phase] /\ UNCHANGED <<history, events, phase>>
  BY DEF Advance, Transition, CanTransition, PhaseTransition, Logged, machineVars

(***************************************************************************)
(* The expansion: the count catches up, whether or not the sink raises.    *)
(***************************************************************************)
LEMMA ExpansionLag ==
  ASSUME TypeInv, FaultInv, BeginExpansion, NEW k \in Nat, Lag(k),
         NEW m \in Nat, m = k + 1
  PROVE  Lag(m)' /\ Logged("EXPANSION", "", node) /\ iteration = m
<1>1. pc = "expand" /\ Advance("EXPANSION", node, "", "generate") /\ UNCHANGED iteration
  BY DEF BeginExpansion
<1>2. "EXPANSION" \in TransitionTable[phase] /\ iteration = m
  BY <1>1, Table DEF FaultInv, PhaseInv, InSelection, Lag, Uncounted
<1>3. Logged("EXPANSION", "", node)
  BY <1>1, <1>2, AdvanceLog
<1>4. pc' \in {"generate", "except"}
  BY <1>1, AdvanceOutcome DEF Handler
<1> QED
  BY <1>1, <1>2, <1>3, <1>4 DEF Lag, Uncounted, Counted, InExpansion, InEvaluation,
                               InBackpropagation, Leaving

(***************************************************************************)
(* No other step changes the count.                                        *)
(***************************************************************************)
LEMMA OtherLag ==
  ASSUME TypeInv, FaultInv, [Next]_vars, ~BeginExpansion, NEW k \in Nat, Lag(k)
  PROVE  Lag(k)'
<1> USE DEF InSelection, InExpansion, InEvaluation, InBackpropagation, InBacktracking,
            Leaving, Counted, Uncounted
<1>0. iteration \in Nat
  BY ConfigAssumption DEF TypeInv, TypeOK
<1>1. ASSUME UNCHANGED iteration,
             \/ pc \in Counted /\ pc' \in Counted \cup Leaving \cup {"except"}
             \/ pc \in Uncounted /\ pc' \in Uncounted
             \/ pc' = "escaped"
      PROVE  Lag(k)'
  BY <1>1 DEF Lag
<1>2. CASE Start \/ CheckCancel \/ CheckDeadline \/ PollStopCondition \/ LoopExit
  BY <1>1, <1>2, AdvanceOutcome DEF Start, CheckCancel, CheckDeadline,
     PollStopCondition, LoopExit, Goto, Raise, Handler
<1>3. CASE BeginIteration
  BY <1>0, <1>3 DEF BeginIteration, Goto, Lag
<1>4. CASE SelectRoot \/ SelectLeaf \/ PruneDepthCapped \/ GrantRevision
           \/ PruneSaturated \/ Descend
  BY <1>1, <1>4 DEF SelectRoot, SelectLeaf, PruneDepthCapped, GrantRevision,
     PruneSaturated, Descend, Goto
<1>5. CASE FrontierEmpty \/ ReviseFault \/ AnnounceRevision \/ AnnounceNotes
  <2>1. UNCHANGED iteration /\ pc \in Uncounted
    BY <1>5 DEF FrontierEmpty, ReviseFault, AnnounceRevision, AnnounceNotes
  <2>2. \/ pc' \in Uncounted
        \/ pc' \in {"except", "exit"} /\ phase' \in {"SELECTION", "BACKTRACKING", "EXHAUSTED"}
           /\ (pc' = "exit" => phase' = "EXHAUSTED")
    <3>1. CASE FrontierEmpty
      BY <3>1, AdvanceOutcome, Table
         DEF FrontierEmpty, Handler, FaultInv, PhaseInv
    <3>2. CASE ReviseFault
      BY <3>2 DEF ReviseFault, Raise, Handler, Quiet, machineVars, FaultInv, PhaseInv
    <3>3. CASE AnnounceRevision
      BY <3>3, AdvanceOutcome, Table
         DEF AnnounceRevision, Handler, Goto, FaultInv, PhaseInv
    <3>4. CASE AnnounceNotes
      BY <3>4, AdvanceOutcome, Table
         DEF AnnounceNotes, Handler, FaultInv, PhaseInv
    <3> QED
      BY <1>5, <3>1, <3>2, <3>3, <3>4
  <2> QED
    BY <2>1, <2>2 DEF Lag
<1>6. CASE DeadEnd \/ PruneDeadEnd \/ BeginEvaluation \/ BeginBackpropagation \/ Settle
  BY <1>1, <1>6, AdvanceOutcome DEF DeadEnd, PruneDeadEnd, BeginEvaluation,
     BeginBackpropagation, Settle, Handler
<1>7. CASE Generate \/ CollectVerdicts \/ CritiqueFault \/ ShapeFault
  BY <1>1, <1>7 DEF Generate, CollectVerdicts, CritiqueFault, ShapeFault, Goto, Raise,
     Handler
<1>8. CASE AttachCandidate \/ ExpansionDone \/ ApplyVerdict \/ EvaluationDone
           \/ Backpropagate \/ BackpropagationDone
  BY <1>1, <1>8 DEF AttachCandidate, ExpansionDone, ApplyVerdict, EvaluationDone,
     Backpropagate, BackpropagationDone, Goto
<1>9. CASE Except
  <2>1. /\ pc = "except" /\ UNCHANGED iteration
        /\ \/ pc' = "exit" /\ phase' = "FAILED"
           \/ pc' = "escaped"
    BY <1>9, AdvanceOutcome DEF Except, Handler
  <2> QED
    BY <2>1 DEF Lag
<1>10. CASE Exit \/ BestPath \/ BestPathStep
  <2>1. /\ pc \in Leaving /\ UNCHANGED iteration
        /\ \/ pc' \in Leaving /\ (UNCHANGED phase \/ phase' = "EXHAUSTED")
           \/ pc' = "escaped"
    BY <1>10, AdvanceOutcome DEF Exit, BestPath, BestPathStep, Goto, Quiet,
       machineVars, Handler
  <2> QED
    BY <2>1 DEF Lag
<1>11. CASE Cancel \/ DeadlinePasses \/ UNCHANGED vars
  BY <1>11 DEF Cancel, DeadlinePasses, vars, runVars, machineVars, Lag
<1> QED
  BY <1>2, <1>3, <1>4, <1>5, <1>6, <1>7, <1>8, <1>9, <1>10, <1>11
     DEF Next, Controller, Terminated

(***************************************************************************)
(* What the other steps announce: nothing, or one transition that is no    *)
(* expansion.  Before the expansion of an iteration it is a revision or an *)
(* empty frontier, the handler's is FAILED, and after the loop it is the   *)
(* spent budget of a run that had not ended.                               *)
(***************************************************************************)
Announces(target, note) ==
  /\ target # "EXPANSION"
  /\ pc \in Uncounted => note \in {"reopened", "notes_prepared", "frontier_empty"}
  /\ target = "BACKTRACKING" => \/ note = "reopened" /\ pc = "selected"
                                \/ note # "reopened" /\ pc = "deadend"
  /\ phase = "EXPANSION" => target \in {"EVALUATION", "BACKTRACKING", "FAILED"}
  /\ pc = "except" => target = "FAILED" /\ phase # "EXHAUSTED"
  /\ pc \in Leaving => phase \notin TERMINAL_PHASES
  /\ pc # "escaped"

\* Every step but an expansion leaves history and events alone or logs one of
\* the known announcements.
LEMMA OtherLog ==
  ASSUME TypeInv, FaultInv, [Next]_vars, ~BeginExpansion
  PROVE  \/ UNCHANGED <<history, events, phase>>
         \/ \E target, note, n : Logged(target, note, n) /\ Announces(target, note)
<1> USE DEF InSelection, InExpansion, InEvaluation, InBackpropagation, InBacktracking,
            Leaving, Uncounted
<1>1. ASSUME NEW target, NEW n, NEW note, NEW next, Advance(target, n, note, next),
             Announces(target, note)
      PROVE  \/ UNCHANGED <<history, events, phase>>
             \/ \E t, m, o : Logged(t, m, o) /\ Announces(t, m)
  BY <1>1, AdvanceLog
<1>2. CASE Start
  <2>1. Announces("SELECTION", "search_started")
    BY <1>2 DEF Start, Announces, FaultInv, PhaseInv
  <2> QED
    BY <1>1, <1>2, <2>1 DEF Start
<1>3. CASE CheckCancel
  <2>1. Announces("CANCELLED", "cancelled")
    BY <1>3 DEF CheckCancel, Announces, FaultInv, PhaseInv
  <2> QED
    BY <1>1, <1>3, <2>1 DEF CheckCancel, Quiet, machineVars
<1>4. CASE CheckDeadline
  <2>1. Announces("TIMED_OUT", "wall_clock_budget")
    BY <1>4 DEF CheckDeadline, Announces, FaultInv, PhaseInv
  <2> QED
    BY <1>1, <1>4, <2>1 DEF CheckDeadline, Quiet, machineVars
<1>5. CASE PollStopCondition
  <2>1. Announces("BUDGET_EXHAUSTED", "stop_condition")
    BY <1>5 DEF PollStopCondition, Announces, FaultInv, PhaseInv
  <2> QED
    BY <1>1, <1>5, <2>1 DEF PollStopCondition, Quiet, machineVars
<1>6. CASE FrontierEmpty
  <2>1. Announces("EXHAUSTED", "frontier_empty")
    BY <1>6 DEF FrontierEmpty, Announces, FaultInv, PhaseInv
  <2> QED
    BY <1>1, <1>6, <2>1 DEF FrontierEmpty
<1>7. CASE AnnounceRevision
  <2>1. Announces("BACKTRACKING", "reopened")
    BY <1>7 DEF AnnounceRevision, Announces, FaultInv, PhaseInv
  <2> QED
    BY <1>1, <1>7, <2>1 DEF AnnounceRevision, Quiet, machineVars
<1>8. CASE AnnounceNotes
  <2>1. Announces("SELECTION", "notes_prepared")
    BY <1>8 DEF AnnounceNotes, Announces, FaultInv, PhaseInv
  <2> QED
    BY <1>1, <1>8, <2>1 DEF AnnounceNotes
<1>9. CASE DeadEnd
  <2>1. Announces("BACKTRACKING", "no_candidates")
    BY <1>9 DEF DeadEnd, Announces, FaultInv, PhaseInv
  <2> QED
    BY <1>1, <1>9, <2>1 DEF DeadEnd
<1>10. CASE PruneDeadEnd
  <2>1. Announces("SELECTION", "backtracked")
    BY <1>10 DEF PruneDeadEnd, Announces, FaultInv, PhaseInv
  <2> QED
    BY <1>1, <1>10, <2>1 DEF PruneDeadEnd
<1>11. CASE BeginEvaluation
  <2>1. Announces("EVALUATION", "candidates")
    BY <1>11 DEF BeginEvaluation, Announces, FaultInv, PhaseInv
  <2> QED
    BY <1>1, <1>11, <2>1 DEF BeginEvaluation
<1>12. CASE BeginBackpropagation
  <2>1. Announces("BACKPROPAGATION", "")
    BY <1>12 DEF BeginBackpropagation, Announces, FaultInv, PhaseInv
  <2>2. Advance("BACKPROPAGATION", node, "", "propagate")
    BY <1>12 DEF BeginBackpropagation
  <2> QED
    BY <1>1, <2>1, <2>2
<1>13. CASE Settle
  <2>1. Announces("SUCCEEDED", "accepted") /\ Announces("SELECTION", "iteration_complete")
    BY <1>13 DEF Settle, Announces, FaultInv, PhaseInv
  <2> QED
    BY <1>1, <1>13, <2>1 DEF Settle
<1>14. CASE Except
  <2>1. Advance("FAILED", NoNode, "error", "exit") /\ pc = "except"
    BY <1>14 DEF Except
  <2>2. CASE phase = "EXHAUSTED"
    <3>1. "FAILED" \notin TransitionTable[phase]
      BY <2>2, Table DEF TERMINAL_PHASES
    <3> QED
      BY <2>1, <3>1, AdvanceLog
  <2>3. CASE phase # "EXHAUSTED"
    <3>1. Announces("FAILED", "error")
      BY <2>1, <2>3 DEF Announces
    <3> QED
      BY <1>1, <2>1, <3>1
  <2> QED
    BY <2>2, <2>3
<1>15. CASE Exit
  <2>1. phase \notin TERMINAL_PHASES => Announces("EXHAUSTED", "iteration_budget_spent")
    BY <1>15 DEF Exit, Announces, FaultInv, PhaseInv
  <2> QED
    BY <1>1, <1>15, <2>1 DEF Exit, IsTerminal, Quiet, machineVars
<1>16. CASE LoopExit \/ BeginIteration \/ SelectRoot \/ SelectLeaf \/ PruneDepthCapped
            \/ GrantRevision \/ ReviseFault \/ PruneSaturated \/ Descend \/ Generate
  BY <1>16 DEF LoopExit, BeginIteration, SelectRoot, SelectLeaf, PruneDepthCapped,
     GrantRevision, ReviseFault, PruneSaturated, Descend, Generate, Quiet, machineVars
<1>17. CASE AttachCandidate \/ ExpansionDone \/ CollectVerdicts \/ ApplyVerdict
            \/ CritiqueFault \/ ShapeFault \/ EvaluationDone \/ Backpropagate
            \/ BackpropagationDone \/ BestPath \/ BestPathStep
  BY <1>17 DEF AttachCandidate, ExpansionDone, CollectVerdicts, ApplyVerdict,
     CritiqueFault, ShapeFault, EvaluationDone, Backpropagate, BackpropagationDone,
     BestPath, BestPathStep, Quiet, machineVars
<1>18. CASE Cancel \/ DeadlinePasses \/ UNCHANGED vars
  BY <1>18 DEF Cancel, DeadlinePasses, vars, runVars, machineVars
<1> QED
  BY <1>2, <1>3, <1>4, <1>5, <1>6, <1>7, <1>8, <1>9, <1>10, <1>11, <1>12, <1>13,
     <1>14, <1>15, <1>16, <1>17, <1>18 DEF Next, Controller, Terminated

(***************************************************************************)
(* One more record is one more transition of its kind, and of no other.    *)
(***************************************************************************)
Occurrences(target, note) ==
  {i \in DOMAIN history : history[i].target = target /\ history[i].note = note}

\* One more record of history counts for its own target and note and for no
\* other.
LEMMA CountRecord ==
  ASSUME history \in Seq(HistoryRecord), NEW target, NEW note, NEW r,
         history' = Append(history, r)
  PROVE  /\ Transitions(target, note) \in Nat
         /\ r.target = target /\ r.note = note =>
              Transitions(target, note)' = Transitions(target, note) + 1
         /\ ~(r.target = target /\ r.note = note) =>
              Transitions(target, note)' = Transitions(target, note)
<1> DEFINE S == Occurrences(target, note)
           T == Occurrences(target, note)'
           last == Len(history) + 1
<1>1. /\ DOMAIN history = 1..Len(history) /\ Len(history) \in Nat
      /\ DOMAIN history' = DOMAIN history \cup {last} /\ last \notin DOMAIN history
      /\ \A i \in DOMAIN history : history'[i] = history[i]
      /\ history'[last] = r
  OBVIOUS
<1>2. /\ T = (IF r.target = target /\ r.note = note THEN S \cup {last} ELSE S)
      /\ last \notin S /\ S \subseteq 1..Len(history)
  BY <1>1 DEF Occurrences
<1>3. IsFiniteSet(S)
  <2>1. IsFiniteSet(1..Len(history))
    BY <1>1, FS_Interval
  <2> HIDE DEF S
  <2> QED
    BY <1>2, <2>1, FS_Subset
<1>4. Cardinality(S) \in Nat /\ Cardinality(S \cup {last}) = Cardinality(S) + 1
  BY <1>2, <1>3, FS_AddElement, FS_CardinalityType
<1>5. Transitions(target, note) = Cardinality(S)
      /\ Transitions(target, note)' = Cardinality(T)
  BY DEF Transitions, Occurrences
<1> QED
  BY <1>2, <1>4, <1>5

(***************************************************************************)
(* The count of the recorded expansions follows the loop counter.          *)
(***************************************************************************)
Expansions == Transitions("EXPANSION", "")

CountInv == Expansions \in Nat /\ Lag(Expansions)

\* A new run has recorded nothing and counted nothing.
LEMMA InitCount == Init => CountInv
<1> SUFFICES ASSUME Init PROVE CountInv
  OBVIOUS
<1>1. history = <<>> /\ pc = "start" /\ iteration = 0
  BY DEF Init, MachineInit
<1>2. Expansions = Cardinality({})
  <2>1. {i \in DOMAIN history : history[i].target = "EXPANSION"
                                /\ history[i].note = ""} = {}
    BY <1>1
  <2> QED
    BY <2>1 DEF Expansions, Transitions
<1>3. Expansions = 0
  BY <1>2, FS_EmptySet
<1> QED
  BY <1>1, <1>3 DEF CountInv, Lag, Counted, Uncounted, Leaving

\* Every step of the controller keeps the count of expansions in step with the
\* loop counter.
LEMMA CountStep == TypeInv /\ FaultInv /\ CountInv /\ [Next]_vars => CountInv'
<1> SUFFICES ASSUME TypeInv, FaultInv, CountInv, [Next]_vars PROVE CountInv'
  OBVIOUS
<1>0. PICK k \in Nat : k = Expansions /\ Lag(k) /\ history \in Seq(HistoryRecord)
  BY DEF TypeInv, TypeOK, HistoryRecord, CountInv
<1>1. CASE BeginExpansion
  <2>1. PICK m \in Nat : m = k + 1
    OBVIOUS
  <2>2. Lag(m)' /\ Logged("EXPANSION", "", node)
    BY <1>0, <1>1, <2>1, ExpansionLag
  <2>3. PICK note : note = "" /\ Logged("EXPANSION", note, node)
    BY <2>2, Zenon
  <2> DEFINE r == [source |-> phase, target |-> "EXPANSION", note |-> note]
  <2>4. history' = Append(history, r) /\ r.target = "EXPANSION" /\ r.note = note
    BY <2>3 DEF Logged
  <2> HIDE DEF r
  <2>5. Expansions' = Expansions + 1
    BY <1>0, <2>3, <2>4, CountRecord, Zenon DEF Expansions
  <2>6. Expansions' = m
    BY <1>0, <2>1, <2>5
  <2> QED
    BY <2>2, <2>6 DEF CountInv, Lag
<1>2. CASE ~BeginExpansion
  <2>1. Lag(k)'
    BY <1>0, <1>2, OtherLag
  <2>2. Expansions' = Expansions
    <3>1. CASE UNCHANGED <<history, events, phase>>
      <4>1. history' = history
        BY <3>1
      <4> QED
        BY <4>1, Zenon DEF Expansions, Transitions
    <3>2. CASE \E target, note, n : Logged(target, note, n) /\ Announces(target, note)
      <4>1. PICK r : history' = Append(history, r) /\ r.target # "EXPANSION"
        BY <3>2 DEF Logged, Announces
      <4> QED
        BY <1>0, <4>1, CountRecord, Zenon DEF Expansions
    <3> QED
      BY <1>2, <3>1, <3>2, OtherLog
  <2> QED
    BY <1>0, <2>1, <2>2 DEF CountInv, Lag
<1> QED
  BY <1>1, <1>2

(***************************************************************************)
(* SearchResult.iterations is the number of expansions of the run, or one  *)
(* more when selection ended it, for every configuration.                  *)
(***************************************************************************)
THEOREM IterationsCounted == Spec => []IterationsAreExpansions
<1>1. CountInv => IterationsAreExpansions
  BY DEF CountInv, Lag, Counted, Leaving, Expansions, IterationsAreExpansions
<1> QED
  BY <1>1, InitType, TypeStep, InitControl, FaultStep, InitCount, CountStep, PTL DEF Spec

-----------------------------------------------------------------------------
(***************************************************************************)
(* Revisions.  Every attempt on a node was announced, but the one granted  *)
(* by the selection that is about to announce it.                          *)
(***************************************************************************)
Announced == Transitions("BACKTRACKING", "reopened")

Granted == Total(attempts, Nodes)

Unannounced == pc = "selected" /\ revived

RevisionInv ==
  /\ pc \in {"select", "descend"} => ~revived
  /\ \A n \in Nodes : attempts[n] <= MaxAttempts
  /\ Announced \in Nat
  /\ Granted = IF Unannounced THEN Announced + 1 ELSE Announced

\* A tree has finitely many thoughts.
LEMMA NodesFinite == TreeTypeOK => IsFiniteSet(Nodes)
  BY FS_Interval DEF TreeTypeOK, Nodes

\* A new run has granted and announced no revision.
LEMMA InitRevision == Init => RevisionInv
<1> SUFFICES ASSUME Init PROVE RevisionInv
  OBVIOUS
<1>1. /\ history = <<>> /\ pc = "start" /\ Nodes = {Root} /\ attempts[Root] = 0
      /\ MaxAttempts \in Nat
  BY TreeAssumption DEF Init, MachineInit, TreeInit, Nodes, Root
<1>2. Announced = 0
  <2>1. {i \in DOMAIN history : history[i].target = "BACKTRACKING"
                                /\ history[i].note = "reopened"} = {}
    BY <1>1
  <2> QED
    BY <2>1, FS_EmptySet DEF Announced, Transitions
<1>3. Granted = 0
  <2>1. IsFiniteSet({Root})
    BY FS_Singleton, Zenon
  <2>2. PICK S : S = {Root} /\ IsFiniteSet(S)
    BY <2>1, Zenon
  <2>3. Root \in S /\ S \ {Root} = {} /\ \A n \in S : attempts[n] \in Int
    BY <1>1, <2>2
  <2>4. Total(attempts, S) = attempts[Root] + Total(attempts, S \ {Root})
    BY <2>2, <2>3, TotalSplit
  <2>5. Total(attempts, S \ {Root}) = 0
    BY <2>3, TotalEmpty, Zenon
  <2>6. Granted = Total(attempts, S)
    BY <1>1, <2>2, Zenon DEF Granted
  <2> QED
    BY <1>1, <2>4, <2>5, <2>6
<1> QED
  BY <1>1, <1>2, <1>3 DEF RevisionInv, Unannounced

(***************************************************************************)
(* What a step does to the attempts: one more on the node it revives, none *)
(* on a new node, nothing otherwise.                                       *)
(***************************************************************************)
LEMMA GrantCount ==
  ASSUME TypeInv, GrantRevision
  PROVE  /\ Granted' = Granted + 1 /\ Granted \in Int
         /\ \A n \in Nodes' : attempts'[n] <= attempts[n] \/ attempts'[n] <= MaxAttempts
<1>1. /\ TreeTypeOK /\ node \in Nodes /\ Nodes' = Nodes
      /\ attempts' = [attempts EXCEPT ![node] = @ + 1] /\ attempts[node] < MaxAttempts
  BY DEF GrantRevision, CommitRevision, MayRevise, shapeVars, Nodes, TypeInv, TypeOK,
         ControlInv, AtNode
<1>2. \A n \in Nodes : attempts[n] \in Nat /\ MaxAttempts \in Nat
  BY <1>1, TreeAssumption DEF TreeTypeOK
<1>3. /\ attempts'[node] = attempts[node] + 1
      /\ \A n \in Nodes \ {node} : attempts'[n] = attempts[n]
  BY <1>1 DEF TreeTypeOK
<1>4. Total(attempts', Nodes) = Total(attempts, Nodes) + (attempts'[node] - attempts[node])
      /\ Total(attempts, Nodes) \in Int
  <2>1. \A n \in Nodes : attempts[n] \in Int /\ attempts'[n] \in Int
    BY <1>2, <1>3
  <2>2. IsFiniteSet(Nodes)
    BY <1>1, NodesFinite
  <2>3. Total(attempts, Nodes) \in Int
    BY <2>1, <2>2, TotalType
  <2>4. PICK h : h = attempts'
    OBVIOUS
  <2>5. /\ \A n \in Nodes : attempts[n] \in Int /\ h[n] \in Int
        /\ \A n \in Nodes \ {node} : h[n] = attempts[n]
    BY <1>3, <2>1, <2>4
  <2>6. Total(h, Nodes) = Total(attempts, Nodes) + (h[node] - attempts[node])
    BY <1>1, <2>2, <2>5, TotalChange
  <2> QED
    BY <2>3, <2>4, <2>6
<1>5. Granted' = Granted + 1 /\ Granted \in Int
  <2>1. attempts'[node] - attempts[node] = 1
    BY <1>1, <1>2, <1>3
  <2> QED
    BY <1>1, <1>4, <2>1 DEF Granted
<1>6. \A n \in Nodes' : attempts'[n] <= attempts[n] \/ attempts'[n] <= MaxAttempts
  BY <1>1, <1>2, <1>3
<1> QED
  BY <1>5, <1>6

\* add_child() attaches a thought with no revision spent, so the grants still
\* add up.
LEMMA AttachCount ==
  ASSUME TypeInv, NEW text, AddChild(node, text)
  PROVE  /\ Granted' = Granted
         /\ \A n \in Nodes' : attempts'[n] = 0 \/ (n \in Nodes /\ attempts'[n] = attempts[n])
<1>1. TreeTypeOK /\ size \in Nat
  BY DEF TypeInv, TypeOK, TreeTypeOK
<1>2. /\ Nodes' = Nodes \cup {size + 1} /\ size + 1 \notin Nodes
      /\ attempts'[size + 1] = 0
      /\ \A n \in Nodes : attempts'[n] = attempts[n] /\ attempts[n] \in Int
  <2>1. 1..(size + 1) = 1..size \cup {size + 1} /\ size + 1 \notin 1..size
    BY <1>1
  <2> QED
    BY <1>1, <2>1 DEF AddChild, Extend, Nodes, TreeTypeOK
<1>3. IsFiniteSet(Nodes)
  BY <1>1, NodesFinite
<1>4. Total(attempts', Nodes \cup {size + 1}) = 0 + Total(attempts', Nodes)
  <2>1. \A n \in Nodes \cup {size + 1} : attempts'[n] \in Int
    BY <1>2
  <2> QED
    BY <1>2, <1>3, <2>1, TotalAdd
<1>5. Total(attempts', Nodes) = Total(attempts, Nodes) /\ Total(attempts, Nodes) \in Int
  BY <1>2, <1>3, TotalSame, TotalType
<1> QED
  BY <1>2, <1>4, <1>5 DEF Granted

\* Only a grant of the policy changes the number of revisions a tree has
\* granted.
LEMMA SameCount ==
  ASSUME TypeInv, [Next]_vars, ~GrantRevision
  PROVE  /\ Granted' = Granted
         /\ \A n \in Nodes' : attempts'[n] = 0 \/ (n \in Nodes /\ attempts'[n] = attempts[n])
<1>1. ASSUME UNCHANGED <<size, attempts>>
      PROVE  /\ Granted' = Granted
             /\ \A n \in Nodes' : n \in Nodes /\ attempts'[n] = attempts[n]
  <2>1. attempts' = attempts /\ Nodes' = Nodes
    BY <1>1 DEF Nodes
  <2> QED
    BY <2>1 DEF Granted
<1>2. CASE AttachCandidate
  <2> DEFINE text == Strip[Head(candidates)]
  <2>1. CASE Rejected(text)
    BY <1>1, <1>2, <2>1 DEF AttachCandidate, treeVars, shapeVars, revisionVars
  <2>2. CASE ~Rejected(text)
    <3>1. AddChild(node, text)
      BY <1>2, <2>2 DEF AttachCandidate
    <3> HIDE DEF text
    <3> QED
      BY <3>1, AttachCount
  <2> QED
    BY <2>1, <2>2
<1> USE DEF treeVars, shapeVars, revisionVars
<1>3. CASE Start \/ LoopExit \/ CheckCancel \/ CheckDeadline \/ PollStopCondition
           \/ BeginIteration \/ SelectRoot \/ FrontierEmpty \/ SelectLeaf
           \/ PruneDepthCapped \/ ReviseFault \/ PruneSaturated \/ Descend
  BY <1>1, <1>3 DEF Start, LoopExit, CheckCancel, CheckDeadline, PollStopCondition,
     BeginIteration, SelectRoot, FrontierEmpty, SelectLeaf, PruneDepthCapped,
     ReviseFault, PruneSaturated, Descend
<1>4. CASE AnnounceRevision \/ AnnounceNotes \/ BeginExpansion \/ Generate
           \/ ExpansionDone \/ DeadEnd \/ PruneDeadEnd \/ BeginEvaluation
           \/ CollectVerdicts \/ ApplyVerdict \/ CritiqueFault \/ ShapeFault
  BY <1>1, <1>4 DEF AnnounceRevision, AnnounceNotes, BeginExpansion, Generate,
     ExpansionDone, DeadEnd, PruneDeadEnd, BeginEvaluation, CollectVerdicts,
     ApplyVerdict, CritiqueFault, ShapeFault
<1>5. CASE EvaluationDone \/ BeginBackpropagation \/ Backpropagate
           \/ BackpropagationDone \/ Settle \/ Except \/ Exit \/ BestPath \/ BestPathStep
  BY <1>1, <1>5 DEF EvaluationDone, BeginBackpropagation, Backpropagate,
     BackpropagationDone, Settle, Except, Exit, BestPath, BestPathStep
<1>6. CASE Cancel \/ DeadlinePasses \/ UNCHANGED vars
  BY <1>1, <1>6 DEF Cancel, DeadlinePasses, vars
<1> QED
  BY <1>2, <1>3, <1>4, <1>5, <1>6 DEF Next, Controller, Terminated

(***************************************************************************)
(* Where a revision may be waiting for its announcement.                   *)
(***************************************************************************)
LEMMA RevivedStep ==
  ASSUME RevisionInv, [Next]_vars, ~GrantRevision
  PROVE  /\ pc' \in {"select", "descend"} => ~revived'
         /\ ~AnnounceRevision => (Unannounced' <=> Unannounced)
         /\ AnnounceRevision => (Unannounced <=> revived) /\ ~Unannounced'
<1> USE DEF RevisionInv, Unannounced, Goto, Raise, Handler
<1>0. AnnounceRevision => /\ (Unannounced <=> revived) /\ ~Unannounced'
                          /\ pc' \notin {"select", "descend"}
  BY AdvanceOutcome DEF AnnounceRevision
<1> SUFFICES ASSUME ~AnnounceRevision
             PROVE  /\ pc' \in {"select", "descend"} => ~revived'
                    /\ Unannounced' <=> Unannounced
  BY <1>0
<1>1. CASE Start \/ LoopExit \/ CheckCancel \/ CheckDeadline \/ PollStopCondition
           \/ BeginIteration
  BY <1>1, AdvanceOutcome DEF Start, LoopExit, CheckCancel, CheckDeadline,
     PollStopCondition, BeginIteration
<1>2. CASE SelectRoot \/ FrontierEmpty \/ SelectLeaf \/ PruneDepthCapped \/ ReviseFault
           \/ PruneSaturated \/ Descend
  BY <1>2, AdvanceOutcome DEF SelectRoot, FrontierEmpty, SelectLeaf, PruneDepthCapped,
     ReviseFault, PruneSaturated, Descend, localVars
<1>3. CASE AnnounceNotes \/ BeginExpansion \/ Generate \/ AttachCandidate
           \/ ExpansionDone
  BY <1>3, AdvanceOutcome DEF AnnounceNotes, BeginExpansion,
     Generate, AttachCandidate, ExpansionDone
<1>4. CASE DeadEnd \/ PruneDeadEnd \/ BeginEvaluation \/ CollectVerdicts
           \/ ApplyVerdict \/ CritiqueFault \/ ShapeFault \/ EvaluationDone
  BY <1>4, AdvanceOutcome DEF DeadEnd, PruneDeadEnd, BeginEvaluation, CollectVerdicts,
     ApplyVerdict, CritiqueFault, ShapeFault, EvaluationDone
<1>5. CASE BeginBackpropagation \/ Backpropagate \/ BackpropagationDone \/ Settle
           \/ Except \/ Exit \/ BestPath \/ BestPathStep
  BY <1>5, AdvanceOutcome DEF BeginBackpropagation, Backpropagate, BackpropagationDone,
     Settle, Except, Exit, BestPath, BestPathStep
<1>6. CASE Cancel \/ DeadlinePasses \/ UNCHANGED vars
  BY <1>6 DEF Cancel, DeadlinePasses, vars, runVars, localVars
<1> QED
  BY <1>1, <1>2, <1>3, <1>4, <1>5, <1>6 DEF Next, Controller, Terminated

\* Every step keeps the announced revisions and the granted ones in balance.
LEMMA RevisionsStep ==
  TypeInv /\ FaultInv /\ RevisionInv /\ [Next]_vars => RevisionInv'
<1> SUFFICES ASSUME TypeInv, FaultInv, RevisionInv, [Next]_vars PROVE RevisionInv'
  OBVIOUS
<1>0. /\ history \in Seq(HistoryRecord) /\ MaxAttempts \in Nat /\ Announced \in Nat
      /\ \A n \in Nodes : attempts[n] \in Nat
  BY TreeAssumption DEF TypeInv, TypeOK, TreeTypeOK, HistoryRecord, RevisionInv
<1>1. CASE GrantRevision
  <2>1. /\ pc = "descend" /\ pc' = "selected" /\ revived' = TRUE /\ history' = history
        /\ Nodes' = Nodes
    BY <1>1 DEF GrantRevision, Goto, Quiet, machineVars, shapeVars, Nodes
  <2>2. Announced' = Announced
    BY <2>1, Zenon DEF Announced, Transitions
  <2>3. Granted' = Announced' + 1
    BY <1>0, <1>1, <2>1, <2>2, GrantCount DEF RevisionInv, Unannounced
  <2>4. \A n \in Nodes' : attempts'[n] <= MaxAttempts
    <3>1. ASSUME NEW n \in Nodes PROVE attempts'[n] <= MaxAttempts
      <4>1. attempts[n] <= MaxAttempts /\ attempts'[n] \in Int
        BY <1>0, <1>1 DEF RevisionInv, GrantRevision, CommitRevision, TypeInv, TypeOK,
                          TreeTypeOK
      <4> QED
        BY <1>0, <1>1, <2>1, <4>1, GrantCount
    <3> QED
      BY <2>1, <3>1
  <2> QED
    BY <1>0, <2>1, <2>2, <2>3, <2>4 DEF RevisionInv, Unannounced
<1>2. CASE ~GrantRevision
  <2>1. Granted' = Granted /\ \A n \in Nodes' : attempts'[n] <= MaxAttempts
    BY <1>0, <1>2, SameCount DEF RevisionInv
  <2>2. CASE AnnounceRevision /\ revived
    <3>1. Logged("BACKTRACKING", "reopened", node)
      <4>1. "BACKTRACKING" \in TransitionTable[phase]
        BY <2>2, Table DEF AnnounceRevision, FaultInv, PhaseInv, InSelection
      <4> QED
        BY <2>2, <4>1, AdvanceLog DEF AnnounceRevision
    <3>2. Announced' = Announced + 1
      BY <1>0, <3>1, CountRecord DEF Announced, Logged
    <3>3. Unannounced /\ ~Unannounced' /\ (pc' \in {"select", "descend"} => ~revived')
      BY <1>2, <2>2, RevivedStep
    <3> QED
      BY <1>0, <2>1, <3>2, <3>3 DEF RevisionInv
  <2>3. CASE ~(AnnounceRevision /\ revived)
    <3>1. (Unannounced' <=> Unannounced) /\ (pc' \in {"select", "descend"} => ~revived')
      BY <1>2, <2>3, RevivedStep
    <3>2. Announced' = Announced
      <4>1. ASSUME history' = history PROVE Announced' = Announced
        BY <4>1, Zenon DEF Announced, Transitions
      <4>2. CASE BeginExpansion
        <5>1. PICK note : Advance("EXPANSION", node, note, "generate")
          BY <4>2, Zenon DEF BeginExpansion
        <5>2. history' = history \/ Logged("EXPANSION", note, node)
          BY <5>1, AdvanceLog
        <5> DEFINE r == [source |-> phase, target |-> "EXPANSION", note |-> note]
        <5>3. r.target # "BACKTRACKING"
              /\ (history' = history \/ history' = Append(history, r))
          BY <5>2 DEF Logged
        <5> HIDE DEF r
        <5> QED
          BY <1>0, <4>1, <5>3, CountRecord DEF Announced
      <4>3. CASE pc = "selected"
        <5>1. history' = history
          BY <1>2, <2>3, <4>3
             DEF Next, Controller, Terminated, Start, LoopExit, CheckCancel,
                 CheckDeadline, PollStopCondition, BeginIteration, SelectRoot,
                 FrontierEmpty, SelectLeaf, PruneDepthCapped, ReviseFault,
                 PruneSaturated, Descend, AnnounceRevision, AnnounceNotes,
                 BeginExpansion, Generate, AttachCandidate, ExpansionDone, DeadEnd,
                 PruneDeadEnd, BeginEvaluation, CollectVerdicts, ApplyVerdict,
                 CritiqueFault, ShapeFault, EvaluationDone, BeginBackpropagation,
                 Backpropagate, BackpropagationDone, Settle, Except, Exit, BestPath,
                 BestPathStep, Cancel, DeadlinePasses, vars, machineVars, Quiet
        <5> QED
          BY <4>1, <5>1
      <4>4. CASE ~BeginExpansion /\ pc # "selected"
        <5>1. \/ history' = history
              \/ \E target, note, n : Logged(target, note, n) /\ Announces(target, note)
          BY <4>4, OtherLog
        <5>2. ASSUME NEW target, NEW note, NEW n, Logged(target, note, n),
                     Announces(target, note)
              PROVE  Announced' = Announced
          <6> DEFINE r == [source |-> phase, target |-> target, note |-> note]
          <6>1. history' = Append(history, r) /\ r.target = target /\ r.note = note
            BY <5>2 DEF Logged
          <6>2. ~(target = "BACKTRACKING" /\ note = "reopened")
            BY <4>4, <5>2 DEF Announces
          <6> HIDE DEF r
          <6> QED
            BY <1>0, <6>1, <6>2, CountRecord DEF Announced
        <5> QED
          BY <4>1, <5>1, <5>2
      <4> QED
        BY <4>2, <4>3, <4>4
    <3> QED
      BY <1>0, <2>1, <3>1, <3>2 DEF RevisionInv
  <2> QED
    BY <2>2, <2>3
<1> QED
  BY <1>1, <1>2

(***************************************************************************)
(* Revisions are bounded and announced, for every tree and every policy:   *)
(* the attempts recorded over the whole tree are the BACKTRACKING          *)
(* announcements of the history, plus the one being announced.             *)
(***************************************************************************)
THEOREM RevisionsAccounted == Spec => []RevisionAccounting
<1>1. RevisionInv => RevisionAccounting
  <2>1. Sum(attempts, Nodes) = Granted
    BY DEF Sum, Granted, Total
  <2> QED
    BY <2>1 DEF RevisionInv, RevisionAccounting, Unannounced, Announced
<1> QED
  BY <1>1, InitType, TypeStep, InitControl, FaultStep, InitRevision, RevisionsStep, PTL
     DEF Spec

-----------------------------------------------------------------------------
(***************************************************************************)
(* The replay.  Replayed is a recursive function of the history; what it   *)
(* satisfies is its equation, once some function is known to satisfy it.   *)
(* The history grows by one record at a time, and so does the function, so *)
(* its existence is an invariant of the run.                               *)
(***************************************************************************)
Counts(f, h) ==
  f = [i \in 0..Len(h) |-> IF i = 0 THEN 0 ELSE _iteration_for(h[i], f[i - 1])]

\* The fold of the replay is what any function with its equation computes.
LEMMA ReplayedCounts ==
  ASSUME NEW f, Counts(f, history)
  PROVE  Counts(Replayed, history)
  BY DEF Replayed, Counts

\* The replay counts from zero, one record after another.
LEMMA CountsValues ==
  ASSUME NEW h \in Seq(HistoryRecord), NEW f, Counts(f, h)
  PROVE  /\ f[0] = 0
         /\ \A i \in 1..Len(h) : f[i] = _iteration_for(h[i], f[i - 1])
<1>1. Len(h) \in Nat
  OBVIOUS
<1>2. \A i \in 0..Len(h) : f[i] = IF i = 0 THEN 0 ELSE _iteration_for(h[i], f[i - 1])
  BY DEF Counts
<1> QED
  BY <1>1, <1>2

\* A function that counts a history extends to one record more.
LEMMA CountsExtended ==
  ASSUME NEW h \in Seq(HistoryRecord), NEW r, NEW f, Counts(f, h)
  PROVE  \E g : Counts(g, Append(h, r))
<1> DEFINE n == Len(h)
           q == Append(h, r)
           g == [i \in 0..(n + 1) |-> IF i <= n THEN f[i] ELSE _iteration_for(r, f[n])]
<1>1. n \in Nat /\ Len(q) = n + 1 /\ q[n + 1] = r /\ \A i \in 1..n : q[i] = h[i]
  OBVIOUS
<1>2. f[0] = 0 /\ \A i \in 1..n : f[i] = _iteration_for(h[i], f[i - 1])
  BY CountsValues
<1> HIDE DEF n, q
<1>3. ASSUME NEW i \in 0..(n + 1)
      PROVE  g[i] = IF i = 0 THEN 0 ELSE _iteration_for(q[i], g[i - 1])
  <2>1. CASE i = 0
    BY <1>1, <1>2, <2>1
  <2>2. CASE i \in 1..n
    <3>1. g[i] = f[i] /\ i - 1 \in 0..(n + 1) /\ i - 1 <= n /\ i # 0
      BY <1>1, <2>2
    <3>2. g[i - 1] = f[i - 1]
      BY <3>1
    <3> QED
      BY <1>1, <1>2, <2>2, <3>1, <3>2
  <2>3. CASE i = n + 1
    <3>1. ~(i <= n) /\ i # 0 /\ i - 1 = n /\ n \in 0..(n + 1) /\ n <= n
      BY <1>1, <2>3
    <3>2. g[i] = _iteration_for(r, f[n]) /\ g[n] = f[n]
      BY <3>1
    <3> QED
      BY <1>1, <2>3, <3>1, <3>2
  <2> QED
    BY <1>1, <2>1, <2>2, <2>3
<1>4. g = [i \in 0..(n + 1) |-> g[i]]
  OBVIOUS
<1> HIDE DEF g
<1>5. g = [i \in 0..Len(q) |-> IF i = 0 THEN 0 ELSE _iteration_for(q[i], g[i - 1])]
  BY <1>1, <1>3, <1>4
<1>6. Counts(g, q)
  BY <1>5 DEF Counts
<1> QED
  BY <1>6 DEF q

\* The count of a longer history begins with that of the shorter one.
LEMMA CountsRestricted ==
  ASSUME NEW h \in Seq(HistoryRecord), NEW r, NEW g, Counts(g, Append(h, r))
  PROVE  \E f : /\ Counts(f, h)
                /\ \A i \in 0..Len(h) : g[i] = f[i]
                /\ g[Len(h) + 1] = _iteration_for(r, f[Len(h)])
<1> DEFINE n == Len(h)
           q == Append(h, r)
           f == [i \in 0..n |-> g[i]]
<1>1. n \in Nat /\ Len(q) = n + 1 /\ q[n + 1] = r /\ \A i \in 1..n : q[i] = h[i]
  OBVIOUS
<1>2. \A i \in 0..(n + 1) : g[i] = IF i = 0 THEN 0 ELSE _iteration_for(q[i], g[i - 1])
  <2> HIDE DEF n
  <2>1. g = [i \in 0..(n + 1) |-> IF i = 0 THEN 0 ELSE _iteration_for(q[i], g[i - 1])]
    BY <1>1 DEF Counts
  <2> HIDE DEF q
  <2> QED
    BY <2>1
<1> HIDE DEF n, q
<1>3. \A i \in 0..n : f[i] = g[i]
  OBVIOUS
<1>4. ASSUME NEW i \in 0..n
      PROVE  f[i] = IF i = 0 THEN 0 ELSE _iteration_for(h[i], f[i - 1])
  <2>1. CASE i = 0
    BY <1>1, <1>2, <1>3, <2>1
  <2>2. CASE i # 0
    <3>1. i \in 1..n /\ i - 1 \in 0..n /\ i \in 0..(n + 1)
      BY <1>1, <2>2
    <3> QED
      BY <1>1, <1>2, <1>3, <2>2, <3>1
  <2> QED
    BY <2>1, <2>2
<1>5. f = [i \in 0..n |-> f[i]]
  OBVIOUS
<1> HIDE DEF f
<1>6. f = [i \in 0..n |-> IF i = 0 THEN 0 ELSE _iteration_for(h[i], f[i - 1])]
  BY <1>4, <1>5
<1>7. Counts(f, h)
  BY <1>6 DEF Counts, n
<1>8. g[n + 1] = _iteration_for(r, f[n])
  <2>1. n + 1 \in 0..(n + 1) /\ n + 1 # 0 /\ (n + 1) - 1 = n /\ n \in 0..n
    BY <1>1
  <2> QED
    BY <1>1, <1>2, <1>3, <2>1
<1> QED
  BY <1>3, <1>7, <1>8 DEF n

(***************************************************************************)
(* The i-th record is replayed with the iteration of the i-th event, or    *)
(* one behind it before an expansion.                                      *)
(***************************************************************************)
Placed(f, i) ==
  \/ f[i] = events[i].iteration
  \/ /\ f[i] = events[i].iteration - 1
     /\ \/ history[i].note \in {"reopened", "notes_prepared", "frontier_empty"}
        \/ /\ history[i].target = "FAILED"
           /\ history[i].source \in {"SELECTION", "BACKTRACKING"}

Reaches(f, k) == f[Len(history)] = k

Follows(f) ==
  /\ \E k \in Nat : Reaches(f, k) /\ Lag(k)
  /\ \A i \in DOMAIN history : Placed(f, i)

ReplayInv ==
  /\ Len(events) = Len(history)
  /\ \E f : Counts(f, history)
  /\ \A f : Counts(f, history) => Follows(f)

\* The replay of an empty history has a count.
LEMMA InitReplay == Init => ReplayInv
<1> SUFFICES ASSUME Init PROVE ReplayInv
  OBVIOUS
<1>1. history = <<>> /\ events = <<>> /\ pc = "start" /\ iteration = 0
  BY DEF Init, MachineInit
<1>2. Len(history) = 0 /\ Len(events) = 0 /\ DOMAIN history = {}
  BY <1>1
<1>3. Lag(0)
  BY <1>1 DEF Lag, Counted, Uncounted, Leaving
<1>4. \E f : Counts(f, history)
  <2> DEFINE g == [i \in 0..0 |-> 0]
  <2>1. g = [i \in 0..0 |-> IF i = 0 THEN 0 ELSE _iteration_for(history[i], g[i - 1])]
    OBVIOUS
  <2> HIDE DEF g
  <2>2. Counts(g, history)
    BY <1>2, <2>1 DEF Counts
  <2> QED
    BY <2>2
<1>5. ASSUME NEW f, Counts(f, history) PROVE Follows(f)
  <2>1. history \in Seq(HistoryRecord)
    BY <1>1
  <2>2. f[0] = 0
    BY <1>5, <2>1, CountsValues
  <2> QED
    BY <1>2, <1>3, <2>2 DEF Follows, Reaches
<1> QED
  BY <1>2, <1>4, <1>5 DEF ReplayInv

(***************************************************************************)
(* A step that announces nothing.                                          *)
(***************************************************************************)
LEMMA SilentReplay ==
  ASSUME ReplayInv, history' = history, events' = events,
         \A k \in Nat : Lag(k) => Lag(k)'
  PROVE  ReplayInv'
<1>1. ASSUME NEW f, Follows(f) PROVE Follows(f)'
  <2>1. PICK k \in Nat : Reaches(f, k) /\ Lag(k)
    BY <1>1 DEF Follows
  <2>2. Reaches(f, k)' /\ Lag(k)'
    BY <2>1 DEF Reaches
  <2>3. \A i \in DOMAIN history : Placed(f, i)'
    BY <1>1 DEF Follows, Placed
  <2> QED
    BY <2>2, <2>3 DEF Follows
<1>2. \E f : Counts(f, history')
  BY DEF ReplayInv
<1>3. \A f : Counts(f, history') => Follows(f)'
  BY <1>1 DEF ReplayInv
<1> QED
  BY <1>2, <1>3 DEF ReplayInv

(***************************************************************************)
(* A step that announces one transition: the function grows by the value   *)
(* of the new record, which is placed if it is the event's iteration or a  *)
(* permitted lag.                                                          *)
(***************************************************************************)
LEMMA LoggedReplay ==
  ASSUME TypeInv, ReplayInv, NEW target, NEW note, NEW n, Logged(target, note, n),
         \A k \in Nat : Lag(k) =>
           \E m \in Nat :
             /\ m = IF target = "EXPANSION" THEN k + 1 ELSE k
             /\ Lag(m)'
             /\ \/ m = iteration
                \/ /\ m = iteration - 1
                   /\ \/ note \in {"reopened", "notes_prepared", "frontier_empty"}
                      \/ target = "FAILED" /\ phase \in {"SELECTION", "BACKTRACKING"}
  PROVE  ReplayInv'
<1> DEFINE r == [source |-> phase, target |-> target, note |-> note]
           e == [iteration |-> iteration, phase |-> target, node |-> n]
<1>0. history \in Seq(HistoryRecord) /\ Len(events) = Len(history)
      /\ events \in Seq(EventRecord)
  BY DEF TypeInv, TypeOK, HistoryRecord, EventRecord, ReplayInv
<1>last. PICK last \in Nat : last = Len(history) + 1
  BY <1>0
<1>1. r.source = phase /\ r.target = target /\ r.note = note /\ e.iteration = iteration
  OBVIOUS
<1>2. history' = Append(history, r) /\ events' = Append(events, e)
  BY DEF Logged
<1> HIDE DEF r, e
<1>3. /\ Len(history') = last /\ Len(events') = last /\ last \in Nat
      /\ DOMAIN history' = DOMAIN history \cup {last}
      /\ \A i \in DOMAIN history : /\ history'[i] = history[i] /\ events'[i] = events[i]
                                   /\ i \in 0..Len(history)
      /\ history'[last] = r /\ events'[last] = e
  BY <1>0, <1>2, <1>last
<1>4. \E f : Counts(f, history')
  BY <1>0, <1>2, CountsExtended DEF ReplayInv
<1>5. ASSUME NEW g, Counts(g, history') PROVE Follows(g)'
  <2>1. PICK f : /\ Counts(f, history)
                 /\ \A i \in 0..Len(history) : g[i] = f[i]
                 /\ g[last] = _iteration_for(r, f[Len(history)])
    BY <1>0, <1>2, <1>5, <1>last, CountsRestricted
  <2>2. Follows(f)
    BY <2>1 DEF ReplayInv
  <2>3. PICK k \in Nat : f[Len(history)] = k /\ Lag(k)
    BY <2>2 DEF Follows, Reaches
  <2>4. PICK m \in Nat :
          /\ m = IF target = "EXPANSION" THEN k + 1 ELSE k
          /\ Lag(m)'
          /\ \/ m = iteration
             \/ /\ m = iteration - 1
                /\ \/ note \in {"reopened", "notes_prepared", "frontier_empty"}
                   \/ target = "FAILED" /\ phase \in {"SELECTION", "BACKTRACKING"}
    BY <2>3
  <2>5. g[last] = m
    BY <1>1, <2>1, <2>3, <2>4 DEF _iteration_for
  <2>6. Reaches(g, m)'
    BY <1>3, <2>5 DEF Reaches
  <2>7. Placed(g, last)'
    BY <1>1, <1>3, <2>4, <2>5 DEF Placed
  <2>8. ASSUME NEW i \in DOMAIN history PROVE Placed(g, i)'
    <3>1. Placed(f, i) /\ g[i] = f[i]
      BY <1>3, <2>1, <2>2 DEF Follows
    <3> QED
      BY <1>3, <3>1 DEF Placed
  <2> QED
    BY <1>3, <2>4, <2>6, <2>7, <2>8 DEF Follows
<1> QED
  BY <1>3, <1>4, <1>5 DEF ReplayInv

(***************************************************************************)
(* Every step preserves ReplayInv.                                         *)
(***************************************************************************)
LEMMA ReplayStep == TypeInv /\ FaultInv /\ ReplayInv /\ [Next]_vars => ReplayInv'
<1> SUFFICES ASSUME TypeInv, FaultInv, ReplayInv, [Next]_vars PROVE ReplayInv'
  OBVIOUS
<1>0. iteration \in Nat
  BY ConfigAssumption DEF TypeInv, TypeOK
<1>1. CASE BeginExpansion
  <2>1. ASSUME NEW k \in Nat, Lag(k)
        PROVE  \E m \in Nat : m = k + 1 /\ Lag(m)' /\ m = iteration
               /\ Logged("EXPANSION", "", node)
    <3>1. PICK m \in Nat : m = k + 1
      OBVIOUS
    <3>2. Lag(m)' /\ m = iteration /\ Logged("EXPANSION", "", node)
      BY <1>1, <2>1, <3>1, ExpansionLag
    <3> QED
      BY <3>1, <3>2
  <2>2. \E k \in Nat : Lag(k)
    BY DEF ReplayInv, Follows
  <2>3. Logged("EXPANSION", "", node)
    BY <2>1, <2>2
  <2>4. PICK note : Logged("EXPANSION", note, node)
    BY <2>3, Zenon
  <2> QED
    BY <2>1, <2>4, LoggedReplay
<1>2. CASE ~BeginExpansion
  <2>1. ASSUME NEW k \in Nat, Lag(k) PROVE Lag(k)'
    BY <1>2, <2>1, OtherLag
  <2>2. CASE UNCHANGED <<history, events, phase>>
    BY <2>1, <2>2, SilentReplay
  <2>3. CASE \E target, note, n : Logged(target, note, n) /\ Announces(target, note)
    <3>1. PICK target, note, n : Logged(target, note, n) /\ Announces(target, note)
      BY <2>3
    <3>2. ASSUME NEW k \in Nat, Lag(k)
          PROVE  \/ k = iteration
                 \/ /\ k = iteration - 1
                    /\ \/ note \in {"reopened", "notes_prepared", "frontier_empty"}
                       \/ target = "FAILED" /\ phase \in {"SELECTION", "BACKTRACKING"}
      <4>1. pc \in Counted \cup Uncounted \cup Leaving \cup {"except"}
        BY <3>1 DEF TypeInv, TypeOK, ControlPoint, Announces, Counted, Uncounted,
                    Leaving, InExpansion, InEvaluation, InBackpropagation
      <4> QED
        BY <1>0, <3>1, <3>2, <4>1 DEF Lag, Announces, TERMINAL_PHASES
    <3>3. target # "EXPANSION"
      BY <3>1 DEF Announces
    <3> QED
      BY <2>1, <3>1, <3>2, <3>3, LoggedReplay
  <2> QED
    BY <1>2, <2>2, <2>3, OtherLog
<1> QED
  BY <1>1, <1>2

(***************************************************************************)
(* The iteration a replay puts on a phase envelope is the live one, or one *)
(* behind it between the start of an iteration and its expansion, whatever *)
(* the run did.                                                            *)
(***************************************************************************)
THEOREM ReplayLag == Spec => []ReplayLagsOnlyBeforeExpansion
<1>1. ReplayInv => ReplayLagsOnlyBeforeExpansion
  <2> SUFFICES ASSUME ReplayInv PROVE ReplayLagsOnlyBeforeExpansion
    OBVIOUS
  <2>1. Counts(Replayed, history)
    BY ReplayedCounts DEF ReplayInv
  <2>2. Follows(Replayed)
    BY <2>1 DEF ReplayInv
  <2> QED
    BY <2>2 DEF Follows, Placed, ReplayLagsOnlyBeforeExpansion
<1> QED
  BY <1>1, InitType, TypeStep, InitControl, FaultStep, InitReplay, ReplayStep, PTL
     DEF Spec

-----------------------------------------------------------------------------
(***************************************************************************)
(* Backpropagation.  A path from the root passes through exactly one child *)
(* of each of its nodes but the last, and through no child of any other.   *)
(***************************************************************************)
OneChild(l, n) ==
  IF n \in path[l] \ {l} THEN \E c \in Children(n) : Children(n) \cap path[l] = {c}
                         ELSE Children(n) \cap path[l] = {}

ChainInv == \A l, n \in Nodes : OneChild(l, n)

\* A new tree has the root alone and every path leads to it.
LEMMA InitChain == Init => ChainInv
<1> SUFFICES ASSUME Init PROVE ChainInv
  OBVIOUS
<1>1. Nodes = {Root} /\ path[Root] = {Root} /\ parent[Root] # Root
  BY DEF Init, TreeInit, Nodes, Root, NoNode
<1>2. Children(Root) = {}
  BY <1>1 DEF Children
<1> QED
  BY <1>1, <1>2 DEF ChainInv, OneChild

\* add_child() gives its parent one child more and leaves every other node's
\* children alone.
LEMMA AttachChain ==
  ASSUME TreeTypeOK, PathInv, ChainInv, NEW p \in Nodes, NEW text, AddChild(p, text),
         NEW m, m = size + 1
  PROVE  /\ ChainInv'
         /\ Nodes' = Nodes \cup {m} /\ m \notin Nodes
         /\ Children(m)' = {}
         /\ \A n \in Nodes : Children(n)' = IF n = p THEN Children(n) \cup {m}
                                                    ELSE Children(n)
<1>1. /\ Nodes' = Nodes \cup {m} /\ m \notin Nodes /\ NoNode # m
      /\ \A d \in Nodes : parent'[d] = parent[d] /\ path'[d] = path[d]
      /\ parent'[m] = p /\ path'[m] = path[p] \cup {m}
  <2>1. size \in Nat /\ size' = size + 1
    BY DEF TreeTypeOK, AddChild
  <2>2. 1..(size + 1) = 1..size \cup {m} /\ m \notin 1..size
    BY <2>1
  <2> QED
    BY <2>1, <2>2 DEF AddChild, Extend, Nodes, NoNode
<1>2. \A d \in Nodes : parent[d] # m /\ path[d] \subseteq Nodes
  BY <1>1 DEF TreeTypeOK
<1>3. \A n \in Nodes : Children(n)' = IF n = p THEN Children(n) \cup {m}
                                               ELSE Children(n)
  BY <1>1 DEF Children
<1>4. Children(m)' = {}
  BY <1>1, <1>2 DEF Children
<1>5. ASSUME NEW l \in Nodes, NEW n \in Nodes PROVE OneChild(l, n)'
  <2>1. OneChild(l, n) /\ m \notin path[l]
    BY <1>1, <1>2 DEF ChainInv
  <2>2. Children(n)' \cap path[l] = Children(n) \cap path[l]
    BY <1>3, <2>1
  <2>3. Children(n) \subseteq Children(n)'
    BY <1>3
  <2> QED
    BY <1>1, <2>1, <2>2, <2>3 DEF OneChild
<1>6. ASSUME NEW l \in Nodes PROVE OneChild(l, m)'
  BY <1>1, <1>2, <1>4 DEF OneChild
<1>7. OneChild(m, m)'
  BY <1>4 DEF OneChild
<1>8. ASSUME NEW n \in Nodes PROVE OneChild(m, n)'
  <2>1. OneChild(p, n) /\ p \in path[p]
    BY DEF ChainInv, PathInv
  <2>2. path'[m] = path[p] \cup {m} /\ m \notin Children(n) /\ n # m
    BY <1>1 DEF Children
  <2>3. CASE n = p
    <3>1. Children(n) \cap path[p] = {}
      BY <2>1, <2>3 DEF OneChild
    <3>2. Children(n)' \cap path'[m] = {m} /\ m \in Children(n)'
      BY <1>3, <2>2, <2>3, <3>1
    <3> QED
      BY <2>1, <2>2, <2>3, <3>2 DEF OneChild
  <2>4. CASE n # p
    <3>1. Children(n)' = Children(n) /\ Children(n)' \cap path'[m] = Children(n) \cap path[p]
      BY <1>3, <2>2, <2>4
    <3>2. n \in path'[m] \ {m} <=> n \in path[p] \ {p}
      BY <2>2, <2>4
    <3> QED
      BY <2>1, <3>1, <3>2 DEF OneChild
  <2> QED
    BY <2>3, <2>4
<1>9. ChainInv'
  BY <1>1, <1>5, <1>6, <1>7, <1>8 DEF ChainInv
<1> QED
  BY <1>1, <1>3, <1>4, <1>9

\* A step that leaves the shape of the tree leaves its chains and children.
LEMMA SameChain ==
  ASSUME ChainInv, UNCHANGED shapeVars
  PROVE  ChainInv' /\ Nodes' = Nodes /\ \A n : Children(n)' = Children(n)
<1>1. Nodes' = Nodes /\ path' = path /\ parent' = parent
  BY DEF shapeVars, Nodes
<1>2. \A n : Children(n)' = Children(n)
  BY <1>1 DEF Children
<1>3. ChainInv'
  BY <1>1, <1>2 DEF ChainInv, OneChild
<1> QED
  BY <1>1, <1>2, <1>3

(***************************************************************************)
(* Adding v to every node of the path of l adds v to the sum over the      *)
(* children of n exactly when n is on the path and is not its end.         *)
(***************************************************************************)
Added(f, h, l, v) ==
  \A d \in Nodes : f[d] \in Nat /\ h[d] = IF d \in path[l] THEN f[d] + v ELSE f[d]

\* Adding v to every node of a path adds v to the children's sum of each proper
\* ancestor of its leaf and to no other.
LEMMA PathTotal ==
  ASSUME TreeTypeOK, ChainInv, NEW l \in Nodes, NEW n \in Nodes, NEW f, NEW v \in Nat,
         NEW h, Added(f, h, l, v)
  PROVE  /\ Total(h, Children(n)) =
              IF n \in path[l] \ {l} THEN Total(f, Children(n)) + v
                                     ELSE Total(f, Children(n))
         /\ Total(f, Children(n)) \in Nat
<1> DEFINE C == Children(n)
<1>1. IsFiniteSet(C) /\ C \subseteq Nodes
  BY ChildrenFinite DEF Children
<1>2. \A c \in C : /\ f[c] \in Nat /\ f[c] \in Int /\ h[c] \in Int
                   /\ h[c] = IF c \in path[l] THEN f[c] + v ELSE f[c]
  BY <1>1 DEF Added
<1>3. OneChild(l, n)
  BY DEF ChainInv
<1>4. Total(f, C) \in Nat
  <2> HIDE DEF C
  <2>1. \A c \in C : f[c] \in Nat
    BY <1>2
  <2> QED
    BY <1>1, <2>1, TotalType
<1>5. CASE n \in path[l] \ {l}
  <2>1. PICK c \in C : C \cap path[l] = {c}
    BY <1>3, <1>5 DEF OneChild
  <2> HIDE DEF C
  <2>2. h[c] = f[c] + v /\ \A d \in C \ {c} : h[d] = f[d]
    BY <1>2, <2>1
  <2>3. Total(h, C) = Total(f, C) + (h[c] - f[c])
    <3>1. \A d \in C : f[d] \in Int /\ h[d] \in Int
      BY <1>2
    <3> QED
      BY <1>1, <2>2, <3>1, TotalChange
  <2>4. h[c] - f[c] = v
    BY <1>2, <2>2
  <2> QED
    BY <1>4, <1>5, <2>3, <2>4 DEF C
<1>6. CASE ~(n \in path[l] \ {l})
  <2>1. C \cap path[l] = {}
    BY <1>3, <1>6 DEF OneChild
  <2> HIDE DEF C
  <2>2. \A d \in C : h[d] = f[d]
    BY <1>2, <2>1
  <2>3. Total(h, C) = Total(f, C)
    BY <1>1, <2>2, TotalSame
  <2> QED
    BY <1>4, <1>6, <2>3 DEF C
<1> QED
  BY <1>5, <1>6

(***************************************************************************)
(* The value of one sample is at most ValueScale.                          *)
(***************************************************************************)
LEMMA ScaleMonotone ==
  ASSUME NEW a \in Nat, NEW b \in Nat, NEW c \in Nat, NEW d \in Nat, b <= c
  PROVE  a * b <= a * c /\ (a * b) * d <= (a * c) * d
<1>1. PICK e \in Nat : c = b + e
  <2>1. c - b \in Nat /\ c = b + (c - b)
    OBVIOUS
  <2> QED
    BY <2>1
<1>2. a * c = a * b + a * e /\ a * e \in Nat /\ a * b \in Nat /\ a * c \in Nat
  BY <1>1, ProductType
<1>3. (a * c) * d = (a * b) * d + (a * e) * d /\ (a * e) * d \in Nat
      /\ (a * b) * d \in Nat
  BY <1>2, ProductType
<1> QED
  BY <1>2, <1>3

\* shape() yields no value above the scale of the reward.
LEMMA ShapeBound ==
  ASSUME NEW d \in Nat, NEW s \in 0..ScoreScale,
         NEW c \in Critique \cup {NoCritique}
  PROVE  Shape(d, s, c) \in Nat /\ Shape(d, s, c) <= ValueScale
<1> DEFINE S == ScoreScale
           H == DepthHorizon
           E == EvaluationWeight
           C == CritiqueWeight
           D == DepthWeight
<1>1. S \in Nat /\ H \in Nat /\ E \in Nat /\ C \in Nat /\ D \in Nat /\ s \in Nat /\ s <= S
  BY TreeAssumption
<1>2. CritiqueTerm(c) \in Nat /\ CritiqueTerm(c) <= S
  <2>1. CASE c = NoCritique
    BY <1>1, <2>1 DEF CritiqueTerm
  <2>2. CASE c # NoCritique
    <3>1. c.severity \in 0..ScoreScale
      BY <2>2 DEF Critique
    <3> QED
      BY <1>1, <2>2, <3>1 DEF CritiqueTerm
  <2> QED
    BY <2>1, <2>2
<1>3. DepthTerm(d) \in Nat /\ DepthTerm(d) <= H
  BY <1>1 DEF DepthTerm
<1>4. TotalWeight = E + C + D /\ ValueScale = (S * H) * (E + C + D)
  BY DEF TotalWeight, ValueScale
<1>5. Shape(d, s, c) = IF RewardModel
                       THEN ((E * s) * H + (C * CritiqueTerm(c)) * H) + (D * S) * DepthTerm(d)
                       ELSE (s * H) * (E + C + D)
  BY <1>4 DEF Shape
<1> HIDE DEF S, H, E, C, D
<1>6. (E * s) * H <= (E * S) * H /\ (C * CritiqueTerm(c)) * H <= (C * S) * H
  BY <1>1, <1>2, ScaleMonotone
<1>7. (D * S) * DepthTerm(d) <= (D * S) * H
  <2>1. D * S \in Nat
    BY <1>1, ProductType
  <2> QED
    BY <1>1, <1>3, <2>1, ScaleMonotone
<1>8. (S * H) * (E + C + D) = ((E * S) * H + (C * S) * H) + (D * S) * H
  BY <1>1
<1>9. (s * H) * (E + C + D) <= (S * H) * (E + C + D)
  <2>1. s * H = H * s /\ S * H = H * S /\ E + C + D \in Nat
    BY <1>1
  <2>2. (H * s) * (E + C + D) <= (H * S) * (E + C + D)
    BY <1>1, <2>1, ScaleMonotone
  <2> QED
    BY <2>1, <2>2
<1>10. /\ (E * s) * H \in Nat /\ (C * CritiqueTerm(c)) * H \in Nat
       /\ (D * S) * DepthTerm(d) \in Nat /\ (E * S) * H \in Nat /\ (C * S) * H \in Nat
       /\ (D * S) * H \in Nat
  BY <1>1, <1>2, <1>3, ProductType
<1>11. Shape(d, s, c) <= ValueScale
  BY <1>4, <1>5, <1>6, <1>7, <1>8, <1>9, <1>10
<1> QED
  BY <1>11, ShapeType

(***************************************************************************)
(* The samples on their way: a batch waits for its verdicts, a value is    *)
(* the shaped verdict of its node, and no node has two.                    *)
(***************************************************************************)
Sample(n) == Shape(depth[n], score[n], critique[n])

Valuing == {"apply", "backpropagate", "propagate"}

Fresh(i) ==
  /\ valued[i].node # Root
  /\ valued[i].value = Sample(valued[i].node)
  /\ \A j \in DOMAIN valued : valued[j].node = valued[i].node => j = i

Emptied == children = <<>> /\ valued = <<>>

SampleInv ==
  /\ pc \in HasBatch => \A i \in DOMAIN children : children[i] # Root
  /\ pc = "apply" => \A i \in DOMAIN valued : valued[i].node = children[i]
  /\ pc \in Valuing => \A i \in DOMAIN valued : Fresh(i)
  /\ pc \in Leaving /\ error = "none" => Emptied

\* A thought just attached is pending and holds no sample yet.
LEMMA AttachSample ==
  ASSUME TypeInv, SampleInv, AttachCandidate
  PROVE  SampleInv'
<1>1. pc = "attach" /\ pc' = "attach" /\ children \in Seq(Nodes) /\ size \in Nat \ {0}
  BY DEF AttachCandidate, Goto, TypeInv, TypeOK, TreeTypeOK
<1>2. children' = children \/ children' = Append(children, size + 1)
  BY DEF AttachCandidate
<1>3. \A i \in DOMAIN children' : children'[i] # Root
  BY <1>1, <1>2 DEF SampleInv, HasBatch, Root
<1> QED
  BY <1>1, <1>3 DEF SampleInv, Valuing, Leaving

\* apply_evaluation() fixes the sample of one child of the batch and values it
\* once.
LEMMA VerdictSample ==
  ASSUME TypeInv, FrontierInv, SampleInv, ApplyVerdict, NEW child, child = Child
  PROVE  /\ SampleInv'
         /\ \E i \in DOMAIN children : child = children[i]
         /\ \A n \in Nodes \ {child} : Sample(n)' = Sample(n)
         /\ \E r : valued' = Append(valued, r) /\ r.node = child
<1>1. /\ pc = "apply" /\ pc' = "apply" /\ Len(valued) < Len(children)
      /\ ApplyEvaluation /\ UNCHANGED <<shapeVars, children>> /\ TreeTypeOK
      /\ children \in Seq(Nodes) /\ valued \in Seq([node : Nodes, value : Nat])
      /\ \A i \in DOMAIN children : Member(i)
      /\ \A i \in DOMAIN valued : Fresh(i) /\ valued[i].node = children[i]
  BY DEF ApplyVerdict, Goto, TypeInv, TypeOK, FrontierInv, BatchInv, HasBatch,
         SampleInv, Valuing
<1> DEFINE turn == Len(valued) + 1
<1>2. turn \in DOMAIN children /\ Child = children[turn] /\ Child \in Nodes
  BY <1>1 DEF Child
<1>3. child = Child
  OBVIOUS
<1>4. PICK c : /\ critique' = [critique EXCEPT ![child] = c]
               /\ valued' = Append(valued, [node |-> child,
                                            value |-> Shape(depth[child], Verdict.score, c)])
  BY <1>3 DEF ApplyVerdict
<1>5. /\ score'[child] = Verdict.score /\ critique'[child] = c /\ depth' = depth
      /\ \A n \in Nodes \ {child} : score'[n] = score[n] /\ critique'[n] = critique[n]
  BY <1>1, <1>2, <1>3, <1>4 DEF ApplyEvaluation, TreeTypeOK, shapeVars
<1>6. /\ \A n \in Nodes \ {child} : Sample(n)' = Sample(n)
      /\ Sample(child)' = Shape(depth[child], Verdict.score, c)
  BY <1>5 DEF Sample
<1>7. PICK r : /\ valued' = Append(valued, r)
               /\ r.node = child /\ r.value = Sample(child)'
  BY <1>4, <1>6
<1>8. /\ DOMAIN valued' = DOMAIN valued \cup {turn} /\ turn \notin DOMAIN valued
      /\ valued'[turn] = r
      /\ \A i \in DOMAIN valued : /\ valued'[i] = valued[i] /\ i \in DOMAIN children
                                  /\ valued[i].node \in Nodes
  BY <1>1, <1>7
<1>9. \A i \in DOMAIN valued : valued[i].node # child
  BY <1>1, <1>2, <1>3, <1>8 DEF Member
<1>10. child # Root
  BY <1>1, <1>2, <1>3 DEF SampleInv, HasBatch
<1>11. ASSUME NEW i \in DOMAIN valued' PROVE Fresh(i)'
  <2>1. CASE i \in DOMAIN valued
    <3>1. Fresh(i) /\ valued'[i] = valued[i] /\ valued[i].node \in Nodes \ {child}
      BY <1>1, <1>8, <1>9, <2>1
    <3>2. valued'[i].value = Sample(valued[i].node)'
      BY <1>6, <3>1 DEF Fresh
    <3>3. \A j \in DOMAIN valued' : valued'[j].node = valued'[i].node => j = i
      BY <1>7, <1>8, <1>9, <2>1, <3>1 DEF Fresh
    <3> QED
      BY <3>1, <3>2, <3>3 DEF Fresh, Sample
  <2>2. CASE i = turn
    <3>1. valued'[i].node = child /\ valued'[i].value = Sample(child)'
      BY <1>7, <1>8, <2>2
    <3>2. \A j \in DOMAIN valued' : valued'[j].node = valued'[i].node => j = i
      BY <1>8, <1>9, <2>2, <3>1
    <3> QED
      BY <1>10, <3>1, <3>2 DEF Fresh, Sample
  <2> QED
    BY <1>8, <2>1, <2>2
<1>12. \A i \in DOMAIN valued' : valued'[i].node = children'[i]
  BY <1>1, <1>2, <1>3, <1>7, <1>8
<1>13. SampleInv'
  BY <1>1, <1>11, <1>12 DEF SampleInv, HasBatch, Leaving
<1> QED
  BY <1>2, <1>3, <1>6, <1>7, <1>13

\* backpropagate() takes the first value off the batch and leaves every sample.
LEMMA PropagateSample ==
  ASSUME TypeInv, SampleInv, Backpropagate
  PROVE  SampleInv'
<1>1. /\ pc = "propagate" /\ pc' = "propagate" /\ valued' = Tail(valued) /\ valued # <<>>
      /\ UNCHANGED <<shapeVars, score, critique>>
      /\ valued \in Seq([node : Nodes, value : Nat])
      /\ \A i \in DOMAIN valued : Fresh(i)
  BY DEF Backpropagate, Goto, TypeInv, TypeOK, SampleInv, Valuing
<1>2. \A n : Sample(n)' = Sample(n)
  BY <1>1 DEF Sample, shapeVars
<1>3. \A i \in DOMAIN valued' : i + 1 \in DOMAIN valued /\ valued'[i] = valued[i + 1]
                                /\ i \in Nat
  BY <1>1
<1>4. ASSUME NEW i \in DOMAIN valued' PROVE Fresh(i)'
  <2>1. Fresh(i + 1) /\ valued'[i] = valued[i + 1]
    BY <1>1, <1>3
  <2>2. PICK n : n = valued[i + 1].node /\ valued'[i].value = Sample(n)'
    BY <1>2, <2>1 DEF Fresh
  <2>3. \A j \in DOMAIN valued' : valued'[j].node = valued'[i].node => j = i
    BY <1>3, <2>1 DEF Fresh
  <2> QED
    BY <2>1, <2>2, <2>3 DEF Fresh, Sample
<1> QED
  BY <1>1, <1>4 DEF SampleInv, HasBatch, Leaving

(***************************************************************************)
(* The other steps take the batch and its values as they are, or start     *)
(* from none.                                                              *)
(***************************************************************************)
LEMMA SampleStep ==
  TypeInv /\ FaultInv /\ FrontierInv /\ SampleInv /\ [Next]_vars => SampleInv'
<1> SUFFICES ASSUME TypeInv, FaultInv, FrontierInv, SampleInv, [Next]_vars
             PROVE  SampleInv'
  OBVIOUS
<1> USE DEF HasBatch, Valuing, Leaving, Handler
<1>0. /\ pc \in NoBatch => children = <<>>
      /\ pc \in BeforeVerdicts => valued = <<>>
  BY DEF FrontierInv, BatchInv, TypeInv, ControlInv
<1>1. CASE AttachCandidate
  BY <1>1, AttachSample
<1>2. CASE ApplyVerdict
  BY <1>2, VerdictSample
<1>3. CASE Backpropagate
  BY <1>3, PropagateSample
<1>4. CASE CritiqueFault \/ ShapeFault
  BY <1>4 DEF CritiqueFault, ShapeFault, Raise, SampleInv
<1>5. ASSUME pc' \notin HasBatch \cup Valuing, pc' \in Leaving => Emptied'
      PROVE  SampleInv'
  BY <1>5 DEF SampleInv
<1>6. CASE Start \/ LoopExit \/ CheckCancel \/ CheckDeadline \/ PollStopCondition
           \/ BeginIteration
  <2>1. pc \in NoBatch \cap BeforeVerdicts /\ UNCHANGED <<children, valued>>
    BY <1>6 DEF Start, LoopExit, CheckCancel, CheckDeadline, PollStopCondition,
                BeginIteration, NoBatch, BeforeVerdicts, localVars
  <2>2. pc' \notin HasBatch \cup Valuing
    BY <1>6, AdvanceOutcome DEF Start, LoopExit, CheckCancel, CheckDeadline,
       PollStopCondition, BeginIteration, Goto, Raise
  <2> QED
    BY <1>0, <1>5, <2>1, <2>2 DEF Emptied
<1>7. CASE FrontierEmpty \/ SelectRoot \/ SelectLeaf \/ PruneDepthCapped
           \/ GrantRevision \/ ReviseFault \/ PruneSaturated \/ Descend
  <2>1. pc \in NoBatch \cap BeforeVerdicts /\ UNCHANGED <<children, valued>>
    BY <1>7 DEF FrontierEmpty, SelectRoot, SelectLeaf, PruneDepthCapped, GrantRevision,
       ReviseFault, PruneSaturated, Descend, NoBatch, BeforeVerdicts, localVars
  <2>2. pc' \notin HasBatch \cup Valuing
    BY <1>7, AdvanceOutcome DEF FrontierEmpty, SelectRoot, SelectLeaf,
       PruneDepthCapped, GrantRevision, ReviseFault, PruneSaturated, Descend, Goto,
       Raise
  <2> QED
    BY <1>0, <1>5, <2>1, <2>2 DEF Emptied
<1>8. CASE AnnounceRevision \/ AnnounceNotes \/ BeginExpansion \/ DeadEnd
           \/ PruneDeadEnd \/ Settle
  <2>1. pc \in NoBatch \cap BeforeVerdicts /\ UNCHANGED <<children, valued>>
    BY <1>8 DEF AnnounceRevision, AnnounceNotes, BeginExpansion, DeadEnd, PruneDeadEnd,
       Settle, NoBatch, BeforeVerdicts, localVars
  <2>2. pc' \notin HasBatch \cup Valuing
    BY <1>8, AdvanceOutcome DEF AnnounceRevision, AnnounceNotes, BeginExpansion,
       DeadEnd, PruneDeadEnd, Settle, Goto
  <2> QED
    BY <1>0, <1>5, <2>1, <2>2 DEF Emptied
<1>9. CASE Generate \/ ExpansionDone \/ BeginEvaluation \/ CollectVerdicts
  <2>1. /\ UNCHANGED <<children, valued>> /\ valued = <<>>
        /\ children = <<>> \/ pc \in HasBatch
    BY <1>0, <1>9 DEF Generate, ExpansionDone, BeginEvaluation, CollectVerdicts,
       NoBatch, BeforeVerdicts, localVars
  <2>2. pc' \notin Leaving
    BY <1>9, AdvanceOutcome DEF Generate, ExpansionDone, BeginEvaluation,
       CollectVerdicts, Goto, Raise
  <2> QED
    BY <2>1, <2>2 DEF SampleInv
<1>10. CASE EvaluationDone \/ BeginBackpropagation \/ BackpropagationDone
  <2>1. /\ UNCHANGED <<shapeVars, score, critique>> /\ UNCHANGED valued /\ pc \in Valuing
    BY <1>10 DEF EvaluationDone, BeginBackpropagation, BackpropagationDone, treeVars,
                 localVars
  <2>2. \A i \in DOMAIN valued : Fresh(i)'
    <3>1. \A n : Sample(n)' = Sample(n)
      BY <2>1 DEF Sample, shapeVars
    <3>2. ASSUME NEW i \in DOMAIN valued PROVE Fresh(i)'
      <4>1. Fresh(i) /\ valued' = valued
        BY <2>1 DEF SampleInv
      <4>2. valued[i].value = Sample(valued[i].node)'
        BY <3>1, <4>1 DEF Fresh
      <4> QED
        BY <4>1, <4>2 DEF Fresh, Sample
    <3> QED
      BY <3>2
  <2>3. pc' \in {"backpropagate", "propagate", "settle", "except"}
    BY <1>10, AdvanceOutcome DEF EvaluationDone, BeginBackpropagation,
       BackpropagationDone, Goto
  <2> QED
    BY <2>1, <2>2, <2>3 DEF SampleInv
<1>11. CASE Except
  <2>1. pc' = "escaped" \/ (pc' = "exit" /\ error' # "none")
    BY <1>11, AdvanceOutcome DEF Except, FaultInv, ErrorInv
  <2> QED
    BY <2>1 DEF SampleInv
<1>12. CASE Exit \/ BestPath \/ BestPathStep
  <2>1. /\ pc \in Leaving /\ UNCHANGED <<children, valued, error>>
        /\ pc' \in Leaving \cup {"escaped"}
    BY <1>12, AdvanceOutcome DEF Exit, BestPath, BestPathStep, Goto, localVars
  <2> QED
    BY <2>1 DEF SampleInv, Emptied
<1>13. CASE Cancel \/ DeadlinePasses \/ UNCHANGED vars
  <2>1. /\ UNCHANGED <<shapeVars, score, critique>> /\ UNCHANGED <<children, valued>>
        /\ UNCHANGED <<pc, error>>
    BY <1>13 DEF Cancel, DeadlinePasses, vars, runVars, treeVars, localVars
  <2>2. \A i \in DOMAIN valued : Fresh(i) => Fresh(i)'
    BY <2>1 DEF Fresh, Sample, shapeVars
  <2> QED
    BY <2>1, <2>2 DEF SampleInv, Emptied
<1> QED
  BY <1>1, <1>2, <1>3, <1>4, <1>6, <1>7, <1>8, <1>9, <1>10, <1>11, <1>12, <1>13
     DEF Next, Controller, Terminated

(***************************************************************************)
(* The balance of a run that has not failed: every node holds its own      *)
(* sample, once it has been propagated, and those of its children.         *)
(***************************************************************************)
Pending == {children[i] : i \in DOMAIN children}
             \cup {valued[i].node : i \in DOMAIN valued}

Propagated(n) == n # Root /\ n \notin Pending

Scale(k) == ValueScale * k

Balanced(n) ==
  /\ visits[n] = (IF Propagated(n) THEN 1 ELSE 0) + Total(visits, Children(n))
  /\ value_sum[n] = (IF Propagated(n) THEN Sample(n) ELSE 0)
                      + Total(value_sum, Children(n))
  /\ value_sum[n] <= Scale(visits[n])

Sound == pc \in InLoop \cup {"start"} \/ (pc \in Leaving /\ error = "none")

BalanceInv == Sound => \A n \in Nodes : Balanced(n)

\* The scale of k visits grows by one reward's scale per visit.
LEMMA ScaleType == \A k \in Nat : Scale(k) \in Nat /\ Scale(k + 1) = Scale(k) + ValueScale
<1>1. ValueScale \in Nat
  <2>1. TotalWeight \in Nat /\ ScoreScale \in Nat /\ DepthHorizon \in Nat
    BY TreeAssumption DEF TotalWeight
  <2>2. ScoreScale * DepthHorizon \in Nat
    BY <2>1, ProductType
  <2> QED
    BY <2>1, <2>2, ProductType DEF ValueScale
<1> QED
  BY <1>1, ProductType DEF Scale

\* The root of a new tree has no visits and no children, so it is balanced.
LEMMA InitBalance == Init => SampleInv /\ BalanceInv
<1> SUFFICES ASSUME Init PROVE SampleInv /\ BalanceInv
  OBVIOUS
<1>1. /\ Nodes = {Root} /\ pc = "start" /\ visits[Root] = 0 /\ value_sum[Root] = 0
      /\ parent[Root] # Root
  BY DEF Init, TreeInit, Nodes, Root, NoNode
<1>2. Children(Root) = {}
  BY <1>1 DEF Children
<1>3. Total(visits, Children(Root)) = 0 /\ Total(value_sum, Children(Root)) = 0
  BY <1>2, TotalEmpty
<1>4. Balanced(Root)
  BY <1>1, <1>3, ScaleType DEF Balanced, Propagated
<1> QED
  BY <1>1, <1>4 DEF SampleInv, BalanceInv, HasBatch, Valuing, Leaving

(***************************************************************************)
(* A step that touches neither the tree's sums nor what is pending.        *)
(***************************************************************************)
LEMMA SameBalance ==
  ASSUME UNCHANGED <<shapeVars, statVars>>, NEW n \in Nodes, Balanced(n),
         Pending' = Pending, Propagated(n) => Sample(n)' = Sample(n)
  PROVE  Balanced(n)'
<1>1. Children(n)' = Children(n) /\ visits' = visits /\ value_sum' = value_sum
  BY DEF shapeVars, statVars, Children, Nodes
<1>2. Propagated(n)' <=> Propagated(n)
  BY DEF Propagated
<1> QED
  BY <1>1, <1>2 DEF Balanced

(***************************************************************************)
(* A fresh child brings nothing and is pending.                            *)
(***************************************************************************)
LEMMA AttachBalance ==
  ASSUME TypeInv, FrontierInv, ChainInv, SampleInv, BalanceInv, AttachCandidate
  PROVE  BalanceInv'
<1>1. /\ pc = "attach" /\ pc' = "attach" /\ UNCHANGED valued /\ valued = <<>>
      /\ TreeTypeOK /\ node \in Nodes /\ children \in Seq(Nodes) /\ PathInv
      /\ \A n \in Nodes : Balanced(n)
  BY DEF AttachCandidate, Goto, TypeInv, TypeOK, ControlInv, AtNode, BeforeVerdicts,
         FrontierInv, BalanceInv, Sound, InLoop, InExpansion
<1> DEFINE text == Strip[Head(candidates)]
<1>2. CASE Rejected(text)
  <2>1. UNCHANGED <<shapeVars, statVars, score, critique>> /\ UNCHANGED children
    BY <1>2 DEF AttachCandidate, treeVars
  <2>2. Pending' = Pending /\ Nodes' = Nodes /\ \A n : Sample(n)' = Sample(n)
    BY <1>1, <2>1 DEF Pending, Sample, shapeVars, Nodes
  <2> QED
    BY <1>1, <2>1, <2>2, SameBalance DEF BalanceInv
<1>3. CASE ~Rejected(text)
  <2>1. PICK m : m = size + 1
    OBVIOUS
  <2>2. AddChild(node, text) /\ children' = Append(children, m)
    BY <1>3, <2>1 DEF AttachCandidate
  <2> HIDE DEF text
  <2>3. PICK p \in Nodes : p = node
    BY <1>1
  <2>4. /\ Nodes' = Nodes \cup {m} /\ m \notin Nodes /\ Children(m)' = {}
        /\ \A n \in Nodes : Children(n)' = IF n = p THEN Children(n) \cup {m}
                                                    ELSE Children(n)
    BY <1>1, <2>1, <2>2, <2>3, AttachChain
  <2>5. /\ \A n \in Nodes : /\ visits'[n] = visits[n] /\ value_sum'[n] = value_sum[n]
                            /\ depth'[n] = depth[n] /\ score'[n] = score[n]
                            /\ critique'[n] = critique[n]
                            /\ visits[n] \in Nat /\ value_sum[n] \in Nat
        /\ visits'[m] = 0 /\ value_sum'[m] = 0
    <3>1. size \in Nat /\ m \in 1..(size + 1) /\ ~(m <= size)
      BY <1>1, <2>1 DEF TreeTypeOK
    <3>2. \A n \in Nodes : n \in 1..(size + 1) /\ n <= size
      BY <3>1 DEF Nodes
    <3> QED
      BY <1>1, <2>2, <3>1, <3>2 DEF AddChild, Extend, TreeTypeOK
  <2>6. Pending' = Pending \cup {m}
    <3>1. /\ DOMAIN children' = DOMAIN children \cup {Len(children) + 1}
          /\ children'[Len(children) + 1] = m
          /\ \A i \in DOMAIN children : children'[i] = children[i]
      BY <1>1, <2>2
    <3> QED
      BY <1>1, <3>1 DEF Pending
  <2>7. ASSUME NEW f, NEW h, NEW n \in Nodes, \A d \in Nodes : f[d] \in Nat /\ h[d] = f[d],
               h[m] = 0, NEW C, C = Children(n)'
        PROVE  Total(h, C) = Total(f, Children(n))
    <3>1. IsFiniteSet(Children(n)) /\ Children(n) \subseteq Nodes
      BY <1>1, ChildrenFinite DEF Children
    <3>2. PICK B : B = Children(n)
      OBVIOUS
    <3>3. Total(h, B) = Total(f, B) /\ Total(f, B) \in Nat
      <4>1. \A d \in B : f[d] \in Nat /\ h[d] = f[d]
        BY <2>7, <3>1, <3>2
      <4> QED
        BY <3>1, <3>2, <4>1, TotalSame, TotalType
    <3>4. Total(h, B \cup {m}) = 0 + Total(h, B)
      <4>1. m \notin B /\ \A d \in B \cup {m} : h[d] \in Int
        BY <2>4, <2>7, <3>1, <3>2
      <4> QED
        BY <2>7, <3>1, <3>2, <4>1, TotalAdd
    <3>5. C = B \/ C = B \cup {m}
      BY <2>4, <2>7, <3>2
    <3>6. Total(h, B \cup {m}) = Total(f, B)
      BY <3>3, <3>4
    <3> QED
      BY <3>2, <3>3, <3>5, <3>6, Zenon
  <2>8. ASSUME NEW n \in Nodes PROVE Balanced(n)'
    <3>1. Balanced(n) /\ n # m
      BY <1>1, <2>4
    <3>2. (Propagated(n)' <=> Propagated(n)) /\ Sample(n)' = Sample(n)
      BY <2>5, <2>6, <3>1 DEF Propagated, Sample
    <3>3. PICK C : C = Children(n)'
      OBVIOUS
    <3>4. PICK v, w : v = visits' /\ w = value_sum'
      OBVIOUS
    <3>5. Total(v, C) = Total(visits, Children(n))
      BY <2>5, <2>7, <3>3, <3>4
    <3>6. Total(w, C) = Total(value_sum, Children(n))
      BY <2>5, <2>7, <3>3, <3>4
    <3>7. visits'[n] = visits[n] /\ value_sum'[n] = value_sum[n]
      BY <2>5
    <3> QED
      BY <3>1, <3>2, <3>3, <3>4, <3>5, <3>6, <3>7 DEF Balanced, Scale
  <2>9. Balanced(m)'
    <3>1. Total(visits, Children(m))' = 0 /\ Total(value_sum, Children(m))' = 0
      BY <2>4, TotalEmpty
    <3>2. ~Propagated(m)'
      BY <2>6 DEF Propagated
    <3>3. Scale(0) \in Nat
      BY ScaleType
    <3> QED
      BY <2>5, <3>1, <3>2, <3>3 DEF Balanced, Scale
  <2> QED
    BY <2>4, <2>8, <2>9 DEF BalanceInv
<1> QED
  BY <1>2, <1>3

(***************************************************************************)
(* A verdict changes the sample of a pending node only.                    *)
(***************************************************************************)
LEMMA VerdictBalance ==
  ASSUME TypeInv, FrontierInv, SampleInv, BalanceInv, ApplyVerdict
  PROVE  BalanceInv'
<1>1. /\ pc = "apply" /\ UNCHANGED <<shapeVars, statVars>> /\ UNCHANGED children
      /\ \A n \in Nodes : Balanced(n)
      /\ valued \in Seq([node : Nodes, value : Nat])
  BY DEF ApplyVerdict, BalanceInv, Sound, InLoop, InEvaluation, TypeInv, TypeOK
<1>2. PICK child : child = Child
  OBVIOUS
<1>3. /\ \E i \in DOMAIN children : child = children[i]
      /\ \A n \in Nodes \ {child} : Sample(n)' = Sample(n)
      /\ \E r : valued' = Append(valued, r) /\ r.node = child
  BY <1>2, VerdictSample
<1>4. Pending' = Pending /\ child \in Pending
  <2>1. PICK r : valued' = Append(valued, r) /\ r.node = child
    BY <1>3
  <2>2. /\ DOMAIN valued' = DOMAIN valued \cup {Len(valued) + 1}
        /\ valued'[Len(valued) + 1] = r
        /\ \A i \in DOMAIN valued : valued'[i] = valued[i]
    BY <1>1, <2>1
  <2>3. {valued'[i].node : i \in DOMAIN valued'}
          = {valued[i].node : i \in DOMAIN valued} \cup {child}
    BY <2>1, <2>2
  <2> QED
    BY <1>1, <1>3, <2>3 DEF Pending
<1>5. \A n \in Nodes : Propagated(n) => Sample(n)' = Sample(n)
  BY <1>3, <1>4 DEF Propagated
<1>6. Nodes' = Nodes
  BY <1>1 DEF shapeVars, Nodes
<1> QED
  BY <1>1, <1>4, <1>5, <1>6, SameBalance DEF BalanceInv

(***************************************************************************)
(* One sample propagated: one visit and its value on every node of the     *)
(* path; the node it belongs to is no longer pending.                      *)
(***************************************************************************)
LEMMA PropagateBalance ==
  ASSUME TypeInv, FrontierInv, ChainInv, SampleInv, BalanceInv, Backpropagate
  PROVE  BalanceInv'
<1>1. /\ pc = "propagate" /\ valued # <<>> /\ valued' = Tail(valued)
      /\ RecordVisits(Head(valued).node, Head(valued).value)
      /\ UNCHANGED <<shapeVars, score, critique>> /\ UNCHANGED children
      /\ children = <<>> /\ TreeTypeOK /\ valued \in Seq([node : Nodes, value : Nat])
      /\ \A i \in DOMAIN valued : Fresh(i)
      /\ \A n \in Nodes : Balanced(n)
  BY DEF Backpropagate, TypeInv, TypeOK, FrontierInv, BatchInv, NoBatch, SampleInv,
         Valuing, BalanceInv, Sound, InLoop, InBackpropagation
<1>0. TreeTypeOK /\ valued \in Seq([node : Nodes, value : Nat])
  BY <1>1
<1>3. 1 \in DOMAIN valued /\ Head(valued) = valued[1]
  BY <1>1
<1>2. PICK l \in Nodes, v \in Nat : l = Head(valued).node /\ v = Head(valued).value
  <2>1. Head(valued) \in [node : Nodes, value : Nat]
    BY <1>0, <1>1, HeadTail
  <2> QED
    BY <1>3, <2>1
<1>4. l # Root /\ v = Sample(l)
  BY <1>1, <1>2, <1>3 DEF Fresh
<1>5. v <= ValueScale
  BY <1>1, <1>4, ShapeBound DEF Sample, TreeTypeOK
<1>6. l \in Pending /\ Pending' = Pending \ {l}
  <2>1. /\ DOMAIN valued' = {i \in Nat : i >= 1 /\ i + 1 \in DOMAIN valued}
        /\ \A i \in DOMAIN valued' : valued'[i] = valued[i + 1]
        /\ \A i \in DOMAIN valued : i \in Nat /\ (i # 1 => i - 1 \in DOMAIN valued')
    BY <1>1
  <2>2. \A i \in DOMAIN valued : valued[i].node = l <=> i = 1
    BY <1>1, <1>2, <1>3 DEF Fresh
  <2>3. {valued'[i].node : i \in DOMAIN valued'}
          = {valued[i].node : i \in DOMAIN valued} \ {l}
    <3>1. ASSUME NEW i \in DOMAIN valued'
          PROVE  \E j \in DOMAIN valued : valued[j].node = valued'[i].node
                                          /\ valued[j].node # l
      BY <2>1, <2>2
    <3>2. ASSUME NEW j \in DOMAIN valued, valued[j].node # l
          PROVE  \E i \in DOMAIN valued' : valued'[i].node = valued[j].node
      <4>1. j # 1
        BY <2>2, <3>2
      <4>2. PICK i \in DOMAIN valued' : i + 1 = j
        BY <2>1, <4>1
      <4> QED
        BY <2>1, <4>2
    <3> QED
      BY <3>1, <3>2
  <2>4. l \in {valued[i].node : i \in DOMAIN valued}
    BY <1>2, <1>3
  <2>5. Pending = {valued[i].node : i \in DOMAIN valued}
    BY <1>1 DEF Pending
  <2>6. Pending' = {valued'[i].node : i \in DOMAIN valued'}
    BY <1>1 DEF Pending
  <2> QED
    BY <2>3, <2>4, <2>5, <2>6
<1>7. /\ visits' = [d \in Nodes |-> IF d \in path[l] THEN visits[d] + 1 ELSE visits[d]]
      /\ value_sum' = [d \in Nodes |-> IF d \in path[l] THEN value_sum[d] + v
                                                        ELSE value_sum[d]]
  BY <1>1, <1>2 DEF RecordVisits
<1>8. /\ \A d \in Nodes : visits[d] \in Nat /\ value_sum[d] \in Nat
      /\ l \in path[l]
  BY <1>1 DEF TreeTypeOK, FrontierInv, PathInv
<1>9. ASSUME NEW n \in Nodes PROVE Balanced(n)'
  <2>1. Balanced(n) /\ Children(n)' = Children(n)
    BY <1>1 DEF Children, Nodes, shapeVars
  <2>2. Propagated(n)' <=> (Propagated(n) \/ n = l)
    BY <1>4, <1>6 DEF Propagated
  <2>3. ~Propagated(l)
    BY <1>6 DEF Propagated
  <2>4. Sample(n)' = Sample(n)
    BY <1>1 DEF Sample, shapeVars
  <2>5. /\ Total(visits, Children(n))' =
             IF n \in path[l] \ {l} THEN Total(visits, Children(n)) + 1
                                    ELSE Total(visits, Children(n))
        /\ Total(visits, Children(n)) \in Nat
    <3>1. PICK h : h = visits'
      OBVIOUS
    <3>2. Added(visits, h, l, 1)
      BY <1>7, <1>8, <3>1 DEF Added
    <3>3. /\ Total(h, Children(n)) =
               IF n \in path[l] \ {l} THEN Total(visits, Children(n)) + 1
                                      ELSE Total(visits, Children(n))
          /\ Total(visits, Children(n)) \in Nat
      BY <1>0, <3>2, PathTotal
    <3>4. Total(visits, Children(n))' = Total(h, Children(n))
      BY <2>1, <3>1
    <3> QED
      BY <3>3, <3>4
  <2>6. /\ Total(value_sum, Children(n))' =
             IF n \in path[l] \ {l} THEN Total(value_sum, Children(n)) + v
                                    ELSE Total(value_sum, Children(n))
        /\ Total(value_sum, Children(n)) \in Nat
    <3>1. PICK h : h = value_sum'
      OBVIOUS
    <3>2. Added(value_sum, h, l, v)
      BY <1>7, <1>8, <3>1 DEF Added
    <3>3. /\ Total(h, Children(n)) =
               IF n \in path[l] \ {l} THEN Total(value_sum, Children(n)) + v
                                      ELSE Total(value_sum, Children(n))
          /\ Total(value_sum, Children(n)) \in Nat
      BY <1>0, <3>2, PathTotal
    <3>4. Total(value_sum, Children(n))' = Total(h, Children(n))
      BY <2>1, <3>1
    <3> QED
      BY <3>3, <3>4
  <2>7. /\ visits'[n] = IF n \in path[l] THEN visits[n] + 1 ELSE visits[n]
        /\ value_sum'[n] = IF n \in path[l] THEN value_sum[n] + v ELSE value_sum[n]
    BY <1>7
  <2>8. visits'[n] = (IF Propagated(n)' THEN 1 ELSE 0) + Total(visits, Children(n))'
    <3>1. visits[n] = (IF Propagated(n) THEN 1 ELSE 0) + Total(visits, Children(n))
      BY <2>1 DEF Balanced
    <3> QED
      BY <1>8, <2>2, <2>3, <2>5, <2>7, <3>1
  <2>9. value_sum'[n] = (IF Propagated(n)' THEN Sample(n) ELSE 0)
                          + Total(value_sum, Children(n))'
    <3>1. value_sum[n] = (IF Propagated(n) THEN Sample(n) ELSE 0)
                           + Total(value_sum, Children(n))
      BY <2>1 DEF Balanced
    <3>2. Sample(n) \in Nat
      BY <1>1, ShapeType DEF Sample, TreeTypeOK
    <3> QED
      BY <1>4, <1>8, <2>2, <2>3, <2>6, <2>7, <3>1, <3>2
  <2>10. value_sum'[n] <= Scale(visits'[n])
    <3>1. value_sum[n] <= Scale(visits[n])
      BY <2>1 DEF Balanced
    <3>2. /\ Scale(visits[n]) \in Nat
          /\ Scale(visits[n] + 1) = Scale(visits[n]) + ValueScale
      BY <1>8, ScaleType
    <3>3. ValueScale \in Int
      BY TreeAssumption DEF ValueScale, TotalWeight
    <3> QED
      BY <1>5, <1>8, <2>7, <3>1, <3>2, <3>3
  <2> QED
    BY <2>4, <2>8, <2>9, <2>10 DEF Balanced, Scale
<1>10. Nodes' = Nodes
  BY <1>1 DEF shapeVars, Nodes
<1> QED
  BY <1>9, <1>10 DEF BalanceInv

(***************************************************************************)
(* Every other step leaves the sums and the samples alone, and a run that  *)
(* has failed never becomes sound again.                                   *)
(***************************************************************************)
LEMMA QuietBalance ==
  ASSUME BalanceInv, UNCHANGED <<shapeVars, statVars, score, critique>>,
         Pending' = Pending, Sound' => Sound
  PROVE  BalanceInv'
<1>1. Nodes' = Nodes /\ \A n : Sample(n)' = Sample(n)
  BY DEF shapeVars, Nodes, Sample
<1> QED
  BY <1>1, SameBalance DEF BalanceInv

\* Every step keeps the tree's chains, and the balance of every node of a sound
\* run.
LEMMA BalanceStep ==
  /\ TypeInv /\ FaultInv /\ FrontierInv /\ ChainInv /\ SampleInv /\ BalanceInv
  /\ [Next]_vars
  => ChainInv' /\ BalanceInv'
<1> SUFFICES ASSUME TypeInv, FaultInv, FrontierInv, ChainInv, SampleInv, BalanceInv,
                    [Next]_vars
             PROVE  ChainInv' /\ BalanceInv'
  OBVIOUS
<1> USE DEF Handler
<1>1. CASE AttachCandidate
  <2>1. ChainInv'
    <3> DEFINE text == Strip[Head(candidates)]
    <3>1. CASE Rejected(text)
      BY <1>1, <3>1, SameChain DEF AttachCandidate, treeVars
    <3>2. CASE ~Rejected(text)
      <4>1. AddChild(node, text) /\ node \in Nodes /\ TreeTypeOK /\ PathInv
        BY <1>1, <3>2 DEF AttachCandidate, TypeInv, TypeOK, ControlInv, AtNode, FrontierInv
      <4> HIDE DEF text
      <4> QED
        BY <4>1, AttachChain
    <3> QED
      BY <3>1, <3>2
  <2> QED
    BY <1>1, <2>1, AttachBalance
<1>2. CASE ApplyVerdict
  BY <1>2, VerdictBalance, SameChain DEF ApplyVerdict
<1>3. CASE Backpropagate
  BY <1>3, PropagateBalance, SameChain DEF Backpropagate
<1>4. CASE CritiqueFault \/ ShapeFault
  <2>1. ~Sound' /\ UNCHANGED shapeVars
    BY <1>4 DEF CritiqueFault, ShapeFault, Raise, Sound, Leaving, InLoop, InSelection,
       InExpansion, InEvaluation, InBackpropagation, InBacktracking
  <2> QED
    BY <2>1, SameChain DEF BalanceInv
<1>5. CASE EvaluationDone
  <2>1. /\ UNCHANGED <<shapeVars, statVars, score, critique>> /\ UNCHANGED valued
        /\ children' = <<>> /\ pc = "apply" /\ Len(valued) = Len(children)
    BY <1>5 DEF EvaluationDone, treeVars
  <2>2. /\ DOMAIN valued = DOMAIN children
        /\ \A i \in DOMAIN valued : valued[i].node = children[i]
    BY <2>1 DEF TypeInv, TypeOK, SampleInv
  <2>3. Pending' = Pending
    BY <2>1, <2>2 DEF Pending
  <2>4. Sound
    BY <2>1 DEF Sound, InLoop, InEvaluation
  <2> QED
    BY <2>1, <2>3, <2>4, QuietBalance, SameChain
<1>6. ASSUME UNCHANGED <<shapeVars, statVars, score, critique>>,
             UNCHANGED <<children, valued>>, Sound' => Sound
      PROVE  ChainInv' /\ BalanceInv'
  BY <1>6, QuietBalance, SameChain DEF Pending
<1> USE DEF treeVars, localVars
<1>7. CASE Start \/ LoopExit \/ CheckCancel \/ CheckDeadline \/ PollStopCondition
           \/ BeginIteration \/ FrontierEmpty \/ SelectRoot \/ SelectLeaf
  <2>1. Sound
    BY <1>7 DEF Start, LoopExit, CheckCancel, CheckDeadline, PollStopCondition,
       BeginIteration, FrontierEmpty, SelectRoot, SelectLeaf, Sound, InLoop, InSelection
  <2> QED
    BY <1>6, <1>7, <2>1 DEF Start, LoopExit, CheckCancel, CheckDeadline,
       PollStopCondition, BeginIteration, FrontierEmpty, SelectRoot, SelectLeaf
<1>8. CASE PruneDepthCapped \/ GrantRevision \/ ReviseFault \/ PruneSaturated
           \/ Descend \/ AnnounceRevision \/ AnnounceNotes \/ BeginExpansion
  <2>1. Sound
    BY <1>8 DEF PruneDepthCapped, GrantRevision, ReviseFault, PruneSaturated, Descend,
       AnnounceRevision, AnnounceNotes, BeginExpansion, Sound, InLoop, InSelection,
       InBacktracking
  <2> QED
    BY <1>6, <1>8, <2>1 DEF PruneDepthCapped, GrantRevision, ReviseFault,
       PruneSaturated, Descend, AnnounceRevision, AnnounceNotes, BeginExpansion
<1>9. CASE Generate \/ ExpansionDone \/ DeadEnd \/ PruneDeadEnd \/ BeginEvaluation
           \/ CollectVerdicts \/ BeginBackpropagation \/ BackpropagationDone \/ Settle
  <2>1. Sound
    BY <1>9 DEF Generate, ExpansionDone, DeadEnd, PruneDeadEnd, BeginEvaluation,
       CollectVerdicts, BeginBackpropagation, BackpropagationDone, Settle, Sound,
       InLoop, InExpansion, InEvaluation, InBackpropagation, InBacktracking
  <2> QED
    BY <1>6, <1>9, <2>1 DEF Generate, ExpansionDone, DeadEnd, PruneDeadEnd,
       BeginEvaluation, CollectVerdicts, BeginBackpropagation, BackpropagationDone,
       Settle
<1>10. CASE Except
  <2>1. ~Sound'
    <3>1. pc' = "escaped" \/ (pc' = "exit" /\ error' # "none")
      BY <1>10, AdvanceOutcome DEF Except, FaultInv, ErrorInv
    <3> QED
      BY <3>1 DEF Sound, Leaving, InLoop, InSelection, InExpansion, InEvaluation,
         InBackpropagation, InBacktracking
  <2> QED
    BY <1>6, <1>10, <2>1 DEF Except
<1>11. CASE Exit \/ BestPath \/ BestPathStep
  <2>1. Sound' => Sound
    <3>1. /\ pc \in Leaving /\ UNCHANGED error /\ pc' \in Leaving \cup {"escaped"}
      BY <1>11, AdvanceOutcome DEF Exit, BestPath, BestPathStep, Goto, Leaving
    <3> QED
      BY <3>1 DEF Sound, Leaving, InLoop, InSelection, InExpansion, InEvaluation,
         InBackpropagation, InBacktracking
  <2> QED
    BY <1>6, <1>11, <2>1 DEF Exit, BestPath, BestPathStep
<1>12. CASE Cancel \/ DeadlinePasses \/ UNCHANGED vars
  <2>1. Sound' => Sound
    BY <1>12 DEF Cancel, DeadlinePasses, vars, runVars, Sound
  <2> QED
    BY <1>6, <1>12, <2>1 DEF Cancel, DeadlinePasses, vars, runVars
<1> QED
  BY <1>1, <1>2, <1>3, <1>4, <1>5, <1>7, <1>8, <1>9, <1>10, <1>11, <1>12
     DEF Next, Controller, Terminated

(***************************************************************************)
(* Backpropagation loses and duplicates nothing, for every tree, reward    *)
(* model and order of verdicts: between iterations, and in the result of a *)
(* run that did not fail, visits and values add up at every node.          *)
(***************************************************************************)
THEOREM SamplesConserved == Spec => []Conservation
<1>1. TypeInv /\ FrontierInv /\ SampleInv /\ BalanceInv => Conservation
  <2> SUFFICES ASSUME TypeInv, FrontierInv, SampleInv, BalanceInv,
                      pc \in {"loop", "done"}, error = "none", NEW n \in Nodes
               PROVE  LET own == n # Root IN
                      /\ visits[n] = (IF own THEN 1 ELSE 0) + Sum(visits, Children(n))
                      /\ value_sum[n] =
                           (IF own THEN Shape(depth[n], score[n], critique[n]) ELSE 0)
                             + Sum(value_sum, Children(n))
                      /\ value_sum[n] <= ValueScale * visits[n]
    BY DEF Conservation
  <2>1. Emptied
    BY DEF TypeInv, ControlInv, BeforeVerdicts, FrontierInv, BatchInv, NoBatch,
           SampleInv, Leaving, Emptied
  <2>2. Propagated(n) <=> n # Root
    BY <2>1 DEF Propagated, Pending, Emptied
  <2>3. Balanced(n)
    BY DEF BalanceInv, Sound, InLoop, InSelection, Leaving
  <2>4. /\ Sum(visits, Children(n)) = Total(visits, Children(n))
        /\ Sum(value_sum, Children(n)) = Total(value_sum, Children(n))
    BY DEF Sum, Total
  <2> QED
    BY <2>2, <2>3, <2>4 DEF Balanced, Sample, Scale
<1> QED
  BY <1>1, InitType, TypeStep, InitControl, FaultStep, InitFrontier, FrontierStep,
     InitChain, InitBalance, SampleStep, BalanceStep, PTL DEF Spec

-----------------------------------------------------------------------------
(***************************************************************************)
(* The metrics of a run.  First the records of one kind in the history.    *)
(***************************************************************************)
OfKind(K) == {i \in DOMAIN history : history[i] \in K}

Number(K) == Cardinality(OfKind(K))

\* One more record counts for the kinds it is of.
LEMMA KindRecord ==
  ASSUME history \in Seq(HistoryRecord), NEW K, NEW r, history' = Append(history, r)
  PROVE  /\ Number(K) \in Nat
         /\ r \in K => Number(K)' = Number(K) + 1
         /\ r \notin K => Number(K)' = Number(K)
<1> DEFINE S == OfKind(K)
           T == OfKind(K)'
           last == Len(history) + 1
<1>1. /\ DOMAIN history = 1..Len(history) /\ Len(history) \in Nat
      /\ DOMAIN history' = DOMAIN history \cup {last} /\ last \notin DOMAIN history
      /\ \A i \in DOMAIN history : history'[i] = history[i]
      /\ history'[last] = r
  OBVIOUS
<1>2. /\ T = (IF r \in K THEN S \cup {last} ELSE S)
      /\ last \notin S /\ S \subseteq 1..Len(history)
  BY <1>1 DEF OfKind
<1>3. IsFiniteSet(S)
  <2>1. IsFiniteSet(1..Len(history))
    BY <1>1, FS_Interval
  <2> HIDE DEF S
  <2> QED
    BY <1>2, <2>1, FS_Subset
<1>4. Cardinality(S) \in Nat /\ Cardinality(S \cup {last}) = Cardinality(S) + 1
  BY <1>2, <1>3, FS_AddElement, FS_CardinalityType
<1>5. Number(K) = Cardinality(S) /\ Number(K)' = Cardinality(T)
  BY DEF Number
<1> QED
  BY <1>2, <1>4, <1>5

Opening == {r \in HistoryRecord : r.target = "EXPANSION"}
Judging == {r \in HistoryRecord : r.target = "EVALUATION"}
DeadEnding == {r \in HistoryRecord : r.target = "BACKTRACKING" /\ r.note # "reopened"}

(***************************************************************************)
(* An expansion is followed by an evaluation or a dead end, unless the run *)
(* is still in it or failed in it.                                         *)
(***************************************************************************)
Balances(o, j, d) ==
  /\ phase = "EXPANSION" => o = j + d + 1
  /\ phase \notin {"EXPANSION", "FAILED"} => o = j + d
  /\ phase = "FAILED" => o = j + d \/ o = j + d + 1

OpenInv ==
  /\ Number(Opening) \in Nat /\ Number(Judging) \in Nat /\ Number(DeadEnding) \in Nat
  /\ Balances(Number(Opening), Number(Judging), Number(DeadEnding))

\* A new run has recorded nothing.
LEMMA InitOpen == Init => OpenInv
<1> SUFFICES ASSUME Init PROVE OpenInv
  OBVIOUS
<1>1. history = <<>> /\ phase = "IDLE"
  BY DEF Init, MachineInit
<1>2. \A K : OfKind(K) = {}
  BY <1>1 DEF OfKind
<1>3. \A K : Number(K) = 0
  BY <1>2, FS_EmptySet DEF Number
<1> QED
  BY <1>1, <1>3 DEF OpenInv, Balances

(***************************************************************************)
(* A step records nothing, or one transition out of the current phase that *)
(* the balance allows.                                                     *)
(***************************************************************************)
LEMMA StepRecord ==
  ASSUME TypeInv, FaultInv, [Next]_vars
  PROVE  \/ UNCHANGED <<history, phase>>
         \/ \E r \in HistoryRecord :
              /\ history' = Append(history, r) /\ phase' = r.target
              /\ r.target \in TransitionTable[phase]
              /\ r.target = "BACKTRACKING" => (r.note # "reopened" <=> phase = "EXPANSION")
              /\ phase = "EXPANSION" => r.target \in {"EVALUATION", "BACKTRACKING", "FAILED"}
<1>1. history \in Seq(HistoryRecord) /\ history' \in Seq(HistoryRecord)
  <2>1. TypeInv'
    BY TypeStep
  <2> QED
    BY <2>1 DEF TypeInv, TypeOK, HistoryRecord
<1>2. ASSUME NEW target, NEW note, NEW n, Logged(target, note, n),
             target = "BACKTRACKING" => (note # "reopened" <=> phase = "EXPANSION"),
             phase = "EXPANSION" => target \in {"EVALUATION", "BACKTRACKING", "FAILED"}
      PROVE  \E r \in HistoryRecord :
               /\ history' = Append(history, r) /\ phase' = r.target
               /\ r.target \in TransitionTable[phase]
               /\ r.target = "BACKTRACKING" => (r.note # "reopened" <=> phase = "EXPANSION")
               /\ phase = "EXPANSION" => r.target \in {"EVALUATION", "BACKTRACKING", "FAILED"}
  <2>1. PICK r : /\ r = [source |-> phase, target |-> target, note |-> note]
                 /\ history' = Append(history, r)
    BY <1>2 DEF Logged
  <2>2. r = history'[Len(history) + 1] /\ Len(history) + 1 \in DOMAIN history'
    BY <1>1, <2>1
  <2>3. r \in HistoryRecord
    BY <1>1, <2>2
  <2>4. r.target = target /\ r.note = note
    BY <2>1
  <2>5. phase' = target /\ target \in TransitionTable[phase]
    BY <1>2 DEF Logged
  <2> QED
    BY <1>2, <2>1, <2>3, <2>4, <2>5
<1>3. CASE BeginExpansion
  <2>1. PICK note : Advance("EXPANSION", node, note, "generate")
    BY <1>3, Zenon DEF BeginExpansion
  <2>2. phase = "SELECTION"
    BY <1>3 DEF BeginExpansion, FaultInv, PhaseInv, InSelection
  <2>3. "EXPANSION" \in TransitionTable[phase]
    BY <2>2, Table
  <2>4. Logged("EXPANSION", note, node)
    BY <2>1, <2>3, AdvanceLog
  <2> QED
    BY <1>2, <2>2, <2>4
<1>4. CASE ~BeginExpansion
  <2>1. ASSUME NEW target, NEW note, NEW n, Logged(target, note, n), Announces(target, note)
        PROVE  /\ target = "BACKTRACKING" => (note # "reopened" <=> phase = "EXPANSION")
               /\ phase = "EXPANSION" => target \in {"EVALUATION", "BACKTRACKING", "FAILED"}
    BY <2>1 DEF Announces, FaultInv, PhaseInv, InSelection, InExpansion
  <2>2. \/ UNCHANGED <<history, events, phase>>
        \/ \E target, note, n : Logged(target, note, n) /\ Announces(target, note)
    BY <1>4, OtherLog
  <2>3. CASE UNCHANGED <<history, events, phase>>
    BY <2>3
  <2>4. CASE \E target, note, n : Logged(target, note, n) /\ Announces(target, note)
    <3>1. PICK target, note, n : Logged(target, note, n) /\ Announces(target, note)
      BY <2>4
    <3> QED
      BY <1>2, <2>1, <3>1
  <2> QED
    BY <2>2, <2>3, <2>4
<1> QED
  BY <1>3, <1>4

\* Every step keeps the balance.
LEMMA OpenStep ==
  TypeInv /\ FaultInv /\ OpenInv /\ [Next]_vars => OpenInv'
<1> SUFFICES ASSUME TypeInv, FaultInv, OpenInv, [Next]_vars PROVE OpenInv'
  OBVIOUS
<1>1. history \in Seq(HistoryRecord) /\ phase \in SearchPhase
  BY DEF TypeInv, TypeOK, HistoryRecord
<1>2. PICK o, j, d : o = Number(Opening) /\ j = Number(Judging) /\ d = Number(DeadEnding)
  OBVIOUS
<1>3. o \in Nat /\ j \in Nat /\ d \in Nat /\ Balances(o, j, d)
  BY <1>2 DEF OpenInv
<1>4. CASE UNCHANGED <<history, phase>>
  <2>1. \A K : Number(K)' = Number(K)
    BY <1>4, Zenon DEF Number, OfKind
  <2> QED
    BY <1>4, <2>1 DEF OpenInv, Balances
<1>5. ASSUME NEW r \in HistoryRecord, history' = Append(history, r), phase' = r.target,
             r.target \in TransitionTable[phase],
             r.target = "BACKTRACKING" => (r.note # "reopened" <=> phase = "EXPANSION"),
             phase = "EXPANSION" => r.target \in {"EVALUATION", "BACKTRACKING", "FAILED"}
      PROVE  OpenInv'
  <2>1. PICK p, q, e : p = Number(Opening)' /\ q = Number(Judging)' /\ e = Number(DeadEnding)'
    OBVIOUS
  <2>2. /\ p = IF r \in Opening THEN o + 1 ELSE o
        /\ q = IF r \in Judging THEN j + 1 ELSE j
        /\ e = IF r \in DeadEnding THEN d + 1 ELSE d
    BY <1>1, <1>2, <1>5, <2>1, KindRecord
  <2>3. /\ r \in Opening <=> r.target = "EXPANSION"
        /\ r \in Judging <=> r.target = "EVALUATION"
        /\ r \in DeadEnding <=> r.target = "BACKTRACKING" /\ r.note # "reopened"
    BY <1>5 DEF Opening, Judging, DeadEnding
  <2>4. /\ phase # "FAILED"
        /\ r.target = "EXPANSION" => phase = "SELECTION"
        /\ r.target = "EVALUATION" => phase = "EXPANSION"
        /\ r.target = "BACKTRACKING" => phase \in {"EXPANSION", "SELECTION"}
    BY <1>1, <1>5, Table DEF SearchPhase, TERMINAL_PHASES, ExternalStops
  <2>5. p \in Nat /\ q \in Nat /\ e \in Nat
    BY <1>3, <2>2
  <2>6. CASE r.target = "EXPANSION"
    BY <1>3, <1>5, <2>1, <2>2, <2>3, <2>4, <2>5, <2>6 DEF OpenInv, Balances
  <2>7. CASE r.target = "EVALUATION"
    BY <1>3, <1>5, <2>1, <2>2, <2>3, <2>4, <2>5, <2>7 DEF OpenInv, Balances
  <2>8. CASE r.target = "BACKTRACKING"
    BY <1>3, <1>5, <2>1, <2>2, <2>3, <2>4, <2>5, <2>8 DEF OpenInv, Balances
  <2>9. CASE r.target \notin {"EXPANSION", "EVALUATION", "BACKTRACKING"}
    BY <1>3, <1>5, <2>1, <2>2, <2>3, <2>4, <2>5, <2>9 DEF OpenInv, Balances
  <2> QED
    BY <2>6, <2>7, <2>8, <2>9
<1> QED
  BY <1>4, <1>5, StepRecord

-----------------------------------------------------------------------------
(***************************************************************************)
(* The root is no candidate: it is never accepted, every other thought has *)
(* a parent.                                                               *)
(***************************************************************************)
RootInv ==
  /\ status[Root] # "TERMINAL"
  /\ \A n \in Nodes \ {Root} : parent[n] \in Nodes

\* A new run has only the root.
LEMMA InitRoot == Init => RootInv
  BY DEF Init, TreeInit, RootInv, Root, Nodes

\* Only candidates are attached and judged.
LEMMA RootStep ==
  TypeInv /\ SampleInv /\ RootInv /\ [Next]_vars => RootInv'
<1> SUFFICES ASSUME TypeInv, SampleInv, RootInv, [Next]_vars PROVE RootInv'
  OBVIOUS
<1>0. TreeTypeOK /\ Root \in Nodes
  <2>1. TreeTypeOK
    BY DEF TypeInv, TypeOK
  <2>2. size \in Nat \ {0}
    BY <2>1 DEF TreeTypeOK
  <2> QED
    BY <2>1, <2>2 DEF Root, Nodes
<1>1. ASSUME UNCHANGED <<shapeVars, status>> PROVE RootInv'
  BY <1>1 DEF RootInv, shapeVars, Nodes
<1>2. CASE AttachCandidate
  <2>1. CASE UNCHANGED treeVars
    BY <1>1, <2>1 DEF treeVars
  <2>2. CASE ~ UNCHANGED treeVars
    <3>1. PICK text : AddChild(node, text) /\ pc = "attach"
      BY <1>2, <2>2 DEF AttachCandidate
    <3>2. node \in Nodes
      BY <3>1 DEF TypeInv, ControlInv, AtNode
    <3>3. PICK m : /\ m = size + 1 /\ Nodes' = Nodes \cup {m} /\ parent'[m] = node
                   /\ \A d \in Nodes : parent'[d] = parent[d]
      BY <1>0, <3>1, <3>2, AttachShape
    <3>4. status'[Root] = status[Root]
      BY <1>0, <3>1 DEF AddChild, Extend, Nodes, Root, TreeTypeOK
    <3>5. \A n \in Nodes' \ {Root} : parent'[n] \in Nodes'
      BY <3>2, <3>3 DEF RootInv
    <3> QED
      BY <3>4, <3>5 DEF RootInv
  <2> QED
    BY <2>1, <2>2
<1>3. CASE ApplyVerdict \/ CritiqueFault \/ ShapeFault
  <2>1. /\ pc = "apply" /\ Len(valued) < Len(children) /\ ApplyEvaluation
        /\ UNCHANGED shapeVars
    BY <1>3 DEF ApplyVerdict, CritiqueFault, ShapeFault
  <2>2. /\ children \in Seq(Nodes) /\ valued \in Seq([node : Nodes, value : Nat])
        /\ \A i \in DOMAIN children : children[i] # Root
    BY <2>1 DEF TypeInv, TypeOK, SampleInv, HasBatch
  <2>3. Len(valued) + 1 \in DOMAIN children
    BY <2>1, <2>2
  <2>4. Child # Root
    BY <2>2, <2>3 DEF Child
  <2>5. status'[Root] = status[Root]
    BY <1>0, <2>1, <2>4 DEF ApplyEvaluation, TreeTypeOK
  <2> QED
    BY <2>1, <2>5 DEF RootInv, shapeVars, Nodes
<1>4. CASE PruneDepthCapped \/ PruneSaturated \/ PruneDeadEnd
  <2>1. PruneSubtree(node) /\ UNCHANGED shapeVars
    BY <1>4 DEF PruneDepthCapped, PruneSaturated, PruneDeadEnd
  <2>2. status'[Root] \in {status[Root], "PRUNED"}
    BY <1>0, <2>1 DEF PruneSubtree
  <2> QED
    BY <2>1, <2>2 DEF RootInv, shapeVars, Nodes
<1>5. CASE Start \/ LoopExit \/ CheckCancel \/ CheckDeadline \/ PollStopCondition
           \/ BeginIteration \/ SelectRoot \/ FrontierEmpty \/ SelectLeaf
           \/ GrantRevision \/ ReviseFault \/ Descend \/ AnnounceRevision
           \/ AnnounceNotes \/ BeginExpansion \/ Generate \/ ExpansionDone \/ DeadEnd
  BY <1>1, <1>5 DEF Start, LoopExit, CheckCancel, CheckDeadline, PollStopCondition,
     BeginIteration, SelectRoot, FrontierEmpty, SelectLeaf, GrantRevision, ReviseFault,
     Descend, AnnounceRevision, AnnounceNotes, BeginExpansion, Generate, ExpansionDone,
     DeadEnd, treeVars
<1>6. CASE BeginEvaluation \/ CollectVerdicts \/ EvaluationDone
           \/ BeginBackpropagation \/ Backpropagate \/ BackpropagationDone \/ Settle
           \/ Except \/ Exit \/ BestPath \/ BestPathStep
  BY <1>1, <1>6 DEF BeginEvaluation, CollectVerdicts, EvaluationDone,
     BeginBackpropagation, Backpropagate, BackpropagationDone, Settle, Except, Exit,
     BestPath, BestPathStep, treeVars
<1>7. CASE Cancel \/ DeadlinePasses \/ UNCHANGED vars
  BY <1>1, <1>7 DEF Cancel, DeadlinePasses, vars, treeVars
<1> QED
  BY <1>2, <1>3, <1>4, <1>5, <1>6, <1>7 DEF Next, Controller, Terminated

-----------------------------------------------------------------------------
(***************************************************************************)
(* The last member of a set in creation order.  One of its members has all *)
(* the others before it, so the rank of the last place is taken; and the   *)
(* root has none before it.                                                *)
(***************************************************************************)
LEMMA LastInOrder ==
  ASSUME NEW m \in Nat, NEW S \in SUBSET (1..m), NEW n \in S, n # Root
  PROVE  /\ InOrder(S) # <<>>
         /\ InOrder(S)[Len(InOrder(S))] \in S \ {Root}
<1> DEFINE Before(x) == {y \in S : y < x}
           k == Cardinality(S)
<1>1. IsFiniteSet(S) /\ k \in Nat /\ k # 0
  <2>1. IsFiniteSet(1..m)
    BY FS_Interval
  <2>2. IsFiniteSet(S)
    BY <2>1, FS_Subset
  <2> QED
    BY <2>2, FS_CardinalityType, FS_EmptySet
<1>2. \A x \in S : IsFiniteSet(S \ {x}) /\ Cardinality(S \ {x}) = k - 1
  BY <1>1, FS_RemoveElement
<1>3. PICK top \in S : \A x \in S : x <= top
  <2> DEFINE K == {m - x : x \in S}
  <2>1. K \in SUBSET (0..m) /\ K # {}
    OBVIOUS
  <2>2. PICK j \in K : \A i \in K : j <= i
    <3> HIDE DEF K
    <3> QED
      BY <2>1, LeastOf
  <2>3. PICK top \in S : j = m - top
    BY <2>2
  <2>4. \A x \in S : m - x \in K /\ x \in Int /\ top \in Int
    BY <2>3
  <2>5. \A x \in S : m - top <= m - x
    <3> HIDE DEF K
    <3> QED
      BY <2>2, <2>3, <2>4
  <2> QED
    BY <2>3, <2>4, <2>5
<1>4. Before(top) = S \ {top}
  <2>1. \A x \in S : x \in Int
    OBVIOUS
  <2>2. \A x \in S : x < top <=> x # top
    BY <1>3, <2>1
  <2> QED
    BY <2>2
<1>5. Cardinality(Before(top)) = k - 1
  <2> HIDE DEF Before, k
  <2> QED
    BY <1>2, <1>3, <1>4
<1>6. PICK last : last = CHOOSE x \in S : Cardinality(Before(x)) = k - 1
  OBVIOUS
<1>7. last \in S /\ Cardinality(Before(last)) = k - 1
  <2> HIDE DEF Before, k
  <2> QED
    BY <1>3, <1>5, <1>6
<1>8. last # Root
  <2> SUFFICES ASSUME last = Root PROVE FALSE
    OBVIOUS
  <2>1. \A x \in S : ~(x < 1)
    OBVIOUS
  <2>2. Before(last) = {}
    BY <2>1 DEF Root
  <2>3. k - 1 = 0
    <3> HIDE DEF Before, k
    <3> QED
      BY <1>7, <2>2, FS_EmptySet
  <2>4. S \ {last} = {}
    <3> HIDE DEF k
    <3>1. IsFiniteSet(S \ {last}) /\ Cardinality(S \ {last}) = 0
      BY <1>2, <1>7, <2>3
    <3> QED
      BY <3>1, FS_EmptySet
  <2> QED
    BY <2>4
<1> DEFINE at(i) == CHOOSE x \in S : Cardinality(Before(x)) = i - 1
           order == [i \in 1..k |-> at(i)]
<1>9. InOrder(S) = order
  BY DEF InOrder
<1>10. Len(order) = k /\ order[k] = last
  <2>1. order[k] = last
    <3>1. k \in 1..k
      BY <1>1
    <3>2. at(k) = last
      BY <1>6
    <3> HIDE DEF k, at
    <3> QED
      BY <3>1, <3>2
  <2>2. PICK V : order \in [1..k -> V]
    <3>1. order \in [1..k -> {at(i) : i \in 1..k}]
      <4> HIDE DEF k, at
      <4> QED
        OBVIOUS
    <3> HIDE DEF order, k, at
    <3> QED
      BY <3>1
  <2>3. Len(order) = k
    <3> HIDE DEF order, k
    <3>1. order \in Seq(V)
      BY <1>1, <2>2
    <3> QED
      BY <1>1, <2>2, <3>1
  <2> QED
    BY <2>1, <2>3
<1>11. order # <<>>
  <2> HIDE DEF order
  <2>1. Len(order) # 0
    BY <1>1, <1>10
  <2> QED
    BY <2>1
<1> HIDE DEF order, k
<1> QED
  BY <1>7, <1>8, <1>9, <1>10, <1>11

-----------------------------------------------------------------------------
(***************************************************************************)
(* What the metrics read of a result: the history with a stamp for every   *)
(* record, and of every thought its depth, its status and its attempts.    *)
(***************************************************************************)
LEMMA ResultFacts ==
  ASSUME TypeInv, NEW R, R = LiveResult
  PROVE  /\ R.outcome = phase /\ R.best_path = InOrder(path[best])
         /\ DOMAIN R.tree = Nodes
         /\ \A n \in Nodes : /\ R.tree[n].depth = depth[n]
                             /\ R.tree[n].status = status[n]
                             /\ R.tree[n].metadata.attempts = attempts[n]
         /\ DOMAIN R.phase_history = 1..Len(history)
         /\ Len(R.phase_history) = Len(history)
         /\ \A i \in 1..Len(history) : /\ R.phase_history[i].transition = history[i]
                                       /\ R.phase_history[i].timestamp = Stamp(i)
<1>1. /\ history \in Seq(HistoryRecord)
      /\ DOMAIN history = 1..Len(history) /\ Len(history) \in Nat
  BY DEF TypeInv, TypeOK, HistoryRecord
<1>2. /\ R.outcome = phase /\ R.best_path = InOrder(path[best])
      /\ R.tree = [n \in Nodes |-> LiveNode(n)]
      /\ R.phase_history =
           [i \in DOMAIN history |-> [transition |-> history[i], timestamp |-> Stamp(i)]]
  BY DEF LiveResult
<1>3. \A n : /\ LiveNode(n).depth = depth[n] /\ LiveNode(n).status = status[n]
             /\ LiveNode(n).metadata.attempts = attempts[n]
  BY DEF LiveNode, Metadata
<1>4. Len(R.phase_history) = Len(history)
  <2>1. PICK V : R.phase_history \in [1..Len(history) -> V]
    <3>1. R.phase_history \in [1..Len(history) ->
             {[transition |-> history[i], timestamp |-> Stamp(i)] : i \in 1..Len(history)}]
      BY <1>1, <1>2
    <3> QED
      BY <3>1
  <2>2. R.phase_history \in Seq(V)
    BY <1>1, <2>1
  <2> QED
    BY <1>1, <2>1, <2>2
<1> QED
  BY <1>1, <1>2, <1>3, <1>4

(***************************************************************************)
(* The metrics, field by field.                                            *)
(***************************************************************************)
Measures(R, M) ==
  LET H == R.phase_history
      backtracks == {i \in DOMAIN H : H[i].transition.target = "BACKTRACKING"}
      revisions == {i \in backtracks : H[i].transition.note = "reopened"}
  IN  /\ M.outcome = R.outcome
      /\ M.wall_time = IF Len(H) < 2 THEN 0 ELSE H[Len(H)].timestamp - H[1].timestamp
      /\ R.outcome = "SUCCEEDED" /\ R.best_path # <<>> =>
           M.solution_depth = R.tree[R.best_path[Len(R.best_path)]].depth
      /\ M.structural_backtracks = Cardinality(backtracks \ revisions)
      /\ M.revision_backtracks = Cardinality(revisions)
      /\ M.revisions_granted =
           Sum([n \in DOMAIN R.tree |-> R.tree[n].metadata.attempts], DOMAIN R.tree)
      /\ M.status_counts["TERMINAL"] =
           Cardinality({n \in DOMAIN R.tree : R.tree[n].status = "TERMINAL"})
      /\ \A p \in {"EXPANSION", "EVALUATION"} :
           M.phase_counts[p] = Cardinality({i \in DOMAIN H : H[i].transition.target = p})
      /\ M.phase_seconds = [p \in SearchPhase |-> _phase_durations(R, p)]

\* from_result() computes these.
LEMMA MetricsFacts == \A R : Measures(R, from_result(R))
<1> SUFFICES ASSUME NEW R, NEW M, M = from_result(R) PROVE Measures(R, M)
  OBVIOUS
<1>1. "TERMINAL" \in NodeStatus /\ {"EXPANSION", "EVALUATION"} \subseteq SearchPhase
  BY DEF NodeStatus, SearchPhase
<1> QED
  BY <1>1 DEF from_result, Indices, IsRevisionNote, Measures

\* There are finitely many phases.
LEMMA PhasesFinite == IsFiniteSet(SearchPhase)
<1> DEFINE A == {"IDLE"} \cup {"SELECTION"} \cup {"EXPANSION"} \cup {"EVALUATION"}
                  \cup {"BACKPROPAGATION"} \cup {"BACKTRACKING"}
           B == {"SUCCEEDED"} \cup {"EXHAUSTED"} \cup {"FAILED"} \cup {"TIMED_OUT"}
                  \cup {"BUDGET_EXHAUSTED"} \cup {"CANCELLED"}
<1>1. IsFiniteSet(A) /\ IsFiniteSet(B)
  BY FS_Singleton, FS_Union, Zenon
<1>2. SearchPhase = A \cup B
  BY DEF SearchPhase, TERMINAL_PHASES
<1> HIDE DEF A, B
<1> QED
  BY <1>1, <1>2, FS_Union

(***************************************************************************)
(* Every interval belongs to the phase entered at its start, and together  *)
(* they reach from the first record to the last.                           *)
(***************************************************************************)
LEMMA TimeIsAttributed ==
  ASSUME TypeInv, NEW R, R = LiveResult, NEW M, M = from_result(R)
  PROVE  Sum(M.phase_seconds, SearchPhase) = M.wall_time
<1> DEFINE H == R.phase_history
           n == Len(history)
           at == [i \in 1..n |-> H[i].timestamp]
           lasts == [i \in DOMAIN H |-> IF i < Len(H) THEN H[i + 1].timestamp - H[i].timestamp
                                                      ELSE 0]
           kind == [i \in 1..n |-> history[i].target]
<1>0. Measures(R, M)
  BY MetricsFacts
<1>1. /\ n \in Nat /\ DOMAIN H = 1..n /\ Len(H) = n
      /\ \A i \in 1..n : H[i].transition = history[i] /\ H[i].timestamp = Stamp(i)
      /\ \A i \in 1..n : history[i].target \in SearchPhase
  <2>1. history \in Seq(HistoryRecord)
    BY DEF TypeInv, TypeOK, HistoryRecord
  <2>2. n \in Nat /\ \A i \in 1..n : history[i] \in HistoryRecord
    BY <2>1
  <2> QED
    BY <2>2, ResultFacts DEF HistoryRecord
<1>2. \A i \in 1..n : at[i] \in Int
  <2>1. \A i \in Nat : Stamp(i) \in Int
    BY DEF Stamp
  <2> QED
    BY <1>1, <2>1
<1>3. /\ \A i \in 1..n : lasts[i] = IF i < n THEN at[i + 1] - at[i] ELSE 0
      /\ \A i \in 1..n : lasts[i] \in Int
  <2>1. \A i \in 1..n : i < n => i + 1 \in 1..n
    BY <1>1
  <2>2. \A i \in 1..n : lasts[i] = IF i < n THEN at[i + 1] - at[i] ELSE 0
    BY <1>1, <2>1
  <2> HIDE DEF lasts, at, n
  <2> QED
    BY <1>2, <2>1, <2>2
<1>4. IsFiniteSet(1..n) /\ IsFiniteSet(SearchPhase)
  BY <1>1, FS_Interval, PhasesFinite
<1>5. Total(ByKind(lasts, 1..n, kind, SearchPhase), SearchPhase) = Total(lasts, 1..n)
  <2>1. \A i \in 1..n : kind[i] \in SearchPhase
    BY <1>1
  <2>2. PICK S : S = 1..n
    OBVIOUS
  <2>3. /\ IsFiniteSet(S) /\ IsFiniteSet(SearchPhase)
        /\ (\A i \in S : lasts[i] \in Int) /\ \A i \in S : kind[i] \in SearchPhase
    <3> HIDE DEF lasts, kind, n
    <3> QED
      BY <1>3, <1>4, <2>1, <2>2
  <2> HIDE DEF lasts, kind, n
  <2>4. Total(ByKind(lasts, S, kind, SearchPhase), SearchPhase) = Total(lasts, S)
    BY <2>3, TotalByKind
  <2> QED
    BY <2>2, <2>4
<1>6. \A p : _phase_durations(R, p) = Total(lasts, {i \in 1..n : kind[i] = p})
  <2> SUFFICES ASSUME NEW p
               PROVE  _phase_durations(R, p) = Total(lasts, {i \in 1..n : kind[i] = p})
    OBVIOUS
  <2>1. _phase_durations(R, p) =
          Total(lasts, {i \in DOMAIN H : H[i].transition.target = p})
    BY DEF _phase_durations, Indices, Sum, Total
  <2>2. {i \in DOMAIN H : H[i].transition.target = p} = {i \in 1..n : kind[i] = p}
    <3> HIDE DEF H, n
    <3> QED
      BY <1>1
  <2> HIDE DEF lasts, kind, n, H
  <2> QED
    BY <2>1, <2>2
<1>7. M.phase_seconds = ByKind(lasts, 1..n, kind, SearchPhase)
  <2>1. M.phase_seconds = [p \in SearchPhase |-> _phase_durations(R, p)]
    BY <1>0 DEF Measures
  <2> HIDE DEF lasts, kind, n
  <2> QED
    BY <1>6, <2>1 DEF ByKind
<1>8. Sum(M.phase_seconds, SearchPhase) = Total(lasts, 1..n)
  <2> HIDE DEF lasts, kind, n
  <2> QED
    BY <1>5, <1>7 DEF Sum, Total
<1>9. M.wall_time = IF n < 2 THEN 0 ELSE at[n] - at[1]
  <2>1. M.wall_time = IF Len(H) < 2 THEN 0 ELSE H[Len(H)].timestamp - H[1].timestamp
    BY <1>0 DEF Measures
  <2>2. n >= 2 => n \in 1..n /\ 1 \in 1..n
    BY <1>1
  <2>3. \A i \in 1..n : at[i] = H[i].timestamp
    OBVIOUS
  <2> HIDE DEF at, n, H
  <2> QED
    BY <1>1, <2>1, <2>2, <2>3
<1>10. CASE n = 0
  <2>1. 1..n = {}
    BY <1>10
  <2>2. Total(lasts, 1..n) = 0
    <3> HIDE DEF lasts, n
    <3> QED
      BY <2>1, TotalEmpty
  <2> HIDE DEF lasts, n
  <2> QED
    BY <1>8, <1>9, <1>10, <2>2
<1>11. CASE n # 0
  <2>1. n \in Nat \ {0}
    BY <1>1, <1>11
  <2>2. Total(lasts, 1..n) = at[n] - at[1]
    <3> HIDE DEF lasts, at, n
    <3> QED
      BY <1>2, <1>3, <2>1, Telescope
  <2>3. n = 1 => at[n] - at[1] = 0
    <3> SUFFICES ASSUME n = 1 PROVE at[n] - at[1] = 0
      OBVIOUS
    <3>1. at[1] \in Int
      BY <1>2
    <3> HIDE DEF at, n
    <3> QED
      BY <3>1
  <2> HIDE DEF lasts, at, n
  <2> QED
    BY <1>8, <1>9, <2>1, <2>2, <2>3
<1> QED
  BY <1>10, <1>11

(***************************************************************************)
(* The counts over a result are those over the run's own state.            *)
(***************************************************************************)
LEMMA CountsAgree ==
  ASSUME TypeInv, NEW R, R = LiveResult, NEW M, M = from_result(R)
  PROVE  /\ M.revision_backtracks = Announced /\ M.revisions_granted = Granted
         /\ M.structural_backtracks = Number(DeadEnding)
         /\ M.phase_counts["EXPANSION"] = Number(Opening)
         /\ M.phase_counts["EVALUATION"] = Number(Judging)
         /\ M.status_counts["TERMINAL"] = Cardinality(Terminals)
<1> DEFINE H == R.phase_history
           backtracks == {i \in DOMAIN H : H[i].transition.target = "BACKTRACKING"}
           revisions == {i \in backtracks : H[i].transition.note = "reopened"}
           Entering(p) == {i \in DOMAIN H : H[i].transition.target = p}
           granted == [n \in DOMAIN R.tree |-> R.tree[n].metadata.attempts]
           ended == {n \in DOMAIN R.tree : R.tree[n].status = "TERMINAL"}
<1>0. Measures(R, M)
  BY MetricsFacts
<1>1. /\ DOMAIN H = DOMAIN history
      /\ \A i \in DOMAIN history : H[i].transition = history[i] /\ history[i] \in HistoryRecord
  <2>1. history \in Seq(HistoryRecord) /\ DOMAIN history = 1..Len(history)
    BY DEF TypeInv, TypeOK, HistoryRecord
  <2>2. \A i \in DOMAIN history : history[i] \in HistoryRecord
    BY <2>1
  <2> QED
    BY <2>1, <2>2, ResultFacts
<1>2. /\ M.structural_backtracks = Cardinality(backtracks \ revisions)
      /\ M.revision_backtracks = Cardinality(revisions)
      /\ M.phase_counts["EXPANSION"] = Cardinality(Entering("EXPANSION"))
      /\ M.phase_counts["EVALUATION"] = Cardinality(Entering("EVALUATION"))
      /\ M.revisions_granted = Sum(granted, DOMAIN R.tree)
      /\ M.status_counts["TERMINAL"] = Cardinality(ended)
  BY <1>0 DEF Measures
<1>3. revisions = {i \in DOMAIN history : /\ history[i].target = "BACKTRACKING"
                                          /\ history[i].note = "reopened"}
  <2> HIDE DEF H
  <2> QED
    BY <1>1
<1>4. backtracks \ revisions = OfKind(DeadEnding)
  <2> HIDE DEF H
  <2> QED
    BY <1>1 DEF OfKind, DeadEnding
<1>5. Entering("EXPANSION") = OfKind(Opening) /\ Entering("EVALUATION") = OfKind(Judging)
  <2> HIDE DEF H
  <2> QED
    BY <1>1 DEF OfKind, Opening, Judging
<1>6. /\ TreeTypeOK /\ DOMAIN R.tree = Nodes
      /\ \A n \in Nodes : /\ R.tree[n].status = status[n]
                          /\ R.tree[n].metadata.attempts = attempts[n]
  BY ResultFacts DEF TypeInv, TypeOK
<1>7. ended = Terminals
  BY <1>6 DEF Terminals
<1>8. Sum(granted, DOMAIN R.tree) = Granted
  <2>1. \A n \in Nodes : granted[n] = attempts[n]
    BY <1>6
  <2>2. IsFiniteSet(Nodes)
    BY <1>6, NodesFinite
  <2> HIDE DEF granted
  <2>3. Total(granted, Nodes) = Total(attempts, Nodes)
    BY <2>1, <2>2, TotalSame
  <2> QED
    BY <1>6, <2>3 DEF Sum, Total, Granted
<1> HIDE DEF backtracks, revisions, Entering, granted, ended
<1> QED
  BY <1>2, <1>3, <1>4, <1>5, <1>7, <1>8 DEF Announced, Transitions, Number

(***************************************************************************)
(* The metrics tell what happened, for every configuration: the revisions  *)
(* counted in the history are those granted on the tree, every expansion   *)
(* was judged or is a structural backtrack, no time is lost, the reported  *)
(* depth is that of a thought below the root and within max_depth, and an  *)
(* accepted thought means success unless the run failed.                   *)
(***************************************************************************)
THEOREM MetricsTellTheRun == Spec => []MetricsAgree
<1>1. /\ TypeInv /\ FaultInv /\ FrontierInv /\ ExpansionInv /\ AcceptInv
      /\ RevisionInv /\ OpenInv /\ RootInv
      => MetricsAgree
  <2> SUFFICES ASSUME TypeInv, FaultInv, FrontierInv, ExpansionInv, AcceptInv,
                      RevisionInv, OpenInv, RootInv, pc = "done",
                      NEW M, M = from_result(LiveResult)
               PROVE
        LET open == M.phase_counts["EXPANSION"] - M.phase_counts["EVALUATION"]
                      - M.structural_backtracks
        IN  /\ M.revision_backtracks = M.revisions_granted
            /\ open = 0 \/ (open = 1 /\ M.outcome = "FAILED")
            /\ Sum(M.phase_seconds, SearchPhase) = M.wall_time
            /\ M.outcome = "SUCCEEDED" => M.solution_depth \in 1..MaxDepth
            /\ M.status_counts["TERMINAL"] > 0 => M.outcome \in {"SUCCEEDED", "FAILED"}
    BY DEF MetricsAgree
  <2>0. PICK R : R = LiveResult /\ M = from_result(R)
    OBVIOUS
  <2>1. Measures(R, M)
    BY <2>0, MetricsFacts
  <2>2. M.revision_backtracks = M.revisions_granted
    BY <2>0, CountsAgree DEF RevisionInv, Unannounced
  <2>3. M.outcome = phase
    <3>1. M.outcome = R.outcome
      BY <2>1 DEF Measures
    <3>2. R.outcome = phase
      BY <2>0, ResultFacts
    <3> QED
      BY <3>1, <3>2
  <2>4. PICK o, j, d : /\ o = M.phase_counts["EXPANSION"]
                       /\ j = M.phase_counts["EVALUATION"]
                       /\ d = M.structural_backtracks
    OBVIOUS
  <2>5. o \in Nat /\ j \in Nat /\ d \in Nat /\ Balances(o, j, d)
    BY <2>0, <2>4, CountsAgree DEF OpenInv
  <2>6. phase # "EXPANSION"
    BY DEF FaultInv, PhaseInv, TERMINAL_PHASES
  <2>7. (o - j) - d = 0 \/ ((o - j) - d = 1 /\ phase = "FAILED")
    BY <2>5, <2>6 DEF Balances
  <2>8. Sum(M.phase_seconds, SearchPhase) = M.wall_time
    BY <2>0, TimeIsAttributed
  <2>9. ASSUME phase = "SUCCEEDED" PROVE M.solution_depth \in 1..MaxDepth
    <3>1. best \in Terminals
      BY <2>9 DEF AcceptInv, ResultInv, Leaving, BestTerminal
    <3>2. /\ best \in Nodes /\ best # Root /\ best \in path[best]
          /\ path[best] \in SUBSET Nodes
      BY <3>1 DEF Terminals, RootInv, FrontierInv, PathInv, TypeInv, TypeOK, TreeTypeOK
    <3>3. size \in Nat /\ Nodes = 1..size
      BY DEF TypeInv, TypeOK, TreeTypeOK, Nodes
    <3>4. PICK last : /\ InOrder(path[best]) # <<>> /\ last \in path[best] \ {Root}
                      /\ last = InOrder(path[best])[Len(InOrder(path[best]))]
      BY <3>2, <3>3, LastInOrder
    <3>5. M.solution_depth = depth[last]
      <4>1. R.outcome = phase /\ R.best_path = InOrder(path[best])
            /\ R.tree[last].depth = depth[last]
        BY <2>0, <3>2, <3>4, ResultFacts
      <4>2. R.outcome = "SUCCEEDED" /\ R.best_path # <<>> =>
              M.solution_depth = R.tree[R.best_path[Len(R.best_path)]].depth
        BY <2>1 DEF Measures
      <4> QED
        BY <2>9, <3>4, <4>1, <4>2
    <3>6. parent[last] \in Nodes /\ depth[parent[last]] \in Nat
      BY <3>2, <3>4 DEF RootInv, TypeInv, TypeOK, TreeTypeOK
    <3>7. depth[last] = depth[parent[last]] + 1 /\ depth[last] <= MaxDepth
      BY <3>2, <3>4, <3>6 DEF ExpansionInv, ChildInv, Distinct
    <3> QED
      BY <3>5, <3>6, <3>7, ConfigAssumption
  <2>10. ASSUME M.status_counts["TERMINAL"] > 0 PROVE phase \in {"SUCCEEDED", "FAILED"}
    <3>1. Terminals # {}
      BY <2>0, <2>10, CountsAgree, FS_EmptySet
    <3> QED
      BY <3>1 DEF AcceptInv, ResultInv, Leaving
  <2> QED
    BY <2>2, <2>3, <2>4, <2>7, <2>8, <2>9, <2>10
<1> QED
  BY <1>1, InitType, TypeStep, InitControl, FaultStep, InitFrontier, FrontierStep,
     InitExpansion, ExpansionStep, InitAccept, AcceptStep, InitRevision, RevisionsStep,
     InitBalance, SampleStep, InitOpen, OpenStep, InitRoot, RootStep, PTL DEF Spec

-----------------------------------------------------------------------------
(***************************************************************************)
(* What a document needs of the tree it is written from: thoughts are      *)
(* numbered after their parents, the root has none and lies at depth 0,    *)
(* and the path that is reported ends at a thought of the tree.            *)
(***************************************************************************)
OrderInv ==
  /\ parent[Root] = NoNode /\ depth[Root] = 0
  /\ \A n \in Nodes : parent[n] < n
  /\ pc = "done" => best \in Nodes


\* A new run has only the root.
LEMMA InitOrder == Init => OrderInv
  BY DEF Init, TreeInit, OrderInv, Root, NoNode, Nodes

\* A candidate gets the next number; the path is chosen among the thoughts.
LEMMA OrderStep == TypeInv /\ OrderInv /\ [Next]_vars => OrderInv'
<1> SUFFICES ASSUME TypeInv, OrderInv, [Next]_vars PROVE OrderInv'
  OBVIOUS
<1>0. TreeTypeOK /\ Root \in Nodes /\ size \in Nat /\ Nodes = 1..size
  <2>1. TreeTypeOK
    BY DEF TypeInv, TypeOK
  <2>2. size \in Nat \ {0}
    BY <2>1 DEF TreeTypeOK
  <2> QED
    BY <2>1, <2>2 DEF Root, Nodes
<1>1. ASSUME UNCHANGED shapeVars, pc' = "done" => best' \in Nodes PROVE OrderInv'
  BY <1>1 DEF OrderInv, shapeVars, Nodes
<1>2. CASE AttachCandidate
  <2>1. pc' = "attach"
    BY <1>2 DEF AttachCandidate, Goto
  <2>2. CASE UNCHANGED treeVars
    BY <1>1, <2>1, <2>2 DEF treeVars
  <2>3. CASE ~ UNCHANGED treeVars
    <3>1. PICK text : AddChild(node, text) /\ pc = "attach"
      BY <1>2, <2>3 DEF AttachCandidate
    <3>2. node \in Nodes
      BY <3>1 DEF TypeInv, ControlInv, AtNode
    <3>3. PICK m : /\ m = size + 1 /\ Nodes' = Nodes \cup {m} /\ parent'[m] = node
                   /\ \A d \in Nodes : parent'[d] = parent[d] /\ depth'[d] = depth[d]
      BY <1>0, <3>1, <3>2, AttachShape
    <3>4. node < m
      BY <1>0, <3>2, <3>3
    <3>5. \A n \in Nodes' : parent'[n] < n
      BY <3>3, <3>4 DEF OrderInv
    <3> QED
      BY <1>0, <2>1, <3>3, <3>5 DEF OrderInv
  <2> QED
    BY <2>2, <2>3
<1>3. CASE BestPath \/ BestPathStep
  <2>1. UNCHANGED shapeVars
    BY <1>3 DEF BestPath, BestPathStep, treeVars
  <2>2. pc' = "done" => best' \in Nodes
    <3>1. CASE BestPath
      BY <1>0, <3>1 DEF BestPath, BestTerminal, Terminals
    <3>2. CASE BestPathStep
      <4>1. best \in Nodes
        BY <3>2 DEF BestPathStep, TypeInv, ControlInv
      <4> QED
        BY <3>2, <4>1 DEF BestPathStep, GreedyBest, LiveChildren, Children
    <3> QED
      BY <1>3, <3>1, <3>2
  <2> QED
    BY <1>1, <2>1, <2>2
<1>4. CASE ApplyVerdict \/ CritiqueFault \/ ShapeFault \/ PruneDepthCapped
           \/ PruneSaturated \/ PruneDeadEnd \/ GrantRevision \/ Backpropagate
  <2>1. UNCHANGED shapeVars /\ pc' # "done"
    BY <1>4, AdvanceOutcome
       DEF ApplyVerdict, CritiqueFault, ShapeFault, PruneDepthCapped, PruneSaturated,
           PruneDeadEnd, GrantRevision, Backpropagate, Goto, Raise, Handler
  <2> QED
    BY <1>1, <2>1
<1>5. CASE Start \/ LoopExit \/ CheckCancel \/ CheckDeadline \/ PollStopCondition
           \/ BeginIteration \/ SelectRoot \/ FrontierEmpty \/ SelectLeaf
           \/ ReviseFault \/ Descend \/ AnnounceRevision
           \/ AnnounceNotes \/ BeginExpansion \/ Generate \/ ExpansionDone \/ DeadEnd
  <2>1. UNCHANGED shapeVars /\ pc' # "done"
    BY <1>5, AdvanceOutcome DEF Start, LoopExit, CheckCancel, CheckDeadline, PollStopCondition,
     BeginIteration, SelectRoot, FrontierEmpty, SelectLeaf, ReviseFault,
     Descend, AnnounceRevision, AnnounceNotes, BeginExpansion, Generate, ExpansionDone,
     DeadEnd, treeVars, Goto, Raise, Handler
  <2> QED
    BY <1>1, <2>1
<1>6. CASE BeginEvaluation \/ CollectVerdicts \/ EvaluationDone
           \/ BeginBackpropagation \/ BackpropagationDone \/ Settle \/ Except \/ Exit
  <2>1. UNCHANGED shapeVars /\ pc' # "done"
    BY <1>6, AdvanceOutcome DEF BeginEvaluation, CollectVerdicts, EvaluationDone,
     BeginBackpropagation, BackpropagationDone, Settle, Except, Exit,
     treeVars, Goto, Raise, Handler
  <2> QED
    BY <1>1, <2>1
<1>7. CASE Cancel \/ DeadlinePasses \/ UNCHANGED vars
  BY <1>1, <1>7 DEF Cancel, DeadlinePasses, vars, treeVars, runVars, OrderInv, Nodes, shapeVars
<1> QED
  BY <1>2, <1>3, <1>4, <1>5, <1>6, <1>7 DEF Next, Controller, Terminated

(***************************************************************************)
(* Creation order lists every member of a set.  The ranks of the members,  *)
(* counted from the members before each, are distinct, so every place is   *)
(* taken.                                                                  *)
(***************************************************************************)
Lists(order, S) ==
  /\ order = [i \in DOMAIN order |-> order[i]]
  /\ \A i \in DOMAIN order : order[i] \in S
  /\ \A n \in S : \E i \in DOMAIN order : order[i] = n

\* InOrder() lists a set of numbers.
LEMMA EveryMemberInOrder ==
  ASSUME NEW m \in Nat, NEW S \in SUBSET (1..m)
  PROVE  Lists(InOrder(S), S)
<1> DEFINE Before(x) == {y \in S : y < x}
           k == Cardinality(S)
<1>1. IsFiniteSet(S) /\ k \in Nat
  <2>1. IsFiniteSet(1..m)
    BY FS_Interval
  <2>2. IsFiniteSet(S)
    BY <2>1, FS_Subset
  <2> QED
    BY <2>2, FS_CardinalityType
<1>2. ASSUME NEW x \in S
      PROVE  /\ IsFiniteSet(Before(x)) /\ Cardinality(Before(x)) \in Nat
             /\ Cardinality(Before(x)) + 1 \in 1..k
  <2>1. IsFiniteSet(S \ {x}) /\ Cardinality(S \ {x}) = k - 1
    BY <1>1, FS_RemoveElement
  <2>2. Before(x) \subseteq S \ {x}
    OBVIOUS
  <2>3. IsFiniteSet(Before(x)) /\ Cardinality(Before(x)) <= Cardinality(S \ {x})
    BY <2>1, <2>2, FS_Subset
  <2>4. Cardinality(Before(x)) \in Nat
    BY <2>3, FS_CardinalityType
  <2> HIDE DEF Before, k
  <2> QED
    BY <1>1, <2>1, <2>3, <2>4
<1>3. ASSUME NEW x \in S, NEW y \in S, x < y
      PROVE  Cardinality(Before(x)) # Cardinality(Before(y))
  <2>1. x \notin Before(x)
    OBVIOUS
  <2>2. Before(x) \cup {x} \subseteq Before(y)
    <3>1. ASSUME NEW z \in Before(x) \cup {x} PROVE z \in Before(y)
      <4>1. z \in S /\ x \in S /\ y \in S /\ z \in Int /\ x \in Int /\ y \in Int
        OBVIOUS
      <4>2. z < x \/ z = x
        OBVIOUS
      <4>3. z < y
        BY <1>3, <4>1, <4>2
      <4> QED
        BY <4>1, <4>3
    <3> HIDE DEF Before
    <3> QED
      BY <3>1
  <2> HIDE DEF Before
  <2>3. Cardinality(Before(x) \cup {x}) = Cardinality(Before(x)) + 1
    BY <1>2, <2>1, FS_AddElement
  <2>4. Cardinality(Before(x) \cup {x}) <= Cardinality(Before(y))
    BY <1>2, <2>2, FS_Subset
  <2>5. Cardinality(Before(x)) \in Nat /\ Cardinality(Before(y)) \in Nat
    BY <1>2
  <2> QED
    BY <2>3, <2>4, <2>5
<1> DEFINE rank == [x \in S |-> Cardinality(Before(x)) + 1]
<1>4. rank \in Injection(S, 1..k)
  <2> HIDE DEF k, Before
  <2>1. rank \in [S -> 1..k]
    BY <1>2
  <2>2. ASSUME NEW x \in S, NEW y \in S, rank[x] = rank[y] PROVE x = y
    <3>1. Cardinality(Before(x)) = Cardinality(Before(y))
      BY <1>2, <2>2
    <3>2. x \in Int /\ y \in Int
      OBVIOUS
    <3> QED
      BY <1>3, <3>1, <3>2
  <2> HIDE DEF rank
  <2> QED
    BY <2>1, <2>2 DEF Injection, IsInjective
<1>5. rank \in Surjection(S, 1..k)
  <2>1. IsFiniteSet(1..k) /\ Cardinality(1..k) = k
    BY <1>1, FS_Interval
  <2> HIDE DEF rank, k
  <2> QED
    BY <1>4, <2>1, FS_Injection DEF k
<1> DEFINE at(i) == CHOOSE x \in S : Cardinality(Before(x)) = i - 1
<1>6. ASSUME NEW i \in 1..k
      PROVE  at(i) \in S /\ Cardinality(Before(at(i))) = i - 1
  <2>1. PICK x \in S : rank[x] = i
    <3> HIDE DEF rank, k
    <3> QED
      BY <1>5 DEF Surjection
  <2>2. i \in Int
    BY <1>1
  <2>3. Cardinality(Before(x)) = i - 1
    <3> HIDE DEF Before, k
    <3> QED
      BY <1>2, <2>1, <2>2
  <2> HIDE DEF Before
  <2> QED
    BY <2>3
<1>7. ASSUME NEW n \in S PROVE \E i \in 1..k : at(i) = n
  <2>1. PICK i \in 1..k : i = Cardinality(Before(n)) + 1
    BY <1>2
  <2>2. at(i) \in S /\ Cardinality(Before(at(i))) = Cardinality(Before(n))
    <3>1. Cardinality(Before(n)) = i - 1
      BY <1>2, <2>1
    <3> HIDE DEF at, Before, k
    <3> QED
      BY <1>6, <3>1
  <2>3. PICK x : x = at(i)
    OBVIOUS
  <2>4. x \in S /\ Cardinality(Before(x)) = Cardinality(Before(n))
    <3> HIDE DEF at, Before
    <3> QED
      BY <2>2, <2>3
  <2>5. x \in Int /\ n \in Int
    BY <2>4
  <2>6. x = n
    <3> HIDE DEF at, Before
    <3> QED
      BY <1>3, <2>4, <2>5
  <2> HIDE DEF at
  <2> QED
    BY <2>3, <2>6
<1>8. PICK order : order = InOrder(S) /\ order = [i \in 1..k |-> at(i)]
  BY DEF InOrder
<1>9. DOMAIN order = 1..k /\ \A i \in 1..k : order[i] = at(i)
  <2> HIDE DEF at, k
  <2> QED
    BY <1>8
<1>10. order = [i \in DOMAIN order |-> order[i]]
  <2> HIDE DEF at, k
  <2> QED
    BY <1>8, <1>9
<1> HIDE DEF at, k
<1> QED
  BY <1>6, <1>7, <1>8, <1>9, <1>10 DEF Lists

(***************************************************************************)
(* p gives the payload of every thought of a tree: to_dict() of a thought  *)
(* nests those of its children.                                            *)
(***************************************************************************)
Below(tree, p, n) == [i \in DOMAIN tree[n].children |-> p[tree[n].children[i]]]

Written(tree, S, p) == p = [n \in S |-> NodePayload(tree, n, Below(tree, p, n))]

\* Children are numbered after their parents, so the payloads can be written
\* from the last thought to the first.
LEMMA WrittenExists ==
  ASSUME NEW m \in Nat, NEW tree,
         \A n \in 1..m : \A i \in DOMAIN tree[n].children :
           tree[n].children[i] \in (n + 1)..m
  PROVE  \E p : Written(tree, 1..m, p)
<1> DEFINE From(k) == ((m + 1) - k)..m
           Bad == {k \in 0..m : ~ \E p : Written(tree, From(k), p)}
<1>1. ASSUME NEW k \in 1..m, NEW p, Written(tree, From(k - 1), p)
      PROVE  \E q : Written(tree, From(k), q)
  <2> DEFINE q == [n \in From(k) |-> NodePayload(tree, n, Below(tree, p, n))]
  <2>1. \A n \in From(k - 1) : n \in From(k)
    OBVIOUS
  <2>2. \A n \in From(k - 1) : q[n] = p[n]
    <3> HIDE DEF From
    <3> QED
      BY <1>1, <2>1 DEF Written
  <2>3. \A n \in From(k) : \A i \in DOMAIN tree[n].children :
          tree[n].children[i] \in From(k - 1)
    <3>1. ASSUME NEW n \in From(k), NEW i \in DOMAIN tree[n].children
          PROVE  tree[n].children[i] \in From(k - 1)
      <4>1. n \in 1..m /\ n >= (m + 1) - k
        OBVIOUS
      <4>2. PICK c : c = tree[n].children[i]
        OBVIOUS
      <4>3. c \in (n + 1)..m
        BY <4>1, <4>2
      <4>4. c \in From(k - 1)
        BY <4>1, <4>3
      <4> HIDE DEF From
      <4> QED
        BY <4>2, <4>4
    <3> HIDE DEF From
    <3> QED
      BY <3>1
  <2>4. \A n \in From(k) : Below(tree, q, n) = Below(tree, p, n)
    <3> HIDE DEF From, q
    <3> QED
      BY <2>2, <2>3 DEF Below
  <2>5. [n \in From(k) |-> NodePayload(tree, n, Below(tree, q, n))] = q
    <3> HIDE DEF From
    <3>1. ASSUME NEW n \in From(k)
          PROVE  NodePayload(tree, n, Below(tree, q, n)) = NodePayload(tree, n, Below(tree, p, n))
      <4> HIDE DEF q
      <4> QED
        BY <2>4
    <3>2. PICK g : g = q
      OBVIOUS
    <3>3. \A n \in From(k) : NodePayload(tree, n, Below(tree, g, n))
                               = NodePayload(tree, n, Below(tree, p, n))
      BY <3>1, <3>2
    <3>4. [n \in From(k) |-> NodePayload(tree, n, Below(tree, g, n))] = q
      BY <3>3
    <3> HIDE DEF q
    <3> QED
      BY <3>2, <3>4
  <2> HIDE DEF q, From
  <2> QED
    BY <2>5 DEF Written
<1>2. 0 \notin Bad
  <2>1. From(0) = {}
    OBVIOUS
  <2> DEFINE e == [n \in {} |-> 0]
  <2>2. e = [n \in {} |-> NodePayload(tree, n, Below(tree, e, n))]
    OBVIOUS
  <2> HIDE DEF From, e
  <2>3. Written(tree, From(0), e)
    BY <2>1, <2>2 DEF Written
  <2> QED
    BY <2>3
<1>3. Bad = {}
  <2> SUFFICES ASSUME Bad # {} PROVE FALSE
    OBVIOUS
  <2>1. PICK k \in Bad : \A j \in Bad : k <= j
    <3>1. Bad \in SUBSET (0..m)
      OBVIOUS
    <3> HIDE DEF Bad
    <3> QED
      BY <3>1, LeastOf
  <2>2. k \in 1..m /\ k - 1 \in 0..m /\ ~(k <= k - 1)
    <3>1. k \in 0..m /\ k # 0
      BY <1>2
    <3> QED
      BY <3>1
  <2>3. k - 1 \notin Bad
    <3> HIDE DEF Bad
    <3> QED
      BY <2>1, <2>2
  <2> HIDE DEF From
  <2>4. \E p : Written(tree, From(k - 1), p)
    BY <2>2, <2>3
  <2>5. \E q : Written(tree, From(k), q)
    BY <1>1, <2>2, <2>4
  <2> QED
    BY <2>5
<1>4. From(m) = 1..m /\ m \in 0..m
  OBVIOUS
<1> HIDE DEF From
<1> QED
  BY <1>3, <1>4

(***************************************************************************)
(* The payload of the tree of a result, thought by thought.                *)
(***************************************************************************)
LiveTree == [n \in Nodes |-> LiveNode(n)]

Paid(n, data) ==
  /\ data.id = n /\ data.depth = depth[n] /\ data.content = content[n]
  /\ data.status = status[n] /\ data.visits = visits[n]
  /\ data.score = Millionths(score[n], ScoreScale)
  /\ data.value_sum = Millionths(value_sum[n], ValueScale)
  /\ data.metadata = Metadata(n)

PaidTree(p) ==
  \A n \in Nodes :
    /\ Paid(n, p[n])
    /\ p[n].children = [i \in DOMAIN InOrder(Children(n)) |-> p[InOrder(Children(n))[i]]]

\* to_dict() writes every thought below the root.
LEMMA TreeWritten ==
  ASSUME TypeInv, OrderInv
  PROVE  \E p : PaidTree(p) /\ NodeDict(LiveTree) = p[Root]
<1>1. size \in Nat /\ Nodes = 1..size /\ Root \in Nodes
  BY DEF TypeInv, TypeOK, TreeTypeOK, Nodes, Root
<1>2. PICK t : t = LiveTree
  OBVIOUS
<1>3. DOMAIN t = Nodes /\ \A n \in Nodes : t[n] = LiveNode(n)
  BY <1>2 DEF LiveTree
<1>4. \A n \in Nodes : t[n].children = InOrder(Children(n))
  BY <1>3 DEF LiveNode
<1>5. \A n \in Nodes : \A i \in DOMAIN t[n].children : t[n].children[i] \in (n + 1)..size
  <2>1. ASSUME NEW n \in Nodes, NEW i \in DOMAIN t[n].children
        PROVE  t[n].children[i] \in (n + 1)..size
    <3>1. Children(n) \in SUBSET (1..size)
      BY <1>1 DEF Children
    <3>2. Lists(InOrder(Children(n)), Children(n))
      BY <1>1, <3>1, EveryMemberInOrder
    <3>3. PICK c : c = t[n].children[i]
      OBVIOUS
    <3>4. c \in Children(n)
      BY <1>4, <2>1, <3>2, <3>3 DEF Lists
    <3>5. c \in 1..size /\ parent[c] = n /\ parent[c] < c
      BY <1>1, <3>4 DEF Children, OrderInv
    <3>6. c \in (n + 1)..size
      BY <1>1, <3>5
    <3> QED
      BY <3>3, <3>6
  <2> QED
    BY <2>1
<1>6. \E p : Written(t, Nodes, p)
  <2>1. \A n \in 1..size : \A i \in DOMAIN t[n].children : t[n].children[i] \in (n + 1)..size
    BY <1>1, <1>5
  <2>2. \E p : Written(t, 1..size, p)
    BY <1>1, <2>1, WrittenExists
  <2> QED
    BY <1>1, <2>2
<1>7. PICK p : p = CHOOSE q : Written(t, Nodes, q)
  OBVIOUS
<1>8. Written(t, Nodes, p)
  BY <1>6, <1>7
<1>9. NodeDict(t) = p[Root]
  <2>1. NodeDict(t) = (CHOOSE q : Written(t, DOMAIN t, q))[Root]
    BY DEF NodeDict, Written, Below
  <2> QED
    BY <1>3, <1>7, <2>1
<1>10. \A n \in Nodes : p[n] = NodePayload(t, n, Below(t, p, n))
  BY <1>8 DEF Written
<1>11. ASSUME NEW n \in Nodes
       PROVE  /\ Paid(n, p[n])
              /\ p[n].children = [i \in DOMAIN InOrder(Children(n)) |->
                                    p[InOrder(Children(n))[i]]]
  <2>1. PICK b : b = Below(t, p, n)
    OBVIOUS
  <2>2. p[n] = NodePayload(t, n, b)
    BY <1>10, <2>1
  <2>3. t[n] = LiveNode(n)
    BY <1>3
  <2>4. Paid(n, p[n])
    BY <2>2, <2>3 DEF NodePayload, LiveNode, Paid
  <2>5. p[n].children = b
    BY <2>2 DEF NodePayload
  <2>6. b = [i \in DOMAIN InOrder(Children(n)) |-> p[InOrder(Children(n))[i]]]
    BY <1>4, <2>1 DEF Below
  <2> QED
    BY <2>4, <2>5, <2>6
<1> QED
  BY <1>2, <1>9, <1>11 DEF PaidTree

(***************************************************************************)
(* The rounds of from_dict(): the k-th takes the payloads of the thoughts  *)
(* at depth k, each with the parent it was nested in.                      *)
(***************************************************************************)
PaidEntry(p, n) == [data |-> p[n], above |-> parent[n]]

AtDepth(p, k) == {PaidEntry(p, n) : n \in {m \in Nodes : depth[m] = k}}

Round(payload, h, k) ==
  IF k = 0 THEN {[data |-> payload, above |-> NoNode]}
           ELSE UNION {Nested(entry) : entry \in h[k - 1]}

IsLevels(payload, h) == h = [k \in Nat |-> Round(payload, h, k)]

\* What a round puts on the list: the payloads of the children.
LEMMA NestedPayloads ==
  ASSUME TypeInv, NEW p, PaidTree(p), NEW n \in Nodes
  PROVE  Nested(PaidEntry(p, n)) = {PaidEntry(p, c) : c \in Children(n)}
<1>1. size \in Nat /\ Nodes = 1..size
  BY DEF TypeInv, TypeOK, TreeTypeOK, Nodes
<1>2. PICK order : order = InOrder(Children(n)) /\ Lists(order, Children(n))
  <2>1. Children(n) \in SUBSET (1..size)
    BY <1>1 DEF Children
  <2> QED
    BY <1>1, <2>1, EveryMemberInOrder
<1>3. p[n].id = n /\ p[n].children = [i \in DOMAIN order |-> p[order[i]]]
  BY <1>2 DEF PaidTree, Paid
<1>4. Nested(PaidEntry(p, n)) = {[data |-> p[order[i]], above |-> n] : i \in DOMAIN order}
  <2>1. PICK entry : entry = PaidEntry(p, n)
    OBVIOUS
  <2>2. entry.data = p[n]
    BY <2>1 DEF PaidEntry
  <2>3. Nested(entry) = {[data |-> p[n].children[i], above |-> n] : i \in DOMAIN p[n].children}
    BY <1>3, <2>2 DEF Nested
  <2>4. /\ DOMAIN p[n].children = DOMAIN order
        /\ \A i \in DOMAIN order : p[n].children[i] = p[order[i]]
    BY <1>3
  <2> QED
    BY <2>1, <2>3, <2>4
<1>5. \A c \in Children(n) : PaidEntry(p, c) = [data |-> p[c], above |-> n]
  BY DEF Children, PaidEntry
<1>6. ASSUME NEW e \in Nested(PaidEntry(p, n)) PROVE e \in {PaidEntry(p, c) : c \in Children(n)}
  <2>1. PICK i \in DOMAIN order : e = [data |-> p[order[i]], above |-> n]
    BY <1>4
  <2>2. order[i] \in Children(n)
    BY <1>2 DEF Lists
  <2> QED
    BY <1>5, <2>1, <2>2
<1>7. ASSUME NEW c \in Children(n) PROVE PaidEntry(p, c) \in Nested(PaidEntry(p, n))
  <2>1. PICK i \in DOMAIN order : order[i] = c
    BY <1>2 DEF Lists
  <2> QED
    BY <1>4, <1>5, <2>1
<1> QED
  BY <1>6, <1>7

\* Every thought but the root lies one level below its parent.
LEMMA DepthOfChildren ==
  ASSUME TypeInv, ExpansionInv, RootInv, OrderInv
  PROVE  /\ Root \in Nodes
         /\ \A n \in Nodes : depth[n] \in 0..MaxDepth /\ (depth[n] = 0 <=> n = Root)
         /\ \A n \in Nodes, k \in Nat \ {0} :
              depth[n] = k <=> parent[n] \in Nodes /\ depth[parent[n]] = k - 1
<1>1. TreeTypeOK /\ Root \in Nodes /\ parent[Root] \notin Nodes /\ depth[Root] = 0
  <2>1. TreeTypeOK
    BY DEF TypeInv, TypeOK
  <2>2. size \in Nat \ {0}
    BY <2>1 DEF TreeTypeOK
  <2>3. Root \in Nodes /\ NoNode \notin Nodes
    BY <2>2 DEF Root, Nodes, NoNode
  <2> QED
    BY <2>1, <2>3 DEF OrderInv
<1>2. ASSUME NEW n \in Nodes, n # Root
      PROVE  /\ parent[n] \in Nodes /\ depth[n] \in 0..MaxDepth /\ depth[n] # 0
             /\ depth[parent[n]] \in Nat /\ depth[n] = depth[parent[n]] + 1
  <2>1. parent[n] \in Nodes
    BY <1>2 DEF RootInv
  <2>2. depth[n] = depth[parent[n]] + 1 /\ depth[n] <= MaxDepth
    BY <2>1 DEF ExpansionInv, ChildInv, Distinct
  <2>3. depth[parent[n]] \in Nat /\ MaxDepth \in Nat
    BY <1>1, <2>1, ConfigAssumption DEF TreeTypeOK
  <2> QED
    BY <2>1, <2>2, <2>3
<1>3. 0 \in 0..MaxDepth
  BY ConfigAssumption
<1> QED
  BY <1>1, <1>2, <1>3

\* The rounds of the payload of the tree are its levels.
LEMMA RoundsAreLevels ==
  ASSUME TypeInv, ExpansionInv, RootInv, OrderInv, NEW p, PaidTree(p)
  PROVE  \A k \in Nat : Levels(p[Root])[k] = AtDepth(p, k)
<1> DEFINE g == [k \in Nat |-> AtDepth(p, k)]
<1>0. Root \in Nodes /\ parent[Root] = NoNode
  BY DepthOfChildren DEF OrderInv
<1>1. ASSUME NEW h, NEW k \in Nat, k # 0 => h[k - 1] = AtDepth(p, k - 1)
      PROVE  Round(p[Root], h, k) = AtDepth(p, k)
  <2>1. CASE k = 0
    <3>1. {m \in Nodes : depth[m] = k} = {Root}
      BY <2>1, DepthOfChildren
    <3>2. AtDepth(p, k) = {PaidEntry(p, Root)}
      BY <3>1 DEF AtDepth
    <3> QED
      BY <1>0, <2>1, <3>2 DEF Round, PaidEntry
  <2>2. CASE k # 0
    <3>1. Round(p[Root], h, k) = UNION {Nested(entry) : entry \in AtDepth(p, k - 1)}
      BY <1>1, <2>2 DEF Round
    <3>2. \A n \in Nodes : Nested(PaidEntry(p, n)) = {PaidEntry(p, c) : c \in Children(n)}
      BY NestedPayloads
    <3>3. ASSUME NEW e \in Round(p[Root], h, k) PROVE e \in AtDepth(p, k)
      <4>1. PICK entry \in AtDepth(p, k - 1) : e \in Nested(entry)
        BY <3>1
      <4>2. PICK n \in Nodes : depth[n] = k - 1 /\ entry = PaidEntry(p, n)
        BY DEF AtDepth
      <4>3. PICK c \in Children(n) : e = PaidEntry(p, c)
        BY <3>2, <4>1, <4>2
      <4>4. c \in Nodes /\ parent[c] = n
        BY DEF Children
      <4>5. depth[c] = k
        BY <2>2, <4>2, <4>4, DepthOfChildren
      <4> QED
        BY <4>3, <4>4, <4>5 DEF AtDepth
    <3>4. ASSUME NEW e \in AtDepth(p, k) PROVE e \in Round(p[Root], h, k)
      <4>1. PICK c \in Nodes : depth[c] = k /\ e = PaidEntry(p, c)
        BY DEF AtDepth
      <4>2. parent[c] \in Nodes /\ depth[parent[c]] = k - 1
        BY <2>2, <4>1, DepthOfChildren
      <4>3. PaidEntry(p, parent[c]) \in AtDepth(p, k - 1) /\ c \in Children(parent[c])
        BY <4>2 DEF AtDepth, Children
      <4>4. e \in Nested(PaidEntry(p, parent[c]))
        BY <3>2, <4>1, <4>2, <4>3
      <4> QED
        BY <3>1, <4>3, <4>4
    <3> QED
      BY <3>3, <3>4
  <2> QED
    BY <2>1, <2>2
<1>2. IsLevels(p[Root], g)
  <2>1. \A k \in Nat : g[k] = AtDepth(p, k)
    OBVIOUS
  <2>2. PICK h : h = g
    OBVIOUS
  <2>3. \A k \in Nat : k # 0 => h[k - 1] = AtDepth(p, k - 1)
    <3> HIDE DEF g
    <3> QED
      BY <2>1, <2>2
  <2>4. \A k \in Nat : Round(p[Root], h, k) = AtDepth(p, k)
    <3> HIDE DEF g
    <3> QED
      BY <1>1, <2>3
  <2>5. h = [k \in Nat |-> Round(p[Root], h, k)]
    BY <2>2, <2>4
  <2> HIDE DEF g
  <2> QED
    BY <2>2, <2>5 DEF IsLevels
<1>3. PICK h : h = Levels(p[Root]) /\ IsLevels(p[Root], h)
  <2>1. Levels(p[Root]) = CHOOSE f : IsLevels(p[Root], f)
    BY DEF Levels, IsLevels, Round
  <2> HIDE DEF g
  <2> QED
    BY <1>2, <2>1
<1>4. \A k \in Nat : h[k] = Round(p[Root], h, k)
  BY <1>3 DEF IsLevels
<1> SUFFICES ASSUME NEW n \in Nat, h[n] # AtDepth(p, n) PROVE FALSE
  BY <1>3
<1> DEFINE Bad == {k \in 0..n : h[k] # AtDepth(p, k)}
<1>5. PICK k \in Bad : \A j \in Bad : k <= j
  <2>1. Bad \in SUBSET (0..n) /\ n \in Bad
    OBVIOUS
  <2> HIDE DEF Bad
  <2> QED
    BY <2>1, LeastOf
<1>6. k \in 0..n /\ h[k] # AtDepth(p, k)
  OBVIOUS
<1>7. ASSUME k # 0 PROVE h[k - 1] = AtDepth(p, k - 1)
  <2>1. k - 1 \in 0..n /\ ~(k <= k - 1)
    BY <1>6, <1>7
  <2>2. k - 1 \notin Bad
    <3> HIDE DEF Bad
    <3> QED
      BY <1>5, <2>1
  <2> QED
    BY <2>1, <2>2
<1>8. k \in Nat
  BY <1>6
<1> HIDE DEF Bad
<1> QED
  BY <1>1, <1>4, <1>6, <1>7, <1>8

(***************************************************************************)
(* The thought that the archive keeps.                                     *)
(***************************************************************************)
RoundedNode(n) ==
  [LiveNode(n) EXCEPT !.score = Millionths(@, ScoreScale),
                      !.value_sum = Millionths(@, ValueScale)]

\* The payload of a thought and its parent give the thought back.
LEMMA NodeReadBack ==
  ASSUME TypeInv, NEW p, PaidTree(p), NEW n \in Nodes
  PROVE  _bare_from_payload(p[n], parent[n]) = RoundedNode(n)
<1>1. size \in Nat /\ Nodes = 1..size
  BY DEF TypeInv, TypeOK, TreeTypeOK, Nodes
<1>2. PICK order : order = InOrder(Children(n)) /\ Lists(order, Children(n))
  <2>1. Children(n) \in SUBSET (1..size)
    BY <1>1 DEF Children
  <2> QED
    BY <1>1, <2>1, EveryMemberInOrder
<1>3. PICK d : d = p[n]
  OBVIOUS
<1>4. Paid(n, d) /\ d.children = [i \in DOMAIN order |-> p[order[i]]]
  BY <1>2, <1>3 DEF PaidTree
<1>5. [i \in DOMAIN d.children |-> d.children[i].id] = order
  <2>1. DOMAIN d.children = DOMAIN order
    BY <1>4
  <2>2. \A i \in DOMAIN order : d.children[i].id = order[i]
    <3>1. ASSUME NEW i \in DOMAIN order PROVE d.children[i].id = order[i]
      <4>1. d.children[i] = p[order[i]] /\ order[i] \in Nodes
        BY <1>2, <1>4 DEF Lists, Children
      <4> QED
        BY <4>1 DEF PaidTree, Paid
    <3> QED
      BY <3>1
  <2>3. [i \in DOMAIN d.children |-> d.children[i].id] = [i \in DOMAIN order |-> order[i]]
    BY <2>1, <2>2
  <2> QED
    BY <1>2, <2>3 DEF Lists
<1>6. _bare_from_payload(d, parent[n]) =
        [parent |-> parent[n], children |-> order,
         depth |-> depth[n], content |-> content[n], status |-> status[n],
         score |-> Millionths(score[n], ScoreScale), visits |-> visits[n],
         value_sum |-> Millionths(value_sum[n], ValueScale), metadata |-> Metadata(n)]
  BY <1>4, <1>5 DEF _bare_from_payload, Paid
<1>7. RoundedNode(n) =
        [parent |-> parent[n], children |-> order,
         depth |-> depth[n], content |-> content[n], status |-> status[n],
         score |-> Millionths(score[n], ScoreScale), visits |-> visits[n],
         value_sum |-> Millionths(value_sum[n], ValueScale), metadata |-> Metadata(n)]
  <2>1. PICK s, v : s = Millionths(score[n], ScoreScale) /\ v = Millionths(value_sum[n], ValueScale)
    OBVIOUS
  <2>2. PICK live : live = LiveNode(n)
    OBVIOUS
  <2>3. live = [parent |-> parent[n], children |-> order, depth |-> depth[n],
                content |-> content[n], status |-> status[n], score |-> score[n],
                visits |-> visits[n], value_sum |-> value_sum[n], metadata |-> Metadata(n)]
    BY <1>2, <2>2 DEF LiveNode
  <2>4. live.score = score[n] /\ live.value_sum = value_sum[n]
    BY <2>3
  <2>5. RoundedNode(n) = [live EXCEPT !.score = s, !.value_sum = v]
    BY <2>1, <2>2, <2>4 DEF RoundedNode
  <2> QED
    BY <2>1, <2>3, <2>5
<1> QED
  BY <1>3, <1>6, <1>7

\* from_dict() reads the tree back from what to_dict() wrote.
LEMMA TreeReadBack ==
  ASSUME TypeInv, ExpansionInv, RootInv, OrderInv
  PROVE  from_dict(to_dict(LiveTree)) = [n \in Nodes |-> RoundedNode(n)]
<1>1. PICK p : PaidTree(p) /\ NodeDict(LiveTree) = p[Root]
  BY TreeWritten
<1>2. PICK doc : doc = to_dict(LiveTree)
  OBVIOUS
<1>3. doc.root = p[Root]
  BY <1>1, <1>2 DEF to_dict
<1>4. PICK h : h = Levels(p[Root])
  OBVIOUS
<1>5. PICK all : all = UNION {h[k] : k \in Rounds}
  OBVIOUS
<1>6. all = {PaidEntry(p, n) : n \in Nodes}
  <2>1. \A k \in Nat : h[k] = AtDepth(p, k)
    BY <1>1, <1>4, RoundsAreLevels
  <2>2. MaxDepth \in Nat
    BY ConfigAssumption
  <2>3. ASSUME NEW e \in all PROVE e \in {PaidEntry(p, n) : n \in Nodes}
    <3>1. PICK k \in Rounds : e \in h[k]
      BY <1>5
    <3>2. k \in Nat
      BY <2>2 DEF Rounds
    <3> QED
      BY <2>1, <3>1, <3>2 DEF AtDepth
  <2>4. ASSUME NEW n \in Nodes PROVE PaidEntry(p, n) \in all
    <3>1. PICK k : k = depth[n]
      OBVIOUS
    <3>2. k \in Nat /\ k \in Rounds
      BY <2>2, <3>1, DepthOfChildren DEF Rounds
    <3>3. PaidEntry(p, n) \in h[k]
      BY <2>1, <3>1, <3>2 DEF AtDepth
    <3> QED
      BY <1>5, <3>2, <3>3
  <2> QED
    BY <2>3, <2>4
<1>7. \A n \in Nodes : PaidEntry(p, n).data = p[n] /\ PaidEntry(p, n).data.id = n
                       /\ PaidEntry(p, n).above = parent[n]
  BY <1>1 DEF PaidEntry, PaidTree, Paid
<1> DEFINE holder(n) == CHOOSE entry \in all : entry.data.id = n
<1>8. \A n \in Nodes : holder(n) = PaidEntry(p, n)
  <2>1. ASSUME NEW n \in Nodes PROVE holder(n) = PaidEntry(p, n)
    <3>1. PaidEntry(p, n) \in all /\ PaidEntry(p, n).data.id = n
      BY <1>6, <1>7
    <3>2. \A e \in all : e.data.id = n => e = PaidEntry(p, n)
      BY <1>6, <1>7
    <3> QED
      BY <3>1, <3>2
  <2> QED
    BY <2>1
<1>9. {entry.data.id : entry \in all} = Nodes
  <2>1. ASSUME NEW n \in Nodes PROVE n \in {entry.data.id : entry \in all}
    BY <1>6, <1>7
  <2>2. ASSUME NEW e \in all PROVE e.data.id \in Nodes
    BY <1>6, <1>7
  <2> QED
    BY <2>1, <2>2
<1>10. from_dict(doc) = [n \in {entry.data.id : entry \in all} |->
                           _bare_from_payload(holder(n).data, holder(n).above)]
  BY <1>3, <1>4, <1>5 DEF from_dict
<1>11. \A n \in Nodes : _bare_from_payload(holder(n).data, holder(n).above) = RoundedNode(n)
  <2>1. ASSUME NEW n \in Nodes
        PROVE  _bare_from_payload(holder(n).data, holder(n).above) = RoundedNode(n)
    <3>1. holder(n) = PaidEntry(p, n)
      BY <1>8
    <3>2. holder(n).data = p[n] /\ holder(n).above = parent[n]
      <4> HIDE DEF holder
      <4> QED
        BY <1>7, <3>1
    <3> HIDE DEF holder
    <3> QED
      BY <1>1, <3>2, NodeReadBack
  <2> QED
    BY <2>1
<1>12. from_dict(doc) = [n \in Nodes |-> RoundedNode(n)]
  <2> HIDE DEF holder
  <2>1. from_dict(doc) = [n \in Nodes |-> _bare_from_payload(holder(n).data, holder(n).above)]
    BY <1>9, <1>10
  <2> QED
    BY <1>11, <2>1
<1> QED
  BY <1>2, <1>12

\* Every record of the history is read back as it was written.
LEMMA HistoryReadBack ==
  ASSUME TypeInv, NEW i \in DOMAIN history
  PROVE  PhaseTransition(history[i].source, history[i].target, history[i].note) = history[i]
<1>1. history \in Seq(HistoryRecord)
  BY DEF TypeInv, TypeOK, HistoryRecord
<1>2. history[i] \in HistoryRecord
  BY <1>1
<1> QED
  BY <1>2 DEF PhaseTransition, HistoryRecord

(***************************************************************************)
(* The path to a thought has its thoughts only, so the archive's check of  *)
(* the path against the tree passes.                                       *)
(***************************************************************************)
LEMMA PathOfThoughts ==
  ASSUME TypeInv, best \in Nodes
  PROVE  LET order == InOrder(path[best])
         IN  {order[i] : i \in DOMAIN order} \subseteq Nodes
<1>1. size \in Nat /\ Nodes = 1..size /\ path[best] \in SUBSET (1..size)
  BY DEF TypeInv, TypeOK, TreeTypeOK, Nodes
<1>2. Lists(InOrder(path[best]), path[best])
  BY <1>1, EveryMemberInOrder
<1> QED
  BY <1>1, <1>2 DEF Lists

(***************************************************************************)
(* The archive of a finished run is a faithful copy, for every tree of     *)
(* every shape and every history: the document that is written reads back  *)
(* without an error, and what is read is the run's result, with scores and *)
(* value sums to the nearest millionth.                                    *)
(***************************************************************************)
THEOREM ArchivesReadBack == Spec => []ArchiveFaithful
<1>1. TypeInv /\ ExpansionInv /\ RootInv /\ OrderInv => ArchiveFaithful
  <2> SUFFICES ASSUME TypeInv, ExpansionInv, RootInv, OrderInv, pc = "done"
               PROVE  archive_from_document(result_to_archive_document(LiveResult))
                        = [LiveResult EXCEPT !.tree = [n \in Nodes |-> RoundedNode(n)]]
    <3>1. [n \in Nodes |-> RoundedNode(n)] =
            [n \in Nodes |-> [LiveResult.tree[n] EXCEPT
                                !.score = Millionths(@, ScoreScale),
                                !.value_sum = Millionths(@, ValueScale)]]
      BY DEF LiveResult, RoundedNode
    <3> QED
      BY <3>1 DEF ArchiveFaithful
  <2>1. PICK kept : kept = [n \in Nodes |-> RoundedNode(n)]
    OBVIOUS
  <2>2. PICK order : order = InOrder(path[best])
    OBVIOUS
  <2>3. PICK stamped : stamped = [i \in DOMAIN history |->
                         [transition |-> history[i], timestamp |-> Stamp(i)]]
    OBVIOUS
  <2>4. PICK live : live = LiveResult
    OBVIOUS
  <2>5. live = [outcome |-> phase, iterations |-> iteration, node_count |-> size,
                error |-> error, best_path |-> order, tree |-> LiveTree,
                phase_history |-> stamped]
    BY <2>2, <2>3, <2>4 DEF LiveResult, LiveTree
  <2>6. PICK written : written = to_dict(LiveTree)
    OBVIOUS
  <2>7. PICK entries : entries = [i \in DOMAIN stamped |->
          [source |-> stamped[i].transition.source, target |-> stamped[i].transition.target,
           note |-> stamped[i].transition.note, timestamp |-> stamped[i].timestamp]]
    OBVIOUS
  <2>8. PICK doc : doc = result_to_archive_document(live)
    OBVIOUS
  <2>9. doc = [format |-> ARCHIVE_FORMAT,
               outcome |-> phase, iterations |-> iteration, node_count |-> size,
               error |-> error, best_path |-> order, tree |-> written,
               phase_history |-> entries]
    BY <2>5, <2>6, <2>7, <2>8 DEF result_to_archive_document
  <2>10. from_dict(doc.tree) = kept /\ DOMAIN kept = Nodes
    BY <2>1, <2>6, <2>9, TreeReadBack
  <2>11. {order[i] : i \in DOMAIN order} \subseteq Nodes
    BY <2>2, PathOfThoughts DEF OrderInv
  <2>12. [i \in DOMAIN entries |->
            [transition |-> PhaseTransition(entries[i].source, entries[i].target, entries[i].note),
             timestamp |-> entries[i].timestamp]] = stamped
    <3>1. DOMAIN entries = DOMAIN history /\ DOMAIN stamped = DOMAIN history
      BY <2>3, <2>7
    <3>2. \A i \in DOMAIN history :
            /\ entries[i].source = history[i].source /\ entries[i].target = history[i].target
            /\ entries[i].note = history[i].note /\ entries[i].timestamp = Stamp(i)
      BY <2>3, <2>7
    <3>3. \A i \in DOMAIN history :
            [transition |-> PhaseTransition(entries[i].source, entries[i].target, entries[i].note),
             timestamp |-> entries[i].timestamp]
            = [transition |-> history[i], timestamp |-> Stamp(i)]
      BY <3>2, HistoryReadBack
    <3> QED
      BY <2>3, <3>1, <3>3
  <2>13. archive_from_document(doc) =
           [outcome |-> phase, iterations |-> iteration, node_count |-> size,
            error |-> error, best_path |-> order, tree |-> kept, phase_history |-> stamped]
    BY <2>9, <2>10, <2>11, <2>12 DEF archive_from_document
  <2> QED
    BY <2>1, <2>4, <2>5, <2>8, <2>13
<1> QED
  BY <1>1, InitType, TypeStep, InitFrontier, FrontierStep,
     InitExpansion, ExpansionStep, InitControl, FaultStep, InitAccept, AcceptStep,
     InitBalance, SampleStep, InitRoot, RootStep, InitOrder, OrderStep, PTL DEF Spec

-----------------------------------------------------------------------------
(***************************************************************************)
(* Progress.  The counters at every point of the run.                      *)
(***************************************************************************)
PointTable ==
  /\ pc = "start" => PointsLeft = 24
  /\ pc \in {"select", "descend"} => PointsLeft = 23
  /\ pc = "selected" => PointsLeft = 22
  /\ pc = "revived" => PointsLeft = 21
  /\ pc = "expand" => PointsLeft = 20
  /\ pc = "generate" => PointsLeft = 19
  /\ pc = "attach" => PointsLeft = 18
  /\ pc = "deadend" => PointsLeft = 17
  /\ pc = "prune" => PointsLeft = 16
  /\ pc = "evaluate" => PointsLeft = 15
  /\ pc = "collect" => PointsLeft = 14
  /\ pc = "apply" => PointsLeft = 13
  /\ pc = "backpropagate" => PointsLeft = 12
  /\ pc = "propagate" => PointsLeft = 11
  /\ pc = "settle" => PointsLeft = 10
  /\ pc = "loop" => PointsLeft = 9
  /\ pc = "deadline" => PointsLeft = 8
  /\ pc = "poll" => PointsLeft = 7
  /\ pc = "except" => PointsLeft = 6
  /\ pc = "exit" => PointsLeft = 5
  /\ pc = "best" => PointsLeft = 4
  /\ pc = "greedy" => PointsLeft = 3
  /\ pc = "done" => PointsLeft = 2
  /\ pc = "escaped" => PointsLeft = 1

WorkTable ==
  /\ pc \in {"select", "descend"} => WorkLeft = Cardinality(Live)
  /\ pc = "attach" => WorkLeft = Len(candidates)
  /\ pc = "apply" => WorkLeft = Len(children) - Len(valued)
  /\ pc = "propagate" => WorkLeft = Len(valued)
  /\ pc = "greedy" => WorkLeft = MaxDepth - depth[best]
  /\ pc \notin {"select", "descend", "attach", "apply", "propagate", "greedy"} =>
       WorkLeft = 0

LevelTable ==
  /\ pc = "select" => LevelsLeft = MaxDepth + 1
  /\ pc = "descend" => LevelsLeft = MaxDepth - depth[node]
  /\ pc \notin {"select", "descend"} => LevelsLeft = 0

\* The tables read the counters off their definitions, before and after a step.
LEMMA CountersAt ==
  /\ PointTable /\ PointTable' /\ WorkTable /\ WorkTable' /\ LevelTable /\ LevelTable'
<1>1. PointTable
  BY DEF PointTable, PointsLeft
<1>2. PointTable'
  BY DEF PointTable, PointsLeft
<1>3. WorkTable
  BY DEF WorkTable, WorkLeft
<1>4. WorkTable'
  BY DEF WorkTable, WorkLeft
<1>5. LevelTable
  BY DEF LevelTable, LevelsLeft
<1>6. LevelTable'
  BY DEF LevelTable, LevelsLeft
<1> QED
  BY <1>1, <1>2, <1>3, <1>4, <1>5, <1>6

\* The first counter that changes decides.
LEMMA FirstCounter ==
  ASSUME NEW a, NEW b, NEW c, NEW d, NEW w, NEW x, NEW y, NEW z,
         \/ w < a
         \/ w = a /\ x < b
         \/ w = a /\ x = b /\ y < c
         \/ w = a /\ x = b /\ y = c /\ z < d
  PROVE  CountsDown(<<a, b, c, d>>, <<w, x, y, z>>)
<1> DEFINE from == <<a, b, c, d>>
           to == <<w, x, y, z>>
<1>1. /\ from[1] = a /\ from[2] = b /\ from[3] = c /\ from[4] = d
      /\ to[1] = w /\ to[2] = x /\ to[3] = y /\ to[4] = z
  OBVIOUS
<1> HIDE DEF from, to
<1>2. CASE w < a
  <2>1. to[1] < from[1] /\ \A j \in 1..(1 - 1) : to[j] = from[j]
    BY <1>1, <1>2
  <2> QED
    BY <2>1 DEF CountsDown, from, to
<1>3. CASE w = a /\ x < b
  <2>1. to[2] < from[2] /\ \A j \in 1..(2 - 1) : to[j] = from[j]
    BY <1>1, <1>3
  <2> QED
    BY <2>1 DEF CountsDown, from, to
<1>4. CASE w = a /\ x = b /\ y < c
  <2>1. to[3] < from[3] /\ \A j \in 1..(3 - 1) : to[j] = from[j]
    BY <1>1, <1>4
  <2> QED
    BY <2>1 DEF CountsDown, from, to
<1>5. CASE w = a /\ x = b /\ y = c /\ z < d
  <2>1. to[4] < from[4] /\ \A j \in 1..(4 - 1) : to[j] = from[j]
    BY <1>1, <1>5
  <2> QED
    BY <2>1 DEF CountsDown, from, to
<1> QED
  BY <1>2, <1>3, <1>4, <1>5

\* The same of the distance of a run, with its counters rigid.
Nearer == CountsDown(Distance, Distance')

LEMMA NearerBy ==
  ASSUME \/ MaxIterations - iteration' < MaxIterations - iteration
         \/ iteration' = iteration /\ PointsLeft' < PointsLeft
         \/ iteration' = iteration /\ PointsLeft' = PointsLeft /\ WorkLeft' < WorkLeft
         \/ /\ iteration' = iteration /\ PointsLeft' = PointsLeft
            /\ WorkLeft' = WorkLeft /\ LevelsLeft' < LevelsLeft
  PROVE  Nearer
  BY FirstCounter DEF Nearer, Distance

\* All counters are natural numbers: a pruned frontier, a batch and a path
\* are finite, and no thought lies below max_depth.
LEMMA DistanceMeasured ==
  TypeInv /\ ExpansionInv /\ RootInv /\ OrderInv => Measured
<1> SUFFICES ASSUME TypeInv, ExpansionInv, RootInv, OrderInv PROVE Measured
  OBVIOUS
<1>1. MaxIterations - iteration \in Nat
  BY ConfigAssumption DEF TypeInv, TypeOK
<1>2. PointsLeft \in Nat
  <2>1. pc \in ControlPoint
    BY DEF TypeInv, TypeOK
  <2> QED
    BY <2>1, CountersAt DEF PointTable, ControlPoint
<1>3. \A n \in Nodes : MaxDepth - depth[n] \in Nat
  BY DepthOfChildren, ConfigAssumption
<1>4. WorkLeft \in Nat
  <2>1. Cardinality(Live) \in Nat
    <3>1. IsFiniteSet(Nodes) /\ Live \subseteq Nodes
      BY NodesFinite DEF TypeInv, TypeOK, Live
    <3> QED
      BY <3>1, FS_Subset, FS_CardinalityType
  <2>2. /\ Len(candidates) \in Nat /\ Len(valued) \in Nat /\ Len(children) \in Nat
        /\ pc = "apply" => Len(valued) <= Len(children)
        /\ pc = "greedy" => best \in Nodes
    BY DEF TypeInv, TypeOK, ControlInv
  <2>3. pc = "apply" => Len(children) - Len(valued) \in Nat
    BY <2>2
  <2>4. pc = "greedy" => MaxDepth - depth[best] \in Nat
    BY <1>3, <2>2
  <2> QED
    BY <2>1, <2>2, <2>3, <2>4, CountersAt DEF WorkTable
<1>5. LevelsLeft \in Nat
  <2>1. pc = "descend" => MaxDepth - depth[node] \in Nat
    BY <1>3 DEF TypeInv, ControlInv, AtNode
  <2> QED
    BY <2>1, CountersAt, ConfigAssumption DEF LevelTable
<1>6. Distance = <<MaxIterations - iteration, PointsLeft, WorkLeft, LevelsLeft>>
  BY DEF Distance
<1> QED
  BY <1>1, <1>2, <1>4, <1>5, <1>6 DEF Measured

\* Where _advance() may go: to its point, or to the handler.
LEMMA AdvanceGoes ==
  ASSUME NEW target, NEW n, NEW note, NEW next, Advance(target, n, note, next)
  PROVE  pc' \in {next, Handler}
  BY AdvanceOutcome

\* Announcing passes the point that is announced, at the end of an iteration too.
LEMMA AnnounceNearer ==
  ASSUME \/ Start \/ LoopExit \/ CheckCancel \/ CheckDeadline \/ PollStopCondition
         \/ FrontierEmpty \/ AnnounceRevision \/ AnnounceNotes \/ BeginExpansion
         \/ DeadEnd \/ PruneDeadEnd \/ BeginEvaluation \/ BeginBackpropagation
         \/ Settle \/ Except \/ Exit
  PROVE  Nearer
<1> SUFFICES iteration' = iteration /\ PointsLeft' < PointsLeft
  BY NearerBy
<1>1. CASE Start
  <2>1. pc = "start" /\ pc' \in {"loop", "escaped"} /\ UNCHANGED iteration
    BY <1>1, AdvanceGoes DEF Start, Handler
  <2> QED
    BY <2>1, CountersAt DEF PointTable
<1>2. CASE LoopExit \/ CheckCancel
  <2>1. pc = "loop" /\ pc' \in {"exit", "deadline", "except"} /\ UNCHANGED iteration
    BY <1>2, AdvanceGoes DEF LoopExit, CheckCancel, Goto, Handler
  <2> QED
    BY <2>1, CountersAt DEF PointTable
<1>3. CASE CheckDeadline
  <2>1. pc = "deadline" /\ pc' \in {"exit", "poll", "except"} /\ UNCHANGED iteration
    BY <1>3, AdvanceGoes DEF CheckDeadline, Goto, Handler
  <2> QED
    BY <2>1, CountersAt DEF PointTable
<1>4. CASE PollStopCondition
  <2>1. pc = "poll" /\ pc' \in {"exit", "except"} /\ UNCHANGED iteration
    BY <1>4, AdvanceGoes DEF PollStopCondition, Raise, Handler
  <2> QED
    BY <2>1, CountersAt DEF PointTable
<1>5. CASE FrontierEmpty
  <2>1. pc = "select" /\ pc' \in {"exit", "except"} /\ UNCHANGED iteration
    BY <1>5, AdvanceGoes DEF FrontierEmpty, Handler
  <2> QED
    BY <2>1, CountersAt DEF PointTable
<1>6. CASE AnnounceRevision
  <2>1. pc = "selected" /\ pc' \in {"revived", "expand", "except"} /\ UNCHANGED iteration
    BY <1>6, AdvanceGoes DEF AnnounceRevision, Goto, Handler
  <2> QED
    BY <2>1, CountersAt DEF PointTable
<1>7. CASE AnnounceNotes
  <2>1. pc = "revived" /\ pc' \in {"expand", "except"} /\ UNCHANGED iteration
    BY <1>7, AdvanceGoes DEF AnnounceNotes, Handler
  <2> QED
    BY <2>1, CountersAt DEF PointTable
<1>8. CASE BeginExpansion
  <2>1. pc = "expand" /\ pc' \in {"generate", "except"} /\ UNCHANGED iteration
    BY <1>8, AdvanceGoes DEF BeginExpansion, Handler
  <2> QED
    BY <2>1, CountersAt DEF PointTable
<1>9. CASE DeadEnd
  <2>1. pc = "deadend" /\ pc' \in {"prune", "except"} /\ UNCHANGED iteration
    BY <1>9, AdvanceGoes DEF DeadEnd, Handler
  <2> QED
    BY <2>1, CountersAt DEF PointTable
<1>10. CASE PruneDeadEnd
  <2>1. pc = "prune" /\ pc' \in {"loop", "except"} /\ UNCHANGED iteration
    BY <1>10, AdvanceGoes DEF PruneDeadEnd, Handler
  <2> QED
    BY <2>1, CountersAt DEF PointTable
<1>11. CASE BeginEvaluation
  <2>1. pc = "evaluate" /\ pc' \in {"collect", "except"} /\ UNCHANGED iteration
    BY <1>11, AdvanceGoes DEF BeginEvaluation, Handler
  <2> QED
    BY <2>1, CountersAt DEF PointTable
<1>12. CASE BeginBackpropagation
  <2>1. pc = "backpropagate" /\ pc' \in {"propagate", "except"} /\ UNCHANGED iteration
    BY <1>12, AdvanceGoes DEF BeginBackpropagation, Handler
  <2> QED
    BY <2>1, CountersAt DEF PointTable
<1>13. CASE Settle
  <2>1. pc = "settle" /\ pc' \in {"exit", "loop", "except"} /\ UNCHANGED iteration
    BY <1>13, AdvanceGoes DEF Settle, Handler
  <2> QED
    BY <2>1, CountersAt DEF PointTable
<1>14. CASE Except
  <2>1. pc = "except" /\ pc' \in {"exit", "escaped"} /\ UNCHANGED iteration
    BY <1>14, AdvanceGoes DEF Except, Handler
  <2> QED
    BY <2>1, CountersAt DEF PointTable
<1>15. CASE Exit
  <2>1. pc = "exit" /\ pc' \in {"best", "escaped"} /\ UNCHANGED iteration
    BY <1>15, AdvanceGoes DEF Exit, Goto, Handler
  <2> QED
    BY <2>1, CountersAt DEF PointTable
<1> QED
  BY <1>1, <1>2, <1>3, <1>4, <1>5, <1>6, <1>7, <1>8, <1>9, <1>10, <1>11, <1>12,
     <1>13, <1>14, <1>15

\* So does a step to the next point, a failure, and the end of a loop.
LEMMA PassNearer ==
  ASSUME \/ SelectLeaf \/ GrantRevision \/ ReviseFault \/ Generate \/ ExpansionDone
         \/ CollectVerdicts \/ CritiqueFault \/ ShapeFault \/ EvaluationDone
         \/ BackpropagationDone \/ BestPath
  PROVE  Nearer
<1> SUFFICES iteration' = iteration /\ PointsLeft' < PointsLeft
  BY NearerBy
<1>1. CASE SelectLeaf \/ GrantRevision \/ ReviseFault
  <2>1. pc = "descend" /\ pc' \in {"selected", "except"} /\ UNCHANGED iteration
    BY <1>1 DEF SelectLeaf, GrantRevision, ReviseFault, Goto, Raise, Handler
  <2> QED
    BY <2>1, CountersAt DEF PointTable
<1>2. CASE Generate
  <2>1. pc = "generate" /\ pc' \in {"attach", "except"} /\ UNCHANGED iteration
    BY <1>2 DEF Generate, Goto, Raise, Handler
  <2> QED
    BY <2>1, CountersAt DEF PointTable
<1>3. CASE ExpansionDone
  <2>1. pc = "attach" /\ pc' \in {"deadend", "evaluate"} /\ UNCHANGED iteration
    BY <1>3 DEF ExpansionDone, Goto
  <2> QED
    BY <2>1, CountersAt DEF PointTable
<1>4. CASE CollectVerdicts
  <2>1. pc = "collect" /\ pc' \in {"apply", "except"} /\ UNCHANGED iteration
    BY <1>4 DEF CollectVerdicts, Goto, Raise, Handler
  <2> QED
    BY <2>1, CountersAt DEF PointTable
<1>5. CASE CritiqueFault \/ ShapeFault \/ EvaluationDone
  <2>1. pc = "apply" /\ pc' \in {"except", "backpropagate"} /\ UNCHANGED iteration
    BY <1>5 DEF CritiqueFault, ShapeFault, EvaluationDone, Goto, Raise, Handler
  <2> QED
    BY <2>1, CountersAt DEF PointTable
<1>6. CASE BackpropagationDone
  <2>1. pc = "propagate" /\ pc' = "settle" /\ UNCHANGED iteration
    BY <1>6 DEF BackpropagationDone, Goto
  <2> QED
    BY <2>1, CountersAt DEF PointTable
<1>7. CASE BestPath
  <2>1. pc = "best" /\ pc' \in {"done", "greedy"} /\ UNCHANGED iteration
    BY <1>7 DEF BestPath, Goto
  <2> QED
    BY <2>1, CountersAt DEF PointTable
<1> QED
  BY <1>1, <1>2, <1>3, <1>4, <1>5, <1>6, <1>7

\* The two loops of _select(): a restart has a smaller frontier, a descent
\* goes one level down in the same.
LEMMA SelectNearer ==
  ASSUME TypeInv, FrontierInv, ExpansionInv, RootInv, OrderInv,
         SelectRoot \/ PruneDepthCapped \/ PruneSaturated \/ Descend
  PROVE  Nearer
<1>0. Root \in Nodes /\ depth[Root] = 0 /\ MaxDepth \in Nat
  BY DepthOfChildren, ConfigAssumption DEF OrderInv
<1>1. CASE SelectRoot
  <2>1. /\ pc = "select" /\ pc' = "descend" /\ node' = Root
        /\ UNCHANGED <<iteration, size, status, depth>>
    BY <1>1 DEF SelectRoot, Goto, treeVars, shapeVars
  <2>2. Live' = Live
    BY <2>1 DEF Live, is_live, Nodes
  <2>3. LevelsLeft = MaxDepth + 1 /\ LevelsLeft' = MaxDepth - 0
    BY <1>0, <2>1, CountersAt DEF LevelTable
  <2>4. PointsLeft' = PointsLeft /\ WorkLeft' = WorkLeft
    BY <2>1, <2>2, CountersAt DEF PointTable, WorkTable
  <2> QED
    BY <1>0, <2>1, <2>3, <2>4, NearerBy
<1>2. CASE PruneDepthCapped \/ PruneSaturated
  <2>1. /\ pc = "descend" /\ pc' = "select" /\ UNCHANGED iteration
        /\ Live' = Live \ Walk(node)
    BY <1>2, PruneBatch DEF PruneDepthCapped, PruneSaturated, Goto
  <2>2. node \in Live /\ node \in Walk(node)
    BY <2>1 DEF TypeInv, ControlInv, AtNode, FrontierInv, NodeInv, Descending,
                PathInv, Live, Walk
  <2>3. IsFiniteSet(Live)
    <3>1. IsFiniteSet(Nodes) /\ Live \subseteq Nodes
      BY NodesFinite DEF TypeInv, TypeOK, Live
    <3> QED
      BY <3>1, FS_Subset
  <2>4. Cardinality(Live') < Cardinality(Live)
    <3>1. PICK L, K : L = Live /\ K = Live'
      OBVIOUS
    <3>2. K \subseteq L \ {node} /\ node \in L /\ IsFiniteSet(L)
      BY <2>1, <2>2, <2>3, <3>1
    <3>3. /\ IsFiniteSet(L \ {node}) /\ Cardinality(L \ {node}) = Cardinality(L) - 1
          /\ Cardinality(L) \in Nat
      BY <3>2, FS_RemoveElement, FS_CardinalityType
    <3>4. Cardinality(K) <= Cardinality(L) - 1 /\ Cardinality(K) \in Nat
      BY <3>2, <3>3, FS_Subset, FS_CardinalityType
    <3>5. Cardinality(K) < Cardinality(L)
      BY <3>3, <3>4
    <3> QED
      BY <3>1, <3>5
  <2>5. PointsLeft' = PointsLeft /\ WorkLeft' < WorkLeft
    BY <2>1, <2>4, CountersAt DEF PointTable, WorkTable
  <2> QED
    BY <2>1, <2>5, NearerBy
<1>3. CASE Descend
  <2>1. /\ pc = "descend" /\ pc' = "descend" /\ node' \in LiveChildren(node)
        /\ UNCHANGED <<iteration, size, status, depth>>
    BY <1>3 DEF Descend, UctMaximal, Goto, treeVars, shapeVars
  <2>2. Live' = Live
    BY <2>1 DEF Live, is_live, Nodes
  <2>3. node \in Nodes /\ node' \in Nodes /\ parent[node'] = node
    BY <2>1 DEF TypeInv, ControlInv, AtNode, LiveChildren, Children
  <2>4. PICK c : c = node'
    OBVIOUS
  <2>5. depth[c] = depth[node] + 1 /\ depth[node] \in Nat
    BY <2>3, <2>4, DepthOfChildren DEF ExpansionInv, ChildInv, Distinct
  <2>6. LevelsLeft = MaxDepth - depth[node] /\ LevelsLeft' = MaxDepth - depth[c]
    BY <2>1, <2>4, CountersAt DEF LevelTable
  <2>7. PointsLeft' = PointsLeft /\ WorkLeft' = WorkLeft
    BY <2>1, <2>2, CountersAt DEF PointTable, WorkTable
  <2>8. LevelsLeft' < LevelsLeft
    BY <1>0, <2>5, <2>6
  <2> QED
    BY <2>1, <2>7, <2>8, NearerBy
<1> QED
  BY <1>1, <1>2, <1>3

\* The loops over candidates, verdicts and values, and the descent to the
\* path that is reported.
LEMMA LoopNearer ==
  ASSUME TypeInv, ExpansionInv, RootInv, OrderInv,
         AttachCandidate \/ ApplyVerdict \/ Backpropagate \/ BestPathStep
  PROVE  Nearer
<1>1. CASE AttachCandidate
  <2>1. /\ pc = "attach" /\ pc' = "attach" /\ candidates # <<>>
        /\ candidates' = Tail(candidates) /\ UNCHANGED iteration
    BY <1>1 DEF AttachCandidate, Goto
  <2>2. candidates \in Seq(RawTexts)
    BY DEF TypeInv, TypeOK
  <2>3. Len(candidates') < Len(candidates)
    BY <2>1, <2>2
  <2>4. PointsLeft' = PointsLeft /\ WorkLeft' < WorkLeft
    BY <2>1, <2>3, CountersAt DEF PointTable, WorkTable
  <2> QED
    BY <2>1, <2>4, NearerBy
<1>2. CASE ApplyVerdict
  <2>1. /\ pc = "apply" /\ pc' = "apply" /\ UNCHANGED <<iteration, children>>
        /\ \E v : valued' = Append(valued, v)
    BY <1>2 DEF ApplyVerdict, Goto
  <2>2. Len(valued) \in Nat /\ Len(children) \in Nat
    BY DEF TypeInv, TypeOK
  <2>3. Len(valued') = Len(valued) + 1
    <3>1. valued \in Seq([node : Nodes, value : Nat])
      BY DEF TypeInv, TypeOK
    <3> QED
      BY <2>1, <3>1
  <2>4. WorkLeft = Len(children) - Len(valued) /\ WorkLeft' = Len(children) - Len(valued')
    BY <2>1, CountersAt DEF WorkTable
  <2>5. PointsLeft' = PointsLeft
    BY <2>1, CountersAt DEF PointTable
  <2>6. WorkLeft' < WorkLeft
    BY <2>2, <2>3, <2>4
  <2> QED
    BY <2>1, <2>5, <2>6, NearerBy
<1>3. CASE Backpropagate
  <2>1. /\ pc = "propagate" /\ pc' = "propagate" /\ valued # <<>>
        /\ valued' = Tail(valued) /\ UNCHANGED iteration
    BY <1>3 DEF Backpropagate, Goto
  <2>2. valued \in Seq([node : Nodes, value : Nat])
    BY DEF TypeInv, TypeOK
  <2>3. Len(valued') < Len(valued)
    BY <2>1, <2>2
  <2>4. PointsLeft' = PointsLeft /\ WorkLeft' < WorkLeft
    BY <2>1, <2>3, CountersAt DEF PointTable, WorkTable
  <2> QED
    BY <2>1, <2>4, NearerBy
<1>4. CASE BestPathStep
  <2>1. CASE pc' = "done"
    <3>1. pc = "greedy" /\ UNCHANGED iteration
      BY <1>4 DEF BestPathStep
    <3>2. PointsLeft' < PointsLeft
      BY <2>1, <3>1, CountersAt DEF PointTable
    <3> QED
      BY <3>1, <3>2, NearerBy
  <2>2. CASE pc' # "done"
    <3>1. /\ pc = "greedy" /\ pc' = "greedy" /\ best' \in LiveChildren(best)
          /\ UNCHANGED <<iteration, depth>>
      BY <1>4, <2>2 DEF BestPathStep, Goto, GreedyBest, treeVars, shapeVars
    <3>2. best \in Nodes /\ best' \in Nodes /\ parent[best'] = best
      BY <3>1 DEF TypeInv, ControlInv, LiveChildren, Children
    <3>3. PICK c : c = best'
      OBVIOUS
    <3>4. depth[c] = depth[best] + 1 /\ depth[best] \in Nat
      BY <3>2, <3>3, DepthOfChildren DEF ExpansionInv, ChildInv, Distinct
    <3>5. WorkLeft = MaxDepth - depth[best] /\ WorkLeft' = MaxDepth - depth[c]
      BY <3>1, <3>3, CountersAt DEF WorkTable
    <3>6. PointsLeft' = PointsLeft
      BY <3>1, CountersAt DEF PointTable
    <3>7. WorkLeft' < WorkLeft
      BY <3>4, <3>5, ConfigAssumption
    <3> QED
      BY <3>1, <3>6, <3>7, NearerBy
  <2> QED
    BY <2>1, <2>2
<1> QED
  BY <1>1, <1>2, <1>3, <1>4

\* A new iteration has fewer left.
LEMMA IterationNearer ==
  ASSUME TypeInv, BeginIteration
  PROVE  Nearer
<1>1. iteration' = iteration + 1
  BY DEF BeginIteration
<1>2. iteration \in Nat /\ MaxIterations \in Nat
  BY ConfigAssumption DEF TypeInv, TypeOK
<1>3. MaxIterations - iteration' < MaxIterations - iteration
  BY <1>1, <1>2
<1> QED
  BY <1>3, NearerBy

(***************************************************************************)
(* For every configuration and whatever the policies answer or raise, each *)
(* step of run() brings the run nearer to its end, in counters that are    *)
(* natural numbers; cancellation and the clock change none of them.  With  *)
(* a run that is scheduled, this is why every run ends.                    *)
(***************************************************************************)
THEOREM RunsCountDown == Spec => EveryStepCountsDown
<1>1. TypeInv /\ ExpansionInv /\ RootInv /\ OrderInv => Measured
  BY DistanceMeasured
<1>2. ASSUME TypeInv, FrontierInv, ExpansionInv, RootInv, OrderInv, [Next]_vars
      PROVE  [IF UNCHANGED stopVars THEN CountsDown(Distance, Distance')
                                    ELSE UNCHANGED Distance]_vars
  <2> SUFFICES ASSUME Next, vars' # vars
               PROVE  IF UNCHANGED stopVars THEN Nearer ELSE UNCHANGED Distance
    BY <1>2 DEF Nearer
  <2>1. CASE Controller
    <3>1. UNCHANGED stopVars
      BY <2>1 DEF Controller, Start, LoopExit, CheckCancel, CheckDeadline,
         PollStopCondition, BeginIteration, SelectRoot, FrontierEmpty, SelectLeaf,
         PruneDepthCapped, GrantRevision, ReviseFault, PruneSaturated, Descend,
         AnnounceRevision, AnnounceNotes, BeginExpansion, Generate, AttachCandidate,
         ExpansionDone, DeadEnd, PruneDeadEnd, BeginEvaluation, CollectVerdicts,
         ApplyVerdict, CritiqueFault, ShapeFault, EvaluationDone, BeginBackpropagation,
         Backpropagate, BackpropagationDone, Settle, Except, Exit, BestPath, BestPathStep
    <3>2. Nearer
      BY <1>2, <2>1, AnnounceNearer, PassNearer, SelectNearer, LoopNearer,
         IterationNearer DEF Controller
    <3> QED
      BY <3>1, <3>2
  <2>2. CASE Cancel \/ DeadlinePasses
    <3>1. iteration \in Nat /\ NotYet \notin Nat
      BY <1>2 DEF TypeInv, TypeOK, NotYet
    <3>2. ~UNCHANGED stopVars
      BY <2>2, <3>1 DEF Cancel, DeadlinePasses, stopVars
    <3>3. /\ UNCHANGED <<pc, iteration, size, status, depth, node, best>>
          /\ UNCHANGED <<candidates, children, valued>>
      BY <2>2 DEF Cancel, DeadlinePasses, treeVars, shapeVars, localVars
    <3>4. Live' = Live
      BY <3>3 DEF Live, is_live, Nodes
    <3>5. UNCHANGED Distance
      BY <3>3, <3>4 DEF Distance, PointsLeft, WorkLeft, LevelsLeft
    <3> QED
      BY <3>2, <3>5
  <2> QED
    BY <2>1, <2>2 DEF Next, Terminated
<1> QED
  BY <1>1, <1>2, InitType, TypeStep, InitControl, FaultStep, InitFrontier, FrontierStep,
     InitExpansion, ExpansionStep, InitAccept, AcceptStep, InitBalance, SampleStep,
     InitRoot, RootStep, InitOrder, OrderStep, PTL DEF Spec, EveryStepCountsDown
-----------------------------------------------------------------------------
(***************************************************************************)
(* The metrics do not look at scores or value sums, so what is computed    *)
(* from the archive of a run is what was computed from the live result     *)
(* ("their differences - which is all the metrics layer consumes - survive *)
(* the round trip exactly", of the timestamps, archive.py).                *)
(***************************************************************************)
Rounded(R) == [R EXCEPT !.tree = [n \in Nodes |-> RoundedNode(n)]]

\* Rounding a result leaves its metrics as they are.
LEMMA RoundingKeepsMetrics ==
  ASSUME TypeInv, best \in Nodes, NEW R, R = LiveResult, NEW A, A = Rounded(R)
  PROVE  from_result(A) = from_result(R)
<1>1. /\ A.outcome = R.outcome /\ A.iterations = R.iterations
      /\ A.node_count = R.node_count /\ A.best_path = R.best_path
      /\ A.phase_history = R.phase_history
      /\ A.tree = [n \in Nodes |-> RoundedNode(n)] /\ R.tree = [n \in Nodes |-> LiveNode(n)]
      /\ R.best_path = InOrder(path[best])
  BY DEF Rounded, LiveResult
<1>2. \A n \in Nodes : /\ A.tree[n].depth = R.tree[n].depth
                       /\ A.tree[n].status = R.tree[n].status
                       /\ A.tree[n].metadata.attempts = R.tree[n].metadata.attempts
  <2>1. ASSUME NEW n \in Nodes
        PROVE  /\ A.tree[n].depth = R.tree[n].depth
               /\ A.tree[n].status = R.tree[n].status
               /\ A.tree[n].metadata.attempts = R.tree[n].metadata.attempts
    <3>1. PICK live : live = LiveNode(n)
      OBVIOUS
    <3>2. DOMAIN live = {"parent", "children", "depth", "content", "status", "score",
                         "visits", "value_sum", "metadata"}
      BY <3>1 DEF LiveNode
    <3>3. PICK s, v : RoundedNode(n) = [live EXCEPT !.score = s, !.value_sum = v]
      BY <3>1 DEF RoundedNode
    <3>4. /\ RoundedNode(n).depth = live.depth /\ RoundedNode(n).status = live.status
          /\ RoundedNode(n).metadata = live.metadata
      BY <3>2, <3>3
    <3> QED
      BY <1>1, <3>1, <3>4
  <2> QED
    BY <2>1
<1>3. DOMAIN A.tree = Nodes /\ DOMAIN R.tree = Nodes
  BY <1>1
<1>4. ASSUME R.best_path # <<>>
      PROVE  R.best_path[Len(R.best_path)] \in Nodes
  <2>1. PICK order : order = InOrder(path[best])
    OBVIOUS
  <2>2. size \in Nat /\ Nodes = 1..size /\ path[best] \in SUBSET (1..size)
    BY DEF TypeInv, TypeOK, TreeTypeOK, Nodes
  <2>3. order \in Seq(Nodes)
    <3>1. Lists(order, path[best])
      BY <2>1, <2>2, EveryMemberInOrder
    <3>2. PICK k : k \in Nat /\ DOMAIN order = 1..k
      <4>1. IsFiniteSet(1..size)
        BY <2>2, FS_Interval
      <4>2. Cardinality(path[best]) \in Nat
        BY <2>2, <4>1, FS_Subset, FS_CardinalityType
      <4>3. DOMAIN order = 1..Cardinality(path[best])
        BY <2>1 DEF InOrder
      <4> QED
        BY <4>2, <4>3
    <3>3. order \in [1..k -> Nodes]
      BY <2>2, <3>1, <3>2 DEF Lists
    <3> QED
      BY <3>2, <3>3
  <2>4. order # <<>>
    BY <1>1, <1>4, <2>1
  <2>5. order[Len(order)] \in Nodes
    BY <2>3, <2>4
  <2> QED
    BY <1>1, <2>1, <2>5
<1> DEFINE granted(S) == [n \in DOMAIN S.tree |-> S.tree[n].metadata.attempts]
           ended(S, s) == {n \in DOMAIN S.tree : S.tree[n].status = s}
           last == R.best_path[Len(R.best_path)]
           durations(S) == [p \in SearchPhase |-> _phase_durations(S, p)]
<1>5. granted(A) = granted(R)
  BY <1>2, <1>3
<1>6. \A s : ended(A, s) = ended(R, s)
  BY <1>2, <1>3
<1>7. R.best_path # <<>> => A.tree[last].depth = R.tree[last].depth
  BY <1>2, <1>4
<1>8. durations(A) = durations(R)
  BY <1>1 DEF _phase_durations, Indices
<1> DEFINE
      entered(hist, p) == {i \in DOMAIN hist : hist[i].transition.target = p}
      revisions(hist) == {i \in entered(hist, "BACKTRACKING") :
                            IsRevisionNote(hist[i].transition.note)}
      metrics(outcome, iterations, nodes, route, hist, level, grants, tally, seconds) ==
        [outcome |-> outcome, iterations |-> iterations, nodes |-> nodes,
         wall_time |-> IF Len(hist) < 2 THEN 0
                       ELSE hist[Len(hist)].timestamp - hist[1].timestamp,
         solution_depth |-> level,
         best_path_length |-> Len(route),
         structural_backtracks |->
           Cardinality(entered(hist, "BACKTRACKING") \ revisions(hist)),
         revision_backtracks |-> Cardinality(revisions(hist)),
         revisions_granted |-> grants,
         status_counts |-> tally,
         phase_counts |-> [p \in SearchPhase |-> Cardinality(entered(hist, p))],
         phase_seconds |-> seconds]
      level(S) == IF S.outcome = "SUCCEEDED" /\ S.best_path # <<>>
                  THEN S.tree[S.best_path[Len(S.best_path)]].depth ELSE -1
      tally(S) == [s \in NodeStatus |-> Cardinality(ended(S, s))]
<1>9. \A S : from_result(S) =
               metrics(S.outcome, S.iterations, S.node_count, S.best_path, S.phase_history,
                       level(S), Sum(granted(S), DOMAIN S.tree), tally(S), durations(S))
  BY DEF from_result, Indices
<1>10. tally(A) = tally(R)
  <2> HIDE DEF ended
  <2> QED
    BY <1>6
<1>11. level(A) = level(R)
  BY <1>1, <1>7
<1> HIDE DEF metrics, granted, level, tally, durations
<1> QED
  BY <1>1, <1>3, <1>5, <1>8, <1>9, <1>10, <1>11

(***************************************************************************)
(* Metrics can be computed again from the archive of any run, and are the  *)
(* ones of the live result.                                                *)
(***************************************************************************)
THEOREM ArchiveKeepsMetrics ==
  Spec => [](pc = "done" =>
               from_result(archive_from_document(result_to_archive_document(LiveResult)))
                 = from_result(LiveResult))
<1>1. TypeInv /\ OrderInv /\ ArchiveFaithful
      => (pc = "done" =>
            from_result(archive_from_document(result_to_archive_document(LiveResult)))
              = from_result(LiveResult))
  <2> SUFFICES ASSUME TypeInv, OrderInv, ArchiveFaithful, pc = "done"
               PROVE  from_result(archive_from_document(result_to_archive_document(LiveResult)))
                        = from_result(LiveResult)
    OBVIOUS
  <2>1. PICK R : R = LiveResult
    OBVIOUS
  <2>2. R.tree = [n \in Nodes |-> LiveNode(n)]
    BY <2>1 DEF LiveResult
  <2>3. archive_from_document(result_to_archive_document(R)) = Rounded(R)
    <3>1. [n \in Nodes |-> RoundedNode(n)] =
            [n \in Nodes |-> [R.tree[n] EXCEPT
                                !.score = Millionths(@, ScoreScale),
                                !.value_sum = Millionths(@, ValueScale)]]
      BY <2>2 DEF RoundedNode
    <3> QED
      BY <2>1, <3>1 DEF ArchiveFaithful, Rounded
  <2>4. best \in Nodes
    BY DEF OrderInv
  <2>5. PICK A : A = Rounded(R)
    OBVIOUS
  <2>6. from_result(A) = from_result(R)
    BY <2>1, <2>4, <2>5, RoundingKeepsMetrics
  <2> QED
    BY <2>1, <2>3, <2>5, <2>6
<1> QED
  BY <1>1, ArchivesReadBack, InitType, TypeStep, InitOrder, OrderStep, PTL DEF Spec
=============================================================================
