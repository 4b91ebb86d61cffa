-------------------------- MODULE TreeSearchProofs --------------------------
(***************************************************************************)
(* One run, for every configuration: it is well typed and implements the   *)
(* phase machine; where run() is determines the phase of the machine, the  *)
(* exception in flight and how far the loop may go on after a stop         *)
(* request, which gives fault containment, prompt stopping and the         *)
(* refinement of RunLifecycle.  The second part is about the tree.         *)
(***************************************************************************)
EXTENDS RunRefinement, FiniteSetTheorems, TLAPS

(***************************************************************************)
(* TypeOK in three parts: the tree, what _advance() writes, the rest.      *)
(***************************************************************************)
HistoryRecord == [source : SearchPhase, target : SearchPhase, note : Note]
EventRecord   == [iteration : 0..MaxIterations, phase : SearchPhase,
                  node : Nodes \cup {NoNode}]

LogTypeOK ==
  /\ phase \in SearchPhase
  /\ history \in Seq(HistoryRecord)
  /\ events \in Seq(EventRecord)
  /\ pc \in ControlPoint
  /\ raised \in ExceptionClass

LocalTypeOK ==
  /\ error \in ExceptionClass
  /\ iteration \in 0..MaxIterations
  /\ node \in Nodes \cup {NoNode}
  /\ revived \in BOOLEAN
  /\ candidates \in Seq(RawTexts)
  /\ children \in Seq(Nodes)
  /\ verdicts \in Seq(Verdicts)
  /\ valued \in Seq([node : Nodes, value : Nat])
  /\ solution \in Nodes \cup {NoNode}
  /\ best \in Nodes \cup {NoNode}
  /\ cancelAt \in Nat \cup {NotYet} /\ expiredAt \in Nat \cup {NotYet}

(***************************************************************************)
(* Where run() is tells which locals are meaningful: the descent and the   *)
(* expansion have a node, the boundary checks have an iteration left, each *)
(* child has its verdict, values exist only from their evaluation to their *)
(* backpropagation.                                                        *)
(***************************************************************************)
AtNode == {"descend", "selected", "revived", "expand", "generate", "attach",
           "deadend", "prune", "evaluate", "collect", "apply", "backpropagate",
           "propagate", "settle"}

BeforeVerdicts == {"start", "loop", "deadline", "poll", "select", "descend",
                   "selected", "revived", "expand", "generate", "attach",
                   "deadend", "prune", "evaluate", "collect", "settle"}

ControlInv ==
  /\ pc \in AtNode => node \in Nodes
  /\ pc \in {"deadline", "poll"} => iteration < MaxIterations
  /\ pc \in BeforeVerdicts => valued = <<>>
  /\ pc = "apply" => Len(verdicts) = Len(children) /\ Len(valued) <= Len(children)
  /\ pc = "greedy" => best \in Nodes

TypeInv == TypeOK /\ ControlInv

(***************************************************************************)
(* The three parts are TypeOK.                                             *)
(***************************************************************************)
LEMMA TypeParts == TypeOK <=> TreeTypeOK /\ LogTypeOK /\ LocalTypeOK
  BY DEF TypeOK, LogTypeOK, LocalTypeOK, HistoryRecord, EventRecord

(***************************************************************************)
(* A new run is well typed.                                                *)
(***************************************************************************)
LEMMA InitType == Init => TypeInv
<1> SUFFICES ASSUME Init PROVE TypeInv
  OBVIOUS
<1> USE TreeAssumption, ConfigAssumption DEF Init
<1>1. TreeTypeOK
  BY DEF TreeInit, TreeTypeOK, Nodes, Root, NoNode, NodeStatus
<1>2. LogTypeOK
  BY DEF MachineInit, LogTypeOK, SearchPhase, ControlPoint, ExceptionClass
<1>3. LocalTypeOK
  <2>1. error \in ExceptionClass /\ iteration \in 0..MaxIterations
    BY DEF ExceptionClass
  <2>2. node \in Nodes \cup {NoNode} /\ solution \in Nodes \cup {NoNode}
        /\ best \in Nodes \cup {NoNode}
    OBVIOUS
  <2>3. candidates \in Seq(RawTexts) /\ children \in Seq(Nodes)
        /\ verdicts \in Seq(Verdicts) /\ valued \in Seq([node : Nodes, value : Nat])
    OBVIOUS
  <2>4. revived \in BOOLEAN
    OBVIOUS
  <2>5. cancelAt \in Nat \cup {NotYet} /\ expiredAt \in Nat \cup {NotYet}
    OBVIOUS
  <2> QED
    BY <2>1, <2>2, <2>3, <2>4, <2>5 DEF LocalTypeOK
<1>4. ControlInv
  BY DEF ControlInv, AtNode, BeforeVerdicts
<1> QED
  BY <1>1, <1>2, <1>3, <1>4, TypeParts DEF TypeInv

(***************************************************************************)
(* _advance() keeps the phase, the history and the event log well typed,   *)
(* and leads to the requested point or to the handler.                     *)
(***************************************************************************)
LEMMA AdvanceType ==
  ASSUME LogTypeOK, iteration \in 0..MaxIterations,
         NEW target \in SearchPhase, NEW n \in Nodes \cup {NoNode},
         NEW note \in Note, NEW next \in ControlPoint,
         Advance(target, n, note, next), size' = size
  PROVE  LogTypeOK' /\ pc' \in {next, "except", "escaped"}
<1> USE DEF LogTypeOK, Goto, Raise, Handler, ControlPoint, ExceptionClass
<1>1. EventRecord' = EventRecord
  BY DEF EventRecord, Nodes
<1>2. CASE CanTransition(target)
  <2>1. phase' = target /\ history' = Append(history, PhaseTransition(phase, target, note))
    BY <1>2 DEF Advance, Transition
  <2>2. PhaseTransition(phase, target, note) \in HistoryRecord
    BY DEF PhaseTransition, HistoryRecord
  <2>3. history' \in Seq(HistoryRecord)
    BY <2>1, <2>2
  <2>4. [iteration |-> iteration, phase |-> target, node |-> n] \in EventRecord
    BY DEF EventRecord
  <2>5. events' \in Seq(EventRecord)
    BY <1>2, <2>4 DEF Advance
  <2>6. pc' \in {next, "except", "escaped"} /\ raised' \in ExceptionClass
    BY <1>2 DEF Advance
  <2> QED
    BY <1>1, <2>1, <2>3, <2>5, <2>6
<1>3. CASE ~CanTransition(target)
  BY <1>1, <1>3 DEF Advance, machineVars
<1> QED
  BY <1>2, <1>3

(***************************************************************************)
(* A step that announces nothing.                                          *)
(***************************************************************************)
LEMMA QuietType ==
  ASSUME LogTypeOK, Quiet, pc' \in ControlPoint, raised' \in ExceptionClass,
         size' = size
  PROVE  LogTypeOK'
  BY DEF LogTypeOK, Quiet, machineVars, EventRecord, Nodes

(***************************************************************************)
(* A step that leaves the tree alone.                                      *)
(***************************************************************************)
LEMMA TreeSame ==
  ASSUME UNCHANGED treeVars
  PROVE  (TreeTypeOK => TreeTypeOK') /\ Nodes' = Nodes /\ size' = size
  BY DEF treeVars, shapeVars, statVars, revisionVars, TreeTypeOK, Nodes

(***************************************************************************)
(* Pruning changes statuses only, to a legal one.                          *)
(***************************************************************************)
LEMMA PruneType ==
  ASSUME TreeTypeOK, NEW n \in Nodes, PruneSubtree(n),
         UNCHANGED <<shapeVars, score, statVars, critique, revisionVars>>
  PROVE  TreeTypeOK' /\ Nodes' = Nodes /\ size' = size
  BY DEF TreeTypeOK, PruneSubtree, shapeVars, statVars, revisionVars, Nodes, NodeStatus

(***************************************************************************)
(* A step that moves the control and the log only.                         *)
(***************************************************************************)
LEMMA LocalsSame ==
  ASSUME TreeTypeOK, LocalTypeOK,
         UNCHANGED <<treeVars, iteration, localVars, error, best, stopVars>>
  PROVE  /\ TreeTypeOK' /\ LocalTypeOK' /\ Nodes' = Nodes /\ size' = size
         /\ UNCHANGED <<iteration, node, children, verdicts, valued, best>>
<1>1. TreeTypeOK' /\ Nodes' = Nodes /\ size' = size
  BY TreeSame
<1>2. LocalTypeOK'
  BY <1>1 DEF LocalTypeOK, localVars, stopVars
<1> QED
  BY <1>1, <1>2 DEF localVars

(***************************************************************************)
(* The steps of run() that only announce a phase or move on.               *)
(***************************************************************************)
LEMMA AnnounceStep ==
  ASSUME TreeTypeOK, LogTypeOK, LocalTypeOK, ControlInv,
         \/ Start \/ LoopExit \/ CheckCancel \/ CheckDeadline \/ PollStopCondition
         \/ FrontierEmpty \/ SelectLeaf \/ ReviseFault \/ AnnounceRevision
         \/ AnnounceNotes \/ BeginExpansion \/ ExpansionDone \/ DeadEnd
         \/ BeginEvaluation \/ BeginBackpropagation \/ BackpropagationDone
         \/ Settle \/ Exit
  PROVE  TreeTypeOK' /\ LogTypeOK' /\ LocalTypeOK' /\ ControlInv'
<1> USE DEF ControlPoint, ExceptionClass, SearchPhase, TERMINAL_PHASES, Note
<1>0. iteration \in 0..MaxIterations /\ raised \in ExceptionClass
      /\ node \in Nodes \cup {NoNode} /\ solution \in Nodes \cup {NoNode}
  BY DEF LocalTypeOK, LogTypeOK
<1>1. UNCHANGED <<treeVars, iteration, localVars, error, best, stopVars>>
  BY DEF Start, LoopExit, CheckCancel, CheckDeadline, PollStopCondition,
         FrontierEmpty, SelectLeaf, ReviseFault, AnnounceRevision,
         AnnounceNotes, BeginExpansion, ExpansionDone, DeadEnd, BeginEvaluation,
         BeginBackpropagation, BackpropagationDone, Settle, Exit
<1>2. TreeTypeOK' /\ LocalTypeOK' /\ Nodes' = Nodes /\ size' = size
      /\ UNCHANGED <<iteration, node, children, verdicts, valued, best>>
  BY <1>1, LocalsSame
<1>3. CASE Start \/ LoopExit \/ CheckCancel \/ CheckDeadline \/
             PollStopCondition
  <2>1. LogTypeOK'
    BY <1>0, <1>2, <1>3, AdvanceType, QuietType DEF Start, LoopExit,
       CheckCancel, CheckDeadline, PollStopCondition, Goto, Raise, Handler
  <2>2. ControlInv'
    BY <1>2, <1>3 DEF Start, LoopExit, CheckCancel, CheckDeadline,
       PollStopCondition, Advance, Goto, Raise, Handler, ControlInv, AtNode,
       BeforeVerdicts
  <2> QED
    BY <1>2, <2>1, <2>2
<1>4. CASE FrontierEmpty \/ SelectLeaf \/ ReviseFault \/ AnnounceRevision \/
             AnnounceNotes
  <2>1. LogTypeOK'
    BY <1>0, <1>2, <1>4, AdvanceType, QuietType DEF FrontierEmpty, SelectLeaf,
       ReviseFault, AnnounceRevision, AnnounceNotes, Goto, Raise, Handler
  <2>2. ControlInv'
    BY <1>2, <1>4 DEF FrontierEmpty, SelectLeaf, ReviseFault, AnnounceRevision,
       AnnounceNotes, Advance, Goto, Raise, Handler, ControlInv, AtNode,
       BeforeVerdicts
  <2> QED
    BY <1>2, <2>1, <2>2
<1>5. CASE BeginExpansion \/ ExpansionDone \/ DeadEnd \/ BeginEvaluation
  <2>1. LogTypeOK'
    BY <1>0, <1>2, <1>5, AdvanceType, QuietType DEF BeginExpansion,
       ExpansionDone, DeadEnd, BeginEvaluation, Goto, Raise, Handler
  <2>2. ControlInv'
    BY <1>2, <1>5 DEF BeginExpansion, ExpansionDone, DeadEnd, BeginEvaluation,
       Advance, Goto, Raise, Handler, ControlInv, AtNode, BeforeVerdicts
  <2> QED
    BY <1>2, <2>1, <2>2
<1>6. CASE BeginBackpropagation \/ BackpropagationDone \/ Settle \/ Exit
  <2>1. LogTypeOK'
    BY <1>0, <1>2, <1>6, AdvanceType, QuietType DEF BeginBackpropagation,
       BackpropagationDone, Settle, Exit, Goto, Raise, Handler
  <2>2. ControlInv'
    BY <1>2, <1>6 DEF BeginBackpropagation, BackpropagationDone, Settle, Exit,
       Advance, Goto, Raise, Handler, ControlInv, AtNode, BeforeVerdicts
  <2> QED
    BY <1>2, <2>1, <2>2
<1> QED
  BY <1>3, <1>4, <1>5, <1>6

(***************************************************************************)
(* A step that leaves the tree alone and announces nothing but changes     *)
(* locals: the locals it does not name keep their types.                   *)
(***************************************************************************)
LEMMA LocalStep ==
  ASSUME TreeTypeOK, LogTypeOK, LocalTypeOK, ControlInv,
         \/ BeginIteration \/ SelectRoot \/ Descend \/ EvaluationDone
         \/ BestPath \/ BestPathStep
  PROVE  TreeTypeOK' /\ LogTypeOK' /\ LocalTypeOK' /\ ControlInv'
<1> USE ConfigAssumption DEF ControlPoint, Goto
<1>0. raised \in ExceptionClass
  BY DEF LogTypeOK
<1>1. UNCHANGED treeVars /\ UNCHANGED raised /\ Quiet /\ pc' \in ControlPoint
  <2>1. CASE BeginIteration \/ SelectRoot
    BY <2>1 DEF BeginIteration, SelectRoot
  <2>2. CASE Descend \/ EvaluationDone
    BY <2>2 DEF Descend, EvaluationDone
  <2>3. CASE BestPath
    BY <2>3 DEF BestPath
  <2>4. CASE BestPathStep
    BY <2>4 DEF BestPathStep
  <2> QED
    BY <2>1, <2>2, <2>3, <2>4
<1>2. TreeTypeOK' /\ Nodes' = Nodes /\ size' = size
  BY <1>1, TreeSame
<1>3. LogTypeOK'
  BY <1>0, <1>1, <1>2, QuietType
<1>4. CASE BeginIteration
  <2>1. iteration' \in 0..MaxIterations
    BY <1>4 DEF BeginIteration, LocalTypeOK, ControlInv
  <2>2. revived' \in BOOLEAN
    BY <1>4 DEF BeginIteration
  <2>3. LocalTypeOK'
    BY <1>2, <1>4, <2>1, <2>2 DEF BeginIteration, LocalTypeOK, stopVars
  <2> QED
    BY <1>2, <1>3, <1>4, <2>3 DEF BeginIteration, ControlInv, AtNode, BeforeVerdicts
<1>5. CASE SelectRoot
  <2>1. Root \in Nodes
    BY DEF TreeTypeOK, Nodes, Root
  <2> QED
    BY <1>2, <1>3, <1>5, <2>1
       DEF SelectRoot, LocalTypeOK, ControlInv, AtNode, BeforeVerdicts, stopVars
<1>6. CASE Descend
  <2>1. node' \in Nodes
    BY <1>6 DEF Descend, UctMaximal, LiveChildren, Children
  <2> QED
    BY <1>2, <1>3, <1>6, <2>1
       DEF Descend, LocalTypeOK, ControlInv, AtNode, BeforeVerdicts, stopVars
<1>7. CASE EvaluationDone
  BY <1>2, <1>3, <1>7
     DEF EvaluationDone, LocalTypeOK, ControlInv, AtNode, BeforeVerdicts, stopVars
<1>8. CASE BestPath
  <2>1. best' \in Nodes
    BY <1>8 DEF BestPath, BestTerminal, Terminals, TreeTypeOK, Nodes, Root
  <2>2. UNCHANGED <<iteration, localVars, error, stopVars>> /\ pc' \in {"done", "greedy"}
    BY <1>8 DEF BestPath
  <2> QED
    BY <1>2, <1>3, <2>1, <2>2
       DEF LocalTypeOK, ControlInv, AtNode, BeforeVerdicts, localVars, stopVars
<1>9. CASE BestPathStep
  <2>1. best' \in Nodes
    BY <1>9 DEF BestPathStep, GreedyBest, LiveChildren, Children, ControlInv
  <2>2. UNCHANGED <<iteration, localVars, error, stopVars>> /\ pc' \in {"done", "greedy"}
    BY <1>9 DEF BestPathStep
  <2> QED
    BY <1>2, <1>3, <2>1, <2>2
       DEF LocalTypeOK, ControlInv, AtNode, BeforeVerdicts, localVars, stopVars
<1> QED
  BY <1>4, <1>5, <1>6, <1>7, <1>8, <1>9

(***************************************************************************)
(* The three prunings.                                                     *)
(***************************************************************************)
LEMMA PruneStep ==
  ASSUME TreeTypeOK, LogTypeOK, LocalTypeOK, ControlInv,
         PruneDepthCapped \/ PruneSaturated \/ PruneDeadEnd
  PROVE  TreeTypeOK' /\ LogTypeOK' /\ LocalTypeOK' /\ ControlInv'
<1> USE DEF ControlPoint, ExceptionClass, SearchPhase, Note
<1>0. iteration \in 0..MaxIterations /\ raised \in ExceptionClass
  BY DEF LocalTypeOK, LogTypeOK
<1>1. node \in Nodes
  BY DEF PruneDepthCapped, PruneSaturated, PruneDeadEnd, ControlInv, AtNode
<1>2. /\ PruneSubtree(node)
      /\ UNCHANGED <<shapeVars, score, statVars, critique, revisionVars>>
      /\ UNCHANGED <<iteration, localVars, error, best, stopVars>>
  BY DEF PruneDepthCapped, PruneSaturated, PruneDeadEnd
<1>3. TreeTypeOK' /\ Nodes' = Nodes /\ size' = size
  BY <1>1, <1>2, PruneType
<1>4. LocalTypeOK'
  BY <1>2, <1>3 DEF LocalTypeOK, localVars, stopVars
<1>5. CASE PruneDepthCapped \/ PruneSaturated
  <2>1. pc = "descend" /\ pc' = "select" /\ UNCHANGED raised /\ Quiet
    BY <1>5 DEF PruneDepthCapped, PruneSaturated, Goto
  <2>2. LogTypeOK'
    BY <1>0, <1>3, <2>1, QuietType
  <2>3. ControlInv'
    BY <1>2, <2>1 DEF ControlInv, AtNode, BeforeVerdicts, localVars
  <2> QED
    BY <1>3, <1>4, <2>2, <2>3
<1>6. CASE PruneDeadEnd
  <2>1. pc = "prune" /\ Advance("SELECTION", NoNode, "backtracked", "loop")
    BY <1>6 DEF PruneDeadEnd
  <2>2. LogTypeOK' /\ pc' \in {"loop", "except", "escaped"}
    BY <1>0, <1>3, <2>1, AdvanceType
  <2>3. ControlInv'
    BY <1>2, <2>1, <2>2 DEF ControlInv, AtNode, BeforeVerdicts, localVars
  <2> QED
    BY <1>3, <1>4, <2>2, <2>3
<1> QED
  BY <1>5, <1>6

(***************************************************************************)
(* A granted revision counts an attempt and stores guidance texts.         *)
(***************************************************************************)
LEMMA RevisionStep ==
  ASSUME TreeTypeOK, LogTypeOK, LocalTypeOK, ControlInv, GrantRevision
  PROVE  TreeTypeOK' /\ LogTypeOK' /\ LocalTypeOK' /\ ControlInv'
<1>1. node \in Nodes /\ raised \in ExceptionClass
  BY DEF GrantRevision, ControlInv, AtNode, LogTypeOK
<1>2. RevisionNotes(node) \subseteq Guidance
  <2> SUFFICES ASSUME NEW c \in Children(node), critique[c].guidance # Blank
               PROVE  critique[c].guidance \in Guidance
    BY DEF RevisionNotes
  <2>1. c \in Nodes
    BY DEF Children
  <2>2. critique[c] \in Critique \cup {NoCritique}
    BY <2>1 DEF TreeTypeOK
  <2>3. critique[c] \in Critique
    BY <2>2 DEF NoCritique
  <2> QED
    BY <2>3 DEF Critique
<1>3. attempts' \in [Nodes -> Nat] /\ notes' \in [Nodes -> SUBSET Guidance]
  BY <1>1, <1>2 DEF GrantRevision, CommitRevision, TreeTypeOK
<1>4. UNCHANGED <<shapeVars, status, score, statVars, critique>>
  BY DEF GrantRevision
<1>5. TreeTypeOK' /\ Nodes' = Nodes /\ size' = size
  BY <1>3, <1>4 DEF TreeTypeOK, shapeVars, statVars, Nodes
<1>6. pc = "descend" /\ pc' = "selected" /\ UNCHANGED raised /\ Quiet
  BY DEF GrantRevision, Goto
<1>7. LogTypeOK'
  BY <1>1, <1>5, <1>6, QuietType DEF ControlPoint
<1>8. revived' \in BOOLEAN
  BY DEF GrantRevision
<1>9. LocalTypeOK'
  BY <1>5, <1>8 DEF GrantRevision, LocalTypeOK, stopVars
<1>10. ControlInv'
  BY <1>5, <1>6 DEF GrantRevision, ControlInv, AtNode, BeforeVerdicts
<1> QED
  BY <1>5, <1>7, <1>9, <1>10

(***************************************************************************)
(* The generator's answer, cut to BranchingFactor, is a list of raw texts. *)
(***************************************************************************)
LEMMA CutType ==
  ASSUME NEW answer \in Answers
  PROVE  Cut(answer) \in Seq(RawTexts)
<1>1. PICK k \in 0..MaxReturned : answer \in [1..k -> RawTexts]
  BY DEF Answers
<1>2. k \in Nat
  BY PolicyAssumption
<1>3. answer \in Seq(RawTexts)
  BY <1>1, <1>2
<1>4. Len(answer) = k /\ \A i \in 1..k : answer[i] \in RawTexts
  BY <1>1, <1>2
<1> DEFINE m == IF Len(answer) < BranchingFactor THEN Len(answer) ELSE BranchingFactor
<1>5. m \in 0..k
  BY <1>2, <1>4, ConfigAssumption
<1> HIDE DEF m
<1>6. SubSeq(answer, 1, m) \in Seq(RawTexts)
  BY <1>2, <1>3, <1>4, <1>5
<1> QED
  BY <1>6 DEF Cut, m

(***************************************************************************)
(* The generator's answer and the verdicts of a batch.                     *)
(***************************************************************************)
LEMMA PolicyStep ==
  ASSUME TreeTypeOK, LogTypeOK, LocalTypeOK, ControlInv,
         Generate \/ CollectVerdicts
  PROVE  TreeTypeOK' /\ LogTypeOK' /\ LocalTypeOK' /\ ControlInv'
<1>0. raised \in ExceptionClass
  BY DEF LogTypeOK
<1>1. UNCHANGED treeVars /\ Quiet
      /\ UNCHANGED <<iteration, node, revived, children, valued, solution, error,
                     best, stopVars>>
  BY DEF Generate, CollectVerdicts
<1>2. TreeTypeOK' /\ Nodes' = Nodes /\ size' = size
  BY <1>1, TreeSame
<1>3. pc' \in {"attach", "apply", "except"} /\ raised' \in ExceptionClass
  BY <1>0 DEF Generate, CollectVerdicts, Goto, Raise, Handler, ExceptionClass
<1>4. LogTypeOK'
  BY <1>1, <1>2, <1>3, QuietType DEF ControlPoint
<1>5. CASE Generate
  <2>1. pc = "generate" /\ pc' # "apply" /\ UNCHANGED verdicts
    BY <1>5 DEF Generate, Goto, Raise, Handler
  <2>2. candidates' \in Seq(RawTexts)
    BY <1>5, CutType DEF Generate, LocalTypeOK
  <2>3. LocalTypeOK'
    BY <1>1, <1>2, <2>1, <2>2 DEF LocalTypeOK, stopVars
  <2>4. ControlInv'
    BY <1>1, <1>2, <1>3, <2>1 DEF ControlInv, AtNode, BeforeVerdicts
  <2> QED
    BY <1>2, <1>4, <2>3, <2>4
<1>6. CASE CollectVerdicts
  <2>1. pc = "collect" /\ pc' # "attach" /\ UNCHANGED candidates
    BY <1>6 DEF CollectVerdicts, Goto, Raise, Handler
  <2>2. children \in Seq(Nodes) /\ Len(children) \in Nat
    BY DEF LocalTypeOK
  <2>3. /\ verdicts' \in Seq(Verdicts)
        /\ pc' = "apply" => Len(verdicts') = Len(children)
    <3>1. CASE verdicts' \in [1..Len(children) -> Verdicts]
      BY <2>2, <3>1
    <3>2. CASE Raise("policy") /\ UNCHANGED verdicts
      BY <3>2 DEF LocalTypeOK, Raise, Handler
    <3> QED
      BY <1>6, <3>1, <3>2 DEF CollectVerdicts
  <2>4. LocalTypeOK'
    BY <1>1, <1>2, <2>1, <2>3 DEF LocalTypeOK, stopVars
  <2>5. ControlInv'
    BY <1>1, <1>2, <1>3, <2>1, <2>2, <2>3 DEF ControlInv, AtNode, BeforeVerdicts
  <2> QED
    BY <1>2, <1>4, <2>4, <2>5
<1> QED
  BY <1>5, <1>6

(***************************************************************************)
(* A sequence over a set is one over every larger set.                     *)
(***************************************************************************)
LEMMA SeqMonotone ==
  ASSUME NEW S, NEW T, S \subseteq T, NEW s \in Seq(S)
  PROVE  s \in Seq(T)
  OBVIOUS

\* The first value of a batch and the rest of it keep their types.
LEMMA HeadTail ==
  ASSUME NEW S, NEW s \in Seq(S), s # <<>>
  PROVE  Head(s) \in S /\ Tail(s) \in Seq(S)
  OBVIOUS

(***************************************************************************)
(* Extend keeps the range of a field whose initial value is in it.         *)
(***************************************************************************)
LEMMA ExtendType ==
  ASSUME NEW S, NEW f \in [Nodes -> S], NEW v \in S, size \in Nat
  PROVE  Extend(f, v) \in [1..(size + 1) -> S]
  BY DEF Extend, Nodes

(***************************************************************************)
(* attach: the next candidate becomes a node of the tree, or is dropped.   *)
(***************************************************************************)
LEMMA AttachStep ==
  ASSUME TreeTypeOK, LogTypeOK, LocalTypeOK, ControlInv, AttachCandidate
  PROVE  TreeTypeOK' /\ LogTypeOK' /\ LocalTypeOK' /\ ControlInv'
<1> DEFINE text == Strip[Head(candidates)]
<1>0. /\ pc = "attach" /\ pc' = "attach" /\ UNCHANGED raised /\ Quiet
      /\ candidates # <<>> /\ candidates' = Tail(candidates)
      /\ UNCHANGED <<iteration, node, revived, verdicts, valued, solution, error,
                     best, stopVars>>
  BY DEF AttachCandidate, Goto
<1>1. node \in Nodes /\ size \in Nat \ {0} /\ valued = <<>>
  BY <1>0 DEF ControlInv, AtNode, BeforeVerdicts, TreeTypeOK
<1>2. candidates' \in Seq(RawTexts) /\ Head(candidates) \in RawTexts
  BY <1>0 DEF LocalTypeOK
<1>3. text \in Texts \cup {Blank}
  BY <1>2, PolicyAssumption
<1>4. CASE Rejected(text)
  <2>1. UNCHANGED treeVars /\ UNCHANGED children
    BY <1>4 DEF AttachCandidate
  <2>2. TreeTypeOK' /\ Nodes' = Nodes /\ size' = size
    BY <2>1, TreeSame
  <2>3. LogTypeOK'
    BY <1>0, <2>2, QuietType DEF LogTypeOK
  <2>4. LocalTypeOK'
    BY <1>0, <1>2, <2>1, <2>2 DEF LocalTypeOK, stopVars
  <2>5. ControlInv'
    BY <1>0, <1>1, <2>2 DEF ControlInv, AtNode, BeforeVerdicts
  <2> QED
    BY <2>2, <2>3, <2>4, <2>5
<1>5. CASE ~Rejected(text)
  <2>1. AddChild(node, text) /\ children' = Append(children, size + 1)
    BY <1>5 DEF AttachCandidate
  <2>2. /\ Nodes' = 1..(size + 1) /\ Nodes \subseteq Nodes'
        /\ size + 1 \in Nodes' /\ node \in Nodes'
    BY <1>1, <2>1 DEF AddChild, Nodes
  <2>3. text \in Texts
    BY <1>3, <1>5 DEF Rejected
  <2>4. TreeTypeOK'
    <3>1. size' \in Nat \ {0}
      BY <1>1, <2>1 DEF AddChild
    <3>2. parent' \in [Nodes' -> Nodes' \cup {NoNode}]
      <4>1. parent \in [Nodes -> Nodes' \cup {NoNode}]
        BY <2>2 DEF TreeTypeOK
      <4> QED
        BY <1>1, <2>1, <2>2, <4>1, ExtendType DEF AddChild
    <3>3. path' \in [Nodes' -> SUBSET Nodes']
      <4>1. path \in [Nodes -> SUBSET Nodes']
        BY <2>2 DEF TreeTypeOK
      <4>2. path[node] \cup {size + 1} \in SUBSET Nodes'
        BY <1>1, <2>2, <4>1
      <4> QED
        BY <1>1, <2>1, <2>2, <4>1, <4>2, ExtendType DEF AddChild
    <3>4. depth' \in [Nodes' -> Nat]
      <4>1. depth[node] + 1 \in Nat
        BY <1>1 DEF TreeTypeOK
      <4> QED
        BY <1>1, <2>1, <2>2, <4>1, ExtendType DEF AddChild, TreeTypeOK
    <3>5. content' \in [Nodes' -> Texts \cup {Task}]
      BY <1>1, <2>1, <2>2, <2>3, ExtendType DEF AddChild, TreeTypeOK
    <3>6. status' \in [Nodes' -> NodeStatus]
      <4>1. "PENDING" \in NodeStatus
        BY DEF NodeStatus
      <4> QED
        BY <1>1, <2>1, <2>2, <4>1, ExtendType DEF AddChild, TreeTypeOK
    <3>7. score' \in [Nodes' -> 0..ScoreScale]
      <4>1. 0 \in 0..ScoreScale
        BY TreeAssumption
      <4> QED
        BY <1>1, <2>1, <2>2, <4>1, ExtendType DEF AddChild, TreeTypeOK
    <3>8. visits' \in [Nodes' -> Nat] /\ value_sum' \in [Nodes' -> Nat]
          /\ attempts' \in [Nodes' -> Nat]
      BY <1>1, <2>1, <2>2, ExtendType DEF AddChild, TreeTypeOK
    <3>9. critique' \in [Nodes' -> Critique \cup {NoCritique}]
      BY <1>1, <2>1, <2>2, ExtendType DEF AddChild, TreeTypeOK
    <3>10. notes' \in [Nodes' -> SUBSET Guidance]
      <4>1. {} \in SUBSET Guidance
        OBVIOUS
      <4> QED
        BY <1>1, <2>1, <2>2, <4>1, ExtendType DEF AddChild, TreeTypeOK
    <3> QED
      BY <3>1, <3>2, <3>3, <3>4, <3>5, <3>6, <3>7, <3>8, <3>9, <3>10 DEF TreeTypeOK
  <2>5. LogTypeOK'
    <3>1. EventRecord \subseteq EventRecord'
      BY <2>2 DEF EventRecord
    <3>2. events \in Seq(EventRecord')
      BY <3>1, SeqMonotone DEF LogTypeOK
    <3> QED
      BY <1>0, <3>2 DEF LogTypeOK, Quiet, machineVars
  <2>6. LocalTypeOK'
    <3>1. children' \in Seq(Nodes')
      <4>0. children \in Seq(Nodes)
        BY DEF LocalTypeOK
      <4>1. children \in Seq(Nodes')
        BY <2>2, <4>0, SeqMonotone
      <4> QED
        BY <2>1, <2>2, <4>1
    <3>2. valued' \in Seq([node : Nodes', value : Nat])
      BY <1>0, <1>1
    <3>3. /\ node' \in Nodes' \cup {NoNode} /\ solution' \in Nodes' \cup {NoNode}
          /\ best' \in Nodes' \cup {NoNode}
      BY <1>0, <2>2 DEF LocalTypeOK
    <3> QED
      BY <1>0, <1>2, <3>1, <3>2, <3>3 DEF LocalTypeOK, stopVars
  <2>7. ControlInv'
    BY <1>0, <1>1, <2>2 DEF ControlInv, AtNode, BeforeVerdicts
  <2> QED
    BY <2>4, <2>5, <2>6, <2>7
<1> QED
  BY <1>4, <1>5

(***************************************************************************)
(* The value that backpropagates is a natural number.                      *)
(***************************************************************************)
LEMMA ProductType ==
  ASSUME NEW a \in Nat, NEW b \in Nat
  PROVE  a * b \in Nat
  OBVIOUS

\* shape() of an integer score and a verdict is a natural number.
LEMMA ShapeType ==
  ASSUME NEW d \in Nat, NEW s \in 0..ScoreScale,
         NEW c \in Critique \cup {NoCritique}
  PROVE  Shape(d, s, c) \in Nat
<1> USE TreeAssumption
<1>1. s \in Nat /\ ScoreScale \in Nat /\ DepthHorizon \in Nat
  OBVIOUS
<1>2. CritiqueTerm(c) \in Nat
  <2>1. CASE c = NoCritique
    BY <1>1, <2>1 DEF CritiqueTerm
  <2>2. CASE c # NoCritique
    <3>1. c.severity \in 0..ScoreScale
      BY <2>2 DEF Critique
    <3> QED
      BY <1>1, <2>2, <3>1 DEF CritiqueTerm
  <2> QED
    BY <2>1, <2>2
<1>3. DepthTerm(d) \in Nat
  BY <1>1 DEF DepthTerm
<1>4. TotalWeight \in Nat
  BY DEF TotalWeight
<1>5. (EvaluationWeight * s) * DepthHorizon \in Nat
  BY <1>1, ProductType
<1>6. (CritiqueWeight * CritiqueTerm(c)) * DepthHorizon \in Nat
  BY <1>1, <1>2, ProductType
<1>7. (DepthWeight * ScoreScale) * DepthTerm(d) \in Nat
  BY <1>1, <1>3, ProductType
<1>8. (s * DepthHorizon) * TotalWeight \in Nat
  BY <1>1, <1>4, ProductType
<1> HIDE TreeAssumption
<1> QED
  BY <1>5, <1>6, <1>7, <1>8 DEF Shape

(***************************************************************************)
(* A verdict applied to the child whose turn it is.                        *)
(***************************************************************************)
LEMMA ApplyEvaluationType ==
  ASSUME TreeTypeOK, LocalTypeOK, ControlInv, pc = "apply",
         Len(valued) < Len(children), ApplyEvaluation
  PROVE  /\ Child \in Nodes
         /\ Verdict \in [score : 0..ScoreScale, is_terminal : BOOLEAN]
         /\ score' \in [Nodes -> 0..ScoreScale]
         /\ status' \in [Nodes -> NodeStatus]
<1>1. Len(valued) + 1 \in 1..Len(children) /\ Len(verdicts) = Len(children)
  BY DEF LocalTypeOK, ControlInv
<1>2. Child \in Nodes
  BY <1>1 DEF Child, LocalTypeOK
<1>3. Verdict \in Verdicts
  BY <1>1 DEF Verdict, LocalTypeOK
<1>4. Verdict \in [score : 0..ScoreScale, is_terminal : BOOLEAN]
  BY <1>3, PolicyAssumption
<1>5. score' \in [Nodes -> 0..ScoreScale]
  BY <1>2, <1>4 DEF ApplyEvaluation, TreeTypeOK
<1>6. StatusOf(Verdict) \in NodeStatus
  BY DEF StatusOf, NodeStatus
<1>7. status' \in [Nodes -> NodeStatus]
  BY <1>2, <1>6 DEF ApplyEvaluation, TreeTypeOK
<1> QED
  BY <1>2, <1>4, <1>5, <1>7

(***************************************************************************)
(* One child evaluated, or the batch cut short by the critic or the reward *)
(* model.                                                                  *)
(***************************************************************************)
LEMMA VerdictStep ==
  ASSUME TreeTypeOK, LogTypeOK, LocalTypeOK, ControlInv,
         ApplyVerdict \/ CritiqueFault \/ ShapeFault
  PROVE  TreeTypeOK' /\ LogTypeOK' /\ LocalTypeOK' /\ ControlInv'
<1>1. /\ pc = "apply" /\ Len(valued) < Len(children) /\ ApplyEvaluation /\ Quiet
      /\ UNCHANGED <<shapeVars, statVars, revisionVars, iteration, node, revived,
                     candidates, children, verdicts, error, best, stopVars>>
  BY DEF ApplyVerdict, CritiqueFault, ShapeFault, localVars
<1>2. /\ Child \in Nodes
      /\ Verdict \in [score : 0..ScoreScale, is_terminal : BOOLEAN]
      /\ score' \in [Nodes -> 0..ScoreScale]
      /\ status' \in [Nodes -> NodeStatus]
  BY <1>1, ApplyEvaluationType
<1>3. Diagnoses \subseteq Critique \cup {NoCritique}
  BY PolicyAssumption DEF Diagnoses
<1>4. critique' \in [Nodes -> Critique \cup {NoCritique}]
  <2>1. critique \in [Nodes -> Critique \cup {NoCritique}]
    BY DEF TreeTypeOK
  <2>2. CASE \E c \in Diagnoses : critique' = [critique EXCEPT ![Child] = c]
    BY <1>2, <1>3, <2>1, <2>2
  <2>3. CASE UNCHANGED critique
    BY <2>1, <2>3
  <2> QED
    BY <2>2, <2>3 DEF ApplyVerdict, CritiqueFault, ShapeFault
<1>5. TreeTypeOK' /\ Nodes' = Nodes /\ size' = size
  BY <1>1, <1>2, <1>4 DEF TreeTypeOK, shapeVars, statVars, revisionVars, Nodes
<1>6. pc' \in {"apply", "except"} /\ raised' \in ExceptionClass
  BY <1>1 DEF ApplyVerdict, CritiqueFault, ShapeFault, Goto, Raise, Handler,
              ExceptionClass, LogTypeOK
<1>7. LogTypeOK'
  BY <1>1, <1>5, <1>6, QuietType DEF ControlPoint
<1>8. CASE ApplyVerdict
  <2>1. PICK c \in Diagnoses :
          valued' = Append(valued, [node |-> Child,
                                    value |-> Shape(depth[Child], Verdict.score, c)])
    BY <1>8 DEF ApplyVerdict
  <2>2. depth[Child] \in Nat /\ Verdict.score \in 0..ScoreScale
    BY <1>2 DEF TreeTypeOK
  <2>3. Shape(depth[Child], Verdict.score, c) \in Nat
    BY <1>3, <2>2, ShapeType
  <2>4. valued \in Seq([node : Nodes, value : Nat])
    BY DEF LocalTypeOK
  <2>5. /\ valued' \in Seq([node : Nodes, value : Nat])
        /\ Len(valued') = Len(valued) + 1
    BY <1>2, <2>1, <2>3, <2>4
  <2>6. solution' \in Nodes \cup {NoNode}
    BY <1>2, <1>8 DEF ApplyVerdict, LocalTypeOK
  <2>7. LocalTypeOK'
    BY <1>1, <1>5, <2>5, <2>6 DEF LocalTypeOK, stopVars
  <2>8. Len(valued') <= Len(children)
    BY <1>1, <2>4, <2>5 DEF LocalTypeOK
  <2>9. ControlInv'
    BY <1>1, <1>5, <1>6, <2>8 DEF ControlInv, AtNode, BeforeVerdicts
  <2> QED
    BY <1>5, <1>7, <2>7, <2>9
<1>9. CASE CritiqueFault \/ ShapeFault
  <2>1. UNCHANGED <<valued, solution>> /\ pc' = "except"
    BY <1>9 DEF CritiqueFault, ShapeFault, localVars, Raise, Handler
  <2>2. LocalTypeOK'
    BY <1>1, <1>5, <2>1 DEF LocalTypeOK, stopVars
  <2>3. ControlInv'
    BY <1>5, <2>1 DEF ControlInv, AtNode, BeforeVerdicts
  <2> QED
    BY <1>5, <1>7, <2>2, <2>3
<1> QED
  BY <1>8, <1>9

(***************************************************************************)
(* One (node, value) pair recorded on the path to the root.                *)
(***************************************************************************)
LEMMA BackpropagateStep ==
  ASSUME TreeTypeOK, LogTypeOK, LocalTypeOK, ControlInv, Backpropagate
  PROVE  TreeTypeOK' /\ LogTypeOK' /\ LocalTypeOK' /\ ControlInv'
<1>1. /\ pc = "propagate" /\ pc' = "propagate" /\ UNCHANGED raised /\ Quiet
      /\ valued # <<>> /\ valued' = Tail(valued)
      /\ RecordVisits(Head(valued).node, Head(valued).value)
      /\ UNCHANGED <<shapeVars, status, score, critique, revisionVars>>
      /\ UNCHANGED <<iteration, node, revived, candidates, children, verdicts,
                     solution, error, best, stopVars>>
  BY DEF Backpropagate, Goto
<1>2. /\ Head(valued) \in [node : Nodes, value : Nat]
      /\ Tail(valued) \in Seq([node : Nodes, value : Nat])
  <2>1. valued \in Seq([node : Nodes, value : Nat])
    BY DEF LocalTypeOK
  <2> QED
    BY <1>1, <2>1, HeadTail
<1>3. Head(valued).value \in Nat
  BY <1>2
<1>4. visits' \in [Nodes -> Nat]
  BY <1>1 DEF RecordVisits, TreeTypeOK
<1>5. value_sum' \in [Nodes -> Nat]
  BY <1>1, <1>3 DEF RecordVisits, TreeTypeOK
<1>6. TreeTypeOK' /\ Nodes' = Nodes /\ size' = size
  BY <1>1, <1>4, <1>5 DEF TreeTypeOK, shapeVars, revisionVars, Nodes
<1>7. LogTypeOK'
  BY <1>1, <1>6, QuietType DEF LogTypeOK
<1>8. LocalTypeOK'
  BY <1>1, <1>2, <1>6 DEF LocalTypeOK, stopVars
<1>9. ControlInv'
  BY <1>1, <1>6 DEF ControlInv, AtNode, BeforeVerdicts
<1> QED
  BY <1>6, <1>7, <1>8, <1>9

(***************************************************************************)
(* The handler, and the environment.                                       *)
(***************************************************************************)
LEMMA ExceptStep ==
  ASSUME TreeTypeOK, LogTypeOK, LocalTypeOK, ControlInv, Except
  PROVE  TreeTypeOK' /\ LogTypeOK' /\ LocalTypeOK' /\ ControlInv'
<1>1. /\ Advance("FAILED", NoNode, "error", "exit") /\ error' = raised
      /\ UNCHANGED treeVars /\ UNCHANGED <<iteration, localVars, best, stopVars>>
  BY DEF Except
<1>2. TreeTypeOK' /\ Nodes' = Nodes /\ size' = size
  BY <1>1, TreeSame
<1>3. LogTypeOK' /\ pc' \in {"exit", "except", "escaped"}
  <2>1. iteration \in 0..MaxIterations
    BY DEF LocalTypeOK
  <2> QED
    BY <1>1, <1>2, <2>1, AdvanceType
       DEF SearchPhase, TERMINAL_PHASES, Note, ControlPoint
<1>4. LocalTypeOK'
  BY <1>1, <1>2 DEF LocalTypeOK, LogTypeOK, localVars, stopVars
<1>5. ControlInv'
  BY <1>3 DEF ControlInv, AtNode, BeforeVerdicts
<1> QED
  BY <1>2, <1>3, <1>4, <1>5

\* A cancellation or the deadline leaves everything typed as it was.
LEMMA EnvironmentStep ==
  ASSUME TreeTypeOK, LogTypeOK, LocalTypeOK, ControlInv,
         Cancel \/ DeadlinePasses \/ UNCHANGED vars
  PROVE  TreeTypeOK' /\ LogTypeOK' /\ LocalTypeOK' /\ ControlInv'
<1>1. /\ UNCHANGED treeVars /\ UNCHANGED <<machineVars, pc, iteration, events>>
      /\ UNCHANGED <<localVars, raised, error, best>>
  BY DEF Cancel, DeadlinePasses, vars, runVars
<1>2. TreeTypeOK' /\ Nodes' = Nodes /\ size' = size
  BY <1>1, TreeSame
<1>3. LogTypeOK'
  BY <1>1, <1>2, QuietType DEF LogTypeOK, Quiet
<1>4. cancelAt' \in Nat \cup {NotYet} /\ expiredAt' \in Nat \cup {NotYet}
  <2>1. iteration \in Nat
    BY ConfigAssumption DEF LocalTypeOK
  <2>2. CASE Cancel
    BY <2>1, <2>2 DEF Cancel, LocalTypeOK
  <2>3. CASE DeadlinePasses
    BY <2>1, <2>3 DEF DeadlinePasses, LocalTypeOK
  <2>4. CASE UNCHANGED vars
    BY <2>4 DEF vars, runVars, stopVars, LocalTypeOK
  <2> QED
    BY <2>2, <2>3, <2>4
<1>5. LocalTypeOK'
  BY <1>1, <1>2, <1>4 DEF LocalTypeOK, localVars
<1>6. ControlInv'
  BY <1>1, <1>2 DEF ControlInv, AtNode, BeforeVerdicts, localVars
<1> QED
  BY <1>2, <1>3, <1>5, <1>6

(***************************************************************************)
(* Every step of run(), of its caller and of the clock preserves TypeInv.  *)
(***************************************************************************)
LEMMA TypeStep == TypeInv /\ [Next]_vars => TypeInv'
<1> SUFFICES ASSUME TypeInv, [Next]_vars PROVE TypeInv'
  OBVIOUS
<1>1. TreeTypeOK /\ LogTypeOK /\ LocalTypeOK /\ ControlInv
  BY TypeParts DEF TypeInv
<1>2. TreeTypeOK' /\ LogTypeOK' /\ LocalTypeOK' /\ ControlInv'
  BY <1>1, AnnounceStep, LocalStep, PruneStep, RevisionStep, PolicyStep, AttachStep,
     VerdictStep, BackpropagateStep, ExceptStep, EnvironmentStep
     DEF Next, Controller, Terminated
<1>3. (TypeOK <=> TreeTypeOK /\ LogTypeOK /\ LocalTypeOK)'
  BY DEF TypeOK, LogTypeOK, LocalTypeOK, HistoryRecord, EventRecord
<1> QED
  BY <1>2, <1>3 DEF TypeInv

(***************************************************************************)
(* Type correctness: for every configuration and every answer of the       *)
(* policies, the loop counter stays within max_iterations and every node   *)
(* reference of the run and of its event log is a node of the tree.        *)
(***************************************************************************)
THEOREM TypeCorrect == Spec => []TypeOK
<1>1. TypeInv => TypeOK
  BY DEF TypeInv
<1> QED
  BY <1>1, InitType, TypeStep, PTL DEF Spec

(***************************************************************************)
(* _advance() is a step of the phase machine, or leaves it alone.          *)
(***************************************************************************)
LEMMA AdvanceMachine ==
  ASSUME history \in Seq(HistoryRecord), NEW target \in SearchPhase, NEW n,
         NEW note, NEW next, Advance(target, n, note, next)
  PROVE  MachineNext \/ UNCHANGED machineVars
<1>1. CASE CanTransition(target)
  <2>1. Transition(target, note)
    BY <1>1 DEF Advance
  <2>2. history' = Append(history, PhaseTransition(phase, target, note))
    BY <2>1 DEF Transition
  <2>3. history'[Len(history')] = PhaseTransition(phase, target, note)
    BY <2>2
  <2>4. history'[Len(history')].note = note
    BY <2>3 DEF PhaseTransition
  <2>5. Transition(target, history'[Len(history')].note)
    BY <2>1, <2>2, <2>4 DEF Transition
  <2> QED
    BY <2>5 DEF MachineNext
<1>2. CASE ~CanTransition(target)
  BY <1>2 DEF Advance, machineVars
<1> QED
  BY <1>1, <1>2

(***************************************************************************)
(* A run implements the phase machine of state.py: for every               *)
(* configuration, every fault and every interleaving with the caller, the  *)
(* phase changes along legal edges only, each one recorded, and a terminal *)
(* phase is final.                                                         *)
(***************************************************************************)
THEOREM RefinesMachine == Spec => MachineSpec
<1>1. Init => MachineInit
  BY DEF Init
<1>2. TypeInv /\ [Next]_vars => [MachineNext]_machineVars
  <2> SUFFICES ASSUME TypeInv, [Next]_vars
               PROVE  MachineNext \/ UNCHANGED machineVars
    OBVIOUS
  <2> USE DEF SearchPhase, TERMINAL_PHASES
  <2>0. history \in Seq(HistoryRecord)
    BY DEF TypeInv, TypeOK, HistoryRecord
  <2>1. CASE Start \/ CheckCancel \/ CheckDeadline \/ PollStopCondition
             \/ FrontierEmpty \/ AnnounceRevision \/ AnnounceNotes \/ BeginExpansion
    BY <2>0, <2>1, AdvanceMachine
       DEF Start, CheckCancel, CheckDeadline, PollStopCondition, FrontierEmpty,
           AnnounceRevision, AnnounceNotes, BeginExpansion, Quiet
  <2>2. CASE DeadEnd \/ PruneDeadEnd \/ BeginEvaluation \/ BeginBackpropagation
             \/ Settle \/ Except \/ Exit
    BY <2>0, <2>2, AdvanceMachine
       DEF DeadEnd, PruneDeadEnd, BeginEvaluation, BeginBackpropagation, Settle,
           Except, Exit, Quiet
  <2>3. CASE LoopExit \/ BeginIteration \/ SelectRoot \/ SelectLeaf \/ PruneDepthCapped
             \/ GrantRevision \/ ReviseFault \/ PruneSaturated \/ Descend
             \/ Generate \/ AttachCandidate \/ ExpansionDone
    BY <2>3 DEF LoopExit, BeginIteration, SelectRoot, SelectLeaf, PruneDepthCapped,
                GrantRevision, ReviseFault, PruneSaturated, Descend,
                Generate, AttachCandidate, ExpansionDone, Quiet
  <2>4. CASE CollectVerdicts \/ ApplyVerdict \/ CritiqueFault \/ ShapeFault
             \/ EvaluationDone \/ Backpropagate \/ BackpropagationDone
             \/ BestPath \/ BestPathStep
    BY <2>4 DEF CollectVerdicts, ApplyVerdict, CritiqueFault, ShapeFault,
                EvaluationDone, Backpropagate, BackpropagationDone, BestPath,
                BestPathStep, Quiet
  <2>5. CASE Cancel \/ DeadlinePasses \/ UNCHANGED vars
    BY <2>5 DEF Cancel, DeadlinePasses, vars
  <2> QED
    BY <2>1, <2>2, <2>3, <2>4, <2>5 DEF Next, Controller, Terminated
<1> QED
  BY <1>1, <1>2, InitType, TypeStep, PTL DEF Spec, MachineSpec

-----------------------------------------------------------------------------
(***************************************************************************)
(* The legal edges, phase by phase.                                        *)
(***************************************************************************)
LEMMA Table ==
  /\ TransitionTable["IDLE"] = {"SELECTION"} \cup ExternalStops
  /\ TransitionTable["SELECTION"] =
       {"EXPANSION", "BACKTRACKING", "EXHAUSTED"} \cup ExternalStops
  /\ TransitionTable["EXPANSION"] = {"EVALUATION", "BACKTRACKING"} \cup ExternalStops
  /\ TransitionTable["EVALUATION"] = {"BACKPROPAGATION"} \cup ExternalStops
  /\ TransitionTable["BACKPROPAGATION"] =
       {"SELECTION", "SUCCEEDED", "EXHAUSTED"} \cup ExternalStops
  /\ TransitionTable["BACKTRACKING"] = {"SELECTION", "EXHAUSTED"} \cup ExternalStops
  /\ \A p \in TERMINAL_PHASES : TransitionTable[p] = {}
  BY DEF TransitionTable, SearchPhase, TERMINAL_PHASES

(***************************************************************************)
(* An exception or an escape to the handler is the only way _advance()     *)
(* misses its point; a legal edge can only be missed by a raising sink.    *)
(***************************************************************************)
LEMMA AdvanceOutcome ==
  ASSUME NEW target, NEW n, NEW note, NEW next, Advance(target, n, note, next)
  PROVE  \/ /\ target \in TransitionTable[phase] /\ phase' = target
            /\ \/ pc' = next /\ raised' = raised
               \/ pc' = Handler /\ raised' = "sink"
         \/ /\ target \notin TransitionTable[phase] /\ phase' = phase
            /\ pc' = Handler /\ raised' = "illegal"
  BY DEF Advance, Transition, CanTransition, Goto, Raise, machineVars

(***************************************************************************)
(* The control points by the phase they run in.                            *)
(***************************************************************************)
InSelection == {"loop", "deadline", "poll", "select", "descend", "selected", "expand"}
InExpansion == {"generate", "attach", "deadend", "evaluate"}
InEvaluation == {"collect", "apply", "backpropagate"}
InBackpropagation == {"propagate", "settle"}
InBacktracking == {"revived", "prune"}
InLoop == InSelection \cup InExpansion \cup InEvaluation \cup InBackpropagation
            \cup InBacktracking
Leaving == {"exit", "best", "greedy", "done"}

PhaseInv ==
  /\ pc = "start" => phase = "IDLE"
  /\ pc \in InSelection => phase = "SELECTION"
  /\ pc \in InExpansion => phase = "EXPANSION"
  /\ pc \in InEvaluation => phase = "EVALUATION"
  /\ pc \in InBackpropagation => phase = "BACKPROPAGATION"
  /\ pc \in InBacktracking => phase = "BACKTRACKING"
  /\ pc = "exit" => phase \in TERMINAL_PHASES \cup {"SELECTION"}
  /\ pc \in {"best", "greedy", "done"} => phase \in TERMINAL_PHASES

ErrorInv ==
  /\ pc \in InLoop \cup {"start"} => raised = "none" /\ error = "none"
  /\ pc = "except" => /\ raised \in {"policy", "sink"} /\ error = "none"
                      /\ phase \in TERMINAL_PHASES => raised = "sink"
  /\ pc \in Leaving => /\ raised = error /\ raised # "illegal"
                       /\ phase = "FAILED" <=> error # "none"
  /\ pc = "escaped" => "sink" \in {raised, error}
  /\ raised = "illegal" => pc = "escaped" /\ error = "sink"

(***************************************************************************)
(* A stop request made after this iteration's check is still unseen.       *)
(***************************************************************************)
StopInv ==
  /\ cancelAt # NotYet => /\ iteration <= cancelAt + 1
                          /\ pc \in {"deadline", "poll"} => iteration = cancelAt
  /\ expiredAt # NotYet => /\ iteration <= expiredAt + 1
                           /\ pc = "poll" => iteration = expiredAt

FaultInv == PhaseInv /\ ErrorInv

(***************************************************************************)
(* The three parts hold of a new run.                                      *)
(***************************************************************************)
LEMMA InitControl == Init => FaultInv /\ StopInv
  BY DEF Init, MachineInit, FaultInv, PhaseInv, ErrorInv, StopInv, InSelection,
         InExpansion, InEvaluation, InBackpropagation, InBacktracking, InLoop, Leaving

(***************************************************************************)
(* Every edge the loop requests is legal in the phase it is in; only the   *)
(* handler can request one that is not, after a sink raised on a terminal  *)
(* announcement.                                                           *)
(***************************************************************************)
LEMMA FaultStep == TypeInv /\ FaultInv /\ [Next]_vars => FaultInv'
<1> SUFFICES ASSUME TypeInv, FaultInv, [Next]_vars PROVE FaultInv'
  OBVIOUS
<1> USE DEF FaultInv, PhaseInv, ErrorInv, InSelection, InExpansion, InEvaluation,
            InBackpropagation, InBacktracking, InLoop, Leaving, Handler, ExternalStops,
            TERMINAL_PHASES
<1>1. CASE Start
  BY <1>1, AdvanceOutcome, Table DEF Start
<1>2. CASE CheckCancel
  BY <1>2, AdvanceOutcome, Table DEF CheckCancel, Goto, Quiet, machineVars
<1>3. CASE CheckDeadline
  BY <1>3, AdvanceOutcome, Table DEF CheckDeadline, Goto, Quiet, machineVars
<1>4. CASE PollStopCondition
  BY <1>4, AdvanceOutcome, Table DEF PollStopCondition, Raise, Quiet, machineVars
<1>5. CASE FrontierEmpty
  BY <1>5, AdvanceOutcome, Table DEF FrontierEmpty
<1>6. CASE AnnounceRevision
  BY <1>6, AdvanceOutcome, Table DEF AnnounceRevision, Goto, Quiet, machineVars
<1>7. CASE AnnounceNotes
  BY <1>7, AdvanceOutcome, Table DEF AnnounceNotes
<1>8. CASE BeginExpansion
  BY <1>8, AdvanceOutcome, Table DEF BeginExpansion
<1>9. CASE DeadEnd
  BY <1>9, AdvanceOutcome, Table DEF DeadEnd
<1>10. CASE PruneDeadEnd
  BY <1>10, AdvanceOutcome, Table DEF PruneDeadEnd
<1>11. CASE BeginEvaluation
  BY <1>11, AdvanceOutcome, Table DEF BeginEvaluation
<1>12. CASE BeginBackpropagation
  BY <1>12, AdvanceOutcome, Table DEF BeginBackpropagation
<1>13. CASE Settle
  BY <1>13, AdvanceOutcome, Table DEF Settle
<1>14. CASE Except
  <2>1. CASE phase \in TERMINAL_PHASES
    BY <1>14, <2>1, AdvanceOutcome, Table DEF Except
  <2>2. CASE phase \notin TERMINAL_PHASES
    <3>1. "FAILED" \in TransitionTable[phase]
      BY <2>2, Table DEF TypeInv, TypeOK, SearchPhase
    <3> QED
      BY <1>14, <2>2, <3>1, AdvanceOutcome DEF Except
  <2> QED
    BY <2>1, <2>2
<1>15. CASE Exit
  BY <1>15, AdvanceOutcome, Table DEF Exit, IsTerminal, Goto, Quiet, machineVars
<1>16. CASE LoopExit \/ BeginIteration \/ SelectRoot \/ SelectLeaf \/ PruneDepthCapped
            \/ GrantRevision \/ PruneSaturated \/ Descend \/ ExpansionDone
  BY <1>16 DEF LoopExit, BeginIteration, SelectRoot, SelectLeaf, PruneDepthCapped,
               GrantRevision, PruneSaturated, Descend, ExpansionDone, Goto, Quiet,
               machineVars
<1>17. CASE AttachCandidate \/ ApplyVerdict \/ EvaluationDone \/ Backpropagate
            \/ BackpropagationDone
  BY <1>17 DEF AttachCandidate, ApplyVerdict, EvaluationDone, Backpropagate,
               BackpropagationDone, Goto, Quiet, machineVars
<1>18. CASE ReviseFault \/ CritiqueFault \/ ShapeFault
  BY <1>18 DEF ReviseFault, CritiqueFault, ShapeFault, Raise, Quiet, machineVars
<1>19. CASE Generate \/ CollectVerdicts
  BY <1>19 DEF Generate, CollectVerdicts, Goto, Raise, Quiet, machineVars
<1>20. CASE BestPath \/ BestPathStep
  BY <1>20 DEF BestPath, BestPathStep, Goto, Quiet, machineVars
<1>21. CASE Cancel \/ DeadlinePasses \/ UNCHANGED vars
  BY <1>21 DEF Cancel, DeadlinePasses, vars, runVars, machineVars
<1> QED
  BY <1>1, <1>2, <1>3, <1>4, <1>5, <1>6, <1>7, <1>8, <1>9, <1>10, <1>11, <1>12,
     <1>13, <1>14, <1>15, <1>16, <1>17, <1>18, <1>19, <1>20, <1>21
     DEF Next, Controller, Terminated

(***************************************************************************)
(* Faults are contained for every configuration and every combination of   *)
(* raising policies and sinks: the loop itself never requests an illegal   *)
(* edge, only a raising sink lets an exception out of run(), and FAILED    *)
(* and a recorded error go together.                                       *)
(***************************************************************************)
THEOREM FaultsContained == Spec => []FaultContainment
<1>1. FaultInv => FaultContainment
  BY DEF FaultInv, PhaseInv, ErrorInv, Leaving, FaultContainment
<1> QED
  BY <1>1, InitType, TypeStep, InitControl, FaultStep, PTL DEF Spec

(***************************************************************************)
(* Only the boundary checks, the start of an iteration and the requests    *)
(* themselves touch what StopInv speaks of.                                *)
(***************************************************************************)
LEMMA StopStep == TypeInv /\ StopInv /\ [Next]_vars => StopInv'
<1> SUFFICES ASSUME TypeInv, StopInv, [Next]_vars PROVE StopInv'
  OBVIOUS
<1> USE DEF StopInv, Handler
<1>0. /\ iteration \in Nat
      /\ cancelAt # NotYet => cancelAt \in Nat
      /\ expiredAt # NotYet => expiredAt \in Nat
  BY ConfigAssumption DEF TypeInv, TypeOK
<1>1. CASE CheckCancel
  BY <1>0, <1>1, AdvanceOutcome DEF CheckCancel, Goto, stopVars
<1>2. CASE CheckDeadline
  BY <1>0, <1>2, AdvanceOutcome DEF CheckDeadline, Goto, stopVars
<1>3. CASE BeginIteration
  BY <1>0, <1>3 DEF BeginIteration, Goto, stopVars
<1>4. CASE Cancel
  BY <1>0, <1>4 DEF Cancel
<1>5. CASE DeadlinePasses
  BY <1>0, <1>5 DEF DeadlinePasses
<1>6. CASE UNCHANGED vars
  BY <1>6 DEF vars, runVars, stopVars
<1>7. ASSUME UNCHANGED <<iteration, stopVars>>, pc' \notin {"deadline", "poll"}
      PROVE  StopInv'
  BY <1>7 DEF stopVars
<1>8. CASE Start \/ PollStopCondition \/ FrontierEmpty \/ AnnounceRevision
           \/ AnnounceNotes \/ BeginExpansion \/ DeadEnd \/ PruneDeadEnd
  BY <1>7, <1>8, AdvanceOutcome
     DEF Start, PollStopCondition, FrontierEmpty, AnnounceRevision, AnnounceNotes,
         BeginExpansion, DeadEnd, PruneDeadEnd, Goto, Raise
<1>9. CASE BeginEvaluation \/ BeginBackpropagation \/ Settle \/ Except \/ Exit
  BY <1>7, <1>9, AdvanceOutcome
     DEF BeginEvaluation, BeginBackpropagation, Settle, Except, Exit, Goto
<1>10. CASE LoopExit \/ SelectRoot \/ SelectLeaf \/ PruneDepthCapped \/ GrantRevision
            \/ ReviseFault \/ PruneSaturated \/ Descend \/ Generate \/ AttachCandidate
            \/ ExpansionDone
  BY <1>7, <1>10 DEF LoopExit, SelectRoot, SelectLeaf, PruneDepthCapped,
     GrantRevision, ReviseFault, PruneSaturated, Descend, Generate, AttachCandidate,
     ExpansionDone, Goto, Raise
<1>11. CASE CollectVerdicts \/ ApplyVerdict \/ CritiqueFault \/ ShapeFault
            \/ EvaluationDone \/ Backpropagate \/ BackpropagationDone
            \/ BestPath \/ BestPathStep
  BY <1>7, <1>11 DEF CollectVerdicts, ApplyVerdict, CritiqueFault, ShapeFault,
     EvaluationDone, Backpropagate, BackpropagationDone, BestPath, BestPathStep,
     Goto, Raise
<1> QED
  BY <1>1, <1>2, <1>3, <1>4, <1>5, <1>6, <1>8, <1>9, <1>10, <1>11
     DEF Next, Controller, Terminated

(***************************************************************************)
(* A cancellation or a spent deadline costs at most the one iteration      *)
(* whose boundary check it raced, whatever the policies do.                *)
(***************************************************************************)
THEOREM StopsAtNextBoundary == Spec => []StopsPromptly
<1>1. StopInv => StopsPromptly
  BY DEF StopInv, StopsPromptly
<1> QED
  BY <1>1, InitType, TypeStep, InitControl, StopStep, PTL DEF Spec

(***************************************************************************)
(* What the refinement needs beyond FaultInv, until the sink raises:       *)
(* the loop is left without an announcement only with the budget spent, a  *)
(* revision is announced by a reopened node, and only a policy raises, in  *)
(* one of the phases that call policies.                                   *)
(***************************************************************************)
CallerInv ==
  /\ pc = "exit" /\ phase \notin TERMINAL_PHASES => iteration = MaxIterations
  /\ pc = "revived" => revived = TRUE
  /\ pc = "except" => phase \in {"SELECTION", "EXPANSION", "EVALUATION"}
  /\ raised \in {"none", "policy"} /\ error \in {"none", "policy"}

(***************************************************************************)
(* _advance() on a legal edge in a step in which the sink does not raise.  *)
(***************************************************************************)
LEMMA AdvanceSilently ==
  ASSUME raised' # "sink", NEW target, NEW n, NEW note, NEW next,
         Advance(target, n, note, next), target \in TransitionTable[phase]
  PROVE  phase' = target /\ pc' = next /\ raised' = raised
  BY DEF Advance, Transition, CanTransition, Goto, Raise

(***************************************************************************)
(* A run whose sink has not raised never escapes and never asks for an     *)
(* edge the table does not have.                                           *)
(***************************************************************************)
LEMMA LegalEdges ==
  ASSUME TypeInv, FaultInv, CallerInv
  PROVE  /\ pc # "escaped"
         /\ pc = "start" => "SELECTION" \in TransitionTable[phase]
         /\ pc \in InSelection =>
              {"CANCELLED", "TIMED_OUT", "BUDGET_EXHAUSTED", "EXHAUSTED", "BACKTRACKING",
               "EXPANSION"} \subseteq TransitionTable[phase]
         /\ pc = "revived" => "SELECTION" \in TransitionTable[phase]
         /\ pc = "prune" => "SELECTION" \in TransitionTable[phase]
         /\ pc \in InExpansion => {"EVALUATION", "BACKTRACKING"} \subseteq TransitionTable[phase]
         /\ pc \in InEvaluation => "BACKPROPAGATION" \in TransitionTable[phase]
         /\ pc \in InBackpropagation =>
              {"SELECTION", "SUCCEEDED"} \subseteq TransitionTable[phase]
         /\ pc = "except" => "FAILED" \in TransitionTable[phase]
         /\ pc = "exit" /\ phase \notin TERMINAL_PHASES => "EXHAUSTED" \in TransitionTable[phase]
<1> USE Table DEF FaultInv, PhaseInv, ErrorInv, CallerInv, ExternalStops
<1>1. pc # "escaped"
  OBVIOUS
<1>2. /\ pc = "start" => "SELECTION" \in TransitionTable[phase]
      /\ pc \in InSelection =>
           {"CANCELLED", "TIMED_OUT", "BUDGET_EXHAUSTED", "EXHAUSTED", "BACKTRACKING",
            "EXPANSION"} \subseteq TransitionTable[phase]
  OBVIOUS
<1>3. /\ pc = "revived" => "SELECTION" \in TransitionTable[phase]
      /\ pc = "prune" => "SELECTION" \in TransitionTable[phase]
  BY DEF InBacktracking
<1>4. /\ pc \in InExpansion => {"EVALUATION", "BACKTRACKING"} \subseteq TransitionTable[phase]
      /\ pc \in InEvaluation => "BACKPROPAGATION" \in TransitionTable[phase]
      /\ pc \in InBackpropagation =>
           {"SELECTION", "SUCCEEDED"} \subseteq TransitionTable[phase]
  OBVIOUS
<1>5. /\ pc = "except" => "FAILED" \in TransitionTable[phase]
      /\ pc = "exit" /\ phase \notin TERMINAL_PHASES => "EXHAUSTED" \in TransitionTable[phase]
  OBVIOUS
<1> QED
  BY <1>1, <1>2, <1>3, <1>4, <1>5

(***************************************************************************)
(* One of the listed moves is a step of the automaton.                     *)
(***************************************************************************)
LEMMA MoveTaken ==
  ASSUME NEW stage, NEW ph, NEW i, NEW next, NEW target, NEW cancelled,
         <<stage, ph, next, target>> \in Lifecycle!Moves
  PROVE  [stage |-> next, phase |-> target, iteration |-> i]
           \in Lifecycle!RunNext([stage |-> stage, phase |-> ph, iteration |-> i], cancelled)
<1> DEFINE r == [stage |-> stage, phase |-> ph, iteration |-> i]
           m == <<stage, ph, next, target>>
<1>1. r.stage = stage /\ r.phase = ph /\ m[1] = stage /\ m[2] = ph /\ m[3] = next
      /\ m[4] = target
  OBVIOUS
<1>2. Lifecycle!Moved(r, m[3], m[4]) = [stage |-> next, phase |-> target, iteration |-> i]
  BY <1>1 DEF Lifecycle!Moved
<1>3. m \in Lifecycle!Moves
  OBVIOUS
<1> HIDE DEF r, m
<1>4. m \in {e \in Lifecycle!Moves : e[1] = r.stage /\ e[2] = r.phase}
  BY <1>1, <1>3
<1>5. Lifecycle!Moved(r, m[3], m[4]) \in Lifecycle!RunNext(r, cancelled)
  BY <1>4 DEF Lifecycle!RunNext
<1> QED
  BY <1>2, <1>5 DEF r

(***************************************************************************)
(* Every step in which the sink does not raise preserves CallerInv.        *)
(***************************************************************************)
LEMMA CallerStep ==
  TypeInv /\ FaultInv /\ CallerInv /\ [Next]_vars => CallerInv' \/ SinkRaised'
<1> SUFFICES ASSUME TypeInv, FaultInv, CallerInv, [Next]_vars, raised' # "sink"
             PROVE  CallerInv'
  BY DEF SinkRaised
<1>0. /\ FaultInv' /\ iteration \in 0..MaxIterations
      /\ pc \in InSelection => phase = "SELECTION"
      /\ pc \in InExpansion => phase = "EXPANSION"
      /\ pc \in InEvaluation => phase = "EVALUATION"
  BY FaultStep DEF TypeInv, TypeOK, FaultInv, PhaseInv
<1>1. CASE UNCHANGED iteration /\ UNCHANGED revived /\ UNCHANGED error
           /\ pc' \notin {"exit", "revived", "except"} /\ UNCHANGED raised
  BY <1>1 DEF CallerInv
<1> USE LegalEdges, AdvanceSilently
    DEF InSelection, InExpansion, InEvaluation, InBackpropagation
<1>2. CASE Start \/ AnnounceNotes \/ BeginExpansion \/ DeadEnd \/ PruneDeadEnd
           \/ BeginEvaluation \/ BeginBackpropagation
  <2>1. UNCHANGED <<iteration, revived, error>>
    BY <1>2 DEF Start, AnnounceNotes, BeginExpansion, DeadEnd, PruneDeadEnd,
                BeginEvaluation, BeginBackpropagation, localVars
  <2>2. CASE Start
    BY <1>1, <2>1, <2>2 DEF Start
  <2>3. CASE AnnounceNotes \/ PruneDeadEnd
    BY <1>1, <2>1, <2>3 DEF AnnounceNotes, PruneDeadEnd
  <2>4. CASE BeginEvaluation
    BY <1>1, <2>1, <2>4 DEF BeginEvaluation
  <2>5. CASE BeginBackpropagation
    <3>1. "BACKPROPAGATION" \in TransitionTable[phase]
      BY <2>5 DEF BeginBackpropagation
    <3>2. pc' = "propagate" /\ raised' = raised
      BY <2>5, <3>1 DEF BeginBackpropagation
    <3> QED
      BY <1>1, <2>1, <3>2
  <2>6. CASE BeginExpansion
    <3>1. "EXPANSION" \in TransitionTable[phase]
      BY <2>6 DEF BeginExpansion
    <3>2. pc' = "generate" /\ raised' = raised
      BY <2>6, <3>1 DEF BeginExpansion
    <3> QED
      BY <1>1, <2>1, <3>2
  <2>7. CASE DeadEnd
    BY <1>1, <2>1, <2>7 DEF DeadEnd
  <2> QED
    BY <1>2, <2>2, <2>3, <2>4, <2>5, <2>6, <2>7
<1>3. CASE CheckCancel \/ CheckDeadline \/ PollStopCondition
  <2>1. UNCHANGED <<iteration, revived, error>>
    BY <1>3 DEF CheckCancel, CheckDeadline, PollStopCondition, localVars
  <2>2. \/ pc' \in {"deadline", "poll"} /\ raised' = raised
        \/ pc' = "exit" /\ phase' \in TERMINAL_PHASES /\ raised' = raised
        \/ pc' = "except" /\ phase' = "SELECTION" /\ raised' = "policy"
    BY <1>0, <1>3 DEF CheckCancel, CheckDeadline, PollStopCondition, Goto, Raise,
                      Handler, Quiet, machineVars, TERMINAL_PHASES
  <2> QED
    BY <2>1, <2>2 DEF CallerInv
<1>4. CASE FrontierEmpty \/ Settle
  <2>1. UNCHANGED <<iteration, revived, error>>
    BY <1>4 DEF FrontierEmpty, Settle, localVars
  <2>2. \/ pc' = "loop" /\ raised' = raised
        \/ pc' = "exit" /\ phase' \in TERMINAL_PHASES /\ raised' = raised
    BY <1>4 DEF FrontierEmpty, Settle, TERMINAL_PHASES
  <2> QED
    BY <2>1, <2>2 DEF CallerInv
<1>5. CASE AnnounceRevision
  <2>1. CASE revived
    BY <1>5, <2>1 DEF AnnounceRevision, CallerInv, localVars, TypeInv, TypeOK
  <2>2. CASE ~revived
    BY <1>1, <1>5, <2>2 DEF AnnounceRevision, Goto, localVars
  <2> QED
    BY <2>1, <2>2
<1>6. CASE LoopExit
  BY <1>0, <1>6, ConfigAssumption DEF LoopExit, Goto, CallerInv, localVars
<1>7. CASE Except
  BY <1>0, <1>7 DEF Except, CallerInv, TERMINAL_PHASES, localVars
<1>8. CASE Exit
  BY <1>1, <1>8 DEF Exit, IsTerminal, Goto, localVars
<1> HIDE LegalEdges, AdvanceSilently
<1>9. CASE ReviseFault \/ Generate \/ CollectVerdicts \/ CritiqueFault \/ ShapeFault
  <2>1. UNCHANGED <<iteration, revived, error, phase>>
    BY <1>9 DEF ReviseFault, Generate, CollectVerdicts, CritiqueFault, ShapeFault,
                Quiet, machineVars, localVars
  <2>2. /\ pc \in {"descend", "generate", "collect", "apply"}
        /\ \/ pc' \in {"attach", "apply"} /\ raised' = raised
           \/ pc' = "except" /\ raised' = "policy"
    BY <1>9 DEF ReviseFault, Generate, CollectVerdicts, CritiqueFault, ShapeFault,
                Goto, Raise, Handler
  <2> QED
    BY <1>0, <2>1, <2>2 DEF CallerInv
<1>10. CASE BeginIteration \/ GrantRevision
  BY <1>10 DEF BeginIteration, GrantRevision, Goto, CallerInv
<1>11. CASE SelectRoot \/ SelectLeaf \/ PruneDepthCapped \/ PruneSaturated \/ Descend
            \/ AttachCandidate \/ ExpansionDone
  BY <1>1, <1>11 DEF SelectRoot, SelectLeaf, PruneDepthCapped, PruneSaturated, Descend,
     AttachCandidate, ExpansionDone, Goto, localVars
<1>12. CASE ApplyVerdict \/ EvaluationDone \/ Backpropagate \/ BackpropagationDone
            \/ BestPath \/ BestPathStep
  BY <1>1, <1>12 DEF ApplyVerdict, EvaluationDone, Backpropagate,
     BackpropagationDone, BestPath, BestPathStep, Goto, localVars
<1>13. CASE Cancel \/ DeadlinePasses \/ UNCHANGED vars
  BY <1>13 DEF Cancel, DeadlinePasses, vars, runVars, machineVars, localVars, CallerInv
<1> QED
  BY <1>2, <1>3, <1>4, <1>5, <1>6, <1>7, <1>8, <1>9, <1>10, <1>11, <1>12, <1>13
     DEF Next, Controller, Terminated

(***************************************************************************)
(* The stage of a run, point by point, before and after a step.            *)
(***************************************************************************)
InsidePoints == {"select", "descend", "selected", "generate", "attach", "deadend",
                 "prune", "evaluate", "collect", "apply", "backpropagate",
                 "propagate", "settle"}

StageTable ==
  /\ pc = "start" => Stage = "new"
  /\ pc = "loop" => Stage = "boundary"
  /\ pc \in {"deadline", "poll"} => Stage = "checked"
  /\ pc \in InsidePoints => Stage = "inside"
  /\ pc = "revived" => Stage = "reopened"
  /\ pc = "expand" => Stage = (IF revived THEN "reopened" ELSE "inside")
  /\ pc = "except" => Stage = "failing"
  /\ pc = "exit" => Stage = (IF phase \in TERMINAL_PHASES THEN "over" ELSE "boundary")
  /\ pc \in {"best", "greedy", "done"} => Stage = "over"

\* The stage of the run lifecycle at each control point, now and after a step.
LEMMA StageAt == StageTable /\ StageTable'
  BY DEF StageTable, Stage, IsTerminal, InsidePoints

(***************************************************************************)
(* How a step of the run shows in the automaton.                           *)
(***************************************************************************)
Visible == ThisRun' \in Lifecycle!RunNext(ThisRun, cancelAt # NotYet)

Edge(stage, ph, next, target) ==
  Stage = stage /\ phase = ph /\ Stage' = next /\ phase' = target
    /\ iteration' = iteration

\* An edge of the control graph that the lifecycle has is a visible step.
LEMMA EdgeVisible ==
  ASSUME NEW stage, NEW ph, NEW next, NEW target, Edge(stage, ph, next, target),
         <<stage, ph, next, target>> \in Lifecycle!Moves
  PROVE  Visible
<1>1. /\ ThisRun = [stage |-> stage, phase |-> ph, iteration |-> iteration]
      /\ ThisRun' = [stage |-> next, phase |-> target, iteration |-> iteration]
  BY DEF Edge, ThisRun
<1> QED
  BY <1>1, MoveTaken DEF Visible

\* A step that moves neither stage, phase nor iteration is a stutter of the
\* lifecycle.
LEMMA InvisibleStep ==
  ASSUME Stage' = Stage, UNCHANGED phase, UNCHANGED iteration
  PROVE  UNCHANGED ThisRun
  BY DEF ThisRun

(***************************************************************************)
(* The boundary: the budget, cancel_event, or one more iteration.          *)
(***************************************************************************)
LEMMA BoundaryVisible ==
  ASSUME TypeInv, FaultInv, CallerInv, raised' # "sink",
         CheckCancel \/ (Exit /\ phase \notin TERMINAL_PHASES)
  PROVE  Visible
<1>1. /\ iteration \in Nat /\ MaxIterations \in Nat /\ UNCHANGED iteration
      /\ pc \in {"loop", "exit"}
  BY ConfigAssumption DEF TypeInv, TypeOK, CheckCancel, Exit
<1>2. Stage = "boundary"
  BY <1>1, StageAt DEF StageTable, CheckCancel, Exit
<1> DEFINE r == ThisRun
<1>3. r.stage = "boundary" /\ r.iteration = iteration
  BY <1>2 DEF ThisRun
<1>4. Lifecycle!Boundary(r, cancelAt # NotYet) \subseteq
        Lifecycle!RunNext(r, cancelAt # NotYet)
  BY <1>3 DEF Lifecycle!RunNext
<1>5. CASE Exit /\ phase \notin TERMINAL_PHASES
  <2>1. iteration = MaxIterations /\ phase' = "EXHAUSTED" /\ pc' = "best"
    BY <1>5, LegalEdges, AdvanceSilently DEF Exit, IsTerminal, CallerInv
  <2>2. Stage' = "over"
    BY <2>1, StageAt DEF StageTable
  <2>3. ThisRun' = Lifecycle!Moved(r, "over", "EXHAUSTED")
    BY <1>1, <1>3, <2>1, <2>2 DEF ThisRun, Lifecycle!Moved
  <2>4. Lifecycle!Moved(r, "over", "EXHAUSTED") \in
          Lifecycle!Boundary(r, cancelAt # NotYet)
    <3> HIDE DEF r
    <3> QED
      BY <1>1, <1>3, <2>1 DEF Lifecycle!Boundary
  <2> QED
    BY <1>4, <2>3, <2>4 DEF Visible
<1>6. CASE CheckCancel /\ cancelAt # NotYet
  <2>1. iteration < MaxIterations /\ phase' = "CANCELLED" /\ pc' = "exit"
    BY <1>6, LegalEdges, AdvanceSilently DEF CheckCancel, InSelection
  <2>2. Stage' = "over"
    BY <2>1, StageAt DEF StageTable, TERMINAL_PHASES
  <2>3. ThisRun' = Lifecycle!Moved(r, "over", "CANCELLED")
    BY <1>1, <1>3, <2>1, <2>2 DEF ThisRun, Lifecycle!Moved
  <2>4. Lifecycle!Moved(r, "over", "CANCELLED") \in
          Lifecycle!Boundary(r, cancelAt # NotYet)
    <3> HIDE DEF r
    <3> QED
      BY <1>1, <1>3, <1>6, <2>1 DEF Lifecycle!Boundary
  <2> QED
    BY <1>4, <2>3, <2>4 DEF Visible
<1>7. CASE CheckCancel /\ cancelAt = NotYet
  <2>1. iteration < MaxIterations /\ phase' = "SELECTION" /\ pc' = "deadline"
    BY <1>7 DEF CheckCancel, Goto, Quiet, machineVars, FaultInv, PhaseInv, InSelection
  <2>2. Stage' = "checked"
    BY <2>1, StageAt DEF StageTable
  <2>3. ThisRun' = Lifecycle!Moved(r, "checked", "SELECTION")
    BY <1>1, <1>3, <2>1, <2>2 DEF ThisRun, Lifecycle!Moved
  <2>4. Lifecycle!Moved(r, "checked", "SELECTION") \in
          Lifecycle!Boundary(r, cancelAt # NotYet)
    <3> HIDE DEF r
    <3> QED
      BY <1>1, <1>3, <1>7, <2>1 DEF Lifecycle!Boundary
  <2> QED
    BY <1>4, <2>3, <2>4 DEF Visible
<1> QED
  BY <1>5, <1>6, <1>7

(***************************************************************************)
(* The start of an iteration.                                              *)
(***************************************************************************)
LEMMA IterationVisible ==
  ASSUME BeginIteration
  PROVE  Visible
<1>1. /\ pc = "poll" /\ pc' = "select" /\ phase' = phase
      /\ iteration' = iteration + 1
  BY DEF BeginIteration, Goto, Quiet, machineVars
<1>2. Stage = "checked" /\ Stage' = "inside"
  BY <1>1, StageAt DEF StageTable, InsidePoints
<1> DEFINE r == ThisRun
<1>3. r.stage = "checked" /\ ThisRun' = Lifecycle!Iterate(r)
  BY <1>1, <1>2 DEF ThisRun, Lifecycle!Iterate
<1> HIDE DEF r
<1>4. Lifecycle!Iterate(r) \in Lifecycle!RunNext(r, cancelAt # NotYet)
  BY <1>3 DEF Lifecycle!RunNext
<1> QED
  BY <1>3, <1>4 DEF Visible, r

(***************************************************************************)
(* Every other step is one of the listed moves, or the caller sees nothing *)
(* of it.                                                                  *)
(***************************************************************************)
LEMMA StepVisible ==
  TypeInv /\ FaultInv /\ CallerInv /\ [Next]_vars
    => Visible \/ UNCHANGED ThisRun \/ SinkRaised'
<1> SUFFICES ASSUME TypeInv, FaultInv, CallerInv, [Next]_vars, raised' # "sink"
             PROVE  Visible \/ UNCHANGED ThisRun
  BY DEF SinkRaised
<1>0. /\ pc # "escaped"
      /\ pc = "start" => phase = "IDLE"
      /\ pc \in InSelection => phase = "SELECTION"
      /\ pc \in InExpansion => phase = "EXPANSION"
      /\ pc \in InEvaluation => phase = "EVALUATION"
      /\ pc \in InBackpropagation => phase = "BACKPROPAGATION"
      /\ pc \in InBacktracking => phase = "BACKTRACKING"
  BY LegalEdges DEF FaultInv, PhaseInv
<1>1. CASE CheckCancel \/ BeginIteration \/ (Exit /\ phase \notin TERMINAL_PHASES)
  BY <1>1, BoundaryVisible, IterationVisible
<1> USE DEF InSelection, InExpansion, InEvaluation, InBackpropagation, InBacktracking
<1>2. CASE Start
  <2>1. Edge("new", "IDLE", "boundary", "SELECTION")
    BY <1>0, <1>2, LegalEdges, AdvanceSilently, StageAt DEF Start, StageTable, Edge
  <2> QED
    BY <2>1, EdgeVisible DEF Lifecycle!Moves
<1>3. CASE CheckDeadline \/ PollStopCondition
  <2>1. /\ pc \in {"deadline", "poll"} /\ UNCHANGED iteration
        /\ \/ pc' = "poll" /\ phase' = phase
           \/ pc' = "exit" /\ phase' \in {"TIMED_OUT", "BUDGET_EXHAUSTED"}
           \/ pc' = "except" /\ phase' = phase
    BY <1>3, LegalEdges, AdvanceSilently
       DEF CheckDeadline, PollStopCondition, Goto, Raise, Handler, Quiet, machineVars
  <2>2. \/ Edge("checked", "SELECTION", "checked", "SELECTION")
        \/ Edge("checked", "SELECTION", "over", "TIMED_OUT")
        \/ Edge("checked", "SELECTION", "over", "BUDGET_EXHAUSTED")
        \/ Edge("checked", "SELECTION", "failing", "SELECTION")
    BY <1>0, <2>1, StageAt DEF StageTable, Edge, TERMINAL_PHASES
  <2>3. ASSUME Edge("checked", "SELECTION", "checked", "SELECTION")
        PROVE  UNCHANGED ThisRun
    BY <2>3, InvisibleStep DEF Edge
  <2> QED
    BY <2>2, <2>3, EdgeVisible DEF Lifecycle!Moves
<1>4. CASE FrontierEmpty
  <2>1. Edge("inside", "SELECTION", "over", "EXHAUSTED")
    BY <1>0, <1>4, LegalEdges, AdvanceSilently, StageAt
       DEF FrontierEmpty, StageTable, Edge, InsidePoints, TERMINAL_PHASES
  <2> QED
    BY <2>1, EdgeVisible DEF Lifecycle!Moves
<1>5. CASE AnnounceRevision
  <2>1. CASE revived
    <3>1. Edge("inside", "SELECTION", "reopened", "BACKTRACKING")
      BY <1>0, <1>5, <2>1, LegalEdges, AdvanceSilently, StageAt
         DEF AnnounceRevision, StageTable, Edge, InsidePoints
    <3> QED
      BY <3>1, EdgeVisible DEF Lifecycle!Moves
  <2>2. CASE ~revived
    <3>1. /\ pc = "selected" /\ pc' = "expand"
          /\ UNCHANGED phase /\ UNCHANGED iteration /\ UNCHANGED revived
      BY <1>5, <2>2 DEF AnnounceRevision, Goto, Quiet, machineVars, localVars
    <3>2. Stage = "inside" /\ Stage' = "inside"
      BY <2>2, <3>1, StageAt DEF StageTable, InsidePoints
    <3> QED
      BY <3>1, <3>2, InvisibleStep
  <2> QED
    BY <2>1, <2>2
<1>6. CASE AnnounceNotes
  <2>1. /\ pc = "revived" /\ phase' = "SELECTION" /\ pc' = "expand"
        /\ iteration' = iteration /\ revived' = TRUE
    BY <1>6, LegalEdges, AdvanceSilently DEF AnnounceNotes, CallerInv, localVars
  <2>2. Edge("reopened", "BACKTRACKING", "reopened", "SELECTION")
    BY <1>0, <2>1, StageAt DEF StageTable, Edge
  <2> QED
    BY <2>2, EdgeVisible DEF Lifecycle!Moves
<1>7. CASE BeginExpansion
  <2>1. pc = "expand" /\ "EXPANSION" \in TransitionTable[phase] /\ UNCHANGED iteration
    BY <1>7, LegalEdges DEF BeginExpansion
  <2>2. phase' = "EXPANSION" /\ pc' = "generate"
    BY <1>7, <2>1, AdvanceSilently DEF BeginExpansion
  <2>3. \/ Edge("inside", "SELECTION", "inside", "EXPANSION")
        \/ Edge("reopened", "SELECTION", "inside", "EXPANSION")
    BY <1>0, <2>1, <2>2, StageAt DEF StageTable, Edge, InsidePoints
  <2> QED
    BY <2>3, EdgeVisible DEF Lifecycle!Moves
<1>8. CASE DeadEnd
  <2>1. Edge("inside", "EXPANSION", "inside", "BACKTRACKING")
    BY <1>0, <1>8, LegalEdges, AdvanceSilently, StageAt
       DEF DeadEnd, StageTable, Edge, InsidePoints
  <2> QED
    BY <2>1, EdgeVisible DEF Lifecycle!Moves
<1>9. CASE PruneDeadEnd
  <2>1. Edge("inside", "BACKTRACKING", "boundary", "SELECTION")
    BY <1>0, <1>9, LegalEdges, AdvanceSilently, StageAt
       DEF PruneDeadEnd, StageTable, Edge, InsidePoints
  <2> QED
    BY <2>1, EdgeVisible DEF Lifecycle!Moves
<1>10. CASE BeginEvaluation
  <2>1. Edge("inside", "EXPANSION", "inside", "EVALUATION")
    BY <1>0, <1>10, LegalEdges, AdvanceSilently, StageAt
       DEF BeginEvaluation, StageTable, Edge, InsidePoints
  <2> QED
    BY <2>1, EdgeVisible DEF Lifecycle!Moves
<1>11. CASE BeginBackpropagation
  <2>1. /\ pc = "backpropagate" /\ "BACKPROPAGATION" \in TransitionTable[phase]
        /\ UNCHANGED iteration
    BY <1>11, LegalEdges DEF BeginBackpropagation
  <2>2. phase' = "BACKPROPAGATION" /\ pc' = "propagate"
    BY <1>11, <2>1, AdvanceSilently DEF BeginBackpropagation
  <2>3. Edge("inside", "EVALUATION", "inside", "BACKPROPAGATION")
    BY <1>0, <2>1, <2>2, StageAt DEF StageTable, Edge, InsidePoints
  <2> QED
    BY <2>3, EdgeVisible DEF Lifecycle!Moves
<1>12. CASE Settle
  <2>1. /\ pc = "settle" /\ UNCHANGED iteration
        /\ \/ pc' = "exit" /\ phase' = "SUCCEEDED"
           \/ pc' = "loop" /\ phase' = "SELECTION"
    BY <1>12, LegalEdges, AdvanceSilently DEF Settle
  <2>2. \/ Edge("inside", "BACKPROPAGATION", "boundary", "SELECTION")
        \/ Edge("inside", "BACKPROPAGATION", "over", "SUCCEEDED")
    BY <1>0, <2>1, StageAt DEF StageTable, Edge, InsidePoints, TERMINAL_PHASES
  <2> QED
    BY <2>2, EdgeVisible DEF Lifecycle!Moves
<1>13. CASE Except
  <2>1. /\ pc = "except" /\ UNCHANGED iteration /\ pc' = "exit" /\ phase' = "FAILED"
        /\ phase \in {"SELECTION", "EXPANSION", "EVALUATION"}
    BY <1>13, LegalEdges, AdvanceSilently DEF Except, CallerInv
  <2>2. \/ Edge("failing", "SELECTION", "over", "FAILED")
        \/ Edge("failing", "EXPANSION", "over", "FAILED")
        \/ Edge("failing", "EVALUATION", "over", "FAILED")
    BY <2>1, StageAt DEF StageTable, Edge, TERMINAL_PHASES
  <2> QED
    BY <2>2, EdgeVisible DEF Lifecycle!Moves
<1>14. CASE ReviseFault \/ Generate \/ CollectVerdicts \/ CritiqueFault \/ ShapeFault
  <2>1. /\ pc \in {"descend", "generate", "collect", "apply"}
        /\ UNCHANGED iteration /\ UNCHANGED phase
        /\ pc' \in {"attach", "apply", "except"}
    BY <1>14 DEF ReviseFault, Generate, CollectVerdicts, CritiqueFault, ShapeFault,
                 Goto, Raise, Handler, Quiet, machineVars
  <2>2. \/ Stage' = Stage
        \/ Edge("inside", "SELECTION", "failing", "SELECTION")
        \/ Edge("inside", "EXPANSION", "failing", "EXPANSION")
        \/ Edge("inside", "EVALUATION", "failing", "EVALUATION")
    BY <1>0, <2>1, StageAt DEF StageTable, Edge, InsidePoints
  <2> QED
    BY <2>1, <2>2, EdgeVisible, InvisibleStep DEF Lifecycle!Moves
<1>15. CASE LoopExit \/ (Exit /\ phase \in TERMINAL_PHASES)
  <2>1. /\ UNCHANGED iteration /\ UNCHANGED phase
        /\ \/ pc = "loop" /\ pc' = "exit"
           \/ pc = "exit" /\ pc' = "best" /\ phase \in TERMINAL_PHASES
    BY <1>15 DEF LoopExit, Exit, IsTerminal, Goto, Quiet, machineVars
  <2>2. Stage' = Stage
    BY <1>0, <2>1, StageAt DEF StageTable, TERMINAL_PHASES
  <2> QED
    BY <2>1, <2>2, InvisibleStep
<1>16. CASE SelectRoot \/ SelectLeaf \/ PruneDepthCapped \/ GrantRevision
            \/ PruneSaturated \/ Descend \/ AttachCandidate \/ ExpansionDone
            \/ ApplyVerdict \/ EvaluationDone \/ Backpropagate \/ BackpropagationDone
  <2>1. UNCHANGED iteration /\ UNCHANGED phase /\ {pc, pc'} \subseteq InsidePoints
    <3>1. CASE SelectRoot \/ SelectLeaf \/ PruneDepthCapped \/ GrantRevision
               \/ PruneSaturated \/ Descend
      BY <3>1 DEF SelectRoot, SelectLeaf, PruneDepthCapped, GrantRevision,
                  PruneSaturated, Descend, Goto, Quiet, machineVars, InsidePoints
    <3>2. CASE AttachCandidate \/ ExpansionDone \/ ApplyVerdict \/ EvaluationDone
               \/ Backpropagate \/ BackpropagationDone
      BY <3>2 DEF AttachCandidate, ExpansionDone, ApplyVerdict, EvaluationDone,
                  Backpropagate, BackpropagationDone, Goto, Quiet, machineVars,
                  InsidePoints
    <3> QED
      BY <1>16, <3>1, <3>2
  <2>2. Stage = "inside" /\ Stage' = "inside"
    BY <2>1, StageAt DEF StageTable
  <2> QED
    BY <2>1, <2>2, InvisibleStep
<1>17. CASE BestPath \/ BestPathStep
  <2>1. /\ UNCHANGED iteration /\ UNCHANGED phase
        /\ {pc, pc'} \subseteq {"best", "greedy", "done"}
    BY <1>17 DEF BestPath, BestPathStep, Goto, Quiet, machineVars
  <2>2. Stage = "over" /\ Stage' = "over"
    BY <2>1, StageAt DEF StageTable
  <2> QED
    BY <2>1, <2>2, InvisibleStep
<1>18. CASE Cancel \/ DeadlinePasses \/ UNCHANGED vars
  <2>1. UNCHANGED <<pc, phase, revived, iteration>>
    BY <1>18 DEF Cancel, DeadlinePasses, vars, runVars, machineVars, localVars
  <2>2. Stage' = Stage
    BY <2>1 DEF Stage, IsTerminal
  <2> QED
    BY <2>1, <2>2, InvisibleStep
<1> QED
  BY <1>1, <1>2, <1>3, <1>4, <1>5, <1>6, <1>7, <1>8, <1>9, <1>10, <1>11, <1>12, <1>13,
     <1>14, <1>15, <1>16, <1>17, <1>18 DEF Next, Controller, Terminated

(***************************************************************************)
(* What a raising sink did stays on record: it is the exception being      *)
(* handled, the error of the result, or what run() lets out.               *)
(***************************************************************************)
LEMMA SinkStaysRaised ==
  TypeInv /\ FaultInv /\ SinkRaised /\ [Next]_vars => SinkRaised'
<1> SUFFICES ASSUME TypeInv, FaultInv, SinkRaised, [Next]_vars PROVE SinkRaised'
  OBVIOUS
<1>1. /\ pc \in {"except", "exit", "best", "greedy", "done", "escaped"}
      /\ pc = "except" => raised = "sink"
      /\ pc \in Leaving => error = "sink"
  BY DEF TypeInv, TypeOK, ControlPoint, FaultInv, ErrorInv, SinkRaised, InLoop,
         InSelection, InExpansion, InEvaluation, InBackpropagation, InBacktracking,
         Leaving
<1>2. CASE Except
  BY <1>1, <1>2 DEF Except, SinkRaised
<1>3. CASE Exit \/ BestPath \/ BestPathStep
  BY <1>1, <1>3 DEF Exit, BestPath, BestPathStep, SinkRaised, Leaving
<1>4. CASE Cancel \/ DeadlinePasses \/ UNCHANGED vars
  BY <1>4 DEF Cancel, DeadlinePasses, vars, runVars, SinkRaised
<1>5. Controller => Except \/ Exit \/ BestPath \/ BestPathStep
  BY <1>1 DEF Controller, Start, LoopExit, CheckCancel, CheckDeadline,
     PollStopCondition, BeginIteration, SelectRoot, FrontierEmpty, SelectLeaf,
     PruneDepthCapped, GrantRevision, ReviseFault, PruneSaturated, Descend,
     AnnounceRevision, AnnounceNotes, BeginExpansion, Generate, AttachCandidate,
     ExpansionDone, DeadEnd, PruneDeadEnd, BeginEvaluation, CollectVerdicts,
     ApplyVerdict, CritiqueFault, ShapeFault, EvaluationDone,
     BeginBackpropagation, Backpropagate, BackpropagationDone, Settle
<1> QED
  BY <1>2, <1>3, <1>4, <1>5 DEF Next, Terminated

(***************************************************************************)
(* TreeSearch implements the automaton its callers rely on, for every      *)
(* configuration: a run starts as NewRun, and until its sink raises every  *)
(* step of run() is a step of RunLifecycle or shows nothing to the caller. *)
(***************************************************************************)
THEOREM RunsFollowLifecycle == Spec => ImplementsLifecycle
<1> DEFINE Caller == SinkRaised \/ CallerInv
<1>1. Init => ThisRun = Lifecycle!NewRun
  BY DEF Init, MachineInit, ThisRun, Stage, Lifecycle!NewRun
<1>2. Init => Caller
  BY DEF Init, MachineInit, CallerInv
<1>3. TypeInv /\ FaultInv /\ Caller /\ [Next]_vars => Caller'
  BY CallerStep, SinkStaysRaised
<1>4. TypeInv /\ FaultInv /\ Caller /\ [Next]_vars
        => [~SinkRaised' => ThisRun' \in Lifecycle!RunNext(ThisRun, cancelAt # NotYet)]_ThisRun
  BY StepVisible, SinkStaysRaised DEF Visible
<1> HIDE DEF Caller
<1> QED
  BY <1>1, <1>2, <1>3, <1>4, InitType, TypeStep, InitControl, FaultStep, PTL
     DEF Spec, ImplementsLifecycle

-----------------------------------------------------------------------------
(***************************************************************************)
(* The tree of the search, for every tree the policies can grow: live      *)
(* nodes hang from live nodes only, every restart of _select() removes a   *)
(* node from the frontier, expansions keep within their bounds, and an     *)
(* accepted node ends the search and is what it reports.                   *)
(***************************************************************************)

(***************************************************************************)
(* Paths are closed: they end at the node and contain the paths of their   *)
(* members.                                                                *)
(***************************************************************************)
PathInv ==
  \A n \in Nodes : n \in path[n] /\ \A m \in path[n] : path[m] \subseteq path[n]

(***************************************************************************)
(* The node of the descent stays live until it is expanded.                *)
(***************************************************************************)
Descending == {"descend", "selected", "revived", "expand", "generate", "attach"}

NodeInv == pc \in Descending => is_live(node)

(***************************************************************************)
(* The batch of an expansion: distinct leaves, none of them the node being *)
(* expanded, live until their verdict is applied.                          *)
(***************************************************************************)
HasBatch == {"attach", "evaluate", "collect", "apply"}
NoBatch  == {"start", "loop", "deadline", "poll", "select", "descend", "selected",
             "revived", "expand", "generate", "deadend", "prune",
             "backpropagate", "propagate", "settle"}

Member(i) ==
  /\ children[i] # node
  /\ \A n \in Nodes : children[i] \in path[n] => n = children[i]
  /\ \A j \in DOMAIN children : children[j] = children[i] => j = i
  /\ (pc = "apply" => i > Len(valued)) => is_live(children[i])

BatchInv ==
  /\ pc \in NoBatch => children = <<>>
  /\ pc \in HasBatch => \A i \in DOMAIN children : Member(i)

FrontierInv == PathInv /\ LiveAncestors /\ NodeInv /\ BatchInv

(***************************************************************************)
(* The tree of a new run is its live root.                                 *)
(***************************************************************************)
LEMMA InitFrontier == Init => FrontierInv
<1> SUFFICES ASSUME Init PROVE FrontierInv
  OBVIOUS
<1>1. Nodes = {Root} /\ path[Root] = {Root} /\ is_live(Root)
  BY DEF Init, TreeInit, Nodes, Root, is_live, LIVE_STATUSES
<1>2. PathInv /\ LiveAncestors
  BY <1>1 DEF PathInv, LiveAncestors, Live
<1>3. NodeInv /\ BatchInv
  BY DEF Init, NodeInv, BatchInv, Descending, HasBatch
<1> QED
  BY <1>2, <1>3 DEF FrontierInv

(***************************************************************************)
(* A step that changes neither the shape of the tree nor any status keeps  *)
(* the paths and the frontier.                                             *)
(***************************************************************************)
LEMMA SameFrontier ==
  ASSUME PathInv, LiveAncestors, UNCHANGED <<shapeVars, status>>
  PROVE  PathInv' /\ LiveAncestors' /\ Live' = Live /\ Nodes' = Nodes
<1>1. Nodes' = Nodes /\ path' = path /\ status' = status
  BY DEF shapeVars, Nodes
<1>2. Live' = Live
  BY <1>1 DEF Live, is_live
<1> QED
  BY <1>1, <1>2 DEF PathInv, LiveAncestors

(***************************************************************************)
(* Pruning a subtree removes it from the frontier and nothing else, and    *)
(* leaves no live node below a dead one.                                   *)
(***************************************************************************)
LEMMA PruneFrontier ==
  ASSUME TreeTypeOK, PathInv, LiveAncestors, NEW n \in Nodes, PruneSubtree(n),
         UNCHANGED shapeVars
  PROVE  PathInv' /\ LiveAncestors' /\ Live' = Live \ Walk(n)
<1>1. Nodes' = Nodes /\ path' = path
  BY DEF shapeVars, Nodes
<1>2. PathInv'
  BY <1>1 DEF PathInv
<1>3. \A d \in Nodes : status'[d] \in LIVE_STATUSES
                         <=> status[d] \in LIVE_STATUSES /\ d \notin Walk(n)
  BY DEF PruneSubtree, is_live, LIVE_STATUSES
<1>4. Live' = Live \ Walk(n)
  BY <1>1, <1>3 DEF Live, is_live
<1>5. LiveAncestors'
  <2> SUFFICES ASSUME NEW d \in Live \ Walk(n), NEW a \in path[d]
               PROVE  a \in Live \ Walk(n)
    BY <1>1, <1>4 DEF LiveAncestors
  <2>1. d \in Nodes /\ a \in Live
    BY DEF LiveAncestors, Live
  <2>2. a \notin Walk(n)
    BY <2>1 DEF Walk, PathInv
  <2> QED
    BY <2>1, <2>2
<1> QED
  BY <1>2, <1>4, <1>5

(***************************************************************************)
(* A candidate attached below a live node is a live leaf.                  *)
(***************************************************************************)
LEMMA AttachFrontier ==
  ASSUME TreeTypeOK, PathInv, LiveAncestors, NEW n \in Nodes, is_live(n),
         NEW text, AddChild(n, text)
  PROVE  /\ PathInv' /\ LiveAncestors'
         /\ Nodes' = Nodes \cup {size + 1} /\ size + 1 \notin Nodes
         /\ \A d \in Nodes : path'[d] = path[d] /\ status'[d] = status[d]
         /\ path'[size + 1] = path[n] \cup {size + 1}
         /\ status'[size + 1] = "PENDING"
<1>1. /\ Nodes' = Nodes \cup {size + 1} /\ size + 1 \notin Nodes /\ size \in Nat
      /\ Nodes' = 1..(size + 1)
  <2>1. size \in Nat /\ size' = size + 1
    BY DEF TreeTypeOK, AddChild
  <2>2. 1..(size + 1) = 1..size \cup {size + 1} /\ size + 1 \notin 1..size
    BY <2>1
  <2> QED
    BY <2>1, <2>2 DEF Nodes
<1>2. /\ \A d \in Nodes : path'[d] = path[d] /\ status'[d] = status[d]
      /\ path'[size + 1] = path[n] \cup {size + 1}
      /\ status'[size + 1] = "PENDING"
  BY <1>1 DEF AddChild, Extend, Nodes
<1>3. \A d \in Nodes : path[d] \subseteq Nodes
  BY DEF TreeTypeOK
<1>4. PathInv'
  <2> SUFFICES ASSUME NEW d \in Nodes'
               PROVE  d \in path'[d] /\ \A m \in path'[d] : path'[m] \subseteq path'[d]
    BY DEF PathInv
  <2>1. CASE d \in Nodes
    BY <1>2, <1>3, <2>1 DEF PathInv
  <2>2. CASE d = size + 1
    BY <1>2, <1>3, <2>2 DEF PathInv
  <2> QED
    BY <1>1, <2>1, <2>2
<1>5. Live' = Live \cup {size + 1}
  BY <1>1, <1>2 DEF Live, is_live, LIVE_STATUSES
<1>6. LiveAncestors'
  <2> SUFFICES ASSUME NEW d \in Live'
               PROVE  path'[d] \subseteq Live'
    BY DEF LiveAncestors
  <2>1. CASE d \in Live
    BY <1>2, <1>5, <2>1 DEF LiveAncestors, Live
  <2>2. CASE d = size + 1
    BY <1>2, <1>5, <2>2 DEF LiveAncestors, Live
  <2> QED
    BY <1>5, <2>1, <2>2
<1> QED
  BY <1>1, <1>2, <1>4, <1>6

(***************************************************************************)
(* A verdict on a live leaf: whatever it becomes, nothing hangs below it.  *)
(***************************************************************************)
LEMMA VerdictFrontier ==
  ASSUME TreeTypeOK, PathInv, LiveAncestors, NEW n \in Nodes, is_live(n),
         \A d \in Nodes : n \in path[d] => d = n,
         NEW s, status' = [status EXCEPT ![n] = s], UNCHANGED shapeVars
  PROVE  /\ PathInv' /\ LiveAncestors'
         /\ \A d \in Nodes \ {n} : status'[d] = status[d]
<1>1. Nodes' = Nodes /\ path' = path
  BY DEF shapeVars, Nodes
<1>2. PathInv'
  BY <1>1 DEF PathInv
<1>3. \A d \in Nodes \ {n} : status'[d] = status[d]
  BY DEF TreeTypeOK
<1>4. Live' \subseteq Live /\ Live \ {n} \subseteq Live'
  BY <1>1, <1>3 DEF Live, is_live
<1>5. LiveAncestors'
  <2> SUFFICES ASSUME NEW d \in Live', NEW a \in path[d]
               PROVE  a \in Live'
    BY <1>1 DEF LiveAncestors
  <2>1. d \in Nodes /\ a \in Live
    BY <1>4 DEF LiveAncestors, Live
  <2>2. CASE a = n
    BY <2>1, <2>2
  <2>3. CASE a # n
    BY <1>4, <2>1, <2>3
  <2> QED
    BY <2>2, <2>3
<1> QED
  BY <1>2, <1>3, <1>5

(***************************************************************************)
(* A step that moves the control over an unchanged tree, node and batch.   *)
(***************************************************************************)
LEMMA QuietFrontier ==
  ASSUME FrontierInv, UNCHANGED <<shapeVars, status, node, children>>,
         pc' \in Descending => pc \in Descending,
         pc' \in NoBatch => children = <<>>,
         pc' \in HasBatch => children = <<>> \/ pc \in HasBatch \ {"apply"}
  PROVE  FrontierInv'
<1>1. PathInv' /\ LiveAncestors' /\ Nodes' = Nodes /\ path' = path /\ status' = status
  BY SameFrontier DEF FrontierInv, shapeVars
<1>2. NodeInv'
  BY <1>1 DEF FrontierInv, NodeInv, is_live
<1>3. BatchInv'
  <2>1. CASE children = <<>>
    BY <2>1 DEF BatchInv
  <2>2. CASE children # <<>>
    <3> SUFFICES ASSUME pc' \in HasBatch, NEW i \in DOMAIN children PROVE Member(i)'
      BY <2>2 DEF BatchInv
    <3>1. Member(i) /\ pc # "apply"
      BY <2>2 DEF FrontierInv, BatchInv
    <3> QED
      BY <1>1, <3>1 DEF Member, is_live
  <2> QED
    BY <2>1, <2>2
<1> QED
  BY <1>1, <1>2, <1>3 DEF FrontierInv

(***************************************************************************)
(* The batch grows by a fresh leaf, or not at all.                         *)
(***************************************************************************)
LEMMA AttachBatch ==
  ASSUME TypeInv, FrontierInv, AttachCandidate
  PROVE  FrontierInv'
<1>1. /\ pc = "attach" /\ pc' = "attach" /\ UNCHANGED <<node, valued>>
      /\ TreeTypeOK /\ node \in Nodes /\ is_live(node)
      /\ children \in Seq(Nodes)
      /\ \A i \in DOMAIN children : Member(i)
  BY DEF AttachCandidate, Goto, TypeInv, TypeOK, ControlInv, AtNode, FrontierInv,
         NodeInv, Descending, BatchInv, HasBatch
<1> DEFINE text == Strip[Head(candidates)]
<1>2. CASE Rejected(text)
  <2>1. UNCHANGED <<shapeVars, status, node, children>>
    BY <1>1, <1>2 DEF AttachCandidate, treeVars
  <2> QED
    BY <1>1, <2>1, QuietFrontier DEF Descending, HasBatch, NoBatch
<1>3. CASE ~Rejected(text)
  <2>1. AddChild(node, text) /\ children' = Append(children, size + 1)
    BY <1>3 DEF AttachCandidate
  <2>2. /\ PathInv' /\ LiveAncestors'
        /\ Nodes' = Nodes \cup {size + 1} /\ size + 1 \notin Nodes
        /\ \A d \in Nodes : path'[d] = path[d] /\ status'[d] = status[d]
        /\ path'[size + 1] = path[node] \cup {size + 1}
        /\ status'[size + 1] = "PENDING"
    <3> HIDE DEF text
    <3> QED
      BY <1>1, <2>1, AttachFrontier DEF FrontierInv
  <2>3. NodeInv'
    BY <1>1, <2>2 DEF NodeInv, is_live
  <2>4. ASSUME NEW i \in DOMAIN children' PROVE Member(i)'
    <3>1. /\ DOMAIN children' = DOMAIN children \cup {Len(children) + 1}
          /\ Len(children) + 1 \notin DOMAIN children
          /\ children'[Len(children) + 1] = size + 1
          /\ \A j \in DOMAIN children : children'[j] = children[j]
                                        /\ children[j] \in Nodes
      BY <1>1, <2>1
    <3>2. CASE i \in DOMAIN children
      <4>1. Member(i) /\ children'[i] = children[i] /\ children[i] \in Nodes
        BY <1>1, <3>1, <3>2
      <4>2. children'[i] # node'
        BY <1>1, <4>1 DEF Member
      <4>3. \A n \in Nodes' : children'[i] \in path'[n] => n = children'[i]
        BY <1>1, <2>2, <4>1 DEF Member
      <4>4. \A j \in DOMAIN children' : children'[j] = children'[i] => j = i
        BY <2>2, <3>1, <4>1 DEF Member
      <4>5. is_live(children[i])
        BY <1>1, <4>1 DEF Member
      <4>6. is_live(children[i])'
        BY <2>2, <4>1, <4>5 DEF is_live
      <4> QED
        BY <4>2, <4>3, <4>4, <4>6 DEF Member
    <3>3. CASE i = Len(children) + 1
      <4>1. children'[i] = size + 1
        BY <3>1, <3>3
      <4>2. children'[i] # node'
        BY <1>1, <2>2, <4>1
      <4>3. \A n \in Nodes' : children'[i] \in path'[n] => n = children'[i]
        <5>1. \A n \in Nodes : path[n] \subseteq Nodes
          BY <1>1 DEF TreeTypeOK
        <5> QED
          BY <2>2, <4>1, <5>1
      <4>4. \A j \in DOMAIN children' : children'[j] = children'[i] => j = i
        BY <2>2, <3>1, <3>3, <4>1
      <4>5. is_live(children[i])'
        BY <2>2, <4>1 DEF is_live, LIVE_STATUSES
      <4> QED
        BY <4>2, <4>3, <4>4, <4>5 DEF Member
    <3> QED
      BY <3>1, <3>2, <3>3
  <2>5. BatchInv'
    BY <1>1, <2>4 DEF BatchInv, NoBatch
  <2> QED
    BY <2>2, <2>3, <2>5 DEF FrontierInv
<1> QED
  BY <1>2, <1>3

(***************************************************************************)
(* A verdict takes the next member out of the batch's live part.           *)
(***************************************************************************)
LEMMA VerdictBatch ==
  ASSUME TypeInv, FrontierInv, ApplyVerdict \/ CritiqueFault \/ ShapeFault
  PROVE  FrontierInv'
<1>1. /\ pc = "apply" /\ Len(valued) < Len(children) /\ ApplyEvaluation
      /\ UNCHANGED <<shapeVars, node, children>>
  BY DEF ApplyVerdict, CritiqueFault, ShapeFault, localVars
<1>2. /\ TreeTypeOK /\ children \in Seq(Nodes)
      /\ valued \in Seq([node : Nodes, value : Nat])
      /\ \A i \in DOMAIN children : Member(i)
  BY <1>1 DEF TypeInv, TypeOK, FrontierInv, BatchInv, HasBatch
<1> DEFINE turn == Len(valued) + 1
<1>3. /\ turn \in DOMAIN children /\ Child = children[turn] /\ Child \in Nodes
      /\ turn > Len(valued)
  BY <1>1, <1>2 DEF Child
<1>4. is_live(Child) /\ \A d \in Nodes : Child \in path[d] => d = Child
  BY <1>2, <1>3 DEF Member
<1>5. status' = [status EXCEPT ![Child] = StatusOf(Verdict)]
  BY <1>1 DEF ApplyEvaluation
<1>6. /\ PathInv' /\ LiveAncestors'
      /\ \A d \in Nodes \ {Child} : status'[d] = status[d]
  BY <1>1, <1>2, <1>3, <1>4, <1>5, VerdictFrontier DEF FrontierInv
<1>7. pc' \in {"apply", "except"}
  BY <1>1 DEF ApplyVerdict, CritiqueFault, ShapeFault, Goto, Raise, Handler
<1>8. NodeInv'
  BY <1>7 DEF NodeInv, Descending
<1>9. BatchInv'
  <2> SUFFICES ASSUME pc' = "apply", NEW i \in DOMAIN children PROVE Member(i)'
    BY <1>1, <1>7 DEF BatchInv, HasBatch, NoBatch
  <2>1. ApplyVerdict
    BY <1>1 DEF CritiqueFault, ShapeFault, Raise, Handler
  <2>2. Len(valued') = turn
    BY <1>2, <2>1 DEF ApplyVerdict
  <2>3. Member(i) /\ Nodes' = Nodes /\ path' = path /\ children' = children
    BY <1>1, <1>2 DEF shapeVars, Nodes
  <2>4. ASSUME i > turn PROVE is_live(children[i])'
    <3>1. is_live(children[i]) /\ children[i] # Child
      BY <1>2, <1>3, <2>3, <2>4 DEF Member
    <3>2. children[i] \in Nodes
      BY <1>2
    <3> QED
      BY <1>6, <2>3, <3>1, <3>2 DEF is_live
  <2> QED
    BY <1>1, <2>2, <2>3, <2>4 DEF Member
<1> QED
  BY <1>6, <1>8, <1>9 DEF FrontierInv

(***************************************************************************)
(* The three prunings remove the subtree of a node that still existed on   *)
(* the frontier, or of a dead end.                                         *)
(***************************************************************************)
LEMMA PruneBatch ==
  ASSUME TypeInv, FrontierInv, PruneDepthCapped \/ PruneSaturated \/ PruneDeadEnd
  PROVE  FrontierInv' /\ Live' = Live \ Walk(node)
<1>1. /\ pc \in {"descend", "prune"} /\ PruneSubtree(node)
      /\ UNCHANGED <<shapeVars, children>>
  BY DEF PruneDepthCapped, PruneSaturated, PruneDeadEnd, localVars
<1>2. TreeTypeOK /\ node \in Nodes /\ children = <<>>
  BY <1>1 DEF TypeInv, TypeOK, ControlInv, AtNode, FrontierInv, BatchInv, NoBatch
<1>3. PathInv' /\ LiveAncestors' /\ Live' = Live \ Walk(node)
  BY <1>1, <1>2, PruneFrontier DEF FrontierInv
<1>4. pc' \notin Descending
  BY DEF PruneDepthCapped, PruneSaturated, PruneDeadEnd, Goto, Advance, Raise,
         Handler, Descending
<1>5. NodeInv' /\ BatchInv'
  BY <1>1, <1>2, <1>4 DEF NodeInv, BatchInv
<1> QED
  BY <1>3, <1>5 DEF FrontierInv

(***************************************************************************)
(* Every step preserves FrontierInv.                                       *)
(***************************************************************************)
LEMMA FrontierStep == TypeInv /\ FrontierInv /\ [Next]_vars => FrontierInv'
<1> SUFFICES ASSUME TypeInv, FrontierInv, [Next]_vars PROVE FrontierInv'
  OBVIOUS
<1>0. pc \in NoBatch => children = <<>>
  BY DEF FrontierInv, BatchInv
<1>1. CASE AttachCandidate
  BY <1>1, AttachBatch
<1>2. CASE ApplyVerdict \/ CritiqueFault \/ ShapeFault
  BY <1>2, VerdictBatch
<1>3. CASE PruneDepthCapped \/ PruneSaturated \/ PruneDeadEnd
  BY <1>3, PruneBatch
<1>4. CASE SelectRoot \/ Descend
  <2>1. UNCHANGED <<shapeVars, status>> /\ UNCHANGED children
    BY <1>4 DEF SelectRoot, Descend, treeVars
  <2>2. children = <<>>
    BY <1>0, <1>4 DEF SelectRoot, Descend, NoBatch
  <2>3. is_live(node')
    BY <1>4 DEF SelectRoot, Descend, UctMaximal, LiveChildren
  <2>4. NodeInv'
    BY <2>1, <2>3 DEF NodeInv, is_live
  <2>5. BatchInv'
    BY <2>1, <2>2 DEF BatchInv
  <2> QED
    BY <2>1, <2>4, <2>5, SameFrontier DEF FrontierInv
<1>5. CASE EvaluationDone
  <2>1. UNCHANGED <<shapeVars, status>> /\ children' = <<>> /\ pc' = "backpropagate"
    BY <1>5 DEF EvaluationDone, treeVars, Goto
  <2>2. NodeInv' /\ BatchInv'
    BY <2>1 DEF NodeInv, BatchInv, Descending
  <2> QED
    BY <2>1, <2>2, SameFrontier DEF FrontierInv
<1> USE DEF Descending, NoBatch, HasBatch, Handler
<1>6. CASE ExpansionDone
  BY <1>6, QuietFrontier DEF ExpansionDone, Goto, treeVars, localVars
<1>7. CASE Start \/ LoopExit \/ CheckCancel \/ CheckDeadline \/ PollStopCondition
           \/ BeginIteration
  <2>1. UNCHANGED <<shapeVars, status, node, children>> /\ children = <<>>
    BY <1>0, <1>7 DEF Start, LoopExit, CheckCancel, CheckDeadline, PollStopCondition,
                      BeginIteration, treeVars, localVars
  <2>2. pc' \notin Descending
    BY <1>7 DEF Start, LoopExit, CheckCancel, CheckDeadline, PollStopCondition,
                BeginIteration, Advance, Goto, Raise
  <2> QED
    BY <2>1, <2>2, QuietFrontier
<1>8. CASE FrontierEmpty \/ SelectLeaf \/ GrantRevision \/ ReviseFault
           \/ AnnounceRevision \/ AnnounceNotes \/ BeginExpansion \/ Generate
  <2>1. UNCHANGED <<shapeVars, status, node, children>> /\ children = <<>>
    BY <1>0, <1>8 DEF FrontierEmpty, SelectLeaf, GrantRevision, ReviseFault,
       AnnounceRevision, AnnounceNotes, BeginExpansion, Generate, treeVars, localVars
  <2>2. pc' \in Descending => pc \in Descending
    BY <1>8 DEF FrontierEmpty, SelectLeaf, GrantRevision, ReviseFault,
       AnnounceRevision, AnnounceNotes, BeginExpansion, Generate, Advance, Goto, Raise
  <2> QED
    BY <2>1, <2>2, QuietFrontier
<1>9. CASE DeadEnd \/ BeginBackpropagation \/ Backpropagate \/ BackpropagationDone
           \/ Settle
  <2>1. UNCHANGED <<shapeVars, status, node, children>> /\ children = <<>>
    BY <1>0, <1>9 DEF DeadEnd, BeginBackpropagation, Backpropagate,
       BackpropagationDone, Settle, treeVars, localVars
  <2>2. pc' \notin Descending
    BY <1>9 DEF DeadEnd, BeginBackpropagation, Backpropagate, BackpropagationDone,
                Settle, Advance, Goto, Raise
  <2> QED
    BY <2>1, <2>2, QuietFrontier
<1>10. CASE BeginEvaluation \/ CollectVerdicts
  <2>1. /\ UNCHANGED <<shapeVars, status, node, children>>
        /\ pc \in HasBatch \ {"apply"} /\ pc' \in {"collect", "apply", "except"}
    BY <1>10 DEF BeginEvaluation, CollectVerdicts, Advance, Goto, Raise, treeVars,
                 localVars
  <2> QED
    BY <2>1, QuietFrontier
<1>11. CASE Except \/ Exit \/ BestPath \/ BestPathStep
  <2>1. /\ UNCHANGED <<shapeVars, status, node, children>>
        /\ pc' \in {"exit", "best", "greedy", "done", "escaped"}
    BY <1>11 DEF Except, Exit, BestPath, BestPathStep, Advance, Goto, Raise, treeVars,
                 localVars
  <2> QED
    BY <2>1, QuietFrontier
<1>12. CASE Cancel \/ DeadlinePasses \/ UNCHANGED vars
  <2>1. UNCHANGED <<shapeVars, status>> /\ UNCHANGED <<pc, node, children, valued>>
    BY <1>12 DEF Cancel, DeadlinePasses, vars, runVars, treeVars, localVars
  <2>2. NodeInv' /\ BatchInv'
    BY <2>1 DEF FrontierInv, NodeInv, BatchInv, Member, is_live, shapeVars, Nodes
  <2> QED
    BY <2>1, <2>2, SameFrontier DEF FrontierInv
<1> QED
  BY <1>1, <1>2, <1>3, <1>4, <1>5, <1>6, <1>7, <1>8, <1>9, <1>10, <1>11, <1>12
     DEF Next, Controller, Terminated

(***************************************************************************)
(* Whatever the policies answer, no live node ever hangs below a dead one: *)
(* selection can always reach the whole frontier from the root.            *)
(***************************************************************************)
THEOREM FrontierReachable == Spec => []LiveAncestors
<1>1. FrontierInv => LiveAncestors
  BY DEF FrontierInv
<1> QED
  BY <1>1, InitType, TypeStep, InitFrontier, FrontierStep, PTL DEF Spec

(***************************************************************************)
(* The argument the code gives for the termination of _select(), for every *)
(* tree: a restart removes at least one node from the frontier, and        *)
(* selection never adds one.                                               *)
(***************************************************************************)
THEOREM RestartsTerminate == Spec => RestartsShrinkFrontier
<1>1. ASSUME TypeInv, FrontierInv, [Next]_vars
      PROVE  /\ pc = "descend" => Live' \subseteq Live
             /\ pc = "descend" /\ pc' = "select" => Live' # Live
  <2>1. CASE PruneDepthCapped \/ PruneSaturated
    <3>1. Live' = Live \ Walk(node) /\ pc = "descend"
      BY <1>1, <2>1, PruneBatch DEF PruneDepthCapped, PruneSaturated
    <3>2. node \in Live /\ node \in Walk(node)
      BY <1>1, <3>1 DEF TypeInv, ControlInv, AtNode, FrontierInv, NodeInv, Descending,
                        PathInv, Live, Walk
    <3> QED
      BY <3>1, <3>2
  <2>2. ASSUME pc = "descend", ~(PruneDepthCapped \/ PruneSaturated)
        PROVE  UNCHANGED <<shapeVars, status>> /\ pc' # "select"
    <3>1. CASE SelectLeaf \/ GrantRevision \/ ReviseFault \/ Descend
      BY <3>1 DEF SelectLeaf, GrantRevision, ReviseFault, Descend, Goto, Raise,
                  Handler, treeVars
    <3>2. CASE Cancel \/ DeadlinePasses \/ UNCHANGED vars
      BY <2>2, <3>2 DEF Cancel, DeadlinePasses, vars, runVars, treeVars
    <3> QED
      BY <1>1, <2>2, <3>1, <3>2
         DEF Next, Controller, Terminated, Start, LoopExit, CheckCancel, CheckDeadline,
             PollStopCondition, BeginIteration, SelectRoot, FrontierEmpty,
             AnnounceRevision, AnnounceNotes, BeginExpansion, Generate,
             AttachCandidate, ExpansionDone, DeadEnd, PruneDeadEnd, BeginEvaluation,
             CollectVerdicts, ApplyVerdict, CritiqueFault, ShapeFault, EvaluationDone,
             BeginBackpropagation, Backpropagate, BackpropagationDone, Settle, Except,
             Exit, BestPath, BestPathStep
  <2>3. ASSUME UNCHANGED <<shapeVars, status>> PROVE Live' = Live
    BY <1>1, <2>3, SameFrontier DEF FrontierInv
  <2> QED
    BY <2>1, <2>2, <2>3
<1> QED
  BY <1>1, InitType, TypeStep, InitFrontier, FrontierStep, PTL
     DEF Spec, RestartsShrinkFrontier

-----------------------------------------------------------------------------
(***************************************************************************)
(* Expansions.  The children of a node, by what _expand() checked of them; *)
(* the room the node being expanded has for more of them, whose bound      *)
(* needs the attempts granted so far and the candidates still to look at.  *)
(***************************************************************************)
Expanding == {"selected", "revived", "expand", "generate", "attach"}

Distinct(c) ==
  parent[c] \in Nodes =>
    /\ content[c] # Blank
    /\ depth[c] = depth[parent[c]] + 1 /\ depth[c] <= MaxDepth
    /\ \A d \in Nodes : parent[d] = parent[c] /\ d # c => content[d] # content[c]

ChildInv ==
  /\ \A c \in Nodes : Distinct(c)
  /\ pc \in Expanding => depth[node] < MaxDepth

Allowed(k) == BranchingFactor * k

ChildRoomInv ==
  /\ \A n \in Nodes : Cardinality(Children(n)) <= Allowed(1 + attempts[n])
  /\ pc \in Expanding \ {"attach"} =>
       Cardinality(Children(node)) <= Allowed(attempts[node])
  /\ pc = "attach" =>
       Cardinality(Children(node)) + Len(candidates) <= Allowed(1 + attempts[node])

ExpansionInv == ChildInv /\ ChildRoomInv

\* One expansion more allows one batch of candidates more.
LEMMA AllowedMore ==
  ASSUME NEW k \in Nat
  PROVE  Allowed(k) \in Nat /\ Allowed(1 + k) = Allowed(k) + BranchingFactor
  BY ConfigAssumption DEF Allowed

\* A thought has finitely many children.
LEMMA ChildrenFinite ==
  ASSUME TreeTypeOK, NEW n
  PROVE  IsFiniteSet(Children(n)) /\ Cardinality(Children(n)) \in Nat
<1>1. IsFiniteSet(Nodes)
  BY FS_Interval DEF TreeTypeOK, Nodes
<1>2. Children(n) \subseteq Nodes
  BY DEF Children
<1> QED
  BY <1>1, <1>2, FS_Subset, FS_CardinalityType

(***************************************************************************)
(* The generator's answer holds at most branching_factor candidates.       *)
(***************************************************************************)
LEMMA CutLength ==
  ASSUME NEW answer \in Answers
  PROVE  Len(Cut(answer)) \in Nat /\ Len(Cut(answer)) <= BranchingFactor
<1>1. PICK k \in 0..MaxReturned : answer \in [1..k -> RawTexts]
  BY DEF Answers
<1>2. k \in Nat /\ BranchingFactor \in Nat
  BY PolicyAssumption, ConfigAssumption
<1>3. answer \in Seq(RawTexts) /\ Len(answer) = k
  BY <1>1, <1>2
<1> DEFINE m == IF Len(answer) < BranchingFactor THEN Len(answer) ELSE BranchingFactor
<1>4. m \in 0..k /\ m <= BranchingFactor
  BY <1>2, <1>3
<1> HIDE DEF m
<1>5. Len(SubSeq(answer, 1, m)) = m
  BY <1>2, <1>3, <1>4
<1> QED
  BY <1>2, <1>4, <1>5 DEF Cut, m

\* A new run has expanded nothing and the root has no children.
LEMMA InitExpansion == Init => ExpansionInv
<1> SUFFICES ASSUME Init PROVE ExpansionInv
  OBVIOUS
<1>1. /\ Nodes = {Root} /\ parent[Root] = NoNode /\ NoNode \notin Nodes
      /\ pc = "start" /\ attempts[Root] = 0
  BY DEF Init, TreeInit, Nodes, Root, NoNode
<1>2. ChildInv
  BY <1>1 DEF ChildInv, Distinct, Expanding
<1>3. Children(Root) = {}
  BY <1>1 DEF Children
<1>4. Cardinality(Children(Root)) = 0
  BY <1>3, FS_EmptySet
<1>5. 0 <= Allowed(1 + attempts[Root])
  <2>1. Allowed(0) \in Nat /\ Allowed(1 + 0) = Allowed(0) + BranchingFactor
    BY AllowedMore
  <2> QED
    BY <1>1, <2>1, ConfigAssumption
<1>6. ChildRoomInv
  BY <1>1, <1>4, <1>5 DEF ChildRoomInv, Expanding
<1> QED
  BY <1>2, <1>6 DEF ExpansionInv

(***************************************************************************)
(* A step that leaves shape and attempts alone.                            *)
(***************************************************************************)
LEMMA QuietExpansion ==
  ASSUME ExpansionInv, UNCHANGED <<shapeVars, attempts>>,
         \/ pc' \notin Expanding
         \/ /\ UNCHANGED node /\ pc' # "attach"
            /\ pc \in Expanding \ {"attach"}
  PROVE  ExpansionInv'
<1>1. /\ Nodes' = Nodes /\ parent' = parent /\ content' = content /\ depth' = depth
      /\ attempts' = attempts
  BY DEF shapeVars, Nodes
<1>2. \A n : Children(n)' = Children(n)
  BY <1>1 DEF Children
<1>3. ChildInv'
  BY <1>1 DEF ExpansionInv, ChildInv, Distinct
<1>4. ChildRoomInv'
  <2>1. \A n \in Nodes : Cardinality(Children(n))' <= Allowed(1 + attempts[n])'
    BY <1>1, <1>2 DEF ExpansionInv, ChildRoomInv, Allowed
  <2>2. pc' \in Expanding \ {"attach"} =>
          Cardinality(Children(node))' <= Allowed(attempts[node])'
    BY <1>1, <1>2 DEF ExpansionInv, ChildRoomInv, Allowed
  <2>3. pc' # "attach"
    BY DEF Expanding
  <2> QED
    BY <1>1, <2>1, <2>2, <2>3 DEF ChildRoomInv
<1> QED
  BY <1>3, <1>4 DEF ExpansionInv

(***************************************************************************)
(* Selection ends at an unexpanded node above the depth cap, or at a node  *)
(* with children that is granted one more expansion.                       *)
(***************************************************************************)
LEMMA SelectionExpansion ==
  ASSUME TypeInv, ExpansionInv, SelectLeaf \/ GrantRevision
  PROVE  ExpansionInv'
<1>1. /\ pc = "descend" /\ pc' = "selected" /\ UNCHANGED node /\ node \in Nodes
      /\ UNCHANGED shapeVars /\ TreeTypeOK /\ NoNode \notin Nodes
  BY DEF SelectLeaf, GrantRevision, Goto, TypeInv, TypeOK, ControlInv, AtNode, treeVars,
         localVars, Nodes, NoNode
<1>2. /\ Nodes' = Nodes /\ parent' = parent /\ content' = content /\ depth' = depth
      /\ \A n : Children(n)' = Children(n)
  BY <1>1 DEF shapeVars, Nodes, Children
<1>3. \A n \in Nodes : attempts[n] \in Nat /\ Cardinality(Children(n)) \in Nat
  BY <1>1, ChildrenFinite DEF TreeTypeOK
<1>4. CASE SelectLeaf
  <2>1. Children(node) = {} /\ depth[node] < MaxDepth /\ UNCHANGED attempts
    BY <1>4 DEF SelectLeaf, treeVars, revisionVars
  <2>2. Cardinality(Children(node)) <= Allowed(attempts[node])
    <3>1. Cardinality(Children(node)) = 0
      BY <2>1, FS_EmptySet
    <3>2. Allowed(attempts[node]) \in Nat
      BY <1>1, <1>3, AllowedMore
    <3> QED
      BY <3>1, <3>2
  <2>3. ChildInv'
    BY <1>1, <1>2, <2>1 DEF ExpansionInv, ChildInv, Distinct
  <2>4. ChildRoomInv'
    BY <1>1, <1>2, <2>1, <2>2 DEF ExpansionInv, ChildRoomInv, Allowed
  <2> QED
    BY <2>3, <2>4 DEF ExpansionInv
<1>5. CASE GrantRevision
  <2>1. /\ Children(node) # {}
        /\ attempts' = [attempts EXCEPT ![node] = @ + 1]
    BY <1>5 DEF GrantRevision, Saturated, CommitRevision
  <2>2. depth[node] < MaxDepth
    <3>1. PICK c \in Nodes : parent[c] = node
      BY <2>1 DEF Children
    <3>2. depth[c] = depth[node] + 1 /\ depth[c] <= MaxDepth
      BY <1>1, <3>1 DEF ExpansionInv, ChildInv, Distinct
    <3>3. depth[node] \in Nat /\ MaxDepth \in Nat
      BY <1>1, ConfigAssumption DEF TreeTypeOK
    <3> QED
      BY <3>2, <3>3
  <2>3. ChildInv'
    BY <1>1, <1>2, <2>2 DEF ExpansionInv, ChildInv, Distinct
  <2>4. /\ attempts \in [Nodes -> Nat] /\ attempts'[node] = attempts[node] + 1
        /\ \A n \in Nodes : attempts'[n] = attempts[n] \/ n = node
    BY <1>1, <2>1 DEF TreeTypeOK
  <2>5. ASSUME NEW n \in Nodes
        PROVE  Cardinality(Children(n)) <= Allowed(1 + attempts'[n])
    <3>1. Cardinality(Children(n)) <= Allowed(1 + attempts[n])
      BY DEF ExpansionInv, ChildRoomInv
    <3>2. CASE n = node
      <4>1. attempts'[n] = 1 + attempts[n] /\ 1 + attempts[n] \in Nat
        BY <1>3, <2>4, <3>2
      <4>2. Allowed(1 + attempts[n]) \in Nat
            /\ Allowed(1 + (1 + attempts[n])) = Allowed(1 + attempts[n]) + BranchingFactor
        BY <4>1, AllowedMore
      <4>3. Allowed(1 + attempts'[n]) = Allowed(1 + attempts[n]) + BranchingFactor
        BY <4>1, <4>2
      <4> QED
        BY <1>3, <3>1, <4>2, <4>3, ConfigAssumption
    <3>3. CASE n # node
      BY <2>4, <3>1, <3>3
    <3> QED
      BY <3>2, <3>3
  <2>6. Cardinality(Children(node)) <= Allowed(attempts'[node])
    <3>1. attempts'[node] = 1 + attempts[node]
      BY <1>1, <1>3, <2>4
    <3> QED
      BY <1>1, <3>1 DEF ExpansionInv, ChildRoomInv
  <2>7. ChildRoomInv'
    BY <1>1, <1>2, <2>5, <2>6 DEF ChildRoomInv, Allowed
  <2> QED
    BY <2>3, <2>7 DEF ExpansionInv
<1> QED
  BY <1>4, <1>5

(***************************************************************************)
(* The candidates of one answer fit into the room of the node.             *)
(***************************************************************************)
LEMMA GenerateExpansion ==
  ASSUME TypeInv, ExpansionInv, Generate, pc' = "attach"
  PROVE  ExpansionInv'
<1>1. /\ pc = "generate" /\ UNCHANGED node /\ node \in Nodes
      /\ UNCHANGED treeVars /\ TreeTypeOK
      /\ \E answer \in Answers : candidates' = Cut(answer)
  BY DEF Generate, Raise, Handler, TypeInv, TypeOK, ControlInv, AtNode
<1>2. /\ Nodes' = Nodes /\ parent' = parent /\ content' = content /\ depth' = depth
      /\ attempts' = attempts
      /\ \A n : Children(n)' = Children(n)
  BY <1>1 DEF treeVars, shapeVars, revisionVars, Nodes, Children
<1>3. Len(candidates') \in Nat /\ Len(candidates') <= BranchingFactor
  BY <1>1, CutLength
<1>4. Cardinality(Children(node)) <= Allowed(attempts[node])
      /\ Cardinality(Children(node)) \in Nat /\ attempts[node] \in Nat
  BY <1>1, ChildrenFinite DEF ExpansionInv, ChildRoomInv, Expanding, TreeTypeOK
<1>5. Allowed(attempts[node]) \in Nat
      /\ Allowed(1 + attempts[node]) = Allowed(attempts[node]) + BranchingFactor
  BY <1>4, AllowedMore
<1>6. Cardinality(Children(node)) + Len(candidates') <= Allowed(1 + attempts[node])
  BY <1>3, <1>4, <1>5, ConfigAssumption
<1>7. ChildInv'
  BY <1>1, <1>2 DEF ExpansionInv, ChildInv, Distinct, Expanding
<1>8. ChildRoomInv'
  <2>1. \A n \in Nodes' : Cardinality(Children(n))' <= Allowed(1 + attempts[n])'
    BY <1>2 DEF ExpansionInv, ChildRoomInv, Allowed
  <2> QED
    BY <1>1, <1>2, <1>6, <2>1 DEF ChildRoomInv, Allowed
<1> QED
  BY <1>7, <1>8 DEF ExpansionInv

(***************************************************************************)
(* The shape of the tree after a candidate is attached.                    *)
(***************************************************************************)
LEMMA AttachShape ==
  ASSUME TreeTypeOK, NEW n \in Nodes, NEW text, AddChild(n, text)
  PROVE  /\ size \in Nat /\ Nodes' = Nodes \cup {size + 1} /\ size + 1 \notin Nodes
         /\ \A d \in Nodes : /\ parent'[d] = parent[d] /\ content'[d] = content[d]
                             /\ depth'[d] = depth[d] /\ attempts'[d] = attempts[d]
         /\ parent'[size + 1] = n /\ content'[size + 1] = text
         /\ depth'[size + 1] = depth[n] + 1 /\ attempts'[size + 1] = 0
         /\ \A d \in Nodes : parent[d] # size + 1
<1>1. size \in Nat /\ size' = size + 1
  BY DEF TreeTypeOK, AddChild
<1>2. 1..(size + 1) = 1..size \cup {size + 1} /\ size + 1 \notin 1..size
  BY <1>1
<1>3. Nodes' = 1..(size + 1) /\ Nodes = 1..size
  BY <1>1 DEF Nodes
<1>4. /\ \A d \in Nodes : d <= size /\ d \in 1..(size + 1)
      /\ ~(size + 1 <= size) /\ size + 1 \in 1..(size + 1)
  BY <1>1, <1>3
<1>5. /\ \A d \in Nodes : parent'[d] = parent[d] /\ content'[d] = content[d]
      /\ parent'[size + 1] = n /\ content'[size + 1] = text
  BY <1>4 DEF AddChild, Extend
<1>6. /\ \A d \in Nodes : depth'[d] = depth[d] /\ attempts'[d] = attempts[d]
      /\ depth'[size + 1] = depth[n] + 1 /\ attempts'[size + 1] = 0
  BY <1>4 DEF AddChild, Extend
<1>7. \A d \in Nodes : parent[d] # size + 1
  <2>1. \A d \in Nodes : parent[d] \in Nodes \/ parent[d] = 0
    BY DEF TreeTypeOK, NoNode
  <2>2. size + 1 # 0 /\ size + 1 \notin Nodes
    BY <1>1, <1>2, <1>3
  <2> QED
    BY <2>1, <2>2
<1> QED
  BY <1>1, <1>2, <1>3, <1>5, <1>6, <1>7

(***************************************************************************)
(* A candidate that passed the checks of _expand() is a good child, and    *)
(* takes the place in the room of the candidate it was.                    *)
(***************************************************************************)
LEMMA AttachExpansion ==
  ASSUME TypeInv, ExpansionInv, AttachCandidate
  PROVE  ExpansionInv'
<1> DEFINE text == Strip[Head(candidates)]
           room == Allowed(1 + attempts[node])
<1>1. /\ pc = "attach" /\ pc' = "attach" /\ UNCHANGED node /\ node \in Nodes
      /\ TreeTypeOK /\ candidates # <<>> /\ candidates' = Tail(candidates)
      /\ candidates \in Seq(RawTexts)
  BY DEF AttachCandidate, Goto, TypeInv, TypeOK, ControlInv, AtNode
<1>2. /\ Len(candidates) \in Nat /\ Len(candidates') \in Nat
      /\ Len(candidates') = Len(candidates) - 1
  BY <1>1
<1>3. /\ \A n : IsFiniteSet(Children(n)) /\ Cardinality(Children(n)) \in Nat
      /\ \A n \in Nodes : attempts[n] \in Nat /\ 1 + attempts[n] \in Nat
      /\ NoNode \notin Nodes
  <2>1. \A n : IsFiniteSet(Children(n)) /\ Cardinality(Children(n)) \in Nat
    BY <1>1, ChildrenFinite
  <2>2. \A n \in Nodes : attempts[n] \in Nat /\ 1 + attempts[n] \in Nat
    BY <1>1 DEF TreeTypeOK
  <2>3. NoNode \notin Nodes
    BY DEF Nodes, NoNode
  <2> QED
    BY <2>1, <2>2, <2>3
<1>4. /\ Cardinality(Children(node)) + Len(candidates) <= room
      /\ depth[node] < MaxDepth /\ room \in Nat
  <2>1. 1 + attempts[node] \in Nat
    BY <1>1, <1>3
  <2>2. room \in Nat
    BY <2>1, AllowedMore
  <2> QED
    BY <1>1, <2>2 DEF ExpansionInv, ChildInv, ChildRoomInv, Expanding
<1>5. CASE Rejected(text)
  <2>1. UNCHANGED treeVars
    BY <1>5 DEF AttachCandidate
  <2>2. /\ Nodes' = Nodes /\ parent' = parent /\ content' = content /\ depth' = depth
        /\ attempts' = attempts
        /\ \A n : Children(n)' = Children(n)
    BY <2>1 DEF treeVars, shapeVars, revisionVars, Nodes, Children
  <2>3. Cardinality(Children(node)) + Len(candidates') <= room
    <3> HIDE DEF room
    <3> QED
      BY <1>1, <1>2, <1>3, <1>4
  <2>4. ChildInv'
    BY <1>1, <2>2 DEF ExpansionInv, ChildInv, Distinct, Expanding
  <2>5. ChildRoomInv'
    <3>1. \A n \in Nodes' : Cardinality(Children(n))' <= Allowed(1 + attempts[n])'
      BY <2>2 DEF ExpansionInv, ChildRoomInv, Allowed
    <3> QED
      BY <1>1, <2>2, <2>3, <3>1 DEF ChildRoomInv, Allowed
  <2> QED
    BY <2>4, <2>5 DEF ExpansionInv
<1>6. CASE ~Rejected(text)
  <2>0. AddChild(node, text)
    BY <1>6 DEF AttachCandidate
  <2>1. PICK new \in Nat : new = size + 1
    BY <1>1 DEF TreeTypeOK
  <2>2. text # Blank /\ \A c \in Nodes : parent[c] = node => content[c] # text
    BY <1>6 DEF Rejected, Children
  <2> HIDE DEF text
  <2>3. /\ Nodes' = Nodes \cup {new} /\ new \notin Nodes
        /\ \A d \in Nodes : /\ parent'[d] = parent[d] /\ content'[d] = content[d]
                            /\ depth'[d] = depth[d] /\ attempts'[d] = attempts[d]
        /\ parent'[new] = node /\ content'[new] = text
        /\ depth'[new] = depth[node] + 1 /\ attempts'[new] = 0
        /\ \A d \in Nodes : parent[d] # new
    BY <1>1, <2>0, <2>1, AttachShape
  <2>4. ASSUME NEW c \in Nodes' PROVE Distinct(c)'
    <3>1. CASE c = new
      <4>1. depth[node] + 1 <= MaxDepth
        BY <1>1, <1>4, ConfigAssumption DEF TreeTypeOK
      <4> QED
        BY <1>1, <2>2, <2>3, <3>1, <4>1 DEF Distinct
    <3>2. CASE c \in Nodes
      <4>1. Distinct(c) /\ parent[c] \in Nodes \cup {NoNode} /\ new # NoNode
        BY <1>1, <2>1, <3>2 DEF ExpansionInv, ChildInv, TreeTypeOK, NoNode
      <4> SUFFICES ASSUME parent[c] \in Nodes PROVE Distinct(c)'
        BY <2>3, <3>2, <4>1 DEF Distinct
      <4>2. /\ content'[c] # Blank /\ depth'[c] = depth'[parent'[c]] + 1
            /\ depth'[c] <= MaxDepth
        BY <2>3, <3>2, <4>1 DEF Distinct
      <4>3. ASSUME NEW d \in Nodes', parent'[d] = parent'[c], d # c
            PROVE  content'[d] # content'[c]
        BY <2>2, <2>3, <3>2, <4>1, <4>3 DEF Distinct
      <4> QED
        BY <4>2, <4>3 DEF Distinct
    <3> QED
      BY <2>3, <3>1, <3>2
  <2>5. ChildInv'
    BY <1>1, <1>4, <2>3, <2>4 DEF ChildInv, Expanding
  <2>6. /\ Children(node)' = Children(node) \cup {new} /\ new \notin Children(node)
        /\ Children(new)' = {}
        /\ \A n \in Nodes \ {node} : Children(n)' = Children(n)
    BY <1>1, <2>3 DEF Children
  <2>7. Cardinality(Children(node)') = Cardinality(Children(node)) + 1
    BY <1>3, <2>6, FS_AddElement
  <2>8. Cardinality(Children(node)') + Len(candidates') <= room
    <3> HIDE DEF room
    <3> QED
      BY <1>2, <1>3, <1>4, <2>7
  <2>9. ASSUME NEW n \in Nodes'
        PROVE  Cardinality(Children(n)') <= Allowed(1 + attempts'[n])
    <3>1. CASE n = node
      <4>1. Allowed(1 + attempts'[n]) = room
        BY <1>1, <2>3, <3>1
      <4>2. Children(n)' = Children(node)'
        BY <1>1, <3>1 DEF Children
      <4>3. Cardinality(Children(node)') \in Nat
        BY <1>3, <2>7
      <4> HIDE DEF room
      <4> QED
        BY <1>2, <1>4, <2>8, <4>1, <4>2, <4>3
    <3>2. CASE n = new
      <4>1. Cardinality(Children(n)') = 0
        BY <2>6, <3>2, FS_EmptySet
      <4>2. attempts'[n] = 0 /\ Allowed(1 + 0) \in Nat
        <5>1. 1 + 0 \in Nat
          OBVIOUS
        <5> QED
          BY <2>3, <3>2, <5>1, AllowedMore
      <4> QED
        BY <4>1, <4>2
    <3>3. CASE n \in Nodes \ {node}
      BY <2>3, <2>6, <3>3 DEF ExpansionInv, ChildRoomInv
    <3> QED
      BY <2>3, <3>1, <3>2, <3>3
  <2>10. ChildRoomInv'
    BY <1>1, <2>3, <2>8, <2>9 DEF ChildRoomInv, Allowed
  <2> QED
    BY <2>5, <2>10 DEF ExpansionInv
<1> QED
  BY <1>5, <1>6

(***************************************************************************)
(* Every step preserves ExpansionInv.                                      *)
(***************************************************************************)
LEMMA ExpansionStep == TypeInv /\ ExpansionInv /\ [Next]_vars => ExpansionInv'
<1> SUFFICES ASSUME TypeInv, ExpansionInv, [Next]_vars PROVE ExpansionInv'
  OBVIOUS
<1>1. CASE SelectLeaf \/ GrantRevision
  BY <1>1, SelectionExpansion
<1>2. CASE AttachCandidate
  BY <1>2, AttachExpansion
<1> USE DEF Expanding, Handler
<1>3. CASE Generate
  <2>1. CASE pc' = "attach"
    BY <1>3, <2>1, GenerateExpansion
  <2>2. CASE pc' # "attach"
    BY <1>3, <2>2, QuietExpansion
       DEF Generate, Goto, Raise, treeVars, revisionVars
  <2> QED
    BY <2>1, <2>2
<1>4. CASE AnnounceRevision \/ AnnounceNotes \/ BeginExpansion
  <2>1. UNCHANGED <<shapeVars, attempts>> /\ UNCHANGED node
    BY <1>4 DEF AnnounceRevision, AnnounceNotes, BeginExpansion, treeVars, revisionVars,
                localVars
  <2>2. /\ pc \in {"selected", "revived", "expand"}
        /\ pc' \in {"revived", "expand", "generate", "except"}
    BY <1>4, AdvanceOutcome DEF AnnounceRevision, AnnounceNotes, BeginExpansion, Goto
  <2> QED
    BY <2>1, <2>2, QuietExpansion
<1>5. CASE Start \/ LoopExit \/ CheckCancel \/ CheckDeadline \/ PollStopCondition
           \/ BeginIteration \/ SelectRoot \/ FrontierEmpty
  <2>1. UNCHANGED <<shapeVars, attempts>>
    BY <1>5 DEF Start, LoopExit, CheckCancel, CheckDeadline, PollStopCondition,
                BeginIteration, SelectRoot, FrontierEmpty, treeVars, revisionVars
  <2>2. pc' \notin Expanding
    BY <1>5, AdvanceOutcome DEF Start, LoopExit, CheckCancel, CheckDeadline,
       PollStopCondition, BeginIteration, SelectRoot, FrontierEmpty, Goto, Raise
  <2> QED
    BY <2>1, <2>2, QuietExpansion
<1>6. CASE PruneDepthCapped \/ ReviseFault \/ PruneSaturated \/ Descend
           \/ ExpansionDone \/ DeadEnd \/ PruneDeadEnd \/ BeginEvaluation
  <2>1. UNCHANGED <<shapeVars, attempts>>
    BY <1>6 DEF PruneDepthCapped, ReviseFault, PruneSaturated, Descend, ExpansionDone,
                DeadEnd, PruneDeadEnd, BeginEvaluation, treeVars, revisionVars
  <2>2. pc' \notin Expanding
    BY <1>6, AdvanceOutcome DEF PruneDepthCapped, ReviseFault, PruneSaturated, Descend,
       ExpansionDone, DeadEnd, PruneDeadEnd, BeginEvaluation, Goto, Raise
  <2> QED
    BY <2>1, <2>2, QuietExpansion
<1>7. CASE CollectVerdicts \/ ApplyVerdict \/ CritiqueFault \/ ShapeFault
           \/ EvaluationDone \/ BeginBackpropagation \/ Backpropagate
           \/ BackpropagationDone \/ Settle
  <2>1. UNCHANGED <<shapeVars, attempts>>
    BY <1>7 DEF CollectVerdicts, ApplyVerdict, CritiqueFault, ShapeFault,
       EvaluationDone, BeginBackpropagation, Backpropagate, BackpropagationDone, Settle,
       treeVars, revisionVars
  <2>2. pc' \notin Expanding
    BY <1>7, AdvanceOutcome DEF CollectVerdicts, ApplyVerdict, CritiqueFault, ShapeFault,
       EvaluationDone, BeginBackpropagation, Backpropagate, BackpropagationDone, Settle,
       Goto, Raise
  <2> QED
    BY <2>1, <2>2, QuietExpansion
<1>8. CASE Except \/ Exit \/ BestPath \/ BestPathStep
  <2>1. UNCHANGED <<shapeVars, attempts>>
    BY <1>8 DEF Except, Exit, BestPath, BestPathStep, treeVars, revisionVars
  <2>2. pc' \notin Expanding
    BY <1>8, AdvanceOutcome DEF Except, Exit, BestPath, BestPathStep, Goto
  <2> QED
    BY <2>1, <2>2, QuietExpansion
<1>9. CASE Cancel \/ DeadlinePasses \/ UNCHANGED vars
  <2>1. /\ UNCHANGED <<pc, node, candidates>>
        /\ Nodes' = Nodes /\ parent' = parent /\ content' = content /\ depth' = depth
        /\ attempts' = attempts
        /\ \A n : Children(n)' = Children(n)
    BY <1>9 DEF Cancel, DeadlinePasses, vars, runVars, treeVars, shapeVars, revisionVars,
                localVars, Nodes, Children
  <2>2. ChildInv'
    BY <2>1 DEF ExpansionInv, ChildInv, Distinct
  <2>3. ChildRoomInv'
    BY <2>1 DEF ExpansionInv, ChildRoomInv, Allowed
  <2> QED
    BY <2>2, <2>3 DEF ExpansionInv
<1> QED
  BY <1>1, <1>2, <1>3, <1>4, <1>5, <1>6, <1>7, <1>8, <1>9
     DEF Next, Controller, Terminated

(***************************************************************************)
(* Whatever the generator answers and however often nodes are reopened:    *)
(* siblings have distinct, non-blank contents, no node lies below          *)
(* max_depth, and a node has at most branching_factor children for each    *)
(* expansion it was granted.                                               *)
(***************************************************************************)
THEOREM ExpansionsBounded == Spec => []ExpansionBounds
<1>1. ExpansionInv => ExpansionBounds
  <2> SUFFICES ASSUME ExpansionInv, NEW n \in Nodes
               PROVE  /\ \A c \in Children(n) :
                           /\ content[c] # Blank
                           /\ depth[c] = depth[n] + 1 /\ depth[c] <= MaxDepth
                           /\ \A d \in Children(n) \ {c} : content[c] # content[d]
                      /\ Cardinality(Children(n)) <= BranchingFactor * (1 + attempts[n])
    BY DEF ExpansionBounds
  <2>1. Cardinality(Children(n)) <= BranchingFactor * (1 + attempts[n])
    BY DEF ExpansionInv, ChildRoomInv, Allowed
  <2>2. \A c \in Children(n) :
          /\ content[c] # Blank
          /\ depth[c] = depth[n] + 1 /\ depth[c] <= MaxDepth
          /\ \A d \in Children(n) \ {c} : content[c] # content[d]
    BY DEF ExpansionInv, ChildInv, Distinct, Children
  <2> QED
    BY <2>1, <2>2
<1> QED
  BY <1>1, InitType, TypeStep, InitExpansion, ExpansionStep, PTL DEF Spec

-----------------------------------------------------------------------------
(***************************************************************************)
(* Acceptance.  Accepted nodes are siblings of one batch with a passing    *)
(* score; from their verdict to the end of their iteration the run has     *)
(* one of them as its solution, and in no other iteration are there any.   *)
(***************************************************************************)
VerdictPoints == {"apply", "backpropagate", "propagate", "settle"}

RootPath == path[Root] = {Root}

SiblingInv ==
  pc \in HasBatch => \A i \in DOMAIN children : parent[children[i]] = node

MarkInv ==
  \A t \in Terminals :
    score[t] >= AcceptThreshold /\ \A u \in Terminals : parent[u] = parent[t]

SolutionInv ==
  /\ pc \in VerdictPoints =>
       /\ \A t \in Terminals : parent[t] = node /\ solution \in Terminals
       /\ Terminals = {} => solution = NoNode
  /\ pc \in (InLoop \cup {"start"}) \ VerdictPoints => Terminals = {} /\ solution = NoNode
  /\ phase = "SELECTION" => Terminals = {}

ResultInv ==
  /\ pc \in Leaving /\ Terminals # {} => phase \in {"SUCCEEDED", "FAILED"}
  /\ pc \in Leaving /\ phase = "SUCCEEDED" => solution \in Terminals
  /\ pc = "greedy" => Terminals = {}
  /\ pc \in {"greedy", "done"} /\ Terminals = {} => path[best] \ {Root} \subseteq Live
  /\ pc = "done" /\ Terminals # {} => best \in BestTerminal

AcceptInv == RootPath /\ SiblingInv /\ MarkInv /\ SolutionInv /\ ResultInv

\* A new run has accepted no solution.
LEMMA InitAccept == Init => AcceptInv
<1> SUFFICES ASSUME Init PROVE AcceptInv
  OBVIOUS
<1>1. Terminals = {}
  BY DEF Init, TreeInit, Terminals, Nodes, Root
<1>2. RootPath
  BY DEF Init, TreeInit, RootPath, Root
<1> QED
  BY <1>1, <1>2 DEF Init, MachineInit, AcceptInv, SiblingInv, HasBatch, MarkInv,
     SolutionInv, VerdictPoints, ResultInv, Leaving

(***************************************************************************)
(* A step that leaves shape, statuses and scores alone.                    *)
(***************************************************************************)
LEMMA SameMarks ==
  ASSUME AcceptInv, UNCHANGED <<shapeVars, status, score>>
  PROVE  /\ RootPath' /\ MarkInv'
         /\ Terminals' = Terminals /\ Live' = Live /\ BestTerminal' = BestTerminal
         /\ path' = path /\ parent' = parent
<1>1. /\ Nodes' = Nodes /\ path' = path /\ parent' = parent /\ status' = status
      /\ score' = score
  BY DEF shapeVars, Nodes
<1>2. Terminals' = Terminals /\ Live' = Live
  BY <1>1 DEF Terminals, Live, is_live
<1>3. BestTerminal' = BestTerminal
  BY <1>1, <1>2 DEF BestTerminal
<1> QED
  BY <1>1, <1>2, <1>3 DEF AcceptInv, RootPath, MarkInv

(***************************************************************************)
(* The steps of the loop that leave the marks alone.                       *)
(***************************************************************************)
LEMMA LoopAccept ==
  ASSUME TypeInv, FaultInv, FrontierInv, AcceptInv,
         UNCHANGED <<shapeVars, status, score>>, UNCHANGED solution,
         pc \in InLoop \cup {"start"}, pc' \in InLoop \cup {"except", "escaped"},
         pc \in VerdictPoints => pc' \in VerdictPoints \cup {"except"} /\ phase' # "SELECTION",
         pc' \in VerdictPoints => UNCHANGED node,
         pc' \in HasBatch => UNCHANGED <<node, children>>
                             /\ (children = <<>> \/ pc \in HasBatch)
  PROVE  AcceptInv'
<1>1. /\ RootPath' /\ MarkInv' /\ Terminals' = Terminals /\ parent' = parent
  BY SameMarks
<1>2. SiblingInv'
  BY <1>1 DEF AcceptInv, SiblingInv
<1>3. SolutionInv'
  <2>1. CASE pc \in VerdictPoints
    BY <1>1, <2>1 DEF AcceptInv, SolutionInv, VerdictPoints, InLoop, InSelection,
       InExpansion, InEvaluation, InBackpropagation, InBacktracking
  <2>2. CASE pc \notin VerdictPoints
    BY <1>1, <2>2 DEF AcceptInv, SolutionInv
  <2> QED
    BY <2>1, <2>2
<1>4. ResultInv'
  BY DEF ResultInv, Leaving, InLoop, InSelection, InExpansion, InEvaluation,
         InBackpropagation, InBacktracking
<1> QED
  BY <1>1, <1>2, <1>3, <1>4 DEF AcceptInv

(***************************************************************************)
(* A step that leaves the marks alone and stops a run with nothing marked. *)
(***************************************************************************)
LEMMA StopAccept ==
  ASSUME AcceptInv, UNCHANGED <<shapeVars, status, score>>, UNCHANGED solution,
         Terminals = {}, solution = NoNode,
         pc' \notin HasBatch \cup {"greedy", "done"},
         pc' \in Leaving => phase' # "SUCCEEDED"
  PROVE  AcceptInv'
<1>1. /\ RootPath' /\ MarkInv' /\ Terminals' = Terminals /\ parent' = parent
  BY SameMarks
<1>2. SiblingInv' /\ SolutionInv' /\ ResultInv'
  BY <1>1 DEF SiblingInv, SolutionInv, ResultInv
<1> QED
  BY <1>1, <1>2 DEF AcceptInv

(***************************************************************************)
(* A candidate becomes a fresh, unmarked child of the node.                *)
(***************************************************************************)
LEMMA AttachAccept ==
  ASSUME TypeInv, FaultInv, FrontierInv, AcceptInv, AttachCandidate
  PROVE  AcceptInv'
<1>1. /\ pc = "attach" /\ pc' = "attach" /\ UNCHANGED <<node, solution>>
      /\ TreeTypeOK /\ node \in Nodes /\ is_live(node) /\ UNCHANGED phase
      /\ children \in Seq(Nodes)
  BY DEF AttachCandidate, Goto, Quiet, machineVars, TypeInv, TypeOK, ControlInv, AtNode,
         FrontierInv, NodeInv, Descending
<1>2. \A i \in DOMAIN children : parent[children[i]] = node
  BY <1>1 DEF AcceptInv, SiblingInv, HasBatch
<1>3. Terminals = {} /\ solution = NoNode
  BY <1>1 DEF AcceptInv, SolutionInv, VerdictPoints, InLoop, InExpansion
<1> DEFINE text == Strip[Head(candidates)]
<1>4. CASE Rejected(text)
  <2>1. UNCHANGED <<shapeVars, status, score>> /\ UNCHANGED children
    BY <1>4 DEF AttachCandidate, treeVars
  <2>2. RootPath' /\ MarkInv' /\ Terminals' = {} /\ parent' = parent
    BY <1>3, <2>1, SameMarks
  <2>3. SiblingInv'
    BY <1>1, <1>2, <2>1, <2>2 DEF SiblingInv
  <2>4. SolutionInv' /\ ResultInv'
    BY <1>1, <1>3, <2>2 DEF SolutionInv, ResultInv, VerdictPoints, Leaving
  <2> QED
    BY <2>2, <2>3, <2>4 DEF AcceptInv
<1>5. CASE ~Rejected(text)
  <2>1. AddChild(node, text) /\ children' = Append(children, size + 1)
    BY <1>5 DEF AttachCandidate
  <2>2. /\ Nodes' = Nodes \cup {size + 1} /\ size + 1 \notin Nodes
        /\ \A d \in Nodes : path'[d] = path[d] /\ status'[d] = status[d]
        /\ status'[size + 1] = "PENDING"
    <3> HIDE DEF text
    <3> QED
      BY <1>1, <2>1, AttachFrontier DEF FrontierInv
  <2>3. /\ \A d \in Nodes : parent'[d] = parent[d]
        /\ parent'[size + 1] = node
    BY <1>1, <2>1 DEF AddChild, Extend, Nodes, TreeTypeOK
  <2>4. Terminals' = {}
    BY <1>3, <2>2 DEF Terminals
  <2>5. RootPath'
    <3>1. Root \in Nodes
      BY <1>1 DEF TreeTypeOK, Nodes, Root
    <3> QED
      BY <2>2, <3>1 DEF AcceptInv, RootPath, Root
  <2>6. SiblingInv'
    <3> SUFFICES ASSUME NEW i \in DOMAIN children' PROVE parent'[children'[i]] = node
      BY <1>1 DEF SiblingInv
    <3>1. /\ DOMAIN children' = DOMAIN children \cup {Len(children) + 1}
          /\ children'[Len(children) + 1] = size + 1
          /\ \A j \in DOMAIN children : children'[j] = children[j]
                                        /\ children[j] \in Nodes
      BY <1>1, <2>1
    <3> QED
      BY <1>2, <2>3, <3>1
  <2>7. MarkInv' /\ SolutionInv' /\ ResultInv'
    BY <1>1, <1>3, <2>4 DEF MarkInv, SolutionInv, ResultInv, VerdictPoints, Leaving
  <2> QED
    BY <2>5, <2>6, <2>7 DEF AcceptInv
<1> QED
  BY <1>4, <1>5

(***************************************************************************)
(* A verdict marks the next child, if at all, with a passing score; the    *)
(* first one marked becomes the solution, unless a fault intervenes.       *)
(***************************************************************************)
LEMMA VerdictAccept ==
  ASSUME TypeInv, FaultInv, FrontierInv, AcceptInv,
         ApplyVerdict \/ CritiqueFault \/ ShapeFault
  PROVE  AcceptInv'
<1>1. /\ pc = "apply" /\ Len(valued) < Len(children) /\ ApplyEvaluation
      /\ UNCHANGED <<shapeVars, node, children>> /\ UNCHANGED phase
      /\ pc' \in {"apply", "except"}
  BY DEF ApplyVerdict, CritiqueFault, ShapeFault, localVars, Quiet, machineVars, Goto,
         Raise, Handler
<1>2. /\ TreeTypeOK /\ children \in Seq(Nodes) /\ phase = "EVALUATION"
      /\ valued \in Seq([node : Nodes, value : Nat])
      /\ \A i \in DOMAIN children : Member(i) /\ parent[children[i]] = node
  BY <1>1 DEF TypeInv, TypeOK, FrontierInv, BatchInv, HasBatch, AcceptInv, SiblingInv,
              FaultInv, PhaseInv, InEvaluation
<1> DEFINE turn == Len(valued) + 1
<1>3. /\ turn \in DOMAIN children /\ Child = children[turn] /\ Child \in Nodes
      /\ turn > Len(valued)
  BY <1>1, <1>2 DEF Child
<1>4. is_live(Child) /\ parent[Child] = node
  BY <1>2, <1>3 DEF Member
<1>5. /\ \A t \in Terminals : parent[t] = node /\ solution \in Terminals
      /\ Terminals = {} => solution = NoNode
  BY <1>1 DEF AcceptInv, SolutionInv, VerdictPoints
<1> DEFINE passes == StatusOf(Verdict) = "TERMINAL"
<1>6. Child \notin Terminals
  BY <1>4 DEF is_live, LIVE_STATUSES, Terminals
<1>7. /\ status' = [status EXCEPT ![Child] = StatusOf(Verdict)]
      /\ score' = [score EXCEPT ![Child] = Verdict.score]
      /\ Nodes' = Nodes /\ path' = path /\ parent' = parent
  BY <1>1 DEF ApplyEvaluation, shapeVars, Nodes
<1>8. /\ \A d \in Nodes \ {Child} : status'[d] = status[d] /\ score'[d] = score[d]
      /\ status'[Child] = StatusOf(Verdict) /\ score'[Child] = Verdict.score
  BY <1>2, <1>3, <1>7 DEF TreeTypeOK
<1>9. Terminals' = IF passes THEN Terminals \cup {Child} ELSE Terminals
  BY <1>3, <1>6, <1>7, <1>8 DEF Terminals
<1>10. passes => Verdict.score >= AcceptThreshold
  BY DEF StatusOf
<1>11. \A t \in Terminals' : parent[t] = node
  BY <1>4, <1>5, <1>9
<1>12. MarkInv'
  <2>1. \A t \in Terminals : t \in Nodes /\ score[t] >= AcceptThreshold
    BY DEF AcceptInv, MarkInv, Terminals
  <2>2. \A t \in Terminals' : score'[t] >= AcceptThreshold
    <3>1. \A t \in Terminals : score'[t] >= AcceptThreshold
      BY <1>6, <1>8, <2>1
    <3>2. passes => score'[Child] >= AcceptThreshold
      BY <1>8, <1>10
    <3> HIDE DEF passes
    <3> QED
      BY <1>9, <3>1, <3>2
  <2> QED
    BY <1>7, <1>11, <2>2 DEF MarkInv
<1>13. RootPath' /\ SiblingInv'
  BY <1>1, <1>2, <1>7 DEF AcceptInv, RootPath, SiblingInv
<1>14. SolutionInv'
  <2>1. pc' = "apply" => ApplyVerdict
    BY DEF CritiqueFault, ShapeFault, Raise, Handler
  <2>2. pc' = "apply" => solution' = IF solution = NoNode /\ passes THEN Child
                                                                    ELSE solution
    BY <2>1 DEF ApplyVerdict
  <2>3. pc' = "apply" =>
          /\ Terminals' # {} => solution' \in Terminals'
          /\ Terminals' = {} => solution' = NoNode
    <3>1. NoNode \notin Terminals
      BY <1>2 DEF TreeTypeOK, Terminals, Nodes, NoNode
    <3>2. solution = NoNode <=> Terminals = {}
      BY <1>5, <3>1
    <3> HIDE DEF passes
    <3> QED
      BY <1>5, <1>9, <2>2, <3>2
  <2> QED
    BY <1>1, <1>2, <1>7, <1>11, <2>3 DEF SolutionInv, VerdictPoints, InLoop,
       InSelection, InExpansion, InEvaluation, InBackpropagation, InBacktracking
<1>15. ResultInv'
  BY <1>1 DEF ResultInv, Leaving
<1> QED
  BY <1>12, <1>13, <1>14, <1>15 DEF AcceptInv

(***************************************************************************)
(* A pruning only runs while nothing is marked, and marks nothing.         *)
(***************************************************************************)
LEMMA PruneAccept ==
  ASSUME TypeInv, FaultInv, FrontierInv, AcceptInv,
         PruneDepthCapped \/ PruneSaturated \/ PruneDeadEnd
  PROVE  AcceptInv'
<1>1. /\ pc \in {"descend", "prune"} /\ PruneSubtree(node)
      /\ UNCHANGED <<shapeVars, score>> /\ UNCHANGED solution
      /\ pc' \in {"select", "loop", "except"}
  BY DEF PruneDepthCapped, PruneSaturated, PruneDeadEnd, localVars, Goto, Advance,
         Raise, Handler
<1>2. Terminals = {} /\ solution = NoNode
  BY <1>1 DEF AcceptInv, SolutionInv, VerdictPoints, InLoop, InSelection,
              InBacktracking
<1>3. Terminals' = {} /\ path' = path
  BY <1>1, <1>2 DEF Terminals, PruneSubtree, shapeVars, Nodes
<1>4. RootPath' /\ SiblingInv' /\ MarkInv' /\ SolutionInv' /\ ResultInv'
  BY <1>1, <1>2, <1>3 DEF AcceptInv, RootPath, SiblingInv, HasBatch, MarkInv,
     SolutionInv, VerdictPoints, ResultInv, Leaving
<1> QED
  BY <1>4 DEF AcceptInv

(***************************************************************************)
(* The end of an iteration: SUCCEEDED with the solution, or a loop head    *)
(* with nothing marked.                                                    *)
(***************************************************************************)
LEMMA SettleAccept ==
  ASSUME TypeInv, FaultInv, FrontierInv, AcceptInv, Settle
  PROVE  AcceptInv'
<1>1. /\ pc = "settle" /\ UNCHANGED <<shapeVars, status, score>> /\ UNCHANGED solution
      /\ phase = "BACKPROPAGATION"
  BY DEF Settle, treeVars, localVars, FaultInv, PhaseInv, InBackpropagation
<1>2. /\ \A t \in Terminals : solution \in Terminals
      /\ Terminals = {} => solution = NoNode
  BY <1>1 DEF AcceptInv, SolutionInv, VerdictPoints
<1>3. /\ RootPath' /\ MarkInv' /\ Terminals' = Terminals /\ parent' = parent
  BY <1>1, SameMarks
<1>4. CASE solution # NoNode
  <2>1. /\ phase' = "SUCCEEDED" /\ pc' \in {"exit", "except"}
    BY <1>1, <1>4, AdvanceOutcome, Table DEF Settle, Handler
  <2>2. SiblingInv' /\ SolutionInv'
    BY <2>1 DEF SiblingInv, HasBatch, SolutionInv, VerdictPoints, InLoop, InSelection,
       InExpansion, InEvaluation, InBackpropagation, InBacktracking
  <2>3. solution \in Terminals
    BY <1>2, <1>4
  <2>4. ResultInv'
    BY <1>1, <1>3, <2>1, <2>3 DEF ResultInv
  <2> QED
    BY <1>3, <2>2, <2>4 DEF AcceptInv
<1>5. CASE solution = NoNode
  <2>1. Terminals = {}
    <3>1. NoNode \notin Terminals
      BY DEF Terminals, Nodes, NoNode, TypeInv, TypeOK, TreeTypeOK
    <3> QED
      BY <1>2, <1>5, <3>1
  <2>2. pc' \in {"loop", "except"}
    BY <1>1, <1>5, AdvanceOutcome DEF Settle, Handler
  <2> QED
    BY <1>1, <1>5, <2>1, <2>2, StopAccept DEF HasBatch, Leaving
<1> QED
  BY <1>4, <1>5

(***************************************************************************)
(* The way out: only FAILED can leave with marks other than SUCCEEDED, and *)
(* best_path() reports a mark if there is one, live nodes if not.          *)
(***************************************************************************)
LEMMA LeaveAccept ==
  ASSUME TypeInv, FaultInv, FrontierInv, AcceptInv,
         Except \/ Exit \/ BestPath \/ BestPathStep
  PROVE  AcceptInv'
<1>1. UNCHANGED <<shapeVars, status, score>> /\ UNCHANGED solution
  BY DEF Except, Exit, BestPath, BestPathStep, treeVars, localVars
<1>2. /\ RootPath' /\ MarkInv' /\ Terminals' = Terminals /\ parent' = parent
      /\ Live' = Live /\ BestTerminal' = BestTerminal /\ path' = path
  BY <1>1, SameMarks
<1>3. phase = "SELECTION" => Terminals = {}
  BY DEF AcceptInv, SolutionInv
<1>4. pc' \in {"exit", "best", "greedy", "done", "escaped"}
  BY AdvanceOutcome DEF Except, Exit, BestPath, BestPathStep, Goto, Handler
<1>5. phase' = "SELECTION" => phase = "SELECTION"
  BY AdvanceOutcome DEF Except, Exit, BestPath, BestPathStep, Quiet, machineVars
<1>6. SiblingInv' /\ SolutionInv'
  BY <1>2, <1>3, <1>4, <1>5 DEF SiblingInv, HasBatch, SolutionInv, VerdictPoints,
     InLoop, InSelection, InExpansion, InEvaluation, InBackpropagation, InBacktracking
<1>7. ResultInv'
  <2>1. CASE Except
    <3>1. pc' = "escaped" \/ (pc' = "exit" /\ phase' = "FAILED")
      BY <2>1, AdvanceOutcome DEF Except, Handler
    <3> QED
      BY <3>1 DEF ResultInv, Leaving
  <2>2. CASE Exit
    <3>1. CASE IsTerminal
      <4>1. pc = "exit" /\ pc' = "best" /\ UNCHANGED phase
        BY <2>2, <3>1 DEF Exit, Goto, Quiet, machineVars
      <4> QED
        BY <1>1, <1>2, <4>1 DEF AcceptInv, ResultInv, Leaving
    <3>2. CASE ~IsTerminal
      <4>1. phase = "SELECTION"
        BY <2>2, <3>2 DEF Exit, IsTerminal, FaultInv, PhaseInv
      <4>2. pc' = "escaped" \/ (pc' = "best" /\ phase' = "EXHAUSTED")
        BY <2>2, <3>2, <4>1, AdvanceOutcome, Table DEF Exit, Handler
      <4> QED
        BY <1>2, <1>3, <4>1, <4>2 DEF ResultInv, Leaving
    <3> QED
      BY <3>1, <3>2
  <2>3. CASE BestPath \/ BestPathStep
    <3>1. /\ pc \in {"best", "greedy"} /\ UNCHANGED phase /\ pc' \in {"greedy", "done"}
      BY <2>3 DEF BestPath, BestPathStep, Goto, Quiet, machineVars
    <3>2. /\ Terminals # {} => phase \in {"SUCCEEDED", "FAILED"}
          /\ phase = "SUCCEEDED" => solution \in Terminals
          /\ pc = "greedy" => Terminals = {} /\ path[best] \ {Root} \subseteq Live
      BY <3>1 DEF AcceptInv, ResultInv, Leaving
    <3>3. pc' = "greedy" => Terminals = {}
      BY <2>3, <3>2 DEF BestPath, BestPathStep, Goto
    <3>4. Terminals = {} => path[best'] \ {Root} \subseteq Live
      <4>1. CASE BestPath
        BY <4>1 DEF BestPath, AcceptInv, RootPath
      <4>2. CASE BestPathStep /\ best' \in GreedyBest(best)
        <5>1. best' \in Live
          BY <4>2 DEF GreedyBest, LiveChildren, Children, Live
        <5> QED
          BY <5>1 DEF FrontierInv, LiveAncestors
      <4>3. CASE BestPathStep /\ UNCHANGED best
        BY <3>2, <4>3 DEF BestPathStep
      <4> QED
        BY <2>3, <4>1, <4>2, <4>3 DEF BestPathStep
    <3>5. Terminals # {} => best' \in BestTerminal
      BY <2>3, <3>2 DEF BestPath, BestPathStep
    <3> QED
      BY <1>1, <1>2, <3>1, <3>2, <3>3, <3>4, <3>5 DEF ResultInv
  <2> QED
    BY <2>1, <2>2, <2>3
<1> QED
  BY <1>2, <1>6, <1>7 DEF AcceptInv

(***************************************************************************)
(* Every step preserves AcceptInv.                                         *)
(***************************************************************************)
LEMMA AcceptStep ==
  TypeInv /\ FaultInv /\ FrontierInv /\ AcceptInv /\ [Next]_vars => AcceptInv'
<1> SUFFICES ASSUME TypeInv, FaultInv, FrontierInv, AcceptInv, [Next]_vars
             PROVE  AcceptInv'
  OBVIOUS
<1> USE DEF InLoop, InSelection, InExpansion, InEvaluation, InBackpropagation,
            InBacktracking, VerdictPoints, HasBatch, Leaving, Handler
<1>0. pc \in NoBatch => children = <<>>
  BY DEF FrontierInv, BatchInv
<1>1. pc \in (InLoop \cup {"start"}) \ VerdictPoints => Terminals = {} /\ solution = NoNode
  BY DEF AcceptInv, SolutionInv
<1>2. CASE AttachCandidate
  BY <1>2, AttachAccept
<1>3. CASE ApplyVerdict \/ CritiqueFault \/ ShapeFault
  BY <1>3, VerdictAccept
<1>4. CASE PruneDepthCapped \/ PruneSaturated \/ PruneDeadEnd
  BY <1>4, PruneAccept
<1>5. CASE Settle
  BY <1>5, SettleAccept
<1>6. CASE Except \/ Exit \/ BestPath \/ BestPathStep
  BY <1>6, LeaveAccept
<1>7. CASE Start \/ LoopExit \/ CheckCancel \/ CheckDeadline \/ PollStopCondition
           \/ FrontierEmpty
  <2>1. /\ UNCHANGED <<shapeVars, status, score>> /\ UNCHANGED solution
        /\ pc \in {"start", "loop", "deadline", "poll", "select"}
    BY <1>7 DEF Start, LoopExit, CheckCancel, CheckDeadline, PollStopCondition,
                FrontierEmpty, treeVars, localVars
  <2>2. /\ pc' \in {"loop", "deadline", "poll", "exit", "except", "escaped"}
        /\ pc' = "exit" => phase' # "SUCCEEDED"
    BY <1>7, <2>1, AdvanceOutcome
       DEF Start, LoopExit, CheckCancel, CheckDeadline, PollStopCondition,
           FrontierEmpty, Goto, Raise, Quiet, machineVars, FaultInv, PhaseInv
  <2> QED
    BY <1>1, <2>1, <2>2, StopAccept
<1>8. CASE BeginIteration \/ SelectRoot \/ SelectLeaf \/ GrantRevision \/ ReviseFault
           \/ Descend \/ AnnounceRevision \/ AnnounceNotes \/ BeginExpansion
           \/ DeadEnd
  <2>1. /\ UNCHANGED <<shapeVars, status, score>> /\ UNCHANGED solution
        /\ pc \in {"poll", "select", "descend", "selected", "revived", "expand", "deadend"}
    BY <1>8 DEF BeginIteration, SelectRoot, SelectLeaf, GrantRevision, ReviseFault,
                Descend, AnnounceRevision, AnnounceNotes, BeginExpansion, DeadEnd,
                treeVars, localVars
  <2>2. pc' \in {"select", "descend", "selected", "revived", "expand", "generate",
                 "prune", "except"}
    BY <1>8, <2>1, AdvanceOutcome
       DEF BeginIteration, SelectRoot, SelectLeaf, GrantRevision, ReviseFault,
           Descend, AnnounceRevision, AnnounceNotes, BeginExpansion, DeadEnd, Goto,
           Raise
  <2> QED
    BY <1>1, <2>1, <2>2, StopAccept
<1>9. CASE Generate \/ ExpansionDone \/ BeginEvaluation \/ CollectVerdicts
  <2>1. /\ UNCHANGED <<shapeVars, status, score>> /\ UNCHANGED <<node, children>>
        /\ UNCHANGED solution
        /\ pc \in {"generate", "attach", "evaluate", "collect"}
    BY <1>9 DEF Generate, ExpansionDone, BeginEvaluation, CollectVerdicts, treeVars,
                localVars
  <2>2. pc' \in {"attach", "deadend", "evaluate", "collect", "apply", "except"}
    BY <1>9, <2>1, AdvanceOutcome
       DEF Generate, ExpansionDone, BeginEvaluation, CollectVerdicts, Goto, Raise
  <2> QED
    BY <1>0, <2>1, <2>2, LoopAccept DEF NoBatch
<1>10. CASE EvaluationDone \/ BeginBackpropagation \/ Backpropagate
            \/ BackpropagationDone
  <2>1. /\ UNCHANGED <<shapeVars, status, score>> /\ UNCHANGED node
        /\ UNCHANGED solution
        /\ pc \in {"apply", "backpropagate", "propagate"}
    BY <1>10 DEF EvaluationDone, BeginBackpropagation, Backpropagate,
                 BackpropagationDone, treeVars, localVars
  <2>2. pc' \in {"backpropagate", "propagate", "settle", "except"}
    BY <1>10, <2>1, AdvanceOutcome
       DEF EvaluationDone, BeginBackpropagation, Backpropagate, BackpropagationDone,
           Goto, Raise
  <2>3. phase' # "SELECTION"
    BY <1>10, <2>1, AdvanceOutcome
       DEF EvaluationDone, BeginBackpropagation, Backpropagate, BackpropagationDone,
           Quiet, machineVars, FaultInv, PhaseInv
  <2> QED
    BY <2>1, <2>2, <2>3, LoopAccept
<1>11. CASE Cancel \/ DeadlinePasses \/ UNCHANGED vars
  <2>1. /\ UNCHANGED <<shapeVars, status, score>> /\ UNCHANGED <<node, children>>
        /\ UNCHANGED <<pc, phase, best>> /\ UNCHANGED solution
    BY <1>11 DEF Cancel, DeadlinePasses, vars, runVars, treeVars, localVars,
                 machineVars
  <2>2. /\ RootPath' /\ MarkInv' /\ Terminals' = Terminals /\ parent' = parent
        /\ Live' = Live /\ BestTerminal' = BestTerminal /\ path' = path
    BY <2>1, SameMarks
  <2>3. SiblingInv' /\ SolutionInv' /\ ResultInv'
    BY <2>1, <2>2 DEF AcceptInv, SiblingInv, SolutionInv, ResultInv
  <2> QED
    BY <2>2, <2>3 DEF AcceptInv
<1> QED
  BY <1>2, <1>3, <1>4, <1>5, <1>6, <1>7, <1>8, <1>9, <1>10, <1>11
     DEF Next, Controller, Terminated

(***************************************************************************)
(* For every tree and every verdict: an accepted node ends the search, no  *)
(* early stop and no budget drops it, a SUCCEEDED run reports a node whose *)
(* raw score passes and is the best of its siblings, and a run without     *)
(* one reports a path of live nodes.                                       *)
(***************************************************************************)
THEOREM AcceptanceEndsSearch == Spec => []AcceptanceIsFinal
<1>1. TypeInv /\ AcceptInv => AcceptanceIsFinal
  <2> SUFFICES ASSUME TypeInv, AcceptInv PROVE AcceptanceIsFinal
    OBVIOUS
  <2>1. phase = "SELECTION" => Terminals = {}
    BY DEF AcceptInv, SolutionInv
  <2>2. ASSUME pc = "done"
        PROVE  /\ Terminals # {} => phase \in {"SUCCEEDED", "FAILED"}
               /\ Terminals = {} => path[best] \ {Root} \subseteq Live
    BY <2>2 DEF AcceptInv, ResultInv, Leaving
  <2>3. ASSUME pc = "done", phase = "SUCCEEDED"
        PROVE  /\ status[best] = "TERMINAL" /\ score[best] >= AcceptThreshold
               /\ \A t \in Terminals : score[best] >= score[t]
               /\ parent[best] = parent[solution]
    <3>1. solution \in Terminals /\ best \in BestTerminal
      BY <2>3 DEF AcceptInv, ResultInv, Leaving
    <3>2. best \in Terminals
      BY <3>1 DEF BestTerminal
    <3>3. status[best] = "TERMINAL" /\ score[best] >= AcceptThreshold
      BY <3>2 DEF AcceptInv, MarkInv, Terminals
    <3>4. parent[best] = parent[solution]
      BY <3>1, <3>2 DEF AcceptInv, MarkInv
    <3>5. ASSUME NEW t \in Terminals PROVE score[best] >= score[t]
      <4>1. score[best] \in Int /\ score[t] \in Int
        BY <3>2, TreeAssumption DEF Terminals, TypeInv, TypeOK, TreeTypeOK
      <4>2. t # best => score[best] > score[t] \/ score[best] = score[t]
        BY <3>1 DEF BestTerminal
      <4> QED
        BY <4>1, <4>2
    <3> QED
      BY <3>3, <3>4, <3>5
  <2> QED
    BY <2>1, <2>2, <2>3 DEF AcceptanceIsFinal
<1> QED
  BY <1>1, InitType, TypeStep, InitControl, FaultStep, InitFrontier, FrontierStep,
     InitAccept, AcceptStep, PTL DEF Spec
=============================================================================
