----------------------------- MODULE TreeSearch -----------------------------
(***************************************************************************)
(* One run of TreeSearchController (cognitivetree/search.py): select,      *)
(* expand, evaluate, backpropagate until a terminal phase, over the tree   *)
(* of ThoughtTree and the phase machine of SearchStateMachine.             *)
(*                                                                         *)
(* The controller is one sequential process; pc names the point of run()   *)
(* it is about to execute.  Its environment acts between any two steps:    *)
(* the caller sets cancel_event, the deadline passes.  Generator,          *)
(* evaluator, critic, stop condition and event sink are arbitrary: each    *)
(* call returns any value of its type.  The reward model, if there is one, *)
(* is RewardShaper.  Any of them may raise that Faults (for the sink:      *)
(* SinkMayRaise) names.                                                    *)
(***************************************************************************)
EXTENDS ThoughtTree, SearchStateMachine

CONSTANTS
  MaxIterations, MaxDepth, BranchingFactor,      \* SearchConfig
  AcceptThreshold, PruneThreshold,
  Strip,             \* raw candidate text |-> its stripped text
  MaxReturned,       \* bound: candidates one generate() call returns
  Verdicts,          \* the Evaluation values the evaluator may return
  Critiques,         \* what the critic may report; {} when there is none
  Cancellable,       \* is a cancel_event passed to run()?
  WallBudget,        \* is max_wall_seconds set?
  StopCondition,     \* is a stop condition configured?
  Faults,            \* the policy calls that may raise
  SinkMayRaise       \* may the event sink raise?

RawTexts == DOMAIN Strip

PolicyCalls == {"check", "revise", "generate", "evaluate", "critique", "shape"}

ASSUME ConfigAssumption ==
  /\ MaxIterations \in Nat \ {0}
  /\ MaxDepth \in Nat \ {0}
  /\ BranchingFactor \in Nat \ {0}
  /\ AcceptThreshold \in 0..ScoreScale
  /\ PruneThreshold \in 0..ScoreScale
  /\ PruneThreshold < AcceptThreshold

ASSUME PolicyAssumption ==
  /\ Strip \in [RawTexts -> Texts \cup {Blank}]
  /\ MaxReturned \in Nat
  /\ Verdicts \subseteq [score : 0..ScoreScale, is_terminal : BOOLEAN]
  /\ Critiques \subseteq Critique
  /\ Cancellable \in BOOLEAN /\ WallBudget \in BOOLEAN
  /\ StopCondition \in BOOLEAN /\ SinkMayRaise \in BOOLEAN
  /\ Faults \subseteq PolicyCalls

VARIABLES
  pc,           \* where the controller is in run()
  iteration,    \* run()'s loop counter
  events,       \* the SearchEvents delivered to on_event
  node,         \* the node of the descent, then the node being expanded
  revived,      \* did _select() reopen the node?
  candidates,   \* candidates _expand() has still to look at
  children,     \* the batch _expand() created
  verdicts,     \* _collect_verdicts(): one verdict per child
  valued,       \* (child, value) pairs
  solution,     \* first accepted child of the batch
  raised,       \* class of the exception in flight or escaped
  error,        \* class of the exception run() caught, SearchResult.error
  best,         \* last node of SearchResult.best_path
  cancelAt,     \* iteration at which the caller set cancel_event
  expiredAt     \* iteration at which the deadline passed

localVars == <<node, revived, candidates, children, verdicts, valued, solution>>
stopVars  == <<cancelAt, expiredAt>>
runVars   == <<pc, iteration, events, localVars, raised, error, best, stopVars>>
vars      == <<treeVars, machineVars, runVars>>

NotYet == -1

ControlPoint ==
  {"start", "loop", "deadline", "poll", "select", "descend", "selected",
   "revived", "expand", "generate", "attach", "deadend", "prune", "evaluate",
   "collect", "apply", "backpropagate", "propagate", "settle", "except",
   "exit", "best", "greedy", "done", "escaped"}

\* The details put on transitions, by the call that puts them.
Note == {"search_started", "cancelled", "wall_clock_budget", "stop_condition",
         "frontier_empty", "reopened", "notes_prepared", "", "no_candidates",
         "backtracked", "candidates", "accepted", "iteration_complete", "error",
         "iteration_budget_spent"}

Ended == pc \in {"done", "escaped"}

Init ==
  /\ TreeInit
  /\ MachineInit
  /\ pc = "start"
  /\ iteration = 0
  /\ events = <<>>
  /\ node = NoNode /\ revived = FALSE
  /\ candidates = <<>> /\ children = <<>> /\ verdicts = <<>> /\ valued = <<>>
  /\ solution = NoNode
  /\ raised = "none" /\ error = "none"
  /\ best = NoNode
  /\ cancelAt = NotYet /\ expiredAt = NotYet

(***************************************************************************)
(* Exceptions.  Everything from the loop to the end of the try block is    *)
(* caught by run(); the first transition, the handler's own and the one    *)
(* after the loop are not.                                                 *)
(***************************************************************************)
Handler == IF pc \in {"start", "except", "exit"} THEN "escaped" ELSE "except"

Raise(class) == raised' = class /\ pc' = Handler

Goto(point) == pc' = point /\ UNCHANGED raised

(***************************************************************************)
(* _advance(): machine.transition(), then the event sink, which sees the   *)
(* phase already changed and may raise.  An illegal edge raises before     *)
(* anything changes.                                                       *)
(***************************************************************************)
\* Mutant: the phase is assigned without asking the table.
AdvanceUnchecked(target, n, note, next) ==
  /\ phase' = target
  /\ history' = Append(history, PhaseTransition(phase, target, note))
  /\ events' = Append(events, [iteration |-> iteration, phase |-> target,
                               node |-> n])
  /\ \/ Goto(next)
     \/ SinkMayRaise /\ Raise("sink")

Advance(target, n, note, next) ==
  IF CanTransition(target)
  THEN /\ Transition(target, note)
       /\ events' = Append(events, [iteration |-> iteration, phase |-> target,
                                    node |-> n])
       /\ \/ Goto(next)
          \/ SinkMayRaise /\ Raise("sink")
  ELSE UNCHANGED <<machineVars, events>> /\ Raise("illegal")

Quiet == UNCHANGED <<machineVars, events>>

(***************************************************************************)
(* run(): the first transition and the loop head with its three early      *)
(* stops, tested in this order.                                            *)
(***************************************************************************)
Start ==
  /\ pc = "start"
  /\ Advance("SELECTION", NoNode, "search_started", "loop")
  /\ UNCHANGED <<treeVars, iteration, localVars, error, best, stopVars>>

LoopExit ==
  /\ pc = "loop" /\ iteration >= MaxIterations
  /\ Goto("exit") /\ Quiet
  /\ UNCHANGED <<treeVars, iteration, localVars, error, best, stopVars>>

\* Mutant: one iteration too many.
CheckCancelLate ==
  /\ pc = "loop" /\ iteration <= MaxIterations
  /\ IF cancelAt # NotYet
     THEN Advance("CANCELLED", NoNode, "cancelled", "exit")
     ELSE Goto("deadline") /\ Quiet
  /\ UNCHANGED <<treeVars, iteration, localVars, error, best, stopVars>>

\* Mutant: the event is looked at before the first iteration only.
CheckCancelOnce ==
  /\ pc = "loop" /\ iteration < MaxIterations
  /\ IF cancelAt # NotYet /\ iteration = 0
     THEN Advance("CANCELLED", NoNode, "cancelled", "exit")
     ELSE Goto("deadline") /\ Quiet
  /\ UNCHANGED <<treeVars, iteration, localVars, error, best, stopVars>>

CheckCancel ==
  /\ pc = "loop" /\ iteration < MaxIterations
  /\ IF cancelAt # NotYet
     THEN Advance("CANCELLED", NoNode, "cancelled", "exit")
     ELSE Goto("deadline") /\ Quiet
  /\ UNCHANGED <<treeVars, iteration, localVars, error, best, stopVars>>

CheckDeadline ==
  /\ pc = "deadline"
  /\ IF expiredAt # NotYet
     THEN Advance("TIMED_OUT", NoNode, "wall_clock_budget", "exit")
     ELSE Goto("poll") /\ Quiet
  /\ UNCHANGED <<treeVars, iteration, localVars, error, best, stopVars>>

PollStopCondition ==
  /\ pc = "poll" /\ StopCondition
  /\ \/ Advance("BUDGET_EXHAUSTED", NoNode, "stop_condition", "exit")
     \/ "check" \in Faults /\ Raise("policy") /\ Quiet
  /\ UNCHANGED <<treeVars, iteration, localVars, error, best, stopVars>>

BeginIteration ==
  /\ pc = "poll"
  /\ iteration' = iteration + 1
  /\ revived' = FALSE
  /\ Goto("select") /\ Quiet
  /\ UNCHANGED <<treeVars, node, candidates, children, verdicts, valued,
                 solution, error, best, stopVars>>

(***************************************************************************)
(* _select(): the outer loop starts at the root, the inner loop descends;  *)
(* every pruning restarts it.                                              *)
(***************************************************************************)
SelectRoot ==
  /\ pc = "select" /\ is_live(Root)
  /\ node' = Root
  /\ Goto("descend") /\ Quiet
  /\ UNCHANGED <<treeVars, iteration, revived, candidates, children, verdicts,
                 valued, solution, error, best, stopVars>>

FrontierEmpty ==
  /\ pc = "select" /\ ~is_live(Root)
  /\ Advance("EXHAUSTED", NoNode, "frontier_empty", "exit")
  /\ UNCHANGED <<treeVars, iteration, localVars, error, best, stopVars>>

SelectLeaf ==
  /\ pc = "descend" /\ Children(node) = {} /\ depth[node] < MaxDepth
  /\ Goto("selected") /\ Quiet
  /\ UNCHANGED <<treeVars, iteration, localVars, error, best, stopVars>>

PruneDepthCapped ==
  /\ pc = "descend" /\ Children(node) = {} /\ depth[node] >= MaxDepth
  /\ PruneSubtree(node)
  /\ Goto("select") /\ Quiet
  /\ UNCHANGED <<shapeVars, score, statVars, critique, revisionVars, iteration,
                 localVars, error, best, stopVars>>

Saturated == Children(node) # {} /\ LiveChildren(node) = {}

GrantRevision ==
  /\ pc = "descend" /\ Saturated /\ MayRevise(node)
  /\ CommitRevision(node)
  /\ revived' = TRUE
  /\ Goto("selected") /\ Quiet
  /\ UNCHANGED <<shapeVars, status, score, statVars, critique, iteration, node,
                 candidates, children, verdicts, valued, solution, error, best,
                 stopVars>>

ReviseFault ==
  /\ pc = "descend" /\ Saturated /\ MaxAttempts > 0 /\ "revise" \in Faults
  /\ Raise("policy") /\ Quiet
  /\ UNCHANGED <<treeVars, iteration, localVars, error, best, stopVars>>

PruneSaturated ==
  /\ pc = "descend" /\ Saturated /\ ~MayRevise(node)
  /\ PruneSubtree(node)
  /\ Goto("select") /\ Quiet
  /\ UNCHANGED <<shapeVars, score, statVars, critique, revisionVars, iteration,
                 localVars, error, best, stopVars>>

Descend ==
  /\ pc = "descend"
  /\ \E c \in UctMaximal(node) : node' = c
  /\ Goto("descend") /\ Quiet
  /\ UNCHANGED <<treeVars, iteration, revived, candidates, children, verdicts,
                 valued, solution, error, best, stopVars>>

(***************************************************************************)
(* A reopened node is announced as a backtrack and a fresh selection.      *)
(***************************************************************************)
AnnounceRevision ==
  /\ pc = "selected"
  /\ IF revived
     THEN Advance("BACKTRACKING", node, "reopened", "revived")
     ELSE Goto("expand") /\ Quiet
  /\ UNCHANGED <<treeVars, iteration, localVars, error, best, stopVars>>

AnnounceNotes ==
  /\ pc = "revived"
  /\ Advance("SELECTION", node, "notes_prepared", "expand")
  /\ UNCHANGED <<treeVars, iteration, localVars, error, best, stopVars>>

BeginExpansion ==
  /\ pc = "expand"
  /\ Advance("EXPANSION", node, "", "generate")
  /\ UNCHANGED <<treeVars, iteration, localVars, error, best, stopVars>>

(***************************************************************************)
(* _expand(): the generator's answer cut to BranchingFactor, then one step *)
(* per candidate.                                                          *)
(***************************************************************************)
Answers == UNION {[1..k -> RawTexts] : k \in 0..MaxReturned}

Cut(answer) ==
  SubSeq(answer, 1, IF Len(answer) < BranchingFactor THEN Len(answer)
                                                     ELSE BranchingFactor)

Generate ==
  /\ pc = "generate"
  /\ \/ /\ \E answer \in Answers : candidates' = Cut(answer)
        /\ Goto("attach")
     \/ "generate" \in Faults /\ Raise("policy") /\ UNCHANGED candidates
  /\ Quiet
  /\ UNCHANGED <<treeVars, iteration, node, revived, children, verdicts, valued,
                 solution, error, best, stopVars>>

\* Mutant: the candidates are not compared with the children of an earlier
\* expansion.
RejectedInBatch(text) ==
  text = Blank \/ \E i \in DOMAIN children : content[children[i]] = text

Rejected(text) == text = Blank \/ \E c \in Children(node) : content[c] = text

AttachCandidate ==
  /\ pc = "attach" /\ candidates # <<>>
  /\ candidates' = Tail(candidates)
  /\ LET text == Strip[Head(candidates)] IN
     IF Rejected(text)
     THEN UNCHANGED <<treeVars, children>>
     ELSE /\ AddChild(node, text)
          /\ children' = Append(children, size + 1)
  /\ Goto("attach") /\ Quiet
  /\ UNCHANGED <<iteration, node, revived, verdicts, valued, solution, error,
                 best, stopVars>>

ExpansionDone ==
  /\ pc = "attach" /\ candidates = <<>>
  /\ Goto(IF children = <<>> THEN "deadend" ELSE "evaluate") /\ Quiet
  /\ UNCHANGED <<treeVars, iteration, localVars, error, best, stopVars>>

DeadEnd ==
  /\ pc = "deadend"
  /\ Advance("BACKTRACKING", node, "no_candidates", "prune")
  /\ UNCHANGED <<treeVars, iteration, localVars, error, best, stopVars>>

\* Mutant: a dead end is not counted as an iteration.
PruneDeadEndRefund ==
  /\ pc = "prune"
  /\ PruneSubtree(node)
  /\ Advance("SELECTION", NoNode, "backtracked", "loop")
  /\ iteration' = iteration - 1
  /\ UNCHANGED <<shapeVars, score, statVars, critique, revisionVars, localVars,
                 error, best, stopVars>>

PruneDeadEnd ==
  /\ pc = "prune"
  /\ PruneSubtree(node)
  /\ Advance("SELECTION", NoNode, "backtracked", "loop")
  /\ UNCHANGED <<shapeVars, score, statVars, critique, revisionVars, iteration,
                 localVars, error, best, stopVars>>

(***************************************************************************)
(* _evaluate(): all verdicts first, in candidate order (EvaluationPool     *)
(* models how), then one step per child.                                   *)
(***************************************************************************)
BeginEvaluation ==
  /\ pc = "evaluate"
  /\ Advance("EVALUATION", node, "candidates", "collect")
  /\ UNCHANGED <<treeVars, iteration, localVars, error, best, stopVars>>

CollectVerdicts ==
  /\ pc = "collect"
  /\ \/ /\ verdicts' \in [1..Len(children) -> Verdicts]
        /\ Goto("apply")
     \/ "evaluate" \in Faults /\ Raise("policy") /\ UNCHANGED verdicts
  /\ Quiet
  /\ UNCHANGED <<treeVars, iteration, node, revived, candidates, children,
                 valued, solution, error, best, stopVars>>

StatusOf(verdict) ==
  CASE verdict.is_terminal /\ verdict.score >= AcceptThreshold -> "TERMINAL"
    [] verdict.is_terminal /\ verdict.score < AcceptThreshold  -> "PRUNED"
    [] ~verdict.is_terminal /\ verdict.score < PruneThreshold  -> "PRUNED"
    [] OTHER                                                   -> "EVALUATED"

(***************************************************************************)
(* The child whose turn it is, and its verdict.                            *)
(***************************************************************************)
Child   == children[Len(valued) + 1]
Verdict == verdicts[Len(valued) + 1]

ApplyEvaluation ==
  /\ score' = [score EXCEPT ![Child] = Verdict.score]
  /\ status' = [status EXCEPT ![Child] = StatusOf(Verdict)]

(***************************************************************************)
(* What the critic says of a pruned child; nothing of any other.           *)
(***************************************************************************)
Diagnoses ==
  IF Critiques # {} /\ StatusOf(Verdict) = "PRUNED"
  THEN Critiques \cup {NoCritique}
  ELSE {NoCritique}

ApplyVerdict ==
  /\ pc = "apply" /\ Len(valued) < Len(children)
  /\ ApplyEvaluation
  /\ \E c \in Diagnoses :
       /\ critique' = [critique EXCEPT ![Child] = c]
       /\ valued' = Append(valued, [node |-> Child,
                                    value |-> Shape(depth[Child], Verdict.score, c)])
  /\ solution' = IF solution = NoNode /\ StatusOf(Verdict) = "TERMINAL"
                 THEN Child ELSE solution
  /\ Goto("apply") /\ Quiet
  /\ UNCHANGED <<shapeVars, statVars, revisionVars, iteration, node, revived,
                 candidates, children, verdicts, error, best, stopVars>>

(***************************************************************************)
(* The critic or the reward model raises: the verdict is on the node, the  *)
(* children after it are still PENDING.                                    *)
(***************************************************************************)
CritiqueFault ==
  /\ pc = "apply" /\ Len(valued) < Len(children)
  /\ "critique" \in Faults /\ Critiques # {} /\ StatusOf(Verdict) = "PRUNED"
  /\ ApplyEvaluation
  /\ Raise("policy") /\ Quiet
  /\ UNCHANGED <<shapeVars, statVars, critique, revisionVars, iteration,
                 localVars, error, best, stopVars>>

ShapeFault ==
  /\ pc = "apply" /\ Len(valued) < Len(children)
  /\ "shape" \in Faults /\ RewardModel
  /\ ApplyEvaluation
  /\ \E c \in Diagnoses : critique' = [critique EXCEPT ![Child] = c]
  /\ Raise("policy") /\ Quiet
  /\ UNCHANGED <<shapeVars, statVars, revisionVars, iteration, localVars, error,
                 best, stopVars>>

EvaluationDone ==
  /\ pc = "apply" /\ Len(valued) = Len(children)
  /\ children' = <<>> /\ verdicts' = <<>>
  /\ Goto("backpropagate") /\ Quiet
  /\ UNCHANGED <<treeVars, iteration, node, revived, candidates, valued,
                 solution, error, best, stopVars>>

BeginBackpropagation ==
  /\ pc = "backpropagate"
  /\ Advance("BACKPROPAGATION", node, "", "propagate")
  /\ UNCHANGED <<treeVars, iteration, localVars, error, best, stopVars>>

Backpropagate ==
  /\ pc = "propagate" /\ valued # <<>>
  /\ RecordVisits(Head(valued).node, Head(valued).value)
  /\ valued' = Tail(valued)
  /\ Goto("propagate") /\ Quiet
  /\ UNCHANGED <<shapeVars, status, score, critique, revisionVars, iteration,
                 node, revived, candidates, children, verdicts, solution, error,
                 best, stopVars>>

BackpropagationDone ==
  /\ pc = "propagate" /\ valued = <<>>
  /\ Goto("settle") /\ Quiet
  /\ UNCHANGED <<treeVars, iteration, localVars, error, best, stopVars>>

Settle ==
  /\ pc = "settle"
  /\ IF solution # NoNode
     THEN Advance("SUCCEEDED", solution, "accepted", "exit")
     ELSE Advance("SELECTION", NoNode, "iteration_complete", "loop")
  /\ UNCHANGED <<treeVars, iteration, localVars, error, best, stopVars>>

(***************************************************************************)
(* run()'s handler, the guard after the loop, and the result.              *)
(***************************************************************************)
Except ==
  /\ pc = "except"
  /\ error' = raised
  /\ Advance("FAILED", NoNode, "error", "exit")
  /\ UNCHANGED <<treeVars, iteration, localVars, best, stopVars>>

\* Mutant: the guard after the loop does not ask whether the run has ended.
ExitUnguarded ==
  /\ pc = "exit"
  /\ Advance("EXHAUSTED", NoNode, "iteration_budget_spent", "best")
  /\ UNCHANGED <<treeVars, iteration, localVars, error, best, stopVars>>

Exit ==
  /\ pc = "exit"
  /\ IF IsTerminal
     THEN Goto("best") /\ Quiet
     ELSE Advance("EXHAUSTED", NoNode, "iteration_budget_spent", "best")
  /\ UNCHANGED <<treeVars, iteration, localVars, error, best, stopVars>>

BestPath ==
  /\ pc = "best"
  /\ \/ Terminals # {} /\ best' \in BestTerminal /\ Goto("done")
     \/ Terminals = {} /\ best' = Root /\ Goto("greedy")
  /\ Quiet
  /\ UNCHANGED <<treeVars, iteration, localVars, error, stopVars>>

BestPathStep ==
  /\ pc = "greedy"
  /\ \/ LiveChildren(best) # {} /\ best' \in GreedyBest(best) /\ Goto("greedy")
     \/ LiveChildren(best) = {} /\ UNCHANGED best /\ Goto("done")
  /\ Quiet
  /\ UNCHANGED <<treeVars, iteration, localVars, error, stopVars>>

Controller ==
  \/ Start \/ LoopExit \/ CheckCancel \/ CheckDeadline \/ PollStopCondition
  \/ BeginIteration
  \/ SelectRoot \/ FrontierEmpty \/ SelectLeaf \/ PruneDepthCapped
  \/ GrantRevision \/ ReviseFault \/ PruneSaturated \/ Descend
  \/ AnnounceRevision \/ AnnounceNotes \/ BeginExpansion
  \/ Generate \/ AttachCandidate \/ ExpansionDone \/ DeadEnd \/ PruneDeadEnd
  \/ BeginEvaluation \/ CollectVerdicts \/ ApplyVerdict \/ CritiqueFault
  \/ ShapeFault \/ EvaluationDone
  \/ BeginBackpropagation \/ Backpropagate \/ BackpropagationDone \/ Settle
  \/ Except \/ Exit \/ BestPath \/ BestPathStep

(***************************************************************************)
(* The environment: cancel_event.set() on another thread, and the clock.   *)
(***************************************************************************)
Cancel ==
  /\ Cancellable /\ cancelAt = NotYet /\ ~Ended
  /\ cancelAt' = iteration
  /\ UNCHANGED <<treeVars, machineVars, pc, iteration, events, localVars, raised,
                 error, best, expiredAt>>

DeadlinePasses ==
  /\ WallBudget /\ expiredAt = NotYet /\ ~Ended
  /\ expiredAt' = iteration
  /\ UNCHANGED <<treeVars, machineVars, pc, iteration, events, localVars, raised,
                 error, best, cancelAt>>

(***************************************************************************)
(* run() has returned or raised.                                           *)
(***************************************************************************)
Terminated == Ended /\ UNCHANGED vars

Next == Controller \/ Cancel \/ DeadlinePasses \/ Terminated

(***************************************************************************)
(* Fairness: the run's thread is scheduled and every policy call returns   *)
(* or raises.  Nothing obliges the caller to cancel.                       *)
(***************************************************************************)
Spec == Init /\ [][Next]_vars
FairSpec == Spec /\ WF_vars(Controller)

-----------------------------------------------------------------------------
ExceptionClass == {"none", "policy", "sink", "illegal"}

(***************************************************************************)
(* Type correctness of the whole run.  Beyond the shapes: the loop counter *)
(* never passes max_iterations, and every node reference (the descent, the *)
(* batch, the events, the result) is a node of this tree.                  *)
(***************************************************************************)
TypeOK ==
  /\ TreeTypeOK
  /\ phase \in SearchPhase
  /\ history \in Seq([source : SearchPhase, target : SearchPhase, note : Note])
  /\ events \in Seq([iteration : 0..MaxIterations, phase : SearchPhase,
                      node : Nodes \cup {NoNode}])
  /\ pc \in ControlPoint
  /\ raised \in ExceptionClass /\ error \in ExceptionClass
  /\ iteration \in 0..MaxIterations
  /\ node \in Nodes \cup {NoNode}
  /\ revived \in BOOLEAN
  /\ candidates \in Seq(RawTexts)
  /\ children \in Seq(Nodes)
  /\ verdicts \in Seq(Verdicts)
  /\ valued \in Seq([node : Nodes, value : Nat])
  /\ solution \in Nodes \cup {NoNode}
  /\ best \in Nodes \cup {NoNode}
  /\ cancelAt \in Nat \cup {NotYet} /\ expiredAt \in Nat \cup {NotYet}

(***************************************************************************)
(* A live node hangs from live nodes only: pruning, revision and           *)
(* re-expansion never leave a frontier node that selection cannot reach    *)
(* from the root (tree.prune_subtree, search._select).                     *)
(***************************************************************************)
LiveAncestors == \A n \in Live : path[n] \subseteq Live

(***************************************************************************)
(* "Each restart removes at least one node from the frontier": whenever    *)
(* the descent goes back to the root, fewer nodes are live than before,    *)
(* and no node ever comes back to life while _select() runs.               *)
(***************************************************************************)
RestartsShrinkFrontier ==
  [][ /\ pc = "descend" => Live' \subseteq Live
      /\ pc = "descend" /\ pc' = "select" => Live' # Live ]_vars

(***************************************************************************)
(* _expand() over the whole run: children of one node have distinct,       *)
(* non-blank contents (a revised expansion never resubmits a candidate),   *)
(* sit one level deeper and never below max_depth, and number at most      *)
(* branching_factor per expansion the node was granted.                    *)
(***************************************************************************)
ExpansionBounds ==
  \A n \in Nodes :
    /\ \A c \in Children(n) :
         /\ content[c] # Blank
         /\ depth[c] = depth[n] + 1 /\ depth[c] <= MaxDepth
         /\ \A d \in Children(n) \ {c} : content[c] # content[d]
    /\ Cardinality(Children(n)) <= BranchingFactor * (1 + attempts[n])

Sum(f, S) == MapThenSumSet(LAMBDA n : f[n], S)

(***************************************************************************)
(* Backpropagation loses and duplicates nothing: between iterations, and   *)
(* in the result of a run that did not fail, each node's visits and value  *)
(* are its own one sample plus those of its children.                      *)
(***************************************************************************)
Conservation ==
  pc \in {"loop", "done"} /\ error = "none" =>
    \A n \in Nodes :
      LET own == n # Root IN
      /\ visits[n] = (IF own THEN 1 ELSE 0) + Sum(visits, Children(n))
      /\ value_sum[n] = (IF own THEN Shape(depth[n], score[n], critique[n]) ELSE 0)
                         + Sum(value_sum, Children(n))
      /\ value_sum[n] <= ValueScale * visits[n]

(***************************************************************************)
(* Acceptance: no search goes on once a node is accepted; no early stop    *)
(* and no exhausted budget drops an accepted node (only a fault can); a    *)
(* SUCCEEDED run reports a terminal node whose RAW score passes the        *)
(* threshold, a sibling of the one it announced and no worse; any other     *)
(* result path is made of live nodes below the root.                       *)
(***************************************************************************)
AcceptanceIsFinal ==
  /\ phase = "SELECTION" => Terminals = {}
  /\ pc = "done" =>
       /\ Terminals # {} => phase \in {"SUCCEEDED", "FAILED"}
       /\ phase = "SUCCEEDED" =>
            /\ status[best] = "TERMINAL" /\ score[best] >= AcceptThreshold
            /\ \A t \in Terminals : score[best] >= score[t]
            /\ parent[best] = parent[solution]
       /\ Terminals = {} => path[best] \ {Root} \subseteq Live

Transitions(target, note) ==
  Cardinality({i \in DOMAIN history : history[i].target = target
                                      /\ history[i].note = note})

(***************************************************************************)
(* Revisions are bounded and accounted for: every attempt recorded on a    *)
(* node was announced by one BACKTRACKING transition (but the one being    *)
(* announced right now), and no node gets more than max_attempts.          *)
(***************************************************************************)
RevisionAccounting ==
  /\ \A n \in Nodes : attempts[n] <= MaxAttempts
  /\ Sum(attempts, Nodes) = Transitions("BACKTRACKING", "reopened")
                            + (IF pc = "selected" /\ revived THEN 1 ELSE 0)

(***************************************************************************)
(* Fault containment: the loop never requests an illegal edge by itself.   *)
(* run() lets an exception out only if the event sink raised, a caught     *)
(* fault always ends in FAILED, and FAILED always carries its error.       *)
(***************************************************************************)
FaultContainment ==
  /\ raised = "illegal" => pc = "escaped" /\ error = "sink"
  /\ pc = "escaped" => "sink" \in {raised, error}
  /\ pc = "done" => (phase = "FAILED" <=> error # "none")
  /\ pc = "done" => phase \in TERMINAL_PHASES

(***************************************************************************)
(* A cancellation or a spent deadline costs at most one more iteration,    *)
(* the one whose boundary check it raced; whatever ends the run, the loop  *)
(* never starts a second one.                                              *)
(***************************************************************************)
StopsPromptly ==
  /\ cancelAt # NotYet => iteration <= cancelAt + 1
  /\ expiredAt # NotYet => iteration <= expiredAt + 1

(***************************************************************************)
(* SearchResult.iterations counts the expansions, except that a run that   *)
(* ends in select (frontier empty, or a fault there) has counted the       *)
(* iteration that found nothing to expand.                                 *)
(***************************************************************************)
IterationsAreExpansions ==
  LET expansions == Transitions("EXPANSION", "") IN
  /\ pc = "loop" => iteration = expansions
  /\ pc = "done" =>
       \/ iteration = expansions
       \/ iteration = expansions + 1 /\ phase \in {"EXHAUSTED", "FAILED"}

(***************************************************************************)
(* "Every fresh candidate is explored before revisiting scored ones":      *)
(* selection descends into a node that was expanded before only when none  *)
(* of its live siblings is still unexpanded.                               *)
(***************************************************************************)
FreshCandidatesFirst ==
  [][ pc = "descend" /\ node' # node /\ Children(node') # {} =>
        \A c \in LiveChildren(node) : Children(c) # {} ]_vars

(***************************************************************************)
(* How far a run is from its end.  Four counters, the first the most       *)
(* significant: the iterations left; the points still to pass in this one  *)
(* (_select()'s two loops share a place); what the loop at this point has  *)
(* left to do, for _select() the frontier; and the levels below the node   *)
(* of the descent.                                                         *)
(***************************************************************************)
PointsLeft ==
  CASE pc = "start" -> 24
    [] pc \in {"select", "descend"} -> 23
    [] pc = "selected" -> 22       [] pc = "revived" -> 21
    [] pc = "expand" -> 20         [] pc = "generate" -> 19
    [] pc = "attach" -> 18         [] pc = "deadend" -> 17
    [] pc = "prune" -> 16          [] pc = "evaluate" -> 15
    [] pc = "collect" -> 14        [] pc = "apply" -> 13
    [] pc = "backpropagate" -> 12  [] pc = "propagate" -> 11
    [] pc = "settle" -> 10         [] pc = "loop" -> 9
    [] pc = "deadline" -> 8        [] pc = "poll" -> 7
    [] pc = "except" -> 6          [] pc = "exit" -> 5
    [] pc = "best" -> 4            [] pc = "greedy" -> 3
    [] pc = "done" -> 2            [] pc = "escaped" -> 1

WorkLeft ==
  CASE pc \in {"select", "descend"} -> Cardinality(Live)
    [] pc = "attach" -> Len(candidates)
    [] pc = "apply" -> Len(children) - Len(valued)
    [] pc = "propagate" -> Len(valued)
    [] pc = "greedy" -> MaxDepth - depth[best]
    [] OTHER -> 0

LevelsLeft ==
  CASE pc = "select" -> MaxDepth + 1
    [] pc = "descend" -> MaxDepth - depth[node]
    [] OTHER -> 0

Distance == <<MaxIterations - iteration, PointsLeft, WorkLeft, LevelsLeft>>

Measured == \A i \in 1..4 : Distance[i] \in Nat

CountsDown(from, to) ==
  \E i \in 1..4 : to[i] < from[i] /\ \A j \in 1..(i - 1) : to[j] = from[j]

(***************************************************************************)
(* Every step of run() brings it nearer to its end, and neither the caller *)
(* nor the clock takes it further away: whatever the policies answer or    *)
(* raise, no loop of the search goes round for ever.                       *)
(***************************************************************************)
EveryStepCountsDown ==
  [][ /\ Measured'
      /\ IF UNCHANGED stopVars THEN CountsDown(Distance, Distance')
                               ELSE UNCHANGED Distance ]_vars

(***************************************************************************)
(* Every run ends: it returns a result or raises.                          *)
(***************************************************************************)
RunTerminates == <>Ended
=============================================================================
