---------------------------- MODULE ThoughtTree ----------------------------
(***************************************************************************)
(* The thought tree (cognitivetree/node.py, cognitivetree/tree.py) and the *)
(* feedback kept on its nodes (feedback/revision.py, feedback/rewards.py): *)
(* the state of every node, the operations that change it, and the queries *)
(* the search loop makes.                                                  *)
(*                                                                         *)
(* Nodes are numbered in creation order, the root is 1, so the order of    *)
(* node.children is the numerical order of the children.  Scores and       *)
(* severities are integers 0..ScoreScale that stand for 0.0..1.0;          *)
(* backpropagated values are integers 0..ValueScale that stand for the     *)
(* same interval, fine enough for reward shaping to be exact.              *)
(***************************************************************************)
EXTENDS Integers, Sequences, FiniteSets, FiniteSetsExt

CONSTANTS
  Task,               \* the task statement, content of the root
  Texts,              \* what a candidate can be once stripped
  Blank,              \* the empty string, as candidate or as guidance
  Guidance,           \* the non-empty guidance texts of critiques
  ScoreScale,         \* the integer that stands for a score of 1.0
  MaxAttempts,        \* BoundedRevisionPolicy.max_attempts; 0: no policy
  RequireGuidance,    \* BoundedRevisionPolicy.require_guidance
  RewardModel,        \* is a RewardShaper configured?
  EvaluationWeight, CritiqueWeight, DepthWeight,   \* RewardWeights, scaled
  DepthHorizon,
  Exploring           \* is exploration_weight positive?

ASSUME TreeAssumption ==
  /\ Blank \notin Texts \cup Guidance
  /\ ScoreScale \in Nat \ {0}
  /\ MaxAttempts \in Nat
  /\ RequireGuidance \in BOOLEAN /\ RewardModel \in BOOLEAN
  /\ EvaluationWeight \in Nat /\ CritiqueWeight \in Nat /\ DepthWeight \in Nat
  /\ EvaluationWeight + CritiqueWeight + DepthWeight > 0
  /\ DepthHorizon \in Nat \ {0}
  /\ Exploring \in BOOLEAN

VARIABLES
  size,        \* len(tree)
  parent,      \* node.parent
  path,        \* the nodes of node.path_from_root(), as a set
  depth,       \* node.depth
  content,     \* node.content
  status,      \* node.status
  score,       \* node.score
  visits,      \* node.visits
  value_sum,   \* node.value_sum
  critique,    \* node.metadata["critique"]
  attempts,    \* node.metadata["revision_attempts"]
  notes        \* node.metadata["revision_notes"], as the set of guidance texts

shapeVars == <<size, parent, path, depth, content>>
statVars  == <<visits, value_sum>>
revisionVars == <<attempts, notes>>
treeVars  == <<shapeVars, status, score, statVars, critique, revisionVars>>

Root   == 1
NoNode == 0
Nodes  == 1..size

NodeStatus    == {"PENDING", "EVALUATED", "TERMINAL", "PRUNED", "FAILED"}
LIVE_STATUSES == {"PENDING", "EVALUATED"}

NoCritique == [guidance |-> Blank, severity |-> -1]
Critique   == [guidance : Guidance \cup {Blank}, severity : 0..ScoreScale]

(***************************************************************************)
(* Queries.  walk() visits a node and all its descendants: those whose     *)
(* path from the root passes through it.                                   *)
(***************************************************************************)
Children(n)     == {c \in Nodes : parent[c] = n}
is_live(n)      == status[n] \in LIVE_STATUSES
LiveChildren(n) == {c \in Children(n) : is_live(c)}
Walk(n)         == {d \in Nodes : n \in path[d]}
Live            == {n \in Nodes : is_live(n)}
Terminals       == {n \in Nodes : status[n] = "TERMINAL"}

(***************************************************************************)
(* mean_value is 0.0 before any visit; means are compared by cross         *)
(* multiplication.                                                         *)
(***************************************************************************)
Samples(n)       == IF visits[n] = 0 THEN 1 ELSE visits[n]
MeanGreater(c, d) == value_sum[c] * Samples(d) > value_sum[d] * Samples(c)
MeanEqual(c, d)   == value_sum[c] * Samples(d) = value_sum[d] * Samples(c)

(***************************************************************************)
(* uct_score orders siblings by mean + weight * sqrt(ln(N) / visits), with *)
(* unvisited nodes at infinity.  What holds of that order for EVERY        *)
(* weight: d scores above c when c is visited and d is not, and when d has *)
(* a greater mean and no more visits; with a positive weight also when it  *)
(* has fewer visits and the same mean, with weight 0 when it has a greater *)
(* mean.  Other pairs are left open.                                       *)
(***************************************************************************)
UctGreater(d, c) ==
  \/ visits[d] = 0 /\ visits[c] > 0
  \/ /\ visits[d] > 0 /\ visits[c] > 0
     /\ \/ MeanGreater(d, c) /\ (visits[d] <= visits[c] \/ ~Exploring)
        \/ MeanEqual(d, c) /\ visits[d] < visits[c] /\ Exploring

\* Mutant: dead children stay eligible.
UctMaximalDead(n) ==
  {c \in Children(n) : \A d \in Children(n) : ~UctGreater(d, c)}

UctMaximal(n) ==
  {c \in LiveChildren(n) : \A d \in LiveChildren(n) : ~UctGreater(d, c)}

(***************************************************************************)
(* best_path()'s greedy rank (mean, score, visits).  max() keeps the first *)
(* of the best, so both sets below have at most one element.  (Walk order  *)
(* is numerical order among siblings, and accepted nodes are siblings.)    *)
(***************************************************************************)
RanksAbove(d, c) ==
  \/ MeanGreater(d, c)
  \/ MeanEqual(d, c) /\ score[d] > score[c]
  \/ MeanEqual(d, c) /\ score[d] = score[c] /\ visits[d] > visits[c]

GreedyBest(n) ==
  {c \in LiveChildren(n) :
     \A d \in LiveChildren(n) \ {c} :
       ~RanksAbove(d, c) /\ (RanksAbove(c, d) \/ c < d)}

\* Mutant: the first accepted node, whatever its score.
FirstTerminal == {t \in Terminals : \A u \in Terminals : t <= u}

BestTerminal ==
  {t \in Terminals :
     \A u \in Terminals \ {t} :
       score[t] > score[u] \/ (score[t] = score[u] /\ t < u)}

(***************************************************************************)
(* Reward shaping: the weighted mean of score, 1 - severity and            *)
(* shallowness, over the common denominator ValueScale.  Without a reward  *)
(* model the raw score is what backpropagates.                             *)
(***************************************************************************)
TotalWeight == EvaluationWeight + CritiqueWeight + DepthWeight
ValueScale  == ScoreScale * DepthHorizon * TotalWeight

CritiqueTerm(c) == IF c = NoCritique THEN ScoreScale ELSE ScoreScale - c.severity
DepthTerm(d)    == IF d < DepthHorizon THEN DepthHorizon - d ELSE 0

Shape(d, s, c) ==
  IF RewardModel
  THEN   EvaluationWeight * s * DepthHorizon
       + CritiqueWeight * CritiqueTerm(c) * DepthHorizon
       + DepthWeight * ScoreScale * DepthTerm(d)
  ELSE s * DepthHorizon * TotalWeight

(***************************************************************************)
(* compile_revision_notes(): the distinct, non-blank guidance of the       *)
(* children's critiques.                                                   *)
(***************************************************************************)
RevisionNotes(n) ==
  {critique[c].guidance : c \in Children(n)} \ {Blank}

(***************************************************************************)
(* BoundedRevisionPolicy.revise(): the conditions, then the commit.        *)
(***************************************************************************)
\* Mutant: one attempt too many.
MayReviseOnceMore(n) ==
  /\ MaxAttempts > 0
  /\ Children(n) # {}
  /\ \A c \in Children(n) : ~is_live(c) /\ status[c] # "TERMINAL"
  /\ attempts[n] <= MaxAttempts
  /\ RequireGuidance => RevisionNotes(n) # {}

MayRevise(n) ==
  /\ MaxAttempts > 0
  /\ Children(n) # {}
  /\ \A c \in Children(n) : ~is_live(c) /\ status[c] # "TERMINAL"
  /\ attempts[n] < MaxAttempts
  /\ RequireGuidance => RevisionNotes(n) # {}

CommitRevision(n) ==
  /\ notes' = [notes EXCEPT ![n] = RevisionNotes(n)]
  /\ attempts' = [attempts EXCEPT ![n] = @ + 1]

(***************************************************************************)
(* Tree updates.  Extend gives the next node its initial field value.      *)
(***************************************************************************)
Extend(f, v) == [n \in 1..(size + 1) |-> IF n <= size THEN f[n] ELSE v]

AddChild(n, text) ==
  /\ size' = size + 1
  /\ parent' = Extend(parent, n)
  /\ path' = Extend(path, path[n] \cup {size + 1})
  /\ depth' = Extend(depth, depth[n] + 1)
  /\ content' = Extend(content, text)
  /\ status' = Extend(status, "PENDING")
  /\ score' = Extend(score, 0)
  /\ visits' = Extend(visits, 0)
  /\ value_sum' = Extend(value_sum, 0)
  /\ critique' = Extend(critique, NoCritique)
  /\ attempts' = Extend(attempts, 0)
  /\ notes' = Extend(notes, {})

\* Mutant: the descendants without the node itself.
PruneBelow(n) ==
  status' = [d \in Nodes |-> IF d \in Walk(n) \ {n} /\ is_live(d) THEN "PRUNED"
                                                                  ELSE status[d]]

PruneSubtree(n) ==
  status' = [d \in Nodes |-> IF d \in Walk(n) /\ is_live(d) THEN "PRUNED"
                                                            ELSE status[d]]

(***************************************************************************)
(* record_visit() on every node of the path from the root to n.            *)
(***************************************************************************)
\* Mutant: the visit stops short of the root.
RecordVisitsBelowRoot(n, value) ==
  /\ visits' = [d \in Nodes |-> IF d \in path[n] \ {Root} THEN visits[d] + 1
                                                          ELSE visits[d]]
  /\ value_sum' = [d \in Nodes |-> IF d \in path[n] THEN value_sum[d] + value
                                                     ELSE value_sum[d]]

RecordVisits(n, value) ==
  /\ visits' = [d \in Nodes |-> IF d \in path[n] THEN visits[d] + 1 ELSE visits[d]]
  /\ value_sum' = [d \in Nodes |-> IF d \in path[n] THEN value_sum[d] + value
                                                     ELSE value_sum[d]]

TreeInit ==
  /\ size = 1
  /\ parent = [n \in {Root} |-> NoNode]
  /\ path = [n \in {Root} |-> {Root}]
  /\ depth = [n \in {Root} |-> 0]
  /\ content = [n \in {Root} |-> Task]
  /\ status = [n \in {Root} |-> "PENDING"]
  /\ score = [n \in {Root} |-> 0]
  /\ visits = [n \in {Root} |-> 0]
  /\ value_sum = [n \in {Root} |-> 0]
  /\ critique = [n \in {Root} |-> NoCritique]
  /\ attempts = [n \in {Root} |-> 0]
  /\ notes = [n \in {Root} |-> {}]

TreeTypeOK ==
  /\ size \in Nat \ {0}
  /\ parent \in [Nodes -> Nodes \cup {NoNode}]
  /\ path \in [Nodes -> SUBSET Nodes]
  /\ depth \in [Nodes -> Nat]
  /\ content \in [Nodes -> Texts \cup {Task}]
  /\ status \in [Nodes -> NodeStatus]
  /\ score \in [Nodes -> 0..ScoreScale]
  /\ visits \in [Nodes -> Nat]
  /\ value_sum \in [Nodes -> Nat]
  /\ critique \in [Nodes -> Critique \cup {NoCritique}]
  /\ attempts \in [Nodes -> Nat]
  /\ notes \in [Nodes -> SUBSET Guidance]
=============================================================================
