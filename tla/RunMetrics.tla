----------------------------- MODULE RunMetrics -----------------------------
(***************************************************************************)
(* The result of a run, and the metrics computed from it                   *)
(* (cognitivetree/observability/metrics.py).                               *)
(***************************************************************************)
EXTENDS Replay

(***************************************************************************)
(* The SearchResult that run() returns.  The tree is a function from node  *)
(* ids to nodes.  Timestamps are the monotonic clock's: any increasing     *)
(* stamps, with unequal distances so that no two phases look alike.        *)
(***************************************************************************)
Stamp(i) == i * i

\* Creation order, which is the order of node.children and of a path.
InOrder(S) ==
  [i \in 1..Cardinality(S) |-> CHOOSE n \in S : Cardinality({m \in S : m < n}) = i - 1]

Metadata(n) == [critique |-> critique[n], attempts |-> attempts[n], notes |-> notes[n]]

LiveNode(n) ==
  [parent |-> parent[n], children |-> InOrder(Children(n)), depth |-> depth[n],
   content |-> content[n], status |-> status[n], score |-> score[n],
   visits |-> visits[n], value_sum |-> value_sum[n], metadata |-> Metadata(n)]

LiveResult ==
  [outcome |-> phase, iterations |-> iteration, node_count |-> size,
   error |-> error, best_path |-> InOrder(path[best]),
   tree |-> [n \in Nodes |-> LiveNode(n)],
   phase_history |->
     [i \in DOMAIN history |-> [transition |-> history[i], timestamp |-> Stamp(i)]]]

(***************************************************************************)
(* RunMetrics.from_result().                                               *)
(***************************************************************************)
\* Mutant: every backtracking counts as a revision.
AnyBacktrack(note) == TRUE

\* "revision" occurs in "reopened node for revision attempt", which announces
\* a revived node, and not in "expansion produced no candidates".
IsRevisionNote(note) == note = "reopened"

Indices(result, Test(_)) ==
  {i \in DOMAIN result.phase_history : Test(result.phase_history[i].transition)}

_phase_durations(result, p) ==
  LET stamp(i) == result.phase_history[i].timestamp
      lasts(i) == IF i < Len(result.phase_history) THEN stamp(i + 1) - stamp(i) ELSE 0
  IN  Sum([i \in DOMAIN result.phase_history |-> lasts(i)],
          Indices(result, LAMBDA t : t.target = p))

from_result(result) ==
  LET hist        == result.phase_history
      backtracks  == Indices(result, LAMBDA t : t.target = "BACKTRACKING")
      revisions   == {i \in backtracks : IsRevisionNote(hist[i].transition.note)}
      solved      == result.outcome = "SUCCEEDED" /\ result.best_path # <<>>
      last        == result.best_path[Len(result.best_path)]
      granted     == [n \in DOMAIN result.tree |-> result.tree[n].metadata.attempts]
  IN  [outcome |-> result.outcome, iterations |-> result.iterations,
       nodes |-> result.node_count,
       wall_time |-> IF Len(hist) < 2 THEN 0
                     ELSE hist[Len(hist)].timestamp - hist[1].timestamp,
       solution_depth |-> IF solved THEN result.tree[last].depth ELSE -1,
       best_path_length |-> Len(result.best_path),
       structural_backtracks |-> Cardinality(backtracks \ revisions),
       revision_backtracks |-> Cardinality(revisions),
       revisions_granted |-> Sum(granted, DOMAIN result.tree),
       status_counts |->
         [s \in NodeStatus |->
            Cardinality({n \in DOMAIN result.tree : result.tree[n].status = s})],
       phase_counts |->
         [p \in SearchPhase |-> Cardinality(Indices(result, LAMBDA t : t.target = p))],
       phase_seconds |-> [p \in SearchPhase |-> _phase_durations(result, p)]]

-----------------------------------------------------------------------------
(***************************************************************************)
(* The metrics tell what happened: a revision is counted once as a         *)
(* backtrack and once on its node; an expansion is evaluated or is a       *)
(* structural backtrack (a failure may leave the last one open); time is   *)
(* attributed without loss; and an accepted node means success, unless the *)
(* run failed right after it.                                              *)
(***************************************************************************)
MetricsAgree ==
  LET m == from_result(LiveResult)
      open == m.phase_counts["EXPANSION"] - m.phase_counts["EVALUATION"]
                - m.structural_backtracks
  IN  pc = "done" =>
        /\ m.revision_backtracks = m.revisions_granted
        /\ open = 0 \/ (open = 1 /\ m.outcome = "FAILED")
        /\ Sum(m.phase_seconds, SearchPhase) = m.wall_time
        /\ m.outcome = "SUCCEEDED" => m.solution_depth \in 1..MaxDepth
        /\ m.status_counts["TERMINAL"] > 0 => m.outcome \in {"SUCCEEDED", "FAILED"}
=============================================================================
