---------------------------- MODULE MCTreeSearch ----------------------------
(***************************************************************************)
(* Small instances of TreeSearch.  Scores are tenths (ScoreScale = 10),    *)
(* thresholds the defaults rounded to tenths, reward weights the defaults  *)
(* 0.7 / 0.2 / 0.1 with horizon 16.                                        *)
(***************************************************************************)
EXTENDS RunArchive, RunRefinement, TLC

CONSTANTS a, b, padded, blank

(* Two distinct texts, one of them also with surrounding blanks, and a     *)
(* candidate that is only blanks.                                          *)
MCStrip == (a :> a) @@ (padded :> a) @@ (b :> b) @@ (blank :> Blank)

(* Two texts, nothing to strip.                                            *)
MCPlainStrip == (a :> a) @@ (b :> b)

MCOneStrip == a :> a

MCVerdict(s, t) == [score |-> s, is_terminal |-> t]

(* A promising step, one below the prune threshold, a completed line       *)
(* accepted at the top score and one accepted at the threshold.            *)
MCCoreVerdicts == {MCVerdict(9, FALSE), MCVerdict(0, FALSE),
                   MCVerdict(10, TRUE), MCVerdict(9, TRUE)}

MCFewVerdicts == {MCVerdict(9, FALSE), MCVerdict(0, FALSE), MCVerdict(10, TRUE)}

(* No accepted line: a step, a rejected step, a rejected completed line.   *)
MCFailingVerdicts == {MCVerdict(9, FALSE), MCVerdict(0, FALSE), MCVerdict(5, TRUE)}

(* Steps that all stay open when the prune threshold is 0.                 *)
MCOpenVerdicts == {MCVerdict(10, FALSE), MCVerdict(0, FALSE)}

MCCritiques == {[guidance |-> "g", severity |-> 10],
                [guidance |-> Blank, severity |-> 4]}
MCOneCritique == {[guidance |-> "g", severity |-> 10]}
MCNoCritiques == {}
=============================================================================
