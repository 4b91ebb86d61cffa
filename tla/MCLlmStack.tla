----------------------------- MODULE MCLlmStack -----------------------------
(***************************************************************************)
(* Small instance of LlmStack: two runs that share their accounting client *)
(* (two streams of one session) or have one each (two sessions), and the   *)
(* cache in both cases.                                                    *)
(***************************************************************************)
EXTENDS LlmStack, TLC

CONSTANTS t1, t2, k1, k2

MCAssignments == {t1 :> k1 @@ t2 :> k1, t1 :> k1 @@ t2 :> k2}

MCMaxIterations == t1 :> 2 @@ t2 :> 1
=============================================================================
