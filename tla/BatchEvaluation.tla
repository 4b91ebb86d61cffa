-------------------------- MODULE BatchEvaluation --------------------------
(***************************************************************************)
(* What _collect_verdicts() (cognitivetree/search.py) promises whatever    *)
(* the number of workers: the answer of a plain loop over the candidates.  *)
(* Either every candidate's verdict, in candidate order, or the exception  *)
(* of the earliest candidate that fails.                                   *)
(***************************************************************************)
EXTENDS Integers, Sequences

CONSTANTS BatchSize, Verdicts, Fault

VARIABLES script,   \* what evaluating each candidate gives: a verdict or Fault
          answer    \* the list returned, or the candidate whose fault is raised

batchVars == <<script, answer>>

Candidates == 1..BatchSize

Waiting        == [verdicts |-> <<>>, failed |-> -1]
Returned(list) == [verdicts |-> list, failed |-> 0]
Raised(i)      == [verdicts |-> <<>>, failed |-> i]

NoFault       == \A i \in Candidates : script[i] # Fault
FirstFault(i) == script[i] = Fault /\ \A j \in 1..(i - 1) : script[j] # Fault

BatchInit == script \in [Candidates -> Verdicts \cup {Fault}] /\ answer = Waiting

Answer ==
  /\ answer = Waiting
  /\ \/ NoFault /\ answer' = Returned(script)
     \/ \E i \in Candidates : FirstFault(i) /\ answer' = Raised(i)
  /\ UNCHANGED script

(***************************************************************************)
(* The batch is answered once, as a sequential loop would answer it.       *)
(***************************************************************************)
BatchSpec == BatchInit /\ [][Answer]_batchVars
=============================================================================
