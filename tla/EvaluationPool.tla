--------------------------- MODULE EvaluationPool ---------------------------
(***************************************************************************)
(* _collect_verdicts() (cognitivetree/search.py): the candidates of one    *)
(* batch are evaluated in a plain loop, or by a ThreadPoolExecutor whose   *)
(* map() hands one future per candidate to worker threads.  The executor   *)
(* is the standard library's, modelled from how it is used here: a FIFO    *)
(* queue of futures; results taken in submission order; at the first       *)
(* failing position the futures behind it are cancelled one by one, which  *)
(* only those not yet started obey; leaving the with block waits for every *)
(* thread.                                                                 *)
(***************************************************************************)
EXTENDS Integers, Sequences, FiniteSets

CONSTANTS BatchSize,           \* len(children)
          EvaluationWorkers,   \* bound: SearchConfig.evaluation_workers
          Verdicts, Fault

ASSUME PoolAssumption ==
  /\ BatchSize \in Nat \ {0}
  /\ EvaluationWorkers \in Nat \ {0}
  /\ Fault \notin Verdicts

VARIABLES
  workers,     \* min(evaluation_workers, len(children))
  script,      \* what the evaluator gives for each candidate
  pc,          \* where the calling thread is
  submitted,   \* futures submitted so far
  future,      \* state of each candidate's future
  thread,      \* the candidate each worker thread is evaluating, or Idle
  verdicts,    \* results taken so far, in candidate order
  failed,      \* the candidate whose exception propagates, or 0
  cursor,      \* the next future cancel() is called on
  executed     \* candidates evaluated to the end (metadata on the node)

callVars == <<workers, script>>
vars == <<callVars, pc, submitted, future, thread, verdicts, failed, cursor,
          executed>>

Candidates == 1..BatchSize
Idle       == 0

Threads    == 1..EvaluationWorkers

Init ==
  /\ script \in [Candidates -> Verdicts \cup {Fault}]
  /\ workers \in {w \in Threads : w <= BatchSize}
  /\ pc = IF workers <= 1 THEN "loop" ELSE "submit"
  /\ submitted = 0
  /\ future = [i \in Candidates |-> "none"]
  /\ thread = [t \in Threads |-> Idle]
  /\ verdicts = <<>>
  /\ failed = 0
  /\ cursor = BatchSize
  /\ executed = {}

Position == Len(verdicts) + 1

(***************************************************************************)
(* The single-worker path: a plain loop that the first exception leaves.   *)
(***************************************************************************)
LoopEvaluate ==
  /\ pc = "loop" /\ Position <= BatchSize
  /\ executed' = executed \cup {Position}
  /\ IF script[Position] = Fault
     THEN pc' = "raised" /\ failed' = Position /\ UNCHANGED verdicts
     ELSE verdicts' = Append(verdicts, script[Position]) /\ UNCHANGED <<pc, failed>>
  /\ UNCHANGED <<callVars, submitted, future, thread, cursor>>

LoopReturn ==
  /\ pc = "loop" /\ Position > BatchSize
  /\ pc' = "returned"
  /\ UNCHANGED <<callVars, submitted, future, thread, verdicts, failed, cursor,
                 executed>>

(***************************************************************************)
(* pool.map(): submit everything, then take results in order.              *)
(***************************************************************************)
\* Mutant: the last candidate is never submitted.
SubmitTooFew ==
  /\ pc = "submit"
  /\ submitted' = submitted + 1
  /\ future' = [future EXCEPT ![submitted + 1] = "pending"]
  /\ pc' = IF submitted + 2 >= BatchSize THEN "take" ELSE "submit"
  /\ UNCHANGED <<callVars, thread, verdicts, failed, cursor, executed>>

Submit ==
  /\ pc = "submit"
  /\ submitted' = submitted + 1
  /\ future' = [future EXCEPT ![submitted + 1] = "pending"]
  /\ pc' = IF submitted + 1 = BatchSize THEN "take" ELSE "submit"
  /\ UNCHANGED <<callVars, thread, verdicts, failed, cursor, executed>>

\* Mutant: results in completion order.
TakeAnyResult ==
  /\ pc = "take" /\ Position <= BatchSize
  /\ \E i \in Position..BatchSize :
       /\ future[i] = "finished"
       /\ IF script[i] = Fault
          THEN pc' = "cancel" /\ failed' = i /\ UNCHANGED verdicts
          ELSE verdicts' = Append(verdicts, script[i]) /\ UNCHANGED <<pc, failed>>
  /\ UNCHANGED <<callVars, submitted, future, thread, cursor, executed>>

TakeResult ==
  /\ pc = "take" /\ Position <= BatchSize
  /\ future[Position] = "finished"
  /\ IF script[Position] = Fault
     THEN pc' = "cancel" /\ failed' = Position /\ UNCHANGED verdicts
     ELSE verdicts' = Append(verdicts, script[Position]) /\ UNCHANGED <<pc, failed>>
  /\ UNCHANGED <<callVars, submitted, future, thread, cursor, executed>>

AllTaken ==
  /\ pc = "take" /\ Position > BatchSize
  /\ pc' = "shutdown"
  /\ UNCHANGED <<callVars, submitted, future, thread, verdicts, failed, cursor,
                 executed>>

CancelFuture ==
  /\ pc = "cancel" /\ cursor > failed
  /\ future' = [future EXCEPT ![cursor] = IF @ = "pending" THEN "cancelled" ELSE @]
  /\ cursor' = cursor - 1
  /\ UNCHANGED <<callVars, pc, submitted, thread, verdicts, failed, executed>>

CancelDone ==
  /\ pc = "cancel" /\ cursor = failed
  /\ pc' = "shutdown"
  /\ UNCHANGED <<callVars, submitted, future, thread, verdicts, failed, cursor,
                 executed>>

(***************************************************************************)
(* shutdown(wait=True): joins the threads, which first drain the queue.    *)
(***************************************************************************)
\* Mutant: shutdown(wait=False).
ShutdownNoWait ==
  /\ pc = "shutdown"
  /\ pc' = IF failed = 0 THEN "returned" ELSE "raised"
  /\ UNCHANGED <<callVars, submitted, future, thread, verdicts, failed, cursor,
                 executed>>

\* Mutant: waits for the result of every future, cancelled ones too.
ShutdownAwaitsAll ==
  /\ pc = "shutdown"
  /\ \A i \in Candidates : future[i] = "finished"
  /\ pc' = IF failed = 0 THEN "returned" ELSE "raised"
  /\ UNCHANGED <<callVars, submitted, future, thread, verdicts, failed, cursor,
                 executed>>

Shutdown ==
  /\ pc = "shutdown"
  /\ \A i \in Candidates : future[i] \in {"finished", "cancelled"}
  /\ \A t \in Threads : thread[t] = Idle
  /\ pc' = IF failed = 0 THEN "returned" ELSE "raised"
  /\ UNCHANGED <<callVars, submitted, future, thread, verdicts, failed, cursor,
                 executed>>

(***************************************************************************)
(* A worker thread: the oldest future nobody cancelled, to its end.        *)
(***************************************************************************)
StartWork(t) ==
  /\ t <= workers /\ thread[t] = Idle
  /\ \E i \in Candidates :
       /\ future[i] = "pending"
       /\ \A j \in 1..(i - 1) : future[j] # "pending"
       /\ future' = [future EXCEPT ![i] = "running"]
       /\ thread' = [thread EXCEPT ![t] = i]
  /\ UNCHANGED <<callVars, pc, submitted, verdicts, failed, cursor, executed>>

FinishWork(t) ==
  /\ thread[t] # Idle
  /\ future' = [future EXCEPT ![thread[t]] = "finished"]
  /\ executed' = executed \cup {thread[t]}
  /\ thread' = [thread EXCEPT ![t] = Idle]
  /\ UNCHANGED <<callVars, pc, submitted, verdicts, failed, cursor>>

Done == pc \in {"returned", "raised"}

Caller == \/ LoopEvaluate \/ LoopReturn \/ Submit \/ TakeResult \/ AllTaken
          \/ CancelFuture \/ CancelDone \/ Shutdown

Worker(t) == StartWork(t) \/ FinishWork(t)

Terminated == Done /\ UNCHANGED vars

Next == Caller \/ (\E t \in Threads : Worker(t)) \/ Terminated

(***************************************************************************)
(* Fairness: every thread is scheduled, and every evaluation ends (the     *)
(* sandbox evaluators enforce a timeout).                                  *)
(***************************************************************************)
Spec == Init /\ [][Next]_vars
FairSpec == Spec /\ WF_vars(Caller) /\ \A t \in Threads : WF_vars(Worker(t))

-----------------------------------------------------------------------------
(***************************************************************************)
(* Type correctness.                                                       *)
(***************************************************************************)
TypeOK ==
  /\ workers \in Threads
  /\ script \in [Candidates -> Verdicts \cup {Fault}]
  /\ pc \in {"loop", "submit", "take", "cancel", "shutdown", "returned", "raised"}
  /\ submitted \in 0..BatchSize
  /\ future \in [Candidates -> {"none", "pending", "running", "finished", "cancelled"}]
  /\ thread \in [Threads -> Candidates \cup {Idle}]
  /\ verdicts \in Seq(Verdicts) /\ Len(verdicts) <= BatchSize
  /\ failed \in 0..BatchSize
  /\ cursor \in 0..BatchSize
  /\ executed \subseteq Candidates

(***************************************************************************)
(* The pool implements the sequential promise: verdicts in candidate       *)
(* order, the earliest failure, and an answer that never changes.          *)
(***************************************************************************)
Batch == INSTANCE BatchEvaluation WITH
  answer <- CASE pc = "returned" -> [verdicts |-> verdicts, failed |-> 0]
              [] pc = "raised"   -> [verdicts |-> <<>>, failed |-> failed]
              [] OTHER           -> [verdicts |-> <<>>, failed |-> -1]

AnswersLikeALoop == Batch!BatchSpec

(***************************************************************************)
(* No evaluation outlives the batch: once _collect_verdicts() returns or   *)
(* raises, no thread still works on a candidate (the controller is about   *)
(* to write to those nodes) and none ever will; and two threads never      *)
(* share a candidate.                                                      *)
(***************************************************************************)
QuietOnceAnswered ==
  /\ Done => /\ \A t \in Threads : thread[t] = Idle
             /\ \A i \in Candidates : future[i] # "pending"
  /\ \A t, u \in Threads : thread[t] = thread[u] /\ thread[t] # Idle => t = u

(***************************************************************************)
(* Nothing the caller waits for is lost: the result it takes next was not  *)
(* cancelled, and each future it still needs is on the queue of a pool     *)
(* with threads, or one of them is running it to its end.                  *)
(***************************************************************************)
Awaited ==
  CASE pc = "take"     -> {Position} \cap Candidates
    [] pc = "shutdown" -> {i \in Candidates : future[i] # "cancelled"}
    [] OTHER           -> {}

NoFutureIsLost ==
  \A i \in Awaited :
    \/ future[i] = "finished"
    \/ future[i] = "pending" /\ workers > 1
    \/ future[i] = "running" /\ \E t \in 1..workers : thread[t] = i

(***************************************************************************)
(* The batch is answered: a failing candidate cannot leave the caller      *)
(* waiting for a cancelled future.                                         *)
(***************************************************************************)
BatchAnswered == <>Done
=============================================================================
