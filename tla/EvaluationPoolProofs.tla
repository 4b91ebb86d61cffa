------------------------ MODULE EvaluationPoolProofs ------------------------
(***************************************************************************)
(* Proofs about EvaluationPool, for every batch size, number of workers    *)
(* and set of verdicts: type correctness, quiescence once the batch is     *)
(* answered, that no future the caller waits for is lost, that the batch   *)
(* counts down and is never stuck, and the refinement of BatchEvaluation.  *)
(***************************************************************************)
EXTENDS EvaluationPool, FiniteSetTheorems, SumTheorems, TLAPS

(***************************************************************************)
(* What was taken so far is what a loop would have taken, and the control  *)
(* point says whether a failure was met.                                   *)
(***************************************************************************)
OrderInv ==
  /\ \A i \in 1..Len(verdicts) : verdicts[i] = script[i]
  /\ failed # 0 => failed = Len(verdicts) + 1 /\ script[failed] = Fault
  /\ pc \in {"loop", "submit", "take", "returned"} => failed = 0
  /\ pc \in {"cancel", "raised"} => failed # 0
  /\ pc \in {"shutdown", "returned"} /\ failed = 0 => Len(verdicts) = BatchSize

(***************************************************************************)
(* A busy thread's future is running, no two threads share one; the loop   *)
(* never touches a future; an answered batch has no future left to start   *)
(* or to finish.                                                           *)
(***************************************************************************)
ThreadInv ==
  /\ \A t \in Threads : thread[t] # Idle => future[thread[t]] = "running"
  /\ \A t, u \in Threads : thread[t] = thread[u] /\ thread[t] # Idle => t = u
  /\ pc = "loop" => \A i \in Candidates : future[i] = "none"
  /\ Done => \A i \in Candidates : future[i] \notin {"pending", "running"}

(***************************************************************************)
(* While submitting, a future is still to be submitted and those behind    *)
(* the counter are untouched; the cursor starts at the end of the batch    *)
(* and never passes the failure.                                           *)
(***************************************************************************)
CounterInv ==
  /\ pc = "submit" =>
       /\ submitted < BatchSize
       /\ \A i \in Candidates : i > submitted => future[i] = "none"
  /\ failed = 0 => cursor = BatchSize
  /\ cursor >= failed

Inv == TypeOK /\ OrderInv /\ ThreadInv /\ CounterInv

(***************************************************************************)
(* A fresh call of _collect_verdicts() satisfies the invariant.            *)
(***************************************************************************)
LEMMA InitInv == Init => Inv
<1> SUFFICES ASSUME Init PROVE Inv
  OBVIOUS
<1> USE PoolAssumption DEF Init, Candidates, Threads, Idle
<1>1. TypeOK
  BY DEF TypeOK
<1>2. OrderInv
  BY DEF OrderInv
<1>3. ThreadInv
  BY DEF ThreadInv, Done
<1>4. CounterInv
  BY DEF CounterInv
<1> QED
  BY <1>1, <1>2, <1>3, <1>4 DEF Inv

(***************************************************************************)
(* Every step of the calling thread and of a worker preserves types.       *)
(***************************************************************************)
LEMMA TypeStep == Inv /\ [Next]_vars => TypeOK'
<1> SUFFICES ASSUME Inv, [Next]_vars PROVE TypeOK'
  OBVIOUS
<1> USE PoolAssumption DEF Inv, TypeOK, Candidates, Threads, Idle, callVars
<1>1. CASE LoopEvaluate
  <2>1. Position \in Candidates
    BY <1>1 DEF LoopEvaluate, Position
  <2>2. CASE script[Position] = Fault
    BY <1>1, <2>1, <2>2 DEF LoopEvaluate
  <2>3. CASE script[Position] # Fault
    <3>1. script[Position] \in Verdicts
      BY <2>1, <2>3
    <3>2. verdicts' = Append(verdicts, script[Position])
      BY <1>1, <2>3 DEF LoopEvaluate
    <3>3. verdicts' \in Seq(Verdicts) /\ Len(verdicts') = Position
      BY <3>1, <3>2 DEF Position
    <3> QED
      BY <1>1, <2>1, <2>3, <3>3 DEF LoopEvaluate
  <2> QED
    BY <2>2, <2>3
<1>2. CASE LoopReturn
  BY <1>2 DEF LoopReturn
<1>3. CASE Submit
  BY <1>3 DEF Submit, CounterInv
<1>4. CASE TakeResult
  <2>1. Position \in Candidates
    BY <1>4 DEF TakeResult, Position
  <2>2. CASE script[Position] = Fault
    BY <1>4, <2>1, <2>2 DEF TakeResult, Position
  <2>3. CASE script[Position] # Fault
    <3>1. script[Position] \in Verdicts
      BY <2>1, <2>3
    <3>2. verdicts' = Append(verdicts, script[Position])
      BY <1>4, <2>3 DEF TakeResult
    <3>3. verdicts' \in Seq(Verdicts) /\ Len(verdicts') = Position
      BY <3>1, <3>2 DEF Position
    <3> QED
      BY <1>4, <2>1, <2>3, <3>3 DEF TakeResult
  <2> QED
    BY <2>2, <2>3
<1>5. CASE AllTaken
  BY <1>5 DEF AllTaken
<1>6. CASE CancelFuture
  BY <1>6 DEF CancelFuture
<1>7. CASE CancelDone
  BY <1>7 DEF CancelDone
<1>8. CASE Shutdown
  BY <1>8 DEF Shutdown
<1>9. ASSUME NEW t \in Threads, StartWork(t) PROVE TypeOK'
  BY <1>9 DEF StartWork
<1>10. ASSUME NEW t \in Threads, FinishWork(t) PROVE TypeOK'
  BY <1>10 DEF FinishWork
<1>11. CASE UNCHANGED vars
  BY <1>11 DEF vars
<1> QED
  BY <1>1, <1>2, <1>3, <1>4, <1>5, <1>6, <1>7, <1>8, <1>9, <1>10, <1>11
     DEF Next, Caller, Worker, Terminated

(***************************************************************************)
(* Results are taken in candidate order, and the first failure met is the  *)
(* earliest.  Workers touch neither.                                       *)
(***************************************************************************)
LEMMA OrderStep == Inv /\ [Next]_vars => OrderInv'
<1> SUFFICES ASSUME Inv, [Next]_vars PROVE OrderInv'
  OBVIOUS
<1> USE PoolAssumption DEF Inv, TypeOK, OrderInv, Candidates, callVars
<1>1. CASE LoopEvaluate
  BY <1>1 DEF LoopEvaluate, Position
<1>2. CASE LoopReturn
  BY <1>2 DEF LoopReturn, Position
<1>3. CASE Submit
  BY <1>3 DEF Submit
<1>4. CASE TakeResult
  BY <1>4 DEF TakeResult, Position
<1>5. CASE AllTaken
  BY <1>5 DEF AllTaken, Position
<1>6. CASE CancelFuture
  BY <1>6 DEF CancelFuture
<1>7. CASE CancelDone
  BY <1>7 DEF CancelDone
<1>8. CASE Shutdown
  BY <1>8 DEF Shutdown
<1>9. ASSUME NEW t \in Threads, Worker(t) PROVE OrderInv'
  BY <1>9 DEF Worker, StartWork, FinishWork
<1>10. CASE UNCHANGED vars
  BY <1>10 DEF vars
<1> QED
  BY <1>1, <1>2, <1>3, <1>4, <1>5, <1>6, <1>7, <1>8, <1>9, <1>10
     DEF Next, Caller, Terminated

(***************************************************************************)
(* Futures and threads stay in step, and shutdown leaves none behind.      *)
(***************************************************************************)
LEMMA ThreadStep == Inv /\ [Next]_vars => ThreadInv'
<1> SUFFICES ASSUME Inv, [Next]_vars PROVE ThreadInv'
  OBVIOUS
<1> USE PoolAssumption DEF Inv, TypeOK, ThreadInv, Candidates, Threads, Idle,
        Done, callVars
<1>1. CASE LoopEvaluate
  BY <1>1 DEF LoopEvaluate
<1>2. CASE LoopReturn
  BY <1>2 DEF LoopReturn
<1>3. CASE Submit
  <2>1. submitted + 1 \in Candidates /\ pc' \in {"take", "submit"}
    BY <1>3 DEF Submit, CounterInv
  <2>2. future[submitted + 1] # "running"
    BY <1>3 DEF Submit, CounterInv
  <2> QED
    BY <1>3, <2>1, <2>2 DEF Submit
<1>4. CASE TakeResult
  BY <1>4 DEF TakeResult
<1>5. CASE AllTaken
  BY <1>5 DEF AllTaken
<1>6. CASE CancelFuture
  BY <1>6 DEF CancelFuture
<1>7. CASE CancelDone
  BY <1>7 DEF CancelDone
<1>8. CASE Shutdown
  BY <1>8 DEF Shutdown
<1>9. ASSUME NEW t \in Threads, StartWork(t) PROVE ThreadInv'
  BY <1>9 DEF StartWork
<1>10. ASSUME NEW t \in Threads, FinishWork(t) PROVE ThreadInv'
  BY <1>10 DEF FinishWork
<1>11. CASE UNCHANGED vars
  BY <1>11 DEF vars
<1> QED
  BY <1>1, <1>2, <1>3, <1>4, <1>5, <1>6, <1>7, <1>8, <1>9, <1>10, <1>11
     DEF Next, Caller, Worker, Terminated

(***************************************************************************)
(* The counters stay in their windows.                                     *)
(***************************************************************************)
LEMMA CounterStep == Inv /\ [Next]_vars => CounterInv'
<1> SUFFICES ASSUME Inv, [Next]_vars PROVE CounterInv'
  OBVIOUS
<1> USE PoolAssumption DEF Inv, TypeOK, OrderInv, CounterInv, Candidates, callVars
<1>1. CASE LoopEvaluate
  BY <1>1 DEF LoopEvaluate, Position
<1>2. CASE Submit
  BY <1>2 DEF Submit
<1>3. CASE TakeResult
  BY <1>3 DEF TakeResult, Position
<1>4. CASE CancelFuture
  BY <1>4 DEF CancelFuture
<1>5. CASE LoopReturn \/ AllTaken \/ CancelDone \/ Shutdown
  BY <1>5 DEF LoopReturn, AllTaken, CancelDone, Shutdown
<1>6. ASSUME NEW t \in Threads, StartWork(t) PROVE CounterInv'
  BY <1>6 DEF StartWork
<1>7. ASSUME NEW t \in Threads, FinishWork(t) PROVE CounterInv'
  <2>1. future[thread[t]] = "running" /\ thread[t] \in Candidates
    BY <1>7 DEF FinishWork, ThreadInv, Idle
  <2> QED
    BY <1>7, <2>1 DEF FinishWork
<1>8. CASE UNCHANGED vars
  BY <1>8 DEF vars
<1> QED
  BY <1>1, <1>2, <1>3, <1>4, <1>5, <1>6, <1>7, <1>8
     DEF Next, Caller, Worker, Terminated

(***************************************************************************)
(* The inductive invariant of the pool.                                    *)
(***************************************************************************)
THEOREM PoolInvariant == Spec => []Inv
<1>1. Inv /\ [Next]_vars => Inv'
  BY TypeStep, OrderStep, ThreadStep, CounterStep DEF Inv
<1> QED
  BY InitInv, <1>1, PTL DEF Spec

(***************************************************************************)
(* TypeOK: whatever the threads of the pool do, the verdicts that have     *)
(* been collected are a list of evaluations of the batch's candidates.     *)
(***************************************************************************)
THEOREM PoolTypeCorrect == Spec => []TypeOK
<1>1. Inv => TypeOK
  BY DEF Inv
<1> QED
  BY <1>1, PoolInvariant, PTL

(***************************************************************************)
(* Once _collect_verdicts() has returned or raised, no worker thread is    *)
(* evaluating a candidate and none can start to.                           *)
(***************************************************************************)
THEOREM PoolQuiet == Spec => []QuietOnceAnswered
<1>1. Inv => QuietOnceAnswered
  BY PoolAssumption DEF Inv, TypeOK, ThreadInv, QuietOnceAnswered, Candidates,
                        Threads, Idle, Done
<1> QED
  BY <1>1, PoolInvariant, PTL

(***************************************************************************)
(* A list that agrees with the script on every candidate is the script.    *)
(***************************************************************************)
LEMMA FullList ==
  ASSUME Inv, Len(verdicts) = BatchSize
  PROVE  verdicts = script /\ Batch!NoFault
<1> USE PoolAssumption DEF Inv, TypeOK, OrderInv, Candidates
<1>1. verdicts = script
  OBVIOUS
<1>2. Batch!NoFault
  BY DEF Batch!NoFault, Batch!Candidates
<1> QED
  BY <1>1, <1>2

(***************************************************************************)
(* The pool implements the sequential promise of _collect_verdicts():      *)
(* whatever the interleaving of the threads, verdicts come back in         *)
(* candidate order, the exception raised is the earliest candidate's, and  *)
(* the answer is given once.                                               *)
(***************************************************************************)
THEOREM PoolRefinesBatch == Spec => AnswersLikeALoop
<1>1. Init => Batch!BatchInit
  BY PoolAssumption DEF Init, Batch!BatchInit, Batch!Waiting, Candidates,
                        Batch!Candidates
<1>2. Inv /\ [Next]_vars => [Batch!Answer]_(Batch!batchVars)
  <2> SUFFICES ASSUME Inv, [Next]_vars PROVE [Batch!Answer]_(Batch!batchVars)
    OBVIOUS
  <2> USE PoolAssumption DEF Inv, TypeOK, OrderInv, Candidates, callVars,
          Batch!batchVars
  <2>1. CASE LoopEvaluate /\ script[Position] = Fault
    <3>1. Batch!FirstFault(Position) /\ Position \in Candidates
      BY <2>1 DEF LoopEvaluate, Batch!FirstFault, Position
    <3>2. failed' = Position /\ pc = "loop" /\ pc' = "raised" /\ UNCHANGED script
      BY <2>1 DEF LoopEvaluate
    <3> QED
      BY <3>1, <3>2 DEF Batch!Answer, Batch!Waiting, Batch!Raised, Batch!Candidates
  <2>2. CASE LoopReturn
    <3>1. verdicts = script /\ Batch!NoFault
      BY <2>2, FullList DEF LoopReturn, Position
    <3>2. verdicts' = verdicts /\ pc = "loop" /\ pc' = "returned" /\ UNCHANGED script
      BY <2>2 DEF LoopReturn
    <3> QED
      BY <3>1, <3>2 DEF Batch!Answer, Batch!Waiting, Batch!Returned
  <2>3. CASE Shutdown /\ failed = 0
    <3>1. verdicts = script /\ Batch!NoFault
      BY <2>3, FullList DEF Shutdown
    <3>2. verdicts' = verdicts /\ pc = "shutdown" /\ pc' = "returned"
          /\ UNCHANGED script
      BY <2>3 DEF Shutdown
    <3> QED
      BY <3>1, <3>2 DEF Batch!Answer, Batch!Waiting, Batch!Returned
  <2>4. CASE Shutdown /\ failed # 0
    <3>1. Batch!FirstFault(failed) /\ failed \in Candidates
      BY <2>4 DEF Batch!FirstFault
    <3>2. failed' = failed /\ pc = "shutdown" /\ pc' = "raised" /\ UNCHANGED script
      BY <2>4 DEF Shutdown
    <3> QED
      BY <3>1, <3>2 DEF Batch!Answer, Batch!Waiting, Batch!Raised, Batch!Candidates
  <2>5. ASSUME UNCHANGED script, pc \notin {"returned", "raised"},
               pc' \notin {"returned", "raised"}
        PROVE  UNCHANGED Batch!batchVars
    BY <2>5
  <2>6. CASE LoopEvaluate /\ script[Position] # Fault
    BY <2>5, <2>6 DEF LoopEvaluate
  <2>7. CASE Submit \/ TakeResult \/ AllTaken \/ CancelFuture \/ CancelDone
    BY <2>5, <2>7 DEF Submit, TakeResult, AllTaken, CancelFuture, CancelDone
  <2>8. ASSUME NEW t \in Threads, Worker(t) PROVE UNCHANGED Batch!batchVars
    BY <2>8 DEF Worker, StartWork, FinishWork
  <2>9. CASE UNCHANGED vars
    BY <2>9 DEF vars
  <2> QED
    BY <2>1, <2>2, <2>3, <2>4, <2>6, <2>7, <2>8, <2>9 DEF Next, Caller, Terminated
<1> QED
  BY <1>1, <1>2, PoolInvariant, PTL DEF Spec, AnswersLikeALoop, Batch!BatchSpec

-----------------------------------------------------------------------------
(***************************************************************************)
(* Where the futures of a pool are: a running one has a thread of the      *)
(* pool, every one has been submitted when results are taken, and none is  *)
(* cancelled before a failure was met.                                     *)
(***************************************************************************)
FutureInv ==
  /\ \A i \in Candidates : future[i] = "running" => \E t \in 1..workers : thread[t] = i
  /\ pc \in {"submit", "take", "cancel", "shutdown"} => workers > 1
  /\ pc = "submit" => \A i \in 1..submitted : future[i] # "none"
  /\ pc \in {"take", "cancel", "shutdown"} => \A i \in Candidates : future[i] # "none"
  /\ pc \in {"submit", "take"} => \A i \in Candidates : future[i] # "cancelled"

\* A fresh call has no future yet.
LEMMA InitFuture == Init => FutureInv
  BY PoolAssumption DEF Init, FutureInv, Candidates, Threads

\* No step of the caller or of a thread loses a future.
LEMMA FutureStep == Inv /\ FutureInv /\ [Next]_vars => FutureInv'
<1> SUFFICES ASSUME Inv, FutureInv, [Next]_vars PROVE FutureInv'
  OBVIOUS
<1> USE PoolAssumption DEF Inv, TypeOK, FutureInv, Candidates, Threads, Idle, callVars
<1>1. CASE LoopEvaluate \/ LoopReturn \/ TakeResult \/ AllTaken \/ CancelDone \/ Shutdown
  <2>1. /\ UNCHANGED <<future, thread, workers, submitted>> /\ pc' # "submit"
        /\ pc' \in {"take", "cancel", "shutdown"} => pc \in {"take", "cancel", "shutdown"}
        /\ pc' = "take" => pc = "take"
    BY <1>1 DEF LoopEvaluate, LoopReturn, TakeResult, AllTaken, CancelDone, Shutdown
  <2> QED
    BY <2>1
<1>2. CASE Submit
  <2>1. PICK m : m = submitted + 1 /\ m \in Candidates /\ 1..m = 1..submitted \cup {m}
    BY <1>2 DEF Submit, CounterInv
  <2>2. /\ future' = [future EXCEPT ![m] = "pending"] /\ UNCHANGED <<thread, workers>>
        /\ submitted' = m /\ pc = "submit"
        /\ pc' = IF m = BatchSize THEN "take" ELSE "submit"
    BY <1>2, <2>1 DEF Submit
  <2>3. \A i \in Candidates : future'[i] = IF i = m THEN "pending" ELSE future[i]
    BY <2>1, <2>2
  <2>4. \A i \in 1..m : future'[i] # "none"
    <3>1. 1..submitted \subseteq Candidates
      OBVIOUS
    <3> QED
      BY <2>1, <2>2, <2>3, <3>1
  <2> QED
    BY <2>1, <2>2, <2>3, <2>4
<1>3. CASE CancelFuture
  <2>1. /\ pc = "cancel" /\ pc' = "cancel" /\ UNCHANGED <<thread, workers>>
        /\ \A i \in Candidates : \/ future'[i] = future[i]
                                 \/ future'[i] = "cancelled"
    BY <1>3 DEF CancelFuture
  <2> QED
    BY <2>1
<1>4. ASSUME NEW t \in Threads, StartWork(t) PROVE FutureInv'
  <2>1. PICK i \in Candidates : /\ future[i] = "pending"
                                /\ future' = [future EXCEPT ![i] = "running"]
                                /\ thread' = [thread EXCEPT ![t] = i]
    BY <1>4 DEF StartWork
  <2>2. /\ t \in 1..workers /\ thread[t] = 0 /\ UNCHANGED <<pc, workers, submitted>>
    BY <1>4 DEF StartWork
  <2>3. 1..workers \subseteq Threads
    OBVIOUS
  <2>4. \A j \in Candidates : future'[j] = "running" => \E u \in 1..workers : thread'[u] = j
    BY <2>1, <2>2, <2>3
  <2>5. \A j \in Candidates : \/ future'[j] = future[j]
                              \/ future'[j] = "running"
    BY <2>1
  <2> QED
    BY <2>2, <2>4, <2>5
<1>5. ASSUME NEW t \in Threads, FinishWork(t) PROVE FutureInv'
  <2>1. PICK i \in Candidates : /\ i = thread[t]
                                /\ future' = [future EXCEPT ![i] = "finished"]
                                /\ thread' = [thread EXCEPT ![t] = 0]
    BY <1>5 DEF FinishWork
  <2>2. UNCHANGED <<pc, workers, submitted>>
    BY <1>5 DEF FinishWork
  <2>3. 1..workers \subseteq Threads
    OBVIOUS
  <2>4. \A j \in Candidates : future'[j] = "running" => \E u \in 1..workers : thread'[u] = j
    BY <2>1, <2>2, <2>3
  <2>5. \A j \in Candidates : \/ future'[j] = future[j]
                              \/ future'[j] = "finished"
    BY <2>1
  <2> QED
    BY <2>2, <2>4, <2>5
<1>6. CASE UNCHANGED vars
  BY <1>6 DEF vars
<1> QED
  BY <1>1, <1>2, <1>3, <1>4, <1>5, <1>6 DEF Next, Caller, Worker, Terminated

(***************************************************************************)
(* However the threads are scheduled: the caller waits only for futures    *)
(* that are on the queue of a pool with threads, or that a thread is       *)
(* running; it is never left waiting for one that was cancelled.           *)
(***************************************************************************)
THEOREM PoolLosesNoFuture == Spec => []NoFutureIsLost
<1>1. Inv /\ FutureInv => NoFutureIsLost
  <2> SUFFICES ASSUME Inv, FutureInv, NEW i \in Awaited
               PROVE  \/ future[i] = "finished"
                      \/ future[i] = "pending" /\ workers > 1
                      \/ future[i] = "running" /\ \E t \in 1..workers : thread[t] = i
    BY DEF NoFutureIsLost
  <2>1. /\ i \in Candidates /\ pc \in {"take", "shutdown"}
        /\ pc = "shutdown" => future[i] # "cancelled"
    BY DEF Awaited, Inv, TypeOK
  <2>2. future[i] \in {"pending", "running", "finished"} /\ workers > 1
    BY <2>1 DEF FutureInv, Inv, TypeOK
  <2> QED
    BY <2>1, <2>2 DEF FutureInv
<1> QED
  BY <1>1, InitFuture, FutureStep, PoolInvariant, PTL DEF Spec
-----------------------------------------------------------------------------
(***************************************************************************)
(* How far a batch is from its answer: the stages of the calling thread,   *)
(* what its stage has left to do, the evaluations not finished, and those  *)
(* not begun.  The first of the four that changes decides.                 *)
(***************************************************************************)
StagesLeft ==
  CASE pc \in {"loop", "submit"} -> 4
    [] pc = "take" -> 3
    [] pc = "cancel" -> 2
    [] pc = "shutdown" -> 1
    [] OTHER -> 0

StageWork ==
  CASE pc \in {"loop", "take"} -> BatchSize - Len(verdicts)
    [] pc = "submit" -> BatchSize - submitted
    [] pc = "cancel" -> cursor
    [] OTHER -> 0

Unfinished == {i \in Candidates : future[i] \in {"none", "pending", "running"}}
Queued     == {i \in Candidates : future[i] \in {"none", "pending"}}

Remaining == <<StagesLeft, StageWork, Cardinality(Unfinished), Cardinality(Queued)>>

Lower(from, to) ==
  \/ to[1] < from[1]
  \/ to[1] = from[1] /\ to[2] < from[2]
  \/ to[1] = from[1] /\ to[2] = from[2] /\ to[3] < from[3]
  \/ to[1] = from[1] /\ to[2] = from[2] /\ to[3] = from[3] /\ to[4] < from[4]

\* The guards of the caller and of a thread: somebody can take a step.
CallerMayStep ==
  \/ pc \in {"loop", "submit", "cancel"}
  \/ pc = "take" /\ (Position > BatchSize \/ future[Position] = "finished")
  \/ /\ pc = "shutdown"
     /\ \A i \in Candidates : future[i] \in {"finished", "cancelled"}
     /\ \A t \in Threads : thread[t] = Idle

ThreadMayStep(t) ==
  \/ thread[t] # Idle
  \/ /\ t <= workers /\ thread[t] = Idle
     /\ \E i \in Candidates : /\ future[i] = "pending"
                              /\ \A j \in 1..(i - 1) : future[j] # "pending"

SomebodyMayStep == Done \/ CallerMayStep \/ \E t \in Threads : ThreadMayStep(t)
\* The counters of the caller, read off the definitions before and after a step.
StageTable ==
  /\ pc \in {"loop", "submit"} => StagesLeft = 4
  /\ pc = "take" => StagesLeft = 3
  /\ pc = "cancel" => StagesLeft = 2
  /\ pc = "shutdown" => StagesLeft = 1
  /\ Done => StagesLeft = 0

WorkTable ==
  /\ pc \in {"loop", "take"} => StageWork = BatchSize - Len(verdicts)
  /\ pc = "submit" => StageWork = BatchSize - submitted
  /\ pc = "cancel" => StageWork = cursor
  /\ pc = "shutdown" \/ Done => StageWork = 0

LEMMA StagesAt == StageTable /\ StageTable' /\ WorkTable /\ WorkTable'
<1>1. StageTable
  BY DEF StageTable, StagesLeft, Done
<1>2. StageTable'
  BY DEF StageTable, StagesLeft, Done
<1>3. WorkTable
  BY DEF WorkTable, StageWork, Done
<1>4. WorkTable'
  BY DEF WorkTable, StageWork, Done
<1> QED
  BY <1>1, <1>2, <1>3, <1>4

\* The counters of the futures count finite sets.
LEMMA FewerFutures ==
  ASSUME NEW S \in SUBSET Candidates, NEW T \in SUBSET S
  PROVE  /\ Cardinality(S) \in Nat /\ Cardinality(T) \in Nat
         /\ T # S => Cardinality(T) < Cardinality(S)
<1>1. IsFiniteSet(S)
  <2>1. IsFiniteSet(1..BatchSize)
    BY FS_Interval, PoolAssumption
  <2> QED
    BY <2>1, FS_Subset DEF Candidates
<1>2. IsFiniteSet(T) /\ Cardinality(T) <= Cardinality(S)
      /\ (Cardinality(S) = Cardinality(T) => S = T)
  BY <1>1, FS_Subset
<1> QED
  BY <1>1, <1>2, FS_CardinalityType

\* Every step of the caller or of a thread lowers what remains.
LEMMA StepLowers ==
  ASSUME Inv, Inv', Next, vars' # vars
  PROVE  Lower(Remaining, Remaining')
<1> DEFINE Four == /\ Remaining[1] = StagesLeft /\ Remaining[2] = StageWork
                   /\ Remaining[3] = Cardinality(Unfinished)
                   /\ Remaining[4] = Cardinality(Queued)
           After == /\ Remaining'[1] = StagesLeft' /\ Remaining'[2] = StageWork'
                    /\ Remaining'[3] = Cardinality(Unfinished')
                    /\ Remaining'[4] = Cardinality(Queued')
<1>1. Four /\ After
  BY DEF Remaining
<1> HIDE DEF Four, After
<1>2. ASSUME \/ StagesLeft' < StagesLeft
             \/ StagesLeft' = StagesLeft /\ StageWork' < StageWork
      PROVE  Lower(Remaining, Remaining')
  BY <1>1, <1>2 DEF Lower, Four, After
<1>3. ASSUME StagesLeft' = StagesLeft, StageWork' = StageWork,
             \/ Cardinality(Unfinished') < Cardinality(Unfinished)
             \/ /\ Cardinality(Unfinished') = Cardinality(Unfinished)
                /\ Cardinality(Queued') < Cardinality(Queued)
      PROVE  Lower(Remaining, Remaining')
  BY <1>1, <1>3 DEF Lower, Four, After
<1>4. CASE LoopEvaluate \/ LoopReturn
  <2>1. pc = "loop" /\ Len(verdicts) \in Nat /\ BatchSize \in Nat
    BY <1>4, PoolAssumption DEF LoopEvaluate, LoopReturn, Inv, TypeOK
  <2>2. CASE pc' # "loop"
    BY <1>2, <1>4, <2>1, <2>2, StagesAt DEF LoopEvaluate, LoopReturn, StageTable, Done
  <2>3. CASE pc' = "loop"
    <3>1. Len(verdicts') = Len(verdicts) + 1
      BY <1>4, <2>1, <2>3 DEF LoopEvaluate, LoopReturn, Inv, TypeOK
    <3> QED
      BY <1>2, <2>1, <2>3, <3>1, StagesAt DEF StageTable, WorkTable
  <2> QED
    BY <2>2, <2>3
<1>5. CASE Submit
  <2>1. /\ pc = "submit" /\ submitted' = submitted + 1 /\ pc' \in {"take", "submit"}
        /\ submitted \in Nat /\ BatchSize \in Nat
    BY <1>5, PoolAssumption DEF Submit, Inv, TypeOK
  <2> QED
    BY <1>2, <2>1, StagesAt DEF StageTable, WorkTable
<1>6. CASE TakeResult \/ AllTaken
  <2>1. pc = "take" /\ pc' \in {"take", "cancel", "shutdown"} /\ BatchSize \in Nat
        /\ Len(verdicts) \in Nat
    BY <1>6, PoolAssumption DEF TakeResult, AllTaken, Inv, TypeOK
  <2>2. pc' = "take" => Len(verdicts') = Len(verdicts) + 1
    BY <1>6, <2>1 DEF TakeResult, AllTaken, Inv, TypeOK
  <2> QED
    BY <1>2, <2>1, <2>2, StagesAt DEF StageTable, WorkTable
<1>7. CASE CancelFuture \/ CancelDone
  <2>1. pc = "cancel" /\ cursor \in Nat
        /\ (pc' = "shutdown" \/ (pc' = "cancel" /\ cursor' = cursor - 1))
    BY <1>7, PoolAssumption DEF CancelFuture, CancelDone, Inv, TypeOK
  <2> QED
    BY <1>2, <2>1, StagesAt DEF StageTable, WorkTable
<1>8. CASE Shutdown
  <2>1. pc = "shutdown" /\ Done'
    BY <1>8 DEF Shutdown, Done
  <2> QED
    BY <1>2, <2>1, StagesAt DEF StageTable
<1>9. ASSUME NEW t \in Threads, Worker(t) PROVE Lower(Remaining, Remaining')
  <2>1. UNCHANGED <<pc, verdicts, submitted, cursor>>
    BY <1>9 DEF Worker, StartWork, FinishWork
  <2>2. StagesLeft' = StagesLeft /\ StageWork' = StageWork
    BY <2>1 DEF StagesLeft, StageWork
  <2>3. CASE StartWork(t)
    <3>1. PICK i \in Candidates : /\ future[i] = "pending"
                                  /\ future' = [future EXCEPT ![i] = "running"]
      BY <2>3 DEF StartWork
    <3>2. \A j \in Candidates : future'[j] = IF j = i THEN "running" ELSE future[j]
      BY <3>1 DEF Inv, TypeOK
    <3>3. Unfinished' = Unfinished
      BY <3>1, <3>2 DEF Unfinished
    <3>4. Queued' \subseteq Queued /\ i \in Queued /\ i \notin Queued'
      BY <3>1, <3>2 DEF Queued
    <3>5. PICK S, T : S = Queued /\ T = Queued'
      OBVIOUS
    <3>6. S \in SUBSET Candidates /\ T \in SUBSET S /\ T # S
      BY <3>4, <3>5 DEF Queued
    <3>7. Cardinality(T) < Cardinality(S)
      BY <3>6, FewerFutures
    <3> QED
      BY <1>3, <2>2, <3>3, <3>5, <3>7
  <2>4. CASE FinishWork(t)
    <3>1. PICK i : i = thread[t]
      OBVIOUS
    <3>2. i \in Candidates /\ future[i] = "running"
          /\ future' = [future EXCEPT ![i] = "finished"]
      BY <2>4, <3>1 DEF FinishWork, Inv, TypeOK, ThreadInv
    <3>3. \A j \in Candidates : future'[j] = IF j = i THEN "finished" ELSE future[j]
      BY <3>2 DEF Inv, TypeOK
    <3>4. Unfinished' \subseteq Unfinished /\ i \in Unfinished /\ i \notin Unfinished'
      BY <3>2, <3>3 DEF Unfinished
    <3>5. PICK S, T : S = Unfinished /\ T = Unfinished'
      OBVIOUS
    <3>6. S \in SUBSET Candidates /\ T \in SUBSET S /\ T # S
      BY <3>4, <3>5 DEF Unfinished
    <3>7. Cardinality(T) < Cardinality(S)
      BY <3>6, FewerFutures
    <3> QED
      BY <1>3, <2>2, <3>5, <3>7
  <2> QED
    BY <1>9, <2>3, <2>4 DEF Worker
<1> QED
  BY <1>4, <1>5, <1>6, <1>7, <1>8, <1>9 DEF Next, Caller, Terminated

\* All four counters are natural numbers.
LEMMA RemainingNat == Inv => \A i \in 1..4 : Remaining[i] \in Nat
<1> SUFFICES ASSUME Inv PROVE \A i \in 1..4 : Remaining[i] \in Nat
  OBVIOUS
<1>1. /\ pc \in {"loop", "submit", "take", "cancel", "shutdown"} \/ Done
      /\ BatchSize - Len(verdicts) \in Nat /\ BatchSize - submitted \in Nat
      /\ cursor \in Nat
  BY PoolAssumption DEF Inv, TypeOK, Done
<1>2. StagesLeft \in Nat /\ StageWork \in Nat
  BY <1>1, StagesAt DEF StageTable, WorkTable
<1>3. Unfinished \in SUBSET Candidates /\ Queued \in SUBSET Candidates
  BY DEF Unfinished, Queued
<1>4. Cardinality(Unfinished) \in Nat /\ Cardinality(Queued) \in Nat
  BY <1>3, FewerFutures
<1> QED
  BY <1>2, <1>4 DEF Remaining

(***************************************************************************)
(* Every step of _collect_verdicts() and of its threads lowers what        *)
(* remains of the batch, in any interleaving and whatever fails: it is     *)
(* answered after finitely many steps or somebody stops taking them.       *)
(***************************************************************************)
THEOREM PoolCountsDown ==
  Spec => [][ /\ (\A i \in 1..4 : Remaining[i] \in Nat)'
              /\ Lower(Remaining, Remaining') ]_vars
<1>1. Inv => \A i \in 1..4 : Remaining[i] \in Nat
  BY RemainingNat
<1>2. Inv /\ Inv' /\ [Next]_vars => [Lower(Remaining, Remaining')]_vars
  BY StepLowers
<1> QED
  BY <1>1, <1>2, PoolInvariant, PTL DEF Spec

\* The oldest future on the queue.
LEMMA OldestPending ==
  ASSUME NEW k \in Candidates, future[k] = "pending"
  PROVE  \E i \in Candidates : /\ future[i] = "pending"
                               /\ \A j \in 1..(i - 1) : future[j] # "pending"
<1> DEFINE Pending == {i \in Candidates : future[i] = "pending"}
<1>1. Pending \in SUBSET (0..BatchSize) /\ Pending # {}
  BY PoolAssumption DEF Candidates
<1>2. PICK i \in Pending : \A j \in Pending : i <= j
  BY <1>1, LeastOf, PoolAssumption
<1>3. \A j \in 1..(i - 1) : j \in Candidates /\ ~(i <= j)
  BY <1>2, PoolAssumption DEF Candidates
<1> QED
  BY <1>2, <1>3

(***************************************************************************)
(* Until the batch is answered somebody can take a step: the caller is not *)
(* left waiting while every thread is idle and the queue is empty, after   *)
(* any failure and any cancellation.                                       *)
(***************************************************************************)
THEOREM PoolNeverStuck == Spec => []SomebodyMayStep
<1>1. Inv /\ FutureInv => SomebodyMayStep
  <2> SUFFICES ASSUME Inv, FutureInv, ~Done, ~CallerMayStep
               PROVE  \E t \in Threads : ThreadMayStep(t)
    BY DEF SomebodyMayStep
  <2>1. pc \in {"take", "shutdown"} /\ workers \in 1..EvaluationWorkers /\ workers > 1
    BY DEF Inv, TypeOK, Done, CallerMayStep, FutureInv, Threads
  <2>2. CASE \E t \in Threads : thread[t] # Idle
    BY <2>2 DEF ThreadMayStep
  <2>3. CASE \A t \in Threads : thread[t] = Idle
    <3>1. PICK i \in Candidates : future[i] \notin {"finished", "cancelled"}
      <4>1. CASE pc = "take"
        <5>1. Position \in Candidates /\ future[Position] # "finished"
          BY <4>1, PoolAssumption DEF CallerMayStep, Position, Candidates, Inv, TypeOK
        <5> QED
          BY <4>1, <5>1 DEF FutureInv
      <4>2. CASE pc = "shutdown"
        BY <2>3, <4>2 DEF CallerMayStep
      <4> QED
        BY <2>1, <4>1, <4>2
    <3>2. future[i] \in {"pending", "running"}
      BY <2>1, <3>1 DEF FutureInv, Inv, TypeOK
    <3>3. future[i] # "running"
      <4>1. 1..workers \subseteq Threads /\ Idle \notin Candidates
        BY <2>1, PoolAssumption DEF Threads, Idle, Candidates
      <4> QED
        BY <2>3, <4>1 DEF FutureInv
    <3>4. 1 \in Threads /\ 1 <= workers
      BY <2>1, PoolAssumption DEF Threads
    <3> QED
      BY <2>3, <3>2, <3>3, <3>4, OldestPending DEF ThreadMayStep
  <2> QED
    BY <2>2, <2>3
<1> QED
  BY <1>1, InitFuture, FutureStep, PoolInvariant, PTL DEF Spec
=============================================================================
