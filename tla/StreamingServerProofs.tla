----------------------- MODULE StreamingServerProofs -----------------------
(***************************************************************************)
(* Theorems about StreamingServer, for any set of clients, any number of   *)
(* run slots and runs of any length: types, the accounting of the slots,   *)
(* who may cancel a run, what a client sees of it, and that no handler     *)
(* waits in vain.                                                          *)
(***************************************************************************)
EXTENDS StreamingServer, FiniteSetTheorems, SequenceTheorems, TLAPS

(***************************************************************************)
(* The automaton of one run: the phase fits the stage, and an iteration    *)
(* begins only while the budget lasts.                                     *)
(***************************************************************************)
RunInv(r) ==
  /\ r \in Runs
  /\ r.stage \in {"boundary", "checked"} => r.phase = "SELECTION"
  /\ r.stage = "checked" => r.iteration < MaxIterations
  /\ r.stage = "over" <=> r.phase \in TERMINAL_PHASES

\* A new session is a run of the lifecycle.
LEMMA RunStart == RunInv(NewRun)
  BY ServerAssumption DEF ServerAssumption, RunInv, NewRun, Runs, Stages, SearchPhase,
     TERMINAL_PHASES

(***************************************************************************)
(* The phases a move may announce.                                         *)
(***************************************************************************)
LEMMA MovesLegal ==
  \A m \in Moves :
    /\ m[1] \in Stages /\ m[3] \in Stages
    /\ m[2] \in SearchPhase /\ m[4] \in SearchPhase
    /\ m[3] \in {"boundary", "checked"} => m[4] = "SELECTION"
    /\ m[3] # "checked"
    /\ m[3] = "over" <=> m[4] \in TERMINAL_PHASES
    /\ m[4] # m[2] => m[4] \in TransitionTable[m[2]]
    /\ m[4] # "CANCELLED"
  <1> DEFINE Good(a, b, d, e) ==
        /\ a \in Stages /\ d \in Stages
        /\ b \in SearchPhase /\ e \in SearchPhase
        /\ d \in {"boundary", "checked"} => e = "SELECTION"
        /\ d # "checked"
        /\ d = "over" <=> e \in TERMINAL_PHASES
        /\ e # b => e \in TransitionTable[b]
        /\ e # "CANCELLED"
  <1>1. \A m \in Moves : Good(m[1], m[2], m[3], m[4])
    BY DEF Moves, Stages, SearchPhase, TERMINAL_PHASES, TransitionTable, ExternalStops
  <1> QED BY <1>1

(***************************************************************************)
(* One step of a run keeps its invariant and announces a legal edge; only  *)
(* a cancelled run is CANCELLED.                                           *)
(***************************************************************************)
LEMMA RunNextInv ==
  ASSUME NEW r, RunInv(r), r.stage # "over", NEW cancelled \in BOOLEAN,
         NEW q \in RunNext(r, cancelled)
  PROVE  /\ RunInv(q)
         /\ q.phase # r.phase => q.phase \in TransitionTable[r.phase]
         /\ q.phase = "CANCELLED" => cancelled
  <1> USE ServerAssumption DEF ServerAssumption, RunInv, Runs
  <1>1. CASE \E m \in Moves : m[1] = r.stage /\ m[2] = r.phase /\ q = Moved(r, m[3], m[4])
    <2>1. PICK m \in Moves : m[1] = r.stage /\ m[2] = r.phase /\ q = Moved(r, m[3], m[4])
      BY <1>1
    <2>2. /\ q.stage = m[3] /\ q.phase = m[4] /\ q.iteration = r.iteration
          /\ q \in [stage : Stages, phase : SearchPhase, iteration : 0..MaxIterations]
      BY <2>1, MovesLegal DEF Moved
    <2> QED BY <2>1, <2>2, MovesLegal
  <1>2. CASE r.stage = "boundary" /\ q \in Boundary(r, cancelled)
    <2>1. PICK stage \in {"over", "checked"}, phase \in {"EXHAUSTED", "CANCELLED", "SELECTION"} :
            /\ q = Moved(r, stage, phase)
            /\ stage = "over" <=> phase # "SELECTION"
            /\ phase = "CANCELLED" => cancelled
            /\ stage = "checked" => r.iteration # MaxIterations
      BY <1>2 DEF Boundary
    <2>2. /\ q.stage = stage /\ q.phase = phase /\ q.iteration = r.iteration
          /\ q \in [stage : Stages, phase : SearchPhase, iteration : 0..MaxIterations]
      BY <2>1 DEF Moved, Stages, SearchPhase, TERMINAL_PHASES
    <2>3. r.phase = "SELECTION" /\ {"EXHAUSTED", "CANCELLED"} \subseteq TransitionTable[r.phase]
      BY <1>2 DEF TransitionTable, ExternalStops, SearchPhase
    <2> QED BY <2>1, <2>2, <2>3 DEF TERMINAL_PHASES
  <1>3. CASE r.stage = "checked" /\ q = Iterate(r)
    <2>1. r.iteration + 1 \in 0..MaxIterations /\ "inside" \in Stages
      BY <1>3 DEF Stages
    <2>2. q = [stage |-> "inside", phase |-> r.phase, iteration |-> r.iteration + 1]
      BY <1>3 DEF Iterate
    <2>3. /\ q.stage = "inside" /\ q.phase = r.phase /\ q.iteration = r.iteration + 1
          /\ q \in [stage : Stages, phase : SearchPhase, iteration : 0..MaxIterations]
      BY <2>1, <2>2
    <2> QED BY <1>3, <2>3 DEF TERMINAL_PHASES
  <1> QED BY <1>1, <1>2, <1>3 DEF RunNext

-----------------------------------------------------------------------------
(***************************************************************************)
(* How the two threads of a connection and its state belong together.      *)
(***************************************************************************)
Unstarted == {"idle", "refused", "session"}

ThreadInv ==
  \A c \in Clients :
    /\ RunInv(run[c])
    /\ worker[c] \in {"none", "running"} => run[c].stage # "over"
    /\ worker[c] \in {"settle", "ended"} => run[c].stage = "over"
    /\ handler[c] \in Unstarted =>
         /\ worker[c] = "none" /\ run[c] = NewRun /\ archive[c] = "none"
         /\ queue[c] = <<>> /\ seen[c] = "IDLE"
    /\ handler[c] \in {"idle", "refused", "done"} => conn[c] = "none"
    /\ ending[c] # "none" <=> handler[c] = "done"

(***************************************************************************)
(* The cancel event is set by the handler as it leaves, and only a run     *)
(* whose event is set ends as CANCELLED.                                   *)
(***************************************************************************)
CancelInv ==
  \A c \in Clients :
    /\ cancel[c] => ending[c] \in {"abandoned", "crashed"}
    /\ run[c].phase = "CANCELLED" => cancel[c]

SlotInv == IsFiniteSet(Holding) /\ SlotAccounting

ServerInv == TypeOK /\ SlotInv /\ ThreadInv /\ CancelInv

\* A server without a connection has all its slots.
LEMMA ServerInit == Init => ServerInv
  <1> SUFFICES ASSUME Init PROVE ServerInv
    OBVIOUS
  <1> USE ServerAssumption DEF ServerAssumption, Init
  <1>1. Holding = {}
    BY DEF Holding
  <1>2. SlotInv
    BY <1>1, FS_EmptySet DEF SlotInv, SlotAccounting
  <1>3. NewRun \in Runs /\ NewRun.stage = "new" /\ NewRun.phase = "IDLE"
    BY RunStart DEF RunInv, NewRun
  <1>4. TypeOK
    <2>1. queue \in [Clients -> Seq(Envelope \cup {END})]
      BY EmptySeq
    <2>2. seen \in [Clients -> Envelope]
      BY DEF Envelope, SearchPhase
    <2> QED BY <1>3, <2>1, <2>2 DEF TypeOK
  <1>5. ThreadInv
    BY <1>3, RunStart DEF ThreadInv, Unstarted
  <1>6. CancelInv
    BY <1>3 DEF CancelInv
  <1> QED BY <1>2, <1>4, <1>5, <1>6 DEF ServerInv

(***************************************************************************)
(* What the handler's and the worker's steps have in common.               *)
(***************************************************************************)
Msgs == Envelope \cup {END}

\* The envelope a handler takes off a queue, and the rest of the queue, are
\* messages.
LEMMA PendingHead ==
  ASSUME TypeOK, NEW c \in Clients, Pending(c)
  PROVE  /\ queue[c] \in Seq(Msgs) /\ queue[c] # <<>>
         /\ Head(queue[c]) \in Msgs /\ Tail(queue[c]) \in Seq(Msgs)
         /\ handler[c] = "streaming"
  <1>1. queue[c] \in Seq(Msgs) /\ queue[c] # <<>> /\ handler[c] = "streaming"
    BY DEF TypeOK, Pending, Msgs
  <1> QED BY <1>1, HeadTailProperties

\* A handler that leaves gives back exactly the slot it held.
LEMMA LeaveSlot ==
  ASSUME TypeOK, SlotInv, NEW c \in Clients, NEW how \in {"finished", "abandoned", "crashed"},
         handler[c] \in {"session", "streaming"}, Leave(c, how)
  PROVE  /\ SlotInv' /\ slots' \in 0..MaxConcurrentRuns
  <1> USE ServerAssumption DEF ServerAssumption, TypeOK
  <1>1. Holding' = Holding \ {c} /\ c \in Holding
    BY DEF Leave, Holding
  <1>2. /\ IsFiniteSet(Holding')
        /\ Cardinality(Holding') = Cardinality(Holding) - 1
        /\ Cardinality(Holding') \in Nat
    BY <1>1, FS_RemoveElement, FS_CardinalityType DEF SlotInv
  <1>3. Cardinality(Holding) \in Nat
    BY FS_CardinalityType DEF SlotInv
  <1>4. slots' = slots + 1
    BY DEF Leave
  <1> QED BY <1>2, <1>3, <1>4 DEF SlotInv, SlotAccounting

\* A step that moves neither the semaphore nor its holders keeps the accounts.
LEMMA SameSlot ==
  ASSUME SlotInv, UNCHANGED slots, Holding' = Holding
  PROVE  SlotInv'
  BY DEF SlotInv, SlotAccounting

\* Envelopes put on a queue keep it a queue of messages.
LEMMA PutType ==
  ASSUME TypeOK, NEW c \in Clients, NEW envelopes \in Seq(Msgs), Put(c, envelopes)
  PROVE  queue' \in [Clients -> Seq(Msgs)]
  <1>1. queue \in [Clients -> Seq(Msgs)]
    BY DEF TypeOK, Msgs
  <1>2. queue[c] \o envelopes \in Seq(Msgs)
    BY <1>1, ConcatProperties
  <1> QED BY <1>1, <1>2 DEF Put

\* What a transition of a run publishes is a sequence of messages.
LEMMA AnnouncedType ==
  ASSUME NEW r, NEW q, q.phase \in SearchPhase
  PROVE  Announced(r, q) \in Seq(Msgs)
  <1>1. q.phase \in Msgs /\ "snapshot" \in Msgs
    BY DEF Msgs, Envelope
  <1>2. <<>> \in Seq(Msgs) /\ <<q.phase>> \in Seq(Msgs) /\ <<q.phase, "snapshot">> \in Seq(Msgs)
    BY <1>1
  <1> QED BY <1>2 DEF Announced

(***************************************************************************)
(* The ways a handler leaves: its slot comes back, nothing of its stream   *)
(* stays, and its run goes on alone.                                       *)
(***************************************************************************)
LEMMA LeaveInv ==
  ASSUME ServerInv, NEW c \in Clients, NEW how \in {"finished", "abandoned", "crashed"},
         handler[c] \in {"session", "streaming"}, Leave(c, how), UNCHANGED workerVars,
         \/ UNCHANGED cancel
         \/ how # "finished" /\ cancel' = [cancel EXCEPT ![c] = TRUE]
  PROVE  ServerInv'
  <1> USE DEF ServerInv, workerVars
  <1>1. SlotInv' /\ slots' \in 0..MaxConcurrentRuns
    BY LeaveSlot
  <1>2. TypeOK'
    <2>1. "IDLE" \in Envelope /\ <<>> \in Seq(Envelope \cup {END})
      BY EmptySeq DEF Envelope, SearchPhase
    <2> QED BY <1>1, <2>1 DEF TypeOK, Leave
  <1>3. ThreadInv'
    BY DEF TypeOK, ThreadInv, Leave, Unstarted
  <1>4. CancelInv'
    BY DEF TypeOK, ThreadInv, CancelInv, Leave
  <1> QED BY <1>1, <1>2, <1>3, <1>4

\* A step of a worker's run keeps the server's invariant.
LEMMA RunStepInv ==
  ASSUME ServerInv, NEW c \in Clients, RunStep(c)
  PROVE  ServerInv'
  <1> USE DEF ServerInv, handlerVars
  <1>1. PICK r \in RunNext(run[c], cancel[c]) :
          /\ run' = [run EXCEPT ![c] = r]
          /\ Put(c, Announced(run[c], r))
          /\ worker' = [worker EXCEPT ![c] = IF r.stage = "over" THEN "settle" ELSE @]
    BY DEF RunStep
  <1>2. /\ worker[c] = "running" /\ run[c].stage # "over" /\ cancel[c] \in BOOLEAN
        /\ UNCHANGED <<slots, conn, handler, ending, seen, cancel, archive>>
    BY DEF RunStep, ThreadInv, TypeOK
  <1>3. /\ RunInv(run[c])
        /\ RunInv(r) /\ (r.phase = "CANCELLED" => cancel[c])
    BY <1>2, RunNextInv DEF ThreadInv
  <1>4. r \in Runs /\ r.phase \in SearchPhase
    BY <1>3 DEF RunInv, Runs
  <1>5. queue' \in [Clients -> Seq(Envelope \cup {END})]
    BY <1>1, <1>4, PutType, AnnouncedType DEF Msgs
  <1>6. TypeOK'
    BY <1>1, <1>2, <1>4, <1>5 DEF TypeOK
  <1>7. SlotInv'
    BY <1>2, SameSlot DEF Holding
  <1>8. ThreadInv'
    BY <1>1, <1>2, <1>3 DEF ThreadInv, TypeOK, Unstarted, Put
  <1>9. CancelInv'
    BY <1>1, <1>2, <1>3 DEF CancelInv, TypeOK
  <1> QED BY <1>6, <1>7, <1>8, <1>9

\* So does a worker that publishes the end of its run.
LEMMA SettleInv ==
  ASSUME ServerInv, NEW c \in Clients, Settle(c)
  PROVE  ServerInv'
  <1> USE DEF ServerInv, handlerVars
  <1>1. /\ worker[c] = "settle" /\ worker' = [worker EXCEPT ![c] = "ended"]
        /\ UNCHANGED <<slots, conn, handler, ending, seen, cancel, run>>
    BY DEF Settle
  <1>2. PICK a \in {"saved", "lost", "crashed"} : archive' = [archive EXCEPT ![c] = a]
    BY DEF Settle
  <1>3. PICK e \in {<<"metrics", "result", END>>, <<END>>} : Put(c, e)
    BY DEF Settle
  <1>4. e \in Seq(Msgs)
    <2>1. {"metrics", "result", END} \subseteq Msgs
      BY DEF Msgs, Envelope
    <2>2. <<"metrics", "result", END>> \in Seq(Msgs) /\ <<END>> \in Seq(Msgs)
      BY <2>1
    <2> QED BY <2>2
  <1>5. queue' \in [Clients -> Seq(Envelope \cup {END})]
    BY <1>3, <1>4, PutType DEF Msgs
  <1>6. TypeOK'
    BY <1>1, <1>2, <1>5 DEF TypeOK
  <1>7. SlotInv'
    BY <1>1, SameSlot DEF Holding
  <1>8. ThreadInv'
    BY <1>1, <1>2, <1>3 DEF ThreadInv, TypeOK, Unstarted, Put
  <1>9. CancelInv'
    BY <1>1 DEF CancelInv, TypeOK
  <1> QED BY <1>6, <1>7, <1>8, <1>9

(***************************************************************************)
(* Every step of a client, a handler or a worker keeps the invariant.      *)
(***************************************************************************)
LEMMA ServerStep == ServerInv /\ [Next]_vars => ServerInv'
  <1> SUFFICES ASSUME ServerInv, [Next]_vars PROVE ServerInv'
    OBVIOUS
  <1> USE ServerAssumption DEF ServerAssumption, ServerInv, workerVars
  <1>1. ASSUME NEW c \in Clients, Refuse(c) PROVE ServerInv'
    <2>1. Holding' = Holding
      BY <1>1 DEF Refuse, Holding, TypeOK
    <2>2. SlotInv'
      BY <1>1, <2>1, SameSlot DEF Refuse
    <2> QED BY <1>1, <2>2 DEF Refuse, TypeOK, ThreadInv, CancelInv, Unstarted
  <1>2. ASSUME NEW c \in Clients, Acquire(c) PROVE ServerInv'
    <2>1. Holding' = Holding \cup {c} /\ c \notin Holding
      BY <1>2 DEF Acquire, Holding, TypeOK
    <2>2. IsFiniteSet(Holding') /\ Cardinality(Holding') = Cardinality(Holding) + 1
      BY <2>1, FS_AddElement DEF SlotInv
    <2>3. Cardinality(Holding) \in Nat
      BY FS_CardinalityType DEF SlotInv
    <2>4. SlotInv' /\ slots' \in 0..MaxConcurrentRuns
      BY <1>2, <2>2, <2>3 DEF Acquire, SlotInv, SlotAccounting, TypeOK
    <2> QED BY <1>2, <2>4 DEF Acquire, TypeOK, ThreadInv, CancelInv, Unstarted
  <1>3. ASSUME NEW c \in Clients, Disconnect(c) PROVE ServerInv'
    <2>1. SlotInv'
      BY <1>3, SameSlot DEF Disconnect, Holding
    <2> QED BY <1>3, <2>1 DEF Disconnect, TypeOK, ThreadInv, CancelInv
  <1>4. ASSUME NEW c \in Clients, OpenStream(c) PROVE ServerInv'
    <2>1. Holding' = Holding
      BY <1>4 DEF OpenStream, Holding, TypeOK
    <2>2. SlotInv'
      BY <1>4, <2>1, SameSlot DEF OpenStream
    <2>3. ThreadInv'
      BY <1>4 DEF OpenStream, TypeOK, ThreadInv, Unstarted
    <2> QED BY <1>4, <2>2, <2>3 DEF OpenStream, TypeOK, CancelInv
  <1>5. ASSUME NEW c \in Clients, OpenFault(c) PROVE ServerInv'
    BY <1>5, LeaveInv DEF OpenFault
  <1>6. ASSUME NEW c \in Clients, Write(c) PROVE ServerInv'
    <2>1. /\ Head(queue[c]) \in Envelope /\ Tail(queue[c]) \in Seq(Envelope \cup {END})
          /\ handler[c] = "streaming"
      BY <1>6, PendingHead DEF Write, Msgs
    <2>2. SlotInv'
      BY <1>6, SameSlot DEF Write, Holding
    <2>3. TypeOK'
      <3>1. queue' \in [Clients -> Seq(Envelope \cup {END})]
        BY <1>6, <2>1 DEF Write, TypeOK
      <3>2. seen' \in [Clients -> Envelope]
        BY <1>6, <2>1 DEF Write, TypeOK
      <3>3. conn' = conn \/ conn' = [conn EXCEPT ![c] = "reset"]
        BY <1>6 DEF Write
      <3> QED BY <1>6, <3>1, <3>2, <3>3 DEF Write, TypeOK
    <2>4. ThreadInv'
      BY <1>6, <2>1 DEF Write, TypeOK, ThreadInv, Unstarted
    <2>5. CancelInv'
      BY <1>6 DEF Write, CancelInv
    <2> QED BY <2>2, <2>3, <2>4, <2>5
  <1>7. ASSUME NEW c \in Clients, Finish(c) PROVE ServerInv'
    BY <1>7, LeaveInv, PendingHead DEF Finish
  <1>8. ASSUME NEW c \in Clients, Abandon(c) PROVE ServerInv'
    BY <1>8, LeaveInv, PendingHead DEF Abandon
  <1>9. ASSUME NEW c \in Clients, EncodingFault(c) PROVE ServerInv'
    BY <1>9, LeaveInv, PendingHead DEF EncodingFault
  <1>10. CASE UNCHANGED vars
    BY <1>10 DEF vars, TypeOK, SlotInv, SlotAccounting, Holding, ThreadInv, CancelInv
  <1> QED
    BY <1>1, <1>2, <1>3, <1>4, <1>5, <1>6, <1>7, <1>8, <1>9, <1>10, RunStepInv, SettleInv
       DEF Next, Handler, Worker, Quiescent

\* The server's invariant holds for any number of clients and slots.
LEMMA ServerInductive == Spec => []ServerInv
  BY ServerInit, ServerStep, PTL DEF Spec

(***************************************************************************)
(* TypeOK: in particular BoundedSemaphore.release() is never called on a   *)
(* semaphore that has all its permits.                                     *)
(***************************************************************************)
THEOREM ServerTypeCorrect == Spec => []TypeOK
  <1>1. ServerInv => TypeOK
    BY DEF ServerInv
  <1> QED BY <1>1, ServerInductive, PTL

(***************************************************************************)
(* SlotAccounting: however streams end, every permit is free or held by    *)
(* one handler that is serving a stream.                                   *)
(***************************************************************************)
THEOREM SlotsAreAccounted == Spec => []SlotAccounting
  <1>1. ServerInv => SlotAccounting
    BY DEF ServerInv, SlotInv
  <1> QED BY <1>1, ServerInductive, PTL

(***************************************************************************)
(* CancelOnlyAbandoned: no run is cancelled by another connection, or once *)
(* its own stream is complete.                                             *)
(***************************************************************************)
THEOREM CancelIsOwn == Spec => []CancelOnlyAbandoned
  <1>1. ServerInv => CancelOnlyAbandoned
    BY DEF ServerInv, CancelInv, CancelOnlyAbandoned
  <1> QED BY <1>1, ServerInductive, PTL

-----------------------------------------------------------------------------
(***************************************************************************)
(* What a connected client will see: the queue continues what it has seen, *)
(* envelope by envelope, up to the echo of the phase its run is in.        *)
(***************************************************************************)
Before(s, q, i) == IF i = 1 THEN s ELSE q[i - 1]

Latest(s, q) == IF q = <<>> THEN s ELSE q[Len(q)]

Echo(p) == IF p \in _SNAPSHOT_PHASES THEN "snapshot" ELSE p

Link(prev, e, w, a, p) ==
  IF e = END
  THEN w = "ended" /\ (a # "crashed" => prev = "result")
  ELSE /\ prev # "result" /\ Follows(e, prev)
       /\ e \in {"metrics", "result"} =>
            w = "ended" /\ a \in {"saved", "lost"} /\ p \in TERMINAL_PHASES

Linked(s, q, w, a, p) == \A i \in 1..Len(q) : Link(Before(s, q, i), q[i], w, a, p)

StreamInv ==
  \A c \in Clients :
    handler[c] = "streaming" /\ conn[c] = "open" =>
      /\ Linked(seen[c], queue[c], worker[c], archive[c], run[c].phase)
      /\ worker[c] # "ended" => Latest(seen[c], queue[c]) = Echo(run[c].phase)

(***************************************************************************)
(* Reading the head and appending one envelope, as the links see them.     *)
(***************************************************************************)
LEMMA LinksOfTail ==
  ASSUME NEW s, NEW q \in Seq(Msgs), q # <<>>
  PROVE  /\ Len(q) \in Nat \ {0} /\ Head(q) = q[1] /\ Len(Tail(q)) = Len(q) - 1
         /\ \A i \in 1..Len(Tail(q)) :
              /\ i + 1 \in 1..Len(q) /\ Tail(q)[i] = q[i + 1]
              /\ Before(Head(q), Tail(q), i) = Before(s, q, i + 1)
         /\ Latest(Head(q), Tail(q)) = Latest(s, q)
  <1>1. /\ Len(q) \in Nat \ {0} /\ Head(q) = q[1] /\ Len(Tail(q)) = Len(q) - 1
        /\ \A i \in 1..Len(Tail(q)) : Tail(q)[i] = q[i + 1]
        /\ Tail(q) \in Seq(Msgs)
    BY HeadTailProperties, EmptySeq
  <1>2. ASSUME NEW i \in 1..Len(Tail(q))
        PROVE  /\ i + 1 \in 1..Len(q) /\ Tail(q)[i] = q[i + 1]
               /\ Before(Head(q), Tail(q), i) = Before(s, q, i + 1)
    <2>1. i \in Nat /\ i >= 1 /\ i <= Len(q) - 1
      BY <1>1
    <2>2. CASE i = 1
      BY <1>1, <2>1, <2>2 DEF Before
    <2>3. CASE i > 1
      <3>1. i - 1 \in 1..Len(Tail(q)) /\ (i - 1) + 1 = i /\ (i + 1) - 1 = i
        BY <1>1, <2>1, <2>3
      <3>2. Tail(q)[i - 1] = q[i]
        BY <1>1, <3>1
      <3> QED BY <1>1, <2>1, <2>3, <3>1, <3>2 DEF Before
    <2> QED BY <2>1, <2>2, <2>3
  <1>3. Latest(Head(q), Tail(q)) = Latest(s, q)
    <2>1. CASE Len(q) = 1
      <3>1. Len(Tail(q)) = 0
        BY <1>1, <2>1
      <3>2. Tail(q) = <<>>
        BY <1>1, <3>1, EmptySeq
      <3> QED BY <1>1, <2>1, <3>2 DEF Latest
    <2>2. CASE Len(q) > 1
      <3>1. /\ Len(Tail(q)) # 0
            /\ Len(Tail(q)) \in 1..Len(Tail(q)) /\ Len(Tail(q)) + 1 = Len(q)
        BY <1>1, <2>2
      <3>2. Tail(q) # <<>> /\ Tail(q)[Len(Tail(q))] = q[Len(q)]
        BY <1>1, <3>1, EmptySeq
      <3> QED BY <3>2 DEF Latest
    <2> QED BY <1>1, <2>1, <2>2
  <1> QED BY <1>1, <1>2, <1>3

\* One envelope more on a queue leaves each earlier one with the predecessor it
\* had.
LEMMA LinksOfAppend ==
  ASSUME NEW s, NEW q \in Seq(Msgs), NEW e \in Msgs
  PROVE  /\ q \o <<e>> \in Seq(Msgs) /\ Len(q \o <<e>>) = Len(q) + 1 /\ Len(q) \in Nat
         /\ \A i \in 1..Len(q) :
              /\ (q \o <<e>>)[i] = q[i]
              /\ Before(s, q \o <<e>>, i) = Before(s, q, i)
         /\ (q \o <<e>>)[Len(q) + 1] = e
         /\ Before(s, q \o <<e>>, Len(q) + 1) = Latest(s, q)
         /\ Latest(s, q \o <<e>>) = e
  <1> DEFINE r == q \o <<e>>
  <1>1. <<e>> \in Seq(Msgs) /\ Len(<<e>>) = 1 /\ <<e>>[1] = e
    OBVIOUS
  <1>2. /\ r \in Seq(Msgs) /\ Len(r) = Len(q) + 1 /\ Len(q) \in Nat
        /\ \A i \in 1..Len(q) + 1 : r[i] = IF i <= Len(q) THEN q[i] ELSE <<e>>[i - Len(q)]
    BY <1>1, ConcatProperties, LenProperties
  <1> HIDE DEF r
  <1>3. (\A i \in 1..Len(q) : r[i] = q[i]) /\ r[Len(q) + 1] = e
    BY <1>1, <1>2
  <1>4. ASSUME NEW i \in 1..Len(q) PROVE Before(s, r, i) = Before(s, q, i)
    <2>1. CASE i = 1
      BY <2>1 DEF Before
    <2>2. CASE i # 1
      BY <1>2, <1>3, <2>2 DEF Before
    <2> QED BY <2>1, <2>2
  <1>5. Before(s, r, Len(q) + 1) = Latest(s, q)
    <2>1. CASE q = <<>>
      BY <1>2, <2>1, EmptySeq DEF Before, Latest
    <2>2. CASE q # <<>>
      <3>1. Len(q) \in 1..Len(q) /\ Len(q) + 1 # 1 /\ (Len(q) + 1) - 1 = Len(q)
        BY <1>2, <2>2, EmptySeq
      <3> QED BY <1>3, <2>2, <3>1 DEF Before, Latest
    <2> QED BY <2>1, <2>2
  <1>6. Latest(s, r) = e
    <2>1. r # <<>>
      BY <1>2, EmptySeq
    <2> QED BY <1>2, <1>3, <2>1 DEF Latest
  <1> QED BY <1>2, <1>3, <1>4, <1>5, <1>6 DEF r

\* Two envelopes put at once are one put after the other,
LEMMA PairPut ==
  ASSUME NEW q \in Seq(Msgs), NEW e \in Msgs, NEW f \in Msgs
  PROVE  q \o <<e, f>> = (q \o <<e>>) \o <<f>>
  <1> DEFINE x == <<e>>
             y == <<f>>
             z == <<e, f>>
  <1>1. /\ x \in Seq(Msgs) /\ Len(x) = 1 /\ x[1] = e
        /\ y \in Seq(Msgs) /\ Len(y) = 1 /\ y[1] = f
        /\ z \in Seq(Msgs) /\ Len(z) = 2 /\ z[1] = e /\ z[2] = f
    OBVIOUS
  <1> HIDE DEF x, y, z
  <1>2. /\ x \o y \in Seq(Msgs) /\ Len(x \o y) = 2
        /\ (x \o y)[1] = e /\ (x \o y)[2] = f
    <2>1. /\ x \o y \in Seq(Msgs) /\ Len(x \o y) = Len(x) + Len(y)
          /\ \A i \in 1..Len(x) + Len(y) :
               (x \o y)[i] = IF i <= Len(x) THEN x[i] ELSE y[i - Len(x)]
      BY <1>1, ConcatProperties
    <2> DEFINE v == x \o y
    <2> HIDE DEF v
    <2>2. v \in Seq(Msgs) /\ Len(v) = 2 /\ v[1] = e /\ v[2] = f
      BY <1>1, <2>1 DEF v
    <2> QED BY <2>2 DEF v
  <1>3. x \o y = z
    <2>1. \A i \in 1..2 : (x \o y)[i] = z[i]
      BY <1>1, <1>2
    <2> QED BY <1>1, <1>2, <2>1, SeqEqual
  <1>4. (q \o x) \o y = q \o (x \o y)
    BY <1>1, ConcatAssociative
  <1> QED BY <1>3, <1>4 DEF x, y, z

\* and so are three.
LEMMA TriplePut ==
  ASSUME NEW q \in Seq(Msgs), NEW e \in Msgs, NEW f \in Msgs, NEW g \in Msgs
  PROVE  q \o <<e, f, g>> = (q \o <<e, f>>) \o <<g>>
  <1> DEFINE x == <<e, f>>
             y == <<g>>
             z == <<e, f, g>>
  <1>1. /\ x \in Seq(Msgs) /\ Len(x) = 2 /\ x[1] = e /\ x[2] = f
        /\ y \in Seq(Msgs) /\ Len(y) = 1 /\ y[1] = g
        /\ z \in Seq(Msgs) /\ Len(z) = 3 /\ z[1] = e /\ z[2] = f /\ z[3] = g
    OBVIOUS
  <1> HIDE DEF x, y, z
  <1>2. /\ x \o y \in Seq(Msgs) /\ Len(x \o y) = 3
        /\ (x \o y)[1] = e /\ (x \o y)[2] = f /\ (x \o y)[3] = g
    <2>1. /\ x \o y \in Seq(Msgs) /\ Len(x \o y) = Len(x) + Len(y)
          /\ \A i \in 1..Len(x) + Len(y) :
               (x \o y)[i] = IF i <= Len(x) THEN x[i] ELSE y[i - Len(x)]
      BY <1>1, ConcatProperties
    <2> DEFINE v == x \o y
    <2> HIDE DEF v
    <2>2. v \in Seq(Msgs) /\ Len(v) = 3 /\ v[1] = e /\ v[2] = f /\ v[3] = g
      BY <1>1, <2>1 DEF v
    <2> QED BY <2>2 DEF v
  <1>3. x \o y = z
    <2>1. \A i \in 1..3 : (x \o y)[i] = z[i]
      BY <1>1, <1>2
    <2> QED BY <1>1, <1>2, <2>1, SeqEqual
  <1>4. (q \o x) \o y = q \o (x \o y)
    BY <1>1, ConcatAssociative
  <1> QED BY <1>3, <1>4 DEF x, y, z

\* Taking the first envelope off a linked stream leaves a linked stream.
LEMMA LinkedRead ==
  ASSUME NEW s, NEW q \in Seq(Msgs), q # <<>>, NEW w, NEW a, NEW p, Linked(s, q, w, a, p)
  PROVE  /\ Link(s, Head(q), w, a, p)
         /\ Linked(Head(q), Tail(q), w, a, p)
         /\ Latest(Head(q), Tail(q)) = Latest(s, q)
  <1>1. 1 \in 1..Len(q) /\ Before(s, q, 1) = s /\ Head(q) = q[1]
    BY LinksOfTail DEF Before
  <1>2. Link(s, Head(q), w, a, p)
    BY <1>1 DEF Linked
  <1>3. ASSUME NEW i \in 1..Len(Tail(q))
        PROVE  Link(Before(Head(q), Tail(q), i), Tail(q)[i], w, a, p)
    <2>1. /\ i + 1 \in 1..Len(q) /\ Tail(q)[i] = q[i + 1]
          /\ Before(Head(q), Tail(q), i) = Before(s, q, i + 1)
      BY LinksOfTail
    <2>2. Link(Before(s, q, i + 1), q[i + 1], w, a, p)
      BY <2>1 DEF Linked
    <2> QED BY <2>1, <2>2
  <1>4. Latest(Head(q), Tail(q)) = Latest(s, q)
    BY LinksOfTail
  <1> QED BY <1>2, <1>3, <1>4 DEF Linked

\* An envelope that may follow the latest one keeps the stream linked.
LEMMA LinkedPut ==
  ASSUME NEW s, NEW q \in Seq(Msgs), NEW e \in Msgs, NEW w, NEW a, NEW p,
         Linked(s, q, w, a, p), Link(Latest(s, q), e, w, a, p)
  PROVE  /\ Linked(s, q \o <<e>>, w, a, p)
         /\ Latest(s, q \o <<e>>) = e
         /\ q \o <<e>> \in Seq(Msgs)
  <1> DEFINE r == q \o <<e>>
  <1>1. /\ r \in Seq(Msgs) /\ Len(r) = Len(q) + 1 /\ Len(q) \in Nat
        /\ \A i \in 1..Len(q) : r[i] = q[i] /\ Before(s, r, i) = Before(s, q, i)
        /\ r[Len(q) + 1] = e /\ Before(s, r, Len(q) + 1) = Latest(s, q)
        /\ Latest(s, r) = e
    BY LinksOfAppend
  <1> HIDE DEF r
  <1>2. ASSUME NEW i \in 1..Len(r) PROVE Link(Before(s, r, i), r[i], w, a, p)
    <2>1. CASE i \in 1..Len(q)
      <3>1. Link(Before(s, q, i), q[i], w, a, p)
        BY <2>1 DEF Linked
      <3> QED BY <1>1, <2>1, <3>1
    <2>2. CASE i = Len(q) + 1
      BY <1>1, <2>2
    <2> QED BY <1>1, <2>1, <2>2
  <1> QED BY <1>1, <1>2 DEF r, Linked

(***************************************************************************)
(* While the worker has not ended nothing on the queue depends on how the  *)
(* run ends.                                                               *)
(***************************************************************************)
LEMMA LinkedFree ==
  ASSUME NEW s, NEW q, NEW w, NEW a, NEW p, w # "ended", Linked(s, q, w, a, p),
         NEW w2, NEW a2, NEW p2
  PROVE  Linked(s, q, w2, a2, p2)
  BY DEF Linked, Link

(***************************************************************************)
(* What one step of a run, and the settling of a run, put on the queue.    *)
(***************************************************************************)
LEMMA PhaseFollows ==
  ASSUME NEW p \in SearchPhase, p \notin TERMINAL_PHASES, NEW n \in TransitionTable[p]
  PROVE  /\ n \in SearchPhase /\ n \in Msgs /\ n \notin {"snapshot", "metrics", "result", END}
         /\ Follows(n, Echo(p)) /\ Echo(p) # "result"
         /\ n \in _SNAPSHOT_PHASES => Follows("snapshot", n) /\ Echo(n) = "snapshot"
         /\ n \notin _SNAPSHOT_PHASES => Echo(n) = n
  <1>1. n \in SearchPhase
    <2>1. TransitionTable[p] \subseteq SearchPhase
      <3>1. p \in {"IDLE", "SELECTION", "EXPANSION", "EVALUATION", "BACKPROPAGATION",
                   "BACKTRACKING"}
        BY DEF SearchPhase
      <3>2. ExternalStops \subseteq SearchPhase
        BY DEF ExternalStops, SearchPhase, TERMINAL_PHASES
      <3>3. {"SELECTION", "EXPANSION", "BACKTRACKING", "EXHAUSTED", "EVALUATION",
             "BACKPROPAGATION", "SUCCEEDED"} \subseteq SearchPhase
        BY DEF SearchPhase, TERMINAL_PHASES
      <3> QED BY <3>1, <3>2, <3>3 DEF TransitionTable
    <2> QED BY <2>1
  <1>2. n \notin {"snapshot", "metrics", "result", END}
    BY <1>1 DEF SearchPhase, TERMINAL_PHASES, END
  <1>3. p \notin {"snapshot", "metrics", "result", END}
    BY DEF SearchPhase, END
  <1>4. Follows(n, Echo(p)) /\ Echo(p) # "result"
    <2>1. CASE p = "BACKPROPAGATION"
      BY <1>2, <1>3, <2>1 DEF Follows, Echo, _SNAPSHOT_PHASES
    <2>2. CASE p # "BACKPROPAGATION"
      BY <1>2, <1>3, <2>2 DEF Follows, Echo, _SNAPSHOT_PHASES
    <2> QED BY <2>1, <2>2
  <1> QED BY <1>1, <1>2, <1>4 DEF Follows, Echo, Msgs, Envelope

News(p, n) ==
  IF n = p THEN <<>> ELSE IF n \in _SNAPSHOT_PHASES THEN <<n, "snapshot">> ELSE <<n>>

\* The news of a legal transition keeps the stream linked.
LEMMA LinkedMove ==
  ASSUME NEW s, NEW q \in Seq(Msgs), NEW w, NEW a, NEW p, NEW n, NEW w2,
         w # "ended", Linked(s, q, w, a, p), Latest(s, q) = Echo(p),
         p \in SearchPhase \ TERMINAL_PHASES, n # p => n \in TransitionTable[p]
  PROVE  /\ Linked(s, q \o News(p, n), w2, a, n)
         /\ Latest(s, q \o News(p, n)) = Echo(n)
  <1>1. Linked(s, q, w2, a, n)
    BY LinkedFree
  <1>2. CASE n = p
    <2>1. q \o News(p, n) = q
      BY <1>2, ConcatEmptySeq DEF News
    <2> QED BY <1>1, <1>2, <2>1
  <1>3. CASE n # p
    <2>1. n \in TransitionTable[p]
      BY <1>3
    <2>2. /\ n \in SearchPhase /\ n \in Msgs /\ n \notin {"snapshot", "metrics", "result", END}
          /\ Follows(n, Echo(p)) /\ Echo(p) # "result"
          /\ n \in _SNAPSHOT_PHASES => Follows("snapshot", n) /\ Echo(n) = "snapshot"
          /\ n \notin _SNAPSHOT_PHASES => Echo(n) = n
      BY <2>1, PhaseFollows
    <2>3. Link(Latest(s, q), n, w2, a, n)
      BY <2>2 DEF Link
    <2>4. /\ Linked(s, q \o <<n>>, w2, a, n) /\ Latest(s, q \o <<n>>) = n
          /\ q \o <<n>> \in Seq(Msgs)
      BY <1>1, <2>2, <2>3, LinkedPut
    <2>5. CASE n \notin _SNAPSHOT_PHASES
      <3>1. News(p, n) = <<n>>
        BY <1>3, <2>5 DEF News
      <3> QED BY <2>2, <2>4, <2>5, <3>1
    <2>6. CASE n \in _SNAPSHOT_PHASES
      <3>1. News(p, n) = <<n, "snapshot">>
        BY <1>3, <2>6 DEF News
      <3>2. "snapshot" \in Msgs /\ "snapshot" # END
        BY DEF Msgs, Envelope, END
      <3>3. q \o <<n, "snapshot">> = (q \o <<n>>) \o <<"snapshot">>
        BY <2>2, <3>2, PairPut
      <3>4. Link(Latest(s, q \o <<n>>), "snapshot", w2, a, n)
        BY <2>2, <2>4, <2>6, <3>2 DEF Link
      <3>5. /\ Linked(s, (q \o <<n>>) \o <<"snapshot">>, w2, a, n)
            /\ Latest(s, (q \o <<n>>) \o <<"snapshot">>) = "snapshot"
        BY <2>4, <3>2, <3>4, LinkedPut
      <3> QED BY <2>2, <2>6, <3>1, <3>3, <3>5
    <2> QED BY <2>5, <2>6
  <1> QED BY <1>2, <1>3

\* So do the closing envelopes of a worker, whether the archive was saved, lost
\* or never reached.
LEMMA LinkedSettle ==
  ASSUME NEW s, NEW q \in Seq(Msgs), NEW w, NEW a, NEW p \in TERMINAL_PHASES,
         w # "ended", Linked(s, q, w, a, p), Latest(s, q) = Echo(p)
  PROVE  /\ \A b \in {"saved", "lost"} :
              Linked(s, q \o <<"metrics", "result", END>>, "ended", b, p)
         /\ Linked(s, q \o <<END>>, "ended", "crashed", p)
  <1>1. {"metrics", "result", END} \subseteq Msgs
    BY DEF Msgs, Envelope
  <1>2. Latest(s, q) = "snapshot"
    BY DEF Echo, _SNAPSHOT_PHASES
  <1>3. ASSUME NEW b \in {"saved", "lost"}
        PROVE  Linked(s, q \o <<"metrics", "result", END>>, "ended", b, p)
    <2>1. Linked(s, q, "ended", b, p)
      BY LinkedFree
    <2>2. Link("snapshot", "metrics", "ended", b, p)
      BY DEF Link, Follows, END
    <2> DEFINE m == q \o <<"metrics">>
    <2>3. Linked(s, m, "ended", b, p) /\ Latest(s, m) = "metrics" /\ m \in Seq(Msgs)
      BY <1>1, <1>2, <2>1, <2>2, LinkedPut
    <2>4. Link("metrics", "result", "ended", b, p)
      BY DEF Link, Follows, END
    <2> DEFINE r == m \o <<"result">>
    <2> HIDE DEF m
    <2>5. Linked(s, r, "ended", b, p) /\ Latest(s, r) = "result" /\ r \in Seq(Msgs)
      BY <1>1, <2>3, <2>4, LinkedPut
    <2>6. Link("result", END, "ended", b, p)
      BY DEF Link
    <2> HIDE DEF r
    <2>7. Linked(s, r \o <<END>>, "ended", b, p)
      BY <1>1, <2>5, <2>6, LinkedPut
    <2>8. r \o <<END>> = q \o <<"metrics", "result", END>>
      <3>1. r = q \o <<"metrics", "result">>
        BY <1>1, PairPut DEF r, m
      <3> QED BY <1>1, <3>1, TriplePut
    <2> QED BY <2>7, <2>8
  <1>4. Linked(s, q \o <<END>>, "ended", "crashed", p)
    <2>1. Linked(s, q, "ended", "crashed", p) /\ Link("snapshot", END, "ended", "crashed", p)
      BY LinkedFree DEF Link
    <2> QED BY <1>1, <1>2, <2>1, LinkedPut
  <1> QED BY <1>3, <1>4

-----------------------------------------------------------------------------
\* The stream of a client that has not connected is empty.
LEMMA StreamInit == Init => StreamInv
  BY DEF Init, StreamInv

(***************************************************************************)
(* A step that leaves a client's stream, or is the end of it.              *)
(***************************************************************************)
StreamInvOf(c) ==
  handler[c] = "streaming" /\ conn[c] = "open" =>
    /\ Linked(seen[c], queue[c], worker[c], archive[c], run[c].phase)
    /\ worker[c] # "ended" => Latest(seen[c], queue[c]) = Echo(run[c].phase)

\* A step of one client leaves the streams of the others.
LEMMA OtherStreams ==
  ASSUME StreamInv, NEW c \in Clients,
         \A d \in Clients \ {c} :
           /\ handler'[d] = handler[d] /\ conn'[d] = conn[d] /\ seen'[d] = seen[d]
           /\ queue'[d] = queue[d] /\ worker'[d] = worker[d] /\ archive'[d] = archive[d]
           /\ run'[d] = run[d],
         StreamInvOf(c)'
  PROVE  StreamInv'
  <1>1. ASSUME NEW d \in Clients \ {c} PROVE StreamInvOf(d)'
    <2>1. StreamInvOf(d)
      BY DEF StreamInv, StreamInvOf
    <2> QED BY <2>1 DEF StreamInvOf
  <1> QED BY <1>1 DEF StreamInv, StreamInvOf

\* Every step of the server keeps every stream linked.
LEMMA StreamStep == ServerInv /\ StreamInv /\ [Next]_vars => StreamInv'
  <1> SUFFICES ASSUME ServerInv, StreamInv, [Next]_vars PROVE StreamInv'
    OBVIOUS
  <1> USE DEF ServerInv, TypeOK, workerVars, handlerVars
  <1>1. ASSUME NEW c \in Clients, Refuse(c) PROVE StreamInv'
    BY <1>1, OtherStreams DEF Refuse, StreamInvOf
  <1>2. ASSUME NEW c \in Clients, Acquire(c) PROVE StreamInv'
    BY <1>2, OtherStreams DEF Acquire, StreamInvOf
  <1>3. ASSUME NEW c \in Clients, Disconnect(c) PROVE StreamInv'
    BY <1>3, OtherStreams DEF Disconnect, StreamInvOf
  <1>4. ASSUME NEW c \in Clients, OpenStream(c) PROVE StreamInv'
    <2>1. queue[c] = <<>> /\ seen[c] = "IDLE" /\ run[c] = NewRun
      BY <1>4 DEF OpenStream, ThreadInv, Unstarted
    <2>2. NewRun.phase = "IDLE" /\ Echo("IDLE") = "IDLE" /\ Latest("IDLE", <<>>) = "IDLE"
      BY DEF NewRun, Echo, Latest, _SNAPSHOT_PHASES, TERMINAL_PHASES
    <2>3. \A w, a, p : Linked("IDLE", <<>>, w, a, p)
      BY DEF Linked
    <2>4. StreamInvOf(c)'
      BY <1>4, <2>1, <2>2, <2>3 DEF OpenStream, StreamInvOf
    <2> QED BY <1>4, <2>4, OtherStreams DEF OpenStream
  <1>5. ASSUME NEW c \in Clients, NEW how, Leave(c, how), UNCHANGED workerVars
        PROVE  StreamInv'
    BY <1>5, OtherStreams DEF Leave, StreamInvOf
  <1>6. ASSUME NEW c \in Clients, Write(c) PROVE StreamInv'
    <2>1. /\ queue[c] \in Seq(Msgs) /\ queue[c] # <<>> /\ handler[c] = "streaming"
          /\ queue'[c] = Tail(queue[c])
          /\ UNCHANGED <<handler, worker, run, archive>>
          /\ conn'[c] = "open" => conn[c] = "open" /\ seen'[c] = Head(queue[c])
      BY <1>6, PendingHead DEF Write
    <2>2. StreamInvOf(c)'
      <3>1. SUFFICES ASSUME conn'[c] = "open"
                     PROVE  /\ Linked(seen[c], queue[c], worker[c], archive[c], run[c].phase)'
                            /\ worker[c] # "ended" =>
                                 Latest(seen'[c], queue'[c]) = Echo(run[c].phase)
        BY <2>1 DEF StreamInvOf
      <3>2. /\ Linked(seen[c], queue[c], worker[c], archive[c], run[c].phase)
            /\ worker[c] # "ended" => Latest(seen[c], queue[c]) = Echo(run[c].phase)
        BY <2>1, <3>1 DEF StreamInv
      <3>3. /\ Linked(Head(queue[c]), Tail(queue[c]), worker[c], archive[c], run[c].phase)
            /\ Latest(Head(queue[c]), Tail(queue[c])) = Latest(seen[c], queue[c])
        BY <2>1, <3>2, LinkedRead
      <3> QED BY <2>1, <3>1, <3>2, <3>3
    <2> QED BY <1>6, <2>2, OtherStreams DEF Write
  <1>7. ASSUME NEW c \in Clients, RunStep(c) PROVE StreamInv'
    <2>1. PICK r \in RunNext(run[c], cancel[c]) :
            /\ run' = [run EXCEPT ![c] = r]
            /\ Put(c, Announced(run[c], r))
            /\ worker' = [worker EXCEPT ![c] = IF r.stage = "over" THEN "settle" ELSE @]
      BY <1>7 DEF RunStep
    <2>2. /\ worker[c] = "running" /\ run[c].stage # "over" /\ cancel[c] \in BOOLEAN
          /\ UNCHANGED <<conn, handler, seen, archive>> /\ RunInv(run[c])
      BY <1>7 DEF RunStep, ThreadInv
    <2>3. /\ r.phase # run[c].phase => r.phase \in TransitionTable[run[c].phase]
          /\ run[c].phase \in SearchPhase \ TERMINAL_PHASES
      BY <2>2, RunNextInv DEF RunInv, Runs
    <2>4. StreamInvOf(c)'
      <3>1. SUFFICES ASSUME handler[c] = "streaming", conn[c] = "open"
                     PROVE  /\ Linked(seen[c], queue'[c], worker'[c], archive[c], r.phase)
                            /\ Latest(seen[c], queue'[c]) = Echo(r.phase)
        BY <2>1, <2>2 DEF StreamInvOf
      <3>2. queue'[c] = queue[c] \o Announced(run[c], r) /\ queue[c] \in Seq(Msgs)
        BY <2>1, <3>1 DEF Put, Msgs
      <3>3. /\ Linked(seen[c], queue[c], worker[c], archive[c], run[c].phase)
            /\ Latest(seen[c], queue[c]) = Echo(run[c].phase)
        BY <2>2, <3>1 DEF StreamInv
      <3>4. Announced(run[c], r) = News(run[c].phase, r.phase)
        BY DEF Announced, News
      <3> DEFINE p == run[c].phase
                 n == r.phase
                 w == worker[c]
      <3>5. /\ w # "ended" /\ Linked(seen[c], queue[c], w, archive[c], p)
            /\ Latest(seen[c], queue[c]) = Echo(p)
            /\ p \in SearchPhase \ TERMINAL_PHASES /\ (n # p => n \in TransitionTable[p])
        BY <2>2, <2>3, <3>3
      <3> HIDE DEF p, n, w
      <3> DEFINE s == seen[c]
                 q == queue[c]
                 a == archive[c]
                 v == worker'[c]
      <3>6. q \in Seq(Msgs) /\ Linked(s, q, w, a, p) /\ Latest(s, q) = Echo(p)
        BY <3>2, <3>5
      <3> HIDE DEF s, q, a, v
      <3>7. Linked(s, q \o News(p, n), v, a, n) /\ Latest(s, q \o News(p, n)) = Echo(n)
        BY ONLY <3>5, <3>6, LinkedMove
      <3> QED BY <3>2, <3>4, <3>7 DEF p, n, s, q, a, v
    <2> QED BY <2>1, <2>2, <2>4, OtherStreams DEF Put
  <1>8. ASSUME NEW c \in Clients, Settle(c) PROVE StreamInv'
    <2>1. /\ worker[c] = "settle" /\ worker' = [worker EXCEPT ![c] = "ended"]
          /\ UNCHANGED <<conn, handler, seen, run>> /\ run[c].phase \in TERMINAL_PHASES
      BY <1>8 DEF Settle, ThreadInv, RunInv
    <2>2. PICK a \in {"saved", "lost", "crashed"},
               e \in {<<"metrics", "result", END>>, <<END>>} :
            /\ archive' = [archive EXCEPT ![c] = a] /\ Put(c, e)
            /\ IF a = "crashed" THEN e = <<END>> ELSE e = <<"metrics", "result", END>>
      BY <1>8 DEF Settle
    <2>3. StreamInvOf(c)'
      <3>1. SUFFICES ASSUME handler[c] = "streaming", conn[c] = "open"
                     PROVE  Linked(seen[c], queue'[c], "ended", a, run[c].phase)
        BY <2>1, <2>2 DEF StreamInvOf
      <3>2. queue'[c] = queue[c] \o e /\ queue[c] \in Seq(Msgs)
        BY <2>2, <3>1 DEF Put, Msgs
      <3>3. /\ Linked(seen[c], queue[c], worker[c], archive[c], run[c].phase)
            /\ Latest(seen[c], queue[c]) = Echo(run[c].phase)
        BY <2>1, <3>1 DEF StreamInv
      <3>4. /\ \A b \in {"saved", "lost"} :
                 Linked(seen[c], queue[c] \o <<"metrics", "result", END>>, "ended", b, run[c].phase)
            /\ Linked(seen[c], queue[c] \o <<END>>, "ended", "crashed", run[c].phase)
        BY <2>1, <3>2, <3>3, LinkedSettle
      <3> QED BY <2>2, <3>2, <3>4
    <2> QED BY <2>1, <2>2, <2>3, OtherStreams DEF Put
  <1>9. CASE UNCHANGED vars
    BY <1>9 DEF vars, StreamInv
  <1> QED
    BY <1>1, <1>2, <1>3, <1>4, <1>5, <1>6, <1>7, <1>8, <1>9
       DEF Next, Handler, Worker, Quiescent, OpenFault, Finish, Abandon, EncodingFault

(***************************************************************************)
(* Only a write that reaches the client changes what a streaming client    *)
(* has seen, and only a complete stream finishes.                          *)
(***************************************************************************)
LEMMA SeenByWrite ==
  ASSUME ServerInv, Next, NEW c \in Clients, seen'[c] # seen[c], handler'[c] = "streaming"
  PROVE  Write(c) /\ conn[c] = "open" /\ seen'[c] = Head(queue[c])
  BY DEF ServerInv, TypeOK, Next, Handler, Worker, Quiescent, vars, workerVars, handlerVars,
     Refuse, Acquire, Disconnect, OpenStream, OpenFault, Write, Finish, Abandon, EncodingFault,
     RunStep, Settle, Leave

\* A connection still open ends as finished only by reading the end marker.
LEMMA FinishedByEnd ==
  ASSUME ServerInv, Next, NEW c \in Clients, ending'[c] = "finished", conn[c] = "open"
  PROVE  Finish(c)
  <1> USE DEF ServerInv, TypeOK
  <1>1. ending[c] # "finished"
    BY DEF ThreadInv
  <1>2. ~ UNCHANGED ending
    BY <1>1
  <1>3. PICK d \in Clients : OpenFault(d) \/ Finish(d) \/ Abandon(d) \/ EncodingFault(d)
    BY <1>2 DEF Next, Handler, Worker, Quiescent, vars, handlerVars, Refuse, Acquire, Disconnect,
       OpenStream, Write, RunStep, Settle
  <1>4. d = c
    BY <1>1, <1>3 DEF OpenFault, Finish, Abandon, EncodingFault, Leave
  <1> QED BY <1>3, <1>4 DEF OpenFault, Abandon, EncodingFault, Leave

(***************************************************************************)
(* StreamOrder: whatever the interleaving of the two threads, a connected  *)
(* client sees a legal phase trace with its snapshots, then metrics and    *)
(* result once, of a run that is over and whose archiving is settled.      *)
(***************************************************************************)
THEOREM StreamsInOrder == Spec => StreamOrder
  <1> DEFINE Ordered(c) ==
        /\ seen'[c] # seen[c] /\ handler'[c] = "streaming" =>
             /\ seen[c] # "result" /\ Follows(seen'[c], seen[c])
             /\ seen'[c] \in {"metrics", "result"} =>
                  archive[c] \in {"saved", "lost"} /\ run[c].phase \in TERMINAL_PHASES
        /\ ending'[c] = "finished" /\ conn[c] = "open" /\ archive[c] # "crashed" =>
             seen[c] = "result"
  <1>1. ASSUME ServerInv, StreamInv, Next, NEW c \in Clients PROVE Ordered(c)
    <2>1. ASSUME Pending(c), conn[c] = "open"
          PROVE  Link(seen[c], Head(queue[c]), worker[c], archive[c], run[c].phase)
      <3>1. queue[c] \in Seq(Msgs) /\ queue[c] # <<>> /\ handler[c] = "streaming"
        BY <1>1, <2>1, PendingHead DEF ServerInv
      <3>2. Linked(seen[c], queue[c], worker[c], archive[c], run[c].phase)
        BY <1>1, <2>1, <3>1 DEF StreamInv
      <3> QED BY <3>1, <3>2, LinkedRead
    <2>2. ASSUME seen'[c] # seen[c], handler'[c] = "streaming"
          PROVE  /\ seen[c] # "result" /\ Follows(seen'[c], seen[c])
                 /\ seen'[c] \in {"metrics", "result"} =>
                      archive[c] \in {"saved", "lost"} /\ run[c].phase \in TERMINAL_PHASES
      <3>1. Write(c) /\ conn[c] = "open" /\ seen'[c] = Head(queue[c])
        BY <1>1, <2>2, SeenByWrite
      <3>2. Pending(c) /\ Head(queue[c]) # END
        BY <3>1 DEF Write
      <3> QED BY <2>1, <3>1, <3>2 DEF Link
    <2>3. ASSUME ending'[c] = "finished", conn[c] = "open", archive[c] # "crashed"
          PROVE  seen[c] = "result"
      <3>1. Pending(c) /\ Head(queue[c]) = END
        BY <1>1, <2>3, FinishedByEnd DEF Finish
      <3> QED BY <2>1, <2>3, <3>1 DEF Link
    <2> QED BY <2>2, <2>3
  <1>2. ServerInv /\ StreamInv /\ [Next]_vars => [\A c \in Clients : Ordered(c)]_vars
    BY <1>1
  <1>3. Spec => []StreamInv
    BY ServerInductive, StreamInit, StreamStep, PTL DEF Spec
  <1> QED BY <1>2, <1>3, ServerInductive, PTL DEF Spec, StreamOrder
-----------------------------------------------------------------------------
(***************************************************************************)
(* Who waits for whom.  A handler waits for its queue: there is something  *)
(* on it that it can deal with, or its worker still has the end to put     *)
(* there, and a run that is not over has a next step.                      *)
(***************************************************************************)
Served(c) ==
  /\ handler[c] = "streaming" =>
       \/ /\ queue[c] # <<>>
          /\ Head(queue[c]) = END \/ conn[c] \in {"open", "closed", "reset"}
       \/ worker[c] \in {"running", "settle"}
  /\ worker[c] = "running" => RunNext(run[c], cancel[c]) # {}

\* Where a run between its first and its last step can be.
Placed(stage, phase) ==
  /\ stage = "new" => phase = "IDLE"
  /\ stage = "inside" => phase \in {"SELECTION", "EXPANSION", "BACKTRACKING",
                                    "EVALUATION", "BACKPROPAGATION"}
  /\ stage = "reopened" => phase \in {"BACKTRACKING", "SELECTION"}
  /\ stage = "failing" => phase \in {"SELECTION", "EXPANSION", "EVALUATION"}

\* A worker that has ended left its END at the end of a queue that is read.
EndInv(c) ==
  /\ Placed(run[c].stage, run[c].phase)
  /\ handler[c] \in {"session", "streaming"} => conn[c] # "none"
  /\ handler[c] = "streaming" => worker[c] # "none"
  /\ handler[c] = "streaming" /\ worker[c] = "ended" =>
       queue[c] # <<>> /\ queue[c][Len(queue[c])] = END

\* Moves lead to places, and every place but the end has a move or a boundary.
LEMMA MovesPlaced ==
  /\ \A m \in Moves : Placed(m[3], m[4])
  /\ \A stage \in Stages \ {"boundary", "checked", "over"} : \A phase \in SearchPhase :
       Placed(stage, phase) => \E m \in Moves : m[1] = stage /\ m[2] = phase
  <1>1. \A m \in Moves : Placed(m[3], m[4])
    BY DEF Moves, Placed
  <1> DEFINE Leads(a, b) == \E m \in Moves : m[1] = a /\ m[2] = b
  <1>2. Leads("new", "IDLE")
    <2>1. <<"new", "IDLE", "boundary", "SELECTION">> \in Moves
      BY DEF Moves
    <2> QED BY <2>1
  <1>3. Leads("inside", "SELECTION") /\ Leads("inside", "EXPANSION")
    <2>1. /\ <<"inside", "SELECTION", "inside", "EXPANSION">> \in Moves
          /\ <<"inside", "EXPANSION", "inside", "EVALUATION">> \in Moves
      BY DEF Moves
    <2> QED BY <2>1
  <1>4. Leads("inside", "BACKTRACKING") /\ Leads("inside", "EVALUATION")
    <2>1. /\ <<"inside", "BACKTRACKING", "boundary", "SELECTION">> \in Moves
          /\ <<"inside", "EVALUATION", "inside", "BACKPROPAGATION">> \in Moves
      BY DEF Moves
    <2> QED BY <2>1
  <1>5. Leads("inside", "BACKPROPAGATION") /\ Leads("failing", "EVALUATION")
    <2>1. /\ <<"inside", "BACKPROPAGATION", "boundary", "SELECTION">> \in Moves
          /\ <<"failing", "EVALUATION", "over", "FAILED">> \in Moves
      BY DEF Moves
    <2> QED BY <2>1
  <1>6. Leads("reopened", "BACKTRACKING") /\ Leads("reopened", "SELECTION")
    <2>1. /\ <<"reopened", "BACKTRACKING", "reopened", "SELECTION">> \in Moves
          /\ <<"reopened", "SELECTION", "inside", "EXPANSION">> \in Moves
      BY DEF Moves
    <2> QED BY <2>1
  <1>7. Leads("failing", "SELECTION") /\ Leads("failing", "EXPANSION")
    <2>1. /\ <<"failing", "SELECTION", "over", "FAILED">> \in Moves
          /\ <<"failing", "EXPANSION", "over", "FAILED">> \in Moves
      BY DEF Moves
    <2> QED BY <2>1
  <1> HIDE DEF Leads
  <1>8. ASSUME NEW stage \in Stages \ {"boundary", "checked", "over"}, NEW phase,
               Placed(stage, phase)
        PROVE  Leads(stage, phase)
    BY <1>2, <1>3, <1>4, <1>5, <1>6, <1>7, <1>8 DEF Placed, Stages
  <1> QED BY <1>1, <1>8 DEF Leads

\* A run stays placed, and a run that is not over has a next step.
LEMMA RunGoesOn ==
  ASSUME NEW r, RunInv(r), r.stage # "over", Placed(r.stage, r.phase), NEW cancelled
  PROVE  /\ RunNext(r, cancelled) # {}
         /\ \A q \in RunNext(r, cancelled) : Placed(q.stage, q.phase)
  <1>1. r.stage \in Stages /\ r.phase \in SearchPhase
    BY DEF RunInv, Runs
  <1>2. RunNext(r, cancelled) # {}
    <2>1. CASE r.stage = "boundary"
      <3>1. Boundary(r, cancelled) # {}
        BY DEF Boundary
      <3> QED BY <2>1, <3>1 DEF RunNext
    <2>2. CASE r.stage = "checked"
      BY <2>2 DEF RunNext
    <2>3. CASE r.stage \notin {"boundary", "checked"}
      <3>1. PICK m \in Moves : m[1] = r.stage /\ m[2] = r.phase
        BY <1>1, <2>3, MovesPlaced
      <3>2. Moved(r, m[3], m[4]) \in RunNext(r, cancelled)
        BY <3>1 DEF RunNext
      <3> QED BY <3>2
    <2> QED BY <2>1, <2>2, <2>3
  <1>3. ASSUME NEW q \in RunNext(r, cancelled) PROVE Placed(q.stage, q.phase)
    <2>1. CASE \E m \in Moves : q = Moved(r, m[3], m[4])
      <3>1. PICK m \in Moves : q = Moved(r, m[3], m[4])
        BY <2>1
      <3>2. q.stage = m[3] /\ q.phase = m[4]
        BY <3>1 DEF Moved
      <3> QED BY <3>2, MovesPlaced
    <2>2. CASE r.stage = "boundary" /\ q \in Boundary(r, cancelled)
      <3>1. q.stage \in {"over", "checked"}
        BY <2>2 DEF Boundary, Moved
      <3> QED BY <3>1 DEF Placed
    <2>3. CASE r.stage = "checked" /\ q = Iterate(r)
      <3>1. q.stage = "inside" /\ q.phase = "SELECTION"
        BY <2>3 DEF Iterate, RunInv
      <3> QED BY <3>1 DEF Placed
    <2> QED BY <2>1, <2>2, <2>3 DEF RunNext
  <1> QED BY <1>2, <1>3

\* A step of one client leaves what the others wait for.
LEMMA OtherEnds ==
  ASSUME NEW c \in Clients, \A d \in Clients : EndInv(d),
         \A d \in Clients \ {c} :
           /\ handler'[d] = handler[d] /\ conn'[d] = conn[d] /\ queue'[d] = queue[d]
           /\ worker'[d] = worker[d] /\ run'[d] = run[d],
         EndInv(c)'
  PROVE  (\A d \in Clients : EndInv(d))'
  <1>1. ASSUME NEW d \in Clients \ {c} PROVE EndInv(d)'
    <2>1. EndInv(d)
      OBVIOUS
    <2> QED BY <2>1 DEF EndInv
  <1> QED BY <1>1

\* What is left of a queue that ends in END still does.
LEMMA EndStays ==
  ASSUME NEW q \in Seq(Msgs), q # <<>>, q[Len(q)] = END, Head(q) # END
  PROVE  Tail(q) # <<>> /\ Tail(q)[Len(Tail(q))] = END
  <1>1. Len(q) \in Nat /\ Len(q) >= 1 /\ Head(q) = q[1]
    OBVIOUS
  <1>2. Len(q) # 1
    BY <1>1
  <1>3. Len(Tail(q)) = Len(q) - 1 /\ Tail(q) \in Seq(Msgs)
    BY <1>1
  <1>4. PICK t, k : t = Tail(q) /\ k = Len(Tail(q))
    OBVIOUS
  <1>5. t[k] = q[Len(q)] /\ t # <<>>
    <2>1. k \in 1..Len(Tail(q)) /\ k + 1 = Len(q)
      BY <1>1, <1>2, <1>3, <1>4
    <2>2. Tail(q)[k] = q[k + 1]
      BY <2>1
    <2>3. Len(t) # 0
      BY <1>4, <2>1
    <2> QED BY <1>4, <2>1, <2>2, <2>3
  <1> QED BY <1>4, <1>5

\* What is put on a queue is at its end.
LEMMA EndPut ==
  ASSUME NEW q \in Seq(Msgs), NEW e \in {<<"metrics", "result", END>>, <<END>>}
  PROVE  q \o e # <<>> /\ (q \o e)[Len(q \o e)] = END
  <1>1. e \in Seq(Msgs) /\ Len(e) \in Nat /\ Len(e) >= 1 /\ e[Len(e)] = END
    <2>1. {"metrics", "result", END} \subseteq Msgs
      BY DEF Msgs, Envelope
    <2>2. CASE e = <<END>>
      BY <2>1, <2>2
    <2>3. CASE e = <<"metrics", "result", END>>
      BY <2>1, <2>3
    <2> QED BY <2>2, <2>3
  <1>2. Len(q \o e) = Len(q) + Len(e) /\ Len(q) \in Nat /\ q \o e \in Seq(Msgs)
    BY <1>1, ConcatProperties
  <1>3. (q \o e)[Len(q) + Len(e)] = e[Len(e)]
    BY <1>1, <1>2, ConcatProperties
  <1> QED BY <1>1, <1>2, <1>3

\* Every step keeps them: only the worker's last step ends it, and it puts END.
LEMMA EndStep ==
  ServerInv /\ (\A c \in Clients : EndInv(c)) /\ [Next]_vars
    => (\A c \in Clients : EndInv(c))'
  <1> SUFFICES ASSUME ServerInv, \A c \in Clients : EndInv(c), [Next]_vars
               PROVE  (\A c \in Clients : EndInv(c))'
    OBVIOUS
  <1> USE DEF ServerInv, TypeOK, workerVars, handlerVars
  <1>1. ASSUME NEW c \in Clients, Refuse(c) \/ Acquire(c) \/ Disconnect(c) \/ OpenStream(c)
        PROVE  (\A d \in Clients : EndInv(d))'
    <2>1. EndInv(c)
      OBVIOUS
    <2>2. EndInv(c)'
      BY <1>1, <2>1 DEF Refuse, Acquire, Disconnect, OpenStream, EndInv
    <2> QED BY <1>1, <2>2, OtherEnds DEF Refuse, Acquire, Disconnect, OpenStream
  <1>2. ASSUME NEW c \in Clients, OpenFault(c) \/ Finish(c) \/ Abandon(c) \/ EncodingFault(c)
        PROVE  (\A d \in Clients : EndInv(d))'
    <2>1. PICK how : Leave(c, how)
      BY <1>2 DEF OpenFault, Finish, Abandon, EncodingFault
    <2>2. UNCHANGED <<worker, run>>
      BY <1>2 DEF OpenFault, Finish, Abandon, EncodingFault
    <2>3. EndInv(c)
      OBVIOUS
    <2>4. EndInv(c)'
      BY <2>1, <2>2, <2>3 DEF Leave, EndInv
    <2> QED BY <2>1, <2>2, <2>4, OtherEnds DEF Leave
  <1>3. ASSUME NEW c \in Clients, Write(c) PROVE (\A d \in Clients : EndInv(d))'
    <2>1. /\ queue[c] \in Seq(Msgs) /\ queue[c] # <<>> /\ Head(queue[c]) # END
          /\ queue' = [queue EXCEPT ![c] = Tail(@)] /\ UNCHANGED <<handler, worker, run>>
          /\ conn' = conn \/ conn' = [conn EXCEPT ![c] = "reset"]
      BY <1>3, PendingHead DEF Write
    <2>2. EndInv(c)
      OBVIOUS
    <2>3. queue'[c] = Tail(queue[c])
      BY <2>1
    <2>4. EndInv(c)'
      BY <2>1, <2>2, <2>3, EndStays DEF EndInv
    <2> QED BY <2>1, <2>4, OtherEnds
  <1>4. ASSUME NEW c \in Clients, RunStep(c) PROVE (\A d \in Clients : EndInv(d))'
    <2>1. PICK r \in RunNext(run[c], cancel[c]) :
            /\ run' = [run EXCEPT ![c] = r]
            /\ Put(c, Announced(run[c], r))
            /\ worker' = [worker EXCEPT ![c] = IF r.stage = "over" THEN "settle" ELSE @]
      BY <1>4 DEF RunStep
    <2>2. /\ worker[c] = "running" /\ run[c].stage # "over" /\ RunInv(run[c])
          /\ UNCHANGED <<handler, conn>>
      BY <1>4 DEF RunStep, ThreadInv
    <2>3. EndInv(c)
      OBVIOUS
    <2>4. Placed(r.stage, r.phase)
      BY <2>1, <2>2, <2>3, RunGoesOn DEF EndInv
    <2>5. worker'[c] \in {"running", "settle"} /\ run'[c] = r
      BY <2>1, <2>2
    <2>6. EndInv(c)'
      BY <2>2, <2>3, <2>4, <2>5 DEF EndInv
    <2> QED BY <2>1, <2>2, <2>6, OtherEnds DEF Put
  <1>5. ASSUME NEW c \in Clients, Settle(c) PROVE (\A d \in Clients : EndInv(d))'
    <2>1. PICK e \in {<<"metrics", "result", END>>, <<END>>} : Put(c, e)
      BY <1>5 DEF Settle
    <2>2. /\ UNCHANGED <<handler, conn, run>> /\ worker' = [worker EXCEPT ![c] = "ended"]
      BY <1>5 DEF Settle
    <2>3. EndInv(c) /\ queue[c] \in Seq(Msgs)
      BY DEF Msgs
    <2>4. handler[c] = "streaming" => queue'[c] = queue[c] \o e
      BY <2>1 DEF Put
    <2>5. handler[c] = "streaming" => queue'[c] # <<>> /\ queue'[c][Len(queue'[c])] = END
      BY <2>3, <2>4, EndPut
    <2>6. EndInv(c)'
      BY <2>2, <2>3, <2>5 DEF EndInv
    <2> QED BY <2>1, <2>2, <2>6, OtherEnds DEF Put
  <1>6. CASE UNCHANGED vars
    BY <1>6 DEF vars, EndInv
  <1> QED
    BY <1>1, <1>2, <1>3, <1>4, <1>5, <1>6 DEF Next, Handler, Worker, Quiescent

(***************************************************************************)
(* No handler blocks on a queue that nobody will ever put anything on:     *)
(* whatever the client, the framing and the archive do, the None that ends *)
(* its loop is on the queue or its worker still has a step to take.        *)
(***************************************************************************)
THEOREM NobodyWaitsInVain == Spec => [](\A c \in Clients : Served(c))
  <1>1. Init => \A c \in Clients : EndInv(c)
    BY DEF Init, EndInv, Placed, NewRun
  <1>2. ServerInv /\ (\A c \in Clients : EndInv(c)) => \A c \in Clients : Served(c)
    <2> SUFFICES ASSUME ServerInv, NEW c \in Clients, EndInv(c) PROVE Served(c)
      OBVIOUS
    <2>1. /\ conn[c] \in {"none", "open", "closed", "reset"}
          /\ worker[c] \in {"none", "running", "settle", "ended"}
      BY DEF ServerInv, TypeOK
    <2>2. worker[c] = "running" => RunNext(run[c], cancel[c]) # {}
      BY RunGoesOn DEF ServerInv, ThreadInv, EndInv
    <2> QED BY <2>1, <2>2 DEF Served, EndInv
  <1> QED BY <1>1, <1>2, EndStep, ServerInductive, PTL DEF Spec
=============================================================================
