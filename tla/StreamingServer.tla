-------------------------- MODULE StreamingServer --------------------------
(***************************************************************************)
(* The streaming server and the session behind each of its connections     *)
(* (cognitivetree/ui/server.py, cognitivetree/session.py).  Per client:    *)
(* the handler thread of its /stream request, the worker thread on which   *)
(* the session runs the search, and the queue of envelopes between them.   *)
(* All handlers share the semaphore of run slots.  A run is an automaton   *)
(* of RunLifecycle.                                                        *)
(***************************************************************************)
EXTENDS Integers, Sequences, FiniteSets, RunLifecycle

CONSTANTS
  Clients,
  MaxConcurrentRuns,   \* StreamingUiServer.max_concurrent_runs, not None
  FactoryMayRaise,     \* may session_factory() or the controller factory raise?
  EncodingMayRaise,    \* may framing an envelope raise (text that is not UTF-8)?
  ArchiveFaults        \* how save_run() may fail: "os", "other"

ASSUME ServerAssumption ==
  /\ MaxConcurrentRuns \in Nat \ {0}
  /\ MaxIterations \in Nat
  /\ FactoryMayRaise \in BOOLEAN /\ EncodingMayRaise \in BOOLEAN
  /\ ArchiveFaults \subseteq {"os", "other"}

VARIABLES
  slots,      \* free permits of run_slots
  conn,       \* the client's end of the connection
  handler,    \* where the handler thread is
  ending,     \* how the handler left the stream
  seen,       \* the last envelope that reached the client
  worker,     \* where the worker thread is
  run,        \* the run it executes
  cancel,     \* the stream's cancel event
  queue,      \* the stream's envelopes queue
  archive     \* what became of the run's archive

vars == <<slots, conn, handler, ending, seen, worker, run, cancel,
          queue, archive>>

handlerVars == <<slots, conn, handler, ending, seen>>
workerVars  == <<worker, run, archive>>

END == "END"      \* the None that closes the queue

Envelope == SearchPhase \cup {"snapshot", "metrics", "result"}

_SNAPSHOT_PHASES == {"BACKPROPAGATION"} \cup TERMINAL_PHASES

Init ==
  /\ slots = MaxConcurrentRuns
  /\ conn = [c \in Clients |-> "none"]
  /\ handler = [c \in Clients |-> "idle"]
  /\ ending = [c \in Clients |-> "none"]
  /\ seen = [c \in Clients |-> "IDLE"]
  /\ worker = [c \in Clients |-> "none"]
  /\ run = [c \in Clients |-> NewRun]
  /\ cancel = [c \in Clients |-> FALSE]
  /\ queue = [c \in Clients |-> <<>>]
  /\ archive = [c \in Clients |-> "none"]

(***************************************************************************)
(* A client asks for a stream (again after a 503): _serve_stream() takes a *)
(* slot or refuses.                                                        *)
(***************************************************************************)
Refuse(c) ==
  /\ handler[c] \in {"idle", "refused"} /\ slots = 0
  /\ handler' = [handler EXCEPT ![c] = "refused"]
  /\ UNCHANGED <<slots, conn, ending, seen, workerVars, cancel, queue>>

Acquire(c) ==
  /\ handler[c] \in {"idle", "refused"} /\ slots > 0
  /\ slots' = slots - 1
  /\ conn' = [conn EXCEPT ![c] = "open"]
  /\ handler' = [handler EXCEPT ![c] = "session"]
  /\ UNCHANGED <<ending, seen, workerVars, cancel, queue>>

(***************************************************************************)
(* The client goes away.                                                   *)
(***************************************************************************)
Disconnect(c) ==
  /\ conn[c] = "open" /\ handler[c] \in {"session", "streaming"}
  /\ conn' = [conn EXCEPT ![c] = "closed"]
  /\ UNCHANGED <<slots, handler, ending, seen, workerVars, cancel, queue>>

(***************************************************************************)
(* The handler leaves _stream_session(), by return or by exception, and    *)
(* _serve_stream() releases its slot.  The connection is closed with the   *)
(* response, and nothing of its stream is kept.                            *)
(***************************************************************************)
\* Mutant: the slot is released on the normal path only.
LeaveLeaking(c, how) ==
  /\ slots' = IF how = "crashed" THEN slots ELSE slots + 1
  /\ handler' = [handler EXCEPT ![c] = "done"]
  /\ ending' = [ending EXCEPT ![c] = how]
  /\ conn' = [conn EXCEPT ![c] = "none"]
  /\ seen' = [seen EXCEPT ![c] = "IDLE"]
  /\ queue' = [queue EXCEPT ![c] = <<>>]

Leave(c, how) ==
  /\ slots' = slots + 1
  /\ handler' = [handler EXCEPT ![c] = "done"]
  /\ ending' = [ending EXCEPT ![c] = how]
  /\ conn' = [conn EXCEPT ![c] = "none"]
  /\ seen' = [seen EXCEPT ![c] = "IDLE"]
  /\ queue' = [queue EXCEPT ![c] = <<>>]

(***************************************************************************)
(* _stream_session(): the session is built, the headers are sent, and the  *)
(* first next() on the stream builds the controller and starts the worker. *)
(* An exception before that leaves no run behind.                          *)
(***************************************************************************)
OpenStream(c) ==
  /\ handler[c] = "session"
  /\ handler' = [handler EXCEPT ![c] = "streaming"]
  /\ worker' = [worker EXCEPT ![c] = "running"]
  /\ UNCHANGED <<slots, conn, ending, seen, run, archive, cancel, queue>>

OpenFault(c) ==
  /\ handler[c] = "session" /\ (FactoryMayRaise \/ conn[c] = "closed")
  /\ Leave(c, "crashed")
  /\ UNCHANGED <<workerVars, cancel>>

(***************************************************************************)
(* stream() yields the next envelope and the handler writes it.  The first *)
(* write after the client has gone may still be accepted by the kernel;    *)
(* the next one is not.                                                    *)
(***************************************************************************)
Pending(c) == handler[c] = "streaming" /\ queue[c] # <<>>

Write(c) ==
  /\ Pending(c) /\ Head(queue[c]) # END
  /\ queue' = [queue EXCEPT ![c] = Tail(@)]
  /\ \/ /\ conn[c] = "open"
        /\ seen' = [seen EXCEPT ![c] = Head(queue[c])]
        /\ UNCHANGED conn
     \/ /\ conn[c] = "closed"
        /\ conn' = [conn EXCEPT ![c] = "reset"]
        /\ UNCHANGED seen
  /\ UNCHANGED <<slots, handler, ending, workerVars, cancel>>

Finish(c) ==
  /\ Pending(c) /\ Head(queue[c]) = END
  /\ Leave(c, "finished")
  /\ UNCHANGED <<workerVars, cancel>>

(***************************************************************************)
(* The write fails, or the envelope cannot be framed: the generator is     *)
(* closed at its yield, which sets this stream's cancel event.             *)
(***************************************************************************)
\* Mutant: one cancel event for all the streams of the server.
AbandonShared(c) ==
  /\ Pending(c) /\ Head(queue[c]) # END
  /\ conn[c] \in {"closed", "reset"}
  /\ cancel' = [d \in Clients |-> TRUE]
  /\ Leave(c, "abandoned")
  /\ UNCHANGED workerVars

Abandon(c) ==
  /\ Pending(c) /\ Head(queue[c]) # END
  /\ conn[c] \in {"closed", "reset"}
  /\ cancel' = [cancel EXCEPT ![c] = TRUE]
  /\ Leave(c, "abandoned")
  /\ UNCHANGED workerVars

\* The envelopes that carry text of the candidates or of an exception.
Wordy == {"snapshot", "FAILED", "result"}

EncodingFault(c) ==
  /\ Pending(c) /\ Head(queue[c]) \in Wordy
  /\ EncodingMayRaise
  /\ cancel' = [cancel EXCEPT ![c] = TRUE]
  /\ Leave(c, "crashed")
  /\ UNCHANGED workerVars

(***************************************************************************)
(* The worker: one step of the run.  The sink turns a transition into a    *)
(* phase envelope and, in some phases, a snapshot.  What is put on a queue *)
(* whose generator was closed is never read: it is not kept.               *)
(***************************************************************************)
Put(c, envelopes) ==
  queue' = [queue EXCEPT ![c] = IF handler[c] = "streaming" THEN @ \o envelopes ELSE @]

Announced(before, after) ==
  IF after.phase = before.phase THEN <<>>
  ELSE IF after.phase \in _SNAPSHOT_PHASES THEN <<after.phase, "snapshot">>
  ELSE <<after.phase>>

RunStep(c) ==
  /\ worker[c] = "running"
  /\ \E r \in RunNext(run[c], cancel[c]) :
       /\ run' = [run EXCEPT ![c] = r]
       /\ Put(c, Announced(run[c], r))
       /\ worker' = [worker EXCEPT ![c] = IF r.stage = "over" THEN "settle" ELSE @]
  /\ UNCHANGED <<handlerVars, cancel, archive>>

(***************************************************************************)
(* The run has returned: archive it, then publish metrics and result.  An  *)
(* archive that cannot be written is lost, not raised, if the failure is   *)
(* an OSError; any other one ends the worker.  None closes the queue in    *)
(* every case.                                                             *)
(***************************************************************************)
\* Mutant: the result is published before the run is archived.
SettleResultFirst(c) ==
  /\ worker[c] = "settle"
  /\ worker' = [worker EXCEPT ![c] = "ended"]
  /\ Put(c, <<"result", "metrics", END>>)
  /\ archive' = [archive EXCEPT ![c] = "saved"]
  /\ UNCHANGED <<handlerVars, cancel, run>>

\* Mutant: no finally around the worker's body.
SettleNoFinally(c) ==
  /\ worker[c] = "settle"
  /\ worker' = [worker EXCEPT ![c] = "ended"]
  /\ \/ /\ archive' = [archive EXCEPT ![c] = "saved"]
        /\ Put(c, <<"metrics", "result", END>>)
     \/ /\ "other" \in ArchiveFaults
        /\ archive' = [archive EXCEPT ![c] = "crashed"]
        /\ UNCHANGED queue
  /\ UNCHANGED <<handlerVars, cancel, run>>

Settle(c) ==
  /\ worker[c] = "settle"
  /\ worker' = [worker EXCEPT ![c] = "ended"]
  /\ \/ /\ \/ archive' = [archive EXCEPT ![c] = "saved"]
           \/ "os" \in ArchiveFaults /\ archive' = [archive EXCEPT ![c] = "lost"]
        /\ Put(c, <<"metrics", "result", END>>)
     \/ /\ "other" \in ArchiveFaults
        /\ archive' = [archive EXCEPT ![c] = "crashed"]
        /\ Put(c, <<END>>)
  /\ UNCHANGED <<handlerVars, cancel, run>>

Handler(c) ==
  \/ OpenStream(c) \/ OpenFault(c) \/ Write(c) \/ Finish(c) \/ Abandon(c)
  \/ EncodingFault(c)

Worker(c) == RunStep(c) \/ Settle(c)

(***************************************************************************)
(* Every client has been served and every run is over.                     *)
(***************************************************************************)
Quiescent ==
  /\ \A c \in Clients : handler[c] = "done" /\ worker[c] \in {"none", "ended"}
  /\ UNCHANGED vars

Next == \/ \E c \in Clients : Refuse(c) \/ Acquire(c) \/ Disconnect(c)
                              \/ Handler(c) \/ Worker(c)
        \/ Quiescent

(***************************************************************************)
(* Fairness: both threads of a connection are scheduled.  For the handler  *)
(* this includes that a write ends: a connected client reads its stream.   *)
(***************************************************************************)
Spec == Init /\ [][Next]_vars
FairSpec ==
  Spec /\ \A c \in Clients : WF_vars(Handler(c)) /\ WF_vars(Worker(c))

-----------------------------------------------------------------------------
Holding == {c \in Clients : handler[c] \in {"session", "streaming"}}

(***************************************************************************)
(* Type correctness; the semaphore never holds more permits than it was    *)
(* created with (BoundedSemaphore.release() would raise).                  *)
(***************************************************************************)
TypeOK ==
  /\ slots \in 0..MaxConcurrentRuns
  /\ conn \in [Clients -> {"none", "open", "closed", "reset"}]
  /\ handler \in [Clients -> {"idle", "refused", "session", "streaming", "done"}]
  /\ ending \in [Clients -> {"none", "finished", "abandoned", "crashed"}]
  /\ seen \in [Clients -> Envelope]
  /\ worker \in [Clients -> {"none", "running", "settle", "ended"}]
  /\ run \in [Clients -> Runs]
  /\ cancel \in [Clients -> BOOLEAN]
  /\ queue \in [Clients -> Seq(Envelope \cup {END})]
  /\ archive \in [Clients -> {"none", "saved", "lost", "crashed"}]

(***************************************************************************)
(* Every permit is free or held by exactly one handler that is serving a   *)
(* stream, whichever way streams end: completed, disconnected, failed      *)
(* before the run started, or failed while framing an envelope.            *)
(***************************************************************************)
SlotAccounting == slots + Cardinality(Holding) = MaxConcurrentRuns

(***************************************************************************)
(* What a client sees, step by step: a legal phase trace from IDLE, a      *)
(* snapshot exactly after each snapshot phase, metrics and result once,    *)
(* after a terminal phase and only for a run whose archiving is settled.   *)
(* A client that stayed connected to the end of the stream has the result, *)
(* unless the archive failed with something else than an OSError.          *)
(***************************************************************************)
Follows(e, prev) ==
  CASE e = "snapshot" -> prev \in _SNAPSHOT_PHASES
    [] e = "metrics"  -> prev = "snapshot"
    [] e = "result"   -> prev = "metrics"
    [] OTHER          -> IF prev = "snapshot" THEN e \in TransitionTable["BACKPROPAGATION"]
                         ELSE e \in TransitionTable[prev] /\ prev \notin _SNAPSHOT_PHASES

StreamOrder ==
  [][\A c \in Clients :
       /\ seen'[c] # seen[c] /\ handler'[c] = "streaming" =>
            /\ seen[c] # "result" /\ Follows(seen'[c], seen[c])
            /\ seen'[c] \in {"metrics", "result"} =>
                 archive[c] \in {"saved", "lost"} /\ run[c].phase \in TERMINAL_PHASES
       /\ ending'[c] = "finished" /\ conn[c] = "open" /\ archive[c] # "crashed" =>
            seen[c] = "result"]_vars

(***************************************************************************)
(* A run is cancelled only because its own client went away or its own     *)
(* stream could not be framed, never because of another connection, and    *)
(* never once the stream is complete.                                      *)
(***************************************************************************)
CancelOnlyAbandoned ==
  \A c \in Clients :
    /\ run[c].phase = "CANCELLED" => ending[c] \in {"abandoned", "crashed"}
    /\ cancel[c] => ending[c] \in {"abandoned", "crashed"}

(***************************************************************************)
(* Every admitted request is served to its end: its handler returns the    *)
(* slot and its run, abandoned or not, is over.                            *)
(***************************************************************************)
EveryRunSettles ==
  \A c \in Clients :
    handler[c] = "session" ~> handler[c] = "done" /\ worker[c] \in {"none", "ended"}

(***************************************************************************)
(* "max_concurrent_runs bounds how many run at once": at most that many    *)
(* searches are executing.                                                 *)
(***************************************************************************)
ConcurrencyCap ==
  Cardinality({c \in Clients : worker[c] = "running"}) <= MaxConcurrentRuns
=============================================================================
