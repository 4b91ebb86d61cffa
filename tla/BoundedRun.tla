----------------------------- MODULE BoundedRun -----------------------------
(***************************************************************************)
(* run_bounded() (cognitivetree/sandbox/process.py): one child process,    *)
(* the two reader threads that drain its output, the feeder thread that    *)
(* writes its input, and the caller that waits, kills at the deadline,     *)
(* joins the readers for a grace period and collects; then the decoding of *)
(* what was captured (cognitivetree/sandbox/spec.py).                      *)
(*                                                                         *)
(* A stream is the sequence of its characters' widths in bytes; pipes and  *)
(* buffers hold numbers of bytes, since what is kept is always a prefix.   *)
(* The child may leave a process behind that holds its pipes open.         *)
(***************************************************************************)
EXTENDS Integers, Sequences, FiniteSetsExt

CONSTANTS
  BytesPerChar,    \* the widest character; 4 in UTF-8
  OutputLimit,     \* ResourceLimits.output_limit_chars
  ChunkBytes,      \* _CHUNK_BYTES
  PipeBytes,       \* capacity of a pipe
  InputBytes,      \* length of the framed payload
  Texts            \* what the two streams may carry

Streams == {"out", "err"}

ASSUME RunAssumption ==
  /\ {BytesPerChar, OutputLimit, ChunkBytes, PipeBytes} \subseteq Nat \ {0}
  /\ InputBytes \in Nat
  /\ Texts \subseteq [Streams -> Seq(1..BytesPerChar)]

\* Mutant: one byte per character.
CaptureAscii(limit) == limit

capture_bytes_for(limit) == limit * BytesPerChar

CaptureBytes == capture_bytes_for(OutputLimit)

(***************************************************************************)
(* The bytes of the first k characters; the characters that the first n    *)
(* bytes decode to, a split one as a replacement character.                *)
(***************************************************************************)
Bytes(t, k) == MapThenSumSet(LAMBDA i : t[i], 1..k)

Chars(t, n) ==
  CHOOSE k \in 0..Len(t) :
    Bytes(t, k) >= n /\ \A j \in 0..(k - 1) : Bytes(t, j) < n

VARIABLES
  text,        \* what each stream would carry if the payload ran to its end
  emitted,     \* bytes written so far
  pipe,        \* bytes in the pipe
  child,       \* the child process
  orphan,      \* a process the child started, with the same pipes
  stdin,       \* bytes in the input pipe
  fed,         \* bytes the feeder has written
  feeder,      \* the feeder thread
  reader,      \* where each reader thread is
  chunk,       \* bytes that its current read() has collected
  room,        \* its local of that name
  kept,        \* _kept
  truncated,   \* truncated
  main,        \* the caller
  returncode,
  abandoned,   \* readers whose join() timed out
  due,         \* what had been emitted when the wait ended
  data, flag   \* the BoundedRun being assembled

payloadVars == <<text, child, orphan>>
inputVars   == <<stdin, fed, feeder>>
readerVars  == <<reader, chunk, room, kept, truncated>>
mainVars    == <<main, returncode, abandoned, due, data, flag>>
vars == <<payloadVars, emitted, pipe, inputVars, readerVars, mainVars>>

Zero == [s \in Streams |-> 0]

Init ==
  /\ text \in Texts
  /\ emitted = Zero /\ pipe = Zero
  /\ child = "running" /\ orphan = "none"
  /\ stdin = 0 /\ fed = 0 /\ feeder = "feeding"
  /\ reader = [s \in Streams |-> "reading"]
  /\ chunk = Zero /\ room = Zero /\ kept = Zero
  /\ truncated = [s \in Streams |-> FALSE]
  /\ main = "wait" /\ returncode = "unset" /\ abandoned = {} /\ due = Zero
  /\ data = Zero /\ flag = [s \in Streams |-> FALSE]

PipesHeld == "running" \in {child, orphan}

(***************************************************************************)
(* The payload: it writes, reads, forks and exits in any order; a write    *)
(* to a full pipe and a read from an empty one block.                      *)
(***************************************************************************)
Emit(s) ==
  /\ PipesHeld
  /\ emitted[s] < Bytes(text[s], Len(text[s])) /\ pipe[s] < PipeBytes
  /\ emitted' = [emitted EXCEPT ![s] = @ + 1]
  /\ pipe' = [pipe EXCEPT ![s] = @ + 1]
  /\ UNCHANGED <<payloadVars, inputVars, readerVars, mainVars>>

TakeInput ==
  /\ child = "running" /\ stdin > 0
  /\ stdin' = stdin - 1
  /\ UNCHANGED <<payloadVars, emitted, pipe, fed, feeder, readerVars, mainVars>>

Fork ==
  /\ child = "running" /\ orphan = "none"
  /\ orphan' = "running"
  /\ UNCHANGED <<text, child, emitted, pipe, inputVars, readerVars, mainVars>>

Exit ==
  /\ \/ child = "running" /\ child' = "exited" /\ UNCHANGED orphan
     \/ orphan = "running" /\ orphan' = "exited" /\ UNCHANGED child
  /\ UNCHANGED <<text, emitted, pipe, inputVars, readerVars, mainVars>>

Payload == (\E s \in Streams : Emit(s)) \/ TakeInput \/ Fork \/ Exit

(***************************************************************************)
(* _feed(): writes the input and closes the pipe; a payload that is gone   *)
(* is a broken pipe, which ends the thread as well.                        *)
(***************************************************************************)
_feed ==
  /\ feeder = "feeding"
  /\ \/ /\ PipesHeld /\ fed < InputBytes /\ stdin < PipeBytes
        /\ fed' = fed + 1 /\ stdin' = stdin + 1
        /\ UNCHANGED feeder
     \/ /\ ~PipesHeld \/ fed = InputBytes
        /\ feeder' = "done"
        /\ UNCHANGED <<fed, stdin>>
  /\ UNCHANGED <<payloadVars, emitted, pipe, readerVars, mainVars>>

(***************************************************************************)
(* _BoundedReader.run().  read(_CHUNK_BYTES) on a buffered stream collects *)
(* until the chunk is full or the pipe ends, whatever it has meanwhile.    *)
(***************************************************************************)
\* Mutant: the reader stops once it has kept enough.
ReadUntilFull(s) ==
  /\ reader[s] = "reading" /\ pipe[s] > 0 /\ chunk[s] < ChunkBytes
  /\ kept[s] < CaptureBytes
  /\ LET n == Min({pipe[s], ChunkBytes - chunk[s]}) IN
     /\ pipe' = [pipe EXCEPT ![s] = @ - n]
     /\ chunk' = [chunk EXCEPT ![s] = @ + n]
  /\ UNCHANGED <<payloadVars, emitted, inputVars, reader, room, kept, truncated,
                 mainVars>>

Read(s) ==
  /\ reader[s] = "reading" /\ pipe[s] > 0 /\ chunk[s] < ChunkBytes
  /\ LET n == Min({pipe[s], ChunkBytes - chunk[s]}) IN
     /\ pipe' = [pipe EXCEPT ![s] = @ - n]
     /\ chunk' = [chunk EXCEPT ![s] = @ + n]
  /\ UNCHANGED <<payloadVars, emitted, inputVars, reader, room, kept, truncated,
                 mainVars>>

AtEnd(s) == pipe[s] = 0 /\ ~PipesHeld

\* Mutant: the chunk that straddles the cap is kept whole.
KeepWhole(s) ==
  /\ reader[s] = "reading" /\ chunk[s] > 0
  /\ chunk[s] = ChunkBytes \/ AtEnd(s)
  /\ room' = [room EXCEPT ![s] = CaptureBytes - kept[s]]
  /\ kept' = [kept EXCEPT ![s] = IF @ < CaptureBytes THEN @ + chunk[s] ELSE @]
  /\ reader' = [reader EXCEPT ![s] = "kept"]
  /\ UNCHANGED <<payloadVars, emitted, pipe, inputVars, chunk, truncated, mainVars>>

Keep(s) ==
  /\ reader[s] = "reading" /\ chunk[s] > 0
  /\ chunk[s] = ChunkBytes \/ AtEnd(s)
  /\ room' = [room EXCEPT ![s] = CaptureBytes - kept[s]]
  /\ kept' = [kept EXCEPT ![s] = @ + Min({chunk[s], CaptureBytes - @})]
  /\ reader' = [reader EXCEPT ![s] = "kept"]
  /\ UNCHANGED <<payloadVars, emitted, pipe, inputVars, chunk, truncated, mainVars>>

Judge(s) ==
  /\ reader[s] = "kept"
  /\ truncated' = [truncated EXCEPT ![s] = @ \/ chunk[s] > room[s]]
  /\ chunk' = [chunk EXCEPT ![s] = 0] /\ room' = [room EXCEPT ![s] = 0]
  /\ reader' = [reader EXCEPT ![s] = "reading"]
  /\ UNCHANGED <<payloadVars, emitted, pipe, inputVars, kept, mainVars>>

EndOfFile(s) ==
  /\ reader[s] = "reading" /\ chunk[s] = 0 /\ AtEnd(s)
  /\ reader' = [reader EXCEPT ![s] = "done"]
  /\ UNCHANGED <<payloadVars, emitted, pipe, inputVars, chunk, room, kept,
                 truncated, mainVars>>

Reader(s) == Read(s) \/ Keep(s) \/ Judge(s) \/ EndOfFile(s)

(***************************************************************************)
(* The caller: process.wait(timeout), kill() at the deadline, which may    *)
(* come when the child has just exited, then the two joins, each for       *)
(* _READER_GRACE_SECONDS.                                                  *)
(***************************************************************************)
Wait ==
  /\ main = "wait" /\ child # "running"
  /\ returncode' = "code" /\ main' = "join_out" /\ due' = emitted
  /\ UNCHANGED <<payloadVars, emitted, pipe, inputVars, readerVars, abandoned,
                 data, flag>>

Deadline ==
  /\ main = "wait"
  /\ child' = IF child = "running" THEN "killed" ELSE child
  /\ returncode' = "None" /\ main' = "join_out" /\ due' = emitted
  /\ UNCHANGED <<text, orphan, emitted, pipe, inputVars, readerVars, abandoned,
                 data, flag>>

\* Where the caller is about to join a reader, to read its data and its flag.
JoinOf == [out |-> "join_out", err |-> "join_err"]
DataOf == [out |-> "data_out", err |-> "data_err"]
FlagOf == [out |-> "flag_out", err |-> "flag_err"]

Following == [join_out |-> "join_err", join_err |-> "data_out",
              data_out |-> "data_err", data_err |-> "flag_out",
              flag_out |-> "flag_err", flag_err |-> "returned"]

\* Mutant: join() without a timeout.
JoinForEver(s) ==
  /\ main = JoinOf[s]
  /\ reader[s] = "done"
  /\ UNCHANGED abandoned
  /\ main' = Following[main]
  /\ UNCHANGED <<payloadVars, emitted, pipe, inputVars, readerVars, returncode,
                 due, data, flag>>

\* The read() in progress waits for a byte or for the end of the pipe.
Blocked(s) == reader[s] = "reading" /\ pipe[s] = 0 /\ chunk[s] < ChunkBytes

\* The reader is through with all that the stream carried when the wait ended.
Handled(s) == emitted[s] - pipe[s] - chunk[s] >= due[s]

\* A join expires on a pipe that is still held; the five seconds are enough
\* for what the reader could do until then.
Join(s) ==
  /\ main = JoinOf[s]
  /\ \/ reader[s] = "done" /\ UNCHANGED abandoned
     \/ /\ reader[s] # "done" /\ PipesHeld /\ (Blocked(s) \/ Handled(s))
        /\ abandoned' = abandoned \cup {s}
  /\ main' = Following[main]
  /\ UNCHANGED <<payloadVars, emitted, pipe, inputVars, readerVars, returncode,
                 due, data, flag>>

(***************************************************************************)
(* The BoundedRun: both data, then both flags, each read on its own while  *)
(* an abandoned reader may still append.                                   *)
(***************************************************************************)
Collect(s) ==
  /\ \/ main = DataOf[s] /\ data' = [data EXCEPT ![s] = kept[s]] /\ UNCHANGED flag
     \/ main = FlagOf[s] /\ flag' = [flag EXCEPT ![s] = truncated[s]] /\ UNCHANGED data
  /\ main' = Following[main]
  /\ UNCHANGED <<payloadVars, emitted, pipe, inputVars, readerVars, returncode,
                 abandoned, due>>

Caller == Wait \/ Deadline \/ \E s \in Streams : Join(s) \/ Collect(s)

(***************************************************************************)
(* run_bounded() has returned; its payload and its threads may live on.    *)
(***************************************************************************)
Returned == main = "returned" /\ UNCHANGED vars

Next == Payload \/ _feed \/ (\E s \in Streams : Reader(s)) \/ Caller \/ Returned

Spec == Init /\ [][Next]_vars

(***************************************************************************)
(* Fairness: the threads of the host are scheduled, and every wait of the  *)
(* caller is bounded by a timeout, so its next step always comes.  Nothing *)
(* is assumed of the payload.                                              *)
(***************************************************************************)
FairSpec == Spec /\ WF_vars(_feed) /\ WF_vars(Caller)
                 /\ \A s \in Streams : WF_vars(Reader(s))

-----------------------------------------------------------------------------
(***************************************************************************)
(* clip_output() and decode_captured() on the first n bytes of a stream:   *)
(* the characters shown, whether they are all whole, whether any was       *)
(* dropped.                                                                *)
(***************************************************************************)
decode_captured(t, n, cut) ==
  LET shown == Min({Chars(t, n), OutputLimit}) IN
  [chars |-> shown, whole |-> Bytes(t, shown) <= n,
   dropped |-> cut \/ Chars(t, n) > OutputLimit]

Output(s) == decode_captured(text[s], data[s], flag[s])

(***************************************************************************)
(* Type correctness.  Beyond the shapes: whatever the payload prints, the  *)
(* host holds at most the cap and one chunk of each stream.                *)
(***************************************************************************)
TypeOK ==
  /\ child \in {"running", "exited", "killed"}
  /\ orphan \in {"none", "running", "exited"}
  /\ stdin \in 0..PipeBytes /\ fed \in 0..InputBytes /\ feeder \in {"feeding", "done"}
  /\ reader \in [Streams -> {"reading", "kept", "done"}]
  /\ pipe \in [Streams -> 0..PipeBytes] /\ chunk \in [Streams -> 0..ChunkBytes]
  /\ kept \in [Streams -> 0..CaptureBytes] /\ room \in [Streams -> 0..CaptureBytes]
  /\ truncated \in [Streams -> BOOLEAN] /\ flag \in [Streams -> BOOLEAN]
  /\ data \in [Streams -> 0..CaptureBytes] /\ abandoned \subseteq Streams
  /\ main \in DOMAIN Following \cup {"wait", "returned"}
  /\ returncode \in {"unset", "code", "None"}

(***************************************************************************)
(* What the executors report is exact: a stream whose reader was joined is *)
(* shown up to its first output_limit_chars characters, none of them split *)
(* by the capture, and is flagged exactly when it had more.  A stream      *)
(* whose reader was abandoned shows a prefix, and is flagged only if it    *)
(* had more than the limit.  A returned exit code is the child's own.      *)
(***************************************************************************)
CaptureExact ==
  main = "returned" =>
    /\ returncode = "code" => child = "exited"
    /\ \A s \in Streams :
         LET all == Chars(text[s], emitted[s]) IN
         IF s \in abandoned
         THEN Output(s).chars <= all /\ (Output(s).dropped => all > OutputLimit)
         ELSE /\ Output(s).chars = Min({all, OutputLimit})
              /\ Output(s).whole \/ Bytes(text[s], all) > emitted[s]
              /\ Output(s).dropped <=> all > OutputLimit

(***************************************************************************)
(* The payload never waits for the host: a full output pipe is drained,    *)
(* also after the run has returned, and a payload that reads its input     *)
(* gets it or its end (no circular wait between the three pipes).          *)
(***************************************************************************)
HostNeverBlocksPayload ==
  /\ \A s \in Streams : pipe[s] = PipeBytes ~> pipe[s] < PipeBytes
  /\ stdin = 0 /\ feeder = "feeding" ~> stdin > 0 \/ feeder = "done"

(***************************************************************************)
(* run_bounded() returns, whatever the child and its children do.          *)
(***************************************************************************)
RunReturns == <>(main = "returned")

(***************************************************************************)
(* The claim of run_bounded(): at the deadline the child is killed "and    *)
(* whatever it emitted up to that point is returned" (up to the cap).      *)
(***************************************************************************)
EmittedIsReturned ==
  main = "returned" /\ returncode = "None" =>
    \A s \in Streams : data[s] >= Min({due[s], CaptureBytes})
=============================================================================
