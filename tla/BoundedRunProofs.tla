-------------------------- MODULE BoundedRunProofs --------------------------
(***************************************************************************)
(* Theorems about BoundedRun: for texts of any length and characters of    *)
(* any width, any limit, chunk, pipe and input, and any schedule of the    *)
(* payload, its children and the threads of the host: what is captured,    *)
(* that nobody waits in a circle, and that the caller's way is finite.     *)
(***************************************************************************)
EXTENDS BoundedRun, SumTheorems

(***************************************************************************)
(* The smaller of two numbers.                                             *)
(***************************************************************************)
LEMMA MinOfTwo ==
  ASSUME NEW a \in Int, NEW b \in Int
  PROVE  Min({a, b}) = IF a <= b THEN a ELSE b
<1>1. \E x \in {a, b} : \A y \in {a, b} : x <= y
  OBVIOUS
<1>2. PICK m : m = Min({a, b})
  OBVIOUS
<1>3. m \in {a, b} /\ \A y \in {a, b} : m <= y
  BY <1>1, <1>2 DEF Min
<1> QED
  BY <1>2, <1>3

(***************************************************************************)
(* Multiples of a number are ordered as its multipliers.                   *)
(***************************************************************************)
LEMMA Multiples ==
  ASSUME NEW k \in Nat, NEW l \in Nat, k <= l, NEW b \in Nat
  PROVE  k * b <= l * b /\ k * b \in Nat /\ l * b \in Nat
<1>1. PICK d \in Nat : l = k + d
  BY l - k \in Nat
<1>2. (k + d) * b = k * b + d * b
  OBVIOUS
<1>3. d * b \in Nat /\ k * b \in Nat
  OBVIOUS
<1> QED
  BY <1>1, <1>2, <1>3

(***************************************************************************)
(* The bytes of the first characters of a stream, one character after      *)
(* another.                                                                *)
(***************************************************************************)
LEMMA BytesStep ==
  ASSUME NEW t \in Seq(1..BytesPerChar)
  PROVE  /\ Bytes(t, 0) = 0
         /\ \A k \in 0..(Len(t) - 1) : Bytes(t, k + 1) = Bytes(t, k) + t[k + 1]
         /\ \A k \in 0..Len(t) : Bytes(t, k) \in Nat
<1> USE RunAssumption DEF RunAssumption
<1>1. \A k : Bytes(t, k) = Total(t, 1..k)
  BY DEF Bytes, Total
<1>2. \A i \in 1..Len(t) : t[i] \in Nat /\ t[i] \in Int
  OBVIOUS
<1>3. Bytes(t, 0) = 0
  <2>1. 1..0 = {}
    OBVIOUS
  <2> QED
    BY <1>1, <2>1, TotalEmpty
<1>4. ASSUME NEW k \in 0..(Len(t) - 1) PROVE Bytes(t, k + 1) = Bytes(t, k) + t[k + 1]
  <2>1. /\ 1..(k + 1) = (1..k) \cup {k + 1} /\ k + 1 \notin 1..k
        /\ \A i \in (1..k) \cup {k + 1} : i \in 1..Len(t)
    OBVIOUS
  <2>2. IsFiniteSet(1..k)
    BY FS_Interval
  <2>3. \A i \in (1..k) \cup {k + 1} : t[i] \in Int
    BY <1>2, <2>1
  <2>4. \A i \in 1..k : t[i] \in Int
    BY <2>3
  <2>5. Total(t, (1..k) \cup {k + 1}) = t[k + 1] + Total(t, 1..k)
    BY <2>1, <2>2, <2>3, TotalAdd
  <2>6. Total(t, 1..k) \in Int /\ t[k + 1] \in Int
    BY <2>2, <2>3, <2>4, TotalType
  <2>7. /\ Bytes(t, k + 1) = Total(t, 1..(k + 1)) /\ Bytes(t, k) = Total(t, 1..k)
        /\ Total(t, 1..(k + 1)) = Total(t, (1..k) \cup {k + 1})
    BY <1>1, <2>1
  <2> QED
    BY <2>5, <2>6, <2>7
<1>5. ASSUME NEW k \in 0..Len(t) PROVE Bytes(t, k) \in Nat
  <2>1. IsFiniteSet(1..k) /\ \A i \in 1..k : t[i] \in Nat
    BY <1>2, FS_Interval
  <2> QED
    BY <1>1, <2>1, TotalType
<1> QED
  BY <1>3, <1>4, <1>5

\* k characters have at most k * BytesPerChar bytes.
LEMMA BytesBound ==
  ASSUME NEW t \in Seq(1..BytesPerChar), NEW k \in 0..Len(t)
  PROVE  Bytes(t, k) <= k * BytesPerChar
<1> USE RunAssumption DEF RunAssumption
<1> DEFINE K == {j \in 0..Len(t) : ~(Bytes(t, j) <= j * BytesPerChar)}
<1> SUFFICES ASSUME K # {} PROVE FALSE
  OBVIOUS
<1>0. Len(t) \in Nat /\ BytesPerChar \in Nat
  OBVIOUS
<1>1. PICK m \in K : \A j \in K : m <= j
  <2>1. K \in SUBSET (0..Len(t))
    OBVIOUS
  <2> HIDE DEF K
  <2> QED
    BY <1>0, <2>1, LeastOf
<1>2. CASE m = 0
  BY <1>0, <1>1, <1>2, BytesStep
<1>3. CASE m # 0
  <2>1. PICK j \in 0..(Len(t) - 1) : m = j + 1
    BY <1>0, <1>1, <1>3, m - 1 \in 0..(Len(t) - 1)
  <2>2. j \in 0..Len(t) /\ j \notin K
    BY <1>0, <1>1, <2>1
  <2>3. Bytes(t, j) <= j * BytesPerChar /\ Bytes(t, j) \in Nat
    BY <2>2, BytesStep
  <2>4. Bytes(t, m) = Bytes(t, j) + t[j + 1]
    BY <2>1, BytesStep
  <2>5. t[j + 1] \in Nat /\ t[j + 1] <= BytesPerChar
    BY <2>1
  <2>6. m * BytesPerChar = j * BytesPerChar + BytesPerChar
    BY <1>0, <2>1
  <2>7. PICK p : p = j * BytesPerChar /\ p \in Nat
    BY <1>0, <2>1
  <2>8. Bytes(t, m) <= p + BytesPerChar
    <3>1. Bytes(t, j) <= p
      BY <2>3, <2>7
    <3>2. PICK x, y : x = Bytes(t, j) /\ y = t[j + 1]
      OBVIOUS
    <3>3. x \in Nat /\ y \in Nat /\ x <= p /\ y <= BytesPerChar
      BY <2>3, <2>5, <3>1, <3>2
    <3>4. Bytes(t, m) = x + y
      BY <2>4, <3>2
    <3>5. x + y <= p + BytesPerChar
      BY <1>0, <2>7, <3>3
    <3> QED
      BY <3>4, <3>5
  <2>9. Bytes(t, m) <= m * BytesPerChar
    BY <2>6, <2>7, <2>8
  <2> QED
    BY <1>1, <2>9
<1> QED
  BY <1>2, <1>3

(***************************************************************************)
(* The characters that n bytes decode to: as many as reach n bytes and no  *)
(* fewer do.                                                               *)
(***************************************************************************)
LEMMA CharsOf ==
  ASSUME NEW t \in Seq(1..BytesPerChar), NEW n \in Nat, n <= Bytes(t, Len(t))
  PROVE  /\ Chars(t, n) \in 0..Len(t)
         /\ Bytes(t, Chars(t, n)) >= n
         /\ \A j \in 0..(Chars(t, n) - 1) : Bytes(t, j) < n
<1> DEFINE K == {k \in 0..Len(t) : Bytes(t, k) >= n}
<1>1. Len(t) \in Nat /\ \A k \in 0..Len(t) : Bytes(t, k) \in Nat
  BY BytesStep
<1>2. PICK m \in K : \A k \in K : m <= k
  <2>1. K \in SUBSET (0..Len(t)) /\ K # {}
    BY <1>1
  <2> HIDE DEF K
  <2> QED
    BY <1>1, <2>1, LeastOf
<1>3. /\ m \in 0..Len(t) /\ Bytes(t, m) >= n
      /\ \A j \in 0..(m - 1) : Bytes(t, j) < n
  BY <1>1, <1>2
<1> QED
  BY <1>3 DEF Chars

\* More bytes never decode to fewer characters.
LEMMA CharsMonotone ==
  ASSUME NEW t \in Seq(1..BytesPerChar), NEW n \in Nat, NEW m \in Nat, n <= m,
         m <= Bytes(t, Len(t))
  PROVE  Chars(t, n) <= Chars(t, m)
<1>1. \A k \in 0..Len(t) : Bytes(t, k) \in Nat
  BY BytesStep
<1>2. n <= Bytes(t, Len(t))
  BY <1>1
<1>3. PICK c, d : c = Chars(t, n) /\ d = Chars(t, m)
  OBVIOUS
<1>4. /\ c \in 0..Len(t) /\ \A j \in 0..(c - 1) : Bytes(t, j) < n
      /\ d \in 0..Len(t) /\ Bytes(t, d) >= m
  BY <1>2, <1>3, CharsOf
<1>5. ~(d < c)
  BY <1>1, <1>4
<1> QED
  BY <1>3, <1>4, <1>5

-----------------------------------------------------------------------------
(***************************************************************************)
(* What a reader has taken of its stream in whole chunks, and how much of  *)
(* n bytes it keeps.                                                       *)
(***************************************************************************)
Taken(s) == emitted[s] - pipe[s] - chunk[s]

Cut(n) == IF n <= CaptureBytes THEN n ELSE CaptureBytes

Typed ==
  /\ TypeOK
  /\ emitted \in [Streams -> Nat]
  /\ text \in [Streams -> Seq(1..BytesPerChar)]

(***************************************************************************)
(* A stream: bytes are in the pipe, in the chunk or taken; of those taken  *)
(* the first CaptureBytes are kept, and the flag says if there were more.  *)
(* A reader ends when nobody can write any more.                           *)
(***************************************************************************)
StreamInv(s) ==
  /\ emitted[s] <= Bytes(text[s], Len(text[s]))
  /\ pipe[s] + chunk[s] <= emitted[s]
  /\ truncated[s] <=> Taken(s) > CaptureBytes
  /\ reader[s] # "kept" => kept[s] = Cut(Taken(s))
  /\ reader[s] = "kept" => /\ kept[s] = Cut(Taken(s) + chunk[s])
                           /\ room[s] = CaptureBytes - Cut(Taken(s))
  /\ reader[s] = "done" => chunk[s] = 0 /\ pipe[s] = 0 /\ ~PipesHeld

(***************************************************************************)
(* The report: what the caller knows of a stream at each point of its way. *)
(***************************************************************************)
PastJoin == [out |-> {"join_err", "data_out", "data_err", "flag_out", "flag_err", "returned"},
             err |-> {"data_out", "data_err", "flag_out", "flag_err", "returned"}]
PastData == [out |-> {"data_err", "flag_out", "flag_err", "returned"},
             err |-> {"flag_out", "flag_err", "returned"}]
PastFlag == [out |-> {"flag_err", "returned"}, err |-> {"returned"}]

ReportInv(s) ==
  /\ main \in PastJoin[s] /\ s \notin abandoned => reader[s] = "done"
  /\ main \in PastData[s] => /\ data[s] <= Cut(emitted[s])
                             /\ s \notin abandoned => data[s] = Cut(emitted[s])
  /\ main \in PastFlag[s] =>
       /\ flag[s] => emitted[s] > CaptureBytes
       /\ s \notin abandoned => (flag[s] <=> emitted[s] > CaptureBytes)

CallerInv ==
  /\ main = "wait" => child # "killed" /\ returncode = "unset"
  /\ returncode = "code" => child = "exited"

RunInv == Typed /\ CallerInv /\ \A s \in Streams : StreamInv(s) /\ ReportInv(s)

\* The cap is a number of bytes, and what is kept of a number is below both.
LEMMA CutType ==
  /\ CaptureBytes \in Nat /\ ChunkBytes \in Nat /\ PipeBytes \in Nat
  /\ \A n \in Nat : Cut(n) \in 0..CaptureBytes /\ Cut(n) <= n
<1>1. OutputLimit \in Nat /\ BytesPerChar \in Nat /\ ChunkBytes \in Nat /\ PipeBytes \in Nat
  BY RunAssumption DEF RunAssumption
<1>2. CaptureBytes \in Nat
  BY <1>1, Multiples DEF CaptureBytes, capture_bytes_for
<1> QED
  BY <1>1, <1>2 DEF Cut

(***************************************************************************)
(* A stream that a step does not touch is as it was, as long as nobody     *)
(* opens its pipe again.                                                   *)
(***************************************************************************)
LEMMA SameStream ==
  ASSUME NEW s \in Streams, StreamInv(s), text'[s] = text[s], emitted'[s] = emitted[s],
         pipe'[s] = pipe[s], chunk'[s] = chunk[s], reader'[s] = reader[s],
         room'[s] = room[s], kept'[s] = kept[s], truncated'[s] = truncated[s],
         PipesHeld' => PipesHeld
  PROVE  StreamInv(s)'
BY DEF StreamInv, Taken

\* The bytes of one stream as numbers.
LEMMA StreamTyped ==
  ASSUME Typed, NEW s \in Streams
  PROVE  /\ emitted[s] \in Nat /\ pipe[s] \in 0..PipeBytes /\ chunk[s] \in 0..ChunkBytes
         /\ kept[s] \in 0..CaptureBytes /\ room[s] \in 0..CaptureBytes
         /\ truncated[s] \in BOOLEAN /\ reader[s] \in {"reading", "kept", "done"}
BY DEF Typed, TypeOK

(***************************************************************************)
(* A reader's steps.  Its read moves bytes from the pipe to the chunk; a   *)
(* full chunk, or the last one, is kept up to the cap and then judged.     *)
(***************************************************************************)
LEMMA ReaderStep ==
  ASSUME Typed, NEW s \in Streams, StreamInv(s), Reader(s)
  PROVE  /\ StreamInv(s)'
         /\ \A r \in Streams \ {s} : StreamInv(r) => StreamInv(r)'
         /\ pipe' \in [Streams -> 0..PipeBytes] /\ chunk' \in [Streams -> 0..ChunkBytes]
         /\ kept' \in [Streams -> 0..CaptureBytes]
         /\ room' \in [Streams -> 0..CaptureBytes]
         /\ truncated' \in [Streams -> BOOLEAN]
         /\ reader' \in [Streams -> {"reading", "kept", "done"}]
<1>1. /\ emitted[s] \in Nat /\ pipe[s] \in 0..PipeBytes /\ chunk[s] \in 0..ChunkBytes
      /\ kept[s] \in 0..CaptureBytes /\ room[s] \in 0..CaptureBytes
      /\ CaptureBytes \in Nat /\ ChunkBytes \in Nat /\ PipeBytes \in Nat
      /\ pipe[s] + chunk[s] <= emitted[s]
  BY StreamTyped, CutType DEF StreamInv
<1>2. /\ pipe \in [Streams -> 0..PipeBytes] /\ chunk \in [Streams -> 0..ChunkBytes]
      /\ kept \in [Streams -> 0..CaptureBytes] /\ room \in [Streams -> 0..CaptureBytes]
      /\ truncated \in [Streams -> BOOLEAN]
      /\ reader \in [Streams -> {"reading", "kept", "done"}]
  BY DEF Typed, TypeOK
<1>3. /\ UNCHANGED <<text, emitted, child, orphan>> /\ PipesHeld' = PipesHeld
      /\ reader[s] \in {"reading", "kept"}
  BY DEF Reader, Read, Keep, Judge, EndOfFile, payloadVars, PipesHeld
<1>4. ASSUME NEW r \in Streams \ {s}
      PROVE  /\ pipe'[r] = pipe[r] /\ chunk'[r] = chunk[r] /\ kept'[r] = kept[r]
             /\ room'[r] = room[r] /\ truncated'[r] = truncated[r] /\ reader'[r] = reader[r]
  BY <1>2 DEF Reader, Read, Keep, Judge, EndOfFile
<1>5. ASSUME NEW r \in Streams \ {s}, StreamInv(r) PROVE StreamInv(r)'
  BY <1>3, <1>4, <1>5, SameStream
<1>6. CASE Read(s)
  <2>1. PICK n : n = Min({pipe[s], ChunkBytes - chunk[s]})
    OBVIOUS
  <2>2. n \in Nat /\ n <= pipe[s] /\ n <= ChunkBytes - chunk[s]
    BY <1>1, <2>1, MinOfTwo
  <2>3. /\ pipe' = [pipe EXCEPT ![s] = @ - n] /\ chunk' = [chunk EXCEPT ![s] = @ + n]
        /\ UNCHANGED <<reader, room, kept, truncated>> /\ reader[s] = "reading"
    BY <1>6, <2>1 DEF Read
  <2>4. /\ pipe'[s] = pipe[s] - n /\ chunk'[s] = chunk[s] + n
        /\ pipe[s] - n \in 0..PipeBytes /\ chunk[s] + n \in 0..ChunkBytes
    BY <1>1, <1>2, <2>2, <2>3
  <2>5. Taken(s)' = Taken(s)
    BY <1>1, <1>3, <2>2, <2>4 DEF Taken
  <2>6. StreamInv(s)'
    BY <1>1, <1>3, <2>2, <2>3, <2>4, <2>5 DEF StreamInv, Cut
  <2> QED
    BY <1>2, <1>5, <2>3, <2>4, <2>6
<1>7. CASE Keep(s)
  <2>1. PICK n : n = Min({chunk[s], CaptureBytes - kept[s]})
    OBVIOUS
  <2>2. n = IF chunk[s] <= CaptureBytes - kept[s] THEN chunk[s] ELSE CaptureBytes - kept[s]
    BY <1>1, <2>1, MinOfTwo
  <2>3. /\ room' = [room EXCEPT ![s] = CaptureBytes - kept[s]]
        /\ kept' = [kept EXCEPT ![s] = @ + n]
        /\ reader' = [reader EXCEPT ![s] = "kept"] /\ reader[s] = "reading"
        /\ UNCHANGED <<pipe, chunk, truncated>>
    BY <1>7, <2>1 DEF Keep
  <2>4. /\ room'[s] = CaptureBytes - kept[s] /\ kept'[s] = kept[s] + n /\ reader'[s] = "kept"
        /\ CaptureBytes - kept[s] \in 0..CaptureBytes /\ kept[s] + n \in 0..CaptureBytes
    BY <1>1, <1>2, <2>2, <2>3
  <2>5. Taken(s)' = Taken(s) /\ Taken(s) \in Nat /\ kept[s] = Cut(Taken(s))
    BY <1>1, <1>3, <2>3 DEF Taken, StreamInv
  <2>6. kept[s] + n = Cut(Taken(s) + chunk[s])
    BY <1>1, <2>2, <2>5 DEF Cut
  <2>7. StreamInv(s)'
    BY <1>1, <1>3, <2>3, <2>4, <2>5, <2>6 DEF StreamInv, Cut
  <2> QED
    BY <1>2, <1>5, <2>3, <2>4, <2>7
<1>8. CASE Judge(s)
  <2>1. /\ truncated' = [truncated EXCEPT ![s] = @ \/ chunk[s] > room[s]]
        /\ chunk' = [chunk EXCEPT ![s] = 0] /\ room' = [room EXCEPT ![s] = 0]
        /\ reader' = [reader EXCEPT ![s] = "reading"] /\ reader[s] = "kept"
        /\ UNCHANGED <<pipe, kept>>
    BY <1>8 DEF Judge
  <2>2. /\ truncated'[s] <=> (truncated[s] \/ chunk[s] > room[s])
        /\ chunk'[s] = 0 /\ room'[s] = 0 /\ reader'[s] = "reading"
    BY <1>2, <2>1
  <2>3. /\ Taken(s)' = Taken(s) + chunk[s] /\ Taken(s) \in Nat
    BY <1>1, <1>3, <2>1, <2>2 DEF Taken
  <2>4. (truncated[s] \/ chunk[s] > room[s]) <=> Taken(s) + chunk[s] > CaptureBytes
    BY <1>1, <2>1, <2>3 DEF StreamInv, Cut
  <2>5. StreamInv(s)'
    BY <1>1, <1>3, <2>1, <2>2, <2>3, <2>4 DEF StreamInv, Cut
  <2>6. truncated' \in [Streams -> BOOLEAN]
    BY <1>2, <2>1
  <2> QED
    BY <1>1, <1>2, <1>5, <2>1, <2>5, <2>6
<1>9. CASE EndOfFile(s)
  <2>1. /\ reader' = [reader EXCEPT ![s] = "done"] /\ reader[s] = "reading"
        /\ chunk[s] = 0 /\ pipe[s] = 0 /\ ~PipesHeld
        /\ UNCHANGED <<pipe, chunk, room, kept, truncated>>
    BY <1>9 DEF EndOfFile, AtEnd
  <2>2. reader'[s] = "done" /\ Taken(s)' = Taken(s)
    BY <1>2, <1>3, <2>1 DEF Taken
  <2>3. StreamInv(s)'
    BY <1>1, <1>3, <2>1, <2>2 DEF StreamInv, Cut
  <2> QED
    BY <1>2, <1>5, <2>1, <2>3
<1> QED
  BY <1>6, <1>7, <1>8, <1>9 DEF Reader
(***************************************************************************)
(* The payload may still write to an open pipe, and no other step of it    *)
(* touches a stream.  What it writes is not the report's.                  *)
(***************************************************************************)
LEMMA PayloadStep ==
  ASSUME Typed, NEW s \in Streams, StreamInv(s), Payload
  PROVE  /\ StreamInv(s)' /\ emitted' \in [Streams -> Nat] /\ emitted[s] <= emitted'[s]
         /\ pipe' \in [Streams -> 0..PipeBytes]
         /\ UNCHANGED readerVars /\ UNCHANGED mainVars /\ UNCHANGED <<text, feeder, fed>>
         /\ reader[s] = "done" => emitted'[s] = emitted[s]
<1> USE DEF payloadVars, inputVars, readerVars, mainVars
<1>1. /\ emitted \in [Streams -> Nat] /\ pipe \in [Streams -> 0..PipeBytes]
      /\ PipeBytes \in Nat /\ chunk[s] \in Nat
      /\ Bytes(text[s], Len(text[s])) \in Nat
  <2>1. PICK t : t = text[s]
    OBVIOUS
  <2>2. t \in Seq(1..BytesPerChar)
    BY <2>1 DEF Typed
  <2>3. Len(t) \in 0..Len(t)
    BY <2>2
  <2>4. Bytes(t, Len(t)) \in Nat
    BY <2>2, <2>3, BytesStep
  <2>5. PipeBytes \in Nat /\ ChunkBytes \in Nat
    BY CutType
  <2>6. chunk[s] \in 0..ChunkBytes
    BY StreamTyped
  <2>7. chunk[s] \in Nat
    BY <2>5, <2>6
  <2> QED
    BY <2>1, <2>4, <2>5, <2>7 DEF Typed, TypeOK
<1>2. CASE TakeInput \/ Fork \/ Exit
  <2>1. /\ UNCHANGED <<text, emitted, pipe, feeder, fed>>
        /\ UNCHANGED readerVars /\ UNCHANGED mainVars
        /\ PipesHeld' => PipesHeld
    BY <1>2 DEF TakeInput, Fork, Exit, PipesHeld
  <2> QED
    BY <1>1, <2>1, SameStream
<1>3. ASSUME NEW r \in Streams, Emit(r)
      PROVE  /\ StreamInv(s)' /\ emitted' \in [Streams -> Nat] /\ emitted[s] <= emitted'[s]
             /\ pipe' \in [Streams -> 0..PipeBytes]
             /\ UNCHANGED readerVars /\ UNCHANGED mainVars /\ UNCHANGED <<text, feeder, fed>>
             /\ reader[s] = "done" => emitted'[s] = emitted[s]
  <2>1. /\ emitted' = [emitted EXCEPT ![r] = @ + 1] /\ pipe' = [pipe EXCEPT ![r] = @ + 1]
        /\ UNCHANGED <<text, child, orphan, feeder, fed>>
        /\ UNCHANGED readerVars /\ UNCHANGED mainVars
        /\ emitted[r] < Bytes(text[r], Len(text[r])) /\ pipe[r] < PipeBytes
        /\ PipesHeld /\ PipesHeld' = PipesHeld
    BY <1>3 DEF Emit, PipesHeld
  <2>2. emitted' \in [Streams -> Nat] /\ pipe' \in [Streams -> 0..PipeBytes]
    BY <1>1, <2>1
  <2>3. reader[s] # "done"
    BY <2>1 DEF StreamInv
  <2>4. CASE s # r
    <3>1. emitted'[s] = emitted[s] /\ pipe'[s] = pipe[s]
      BY <1>1, <2>1, <2>4
    <3> QED
      BY <1>1, <2>1, <2>2, <3>1, SameStream
  <2>5. CASE s = r
    <3>1. emitted'[s] = emitted[s] + 1 /\ pipe'[s] = pipe[s] + 1
      BY <1>1, <2>1, <2>5
    <3>2. emitted[s] \in Nat /\ pipe[s] \in Nat /\ emitted[s] < Bytes(text[s], Len(text[s]))
      BY <1>1, <2>1, <2>5
    <3>3. Taken(s)' = Taken(s)
      BY <1>1, <2>1, <3>1, <3>2 DEF Taken
    <3>4. StreamInv(s)'
      BY <1>1, <2>1, <2>3, <3>1, <3>2, <3>3 DEF StreamInv, Cut
    <3> QED
      BY <1>1, <2>1, <2>2, <2>3, <3>1, <3>2, <3>4
  <2> QED
    BY <2>4, <2>5
<1> QED
  BY <1>2, <1>3 DEF Payload

(***************************************************************************)
(* The report of a stream stands while the payload and the readers go on:  *)
(* its reader has ended, or it is abandoned and can only be given more.    *)
(***************************************************************************)
LEMMA SameReport ==
  ASSUME Typed, NEW s \in Streams, ReportInv(s), UNCHANGED mainVars,
         emitted'[s] \in Nat, emitted[s] <= emitted'[s],
         reader[s] = "done" => reader'[s] = "done" /\ emitted'[s] = emitted[s]
  PROVE  ReportInv(s)'
<1>1. /\ UNCHANGED <<main, abandoned, data, flag>> /\ emitted[s] \in Nat
      /\ CaptureBytes \in Nat /\ data[s] \in Nat
  BY CutType, StreamTyped DEF mainVars, Typed, TypeOK
<1>2. Cut(emitted[s]) <= Cut(emitted'[s]) /\ Cut(emitted[s]) \in Nat /\ Cut(emitted'[s]) \in Nat
  BY <1>1 DEF Cut
<1>3. main \in PastData[s] => main \in PastJoin[s]
  BY DEF PastData, PastJoin, Streams
<1>4. main \in PastFlag[s] => main \in PastJoin[s]
  BY DEF PastFlag, PastJoin, Streams
<1>5. s \notin abandoned /\ main \in PastJoin[s] => /\ reader'[s] = "done"
                                                    /\ emitted'[s] = emitted[s]
  BY DEF ReportInv
<1>6. CASE s \notin abandoned /\ main \in PastJoin[s]
  BY <1>1, <1>5, <1>6 DEF ReportInv, Cut
<1>7. CASE main \notin PastJoin[s]
  BY <1>1, <1>3, <1>4, <1>7 DEF ReportInv
<1>8. CASE s \in abandoned
  <2>1. main \in PastData[s] => data[s] <= Cut(emitted'[s])
    BY <1>1, <1>2, <1>8 DEF ReportInv
  <2>2. main \in PastFlag[s] /\ flag[s] => emitted'[s] > CaptureBytes
    BY <1>1, <1>8 DEF ReportInv
  <2> QED
    BY <1>1, <1>8, <2>1, <2>2 DEF ReportInv, Cut
<1> QED
  BY <1>6, <1>7, <1>8

(***************************************************************************)
(* The caller's steps leave the streams alone.  A joined reader has ended, *)
(* so what it kept, and its flag, are of all that was emitted; what is     *)
(* read of another is of a part of it.                                     *)
(***************************************************************************)
LEMMA CallerStep ==
  ASSUME RunInv, Caller
  PROVE  RunInv'
<1> USE DEF payloadVars, inputVars, readerVars, mainVars
<1>1. /\ TypeOK /\ Typed /\ CallerInv
      /\ \A s \in Streams : StreamInv(s) /\ ReportInv(s)
  BY DEF RunInv, Typed
<1>2. /\ UNCHANGED <<text, orphan, emitted, pipe>> /\ UNCHANGED inputVars
      /\ UNCHANGED readerVars
      /\ PipesHeld' => PipesHeld
  BY DEF Caller, Wait, Deadline, Join, Collect, PipesHeld
<1>3. \A s \in Streams : StreamInv(s)'
  BY <1>1, <1>2, SameStream
<1>4. ASSUME NEW s \in Streams
      PROVE  /\ emitted[s] \in Nat /\ CaptureBytes \in Nat
             /\ kept[s] <= Cut(emitted[s]) /\ kept[s] \in 0..CaptureBytes
             /\ truncated[s] => emitted[s] > CaptureBytes
             /\ reader[s] = "done" => /\ kept[s] = Cut(emitted[s])
                                      /\ truncated[s] <=> emitted[s] > CaptureBytes
             /\ truncated[s] \in BOOLEAN
  <2>1. /\ emitted[s] \in Nat /\ pipe[s] \in Nat /\ chunk[s] \in Nat /\ StreamInv(s)
        /\ reader[s] \in {"reading", "kept", "done"} /\ truncated[s] \in BOOLEAN
        /\ kept[s] \in 0..CaptureBytes /\ CaptureBytes \in Nat
    BY <1>1, StreamTyped, CutType
  <2>2. PICK a : a = Taken(s) /\ a \in Nat /\ a + chunk[s] <= emitted[s]
                 /\ (pipe[s] = 0 /\ chunk[s] = 0 => a = emitted[s])
    BY <2>1 DEF Taken, StreamInv
  <2> QED
    BY <2>1, <2>2 DEF StreamInv, Cut
<1>5. CASE Wait \/ Deadline
  <2>1. /\ main = "wait" /\ main' = "join_out" /\ UNCHANGED <<abandoned, data, flag>>
        /\ returncode' \in {"code", "None"} /\ child' \in {"running", "exited", "killed"}
        /\ returncode' = "code" => child' = "exited"
    BY <1>1, <1>5 DEF Wait, Deadline, CallerInv, TypeOK
  <2>2. Typed'
    BY <1>1, <1>2, <2>1 DEF Typed, TypeOK, Following
  <2>3. \A s \in Streams : ReportInv(s)'
    BY <2>1 DEF ReportInv, PastJoin, PastData, PastFlag, Streams
  <2> QED
    BY <1>3, <2>1, <2>2, <2>3 DEF RunInv, CallerInv
<1>6. ASSUME NEW r \in Streams, Join(r) PROVE RunInv'
  <2>1. /\ main = JoinOf[r] /\ main' = Following[main]
        /\ UNCHANGED <<data, flag, returncode, child>>
        /\ \/ reader[r] = "done" /\ UNCHANGED abandoned
           \/ abandoned' = abandoned \cup {r}
    BY <1>6 DEF Join
  <2>2. main' \in {"join_err", "data_out"} /\ main \in {"join_out", "join_err"}
    BY <2>1 DEF JoinOf, Following, Streams
  <2>3. Typed'
    BY <1>1, <1>2, <2>1, <2>2 DEF Typed, TypeOK, Following
  <2>4. ASSUME NEW s \in Streams PROVE ReportInv(s)'
    <3>1. main' \notin PastData[s] /\ main' \notin PastFlag[s]
      BY <2>2 DEF PastData, PastFlag, Streams
    <3>2. main' \in PastJoin[s] => s = r \/ main \in PastJoin[s]
      BY <2>1 DEF PastJoin, JoinOf, Following, Streams
    <3> QED
      BY <1>1, <1>2, <2>1, <3>1, <3>2 DEF ReportInv
  <2> QED
    BY <1>1, <1>3, <2>1, <2>2, <2>3, <2>4 DEF RunInv, CallerInv
<1>7. ASSUME NEW r \in Streams, Collect(r) PROVE RunInv'
  <2>1. /\ main' = Following[main] /\ UNCHANGED <<abandoned, returncode, child>>
        /\ \/ /\ main = DataOf[r] /\ data' = [data EXCEPT ![r] = kept[r]]
              /\ UNCHANGED flag
           \/ /\ main = FlagOf[r] /\ flag' = [flag EXCEPT ![r] = truncated[r]]
              /\ UNCHANGED data
    BY <1>7 DEF Collect
  <2>2. main' \in {"data_err", "flag_out", "flag_err", "returned"} /\ main # "wait"
    BY <2>1 DEF DataOf, FlagOf, Following, Streams
  <2>3. Typed'
    <3>1. data' \in [Streams -> 0..CaptureBytes] /\ flag' \in [Streams -> BOOLEAN]
      BY <1>1, <1>4, <2>1 DEF TypeOK
    <3> QED
      BY <1>1, <1>2, <2>1, <2>2, <3>1 DEF Typed, TypeOK, Following
  <2>4. ASSUME NEW s \in Streams PROVE ReportInv(s)'
    <3>1. main' \in PastJoin[s] /\ main \in PastJoin[s]
      BY <2>1 DEF PastJoin, DataOf, FlagOf, Following, Streams
    <3>2. s \notin abandoned => reader[s] = "done"
      BY <1>1, <3>1 DEF ReportInv
    <3>3. CASE main = DataOf[r]
      <4>1. /\ main' \in PastData[s] => s = r \/ main \in PastData[s]
            /\ main' \in PastFlag[s] => FALSE
        BY <2>1, <3>3 DEF PastData, PastFlag, DataOf, Following, Streams
      <4>2. data' = [data EXCEPT ![r] = kept[r]]
        BY <2>1, <3>3 DEF DataOf, FlagOf, Streams
      <4>3. s = r => data'[s] = kept[s]
        BY <1>1, <4>2 DEF TypeOK
      <4>4. s # r => data'[s] = data[s]
        BY <1>1, <4>2 DEF TypeOK
      <4>5. main' \in PastData[s] => /\ data'[s] <= Cut(emitted[s])
                                     /\ s \notin abandoned => data'[s] = Cut(emitted[s])
        BY <1>1, <1>4, <3>2, <4>1, <4>3, <4>4 DEF ReportInv
      <4> QED
        BY <1>2, <2>1, <3>2, <4>1, <4>5 DEF ReportInv, Cut
    <3>4. CASE main = FlagOf[r]
      <4>1. /\ main' \in PastFlag[s] => s = r \/ main \in PastFlag[s]
            /\ main \in PastData[s]
        BY <2>1, <3>4 DEF PastData, PastFlag, FlagOf, Following, Streams
      <4>2. flag' = [flag EXCEPT ![r] = truncated[r]] /\ UNCHANGED data
        BY <2>1, <3>4 DEF DataOf, FlagOf, Streams
      <4>3. s = r => flag'[s] = truncated[s]
        BY <1>1, <4>2 DEF TypeOK
      <4>4. s # r => flag'[s] = flag[s]
        BY <1>1, <4>2 DEF TypeOK
      <4>5. main' \in PastFlag[s] =>
              /\ flag'[s] => emitted[s] > CaptureBytes
              /\ s \notin abandoned => (flag'[s] <=> emitted[s] > CaptureBytes)
        BY <1>1, <1>4, <3>2, <4>1, <4>3, <4>4 DEF ReportInv
      <4> QED
        BY <1>1, <1>2, <2>1, <3>2, <4>1, <4>2, <4>5 DEF ReportInv, Cut
    <3> QED
      BY <2>1, <3>3, <3>4
  <2> QED
    BY <1>1, <1>3, <2>1, <2>2, <2>3, <2>4 DEF RunInv, CallerInv
<1> QED
  BY <1>5, <1>6, <1>7 DEF Caller
\* A run starts with nothing emitted, read or reported.
LEMMA RunInit == Init => RunInv
<1> SUFFICES ASSUME Init PROVE RunInv
  OBVIOUS
<1>1. text \in [Streams -> Seq(1..BytesPerChar)]
  BY RunAssumption DEF RunAssumption, Init
<1>2. PipeBytes \in Nat /\ ChunkBytes \in Nat /\ CaptureBytes \in Nat /\ InputBytes \in Nat
  BY CutType, RunAssumption DEF RunAssumption
<1>3. Typed
  BY <1>1, <1>2 DEF Typed, TypeOK, Init, Zero
<1>4. ASSUME NEW s \in Streams PROVE StreamInv(s) /\ ReportInv(s)
  <2>1. text[s] \in Seq(1..BytesPerChar) /\ Len(text[s]) \in 0..Len(text[s])
    BY <1>1
  <2>2. Bytes(text[s], Len(text[s])) \in Nat
    BY <2>1, BytesStep
  <2>3. /\ emitted[s] = 0 /\ pipe[s] = 0 /\ chunk[s] = 0 /\ kept[s] = 0
        /\ truncated[s] = FALSE /\ reader[s] = "reading"
    BY DEF Init, Zero
  <2>4. Taken(s) = 0 /\ Cut(0) = 0
    BY <1>2, <2>3 DEF Taken, Cut
  <2>5. StreamInv(s)
    BY <1>2, <2>2, <2>3, <2>4 DEF StreamInv
  <2>6. ReportInv(s)
    BY DEF Init, ReportInv, PastJoin, PastData, PastFlag, Streams
  <2> QED
    BY <2>5, <2>6
<1> QED
  BY <1>3, <1>4 DEF RunInv, CallerInv, Init

\* Every step of the payload, the host's threads and the caller keeps it.
LEMMA RunStep == RunInv /\ [Next]_vars => RunInv'
<1> SUFFICES ASSUME RunInv, [Next]_vars PROVE RunInv'
  OBVIOUS
<1> USE DEF payloadVars, inputVars, readerVars, mainVars
<1>1. /\ TypeOK /\ Typed /\ CallerInv
      /\ \A s \in Streams : StreamInv(s) /\ ReportInv(s) /\ emitted[s] \in Nat
  BY StreamTyped DEF RunInv, Typed
<1>2. CASE Payload
  <2>0. "out" \in Streams
    BY DEF Streams
  <2>1. ASSUME NEW s \in Streams
        PROVE  /\ StreamInv(s)' /\ emitted' \in [Streams -> Nat] /\ emitted[s] <= emitted'[s]
               /\ pipe' \in [Streams -> 0..PipeBytes]
               /\ UNCHANGED readerVars /\ UNCHANGED mainVars /\ UNCHANGED <<text, feeder, fed>>
               /\ reader[s] = "done" => emitted'[s] = emitted[s]
    BY <1>1, <1>2, PayloadStep
  <2>2. \A s \in Streams : ReportInv(s)'
    <3>1. ASSUME NEW s \in Streams PROVE ReportInv(s)'
      <4>1. emitted'[s] \in Nat /\ (reader[s] = "done" => reader'[s] = "done")
        BY <2>1
      <4> QED
        BY <1>1, <2>1, <4>1, SameReport
    <3> QED
      BY <3>1
  <2>3. /\ child' \in {"running", "exited", "killed"} /\ orphan' \in {"none", "running", "exited"}
        /\ stdin' \in 0..PipeBytes
        /\ child = "exited" => child' = "exited"
        /\ child # "killed" => child' # "killed"
    <3>1. /\ child \in {"running", "exited", "killed"}
          /\ orphan \in {"none", "running", "exited"} /\ stdin \in 0..PipeBytes
      BY <1>1 DEF TypeOK
    <3>2. CASE \E s \in Streams : Emit(s)
      BY <3>1, <3>2 DEF Emit
    <3>3. CASE TakeInput
      <4>1. stdin - 1 \in 0..PipeBytes
        BY <3>1, <3>3, CutType DEF TakeInput
      <4> QED
        BY <3>1, <3>3, <4>1 DEF TakeInput
    <3>4. CASE Fork
      BY <3>1, <3>4 DEF Fork
    <3>5. CASE Exit
      BY <3>1, <3>5 DEF Exit
    <3> QED
      BY <1>2, <3>2, <3>3, <3>4, <3>5 DEF Payload
  <2>4. Typed'
    BY <1>1, <2>0, <2>1, <2>3 DEF Typed, TypeOK
  <2>5. CallerInv'
    BY <1>1, <2>0, <2>1, <2>3 DEF CallerInv
  <2> QED
    BY <2>1, <2>2, <2>4, <2>5 DEF RunInv
<1>3. CASE _feed
  <2>1. /\ UNCHANGED <<text, child, orphan, emitted, pipe>> /\ UNCHANGED readerVars
        /\ UNCHANGED mainVars /\ PipesHeld' = PipesHeld
        /\ stdin' \in 0..PipeBytes /\ fed' \in 0..InputBytes /\ feeder' \in {"feeding", "done"}
    <3>1. /\ stdin \in 0..PipeBytes /\ fed \in 0..InputBytes /\ feeder \in {"feeding", "done"}
      BY <1>1 DEF TypeOK
    <3>2. /\ stdin < PipeBytes => stdin + 1 \in 0..PipeBytes
          /\ fed < InputBytes => fed + 1 \in 0..InputBytes
      <4>1. PipeBytes \in Nat /\ InputBytes \in Nat
        BY CutType, RunAssumption DEF RunAssumption
      <4> QED
        BY <3>1, <4>1
    <3>3. /\ UNCHANGED <<text, child, orphan, emitted, pipe>> /\ UNCHANGED readerVars
          /\ UNCHANGED mainVars
      BY <1>3 DEF _feed
    <3>4. PipesHeld' = PipesHeld
      BY <3>3 DEF PipesHeld
    <3>5. stdin' \in 0..PipeBytes /\ fed' \in 0..InputBytes /\ feeder' \in {"feeding", "done"}
      BY <1>3, <3>1, <3>2 DEF _feed
    <3> QED
      BY <3>3, <3>4, <3>5
  <2>2. \A s \in Streams : StreamInv(s)'
    BY <1>1, <2>1, SameStream
  <2>3. \A s \in Streams : ReportInv(s)'
    BY <1>1, <2>1, SameReport
  <2>4. Typed' /\ CallerInv'
    BY <1>1, <2>1 DEF Typed, TypeOK, CallerInv
  <2> QED
    BY <2>2, <2>3, <2>4 DEF RunInv
<1>4. ASSUME NEW r \in Streams, Reader(r) PROVE RunInv'
  <2>1. /\ UNCHANGED <<text, child, orphan, emitted>> /\ UNCHANGED inputVars
        /\ UNCHANGED mainVars /\ reader[r] # "done"
    BY <1>4 DEF Reader, Read, Keep, Judge, EndOfFile
  <2>2. /\ \A s \in Streams : StreamInv(s)'
        /\ pipe' \in [Streams -> 0..PipeBytes] /\ chunk' \in [Streams -> 0..ChunkBytes]
        /\ kept' \in [Streams -> 0..CaptureBytes]
        /\ room' \in [Streams -> 0..CaptureBytes]
        /\ truncated' \in [Streams -> BOOLEAN]
        /\ reader' \in [Streams -> {"reading", "kept", "done"}]
    BY <1>1, <1>4, ReaderStep
  <2>3. ASSUME NEW s \in Streams PROVE ReportInv(s)'
    <3>1. reader[s] = "done" => reader'[s] = "done"
      <4>1. reader \in [Streams -> {"reading", "kept", "done"}]
        BY <1>1 DEF TypeOK
      <4> QED
        BY <1>4, <2>1, <4>1 DEF Reader, Read, Keep, Judge, EndOfFile
    <3> QED
      BY <1>1, <2>1, <3>1, SameReport
  <2>4. Typed' /\ CallerInv'
    BY <1>1, <2>1, <2>2 DEF Typed, TypeOK, CallerInv
  <2> QED
    BY <2>2, <2>3, <2>4 DEF RunInv
<1>5. CASE Returned \/ UNCHANGED vars
  <2>1. UNCHANGED vars
    BY <1>5 DEF Returned
  <2> QED
    BY <2>1 DEF vars, RunInv, Typed, TypeOK, CallerInv, StreamInv, ReportInv, Taken, PipesHeld
<1> QED
  BY <1>2, <1>3, <1>4, <1>5, CallerStep DEF Next

\* The run's invariant holds of every run.
LEMMA RunInductive == Spec => []RunInv
BY RunInit, RunStep, PTL DEF Spec

(***************************************************************************)
(* TypeOK: whatever the payload prints, run_bounded() holds at most the    *)
(* cap and one chunk of each stream.                                       *)
(***************************************************************************)
THEOREM RunTypeCorrect == Spec => []TypeOK
<1>1. RunInv => TypeOK
  BY DEF RunInv, Typed
<1> QED
  BY <1>1, RunInductive, PTL

(***************************************************************************)
(* capture_bytes_for() asks for enough: what is kept of n bytes shows the  *)
(* first OutputLimit characters, whole, and too few characters only where  *)
(* there were no more.                                                     *)
(***************************************************************************)
LEMMA CapSuffices ==
  ASSUME NEW t \in Seq(1..BytesPerChar), NEW n \in Nat, n <= Bytes(t, Len(t)),
         n > CaptureBytes
  PROVE  /\ Chars(t, n) > OutputLimit
         /\ Chars(t, CaptureBytes) >= OutputLimit
         /\ Bytes(t, OutputLimit) <= CaptureBytes
<1>1. /\ OutputLimit \in Nat /\ BytesPerChar \in Nat /\ BytesPerChar > 0
      /\ CaptureBytes = OutputLimit * BytesPerChar /\ CaptureBytes \in Nat
  BY CutType, RunAssumption DEF RunAssumption, CaptureBytes, capture_bytes_for
<1>2. /\ Len(t) \in Nat /\ \A k \in 0..Len(t) : Bytes(t, k) \in Nat
  BY BytesStep
<1>3. CaptureBytes <= Bytes(t, Len(t))
  BY <1>1, <1>2
<1>4. ASSUME NEW k \in 0..Len(t), k <= OutputLimit PROVE Bytes(t, k) <= CaptureBytes
  <2>1. k \in Nat
    BY <1>2
  <2>2. k * BytesPerChar <= OutputLimit * BytesPerChar /\ k * BytesPerChar \in Nat
    BY <1>1, <1>4, <2>1, Multiples
  <2>3. Bytes(t, k) <= k * BytesPerChar /\ Bytes(t, k) \in Nat
    BY <1>2, BytesBound
  <2>4. PICK p, x : p = k * BytesPerChar /\ x = Bytes(t, k)
    OBVIOUS
  <2>5. p <= CaptureBytes /\ p \in Nat /\ x <= p /\ x \in Nat
    BY <1>1, <2>2, <2>3, <2>4
  <2>6. x <= CaptureBytes
    BY <1>1, <2>5
  <2> QED
    BY <2>4, <2>6
<1>5. Chars(t, n) > OutputLimit
  <2>1. PICK c : c = Chars(t, n) /\ c \in 0..Len(t) /\ Bytes(t, c) >= n
    BY CharsOf
  <2> QED
    BY <1>1, <1>2, <1>4, <2>1
<1>6. Chars(t, CaptureBytes) >= OutputLimit
  <2>1. PICK c : c = Chars(t, CaptureBytes) /\ c \in 0..Len(t) /\ Bytes(t, c) >= CaptureBytes
    BY <1>1, <1>3, CharsOf
  <2>2. SUFFICES ASSUME c + 1 <= OutputLimit PROVE FALSE
    BY <1>1, <2>1
  <2>3. (c + 1) * BytesPerChar <= CaptureBytes
    <3>1. c + 1 \in Nat
      BY <1>2, <2>1
    <3>2. (c + 1) * BytesPerChar <= OutputLimit * BytesPerChar
      BY <1>1, <2>2, <3>1, Multiples
    <3> QED
      BY <1>1, <3>2
  <2>4. (c + 1) * BytesPerChar = c * BytesPerChar + BytesPerChar /\ c * BytesPerChar \in Nat
    BY <1>1, <2>1
  <2>5. Bytes(t, c) <= c * BytesPerChar /\ Bytes(t, c) \in Nat
    BY <1>2, <2>1, BytesBound
  <2> QED
    BY <1>1, <2>1, <2>3, <2>4, <2>5
<1>7. OutputLimit \in 0..Len(t)
  BY <1>1, <1>2, <1>5, CharsOf
<1> QED
  BY <1>1, <1>4, <1>5, <1>6, <1>7

(***************************************************************************)
(* CaptureExact: what the executors report of a joined stream is its first *)
(* output_limit_chars characters, whole, flagged exactly if there were     *)
(* more; of an abandoned one a prefix.  A returned code is the child's.    *)
(***************************************************************************)
THEOREM CaptureIsExact == Spec => []CaptureExact
<1>1. RunInv => CaptureExact
  <2> SUFFICES ASSUME RunInv, main = "returned" PROVE CaptureExact
    BY DEF CaptureExact
  <2>1. returncode = "code" => child = "exited"
    BY DEF RunInv, CallerInv
  <2>2. ASSUME NEW s \in Streams
        PROVE  LET all == Chars(text[s], emitted[s]) IN
               IF s \in abandoned
               THEN Output(s).chars <= all /\ (Output(s).dropped => all > OutputLimit)
               ELSE /\ Output(s).chars = Min({all, OutputLimit})
                    /\ Output(s).whole \/ Bytes(text[s], all) > emitted[s]
                    /\ Output(s).dropped <=> all > OutputLimit
    <3>1. PICK t, n, d : t = text[s] /\ n = emitted[s] /\ d = data[s]
      OBVIOUS
    <3>2. /\ t \in Seq(1..BytesPerChar) /\ n \in Nat /\ d \in 0..CaptureBytes
          /\ n <= Bytes(t, Len(t)) /\ flag[s] \in BOOLEAN
      BY <3>1 DEF RunInv, Typed, TypeOK, StreamInv
    <3>3. /\ d <= Cut(n) /\ (flag[s] => n > CaptureBytes)
          /\ s \notin abandoned => d = Cut(n) /\ (flag[s] <=> n > CaptureBytes)
      BY <3>1 DEF RunInv, ReportInv, PastData, PastFlag, Streams
    <3>4. /\ CaptureBytes \in Nat /\ OutputLimit \in Nat /\ d \in Nat /\ d <= n
          /\ Len(t) \in Nat /\ \A k \in 0..Len(t) : Bytes(t, k) \in Nat
      BY <3>2, <3>3, CutType, BytesStep, RunAssumption DEF RunAssumption, Cut
    <3>5. PICK all, got : all = Chars(t, n) /\ got = Chars(t, d)
      OBVIOUS
    <3>6. d <= Bytes(t, Len(t))
      BY <3>2, <3>4
    <3>7. /\ all \in 0..Len(t) /\ got \in 0..Len(t) /\ got <= all
          /\ \A j \in 0..(all - 1) : Bytes(t, j) < n
      BY <3>2, <3>4, <3>5, <3>6, CharsOf, CharsMonotone
    <3>8. PICK shown : shown = Min({got, OutputLimit})
      OBVIOUS
    <3>9. shown = (IF got <= OutputLimit THEN got ELSE OutputLimit)
          /\ Min({all, OutputLimit}) = (IF all <= OutputLimit THEN all ELSE OutputLimit)
      BY <3>4, <3>7, <3>8, MinOfTwo
    <3>10. /\ Output(s).chars = shown
           /\ Output(s).whole <=> Bytes(t, shown) <= d
           /\ Output(s).dropped <=> flag[s] \/ got > OutputLimit
      BY <3>1, <3>5, <3>8 DEF Output, decode_captured
    <3>11. n > CaptureBytes => /\ all > OutputLimit /\ Bytes(t, OutputLimit) <= CaptureBytes
                               /\ Chars(t, CaptureBytes) >= OutputLimit
      BY <3>2, <3>5, CapSuffices
    <3>12. CASE s \in abandoned
      BY <3>1, <3>3, <3>4, <3>5, <3>7, <3>9, <3>10, <3>11, <3>12
    <3>13. CASE s \notin abandoned /\ n <= CaptureBytes
      <4>1. d = n /\ got = all /\ ~flag[s]
        BY <3>3, <3>4, <3>5, <3>13 DEF Cut
      <4>2. Bytes(t, shown) <= d \/ Bytes(t, all) > n
        <5>1. CASE shown = all
          BY <3>4, <3>7, <4>1, <5>1, <3>2
        <5>2. CASE shown # all
          BY <3>4, <3>7, <3>9, <4>1, <5>2, shown \in 0..(all - 1)
        <5> QED
          BY <5>1, <5>2
      <4> QED
        BY <3>1, <3>4, <3>5, <3>7, <3>9, <3>10, <3>13, <4>1, <4>2
    <3>14. CASE s \notin abandoned /\ ~(n <= CaptureBytes)
      <4>1. d = CaptureBytes /\ flag[s] /\ all > OutputLimit /\ got >= OutputLimit
        BY <3>2, <3>3, <3>4, <3>5, <3>11, <3>14 DEF Cut
      <4>2. shown = OutputLimit /\ Bytes(t, shown) <= d
        BY <3>2, <3>4, <3>7, <3>9, <3>11, <3>14, <4>1
      <4> QED
        BY <3>1, <3>4, <3>5, <3>7, <3>9, <3>10, <3>14, <4>1, <4>2
    <3> QED
      BY <3>12, <3>13, <3>14
  <2> QED
    BY <2>1, <2>2 DEF CaptureExact
<1> QED
  BY <1>1, RunInductive, PTL
-----------------------------------------------------------------------------
(***************************************************************************)
(* Who waits for whom.  The guards of the steps of a reader and of the     *)
(* feeder; and the steps a reader has to take before it reads again.       *)
(***************************************************************************)
ReaderMayStep(s) ==
  \/ reader[s] = "kept"
  \/ /\ reader[s] = "reading"
     /\ \/ pipe[s] > 0 /\ chunk[s] < ChunkBytes
        \/ chunk[s] > 0 /\ (chunk[s] = ChunkBytes \/ AtEnd(s))
        \/ chunk[s] = 0 /\ AtEnd(s)

FeederMayStep ==
  /\ feeder = "feeding"
  /\ \/ PipesHeld /\ fed < InputBytes /\ stdin < PipeBytes
     \/ ~PipesHeld
     \/ fed = InputBytes

HostServes ==
  /\ \A s \in Streams : pipe[s] = PipeBytes => ReaderMayStep(s)
  /\ stdin = 0 /\ feeder = "feeding" => FeederMayStep

StepsToRead(s) ==
  CASE reader[s] = "reading" /\ chunk[s] = ChunkBytes -> 2
    [] reader[s] = "kept" -> 1
    [] OTHER -> 0

(***************************************************************************)
(* No circular wait: a payload blocked on a full output pipe has a reader  *)
(* that can take a step, at the cap and after the run has returned, and a  *)
(* payload blocked on its empty input has a feeder that can.               *)
(***************************************************************************)
THEOREM NoCircularWait == Spec => []HostServes
<1>1. RunInv => HostServes
  <2> SUFFICES ASSUME RunInv PROVE HostServes
    OBVIOUS
  <2>1. ASSUME NEW s \in Streams, pipe[s] = PipeBytes PROVE ReaderMayStep(s)
    <3>1. PipeBytes \in Nat \ {0} /\ ChunkBytes \in Nat \ {0}
      BY RunAssumption DEF RunAssumption
    <3>2. reader[s] \in {"reading", "kept"}
      BY <2>1, <3>1, StreamTyped DEF RunInv, StreamInv
    <3>3. chunk[s] \in 0..ChunkBytes
      BY StreamTyped DEF RunInv
    <3> QED
      BY <2>1, <3>1, <3>2, <3>3 DEF ReaderMayStep
  <2>2. ASSUME stdin = 0, feeder = "feeding" PROVE FeederMayStep
    <3>1. PipeBytes \in Nat \ {0} /\ InputBytes \in Nat /\ fed \in 0..InputBytes
      BY RunAssumption DEF RunAssumption, RunInv, Typed, TypeOK
    <3> QED
      BY <2>2, <3>1 DEF FeederMayStep
  <2> QED
    BY <2>1, <2>2 DEF HostServes
<1> QED
  BY <1>1, RunInductive, PTL

\* A reader that takes a step at a full pipe is nearer to its next read.
LEMMA ReaderNearsRead ==
  ASSUME Typed, NEW s \in Streams, pipe[s] = PipeBytes, pipe'[s] = PipeBytes, Reader(s)
  PROVE  StepsToRead(s)' < StepsToRead(s)
<1>1. PipeBytes \in Nat \ {0} /\ ChunkBytes \in Nat \ {0} /\ chunk[s] \in 0..ChunkBytes
  BY RunAssumption, StreamTyped DEF RunAssumption
<1>2. CASE Read(s)
  <2>1. PICK n : n = Min({pipe[s], ChunkBytes - chunk[s]})
    OBVIOUS
  <2>2. n \in Nat \ {0}
    BY <1>1, <1>2, <2>1, MinOfTwo DEF Read
  <2>3. pipe'[s] = pipe[s] - n
    BY <1>2, <2>1 DEF Read, Typed, TypeOK
  <2> QED
    BY <1>1, <2>2, <2>3
<1>3. CASE Keep(s)
  <2>1. reader[s] = "reading" /\ chunk[s] = ChunkBytes /\ reader'[s] = "kept"
    BY <1>1, <1>3 DEF Keep, AtEnd, Typed, TypeOK
  <2>2. StepsToRead(s) = 2
    BY <2>1 DEF StepsToRead
  <2>3. StepsToRead(s)' = 1
    BY <2>1 DEF StepsToRead
  <2> QED
    BY <2>2, <2>3
<1>4. CASE Judge(s)
  <2>1. reader[s] = "kept" /\ reader'[s] = "reading" /\ chunk'[s] = 0
    BY <1>4 DEF Judge, Typed, TypeOK
  <2>2. StepsToRead(s) = 1
    BY <2>1 DEF StepsToRead
  <2>3. StepsToRead(s)' = 0
    BY <1>1, <2>1 DEF StepsToRead
  <2> QED
    BY <2>2, <2>3
<1>5. CASE EndOfFile(s)
  BY <1>1, <1>5 DEF EndOfFile, AtEnd
<1> QED
  BY <1>2, <1>3, <1>4, <1>5 DEF Reader

(***************************************************************************)
(* Nobody holds a reader up: while a pipe stays full, each step of its     *)
(* reader brings the next read nearer and no other step takes it further   *)
(* away, so a full pipe is drained by the third step of its reader.        *)
(***************************************************************************)
THEOREM FullPipesAreDrained ==
  Spec => [][ \A s \in Streams :
                pipe[s] = PipeBytes /\ pipe'[s] = PipeBytes =>
                  /\ StepsToRead(s)' <= StepsToRead(s)
                  /\ Reader(s) => StepsToRead(s)' < StepsToRead(s) ]_vars
<1>1. ASSUME RunInv, Next, NEW s \in Streams, pipe[s] = PipeBytes, pipe'[s] = PipeBytes
      PROVE  /\ StepsToRead(s)' <= StepsToRead(s)
             /\ Reader(s) => StepsToRead(s)' < StepsToRead(s)
  <2>1. StepsToRead(s) \in 0..2 /\ StepsToRead(s)' \in 0..2
    <3>1. StepsToRead(s) \in 0..2
      BY DEF StepsToRead
    <3>2. StepsToRead(s)' \in 0..2
      BY DEF StepsToRead
    <3> QED
      BY <3>1, <3>2
  <2>2. Reader(s) => StepsToRead(s)' < StepsToRead(s)
    BY <1>1, ReaderNearsRead DEF RunInv
  <2>3. ASSUME ~Reader(s) PROVE StepsToRead(s)' = StepsToRead(s)
    <3>1. reader'[s] = reader[s] /\ chunk'[s] = chunk[s]
      <4>1. CASE Payload \/ _feed \/ Caller \/ Returned
        BY <4>1 DEF Payload, Emit, TakeInput, Fork, Exit, _feed, Caller, Wait, Deadline,
           Join, Collect, Returned, vars, readerVars
      <4>2. CASE \E r \in Streams : Reader(r)
        <5>1. PICK r \in Streams : Reader(r)
          BY <4>2
        <5>2. r # s
          BY <2>3, <5>1
        <5> QED
          BY <1>1, <5>1, <5>2 DEF Reader, Read, Keep, Judge, EndOfFile, RunInv, Typed, TypeOK
      <4> QED
        BY <1>1, <4>1, <4>2 DEF Next
    <3> QED
      BY <3>1 DEF StepsToRead
  <2> QED
    BY <2>1, <2>2, <2>3
<1>2. RunInv /\ [Next]_vars =>
        [ \A s \in Streams :
            pipe[s] = PipeBytes /\ pipe'[s] = PipeBytes =>
              /\ StepsToRead(s)' <= StepsToRead(s)
              /\ Reader(s) => StepsToRead(s)' < StepsToRead(s) ]_vars
  BY <1>1
<1> QED
  BY <1>2, RunInductive, PTL DEF Spec

(***************************************************************************)
(* No join waits in vain: the reader is done, or the join may expire, or   *)
(* the reader can take a step towards either.                              *)
(***************************************************************************)
JoinMayEnd(s) == reader[s] = "done" \/ (PipesHeld /\ (Blocked(s) \/ Handled(s)))

THEOREM JoinsEnd ==
  Spec => [](\A s \in Streams : main = JoinOf[s] => JoinMayEnd(s) \/ ReaderMayStep(s))
<1>1. ASSUME RunInv, NEW s \in Streams PROVE JoinMayEnd(s) \/ ReaderMayStep(s)
  <2>1. /\ ChunkBytes \in Nat \ {0} /\ chunk[s] \in 0..ChunkBytes /\ pipe[s] \in Nat
        /\ reader[s] \in {"reading", "kept", "done"}
    BY <1>1, RunAssumption, StreamTyped DEF RunAssumption, RunInv, Typed, TypeOK
  <2>2. CASE reader[s] = "reading" /\ pipe[s] = 0 /\ chunk[s] < ChunkBytes
    BY <2>1, <2>2 DEF JoinMayEnd, Blocked, ReaderMayStep, AtEnd
  <2>3. CASE reader[s] = "reading" /\ ~(pipe[s] = 0 /\ chunk[s] < ChunkBytes)
    BY <2>1, <2>3 DEF ReaderMayStep
  <2>4. CASE reader[s] # "reading"
    BY <2>1, <2>4 DEF JoinMayEnd, ReaderMayStep
  <2> QED
    BY <2>2, <2>3, <2>4
<1>2. RunInv => \A s \in Streams : main = JoinOf[s] => JoinMayEnd(s) \/ ReaderMayStep(s)
  BY <1>1
<1> QED
  BY <1>2, RunInductive, PTL

(***************************************************************************)
(* The steps the caller still has to take.                                 *)
(***************************************************************************)
CallerLeft ==
  CASE main = "wait"     -> 7
    [] main = "join_out" -> 6
    [] main = "join_err" -> 5
    [] main = "data_out" -> 4
    [] main = "data_err" -> 3
    [] main = "flag_out" -> 2
    [] main = "flag_err" -> 1
    [] OTHER             -> 0

OneStepFewer ==
  /\ CallerLeft \in 0..7
  /\ CallerLeft' = IF Caller THEN CallerLeft - 1 ELSE CallerLeft

(***************************************************************************)
(* The caller waits for no payload: its steps are seven, each of its own   *)
(* is one of them, and neither the child, what the child started nor the   *)
(* threads of the host add to them.  The safety half of RunReturns.        *)
(***************************************************************************)
THEOREM CallerTakesSevenSteps == Spec => [][OneStepFewer]_vars
<1>1. ASSUME RunInv, Next
      PROVE  OneStepFewer
  <2>1. CallerLeft \in 0..7
    BY DEF CallerLeft
  <2>2. ASSUME Caller PROVE CallerLeft' = CallerLeft - 1
    <3>1. CASE Wait \/ Deadline
      <4>1. main = "wait" /\ main' = "join_out"
        BY <3>1 DEF Wait, Deadline
      <4> QED
        BY <4>1 DEF CallerLeft
    <3>2. CASE \E s \in Streams : Join(s) \/ Collect(s)
      <4>1. /\ main \in {"join_out", "join_err", "data_out", "data_err", "flag_out", "flag_err"}
            /\ main' = Following[main]
        BY <3>2 DEF Join, Collect, Streams, JoinOf, DataOf, FlagOf
      <4>2. CASE main = "join_out"
        BY <4>1, <4>2 DEF CallerLeft, Following
      <4>3. CASE main = "join_err"
        BY <4>1, <4>3 DEF CallerLeft, Following
      <4>4. CASE main = "data_out"
        BY <4>1, <4>4 DEF CallerLeft, Following
      <4>5. CASE main = "data_err"
        BY <4>1, <4>5 DEF CallerLeft, Following
      <4>6. CASE main = "flag_out"
        BY <4>1, <4>6 DEF CallerLeft, Following
      <4>7. CASE main = "flag_err"
        BY <4>1, <4>7 DEF CallerLeft, Following
      <4> QED
        BY <4>1, <4>2, <4>3, <4>4, <4>5, <4>6, <4>7
    <3> QED
      BY <2>2, <3>1, <3>2 DEF Caller
  <2>3. ASSUME ~Caller PROVE CallerLeft' = CallerLeft
    <3>1. main' = main
      BY <1>1, <2>3 DEF Next, Payload, Emit, TakeInput, Fork, Exit, _feed, Reader, Read, Keep,
         Judge, EndOfFile, Returned, vars, mainVars
    <3> QED
      BY <3>1 DEF CallerLeft
  <2> QED
    BY <2>1, <2>2, <2>3 DEF OneStepFewer
<1>2. RunInv /\ [Next]_vars => [OneStepFewer]_vars
  BY <1>1
<1> QED
  BY <1>2, RunInductive, PTL DEF Spec
=============================================================================
