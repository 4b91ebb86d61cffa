--------------------------- MODULE LlmStackProofs ---------------------------
(***************************************************************************)
(* Theorems about LlmStack, for any number of runs, accounting clients,    *)
(* requests, tokens, cache entries, retries and any budget: the cache, the *)
(* budget, the accounts, and that every run's way is finite.               *)
(***************************************************************************)
EXTENDS LlmStack, SumTheorems, SequenceTheorems

(***************************************************************************)
(* Max(Tokens) is what it says: a smallest set of tokens without a largest *)
(* one would still have none without one of its elements.                  *)
(***************************************************************************)
LEMMA MaxToken ==
  /\ Max(Tokens) \in Nat
  /\ \A n \in Tokens : n \in Nat /\ n <= Max(Tokens)
  <1> USE StackAssumption DEF StackAssumption
  <1> DEFINE Topped(T) == \E m \in T : \A n \in T : m >= n
             Bad == {T \in FiniteSubsetsOf(Tokens) : T # {} /\ ~Topped(T)}
  <1>1. Bad = {}
    <2> SUFFICES ASSUME Bad # {} PROVE FALSE
      OBVIOUS
    <2>1. PICK T \in Bad : \A V \in Bad : <<V, T>> \notin StrictSubsetOrdering(Tokens)
      <3>1. Bad \subseteq FiniteSubsetsOf(Tokens)
        OBVIOUS
      <3> HIDE DEF Bad
      <3> QED BY <3>1, FS_StrictSubsetOrderingWellFounded, WFMin
    <2>2. T \subseteq Tokens /\ IsFiniteSet(T) /\ T # {} /\ ~Topped(T)
      BY <2>1 DEF FiniteSubsetsOf
    <2>3. PICK x \in T : TRUE
      BY <2>2
    <2> DEFINE V == T \ {x}
    <2>4. V \in FiniteSubsetsOf(Tokens) /\ <<V, T>> \in StrictSubsetOrdering(Tokens)
      BY <2>2, <2>3, FS_RemoveElement DEF FiniteSubsetsOf, StrictSubsetOrdering
    <2>5. V = {} \/ Topped(V)
      BY <2>1, <2>4
    <2>6. CASE V = {}
      BY <2>2, <2>3, <2>6
    <2>7. CASE Topped(V)
      <3>1. PICK m \in V : \A n \in V : m >= n
        BY <2>7
      <3>2. m \in Nat /\ x \in Nat /\ T \subseteq Nat
        BY <2>2, <2>3, <3>1
      <3>3. CASE m >= x
        BY <2>2, <3>1, <3>2, <3>3
      <3>4. CASE x >= m
        BY <2>2, <2>3, <3>1, <3>2, <3>4
      <3> QED BY <3>2, <3>3, <3>4
    <2> QED BY <2>5, <2>6, <2>7
  <1>2. Topped(Tokens)
    BY <1>1 DEF FiniteSubsetsOf
  <1>3. Max(Tokens) \in Tokens /\ \A n \in Tokens : Max(Tokens) >= n
    BY <1>2 DEF Max
  <1> QED BY <1>3

-----------------------------------------------------------------------------
(***************************************************************************)
(* The types of the two orders, what a completion under way knows, and     *)
(* that no usage was read from a tally before it was counted there.        *)
(***************************************************************************)
Answer == [answers : Requests, tokens : Tokens]

Entry == [request : Requests \ Sampled, completion : Answer]

OrderTypes == entries \in Seq(Entry) /\ recent \in Seq(Requests)

CallInv ==
  \A t \in Threads :
    /\ pc[t] \in {"lookup", "attempt", "tally", "store"} => request[t] \in Requests
    /\ pc[t] \in {"lookup", "store"} => request[t] \notin Sampled
    /\ pc[t] \in {"tally", "store"} =>
         response[t] \in Answer /\ response[t].answers = request[t]

AtMost(u, v) == u.calls <= v.calls /\ u.tokens <= v.tokens

BaseInv ==
  \A t \in Threads :
    AtMost(budgetBase[t], tally[client[t]]) /\ AtMost(usageBase[t], tally[client[t]])

(***************************************************************************)
(* Arithmetic of usages.                                                   *)
(***************************************************************************)
LEMMA AddUsage ==
  ASSUME NEW u \in Usage, NEW n \in Nat
  PROVE  /\ Add(u, n) \in Usage /\ AtMost(u, Add(u, n))
         /\ Add(u, n).calls = u.calls + 1 /\ Add(u, n).tokens = u.tokens + n
  BY DEF Usage, Add, AtMost

\* Usage since a base is a usage, and the difference of the two counts.
LEMMA MinusUsage ==
  ASSUME NEW u \in Usage, NEW v \in Usage, AtMost(v, u)
  PROVE  /\ Minus(u, v) \in Usage
         /\ Minus(u, v).calls = u.calls - v.calls /\ Minus(u, v).tokens = u.tokens - v.tokens
  BY DEF Usage, Minus, AtMost

\* Usages are ordered by both counts, from none upwards.
LEMMA UsageOrder ==
  /\ Zero \in Usage
  /\ \A u \in Usage : AtMost(u, u) /\ AtMost(Zero, u)
  /\ \A u, v, w \in Usage : AtMost(u, v) /\ AtMost(v, w) => AtMost(u, w)
  BY DEF Usage, Zero, AtMost

(***************************************************************************)
(* move_to_end(), element by element.                                      *)
(***************************************************************************)
LEMMA Removed ==
  ASSUME NEW S, NEW s \in Seq(S), NEW i \in 1..Len(s)
  PROVE  /\ RemoveAt(s, i) \in Seq(S) /\ Len(RemoveAt(s, i)) = Len(s) - 1
         /\ \A j \in 1..Len(s) - 1 :
              RemoveAt(s, i)[j] = IF j < i THEN s[j] ELSE s[j + 1]
  <1> DEFINE a == SubSeq(s, 1, i - 1)
             b == SubSeq(s, i + 1, Len(s))
  <1>1. /\ Len(s) \in Nat /\ i \in Int /\ i >= 1 /\ i <= Len(s)
        /\ \A j \in 1..Len(s) : s[j] \in S
    BY LenProperties, ElementOfSeq
  <1>2. /\ a \in Seq(S) /\ Len(a) = i - 1
        /\ \A j \in 1..i - 1 : a[j] = s[j]
    <2>1. \A j \in 1..i - 1 : s[j] \in S
      BY <1>1
    <2>2. /\ a \in Seq(S) /\ Len(a) = IF 1 <= i - 1 THEN (i - 1) - 1 + 1 ELSE 0
          /\ \A j \in 1..(i - 1) - 1 + 1 : a[j] = s[1 + j - 1]
      <3>1. 1 \in Int /\ i - 1 \in Int
        BY <1>1
      <3> QED BY <2>1, <3>1, SubSeqProperties
    <2> HIDE DEF a
    <2>3. \A j \in 1..i - 1 : j \in 1..(i - 1) - 1 + 1 /\ 1 + j - 1 = j
      BY <1>1
    <2> QED BY <1>1, <2>2, <2>3
  <1>3. /\ b \in Seq(S) /\ Len(b) = Len(s) - i
        /\ \A j \in 1..Len(s) - i : b[j] = s[i + j]
    <2>1. \A j \in i + 1..Len(s) : s[j] \in S
      BY <1>1
    <2>2. /\ b \in Seq(S) /\ Len(b) = IF i + 1 <= Len(s) THEN Len(s) - (i + 1) + 1 ELSE 0
          /\ \A j \in 1..Len(s) - (i + 1) + 1 : b[j] = s[(i + 1) + j - 1]
      <3>1. i + 1 \in Int /\ Len(s) \in Int
        BY <1>1
      <3> QED BY <2>1, <3>1, SubSeqProperties
    <2> HIDE DEF b
    <2>3. \A j \in 1..Len(s) - i : j \in 1..Len(s) - (i + 1) + 1 /\ (i + 1) + j - 1 = i + j
      BY <1>1
    <2> QED BY <1>1, <2>2, <2>3
  <1> HIDE DEF a, b
  <1>4. /\ a \o b \in Seq(S) /\ Len(a \o b) = Len(a) + Len(b)
        /\ \A j \in 1..Len(a) + Len(b) : (a \o b)[j] = IF j <= Len(a) THEN a[j] ELSE b[j - Len(a)]
    BY <1>2, <1>3, ConcatProperties
  <1> DEFINE r == a \o b
  <1> HIDE DEF r
  <1>5. r \in Seq(S) /\ Len(r) = Len(s) - 1
    BY <1>1, <1>2, <1>3, <1>4 DEF r
  <1>6. ASSUME NEW j \in 1..Len(s) - 1 PROVE r[j] = IF j < i THEN s[j] ELSE s[j + 1]
    <2>1. r[j] = IF j <= i - 1 THEN a[j] ELSE b[j - (i - 1)]
      BY <1>1, <1>2, <1>3, <1>4 DEF r
    <2>2. CASE j < i
      BY <1>1, <1>2, <2>1, <2>2
    <2>3. CASE j >= i
      <3>1. j - (i - 1) \in 1..Len(s) - i /\ i + (j - (i - 1)) = j + 1
        BY <1>1, <2>3
      <3>2. b[j - (i - 1)] = s[j + 1]
        BY <1>3, <3>1
      <3> QED BY <1>1, <2>1, <2>3, <3>2
    <2> QED BY <1>1, <2>2, <2>3
  <1> QED BY <1>5, <1>6 DEF r, a, b, RemoveAt

Shifted(s, i, e, v) ==
  /\ i \in 1..Len(s) /\ Len(v) = Len(s)
  /\ \A j \in 1..Len(s) : v[j] = IF j = Len(s) THEN e ELSE IF j < i THEN s[j] ELSE s[j + 1]

\* move_to_end() shifts what came after the element one place forward.
LEMMA MovedToEnd ==
  ASSUME NEW S, NEW s \in Seq(S), NEW i \in 1..Len(s), NEW e \in S
  PROVE  /\ Append(RemoveAt(s, i), e) \in Seq(S)
         /\ Shifted(s, i, e, Append(RemoveAt(s, i), e))
  <1> DEFINE r == RemoveAt(s, i)
  <1>1. /\ r \in Seq(S) /\ Len(r) = Len(s) - 1 /\ Len(s) \in Nat
        /\ \A j \in 1..Len(s) - 1 : r[j] = IF j < i THEN s[j] ELSE s[j + 1]
    BY Removed, LenProperties
  <1> HIDE DEF r
  <1>2. /\ Append(r, e) \in Seq(S) /\ Len(Append(r, e)) = Len(r) + 1
        /\ \A j \in 1..Len(r) : Append(r, e)[j] = r[j]
        /\ Append(r, e)[Len(r) + 1] = e
    BY <1>1, AppendProperties
  <1> DEFINE v == Append(r, e)
  <1> HIDE DEF v
  <1>3. v \in Seq(S) /\ Len(v) = Len(s)
    BY <1>1, <1>2 DEF v
  <1>4. v[Len(s)] = e /\ \A j \in 1..Len(s) - 1 : v[j] = r[j]
    <2>1. Len(r) + 1 = Len(s)
      BY <1>1
    <2> QED BY <1>1, <1>2, <2>1 DEF v
  <1>5. ASSUME NEW j \in 1..Len(s)
        PROVE  v[j] = IF j = Len(s) THEN e ELSE IF j < i THEN s[j] ELSE s[j + 1]
    <2>1. CASE j = Len(s)
      BY <1>4, <2>1
    <2>2. CASE j # Len(s)
      <3>1. j \in 1..Len(s) - 1
        BY <1>1, <2>2
      <3> QED BY <1>1, <1>4, <2>2, <3>1
    <2> QED BY <2>1, <2>2
  <1>6. Shifted(s, i, e, v)
    BY <1>3, <1>5 DEF Shifted
  <1> QED BY <1>3, <1>6 DEF v, r

(***************************************************************************)
(* The cache order and the order of use after a hit or an insertion: one   *)
(* element moves to the end, or a new one is appended and the oldest one   *)
(* goes if the cache is full.                                              *)
(***************************************************************************)
Grown(s, e, v) ==
  /\ Len(v) = Len(s) + 1 /\ v[Len(s) + 1] = e
  /\ \A j \in 1..Len(s) : v[j] = s[j]

\* A sequence is its own subsequence from first to last.
LEMMA WholeSeq ==
  ASSUME NEW S, NEW s \in Seq(S)
  PROVE  SubSeq(s, 1, Len(s)) = s
  <1> DEFINE v == SubSeq(s, 1, Len(s))
  <1>1. Len(s) \in Nat /\ \A j \in 1..Len(s) : s[j] \in S
    BY LenProperties, ElementOfSeq
  <1>2. /\ v \in Seq(S) /\ Len(v) = IF 1 <= Len(s) THEN Len(s) - 1 + 1 ELSE 0
        /\ \A j \in 1..Len(s) - 1 + 1 : v[j] = s[1 + j - 1]
    <2>1. 1 \in Int /\ Len(s) \in Int
      BY <1>1
    <2> QED BY <1>1, <2>1, SubSeqProperties
  <1> HIDE DEF v
  <1>3. Len(v) = Len(s)
    BY <1>1, <1>2
  <1>4. \A j \in 1..Len(s) : v[j] = s[j]
    BY <1>1, <1>2
  <1>5. v = s
    BY <1>2, <1>3, <1>4, SeqEqual
  <1> QED BY <1>5 DEF v

\* A use of a request moves it to the end of the recent ones, or adds it there.
LEMMA LatestEffect ==
  ASSUME OrderTypes, NEW r \in Requests
  PROVE  /\ Latest(r) \in Seq(Requests)
         /\ \/ UsedAt(r) = {} /\ Grown(recent, r, Latest(r))
            \/ \E i \in UsedAt(r) : Shifted(recent, i, r, Latest(r))
  <1>1. recent \in Seq(Requests) /\ DOMAIN recent = 1..Len(recent)
    BY LenProperties DEF OrderTypes
  <1>2. CASE UsedAt(r) = {}
    <2>1. Latest(r) = Append(recent, r)
      BY <1>2 DEF Latest, Without
    <2> QED BY <1>1, <1>2, <2>1, AppendProperties DEF Grown
  <1>3. CASE UsedAt(r) # {}
    <2> DEFINE i == CHOOSE i \in UsedAt(r) : TRUE
    <2>1. i \in UsedAt(r) /\ i \in 1..Len(recent)
      BY <1>1, <1>3 DEF UsedAt
    <2>2. Latest(r) = Append(RemoveAt(recent, i), r)
      BY <1>3 DEF Latest, Without
    <2> HIDE DEF i
    <2> QED BY <1>1, <2>1, <2>2, MovedToEnd
  <1> QED BY <1>2, <1>3

\* A cache hit moves its own entry to the end.
LEMMA HitEffect ==
  ASSUME OrderTypes, NEW r \in Requests, NEW i \in Stored(r)
  PROVE  /\ Append(RemoveAt(entries, i), entries[i]) \in Seq(Entry)
         /\ Shifted(entries, i, entries[i], Append(RemoveAt(entries, i), entries[i]))
         /\ entries[i] \in Entry /\ entries[i].request = r
  <1>1. entries \in Seq(Entry) /\ DOMAIN entries = 1..Len(entries)
    BY LenProperties DEF OrderTypes
  <1>2. i \in 1..Len(entries) /\ entries[i].request = r
    BY <1>1 DEF Stored
  <1>3. entries[i] \in Entry
    BY <1>1, <1>2, ElementOfSeq
  <1> QED BY <1>1, <1>2, <1>3, MovedToEnd

Evicted(s, e, v) ==
  /\ Len(v) = Len(s)
  /\ \A j \in 1..Len(s) : v[j] = IF j = Len(s) THEN e ELSE s[j + 1]

\* put() replaces an entry, adds one below the limit or evicts the eldest at
\* it.
LEMMA PutEffect ==
  ASSUME OrderTypes, Len(entries) <= MaxEntries,
         NEW r \in Requests \ Sampled, NEW c \in Answer, Put(r, c)
  PROVE  LET e == [request |-> r, completion |-> c] IN
         /\ entries' \in Seq(Entry) /\ e \in Entry
         /\ \/ \E i \in Stored(r) : Shifted(entries, i, e, entries')
            \/ Stored(r) = {} /\ Len(entries) < MaxEntries /\ Grown(entries, e, entries')
            \/ Stored(r) = {} /\ Len(entries) = MaxEntries /\ Evicted(entries, e, entries')
  <1>0. MaxEntries \in Nat \ {0} /\ Len(entries) \in Nat /\ Len(entries) <= MaxEntries
    BY StackAssumption, LenProperties DEF StackAssumption, OrderTypes
  <1> DEFINE e == [request |-> r, completion |-> c]
             stored == Append(Without(entries, Stored(r)), e)
  <1>1. /\ entries \in Seq(Entry) /\ DOMAIN entries = 1..Len(entries)
    BY LenProperties DEF OrderTypes
  <1>2. e \in Entry
    BY DEF Entry
  <1>3. entries' = SubSeq(stored, IF Len(stored) > MaxEntries
                                  THEN Len(stored) - MaxEntries + 1 ELSE 1, Len(stored))
    BY DEF Put
  <1> HIDE DEF e
  <1>4. CASE Stored(r) # {}
    <2> DEFINE i == CHOOSE i \in Stored(r) : TRUE
    <2>1. i \in Stored(r) /\ i \in 1..Len(entries)
      BY <1>1, <1>4 DEF Stored
    <2>2. stored = Append(RemoveAt(entries, i), e)
      BY <1>4 DEF Without
    <2> HIDE DEF i, stored
    <2>3. stored \in Seq(Entry) /\ Shifted(entries, i, e, stored)
      BY <1>1, <1>2, <2>1, <2>2, MovedToEnd
    <2>4. entries' = SubSeq(stored, 1, Len(stored))
      <3>1. Len(stored) = Len(entries) /\ ~(Len(stored) > MaxEntries)
        BY <1>0, <2>3 DEF Shifted
      <3> QED BY <1>3, <3>1
    <2>5. entries' = stored
      BY <2>3, <2>4, WholeSeq
    <2> QED BY <1>2, <2>1, <2>3, <2>5 DEF e
  <1>5. CASE Stored(r) = {}
    <2>1. stored = Append(entries, e)
      BY <1>5 DEF Without
    <2> HIDE DEF stored
    <2>2. stored \in Seq(Entry) /\ Grown(entries, e, stored)
      BY <1>1, <1>2, <2>1, AppendProperties DEF Grown
    <2>3. CASE Len(entries) < MaxEntries
      <3>1. entries' = SubSeq(stored, 1, Len(stored))
        BY <1>0, <1>3, <2>2, <2>3 DEF Grown
      <3>2. entries' = stored
        BY <2>2, <3>1, WholeSeq
      <3> QED BY <1>2, <1>5, <2>2, <2>3, <3>2 DEF e
    <2>4. CASE Len(entries) = MaxEntries
      <3>1. Len(stored) = MaxEntries + 1
        BY <1>0, <2>2, <2>4 DEF Grown
      <3>2. entries' = SubSeq(stored, 2, Len(stored))
        <4>1. (MaxEntries + 1) - MaxEntries + 1 = 2 /\ MaxEntries + 1 > MaxEntries
          BY <1>0
        <4> QED BY <1>3, <3>1, <4>1
      <3>3. \A j \in 2..Len(stored) : stored[j] \in Entry
        BY <1>0, <2>2, <3>1, ElementOfSeq
      <3>4. /\ entries' \in Seq(Entry)
            /\ Len(entries') = IF 2 <= Len(stored) THEN Len(stored) - 2 + 1 ELSE 0
            /\ \A j \in 1..Len(stored) - 2 + 1 : entries'[j] = stored[2 + j - 1]
        <4>1. 2 \in Int /\ Len(stored) \in Int
          BY <1>0, <3>1
        <4> QED BY <3>2, <3>3, <4>1, SubSeqProperties
      <3>5. Len(entries') = Len(entries)
        BY <1>0, <2>4, <3>1, <3>4
      <3>6. ASSUME NEW j \in 1..Len(entries)
            PROVE  entries'[j] = IF j = Len(entries) THEN e ELSE entries[j + 1]
        <4>1. entries'[j] = stored[j + 1]
          <5>1. j \in 1..Len(stored) - 2 + 1 /\ 2 + j - 1 = j + 1
            BY <1>0, <2>4, <3>1
          <5> QED BY <3>4, <5>1
        <4>2. j = Len(entries) => j + 1 = Len(entries) + 1
          OBVIOUS
        <4>3. j # Len(entries) => j + 1 \in 1..Len(entries)
          BY <1>0
        <4> QED BY <2>2, <4>1, <4>2, <4>3 DEF Grown
      <3> QED BY <1>2, <1>5, <2>4, <3>4, <3>5, <3>6 DEF e, Evicted
    <2>5. Len(entries) < MaxEntries \/ Len(entries) = MaxEntries
      BY <1>0
    <2> QED BY <2>3, <2>4, <2>5
  <1> QED BY <1>4, <1>5

-----------------------------------------------------------------------------
(***************************************************************************)
(* CacheIsLru with what makes it inductive: a request has one place in the *)
(* order of use.  So a hit moves the same element in both orders, and a    *)
(* request that is used again but not stored lies before everything that   *)
(* is stored.                                                              *)
(***************************************************************************)
UsedOnce == \A i, j \in 1..Len(recent) : recent[i] = recent[j] => i = j

LruInv == OrderTypes /\ UsedOnce /\ CacheIsLru

\* The cache is no longer than its limit nor than the requests ever used.
LEMMA LruLengths ==
  ASSUME LruInv
  PROVE  /\ Len(recent) \in Nat /\ Len(entries) \in Nat /\ MaxEntries \in Nat \ {0}
         /\ Len(entries) <= MaxEntries /\ Len(entries) <= Len(recent)
         /\ Len(recent) > Len(entries) => Len(entries) = MaxEntries
         /\ Len(entries) < MaxEntries => Len(recent) = Len(entries)
         /\ DOMAIN entries = 1..Len(entries) /\ DOMAIN recent = 1..Len(recent)
  <1>1. /\ Len(recent) \in Nat /\ Len(entries) \in Nat /\ MaxEntries \in Nat \ {0}
        /\ DOMAIN entries = 1..Len(entries) /\ DOMAIN recent = 1..Len(recent)
    BY StackAssumption, LenProperties DEF StackAssumption, LruInv, OrderTypes
  <1>2. Len(entries) = IF Len(recent) < MaxEntries THEN Len(recent) ELSE MaxEntries
    BY DEF LruInv, CacheIsLru
  <1> DEFINE N == Len(recent)
             K == Len(entries)
  <1> HIDE DEF N, K
  <1>3. N \in Nat /\ K \in Nat /\ K = IF N < MaxEntries THEN N ELSE MaxEntries
    BY <1>1, <1>2 DEF N, K
  <1>4. /\ K <= MaxEntries /\ K <= N /\ (N > K => K = MaxEntries)
        /\ K < MaxEntries => N = K
    BY <1>1, <1>3
  <1> QED BY <1>1, <1>4 DEF N, K

\* No request is twice among the recent ones.
LEMMA UsedOnceStep ==
  ASSUME LruInv, NEW r \in Requests, recent' = Latest(r)
  PROVE  UsedOnce'
  <1> DEFINE N == Len(recent)
  <1>1. N \in Nat /\ DOMAIN recent = 1..N
    BY LruLengths
  <1>2. \A i, j \in 1..N : recent[i] = recent[j] => i = j
    BY DEF LruInv, UsedOnce
  <1>3. CASE UsedAt(r) = {} /\ Grown(recent, r, recent')
    <2>1. /\ Len(recent') = N + 1 /\ recent'[N + 1] = r
          /\ \A j \in 1..N : recent'[j] = recent[j] /\ recent[j] # r
      BY <1>1, <1>3 DEF Grown, UsedAt
    <2> HIDE DEF N
    <2>2. ASSUME NEW i \in 1..N + 1, NEW j \in 1..N + 1, recent'[i] = recent'[j] PROVE i = j
      <3>1. CASE i \in 1..N /\ j \in 1..N
        BY <1>2, <2>1, <2>2, <3>1
      <3>2. CASE i = N + 1 /\ j \in 1..N
        BY <2>1, <2>2, <3>2
      <3>3. CASE j = N + 1 /\ i \in 1..N
        BY <2>1, <2>2, <3>3
      <3>4. (i \in 1..N \/ i = N + 1) /\ (j \in 1..N \/ j = N + 1)
        BY <1>1
      <3> QED BY <3>1, <3>2, <3>3, <3>4
    <2> QED BY <2>1, <2>2 DEF UsedOnce
  <1>4. ASSUME NEW p \in UsedAt(r), Shifted(recent, p, r, recent') PROVE UsedOnce'
    <2> DEFINE From(j) == IF j = N THEN p ELSE IF j < p THEN j ELSE j + 1
    <2>1. p \in 1..N /\ recent[p] = r
      BY <1>1, <1>4 DEF UsedAt
    <2>2. Len(recent') = N
      BY <1>4 DEF Shifted
    <2>3. ASSUME NEW j \in 1..N PROVE From(j) \in 1..N /\ recent'[j] = recent[From(j)]
      <3>1. recent'[j] = IF j = N THEN r ELSE IF j < p THEN recent[j] ELSE recent[j + 1]
        BY <1>4 DEF Shifted
      <3> HIDE DEF N
      <3>2. From(j) \in 1..N
        BY <1>1, <2>1
      <3> QED BY <2>1, <3>1, <3>2
    <2> HIDE DEF N
    <2>4. ASSUME NEW i \in 1..N, NEW j \in 1..N, recent'[i] = recent'[j] PROVE i = j
      <3>1. From(i) = From(j)
        BY <1>2, <2>3, <2>4
      <3> QED BY <1>1, <2>1, <3>1
    <2> QED BY <2>2, <2>4 DEF UsedOnce
  <1> QED BY <1>3, <1>4, LatestEffect DEF LruInv

(***************************************************************************)
(* A request that is stored is used again.                                 *)
(***************************************************************************)
LEMMA LruOfShift ==
  ASSUME LruInv, NEW r \in Requests, NEW i \in Stored(r), NEW e \in Entry,
         e.request = r, e.completion.answers = r,
         recent' = Latest(r), entries' \in Seq(Entry), Shifted(entries, i, e, entries')
  PROVE  CacheIsLru'
  <1> DEFINE N == Len(recent)
             K == Len(entries)
             d == N - K
  <1>1. /\ N \in Nat /\ K \in Nat /\ K <= N /\ MaxEntries \in Nat
        /\ K = IF N < MaxEntries THEN N ELSE MaxEntries
        /\ DOMAIN entries = 1..K /\ DOMAIN recent = 1..N
    BY LruLengths DEF LruInv, CacheIsLru
  <1>2. \A k \in 1..K : /\ entries[k].request = recent[d + k]
                        /\ entries[k].request \notin Sampled
                        /\ entries[k].completion.answers = entries[k].request
    BY <1>1 DEF LruInv, CacheIsLru
  <1>3. i \in 1..K /\ entries[i].request = r
    BY <1>1 DEF Stored
  <1>4. d + i \in 1..N /\ recent[d + i] = r
    BY <1>1, <1>2, <1>3
  <1>5. \A p \in UsedAt(r) : p = d + i
    BY <1>1, <1>4 DEF UsedAt, LruInv, UsedOnce
  <1>6. d + i \in UsedAt(r)
    BY <1>1, <1>4 DEF UsedAt
  <1>7. Shifted(recent, d + i, r, recent')
    BY <1>5, <1>6, LatestEffect DEF LruInv
  <1>8. /\ Len(recent') = N /\ Len(entries') = K /\ DOMAIN entries' = 1..K
        /\ \A k \in 1..K :
             entries'[k] = IF k = K THEN e ELSE IF k < i THEN entries[k] ELSE entries[k + 1]
        /\ \A j \in 1..N :
             recent'[j] = IF j = N THEN r ELSE IF j < d + i THEN recent[j] ELSE recent[j + 1]
    BY <1>7, LenProperties DEF Shifted
  <1>9. r \notin Sampled
    BY DEF Entry
  <1>10. N \in Nat /\ K \in Nat /\ K <= N /\ i \in 1..K
    BY <1>1, <1>3
  <1> HIDE DEF N, K
  <1>11. ASSUME NEW k \in 1..K
         PROVE  /\ entries'[k].request = recent'[N - K + k]
                /\ entries'[k].request \notin Sampled
                /\ entries'[k].completion.answers = entries'[k].request
    <2>1. CASE k = K
      <3>1. N - K + k = N /\ N \in 1..N
        BY <1>10, <2>1
      <3> QED BY <1>8, <1>9, <2>1, <3>1
    <2>2. CASE k # K /\ k < i
      <3>1. d + k \in 1..N /\ d + k # N /\ d + k < d + i
        BY <1>10, <2>2
      <3> QED BY <1>2, <1>8, <2>2, <3>1
    <2>3. CASE k # K /\ ~(k < i)
      <3>1. /\ d + k \in 1..N /\ d + k # N /\ ~(d + k < d + i)
            /\ k + 1 \in 1..K /\ d + (k + 1) = (d + k) + 1
        BY <1>10, <2>3
      <3>2. entries'[k] = entries[k + 1]
        BY <1>8, <2>3
      <3>3. recent'[d + k] = recent[d + (k + 1)]
        BY <1>8, <3>1
      <3> QED BY <1>2, <3>1, <3>2, <3>3
    <2> QED BY <2>1, <2>2, <2>3
  <1> QED BY <1>1, <1>8, <1>11 DEF CacheIsLru

(***************************************************************************)
(* A request that is not stored is used: first with room in the cache,     *)
(* then with the cache full.                                               *)
(***************************************************************************)
LEMMA LruOfGrowth ==
  ASSUME LruInv, NEW r \in Requests, NEW e \in Entry, Stored(r) = {},
         e.request = r, e.completion.answers = r, Len(entries) < MaxEntries,
         recent' = Latest(r), entries' \in Seq(Entry), Grown(entries, e, entries')
  PROVE  CacheIsLru'
  <1> DEFINE N == Len(recent)
             K == Len(entries)
  <1>1. /\ N \in Nat /\ K \in Nat /\ K = N /\ MaxEntries \in Nat /\ K < MaxEntries
        /\ DOMAIN entries = 1..K /\ DOMAIN recent = 1..N
    BY LruLengths
  <1>2. \A k \in 1..K : /\ entries[k].request = recent[k]
                        /\ entries[k].request \notin Sampled
                        /\ entries[k].completion.answers = entries[k].request
    <2>1. \A k \in 1..K : N - K + k = k
      BY <1>1
    <2> QED BY <1>1, <2>1 DEF LruInv, CacheIsLru
  <1>3. UsedAt(r) = {}
    BY <1>1, <1>2 DEF UsedAt, Stored
  <1>4. Grown(recent, r, recent')
    BY <1>3, LatestEffect DEF LruInv
  <1>5. /\ Len(recent') = N + 1 /\ Len(entries') = K + 1 /\ DOMAIN entries' = 1..K + 1
        /\ entries'[K + 1] = e /\ recent'[N + 1] = r
        /\ \A k \in 1..K : entries'[k] = entries[k]
        /\ \A k \in 1..N : recent'[k] = recent[k]
    BY <1>4, LenProperties DEF Grown
  <1>6. r \notin Sampled
    BY DEF Entry
  <1>7. ASSUME NEW k \in 1..K + 1
        PROVE  /\ entries'[k].request = recent'[k]
               /\ entries'[k].request \notin Sampled
               /\ entries'[k].completion.answers = entries'[k].request
    <2>1. CASE k = K + 1
      BY <1>1, <1>5, <1>6, <2>1
    <2>2. CASE k \in 1..K
      BY <1>1, <1>2, <1>5, <2>2
    <2> QED BY <1>1, <2>1, <2>2
  <1>8. \A k \in 1..K + 1 : Len(recent') - Len(entries') + k = k
    BY <1>1, <1>5
  <1> QED BY <1>1, <1>5, <1>7, <1>8 DEF CacheIsLru

\* An eviction at the limit leaves the most recently used requests in the
\* cache.
LEMMA LruOfEviction ==
  ASSUME LruInv, NEW r \in Requests, NEW e \in Entry, Stored(r) = {},
         e.request = r, e.completion.answers = r, Len(entries) = MaxEntries,
         recent' = Latest(r), entries' \in Seq(Entry), Evicted(entries, e, entries')
  PROVE  CacheIsLru'
  <1> DEFINE N == Len(recent)
             K == Len(entries)
             d == N - K
             M == Len(recent')
  <1>1. /\ N \in Nat /\ K \in Nat \ {0} /\ K <= N /\ MaxEntries = K
        /\ DOMAIN entries = 1..K /\ DOMAIN recent = 1..N
    BY LruLengths
  <1>2. \A k \in 1..K : /\ entries[k].request = recent[d + k]
                        /\ entries[k].request \notin Sampled
                        /\ entries[k].completion.answers = entries[k].request
    BY <1>1 DEF LruInv, CacheIsLru
  <1>3. \A k \in 1..K : recent[d + k] # r
    BY <1>1, <1>2 DEF Stored
  <1>4. /\ Len(entries') = K /\ DOMAIN entries' = 1..K
        /\ \A k \in 1..K : entries'[k] = IF k = K THEN e ELSE entries[k + 1]
    BY LenProperties DEF Evicted
  <1>5. /\ M \in Nat /\ M >= N /\ recent'[M] = r
        /\ \A k \in 1..K - 1 : recent'[M - K + k] = recent[d + (k + 1)]
    <2>1. CASE Grown(recent, r, recent')
      <3>1. /\ M = N + 1 /\ recent'[N + 1] = r
            /\ \A j \in 1..N : recent'[j] = recent[j]
        BY <2>1 DEF Grown
      <3> HIDE DEF N, K, M
      <3>2. \A k \in 1..K - 1 : M - K + k \in 1..N /\ M - K + k = d + (k + 1)
        BY <1>1, <3>1
      <3> QED BY <1>1, <3>1, <3>2
    <2>2. ASSUME NEW p \in UsedAt(r), Shifted(recent, p, r, recent')
          PROVE  /\ M \in Nat /\ M >= N /\ recent'[M] = r
                 /\ \A k \in 1..K - 1 : recent'[M - K + k] = recent[d + (k + 1)]
      <3>1. /\ M = N /\ p \in 1..N /\ recent[p] = r
            /\ \A j \in 1..N :
                 recent'[j] = IF j = N THEN r ELSE IF j < p THEN recent[j] ELSE recent[j + 1]
        BY <1>1, <2>2 DEF Shifted, UsedAt
      <3> HIDE DEF N, K, M
      <3>2. p <= d
        <4>1. ASSUME p > d PROVE FALSE
          <5>1. p - d \in 1..K /\ d + (p - d) = p
            BY <1>1, <3>1, <4>1
          <5> QED BY <1>3, <3>1, <5>1
        <4> QED BY <1>1, <3>1, <4>1
      <3>3. \A k \in 1..K - 1 :
              /\ M - K + k \in 1..N /\ M - K + k # N /\ ~(M - K + k < p)
              /\ (M - K + k) + 1 = d + (k + 1)
        BY <1>1, <3>1, <3>2
      <3>4. recent'[M] = r
        <4>1. N \in 1..N
          BY <1>1
        <4> QED BY <3>1, <4>1
      <3>5. ASSUME NEW k \in 1..K - 1 PROVE recent'[M - K + k] = recent[d + (k + 1)]
        <4> DEFINE j == M - K + k
        <4>1. j \in 1..N /\ j # N /\ ~(j < p) /\ j + 1 = d + (k + 1)
          BY <3>3
        <4> HIDE DEF j
        <4>2. recent'[j] = recent[j + 1]
          BY <3>1, <4>1
        <4> QED BY <4>1, <4>2 DEF j
      <3> QED BY <1>1, <3>1, <3>4, <3>5
    <2> QED BY <2>1, <2>2, LatestEffect DEF LruInv
  <1>6. r \notin Sampled
    BY DEF Entry
  <1> HIDE DEF M, N, K
  <1>7. ASSUME NEW k \in 1..K
        PROVE  /\ entries'[k].request = recent'[M - K + k]
               /\ entries'[k].request \notin Sampled
               /\ entries'[k].completion.answers = entries'[k].request
    <2>1. CASE k = K
      <3>1. M - K + k = M
        BY <1>1, <1>5, <2>1
      <3> QED BY <1>4, <1>5, <1>6, <2>1, <3>1
    <2>2. CASE k # K
      <3>1. k \in 1..K - 1 /\ k + 1 \in 1..K
        BY <1>1, <2>2
      <3> QED BY <1>2, <1>4, <1>5, <2>2, <3>1
    <2> QED BY <2>1, <2>2
  <1>8. Len(entries') = IF M < MaxEntries THEN M ELSE MaxEntries
    BY <1>1, <1>4, <1>5
  <1> QED BY <1>4, <1>7, <1>8 DEF CacheIsLru, M

-----------------------------------------------------------------------------
StackInv == TypeOK /\ CallInv /\ BaseInv /\ LruInv

\* A stack that nobody has used is typed, and its cache empty.
LEMMA StackInit == Init => StackInv
  <1> SUFFICES ASSUME Init PROVE StackInv
    OBVIOUS
  <1> USE StackAssumption DEF StackAssumption, Init
  <1>1. Zero \in Usage /\ AtMost(Zero, Zero)
    BY DEF Zero, Usage, AtMost
  <1>2. client \in [Threads -> Clients]
    OBVIOUS
  <1>3. NoCompletion \in [answers : Requests \cup {NoRequest}, tokens : Nat]
    BY DEF NoCompletion, Completion
  <1>4. TypeOK
    <2>1. \A t \in Threads : iteration[t] <= MaxIterations[t]
      OBVIOUS
    <2>2. DOMAIN entries = {}
      OBVIOUS
    <2> QED BY <1>1, <1>2, <1>3, <2>1, <2>2 DEF TypeOK
  <1>5. LruInv
    <2>1. OrderTypes /\ Len(entries) = 0 /\ Len(recent) = 0
      BY EmptySeq DEF OrderTypes
    <2>2. DOMAIN entries = {}
      OBVIOUS
    <2> QED BY <2>1, <2>2 DEF LruInv, UsedOnce, CacheIsLru
  <1>6. CallInv
    BY DEF CallInv
  <1>7. BaseInv
    BY <1>1, <1>2 DEF BaseInv
  <1> QED BY <1>4, <1>5, <1>6, <1>7 DEF StackInv

\* A lookup or a store keeps the cache the most recently used requests.
LEMMA CacheStep ==
  ASSUME StackInv, NEW t \in Threads, Lookup(t) \/ Store(t)
  PROVE  LruInv'
  <1>1. ASSUME NEW i \in Stored(request[t]), pc[t] = "lookup",
               entries' = Append(RemoveAt(entries, i), entries[i]),
               recent' = Latest(request[t])
        PROVE  LruInv'
    <2>1. request[t] \in Requests
      BY <1>1 DEF StackInv, CallInv
    <2>2. /\ entries' \in Seq(Entry) /\ entries[i] \in Entry /\ entries[i].request = request[t]
          /\ Shifted(entries, i, entries[i], entries')
      BY <1>1, <2>1, HitEffect DEF StackInv, LruInv
    <2>3. entries[i].completion.answers = request[t]
      BY <1>1, <2>2 DEF StackInv, LruInv, CacheIsLru, Stored
    <2>4. recent' \in Seq(Requests)
      BY <1>1, <2>1, LatestEffect DEF StackInv, LruInv
    <2>5. UsedOnce'
      BY <1>1, <2>1, UsedOnceStep DEF StackInv
    <2>6. CacheIsLru'
      BY <1>1, <2>1, <2>2, <2>3, LruOfShift DEF StackInv
    <2> QED BY <2>2, <2>4, <2>5, <2>6 DEF LruInv, OrderTypes
  <1>2. ASSUME UNCHANGED <<entries, recent>> PROVE LruInv'
    BY <1>2 DEF StackInv, LruInv, OrderTypes, UsedOnce, CacheIsLru
  <1>3. CASE Store(t)
    <2> DEFINE r == request[t]
               e == [request |-> request[t], completion |-> response[t]]
    <2>1. /\ r \in Requests \ Sampled /\ response[t] \in Answer /\ response[t].answers = r
          /\ Put(r, response[t]) /\ recent' = Latest(r)
      BY <1>3 DEF Store, StackInv, CallInv
    <2>2. OrderTypes /\ Len(entries) <= MaxEntries
      BY LruLengths DEF StackInv, LruInv
    <2>3. /\ entries' \in Seq(Entry) /\ e \in Entry
          /\ \/ \E i \in Stored(r) : Shifted(entries, i, e, entries')
             \/ Stored(r) = {} /\ Len(entries) < MaxEntries /\ Grown(entries, e, entries')
             \/ Stored(r) = {} /\ Len(entries) = MaxEntries /\ Evicted(entries, e, entries')
      BY <2>1, <2>2, PutEffect
    <2>4. e.request = r /\ e.completion.answers = r
      BY <2>1
    <2> HIDE DEF e, r
    <2>5. CacheIsLru'
      BY <2>1, <2>3, <2>4, LruOfShift, LruOfGrowth, LruOfEviction DEF StackInv
    <2>6. recent' \in Seq(Requests)
      BY <2>1, <2>2, LatestEffect
    <2>7. UsedOnce'
      BY <2>1, UsedOnceStep DEF StackInv
    <2> QED BY <2>3, <2>5, <2>6, <2>7 DEF LruInv, OrderTypes
  <1>4. CASE Lookup(t)
    BY <1>1, <1>2, <1>4 DEF Lookup
  <1> QED BY <1>3, <1>4

(***************************************************************************)
(* The end of a completion, and what an answer is.                         *)
(***************************************************************************)
Points == {"new", "start", "boundary", "generate", "critique", "lookup", "attempt", "tally",
           "store", "finish", "done"}

\* complete() returns to its caller with every variable of the call in its
\* type.
LEMMA ReturnTypes ==
  ASSUME TypeOK, CallInv, NEW t \in Threads, NEW p \in {"critique", "finish"}, Return(t, p)
  PROVE  /\ pc' \in [Threads -> Points]
         /\ role' \in [Threads -> {"none", "generate", "critique"}]
         /\ request' \in [Threads -> Requests \cup {NoRequest}]
         /\ attempt' \in [Threads -> 0..MaxRetries]
         /\ response' \in [Threads -> [answers : Requests \cup {NoRequest}, tokens : Nat]]
         /\ CallInv'
  <1>1. NoCompletion \in [answers : Requests \cup {NoRequest}, tokens : Nat]
    BY DEF NoCompletion, Completion
  <1>2. 0 \in 0..MaxRetries
    BY StackAssumption DEF StackAssumption
  <1>3. /\ pc' = [pc EXCEPT ![t] = p]
        /\ role' = [role EXCEPT ![t] = "none"]
        /\ request' = [request EXCEPT ![t] = NoRequest]
        /\ attempt' = [attempt EXCEPT ![t] = 0]
        /\ response' = [response EXCEPT ![t] = NoCompletion]
    BY DEF Return, Goto
  <1>4. pc' \in [Threads -> Points]
    BY <1>3 DEF TypeOK, Points
  <1>5. CallInv'
    BY <1>3 DEF TypeOK, CallInv
  <1>6. /\ role' \in [Threads -> {"none", "generate", "critique"}]
        /\ request' \in [Threads -> Requests \cup {NoRequest}]
        /\ attempt' \in [Threads -> 0..MaxRetries]
    BY <1>2, <1>3 DEF TypeOK
  <1>7. response' \in [Threads -> [answers : Requests \cup {NoRequest}, tokens : Nat]]
    <2> DEFINE A == [answers : Requests \cup {NoRequest}, tokens : Nat]
    <2>1. response \in [Threads -> A] /\ NoCompletion \in A
      BY <1>1 DEF TypeOK
    <2> HIDE DEF A
    <2>2. response' \in [Threads -> A]
      BY <1>3, <2>1
    <2> QED BY <2>2 DEF A
  <1> QED BY <1>4, <1>5, <1>6, <1>7

(***************************************************************************)
(* The completion under way, as each step of its run leaves it.            *)
(***************************************************************************)
CallTypes ==
  /\ pc \in [Threads -> Points]
  /\ role \in [Threads -> {"none", "generate", "critique"}]
  /\ request \in [Threads -> Requests \cup {NoRequest}]
  /\ attempt \in [Threads -> 0..MaxRetries]
  /\ response \in [Threads -> [answers : Requests \cup {NoRequest}, tokens : Nat]]

RunTypes ==
  /\ client \in [Threads -> Clients]
  /\ tally \in [Clients -> Usage]
  /\ iteration \in [Threads -> Nat] /\ \A t \in Threads : iteration[t] <= MaxIterations[t]
  /\ critiques \in [Threads -> 0..MaxCritiques]
  /\ budgetBase \in [Threads -> Usage] /\ usageBase \in [Threads -> Usage]
  /\ metrics \in [Threads -> Usage] /\ spent \in [Threads -> Usage]

\* Every step keeps the variables of the calls typed and consistent.
LEMMA CallStep ==
  ASSUME StackInv, [Next]_vars
  PROVE  CallTypes' /\ CallInv'
  <1>1. TypeOK /\ CallInv /\ CallTypes
    BY DEF StackInv, TypeOK, CallTypes, Points
  <1>2. ASSUME UNCHANGED callVars, NEW t \in Threads,
               NEW p \in {"start", "boundary", "generate", "finish", "done"}, Goto(t, p)
        PROVE  CallTypes' /\ CallInv'
    <2>1. pc' = [pc EXCEPT ![t] = p] /\ pc' \in [Threads -> Points]
      BY <1>1, <1>2 DEF Goto, CallTypes, Points
    <2>2. UNCHANGED <<role, request, attempt, response>>
      BY <1>2 DEF callVars
    <2>3. CallTypes'
      BY <1>1, <2>1, <2>2 DEF CallTypes
    <2>4. CallInv'
      BY <1>1, <2>1, <2>2 DEF CallTypes, CallInv
    <2> QED BY <2>3, <2>4
  <1>3. ASSUME NEW t \in Threads, NEW p \in {"critique", "finish"}, Return(t, p)
        PROVE  CallTypes' /\ CallInv'
    BY <1>1, <1>3, ReturnTypes DEF CallTypes
  <1>4. ASSUME NEW t \in Threads, Ask(t) PROVE CallTypes' /\ CallInv'
    <2>1. PICK r \in Requests :
            /\ request' = [request EXCEPT ![t] = r]
            /\ Goto(t, IF r \in Sampled THEN "attempt" ELSE "lookup")
      BY <1>4 DEF Ask
    <2>2. PICK p \in {"attempt", "lookup"} :
            pc' = [pc EXCEPT ![t] = p] /\ (p = "lookup" => r \notin Sampled)
      BY <2>1 DEF Goto
    <2>3. /\ UNCHANGED <<attempt, response>>
          /\ \E q \in {"generate", "critique"} : role' = [role EXCEPT ![t] = q]
      BY <1>4 DEF Ask
    <2>4. CallTypes'
      BY <1>1, <2>1, <2>2, <2>3 DEF CallTypes, Points
    <2>5. CallInv'
      BY <1>1, <2>1, <2>2, <2>3 DEF CallTypes, CallInv
    <2> QED BY <2>4, <2>5
  <1>5. ASSUME NEW t \in Threads, pc[t] = "lookup", Goto(t, "attempt"), UNCHANGED callVars
        PROVE  CallTypes' /\ CallInv'
    <2>1. pc' = [pc EXCEPT ![t] = "attempt"] /\ UNCHANGED <<role, request, attempt, response>>
      BY <1>5 DEF Goto, callVars
    <2>2. CallTypes'
      BY <1>1, <2>1 DEF CallTypes, Points
    <2>3. CallInv'
      BY <1>1, <1>5, <2>1 DEF CallTypes, CallInv
    <2> QED BY <2>2, <2>3
  <1>6. ASSUME NEW t \in Threads, pc[t] = "tally", request[t] \notin Sampled,
               Goto(t, "store"), UNCHANGED callVars
        PROVE  CallTypes' /\ CallInv'
    <2>1. pc' = [pc EXCEPT ![t] = "store"] /\ UNCHANGED <<role, request, attempt, response>>
      BY <1>6 DEF Goto, callVars
    <2>2. CallTypes'
      BY <1>1, <2>1 DEF CallTypes, Points
    <2>3. CallInv'
      BY <1>1, <1>6, <2>1 DEF CallTypes, CallInv
    <2> QED BY <2>2, <2>3
  <1>7. ASSUME NEW t \in Threads, pc[t] = "attempt", NEW n \in Tokens,
               response' = [response EXCEPT ![t] = Completion(request[t], n)],
               Goto(t, "tally"), UNCHANGED <<role, request, attempt>>
        PROVE  CallTypes' /\ CallInv'
    <2> DEFINE c == Completion(request[t], n)
               A == [answers : Requests \cup {NoRequest}, tokens : Nat]
    <2>1. /\ request[t] \in Requests /\ c \in Answer /\ c.answers = request[t] /\ c \in A
      BY <1>1, <1>7, StackAssumption DEF CallInv, Completion, Answer, StackAssumption
    <2>2. pc' = [pc EXCEPT ![t] = "tally"] /\ response' = [response EXCEPT ![t] = c]
      BY <1>7 DEF Goto
    <2>3. response \in [Threads -> A]
      BY <1>1 DEF CallTypes
    <2> HIDE DEF c, A
    <2>4. response' \in [Threads -> A]
      BY <2>1, <2>2, <2>3
    <2>5. CallTypes'
      BY <1>1, <1>7, <2>2, <2>4 DEF CallTypes, Points, A
    <2>6. CallInv'
      BY <1>1, <1>7, <2>1, <2>2, <2>3 DEF CallTypes, CallInv
    <2> QED BY <2>5, <2>6
  <1>8. ASSUME NEW t \in Threads, attempt[t] < MaxRetries,
               attempt' = [attempt EXCEPT ![t] = @ + 1], UNCHANGED <<pc, role, request, response>>
        PROVE  CallTypes' /\ CallInv'
    <2>1. attempt[t] + 1 \in 0..MaxRetries
      BY <1>1, <1>8, StackAssumption DEF CallTypes, StackAssumption
    <2>2. CallTypes'
      BY <1>1, <1>8, <2>1 DEF CallTypes
    <2>3. CallInv'
      BY <1>1, <1>8 DEF CallInv
    <2> QED BY <2>2, <2>3
  <1>9. ASSUME NEW t \in Threads, Attempt(t) PROVE CallTypes' /\ CallInv'
    <2>1. ASSUME NEW llmError \in BOOLEAN, Fail(t, llmError) PROVE CallTypes' /\ CallInv'
      BY <1>3, <2>1 DEF Fail
    <2>2. pc[t] = "attempt"
      BY <1>9 DEF Attempt
    <2>3. \/ \E n \in Tokens :
               /\ response' = [response EXCEPT ![t] = Completion(request[t], n)]
               /\ Goto(t, "tally") /\ UNCHANGED <<role, request, attempt>>
          \/ /\ attempt[t] < MaxRetries /\ attempt' = [attempt EXCEPT ![t] = @ + 1]
             /\ UNCHANGED <<pc, role, request, response>>
          \/ Fail(t, TRUE) \/ Fail(t, FALSE)
      BY <1>9 DEF Attempt
    <2> QED BY <1>7, <1>8, <2>1, <2>2, <2>3
  <1>10. ASSUME NEW t \in Threads, EndIteration(t) PROVE CallTypes' /\ CallInv'
    BY <1>2, <1>10 DEF EndIteration
  <1>11. ASSUME NEW t \in Threads, Lookup(t) PROVE CallTypes' /\ CallInv'
    BY <1>3, <1>5, <1>11 DEF Lookup
  <1>12. ASSUME NEW t \in Threads, Tally(t) PROVE CallTypes' /\ CallInv'
    BY <1>3, <1>6, <1>12 DEF Tally
  <1>13. ASSUME NEW t \in Threads, Store(t) PROVE CallTypes' /\ CallInv'
    BY <1>3, <1>13 DEF Store
  <1>14. ASSUME NEW t \in Threads, CreateBudget(t) \/ StartRun(t) \/ Boundary(t) \/ Settle(t)
         PROVE  CallTypes' /\ CallInv'
    BY <1>2, <1>14 DEF CreateBudget, StartRun, Boundary, Settle
  <1>15. CASE UNCHANGED vars
    BY <1>1, <1>15 DEF vars, callVars, CallTypes, CallInv
  <1> QED
    BY <1>4, <1>9, <1>10, <1>11, <1>12, <1>13, <1>14, <1>15 DEF Next, Run, Finished

(***************************************************************************)
(* Tallies only grow, so what was read from one stays below it.            *)
(***************************************************************************)
LEMMA TallyGrows ==
  ASSUME StackInv, NEW t \in Threads, Tally(t)
  PROVE  /\ response[t].tokens \in Nat /\ response[t].tokens \in Tokens
         /\ client[t] \in Clients /\ tally[client[t]] \in Usage
         /\ tally' = [tally EXCEPT ![client[t]] = Add(tally[client[t]], response[t].tokens)]
         /\ tally' \in [Clients -> Usage]
         /\ \A k \in Clients : AtMost(tally[k], tally'[k])
  <1>1. response[t].tokens \in Tokens /\ response[t].tokens \in Nat
    BY StackAssumption DEF StackAssumption, Tally, StackInv, CallInv, Answer
  <1>2. client[t] \in Clients /\ tally \in [Clients -> Usage]
    BY DEF StackInv, TypeOK
  <1> DEFINE u == Add(tally[client[t]], response[t].tokens)
  <1>3. u \in Usage /\ AtMost(tally[client[t]], u) /\ tally' = [tally EXCEPT ![client[t]] = u]
    BY <1>1, <1>2, AddUsage DEF Tally
  <1> HIDE DEF u
  <1>4. tally' \in [Clients -> Usage]
    BY <1>2, <1>3
  <1>5. \A k \in Clients : AtMost(tally[k], tally'[k])
    BY <1>2, <1>3, UsageOrder
  <1> QED BY <1>1, <1>2, <1>3, <1>4, <1>5 DEF u

\* Every step keeps the variables of the runs typed and each base below its
\* tally.
LEMMA RunStep ==
  ASSUME StackInv, [Next]_vars
  PROVE  RunTypes' /\ BaseInv'
  <1>1. RunTypes /\ BaseInv /\ \A t \in Threads : client[t] \in Clients
    BY DEF StackInv, TypeOK, RunTypes
  <1>2. ASSUME NEW t \in Threads PROVE tally[client[t]] \in Usage
    BY <1>1 DEF RunTypes
  <1>3. ASSUME UNCHANGED <<client, tally, budgetBase, usageBase>> PROVE BaseInv'
    BY <1>1, <1>3 DEF BaseInv
  <1>4. ASSUME UNCHANGED <<runVars, tally, spent>> PROVE RunTypes' /\ BaseInv'
    BY <1>1, <1>3, <1>4 DEF runVars, RunTypes
  <1>5. ASSUME NEW t \in Threads, CreateBudget(t) PROVE RunTypes' /\ BaseInv'
    <2> DEFINE u == tally[client[t]]
    <2>1. /\ budgetBase' = [budgetBase EXCEPT ![t] = u] /\ u \in Usage /\ AtMost(u, u)
          /\ UNCHANGED <<client, iteration, critiques, usageBase, metrics, tally, spent>>
      BY <1>2, <1>5, UsageOrder DEF CreateBudget
    <2> HIDE DEF u
    <2>2. RunTypes'
      BY <1>1, <2>1 DEF RunTypes
    <2>3. BaseInv'
      BY <1>1, <2>1 DEF RunTypes, BaseInv, u
    <2> QED BY <2>2, <2>3
  <1>6. ASSUME NEW t \in Threads, StartRun(t) PROVE RunTypes' /\ BaseInv'
    <2> DEFINE u == tally[client[t]]
    <2>1. /\ usageBase' = [usageBase EXCEPT ![t] = u] /\ u \in Usage /\ AtMost(u, u)
          /\ UNCHANGED <<client, iteration, critiques, budgetBase, metrics, tally, spent>>
      BY <1>2, <1>6, UsageOrder DEF StartRun
    <2> HIDE DEF u
    <2>2. RunTypes'
      BY <1>1, <2>1 DEF RunTypes
    <2>3. BaseInv'
      BY <1>1, <2>1 DEF RunTypes, BaseInv, u
    <2> QED BY <2>2, <2>3
  <1>7. ASSUME NEW t \in Threads, Boundary(t) PROVE RunTypes' /\ BaseInv'
    <2>1. UNCHANGED <<client, budgetBase, usageBase, metrics, tally, spent>>
      BY <1>7 DEF Boundary
    <2>2. CASE UNCHANGED <<iteration, critiques>>
      BY <1>4, <2>1, <2>2 DEF runVars
    <2>3. CASE /\ iteration[t] # MaxIterations[t]
               /\ iteration' = [iteration EXCEPT ![t] = @ + 1]
               /\ critiques' = [critiques EXCEPT ![t] = MaxCritiques]
      <3>1. /\ MaxIterations[t] \in Nat /\ MaxCritiques \in 0..MaxCritiques
        BY StackAssumption DEF StackAssumption
      <3>2. iteration[t] \in Nat /\ iteration[t] + 1 <= MaxIterations[t]
        BY <1>1, <2>3, <3>1 DEF RunTypes
      <3>3. /\ iteration' \in [Threads -> Nat]
            /\ \A u \in Threads : iteration'[u] <= MaxIterations[u]
        BY <1>1, <2>3, <3>2 DEF RunTypes
      <3>4. critiques' \in [Threads -> 0..MaxCritiques]
        BY <1>1, <2>3, <3>1 DEF RunTypes
      <3> QED BY <1>1, <1>3, <2>1, <3>3, <3>4 DEF RunTypes
    <2> QED BY <1>7, <2>2, <2>3 DEF Boundary
  <1>8. ASSUME NEW t \in Threads, Ask(t) PROVE RunTypes' /\ BaseInv'
    <2>1. /\ UNCHANGED <<client, iteration, budgetBase, usageBase, metrics, tally, spent>>
          /\ \/ UNCHANGED critiques
             \/ critiques[t] > 0 /\ critiques' = [critiques EXCEPT ![t] = @ - 1]
      BY <1>8 DEF Ask
    <2>2. critiques' \in [Threads -> 0..MaxCritiques]
      BY <1>1, <2>1, StackAssumption DEF RunTypes, StackAssumption
    <2> QED BY <1>1, <1>3, <2>1, <2>2 DEF RunTypes
  <1>9. ASSUME NEW t \in Threads, Attempt(t) PROVE RunTypes' /\ BaseInv'
    <2>1. UNCHANGED <<runVars, tally>>
      BY <1>9 DEF Attempt
    <2>2. UNCHANGED spent \/ \E n \in Tokens : spent' = [spent EXCEPT ![t] = Add(spent[t], n)]
      BY <1>9 DEF Attempt
    <2>3. ASSUME NEW n \in Tokens, spent' = [spent EXCEPT ![t] = Add(spent[t], n)]
          PROVE  RunTypes' /\ BaseInv'
      <3> DEFINE u == Add(spent[t], n)
      <3>1. u \in Usage
        BY <1>1, AddUsage, StackAssumption DEF StackAssumption, RunTypes
      <3> HIDE DEF u
      <3>2. spent' \in [Threads -> Usage]
        BY <1>1, <2>3, <3>1 DEF RunTypes, u
      <3> QED BY <1>1, <1>3, <2>1, <3>2 DEF RunTypes, runVars
    <2> QED BY <1>4, <2>1, <2>2, <2>3
  <1>10. ASSUME NEW t \in Threads, Tally(t) PROVE RunTypes' /\ BaseInv'
    <2>1. /\ tally' \in [Clients -> Usage]
          /\ \A k \in Clients : AtMost(tally[k], tally'[k])
      BY <1>10, TallyGrows
    <2>2. UNCHANGED <<runVars, spent>>
      BY <1>10 DEF Tally
    <2>3. RunTypes'
      BY <1>1, <2>1, <2>2 DEF RunTypes, runVars
    <2>4. ASSUME NEW u \in Threads
          PROVE  /\ AtMost(budgetBase[u], tally'[client[u]])
                 /\ AtMost(usageBase[u], tally'[client[u]])
      <3>1. /\ budgetBase[u] \in Usage /\ usageBase[u] \in Usage /\ tally[client[u]] \in Usage
            /\ tally'[client[u]] \in Usage /\ AtMost(tally[client[u]], tally'[client[u]])
        BY <1>1, <1>2, <2>1 DEF RunTypes
      <3>2. AtMost(budgetBase[u], tally[client[u]]) /\ AtMost(usageBase[u], tally[client[u]])
        BY <1>1 DEF BaseInv
      <3> QED BY <3>1, <3>2, UsageOrder
    <2>5. BaseInv'
      BY <2>2, <2>4 DEF BaseInv, runVars
    <2> QED BY <2>3, <2>5
  <1>11. ASSUME NEW t \in Threads, Settle(t) PROVE RunTypes' /\ BaseInv'
    <2> DEFINE u == Minus(tally[client[t]], usageBase[t])
    <2>1. u \in Usage
      <3>1. usageBase[t] \in Usage /\ AtMost(usageBase[t], tally[client[t]])
        BY <1>1 DEF RunTypes, BaseInv
      <3> QED BY <1>2, <3>1, MinusUsage
    <2>2. /\ metrics' = [metrics EXCEPT ![t] = u]
          /\ iteration' = [iteration EXCEPT ![t] = 0] /\ critiques' = [critiques EXCEPT ![t] = 0]
          /\ budgetBase' = [budgetBase EXCEPT ![t] = Zero]
          /\ usageBase' = [usageBase EXCEPT ![t] = Zero]
          /\ UNCHANGED <<client, tally, spent>>
      BY <1>11 DEF Settle
    <2> HIDE DEF u
    <2>3. budgetBase' \in [Threads -> Usage] /\ usageBase' \in [Threads -> Usage]
      BY <1>1, <2>2, UsageOrder DEF RunTypes
    <2>4. metrics' \in [Threads -> Usage]
      BY <1>1, <2>1, <2>2 DEF RunTypes
    <2>5. iteration' \in [Threads -> Nat] /\ \A v \in Threads : iteration'[v] <= MaxIterations[v]
      <3>1. \A v \in Threads : MaxIterations[v] \in Nat
        BY StackAssumption DEF StackAssumption
      <3> QED BY <1>1, <2>2, <3>1 DEF RunTypes
    <2>6. critiques' \in [Threads -> 0..MaxCritiques]
      BY <1>1, <2>2, StackAssumption DEF RunTypes, StackAssumption
    <2>7. RunTypes'
      BY <1>1, <2>2, <2>3, <2>4, <2>5, <2>6 DEF RunTypes
    <2>8. BaseInv'
      BY <1>1, <1>2, <2>2, UsageOrder DEF BaseInv, RunTypes
    <2> QED BY <2>7, <2>8
  <1>12. ASSUME NEW t \in Threads, EndIteration(t) \/ Lookup(t) \/ Store(t)
         PROVE  RunTypes' /\ BaseInv'
    BY <1>4, <1>12 DEF EndIteration, Lookup, Store
  <1>13. CASE UNCHANGED vars
    BY <1>4, <1>13 DEF vars
  <1> QED
    BY <1>5, <1>6, <1>7, <1>8, <1>9, <1>10, <1>11, <1>12, <1>13 DEF Next, Run, Finished

\* Every step keeps the cache the most recently used requests.
LEMMA LruStep ==
  ASSUME StackInv, [Next]_vars
  PROVE  LruInv'
  <1>1. ASSUME UNCHANGED <<entries, recent>> PROVE LruInv'
    BY <1>1 DEF StackInv, LruInv, OrderTypes, UsedOnce, CacheIsLru
  <1>2. ASSUME NEW t \in Threads, Run(t), ~Lookup(t), ~Store(t) PROVE LruInv'
    BY <1>1, <1>2 DEF Run, CreateBudget, StartRun, Boundary, Ask, EndIteration, Attempt, Tally,
       Settle
  <1> QED BY <1>1, <1>2, CacheStep DEF Next, Run, Finished, vars

\* The stack's invariant holds for any threads, clients and cache size.
LEMMA StackInductive == Spec => []StackInv
  <1>1. StackInv /\ [Next]_vars => StackInv'
    <2> SUFFICES ASSUME StackInv, [Next]_vars PROVE StackInv'
      OBVIOUS
    <2>1. CallTypes' /\ CallInv' /\ RunTypes' /\ BaseInv' /\ LruInv'
      BY CallStep, RunStep, LruStep
    <2>2. \A i \in DOMAIN entries' : entries'[i].completion.tokens \in Tokens
      <3>1. ASSUME NEW i \in DOMAIN entries' PROVE entries'[i] \in Entry
        BY <2>1, ElementOfSeq, LenProperties DEF LruInv, OrderTypes
      <3> QED BY <3>1 DEF Entry, Answer
    <2>3. TypeOK'
      BY <2>1, <2>2 DEF TypeOK, CallTypes, RunTypes, Points
    <2> QED BY <2>1, <2>3 DEF StackInv
  <1> QED BY <1>1, StackInit, PTL DEF Spec

(***************************************************************************)
(* TypeOK: no completion is attempted more than max_retries + 1 times, no  *)
(* run passes its iterations, and no usage in a run's metrics is negative, *)
(* whoever else counts on the same client meanwhile.                       *)
(***************************************************************************)
THEOREM StackTypeCorrect == Spec => []TypeOK
  <1>1. StackInv => TypeOK
    BY DEF StackInv
  <1> QED BY <1>1, StackInductive, PTL

(***************************************************************************)
(* CacheIsLru: under every interleaving of the lookups and insertions of   *)
(* any number of runs, the cache holds the most recently used requests, in *)
(* that order, each with a completion of its own.                          *)
(***************************************************************************)
THEOREM CacheKeepsLatest == Spec => []CacheIsLru
  <1>1. StackInv => CacheIsLru
    BY DEF StackInv, LruInv
  <1> QED BY <1>1, StackInductive, PTL

-----------------------------------------------------------------------------
(***************************************************************************)
(* The budget.  Room(t): the completions the current iteration of a run    *)
(* may still pay for.  SpendInv: a run's own consumption is part of what   *)
(* its client has counted since the budget was created.  RoomInv: what the *)
(* run has spent, together with all it may still spend before the budget   *)
(* is polled again, stays below the bound.                                 *)
(***************************************************************************)
Room(t) ==
  (IF pc[t] \in {"generate", "lookup", "attempt"} THEN 1 ELSE 0)
  + (IF pc[t] \in {"generate", "critique", "lookup", "attempt", "tally", "store"}
     THEN critiques[t] ELSE 0)

Covered(s, u, b, w) ==
  /\ s.calls <= u.calls - b.calls + w.calls
  /\ s.tokens <= u.tokens - b.tokens + w.tokens

SpendInv ==
  \A t \in Threads :
    /\ pc[t] \in {"new", "start"} => spent[t] = Zero
    /\ pc[t] \notin {"new", "done"} =>
         Covered(spent[t], tally[client[t]], budgetBase[t], Uncounted(t))

Within(s, room) ==
  /\ MaxTotalTokens > 0 =>
       s.tokens + room * Max(Tokens) < MaxTotalTokens + (1 + MaxCritiques) * Max(Tokens)
  /\ MaxCalls > 0 => s.calls + room < MaxCalls + 1 + MaxCritiques

RoomInv == \A t \in Threads : Within(spent[t], Room(t))

BudgetInv == StackInv /\ SpendInv /\ RoomInv

(***************************************************************************)
(* Room as arithmetic.                                                     *)
(***************************************************************************)
LEMMA WithinLess ==
  ASSUME NEW s \in Usage, NEW r \in Nat, NEW q \in Nat, q <= r, Within(s, r)
  PROVE  Within(s, q)
  <1> DEFINE m == Max(Tokens)
  <1>1. m \in Nat /\ s.tokens \in Nat /\ s.calls \in Nat
    BY MaxToken DEF Usage
  <1>2. MaxTotalTokens \in Nat /\ MaxCalls \in Nat /\ MaxCritiques \in Nat
    BY StackAssumption DEF StackAssumption
  <1> HIDE DEF m
  <1>3. q * m \in Nat /\ r * m \in Nat /\ q * m <= r * m /\ (1 + MaxCritiques) * m \in Nat
    <2>1. (r - q) * m \in Nat /\ r * m = q * m + (r - q) * m
      BY <1>1
    <2> QED BY <1>1, <1>2, <2>1
  <1> QED BY <1>1, <1>2, <1>3 DEF Within, m

\* An answer uses up one call of the room an iteration has left.
LEMMA WithinAnswer ==
  ASSUME NEW s \in Usage, NEW r \in Nat, NEW n \in Tokens, Within(s, r + 1)
  PROVE  Within(Add(s, n), r)
  <1> DEFINE m == Max(Tokens)
  <1>1. m \in Nat /\ s.tokens \in Nat /\ s.calls \in Nat /\ n \in Nat /\ n <= m
    BY MaxToken DEF Usage
  <1>2. MaxTotalTokens \in Nat /\ MaxCalls \in Nat /\ MaxCritiques \in Nat
    BY StackAssumption DEF StackAssumption
  <1>3. Add(s, n).calls = s.calls + 1 /\ Add(s, n).tokens = s.tokens + n
    BY DEF Add
  <1> HIDE DEF m
  <1>4. (r + 1) * m = r * m + m /\ r * m \in Nat /\ (1 + MaxCritiques) * m \in Nat
    BY <1>1, <1>2
  <1> QED BY <1>1, <1>2, <1>3, <1>4 DEF Within, m

\* A run below its limits at the boundary has room for one whole iteration.
LEMMA WithinFresh ==
  ASSUME NEW s \in Usage, MaxTotalTokens > 0 => s.tokens < MaxTotalTokens,
         MaxCalls > 0 => s.calls < MaxCalls
  PROVE  Within(s, 1 + MaxCritiques)
  <1> DEFINE x == (1 + MaxCritiques) * Max(Tokens)
  <1>1. x \in Nat /\ s.tokens \in Nat /\ s.calls \in Nat
        /\ MaxTotalTokens \in Nat /\ MaxCalls \in Nat /\ MaxCritiques \in Nat
    <2>1. Max(Tokens) \in Nat /\ MaxCritiques \in Nat
      BY MaxToken, StackAssumption DEF StackAssumption
    <2> QED BY <2>1, StackAssumption DEF StackAssumption, Usage
  <1> HIDE DEF x
  <1>2. MaxTotalTokens > 0 => s.tokens + x < MaxTotalTokens + x
    BY <1>1
  <1>3. MaxCalls > 0 => s.calls + (1 + MaxCritiques) < MaxCalls + 1 + MaxCritiques
    BY <1>1
  <1> QED BY <1>2, <1>3 DEF Within, x

(***************************************************************************)
(* What a step of one run leaves alone in the others: everything but the   *)
(* tally of their client, which can only grow.                             *)
(***************************************************************************)
LEMMA OthersKeep ==
  ASSUME StackInv, NEW t \in Threads, Run(t)
  PROVE  /\ UNCHANGED client
         /\ \A k \in Clients : AtMost(tally[k], tally'[k])
         /\ \A u \in Threads \ {t} :
              /\ pc'[u] = pc[u] /\ critiques'[u] = critiques[u] /\ response'[u] = response[u]
              /\ spent'[u] = spent[u] /\ budgetBase'[u] = budgetBase[u]
              /\ usageBase'[u] = usageBase[u] /\ metrics'[u] = metrics[u]
  <1> USE DEF runVars, callVars
  <1>1. UNCHANGED client
    BY DEF Run, CreateBudget, StartRun, Boundary, Ask, EndIteration, Lookup, Attempt, Tally,
       Store, Settle
  <1>2. ASSUME NEW k \in Clients PROVE AtMost(tally[k], tally'[k])
    <2>1. CASE Tally(t)
      BY <2>1, TallyGrows
    <2>2. CASE ~Tally(t)
      <3>1. UNCHANGED tally
        BY <2>2 DEF Run, CreateBudget, StartRun, Boundary, Ask, EndIteration, Lookup, Attempt,
           Store, Settle
      <3> QED BY <3>1, UsageOrder DEF StackInv, TypeOK
    <2> QED BY <2>1, <2>2
  <1>3. ASSUME NEW u \in Threads \ {t}
        PROVE  /\ pc'[u] = pc[u] /\ critiques'[u] = critiques[u] /\ response'[u] = response[u]
               /\ spent'[u] = spent[u] /\ budgetBase'[u] = budgetBase[u]
               /\ usageBase'[u] = usageBase[u] /\ metrics'[u] = metrics[u]
    <2> USE DEF StackInv, TypeOK, Goto, Return, Fail
    <2>1. CASE CreateBudget(t) BY <2>1 DEF CreateBudget
    <2>2. CASE StartRun(t) BY <2>2 DEF StartRun
    <2>3. CASE Boundary(t) BY <2>3 DEF Boundary
    <2>4. CASE Ask(t) BY <2>4 DEF Ask
    <2>5. CASE EndIteration(t) BY <2>5 DEF EndIteration
    <2>6. CASE Lookup(t) BY <2>6 DEF Lookup
    <2>7. CASE Attempt(t) BY <2>7 DEF Attempt
    <2>8. CASE Tally(t) BY <2>8 DEF Tally
    <2>9. CASE Store(t) BY <2>9 DEF Store
    <2>10. CASE Settle(t) BY <2>10 DEF Settle
    <2> QED BY <2>1, <2>2, <2>3, <2>4, <2>5, <2>6, <2>7, <2>8, <2>9, <2>10 DEF Run
  <1> QED BY <1>1, <1>2, <1>3

(***************************************************************************)
(* What a step does to the spending of its own run: it pays for nothing    *)
(* new, an answer arrives, an answer is counted, or an iteration begins.   *)
(***************************************************************************)
Quiet(t) ==
  /\ pc[t] # "tally" /\ pc'[t] \notin {"new", "start", "tally"}
  /\ UNCHANGED <<spent, tally>> /\ Room(t)' <= Room(t)
  /\ pc'[t] = "done" \/ (pc[t] # "new" /\ budgetBase'[t] = budgetBase[t])

Answered(t) ==
  /\ pc[t] = "attempt" /\ pc'[t] = "tally" /\ Room(t) = Room(t)' + 1
  /\ UNCHANGED <<tally, budgetBase>>
  /\ \E n \in Tokens : spent'[t] = Add(spent[t], n) /\ response'[t].tokens = n

Counted(t) ==
  /\ pc[t] = "tally" /\ pc'[t] \in {"store", "critique"} /\ Room(t)' = Room(t)
  /\ UNCHANGED <<spent, budgetBase>>
  /\ tally'[client[t]] = Add(tally[client[t]], response[t].tokens)

Began(t) ==
  /\ pc[t] = "boundary" /\ pc'[t] = "generate" /\ Room(t)' = 1 + MaxCritiques
  /\ UNCHANGED <<spent, tally, budgetBase>>
  /\ ~Exhausted(Minus(tally[client[t]], budgetBase[t]))

\* The room left is a number of calls.
LEMMA RoomType ==
  ASSUME TypeOK, NEW t \in Threads
  PROVE  Room(t) \in Nat
  BY StackAssumption DEF StackAssumption, TypeOK, Room

\* What a step of a thread does to its own accounts is one of five things.
LEMMA RunEffect ==
  ASSUME StackInv, NEW t \in Threads, Run(t)
  PROVE  CreateBudget(t) \/ Quiet(t) \/ Answered(t) \/ Counted(t) \/ Began(t)
  <1>0. /\ pc \in [Threads -> Points] /\ critiques \in [Threads -> 0..MaxCritiques]
        /\ MaxCritiques \in Nat
        /\ response \in [Threads -> [answers : Requests \cup {NoRequest}, tokens : Nat]]
        /\ spent \in [Threads -> Usage] /\ client \in [Threads -> Clients]
        /\ tally \in [Clients -> Usage]
    BY StackAssumption DEF StackAssumption, StackInv, TypeOK, Points
  <1> USE DEF runVars, callVars, Goto
  <1>1. CASE StartRun(t)
    BY <1>0, <1>1 DEF StartRun, Quiet, Room
  <1>2. CASE Boundary(t)
    <2>1. CASE Goto(t, "finish") /\ UNCHANGED <<iteration, critiques>>
      BY <1>0, <1>2, <2>1 DEF Boundary, Quiet, Room
    <2>2. CASE /\ ~Exhausted(Minus(tally[client[t]], budgetBase[t])) /\ Goto(t, "generate")
               /\ critiques' = [critiques EXCEPT ![t] = MaxCritiques]
      BY <1>0, <1>2, <2>2 DEF Boundary, Began, Room
    <2> QED BY <1>2, <2>1, <2>2 DEF Boundary
  <1>3. CASE Ask(t)
    <2>1. /\ pc[t] \in {"generate", "critique"} /\ pc'[t] \in {"attempt", "lookup"}
          /\ UNCHANGED <<spent, tally, budgetBase>>
      BY <1>0, <1>3 DEF Ask
    <2>2. CASE pc[t] = "generate" /\ UNCHANGED critiques
      BY <1>0, <2>1, <2>2 DEF Quiet, Room
    <2>3. CASE /\ pc[t] = "critique" /\ critiques[t] > 0
               /\ critiques' = [critiques EXCEPT ![t] = @ - 1]
      BY <1>0, <2>1, <2>3 DEF Quiet, Room
    <2> QED BY <1>3, <2>2, <2>3 DEF Ask
  <1>4. CASE EndIteration(t)
    BY <1>0, <1>4 DEF EndIteration, Quiet, Room
  <1>5. CASE Lookup(t)
    <2>1. /\ pc[t] = "lookup" /\ pc'[t] \in {"critique", "attempt"}
          /\ UNCHANGED <<spent, tally, budgetBase, critiques>>
      BY <1>0, <1>5 DEF Lookup, Return
    <2> QED BY <1>0, <2>1 DEF Quiet, Room
  <1>6. CASE Attempt(t)
    <2>1. pc[t] = "attempt" /\ UNCHANGED <<tally, budgetBase, critiques>>
      BY <1>6 DEF Attempt
    <2>2. ASSUME NEW n \in Tokens,
                 response' = [response EXCEPT ![t] = Completion(request[t], n)],
                 spent' = [spent EXCEPT ![t] = Add(@, n)], Goto(t, "tally")
          PROVE  Answered(t)
      <3>1. response'[t].tokens = n /\ spent'[t] = Add(spent[t], n) /\ pc'[t] = "tally"
        BY <1>0, <2>2 DEF Completion
      <3>2. Room(t) = Room(t)' + 1
        BY <1>0, <2>1, <3>1 DEF Room
      <3> QED BY <2>1, <3>1, <3>2 DEF Answered
    <2>3. ASSUME UNCHANGED spent, pc'[t] \in {"attempt", "critique", "finish"} PROVE Quiet(t)
      BY <1>0, <2>1, <2>3 DEF Quiet, Room
    <2>4. ASSUME NEW llmError \in BOOLEAN, Fail(t, llmError), UNCHANGED spent PROVE Quiet(t)
      BY <1>0, <2>3, <2>4 DEF Fail, Return
    <2> QED BY <1>6, <2>1, <2>2, <2>3, <2>4 DEF Attempt
  <1>7. CASE Tally(t)
    <2>1. /\ pc[t] = "tally" /\ pc'[t] \in {"store", "critique"}
          /\ UNCHANGED <<spent, budgetBase, critiques>>
      BY <1>0, <1>7 DEF Tally, Return
    <2>2. tally'[client[t]] = Add(tally[client[t]], response[t].tokens)
      BY <1>0, <1>7 DEF Tally
    <2> QED BY <1>0, <2>1, <2>2 DEF Counted, Room
  <1>8. CASE Store(t)
    <2>1. pc[t] = "store" /\ pc'[t] = "critique" /\ UNCHANGED <<spent, tally, budgetBase, critiques>>
      BY <1>0, <1>8 DEF Store, Return
    <2> QED BY <1>0, <2>1 DEF Quiet, Room
  <1>9. CASE Settle(t)
    BY <1>0, <1>9 DEF Settle, Quiet, Room
  <1> QED BY <1>1, <1>2, <1>3, <1>4, <1>5, <1>6, <1>7, <1>8, <1>9 DEF Run

\* What a thread has spent and not yet tallied is its answer in hand, if any.
LEMMA UncountedUsage ==
  ASSUME StackInv, NEW t \in Threads
  PROVE  /\ pc[t] # "tally" => Uncounted(t) = Zero
         /\ pc[t] = "tally" => Uncounted(t) = Add(Zero, response[t].tokens)
         /\ response[t].tokens \in Nat
  BY DEF StackInv, TypeOK, Uncounted

\* No thread has spent anything at the start.
LEMMA BudgetInit == Init => BudgetInv
  <1> SUFFICES ASSUME Init PROVE BudgetInv
    OBVIOUS
  <1>1. StackInv /\ SpendInv
    BY StackInit DEF Init, SpendInv
  <1>2. ASSUME NEW t \in Threads PROVE Within(spent[t], Room(t))
    <2>1. spent[t] = Zero /\ Room(t) = 0 /\ Zero \in Usage /\ Zero.calls = 0 /\ Zero.tokens = 0
      BY <1>2, UsageOrder DEF Init, Room, Zero
    <2>2. 1 + MaxCritiques \in Nat /\ 0 <= 1 + MaxCritiques
      BY StackAssumption DEF StackAssumption
    <2>3. Within(Zero, 1 + MaxCritiques)
      BY <2>1, WithinFresh
    <2> QED BY <2>1, <2>2, <2>3, WithinLess
  <1> QED BY <1>1, <1>2 DEF BudgetInv, RoomInv

\* A step of a thread keeps its spending covered by the tally and within its
\* room.
LEMMA RunBudget ==
  ASSUME BudgetInv, StackInv', NEW t \in Threads, Run(t)
  PROVE  SpendInv' /\ RoomInv'
  <1>1. /\ StackInv /\ SpendInv /\ RoomInv
        /\ UNCHANGED client /\ \A u \in Threads : client[u] \in Clients
        /\ \A k \in Clients : AtMost(tally[k], tally'[k])
    BY OthersKeep DEF BudgetInv, StackInv, TypeOK
  <1>2. ASSUME NEW u \in Threads
        PROVE  /\ spent[u] \in Usage /\ spent'[u] \in Usage
               /\ budgetBase[u] \in Usage /\ budgetBase'[u] \in Usage
               /\ tally[client[u]] \in Usage /\ tally'[client[u]] \in Usage
               /\ AtMost(budgetBase[u], tally[client[u]])
               /\ response[u].tokens \in Nat /\ response'[u].tokens \in Nat
               /\ Room(u) \in Nat
    BY <1>1, RoomType DEF StackInv, TypeOK, BaseInv
  <1>3. Room(t)' \in Nat
    BY StackAssumption DEF StackAssumption, StackInv, TypeOK, Room
  <1>4. ASSUME NEW u \in Threads \ {t}
        PROVE  /\ pc'[u] \in {"new", "start"} => spent'[u] = Zero
               /\ pc'[u] \notin {"new", "done"} =>
                    Covered(spent'[u], tally'[client[u]], budgetBase'[u], Uncounted(u)')
               /\ Within(spent'[u], Room(u)')
    <2>1. /\ pc'[u] = pc[u] /\ critiques'[u] = critiques[u] /\ response'[u] = response[u]
          /\ spent'[u] = spent[u] /\ budgetBase'[u] = budgetBase[u]
      BY <1>1, OthersKeep
    <2>2. Uncounted(u)' = Uncounted(u) /\ Room(u)' = Room(u)
      BY <2>1 DEF Uncounted, Room
    <2>3. Uncounted(u).calls \in Nat /\ Uncounted(u).tokens \in Nat
      BY <1>2 DEF Uncounted, Zero, Add
    <2>4. /\ pc[u] \in {"new", "start"} => spent[u] = Zero
          /\ pc[u] \notin {"new", "done"} =>
               Covered(spent[u], tally[client[u]], budgetBase[u], Uncounted(u))
          /\ Within(spent[u], Room(u))
      BY <1>1 DEF SpendInv, RoomInv
    <2>5. AtMost(tally[client[u]], tally'[client[u]])
      BY <1>1
    <2>6. Covered(spent[u], tally[client[u]], budgetBase[u], Uncounted(u)) =>
            Covered(spent[u], tally'[client[u]], budgetBase[u], Uncounted(u))
      BY <1>2, <2>3, <2>5 DEF Covered, AtMost, Usage
    <2> QED BY <2>1, <2>2, <2>4, <2>6
  <1>5. /\ pc'[t] \in {"new", "start"} => spent'[t] = Zero
        /\ pc'[t] \notin {"new", "done"} =>
             Covered(spent'[t], tally'[client[t]], budgetBase'[t], Uncounted(t)')
        /\ Within(spent'[t], Room(t)')
    <2>0. Within(spent[t], Room(t))
      BY <1>1 DEF RoomInv
    <2>1. CASE CreateBudget(t)
      <3>1. /\ pc[t] = "new" /\ pc'[t] = "start" /\ UNCHANGED <<spent, tally, critiques>>
            /\ budgetBase'[t] = tally[client[t]]
        BY <1>1, <2>1 DEF CreateBudget, Goto, StackInv, TypeOK
      <3>2. spent[t] = Zero /\ Room(t) = 0 /\ Room(t)' = 0 /\ Uncounted(t)' = Zero
        BY <1>1, <3>1 DEF SpendInv, Room, Uncounted
      <3>3. Covered(Zero, tally[client[t]], tally[client[t]], Zero)
        BY <1>2 DEF Covered, Zero, Usage
      <3> QED BY <2>0, <3>1, <3>2, <3>3
    <2>2. CASE Quiet(t)
      <3>1. /\ pc[t] # "tally" /\ pc'[t] \notin {"new", "start", "tally"}
            /\ UNCHANGED <<spent, tally>> /\ Room(t)' <= Room(t)
            /\ pc'[t] = "done" \/ (pc[t] # "new" /\ budgetBase'[t] = budgetBase[t])
        BY <2>2 DEF Quiet
      <3>2. Uncounted(t) = Zero /\ Uncounted(t)' = Zero
        BY <3>1 DEF Uncounted
      <3>3. Within(spent'[t], Room(t)')
        BY <1>2, <1>3, <2>0, <3>1, WithinLess
      <3>4. pc[t] # "done"
        BY DEF Run, CreateBudget, StartRun, Boundary, Ask, EndIteration, Lookup, Attempt, Tally,
           Store, Settle
      <3> QED BY <1>1, <3>1, <3>2, <3>3, <3>4 DEF SpendInv
    <2>3. CASE Answered(t)
      <3>1. PICK n \in Tokens : spent'[t] = Add(spent[t], n) /\ response'[t].tokens = n
        BY <2>3 DEF Answered
      <3>2. /\ pc[t] = "attempt" /\ pc'[t] = "tally" /\ Room(t) = Room(t)' + 1
            /\ UNCHANGED <<tally, budgetBase>>
        BY <2>3 DEF Answered
      <3>3. Uncounted(t) = Zero /\ Uncounted(t)' = Add(Zero, n)
        BY <3>1, <3>2 DEF Uncounted
      <3>4. Within(spent'[t], Room(t)')
        BY <1>2, <1>3, <2>0, <3>1, <3>2, WithinAnswer
      <3>5. Covered(spent[t], tally[client[t]], budgetBase[t], Zero)
        BY <1>1, <3>2, <3>3 DEF SpendInv
      <3>6. n \in Nat
        BY MaxToken
      <3>7. Covered(Add(spent[t], n), tally[client[t]], budgetBase[t], Add(Zero, n))
        BY <1>2, <3>5, <3>6 DEF Covered, Add, Zero, Usage
      <3> QED BY <3>1, <3>2, <3>3, <3>4, <3>7
    <2>4. CASE Counted(t)
      <3>1. /\ pc[t] = "tally" /\ pc'[t] \in {"store", "critique"} /\ Room(t)' = Room(t)
            /\ UNCHANGED <<spent, budgetBase>>
            /\ tally'[client[t]] = Add(tally[client[t]], response[t].tokens)
        BY <2>4 DEF Counted
      <3>2. Uncounted(t) = Add(Zero, response[t].tokens) /\ Uncounted(t)' = Zero
        BY <3>1 DEF Uncounted
      <3>3. Covered(spent[t], tally[client[t]], budgetBase[t], Add(Zero, response[t].tokens))
        BY <1>1, <3>1, <3>2 DEF SpendInv
      <3>4. Covered(spent[t], Add(tally[client[t]], response[t].tokens), budgetBase[t], Zero)
        BY <1>2, <3>3 DEF Covered, Add, Zero, Usage
      <3> QED BY <2>0, <3>1, <3>2, <3>4
    <2>5. CASE Began(t)
      <3>1. /\ pc[t] = "boundary" /\ pc'[t] = "generate" /\ Room(t)' = 1 + MaxCritiques
            /\ UNCHANGED <<spent, tally, budgetBase>>
            /\ ~Exhausted(Minus(tally[client[t]], budgetBase[t]))
        BY <2>5 DEF Began
      <3>2. Uncounted(t) = Zero /\ Uncounted(t)' = Zero
        BY <3>1 DEF Uncounted
      <3>3. Covered(spent[t], tally[client[t]], budgetBase[t], Zero)
        BY <1>1, <3>1, <3>2 DEF SpendInv
      <3> DEFINE used == Minus(tally[client[t]], budgetBase[t])
      <3>4. /\ used \in Usage
            /\ used.calls = tally[client[t]].calls - budgetBase[t].calls
            /\ used.tokens = tally[client[t]].tokens - budgetBase[t].tokens
        BY <1>2, MinusUsage
      <3> HIDE DEF used
      <3>5. spent[t].calls <= used.calls /\ spent[t].tokens <= used.tokens
        BY <1>2, <3>3, <3>4 DEF Covered, Zero, Usage
      <3>6. /\ MaxTotalTokens > 0 => used.tokens < MaxTotalTokens
            /\ MaxCalls > 0 => used.calls < MaxCalls
        BY <3>1, <3>4, StackAssumption DEF Exhausted, used, Usage, StackAssumption
      <3>7. /\ MaxTotalTokens > 0 => spent[t].tokens < MaxTotalTokens
            /\ MaxCalls > 0 => spent[t].calls < MaxCalls
        BY <1>2, <3>4, <3>5, <3>6, StackAssumption DEF Usage, StackAssumption
      <3>8. Within(spent[t], 1 + MaxCritiques)
        BY <1>2, <3>7, WithinFresh
      <3> QED BY <3>1, <3>2, <3>3, <3>8
    <2> QED BY <1>1, <2>1, <2>2, <2>3, <2>4, <2>5, RunEffect
  <1>6. ASSUME NEW u \in Threads
        PROVE  /\ pc'[u] \in {"new", "start"} => spent'[u] = Zero
               /\ pc'[u] \notin {"new", "done"} =>
                    Covered(spent'[u], tally'[client'[u]], budgetBase'[u], Uncounted(u)')
               /\ Within(spent'[u], Room(u)')
    BY <1>1, <1>4, <1>5
  <1> QED BY <1>6 DEF SpendInv, RoomInv

\* Spending stays covered by the tallies, and within the room of a budget.
LEMMA BudgetInductive == Spec => []BudgetInv
  <1>1. BudgetInv /\ [Next]_vars /\ StackInv' => BudgetInv'
    <2> SUFFICES ASSUME BudgetInv, [Next]_vars, StackInv' PROVE BudgetInv'
      OBVIOUS
    <2>1. CASE UNCHANGED vars
      BY <2>1 DEF vars, runVars, callVars, BudgetInv, SpendInv, RoomInv, Uncounted, Room
    <2>2. ASSUME NEW t \in Threads, Run(t) PROVE BudgetInv'
      BY <2>2, RunBudget DEF BudgetInv
    <2> QED BY <2>1, <2>2 DEF Next, Finished
  <1> QED BY <1>1, BudgetInit, StackInductive, PTL DEF Spec

(***************************************************************************)
(* OvershootBounded: a run that polls its budget between iterations spends *)
(* less than one iteration beyond it, whatever else is counted on the same *)
(* client, and for every budget and price of a completion.                 *)
(***************************************************************************)
THEOREM OvershootIsBounded == Spec => []OvershootBounded
  <1>1. BudgetInv => OvershootBounded
    <2> SUFFICES ASSUME BudgetInv, NEW t \in Threads
                 PROVE  /\ MaxTotalTokens > 0 =>
                             spent[t].tokens < MaxTotalTokens + (1 + MaxCritiques) * Max(Tokens)
                        /\ MaxCalls > 0 => spent[t].calls < MaxCalls + 1 + MaxCritiques
      BY DEF OvershootBounded
    <2>1. spent[t] \in Usage /\ Room(t) \in Nat /\ Within(spent[t], Room(t))
      BY RoomType DEF BudgetInv, StackInv, TypeOK, RoomInv
    <2>2. Within(spent[t], 0)
      BY <2>1, WithinLess
    <2>3. /\ 0 * Max(Tokens) = 0 /\ spent[t].tokens \in Nat /\ spent[t].calls \in Nat
      BY <2>1, MaxToken DEF Usage
    <2> QED BY <2>2, <2>3 DEF Within
  <1> QED BY <1>1, BudgetInductive, PTL

(***************************************************************************)
(* The books of the accounting clients: a tally is the sum of what its     *)
(* runs have spent and not about to be counted.  A run alone on its client *)
(* measures its metrics from an empty tally.                               *)
(***************************************************************************)
CallsOf  == [t \in Threads |-> spent[t].calls - Uncounted(t).calls]
TokensOf == [t \in Threads |-> spent[t].tokens - Uncounted(t).tokens]

TallyInv ==
  \A k \in Clients : /\ tally[k].calls = Total(CallsOf, Sharing(k))
                     /\ tally[k].tokens = Total(TokensOf, Sharing(k))

AloneInv ==
  \A t \in Threads :
    Sharing(client[t]) = {t} =>
      /\ usageBase[t] = Zero
      /\ pc[t] = "done" => metrics[t] = spent[t]

\* Both sums range over finitely many integers.
LEMMA CountsTyped ==
  ASSUME StackInv
  PROVE  /\ \A u \in Threads : CallsOf[u] \in Int /\ TokensOf[u] \in Int
         /\ \A k : IsFiniteSet(Sharing(k)) /\ Sharing(k) \subseteq Threads
  <1>1. ASSUME NEW u \in Threads PROVE CallsOf[u] \in Int /\ TokensOf[u] \in Int
    <2>1. /\ spent[u].calls \in Int /\ spent[u].tokens \in Int
          /\ CallsOf[u] = spent[u].calls - Uncounted(u).calls
          /\ TokensOf[u] = spent[u].tokens - Uncounted(u).tokens
      BY <1>1 DEF CallsOf, TokensOf, StackInv, TypeOK, Usage
    <2>2. Uncounted(u).calls \in Int /\ Uncounted(u).tokens \in Int
      BY <1>1, UncountedUsage DEF Add, Zero
    <2> QED BY <2>1, <2>2
  <1>2. \A k : Sharing(k) \subseteq Threads
    BY DEF Sharing
  <1> QED BY <1>1, <1>2, FS_Subset, StackAssumption DEF StackAssumption

\* A tally moves by the one answer counted, and the sum with it.
LEMMA RunTally ==
  ASSUME StackInv, StackInv', TallyInv, NEW t \in Threads, Run(t)
  PROVE  TallyInv'
  <1>1. /\ UNCHANGED client /\ client \in [Threads -> Clients]
        /\ \A u \in Threads \ {t} : /\ pc'[u] = pc[u] /\ response'[u] = response[u]
                                    /\ spent'[u] = spent[u]
    BY OthersKeep DEF StackInv, TypeOK
  <1>2. PICK f, g : f = CallsOf /\ g = TokensOf
    OBVIOUS
  <1>3. PICK h, i : h = CallsOf' /\ i = TokensOf'
    OBVIOUS
  <1>4. \A u \in Threads \ {t} : h[u] = f[u] /\ i[u] = g[u]
    BY <1>1, <1>2, <1>3 DEF CallsOf, TokensOf, Uncounted
  <1>5. \A k : Sharing(k)' = Sharing(k)
    BY <1>1 DEF Sharing
  <1>6. /\ \A u \in Threads : f[u] \in Int /\ g[u] \in Int
        /\ \A k : IsFiniteSet(Sharing(k)) /\ Sharing(k) \subseteq Threads
    BY <1>2, CountsTyped
  <1>7. CASE Tally(t)
    <2>1. /\ pc[t] = "tally" /\ pc'[t] # "tally" /\ UNCHANGED spent
          /\ tally' = [tally EXCEPT ![client[t]] = Add(@, response[t].tokens)]
      <3>1. /\ pc[t] = "tally" /\ UNCHANGED spent
            /\ tally' = [tally EXCEPT ![client[t]] = Add(@, response[t].tokens)]
            /\ Goto(t, "critique") \/ Goto(t, "store")
        BY <1>7 DEF Tally, Return
      <3>2. pc \in [Threads -> Points]
        BY DEF StackInv, TypeOK, Points
      <3>3. pc'[t] # "tally"
        BY <3>1, <3>2 DEF Goto
      <3> QED BY <3>1, <3>3
    <2>2. /\ Uncounted(t).calls = 1 /\ Uncounted(t).tokens = response[t].tokens
          /\ Uncounted(t)' = Zero /\ response[t].tokens \in Nat
      <3>1. Uncounted(t) = Add(Zero, response[t].tokens) /\ response[t].tokens \in Nat
        BY <2>1, UncountedUsage
      <3>2. Uncounted(t)' = Zero
        BY <2>1 DEF Uncounted
      <3> QED BY <3>1, <3>2 DEF Add, Zero
    <2>3. spent[t].calls \in Int /\ spent[t].tokens \in Int
      BY DEF StackInv, TypeOK, Usage
    <2>4. h[t] = f[t] + 1 /\ i[t] = g[t] + response[t].tokens
      BY <1>2, <1>3, <2>1, <2>2, <2>3 DEF CallsOf, TokensOf, Zero
    <2>6. \A u \in Threads : h[u] \in Int /\ i[u] \in Int
      BY <1>4, <1>6, <2>2, <2>4
    <2>5. ASSUME NEW k \in Clients
          PROVE  /\ tally'[k].calls = Total(h, Sharing(k))
                 /\ tally'[k].tokens = Total(i, Sharing(k))
      <3>1. /\ tally[k].calls = Total(f, Sharing(k)) /\ tally[k].tokens = Total(g, Sharing(k))
            /\ tally[k] \in Usage
        BY <1>2 DEF TallyInv, StackInv, TypeOK
      <3>2. PICK S : S = Sharing(k)
        OBVIOUS
      <3>3. IsFiniteSet(S) /\ \A u \in S : u \in Threads
        BY <1>6, <3>2
      <3>4. CASE client[t] = k
        <4>1. t \in S
          BY <3>2, <3>4 DEF Sharing
        <4>2. Total(h, S) = Total(f, S) + (h[t] - f[t])
          BY <1>4, <1>6, <2>6, <3>3, <4>1, TotalChange
        <4>3. Total(i, S) = Total(g, S) + (i[t] - g[t])
          BY <1>4, <1>6, <2>6, <3>3, <4>1, TotalChange
        <4>4. tally'[k] = Add(tally[k], response[t].tokens)
          BY <2>1, <3>4 DEF StackInv, TypeOK
        <4>5. h[t] - f[t] = 1 /\ i[t] - g[t] = response[t].tokens
          BY <1>6, <2>2, <2>4
        <4> QED BY <3>1, <3>2, <4>2, <4>3, <4>4, <4>5 DEF Add
      <3>5. CASE client[t] # k
        <4>1. t \notin S
          BY <3>2, <3>5 DEF Sharing
        <4>2. Total(h, S) = Total(f, S) /\ Total(i, S) = Total(g, S)
          BY <1>4, <3>3, <4>1, TotalSame
        <4>3. tally'[k] = tally[k]
          BY <2>1, <3>5 DEF StackInv, TypeOK
        <4> QED BY <3>1, <3>2, <4>2, <4>3
      <3> QED BY <3>4, <3>5
    <2> QED BY <1>3, <1>5, <2>5 DEF TallyInv
  <1>8. CASE ~Tally(t)
    <2>1. UNCHANGED tally /\ pc[t] # "tally"
      BY <1>8 DEF Run, CreateBudget, StartRun, Boundary, Ask, EndIteration, Lookup, Attempt,
         Store, Settle
    <2>2. h[t] = f[t] /\ i[t] = g[t]
      <3>1. Uncounted(t) = Zero /\ spent[t] \in Usage
        BY <2>1, UncountedUsage DEF StackInv, TypeOK
      <3>2. CASE Answered(t)
        <4>1. PICK n \in Tokens : spent'[t] = Add(spent[t], n) /\ response'[t].tokens = n
          BY <3>2 DEF Answered
        <4>2. Uncounted(t)' = Add(Zero, n) /\ n \in Nat
          BY <3>2, <4>1, MaxToken DEF Answered, Uncounted
        <4> QED BY <1>2, <1>3, <3>1, <4>1, <4>2 DEF CallsOf, TokensOf, Add, Zero, Usage
      <3>3. CASE CreateBudget(t) \/ Quiet(t) \/ Began(t)
        <4>1. UNCHANGED spent /\ pc'[t] # "tally"
          BY <3>3 DEF CreateBudget, Goto, Quiet, Began, StackInv, TypeOK
        <4>2. Uncounted(t)' = Zero
          BY <4>1 DEF Uncounted
        <4> QED BY <1>2, <1>3, <3>1, <4>1, <4>2 DEF CallsOf, TokensOf
      <3> QED BY <2>1, <3>2, <3>3, RunEffect DEF Counted
    <2>3. ASSUME NEW k \in Clients
          PROVE  /\ Total(h, Sharing(k)) = Total(f, Sharing(k))
                 /\ Total(i, Sharing(k)) = Total(g, Sharing(k))
      <3>1. PICK S : S = Sharing(k)
        OBVIOUS
      <3>2. IsFiniteSet(S) /\ \A u \in S : h[u] = f[u] /\ i[u] = g[u]
        BY <1>4, <1>6, <2>2, <3>1
      <3> QED BY <3>1, <3>2, TotalSame
    <2> QED BY <1>2, <1>3, <1>5, <2>1, <2>3 DEF TallyInv
  <1> QED BY <1>7, <1>8

\* What a run alone on its client finds in its tally is what it has spent.
LEMMA AloneTally ==
  ASSUME StackInv, TallyInv, NEW t \in Threads, Sharing(client[t]) = {t},
         pc[t] # "tally"
  PROVE  tally[client[t]] = spent[t]
  <1>1. tally[client[t]] \in Usage /\ spent[t] \in Usage
    BY DEF StackInv, TypeOK
  <1>2. PICK f, g : f = CallsOf /\ g = TokensOf
    OBVIOUS
  <1>3. /\ tally[client[t]].calls = Total(f, {t}) /\ tally[client[t]].tokens = Total(g, {t})
    BY <1>2 DEF TallyInv, StackInv, TypeOK
  <1>4. \A v : v[t] \in Int => Total(v, {t}) = v[t]
    <2> TAKE v
    <2> HAVE v[t] \in Int
    <2>1. Total(v, {} \cup {t}) = v[t] + Total(v, {})
      BY FS_EmptySet, TotalAdd
    <2> QED BY <2>1, TotalEmpty
  <1>5. f[t] = spent[t].calls /\ g[t] = spent[t].tokens
    BY <1>1, <1>2, UncountedUsage DEF CallsOf, TokensOf, Zero, Usage
  <1>6. /\ tally[client[t]].calls = spent[t].calls
        /\ tally[client[t]].tokens = spent[t].tokens
    BY <1>1, <1>3, <1>4, <1>5 DEF Usage
  <1> QED BY <1>1, <1>6 DEF Usage

\* So its metrics are measured from nothing, and are what it spent.
LEMMA RunAlone ==
  ASSUME BudgetInv, StackInv', TallyInv, TallyInv', AloneInv, NEW t \in Threads, Run(t)
  PROVE  AloneInv'
  <1>1. /\ StackInv /\ UNCHANGED client
        /\ \A u \in Threads \ {t} :
             /\ pc'[u] = pc[u] /\ spent'[u] = spent[u]
             /\ usageBase'[u] = usageBase[u] /\ metrics'[u] = metrics[u]
    BY OthersKeep DEF BudgetInv
  <1>2. \A k : Sharing(k)' = Sharing(k)
    BY <1>1 DEF Sharing
  <1>3. ASSUME Sharing(client[t]) = {t}
        PROVE  /\ usageBase'[t] = Zero
               /\ pc'[t] = "done" => metrics'[t] = spent'[t]
    <2>0. usageBase[t] = Zero /\ spent[t] \in Usage /\ pc \in [Threads -> Points]
          /\ usageBase \in [Threads -> Usage] /\ metrics \in [Threads -> Usage]
      BY <1>1, <1>3 DEF AloneInv, StackInv, TypeOK, Points
    <2>1. CASE StartRun(t)
      <3>1. spent[t] = Zero /\ pc[t] = "start" /\ pc'[t] = "boundary"
        BY <2>0, <2>1 DEF BudgetInv, SpendInv, StartRun, Goto
      <3>2. tally[client[t]] = Zero
        BY <1>1, <1>3, <3>1, AloneTally
      <3> QED BY <2>0, <2>1, <3>1, <3>2 DEF StartRun
    <2>2. CASE Settle(t)
      <3>1. tally[client[t]] = spent[t]
        BY <1>1, <1>3, <2>2, AloneTally DEF Settle
      <3>2. metrics'[t] = Minus(spent[t], Zero) /\ spent'[t] = spent[t]
            /\ usageBase'[t] = Zero
        BY <2>0, <2>2, <3>1 DEF Settle
      <3>3. Minus(spent[t], Zero) = spent[t]
        BY <2>0 DEF Minus, Zero, Usage
      <3> QED BY <3>2, <3>3
    <2>3. CASE ~StartRun(t) /\ ~Settle(t)
      <3>1. UNCHANGED usageBase /\ pc'[t] # "done"
        BY <2>0, <2>3 DEF Run, CreateBudget, Boundary, Ask, EndIteration, Lookup, Attempt,
           Tally, Store, Return, Fail, Goto, runVars
      <3> QED BY <2>0, <3>1
    <2> QED BY <2>1, <2>2, <2>3
  <1>4. ASSUME NEW u \in Threads \ {t}, Sharing(client[u]) = {u}
        PROVE  /\ usageBase'[u] = Zero
               /\ pc'[u] = "done" => metrics'[u] = spent'[u]
    BY <1>1, <1>4 DEF AloneInv
  <1> QED BY <1>1, <1>2, <1>3, <1>4 DEF AloneInv

(***************************************************************************)
(* UsageHonest: however runs share accounting clients and whatever fails   *)
(* or hits the cache, a tally is the sum of what its runs were charged,    *)
(* and the metrics of a run alone on its client are its own consumption.   *)
(***************************************************************************)
THEOREM UsageIsHonest == Spec => []UsageHonest
  <1>1. Init => TallyInv /\ AloneInv
    <2> SUFFICES ASSUME Init PROVE TallyInv /\ AloneInv
      OBVIOUS
    <2>1. StackInv
      BY StackInit
    <2>2. \A t \in Threads : CallsOf[t] = 0 /\ TokensOf[t] = 0
      BY DEF Init, CallsOf, TokensOf, Uncounted, Zero
    <2>3. ASSUME NEW k \in Clients
          PROVE  Total(CallsOf, Sharing(k)) = 0 /\ Total(TokensOf, Sharing(k)) = 0
      <3>1. PICK S, f, g : S = Sharing(k) /\ f = CallsOf /\ g = TokensOf
        OBVIOUS
      <3>2. IsFiniteSet(S) /\ \A u \in S : f[u] = 0 /\ g[u] = 0
        BY <2>1, <2>2, <3>1, CountsTyped
      <3> QED BY <3>1, <3>2, TotalZero
    <2>4. TallyInv
      BY <2>3 DEF TallyInv, Init, Zero
    <2> QED BY <2>4 DEF Init, AloneInv
  <1>2. BudgetInv /\ TallyInv /\ AloneInv /\ [Next]_vars /\ StackInv' => TallyInv' /\ AloneInv'
    <2> SUFFICES ASSUME BudgetInv, TallyInv, AloneInv, [Next]_vars, StackInv'
                 PROVE  TallyInv' /\ AloneInv'
      OBVIOUS
    <2>1. CASE UNCHANGED vars
      <3>1. /\ CallsOf' = CallsOf /\ TokensOf' = TokensOf /\ tally' = tally
            /\ \A k : Sharing(k)' = Sharing(k)
        BY <2>1 DEF vars, runVars, callVars, CallsOf, TokensOf, Uncounted, Sharing
      <3> QED BY <2>1, <3>1 DEF vars, runVars, TallyInv, AloneInv
    <2>2. ASSUME NEW t \in Threads, Run(t) PROVE TallyInv' /\ AloneInv'
      <3>1. TallyInv'
        BY <2>2, RunTally DEF BudgetInv
      <3> QED BY <2>2, <3>1, RunAlone
    <2> QED BY <2>1, <2>2 DEF Next, Finished
  <1>3. TallyInv /\ AloneInv => UsageHonest
    BY DEF TallyInv, AloneInv, UsageHonest, CallsOf, TokensOf, Total, Sum
  <1>4. Spec => []BudgetInv
    BY BudgetInductive
  <1> QED BY <1>1, <1>2, <1>3, <1>4, StackInductive, PTL DEF Spec
-----------------------------------------------------------------------------
(***************************************************************************)
(* How far a run is from its end: the stage it is in, the iterations left, *)
(* the completions left in this one, the way this completion still has to  *)
(* go, and its retries left.  The first of the five that changes decides.  *)
(***************************************************************************)
StageLeft(point) ==
  CASE point = "new" -> 4
    [] point = "start" -> 3
    [] point = "finish" -> 1
    [] point = "done" -> 0
    [] OTHER -> 2

AsksLeft(point, c) ==
  CASE point = "generate" -> c + 2
    [] point \in {"critique", "lookup", "attempt", "tally", "store"} -> c + 1
    [] OTHER -> 0

WayLeft(point) ==
  CASE point = "lookup" -> 4
    [] point = "attempt" -> 3
    [] point = "tally" -> 2
    [] point = "store" -> 1
    [] OTHER -> 0

RetriesLeft(point, n) == IF point = "attempt" THEN MaxRetries - n ELSE 0

ToGo(t) == <<StageLeft(pc[t]), MaxIterations[t] - iteration[t],
             AsksLeft(pc[t], critiques[t]), WayLeft(pc[t]),
             RetriesLeft(pc[t], attempt[t])>>

Less(from, to) ==
  \/ to[1] < from[1]
  \/ to[1] = from[1] /\ to[2] < from[2]
  \/ to[1] = from[1] /\ to[2] = from[2] /\ to[3] < from[3]
  \/ to[1] = from[1] /\ to[2] = from[2] /\ to[3] = from[3] /\ to[4] < from[4]
  \/ /\ to[1] = from[1] /\ to[2] = from[2] /\ to[3] = from[3] /\ to[4] = from[4]
     /\ to[5] < from[5]

\* The counters of a run, with its variables as numbers.
LEMMA FirstOfFive ==
  ASSUME NEW a, NEW b, NEW c, NEW d, NEW e, NEW v, NEW w, NEW x, NEW y, NEW z,
         \/ v < a
         \/ v = a /\ w < b
         \/ v = a /\ w = b /\ x < c
         \/ v = a /\ w = b /\ x = c /\ y < d
         \/ v = a /\ w = b /\ x = c /\ y = d /\ z < e
  PROVE  Less(<<a, b, c, d, e>>, <<v, w, x, y, z>>)
  <1> DEFINE from == <<a, b, c, d, e>>
             to == <<v, w, x, y, z>>
  <1>1. /\ from[1] = a /\ from[2] = b /\ from[3] = c /\ from[4] = d /\ from[5] = e
        /\ to[1] = v /\ to[2] = w /\ to[3] = x /\ to[4] = y /\ to[5] = z
    OBVIOUS
  <1> HIDE DEF from, to
  <1>2. Less(from, to)
    BY <1>1 DEF Less
  <1> QED BY <1>2 DEF from, to

\* What is read off the points of a run.
LEMMA PointTable ==
  /\ StageLeft("new") = 4 /\ StageLeft("start") = 3 /\ StageLeft("finish") = 1
  /\ StageLeft("done") = 0
  /\ \A p \in {"boundary", "generate", "critique", "lookup", "attempt", "tally", "store"} :
       StageLeft(p) = 2
  /\ WayLeft("lookup") = 4 /\ WayLeft("attempt") = 3 /\ WayLeft("tally") = 2
  /\ WayLeft("store") = 1 /\ WayLeft("critique") = 0
  /\ \A c : /\ AsksLeft("generate", c) = c + 2 /\ AsksLeft("boundary", c) = 0
            /\ \A p \in {"critique", "lookup", "attempt", "tally", "store"} :
                 AsksLeft(p, c) = c + 1
  BY DEF StageLeft, WayLeft, AsksLeft

\* The counters are natural numbers.
LEMMA ToGoNat ==
  ASSUME TypeOK, NEW t \in Threads
  PROVE  \A i \in 1..5 : ToGo(t)[i] \in Nat
  <1>1. /\ iteration[t] \in Nat /\ iteration[t] <= MaxIterations[t]
        /\ MaxIterations[t] \in Nat /\ critiques[t] \in Nat
        /\ attempt[t] \in 0..MaxRetries /\ MaxRetries \in Nat
    BY StackAssumption DEF StackAssumption, TypeOK
  <1>2. StageLeft(pc[t]) \in Nat /\ WayLeft(pc[t]) \in Nat
    BY DEF StageLeft, WayLeft
  <1>3. AsksLeft(pc[t], critiques[t]) \in Nat /\ RetriesLeft(pc[t], attempt[t]) \in Nat
    BY <1>1 DEF AsksLeft, RetriesLeft
  <1>4. MaxIterations[t] - iteration[t] \in Nat
    BY <1>1
  <1> QED BY <1>2, <1>3, <1>4 DEF ToGo

\* A step of a run brings it nearer to its end.
LEMMA StepNearer ==
  ASSUME TypeOK, NEW t \in Threads, Run(t)
  PROVE  Less(ToGo(t), ToGo(t)')
  <1>1. /\ pc \in [Threads -> Points] /\ attempt \in [Threads -> 0..MaxRetries]
        /\ iteration \in [Threads -> Nat] /\ critiques \in [Threads -> 0..MaxCritiques]
        /\ MaxIterations[t] \in Nat /\ MaxRetries \in Nat /\ MaxCritiques \in Nat
        /\ iteration[t] <= MaxIterations[t]
    BY StackAssumption DEF StackAssumption, TypeOK, Points
  <1>2. ASSUME \/ StageLeft(pc'[t]) < StageLeft(pc[t])
               \/ /\ StageLeft(pc'[t]) = StageLeft(pc[t])
                  /\ iteration'[t] = iteration[t] + 1
               \/ /\ StageLeft(pc'[t]) = StageLeft(pc[t]) /\ iteration'[t] = iteration[t]
                  /\ AsksLeft(pc'[t], critiques'[t]) < AsksLeft(pc[t], critiques[t])
               \/ /\ StageLeft(pc'[t]) = StageLeft(pc[t]) /\ iteration'[t] = iteration[t]
                  /\ AsksLeft(pc'[t], critiques'[t]) = AsksLeft(pc[t], critiques[t])
                  /\ WayLeft(pc'[t]) < WayLeft(pc[t])
               \/ /\ pc'[t] = pc[t] /\ iteration'[t] = iteration[t]
                  /\ critiques'[t] = critiques[t]
                  /\ RetriesLeft(pc'[t], attempt'[t]) < RetriesLeft(pc[t], attempt[t])
        PROVE  Less(ToGo(t), ToGo(t)')
    <2>1. iteration'[t] = iteration[t] + 1 =>
            MaxIterations[t] - iteration'[t] < MaxIterations[t] - iteration[t]
      BY <1>1
    <2> QED BY <1>2, <2>1, FirstOfFive DEF ToGo
  <1>3. CASE CreateBudget(t) \/ StartRun(t) \/ Settle(t)
    <2>1. \/ pc[t] = "new" /\ pc'[t] = "start"
          \/ pc[t] = "start" /\ pc'[t] = "boundary"
          \/ pc[t] = "finish" /\ pc'[t] = "done"
      BY <1>1, <1>3 DEF CreateBudget, StartRun, Settle, Goto
    <2> QED BY <1>2, <2>1, PointTable
  <1>4. CASE Boundary(t)
    <2>1. pc[t] = "boundary" /\ pc'[t] \in {"finish", "generate"}
          /\ (pc'[t] = "generate" => iteration'[t] = iteration[t] + 1)
      BY <1>1, <1>4 DEF Boundary, Goto
    <2> QED BY <1>2, <2>1, PointTable
  <1>5. CASE Ask(t)
    <2>1. /\ pc'[t] \in {"lookup", "attempt"} /\ iteration'[t] = iteration[t]
          /\ \/ pc[t] = "generate" /\ critiques'[t] = critiques[t]
             \/ pc[t] = "critique" /\ critiques'[t] = critiques[t] - 1
      BY <1>1, <1>5 DEF Ask, Goto
    <2>2. critiques[t] \in Nat
      BY <1>1
    <2>3. AsksLeft(pc'[t], critiques'[t]) < AsksLeft(pc[t], critiques[t])
      BY <2>1, <2>2, PointTable
    <2> QED BY <1>2, <2>1, <2>3, PointTable
  <1>6. CASE EndIteration(t)
    <2>1. pc[t] = "critique" /\ pc'[t] \in {"boundary", "finish"}
          /\ UNCHANGED <<iteration, critiques>>
      BY <1>1, <1>6 DEF EndIteration, Goto, runVars
    <2>2. critiques[t] \in Nat
      BY <1>1
    <2> QED BY <1>2, <2>1, <2>2, PointTable
  <1>7. ASSUME pc[t] \in {"lookup", "attempt", "tally", "store"},
               NEW point \in {"critique", "finish"}, Return(t, point),
               UNCHANGED <<iteration, critiques>>
        PROVE  Less(ToGo(t), ToGo(t)')
    <2>1. pc'[t] = point
      BY <1>1, <1>7 DEF Return, Goto
    <2> QED BY <1>2, <1>7, <2>1, PointTable
  <1>8. CASE Lookup(t)
    <2>1. UNCHANGED <<iteration, critiques>> /\ pc[t] = "lookup"
          /\ (Return(t, "critique") \/ Goto(t, "attempt"))
      BY <1>8 DEF Lookup, runVars
    <2>2. CASE Goto(t, "attempt")
      <3>1. pc'[t] = "attempt"
        BY <1>1, <2>2 DEF Goto
      <3> QED BY <1>2, <2>1, <3>1, PointTable
    <2> QED BY <1>7, <2>1, <2>2
  <1>9. CASE Attempt(t)
    <2>1. UNCHANGED <<iteration, critiques>> /\ pc[t] = "attempt"
      BY <1>9 DEF Attempt, runVars
    <2>2. CASE Goto(t, "tally")
      <3>1. pc'[t] = "tally"
        BY <1>1, <2>2 DEF Goto
      <3> QED BY <1>2, <2>1, <3>1, PointTable
    <2>3. CASE /\ attempt[t] < MaxRetries /\ UNCHANGED pc
               /\ attempt' = [attempt EXCEPT ![t] = @ + 1]
      <3>1. attempt'[t] = attempt[t] + 1 /\ attempt[t] \in Nat
        BY <1>1, <2>3
      <3>2. RetriesLeft(pc'[t], attempt'[t]) < RetriesLeft(pc[t], attempt[t])
        BY <1>1, <2>1, <2>3, <3>1 DEF RetriesLeft
      <3> QED BY <1>2, <2>1, <2>3, <3>2
    <2>4. CASE Fail(t, TRUE) \/ Fail(t, FALSE)
      <3>1. \E point \in {"critique", "finish"} : Return(t, point)
        BY <2>4 DEF Fail
      <3> QED BY <1>7, <2>1, <3>1
    <2> QED BY <1>9, <2>2, <2>3, <2>4 DEF Attempt
  <1>10. CASE Tally(t)
    <2>1. UNCHANGED <<iteration, critiques>> /\ pc[t] = "tally"
          /\ (Return(t, "critique") \/ Goto(t, "store"))
      BY <1>10 DEF Tally, runVars
    <2>2. CASE Goto(t, "store")
      <3>1. pc'[t] = "store"
        BY <1>1, <2>2 DEF Goto
      <3> QED BY <1>2, <2>1, <3>1, PointTable
    <2> QED BY <1>7, <2>1, <2>2
  <1>11. CASE Store(t)
    <2>1. UNCHANGED <<iteration, critiques>> /\ pc[t] = "store" /\ Return(t, "critique")
      BY <1>11 DEF Store, runVars
    <2> QED BY <1>7, <2>1
  <1> QED
    BY <1>3, <1>4, <1>5, <1>6, <1>8, <1>9, <1>10, <1>11 DEF Run

\* A step of a run leaves how far the others are.
LEMMA OthersStay ==
  ASSUME TypeOK, NEW u \in Threads, Run(u), NEW t \in Threads, t # u
  PROVE  ToGo(t)' = ToGo(t)
  <1>1. /\ pc'[t] = pc[t] /\ iteration'[t] = iteration[t]
        /\ critiques'[t] = critiques[t] /\ attempt'[t] = attempt[t]
    BY DEF TypeOK, Run, CreateBudget, StartRun, Boundary, Ask, EndIteration, Lookup, Attempt,
       Tally, Store, Settle, Fail, Return, Goto, runVars, callVars
  <1> QED BY <1>1 DEF ToGo

(***************************************************************************)
(* Whatever the backend answers, however often an attempt is retried, and  *)
(* whoever else uses the cache and the client: each step of a run brings   *)
(* it nearer to its end and no step of another run sets it back, so no     *)
(* retry or cache miss keeps a run going round.                            *)
(***************************************************************************)
THEOREM RunsGetNearer ==
  Spec => [][ \A t \in Threads :
                /\ \A i \in 1..5 : ToGo(t)[i] \in Nat
                /\ IF Run(t) THEN Less(ToGo(t), ToGo(t)')
                             ELSE ToGo(t)' = ToGo(t) ]_vars
  <1>1. ASSUME TypeOK, Next, vars' # vars, NEW t \in Threads
        PROVE  /\ \A i \in 1..5 : ToGo(t)[i] \in Nat
               /\ IF Run(t) THEN Less(ToGo(t), ToGo(t)') ELSE ToGo(t)' = ToGo(t)
    <2>1. PICK u \in Threads : Run(u)
      BY <1>1 DEF Next, Finished
    <2>2. Run(t) => Less(ToGo(t), ToGo(t)')
      BY <1>1, StepNearer
    <2>3. ~Run(t) => ToGo(t)' = ToGo(t)
      BY <1>1, <2>1, OthersStay
    <2>4. \A i \in 1..5 : ToGo(t)[i] \in Nat
      BY <1>1, ToGoNat
    <2> QED BY <2>2, <2>3, <2>4
  <1>2. TypeOK /\ [Next]_vars =>
          [ \A t \in Threads :
              /\ \A i \in 1..5 : ToGo(t)[i] \in Nat
              /\ IF Run(t) THEN Less(ToGo(t), ToGo(t)')
                           ELSE ToGo(t)' = ToGo(t) ]_vars
    BY <1>1
  <1> QED BY <1>2, StackTypeCorrect, PTL DEF Spec
=============================================================================
