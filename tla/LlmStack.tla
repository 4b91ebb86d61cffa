------------------------------ MODULE LlmStack ------------------------------
(***************************************************************************)
(* The completion path of the runs of an LLM session: the cache shared by  *)
(* the sessions of a server (llm/caching.py), the accounting client        *)
(* (observability/accounting.py), the retrying HTTP client                 *)
(* (llm/openai_compatible.py), and the token budget each run polls between *)
(* iterations (observability/budget.py).                                   *)
(*                                                                         *)
(* A thread is one run: an iteration asks the generator's completion and   *)
(* then any number of the critic's, up to MaxCritiques.  A completion is   *)
(* the request it answers with the tokens the backend reported.  The lock  *)
(* of the cache covers one lookup or one insertion, each of them a step.   *)
(* The accounting client has no lock; CPython switches threads at calls    *)
(* and backward jumps only, of which its three additions have none, so     *)
(* they are one step too.                                                  *)
(***************************************************************************)
EXTENDS Integers, Sequences, FiniteSets, FiniteSetsExt, SequencesExt

CONSTANTS
  Threads, Clients,
  Assignments,      \* which accounting client a run may have been given
  Requests,         \* what a run may ask
  Sampled,          \* the requests with a temperature above 0, never cached
  Tokens,           \* what the backend may report for one completion
  MaxEntries,       \* CompletionCache.max_entries
  MaxRetries,       \* OpenAICompatibleClient.max_retries
  MaxTotalTokens, MaxCalls,    \* TokenBudget; 0: no ceiling
  MaxIterations,    \* SearchConfig.max_iterations of each run
  MaxCritiques,     \* bound: critic completions per iteration
  Prompt            \* the threads whose backend answers every attempt

ASSUME StackAssumption ==
  /\ IsFiniteSet(Threads)
  /\ Assignments \subseteq [Threads -> Clients]
  /\ Sampled \subseteq Requests /\ "none" \notin Requests
  /\ Tokens \subseteq Nat /\ Tokens # {} /\ IsFiniteSet(Tokens)
  /\ MaxEntries \in Nat \ {0}
  /\ MaxRetries \in Nat /\ MaxTotalTokens \in Nat /\ MaxCalls \in Nat
  /\ MaxIterations \in [Threads -> Nat \ {0}] /\ MaxCritiques \in Nat
  /\ Prompt \subseteq Threads

VARIABLES
  client,      \* the accounting client of each run
  tally,       \* calls and tokens counted by each accounting client
  entries,     \* CompletionCache._entries, least recently used first
  pc,          \* where the run is
  iteration,   \* its loop counter
  critiques,   \* critic completions it may still ask for in this iteration
  role,        \* who asked for the current completion
  request,     \* its request
  attempt,     \* retries made for it
  response,    \* the backend's answer
  budgetBase,  \* TokenBudget._baseline
  usageBase,   \* the session's usage when the run started
  metrics,     \* RunMetrics.token_usage
  spent,       \* what the backend reported to this run
  recent       \* the cacheable requests used so far, each once, latest last

runVars  == <<client, iteration, critiques, budgetBase, usageBase, metrics>>
callVars == <<role, request, attempt, response>>
vars == <<runVars, callVars, tally, entries, pc, spent, recent>>

Zero == [calls |-> 0, tokens |-> 0]

Add(u, n)   == [calls |-> u.calls + 1, tokens |-> u.tokens + n]
Minus(u, v) == [calls |-> u.calls - v.calls, tokens |-> u.tokens - v.tokens]

NoRequest        == "none"
Completion(r, n) == [answers |-> r, tokens |-> n]
NoCompletion     == Completion(NoRequest, 0)

Init ==
  /\ client \in Assignments
  /\ tally = [k \in Clients |-> Zero]
  /\ entries = <<>> /\ recent = <<>>
  /\ pc = [t \in Threads |-> "new"]
  /\ iteration = [t \in Threads |-> 0]
  /\ critiques = [t \in Threads |-> 0]
  /\ role = [t \in Threads |-> "none"]
  /\ request = [t \in Threads |-> NoRequest]
  /\ attempt = [t \in Threads |-> 0]
  /\ response = [t \in Threads |-> NoCompletion]
  /\ budgetBase = [t \in Threads |-> Zero]
  /\ usageBase = [t \in Threads |-> Zero]
  /\ metrics = [t \in Threads |-> Zero]
  /\ spent = [t \in Threads |-> Zero]

Goto(t, point) == pc' = [pc EXCEPT ![t] = point]

(***************************************************************************)
(* The controller factory creates the run's budget; the worker then reads  *)
(* the usage that the metrics are measured from.                           *)
(***************************************************************************)
CreateBudget(t) ==
  /\ pc[t] = "new" /\ Goto(t, "start")
  /\ budgetBase' = [budgetBase EXCEPT ![t] = tally[client[t]]]
  /\ UNCHANGED <<client, iteration, critiques, usageBase, metrics, callVars,
                 tally, entries, spent, recent>>

StartRun(t) ==
  /\ pc[t] = "start" /\ Goto(t, "boundary")
  /\ usageBase' = [usageBase EXCEPT ![t] = tally[client[t]]]
  /\ UNCHANGED <<client, iteration, critiques, budgetBase, metrics, callVars,
                 tally, entries, spent, recent>>

(***************************************************************************)
(* TokenBudget.check(), polled between iterations.                         *)
(***************************************************************************)
\* Mutant: the ceiling has to be passed, not reached.
ExhaustedLate(used) ==
  \/ MaxTotalTokens > 0 /\ used.tokens > MaxTotalTokens
  \/ MaxCalls > 0 /\ used.calls > MaxCalls

Exhausted(used) ==
  \/ MaxTotalTokens > 0 /\ used.tokens >= MaxTotalTokens
  \/ MaxCalls > 0 /\ used.calls >= MaxCalls

Boundary(t) ==
  /\ pc[t] = "boundary"
  /\ IF iteration[t] = MaxIterations[t]
        \/ Exhausted(Minus(tally[client[t]], budgetBase[t]))
     THEN Goto(t, "finish") /\ UNCHANGED <<iteration, critiques>>
     ELSE /\ Goto(t, "generate")
          /\ iteration' = [iteration EXCEPT ![t] = @ + 1]
          /\ critiques' = [critiques EXCEPT ![t] = MaxCritiques]
  /\ UNCHANGED <<client, budgetBase, usageBase, metrics, callVars, tally, entries,
                 spent, recent>>

(***************************************************************************)
(* The generator, then the critic, ask for a completion.  The iteration    *)
(* ends when the critic has no more to ask, and the run may end with it.   *)
(***************************************************************************)
Ask(t) ==
  /\ \/ pc[t] = "generate" /\ UNCHANGED critiques
     \/ /\ pc[t] = "critique" /\ critiques[t] > 0
        /\ critiques' = [critiques EXCEPT ![t] = @ - 1]
  /\ role' = [role EXCEPT ![t] = pc[t]]
  /\ \E r \in Requests :
       /\ request' = [request EXCEPT ![t] = r]
       /\ Goto(t, IF r \in Sampled THEN "attempt" ELSE "lookup")
  /\ UNCHANGED <<client, iteration, budgetBase, usageBase, metrics, attempt,
                 response, tally, entries, spent, recent>>

EndIteration(t) ==
  /\ pc[t] = "critique"
  /\ \/ Goto(t, "boundary")
     \/ Goto(t, "finish")
  /\ UNCHANGED <<runVars, callVars, tally, entries, spent, recent>>

(***************************************************************************)
(* The completion is over: what the caller does next.  The critic goes on  *)
(* after an LlmError ("critic degraded"); nothing else survives a failure. *)
(***************************************************************************)
Return(t, point) ==
  /\ Goto(t, point)
  /\ role' = [role EXCEPT ![t] = "none"]
  /\ request' = [request EXCEPT ![t] = NoRequest]
  /\ attempt' = [attempt EXCEPT ![t] = 0]
  /\ response' = [response EXCEPT ![t] = NoCompletion]

Fail(t, llmError) ==
  Return(t, IF llmError /\ role[t] = "critique" THEN "critique" ELSE "finish")

(***************************************************************************)
(* CompletionCache.get(): a hit moves to the end of the order.             *)
(***************************************************************************)
Stored(r) == {i \in DOMAIN entries : entries[i].request = r}
UsedAt(r) == {i \in DOMAIN recent : recent[i] = r}

Without(s, where) == IF where = {} THEN s ELSE RemoveAt(s, CHOOSE i \in where : TRUE)

Latest(r) == Append(Without(recent, UsedAt(r)), r)

\* Mutant: a hit does not count as a use.
LookupFifo(t) ==
  /\ pc[t] = "lookup"
  /\ IF Stored(request[t]) # {}
     THEN recent' = Latest(request[t]) /\ Return(t, "critique")
     ELSE Goto(t, "attempt") /\ UNCHANGED <<callVars, recent>>
  /\ UNCHANGED <<runVars, tally, entries, spent>>

\* Mutant: a hit is accounted for with the tokens of the stored completion.
LookupCharged(t) ==
  /\ pc[t] = "lookup"
  /\ \/ \E i \in Stored(request[t]) :
          /\ entries' = Append(RemoveAt(entries, i), entries[i])
          /\ recent' = Latest(request[t])
          /\ tally' = [tally EXCEPT ![client[t]] = Add(@, entries[i].completion.tokens)]
          /\ Return(t, "critique")
     \/ /\ Stored(request[t]) = {}
        /\ Goto(t, "attempt") /\ UNCHANGED <<tally, entries, callVars, recent>>
  /\ UNCHANGED <<runVars, spent>>

\* Mutant: the lock is held during the backend call.
LookupSerialized(t) ==
  /\ pc[t] = "lookup" /\ \A u \in Threads : pc[u] \notin {"attempt", "tally", "store"}
  /\ \/ \E i \in Stored(request[t]) :
          /\ entries' = Append(RemoveAt(entries, i), entries[i])
          /\ recent' = Latest(request[t])
          /\ Return(t, "critique")
     \/ /\ Stored(request[t]) = {}
        /\ Goto(t, "attempt") /\ UNCHANGED <<entries, callVars, recent>>
  /\ UNCHANGED <<runVars, tally, spent>>

Lookup(t) ==
  /\ pc[t] = "lookup"
  /\ \/ \E i \in Stored(request[t]) :
          /\ entries' = Append(RemoveAt(entries, i), entries[i])
          /\ recent' = Latest(request[t])
          /\ Return(t, "critique")
     \/ /\ Stored(request[t]) = {}
        /\ Goto(t, "attempt") /\ UNCHANGED <<entries, callVars, recent>>
  /\ UNCHANGED <<runVars, tally, spent>>

(***************************************************************************)
(* OpenAICompatibleClient.complete(): one attempt.  A connection failure,  *)
(* a 5xx or a 429 is tried again while attempts are left; another status   *)
(* or a malformed body fails at once; so does an exception that is not     *)
(* mapped to LlmError (a body cut short or not UTF-8).                     *)
(***************************************************************************)
\* Mutant: one attempt too many.
AttemptOnceMore(t) ==
  /\ pc[t] = "attempt"
  /\ \/ \E n \in Tokens :
          /\ response' = [response EXCEPT ![t] = Completion(request[t], n)]
          /\ spent' = [spent EXCEPT ![t] = Add(@, n)]
          /\ Goto(t, "tally")
          /\ UNCHANGED <<role, request, attempt>>
     \/ /\ attempt[t] <= MaxRetries
        /\ attempt' = [attempt EXCEPT ![t] = @ + 1]
        /\ UNCHANGED <<pc, role, request, response, spent>>
     \/ Fail(t, TRUE) /\ UNCHANGED spent
  /\ UNCHANGED <<runVars, tally, entries, recent>>

Attempt(t) ==
  /\ pc[t] = "attempt"
  /\ \/ \E n \in Tokens :
          /\ response' = [response EXCEPT ![t] = Completion(request[t], n)]
          /\ spent' = [spent EXCEPT ![t] = Add(@, n)]
          /\ Goto(t, "tally")
          /\ UNCHANGED <<role, request, attempt>>
     \/ /\ attempt[t] < MaxRetries
        /\ attempt' = [attempt EXCEPT ![t] = @ + 1]
        /\ UNCHANGED <<pc, role, request, response, spent>>
     \/ attempt[t] = MaxRetries /\ Fail(t, TRUE) /\ UNCHANGED spent
     \/ Fail(t, TRUE) /\ UNCHANGED spent
     \/ Fail(t, FALSE) /\ UNCHANGED spent
  /\ UNCHANGED <<runVars, tally, entries, recent>>

(***************************************************************************)
(* AccountingLlmClient.complete(), once its inner client has answered.     *)
(***************************************************************************)
Tally(t) ==
  /\ pc[t] = "tally"
  /\ tally' = [tally EXCEPT ![client[t]] = Add(@, response[t].tokens)]
  /\ IF request[t] \in Sampled THEN Return(t, "critique")
                               ELSE Goto(t, "store") /\ UNCHANGED callVars
  /\ UNCHANGED <<runVars, entries, spent, recent>>

(***************************************************************************)
(* CompletionCache.put(): the newest entry, and the oldest ones evicted.   *)
(***************************************************************************)
Put(r, completion) ==
  LET stored == Append(Without(entries, Stored(r)), [request |-> r, completion |-> completion]) IN
  entries' = SubSeq(stored, IF Len(stored) > MaxEntries
                            THEN Len(stored) - MaxEntries + 1 ELSE 1, Len(stored))

Store(t) ==
  /\ pc[t] = "store"
  /\ Put(request[t], response[t])
  /\ recent' = Latest(request[t])
  /\ Return(t, "critique")
  /\ UNCHANGED <<runVars, tally, spent>>

(***************************************************************************)
(* The session reads the usage again for the metrics of the finished run;  *)
(* the run's own variables are gone.                                       *)
(***************************************************************************)
Settle(t) ==
  /\ pc[t] = "finish" /\ Goto(t, "done")
  /\ metrics' = [metrics EXCEPT ![t] = Minus(tally[client[t]], usageBase[t])]
  /\ iteration' = [iteration EXCEPT ![t] = 0]
  /\ critiques' = [critiques EXCEPT ![t] = 0]
  /\ budgetBase' = [budgetBase EXCEPT ![t] = Zero]
  /\ usageBase' = [usageBase EXCEPT ![t] = Zero]
  /\ UNCHANGED <<client, callVars, tally, entries, spent, recent>>

Run(t) ==
  \/ CreateBudget(t) \/ StartRun(t) \/ Boundary(t) \/ Ask(t) \/ EndIteration(t)
  \/ Lookup(t) \/ Attempt(t) \/ Tally(t) \/ Store(t) \/ Settle(t)

Finished == (\A t \in Threads : pc[t] = "done") /\ UNCHANGED vars

Next == (\E t \in Threads : Run(t)) \/ Finished

(***************************************************************************)
(* Fairness: the threads of Prompt are scheduled and their backend calls   *)
(* end (each attempt has a timeout).  Of the others nothing is assumed: a  *)
(* call of theirs may take forever.                                        *)
(***************************************************************************)
Spec == Init /\ [][Next]_vars
FairSpec == Spec /\ \A t \in Prompt : WF_vars(Run(t))

-----------------------------------------------------------------------------
Usage == [calls : Nat, tokens : Nat]

(***************************************************************************)
(* Type correctness; no completion is attempted more than max_retries + 1  *)
(* times, and no run passes its iteration budget.                          *)
(***************************************************************************)
TypeOK ==
  /\ client \in [Threads -> Clients]
  /\ tally \in [Clients -> Usage]
  /\ \A i \in DOMAIN entries : entries[i].completion.tokens \in Tokens
  /\ pc \in [Threads -> {"new", "start", "boundary", "generate", "critique", "lookup",
                         "attempt", "tally", "store", "finish", "done"}]
  /\ iteration \in [Threads -> Nat] /\ \A t \in Threads : iteration[t] <= MaxIterations[t]
  /\ critiques \in [Threads -> 0..MaxCritiques]
  /\ role \in [Threads -> {"none", "generate", "critique"}]
  /\ request \in [Threads -> Requests \cup {NoRequest}]
  /\ attempt \in [Threads -> 0..MaxRetries]
  /\ response \in [Threads -> [answers : Requests \cup {NoRequest}, tokens : Nat]]
  /\ budgetBase \in [Threads -> Usage] /\ usageBase \in [Threads -> Usage]
  /\ metrics \in [Threads -> Usage] /\ spent \in [Threads -> Usage]

(***************************************************************************)
(* Whatever the interleaving of misses, fills and hits, the cache holds    *)
(* the MaxEntries most recently used cacheable requests, each once and in  *)
(* that order, and under each one a completion the backend gave for that   *)
(* very request (CompletionCache.get, put).                                *)
(***************************************************************************)
CacheIsLru ==
  /\ \A i \in DOMAIN entries :
       /\ entries[i].request = recent[Len(recent) - Len(entries) + i]
       /\ entries[i].request \notin Sampled
       /\ entries[i].completion.answers = entries[i].request
  /\ Len(entries) = IF Len(recent) < MaxEntries THEN Len(recent) ELSE MaxEntries

Sum(f, S)     == MapThenSumSet(LAMBDA t : f[t], S)
Sharing(k)    == {t \in Threads : client[t] = k}
Uncounted(t)  == IF pc[t] = "tally" THEN Add(Zero, response[t].tokens) ELSE Zero

(***************************************************************************)
(* Accounting is honest: a client's tally and the answers just about to be *)
(* counted are what the backend reported to the runs that share it; cache  *)
(* hits and failed attempts add nothing; the metrics of a run that has its *)
(* client to itself are its own consumption.                               *)
(***************************************************************************)
UsageHonest ==
  /\ \A k \in Clients :
       /\ tally[k].calls =
            Sum([t \in Threads |-> spent[t].calls - Uncounted(t).calls], Sharing(k))
       /\ tally[k].tokens =
            Sum([t \in Threads |-> spent[t].tokens - Uncounted(t).tokens], Sharing(k))
  /\ \A t \in Threads :
       pc[t] = "done" /\ Sharing(client[t]) = {t} => metrics[t] = spent[t]

(***************************************************************************)
(* "The final total can exceed max_total_tokens by roughly one iteration's *)
(* consumption": a run's own completions never exceed either ceiling by    *)
(* more than the last iteration can use, whoever shares its client.        *)
(***************************************************************************)
OvershootBounded ==
  \A t \in Threads :
    /\ MaxTotalTokens > 0 =>
         spent[t].tokens < MaxTotalTokens + (1 + MaxCritiques) * Max(Tokens)
    /\ MaxCalls > 0 => spent[t].calls < MaxCalls + 1 + MaxCritiques

(***************************************************************************)
(* "Concurrent callers are not serialized behind a slow completion": a run *)
(* whose own backend calls end is finished some time, even if the call of  *)
(* another run that shares the cache and the client never ends.            *)
(***************************************************************************)
PromptRunsFinish == \A t \in Prompt : <>(pc[t] = "done")
=============================================================================
