# CognitiveTree: a TLA+ verification project

CognitiveTree runs a tree search over candidate "thoughts". A generator proposes
continuations, an evaluator (usually a sandboxed execution) scores them, and a
controller selects, expands, evaluates and backpropagates until it accepts a
solution or stops. A session runs one search on a worker thread and streams its
progress. A small HTTP server gives each connection a session of its own.

This project models that core in TLA+, checks it with TLC on small instances, and
proves its main invariants with TLAPS for all values of the constants. All source
paths below are relative to `src/cognitivetree/`.

## 1. Inventory

| Component | State | Operations | Correct when |
|---|---|---|---|
| Phase machine (`state.py`) | phase, transition history | `transition` | only edges of the table, each recorded, terminal phases final |
| Thought tree (`node.py`, `tree.py`) | per node: parent, depth, content, status, score, visits, value, metadata | `add_child`, `prune_subtree`, `record_visit`, `apply_evaluation`, `best_path` | live nodes hang from live nodes; statistics add up |
| Search controller (`search.py`) | loop counter, current node, batch, error | `run`, `_select`, `_expand`, `_evaluate`, `_backpropagate` | ends; contains faults; stops promptly; keeps an accepted node |
| Batch evaluation (`search.py`) | futures, worker threads | `_collect_verdicts` | answers as a sequential loop would; no thread outlives it |
| Feedback (`feedback/`) | critique, attempts and notes on nodes | `revise`, `shape`, critics | bounded revision, shaped values in range |
| Session (`session.py`) | queue, cancel event, worker | `run`, `stream`, `_settle`, `_archive` | ordered stream, one end marker, cancels only its own run |
| Streaming server (`ui/server.py`, `ui/events.py`) | semaphore of run slots | `_serve_stream` | no slot lost or returned twice; every request ends |
| Archive and replay (`persistence/`) | files | `save_run`, `load_run`, `ReplaySession.stream` | what can be loaded is a whole run, and the run that was recorded |
| Run metrics (`observability/metrics.py`) | none | `from_result` | the numbers agree with each other and with the run |
| LLM stack (`llm/`) | cache, counters | `complete` with retries, caching | bounded retries, failures never cached |
| Accounting and budget (`observability/`) | token counters, baseline | `complete`, `check` | what is spent is counted; overshoot is bounded |
| Bounded runs (`sandbox/process.py`, `spec.py`) | child process, pipes, feeder and reader threads, captured bytes | `run_bounded`, `_feed`, `_BoundedReader.run`, `decode_captured` | always returns; exact capture; the host never blocks the payload |
| Sandbox (`sandbox/`) | probe cache, image flags, containers, docker clients, execution record | `select_executor`, `ensure_image`, `execute`, `evaluate` | isolation is reported honestly; scores rest on what ran; containers are accounted for |
| Benchmark, adapter, demos, page, command lines | none worth modelling | | |

How they interact: the server's handler thread pulls envelopes from
`session.stream()`. The session's worker thread calls `run()`, whose event sink
puts envelopes on the queue. Closing the stream sets `cancel_event`, which `run()`
reads once per iteration. `run()` calls the policies, and `_collect_verdicts()`
calls the evaluator from a thread pool. After the run the worker archives it and
publishes metrics, result and the end marker. All sessions of a process share the
module globals of `backends.py`; all processes of a machine share the Docker daemon,
its image and its containers, and the archive directory.

What is hard to test: a stop request or a fault at an arbitrary point of the loop; an
event sink that raises *after* the phase has changed; long sequences of prunings,
revisions and re-expansions; thread pools with several failing candidates;
disconnects that are only noticed by a later write; an archive that fails between
the run and its result; a server that dies between two steps of any of this while
its docker client or its half-written archive stays; a daemon that stops answering
between a probe and a build, or a run and a removal; sessions that probe and build at
the same time; a killed child whose grandchild keeps the pipes. `PROJECT.json` lists these as hazards, at the line where
each one bites, with the property that covers it.

## 2. Modules

| Module | Models |
|---|---|
| `SearchPhases` | phases and the transition table |
| `SearchStateMachine` | the phase machine; `MachineSpec` is the abstract specification of a phase trace |
| `ThoughtTree` | nodes, tree operations and queries, revision policy, reward shaping |
| `TreeSearch` | one `run()` over both; the main module |
| `Replay` | the iteration numbers a replay infers, against the live events |
| `RunMetrics` | the result of a finished run and the metrics computed from it |
| `RunArchive` | the document of a finished run and its rehydration |
| `RunLifecycle` | abstract automaton of `run()` as its caller sees it |
| `RunRefinement` | the mapping from `TreeSearch` to `RunLifecycle` |
| `MCTreeSearch` | instances for TLC |
| `BatchEvaluation` | abstract: the answer of a sequential loop |
| `EvaluationPool` | `_collect_verdicts()` with its thread pool |
| `StreamingServer` | handler and worker threads of `/stream` connections; each run is an automaton of `RunLifecycle` |
| `LlmStack` | completions of the runs of an LLM session: shared LRU cache, accounting client, retrying HTTP client, token budget |
| `MCLlmStack` | its instance for TLC |
| `BoundedRun` | `run_bounded()`: the child, what it leaves behind, three pipes, feeder, readers and caller |
| `MCBoundedRun` | its instance for TLC |
| `Sandbox` | backend selection shared by sessions, one execution on either backend, grading and diagnosis |
| `ServerHost` | the machine: server process, crashes, archive files and what a replaying server loads, composed with `Sandbox` |
| `SumTheorems` | lemmas about sums over finite sets and about smallest sets |
| `TreeSearchProofs`, `AccountingProofs` | theorems about `TreeSearch`: control and tree; what it counts and adds up |
| `EvaluationPoolProofs`, `StreamingServerProofs`, `LlmStackProofs`, `BoundedRunProofs`, `ServerHostProofs` | theorems about the module of that name |

### TreeSearch and ThoughtTree

The controller is a sequential process, and `pc` names the point of `run()` that
comes next. One action stands for one step that the code can be interrupted after
or that can raise: a boundary check, a transition with its event (`Advance`), one
step of the descent, one candidate attached, one verdict applied, one value
backpropagated. Two environment actions, `Cancel` and `DeadlinePasses`, may happen
between any two of them.

`Advance` is `_advance()`: the transition first, then the sink. An illegal edge
raises before anything changes; a raising sink leaves the phase changed. `Handler`
says where an exception at each point goes: to the `except` block, or out of
`run()` for the first transition, the handler's own and the one after the loop.

Data is abstracted to what matters:

* Nodes are numbered in creation order, so sibling order is numerical order.
  `path[n]` is the set of nodes of `path_from_root()`.
* Scores are integers `0..ScoreScale`. Reward shaping is exact over the common
  denominator `ValueScale`, and means are compared by cross multiplication. The
  code's floats round; no property depends on the last bit.
* UCT involves a logarithm and a square root. `UctGreater` contains exactly the
  comparisons that hold for every positive exploration weight (and for weight 0);
  other pairs are left to a nondeterministic choice, as ties are (the code breaks
  ties at random). The model therefore selects every child the code may select.
* Candidate texts are model values. `strip()` is the function `Strip`, which maps
  two raw texts to one and one raw text to the blank text.
* Rationale, error text and details of events are reduced to tags (`Note`).

`cancelAt` and `expiredAt` record the iteration at which a stop request arrived.
Only whether they are set influences the controller.

### EvaluationPool

`ThreadPoolExecutor` belongs to the standard library and is modelled from how the
code uses it: a FIFO queue of futures, results taken in order, cancellation of the
futures behind the first failure (those already running are not affected), and a
`with` block that joins the threads. `script` fixes what each evaluation will give,
so that the answer can be compared with that of a loop.

### StreamingServer

Per client there is a handler thread, a worker thread and their queue; `slots` is the
semaphore. `Disconnect` may happen whenever the handler holds the connection. The
first write after it may still succeed (the kernel accepts it), later ones fail.
`Abandon` is the failing write with the closing of the generator at its `yield`,
which sets the cancel event; `EncodingFault` is a `format_sse()` that raises (text
that cannot be encoded as UTF-8) on one of the envelopes that carry text of the
candidates or of an exception, which leaves by the same `finally`. `Settle` is
`_settle()` and the two last envelopes: an `OSError` costs the archive, any other
exception ends the worker before they are published, and `None` is put in every
case. The envelopes that one call of the sink puts are put in one step; the
consumer cannot tell. What is put on a queue whose generator was closed is never
read and is not kept. A client makes one successful request (after any number of
503 answers); the second client stands for all later ones.

### LlmStack

A thread is one run, reduced to what it does to the completion path: it creates its
budget, reads the usage, and per iteration asks the generator's completion and then
some of the critic's, after the budget check of the boundary. A completion passes
the cache (`Lookup`), the HTTP client (`Attempt`, one step per attempt with all its
outcomes), the accounting client (`Tally`) and the cache again (`Store`), and other
runs act between any two of these. Runs may share the accounting client (two
streams of one session) or only the cache (two sessions of one server). A
completion is reduced to the request it answers and the tokens reported.

The cache's lock covers one lookup or one insertion, so each is one step. The
accounting client has no lock. On the CPython versions the project supports, threads
are switched only at calls and backward jumps, and its three additions contain
neither, so they are one step as well; on a free-threaded build they would not be.
`spent` (what the backend reported to a run) and `recent` (the order of use of all
requests ever cached) exist for the properties only. The hit and miss counters,
`clear()` and the backoff delays are left out: no run reads or waits on them in a
way that another step could observe.

### RunMetrics and RunArchive

A result is a value and a tree is a function from node ids. Timestamps are the squares of
the positions, increasing and with distinct gaps, so that attributing a phase's time to
the wrong entry shows. `NodeDict` nests the children as `to_dict(include_metadata=True)`
does, with scores and value sums rounded to millionths. `from_dict` takes parents from the
nesting and the index from the walk, so that a node the walk does not meet is missing from
it; its loop over a pending list is a recursive function (`Levels`) whose rounds take all
that is pending, `MaxDepth` rounds after the root (`Rounds`), and that these are enough is
part of what is proved. `ArchiveFaithful` and `MetricsAgree` are evaluated on every
finished run of `search_faults`.

### BoundedRun

A stream is the sequence of the byte widths of its characters; pipes, chunks and
captures are numbers of bytes, because what is kept is always a prefix. The child may
emit, read its input, leave a process behind that holds its pipes, and exit at any
time; nothing obliges it to. `read()` on a buffered stream returns with a full chunk or
at the end of file, which is why `chunk` is state of its own. The caller waits, kills at
the deadline, joins each reader for a grace period, and collects what is there.

A join expires (`abandoned`) only on a pipe that somebody still holds, and only when the
reader is blocked inside its `read()` (`Blocked`) or has handled what the stream carried when
the wait ended (`Handled`) and is busy with what a surviving process writes on. Assumed: the
five seconds of grace are enough for a reader's runnable work up to there. On a closed pipe
the join waits until the reader has seen its end.

### Sandbox and ServerHost

`at[s]` is where the thread of session `s` is: in `select_executor()`, in the one
execution it makes, in the archiving of its run, or done. The steps of
`docker_available()`, `select_executor()` and `ensure_image()` are separate because the
lock covers only the cache of the probe; the image flags are read and written without
it. The daemon is external. It is "up", or "out": then a command fails at once or hangs
until its timeout. It creates containers in its own time, and starts them only for a
client that is attached. Payloads are reduced to how they end: with a traceback, quietly
with 125, or with 125 or 126 and the words a failing docker client prints (the mimics).
`run_bounded()` is one wait here.

The docker client is state of its own (`client`): attached from its start until it exits
with its container, is killed at the deadline, or fails by itself. `ClientFails` is free to
happen at any point of the execution, before the container exists, while it runs, or after
it has ended, with the daemon up or out. A failed client leaves the container as it is, and
exits with 125 or 126 and any combination of what `_is_cli_fault()` looks for on stderr;
`Collect` classifies whatever it finds, and only the deadline is followed by
`_force_remove()`. Assumed: a client that fails does not exit with 0.

`Crash` loses the threads and the module globals and keeps the daemon, the containers,
the files, and a docker client that was running. The archive is created under its final
name, filled in place and only then reported. Assumed: nobody removes the image while
the server lives, and a clean exit is terminal (`terminal_on_success`, the default).

## 3. Runs

| Run | Instance | States | Checks |
|---|---|---|---|
| `search_core` | 4 iterations, depth 2, branching 2, up to 3 candidates from 4 raw texts, 4 verdicts, blank and useful critiques, revision, every policy may raise, fair | 862k | `TypeOK`, `LiveAncestors`, `ExpansionBounds`, `Conservation`, `AcceptanceIsFinal`, `RevisionAccounting`, `RestartsShrinkFrontier`, `RunTerminates`, `EveryStepCountsDown` |
| `search_faults` | 3 iterations, every policy and the sink may raise, cancel, deadline, stop condition | 1.8M | `FaultContainment`, `StopsPromptly`, `IterationsAreExpansions`, `ReplayLagsOnlyBeforeExpansion`, `ArchiveFaithful`, `MetricsAgree`, `MachineSpec`, `ImplementsLifecycle` |
| `evaluation_pool` | 4 candidates, up to 3 threads, any may fail, fair | 40k | `QuietOnceAnswered`, `NoFutureIsLost`, `AnswersLikeALoop`, `BatchAnswered` |
| `streaming_server` | 2 clients, 1 slot, runs of 1 iteration, every failure, fair | 183k | `SlotAccounting`, `CancelOnlyAbandoned`, `EveryRunSettles`, `StreamOrder` |
| `llm_stack` | 2 runs (2 and 1 iterations of up to 2 completions), 3 cacheable requests and a sampled one, 2 cache entries, 1 retry, ceilings of 2 tokens and 3 calls, fair for one run | 558k | `TypeOK`, `CacheIsLru`, `UsageHonest`, `OvershootBounded`, `PromptRunsFinish` |
| `bounded_run` | characters of up to 3 bytes, a limit of 1 character, chunks of 2 bytes, pipes of 1, input of 2, three outputs, fair | 208k | `TypeOK`, `CaptureExact`, `HostNeverBlocksPayload`, `RunReturns` |
| `server_host` | 2 sessions, one of which goes on to execute and archive, any payload, a daemon that comes and goes, a client that may fail, 1 crash, the default scores in twentieths, fair | 497k | `SelectionHonest`, `GradedOnEvidence`, `ContainersAccounted`, `ArchiveTrustworthy`, `EverySessionSettles` |

The type invariants of `EvaluationPool` and `StreamingServer` are not among the checks:
they are proved (section 4), and what they bound is said more sharply by the properties
that are.

Why the bounds are enough for the interesting cases. Three iterations at depth 2 (four in
`search_core`) let a child be expanded, saturate, be reopened (one attempt), be expanded again
with candidates already seen, and be pruned so that the collapse reaches the root;
the depth cap, dead ends and duplicates all occur. Branching 2 with 3 returned
candidates exercises the cut, and two accepted siblings with different scores make
the announced and the reported solution differ. Three threads on four candidates leave one future
queued when a failure is taken. One slot and two clients make refusal, retry and
takeover of a slot happen; one iteration is the shortest run with both a boundary
where a cancellation is obeyed and one where the budget ends the run first. Three
cacheable requests for two cache entries make evictions and refills interleave. With 3
captured bytes and chunks of 2 a chunk straddles the cap and a character straddles
chunks; pipes of one byte block every writer that nobody serves. Two sessions are enough
for one to fail a build while the other verifies the image; a second executing session
would add nothing, since executions share only the daemon, whose answers are free. One
crash can hit every step, and the server starts again after it. Every
action and every disjunct of the next-state relations fires in some run.

Each property is accompanied by a mutant of the model, a plausible mistake in the
code (`PROJECT.json`, "mutants"; the mutated operators stand beside the originals,
marked "Mutant"), which TLC finds to violate it.

### Where the documentation says something else

Five runs state what a doc or comment says, and TLC refutes it:

* `fresh_first`: "every fresh candidate is explored before revisiting scored ones".
  Each child is visited by the backpropagation of its own batch, so the infinite
  score of unvisited nodes is never used when selection runs. A child that was
  expanded before can be selected over a sibling that never was.
* `capture_lost`: "whatever it emitted up to that point is returned". If a killed child
  leaves a process that holds the pipe, the reader is abandoned inside a `read()` that
  has already taken bytes from the pipe, and these are lost. `CaptureExact` is what does
  hold: the result is a prefix, exact whenever the reader was joined.
* `infra_fault_graded`: "Infrastructure faults surface as SandboxError ... instead of
  silently pruning healthy branches". A daemon that hangs before it starts the container
  runs into the client's deadline; the candidate is graded as a timeout and pruned though
  its code never ran.
* `llm_critic_unreached`: "an LLM critic second, so model calls are spent only on failures
  the trace cannot explain". The trace critic answers for every pruned candidate, also for
  a nonzero exit with an empty stderr, so the second critic (`--llm-critic`) is not asked.
  `TraceCriticSuffices` proves that it never is, with any number of sessions.
* `concurrency_cap`: the slot of an abandoned stream is released while its run goes
  on to the next boundary, so more than `max_concurrent_runs` runs may execute.
  `SlotAccounting` is what does hold: the cap bounds the *streams*.

Met while modelling, and left without a run of their own:

* `evaluation.py:50` has the failure score for "payloads that ran and failed". A docker
  client that loses the daemon while the payload runs exits with 125 and a message
  `_is_cli_fault()` does not know; the execution counts as completed, a candidate that
  would have exited cleanly is graded as a failure and pruned, and its container may run
  on. `GradedOnEvidence` says what does hold of verdicts (a success is always earned; a
  failure or sandbox error is the payload's own unless the client failed),
  `ContainersAccounted` what holds of containers.
* `replay.py:106` claims "the same sequence the live stream carried". The replay lags
  when a node is reopened, when the frontier is empty, or after a fault before the
  expansion; `ReplayLagsOnlyBeforeExpansion` is what does hold.
* After a failing candidate the pool has evaluated later candidates that a sequential run
  would not have reached (`ui/serve.py:119`: "results stay identical"). Verdicts and the
  exception are the same; what evaluators leave on those nodes is not.
* `backends.py:54` remembers a failed build so that it is not repeated, but a build that
  exceeds its 600 seconds raises `TimeoutExpired`, which is not remembered. Two sessions
  may build at once, and one failed build disables docker for later sessions although
  another verified the image.
* The detail "container removed" is given also when the removal failed; a payload that
  prints `docker:` and exits with 125 is taken for a fault of the client.
* Text with lone surrogates makes `save_run()` raise `UnicodeEncodeError`, which
  `_archive()` does not catch: the worker ends before its result envelope. A file cut
  inside a character makes `load_run()` raise `UnicodeDecodeError` instead of
  `ArchiveFormatError`.

### Fairness

* `TreeSearch`: weak fairness of the controller. Its thread is scheduled, and every
  policy call returns or raises. Model requests have a timeout and sandbox
  executions a deadline. Nothing obliges the caller to cancel or the deadline to
  pass.
* `EvaluationPool`: weak fairness of the calling thread and of each worker, for the
  same reasons.
* `StreamingServer`: weak fairness of each handler and each worker. For the handler
  this includes that a write to a connected client ends, that is, the client reads
  its stream. The server sets no socket timeout, so a client that stops reading
  without disconnecting does hold its slot: `EveryRunSettles` says nothing of it.
* `LlmStack`: weak fairness of the runs in `Prompt` only: their threads are scheduled
  and their attempts end (each has a timeout). Nothing is assumed of the other run,
  whose attempt may last forever; `PromptRunsFinish` is about the runs that share
  the cache with it.
* `BoundedRun`: weak fairness of the feeder, the readers and the caller, each of whose
  waits has a timeout; none of the payload.
* `ServerHost`: weak fairness of each session's thread, because every command it waits for
  has a timeout; none of the daemon, the probe's expiry, the failures of docker's clients or
  the crash, which nothing obliges to happen.

## 4. Proofs

All theorems hold for every value of the constants that satisfies the named assumptions of
the modules:

* `TreeAssumption`, `ConfigAssumption`, `PolicyAssumption`: the validation of
  `SearchConfig`, `Evaluation`, `Critique` and `RewardWeights`, and the types of what a
  policy returns;
* `PoolAssumption`: a batch has a candidate, the pool a thread;
* `ServerAssumption`: a server has at least one slot;
* `StackAssumption`: the ranges of the client's and the budget's options, and that a
  process has finitely many runs and completions finitely many sizes;
* `RunAssumption`: positive limits, chunks and pipes, characters no wider than
  `BytesPerChar`;
* `SandboxAssumption`: the validated scores and thresholds.

Three theorems have a hypothesis of their own. `TraceCriticSuffices` and
`ArchivesAreTrustworthy` take `SuccessScore >= AcceptThreshold`, which the docstring of
`CodeExecutionEvaluator` asks for. `VerdictsRestOnEvidence` takes `DistinctScores`: success
and failure score differently from each other and from a timeout or missing code, as the
defaults do, since the property reads the evidence off the score.

### The search

* **`TypeCorrect`**, `Spec => []TypeOK`. `TypeOK` is not inductive: `iteration + 1`
  stays in range only because the loop head was passed, and the node and batch
  accesses are defined only because of where the controller is. `ControlInv` adds
  this per control point; `TypeInv == TypeOK /\ ControlInv` is inductive. The lemmas
  follow the code: one for tree growth, one for `Advance`, one per group of actions.
* **`RefinesMachine`**, `Spec => MachineSpec`: every step of the loop is a legal
  recorded transition or leaves the machine alone.
* **`FaultsContained`**, `Spec => []FaultContainment`. The invariant says which phase
  the machine is in at each control point (`PhaseInv`), and which exception can be in
  flight and whether `error` is set (`ErrorInv`). With it, every `Advance` of the
  loop is on a legal edge, so that an illegal transition can only follow a raising
  sink.
* **`StopsAtNextBoundary`**, `Spec => []StopsPromptly`, from an invariant that knows
  at which points the boundary check is already behind.
* **`RunsFollowLifecycle`**, `Spec => ImplementsLifecycle`: until the sink raises (those of
  the session and of the server put into a queue and do not), each step of the loop is a
  move of `RunLifecycle`'s table or a stutter of it. `CallerInv` supplies what the table asks
  for: a loop left without a verdict has used up its iterations, an exception is handled in
  a working phase only. So the session and the server are composed with what `run()` is
  proved to do.
* **`FrontierReachable`**, `Spec => []LiveAncestors`. The strengthening is
  `FrontierInv`: paths are closed (`PathInv`), the node of the descent is live
  (`NodeInv`), and the members of the current batch are distinct leaves other than
  that node, live until their verdict is applied (`BatchInv`). Without `BatchInv` a
  verdict could kill a node with live descendants.
* **`RestartsTerminate`**, `Spec => RestartsShrinkFrontier`: the variant that bounds
  `_select()`; it needs that the pruned node was live.
* **`RunsCountDown`**, `Spec => EveryStepCountsDown`: four counters in lexicographic order,
  the iterations left, the points of the iteration still to pass, what the loop at this
  point has left to do, and the levels below the node of the descent. Every step of the
  controller lowers them, they are natural numbers, and the caller and the clock leave them
  alone. The restart of `_select()` is the step that needs an argument: it lowers the third
  counter because it takes a live node out of the frontier. With weak fairness of the
  controller, and no controller point but `done` and `escaped` without a step, this is
  `RunTerminates`; those two facts are left to TLC.
* **`ExpansionsBounded`**, `Spec => []ExpansionBounds`. Distinct contents and depths are
  inductive (`ChildInv`); that a node has at most `branching_factor` children per expansion
  granted to it needs how many candidates of the current batch are still to come, and that
  the node being expanded has not used its latest grant (`ChildRoomInv`).
* **`AcceptanceEndsSearch`**, `Spec => []AcceptanceIsFinal`. `AcceptInv`: accepted nodes
  are siblings with a passing score (`SiblingInv`, `MarkInv`), from their verdict to the end
  of the iteration one of them is the solution and no other iteration has any
  (`SolutionInv`), and the result is chosen from all of them (`ResultInv`).

### What the search counts

* **`IterationsCounted`**, `Spec => []IterationsAreExpansions`: `Lag` says, per control
  point, whether the loop counter is ahead of the recorded expansions by one.
* **`ReplayLag`**, `Spec => []ReplayLagsOnlyBeforeExpansion`. The replay's count is a
  recursive function of the history, whose value no prover here can compute. `ReplayInv`
  says instead that a function with its recursion equations exists and that each such
  function agrees with the loop counter where it must; an `Advance` extends it by one point.
* **`RevisionsAccounted`**, `Spec => []RevisionAccounting`: the sum of the nodes' attempts
  is the number of reopenings in the history, but for the one that a selection has granted
  and not yet announced.
* **`SamplesConserved`**, `Spec => []Conservation`. `ChainInv`: a path goes through exactly
  one child of each of its inner nodes, so one backpropagation adds its sample to the sum
  of the children exactly where it adds it to the node. `SampleInv`: the batch's values are
  the samples of its nodes, each once. `BalanceInv`: between backpropagations the visits
  and values of every node are its own sample and the sums of its children. A batch that a
  fault interrupts may break the balance, which is why the property excludes failed runs.
* **`MetricsTellTheRun`**, `Spec => []MetricsAgree`: the revisions from `RevisionInv`; the
  expansions from `OpenInv`, a balance of the records of each kind that is off by one exactly
  while an expansion is open; the time by summing phase by phase (`TotalByKind`) what
  telescopes over the history (`Telescope`), of which only that stamps are integers is used;
  the depth from `RootInv` and the tree's invariants, since the last node of the path is not
  the root (`LastInOrder`).

* **`ArchivesReadBack`**, `Spec => []ArchiveFaithful`, for trees of any depth and branching.
  `OrderInv`: thoughts are numbered after their parents, so the payloads can be written from
  the last thought to the first (`WrittenExists`), each nesting those of its children
  (`NestedPayloads`). Round `k` of the rebuilding then holds exactly the thoughts at depth
  `k`, each under its own parent (`RoundsAreLevels`), so `MaxDepth` rounds meet every
  thought once (`TreeReadBack`).
* **`ArchiveKeepsMetrics`**: on every finished run `from_result()` of the archive read back
  is `from_result()` of the live result. It follows from `ArchivesReadBack` because the
  metrics read nothing that is rounded (`RoundingKeepsMetrics`).

Sums are `MapThenSumSet`, a fold that is defined by recursion. `SumTheorems` proves what
the accounts need, the empty sum, adding a member, equality of terms and regrouping, without
induction over an operator: a set for which a law fails would contain a smallest one (`SmallestSet`,
from the finiteness of the power set), and that one contradicts the fold's equation.

### The components

* **`PoolLosesNoFuture`**, `Spec => []NoFutureIsLost`: the caller never waits for a result
  that was cancelled or that no thread will produce. `FutureInv`: a running future has a
  thread of the pool, every future is submitted before results are taken, and none is
  cancelled before a failure was met.
* **`PoolTypeCorrect`**, **`PoolInvariant`**, **`PoolQuiet`**, **`PoolRefinesBatch`**: the
  pool's invariant (verdicts taken so far are those of the script, running futures and
  threads correspond one to one, submission and cancellation counters), then that no
  evaluation outlives the batch, and that the pool implements `BatchEvaluation`.
* **`PoolCountsDown`**, **`PoolNeverStuck`**: the two halves of `BatchAnswered` without
  fairness. Every step of the caller or of a thread lowers, lexicographically, the stages the
  caller has ahead, the futures it has still to handle in this one, the evaluations not
  finished and those not begun; and until the batch is answered somebody has a step. The second rests on
  `FutureInv` and on the oldest queued future, which an idle thread may take
  (`OldestPending`).
* **`ServerTypeCorrect`**, **`SlotsAreAccounted`**, **`CancelIsOwn`**. One inductive
  invariant, `ServerInv`: the taken slots are the connections that hold one (`SlotInv`,
  which counts them), which states of handler, worker and run go together (`ThreadInv`,
  with the run automaton's own invariant), and who may set a cancel event (`CancelInv`).
* **`StreamsInOrder`**, `Spec => StreamOrder`, an action property. `StreamInv`: the envelope
  last written and the queue form a chain in which each is a legal successor of the one
  before, and the chain ends at the run's phase while the worker lives. Reading moves the
  head of the chain into `seen`, a run's step appends to its tail; the lemmas about chains
  are stated for arbitrary queues.
* **`NobodyWaitsInVain`**: what `EveryRunSettles` asks of the code. A handler in its loop
  finds something on its queue or has a worker that will put something there, and a worker in
  its run has a next step. `EndInv`: a worker that has ended left its `None` last on the
  queue of a handler that still reads; and the phase fits the stage of the run, so the move
  table has a move for it.
* **`StackTypeCorrect`**, **`CacheKeepsLatest`**: `StackInv`. The cache is the tail of the
  order in which requests were last used (`LruInv`); each request has one place in that
  order (`UsedOnce`), without which a hit could move one entry and leave another.
* **`OvershootIsBounded`**, `Spec => []OvershootBounded`, with any number of runs on one
  client. `SpendInv`: a run's own consumption never exceeds what its client counted since
  its baseline and the call not yet counted; `RoomInv`: together with what the current
  iteration may still pay for it stays below the ceiling and one iteration. A completion
  costs at most `Max(Tokens)`, and `Tokens` is any finite set.
* **`UsageIsHonest`**, `Spec => []UsageHonest`. `TallyInv`: each tally is the sum of what
  its runs spent and is counted; `AloneInv`: the baseline of a run alone on its client is
  zero.
* **`RunsGetNearer`**: every step of a run lowers five counters in lexicographic order (the
  parts of the run ahead, its iterations, the critiques it may still ask for, the points of a
  call, its retries) and leaves those of the other runs alone. It holds although they share
  cache and client, because neither decides how many calls are still made.
* **`RunTypeCorrect`**, `Spec => []TypeOK`: memory is bounded by the cap and one chunk per
  stream.
* **`CaptureIsExact`**, `Spec => []CaptureExact`. `StreamInv`: every emitted byte is in the
  pipe, in the chunk or taken, the first `CaptureBytes` taken are kept, and the flag says
  whether there were more; a reader ends when nobody can write. `ReportInv`: what the caller
  knows at each point of its way, though an abandoned reader still runs beside it.
  `CapSuffices` is why this is enough in characters: `output_limit_chars` characters have at
  most `CaptureBytes` bytes and more bytes are more characters, for texts of any length
  (`BytesBound`, `CharsOf` and `CharsMonotone`, by a least counterexample).
* **`NoCircularWait`**, **`FullPipesAreDrained`**, **`CallerTakesSevenSteps`**: a payload
  blocked on a pipe always has a thread of the host that can step, also once the reader has
  reached its cap or its caller has returned; the reader's third step at a full pipe is a
  read; and the caller's way to its return has seven steps, whoever holds the pipes.
* **`JoinsEnd`**: a join finds its reader done, may expire, or has a reader that can step.
* **`SelectionIsHonest`**, `Spec => []SelectionHonest`, for any number of sessions and
  crashes. `SelectInv` carries it: the ready flag implies the image, a session between
  the probe and its choice was answered yes, and where the choice falls one of the two
  flags is up. That a second session may raise either flag in between is why the
  invariant speaks of the flags and not of who raised them.
* **`ContainersAreAccounted`**, `Spec => []ContainersAccounted`, from `ExecutionInv`
  (nothing is recorded before the execution ends, no container or client exists before it,
  and no client is attached behind a record, so nothing starts a container late). The client
  may fail at every point; what it leaves behind is said in the property.
* **`VerdictsRestOnEvidence`**, `Spec => []GradedOnEvidence`: `EvidenceInv` ties what the
  executor records to what the payload did or to a client that failed, `VerdictInv` the
  grade to the record.
* **`TraceCriticSuffices`**: no diagnosis is ever the LLM critic's, so the counterexample
  of `llm_critic_unreached` is no accident of the instance.
* **`ArchivesAreTrustworthy`**: `ArchiveInv` ties the outcome to the record, the record to
  the payload, and the file to the outcome; a crash at any point keeps all three.
* **`SessionsCountDown`**: the places of a session are passed in one order
  (`PlaceTable`), and a file in the writing counts its text. Each step of its own thread
  lowers the count, and no daemon, payload, crash or other session raises it.

Every invariant, action property and refinement that a passing run checks is a theorem.
Only model-checked is liveness under fairness, which the prover does not reach. What liveness
asks of the code beyond fairness is proved, as the safety half of each such property:

| Liveness (TLC) | Safety half (proved) |
|---|---|
| `RunTerminates` | `RunsCountDown` |
| `BatchAnswered` | `PoolCountsDown`, `PoolNeverStuck`, `PoolLosesNoFuture` |
| `EveryRunSettles` | `NobodyWaitsInVain` |
| `PromptRunsFinish` | `RunsGetNearer` |
| `HostNeverBlocksPayload` | `NoCircularWait`, `FullPipesAreDrained` |
| `RunReturns` | `CallerTakesSevenSteps`, `JoinsEnd` |
| `EverySessionSettles` | `SessionsCountDown` |

The provers do not handle `ENABLED`, so "can take a step" is written out as the guards of the
actions (`CallerMayStep`, `ThreadMayStep`, `ReaderMayStep`, `FeederMayStep`, `Served`). The
last step, from a measure and weak fairness to the liveness property, is TLC's on the
instances of section 3. `NobodyWaitsInVain` is no measure: a client that reads slowly may
hold its handler as long as it likes.
`MaxReturned` bounds what one `generate()` call returns; the proofs hold for every value of it.

## 5. Not modelled, and the plan

Not modelled, because they are sequential conversions or scripts without state that
another step could observe:

* text: prompts and their parsing (`llm/generator.py`, `llm/critic.py`, `llm/parsing.py`), code
  extraction and payload framing, rendering, logging, SSE framing, the page;
* the validation of command line arguments (`ui/serve.py`): the model starts from the
  configurations it lets through;
* the benchmark's tasks and report, the LangGraph adapter (one `run()` as one
  node of another library), the scripted client and the demos.

The critics' wording is left out as well; who answers, and with which category, is in
`Sandbox`. The snapshots a replay shows are those of the rehydrated tree, which
`ArchiveFaithful` compares with the live one.

Left for later: the parsing of model output.
