------------------------------ MODULE Sandbox ------------------------------
(***************************************************************************)
(* How a session gets and uses its code executor: the backend selection    *)
(* that all sessions of a process share (cognitivetree/sandbox/backends.py *)
(* and ensure_image), the execution of one candidate on either backend     *)
(* (docker_executor.py, subprocess_executor.py), its grading               *)
(* (evaluation.py) and its diagnosis (feedback/execution_critic.py and     *)
(* composite.py).  run_bounded() is one wait here; BoundedRun has it in    *)
(* detail.  The Docker daemon is external: it answers, refuses or hangs,   *)
(* and it outlives the process, as its image and its containers do.  The   *)
(* docker client between the two can fail by itself at any time.           *)
(***************************************************************************)
EXTENDS Integers, FiniteSets

CONSTANTS
  Sessions,
  Runners,      \* bound: the sessions that go on to evaluate a candidate
  SuccessScore, FailureScore, TimeoutScore, MissingScore,  \* CodeExecutionEvaluator
  AcceptThreshold, PruneThreshold,                         \* SearchConfig
  LlmCritic     \* is an LLM critic chained behind the trace critic?

ASSUME SandboxAssumption ==
  /\ Runners \subseteq Sessions
  /\ {SuccessScore, FailureScore, TimeoutScore, MissingScore,
      AcceptThreshold, PruneThreshold} \subseteq Nat
  /\ FailureScore <= SuccessScore /\ PruneThreshold < AcceptThreshold
  /\ LlmCritic \in BOOLEAN

VARIABLES
  daemon,       \* "up", or "out": it refuses at once or lets the command hang
  image,        \* does the daemon have the sandbox image?
  container,    \* session |-> the container of its execution, at the daemon
  client,       \* session |-> the docker client that runs it
  probe,        \* _probe_result, and whether _probe_expiry lies ahead
  image_ready,  \* _image_ready
  image_error,  \* _image_error is not None
  at,           \* where the session's thread is
  available,    \* what docker_available() answered it
  executor,     \* what select_executor() gave it
  payload,      \* the candidate's code
  record,       \* node.metadata["execution"]
  verdict,      \* the evaluator's score, or why there is none
  critique      \* who diagnosed the candidate, and how

machineVars  == <<daemon, image, container, client>>
globalVars   == <<probe, image_ready, image_error>>
sessionVars  == <<at, available, executor, payload, record, verdict, critique>>
sandboxVars  == <<machineVars, globalVars, sessionVars>>

NoProbe == [result |-> FALSE, fresh |-> FALSE]

(***************************************************************************)
(* What a payload does when it runs: "exit_1" leaves a traceback,          *)
(* "exit_125" says nothing, the mimics also print what the docker client   *)
(* prints when it fails, and "none" is a thought without code.             *)
(***************************************************************************)
Payloads ==
  {"none", "exit_0", "exit_1", "exit_125", "mimic_125", "mimic_126", "endless"}

None == "none"

NoVerdict == -1
Raised    == -2     \* a SandboxError instead of an Evaluation

SandboxInit ==
  /\ daemon = "up" /\ image = FALSE
  /\ container = [s \in Sessions |-> "none"]
  /\ client = [s \in Sessions |-> "none"]
  /\ probe = NoProbe /\ image_ready = FALSE /\ image_error = FALSE
  /\ at = [s \in Sessions |-> "idle"]
  /\ available = [s \in Sessions |-> TRUE]
  /\ executor = [s \in Sessions |-> None]
  /\ payload = [s \in Sessions |-> None]
  /\ record = [s \in Sessions |-> None]
  /\ verdict = [s \in Sessions |-> NoVerdict]
  /\ critique = [s \in Sessions |-> None]

Step(s, from, to) == at[s] = from /\ at' = [at EXCEPT ![s] = to]

(***************************************************************************)
(* docker_available(): the lock covers the look at the cache and the       *)
(* update, not the probe between them.                                     *)
(***************************************************************************)
LookUpProbe(s) ==
  /\ at[s] = "select"
  /\ available' = [available EXCEPT ![s] = probe.fresh => probe.result]
  /\ at' = [at EXCEPT ![s] = IF ~probe.fresh THEN "probe"
                             ELSE IF probe.result THEN "gate" ELSE "fallback"]
  /\ UNCHANGED <<machineVars, globalVars, executor, payload, record, verdict, critique>>

\* is_available(): anything but a timely "linux" is a no.
is_available(s) ==
  /\ Step(s, "probe", "store")
  /\ \E yes \in BOOLEAN : (yes => daemon = "up")
                          /\ available' = [available EXCEPT ![s] = yes]
  /\ UNCHANGED <<machineVars, globalVars, executor, payload, record, verdict, critique>>

StoreProbe(s) ==
  /\ Step(s, "store", IF available[s] THEN "gate" ELSE "fallback")
  /\ probe' = [result |-> available[s], fresh |-> TRUE]
  /\ UNCHANGED <<machineVars, image_ready, image_error, available, executor,
                 payload, record, verdict, critique>>

ProbeExpires ==
  /\ probe.fresh /\ probe' = [probe EXCEPT !.fresh = FALSE]
  /\ UNCHANGED <<machineVars, image_ready, image_error, sessionVars>>

(***************************************************************************)
(* select_executor(): its globals are read and written without the lock.   *)
(***************************************************************************)
Gate(s) ==
  /\ at[s] = "gate"
  /\ at' = [at EXCEPT ![s] = IF image_error THEN "fallback"
                             ELSE IF image_ready THEN "pick" ELSE "inspect"]
  /\ UNCHANGED <<machineVars, globalVars, available, executor, payload, record,
                 verdict, critique>>

(***************************************************************************)
(* ensure_image(): inspect, and build what is missing.  A command that     *)
(* answers with a failure is handled; one that times out or cannot be      *)
(* started raises through select_executor() and there is no session.       *)
(***************************************************************************)
\* Mutant: the inspection has no timeout.
InspectPatiently(s) ==
  /\ daemon = "up"
  /\ Step(s, "inspect", IF image THEN "verified" ELSE "build")
  /\ UNCHANGED <<machineVars, globalVars, available, executor, payload, record,
                 verdict, critique>>

Inspect(s) ==
  /\ \/ daemon = "up" /\ Step(s, "inspect", IF image THEN "verified" ELSE "build")
     \/ daemon = "out" /\ Step(s, "inspect", "build")
     \/ Step(s, "inspect", "no_session")
  /\ UNCHANGED <<machineVars, globalVars, available, executor, payload, record,
                 verdict, critique>>

\* Mutant: a build that fails is remembered, but the image counts as ready.
BuildHopefully(s) ==
  /\ \/ daemon = "up" /\ image' = TRUE /\ UNCHANGED image_error
     \/ image_error' = TRUE /\ UNCHANGED image
  /\ Step(s, "build", "verified")
  /\ UNCHANGED <<daemon, container, client, probe, image_ready, available, executor,
                 payload, record, verdict, critique>>

Build(s) ==
  /\ \/ /\ daemon = "up" /\ Step(s, "build", "verified")
        /\ image' = TRUE /\ UNCHANGED image_error
     \/ /\ Step(s, "build", "pick")
        /\ image_error' = TRUE /\ UNCHANGED image
     \/ Step(s, "build", "no_session") /\ UNCHANGED <<image, image_error>>
  /\ UNCHANGED <<daemon, container, client, probe, image_ready, available, executor,
                 payload, record, verdict, critique>>

Verified(s) ==
  /\ Step(s, "verified", "pick")
  /\ image_ready' = TRUE
  /\ UNCHANGED <<machineVars, probe, image_error, available, executor, payload,
                 record, verdict, critique>>

Pick(s) ==
  /\ \/ image_ready /\ Step(s, "pick", "ready")
        /\ executor' = [executor EXCEPT ![s] = "docker"]
     \/ ~image_ready /\ Step(s, "pick", "fallback") /\ UNCHANGED executor
  /\ UNCHANGED <<machineVars, globalVars, available, payload, record, verdict,
                 critique>>

\* The description says why: a failed build, or else an unreachable daemon.
Fallback(s) ==
  /\ Step(s, "fallback", "ready")
  /\ executor' = [executor EXCEPT ![s] = IF image_error THEN "host_no_image"
                                                        ELSE "host_no_daemon"]
  /\ UNCHANGED <<machineVars, globalVars, available, payload, record, verdict,
                 critique>>

Select(s) ==
  \/ LookUpProbe(s) \/ is_available(s) \/ StoreProbe(s) \/ Gate(s) \/ Inspect(s)
  \/ Build(s) \/ Verified(s) \/ Pick(s) \/ Fallback(s)

-----------------------------------------------------------------------------
(***************************************************************************)
(* CodeExecutionEvaluator.evaluate(): a thought without code is graded at  *)
(* once.  Otherwise the executor spawns the interpreter or the docker      *)
(* client; a spawn that fails is the executor's error, not the payload's.  *)
(* A host child runs from here on; the client only requests a container.   *)
(***************************************************************************)
Submit(s) ==
  /\ at[s] = "ready" /\ s \in Runners
  /\ \E p \in Payloads :
       \/ /\ p = None
          /\ at' = [at EXCEPT ![s] = "apply"]
          /\ verdict' = [verdict EXCEPT ![s] = MissingScore]
          /\ UNCHANGED <<payload, container, client>>
       \/ /\ p # None
          /\ payload' = [payload EXCEPT ![s] = p]
          /\ \/ /\ at' = [at EXCEPT ![s] = "wait"]
                /\ container' = [container EXCEPT ![s] =
                     IF executor[s] = "docker" THEN "requested" ELSE "host_child"]
                /\ client' = [client EXCEPT ![s] =
                     IF executor[s] = "docker" THEN "attached" ELSE None]
                /\ UNCHANGED verdict
             \/ /\ at' = [at EXCEPT ![s] = "failed"]
                /\ verdict' = [verdict EXCEPT ![s] = Raised]
                /\ UNCHANGED <<container, client>>
  /\ UNCHANGED <<daemon, image, globalVars, available, executor, record, critique>>

(***************************************************************************)
(* The daemon creates the container; the client, while it is attached (and *)
(* even orphaned by a crash of the server), has it started.  A container   *)
(* that exits is removed (--rm), whether or not its client still listens.  *)
(***************************************************************************)
CreateContainer(s) ==
  /\ daemon = "up" /\ container[s] = "requested"
  /\ container' = [container EXCEPT ![s] = "created"]
  /\ UNCHANGED <<daemon, image, client, globalVars, sessionVars>>

StartContainer(s) ==
  /\ daemon = "up" /\ container[s] = "created" /\ client[s] = "attached"
  /\ container' = [container EXCEPT ![s] = "running"]
  /\ UNCHANGED <<daemon, image, client, globalVars, sessionVars>>

\* Mutant: the command line lacks --rm.
KeepExited == "exited"

ExitedContainer == "removed"     \* _build_command: docker run --rm

PayloadExits(s) ==
  /\ payload[s] # "endless"
  /\ \/ container[s] = "running"
        /\ container' = [container EXCEPT ![s] = ExitedContainer]
     \/ container[s] = "host_child"
        /\ container' = [container EXCEPT ![s] = "host_done"]
  /\ UNCHANGED <<daemon, image, client, globalVars, sessionVars>>

Finished(s) == container[s] \in {ExitedContainer, "host_done"}

(***************************************************************************)
(* The client gives up by itself: it cannot start the container, or it     *)
(* loses the daemon while the payload runs.  A request that was not served *)
(* yet may or may not reach the daemon; a container that exists is left.   *)
(***************************************************************************)
ClientFails(s) ==
  /\ client[s] = "attached"
  /\ client' = [client EXCEPT ![s] = "failed"]
  /\ \/ container[s] = "requested" /\ container' = [container EXCEPT ![s] = "none"]
     \/ UNCHANGED container
  /\ UNCHANGED <<daemon, image, globalVars, sessionVars>>

(***************************************************************************)
(* execute(): a child exited with the payload's own code, and so did a     *)
(* client that stayed attached; a failed client exits with a code and a    *)
(* message of its own.  _is_cli_fault() tells the two apart by the code    *)
(* and by what stderr mentions, a stream that client and payload share.    *)
(***************************************************************************)
\* Mutant: the exit code alone decides.
CliFaultByCode(code, mentions) == code \in {125, 126, 127}

_is_cli_fault(code, mentions) ==
  \/ code = 125 /\ "marker" \in mentions
  \/ code \in {126, 127} /\ "docker" \in mentions

CodeOf(p) ==
  CASE p = "exit_0"    -> 0
    [] p = "exit_1"    -> 1
    [] p = "mimic_126" -> 126
    [] OTHER           -> 125

MentionsOf(p) ==
  CASE p = "mimic_125" -> {"docker", "marker"}
    [] p = "mimic_126" -> {"docker"}
    [] OTHER           -> {}

Completed(code) == IF code = 0 THEN "exit_0" ELSE "exit_nonzero"

DockerStatus(code, mentions) ==
  IF _is_cli_fault(code, mentions) THEN "sandbox_error" ELSE Completed(code)

\* Only the client that was killed at the deadline has its container removed.
Collect(s) ==
  /\ Step(s, "wait", "grade")
  /\ \/ /\ executor[s] # "docker" /\ Finished(s)
        /\ record' = [record EXCEPT ![s] = Completed(CodeOf(payload[s]))]
        /\ UNCHANGED client
     \/ /\ client[s] = "attached" /\ Finished(s)
        /\ record' = [record EXCEPT ![s] =
             DockerStatus(CodeOf(payload[s]), MentionsOf(payload[s]))]
        /\ client' = [client EXCEPT ![s] = "exited"]
     \/ /\ client[s] = "failed"
        /\ \E code \in {125, 126}, mentions \in SUBSET {"docker", "marker"} :
             record' = [record EXCEPT ![s] = DockerStatus(code, mentions)]
        /\ UNCHANGED client
  /\ UNCHANGED <<daemon, image, container, globalVars, available, executor, payload,
                 verdict, critique>>

(***************************************************************************)
(* The deadline: the host child is killed with its process; killing the    *)
(* docker client leaves the container, which _force_remove() deletes if    *)
(* it is there and the daemon obeys.                                       *)
(***************************************************************************)
Deadline(s) ==
  /\ at[s] = "wait"
  /\ IF executor[s] = "docker"
     THEN /\ at' = [at EXCEPT ![s] = "remove"]
          /\ client' = [client EXCEPT ![s] = IF @ = "failed" THEN @ ELSE "killed"]
          /\ UNCHANGED <<record, container>>
     ELSE /\ at' = [at EXCEPT ![s] = "grade"]
          /\ record' = [record EXCEPT ![s] = "timeout"]
          /\ container' = [container EXCEPT ![s] = "host_done"]
          /\ UNCHANGED client
  /\ UNCHANGED <<daemon, image, globalVars, available, executor, payload, verdict,
                 critique>>

_force_remove(c) ==
  IF daemon = "up" /\ c \notin {"none", "requested"} THEN "removed" ELSE c

TimeOut(s) ==
  /\ Step(s, "remove", "grade")
  /\ container' = [container EXCEPT ![s] = _force_remove(@)]
  /\ record' = [record EXCEPT ![s] = "timeout"]
  /\ UNCHANGED <<daemon, image, client, globalVars, available, executor, payload, verdict,
                 critique>>

(***************************************************************************)
(* The verdict, once the record is on the node; an infrastructure fault    *)
(* raises instead.                                                         *)
(***************************************************************************)
Grade(s) ==
  /\ at[s] = "grade"
  /\ at' = [at EXCEPT ![s] = IF record[s] = "sandbox_error" THEN "failed" ELSE "apply"]
  /\ verdict' = [verdict EXCEPT ![s] =
       CASE record[s] = "sandbox_error" -> Raised
         [] record[s] = "timeout"       -> TimeoutScore
         [] record[s] = "exit_0"        -> SuccessScore
         [] OTHER                       -> FailureScore]
  /\ UNCHANGED <<machineVars, globalVars, available, executor, payload, record,
                 critique>>

(***************************************************************************)
(* The controller's use of the verdict: accepted, or kept open, or pruned  *)
(* and offered to the critics in their order.  The trace critic passes on  *)
(* nothing but a clean exit.                                               *)
(***************************************************************************)
Pruned(s) ==
  IF record[s] = "exit_0" THEN verdict[s] < AcceptThreshold
                          ELSE verdict[s] < PruneThreshold

TraceCritic(r) ==
  CASE r = None      -> "no_execution"
    [] r = "timeout" -> "timeout"
    [] r = "exit_0"  -> None
    [] OTHER         -> "exception"

Apply(s) ==
  /\ at[s] = "apply"
  /\ at' = [at EXCEPT ![s] = IF ~Pruned(s) /\ record[s] = "exit_0" THEN "succeeded"
                             ELSE "exhausted"]
  /\ critique' = [critique EXCEPT ![s] =
       IF ~Pruned(s) THEN None
       ELSE IF TraceCritic(record[s]) # None THEN TraceCritic(record[s])
       ELSE IF LlmCritic THEN "asked_model" ELSE None]
  /\ UNCHANGED <<machineVars, globalVars, available, executor, payload, record,
                 verdict>>

Evaluate(s) ==
  \/ Submit(s) \/ Collect(s) \/ Deadline(s) \/ TimeOut(s) \/ Grade(s) \/ Apply(s)

(***************************************************************************)
(* The environment: the daemon goes and recovers at any time, and a client *)
(* may fail with the daemon or without it.                                 *)
(***************************************************************************)
DaemonChanges ==
  /\ daemon' \in {"up", "out"} \ {daemon}
  /\ UNCHANGED <<image, container, client, globalVars, sessionVars>>

Environment ==
  \/ DaemonChanges \/ ProbeExpires
  \/ \E s \in Sessions :
       CreateContainer(s) \/ StartContainer(s) \/ PayloadExits(s) \/ ClientFails(s)
=============================================================================
