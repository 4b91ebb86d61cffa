-------------------------- MODULE ServerHostProofs --------------------------
(***************************************************************************)
(* Theorems about ServerHost, for any set of sessions and any number of    *)
(* crashes: backend selection, containers, verdicts, archives, and that    *)
(* every session's way is finite.                                          *)
(***************************************************************************)
EXTENDS ServerHost, TLAPS

Selecting ==
  {"idle", "select", "probe", "store", "gate", "inspect", "build", "verified",
   "pick", "fallback"}

Running == {"ready", "wait", "remove", "grade", "apply"}

Places == Selecting \cup Running \cup Outcomes \cup Over \cup {"writing"}

Executors == {None, "docker", "host_no_image", "host_no_daemon"}

Containers ==
  {"none", "requested", "created", "running", "removed", "host_child", "host_done"}

Clients == {"none", "attached", "failed", "killed", "exited"}

Records == {None, "exit_0", "exit_nonzero", "timeout", "sandbox_error"}

Diagnoses == {None, "no_execution", "timeout", "exception", "asked_model"}

Files == [outcome : Outcomes \cup {None}, content : {None, "empty", "torn", "complete"}]

HostTypes ==
  /\ image \in BOOLEAN
  /\ probe \in [result : BOOLEAN, fresh : BOOLEAN]
  /\ image_ready \in BOOLEAN /\ image_error \in BOOLEAN
  /\ at \in [Sessions -> Places]
  /\ available \in [Sessions -> BOOLEAN]
  /\ executor \in [Sessions -> Executors]
  /\ container \in [Sessions -> Containers]
  /\ client \in [Sessions -> Clients]
  /\ payload \in [Sessions -> Payloads]
  /\ record \in [Sessions -> Records]
  /\ verdict \in [Sessions -> Int]
  /\ critique \in [Sessions -> Diagnoses]
  /\ file \in [Sessions -> Files]

(***************************************************************************)
(* What the shared globals of backends.py promise a session that is in the *)
(* middle of select_executor(): the ready flag is raised only behind a     *)
(* verified image, and one of the two flags is up where the choice falls.  *)
(***************************************************************************)
SelectInv ==
  /\ image_ready => image
  /\ \A s \in Sessions :
       /\ at[s] = "verified" => image
       /\ at[s] \in {"gate", "inspect", "build", "verified", "pick"} => available[s]
       /\ at[s] = "pick" => image_ready \/ image_error
       /\ at[s] = "fallback" /\ available[s] => image_error
       /\ at[s] \in Selecting => executor[s] = None

(***************************************************************************)
(* Nothing is on the node, at the daemon or in the archive before its      *)
(* time: the record is written when the execution ends, and only once;     *)
(* only an isolated session has a client, and none stays attached behind   *)
(* the record.                                                             *)
(***************************************************************************)
Unrecorded == Selecting \cup {"ready", "wait", "remove"}

ExecutionInv ==
  \A s \in Sessions :
    /\ at[s] \in Unrecorded => record[s] = None
    /\ at[s] \in Selecting \cup {"ready"} => container[s] = "none" /\ client[s] = "none"
    /\ client[s] # "none" => executor[s] = "docker"
    /\ client[s] = "attached" => at[s] \in {"wait", "orphaned"}

(***************************************************************************)
(* The outcome that is archived follows from the record and the payload,   *)
(* and the file is touched by nothing but the archiving of its own run.    *)
(***************************************************************************)
ArchiveInv ==
  \A s \in Sessions :
    /\ record[s] = "exit_0" => payload[s] = "exit_0"
    /\ at[s] = "apply" /\ record[s] = "exit_0" => verdict[s] = SuccessScore
    /\ at[s] \in Outcomes => (at[s] = "succeeded" <=> record[s] = "exit_0")
    /\ at[s] \in Selecting \cup Running \cup Outcomes => file[s].content = None
    /\ file[s].content # None
         => file[s].outcome \in Outcomes
            /\ (file[s].outcome = "succeeded" <=> record[s] = "exit_0")
    /\ at[s] = "reported" => file[s].content = "complete"

SelectHostInv == HostTypes /\ SelectInv /\ SelectionHonest

ExecutionHostInv == HostTypes /\ ExecutionInv /\ ContainersAccounted

\* No diagnosis is the LLM critic's.
ModelNeverAsked == \A s \in Sessions : critique[s] # "asked_model"

ArchiveHostInv == ExecutionHostInv /\ ArchiveInv /\ ModelNeverAsked

USE DEF None, NoVerdict, Raised, NoFile, NoProbe

\* A host before its first session has every variable in its type.
LEMMA TypesInit == Init => HostTypes
  <1> SUFFICES ASSUME Init PROVE HostTypes
    OBVIOUS
  <1> USE DEF Init, SandboxInit, Executors, Containers, Clients, Records, Diagnoses, Files
  <1>1. probe \in [result : BOOLEAN, fresh : BOOLEAN]
    OBVIOUS
  <1>2. file \in [Sessions -> Files]
    OBVIOUS
  <1>3. /\ at \in [Sessions -> Places]
        /\ payload \in [Sessions -> Payloads]
    BY DEF Places, Selecting, Payloads
  <1>4. /\ executor \in [Sessions -> Executors]
        /\ container \in [Sessions -> Containers]
        /\ client \in [Sessions -> Clients]
        /\ record \in [Sessions -> Records]
        /\ critique \in [Sessions -> Diagnoses]
    OBVIOUS
  <1>5. available \in [Sessions -> BOOLEAN] /\ verdict \in [Sessions -> Int]
    OBVIOUS
  <1>6. image \in BOOLEAN /\ image_ready \in BOOLEAN /\ image_error \in BOOLEAN
    OBVIOUS
  <1> QED BY <1>1, <1>2, <1>3, <1>4, <1>5, <1>6 DEF HostTypes

\* What docker_executor.py makes of an exit is one of three statuses, and a
\* clean exit only of the code 0.
LEMMA StatusIsRecord ==
  ASSUME NEW code, NEW mentions
  PROVE  /\ DockerStatus(code, mentions) \in Records \ {None, "timeout"}
         /\ Completed(code) \in Records \ {None, "timeout"}
         /\ DockerStatus(code, mentions) = "exit_0" => code = 0
         /\ Completed(code) # "sandbox_error"
  BY DEF DockerStatus, Completed, Records

(***************************************************************************)
(* Every step keeps the types.                                             *)
(***************************************************************************)
LEMMA TypesStep ==
  ASSUME HostTypes, SandboxAssumption, [Next]_vars
  PROVE  HostTypes'
  <1> USE SandboxAssumption DEF SandboxAssumption, HostTypes, Places, Selecting,
       Running, Outcomes, Over, Payloads, Executors,
       Containers, Clients, Records, Diagnoses, Files
  <1>1. CASE Start
    BY <1>1 DEF Start, sandboxVars, machineVars, globalVars, sessionVars
  <1>2. CASE Crash
    BY <1>2 DEF Crash, machineVars
  <1>3. CASE Environment /\ UNCHANGED hostVars
    <2>1. CASE DaemonChanges
      BY <1>3, <2>1 DEF DaemonChanges, globalVars, sessionVars, hostVars
    <2>2. CASE ProbeExpires
      BY <1>3, <2>2 DEF ProbeExpires, machineVars, sessionVars, hostVars
    <2>3. CASE \E s \in Sessions : CreateContainer(s) \/ StartContainer(s) \/ PayloadExits(s)
      <3>1. PICK s \in Sessions, c \in Containers : container' = [container EXCEPT ![s] = c]
        BY <2>3 DEF CreateContainer, StartContainer, PayloadExits, ExitedContainer
      <3> QED BY <1>3, <2>3, <3>1 DEF CreateContainer, StartContainer, PayloadExits,
                 globalVars, sessionVars, hostVars
    <2>4. ASSUME NEW s \in Sessions, ClientFails(s) PROVE HostTypes'
      <3>1. container' \in [Sessions -> Containers] /\ client' \in [Sessions -> Clients]
        BY <2>4 DEF ClientFails
      <3> QED BY <1>3, <2>4, <3>1 DEF ClientFails, globalVars, sessionVars, hostVars
    <2> QED BY <1>3, <2>1, <2>2, <2>3, <2>4 DEF Environment
  <1>4. ASSUME NEW s \in Sessions, Connect(s) PROVE HostTypes'
    BY <1>4 DEF Connect, Step, machineVars, globalVars, hostVars
  <1>5. ASSUME NEW s \in Sessions, Select(s), UNCHANGED hostVars PROVE HostTypes'
    <2> USE <1>5 DEF machineVars, globalVars, hostVars, Step
    <2>1. CASE LookUpProbe(s) BY <2>1 DEF LookUpProbe
    <2>2. CASE is_available(s) BY <2>2 DEF is_available
    <2>3. CASE StoreProbe(s) BY <2>3 DEF StoreProbe
    <2>4. CASE Gate(s) BY <2>4 DEF Gate
    <2>5. CASE Inspect(s) BY <2>5 DEF Inspect
    <2>6. CASE Build(s)
      <3>1. PICK p \in {"verified", "pick", "no_session"} : at' = [at EXCEPT ![s] = p]
        BY <2>6 DEF Build
      <3>4. at' \in [Sessions -> Places]
        BY <3>1
      <3>2. image' \in BOOLEAN
        BY <2>6 DEF Build
      <3>3. image_error' \in BOOLEAN
        BY <2>6 DEF Build
      <3> QED BY <2>6, <3>4, <3>2, <3>3 DEF Build
    <2>7. CASE Verified(s) BY <2>7 DEF Verified
    <2>8. CASE Pick(s)
      <3>1. at' \in [Sessions -> Places]
        BY <2>8 DEF Pick
      <3>2. executor' \in [Sessions -> Executors]
        BY <2>8 DEF Pick
      <3> QED BY <2>8, <3>1, <3>2 DEF Pick
    <2>9. CASE Fallback(s) BY <2>9 DEF Fallback
    <2> QED BY <2>1, <2>2, <2>3, <2>4, <2>5, <2>6, <2>7, <2>8, <2>9 DEF Select
  <1>6. ASSUME NEW s \in Sessions, Evaluate(s), UNCHANGED hostVars PROVE HostTypes'
    <2> USE <1>6 DEF machineVars, globalVars, hostVars, Step
    <2>1. CASE Submit(s)
      <3>1. at' \in [Sessions -> Places]
        <4>1. PICK p \in {"apply", "wait", "failed"} : at' = [at EXCEPT ![s] = p]
          BY <2>1 DEF Submit
        <4> QED BY <4>1
      <3>4. payload' \in [Sessions -> Payloads]
        BY <2>1 DEF Submit
      <3>2. verdict' \in [Sessions -> Int]
        BY <2>1 DEF Submit
      <3>3. container' \in [Sessions -> Containers]
        BY <2>1 DEF Submit
      <3>5. client' \in [Sessions -> Clients]
        BY <2>1 DEF Submit
      <3> QED BY <2>1, <3>1, <3>2, <3>3, <3>4, <3>5 DEF Submit
    <2>2. CASE Collect(s)
      <3>1. \E r \in Records : record' = [record EXCEPT ![s] = r]
        <4>1. CASE record' = [record EXCEPT ![s] = Completed(CodeOf(payload[s]))]
          BY <4>1, StatusIsRecord
        <4>2. CASE record' = [record EXCEPT ![s] =
                                DockerStatus(CodeOf(payload[s]), MentionsOf(payload[s]))]
          <5>1. DockerStatus(CodeOf(payload[s]), MentionsOf(payload[s])) \in Records
            BY StatusIsRecord
          <5> QED BY <4>2, <5>1
        <4>3. CASE \E code \in {125, 126}, mentions \in SUBSET {"docker", "marker"} :
                     record' = [record EXCEPT ![s] = DockerStatus(code, mentions)]
          BY <4>3, StatusIsRecord
        <4> QED BY <2>2, <4>1, <4>2, <4>3 DEF Collect
      <3>2. record' \in [Sessions -> Records]
        BY <3>1
      <3>3. client' \in [Sessions -> Clients]
        BY <2>2 DEF Collect
      <3> QED BY <2>2, <3>2, <3>3 DEF Collect
    <2>4. CASE Deadline(s)
      <3>1. CASE executor[s] = "docker"
        <4>1. client' \in [Sessions -> Clients]
          BY <2>4, <3>1 DEF Deadline
        <4> QED BY <2>4, <3>1, <4>1 DEF Deadline
      <3>2. CASE executor[s] # "docker" 
        <4>1. at' \in [Sessions -> Places]
          BY <2>4, <3>2 DEF Deadline
        <4>3. record' \in [Sessions -> Records]
          BY <2>4, <3>2 DEF Deadline
        <4>2. container' \in [Sessions -> Containers]
          BY <2>4, <3>2 DEF Deadline
        <4> QED BY <2>4, <3>2, <4>1, <4>2, <4>3 DEF Deadline
      <3> QED BY <3>1, <3>2
    <2>5. CASE TimeOut(s) BY <2>5 DEF TimeOut, _force_remove
    <2>6. CASE Grade(s) BY <2>6 DEF Grade
    <2>7. CASE Apply(s) BY <2>7 DEF Apply, TraceCritic
    <2> QED BY <2>1, <2>2, <2>4, <2>5, <2>6, <2>7 DEF Evaluate
  <1>7. ASSUME NEW s \in Sessions, Archive(s) PROVE HostTypes'
    <2> USE <1>7 DEF machineVars, globalVars, Step
    <2>1. CASE OpenArchive(s) 
      <3>1. file' \in [Sessions -> Files]
        BY <2>1 DEF OpenArchive
      <3>2. at' \in [Sessions -> Places]
        BY <2>1 DEF OpenArchive
      <3> QED BY <2>1, <3>1, <3>2 DEF OpenArchive
    <2>2. CASE WriteText(s) 
      <3>1. file' \in [Sessions -> Files]
        BY <2>2 DEF WriteText, Write
      <3>2. at' \in [Sessions -> Places]
        BY <2>2 DEF WriteText
      <3> QED BY <2>2, <3>1, <3>2 DEF WriteText
    <2>3. CASE Report(s) BY <2>3 DEF Report
    <2> QED BY <2>1, <2>2, <2>3 DEF Archive
  <1>8. CASE UNCHANGED vars
    BY <1>8 DEF vars, hostVars, sandboxVars, machineVars, globalVars, sessionVars
  <1> QED BY <1>1, <1>2, <1>3, <1>4, <1>5, <1>6, <1>7, <1>8 DEF Next, Thread

-----------------------------------------------------------------------------
(***************************************************************************)
(* Backend selection.  Of the shared flags only a crash takes one back,    *)
(* and then no session is selecting; the image is never taken back.        *)
(***************************************************************************)
LEMMA SelectStep ==
  ASSUME HostTypes, HostTypes', SelectInv, SelectionHonest, [Next]_vars
  PROVE  SelectInv' /\ SelectionHonest'
  <1> USE DEF HostTypes, SelectInv, SelectionHonest, Selecting
  <1>1. CASE Start
    BY <1>1 DEF Start, sandboxVars, machineVars, globalVars, sessionVars
  <1>2. CASE Crash
    BY <1>2 DEF Crash, machineVars, Over
  <1>3. CASE Environment /\ UNCHANGED hostVars
    BY <1>3 DEF Environment, DaemonChanges, ProbeExpires, CreateContainer, StartContainer,
       PayloadExits, ClientFails, machineVars, globalVars, sessionVars
  <1>4. ASSUME NEW s \in Sessions, Connect(s) PROVE SelectInv' /\ SelectionHonest'
    BY <1>4 DEF Connect, Step, machineVars, globalVars
  <1>5. ASSUME NEW s \in Sessions, Select(s) PROVE SelectInv' /\ SelectionHonest'
    <2> USE DEF machineVars, globalVars, Step
    <2>1. CASE LookUpProbe(s) BY <2>1 DEF LookUpProbe
    <2>2. CASE is_available(s) BY <2>2 DEF is_available
    <2>3. CASE StoreProbe(s) BY <2>3 DEF StoreProbe
    <2>4. CASE Gate(s) BY <2>4 DEF Gate
    <2>5. CASE Inspect(s) BY <2>5 DEF Inspect
    <2>6. CASE Build(s) BY <2>6 DEF Build
    <2>7. CASE Verified(s) BY <2>7 DEF Verified
    <2>8. CASE Pick(s) BY <2>8 DEF Pick
    <2>9. CASE Fallback(s) BY <2>9 DEF Fallback
    <2> QED BY <1>5, <2>1, <2>2, <2>3, <2>4, <2>5, <2>6, <2>7, <2>8, <2>9 DEF Select
  <1>6. ASSUME NEW s \in Sessions, Evaluate(s) PROVE SelectInv' /\ SelectionHonest'
    <2>1. /\ UNCHANGED <<image, globalVars, available, executor>>
          /\ \E p \in Places \ Selecting : at' = [at EXCEPT ![s] = p]
      BY <1>6 DEF Evaluate, Submit, Collect, Deadline, TimeOut, Grade, Apply,
         Step, machineVars, Places, Running, Outcomes
    <2> QED BY <2>1 DEF globalVars
  <1>7. ASSUME NEW s \in Sessions, Archive(s) PROVE SelectInv' /\ SelectionHonest'
    <2>1. /\ UNCHANGED <<machineVars, globalVars, available, executor>>
          /\ at' = at \/ \E p \in Places \ Selecting : at' = [at EXCEPT ![s] = p]
      BY <1>7 DEF Archive, OpenArchive, WriteText, Report, Step, Places, Over
    <2> QED BY <2>1 DEF machineVars, globalVars
  <1>8. CASE UNCHANGED vars
    BY <1>8 DEF vars, sandboxVars, machineVars, globalVars, sessionVars
  <1> QED BY <1>1, <1>2, <1>3, <1>4, <1>5, <1>6, <1>7, <1>8 DEF Next, Thread

(***************************************************************************)
(* SelectionHonest: however the sessions of a process interleave in        *)
(* select_executor(), and whatever the daemon does, a session told that it *)
(* is isolated has the image, and one told that the daemon is unreachable  *)
(* was answered so.                                                        *)
(***************************************************************************)
THEOREM SelectionIsHonest == Spec => []SelectionHonest
  <1>1. Init => SelectHostInv
    BY TypesInit DEF SelectHostInv, Init, SandboxInit, SelectInv, SelectionHonest
  <1>2. SelectHostInv /\ [Next]_vars => SelectHostInv'
    BY SandboxAssumption, TypesStep, SelectStep DEF SelectHostInv
  <1>3. SelectHostInv => SelectionHonest
    BY DEF SelectHostInv
  <1> QED BY <1>1, <1>2, <1>3, PTL DEF Spec

-----------------------------------------------------------------------------
(***************************************************************************)
(* What Collect() writes: a record of an execution that finished, or one   *)
(* of a failed client, which is never a clean exit.                        *)
(***************************************************************************)
CollectShape(s) ==
  \E r \in {"exit_0", "exit_nonzero", "sandbox_error"}, c \in {"none", "exited", "failed"} :
    /\ record' = [record EXCEPT ![s] = r] /\ client' = [client EXCEPT ![s] = c]
    /\ Finished(s) \/ (c = "failed" /\ r # "exit_0")
    /\ c # "none" => executor[s] = "docker"

LEMMA CollectShapes ==
  ASSUME HostTypes, ExecutionInv, NEW s \in Sessions, Collect(s)
  PROVE  CollectShape(s)
  <1> USE DEF HostTypes, ExecutionInv, Records
  <1>1. CASE /\ executor[s] # "docker" /\ Finished(s) /\ UNCHANGED client
             /\ record' = [record EXCEPT ![s] = Completed(CodeOf(payload[s]))]
    <2>1. client' = [client EXCEPT ![s] = "none"]
      BY <1>1
    <2> QED BY <1>1, <2>1, StatusIsRecord DEF CollectShape
  <1>2. CASE /\ client[s] = "attached" /\ Finished(s)
             /\ client' = [client EXCEPT ![s] = "exited"]
             /\ record' = [record EXCEPT ![s] =
                             DockerStatus(CodeOf(payload[s]), MentionsOf(payload[s]))]
    <2>1. PICK r : /\ r \in {"exit_0", "exit_nonzero", "sandbox_error"}
                   /\ record' = [record EXCEPT ![s] = r]
      BY <1>2, StatusIsRecord
    <2>2. executor[s] = "docker"
      BY <1>2
    <2> QED BY <1>2, <2>1, <2>2 DEF CollectShape
  <1>3. CASE /\ client[s] = "failed" /\ UNCHANGED client
             /\ \E code \in {125, 126}, mentions \in SUBSET {"docker", "marker"} :
                  record' = [record EXCEPT ![s] = DockerStatus(code, mentions)]
    <2>1. PICK code \in {125, 126}, mentions \in SUBSET {"docker", "marker"} :
            record' = [record EXCEPT ![s] = DockerStatus(code, mentions)]
      BY <1>3
    <2>2. DockerStatus(code, mentions) \in {"exit_nonzero", "sandbox_error"}
      BY StatusIsRecord
    <2>3. client' = [client EXCEPT ![s] = "failed"]
      BY <1>3
    <2> QED BY <1>3, <2>1, <2>2, <2>3 DEF CollectShape
  <1> QED BY <1>1, <1>2, <1>3 DEF Collect

(***************************************************************************)
(* Execution.  The record is written where the execution ends, and what is *)
(* done with it afterwards leaves the container alone.                     *)
(***************************************************************************)
LEMMA ExecutionStep ==
  ASSUME HostTypes, HostTypes', ExecutionInv, ContainersAccounted, [Next]_vars
  PROVE  ExecutionInv' /\ ContainersAccounted'
  <1> USE DEF HostTypes, ExecutionInv, ContainersAccounted, Selecting, Unrecorded
  <1>1. CASE Start
    BY <1>1 DEF Start, sandboxVars, machineVars, globalVars, sessionVars
  <1>2. CASE Crash
    BY <1>2 DEF Crash, machineVars, Over
  <1>3. CASE Environment /\ UNCHANGED hostVars
    <2> USE DEF machineVars, globalVars, sessionVars
    <2>1. CASE DaemonChanges \/ ProbeExpires
      BY <2>1 DEF DaemonChanges, ProbeExpires
    <2>2. ASSUME NEW s \in Sessions, CreateContainer(s)
          PROVE ExecutionInv' /\ ContainersAccounted'
      BY <2>2 DEF CreateContainer
    <2>3. ASSUME NEW s \in Sessions, StartContainer(s)
          PROVE ExecutionInv' /\ ContainersAccounted'
      BY <2>3 DEF StartContainer
    <2>4. ASSUME NEW s \in Sessions, PayloadExits(s)
          PROVE ExecutionInv' /\ ContainersAccounted'
      BY <2>4 DEF PayloadExits, ExitedContainer
    <2>5. ASSUME NEW s \in Sessions, ClientFails(s)
          PROVE ExecutionInv' /\ ContainersAccounted'
      BY <2>5 DEF ClientFails
    <2> QED BY <1>3, <2>1, <2>2, <2>3, <2>4, <2>5 DEF Environment
  <1>4. ASSUME NEW s \in Sessions, Connect(s) PROVE ExecutionInv' /\ ContainersAccounted'
    BY <1>4 DEF Connect, Step, machineVars
  <1>5. ASSUME NEW s \in Sessions, Select(s) PROVE ExecutionInv' /\ ContainersAccounted'
    <2>1. /\ UNCHANGED <<container, client, record>> /\ at[s] \in Selecting
          /\ \A r \in Sessions \ {s} : executor'[r] = executor[r]
          /\ \E p \in Selecting \cup {"ready", "no_session"} : at' = [at EXCEPT ![s] = p]
      BY <1>5 DEF Select, LookUpProbe, is_available, StoreProbe, Gate, Inspect, Build,
         Verified, Pick, Fallback, Step, machineVars
    <2> QED BY <2>1
  <1>6. ASSUME NEW s \in Sessions, Evaluate(s) PROVE ExecutionInv' /\ ContainersAccounted'
    <2> USE DEF machineVars, Step
    <2>1. CASE Submit(s) BY <2>1 DEF Submit
    <2>2. CASE Collect(s)
      <3>1. CollectShape(s)
        BY <2>2, CollectShapes
      <3>2. PICK r \in {"exit_0", "exit_nonzero", "sandbox_error"},
                 c \in {"none", "exited", "failed"} :
              /\ record' = [record EXCEPT ![s] = r] /\ client' = [client EXCEPT ![s] = c]
              /\ container[s] \in {"removed", "host_done"} \/ c = "failed"
              /\ c # "none" => executor[s] = "docker"
        BY <3>1 DEF CollectShape, Finished, ExitedContainer
      <3>3. /\ at[s] = "wait" /\ at' = [at EXCEPT ![s] = "grade"]
            /\ UNCHANGED <<container, executor>>
        BY <2>2 DEF Collect
      <3>4. ExecutionInv'
        BY <3>2, <3>3
      <3>5. ContainersAccounted'
        BY <3>2, <3>3
      <3> QED BY <3>4, <3>5
    <2>4. CASE Deadline(s)
      <3>1. CASE executor[s] = "docker"
        BY <2>4, <3>1 DEF Deadline
      <3>2. CASE executor[s] # "docker"
        BY <2>4, <3>2 DEF Deadline
      <3> QED BY <3>1, <3>2
    <2>5. CASE TimeOut(s) BY <2>5 DEF TimeOut, _force_remove
    <2>6. CASE Grade(s) BY <2>6 DEF Grade
    <2>7. CASE Apply(s) BY <2>7 DEF Apply
    <2> QED BY <1>6, <2>1, <2>2, <2>4, <2>5, <2>6, <2>7 DEF Evaluate
  <1>7. ASSUME NEW s \in Sessions, Archive(s) PROVE ExecutionInv' /\ ContainersAccounted'
    <2>1. /\ UNCHANGED <<machineVars, executor, record>>
          /\ \/ at' = at
             \/ /\ at[s] \in Outcomes \cup {"writing"}
                /\ \E p \in {"writing", "unreported", "died", "reported"} :
                     at' = [at EXCEPT ![s] = p]
      BY <1>7 DEF Archive, OpenArchive, WriteText, Report, Step, Outcomes
    <2> QED BY <2>1 DEF machineVars, Outcomes
  <1>8. CASE UNCHANGED vars
    BY <1>8 DEF vars, sandboxVars, machineVars, sessionVars
  <1> QED BY <1>1, <1>2, <1>3, <1>4, <1>5, <1>6, <1>7, <1>8 DEF Next, Thread

\* Before its first session the host runs nothing.
LEMMA ExecutionInit == Init => ExecutionHostInv
  BY TypesInit DEF ExecutionHostInv, Init, SandboxInit, ExecutionInv, ContainersAccounted

(***************************************************************************)
(* ContainersAccounted: whatever the daemon and the docker clients do and  *)
(* whenever the server dies, an execution that ended by itself leaves no   *)
(* container, and one that runs on behind its session belongs to a failed  *)
(* client, to a timeout or to a crashed server.                            *)
(***************************************************************************)
THEOREM ContainersAreAccounted == Spec => []ContainersAccounted
  <1>1. Init => ExecutionHostInv
    BY ExecutionInit
  <1>2. ExecutionHostInv /\ [Next]_vars => ExecutionHostInv'
    BY SandboxAssumption, TypesStep, ExecutionStep DEF ExecutionHostInv
  <1>3. ExecutionHostInv => ContainersAccounted
    BY DEF ExecutionHostInv
  <1> QED BY <1>1, <1>2, <1>3, PTL DEF Spec

-----------------------------------------------------------------------------
(***************************************************************************)
(* Outcome and archive.  They rest on what evaluation.py asks of its       *)
(* success score: that it lies at or above the acceptance threshold.       *)
(***************************************************************************)
LEMMA ArchiveStep ==
  ASSUME SandboxAssumption, SuccessScore >= AcceptThreshold,
         HostTypes, HostTypes', ExecutionInv, ArchiveInv, ModelNeverAsked,
         [Next]_vars
  PROVE  ArchiveInv' /\ ModelNeverAsked'
  <1> USE DEF HostTypes, ArchiveInv, ModelNeverAsked
  <1>1. CASE Start
    BY <1>1 DEF Start, sandboxVars, machineVars, globalVars, sessionVars
  <1>2. CASE Crash
    BY <1>2 DEF Crash, machineVars, Over, Selecting, Running, Outcomes
  <1>3. CASE Environment /\ UNCHANGED hostVars
    BY <1>3 DEF Environment, DaemonChanges, ProbeExpires, CreateContainer, StartContainer,
       PayloadExits, ClientFails, machineVars, globalVars, sessionVars, hostVars
  <1>4. ASSUME NEW s \in Sessions, Connect(s)
        PROVE ArchiveInv' /\ ModelNeverAsked'
    BY <1>4 DEF Connect, Step, machineVars, globalVars, hostVars, Selecting, Outcomes
  <1>5. ASSUME NEW s \in Sessions, Select(s), UNCHANGED hostVars
        PROVE ArchiveInv' /\ ModelNeverAsked'
    <2>1. /\ UNCHANGED <<payload, record, verdict, critique>> /\ at[s] \in Selecting
          /\ \E p \in Selecting \cup {"ready", "no_session"} : at' = [at EXCEPT ![s] = p]
      BY <1>5 DEF Select, LookUpProbe, is_available, StoreProbe, Gate, Inspect, Build,
         Verified, Pick, Fallback, Step, Selecting
    <2> QED BY <1>5, <2>1 DEF hostVars, Selecting, Outcomes
  <1>6. ASSUME NEW s \in Sessions, Evaluate(s), UNCHANGED hostVars
        PROVE ArchiveInv' /\ ModelNeverAsked'
    <2> USE <1>6 DEF hostVars, Step, ExecutionInv, Unrecorded, Selecting, Running, Outcomes
    <2>1. CASE Submit(s) BY <2>1 DEF Submit
    <2>2. CASE Collect(s)
      <3>1. record'[s] = "exit_0" => payload[s] = "exit_0"
        BY <2>2 DEF Collect, DockerStatus, Completed, CodeOf
      <3>2. \A r \in Sessions \ {s} : record'[r] = record[r]
        BY <2>2 DEF Collect
      <3> QED BY <2>2, <3>1, <3>2 DEF Collect
    <2>4. CASE Deadline(s) BY <2>4 DEF Deadline
    <2>5. CASE TimeOut(s) BY <2>5 DEF TimeOut
    <2>6. CASE Grade(s) BY <2>6 DEF Grade
    <2>7. CASE Apply(s)
      <3>1. record[s] = "exit_0" => ~Pruned(s)
        BY <2>7, SandboxAssumption DEF Apply, Pruned, SandboxAssumption
      <3>2. critique'[s] # "asked_model"
        BY <2>7, <3>1 DEF Apply, TraceCritic, Records
      <3> QED BY <2>7, <3>1, <3>2 DEF Apply
    <2> QED BY <2>1, <2>2, <2>4, <2>5, <2>6, <2>7 DEF Evaluate
  <1>7. ASSUME NEW s \in Sessions, Archive(s)
        PROVE ArchiveInv' /\ ModelNeverAsked'
    <2> USE DEF Step, Selecting, Running, Outcomes, Files
    <2>1. CASE OpenArchive(s)
      <3>1. at[s] \in Outcomes /\ UNCHANGED <<payload, record, verdict, critique>>
        BY <2>1 DEF OpenArchive
      <3>2. CASE /\ at' = [at EXCEPT ![s] = "writing"]
                 /\ file' = [file EXCEPT ![s] = [outcome |-> at[s], content |-> "empty"]]
        BY <3>1, <3>2
      <3>3. CASE at' = [at EXCEPT ![s] = "unreported"] /\ UNCHANGED file
        BY <3>1, <3>3
      <3> QED BY <2>1, <3>2, <3>3 DEF OpenArchive
    <2>2. CASE WriteText(s)
      <3>1. at[s] = "writing" /\ UNCHANGED <<payload, record, verdict, critique>>
        BY <2>2 DEF WriteText
      <3>2. CASE UNCHANGED at /\ \E c \in {"torn", "complete"} : Write(s, c)
        BY <3>1, <3>2, <2>2 DEF Write, WriteText
      <3>3. CASE UNCHANGED file /\ at' = [at EXCEPT ![s] = "died"]
        BY <3>1, <3>3
      <3> QED BY <2>2, <3>2, <3>3 DEF WriteText
    <2>3. CASE Report(s) BY <2>3 DEF Report
    <2> QED BY <1>7, <2>1, <2>2, <2>3 DEF Archive
  <1>8. CASE UNCHANGED vars
    BY <1>8 DEF vars, sandboxVars, sessionVars, hostVars
  <1> QED BY <1>1, <1>2, <1>3, <1>4, <1>5, <1>6, <1>7, <1>8 DEF Next, Thread

\* What the host knows of its containers, critics and archives, as one
\* inductive invariant.
LEMMA ArchiveInductive ==
  ASSUME SuccessScore >= AcceptThreshold
  PROVE  Spec => []ArchiveHostInv
  <1>1. Init => ArchiveHostInv
    <2> SUFFICES ASSUME Init PROVE ArchiveInv /\ ModelNeverAsked
      BY ExecutionInit DEF ArchiveHostInv
    <2>1. ASSUME NEW s \in Sessions
          PROVE  /\ record[s] = None /\ at[s] = "idle" /\ file[s].content = None
                 /\ critique[s] = None
      BY DEF Init, SandboxInit
    <2> QED BY <2>1 DEF ArchiveInv, ModelNeverAsked, Outcomes
  <1>2. ArchiveHostInv /\ [Next]_vars => ArchiveHostInv'
    BY SandboxAssumption, TypesStep, ExecutionStep, ArchiveStep
       DEF ArchiveHostInv, ExecutionHostInv
  <1> QED BY <1>1, <1>2, PTL DEF Spec

(***************************************************************************)
(* With a clean exit at or above the acceptance threshold, no failure, not *)
(* even one without a trace, makes ChainedCritic([trace critic, LLM        *)
(* critic]) ask its second critic: what the trace critic passes on is a    *)
(* clean exit, and a clean exit is not pruned.                             *)
(***************************************************************************)
THEOREM TraceCriticSuffices ==
  ASSUME SuccessScore >= AcceptThreshold
  PROVE  Spec => []ModelNeverAsked
  <1>1. ArchiveHostInv => ModelNeverAsked
    BY DEF ArchiveHostInv
  <1> QED BY <1>1, ArchiveInductive, PTL

(***************************************************************************)
(* ArchiveTrustworthy: what load_run() accepts is a whole run under its    *)
(* own outcome, whenever the server died and wherever the disk was full,   *)
(* and what the log names is accepted.                                     *)
(***************************************************************************)
THEOREM ArchivesAreTrustworthy ==
  ASSUME SuccessScore >= AcceptThreshold
  PROVE  Spec => []ArchiveTrustworthy
  <1>1. ArchiveHostInv => ArchiveTrustworthy
    BY DEF ArchiveHostInv, ExecutionHostInv, ArchiveInv, ArchiveTrustworthy, Replayable,
       load_run, Outcomes
  <1> QED BY <1>1, ArchiveInductive, PTL

-----------------------------------------------------------------------------
(***************************************************************************)
(* Grading.  A finished container that is still waited for ended by its    *)
(* payload; the record then repeats the payload's own code, or it is what  *)
(* a client that failed by itself came up with.                            *)
(***************************************************************************)
EndingPayloads == {"exit_0"} \cup FailingPayloads

Ungraded == Unrecorded \cup {"grade", "orphaned"}

EvidenceInv ==
  \A s \in Sessions :
    /\ at[s] \in Ungraded => verdict[s] = NoVerdict
    /\ at[s] = "orphaned" => record[s] = None
    /\ at[s] = "grade" => record[s] # None
    /\ at[s] = "wait" => payload[s] # None
    /\ at[s] = "wait" /\ Finished(s) => payload[s] \in EndingPayloads
    /\ record[s] = "exit_0" => payload[s] = "exit_0" /\ Finished(s)
    /\ record[s] = "exit_nonzero" =>
         \/ payload[s] \in FailingPayloads /\ Finished(s)
         \/ client[s] = "failed"
    /\ record[s] = "sandbox_error" =>
         \/ payload[s] \in {"mimic_125", "mimic_126"} /\ Finished(s)
         \/ client[s] = "failed"

VerdictInv ==
  \A s \in Sessions :
    /\ verdict[s] = SuccessScore => record[s] = "exit_0"
    /\ verdict[s] = FailureScore => record[s] = "exit_nonzero"

DistinctScores ==
  /\ SuccessScore \notin {FailureScore, TimeoutScore, MissingScore}
  /\ FailureScore \notin {TimeoutScore, MissingScore}

\* Every step of the host keeps a verdict tied to the record of the execution
\* it was graded on.
LEMMA EvidenceStep ==
  ASSUME HostTypes, HostTypes', ExecutionInv, EvidenceInv, [Next]_vars
  PROVE  EvidenceInv'
  <1> USE DEF HostTypes, ExecutionInv, EvidenceInv, Ungraded, Unrecorded, Selecting,
          EndingPayloads, FailingPayloads, Finished, ExitedContainer
  <1>1. CASE Start
    BY <1>1 DEF Start, sandboxVars, machineVars, globalVars, sessionVars
  <1>2. CASE Crash
    BY <1>2 DEF Crash, machineVars, Over
  <1>3. CASE Environment /\ UNCHANGED hostVars
    <2> USE DEF machineVars, globalVars, sessionVars
    <2>1. CASE DaemonChanges \/ ProbeExpires
      BY <2>1 DEF DaemonChanges, ProbeExpires
    <2>2. ASSUME NEW s \in Sessions, CreateContainer(s) PROVE EvidenceInv'
      BY <2>2 DEF CreateContainer
    <2>3. ASSUME NEW s \in Sessions, StartContainer(s) PROVE EvidenceInv'
      BY <2>3 DEF StartContainer
    <2>4. ASSUME NEW s \in Sessions, PayloadExits(s) PROVE EvidenceInv'
      BY <2>4 DEF PayloadExits, Payloads
    <2>5. ASSUME NEW s \in Sessions, ClientFails(s) PROVE EvidenceInv'
      BY <2>5 DEF ClientFails
    <2> QED BY <1>3, <2>1, <2>2, <2>3, <2>4, <2>5 DEF Environment
  <1>4. ASSUME NEW s \in Sessions, Connect(s) PROVE EvidenceInv'
    BY <1>4 DEF Connect, Step, machineVars
  <1>5. ASSUME NEW s \in Sessions, Select(s) PROVE EvidenceInv'
    <2>1. /\ UNCHANGED <<container, client, payload, record, verdict>> /\ at[s] \in Selecting
          /\ \E p \in Selecting \cup {"ready", "no_session"} : at' = [at EXCEPT ![s] = p]
      BY <1>5 DEF Select, LookUpProbe, is_available, StoreProbe, Gate, Inspect, Build,
         Verified, Pick, Fallback, Step, machineVars
    <2> QED BY <2>1
  <1>6. ASSUME NEW s \in Sessions, Evaluate(s) PROVE EvidenceInv'
    <2> USE DEF machineVars, Step
    <2>1. CASE Submit(s) BY <2>1 DEF Submit
    <2>2. CASE Collect(s)
      <3>1. CASE Finished(s) /\ UNCHANGED client
                 /\ record' = [record EXCEPT ![s] = Completed(CodeOf(payload[s]))]
        BY <2>2, <3>1 DEF Collect, Completed, CodeOf
      <3>2. CASE /\ Finished(s) /\ client' = [client EXCEPT ![s] = "exited"]
                 /\ record' = [record EXCEPT ![s] =
                                 DockerStatus(CodeOf(payload[s]), MentionsOf(payload[s]))]
        <4>1. /\ record'[s] = "exit_0" => payload[s] = "exit_0"
              /\ record'[s] = "exit_nonzero" => payload[s] \in FailingPayloads
              /\ record'[s] = "sandbox_error" => payload[s] \in {"mimic_125", "mimic_126"}
              /\ record'[s] # None
          BY <2>2, <3>2 DEF Collect, DockerStatus, Completed, CodeOf, MentionsOf, _is_cli_fault
        <4> QED BY <2>2, <3>2, <4>1 DEF Collect
      <3>3. CASE /\ client[s] = "failed" /\ UNCHANGED client
                 /\ \E code \in {125, 126}, mentions \in SUBSET {"docker", "marker"} :
                      record' = [record EXCEPT ![s] = DockerStatus(code, mentions)]
        <4>1. PICK code \in {125, 126}, mentions \in SUBSET {"docker", "marker"} :
                record' = [record EXCEPT ![s] = DockerStatus(code, mentions)]
          BY <3>3
        <4>2. /\ DockerStatus(code, mentions) \in Records \ {None}
              /\ DockerStatus(code, mentions) # "exit_0"
          BY StatusIsRecord
        <4>3. PICK r : r \notin {None, "exit_0"} /\ record' = [record EXCEPT ![s] = r]
          BY <4>1, <4>2
        <4> QED BY <2>2, <3>3, <4>3 DEF Collect
      <3> QED BY <2>2, <3>1, <3>2, <3>3 DEF Collect
    <2>4. CASE Deadline(s) BY <2>4 DEF Deadline
    <2>5. CASE TimeOut(s) BY <2>5 DEF TimeOut, _force_remove
    <2>6. CASE Grade(s) BY <2>6 DEF Grade
    <2>7. CASE Apply(s) BY <2>7 DEF Apply
    <2> QED BY <1>6, <2>1, <2>2, <2>4, <2>5, <2>6, <2>7 DEF Evaluate
  <1>7. ASSUME NEW s \in Sessions, Archive(s) PROVE EvidenceInv'
    <2>1. /\ UNCHANGED <<container, client, payload, record, verdict>>
          /\ \/ at' = at
             \/ \E p \in {"writing", "unreported", "died", "reported"} :
                  at' = [at EXCEPT ![s] = p]
      BY <1>7 DEF Archive, OpenArchive, WriteText, Report, Step, machineVars
    <2> QED BY <2>1
  <1>8. CASE UNCHANGED vars
    BY <1>8 DEF vars, sandboxVars, machineVars, sessionVars
  <1> QED BY <1>1, <1>2, <1>3, <1>4, <1>5, <1>6, <1>7, <1>8 DEF Next, Thread

(***************************************************************************)
(* The verdict is given once, from the record; with distinct scores it can *)
(* be read back.                                                           *)
(***************************************************************************)
LEMMA VerdictStep ==
  ASSUME SandboxAssumption, DistinctScores, HostTypes, ExecutionInv, EvidenceInv, VerdictInv,
         [Next]_vars
  PROVE  VerdictInv'
  <1> USE SandboxAssumption DEF SandboxAssumption, HostTypes, VerdictInv
  <1>1. ASSUME UNCHANGED <<record, verdict>> PROVE VerdictInv'
    BY <1>1
  <1>2. ASSUME NEW s \in Sessions, UNCHANGED record, DistinctScores,
               \E v \in {MissingScore, Raised} : verdict' = [verdict EXCEPT ![s] = v]
        PROVE  VerdictInv'
    BY <1>2 DEF DistinctScores
  <1>3. ASSUME NEW s \in Sessions, UNCHANGED verdict, verdict[s] = NoVerdict,
               \A r \in Sessions \ {s} : record'[r] = record[r]
        PROVE  VerdictInv'
    BY <1>3
  <1>4. ASSUME NEW s \in Sessions, Submit(s) PROVE VerdictInv'
    BY <1>1, <1>2, <1>4 DEF Submit
  <1>5. ASSUME NEW s \in Sessions, Collect(s) \/ Deadline(s) \/ TimeOut(s)
        PROVE  VerdictInv'
    <2>1. /\ at[s] \in {"wait", "remove"} /\ UNCHANGED verdict
          /\ \A r \in Sessions \ {s} : record'[r] = record[r]
      BY <1>5 DEF Collect, Deadline, TimeOut, Step
    <2>2. verdict[s] = NoVerdict
      BY <2>1 DEF EvidenceInv, Ungraded, Unrecorded
    <2> QED BY <1>3, <2>1, <2>2
  <1>6. ASSUME NEW s \in Sessions, Grade(s) PROVE VerdictInv'
    <2>1. /\ UNCHANGED record
          /\ \/ record[s] = "exit_0" /\ verdict' = [verdict EXCEPT ![s] = SuccessScore]
             \/ record[s] = "timeout" /\ verdict' = [verdict EXCEPT ![s] = TimeoutScore]
             \/ record[s] = "sandbox_error" /\ verdict' = [verdict EXCEPT ![s] = Raised]
             \/ record[s] = "exit_nonzero" /\ verdict' = [verdict EXCEPT ![s] = FailureScore]
      BY <1>6 DEF Grade, Records, EvidenceInv
    <2> QED BY <2>1 DEF DistinctScores
  <1>7. ASSUME NEW s \in Sessions, Apply(s) PROVE VerdictInv'
    BY <1>1, <1>7 DEF Apply
  <1>8. CASE Start \/ Crash \/ (Environment /\ UNCHANGED hostVars) \/ UNCHANGED vars
    BY <1>1, <1>8 DEF Start, Crash, Environment, DaemonChanges, ProbeExpires, CreateContainer,
       StartContainer, PayloadExits, ClientFails, vars, sandboxVars, sessionVars
  <1>9. ASSUME NEW s \in Sessions, Connect(s) \/ Select(s) \/ Archive(s) PROVE VerdictInv'
    BY <1>1, <1>9 DEF Connect, Select, LookUpProbe, is_available, StoreProbe, Gate, Inspect,
       Build, Verified, Pick, Fallback, Archive, OpenArchive, WriteText, Report
  <1> QED BY <1>4, <1>5, <1>6, <1>7, <1>8, <1>9 DEF Next, Thread, Evaluate

EvidenceHostInv == ExecutionHostInv /\ EvidenceInv /\ VerdictInv

(***************************************************************************)
(* GradedOnEvidence: with scores that tell the verdicts apart, as the      *)
(* defaults of CodeExecutionEvaluator do, a success is always earned, and  *)
(* a failure or a fault is the payload's own unless the docker client gave *)
(* up by itself, at whatever point of the execution it did so.             *)
(***************************************************************************)
THEOREM VerdictsRestOnEvidence ==
  ASSUME DistinctScores
  PROVE  Spec => []GradedOnEvidence
  <1>1. Init => EvidenceHostInv
    <2> SUFFICES ASSUME Init PROVE EvidenceInv /\ VerdictInv
      BY ExecutionInit DEF EvidenceHostInv
    <2> USE SandboxAssumption DEF SandboxAssumption, Init, SandboxInit
    <2>1. EvidenceInv
      BY DEF EvidenceInv, Ungraded, Unrecorded, Selecting, Finished, ExitedContainer
    <2>2. VerdictInv
      BY DEF VerdictInv
    <2> QED BY <2>1, <2>2
  <1>2. EvidenceHostInv /\ [Next]_vars => EvidenceHostInv'
    BY SandboxAssumption, TypesStep, ExecutionStep, EvidenceStep, VerdictStep
       DEF EvidenceHostInv, ExecutionHostInv
  <1>3. EvidenceHostInv => GradedOnEvidence
    BY DEF EvidenceHostInv, EvidenceInv, VerdictInv, GradedOnEvidence, Finished, ExitedContainer,
       FailingPayloads
  <1> QED BY <1>1, <1>2, <1>3, PTL DEF Spec

-----------------------------------------------------------------------------
(***************************************************************************)
(* How far a session is from its end: no step of its thread leads back.    *)
(***************************************************************************)
TextLeft(content) ==
  CASE content = "empty" -> 2
    [] content = "torn"  -> 1
    [] OTHER             -> 0

StepsLeft(place, content) ==
  CASE place = "idle"     -> 19
    [] place = "select"   -> 18
    [] place = "probe"    -> 17
    [] place = "store"    -> 16
    [] place = "gate"     -> 15
    [] place = "inspect"  -> 14
    [] place = "build"    -> 13
    [] place = "verified" -> 12
    [] place = "pick"     -> 11
    [] place = "fallback" -> 10
    [] place = "ready"    -> 9
    [] place = "wait"     -> 8
    [] place = "remove"   -> 7
    [] place = "grade"    -> 6
    [] place = "apply"    -> 5
    [] place \in Outcomes -> 4
    [] place = "writing"  -> 1 + TextLeft(content)
    [] OTHER              -> 0

ToSettle(s) == StepsLeft(at[s], file[s].content)

(***************************************************************************)
(* Its own thread brings a session nearer to its end, and nobody else sets *)
(* it back: not another session, not the daemon and not a crash.           *)
(***************************************************************************)
NearerItsEnd ==
  \A s \in Sessions :
    /\ ToSettle(s)' \in Nat
    /\ Connect(s) \/ Thread(s) => ToSettle(s)' < ToSettle(s)
    /\ ToSettle(s)' <= ToSettle(s)

\* The measure is a natural number at every place of a session.
LEMMA StepsLeftNat ==
  ASSUME NEW place \in Places, NEW content
  PROVE  StepsLeft(place, content) \in Nat
  BY DEF StepsLeft, TextLeft, Places, Selecting, Running, Outcomes, Over

\* A crash ends a session or leaves it where it is.
LEMMA NothingAfterOver ==
  ASSUME NEW place \in Over, NEW content
  PROVE  StepsLeft(place, content) = 0
  BY DEF StepsLeft, Outcomes, Over

(***************************************************************************)
(* A step of a session's thread moves no other session and brings its own  *)
(* nearer to its end.                                                      *)
(***************************************************************************)
Nearer(s) ==
  /\ \A t \in Sessions \ {s} : at'[t] = at[t] /\ file'[t] = file[t]
  /\ ToSettle(s)' < ToSettle(s)

\* What does not touch the archives is seen in the place alone.
LEMMA PlaceNearer ==
  ASSUME HostTypes, NEW s \in Sessions, NEW p, at' = [at EXCEPT ![s] = p], UNCHANGED file,
         StepsLeft(p, file[s].content) < StepsLeft(at[s], file[s].content)
  PROVE  Nearer(s)
  BY DEF Nearer, ToSettle, HostTypes

\* The places in the order in which a session passes them.
LEMMA PlaceTable ==
  ASSUME NEW c
  PROVE  /\ StepsLeft("idle", c) = 19 /\ StepsLeft("select", c) = 18
         /\ StepsLeft("probe", c) = 17 /\ StepsLeft("store", c) = 16
         /\ StepsLeft("gate", c) = 15 /\ StepsLeft("inspect", c) = 14
         /\ StepsLeft("build", c) = 13 /\ StepsLeft("verified", c) = 12
         /\ StepsLeft("pick", c) = 11 /\ StepsLeft("fallback", c) = 10
         /\ StepsLeft("ready", c) = 9 /\ StepsLeft("wait", c) = 8
         /\ StepsLeft("remove", c) = 7 /\ StepsLeft("grade", c) = 6
         /\ StepsLeft("apply", c) = 5 /\ StepsLeft("writing", c) = 1 + TextLeft(c)
         /\ StepsLeft("no_session", c) = 0
         /\ \A p \in Outcomes : StepsLeft(p, c) = 4
         /\ \A p \in Over : StepsLeft(p, c) = 0
  BY DEF StepsLeft, Outcomes, Over

LEMMA ConnectNearer ==
  ASSUME HostTypes, NEW s \in Sessions, Connect(s)
  PROVE  Nearer(s)
  <1>1. at[s] = "idle" /\ at' = [at EXCEPT ![s] = "select"] /\ UNCHANGED file
    BY DEF Connect, Step, hostVars
  <1>2. StepsLeft("select", file[s].content) < StepsLeft(at[s], file[s].content)
    BY <1>1, PlaceTable
  <1> QED
    BY <1>1, <1>2, PlaceNearer

LEMMA SelectNearer ==
  ASSUME HostTypes, NEW s \in Sessions, Select(s), UNCHANGED hostVars
  PROVE  Nearer(s)
  <1>1. CASE LookUpProbe(s)
    <2>1. PICK p \in {"probe", "gate", "fallback"} : at' = [at EXCEPT ![s] = p]
      BY <1>1 DEF LookUpProbe, Step
    <2>2. at[s] = "select"
      BY <1>1 DEF LookUpProbe, Step
    <2>3. StepsLeft(p, file[s].content) < StepsLeft(at[s], file[s].content)
      BY <2>1, <2>2, PlaceTable
    <2> QED
      BY <2>1, <2>3, PlaceNearer DEF hostVars
  <1>2. CASE is_available(s)
    <2>1. PICK p \in {"store"} : at' = [at EXCEPT ![s] = p]
      BY <1>2 DEF is_available, Step
    <2>2. at[s] = "probe"
      BY <1>2 DEF is_available, Step
    <2>3. StepsLeft(p, file[s].content) < StepsLeft(at[s], file[s].content)
      BY <2>1, <2>2, PlaceTable
    <2> QED
      BY <2>1, <2>3, PlaceNearer DEF hostVars
  <1>3. CASE StoreProbe(s)
    <2>1. PICK p \in {"gate", "fallback"} : at' = [at EXCEPT ![s] = p]
      BY <1>3 DEF StoreProbe, Step
    <2>2. at[s] = "store"
      BY <1>3 DEF StoreProbe, Step
    <2>3. StepsLeft(p, file[s].content) < StepsLeft(at[s], file[s].content)
      BY <2>1, <2>2, PlaceTable
    <2> QED
      BY <2>1, <2>3, PlaceNearer DEF hostVars
  <1>4. CASE Gate(s)
    <2>1. PICK p \in {"fallback", "pick", "inspect"} : at' = [at EXCEPT ![s] = p]
      BY <1>4 DEF Gate, Step
    <2>2. at[s] = "gate"
      BY <1>4 DEF Gate, Step
    <2>3. StepsLeft(p, file[s].content) < StepsLeft(at[s], file[s].content)
      BY <2>1, <2>2, PlaceTable
    <2> QED
      BY <2>1, <2>3, PlaceNearer DEF hostVars
  <1>5. CASE Inspect(s)
    <2>1. PICK p \in {"verified", "build", "no_session"} : at' = [at EXCEPT ![s] = p]
      BY <1>5 DEF Inspect, Step
    <2>2. at[s] = "inspect"
      BY <1>5 DEF Inspect, Step
    <2>3. StepsLeft(p, file[s].content) < StepsLeft(at[s], file[s].content)
      BY <2>1, <2>2, PlaceTable
    <2> QED
      BY <2>1, <2>3, PlaceNearer DEF hostVars
  <1>6. CASE Build(s)
    <2>1. PICK p \in {"verified", "pick", "no_session"} : at' = [at EXCEPT ![s] = p]
      BY <1>6 DEF Build, Step
    <2>2. at[s] = "build"
      BY <1>6 DEF Build, Step
    <2>3. StepsLeft(p, file[s].content) < StepsLeft(at[s], file[s].content)
      BY <2>1, <2>2, PlaceTable
    <2> QED
      BY <2>1, <2>3, PlaceNearer DEF hostVars
  <1>7. CASE Verified(s)
    <2>1. PICK p \in {"pick"} : at' = [at EXCEPT ![s] = p]
      BY <1>7 DEF Verified, Step
    <2>2. at[s] = "verified"
      BY <1>7 DEF Verified, Step
    <2>3. StepsLeft(p, file[s].content) < StepsLeft(at[s], file[s].content)
      BY <2>1, <2>2, PlaceTable
    <2> QED
      BY <2>1, <2>3, PlaceNearer DEF hostVars
  <1>8. CASE Pick(s)
    <2>1. PICK p \in {"ready", "fallback"} : at' = [at EXCEPT ![s] = p]
      BY <1>8 DEF Pick, Step
    <2>2. at[s] = "pick"
      BY <1>8 DEF Pick, Step
    <2>3. StepsLeft(p, file[s].content) < StepsLeft(at[s], file[s].content)
      BY <2>1, <2>2, PlaceTable
    <2> QED
      BY <2>1, <2>3, PlaceNearer DEF hostVars
  <1>9. CASE Fallback(s)
    <2>1. PICK p \in {"ready"} : at' = [at EXCEPT ![s] = p]
      BY <1>9 DEF Fallback, Step
    <2>2. at[s] = "fallback"
      BY <1>9 DEF Fallback, Step
    <2>3. StepsLeft(p, file[s].content) < StepsLeft(at[s], file[s].content)
      BY <2>1, <2>2, PlaceTable
    <2> QED
      BY <2>1, <2>3, PlaceNearer DEF hostVars
  <1> QED
    BY <1>1, <1>2, <1>3, <1>4, <1>5, <1>6, <1>7, <1>8, <1>9 DEF Select

LEMMA EvaluateNearer ==
  ASSUME HostTypes, NEW s \in Sessions, Evaluate(s), UNCHANGED hostVars
  PROVE  Nearer(s)
  <1>1. CASE Submit(s)
    <2>1. PICK p \in {"apply", "wait", "failed"} : at' = [at EXCEPT ![s] = p]
      BY <1>1 DEF Submit, Step
    <2>2. at[s] = "ready"
      BY <1>1 DEF Submit, Step
    <2>3. StepsLeft(p, file[s].content) < StepsLeft(at[s], file[s].content)
      BY <2>1, <2>2, PlaceTable DEF Outcomes
    <2> QED
      BY <2>1, <2>3, PlaceNearer DEF hostVars
  <1>2. CASE Collect(s)
    <2>1. PICK p \in {"grade"} : at' = [at EXCEPT ![s] = p]
      BY <1>2 DEF Collect, Step
    <2>2. at[s] = "wait"
      BY <1>2 DEF Collect, Step
    <2>3. StepsLeft(p, file[s].content) < StepsLeft(at[s], file[s].content)
      BY <2>1, <2>2, PlaceTable
    <2> QED
      BY <2>1, <2>3, PlaceNearer DEF hostVars
  <1>4. CASE Deadline(s)
    <2>1. PICK p \in {"remove", "grade"} : at' = [at EXCEPT ![s] = p]
      BY <1>4 DEF Deadline, Step
    <2>2. at[s] = "wait"
      BY <1>4 DEF Deadline, Step
    <2>3. StepsLeft(p, file[s].content) < StepsLeft(at[s], file[s].content)
      BY <2>1, <2>2, PlaceTable
    <2> QED
      BY <2>1, <2>3, PlaceNearer DEF hostVars
  <1>5. CASE TimeOut(s)
    <2>1. PICK p \in {"grade"} : at' = [at EXCEPT ![s] = p]
      BY <1>5 DEF TimeOut, Step
    <2>2. at[s] = "remove"
      BY <1>5 DEF TimeOut, Step
    <2>3. StepsLeft(p, file[s].content) < StepsLeft(at[s], file[s].content)
      BY <2>1, <2>2, PlaceTable
    <2> QED
      BY <2>1, <2>3, PlaceNearer DEF hostVars
  <1>6. CASE Grade(s)
    <2>1. PICK p \in {"failed", "apply"} : at' = [at EXCEPT ![s] = p]
      BY <1>6 DEF Grade, Step
    <2>2. at[s] = "grade"
      BY <1>6 DEF Grade, Step
    <2>3. StepsLeft(p, file[s].content) < StepsLeft(at[s], file[s].content)
      BY <2>1, <2>2, PlaceTable DEF Outcomes
    <2> QED
      BY <2>1, <2>3, PlaceNearer DEF hostVars
  <1>7. CASE Apply(s)
    <2>1. PICK p \in Outcomes : at' = [at EXCEPT ![s] = p]
      BY <1>7 DEF Apply, Step, Outcomes
    <2>2. at[s] = "apply"
      BY <1>7 DEF Apply, Step
    <2>3. StepsLeft(p, file[s].content) < StepsLeft(at[s], file[s].content)
      BY <2>1, <2>2, PlaceTable DEF Outcomes
    <2> QED
      BY <2>1, <2>3, PlaceNearer DEF hostVars
  <1> QED
    BY <1>1, <1>2, <1>4, <1>5, <1>6, <1>7 DEF Evaluate

LEMMA ArchiveNearer ==
  ASSUME HostTypes, NEW s \in Sessions, Archive(s)
  PROVE  Nearer(s)
  <1> DEFINE c == file[s].content
  <1>1. CASE OpenArchive(s)
    <2>1. at[s] \in Outcomes /\ StepsLeft(at[s], c) = 4
      BY <1>1, PlaceTable DEF OpenArchive
    <2>2. CASE at' = [at EXCEPT ![s] = "unreported"] /\ UNCHANGED file
      <3>1. StepsLeft("unreported", c) < StepsLeft(at[s], c)
        BY <2>1, PlaceTable DEF Over
      <3> QED
        BY <2>2, <3>1, PlaceNearer
    <2>3. CASE /\ at' = [at EXCEPT ![s] = "writing"]
               /\ file' = [file EXCEPT ![s] = [outcome |-> at[s], content |-> "empty"]]
      <3>1. at'[s] = "writing" /\ file'[s].content = "empty"
        BY <2>3 DEF HostTypes
      <3>2. StepsLeft("writing", "empty") = 3
        BY PlaceTable DEF TextLeft
      <3> QED
        BY <2>1, <2>3, <3>1, <3>2 DEF Nearer, ToSettle, HostTypes
    <2> QED
      BY <1>1, <2>2, <2>3 DEF OpenArchive
  <1>2. CASE WriteText(s)
    <2>1. at[s] = "writing" /\ StepsLeft(at[s], c) = 1 + TextLeft(c)
      BY <1>2, PlaceTable DEF WriteText
    <2>2. ASSUME NEW to \in {"torn", "complete"},
                 c = (IF to = "torn" THEN "empty" ELSE "torn"), Write(s, to), UNCHANGED at
          PROVE  Nearer(s)
      <3>1. at'[s] = "writing" /\ file'[s].content = to
        BY <2>1, <2>2 DEF Write, HostTypes, Files
      <3>2. StepsLeft("writing", to) < StepsLeft("writing", c)
        BY <2>2, PlaceTable DEF TextLeft
      <3> QED
        BY <2>1, <2>2, <3>1, <3>2 DEF Nearer, ToSettle, Write, HostTypes
    <2>3. CASE at' = [at EXCEPT ![s] = "died"] /\ UNCHANGED file
      <3>1. StepsLeft("died", c) < StepsLeft(at[s], c)
        BY <2>1, PlaceTable DEF Over, TextLeft
      <3> QED
        BY <2>3, <3>1, PlaceNearer
    <2> QED
      BY <1>2, <2>2, <2>3 DEF WriteText
  <1>3. CASE Report(s)
    <2>1. PICK p \in {"reported", "unreported"} : at' = [at EXCEPT ![s] = p]
      BY <1>3 DEF Report, Step
    <2>2. at[s] = "writing" /\ UNCHANGED file
      BY <1>3 DEF Report, Step
    <2>3. StepsLeft(p, c) < StepsLeft(at[s], c)
      BY <2>1, <2>2, PlaceTable DEF Over, TextLeft
    <2> QED
      BY <2>1, <2>2, <2>3, PlaceNearer
  <1> QED
    BY <1>1, <1>2, <1>3 DEF Archive

\* Neither the daemon, the clock nor the server's own life touches a session
\* otherwise than by ending it.
LEMMA OthersNearer ==
  ASSUME HostTypes, Start \/ Crash \/ (Environment /\ UNCHANGED hostVars) \/ UNCHANGED vars,
         NEW s \in Sessions
  PROVE  ToSettle(s)' <= ToSettle(s)
  <1>1. ToSettle(s) \in Nat
    BY StepsLeftNat DEF ToSettle, HostTypes
  <1>2. CASE Crash
    <2>1. file'[s] = file[s] /\ (at'[s] = at[s] \/ at'[s] \in Over)
      BY <1>2 DEF Crash, HostTypes, Over
    <2> QED
      BY <1>1, <2>1, NothingAfterOver DEF ToSettle
  <1>3. CASE UNCHANGED <<at, file>>
    BY <1>1, <1>3 DEF ToSettle
  <1>4. CASE Start
    BY <1>3, <1>4 DEF Start, sandboxVars, sessionVars
  <1>5. CASE Environment /\ UNCHANGED hostVars
    BY <1>3, <1>5 DEF Environment, DaemonChanges, ProbeExpires, CreateContainer,
       StartContainer, PayloadExits, ClientFails, sessionVars, hostVars
  <1>6. CASE UNCHANGED vars
    BY <1>3, <1>6 DEF vars, sandboxVars, sessionVars, hostVars
  <1> QED
    BY <1>2, <1>4, <1>5, <1>6

(***************************************************************************)
(* No session goes round in circles, whatever the daemon, its payload and  *)
(* the other sessions do: the safety half of EverySessionSettles.          *)
(***************************************************************************)
THEOREM SessionsCountDown == Spec => [][NearerItsEnd]_vars
  <1>1. Init => HostTypes
    BY TypesInit
  <1>2. HostTypes /\ [Next]_vars => HostTypes'
    BY SandboxAssumption, TypesStep
  <1>3. HostTypes /\ HostTypes' /\ [Next]_vars => NearerItsEnd
    <2> SUFFICES ASSUME HostTypes, HostTypes', [Next]_vars
                 PROVE  NearerItsEnd
      OBVIOUS
    <2>1. \A s \in Sessions : ToSettle(s) \in Nat /\ ToSettle(s)' \in Nat
      BY StepsLeftNat DEF ToSettle, HostTypes
    <2>2. \A s \in Sessions : Connect(s) \/ Thread(s) => Nearer(s)
      BY ConnectNearer, SelectNearer, EvaluateNearer, ArchiveNearer DEF Thread
    <2>3. ASSUME NEW s \in Sessions
          PROVE  ToSettle(s)' <= ToSettle(s)
      <3>1. CASE \E t \in Sessions : Connect(t) \/ Thread(t)
        <4>1. PICK t \in Sessions : Nearer(t)
          BY <2>2, <3>1
        <4>2. CASE t = s
          BY <2>1, <4>1, <4>2 DEF Nearer
        <4>3. CASE t # s
          BY <2>1, <4>1, <4>3 DEF Nearer, ToSettle
        <4> QED
          BY <4>2, <4>3
      <3>2. CASE ~ \E t \in Sessions : Connect(t) \/ Thread(t)
        BY <3>2, OthersNearer DEF Next
      <3> QED
        BY <3>1, <3>2
    <2> QED
      BY <2>1, <2>2, <2>3 DEF NearerItsEnd, Nearer
  <1> QED
    BY <1>1, <1>2, <1>3, PTL DEF Spec
=============================================================================
