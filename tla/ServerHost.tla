----------------------------- MODULE ServerHost -----------------------------
(***************************************************************************)
(* The machine a server runs on: the server process, which serves sessions *)
(* (Sandbox), archives each finished run (session.py, persistence/         *)
(* archive.py) and may die between any two steps; the files and containers *)
(* that outlive it; and what a second process that replays an archive      *)
(* (ui/serve.py with --backend replay) would load at any time.  One        *)
(* thought per session: the search around it is TreeSearch.                *)
(***************************************************************************)
EXTENDS Sandbox

CONSTANT MaxCrashes     \* bound: how often the server process dies

ASSUME MaxCrashesAssumption == MaxCrashes \in Nat

VARIABLES
  server,     \* "down" or "live"
  crashes,
  file        \* session |-> the archive its run left

hostVars == <<server, crashes, file>>
vars == <<sandboxVars, hostVars>>

NoFile == [outcome |-> None, content |-> None]

Outcomes == {"succeeded", "exhausted", "failed"}     \* SearchOutcome

\* No further step of the session's threads.
Over == {"no_session", "reported", "unreported", "died", "lost", "orphaned"}

Init ==
  /\ SandboxInit
  /\ server = "down" /\ crashes = 0
  /\ file = [s \in Sessions |-> NoFile]

(***************************************************************************)
(* main(): the module globals of backends.py begin empty.                  *)
(***************************************************************************)
Start ==
  /\ server = "down" /\ server' = "live"
  /\ UNCHANGED <<sandboxVars, crashes, file>>

\* _stream_session(): each connection has the factory build a session first.
Connect(s) ==
  /\ server = "live" /\ Step(s, "idle", "select")
  /\ UNCHANGED <<machineVars, globalVars, available, executor, payload, record,
                 verdict, critique, hostVars>>

(***************************************************************************)
(* _archive() and save_run(): the file is created empty under its final    *)
(* name, filled in place, and reported once write_text() returns.  Without *)
(* an archive_dir, or when the file cannot be opened, the run is logged    *)
(* without an archive.                                                     *)
(***************************************************************************)
OpenArchive(s) ==
  /\ at[s] \in Outcomes
  /\ \/ /\ at' = [at EXCEPT ![s] = "writing"]
        /\ file' = [file EXCEPT ![s] = [outcome |-> at[s], content |-> "empty"]]
     \/ /\ at' = [at EXCEPT ![s] = "unreported"]
        /\ UNCHANGED file
  /\ UNCHANGED <<machineVars, globalVars, available, executor, payload, record,
                 verdict, critique, server, crashes>>

Write(s, content) == file' = [file EXCEPT ![s].content = content]

\* Text that UTF-8 cannot encode (a lone surrogate of the model's) stops the
\* write before its first byte, with an error _archive() does not expect.
WriteText(s) ==
  /\ at[s] = "writing"
  /\ \/ /\ file[s].content = "empty" /\ UNCHANGED at
        /\ Write(s, "torn")
     \/ /\ file[s].content = "torn" /\ UNCHANGED at
        /\ Write(s, "complete")
     \/ /\ file[s].content = "empty" /\ UNCHANGED file
        /\ at' = [at EXCEPT ![s] = "died"]
  /\ UNCHANGED <<machineVars, globalVars, available, executor, payload, record,
                 verdict, critique, server, crashes>>

\* Mutant: the path is reported whether or not the write went through.
ReportHopefully(s) ==
  /\ Step(s, "writing", "reported")
  /\ UNCHANGED <<machineVars, globalVars, available, executor, payload, record,
                 verdict, critique, server, crashes, file>>

\* The OSError of a full disk is logged; what was written stays.
Report(s) ==
  /\ Step(s, "writing",
          IF file[s].content = "complete" THEN "reported" ELSE "unreported")
  /\ UNCHANGED <<machineVars, globalVars, available, executor, payload, record,
                 verdict, critique, server, crashes, file>>

Archive(s) == OpenArchive(s) \/ WriteText(s) \/ Report(s)

(***************************************************************************)
(* The process dies with its threads and globals.  A docker client or host *)
(* child that was running is orphaned, and runs on.                        *)
(***************************************************************************)
Crash ==
  /\ server = "live" /\ crashes < MaxCrashes
  /\ server' = "down" /\ crashes' = crashes + 1
  /\ at' = [s \in Sessions |->
              IF at[s] \in Over \cup {"idle"} THEN at[s]
              ELSE IF at[s] = "wait" THEN "orphaned" ELSE "lost"]
  /\ probe' = NoProbe /\ image_ready' = FALSE /\ image_error' = FALSE
  /\ UNCHANGED <<machineVars, available, executor, payload, record, verdict,
                 critique, file>>

(***************************************************************************)
(* session_factory_from_args() of a replaying server calls load_run()      *)
(* before the first request.  A missing file is an OSError, an empty or    *)
(* torn one an ArchiveFormatError (a UnicodeDecodeError, which nothing     *)
(* catches, if it ends inside a character): none of them is served.        *)
(***************************************************************************)
load_run(s) == IF file[s].content = "complete" THEN file[s].outcome ELSE "error"

Replayable(s) == load_run(s) # "error"

-----------------------------------------------------------------------------
Thread(s) ==
  \/ Select(s) /\ UNCHANGED hostVars
  \/ Evaluate(s) /\ UNCHANGED hostVars
  \/ Archive(s)

Next ==
  \/ Start \/ Crash
  \/ Environment /\ UNCHANGED hostVars
  \/ \E s \in Sessions : Connect(s) \/ Thread(s)

(***************************************************************************)
(* A thread that can step does: every command it waits for has a timeout.  *)
(* Nothing obliges the daemon, the clock of the probe or the crash.        *)
(***************************************************************************)
Spec == Init /\ [][Next]_vars /\ \A s \in Sessions : WF_vars(Thread(s))

-----------------------------------------------------------------------------
(***************************************************************************)
(* A description never lies about isolation: a session told "docker" has   *)
(* a daemon with the image (no matter whose build failed meanwhile), and   *)
(* one told "daemon unreachable" was really answered no.                   *)
(***************************************************************************)
SelectionHonest ==
  \A s \in Sessions :
    /\ executor[s] = "docker" => image
    /\ executor[s] = "host_no_daemon" => ~available[s]

(***************************************************************************)
(* A success was earned: the payload ran to its exit and exited cleanly,   *)
(* whatever the daemon and its client did.  A failure or a fault that is   *)
(* not the client's own is the payload's: it ran to its exit, and what it  *)
(* exited with is what it is graded by, on either backend.  In particular  *)
(* a payload that fails quietly is not taken for a fault of the client.    *)
(***************************************************************************)
FailingPayloads == {"exit_1", "exit_125", "mimic_125", "mimic_126"}

GradedOnEvidence ==
  \A s \in Sessions :
    /\ verdict[s] = SuccessScore => payload[s] = "exit_0" /\ Finished(s)
    /\ verdict[s] = FailureScore =>
         \/ payload[s] \in FailingPayloads /\ Finished(s)
         \/ client[s] = "failed"
    /\ record[s] = "sandbox_error" =>
         \/ payload[s] \in {"mimic_125", "mimic_126"} /\ Finished(s)
         \/ client[s] = "failed"

(***************************************************************************)
(* A container that a completed execution leaves behind, or that runs on   *)
(* when its session has moved on, belongs to a client that failed, to a    *)
(* timeout (the daemon did not obey _force_remove()) or to a server that   *)
(* died.                                                                   *)
(***************************************************************************)
ContainersAccounted ==
  \A s \in Sessions :
    /\ record[s] \in {"exit_0", "exit_nonzero"} =>
         container[s] \in {"removed", "host_done"} \/ client[s] = "failed"
    /\ container[s] = "running" /\ at[s] \notin {"wait", "remove"} =>
         \/ client[s] = "failed" \/ record[s] = "timeout"
         \/ at[s] \in {"lost", "orphaned"}

(***************************************************************************)
(* An archive the log names can be replayed; and whatever can be replayed, *)
(* even after a crash or a full disk, is a whole run under its own         *)
(* outcome: a replayed success is a payload that really exited cleanly.    *)
(***************************************************************************)
ArchiveTrustworthy ==
  \A s \in Sessions :
    /\ at[s] = "reported" => Replayable(s)
    /\ Replayable(s) =>
         (load_run(s) = "succeeded" <=> record[s] = "exit_0" /\ payload[s] = "exit_0")

(***************************************************************************)
(* Every connection is answered: a session that began to select a backend  *)
(* comes to an end, with a hung daemon and endless payloads too.           *)
(***************************************************************************)
EverySessionSettles ==
  \A s \in Runners : at[s] = "select" ~> at[s] \in Over

(***************************************************************************)
(* evaluation.py: "Infrastructure faults surface as SandboxError so the    *)
(* search run terminates as FAILED instead of silently pruning healthy     *)
(* branches": a candidate pruned at its deadline was at least started.     *)
(***************************************************************************)
PrunedHadAChance ==
  \A s \in Sessions :
    at[s] = "exhausted" /\ Pruned(s) /\ record[s] = "timeout"
      => container[s] \notin {"none", "requested", "created"}

(***************************************************************************)
(* composite.py chains "an LLM critic second, so model calls are spent     *)
(* only on failures the trace cannot explain": a failure that left no      *)
(* trace at all is one to ask the model about.                             *)
(***************************************************************************)
UnexplainedAsksModel ==
  \A s \in Sessions :
    LlmCritic /\ at[s] = "exhausted" /\ Pruned(s)
    /\ payload[s] = "exit_125" /\ record[s] = "exit_nonzero"
      => critique[s] = "asked_model"
=============================================================================
