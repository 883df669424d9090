----------------------------- MODULE RunnerBase -----------------------------
(***************************************************************************)
(* What both runners share (apps/worker/src/runners): the checkout, the    *)
(* Docker sandbox (packages/sandbox/src/docker.ts) from its creation to    *)
(* the finally block that destroys it, the abort signal, a crash, and the  *)
(* reaper of orphaned sandboxes (apps/worker/src/main.ts).  The runs are   *)
(* executions of different jobs, in one worker process or in several.      *)
(***************************************************************************)
EXTENDS Naturals, Sequences

CONSTANTS
  Runs,
  Crashes,     (* worker processes may die *)
  MaxFaults    (* bound: removals that fail and answers that get lost *)

ASSUME RunnerAssumption == Crashes \in BOOLEAN /\ MaxFaults \in Nat

VARIABLES
  at,         (* the next await of the run *)
  aborted,    (* ctx.signal.aborted *)
  ending,     (* how the run function ends, once that is decided *)
  sandbox,    (* the local variable `sandbox` is not null *)
  workdir,    (* the checkout is on the host's disk *)
  pushdir,    (* so is the clone that is pushed *)
  volume,     (* the sandbox's volume: "none", "made", or "stray", which nobody looks for *)
  container,  (* its container: "none", "created" (never started) or "up" *)
  old,        (* it was created more than olderThanMs ago *)
  faults

hostVars == <<sandbox, workdir, pushdir, volume, container, old, faults>>
baseVars == <<at, aborted, ending, hostVars>>

Failure == [status |-> "failed", prUrl |-> FALSE]
Going == [how |-> "going", out |-> Failure]

BaseInit ==
  /\ at = [r \in Runs |-> "access"]
  /\ aborted = [r \in Runs |-> FALSE]
  /\ ending = [r \in Runs |-> Going]
  /\ sandbox = [r \in Runs |-> FALSE]
  /\ workdir = [r \in Runs |-> FALSE]
  /\ pushdir = [r \in Runs |-> FALSE]
  /\ volume = [r \in Runs |-> "none"]
  /\ container = [r \in Runs |-> "none"]
  /\ old = [r \in Runs |-> FALSE]
  /\ faults = 0

Over == {"ended", "crashed"}

Fault == faults < MaxFaults /\ faults' = faults + 1

Goto(r, place) == at' = [at EXCEPT ![r] = place]

GoesOn(r, place) == Goto(r, place) /\ UNCHANGED ending

(* A return or a throw inside the try block: the finally block comes next. *)
Ends(r, how, out) ==
  /\ Goto(r, IF sandbox[r] THEN "removing container" ELSE "removing directories")
  /\ ending' = [ending EXCEPT ![r] = [how |-> how, out |-> out]]

Fails(r) == Ends(r, "returned", Failure)
Throws(r) == Ends(r, "threw", Failure)

GoesOnUnlessAborted(r, place) == IF aborted[r] THEN Throws(r) ELSE GoesOn(r, place)

(* What worker.ts sees of a run: see RunnerContract. *)
SetupStages == {"access", "checkout", "creating", "preparing", "resolving", "starting",
                "undoing container", "undoing volume", "copying", "marking"}

phaseAt(stage, how) ==
  CASE stage = "crashed" -> "gone"
    [] stage # "crashed" /\ how = "returned" -> "returned"
    [] stage # "crashed" /\ how = "threw" -> "catching"
    [] how = "going" /\ stage \in SetupStages -> "setup"
    [] how = "going" /\ stage \in {"author", "pushing"} -> "publishing"
    [] how = "going" /\ stage = "opening" -> "pushed"
    [] OTHER -> "working"

phaseOf(r) == phaseAt(at[r], ending[r].how)

-----------------------------------------------------------------------------
(* Test results, as both runners judge them. *)

Exits == {0, 1, 2, 5}

(* The summary of a report or of the output: absent, of no test, without or
   with failures. *)
Summaries == {"absent", "empty", "green", "red"}

noTestsCollected(exit, summary) == exit = 5 /\ summary \in {"absent", "empty"}

testsPassed(exit, summary) == exit = 0 /\ summary # "red"

-----------------------------------------------------------------------------
(* The signal, the process, the clock. *)

Abort(r) ==
  /\ at[r] \notin Over
  /\ ~aborted[r]
  /\ aborted' = [aborted EXCEPT ![r] = TRUE]
  /\ UNCHANGED <<at, ending, hostVars>>

Crash(r) ==
  /\ Crashes
  /\ at[r] \notin Over
  /\ Goto(r, "crashed")
  /\ UNCHANGED <<aborted, ending, hostVars>>

(* No run lasts as long as the reaper waits. *)
Ages(r) ==
  /\ at[r] \in Over
  /\ ~old[r]
  /\ old' = [old EXCEPT ![r] = TRUE]
  /\ UNCHANGED <<at, aborted, ending, sandbox, workdir, pushdir, volume, container, faults>>

-----------------------------------------------------------------------------
(* The checkout: fetched, refused (CheckoutError) or broken off. *)

CheckoutFails(r) ==
  /\ at[r] = "checkout"
  /\ \E there \in BOOLEAN : workdir' = [workdir EXCEPT ![r] = there]
  /\ Fails(r) \/ Throws(r)
  /\ UNCHANGED <<aborted, sandbox, pushdir, volume, container, old, faults>>

CheckedOut(r) ==
  /\ at[r] = "checkout"
  /\ workdir' = [workdir EXCEPT ![r] = TRUE]
  /\ UNCHANGED <<aborted, sandbox, pushdir, volume, container, old, faults>>

-----------------------------------------------------------------------------
(* DockerSandboxProvider.create, command by command. *)

CreateVolume(r) ==
  /\ at[r] = "creating"
  /\ \/ /\ volume' = [volume EXCEPT ![r] = "made"]
        /\ GoesOn(r, "preparing")
        /\ UNCHANGED faults
     \/ Throws(r) /\ UNCHANGED <<volume, faults>>
     \/ Fault /\ volume' = [volume EXCEPT ![r] = "stray"] /\ Throws(r)
  /\ UNCHANGED <<aborted, sandbox, workdir, pushdir, container, old>>

PrepareVolume(r) ==
  /\ at[r] = "preparing"
  /\ GoesOn(r, "resolving") \/ GoesOn(r, "undoing volume")
  /\ UNCHANGED <<aborted, hostVars>>

(* #proxyIp stands outside of both try blocks: a docker that cannot be started
   ends create, and no one knows of the volume. *)
ResolveProxy(r) ==
  /\ at[r] = "resolving"
  /\ \/ GoesOn(r, "starting") /\ UNCHANGED volume
     \/ Throws(r) /\ volume' = [volume EXCEPT ![r] = "stray"]
  /\ UNCHANGED <<aborted, sandbox, workdir, pushdir, container, old, faults>>

(* Mutant: create's caller loses the handle of what it made. *)
StartContainerForgotten(r) ==
  /\ at[r] = "starting"
  /\ container' = [container EXCEPT ![r] = "up"]
  /\ GoesOn(r, "copying")
  /\ UNCHANGED <<aborted, sandbox, workdir, pushdir, volume, old, faults>>

StartContainer(r) ==
  /\ at[r] = "starting"
  /\ \/ /\ container' = [container EXCEPT ![r] = "up"]
        /\ sandbox' = [sandbox EXCEPT ![r] = TRUE]
        /\ GoesOn(r, "copying")
     \/ /\ \E left \in {"none", "created"} : container' = [container EXCEPT ![r] = left]
        /\ GoesOn(r, "undoing container")
        /\ UNCHANGED sandbox
  /\ UNCHANGED <<aborted, workdir, pushdir, volume, old, faults>>

(* `docker rm -f -v` and `docker volume rm -f`: nobody looks at their exit code,
   and a volume in use stays. *)
RemovesContainer(r) ==
  \/ container' = [container EXCEPT ![r] = "none"] /\ UNCHANGED faults
  \/ Fault /\ UNCHANGED container

RemovesVolume(r) ==
  \/ /\ container[r] = "none"
     /\ volume' = [volume EXCEPT ![r] = "none"]
     /\ UNCHANGED faults
  \/ container[r] # "none" /\ UNCHANGED <<volume, faults>>
  \/ Fault /\ UNCHANGED volume

UndoContainer(r) ==
  /\ at[r] = "undoing container"
  /\ \/ RemovesContainer(r) /\ GoesOn(r, "undoing volume")
     \/ Fault /\ Throws(r) /\ UNCHANGED container
  /\ UNCHANGED <<aborted, sandbox, workdir, pushdir, volume, old>>

UndoVolume(r) ==
  /\ at[r] = "undoing volume"
  /\ RemovesVolume(r)
  /\ Throws(r)
  /\ UNCHANGED <<aborted, sandbox, workdir, pushdir, container, old>>

Create(r) ==
  \/ CreateVolume(r)
  \/ PrepareVolume(r)
  \/ ResolveProxy(r)
  \/ StartContainer(r)
  \/ UndoContainer(r)
  \/ UndoVolume(r)

CopyIn(r) ==
  /\ at[r] = "copying"
  /\ GoesOn(r, "marking") \/ Throws(r)
  /\ UNCHANGED <<aborted, hostVars>>

MarkRunning(r) ==
  /\ at[r] = "marking"
  /\ GoesOn(r, "installing") \/ Throws(r)
  /\ UNCHANGED <<aborted, hostVars>>

-----------------------------------------------------------------------------
(* The finally block, and the reaper. *)

(* A docker that cannot be started ends destroy at once. *)
RemoveContainer(r) ==
  /\ at[r] = "removing container"
  /\ \/ RemovesContainer(r) /\ GoesOn(r, "removing volume")
     \/ Fault /\ GoesOn(r, "removing directories") /\ UNCHANGED container
  /\ UNCHANGED <<aborted, sandbox, workdir, pushdir, volume, old>>

RemoveVolume(r) ==
  /\ at[r] = "removing volume"
  /\ RemovesVolume(r)
  /\ GoesOn(r, "removing directories")
  /\ UNCHANGED <<aborted, sandbox, workdir, pushdir, container, old>>

RemoveDirectories(r, next) ==
  /\ at[r] = "removing directories"
  /\ \/ /\ workdir' = [workdir EXCEPT ![r] = FALSE]
        /\ pushdir' = [pushdir EXCEPT ![r] = FALSE]
        /\ UNCHANGED faults
     \/ Fault /\ UNCHANGED <<workdir, pushdir>>
  /\ GoesOn(r, next)
  /\ UNCHANGED <<aborted, sandbox, volume, container, old>>

(* Mutant: `docker ps` without `-a` does not list containers that never started. *)
ReapOrphanRunning(r) ==
  /\ container[r] = "up" /\ old[r]
  /\ container' = [container EXCEPT ![r] = "none"]
  /\ volume' = [volume EXCEPT ![r] = "none"]
  /\ UNCHANGED <<at, aborted, ending, sandbox, workdir, pushdir, old, faults>>

(* reapOrphans finds sandboxes by their containers. *)
ReapOrphan(r) ==
  /\ container[r] # "none" /\ old[r]
  /\ \/ /\ container' = [container EXCEPT ![r] = "none"]
        /\ volume' = [volume EXCEPT ![r] = "none"]
        /\ UNCHANGED faults
     \/ Fault /\ container' = [container EXCEPT ![r] = "none"] /\ UNCHANGED volume
     \/ Fault /\ UNCHANGED <<container, volume>>
  /\ UNCHANGED <<at, aborted, ending, sandbox, workdir, pushdir, old>>

-----------------------------------------------------------------------------
(* When a run is over nothing of it is left on the host, whichever await ended
   it, unless a removal failed or an answer got lost: no directory, no container
   and no volume but the one of a create that #proxyIp ended. *)
NothingLeft ==
  \A r \in Runs : at[r] = "ended" /\ faults = 0 =>
    ~workdir[r] /\ ~pushdir[r] /\ volume[r] # "made" /\ container[r] = "none"

(* Also after a crash, and after removals that failed, no container stays. *)
ContainersGo == \A r \in Runs : at[r] \in Over ~> container[r] = "none"
=============================================================================
