--------------------------- MODULE RuntimeLifecycle ---------------------------
(***************************************************************************)
(* The PicoClaw runtime and the control mode together: the handlers that   *)
(* start, reconfigure, restore and stop the runtime process, and the mode  *)
(* switches whose cleanup stops it (server/service/picoclaw,               *)
(* server/router/control.go), over the manager of ControlMode.             *)
(*                                                                         *)
(* A handler is a user of the gate: its lease is a lease on the mode       *)
(* picoclaw. Beside the gate there is one more lock, runtimeLifecycleMu;   *)
(* what is at stake is who waits for which while holding the other. A      *)
(* switch to MCP runs StopRuntimeForMCP as its cleanup, in the steps       *)
(* StopLook to StopEnd, with the gate closed.                              *)
(*                                                                         *)
(* Abstracted: of RuntimeStatus, ready / a lifecycle status pending /      *)
(* anything else; the scripts run for a bounded time and have the outcomes *)
(* listed. Left out: edits of the mode file, power losses (ControlMode has *)
(* them), the installer, the gateway sessions.                             *)
(***************************************************************************)
EXTENDS ControlMode

CONSTANTS
  Restorers,     \* the goroutine that reconciles the runtime at startup, or none
  HandlerJobs,   \* what the other handlers do: "start", "model", "profile"
  SwitchJobs,    \* what switchers do: "mcp", "picoclaw", "off", "stop"
  Faults         \* the process table may be unreadable, the intent unwritable

ASSUME JobsAssumption ==
  /\ Restorers \subseteq Users
  /\ HandlerJobs \subseteq {"start", "model", "profile"}
  /\ SwitchJobs \subseteq {"mcp", "picoclaw", "off", "stop"}
  /\ Faults \in BOOLEAN
ASSUME GoroutinesAssumption == Users \intersect Switchers = {} /\ NoOne \notin Users

VARIABLES
  lifecycle,   \* who holds Service.runtimeLifecycleMu
  running,     \* the gateway process runs
  status,      \* RuntimeStatus.Status
  intent,      \* RuntimeIntentStatus: desired, and who updated it
  tracked,     \* handlers whose context is in controlOperationTracker
  canceled,    \* those of them whose context is canceled
  job, at,     \* per handler and switcher: what it does, and where it is
  probe        \* the probe loop: idle, or what it found out about the process

runtime == <<running, status, intent>>
tracker == <<tracked, canceled>>
ctl == <<job, at>>
lcvars == <<lifecycle, running, status, intent, tracked, canceled, job, at, probe>>
allvars == <<vars, lcvars>>

Goroutines == Users \union Switchers

Statuses == {"down", "pending", "ready"}
Writers == {"none", "web", "mcp_preempt", "control_release_chat_only", "model_config", "restore"}
Jobs == {"none", "start", "model", "profile", "restore", "mcp", "picoclaw", "off", "stop"}
Places == {"none", "ask", "leasing", "begin", "lock", "check", "recheck", "leased", "probe", "load",
           "exec", "await", "commit", "desire", "unlock", "leave", "switch", "failed", "look_down",
           "look_up", "stop_lock", "stop", "stopped", "resists", "peek", "preserve"}

\* setRuntimeIntentDesired: an error is logged, and no caller learns of it.
Desire(d, by) ==
  \/ intent' = [desired |-> d, by |-> by]
  \/ Faults /\ UNCHANGED intent

\* The switch that a job asks for. A stop handler gives the device back only if
\* PicoClaw has it.
SwitchOf(j) == CASE j = "mcp" -> [next |-> "mcp", expected |-> "any"]
                 [] j = "picoclaw" -> [next |-> "picoclaw", expected |-> "any"]
                 [] j = "off" -> [next |-> "off", expected |-> "any"]
                 [] j = "stop" -> [next |-> "off", expected |-> "picoclaw"]

\* What the handlers ask the manager for is among its inputs.
ASSUME AskedAssumption ==
  /\ "picoclaw" \in Expectations
  /\ \A j \in SwitchJobs : SwitchOf(j) \in Requests

\* The server has just started: what runs may have outlived the last server.
LifecycleInit ==
  /\ Init
  /\ file \in {"off", "picoclaw"}
  /\ lifecycle = NoOne
  /\ running \in BOOLEAN
  /\ status = "down"
  /\ intent \in [desired : BOOLEAN, by : {"web"}]
  /\ tracked = {} /\ canceled = {}
  /\ job = [g \in Goroutines |-> IF g \in Restorers THEN "restore" ELSE "none"]
  /\ at = [g \in Goroutines |-> IF g \in Restorers THEN "lock" ELSE "none"]
  /\ probe = "idle"

Move(g, place) == at' = [at EXCEPT ![g] = place] /\ UNCHANGED job
Finish(g) == at' = [at EXCEPT ![g] = "none"] /\ job' = [job EXCEPT ![g] = "none"]

\* lockRuntimeLifecycle and its unlock.
Lock(g) == lifecycle = NoOne /\ lifecycle' = g
Unlock(g) == lifecycle = g /\ lifecycle' = NoOne

-----------------------------------------------------------------------------
(* Handlers: how each begins *)

\* acquireControlMode, up to its first check; a refusal ends the handler, which
\* may hold the lifecycle lock.
AskLease(u) ==
  \/ CheckMode(u, "picoclaw") /\ Move(u, "leasing")
  \/ /\ ReadStatus
     /\ ~Admits("picoclaw")
     /\ IF lifecycle = u THEN Move(u, "unlock") ELSE Finish(u)

\* Mutant of BeginJob: StartRuntime goes straight for the lifecycle lock.
BeginUnleased(u, j) ==
  /\ u \notin Restorers
  /\ job[u] = "none" /\ upc[u] = "idle"
  /\ job' = [job EXCEPT ![u] = j]
  /\ at' = [at EXCEPT ![u] = IF j = "start" THEN "begin" ELSE "lock"]
  /\ UNCHANGED <<vars, lifecycle, runtime, tracker, probe>>

\* StartRuntime takes a lease first; UpdateModelConfig looks at the status to
\* decide; UpdateAgentProfile, as reconcileRuntimeIntent at startup, takes the
\* lifecycle lock.
BeginJob(u, j) ==
  /\ u \notin Restorers
  /\ job[u] = "none" /\ upc[u] = "idle"
  /\ job' = [job EXCEPT ![u] = j]
  /\ at' = [at EXCEPT ![u] = IF j = "start" \/ (j = "model" /\ status = "ready")
                             THEN "ask" ELSE "lock"]
  /\ UNCHANGED <<vars, lifecycle, runtime, tracker, probe>>

Ask(u) ==
  /\ at[u] = "ask"
  /\ AskLease(u)
  /\ UNCHANGED <<lifecycle, runtime, tracker, probe>>

\* The rest of acquireControlMode.
Lease(u) ==
  /\ at[u] = "leasing"
  /\ \/ (EnterGate(u) \/ RefuseLease(u)) /\ UNCHANGED ctl
     \/ ConfirmLease(u) /\ Move(u, CASE lifecycle = u -> "leased"
                                     [] job[u] = "start" -> "begin"
                                     [] OTHER -> "lock")
     \/ /\ upc[u] = "refused"
        /\ LeaveGate(u)
        /\ IF lifecycle = u THEN Move(u, "unlock") ELSE Finish(u)
  /\ UNCHANGED <<lifecycle, runtime, tracker, probe>>

\* beginRuntimeLifecycleOperation: from here a mode switch can cancel the start.
BeginOperation(u) ==
  /\ at[u] = "begin"
  /\ tracked' = tracked \union {u}
  /\ Move(u, "lock")
  /\ UNCHANGED <<vars, lifecycle, runtime, canceled, probe>>

LockLifecycle(u) ==
  /\ at[u] = "lock"
  /\ Lock(u)
  /\ Move(u, CASE job[u] = "start" -> "check"
               [] job[u] = "model" -> "recheck"
               [] job[u] = "restore" -> "load"
               [] OTHER -> "probe")
  /\ UNCHANGED <<vars, runtime, tracker, probe>>

\* Mutant of UnlockLifecycle: a canceled context stays canceled for the next start.
UnlockUncleaned(u) ==
  /\ at[u] = "unlock"
  /\ Unlock(u)
  /\ tracked' = tracked \ {u} /\ UNCHANGED canceled
  /\ IF upc[u] = "held" THEN Move(u, "leave") ELSE Finish(u)
  /\ UNCHANGED <<vars, runtime, probe>>

\* The unlock of lockRuntimeLifecycle, then the release of the tracked operation.
UnlockLifecycle(u) ==
  /\ at[u] = "unlock"
  /\ Unlock(u)
  /\ tracked' = tracked \ {u} /\ canceled' = canceled \ {u}
  /\ IF upc[u] = "held" THEN Move(u, "leave") ELSE Finish(u)
  /\ UNCHANGED <<vars, runtime, probe>>

ReturnLease(u) ==
  /\ at[u] = "leave"
  /\ LeaveGate(u)
  /\ Finish(u)
  /\ UNCHANGED <<lifecycle, runtime, tracker, probe>>

-----------------------------------------------------------------------------
(* Handlers: under the lifecycle lock *)

\* StartRuntime after the lock: canceled, ready already, or to be started.
StartCheck(u) ==
  /\ at[u] = "check"
  /\ \/ u \in canceled /\ Move(u, "unlock") /\ UNCHANGED runtime
     \/ /\ u \notin canceled /\ running
        /\ status' = "ready" /\ Desire(TRUE, "web")
        /\ Move(u, "unlock")
        /\ UNCHANGED running
     \/ /\ u \notin canceled
        /\ status' = "pending"
        /\ Move(u, "exec")
        /\ UNCHANGED <<running, intent>>
  /\ UNCHANGED <<vars, lifecycle, tracker, probe>>

\* UpdateModelConfig after the lock: the runtime became ready meanwhile, and a
\* lease is asked for with the lock held.
ModelRecheck(u) ==
  /\ at[u] = "recheck"
  /\ Move(u, IF upc[u] = "idle" /\ status = "ready" THEN "ask" ELSE "leased")
  /\ UNCHANGED <<vars, lifecycle, runtime, tracker, probe>>

\* The new configuration is written, or not; a runtime that was ready is stopped
\* to be started again.
ModelWrite(u) ==
  /\ at[u] = "leased" /\ job[u] = "model"
  /\ \/ Move(u, "unlock") /\ UNCHANGED runtime
     \/ /\ upc[u] = "held"
        /\ status' = "down"
        /\ \/ running' = FALSE /\ Move(u, "exec")
           \/ Move(u, "unlock") /\ UNCHANGED running
        /\ UNCHANGED intent
     \/ upc[u] = "idle" /\ Move(u, "probe") /\ UNCHANGED runtime
  /\ UNCHANGED <<vars, lifecycle, tracker, probe>>

\* ensureRuntimeReadyForLifecycle at the end of a profile or model update, which
\* may fail before.
ProbeLocked(u) ==
  /\ at[u] = "probe"
  /\ status' \in {status, "down"} \union (IF running THEN {"ready"} ELSE {})
  /\ Move(u, "unlock")
  /\ UNCHANGED <<vars, lifecycle, running, intent, tracker, probe>>

\* reconcileRuntimeIntent: an intent not to run stops the runtime; a mode other
\* than picoclaw leaves it; else a lease is asked for with the lock held.
RestoreLoad(u) ==
  /\ at[u] = "load"
  /\ ReadStatus
  /\ \/ Move(u, "unlock") /\ UNCHANGED status  \* one of the files cannot be read
     \/ /\ ~intent.desired
        /\ (~running /\ status = "down") \/ Faults
        /\ status' = "down" /\ Move(u, "unlock")
     \/ ~intent.desired /\ (running \/ status # "down") /\ status' = "pending" /\ Move(u, "stop")
     \/ intent.desired /\ mode' # "picoclaw" /\ status' = "down" /\ Move(u, "unlock")
     \/ intent.desired /\ mode' = "picoclaw" /\ Move(u, "ask") /\ UNCHANGED status
  /\ UNCHANGED <<lifecycle, running, intent, tracker, probe>>

\* With the lease: the intent is read again, a runtime that is ready is kept. The
\* check of one that is not ready may replace "restoring" by what it found.
RestoreCheck(u) ==
  /\ at[u] = "leased" /\ job[u] = "restore"
  /\ \/ ~intent.desired /\ Move(u, "unlock") /\ UNCHANGED status
     \/ intent.desired /\ running /\ status' = "ready" /\ Move(u, "unlock")
     \/ intent.desired /\ status' \in {"pending", "down"} /\ Move(u, "exec")
     \/ intent.desired /\ status' = "down" /\ Move(u, "unlock")  \* not installed or configured
  /\ UNCHANGED <<vars, lifecycle, running, intent, tracker, probe>>

\* startRuntimeContext up to the end of the start script: the script fails, is
\* killed by a cancel, or has started the process.
Exec(u) ==
  /\ at[u] = "exec"
  /\ \/ status' = "down" /\ running' \in {running, TRUE} /\ Move(u, "unlock")
     \/ u \notin canceled /\ running' = TRUE /\ UNCHANGED status /\ Move(u, "await")
  /\ UNCHANGED <<vars, lifecycle, intent, tracker, probe>>

\* waitForRuntimeReadyContext polls a runtime that is not ready yet.
Poll(u) ==
  /\ at[u] = "await" /\ u \notin canceled
  /\ status' = "down"
  /\ UNCHANGED <<vars, lifecycle, running, intent, tracker, ctl, probe>>

\* The wait ends: a cancel (the process is left alone), ready, or too late (it is
\* stopped, or resists).
Await(u) ==
  /\ at[u] = "await"
  /\ \/ u \in canceled /\ status' = "down" /\ Move(u, "unlock") /\ UNCHANGED running
     \/ u \notin canceled /\ running /\ status' = "ready" /\ Move(u, "commit") /\ UNCHANGED running
     \/ u \notin canceled /\ status' = "down" /\ running' \in {running, FALSE} /\ Move(u, "unlock")
  /\ UNCHANGED <<vars, lifecycle, intent, tracker, probe>>

\* RequireWrite(ModePicoclaw), and for a restore the intent, before the intent is
\* written; a model update does without. What was started stays.
Commit(u) ==
  /\ at[u] = "commit"
  /\ \/ job[u] = "model" /\ UNCHANGED vars /\ Move(u, "desire")
     \/ /\ job[u] # "model"
        /\ ReadStatus /\ Admits("picoclaw")
        /\ job[u] = "restore" => intent.desired
        /\ Move(u, "desire")
     \/ /\ job[u] # "model"
        /\ ReadStatus \/ UNCHANGED vars  \* refused, or a file cannot be read
        /\ Move(u, "unlock")
  /\ UNCHANGED <<lifecycle, runtime, tracker, probe>>

CommitDesire(u) ==
  /\ at[u] = "desire"
  /\ Desire(TRUE, CASE job[u] = "start" -> "web"
                    [] job[u] = "model" -> "model_config"
                    [] OTHER -> "restore")
  /\ Move(u, "unlock")
  /\ UNCHANGED <<vars, lifecycle, running, status, tracker, probe>>

-----------------------------------------------------------------------------
(* stopRuntimeAndVerify, of handlers and switchers *)

\* The process is gone; or it is not, and the status is what the failing step left.
Stopped == running' = FALSE /\ status' = "down"
StopFailed ==
  /\ running \/ Faults
  /\ running' \in IF Faults THEN {running, FALSE} ELSE {running}
  /\ status' \in {"down", "pending"}

RestoreStop(u) ==
  /\ at[u] = "stop" /\ job[u] = "restore"
  /\ Stopped \/ (StopFailed /\ status' = "down")
  /\ Move(u, "unlock")
  /\ UNCHANGED <<vars, lifecycle, intent, tracker, probe>>

-----------------------------------------------------------------------------
(* Switchers *)

BeginSwitch(s, j) ==
  /\ job[s] = "none" /\ RequestSwitch(s, SwitchOf(j))
  /\ job' = [job EXCEPT ![s] = j]
  /\ at' = [at EXCEPT ![s] = "switch"]
  /\ UNCHANGED <<lifecycle, runtime, tracker, probe>>

\* What the handler does after a switch that returned no error.
After(s) == CASE job[s] = "stop" -> "lock"
              [] job[s] = "off" -> "peek"
              [] OTHER -> "none"

GoOn(s, place) == IF place = "none" THEN Finish(s) ELSE Move(s, place)

\* The switch returns at once: with no error when the mode is not the one
\* expected or is there already, with an error when the file cannot be read.
Skip(s) ==
  /\ at[s] = "switch"
  /\ SkipSwitch(s)
  /\ \/ Finish(s)
     \/ /\ req[s].expected \notin {"any", CurrentMode} \/ req[s].next = CurrentMode
        /\ After(s) # "none"
        /\ Move(s, After(s))
  /\ UNCHANGED <<lifecycle, runtime, tracker, probe>>

\* The steps of the switch that are the manager's own.
SwitchGoesOn(s) ==
  /\ at[s] = "switch"
  /\ \/ LockTransition(s) \/ MarkTransition(s) \/ TakeExclusive(s)
     \/ WaitForLeases(s) \/ ReopenGate(s)
  /\ UNCHANGED lcvars

\* The preempt hook: CancelActiveControlOperations. It does not fail.
SwitchPreempts(s) ==
  /\ at[s] = "switch"
  /\ Preempt(s, TRUE)
  /\ canceled' = tracked
  /\ UNCHANGED <<lifecycle, runtime, tracked, ctl, probe>>

\* The leases do not come back in time.
SwitchTimesOut(s) ==
  /\ at[s] = "switch"
  /\ DrainTimeout(s)
  /\ Move(s, "failed")
  /\ UNCHANGED <<lifecycle, runtime, tracker, probe>>

\* The cleanup hook of a switch to another mode than MCP releases the keys; it
\* can fail only in the stop handler, which does not use the best-effort release.
SwitchCleansUp(s, ok) ==
  /\ at[s] = "switch" /\ job[s] # "mcp"
  /\ ok \/ job[s] = "stop"
  /\ Cleanup(s, ok)
  /\ Move(s, IF ok THEN "switch" ELSE "failed")
  /\ UNCHANGED <<lifecycle, runtime, tracker, probe>>

\* save; nothing here is about a power loss, so what is renamed is on the disk.
SwitchSaves(s, outcome) ==
  /\ at[s] \in {"switch", "failed"}
  /\ SaveMode(s, outcome) \/ Rollback(s, outcome)
  /\ disk' = file'
  /\ Move(s, IF outcome = "synced" THEN at[s] ELSE "failed")
  /\ UNCHANGED <<lifecycle, runtime, tracker, probe>>

ReopenAfterFailure(s) ==
  /\ at[s] = "failed"
  /\ ReopenGate(s)
  /\ UNCHANGED lcvars

\* The switch returns. PUT /mode off goes on after an error, too, when the mode
\* is off.
SwitchReturned(s) ==
  /\ at[s] \in {"switch", "failed"}
  /\ UnmarkTransition(s)
  /\ GoOn(s, CASE at[s] = "switch" -> After(s)
               [] at[s] = "failed" /\ job[s] = "off" /\ mode = "off" -> "peek"
               [] OTHER -> "none")
  /\ UNCHANGED <<lifecycle, runtime, tracker, probe>>

-----------------------------------------------------------------------------
(* StopRuntimeForMCP, the cleanup of a switch to MCP *)

\* The status is read; the process is looked at in the next step.
StopLook(s) ==
  /\ at[s] = "switch" /\ job[s] = "mcp" /\ spc[s] = "cleanup"
  /\ Move(s, IF status = "down" THEN "look_down" ELSE "look_up")
  /\ UNCHANGED <<vars, lifecycle, runtime, tracker, probe>>

\* Mutant of StopNothing: the status is believed.
StopByStatus(s) ==
  /\ at[s] = "look_down"
  /\ Desire(FALSE, "mcp_preempt")
  /\ Cleanup(s, TRUE)
  /\ Move(s, "switch")
  /\ UNCHANGED <<lifecycle, running, status, tracker, probe>>

\* Nothing is active, or it cannot be said and the status says so: done.
StopNothing(s) ==
  /\ at[s] = "look_down"
  /\ ~running \/ Faults
  /\ Desire(FALSE, "mcp_preempt")
  /\ Cleanup(s, TRUE)
  /\ Move(s, "switch")
  /\ UNCHANGED <<lifecycle, running, status, tracker, probe>>

\* It cannot be said and the status says active: the switch fails.
StopBlind(s) ==
  /\ at[s] = "look_up" /\ Faults
  /\ Cleanup(s, FALSE)
  /\ Move(s, "failed")
  /\ UNCHANGED <<lifecycle, runtime, tracker, probe>>

StopNeeded(s) ==
  /\ at[s] = "look_up" \/ (at[s] = "look_down" /\ running)
  /\ Move(s, "stop_lock")
  /\ UNCHANGED <<vars, lifecycle, runtime, tracker, probe>>

StopLock(s) ==
  /\ at[s] = "stop_lock"
  /\ Lock(s)
  /\ status' = "pending"
  /\ Move(s, "stop")
  /\ UNCHANGED <<vars, running, intent, tracker, probe>>

StopRun(s) ==
  /\ at[s] = "stop" /\ job[s] = "mcp"
  /\ \/ Stopped /\ Move(s, "stopped")
     \/ StopFailed /\ Move(s, "resists")
  /\ UNCHANGED <<vars, lifecycle, intent, tracker, probe>>

\* Mutants of StopEnd: the early return of a failed stop keeps the lock; the
\* intent stays.
StopEndLocked(s) ==
  /\ at[s] \in {"stopped", "resists"}
  /\ IF at[s] = "stopped"
     THEN Unlock(s) /\ Desire(FALSE, "mcp_preempt") /\ Cleanup(s, TRUE) /\ Move(s, "switch")
     ELSE UNCHANGED <<lifecycle, intent>> /\ Cleanup(s, FALSE) /\ Move(s, "failed")
  /\ UNCHANGED <<running, status, tracker, probe>>
StopEndDesired(s) ==
  /\ at[s] \in {"stopped", "resists"}
  /\ Unlock(s)
  /\ IF at[s] = "stopped"
     THEN Cleanup(s, TRUE) /\ Move(s, "switch")
     ELSE Cleanup(s, FALSE) /\ Move(s, "failed")
  /\ UNCHANGED <<runtime, tracker, probe>>

\* The intent is written, the lock released, and the hook returns.
StopEnd(s) ==
  /\ at[s] \in {"stopped", "resists"}
  /\ Unlock(s)
  /\ IF at[s] = "stopped"
     THEN Desire(FALSE, "mcp_preempt") /\ Cleanup(s, TRUE) /\ Move(s, "switch")
     ELSE UNCHANGED intent /\ Cleanup(s, FALSE) /\ Move(s, "failed")
  /\ UNCHANGED <<running, status, tracker, probe>>

-----------------------------------------------------------------------------
(* After the switch: StopRuntime, and PreserveRuntimeForChatOnly of PUT /mode *)

StopRuntimeLock(s) ==
  /\ at[s] = "lock" /\ job[s] = "stop"
  /\ Lock(s)
  /\ status' = "pending" /\ Desire(FALSE, "web")
  /\ Move(s, "stop")
  /\ UNCHANGED <<vars, running, tracker, probe>>

StopRuntimeRun(s) ==
  /\ at[s] = "stop" /\ job[s] = "stop"
  /\ Stopped \/ StopFailed
  /\ Move(s, "unlock")
  /\ UNCHANGED <<vars, lifecycle, intent, tracker, probe>>

StopRuntimeEnd(s) ==
  /\ at[s] = "unlock" /\ job[s] = "stop"
  /\ Unlock(s)
  /\ Finish(s)
  /\ UNCHANGED <<vars, runtime, tracker, probe>>

\* A runtime that is not ready and has no sessions is left alone; that it is
\* wanted is written later, without the lifecycle lock.
PreservePeek(s) ==
  /\ at[s] = "peek"
  /\ canceled' = tracked
  /\ \/ Move(s, "preserve")
     \/ status # "ready" /\ Finish(s)
  /\ UNCHANGED <<vars, lifecycle, runtime, tracked, probe>>

Preserve(s) ==
  /\ at[s] = "preserve"
  /\ Desire(TRUE, "control_release_chat_only")
  /\ Finish(s)
  /\ UNCHANGED <<vars, lifecycle, running, status, tracker, probe>>

-----------------------------------------------------------------------------
(* The probe loop, and the process *)

\* ensureRuntimeReady: with no lock, it looks at the intent and the process and
\* sets the status later. A pending lifecycle stops it at the start.
ProbeLook ==
  /\ probe = "idle" /\ status # "pending"
  /\ probe' = CASE ~intent.desired -> "disabled"
                [] intent.desired /\ running -> "up"
                [] OTHER -> "down"
  /\ UNCHANGED <<vars, lifecycle, runtime, tracker, ctl>>

\* SetFromProbe: a pending status gives way only to ready. The status of a runtime
\* that is not wanted is set whatever it has become.
ProbeSet ==
  /\ probe # "idle"
  /\ probe' = "idle"
  /\ \/ probe = "up" /\ status' = "ready"
     \/ probe = "disabled" /\ status' = "down"
     \/ probe # "disabled" /\ status' = IF status = "pending" THEN status ELSE "down"
  /\ UNCHANGED <<vars, lifecycle, running, intent, tracker, ctl>>

\* The process ends by itself.
ProcessExits ==
  /\ running /\ running' = FALSE
  /\ UNCHANGED <<vars, lifecycle, status, intent, tracker, ctl, probe>>

-----------------------------------------------------------------------------
\* What a handler does under the lifecycle lock, and to get there.
HandlerStep(u) ==
  \/ Ask(u) \/ Lease(u) \/ BeginOperation(u) \/ LockLifecycle(u)
  \/ StartCheck(u) \/ ModelRecheck(u) \/ ModelWrite(u) \/ ProbeLocked(u)
  \/ RestoreLoad(u) \/ RestoreCheck(u) \/ RestoreStop(u)
  \/ Exec(u) \/ Await(u) \/ Commit(u) \/ CommitDesire(u)
  \/ UnlockLifecycle(u) \/ ReturnLease(u)

\* The steps of a switch from the transition lock on.
SwitcherStep(s) ==
  \/ SwitchGoesOn(s) \/ SwitchPreempts(s) \/ SwitchTimesOut(s)
  \/ \E ok \in BOOLEAN : SwitchCleansUp(s, ok)
  \/ \E outcome \in SaveOutcomes \ {"unsynced"} : SwitchSaves(s, outcome)
  \/ ReopenAfterFailure(s) \/ SwitchReturned(s)
  \/ StopLook(s) \/ StopNothing(s) \/ StopBlind(s) \/ StopNeeded(s) \/ StopLock(s) \/ StopRun(s) \/ StopEnd(s)
  \/ StopRuntimeLock(s) \/ StopRuntimeRun(s) \/ StopRuntimeEnd(s)
  \/ PreservePeek(s) \/ Preserve(s)

LifecycleNext ==
  \/ \E u \in Users : HandlerStep(u) \/ Poll(u) \/ \E j \in HandlerJobs : BeginJob(u, j)
  \/ \E s \in Switchers : SwitcherStep(s) \/ Skip(s) \/ \E j \in SwitchJobs : BeginSwitch(s, j)
  \/ ProbeLook \/ ProbeSet \/ ProcessExits

LifecycleSpec == LifecycleInit /\ [][LifecycleNext]_allvars

\* Scripts and waits are bounded, so every goroutine runs on; a sync.Mutex does
\* not starve a waiter.
LifecycleFairness ==
  /\ \A u \in Users : SF_allvars(HandlerStep(u))
  /\ \A s \in Switchers : SF_allvars(SwitcherStep(s))

FairLifecycleSpec == LifecycleSpec /\ LifecycleFairness

-----------------------------------------------------------------------------
(* Properties *)

\* Every variable has its type.
LifecycleTypeOK ==
  /\ TypeOK
  /\ lifecycle \in Goroutines \union {NoOne}
  /\ running \in BOOLEAN /\ status \in Statuses
  /\ intent \in [desired : BOOLEAN, by : Writers]
  /\ tracked \subseteq Users /\ canceled \subseteq tracked
  /\ job \in [Goroutines -> Jobs]
  /\ at \in [Goroutines -> Places]
  /\ probe \in {"idle", "up", "down", "disabled"}

\* When MCP is in force the PicoClaw runtime is gone: no start script was under
\* way when the switch stopped it, none began since. (With a process table that
\* can be read: StopRuntimeForMCP skips a runtime it cannot look for.)
MCPExcludesRuntime ==
  mode = "mcp" /\ ~transitioning /\ ~Faults => ~running

\* Nor is it wanted: a restart of the server will not bring it back. The one
\* writer that does not look at the mode is PUT /mode off, when it keeps the
\* runtime for chat. (With an intent that can be written.)
IntentInMCP ==
  mode = "mcp" /\ ~transitioning /\ ~Faults /\ intent.desired => intent.by = "control_release_chat_only"

\* The process is started, and a start committed to the intent, only while
\* PicoClaw has the device and no switch has closed the gate.
StartsUnderLease ==
  [][(~running /\ running') \/ (intent' # intent /\ intent'.by \in {"web", "model_config", "restore"}
                                                /\ intent'.desired)
     => mode = "picoclaw" /\ ~exclusive]_allvars

\* A switch ends: nothing leaves the manager in the transitioning state for ever.
TransitionEnds == transitioning ~> ~transitioning
=============================================================================
