----------------------------- MODULE ControlMode -----------------------------
(***************************************************************************)
(* server/service/controlmode: the manager of the AI control mode and its  *)
(* activity gate.                                                          *)
(*                                                                         *)
(* Users are goroutines that take the shared side of the gate              *)
(* (AcquireWrite, AcquireStable); switchers are goroutines in              *)
(* SwitchWithCleanup or SwitchIfWithCleanup. A step is one critical        *)
(* section of the code: what is done under one hold of Manager.mu or of    *)
(* activityGate.mu. The hooks that a switcher calls (preempt, cleanup)     *)
(* succeed or fail here; RuntimeLifecycle says what they do.               *)
(*                                                                         *)
(* Left out: lastError and changedAt, which are reported and never read    *)
(* back, and requests for a mode that does not exist.                      *)
(***************************************************************************)
EXTENDS Integers, FiniteSets

CONSTANTS
  Users,          \* goroutines that take leases
  Switchers,      \* goroutines that switch the mode
  NoOne,          \* the owner of a free transition lock
  DefaultMode,    \* GetManager passes picoclaw
  Expectations,   \* the modes a lease may ask for, "any" for AcquireStable
  Requests,       \* the switches that are asked for
  Edits           \* what other processes write into the mode file

Modes == {"off", "mcp", "picoclaw"}
Contents == Modes \union {"missing", "garbage"}

ASSUME UsersAssumption == IsFiniteSet(Users)
ASSUME NoOneAssumption == NoOne \notin Switchers
ASSUME DefaultAssumption == DefaultMode \in Modes
ASSUME InputsAssumption ==
  /\ Expectations \subseteq Modes \union {"any"}
  /\ Requests \subseteq [next : Modes, expected : Modes \union {"any"}]
  /\ Edits \subseteq Contents

VARIABLES
  mode, loaded,   \* Manager.mode and Manager.loaded
  fresh,          \* the cached size and mtime are those of the file
  transitioning,  \* Manager.transitioning
  active,         \* activityGate.active
  exclusive,      \* activityGate.exclusive
  lock,           \* who holds Manager.transitionMu
  file,           \* what the mode file holds
  disk,           \* what it holds after a power loss
  upc, want, granted,   \* per user: where it is, the mode it asks for, the mode it was granted
  spc, req              \* per switcher: where it is, and its request

manager == <<mode, loaded, fresh>>
gate == <<active, exclusive>>
storage == <<file, disk>>
users == <<upc, want, granted>>
switchers == <<spc, req>>
vars == <<mode, loaded, fresh, transitioning, active, exclusive, lock,
          file, disk, upc, want, granted, spc, req>>

UserPlaces == {"idle", "checked", "entered", "refused", "held"}
SwitchPlaces == {"idle", "locking", "mark", "preempt", "drain", "waiting",
                 "cleanup", "save", "rollback", "reopen", "unmark"}
NoRequest == [next |-> "off", expected |-> "any"]

-----------------------------------------------------------------------------
(* The mode file *)

\* Mutant of Effective: a word that is not a mode is taken as it is.
EffectiveUnchecked(content) == IF content = "missing" THEN DefaultMode ELSE content

\* The mode that loadLocked makes of the file's contents: a missing file means
\* the default, an unknown word fails closed.
Effective(content) ==
  CASE content \in Modes -> content
    [] content = "missing" -> DefaultMode
    [] OTHER -> "off"

\* loadLocked keeps the mode during a transition, and when the file is the one
\* it has read.
KeepsMode == loaded /\ (transitioning \/ fresh)

CurrentMode == IF KeepsMode THEN mode ELSE Effective(file)

\* Status fails when the file cannot be examined; nothing is loaded then.
LoadFails ==
  /\ ~(loaded /\ transitioning)
  /\ UNCHANGED <<mode, loaded, fresh>>

\* Status: every reader of the mode first runs loadLocked.
Load ==
  /\ mode' = CurrentMode
  /\ loaded' = TRUE
  /\ fresh' = (fresh \/ ~KeepsMode)

\* The steps of saveLocked that can fail: nothing is renamed; the rename is
\* done and the directory sync fails; the directory cannot be opened, which is
\* not an error; everything is synced.
SaveOutcomes == {"failed", "sync_error", "unsynced", "synced"}

Save(m, outcome) ==
  IF outcome = "failed"
  THEN UNCHANGED <<mode, loaded, fresh, file, disk>>
  ELSE /\ mode' = m
       /\ loaded' = TRUE
       /\ fresh' = TRUE
       /\ file' = m
       /\ disk' \in IF outcome = "synced" THEN {m} ELSE {disk, file, m}

-----------------------------------------------------------------------------
Init ==
  /\ mode = "off" /\ loaded = FALSE /\ fresh = FALSE
  /\ transitioning = FALSE
  /\ active = 0 /\ exclusive = FALSE
  /\ lock = NoOne
  /\ file \in Contents /\ disk = file
  /\ upc = [u \in Users |-> "idle"]
  /\ want = [u \in Users |-> "any"]
  /\ granted = [u \in Users |-> "none"]
  /\ spc = [s \in Switchers |-> "idle"]
  /\ req = [s \in Switchers |-> NoRequest]

-----------------------------------------------------------------------------
(* Leases: AcquireWrite(w) and, with w = "any", AcquireStable *)

\* RequireWrite, or AcquireStable's test, on a mode that Status returns.
Admits(w) == ~transitioning /\ w \in {"any", CurrentMode}

\* The first check, before the gate.
CheckMode(u, w) ==
  /\ upc[u] = "idle"
  /\ Load
  /\ Admits(w)
  /\ upc' = [upc EXCEPT ![u] = "checked"]
  /\ want' = [want EXCEPT ![u] = w]
  /\ UNCHANGED <<transitioning, gate, lock, storage, granted, switchers>>

\* acquireShared: it waits while the gate is exclusive, with no bound.
EnterGate(u) ==
  /\ upc[u] = "checked"
  /\ ~exclusive
  /\ active' = active + 1
  /\ upc' = [upc EXCEPT ![u] = "entered"]
  /\ UNCHANGED <<manager, transitioning, exclusive, lock, storage, want, granted, switchers>>

\* Mutant of ConfirmLease: what the first check said is relied on.
ConfirmWithoutCheck(u) ==
  /\ upc[u] = "entered"
  /\ Load
  /\ upc' = [upc EXCEPT ![u] = "held"]
  /\ granted' = [granted EXCEPT ![u] = IF want[u] = "any" THEN mode' ELSE want[u]]
  /\ UNCHANGED <<transitioning, gate, lock, storage, want, switchers>>

\* The second check, with the gate held: the lease is granted. The caller takes
\* it for a lease on the mode it asked for or, of AcquireStable, on the mode in
\* the status it gets.
ConfirmLease(u) ==
  /\ upc[u] = "entered"
  /\ Load
  /\ Admits(want[u])
  /\ upc' = [upc EXCEPT ![u] = "held"]
  /\ granted' = [granted EXCEPT ![u] = IF want[u] = "any" THEN mode' ELSE want[u]]
  /\ UNCHANGED <<transitioning, gate, lock, storage, want, switchers>>

\* Mutant of RefuseLease: the error path does not release the gate.
RefuseAndLeak(u) ==
  /\ upc[u] = "entered"
  /\ ~Admits(want[u]) /\ Load
  /\ upc' = [upc EXCEPT ![u] = "idle"]
  /\ UNCHANGED <<transitioning, gate, lock, storage, want, granted, switchers>>

\* The second check fails: the mode moved, a switch began, or the file could
\* not be read (then nothing was loaded).
RefuseLease(u) ==
  /\ upc[u] = "entered"
  /\ \/ ~Admits(want[u]) /\ Load
     \/ LoadFails
  /\ upc' = [upc EXCEPT ![u] = "refused"]
  /\ UNCHANGED <<transitioning, gate, lock, storage, want, granted, switchers>>

\* The release function of acquireShared, for a lease or after a refusal.
LeaveGate(u) ==
  /\ upc[u] \in {"held", "refused"}
  /\ active' = IF active > 0 THEN active - 1 ELSE active
  /\ upc' = [upc EXCEPT ![u] = "idle"]
  /\ want' = [want EXCEPT ![u] = "any"]
  /\ granted' = [granted EXCEPT ![u] = "none"]
  /\ UNCHANGED <<manager, transitioning, exclusive, lock, storage, switchers>>

\* Status and Current for their own sake, and a first check that refuses.
ReadStatus ==
  /\ Load
  /\ UNCHANGED <<transitioning, gate, lock, storage, users, switchers>>

-----------------------------------------------------------------------------
(* SwitchWithCleanup (expected = "any") and SwitchIfWithCleanup *)

Goto(s, place) == spc' = [spc EXCEPT ![s] = place]

RequestSwitch(s, r) ==
  /\ spc[s] = "idle"
  /\ Goto(s, "locking")
  /\ req' = [req EXCEPT ![s] = r]
  /\ UNCHANGED <<manager, transitioning, gate, lock, storage, users>>

\* transitionMu.Lock and Status: the mode is neither the one asked for nor, for
\* a conditional switch, another than the one expected.
LockTransition(s) ==
  /\ spc[s] = "locking"
  /\ lock = NoOne
  /\ Load
  /\ req[s].expected \in {"any", CurrentMode}
  /\ req[s].next # CurrentMode
  /\ lock' = s
  /\ Goto(s, "mark")
  /\ UNCHANGED <<transitioning, gate, storage, users, req>>

\* The early returns: nothing to do, or the file cannot be read.
SkipSwitch(s) ==
  /\ spc[s] = "locking"
  /\ lock = NoOne
  /\ \/ Load /\ (req[s].expected \notin {"any", CurrentMode} \/ req[s].next = CurrentMode)
     \/ LoadFails
  /\ Goto(s, "idle")
  /\ req' = [req EXCEPT ![s] = NoRequest]
  /\ UNCHANGED <<transitioning, gate, lock, storage, users>>

\* setTransitioning(true): from here no first or second check passes.
MarkTransition(s) ==
  /\ spc[s] = "mark"
  /\ transitioning' = TRUE
  /\ Goto(s, "preempt")
  /\ UNCHANGED <<manager, gate, lock, storage, users, req>>

\* The preempt hook cancels what holds leases; an error or a panic ends the switch.
Preempt(s, ok) ==
  /\ spc[s] = "preempt"
  /\ Goto(s, IF ok THEN "drain" ELSE "unmark")
  /\ UNCHANGED <<manager, transitioning, gate, lock, storage, users, req>>

\* Mutant of TakeExclusive: only the other side is looked at.
TakeFromHolders(s) ==
  /\ spc[s] \in {"drain", "waiting"}
  /\ ~exclusive
  /\ exclusive' = TRUE
  /\ Goto(s, "cleanup")
  /\ UNCHANGED <<manager, transitioning, active, lock, storage, users, req>>

\* acquireExclusive finds the gate free, at once or when it is woken.
TakeExclusive(s) ==
  /\ spc[s] \in {"drain", "waiting"}
  /\ ~exclusive /\ active = 0
  /\ exclusive' = TRUE
  /\ Goto(s, "cleanup")
  /\ UNCHANGED <<manager, transitioning, active, lock, storage, users, req>>

\* acquireExclusive finds the gate busy and waits.
WaitForLeases(s) ==
  /\ spc[s] = "drain"
  /\ exclusive \/ active > 0
  /\ Goto(s, "waiting")
  /\ UNCHANGED <<manager, transitioning, gate, lock, storage, users, req>>

\* Mutant of DrainTimeout: the wait for the gate has no bound.
NoTimeout(s) == spc[s] = "waiting" /\ FALSE /\ UNCHANGED vars

\* activityWaitTimeout passes first: the switch is given up, the mode stays.
DrainTimeout(s) ==
  /\ spc[s] = "waiting"
  /\ Goto(s, "unmark")
  /\ UNCHANGED <<manager, transitioning, gate, lock, storage, users, req>>

\* The cleanup hook; a failure rolls back to off.
Cleanup(s, ok) ==
  /\ spc[s] = "cleanup"
  /\ Goto(s, IF ok THEN "save" ELSE "rollback")
  /\ UNCHANGED <<manager, transitioning, gate, lock, storage, users, req>>

\* save(next). The switch returns an error if nothing was renamed, and also, with
\* the new mode in force, if the sync of the directory failed.
SaveMode(s, outcome) ==
  /\ spc[s] = "save"
  /\ Save(req[s].next, outcome)
  /\ Goto(s, "reopen")
  /\ UNCHANGED <<transitioning, gate, lock, users, req>>

\* save(ModeOff) after a failed cleanup; the switch returns an error either way.
Rollback(s, outcome) ==
  /\ spc[s] = "rollback"
  /\ Save("off", outcome)
  /\ Goto(s, "reopen")
  /\ UNCHANGED <<transitioning, gate, lock, users, req>>

\* The deferred calls run last to first: the gate opens while transitioning is
\* still set, then setTransitioning(false) and transitionMu.Unlock.
ReopenGate(s) ==
  /\ spc[s] = "reopen"
  /\ exclusive' = FALSE
  /\ Goto(s, "unmark")
  /\ UNCHANGED <<manager, transitioning, active, lock, storage, users, req>>

UnmarkTransition(s) ==
  /\ spc[s] = "unmark"
  /\ transitioning' = FALSE
  /\ lock' = NoOne
  /\ Goto(s, "idle")
  /\ req' = [req EXCEPT ![s] = NoRequest]
  /\ UNCHANGED <<manager, gate, storage, users>>

-----------------------------------------------------------------------------
(* What happens to the manager from outside *)

\* Another process writes or removes the mode file.
EditFile(content) ==
  /\ file' = content /\ disk' = content
  /\ fresh' = FALSE
  /\ UNCHANGED <<mode, loaded, transitioning, gate, lock, users, switchers>>

\* The server process dies and is started again, after a power loss with what
\* the disk holds. Nothing of the manager but the file is kept.
Restart(content) ==
  /\ content \in {file, disk}
  /\ file' = content /\ disk' = content
  /\ mode' = "off" /\ loaded' = FALSE /\ fresh' = FALSE
  /\ transitioning' = FALSE
  /\ active' = 0 /\ exclusive' = FALSE
  /\ lock' = NoOne
  /\ upc' = [u \in Users |-> "idle"]
  /\ want' = [u \in Users |-> "any"]
  /\ granted' = [u \in Users |-> "none"]
  /\ spc' = [s \in Switchers |-> "idle"]
  /\ req' = [s \in Switchers |-> NoRequest]

-----------------------------------------------------------------------------
UserStep(u) ==
  \/ \E w \in Expectations : CheckMode(u, w)
  \/ EnterGate(u)
  \/ ConfirmLease(u)
  \/ RefuseLease(u)
  \/ LeaveGate(u)

\* What the manager's own code does once a switch is asked for.
SwitchStep(s) ==
  \/ MarkTransition(s)
  \/ \E ok \in BOOLEAN : Preempt(s, ok) \/ Cleanup(s, ok)
  \/ TakeExclusive(s)
  \/ WaitForLeases(s)
  \/ DrainTimeout(s)
  \/ \E outcome \in SaveOutcomes : SaveMode(s, outcome) \/ Rollback(s, outcome)
  \/ ReopenGate(s)
  \/ UnmarkTransition(s)

StartSwitch(s) == LockTransition(s) \/ SkipSwitch(s)

Next ==
  \/ \E u \in Users : UserStep(u)
  \/ ReadStatus
  \/ \E s \in Switchers : \E r \in Requests : RequestSwitch(s, r)
  \/ \E s \in Switchers : StartSwitch(s) \/ SwitchStep(s)
  \/ \E content \in Edits : EditFile(content)
  \/ \E content \in Contents : Restart(content)

Spec == Init /\ [][Next]_vars

\* The goroutine of a switch runs on once started: its hooks return and its
\* timer fires. sync.Mutex does not starve a waiter. Nothing is assumed of the
\* users: an abandoned client may keep its lease for ever.
Fairness ==
  \A s \in Switchers : WF_vars(SwitchStep(s)) /\ SF_vars(StartSwitch(s))

FairSpec == Spec /\ Fairness

-----------------------------------------------------------------------------
(* Properties *)

\* Every variable has its type.
TypeOK ==
  /\ mode \in Modes /\ loaded \in BOOLEAN /\ fresh \in BOOLEAN
  /\ transitioning \in BOOLEAN
  /\ active \in Nat /\ exclusive \in BOOLEAN
  /\ lock \in Switchers \union {NoOne}
  /\ file \in Contents /\ disk \in Contents
  /\ upc \in [Users -> UserPlaces]
  /\ want \in [Users -> Expectations \union {"any"}]
  /\ granted \in [Users -> Modes \union {"none"}]
  /\ spc \in [Switchers -> SwitchPlaces]
  /\ req \in [Switchers -> Requests \union {NoRequest}]

InGate == {u \in Users : upc[u] \in {"entered", "refused", "held"}}
Holders == {u \in Users : upc[u] = "held"}
Closing == {s \in Switchers : spc[s] \in {"cleanup", "save", "rollback", "reopen"}}
InTransition == {s \in Switchers : spc[s] \notin {"idle", "locking"}}

\* The gate's two words agree with the goroutines inside it: the counter counts
\* exactly those that entered and did not leave, the exclusive side belongs to
\* the one switch that closed it, and the two sides exclude one another. A
\* release that ran twice, or not at all on an error path, breaks it.
GateAccounting ==
  /\ active = Cardinality(InGate)
  /\ exclusive <=> Closing # {}
  /\ exclusive => active = 0

\* Between a switch's first and last step nobody else is in one, and while it
\* cleans up (stops the runtime, releases the keys) or writes the mode, no lease
\* is out.
OneTransition ==
  /\ \A s \in InTransition : lock = s
  /\ lock # NoOne => lock \in InTransition
  /\ Closing # {} => Holders = {}

\* A lease is a lease on one mode: as long as it is held, the mode in force is
\* the mode that was granted (the contract of AcquireWrite and AcquireStable).
LeaseHoldsMode ==
  \A u \in Users : upc[u] = "held" => mode = granted[u]

\* The arbiter as this state shows it: before the first load the mode is what the
\* file will be read as.
Arbiter == INSTANCE ModeArbiter WITH
  Actors <- Users,
  NoMode <- "none",
  mode <- IF loaded THEN mode ELSE Effective(file),
  lease <- granted,
  foreign <- loaded /\ ~fresh

\* The manager implements the arbiter: every change of the mode with a lease out
\* is the adoption of an edited file.
ArbiterSpec == Arbiter!Spec

\* Every request to switch returns, whatever the holders of leases do: the bound
\* on the wait for the gate is what the comment of activityGate is about.
SwitchReturns ==
  \A s \in Switchers : spc[s] # "idle" ~> spc[s] = "idle"
=============================================================================
