------------------------ MODULE RuntimeLifecycleProofs ------------------------
(***************************************************************************)
(* Theorems about RuntimeLifecycle, for any number of handlers and         *)
(* switchers and any of their jobs. They rest on what ControlModeProofs    *)
(* shows of the manager: every step of the lifecycle is a step of the      *)
(* manager whose file nobody edits, or leaves it alone.                    *)
(***************************************************************************)
EXTENDS RuntimeLifecycle, ControlModeProofs

\* Before the first load nothing is known of the file but what LifecycleInit says.
Unread == ~loaded => mode = "off" /\ file \in {"off", "picoclaw"}

\* Where a handler holds its lease, which is one on picoclaw.
HandlerAt(u) ==
  /\ at[u] \in {"begin", "check", "exec", "await", "commit", "desire", "leave"} => upc[u] = "held"
  /\ at[u] = "lock" /\ job[u] = "start" => upc[u] = "held"
  /\ at[u] = "recheck" => job[u] = "model"
  /\ at[u] = "leased" /\ job[u] = "restore" => upc[u] = "held"
  /\ upc[u] # "idle" => want[u] = "picoclaw"
  /\ upc[u] = "held" => granted[u] = "picoclaw"

\* The runtime is gone and not wanted, except for chat.
Quieted ==
  ~running /\ (intent.desired => intent.by = "control_release_chat_only")

\* Where a switcher is in its switch, and what the cleanup of a switch to MCP has
\* left behind when the mode is about to be written.
SwitcherAt(s) ==
  /\ spc[s] # "idle" => job[s] \in SwitchJobs /\ req[s] = SwitchOf(job[s])
  /\ at[s] \in {"none", "peek", "preserve", "lock", "unlock"} => spc[s] = "idle"
  /\ at[s] = "stop" /\ job[s] # "mcp" => spc[s] = "idle"
  /\ at[s] \in {"look_down", "look_up", "stop_lock", "stopped", "resists"} =>
       job[s] = "mcp" /\ spc[s] = "cleanup"
  /\ at[s] = "stop" /\ job[s] = "mcp" => spc[s] = "cleanup"
  /\ at[s] = "stopped" => ~running
  /\ ~Faults /\ job[s] = "mcp" /\ spc[s] = "save" => Quieted

\* In the mode MCP, and as long as it lasts, the runtime stays quiet.
QuietInMCP == ~Faults /\ mode = "mcp" => Quieted

\* The inductive invariant.
LifecycleInv ==
  /\ LifecycleTypeOK
  /\ IInv /\ Known /\ LeaseHoldsMode /\ Unread
  /\ \A u \in Users : HandlerAt(u)
  /\ \A s \in Switchers : SwitcherAt(s)
  /\ QuietInMCP

-----------------------------------------------------------------------------
(* The steps *)

\* A step is one of a handler, one of a switcher, or one of the rest.
BeginsJob(u) == \E j \in HandlerJobs : BeginJob(u, j)
BeginsSwitch(s) == \E j \in SwitchJobs : BeginSwitch(s, j)
AnyHandlerStep(u) == HandlerStep(u) \/ Poll(u) \/ BeginsJob(u)
AnySwitcherStep(s) == SwitcherStep(s) \/ Skip(s) \/ BeginsSwitch(s)
OtherStep == ProbeLook \/ ProbeSet \/ ProcessExits

LEMMA LifecycleCases ==
  ASSUME LifecycleNext
  PROVE  \/ \E u \in Users : AnyHandlerStep(u)
         \/ \E s \in Switchers : AnySwitcherStep(s)
         \/ OtherStep
  BY DEF LifecycleNext, AnyHandlerStep, AnySwitcherStep, OtherStep, BeginsJob, BeginsSwitch

\* What a handler asks of the manager.
LEMMA HandlerIsUser ==
  ASSUME NEW u \in Users, AnyHandlerStep(u)
  PROVE  \/ UNCHANGED vars
         \/ ReadStatus
         \/ CheckMode(u, "picoclaw")
         \/ EnterGate(u) \/ ConfirmLease(u) \/ RefuseLease(u) \/ LeaveGate(u)
  BY DEF AnyHandlerStep, BeginsJob, HandlerStep, Ask, AskLease, Lease, BeginOperation, LockLifecycle,
         StartCheck, ModelRecheck, ModelWrite, ProbeLocked, RestoreLoad, RestoreCheck, RestoreStop,
         Exec, Poll, Await, Commit, CommitDesire, UnlockLifecycle, ReturnLease, BeginJob

\* What a switcher asks of the manager.
LEMMA SwitcherIsSwitch ==
  ASSUME NEW s \in Switchers, AnySwitcherStep(s)
  PROVE  \/ UNCHANGED vars
         \/ \E j \in SwitchJobs : RequestSwitch(s, SwitchOf(j))
         \/ LockTransition(s) \/ SkipSwitch(s) \/ MarkTransition(s) \/ Preempt(s, TRUE)
         \/ TakeExclusive(s) \/ WaitForLeases(s) \/ DrainTimeout(s)
         \/ \E ok \in BOOLEAN : Cleanup(s, ok)
         \/ \E outcome \in SaveOutcomes : SaveMode(s, outcome) \/ Rollback(s, outcome)
         \/ ReopenGate(s) \/ UnmarkTransition(s)
<1>1. CASE \E ok \in BOOLEAN : SwitchCleansUp(s, ok)
  BY <1>1 DEF SwitchCleansUp
<1>2. CASE \E outcome \in SaveOutcomes \ {"unsynced"} : SwitchSaves(s, outcome)
  BY <1>2 DEF SwitchSaves
<1>3. CASE BeginsSwitch(s) \/ Skip(s)
  BY <1>3 DEF BeginsSwitch, BeginSwitch, Skip
<1>4. CASE \/ SwitchGoesOn(s) \/ SwitchPreempts(s) \/ SwitchTimesOut(s) \/ ReopenAfterFailure(s)
           \/ SwitchReturned(s)
  BY <1>4 DEF SwitchGoesOn, SwitchPreempts, SwitchTimesOut, ReopenAfterFailure, SwitchReturned
<1>5. CASE StopLook(s) \/ StopNothing(s) \/ StopBlind(s) \/ StopNeeded(s) \/ StopLock(s) \/ StopRun(s) \/ StopEnd(s)
  BY <1>5 DEF StopLook, StopNothing, StopBlind, StopNeeded, StopLock, StopRun, StopEnd
<1>6. CASE StopRuntimeLock(s) \/ StopRuntimeRun(s) \/ StopRuntimeEnd(s) \/ PreservePeek(s) \/ Preserve(s)
  BY <1>6 DEF StopRuntimeLock, StopRuntimeRun, StopRuntimeEnd, PreservePeek, Preserve
<1>7. QED
  BY <1>1, <1>2, <1>3, <1>4, <1>5, <1>6 DEF AnySwitcherStep, SwitcherStep

LEMMA OtherIsNone == ASSUME OtherStep PROVE UNCHANGED <<vars, ctl>>
  BY DEF OtherStep, ProbeLook, ProbeSet, ProcessExits

\* The lifecycle only uses the manager: its steps are the manager's, or leave it alone.
LEMMA ManagerStep == ASSUME [LifecycleNext]_allvars PROVE [OwnNext]_vars
<1>1. CASE \E u \in Users : AnyHandlerStep(u)
  BY <1>1, HandlerIsUser, AskedAssumption DEF OwnNext, UserStep
<1>2. CASE \E s \in Switchers : AnySwitcherStep(s)
  BY <1>2, SwitcherIsSwitch, AskedAssumption DEF OwnNext, SwitchStep, StartSwitch
<1>3. CASE OtherStep
  BY <1>3, OtherIsNone
<1>4. CASE UNCHANGED allvars
  BY <1>4 DEF allvars
<1>5. QED
  BY <1>1, <1>2, <1>3, <1>4, LifecycleCases

-----------------------------------------------------------------------------
(* Type correctness *)

CtlTypes == job \in [Goroutines -> Jobs] /\ at \in [Goroutines -> Places]

LocalTypes ==
  /\ CtlTypes
  /\ lifecycle \in Goroutines \union {NoOne}
  /\ running \in BOOLEAN /\ status \in Statuses
  /\ intent \in [desired : BOOLEAN, by : Writers]
  /\ tracked \subseteq Users /\ canceled \subseteq tracked
  /\ probe \in {"idle", "up", "down", "disabled"}

LEMMA TypeParts == LifecycleTypeOK <=> TypeOK /\ LocalTypes
  BY DEF LifecycleTypeOK, LocalTypes, CtlTypes

LEMMA TypePartsNext == LifecycleTypeOK' <=> TypeOK' /\ LocalTypes'
  BY DEF LifecycleTypeOK, LocalTypes, CtlTypes

\* A goroutine moves, takes a job or ends it; what the others do is their own affair.
Alone(g) ==
  /\ CtlTypes'
  /\ \A k \in Goroutines \ {g} : at'[k] = at[k] /\ job'[k] = job[k]

LEMMA Moves ==
  ASSUME CtlTypes, NEW g \in Goroutines, NEW place \in Places, Move(g, place)
  PROVE  Alone(g) /\ at'[g] = place /\ job'[g] = job[g]
  BY DEF CtlTypes, Move, Alone

LEMMA Finishes ==
  ASSUME CtlTypes, NEW g \in Goroutines, Finish(g)
  PROVE  Alone(g) /\ at'[g] = "none" /\ job'[g] = "none"
  BY DEF CtlTypes, Finish, Alone, Places, Jobs

LEMMA Begins ==
  ASSUME CtlTypes, NEW g \in Goroutines, NEW place \in Places, NEW j \in Jobs,
         job' = [job EXCEPT ![g] = j], at' = [at EXCEPT ![g] = place]
  PROVE  Alone(g) /\ at'[g] = place /\ job'[g] = j
  BY DEF CtlTypes, Alone

LEMMA Rests == ASSUME CtlTypes, UNCHANGED ctl, NEW g PROVE Alone(g)
  BY DEF CtlTypes, ctl, Alone

LEMMA DesireType ==
  ASSUME LocalTypes, NEW d \in BOOLEAN, NEW by \in Writers, Desire(d, by)
  PROVE  intent' \in [desired : BOOLEAN, by : Writers]
  BY DEF Desire, LocalTypes

\* Where a handler goes from where.
LEMMA HandlerAlone ==
  ASSUME CtlTypes, NEW u \in Users, AnyHandlerStep(u)
  PROVE  Alone(u)
<1> USE DEF Places
<1>1. u \in Goroutines
  BY DEF Goroutines
<1>2. CASE Ask(u) \/ Lease(u)
  BY <1>1, <1>2, Moves, Finishes, Rests DEF Ask, AskLease, Lease
<1>3. CASE BeginOperation(u) \/ LockLifecycle(u) \/ StartCheck(u) \/ ModelRecheck(u)
  BY <1>1, <1>3, Moves DEF BeginOperation, LockLifecycle, StartCheck, ModelRecheck
<1>4. CASE ModelWrite(u) \/ ProbeLocked(u) \/ RestoreLoad(u) \/ RestoreCheck(u) \/ RestoreStop(u)
  BY <1>1, <1>4, Moves DEF ModelWrite, ProbeLocked, RestoreLoad, RestoreCheck, RestoreStop
<1>5. CASE Exec(u) \/ Await(u) \/ Commit(u) \/ CommitDesire(u) \/ Poll(u)
  BY <1>1, <1>5, Moves, Rests DEF Exec, Await, Commit, CommitDesire, Poll
<1>6. CASE UnlockLifecycle(u) \/ ReturnLease(u)
  BY <1>1, <1>6, Moves, Finishes DEF UnlockLifecycle, ReturnLease
<1>7. CASE BeginsJob(u)
  BY <1>1, <1>7, Begins, JobsAssumption DEF BeginsJob, BeginJob, Jobs
<1>8. QED
  BY <1>2, <1>3, <1>4, <1>5, <1>6, <1>7 DEF AnyHandlerStep, HandlerStep

LEMMA AfterType == ASSUME NEW s PROVE After(s) \in {"lock", "peek", "none"}
  BY DEF After

LEMMA SwitcherAlone ==
  ASSUME CtlTypes, NEW s \in Switchers, AnySwitcherStep(s)
  PROVE  Alone(s)
<1> USE DEF Places
<1>1. s \in Goroutines
  BY DEF Goroutines
<1>2. at[s] \in Places
  BY <1>1 DEF CtlTypes
<1>3. CASE SwitchGoesOn(s) \/ ReopenAfterFailure(s) \/ SwitchPreempts(s)
  BY <1>1, <1>3, Rests DEF SwitchGoesOn, ReopenAfterFailure, SwitchPreempts, lcvars, ctl
<1>4. CASE SwitchTimesOut(s) \/ (\E ok \in BOOLEAN : SwitchCleansUp(s, ok))
  BY <1>1, <1>4, Moves DEF SwitchTimesOut, SwitchCleansUp
<1>5. CASE \E outcome \in SaveOutcomes \ {"unsynced"} : SwitchSaves(s, outcome)
  BY <1>1, <1>2, <1>5, Moves DEF SwitchSaves
<1>6. CASE SwitchReturned(s) \/ Skip(s)
  BY <1>1, <1>6, Moves, Finishes, AfterType DEF SwitchReturned, Skip, GoOn
<1>7. CASE StopLook(s) \/ StopNothing(s) \/ StopBlind(s) \/ StopNeeded(s) \/ StopLock(s) \/ StopRun(s) \/ StopEnd(s)
  BY <1>1, <1>7, Moves DEF StopLook, StopNothing, StopBlind, StopNeeded, StopLock, StopRun, StopEnd
<1>8. CASE StopRuntimeLock(s) \/ StopRuntimeRun(s) \/ StopRuntimeEnd(s) \/ PreservePeek(s) \/ Preserve(s)
  BY <1>1, <1>8, Moves, Finishes DEF StopRuntimeLock, StopRuntimeRun, StopRuntimeEnd, PreservePeek, Preserve
<1>9. CASE BeginsSwitch(s)
  BY <1>1, <1>9, Begins, JobsAssumption DEF BeginsSwitch, BeginSwitch, Jobs
<1>10. QED
  BY <1>3, <1>4, <1>5, <1>6, <1>7, <1>8, <1>9 DEF AnySwitcherStep, SwitcherStep

\* The lock, the process and what is known of them keep their types, whoever acts.
LEMMA HandlerTypes ==
  ASSUME LocalTypes, NEW u \in Users, AnyHandlerStep(u)
  PROVE  LocalTypes'
<1> USE DEF runtime, tracker, Writers, Statuses
<1>1. CtlTypes'
  BY HandlerAlone DEF LocalTypes, Alone
<1>2. CASE Ask(u) \/ Lease(u) \/ ReturnLease(u) \/ BeginsJob(u) \/ ModelRecheck(u) \/ BeginOperation(u)
  BY <1>1, <1>2 DEF Ask, Lease, ReturnLease, BeginsJob, BeginJob, ModelRecheck, BeginOperation, LocalTypes
<1>3. CASE LockLifecycle(u) \/ UnlockLifecycle(u)
  BY <1>1, <1>3 DEF LockLifecycle, UnlockLifecycle, Lock, Unlock, Goroutines, LocalTypes
<1>4. CASE StartCheck(u)
  <2>1. intent' \in [desired : BOOLEAN, by : Writers]
    BY <1>4, DesireType DEF StartCheck, LocalTypes
  <2>2. QED
    BY <1>1, <1>4, <2>1 DEF StartCheck, LocalTypes
<1>5. CASE CommitDesire(u)
  <2>1. intent' \in [desired : BOOLEAN, by : Writers]
    BY <1>5, DesireType DEF CommitDesire
  <2>2. QED
    BY <1>1, <1>5, <2>1 DEF CommitDesire, LocalTypes
<1>6. CASE ModelWrite(u) \/ ProbeLocked(u) \/ RestoreLoad(u) \/ RestoreCheck(u)
  BY <1>1, <1>6 DEF ModelWrite, ProbeLocked, RestoreLoad, RestoreCheck, LocalTypes
<1>7. CASE RestoreStop(u)
  BY <1>1, <1>7 DEF RestoreStop, Stopped, StopFailed, LocalTypes
<1>8. CASE Exec(u) \/ Await(u) \/ Commit(u) \/ Poll(u)
  BY <1>1, <1>8 DEF Exec, Await, Commit, Poll, LocalTypes
<1>9. QED
  BY <1>2, <1>3, <1>4, <1>5, <1>6, <1>7, <1>8 DEF AnyHandlerStep, HandlerStep

LEMMA SwitcherTypes ==
  ASSUME LocalTypes, NEW s \in Switchers, AnySwitcherStep(s)
  PROVE  LocalTypes'
<1> USE DEF runtime, tracker, Writers, Statuses
<1>1. CtlTypes'
  BY SwitcherAlone DEF LocalTypes, Alone
<1>2. CASE SwitchGoesOn(s) \/ ReopenAfterFailure(s)
  BY <1>1, <1>2 DEF SwitchGoesOn, ReopenAfterFailure, lcvars, LocalTypes
<1>3. CASE SwitchPreempts(s) \/ SwitchTimesOut(s) \/ (\E ok \in BOOLEAN : SwitchCleansUp(s, ok))
  BY <1>1, <1>3 DEF SwitchPreempts, SwitchTimesOut, SwitchCleansUp, LocalTypes
<1>4. CASE \/ \E outcome \in SaveOutcomes \ {"unsynced"} : SwitchSaves(s, outcome)
           \/ SwitchReturned(s) \/ Skip(s) \/ BeginsSwitch(s)
  BY <1>1, <1>4 DEF SwitchSaves, SwitchReturned, Skip, BeginsSwitch, BeginSwitch, LocalTypes
<1>5. CASE StopLook(s) \/ StopBlind(s) \/ StopNeeded(s)
  BY <1>1, <1>5 DEF StopLook, StopBlind, StopNeeded, LocalTypes
<1>6. CASE StopNothing(s) \/ StopEnd(s) \/ StopRuntimeLock(s) \/ Preserve(s)
  <2>1. intent' \in [desired : BOOLEAN, by : Writers]
    BY <1>6, DesireType DEF StopNothing, StopEnd, StopRuntimeLock, Preserve, LocalTypes
  <2>2. lifecycle' \in Goroutines \union {NoOne} /\ status' \in Statuses
    BY <1>6 DEF StopNothing, StopEnd, StopRuntimeLock, Preserve, Lock, Unlock, Goroutines, LocalTypes
  <2>3. UNCHANGED <<running, tracked, canceled, probe>>
    BY <1>6 DEF StopNothing, StopEnd, StopRuntimeLock, Preserve
  <2>4. QED
    BY <1>1, <2>1, <2>2, <2>3 DEF LocalTypes
<1>7. CASE StopLock(s) \/ StopRuntimeEnd(s)
  BY <1>1, <1>7 DEF StopLock, StopRuntimeEnd, Lock, Unlock, Goroutines, LocalTypes
<1>8. CASE StopRun(s) \/ StopRuntimeRun(s)
  BY <1>1, <1>8 DEF StopRun, StopRuntimeRun, Stopped, StopFailed, LocalTypes
<1>9. CASE PreservePeek(s)
  BY <1>1, <1>9 DEF PreservePeek, LocalTypes
<1>10. QED
  BY <1>2, <1>3, <1>4, <1>5, <1>6, <1>7, <1>8, <1>9 DEF AnySwitcherStep, SwitcherStep

LEMMA OtherTypes == ASSUME LocalTypes, OtherStep PROVE LocalTypes'
<1>1. CtlTypes'
  BY OtherIsNone DEF LocalTypes, CtlTypes, ctl
<1>2. QED
  BY <1>1 DEF OtherStep, ProbeLook, ProbeSet, ProcessExits, LocalTypes, runtime, tracker, Statuses

LEMMA StepLifecycleType ==
  ASSUME LifecycleTypeOK, [LifecycleNext]_allvars
  PROVE  LifecycleTypeOK'
<1>1. TypeOK'
  BY ManagerStep, OwnIsNext, StepType, TypeParts
<1>2. LocalTypes
  BY TypeParts
<1>3. CASE UNCHANGED allvars
  <2>1. UNCHANGED <<lifecycle, running, status, intent, tracked, canceled, job, at, probe>>
    BY <1>3 DEF allvars, lcvars
  <2>2. LocalTypes'
    BY <1>2, <2>1 DEF LocalTypes, CtlTypes
  <2>3. QED
    BY <1>1, <2>2, TypePartsNext
<1>4. CASE LifecycleNext
  <2>1. LocalTypes'
    BY <1>2, <1>4, LifecycleCases, HandlerTypes, SwitcherTypes, OtherTypes
  <2>2. QED
    BY <1>1, <2>1, TypePartsNext
<1>5. QED
  BY <1>3, <1>4

LEMMA InitLifecycleType == ASSUME LifecycleInit PROVE LifecycleTypeOK
<1>1. TypeOK
  BY InitType DEF LifecycleInit
<1>2. CtlTypes
  BY DEF LifecycleInit, CtlTypes, Jobs, Places
<1>3. LocalTypes
  BY <1>2 DEF LifecycleInit, LocalTypes, Statuses, Writers
<1>4. QED
  BY <1>1, <1>3, TypeParts

\* Every variable of the lifecycle keeps its type.
THEOREM LifecycleTypeCorrect == LifecycleSpec => []LifecycleTypeOK
  BY InitLifecycleType, StepLifecycleType, PTL DEF LifecycleSpec

-----------------------------------------------------------------------------
(* Who changes what: what a step does to the parts of others *)

\* A handler's step leaves the places of other users of the gate and all of the
\* switchers' alone.
LEMMA HandlerFrame ==
  ASSUME TypeOK, CtlTypes, NEW u \in Users, AnyHandlerStep(u)
  PROVE  /\ \A v \in Users \ {u} : /\ at'[v] = at[v] /\ job'[v] = job[v] /\ upc'[v] = upc[v]
                                   /\ want'[v] = want[v] /\ granted'[v] = granted[v]
         /\ \A s \in Switchers : at'[s] = at[s] /\ job'[s] = job[s]
         /\ UNCHANGED switchers
<1>1. Alone(u)
  BY HandlerAlone
<1>2. \A k \in Goroutines \ {u} : at'[k] = at[k] /\ job'[k] = job[k]
  BY <1>1 DEF Alone
<1>3. /\ \A v \in Users \ {u} : upc'[v] = upc[v] /\ want'[v] = want[v] /\ granted'[v] = granted[v]
      /\ UNCHANGED switchers
  BY HandlerIsUser DEF TypeOK, vars, users, switchers, ReadStatus, CheckMode, EnterGate, ConfirmLease,
     RefuseLease, LeaveGate
<1>4. QED
  BY <1>2, <1>3, GoroutinesAssumption DEF Goroutines

\* A switcher's step leaves the users of the gate and the other switchers alone.
LEMMA SwitcherFrame ==
  ASSUME TypeOK, CtlTypes, NEW s \in Switchers, AnySwitcherStep(s)
  PROVE  /\ \A t \in Switchers \ {s} : /\ at'[t] = at[t] /\ job'[t] = job[t]
                                       /\ spc'[t] = spc[t] /\ req'[t] = req[t]
         /\ \A u \in Users : at'[u] = at[u] /\ job'[u] = job[u]
         /\ UNCHANGED users
<1>1. Alone(s)
  BY SwitcherAlone
<1>2. \A k \in Goroutines \ {s} : at'[k] = at[k] /\ job'[k] = job[k]
  BY <1>1 DEF Alone
<1>3. /\ \A t \in Switchers \ {s} : spc'[t] = spc[t] /\ req'[t] = req[t]
      /\ UNCHANGED users
  <2> DEFINE Elsewhere == /\ \A t \in Switchers \ {s} : spc'[t] = spc[t] /\ req'[t] = req[t]
                          /\ UNCHANGED users
  <2>t. DOMAIN req = Switchers /\ DOMAIN spc = Switchers
    BY DEF TypeOK
  <2>1. UNCHANGED vars => Elsewhere
    BY DEF vars, users
  <2>2. ASSUME NEW j \in SwitchJobs, RequestSwitch(s, SwitchOf(j))
        PROVE  Elsewhere
    BY <2>2, <2>t DEF RequestSwitch, Goto, users
  <2>3. LockTransition(s) \/ SkipSwitch(s) \/ MarkTransition(s) \/ Preempt(s, TRUE) => Elsewhere
    BY <2>t DEF LockTransition, SkipSwitch, MarkTransition, Preempt, Goto, users
  <2>4. TakeExclusive(s) \/ WaitForLeases(s) \/ DrainTimeout(s) => Elsewhere
    BY <2>t DEF TakeExclusive, WaitForLeases, DrainTimeout, Goto, users
  <2>5. ASSUME NEW ok \in BOOLEAN, Cleanup(s, ok)
        PROVE  Elsewhere
    BY <2>5, <2>t DEF Cleanup, Goto, users
  <2>6. ASSUME NEW outcome \in SaveOutcomes, SaveMode(s, outcome) \/ Rollback(s, outcome)
        PROVE  Elsewhere
    BY <2>6, <2>t DEF SaveMode, Rollback, Goto, users
  <2>7. ReopenGate(s) \/ UnmarkTransition(s) => Elsewhere
    BY <2>t DEF ReopenGate, UnmarkTransition, Goto, users
  <2> HIDE DEF Elsewhere
  <2>8. Elsewhere
    BY <2>1, <2>2, <2>3, <2>4, <2>5, <2>6, <2>7, SwitcherIsSwitch
  <2> QED
    BY <2>8 DEF Elsewhere
<1>4. QED
  BY <1>2, <1>3, GoroutinesAssumption DEF Goroutines

-----------------------------------------------------------------------------
(* Leases *)

LEMMA HandlersStep ==
  ASSUME LifecycleInv, NEW u \in Users, AnyHandlerStep(u)
  PROVE  HandlerAt(u)'
<1> USE DEF HandlerAt, users
<1>0. /\ HandlerAt(u) /\ TypeOK /\ CtlTypes /\ u \in Goroutines
      /\ upc \in [Users -> UserPlaces] /\ want \in [Users -> Expectations \union {"any"}]
      /\ granted \in [Users -> Modes \union {"none"}]
      /\ at \in [Goroutines -> Places] /\ job \in [Goroutines -> Jobs]
  BY TypeParts DEF LifecycleInv, LocalTypes, CtlTypes, TypeOK, Goroutines
<1>1. CASE Ask(u)
  <2>1. CASE CheckMode(u, "picoclaw") /\ Move(u, "leasing")
    BY <1>0, <2>1 DEF CheckMode, Move
  <2>2. CASE ReadStatus /\ (Move(u, "unlock") \/ Finish(u))
    BY <1>0, <2>2 DEF ReadStatus, Move, Finish
  <2>3. QED
    BY <1>1, <2>1, <2>2 DEF Ask, AskLease
<1>2. CASE Lease(u)
  <2>1. CASE (EnterGate(u) \/ RefuseLease(u)) /\ UNCHANGED ctl /\ at[u] = "leasing"
    BY <1>0, <2>1 DEF EnterGate, RefuseLease, ctl
  <2>2. CASE ConfirmLease(u) /\ Move(u, CASE lifecycle = u -> "leased"
                                     [] job[u] = "start" -> "begin"
                                     [] OTHER -> "lock")
    BY <1>0, <2>2 DEF ConfirmLease, Move
  <2>3. CASE LeaveGate(u) /\ (Move(u, "unlock") \/ Finish(u))
    BY <1>0, <2>3 DEF LeaveGate, Move, Finish
  <2>4. QED
    BY <1>2, <2>1, <2>2, <2>3 DEF Lease
<1>3. CASE BeginsJob(u)
  BY <1>0, <1>3 DEF BeginsJob, BeginJob, vars
<1>4. CASE BeginOperation(u) \/ LockLifecycle(u) \/ StartCheck(u)
  BY <1>0, <1>4 DEF BeginOperation, LockLifecycle, StartCheck, Move, vars
<1>5. CASE ModelRecheck(u) \/ ModelWrite(u)
  BY <1>0, <1>5 DEF ModelRecheck, ModelWrite, Move, vars
<1>13. CASE ProbeLocked(u) \/ RestoreCheck(u) \/ RestoreStop(u)
  BY <1>0, <1>13 DEF ProbeLocked, RestoreCheck, RestoreStop, Move, vars
<1>6. CASE RestoreLoad(u)
  BY <1>0, <1>6 DEF RestoreLoad, ReadStatus, Move
<1>7. CASE Exec(u) \/ Await(u) \/ CommitDesire(u)
  BY <1>0, <1>7 DEF Exec, Await, CommitDesire, Move, vars
<1>8. CASE Commit(u)
  BY <1>0, <1>8 DEF Commit, ReadStatus, Move, vars
<1>9. CASE UnlockLifecycle(u)
  BY <1>0, <1>9 DEF UnlockLifecycle, Move, Finish, vars
<1>10. CASE ReturnLease(u)
  BY <1>0, <1>10 DEF ReturnLease, LeaveGate, Finish
<1>11. CASE Poll(u)
  BY <1>0, <1>11 DEF Poll, ctl, vars
<1>12. QED
  BY <1>1, <1>2, <1>3, <1>4, <1>5, <1>6, <1>7, <1>8, <1>9, <1>10, <1>11, <1>13 DEF AnyHandlerStep, HandlerStep

\* A lease in the hands of a handler means that PicoClaw has the device and that no
\* switch has closed the gate.
LEMMA LeaseIsPicoclaw ==
  ASSUME LifecycleInv, NEW u \in Users, upc[u] = "held"
  PROVE  mode = "picoclaw" /\ ~exclusive /\ Closing = {}
<1>1. mode = "picoclaw"
  BY DEF LifecycleInv, LeaseHoldsMode, HandlerAt
<1>2. Closing = {}
  BY ClosedGateEmpty DEF LifecycleInv, Holders
<1>3. QED
  BY <1>1, <1>2 DEF LifecycleInv, IInv, Turns

-----------------------------------------------------------------------------
(* The process and the intent *)

\* A step that starts nothing, and wants it started at most for chat.
Calm ==
  /\ running' => running
  /\ intent' = intent \/ ~intent'.desired \/ intent'.by = "control_release_chat_only"

LEMMA Unwanted ==
  ASSUME NEW by, Desire(FALSE, by)
  PROVE  (intent' = intent \/ ~intent'.desired) /\ (~Faults => ~intent'.desired)
  BY DEF Desire

LEMMA WantedForChat ==
  ASSUME Desire(TRUE, "control_release_chat_only")
  PROVE  intent' = intent \/ intent'.by = "control_release_chat_only"
  BY DEF Desire

LEMMA HandlerCalm ==
  ASSUME LifecycleInv, NEW u \in Users, AnyHandlerStep(u)
  PROVE  Calm \/ (upc[u] = "held" /\ UNCHANGED vars)
<1> USE DEF Calm, runtime
<1>0. HandlerAt(u)
  BY DEF LifecycleInv
<1>1. CASE Ask(u) \/ Lease(u) \/ ReturnLease(u) \/ BeginsJob(u) \/ ModelRecheck(u) \/ BeginOperation(u)
  BY <1>1 DEF Ask, Lease, ReturnLease, BeginsJob, BeginJob, ModelRecheck, BeginOperation
<1>2. CASE LockLifecycle(u) \/ UnlockLifecycle(u) \/ Commit(u) \/ Poll(u) \/ Await(u)
  BY <1>2 DEF LockLifecycle, UnlockLifecycle, Commit, Poll, Await
<1>3. CASE ModelWrite(u) \/ ProbeLocked(u) \/ RestoreLoad(u) \/ RestoreCheck(u)
  BY <1>3 DEF ModelWrite, ProbeLocked, RestoreLoad, RestoreCheck
<1>4. CASE RestoreStop(u)
  BY <1>4 DEF RestoreStop, Stopped, StopFailed
<1>5. CASE StartCheck(u) \/ Exec(u) \/ CommitDesire(u)
  BY <1>0, <1>5 DEF StartCheck, Exec, CommitDesire, HandlerAt
<1>6. QED
  BY <1>1, <1>2, <1>3, <1>4, <1>5 DEF AnyHandlerStep, HandlerStep

LEMMA SwitcherCalm ==
  ASSUME NEW s \in Switchers, AnySwitcherStep(s)
  PROVE  Calm
<1> USE DEF Calm, runtime
<1>1. CASE SwitchGoesOn(s) \/ ReopenAfterFailure(s) \/ SwitchPreempts(s) \/ SwitchTimesOut(s)
  <2>1. UNCHANGED <<running, intent>>
    BY <1>1 DEF SwitchGoesOn, ReopenAfterFailure, SwitchPreempts, SwitchTimesOut, lcvars
  <2>2. QED
    BY <2>1
<1>2. CASE (\E ok \in BOOLEAN : SwitchCleansUp(s, ok)) \/ SwitchReturned(s) \/ Skip(s) \/ BeginsSwitch(s)
  BY <1>2 DEF SwitchCleansUp, SwitchReturned, Skip, BeginsSwitch, BeginSwitch
<1>3. CASE \/ \E outcome \in SaveOutcomes \ {"unsynced"} : SwitchSaves(s, outcome)
           \/ StopLook(s) \/ StopBlind(s) \/ StopNeeded(s) \/ StopRuntimeEnd(s) \/ PreservePeek(s)
  <2>1. UNCHANGED <<running, intent>>
    BY <1>3 DEF SwitchSaves, StopLook, StopBlind, StopNeeded, StopRuntimeEnd, PreservePeek
  <2>2. QED
    BY <2>1
<1>4. CASE StopNothing(s) \/ StopEnd(s) \/ StopRuntimeLock(s)
  <2>1. running' = running
    BY <1>4 DEF StopNothing, StopEnd, StopRuntimeLock
  <2>2. intent' = intent \/ Desire(FALSE, "mcp_preempt") \/ Desire(FALSE, "web")
    BY <1>4 DEF StopNothing, StopEnd, StopRuntimeLock
  <2>3. QED
    BY <2>1, <2>2, Unwanted
<1>5. CASE Preserve(s)
  BY <1>5, WantedForChat DEF Preserve
<1>6. CASE StopLock(s) \/ StopRun(s) \/ StopRuntimeRun(s)
  BY <1>6 DEF StopLock, StopRun, StopRuntimeRun, Stopped, StopFailed
<1>7. QED
  BY <1>1, <1>2, <1>3, <1>4, <1>5, <1>6 DEF AnySwitcherStep, SwitcherStep

LEMMA OtherCalm == ASSUME OtherStep PROVE Calm
  BY DEF OtherStep, ProbeLook, ProbeSet, ProcessExits, Calm, runtime

\* What is quiet stays so in a calm step.
LEMMA CalmStaysQuiet == ASSUME Calm, Quieted PROVE Quieted'
  BY DEF Calm, Quieted

-----------------------------------------------------------------------------
(* The mode *)

\* The mode and its file are read, left alone, or written at the end of a switch.
LEMMA ModeSteps ==
  ASSUME LifecycleNext
  PROVE  \/ file' = file /\ (Load \/ UNCHANGED manager)
         \/ \E s \in Switchers : \E outcome \in SaveOutcomes : SaveMode(s, outcome) \/ Rollback(s, outcome)
<1> USE DEF manager, storage
<1>1. CASE \E u \in Users : AnyHandlerStep(u)
  BY <1>1, HandlerIsUser DEF vars, ReadStatus, CheckMode, EnterGate, ConfirmLease, RefuseLease,
     LeaveGate, LoadFails
<1>2. CASE \E s \in Switchers : AnySwitcherStep(s)
  BY <1>2, SwitcherIsSwitch DEF vars, RequestSwitch, LockTransition, SkipSwitch, MarkTransition,
     Preempt, TakeExclusive, WaitForLeases, DrainTimeout, Cleanup, ReopenGate, UnmarkTransition, LoadFails
<1>3. CASE OtherStep
  BY <1>3, OtherIsNone DEF vars
<1>4. QED
  BY <1>1, <1>2, <1>3, LifecycleCases

\* MCP comes into force only at the end of a switch that was asked for it.
LEMMA ModeBecomesMCP ==
  ASSUME LifecycleInv, LifecycleNext, mode' = "mcp", mode # "mcp"
  PROVE  \E s \in Switchers : spc[s] = "save" /\ job[s] = "mcp"
<1>1. CASE Load \/ UNCHANGED manager
  BY <1>1 DEF LifecycleInv, Known, Unread, Load, CurrentMode, KeepsMode, Effective, Modes, manager
<1>2. CASE \E s \in Switchers : \E outcome \in SaveOutcomes : SaveMode(s, outcome)
  <2>1. PICK s \in Switchers : spc[s] = "save" /\ mode' \in {mode, req[s].next}
    BY <1>2 DEF SaveMode, Save
  <2>2. job[s] \in SwitchJobs /\ req[s] = SwitchOf(job[s]) /\ req[s].next = "mcp"
    BY <2>1 DEF LifecycleInv, SwitcherAt
  <2>3. job[s] = "mcp"
    BY <2>2, JobsAssumption DEF SwitchOf
  <2>4. QED
    BY <2>1, <2>3
<1>3. CASE \E s \in Switchers : \E outcome \in SaveOutcomes : Rollback(s, outcome)
  BY <1>3 DEF Rollback, Save
<1>4. QED
  BY <1>1, <1>2, <1>3, ModeSteps

LEMMA StepUnread == ASSUME Unread, LifecycleNext PROVE Unread'
<1>1. CASE file' = file /\ (Load \/ UNCHANGED manager)
  BY <1>1 DEF Unread, Load, manager
<1>2. CASE \E s \in Switchers : \E outcome \in SaveOutcomes : SaveMode(s, outcome) \/ Rollback(s, outcome)
  BY <1>2 DEF Unread, SaveMode, Rollback, Save
<1>3. QED
  BY <1>1, <1>2, ModeSteps

-----------------------------------------------------------------------------
(* The switchers *)

\* Nothing that others do takes a switcher from its place or undoes its cleanup: who
\* could start the runtime holds a lease, and then no switch is cleaning up.
LEMMA SwitcherWaits ==
  ASSUME LifecycleInv, NEW s \in Switchers,
         at'[s] = at[s], job'[s] = job[s], spc'[s] = spc[s], req'[s] = req[s],
         Calm \/ (\E u \in Users : upc[u] = "held")
  PROVE  SwitcherAt(s)'
<1>1. SwitcherAt(s)
  BY DEF LifecycleInv
<1>2. CASE Calm
  BY <1>1, <1>2, CalmStaysQuiet DEF SwitcherAt, Calm
<1>3. CASE \E u \in Users : upc[u] = "held"
  <2>1. spc[s] \notin {"cleanup", "save"}
    BY <1>3, LeaseIsPicoclaw DEF Closing
  <2>2. QED
    BY <1>1, <2>1 DEF SwitcherAt
<1>4. QED
  BY <1>2, <1>3

\* The steps of the switch itself, with the place of the handler it was asked by.
LEMMA SwitchesStep ==
  ASSUME LifecycleInv, NEW s \in Switchers,
         \/ SwitchGoesOn(s) \/ SwitchPreempts(s) \/ SwitchTimesOut(s) \/ ReopenAfterFailure(s)
         \/ \E ok \in BOOLEAN : SwitchCleansUp(s, ok)
         \/ \E outcome \in SaveOutcomes \ {"unsynced"} : SwitchSaves(s, outcome)
         \/ SwitchReturned(s) \/ Skip(s) \/ BeginsSwitch(s)
  PROVE  SwitcherAt(s)'
<1> USE DEF SwitcherAt, Goto
<1>0. /\ SwitcherAt(s) /\ s \in Goroutines
      /\ spc \in [Switchers -> SwitchPlaces] /\ req \in [Switchers -> Requests \union {NoRequest}]
      /\ at \in [Goroutines -> Places] /\ job \in [Goroutines -> Jobs]
  BY TypeParts DEF LifecycleInv, LocalTypes, CtlTypes, TypeOK, Goroutines
<1>1. CASE SwitchGoesOn(s)
  <2>1. UNCHANGED <<at, job, running, intent>>
    BY <1>1 DEF SwitchGoesOn, lcvars
  <2>2. at[s] = "switch" /\ req' = req /\ spc[s] # "idle" /\ spc'[s] \in {"mark", "preempt", "cleanup", "waiting", "unmark"}
    BY <1>0, <1>1 DEF SwitchGoesOn, LockTransition, MarkTransition, TakeExclusive, WaitForLeases, ReopenGate
  <2>3. QED
    BY <1>0, <2>1, <2>2
<1>2. CASE ReopenAfterFailure(s)
  <2>1. UNCHANGED <<at, job, running, intent>>
    BY <1>2 DEF ReopenAfterFailure, lcvars
  <2>2. at[s] = "failed" /\ req' = req /\ spc[s] # "idle" /\ spc'[s] = "unmark"
    BY <1>0, <1>2 DEF ReopenAfterFailure, ReopenGate
  <2>3. QED
    BY <1>0, <2>1, <2>2
<1>3. CASE SwitchPreempts(s)
  BY <1>0, <1>3 DEF SwitchPreempts, Preempt, ctl
<1>4. CASE SwitchTimesOut(s)
  BY <1>0, <1>4 DEF SwitchTimesOut, DrainTimeout, Move
<1>5. CASE \E ok \in BOOLEAN : SwitchCleansUp(s, ok)
  BY <1>0, <1>5 DEF SwitchCleansUp, Cleanup, Move
<1>6. CASE \E outcome \in SaveOutcomes \ {"unsynced"} : SwitchSaves(s, outcome)
  <2>1. /\ at[s] \in {"switch", "failed"} /\ at'[s] \in {"switch", "failed"} /\ job' = job
        /\ req' = req /\ spc[s] # "idle" /\ spc'[s] = "reopen"
    BY <1>0, <1>6 DEF SwitchSaves, SaveMode, Rollback, Move
  <2>2. QED
    BY <1>0, <2>1
<1>7. CASE SwitchReturned(s)
  <2>1. spc'[s] = "idle"
    BY <1>0, <1>7 DEF SwitchReturned, UnmarkTransition
  <2>2. at'[s] \in {"none", "lock", "peek"}
    BY <1>0, <1>7, AfterType DEF SwitchReturned, GoOn, Move, Finish
  <2>3. QED
    BY <2>1, <2>2
<1>8. CASE Skip(s)
  <2>1. spc'[s] = "idle"
    BY <1>0, <1>8 DEF Skip, SkipSwitch
  <2>2. at'[s] \in {"none", "lock", "peek"}
    BY <1>0, <1>8, AfterType DEF Skip, Move, Finish
  <2>3. QED
    BY <2>1, <2>2
<1>9. CASE BeginsSwitch(s)
  <2>1. PICK j \in SwitchJobs : BeginSwitch(s, j)
    BY <1>9 DEF BeginsSwitch
  <2>2. at'[s] = "switch" /\ job'[s] = j
    BY <1>0, <2>1 DEF BeginSwitch
  <2>3. spc'[s] = "locking" /\ req'[s] = SwitchOf(j)
    BY <1>0, <2>1 DEF BeginSwitch, RequestSwitch
  <2>4. SwitchOf(j)' = SwitchOf(j)
    BY DEF SwitchOf
  <2>5. QED
    BY <2>2, <2>3, <2>4
<1>10. QED
  BY <1>1, <1>2, <1>3, <1>4, <1>5, <1>6, <1>7, <1>8, <1>9

\* The cleanup of a switch to MCP, and what handlers do after their switch.
LEMMA CleanupsStep ==
  ASSUME LifecycleInv, NEW s \in Switchers,
         \/ StopLook(s) \/ StopNothing(s) \/ StopBlind(s) \/ StopNeeded(s) \/ StopLock(s)
         \/ StopRun(s) \/ StopEnd(s)
         \/ StopRuntimeLock(s) \/ StopRuntimeRun(s) \/ StopRuntimeEnd(s)
         \/ PreservePeek(s) \/ Preserve(s)
  PROVE  SwitcherAt(s)'
<1> USE DEF SwitcherAt
<1>0. /\ SwitcherAt(s) /\ s \in Goroutines
      /\ spc \in [Switchers -> SwitchPlaces] /\ req \in [Switchers -> Requests \union {NoRequest}]
      /\ at \in [Goroutines -> Places] /\ job \in [Goroutines -> Jobs]
  BY TypeParts DEF LifecycleInv, LocalTypes, CtlTypes, TypeOK, Goroutines
<1>1. CASE StopLook(s) \/ StopNeeded(s) \/ StopLock(s)
  <2>1. spc' = spc /\ req' = req
    BY <1>1 DEF StopLook, StopNeeded, StopLock, vars
  <2>2. at[s] \in {"switch", "look_up", "look_down", "stop_lock"} /\ job[s] = "mcp" /\ spc[s] = "cleanup"
    BY <1>0, <1>1 DEF StopLook, StopNeeded, StopLock
  <2>3. job' = job /\ at'[s] \in {"look_down", "look_up", "stop_lock", "stop"}
    BY <1>0, <1>1 DEF StopLook, StopNeeded, StopLock, Move
  <2>4. QED
    BY <1>0, <2>1, <2>2, <2>3
<1>2. CASE StopNothing(s)
  <2>1. spc'[s] = "save" /\ req' = req /\ at'[s] = "switch" /\ job' = job /\ running' = running
    BY <1>0, <1>2 DEF StopNothing, Cleanup, Goto, Move
  <2>2. ~Faults => Quieted'
    BY <1>2, Unwanted DEF StopNothing, Quieted
  <2>3. spc[s] # "idle"
    BY <1>0, <1>2 DEF StopNothing
  <2>4. QED
    BY <1>0, <2>1, <2>2, <2>3
<1>3. CASE StopBlind(s)
  BY <1>0, <1>3 DEF StopBlind, Cleanup, Goto, Move
<1>4. CASE StopRun(s)
  <2>1. spc' = spc /\ req' = req /\ spc[s] = "cleanup" /\ job[s] = "mcp" /\ job' = job
    BY <1>0, <1>4 DEF StopRun, vars, Move
  <2>2. \/ at'[s] = "stopped" /\ running' = FALSE
        \/ at'[s] = "resists"
    BY <1>0, <1>4 DEF StopRun, Stopped, Move
  <2>3. QED
    BY <1>0, <2>1, <2>2
<1>5. CASE StopEnd(s)
  <2>1. CASE at[s] = "stopped"
    <3>1. spc'[s] = "save" /\ req' = req /\ at'[s] = "switch" /\ job' = job /\ running' = running
      BY <1>0, <1>5, <2>1 DEF StopEnd, Cleanup, Goto, Move
    <3>2. ~Faults => Quieted'
      BY <1>0, <1>5, <2>1, Unwanted DEF StopEnd, Quieted
    <3>3. QED
      BY <1>0, <2>1, <3>1, <3>2
  <2>2. CASE at[s] = "resists"
    BY <1>0, <1>5, <2>2 DEF StopEnd, Cleanup, Goto, Move
  <2>3. QED
    BY <1>5, <2>1, <2>2 DEF StopEnd
<1>6. CASE StopRuntimeLock(s) \/ StopRuntimeRun(s) \/ StopRuntimeEnd(s)
  <2>1. spc' = spc /\ spc[s] = "idle"
    BY <1>0, <1>6 DEF StopRuntimeLock, StopRuntimeRun, StopRuntimeEnd, vars
  <2>2. at'[s] \in {"stop", "unlock", "none"} /\ (at'[s] = "stop" => job'[s] = "stop")
    BY <1>0, <1>6 DEF StopRuntimeLock, StopRuntimeRun, StopRuntimeEnd, Move, Finish
  <2>3. QED
    BY <2>1, <2>2
<1>7. CASE PreservePeek(s) \/ Preserve(s)
  <2>1. spc' = spc /\ spc[s] = "idle"
    BY <1>0, <1>7 DEF PreservePeek, Preserve, vars
  <2>2. at'[s] \in {"preserve", "none"}
    BY <1>0, <1>7 DEF PreservePeek, Preserve, Move, Finish
  <2>3. QED
    BY <2>1, <2>2
<1>8. QED
  BY <1>1, <1>2, <1>3, <1>4, <1>5, <1>6, <1>7

-----------------------------------------------------------------------------
(* The inductive invariant *)

LEMMA StepHandlers == ASSUME LifecycleInv, LifecycleNext PROVE \A u \in Users : HandlerAt(u)'
<1>0. TypeOK /\ CtlTypes /\ \A u \in Users : HandlerAt(u)
  BY TypeParts DEF LifecycleInv, LocalTypes
<1>1. SUFFICES ASSUME NEW u \in Users PROVE HandlerAt(u)'
  OBVIOUS
<1>2. CASE UNCHANGED users /\ at'[u] = at[u] /\ job'[u] = job[u]
  BY <1>0, <1>2 DEF HandlerAt, users
<1>3. CASE \E v \in Users : AnyHandlerStep(v)
  <2>1. PICK v \in Users : AnyHandlerStep(v)
    BY <1>3
  <2>2. CASE u = v
    BY <2>1, <2>2, HandlersStep
  <2>3. CASE u # v
    BY <1>0, <2>1, <2>3, HandlerFrame DEF HandlerAt
  <2>4. QED
    BY <2>2, <2>3
<1>4. CASE \E s \in Switchers : AnySwitcherStep(s)
  BY <1>0, <1>2, <1>4, SwitcherFrame
<1>5. CASE OtherStep
  BY <1>2, <1>5, OtherIsNone DEF vars, ctl, users
<1>6. QED
  BY <1>3, <1>4, <1>5, LifecycleCases

LEMMA StepSwitchers == ASSUME LifecycleInv, LifecycleNext PROVE \A s \in Switchers : SwitcherAt(s)'
<1>0. TypeOK /\ CtlTypes
  BY TypeParts DEF LifecycleInv, LocalTypes
<1>1. SUFFICES ASSUME NEW s \in Switchers PROVE SwitcherAt(s)'
  OBVIOUS
<1>2. CASE \E u \in Users : AnyHandlerStep(u)
  BY <1>0, <1>2, HandlerFrame, HandlerCalm, SwitcherWaits DEF switchers
<1>3. CASE \E t \in Switchers : AnySwitcherStep(t)
  <2>1. PICK t \in Switchers : AnySwitcherStep(t)
    BY <1>3
  <2>2. CASE s = t
    BY <2>1, <2>2, SwitchesStep, CleanupsStep DEF AnySwitcherStep, SwitcherStep
  <2>3. CASE s # t
    BY <1>0, <2>1, <2>3, SwitcherFrame, SwitcherCalm, SwitcherWaits
  <2>4. QED
    BY <2>2, <2>3
<1>4. CASE OtherStep
  BY <1>4, OtherIsNone, OtherCalm, SwitcherWaits DEF vars, ctl
<1>5. QED
  BY <1>2, <1>3, <1>4, LifecycleCases

LEMMA StepQuiet == ASSUME LifecycleInv, LifecycleNext PROVE QuietInMCP'
<1>1. CASE Calm
  <2>1. ASSUME ~Faults, mode' = "mcp" PROVE Quieted
    BY <2>1, ModeBecomesMCP DEF LifecycleInv, QuietInMCP, SwitcherAt
  <2>2. QED
    BY <1>1, <2>1, CalmStaysQuiet DEF QuietInMCP
<1>2. CASE \E u \in Users : upc[u] = "held" /\ UNCHANGED vars
  BY <1>2, LeaseIsPicoclaw DEF QuietInMCP, vars
<1>3. QED
  BY <1>1, <1>2, LifecycleCases, HandlerCalm, SwitcherCalm, OtherCalm

LEMMA InitLifecycleInv == ASSUME LifecycleInit PROVE LifecycleInv
<1>1. LifecycleTypeOK
  BY InitLifecycleType
<1>2. IInv /\ Known /\ LeaseHoldsMode /\ Unread
  BY InitIInv DEF LifecycleInit, Init, Known, LeaseHoldsMode, Unread
<1>3. \A u \in Users : HandlerAt(u)
  BY GoroutinesAssumption DEF LifecycleInit, Init, HandlerAt, Goroutines
<1>4. \A s \in Switchers : SwitcherAt(s)
  BY JobsAssumption, GoroutinesAssumption DEF LifecycleInit, Init, SwitcherAt, Goroutines
<1>5. QuietInMCP
  BY DEF LifecycleInit, Init, QuietInMCP
<1>6. QED
  BY <1>1, <1>2, <1>3, <1>4, <1>5 DEF LifecycleInv

LEMMA StepLifecycleInv == ASSUME LifecycleInv, [LifecycleNext]_allvars PROVE LifecycleInv'
<1>1. LifecycleTypeOK'
  BY StepLifecycleType DEF LifecycleInv
<1>2. (IInv /\ Known /\ LeaseHoldsMode)'
  BY ManagerStep, OwnIsNext, StepIInv, StepKnown, StepStable DEF LifecycleInv
<1>3. CASE LifecycleNext
  BY <1>1, <1>2, <1>3, StepUnread, StepHandlers, StepSwitchers, StepQuiet DEF LifecycleInv
<1>4. CASE UNCHANGED allvars
  <2>1. UNCHANGED <<mode, loaded, file, upc, want, granted, spc, req, running, intent, job, at>>
    BY <1>4 DEF allvars, lcvars, vars
  <2>2. (Unread /\ QuietInMCP)'
    BY <2>1 DEF LifecycleInv, Unread, QuietInMCP, Quieted
  <2>3. \A u \in Users : HandlerAt(u)'
    BY <2>1 DEF LifecycleInv, HandlerAt
  <2>4. \A s \in Switchers : SwitcherAt(s)'
    BY <2>1 DEF LifecycleInv, SwitcherAt, Quieted
  <2>5. QED
    BY <1>1, <1>2, <2>2, <2>3, <2>4 DEF LifecycleInv
<1>5. QED
  BY <1>3, <1>4

LEMMA LifecycleInvariance == LifecycleSpec => []LifecycleInv
  BY InitLifecycleInv, StepLifecycleInv, PTL DEF LifecycleSpec

-----------------------------------------------------------------------------
(* The theorems *)

\* Whatever handlers and switchers do at once, the mode in force is the one the lease
\* of a handler was granted for, as long as the handler holds it: nobody writes the
\* mode before the gate has been drained.
THEOREM LeasesHold == LifecycleSpec => []LeaseHoldsMode
<1>1. LifecycleInv => LeaseHoldsMode
  BY DEF LifecycleInv
<1>2. QED
  BY <1>1, LifecycleInvariance, PTL

\* In the mode MCP the runtime is gone, whoever was starting it when the switch began
\* and whatever they do since: the cleanup stops it with the gate closed, and no start
\* gets a lease again before the mode changes.
THEOREM MCPIsAlone == LifecycleSpec => []MCPExcludesRuntime
<1>1. LifecycleInv => MCPExcludesRuntime
  BY DEF LifecycleInv, QuietInMCP, Quieted, MCPExcludesRuntime
<1>2. QED
  BY <1>1, LifecycleInvariance, PTL

\* Nor is it wanted there, but by the tail of PUT /mode off, which looks at no mode.
THEOREM MCPIntent == LifecycleSpec => []IntentInMCP
<1>1. LifecycleInv => IntentInMCP
  BY DEF LifecycleInv, QuietInMCP, Quieted, IntentInMCP
<1>2. QED
  BY <1>1, LifecycleInvariance, PTL

\* Who starts the runtime, or commits a start to the intent, holds a lease: PicoClaw
\* has the device and no switch has closed the gate.
THEOREM StartsAreLeased == LifecycleSpec => StartsUnderLease
<1> DEFINE Leased == (~running /\ running') \/ (intent' # intent /\ intent'.by \in {"web", "model_config", "restore"}
                                                               /\ intent'.desired)
                       => mode = "picoclaw" /\ ~exclusive
<1>1. ASSUME LifecycleInv, LifecycleNext PROVE Leased
  <2>1. CASE Calm
    BY <2>1 DEF Calm
  <2>2. CASE \E u \in Users : upc[u] = "held"
    BY <1>1, <2>2, LeaseIsPicoclaw
  <2>3. QED
    BY <1>1, <2>1, <2>2, LifecycleCases, HandlerCalm, SwitcherCalm, OtherCalm
<1>2. LifecycleInv /\ [LifecycleNext]_allvars => [Leased]_allvars
  BY <1>1
<1>3. QED
  BY <1>2, LifecycleInvariance, PTL DEF LifecycleSpec, StartsUnderLease
=============================================================================
