--------------------------- MODULE InputCoordinator ---------------------------
(***************************************************************************)
(* server/service/inputcontrol: who may write to the HID gadget, people at *)
(* the web console or one automatic operation.                             *)
(*                                                                         *)
(* A tool is a goroutine that runs an automatic operation: an MCP tool     *)
(* call (toolExecutor.begin), which needs the mode mcp, or the mouse       *)
(* jiggler's move, which takes any mode. A caller is a goroutine that      *)
(* reserves manual input on a ManualSession: the read loop of a WebSocket  *)
(* client, a paste, a shortcut. Both first take a lease of the control     *)
(* mode, which is ModeArbiter here: a lease may be refused at any moment   *)
(* (a transition is under way) and the mode changes when no lease is out.  *)
(*                                                                         *)
(* A step is one hold of Coordinator.mu, of ManualSession.mu or of the     *)
(* gate. Left out: OperationReadOnly, which no caller passes, and the      *)
(* value of the clock, of which only "the cooldown is over" is kept.       *)
(***************************************************************************)
EXTENDS Integers, FiniteSets

CONSTANTS
  Tools,        \* goroutines that run automatic operations
  Jigglers,     \* those of them that take any mode
  Sessions,     \* manual sessions
  Callers,      \* goroutines that reserve manual input
  SessionOf,    \* the session that each of them uses
  Reports,      \* the reports they send
  Leases,       \* identities for the leases that sessions hold
  Slots,        \* identities for reservations that are not completed yet
  MaxGeneration \* bound on ManualSession.generation

Modes == {"off", "mcp", "picoclaw"}
Kinds == {"keyboard", "relative", "absolute"}  \* ManualReportKind
Nobody == "nobody"

ASSUME ToolsAssumption == IsFiniteSet(Tools) /\ Jigglers \subseteq Tools /\ Nobody \notin Tools
ASSUME CallersAssumption == IsFiniteSet(Callers) /\ SessionOf \in [Callers -> Sessions]
ASSUME SessionsAssumption == IsFiniteSet(Sessions) /\ IsFiniteSet(Leases)
\* A report has a kind, may leave a key or a button down, may start the cooldown.
ASSUME ReportsAssumption == Reports \subseteq [kind : Kinds, held : BOOLEAN, cool : BOOLEAN]
ASSUME LeasesAssumption == Nobody \notin Leases /\ Tools \intersect Leases = {}
ASSUME BoundAssumption == MaxGeneration \in Nat /\ IsFiniteSet(Slots) /\ Nobody \notin Sessions

VARIABLES
  mode, lease, foreign,  \* the arbiter; a lease is held by a tool or has an identity
  operation,             \* Coordinator.active: the tool whose operation it is
  canceled,              \* the context of that operation is canceled
  manualSessions,        \* Coordinator.manualSessions
  cooling,               \* now is before Coordinator.manualUntil
  session,               \* the fields of each ManualSession
  slot,                  \* reservations handed out and not completed
  tpc,                   \* where each tool is
  call,                  \* where each caller is, and what it reserves
  finishing,             \* calls of finish that are under way
  down                   \* per session, the devices whose last finished report left
                         \* a key or a button down (the HID workers' flags)

arbiter == <<mode, lease, foreign>>
coordinator == <<operation, canceled, manualSessions, cooling>>
vars == <<mode, lease, foreign, operation, canceled, manualSessions, cooling,
          session, slot, tpc, call, finishing, down>>

Gate == INSTANCE ModeArbiter WITH Actors <- Leases \union Tools, NoMode <- "none"

Reservations == [session : Sessions, generation : Nat,
                 report : [kind : Kinds, held : BOOLEAN, cool : BOOLEAN]]
Free == [session |-> Nobody]

CallPlaces == {"idle", "asked", "leased", "waiting", "ready", "abandon", "unlease"}
NoReport == [kind |-> "none", held |-> FALSE, cool |-> FALSE]
Idle == [at |-> "idle", report |-> NoReport, lease |-> Nobody, awaits |-> Nobody]

NewSession == [active |-> FALSE, closed |-> FALSE, generation |-> 0, pending |-> 0,
               held |-> {}, cool |-> FALSE, lease |-> Nobody]

-----------------------------------------------------------------------------
Init ==
  /\ Gate!Init
  /\ operation = Nobody /\ canceled = FALSE
  /\ manualSessions = 0 /\ cooling = FALSE
  /\ session = [s \in Sessions |-> NewSession]
  /\ slot = [r \in Slots |-> Free]
  /\ tpc = [t \in Tools |-> "idle"]
  /\ call = [c \in Callers |-> Idle]
  /\ finishing = {}
  /\ down = [s \in Sessions |-> {}]

-----------------------------------------------------------------------------
(* Automatic operations *)

SuitsEverything(t, m) == TRUE  \* mutant: AcquireStable for every tool

\* The jiggler moves in any mode, an MCP tool works in its own.
Suits(t, m) == t \in Jigglers \/ m = "mcp"

\* AcquireWrite(ModeMCP), or the jiggler's AcquireStable.
LeaseTool(t) ==
  /\ tpc[t] = "idle"
  /\ Gate!Grant(t)
  /\ Suits(t, mode')
  /\ tpc' = [tpc EXCEPT ![t] = "leased"]
  /\ UNCHANGED <<coordinator, session, slot, call, finishing, down>>

CooldownOnly == cooling  \* mutant: the count of sessions is not looked at

PersonAtControls == manualSessions > 0 \/ cooling

\* BeginMCP: one operation at a time, none while a person is at the controls or
\* was a moment ago.
BeginMCP(t) ==
  /\ tpc[t] = "leased"
  /\ operation = Nobody
  /\ ~PersonAtControls
  /\ operation' = t /\ canceled' = FALSE
  /\ tpc' = [tpc EXCEPT ![t] = "operating"]
  /\ UNCHANGED <<arbiter, manualSessions, cooling, session, slot, call, finishing, down>>

\* BeginMCP refuses: busy, or manual control is active.
RefuseMCP(t) ==
  /\ tpc[t] = "leased"
  /\ operation # Nobody \/ PersonAtControls
  /\ tpc' = [tpc EXCEPT ![t] = "ended"]
  /\ UNCHANGED <<arbiter, coordinator, session, slot, call, finishing, down>>

\* The operation is over or gave up on its context: releaseOperation.
EndOperation(t) ==
  /\ tpc[t] = "operating"
  /\ IF operation = t
     THEN operation' = Nobody /\ canceled' = FALSE
     ELSE UNCHANGED <<operation, canceled>>
  /\ tpc' = [tpc EXCEPT ![t] = "ended"]
  /\ UNCHANGED <<arbiter, manualSessions, cooling, session, slot, call, finishing, down>>

\* releaseMode, after the operation.
UnleaseTool(t) ==
  /\ tpc[t] = "ended"
  /\ Gate!Return(t)
  /\ tpc' = [tpc EXCEPT ![t] = "idle"]
  /\ UNCHANGED <<coordinator, session, slot, call, finishing, down>>

CancelNothing == UNCHANGED canceled  \* mutant: wait without canceling

\* The context of the operation under way is canceled, if there is one.
CancelOperation == canceled' = (operation # Nobody)

\* CancelMCP, from the preempt hook of a mode switch.
CancelMCP ==
  /\ operation # Nobody
  /\ CancelOperation
  /\ UNCHANGED <<arbiter, operation, manualSessions, cooling, session, slot, tpc, call, finishing, down>>

-----------------------------------------------------------------------------
(* Manual input: ManualSession.reserve *)

At(c, place) == call[c].at = place
Goto(c, place) == call' = [call EXCEPT ![c].at = place]

\* isReleaseReportLocked: the report lets go of what the session holds down.
IsReleaseReport(s, report) ==
  /\ ~report.held
  /\ IF report.kind = "keyboard"
     THEN "keyboard" \in session[s].held
     ELSE session[s].held \intersect {"relative", "absolute"} # {}

\* A reservation on the session's current generation.
Reserved(s, report) ==
  [session |-> s, generation |-> session[s].generation,
   report |-> [report EXCEPT !.cool = @ \/ IsReleaseReport(s, report)]]

\* The session is active: the report joins the reservations in flight.
ReserveActive(c, report) ==
  LET s == SessionOf[c] IN
  /\ At(c, "idle")
  /\ session[s].active /\ ~session[s].closed
  /\ \E r \in Slots :
       /\ slot[r] = Free
       /\ slot' = [slot EXCEPT ![r] = Reserved(s, report)]
  /\ session' = [session EXCEPT ![s].pending = @ + 1]
  /\ UNCHANGED <<arbiter, coordinator, tpc, call, finishing, down>>

\* It is not: the caller has to bring it a lease.
AskControl(c, report) ==
  LET s == SessionOf[c] IN
  /\ At(c, "idle")
  /\ ~session[s].active /\ ~session[s].closed
  /\ call' = [call EXCEPT ![c] = [Idle EXCEPT !.at = "asked", !.report = report]]
  /\ UNCHANGED <<arbiter, coordinator, session, slot, tpc, finishing, down>>

\* AcquireStable. An identity is used again only when the call of finish that
\* returned it has ended.
LeaseManual(c) ==
  /\ At(c, "asked")
  /\ \E l \in Leases \ {f.lease : f \in finishing} :
       /\ Gate!Grant(l)
       /\ call' = [call EXCEPT ![c].at = "leased", ![c].lease = l]
  /\ UNCHANGED <<coordinator, session, slot, tpc, finishing, down>>

\* AcquireStable refuses, or with the lease granted allow does.
RefuseManual(c) ==
  /\ \/ At(c, "asked") /\ call' = [call EXCEPT ![c] = Idle]
     \/ At(c, "leased") /\ Goto(c, "unlease")
  /\ UNCHANGED <<arbiter, coordinator, session, slot, tpc, finishing, down>>

\* beginManual: count the session and cancel the operation that is under way.
BeginManual(c) ==
  /\ At(c, "leased")
  /\ manualSessions' = manualSessions + 1
  /\ CancelOperation
  /\ call' = [call EXCEPT ![c].at = IF operation = Nobody THEN "ready" ELSE "waiting",
                          ![c].awaits = operation]
  /\ UNCHANGED <<arbiter, operation, cooling, session, slot, tpc, finishing, down>>

\* The canceled operation closes its done channel.
OperationDone(c) ==
  /\ At(c, "waiting")
  /\ operation # call[c].awaits
  /\ call' = [call EXCEPT ![c].at = "ready", ![c].awaits = Nobody]
  /\ UNCHANGED <<arbiter, coordinator, session, slot, tpc, finishing, down>>

\* The caller's context ends first.
PreemptTimeout(c) ==
  /\ At(c, "waiting")
  /\ call' = [call EXCEPT ![c].at = "abandon", ![c].awaits = Nobody]
  /\ UNCHANGED <<arbiter, coordinator, session, slot, tpc, finishing, down>>

\* mutant: releaseControl is not stored
ActivatedWithoutLease(fields, l) ==
  [fields EXCEPT !.active = TRUE, !.generation = @ + 1, !.pending = 1]

\* A session that takes the lease l over, with one reservation in flight.
Activated(fields, l) ==
  [fields EXCEPT !.active = TRUE, !.generation = @ + 1, !.pending = 1, !.lease = l]

\* The second hold of ManualSession.mu.
Activate(c) ==
  LET s == SessionOf[c]
      next == session[s].generation + 1 IN
  /\ At(c, "ready")
  /\ ~session[s].closed /\ ~session[s].active
  /\ next < MaxGeneration
  /\ session' = [session EXCEPT ![s] = Activated(@, call[c].lease)]
  /\ \E r \in Slots :
       /\ slot[r] = Free
       /\ slot' = [slot EXCEPT ![r] =
                     [session |-> s, generation |-> next, report |-> call[c].report]]
  /\ call' = [call EXCEPT ![c] = Idle]
  /\ UNCHANGED <<arbiter, coordinator, tpc, finishing, down>>

\* Another caller activated the session meanwhile: the report joins it, and this
\* caller's count and lease go back.
JoinActive(c) ==
  LET s == SessionOf[c] IN
  /\ At(c, "ready")
  /\ ~session[s].closed /\ session[s].active
  /\ \E r \in Slots :
       /\ slot[r] = Free
       /\ slot' = [slot EXCEPT ![r] = Reserved(s, call[c].report)]
  /\ session' = [session EXCEPT ![s].pending = @ + 1]
  /\ call' = [call EXCEPT ![c].at = "abandon", ![c].awaits = Nobody]
  /\ UNCHANGED <<arbiter, coordinator, tpc, finishing, down>>

\* The session was closed meanwhile.
FindClosed(c) ==
  /\ At(c, "ready")
  /\ session[SessionOf[c]].closed
  /\ call' = [call EXCEPT ![c].at = "abandon", ![c].awaits = Nobody]
  /\ UNCHANGED <<arbiter, coordinator, session, slot, tpc, finishing, down>>

\* mutant: only a session that starts the cooldown is counted out
EndManualIfCool(cool) ==
  /\ manualSessions' = IF cool THEN manualSessions - 1 ELSE manualSessions
  /\ cooling' = (cooling \/ (cool /\ manualSessions = 1))
  /\ UNCHANGED <<operation, canceled>>

\* endManual(cool): the cooldown starts when the last session leaves.
EndManual(cool) ==
  LET left == IF manualSessions > 0 THEN manualSessions - 1 ELSE manualSessions IN
  /\ manualSessions' = left
  /\ cooling' = (cooling \/ (cool /\ left = 0))
  /\ UNCHANGED <<operation, canceled>>

\* endManual(false), then releaseControl.
Abandon(c) ==
  /\ At(c, "abandon")
  /\ EndManual(FALSE)
  /\ Goto(c, "unlease")
  /\ UNCHANGED <<arbiter, session, slot, tpc, finishing, down>>

UnleaseCaller(c) ==
  /\ At(c, "unlease")
  /\ Gate!Return(call[c].lease)
  /\ call' = [call EXCEPT ![c] = Idle]
  /\ UNCHANGED <<coordinator, session, slot, tpc, finishing, down>>

-----------------------------------------------------------------------------
(* Manual input: Complete, Reset, Close and finish *)

\* A call of finish that is to return the lease l and to end the session.
Finish(l, cool) == [lease |-> l, cool |-> cool, at |-> "unlease"]

\* mutant: what is held down is not looked at
IsDrained(fields) == fields.active /\ fields.pending = 0

IsIdle(fields) == fields.active /\ fields.pending = 0 /\ fields.held = {}

\* finishIfIdleLocked on the fields that the caller has just changed; the
\* cooldown is the one given, or the session's own.
SettleWith(s, fields, cool) ==
  IF IsIdle(fields)
  THEN /\ session' = [session EXCEPT ![s] = [fields EXCEPT !.active = FALSE, !.cool = FALSE,
                                                           !.lease = Nobody]]
       /\ finishing' = finishing \union {Finish(fields.lease, cool)}
  ELSE session' = [session EXCEPT ![s] = fields] /\ UNCHANGED finishing

\* What is held down of `held` once the report is completed. A report that was
\* written sets its own kind; one that was not clears every kind.
HeldAfter(held, report, success) ==
  CASE ~success -> {}
    [] success /\ report.held -> held \union {report.kind}
    [] OTHER -> held \ {report.kind}

\* What the device may have down then. A report that was not written was dropped
\* from the queue, or its device was released.
DownAfter(before, report, success) ==
  CASE success /\ report.held -> {before \union {report.kind}}
    [] success /\ ~report.held -> {before \ {report.kind}}
    [] OTHER -> {before, before \ {report.kind}}

\* ManualReservation.Complete, once. A reservation of an older generation, or of
\* an inactive session, does nothing to the session.
Complete(r, success) ==
  LET s == slot[r].session
      report == slot[r].report
      cool == session[s].cool \/ report.cool IN
  /\ slot[r] # Free
  /\ slot' = [slot EXCEPT ![r] = Free]
  /\ IF session[s].active /\ slot[r].generation = session[s].generation
     THEN SettleWith(s, [session[s] EXCEPT
                           !.pending = IF @ > 0 THEN @ - 1 ELSE @,
                           !.held = HeldAfter(@, report, success),
                           !.cool = cool], cool)
     ELSE UNCHANGED <<session, finishing>>
  /\ \E d \in DownAfter(down[s], report, success) : down' = [down EXCEPT ![s] = d]
  /\ UNCHANGED <<arbiter, coordinator, tpc, call>>

\* ManualSession.Reset: the HID worker released one device.
Reset(s, kind) ==
  /\ session[s].active
  /\ SettleWith(s, [session[s] EXCEPT !.held = @ \ {kind}], TRUE)
  /\ down' = [down EXCEPT ![s] = @ \ {kind}]
  /\ UNCHANGED <<arbiter, coordinator, slot, tpc, call>>

CloseSilently(s) == UNCHANGED finishing  \* mutant: an active session is only marked

\* What Close does about a session that is active: it finishes it.
CloseActive(s) ==
  finishing' = IF session[s].active
               THEN finishing \union {Finish(session[s].lease, TRUE)}
               ELSE finishing

\* ManualSession.Close.
Close(s) ==
  /\ ~session[s].closed
  /\ session' = [session EXCEPT ![s] =
                   [NewSession EXCEPT !.closed = TRUE, !.generation = session[s].generation + 1]]
  /\ CloseActive(s)
  /\ UNCHANGED <<arbiter, coordinator, slot, tpc, call, down>>

\* finish: releaseControl, then endManual.
FinishUnlease(f) ==
  /\ f.at = "unlease"
  /\ Gate!Return(f.lease)
  /\ finishing' = (finishing \ {f}) \union {[f EXCEPT !.at = "end"]}
  /\ UNCHANGED <<coordinator, session, slot, tpc, call, down>>

FinishEnd(f) ==
  /\ f.at = "end"
  /\ EndManual(f.cool)
  /\ finishing' = finishing \ {f}
  /\ UNCHANGED <<arbiter, session, slot, tpc, call, down>>

-----------------------------------------------------------------------------
\* The cooldown passes.
CooldownOver ==
  /\ cooling
  /\ cooling' = FALSE
  /\ UNCHANGED <<arbiter, operation, canceled, manualSessions, session, slot, tpc, call, finishing, down>>

\* A mode switch gets through the gate.
SwitchMode(m) ==
  /\ Gate!Change(m)
  /\ UNCHANGED <<coordinator, session, slot, tpc, call, finishing, down>>

ToolStep(t) == LeaseTool(t) \/ BeginMCP(t) \/ RefuseMCP(t) \/ EndOperation(t) \/ UnleaseTool(t)

\* The steps that carry a call of reserve on once it has begun.
CallStep(c) ==
  \/ LeaseManual(c) \/ RefuseManual(c)
  \/ BeginManual(c) \/ OperationDone(c) \/ PreemptTimeout(c)
  \/ Activate(c) \/ JoinActive(c) \/ FindClosed(c)
  \/ Abandon(c) \/ UnleaseCaller(c)

FinishStep == \E f \in finishing : FinishUnlease(f) \/ FinishEnd(f)

Next ==
  \/ \E t \in Tools : ToolStep(t)
  \/ CancelMCP
  \/ \E c \in Callers, report \in Reports : ReserveActive(c, report) \/ AskControl(c, report)
  \/ \E c \in Callers : CallStep(c)
  \/ \E r \in Slots, success \in BOOLEAN : Complete(r, success)
  \/ \E s \in Sessions, kind \in Kinds : Reset(s, kind)
  \/ \E s \in Sessions : Close(s)
  \/ FinishStep
  \/ CooldownOver
  \/ \E m \in Modes : SwitchMode(m)

Spec == Init /\ [][Next]_vars

\* The goroutines of reserve and finish run on once started; the timer of a
\* caller's context fires. Nothing is assumed of the tools, of the clients or of
\* the HID workers, which complete a reservation or do not.
Fairness == (\A c \in Callers : WF_vars(CallStep(c))) /\ WF_vars(FinishStep)

FairSpec == Spec /\ Fairness

-----------------------------------------------------------------------------
(* Properties *)

\* Every variable has its type.
TypeOK ==
  /\ mode \in Modes /\ lease \in [Leases \union Tools -> Modes \union {"none"}] /\ foreign = FALSE
  /\ operation \in Tools \union {Nobody} /\ canceled \in BOOLEAN
  /\ manualSessions \in Nat /\ cooling \in BOOLEAN
  /\ session \in [Sessions -> [active : BOOLEAN, closed : BOOLEAN,
                               generation : Nat, pending : Nat,
                               held : SUBSET Kinds, cool : BOOLEAN,
                               lease : Leases \union {Nobody}]]
  /\ slot \in [Slots -> Reservations \union {Free}]
  /\ tpc \in [Tools -> {"idle", "leased", "operating", "ended"}]
  /\ call \in [Callers -> [at : CallPlaces, report : Reports \union {NoReport},
                           lease : Leases \union {Nobody}, awaits : Tools \union {Nobody}]]
  /\ finishing \subseteq [lease : Leases, cool : BOOLEAN, at : {"unlease", "end"}]
  /\ down \in [Sessions -> SUBSET Kinds]

ActiveSessions == {s \in Sessions : session[s].active}
Operating == {t \in Tools : tpc[t] = "operating"}
Preempting == {c \in Callers : call[c].at \in {"waiting", "ready", "abandon"}}
Ready == {c \in Callers : call[c].at = "ready"}

\* A person and an automatic operation never have the HID gadget together, and
\* neither have two operations: while a session is active, or a caller is about
\* to activate one, no tool is between BeginMCP and the end of its operation.
HidExclusion ==
  /\ Operating = IF operation = Nobody THEN {} ELSE {operation}
  /\ ActiveSessions \union Ready # {} => operation = Nobody

\* Coordinator.manualSessions counts the callers that have begun and not handed
\* over, the active sessions and the sessions that are being finished. A path
\* that ends twice lets an operation in beside a person, one that does not end
\* keeps the tools out for ever.
ManualAccounting ==
  manualSessions = Cardinality(Preempting) + Cardinality(ActiveSessions) + Cardinality(finishing)

InFlight(s) == {r \in Slots : slot[r] # Free /\ slot[r].session = s
                              /\ slot[r].generation = session[s].generation}

\* An active session has a lease and a reason to be active: reports in flight, or
\* something held down. A session that is not active has neither lease nor keys.
SessionBooks ==
  \A s \in Sessions :
    IF session[s].active
    THEN /\ session[s].lease \in Leases
         /\ session[s].pending = Cardinality(InFlight(s))
         /\ session[s].pending > 0 \/ session[s].held # {}
    ELSE session[s].lease = Nobody /\ session[s].held = {}

\* The operation that a caller waits for has been told to stop.
WaitedForIsCanceled ==
  \A c \in Callers : call[c].at = "waiting" /\ operation = call[c].awaits => canceled

\* An MCP tool has the gadget only while MCP is the mode in force.
OperationsRunInMCP == \A t \in Operating \ Jigglers : mode = "mcp"

\* No operation is under way while a key or a button is down that an open client
\* pressed: what TestHeldManualInputBlocksMCPUntilReleaseAndCooldown says, device
\* by device (TestRelativeAndAbsoluteMouseHeldStateIsIndependent).
HeldKeysBlockTools ==
  operation # Nobody => \A s \in Sessions : session[s].closed \/ down[s] = {}

ManualLeasesBack == manualSessions = 0 /\ \A l \in Leases : lease[l] = "none"

\* Once every client is closed its leases come back for good, whatever the tools
\* do: nobody is left to keep the AI out, or a mode switch waiting.
ControlComesBack ==
  (\A s \in Sessions : session[s].closed) ~> []ManualLeasesBack
=============================================================================
