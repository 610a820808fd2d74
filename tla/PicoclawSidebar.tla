---------------------------- MODULE PicoclawSidebar ----------------------------
(* The PicoClaw sidebar of the web interface (web/src/pages/desktop/picoclaw):
   the runtime status it shows, the mutations the buttons start, the refreshes
   that poll the device, the effects that connect the gateway, the conversation
   handlers. JavaScript runs one task at a time: every action is what runs
   between two awaits, and a function whose promise is settled goes on before
   anything else happens (Quiet). *)
EXTENDS ChatGateway, Naturals

CONSTANTS
  Scenes,       \* what the user does: the buttons of one behaviour
  Attempts,     \* confirmRuntimeToggleResult tries so often
  MaxClicks, MaxEvents   \* bounds on the user, and on the device and the net

Kinds == {"start", "stop", "grant", "release", "agent", "settings", "install", "uninstall"}
Handlers == {"open", "toggle", "send", "reconnect", "new", "select"}

ASSUME SidebarAssumption ==
  /\ Tasks = Handlers \union {"mutation"}
  /\ Scenes \subseteq SUBSET (Kinds \union Handlers)
  /\ Attempts \in Nat \ {0} /\ MaxClicks \in Nat /\ MaxEvents \in Nat

VARIABLES
  shown,      \* runtimeStatus, the status on the screen
  requests,   \* the status requests in flight
  mutation,   \* mutationRef.current
  job,        \* what the function of that mutation has captured and got
  task,       \* where each asynchronous function is, and what it got
  fresh,      \* isFreshConversation
  dev,        \* the device: the runtime and the control mode
  dialog,     \* what a dialog over the page asks the user to confirm
  scene, clicks, events

sidebar == <<shown, requests, mutation, job, task, fresh>>
user == <<dialog, scene, clicks, events>>
vars == <<gateway, sidebar, dev, user>>

Modes == {"off", "mcp", "picoclaw"}
\* `recent` is no field of the program: the device has not changed since the
\* status was read.
Status == [ready : BOOLEAN, chat : BOOLEAN, mode : Modes, moving : BOOLEAN, recent : BOOLEAN]
NoStatus == [ready |-> FALSE, chat |-> FALSE, mode |-> "none", moving |-> FALSE, recent |-> FALSE]
Nothing == [NoStatus EXCEPT !.mode = "unanswered"]
Refused == [NoStatus EXCEPT !.mode = "refused"]
Failed == [NoStatus EXCEPT !.mode = "failed"]
Known(s) == s.mode \in Modes

\* The status of a device in state d.
StatusOf(d) == [ready |-> d.ready, chat |-> d.ready /\ d.mode # "mcp" /\ ~d.moving,
                mode |-> d.mode, moving |-> d.moving, recent |-> TRUE]
Read == StatusOf(dev)

\* canConnectGateway
CanConnect(s) == Known(s) /\ s.ready /\ s.chat /\ ~s.moving

\* Mutant of Expected: whatever is not ready has been stopped, an error too.
ExpectedIfNotReady(s, kind) ==
  IF kind = "stop" THEN ~s.ready ELSE s.ready /\ s.mode = "picoclaw" /\ ~s.moving

\* isExpectedRuntimeState
Expected(s, kind) ==
  /\ Known(s)
  /\ IF kind = "stop" THEN ~s.ready /\ s.mode = "off"
                      ELSE s.ready /\ s.mode = "picoclaw" /\ ~s.moving

\* `connected` is the transport state the function closed over; `next` is what it
\* does after the await, `chained` that the start button waits for the grant.
NoJob == [connected |-> FALSE, tries |-> 0, reply |-> Nothing, next |-> "none", chained |-> FALSE]
Idle == [at |-> "idle", got |-> Nothing]
Places == {"idle", "loading", "closing", "refreshing", "refreshed", "connecting", "asking",
           "granting", "granted", "requesting", "replied", "pausing"}

\* A request for the tasks in W. `latest` is requestId === refreshRequestSeqRef,
\* `current` is requestEpoch === mutationEpochRef, `shared` is that the request is
\* refreshStatePromiseRef.
Forced(W, keep, allow) ==
  [for |-> W, force |-> TRUE, keep |-> keep, allow |-> allow,
   shared |-> FALSE, latest |-> TRUE, current |-> TRUE, got |-> Nothing]
Unforced(W) == [Forced(W, FALSE, FALSE) EXCEPT !.force = FALSE, !.shared = TRUE]

\* The panel has just mounted, or has done so long ago: it shows the device and
\* is connected if it can be. A runtime that does not run may leave the device to MCP.
Init ==
  /\ scene \in Scenes
  /\ dev \in [ready : BOOLEAN, mode : {"picoclaw", "mcp"}, moving : {FALSE}]
  /\ dev.ready => dev.mode = "picoclaw"
  /\ dev.mode = "mcp" => "toggle" \in scene  \* bound: only the button that takes the mode starts in MCP
  /\ clicks = MaxClicks /\ events = MaxEvents /\ dialog = "none"
  /\ promise = [t \in Tasks |-> "none"]
  /\ mutation = "none"
  /\ job = NoJob
  /\ IF "open" \in scene
     THEN /\ ws = "none" /\ transport = "disconnected"
          /\ shown = NoStatus
          /\ requests = {Unforced({"open"})}
          /\ task = [[t \in Tasks |-> Idle] EXCEPT !["open"].at = "refreshing"]
          /\ fresh = TRUE
     ELSE /\ ws = IF dev.ready THEN "open" ELSE "none"
          /\ transport = IF dev.ready THEN "connected" ELSE "disconnected"
          /\ shown = Read
          /\ requests = {}
          /\ task = [t \in Tasks |-> Idle]
          /\ fresh = FALSE

\* A function whose promise is settled runs before anything else.
Resumed(t) ==
  \/ task[t].at \in {"refreshed", "replied", "granted"}
  \/ task[t].at = "connecting" /\ promise[t] \in {"ok", "failed"}
Quiet == \A t \in Tasks : ~Resumed(t)

\* A dialog is over all the buttons.
Click(b) ==
  /\ Quiet /\ b \in scene /\ clicks > 0 /\ clicks' = clicks - 1
  /\ dialog = "none" /\ task["toggle"].at # "asking"
  /\ UNCHANGED <<scene, events>>
Event == Quiet /\ events > 0 /\ events' = events - 1 /\ UNCHANGED <<dialog, scene, clicks>>
Silent == UNCHANGED user

Move(t, place) == task' = [task EXCEPT ![t] = [at |-> place, got |-> Nothing]]
Finish(t) == Move(t, "idle")

-----------------------------------------------------------------------------
(* What the panel offers *)

\* isInitializing, and sidebarMode "loading"
Initializing == task["open"].at # "idle"
Loading == Initializing \/ ~Known(shown)

\* actionBusy
Busy == mutation # "none" \/ shown.moving

\* The header is there without a status, too; a runtime can be stopped that is ready.
Header(kind) == ~Initializing /\ ~Busy /\ (kind = "stop" => shown.ready)

\* The bar above the chat shows who controls the device, and takes or gives it.
PrimaryAction == IF shown.mode = "picoclaw" THEN "release" ELSE "grant"
ControlBar(kind) == ~Loading /\ ~Busy /\ shown.ready /\ kind = PrimaryAction

\* Instead of the chat the panel offers to install, or to save a configuration.
InstallOffered == ~Loading /\ ~Busy
ConfigOffered == ~Initializing /\ ~Busy

\* The chat, with its input, and what is offered when its gateway is not connected.
ChatOffered == ~Loading /\ CanConnect(shown) /\ transport = "connected"
InputOffered == ChatOffered /\ ~Busy
ReconnectOffered == ~Loading /\ ~Busy /\ CanConnect(shown) /\ transport \notin {"connected", "connecting"}

\* The list of earlier conversations stays open.
HistoryOffered == ~Initializing /\ ~Busy

-----------------------------------------------------------------------------
(* refreshState *)

Superseded(R) == {[r EXCEPT !.latest = FALSE] : r \in R}
Ask(r) == requests' = Superseded(requests) \union {r}

\* refreshState() with no option: nothing while a mutation runs, and one request
\* for all who ask meanwhile.
Refresh(W) ==
  /\ mutation = "none"
  /\ IF \E r \in requests : r.shared
     THEN requests' = {IF r.shared THEN [r EXCEPT !.for = @ \union W] ELSE r : r \in requests}
     ELSE Ask(Unforced(W))

\* beginMutation and endMutation raise the epoch and drop the shared promise.
Estranged == {[r EXCEPT !.current = FALSE, !.shared = FALSE] : r \in requests}

\* markRuntimeStatusUnavailable
Unavailable(s) == IF s.ready \/ s.chat THEN [s EXCEPT !.ready = FALSE, !.chat = FALSE] ELSE s

\* The device answers a status request; or the request fails.
Serve(r) ==
  /\ Quiet
  /\ r.got = Nothing
  /\ \/ requests' = (requests \ {r}) \union {[r EXCEPT !.got = Read]} /\ Silent
     \/ requests' = (requests \ {r}) \union {[r EXCEPT !.got = Failed]} /\ Event
  /\ UNCHANGED <<gateway, shown, mutation, job, task, fresh, dev>>

\* Mutant of MayCommit: any request may.
MayCommitLate(r) == mutation = "none" \/ r.allow

MayCommit(r) ==
  /\ r.latest
  /\ r.force \/ r.current
  /\ mutation = "none" \/ r.allow

\* The answer arrives, and goes to the functions that await it.
Deliver(r) ==
  /\ Quiet
  /\ r.got # Nothing
  /\ requests' = requests \ {r}
  /\ task' = [t \in Tasks |->
                IF t \notin r.for THEN task[t]
                ELSE [at |-> "refreshed",
                      got |-> IF t = "toggle" /\ ~Known(r.got) THEN task[t].got ELSE r.got]]
  /\ IF Known(r.got)
     THEN /\ shown' = IF MayCommit(r) THEN r.got ELSE shown
          /\ UNCHANGED transport
     ELSE /\ shown' = IF r.keep THEN shown ELSE Unavailable(shown)
          /\ transport' = IF r.keep THEN transport ELSE "error"
  /\ Silent
  /\ UNCHANGED <<ws, promise, mutation, job, fresh, dev>>

-----------------------------------------------------------------------------
(* Functions that refresh, then connect *)

\* What follows the refresh in each of them.
ConnectIfReady(t) ==
  /\ task[t].at = "refreshed"
  /\ IF CanConnect(task[t].got)
     THEN Connect({t}) /\ Move(t, "connecting")
     ELSE Finish(t) /\ UNCHANGED gateway
  /\ UNCHANGED <<shown, requests, fresh>>

Connected(t) == task[t].at = "connecting" /\ promise[t] \in {"ok", "failed"}

\* openSidebar, when the panel mounts, after the refresh it begins with
OpenSidebar ==
  /\ \/ ConnectIfReady("open")
     \/ Connected("open") /\ Forget("open") /\ Finish("open") /\ UNCHANGED <<shown, requests, fresh>>
  /\ Silent
  /\ UNCHANGED <<mutation, job, dev>>

\* handleSend: over an open gateway when the agent is idle, else by way of a
\* refresh and a connect.
Send ==
  /\ \/ /\ task["send"].at = "idle" /\ InputOffered
        /\ Click("send") /\ UNCHANGED dialog
        /\ \/ fresh' = (fresh /\ ws # "open") /\ UNCHANGED <<requests, task>>
           \/ Ask(Forced({"send"}, TRUE, FALSE)) /\ Move("send", "refreshing") /\ UNCHANGED fresh
        /\ UNCHANGED <<gateway, shown>>
     \/ ConnectIfReady("send") /\ Silent
     \/ /\ Connected("send")
        /\ fresh' = (fresh /\ promise["send"] = "failed")
        /\ Forget("send") /\ Finish("send") /\ Silent
        /\ UNCHANGED <<shown, requests>>
  /\ UNCHANGED <<mutation, job, dev>>

\* handleReconnectGateway
Reconnect ==
  /\ \/ /\ task["reconnect"].at = "idle" /\ ReconnectOffered
        /\ Click("reconnect") /\ UNCHANGED dialog
        /\ Ask(Forced({"reconnect"}, TRUE, FALSE)) /\ Move("reconnect", "refreshing")
        /\ UNCHANGED <<gateway, shown, fresh>>
     \/ ConnectIfReady("reconnect") /\ Silent
     \/ /\ Connected("reconnect")
        /\ Forget("reconnect") /\ Finish("reconnect") /\ Silent
        /\ UNCHANGED <<shown, requests, fresh>>
  /\ UNCHANGED <<mutation, job, dev>>

\* handleNewConversation: the old session is released, then comes a refresh.
NewConversation ==
  /\ \/ /\ task["new"].at = "idle" /\ ~fresh /\ InputOffered
        /\ Click("new") /\ UNCHANGED dialog
        /\ Close /\ Move("new", "closing") /\ fresh' = TRUE
        /\ UNCHANGED <<shown, requests>>
     \/ /\ task["new"].at = "closing"
        /\ Quiet /\ Silent
        /\ Ask(Forced({"new"}, TRUE, FALSE)) /\ Move("new", "refreshing")
        /\ UNCHANGED <<gateway, shown, fresh>>
     \/ ConnectIfReady("new") /\ Silent
     \/ /\ Connected("new")
        /\ Forget("new") /\ Finish("new") /\ Silent
        /\ UNCHANGED <<shown, requests, fresh>>
  /\ UNCHANGED <<mutation, job, dev>>

\* handleSelectHistorySession: it looks for a mutation before it loads the
\* session, and closes the gateway after.
SelectSession ==
  /\ \/ /\ task["select"].at = "idle" /\ HistoryOffered
        /\ Click("select") /\ UNCHANGED dialog
        /\ Move("select", "loading")
        /\ UNCHANGED <<gateway, shown, requests, fresh>>
     \/ /\ task["select"].at = "loading"
        /\ Quiet /\ Silent
        /\ \/ Close /\ Move("select", "closing") /\ fresh' = FALSE
           \/ Finish("select") /\ UNCHANGED <<gateway, fresh>>
        /\ UNCHANGED <<shown, requests>>
     \/ /\ task["select"].at = "closing"
        /\ Quiet /\ Silent
        /\ Ask(Forced({"select"}, TRUE, FALSE)) /\ Move("select", "refreshing")
        /\ UNCHANGED <<gateway, shown, fresh>>
     \/ ConnectIfReady("select") /\ Silent
     \/ /\ Connected("select")
        /\ Forget("select") /\ Finish("select") /\ Silent
        /\ UNCHANGED <<shown, requests, fresh>>
  /\ UNCHANGED <<mutation, job, dev>>


-----------------------------------------------------------------------------
(* The mutations *)

AskForMutation(keep, next) ==
  /\ Ask(Forced({"mutation"}, keep, TRUE))
  /\ Move("mutation", "refreshing")
  /\ job' = [job EXCEPT !.next = next]

\* setRuntimeStatus of what is known of the control mode.
Patched(s, m, moving) == IF Known(s) THEN [s EXCEPT !.mode = m, !.moving = moving] ELSE s

\* beginMutation, and what the handler does up to its request.
Begin(kind, chained) ==
  /\ mutation = "none"
  /\ mutation' = kind
  /\ requests' = Estranged
  /\ job' = [NoJob EXCEPT !.connected = (transport = "connected"), !.chained = chained]
  /\ shown' = IF kind = "release" THEN Patched(shown, "off", TRUE) ELSE shown
  /\ UNCHANGED <<gateway, fresh, dev>>

\* Which buttons can be pressed; the runtime is started by ToggleRuntime.
Enabled(kind) ==
  \/ kind \in {"stop", "agent", "uninstall"} /\ Header(kind)
  \/ kind \in {"grant", "release"} /\ ControlBar(kind)
  \/ kind = "settings" /\ ConfigOffered
  \/ kind = "install" /\ InstallOffered

\* The runtime is removed, and the device taken from MCP, when a dialog is confirmed.
AsksFirst(kind) == kind = "uninstall" \/ (kind = "grant" /\ shown.mode = "mcp")

PressButton(kind) ==
  /\ Click(kind)
  /\ Enabled(kind)
  /\ \/ ~AsksFirst(kind) /\ Begin(kind, FALSE) /\ Move("mutation", "requesting") /\ UNCHANGED dialog
     \/ AsksFirst(kind) /\ dialog' = kind /\ UNCHANGED <<gateway, sidebar, dev>>

\* It is confirmed, which a mutation under way makes idle, or not; what is shown behind
\* the dialog may have changed since.
AnswerDialog ==
  /\ Quiet
  /\ dialog # "none" /\ dialog' = "none"
  /\ \/ Begin(dialog, FALSE) /\ Move("mutation", "requesting")
     \/ UNCHANGED <<gateway, sidebar, dev>>
  /\ UNCHANGED <<scene, clicks, events>>

\* startRuntimeWithControl when the mode is another; a mutation under way stops it.
GrantForToggle ==
  \/ /\ Begin("grant", TRUE)
     /\ task' = [task EXCEPT !["toggle"] = [at |-> "granting", got |-> Nothing],
                             !["mutation"].at = "requesting"]
  \/ /\ mutation # "none"
     /\ Finish("toggle")
     /\ UNCHANGED <<gateway, shown, requests, mutation, job, fresh, dev>>

\* handleToggleRuntime for a runtime that is not ready: a refresh, a grant when
\* the device is not under PicoClaw's control, a start.
ToggleRuntime ==
  \/ /\ task["toggle"].at = "idle" /\ Header("start") /\ ~shown.ready
     /\ Click("toggle") /\ UNCHANGED dialog
     /\ Ask(Forced({"toggle"}, FALSE, FALSE))
     /\ task' = [task EXCEPT !["toggle"] = [at |-> "refreshing", got |-> shown]]
     /\ UNCHANGED <<gateway, shown, mutation, job, fresh, dev>>
  \/ LET s == task["toggle"].got IN
     /\ task["toggle"].at = "refreshed"
     /\ Silent
     /\ \/ /\ ~Known(s) \/ s.ready
           /\ Finish("toggle")
           /\ UNCHANGED <<gateway, shown, requests, mutation, job, fresh, dev>>
        \/ /\ Known(s) /\ ~s.ready /\ s.mode = "mcp"
           /\ Move("toggle", "asking")
           /\ UNCHANGED <<gateway, shown, requests, mutation, job, fresh, dev>>
        \/ /\ Known(s) /\ ~s.ready /\ s.mode = "picoclaw"
           /\ Move("toggle", "granted")
           /\ UNCHANGED <<gateway, shown, requests, mutation, job, fresh, dev>>
        \/ /\ Known(s) /\ ~s.ready /\ s.mode = "off"
           /\ GrantForToggle
  \/ /\ task["toggle"].at = "asking"
     /\ Quiet /\ Silent
     /\ \/ GrantForToggle
        \/ Finish("toggle") /\ UNCHANGED <<gateway, shown, requests, mutation, job, fresh, dev>>
  \/ /\ task["toggle"].at = "granted"
     /\ Silent
     /\ \/ Begin("start", FALSE) /\ task' = [task EXCEPT !["toggle"] = Idle, !["mutation"].at = "requesting"]
        \/ /\ mutation # "none" /\ Finish("toggle")
           /\ UNCHANGED <<gateway, shown, requests, mutation, job, fresh, dev>>

\* Mutant of EndMutation: a mutation whose request failed keeps the sidebar.
EndSucceeded ==
  /\ mutation' = IF job.reply = Failed THEN mutation ELSE "none"
  /\ job' = NoJob
  /\ task' = [task EXCEPT !["mutation"] = Idle,
                          !["toggle"] = IF ~job.chained THEN @
                                        ELSE IF Known(job.reply) THEN [at |-> "granted", got |-> Nothing]
                                        ELSE Idle]

\* endMutation, and the start button that waits for the outcome of its grant.
EndMutation ==
  /\ mutation' = "none"
  /\ job' = NoJob
  /\ task' = [task EXCEPT !["mutation"] = Idle,
                          !["toggle"] = IF ~job.chained THEN @
                                        ELSE IF Known(job.reply) THEN [at |-> "granted", got |-> Nothing]
                                        ELSE Idle]

End == EndMutation /\ requests' = Estranged

\* applyRuntimeToggleSuccess: the status is shown, and the gateway follows the
\* runtime; `next` comes after.
Apply(s, next) ==
  /\ shown' = s
  /\ IF mutation = "stop" \/ job.connected
     THEN /\ IF mutation = "stop" THEN Close ELSE UNCHANGED gateway
          /\ IF next = "final" THEN AskForMutation(FALSE, "end") /\ UNCHANGED mutation
                               ELSE End
     ELSE /\ Connect({"mutation"})
          /\ Move("mutation", "connecting")
          /\ job' = [job EXCEPT !.next = next]
          /\ UNCHANGED <<requests, mutation>>

\* confirmRuntimeToggleResult asks once more.
TryAgain ==
  /\ Ask(Forced({"mutation"}, TRUE, TRUE))
  /\ Move("mutation", "refreshing")
  /\ job' = [job EXCEPT !.tries = @ + 1, !.next = "confirm"]
  /\ UNCHANGED <<gateway, shown, mutation>>

\* handleStartRuntime once its request is answered.
Toggled ==
  /\ mutation \in {"start", "stop"}
  /\ IF Expected(job.reply, mutation) THEN Apply(job.reply, "final") ELSE TryAgain

\* handleGrantControl
ControlGranted ==
  /\ mutation = "grant"
  /\ AskForMutation(~Known(job.reply), "end")
  /\ UNCHANGED <<gateway, shown, mutation>>

\* handleReleaseControl
ControlReleased ==
  /\ mutation = "release"
  /\ shown' = IF Known(job.reply) THEN Patched(shown, "off", FALSE) ELSE shown
  /\ AskForMutation(TRUE, "end")
  /\ UNCHANGED <<gateway, mutation>>

\* A setting is saved: the reply is shown, and confirmed by a refresh.
Saved(next) ==
  /\ IF Known(job.reply)
     THEN shown' = job.reply /\ AskForMutation(FALSE, next) /\ UNCHANGED mutation
     ELSE End /\ UNCHANGED shown
  /\ UNCHANGED gateway

\* handleSaveModelConfig, handleInstallRuntime, handleUninstallRuntime, and
\* handleAgentProfileChange, which connects after its refresh.
ModelConfigSaved == mutation = "settings" /\ Saved("end")
RuntimeInstalled == mutation = "install" /\ Saved("end")
RuntimeUninstalled == mutation = "uninstall" /\ Saved("end")
AgentProfileChanged == mutation = "agent" /\ Saved("connect")

\* The confirmation after a start or a stop whose answer was not the expected one.
Confirmed ==
  LET s == task["mutation"].got IN
  \/ Expected(s, mutation) /\ Apply(s, "end")
  \/ /\ ~Expected(s, mutation) /\ job.tries < Attempts
     /\ Move("mutation", "pausing")
     /\ UNCHANGED <<gateway, shown, requests, mutation, job>>
  \/ /\ ~Expected(s, mutation) /\ job.tries = Attempts /\ job.reply = Failed
     /\ End
     /\ UNCHANGED <<gateway, shown>>
  \/ /\ ~Expected(s, mutation) /\ job.tries = Attempts /\ job.reply # Failed
     /\ shown' = IF Known(job.reply) THEN job.reply ELSE shown
     /\ AskForMutation(FALSE, "end")
     /\ UNCHANGED <<gateway, mutation>>

\* handleAgentProfileChange connects to a runtime that was ready in the reply.
ConnectNewAgent ==
  /\ IF job.reply.ready /\ ~job.connected
     THEN /\ Connect({"mutation"})
          /\ Move("mutation", "connecting")
          /\ job' = [job EXCEPT !.next = "end"]
          /\ UNCHANGED <<requests, mutation>>
     ELSE End /\ UNCHANGED gateway
  /\ UNCHANGED shown

\* The function of the mutation goes on after an await.
Mutation ==
  /\ \/ task["mutation"].at = "replied"
        /\ \/ Toggled \/ ControlGranted \/ ControlReleased
           \/ ModelConfigSaved \/ RuntimeInstalled \/ RuntimeUninstalled \/ AgentProfileChanged
     \/ /\ task["mutation"].at = "refreshed"
        /\ \/ job.next = "confirm" /\ Confirmed
           \/ job.next = "end" /\ End /\ UNCHANGED <<gateway, shown>>
           \/ job.next = "connect" /\ ConnectNewAgent
     \/ /\ Connected("mutation")
        /\ Forget("mutation")
        /\ IF job.next = "final" THEN AskForMutation(FALSE, "end") /\ UNCHANGED mutation ELSE End
        /\ UNCHANGED shown
     \/ task["mutation"].at = "pausing" /\ Quiet /\ TryAgain
  /\ Silent
  /\ UNCHANGED <<fresh, dev>>

-----------------------------------------------------------------------------
(* Effects and events *)

\* The timers of usePicoclawStatusRefresh and usePicoclawInstallRefresh, and the
\* loop of confirmRuntimeStatus.
Poll ==
  /\ Quiet /\ Silent
  /\ Refresh({})
  /\ UNCHANGED <<gateway, shown, mutation, job, task, fresh, dev>>

\* usePicoclawGatewayAutoConnect; its limit of one attempt in three seconds only
\* delays it.
AutoConnect ==
  /\ Quiet /\ Silent
  /\ mutation = "none" /\ CanConnect(shown)
  /\ transport \notin {"connected", "connecting"}
  /\ Connect({})
  /\ UNCHANGED <<sidebar, dev>>

Opened == Quiet /\ Silent /\ SocketOpens /\ UNCHANGED <<sidebar, dev>>

Closing == Event /\ SocketCloses /\ UNCHANGED <<sidebar, dev>>

\* onclose with code 1000.
ClosedNormally ==
  /\ ws \in {"open", "closing"}
  /\ Event
  /\ SocketClosed("disconnected")
  /\ UNCHANGED <<sidebar, dev>>

\* Any other code of an error: the listener of transport_state refreshes.
GatewayFails ==
  /\ Event
  /\ SocketClosed("error")
  /\ Ask(Forced({}, TRUE, FALSE))
  /\ UNCHANGED <<shown, mutation, job, task, fresh, dev>>

\* Code 4006: the device is about to change hands.
ControlSwitched ==
  /\ ws \in {"open", "closing"}
  /\ Event
  /\ SocketClosed("disconnected")
  /\ shown' = Patched(shown, shown.mode, TRUE)
  /\ UNCHANGED <<requests, mutation, job, task, fresh, dev>>

\* Code 4007: the runtime has stopped.
RuntimeStopped ==
  /\ ws \in {"open", "closing"}
  /\ Event
  /\ SocketClosed("disconnected")
  /\ shown' = IF ~Known(shown) THEN shown
              ELSE [Unavailable(shown) EXCEPT !.moving = FALSE,
                                              !.mode = IF @ = "picoclaw" THEN "off" ELSE @]
  /\ UNCHANGED <<requests, mutation, job, task, fresh, dev>>

\* control.mode_changed, which may be late: a switch has begun, or ended in m.
ModeChanged(m, moving) ==
  /\ ws \in {"open", "closing"}
  /\ Event
  /\ shown' = Patched(shown, m, moving)
  /\ transport' = IF m = "mcp" THEN "disconnected" ELSE transport
  /\ UNCHANGED <<ws, promise, requests, mutation, job, task, fresh, dev>>

\* A message of type error.
ErrorMessage ==
  /\ ws \in {"open", "closing"}
  /\ Event
  /\ transport' = "error"
  /\ Ask(Forced({}, TRUE, FALSE))
  /\ UNCHANGED <<ws, promise, shown, mutation, job, task, fresh, dev>>

-----------------------------------------------------------------------------
(* The device *)

\* No reading is recent when the device has changed.
Dated(s) == [s EXCEPT !.recent = FALSE]
Changed ==
  /\ shown' = Dated(shown)
  /\ requests' = {[r EXCEPT !.got = Dated(@)] : r \in requests}

\* What a request that succeeds makes of the device.
Effects(kind) ==
  CASE kind = "start"     -> IF dev.mode = "picoclaw" THEN {[dev EXCEPT !.ready = TRUE]} ELSE {}
    [] kind = "stop"      -> {[dev EXCEPT !.ready = FALSE, !.mode = "off"]}
    [] kind = "grant"     -> {[dev EXCEPT !.mode = "picoclaw"]}
    [] kind = "release"   -> {[dev EXCEPT !.mode = "off"]}
    [] kind = "uninstall" -> {[dev EXCEPT !.ready = FALSE]}
    [] OTHER              -> {dev, [dev EXCEPT !.ready = FALSE]}

\* The device serves the request of the mutation; it refuses (a start always when
\* the mode is another), or the answer is lost.
Execute ==
  /\ task["mutation"].at = "requesting"
  /\ \E d \in Effects(mutation) \union {dev}, answered \in BOOLEAN :
       LET s == StatusOf(d)
           answer == IF ~answered THEN Failed ELSE IF d \in Effects(mutation) THEN s ELSE Refused
       IN
       /\ IF Known(answer) \/ (Effects(mutation) = {} /\ answered) THEN Quiet /\ Silent ELSE Event
       /\ dev' = d
       /\ job' = [job EXCEPT !.reply = answer]
       /\ IF d = dev THEN UNCHANGED <<shown, requests>> ELSE Changed
  /\ Move("mutation", "replied")
  /\ UNCHANGED <<gateway, mutation, fresh>>

\* The runtime comes or goes; another client's switch begins. A switch ends.
DeviceChanges ==
  /\ \/ Event /\ dev' = [dev EXCEPT !.ready = ~@]
     \/ Event /\ ~dev.moving /\ dev' = [dev EXCEPT !.moving = TRUE]
     \/ Quiet /\ Silent /\ dev.moving /\ \E m \in Modes : dev' = [dev EXCEPT !.moving = FALSE, !.mode = m]
  /\ Changed
  /\ UNCHANGED <<gateway, mutation, job, task, fresh>>

-----------------------------------------------------------------------------
Functions == OpenSidebar \/ Send \/ Reconnect \/ NewConversation \/ SelectSession
             \/ ToggleRuntime \/ Mutation
Buttons == (\E k \in Kinds : PressButton(k)) \/ AnswerDialog
Network == Opened \/ Closing \/ ClosedNormally \/ GatewayFails \/ ControlSwitched
           \/ RuntimeStopped \/ ErrorMessage \/ ModeChanged(dev.mode, TRUE) \/ \E m \in Modes : ModeChanged(m, FALSE)
Requests == \E r \in requests : Serve(r) \/ Deliver(r)
Device == Execute \/ DeviceChanges

Next == Functions \/ Buttons \/ Poll \/ AutoConnect \/ Network \/ Requests \/ Device

\* Functions go on when what they await has come, requests are answered, timers
\* fire and an attempt to connect has an end; nobody has to press a button or to
\* answer a dialog.
Fairness ==
  /\ WF_vars(OpenSidebar) /\ WF_vars(Mutation)
  /\ WF_vars(Send /\ task["send"].at # "idle") /\ WF_vars(Reconnect /\ task["reconnect"].at # "idle")
  /\ WF_vars(NewConversation /\ task["new"].at # "idle")
  /\ WF_vars(SelectSession /\ task["select"].at # "idle")
  /\ WF_vars(ToggleRuntime /\ task["toggle"].at \notin {"idle", "asking"})
  /\ WF_vars(Poll) /\ WF_vars(AutoConnect) /\ WF_vars(Opened)
  /\ WF_vars(Requests) /\ WF_vars(Execute)

Spec == Init /\ [][Next]_vars /\ Fairness

-----------------------------------------------------------------------------
(* Properties *)

\* Every part of the sidebar and its gateway has its type.
TypeOK ==
  /\ GatewayTypeOK
  /\ shown \in Status \union {NoStatus}
  /\ \A r \in requests : r.got \in Status \union {Nothing, Failed} /\ r.for \subseteq Tasks
  /\ mutation \in Kinds \union {"none"}
  /\ task \in [Tasks -> [at : Places, got : Status \union {NoStatus, Nothing, Refused, Failed}]]
  /\ fresh \in BOOLEAN
  /\ dialog \in {"none", "grant", "uninstall"}

\* The answer of a poll never replaces a reading the device has not outlived by
\* an older one, however the answers overtake each other (refreshState's numbers
\* and epochs). The forced refresh of a handler may: the confirmation of a start
\* or stop shows what it found though another refresh has been asked for since.
PollsNeverGoBack ==
  [][shown.recent /\ dev' = dev /\ (\E r \in requests \ requests' : ~r.force /\ Known(r.got))
       => shown'.recent]_vars

\* When listeners were told of a connection there is an open socket, whatever
\* closed, failed or was replaced in between.
ConnectedIsOpen == transport = "connected" => ws \in {"open", "closing"}

\* No mutation keeps the sidebar's buttons for ever, except one that awaits a
\* connection which close() has let go of: its promise is never settled.
MutationEnds == mutation # "none" ~> (mutation = "none" \/ Hung("mutation"))

\* Once the device and the net are calm the sidebar shows the device as it is,
\* unless a hung mutation keeps it from polling.
Converges ==
  <>[](Hung("mutation") \/ shown = [Read EXCEPT !.recent = shown.recent])

=============================================================================
