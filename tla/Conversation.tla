------------------------------- MODULE Conversation -------------------------------
(* What the chat panel shows: the messages of the conversation on screen, and who
   controls the device. Messages come over the gateway's socket (web/src/lib/
   picoclaw-gateway.ts) and from what the user does (picoclaw/
   sidebar-session-actions.ts), and the listeners of the gateway put them in place
   (sidebar-effects.ts). Sessions can be switched while older handlers still wait for
   the status of the runtime or for a connection: they go on with the session they
   were called with. PicoclawSidebar has the mutations of the runtime. *)
EXTENDS Naturals, Sequences

CONSTANTS
  Sessions,     \* 1 .. n: the ids that a panel takes, one after the other
  Stored,       \* sessions of the history
  Ids,          \* ids of the messages of the assistant
  ChatClicks, ChatFrames   \* bounds on the user, and on what the server sends

VARIABLES
  mounted,     \* the panel is open and listens
  next,        \* the id that generateUUIDv4 gives next
  active,      \* activeSessionId
  fresh,       \* isFreshConversation
  gateway,     \* the session of the gateway, and the session of its socket
  ws,          \* its readyState, or "none"
  shown,       \* transportState, runState, takeover and overlay
  messages,    \* picoclawMessages
  handlers,    \* functions that wait: what, for which session, and at what
  switching,   \* isSwitchingSession
  crossed,     \* a handler has connected for a session that was left
  chatClicks, chatFrames

chatVars == <<mounted, next, active, fresh, gateway, ws, shown, messages, handlers, switching,
              crossed, chatClicks, chatFrames>>

Kinds == {"user", "assistant", "tool_action", "observation", "note"}
Shown == [transport : {"disconnected", "connecting", "connected", "error"}, busy : BOOLEAN,
          takeover : BOOLEAN, overlay : BOOLEAN]
Nobody == 0
Known == Sessions \union Stored \union {Nobody}
Message(kind, id, of) == [kind |-> kind, id |-> id, of |-> of, image |-> kind = "observation"]
\* A status or an error
Note == Message("note", "", active)

ChatTypeOK ==
  /\ mounted \in BOOLEAN /\ fresh \in BOOLEAN /\ switching \in BOOLEAN /\ crossed \in BOOLEAN
  /\ active \in Known /\ gateway \in [session : Known, socket : Known]
  /\ ws \in {"none", "connecting", "open"}
  /\ shown \in Shown
  /\ \A i \in DOMAIN messages : messages[i].kind \in Kinds /\ messages[i].image \in BOOLEAN
  /\ \A h \in handlers : h.at \in {"loading", "refreshing", "connecting", "connected"}

Quiet == [transport |-> "disconnected", busy |-> FALSE, takeover |-> FALSE, overlay |-> FALSE]

ChatInit ==
  /\ mounted = FALSE /\ next = 1
  /\ active = Nobody /\ fresh = TRUE
  /\ gateway = [session |-> Nobody, socket |-> Nobody] /\ ws = "none"
  /\ shown = Quiet
  /\ messages = <<>>
  /\ handlers = {} /\ switching = FALSE /\ crossed = FALSE
  /\ chatClicks = ChatClicks /\ chatFrames = ChatFrames

-----------------------------------------------------------------------------
(* The gateway and its listeners *)

Handler(kind, session, at) == [kind |-> kind, session |-> session, at |-> at]

\* A promise that is settled resumes its handlers before anything else happens.
Resting == \A h \in handlers : h.at # "connected"

\* What the listeners do with a transport state that is not connected.
Disengaged(state) == [Quiet EXCEPT !.transport = state]
Listened(s) == shown' = IF mounted THEN s ELSE shown

\* connect() for handlers H, on behalf of session s. An open socket or an attempt
\* under way is shared, but the session is noted in any case.
Connect(s, H, others) ==
  /\ gateway' = [session |-> s, socket |-> IF ws = "none" THEN s ELSE gateway.socket]
  /\ ws' = IF ws = "none" THEN "connecting" ELSE ws
  /\ handlers' = others \union { [h EXCEPT !.at = IF ws = "open" THEN "connected" ELSE "connecting"] : h \in H }
  /\ IF ws = "none" THEN Listened(Disengaged("connecting")) ELSE UNCHANGED shown
  /\ crossed' = (crossed \/ s # active)

\* close(): who awaits the attempt waits for ever, and is left out.
Waiters == { h \in handlers : h.at = "connecting" }

\* onopen
SocketOpens ==
  /\ Resting /\ ws = "connecting" /\ ws' = "open"
  /\ handlers' = { IF h.at = "connecting" THEN [h EXCEPT !.at = "connected"] ELSE h : h \in handlers }
  /\ IF mounted THEN /\ active' = gateway.session
                     /\ shown' = [Disengaged("connected") EXCEPT !.takeover = TRUE]
                     /\ messages' = Append(messages, Note)
     ELSE UNCHANGED <<active, shown, messages>>
  /\ UNCHANGED <<mounted, next, fresh, gateway, switching, crossed, chatClicks, chatFrames>>

\* onclose, with a code that is an error (also of an attempt that fails), or that
\* says why: 1000, 4006 (MCP took the control), 4007 (the runtime was stopped).
SocketCloses(error) ==
  /\ Resting /\ ws # "none" /\ ws' = "none"
  /\ chatFrames > 0 /\ chatFrames' = chatFrames - 1
  /\ gateway' = [gateway EXCEPT !.socket = Nobody]
  /\ handlers' = { h \in handlers : h \notin Waiters \/ h.kind = "select" }
  /\ switching' = (switching /\ \A h \in Waiters : h.kind # "select")
  /\ Listened(Disengaged(IF error THEN "error" ELSE "disconnected"))
  /\ messages' = IF mounted THEN Append(messages, Note) ELSE messages
  /\ UNCHANGED <<mounted, next, active, fresh, crossed, chatClicks>>

\* usePicoclawGatewayAutoConnect
AutoConnect ==
  /\ Resting /\ mounted /\ active # Nobody
  /\ shown.transport \notin {"connected", "connecting"}
  /\ ws = "none"
  /\ Connect(active, {}, handlers)
  /\ UNCHANGED <<mounted, next, active, fresh, messages, switching, chatClicks, chatFrames>>

-----------------------------------------------------------------------------
(* Frames: handleMessage, and the listener of what it emits *)

Frame ==
  /\ Resting /\ ws = "open" /\ mounted
  /\ chatFrames > 0 /\ chatFrames' = chatFrames - 1
  /\ UNCHANGED <<mounted, next, active, fresh, gateway, ws, handlers, switching, crossed, chatClicks>>

Typing == Frame /\ shown' = [shown EXCEPT !.busy = TRUE] /\ UNCHANGED messages

\* The frame "error": the panel takes the connection for lost, the socket stays.
ErrorFrame == Frame /\ shown' = Disengaged("error") /\ messages' = Append(messages, Note)

\* control.mode_changed without control of the device: to MCP, or released.
ControlLost(mcp) ==
  /\ Frame /\ UNCHANGED messages
  /\ shown' = Disengaged(IF mcp THEN "disconnected" ELSE shown.transport)

\* Mutant of AssistantMessage: an update is appended like a new message.
AssistantAppended(id) ==
  /\ Frame
  /\ shown' = [shown EXCEPT !.busy = FALSE]
  /\ messages' = Append(messages, Message("assistant", id, gateway.socket))

\* message.create and message.update: the message with that id is replaced.
AssistantMessage(id) ==
  LET m == Message("assistant", id, gateway.socket)
      same == { i \in DOMAIN messages : messages[i].id = id }
  IN  /\ Frame
      /\ shown' = [shown EXCEPT !.busy = FALSE]
      /\ messages' = IF same = {} THEN Append(messages, m)
                     ELSE [messages EXCEPT ![CHOOSE i \in same : \A j \in same : i <= j] = m]

\* retainLatestObservationScreenshot
Retained(list) ==
  LET images == { i \in DOMAIN list : list[i].image } IN
  [i \in DOMAIN list |-> [list[i] EXCEPT !.image = i \in images /\ \A j \in images : j <= i]]

Observation ==
  /\ Frame /\ UNCHANGED shown
  /\ messages' = Retained(Append(messages, Message("observation", "", gateway.socket)))

ToolAction ==
  /\ Frame /\ shown' = [shown EXCEPT !.overlay = TRUE]
  /\ messages' = Append(messages, Message("tool_action", "", gateway.socket))

-----------------------------------------------------------------------------
(* The panel *)

ChatClick == Resting /\ chatClicks > 0 /\ chatClicks' = chatClicks - 1 /\ UNCHANGED chatFrames

\* openSidebar: a session of its own, then it waits for the status.
OpenPanel ==
  /\ ChatClick /\ ~mounted /\ next \in Sessions
  /\ mounted' = TRUE /\ next' = next + 1 /\ active' = next /\ fresh' = TRUE
  /\ gateway' = [session |-> next, socket |-> Nobody] /\ ws' = "none"
  /\ shown' = Quiet /\ messages' = <<>> /\ crossed' = FALSE
  /\ handlers' = (handlers \ Waiters) \union {Handler("open", next, "refreshing")}
  /\ UNCHANGED switching

\* The cleanup of usePicoclawSidebarLifecycle: openSidebar is canceled, other handlers go on.
ClosePanel ==
  /\ ChatClick /\ mounted /\ mounted' = FALSE
  /\ gateway' = [gateway EXCEPT !.socket = Nobody] /\ ws' = "none"
  /\ shown' = Quiet
  /\ handlers' = { h \in handlers \ Waiters : h.kind # "open" }
  /\ switching' = FALSE
  /\ UNCHANGED <<next, active, fresh, messages, crossed>>

\* sendChatMessage, which notes the session of the gateway; a message that no
\* socket takes is removed again.
SendNow ==
  LET of == IF gateway.session = gateway.socket THEN gateway.socket ELSE Nobody IN
  /\ fresh' = FALSE
  /\ IF ws = "open" THEN /\ messages' = Append(messages, Message("user", "", of))
                         /\ Listened([shown EXCEPT !.busy = TRUE])
     ELSE UNCHANGED <<messages, shown>>

\* handleSend: at once, or after the status and the connection.
Send ==
  /\ ChatClick /\ mounted /\ shown.transport = "connected"
  /\ IF shown.busy THEN /\ handlers' = handlers \union {Handler("send", active, "refreshing")}
                        /\ UNCHANGED <<fresh, messages, shown>>
     ELSE SendNow /\ UNCHANGED handlers
  /\ UNCHANGED <<mounted, next, active, gateway, ws, switching, crossed>>

\* handleReconnectGateway
Reconnect ==
  /\ ChatClick /\ mounted /\ shown.transport \notin {"connected", "connecting"}
  /\ handlers' = handlers \union {Handler("reconnect", active, "refreshing")}
  /\ UNCHANGED <<mounted, next, active, fresh, gateway, ws, shown, messages, switching, crossed>>

\* handleNewConversation
NewConversation ==
  /\ ChatClick /\ mounted /\ shown.transport = "connected" /\ ~fresh /\ next \in Sessions
  /\ next' = next + 1 /\ active' = next /\ fresh' = TRUE
  /\ gateway' = [session |-> next, socket |-> Nobody] /\ ws' = "none"
  /\ shown' = Quiet /\ messages' = <<>> /\ crossed' = FALSE
  /\ handlers' = (handlers \ Waiters) \union {Handler("new", next, "refreshing")}
  /\ UNCHANGED <<mounted, switching>>

\* handleStop
Stop ==
  /\ ChatClick /\ mounted /\ shown.transport = "connected" /\ shown.busy
  /\ messages' = Append(messages, Note)
  /\ UNCHANGED <<mounted, next, active, fresh, gateway, ws, shown, handlers, switching, crossed>>

\* handleSelectHistorySession asks for the messages of s.
Select(s) ==
  /\ ChatClick /\ mounted /\ ~switching /\ s # active
  /\ switching' = TRUE
  /\ handlers' = handlers \union {Handler("select", s, "loading")}
  /\ UNCHANGED <<mounted, next, active, fresh, gateway, ws, shown, messages, crossed>>

\* They have come: the panel leaves its session for that one.
Loaded(h) ==
  /\ Resting /\ h.at = "loading"
  /\ active' = h.session /\ fresh' = FALSE
  /\ gateway' = [gateway EXCEPT !.socket = Nobody] /\ ws' = "none"
  /\ Listened(Quiet)
  /\ messages' = << Message("user", "", h.session), Message("assistant", "", h.session) >>
  /\ crossed' = FALSE
  /\ handlers' = (handlers \ (Waiters \union {h})) \union {[h EXCEPT !.at = "refreshing"]}
  /\ UNCHANGED <<mounted, next, switching, chatClicks, chatFrames>>

\* They could not be loaded.
NotLoaded(h) ==
  /\ Resting /\ h.at = "loading"
  /\ handlers' = handlers \ {h} /\ switching' = FALSE
  /\ messages' = Append(messages, Note)
  /\ UNCHANGED <<mounted, next, active, fresh, gateway, ws, shown, crossed, chatClicks, chatFrames>>

\* The status has come and permits a connection.
Refreshed(h) ==
  /\ Resting /\ h.at = "refreshing"
  /\ Connect(h.session, {h}, handlers \ {h})
  /\ messages' = IF h.kind \in {"open", "new"} THEN Append(messages, Note) ELSE messages
  /\ UNCHANGED <<mounted, next, active, fresh, switching, chatClicks, chatFrames>>

\* It does not, or has not come.
NotRefreshed(h) ==
  /\ Resting /\ h.at = "refreshing"
  /\ handlers' = handlers \ {h}
  /\ switching' = (switching /\ h.kind # "select")
  /\ messages' = IF h.kind = "reconnect" THEN Append(messages, Note) ELSE messages
  /\ UNCHANGED <<mounted, next, active, fresh, gateway, ws, shown, crossed, chatClicks, chatFrames>>

\* The handler goes on with the connection.
Connected(h) ==
  /\ h.at = "connected"
  /\ handlers' = handlers \ {h}
  /\ switching' = (switching /\ h.kind # "select")
  /\ IF h.kind = "send" THEN SendNow ELSE UNCHANGED <<fresh, messages, shown>>
  /\ UNCHANGED <<mounted, next, active, gateway, ws, crossed, chatClicks, chatFrames>>

ChatNext ==
  \/ SocketOpens \/ \E error \in BOOLEAN : SocketCloses(error)
  \/ AutoConnect
  \/ Typing \/ ErrorFrame \/ Observation \/ ToolAction
  \/ \E mcp \in BOOLEAN : ControlLost(mcp)
  \/ \E id \in Ids : AssistantMessage(id)
  \/ OpenPanel \/ ClosePanel \/ Send \/ Reconnect \/ NewConversation \/ Stop
  \/ \E s \in Stored : Select(s)
  \/ \E h \in handlers : Loaded(h) \/ NotLoaded(h) \/ Refreshed(h) \/ NotRefreshed(h) \/ Connected(h)

ChatSpec == ChatInit /\ [][ChatNext]_chatVars

-----------------------------------------------------------------------------
(* Properties *)

\* The messages on screen are those of the conversation on screen, in whatever order
\* sessions are switched and answers come: what the user wrote was sent in it, and what
\* the assistant says came over its socket. (Not once a handler that was called
\* before the switch has connected for the session that was left: sharing the new
\* socket, it gives the gateway the old id.)
MessagesOfConversation ==
  mounted /\ ~crossed => \A i \in DOMAIN messages : messages[i].of = active

\* The panel says that the AI controls the device, acts on it or is working only as
\* long as the socket is open, whichever way it is lost (sidebar-effects.ts 127-203).
ControlShownWhileOpen ==
  shown.takeover \/ shown.overlay \/ shown.busy => ws = "open"

\* A message that is updated stays one, and one screenshot at most is kept.
OneOfEach ==
  \A i, j \in DOMAIN messages :
    i # j => /\ messages[i].id = "" \/ messages[i].id # messages[j].id
             /\ ~(messages[i].image /\ messages[j].image)

-----------------------------------------------------------------------------
(* What every step keeps *)

\* While no handler has connected for another session, the socket and the gateway are
\* those of the conversation on screen.
GatewayOfConversation ==
  mounted /\ ~crossed /\ ws # "none" => gateway = [session |-> active, socket |-> active]

\* A panel that is closed says nothing of the AI.
ClosedIsQuiet == ~mounted => ~(shown.takeover \/ shown.overlay \/ shown.busy)

Messages == [kind : Kinds, id : Ids \union {""}, of : Known, image : BOOLEAN]
Handlers == [kind : {"open", "send", "reconnect", "new", "select"}, session : Known,
             at : {"loading", "refreshing", "connecting", "connected"}]

ChatTypes ==
  /\ mounted \in BOOLEAN /\ fresh \in BOOLEAN /\ switching \in BOOLEAN /\ crossed \in BOOLEAN
  /\ active \in Known /\ gateway \in [session : Known, socket : Known]
  /\ ws \in {"none", "connecting", "open"} /\ shown \in Shown
  /\ messages \in Seq(Messages) /\ handlers \subseteq Handlers

ChatInv ==
  ChatTypes /\ GatewayOfConversation /\ ClosedIsQuiet
    /\ MessagesOfConversation /\ ControlShownWhileOpen /\ OneOfEach
=============================================================================
