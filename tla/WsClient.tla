-------------------------------- MODULE WsClient --------------------------------
(* The websocket that carries the reports of keyboard and mouse
   (web/src/lib/websocket.ts), and those that close and reopen it: the page, the
   choice of the relative mouse, the resets of the USB gadget, the mount of an
   image. A socket that the client has replaced or let go of keeps its handlers,
   which act on the client as those of the newest do. *)
EXTENDS Naturals, FiniteSets

CONSTANTS
  SocketIds,    \* one for each socket that can be alive at the same time
  MaxStray,     \* bound on the reconnect timers nobody can clear any more
  WsClicks, WsFaults   \* bounds on the user, and on the network

Outages == {"menu", "warning", "image"}   \* reset-hid.tsx, hid-status, images.tsx

VARIABLES
  socket,       \* the readyState of each socket, "closed" when there is none
  instance,     \* this.instance, or 0
  beating,      \* heartbeatTimer is set
  timer,        \* reconnectTimer is set
  stray,        \* reconnect timers that were set before it and not cleared
  wanted,       \* shouldReconnect
  mounted,      \* the desktop page is shown
  relative,     \* mouseMode
  restart,      \* applyMouseMode has closed the socket and will connect
  outage,       \* the resets and mounts under way
  wsClicks, wsFaults

client == <<socket, instance, beating, timer, stray, wanted>>
wsBounds == <<wsClicks, wsFaults>>
wsVars == <<client, mounted, relative, restart, outage, wsBounds>>

WsTypeOK ==
  /\ socket \in [SocketIds -> {"closed", "connecting", "open", "closing"}]
  /\ instance \in SocketIds \union {0}
  /\ {beating, timer, wanted, mounted, relative, restart} \subseteq BOOLEAN
  /\ stray \in 0 .. MaxStray
  /\ outage \subseteq Outages

Live == instance # 0 /\ socket[instance] = "open"   \* isConnected

\* The page mounts for the first time; the effect of Desktop has connected.
WsInit ==
  /\ \E i \in SocketIds :
       /\ instance = i
       /\ socket = [[j \in SocketIds |-> "closed"] EXCEPT ![i] = "connecting"]
  /\ beating = FALSE /\ timer = FALSE /\ stray = 0
  /\ wanted = TRUE /\ mounted = TRUE /\ relative = FALSE
  /\ restart = FALSE /\ outage = {}
  /\ wsClicks = WsClicks /\ wsFaults = WsFaults

-----------------------------------------------------------------------------
(* The client *)

\* createConnection: the socket of before is not closed.
CreateConnection ==
  /\ beating' = FALSE /\ timer' = FALSE
  /\ \E i \in SocketIds :
       /\ socket[i] = "closed"
       /\ socket' = [socket EXCEPT ![i] = "connecting"]
       /\ instance' = i

\* connect()
Connect == wanted' = TRUE /\ CreateConnection /\ UNCHANGED stray

\* close(): a socket that is still connecting is let go of, and not closed.
CloseClient ==
  /\ wanted' = FALSE
  /\ beating' = FALSE /\ timer' = FALSE
  /\ socket' = IF Live THEN [socket EXCEPT ![instance] = "closing"] ELSE socket
  /\ instance' = 0
  /\ UNCHANGED stray

\* handleOpen
Opens(i) ==
  /\ socket[i] = "connecting"
  /\ socket' = [socket EXCEPT ![i] = "open"]
  /\ beating' = TRUE
  /\ UNCHANGED <<instance, timer, stray, wanted, mounted, relative, restart, outage, wsBounds>>

\* scheduleReconnect: a timer that runs already is forgotten, and not cleared.
ScheduleReconnect ==
  IF wanted
  THEN /\ timer' = TRUE
       /\ ~timer \/ stray < MaxStray
       /\ stray' = IF timer THEN stray + 1 ELSE stray
  ELSE UNCHANGED <<timer, stray>>

\* Mutant of HandleClose: the client does not come back.
HandleCloseQuietly(i) ==
  /\ socket' = [socket EXCEPT ![i] = "closed"]
  /\ beating' = FALSE
  /\ UNCHANGED <<instance, wanted, timer, stray>>

\* handleClose with a code that is not 4401
HandleClose(i) ==
  /\ socket' = [socket EXCEPT ![i] = "closed"]
  /\ beating' = FALSE
  /\ ScheduleReconnect
  /\ UNCHANGED <<instance, wanted>>

\* The closing handshake of close() ends, late perhaps.
Closes(i) ==
  /\ socket[i] = "closing"
  /\ HandleClose(i)
  /\ UNCHANGED <<mounted, relative, restart, outage, wsBounds>>

\* The server closes a socket whose heartbeats have stopped: only the newest
\* socket sends any. The server waits 90 s, longer than a reconnect takes.
Starves(i) ==
  /\ socket[i] = "open" /\ (i # instance \/ ~beating)
  /\ ~timer /\ \A j \in SocketIds : socket[j] # "connecting"
  /\ HandleClose(i)
  /\ UNCHANGED <<mounted, relative, restart, outage, wsBounds>>

\* A connection fails, or is refused.
Fails(i) ==
  /\ socket[i] \in {"connecting", "open"}
  /\ wsFaults > 0 /\ wsFaults' = wsFaults - 1
  /\ HandleClose(i)
  /\ UNCHANGED <<mounted, relative, restart, outage, wsClicks>>

\* Code 4401: no timer remains that the client knows of, and the page gives way
\* to the login page, which closes the client.
Expires(i) ==
  /\ socket[i] = "open" /\ mounted
  /\ wsFaults > 0 /\ wsFaults' = wsFaults - 1
  /\ socket' = [j \in SocketIds |-> IF j = i THEN "closed"
                                    ELSE IF j = instance /\ socket[j] = "open" THEN "closing" ELSE socket[j]]
  /\ wanted' = FALSE /\ beating' = FALSE /\ timer' = FALSE
  /\ instance' = 0
  /\ mounted' = FALSE
  /\ UNCHANGED <<stray, relative, restart, outage, wsClicks>>

\* The reconnect timer fires, or one that nobody can clear.
Reconnects ==
  /\ \/ timer /\ UNCHANGED stray
     \/ stray > 0 /\ stray' = stray - 1
  /\ CreateConnection
  /\ UNCHANGED <<wanted, mounted, relative, restart, outage, wsBounds>>

-----------------------------------------------------------------------------
(* Those who close and connect *)

WsClick == wsClicks > 0 /\ wsClicks' = wsClicks - 1 /\ UNCHANGED wsFaults

\* The page is left, and comes back.
Leaves ==
  /\ mounted /\ WsClick
  /\ mounted' = FALSE /\ CloseClient
  /\ UNCHANGED <<relative, restart, outage>>

Comes ==
  /\ ~mounted
  /\ mounted' = TRUE /\ Connect
  /\ UNCHANGED <<relative, restart, outage, wsBounds>>

\* applyMouseMode("relative"), and its timer of half a second.
ChooseRelative ==
  /\ mounted /\ ~restart /\ WsClick
  /\ CloseClient
  /\ restart' = TRUE /\ relative' = TRUE
  /\ UNCHANGED <<mounted, outage>>

\* applyMouseMode("absolute")
ChooseAbsolute ==
  /\ mounted /\ relative /\ WsClick
  /\ relative' = FALSE
  /\ UNCHANGED <<client, mounted, restart, outage>>

Restarts ==
  /\ restart
  /\ restart' = FALSE
  /\ Connect
  /\ UNCHANGED <<mounted, relative, outage, wsBounds>>

\* resetHid, recoverUsb, mountImage: each has a flag of its own. The warning is
\* there for the absolute mouse only.
BeginOutage(o) ==
  /\ mounted /\ o \notin outage /\ WsClick
  /\ o = "warning" => ~relative
  /\ CloseClient
  /\ outage' = outage \union {o}
  /\ UNCHANGED <<mounted, relative, restart>>

\* Their finally, whatever came of the request and of the page.
EndOutage(o) ==
  /\ o \in outage
  /\ outage' = outage \ {o}
  /\ Connect
  /\ UNCHANGED <<mounted, relative, restart, wsBounds>>

WsNext ==
  \/ \E i \in SocketIds : Opens(i) \/ Closes(i) \/ Starves(i) \/ Fails(i) \/ Expires(i)
  \/ Reconnects \/ Leaves \/ Comes \/ ChooseRelative \/ ChooseAbsolute \/ Restarts
  \/ \E o \in Outages : BeginOutage(o) \/ EndOutage(o)

\* The network answers, timers fire, requests end (http.ts times them out).
WsFairness ==
  /\ \A i \in SocketIds : WF_wsVars(Opens(i)) /\ WF_wsVars((Closes(i) \/ Starves(i)))
  /\ WF_wsVars(Reconnects) /\ WF_wsVars(Restarts)
  /\ \A o \in Outages : WF_wsVars(EndOutage(o))

WsSpec == WsInit /\ [][WsNext]_wsVars /\ WsFairness

-----------------------------------------------------------------------------
(* Properties *)

\* A client that is to be connected gets an open socket again, whatever closed,
\* and however late the closings of its earlier sockets come (handleClose and
\* scheduleReconnect).
Settled == Live \/ ~wanted
ComesBack == []<>Settled

=============================================================================
