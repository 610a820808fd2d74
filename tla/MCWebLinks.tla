---------------------------- MODULE MCWebLinks ----------------------------
(****************************************************************************)
(* Model-checking instance of the page's links to the device: the input       *)
(* socket and what comes over it, the two H.264 players, the settings panels  *)
(* and the terminal page. As in MCWebControls, the parts share no state, and  *)
(* a behaviour runs one of them over the variables s1, s2, ....               *)
(****************************************************************************)
EXTENDS Naturals, FiniteSets

CONSTANTS
    Parts,        \* the parts this instance runs
    SocketIds, MaxStray, WsClicks, WsFaults,
    Window, High, Low, Owed, StreamFaults,
    RtcFaults, PanelClicks, PanelFaults,
    Feeds, Updates, FeedOutages, MaxChecks, WarningEvents,
    Ports, Rates

ASSUME WsAssumption == SocketIds \subseteq Nat \ {0} /\ MaxStray \in Nat
ASSUME StreamAssumption == {Window, High, Low} \subseteq Nat \ {0}
ASSUME FeedsAssumption == Feeds \subseteq {"capture", "led", "h264"}
ASSUME BoundsAssumption ==
    {WsClicks, WsFaults, StreamFaults, RtcFaults, PanelClicks, PanelFaults,
     Updates, FeedOutages, MaxChecks, WarningEvents} \subseteq Nat

VARIABLES
    part, s1, s2, s3, s4, s5, s6, s7, s8, s9, s10, s11, s12, s13, s14, s15, s16, s17,
    s18, s19, s20, s21

pageVars ==
    << part, s1, s2, s3, s4, s5, s6, s7, s8, s9, s10, s11, s12, s13, s14, s15, s16, s17,
       s18, s19, s20, s21 >>

Websocket == INSTANCE WsClient WITH
    socket <- s1, instance <- s2, beating <- s3, timer <- s4, stray <- s5, wanted <-
    s6, mounted <- s7, relative <- s8, restart <- s9, outage <- s10, wsClicks <-
    s11, wsFaults <- s12
Stream == INSTANCE DirectStream WITH
    conn <- s1, reconnect <- s2, stopped <- s3, frames <- s4, inFlight <- s5,
    waiting <- s6, linked <- s7, downlink <- s8, uplink <- s9, resync <- s10,
    pending <- s11, pressure <- s12, decoder <- s13, decoding <- s14, decoded <-
    s15, pictures <- s16, rendering <- s17, flush <- s18, flushes <- s19, crowded <-
    s20, streamFaults <- s21
Player == INSTANCE WebrtcPlayer WITH
    signaling <- s1, peer <- s2, link <- s3, comes <- s4, queued <- s5, reachable <-
    s6, loading <- s7, limit <- s8, retry <- s9, warned <- s10, shown <- s11,
    rtcFaults <- s12
Panel == INSTANCE SettingPanels WITH
    panel <- s1, shown <- s2, dev <- s3, locked <- s4, calls <- s5, loads <- s6,
    late <- s7, leaving <- s8, troubled <- s9, clicks <- s10, faults <- s11
Feed == INSTANCE StatusFeeds WITH
    feed <- s1, store <- s2, publishing <- s3, slot <- s4, hand <- s5, stage <- s6,
    snapshot <- s7, own <- s8, wire <- s9, answer <- s10, latest <- s11, updates <-
    s12, outages <- s13
Warning == INSTANCE StallWarning WITH
    mouseMode <- s1, stalled <- s2, effect <- s3, checks <- s4, isOpen <- s5,
    isRecovering <- s6, connected <- s7, restarts <- s8, warningEvents <- s9
Terminal == INSTANCE SerialTerminal WITH
    address <- s1, page <- s2, socket <- s3, startTimer <- s4, closeTimer <- s5,
    running <- s6, early <- s7, sent <- s8, reads <- s9, unsent <- s10, shell <- s11,
    reader <- s12, writer <- s13

(* A part runs alone: what its module does not declare stays 0.             *)
From14 == << s14, s15, s16, s17, s18, s19, s20, s21 >>
From13 == << s13, From14 >>
From12 == << s12, From13 >>
From10 == << s10, s11, From12 >>

Unused14 == s14 = 0 /\ s15 = 0 /\ s16 = 0 /\ s17 = 0 /\ s18 = 0 /\ s19 = 0 /\ s20 = 0 /\ s21 = 0
Unused13 == s13 = 0 /\ Unused14
Unused12 == s12 = 0 /\ Unused13
Unused10 == s10 = 0 /\ s11 = 0 /\ Unused12

Init ==
    /\ part \in Parts
    /\ \/ part = "websocket" /\ Websocket!WsInit /\ Unused13
       \/ part = "stream" /\ Stream!StreamInit
       \/ part = "player" /\ Player!RtcInit /\ Unused13
       \/ part = "panel" /\ Panel!PanelInit /\ Unused12
       \/ part = "feeds" /\ Feed!FeedInit /\ Unused14
       \/ part = "warning" /\ Warning!WarningInit /\ Unused10
       \/ part = "terminal" /\ Terminal!TerminalInit /\ Unused14

Next ==
    \/ part = "websocket" /\ Websocket!WsNext /\ UNCHANGED << part, From13 >>
    \/ part = "stream" /\ Stream!StreamNext /\ UNCHANGED part
    \/ part = "player" /\ Player!RtcNext /\ UNCHANGED << part, From13 >>
    \/ part = "panel" /\ Panel!PanelNext /\ UNCHANGED << part, From12 >>
    \/ part = "feeds" /\ Feed!FeedNext /\ UNCHANGED << part, From14 >>
    \/ part = "warning" /\ Warning!WarningNext /\ UNCHANGED << part, From10 >>
    \/ part = "terminal" /\ Terminal!TerminalNext /\ UNCHANGED << part, From14 >>

(* The fairness of the parts, for the part that runs.                       *)
Fair(p, action) == part = p /\ action
WebsocketVars == Websocket!wsVars
StreamVars == Stream!streamVars
PlayerVars == Player!rtcVars
PanelVars == Panel!panelVars
TerminalVars == Terminal!terminalVars

Fairness ==
    /\ \A i \in SocketIds :
          /\ WF_WebsocketVars(Fair("websocket", Websocket!Opens(i)))
          /\ WF_WebsocketVars(Fair("websocket", Websocket!Closes(i) \/ Websocket!Starves(i)))
    /\ WF_WebsocketVars(Fair("websocket", Websocket!Reconnects))
    /\ WF_WebsocketVars(Fair("websocket", Websocket!Restarts))
    /\ \A o \in Websocket!Outages : WF_WebsocketVars(Fair("websocket", Websocket!EndOutage(o)))
    /\ SF_StreamVars(Fair("stream", Stream!Capture(TRUE)))
    /\ SF_StreamVars(Fair("stream", Stream!Write))
    /\ WF_StreamVars(Fair("stream", Stream!Control))
    /\ WF_StreamVars(Fair("stream", Stream!Receive))
    /\ WF_StreamVars(Fair("stream", Stream!Dequeue))
    /\ WF_StreamVars(Fair("stream", Stream!Output))
    /\ WF_StreamVars(Fair("stream", Stream!Idle \/ Stream!Paint))
    /\ WF_StreamVars(Fair("stream", Stream!Joins))
    /\ WF_StreamVars(Fair("stream", Stream!ConnectStream))
    /\ WF_PlayerVars(Fair("player", Player!LoadingTimeout))
    /\ WF_PlayerVars(Fair("player", Player!ConnectionTimeout))
    /\ WF_PlayerVars(Fair("player", Player!Retry))
    /\ WF_PanelVars(Fair("panel", Panel!TimerFires))
    /\ WF_PanelVars(Fair("panel", Panel!Reload))
    /\ WF_PanelVars(Fair("panel", Panel!Served))
    /\ WF_PanelVars(Fair("panel", Panel!Ended))
    /\ WF_TerminalVars(Fair("terminal", Terminal!CloseLeft))
    /\ WF_TerminalVars(Fair("terminal", Terminal!Read))
    /\ WF_TerminalVars(Fair("terminal", Terminal!ReaderEnds))
    /\ WF_TerminalVars(Fair("terminal", Terminal!WriterEnds))
    /\ WF_TerminalVars(Fair("terminal", Terminal!Teardown))

Spec == Init /\ [][Next]_pageVars /\ Fairness

(****************************************************************************)
(* Properties: those of the parts, one name per concern.                      *)
(****************************************************************************)

(* The variables of the part that runs keep their types.                      *)
LinksTypeOK ==
    CASE part = "websocket" -> Websocket!WsTypeOK
      [] part = "stream" -> Stream!StreamTypeOK
      [] part = "player" -> Player!RtcTypeOK
      [] part = "panel" -> Panel!PanelTypeOK
      [] part = "feeds" -> Feed!FeedTypeOK
      [] part = "warning" -> Warning!WarningTypeOK
      [] part = "terminal" -> Terminal!TerminalTypeOK

(* What the page shows is so: no delta frame goes to a viewer whose           *)
(* predecessor was left out (server direct/client.go), the player warns of a  *)
(* failed connection only without one (h264-webrtc.tsx), and once nothing is  *)
(* under way a careful panel shows what the device has (menu/settings), as    *)
(* the overlays and lock keys do that the device tells of (ws/service.go).    *)
(* The warning of a stalled mouse is for absolute mice, and neither its       *)
(* recovery nor the menu leaves the input socket closed for good              *)
(* (hid-status). A page that is left has told picocom, which it shows, to     *)
(* exit (terminal).                                                           *)
ShownIsTrue ==
    /\ part = "stream" => Stream!DeltasFollow
    /\ part = "player" => Player!WarningIsTrue
    /\ part = "panel" => Panel!ShownIsTrue
    /\ part = "feeds" => Feed!FeedIsTrue
    /\ part = "warning" => Warning!WarningIsDue
    /\ part = "terminal" => Terminal!PortIsLeft

(* What waits comes to an end: the input socket is open again or no longer    *)
(* wanted, the WebRTC player has a picture or tries again, a panel that a     *)
(* request has locked unlocks, and a shell is killed whose page is gone or    *)
(* does not take what it writes                                               *)
(* (websocket.ts, h264-webrtc.tsx, menu/settings, server vm/terminal.go).     *)
NothingHangs ==
    /\ []<>(part = "websocket" => Websocket!Settled)
    /\ []<>(part = "player" => Player!Trying)
    /\ []<>(part = "panel" => Panel!Free)
    /\ []<>(part = "terminal" => ~Terminal!Abandoned)

(* Video (direct.worker.ts): as long as the page wants the direct stream,     *)
(* pictures go on being painted.                                              *)
PicturesGoOn ==
    \/ <>[](part = "stream" => Stream!Stopped)
    \/ []<><< part = "stream" /\ Stream!Paint >>_StreamVars

=============================================================================
