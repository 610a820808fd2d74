------------------------------ MODULE WebrtcPlayer ------------------------------
(* The WebRTC picture (web/src/pages/desktop/screen/h264-webrtc.tsx): attempts,
   each with a signaling socket, a peer connection and two timers of its own, and
   the retry that ends one attempt and begins the next. The server and the media
   path are the network: they answer, or do not. *)
EXTENDS Naturals

CONSTANT RtcFaults   \* bound on what goes wrong

VARIABLES
  signaling,   \* the socket: "connecting", "open", "closed"
  peer,        \* video and its signaling state
  link,        \* its connectionState
  comes,       \* messages of the server on their way
  queued,      \* videoIceCandidates is not empty
  reachable,   \* the peer has a candidate it can use
  loading,     \* loadingTimer is set
  limit,       \* connectionTimeoutTimer is set
  retry,       \* reconnectTimer is set
  warned,      \* the notification is shown
  shown,       \* the component is mounted
  rtcFaults

attempt == <<signaling, peer, link, comes, queued, reachable, loading, limit>>
rtcVars == <<attempt, retry, warned, shown, rtcFaults>>

RtcTypeOK ==
  /\ signaling \in {"connecting", "open", "closed"}
  /\ peer \in {"none", "new", "have-local-offer", "answering", "stable"}
  /\ link \in {"new", "connected", "failed"}
  /\ comes \subseteq {"ice-servers", "video-answer", "video-candidate"}
  /\ {queued, reachable, loading, limit, retry, warned, shown} \subseteq BOOLEAN

RtcInit ==
  /\ signaling = "connecting" /\ peer = "none" /\ link = "new" /\ comes = {}
  /\ queued = FALSE /\ reachable = FALSE /\ loading = TRUE /\ limit = TRUE
  /\ retry = FALSE /\ warned = FALSE /\ shown = TRUE
  /\ rtcFaults = RtcFaults

RtcFault == rtcFaults > 0 /\ rtcFaults' = rtcFaults - 1

\* scheduleReconnect
ScheduleRetry == retry' = TRUE /\ warned' = TRUE

-----------------------------------------------------------------------------

\* onopen; the server says which ICE servers there are.
SignalingOpens ==
  /\ signaling = "connecting" /\ signaling' = "open"
  /\ comes' = comes \union {"ice-servers"}
  /\ UNCHANGED <<peer, link, queued, reachable, loading, limit, retry, warned, shown, rtcFaults>>

\* onerror and onclose; what was on its way is lost.
SignalingFails ==
  /\ shown /\ signaling # "closed" /\ signaling' = "closed" /\ comes' = {}
  /\ RtcFault /\ ScheduleRetry
  /\ UNCHANGED <<peer, link, queued, reachable, loading, limit, shown>>

\* startVideo
StartVideo ==
  /\ "ice-servers" \in comes /\ comes' = comes \ {"ice-servers"}
  /\ peer' = IF peer = "none" THEN "new" ELSE peer
  /\ UNCHANGED <<signaling, link, queued, reachable, loading, limit, retry, warned, shown, rtcFaults>>

\* onnegotiationneeded: the offer is sent, unless the socket is gone.
Negotiate ==
  /\ peer = "new"
  /\ \/ /\ peer' = "have-local-offer"
        /\ comes' = IF signaling = "open" THEN comes \union {"video-answer", "video-candidate"} ELSE comes
        /\ UNCHANGED <<retry, warned, rtcFaults>>
     \/ RtcFault /\ ScheduleRetry /\ UNCHANGED <<peer, comes>>
  /\ UNCHANGED <<signaling, link, queued, reachable, loading, limit, shown>>

\* handleVideoAnswer, and what setRemoteDescription comes to.
Answer ==
  /\ "video-answer" \in comes /\ comes' = comes \ {"video-answer"}
  /\ peer' = IF peer = "have-local-offer" THEN "answering" ELSE peer
  /\ UNCHANGED <<signaling, link, queued, reachable, loading, limit, retry, warned, shown, rtcFaults>>

Answered ==
  /\ peer = "answering"
  /\ \/ /\ peer' = "stable" /\ queued' = FALSE /\ reachable' = (reachable \/ queued)
        /\ UNCHANGED <<retry, warned, rtcFaults>>
     \/ /\ peer' = "have-local-offer" /\ RtcFault /\ ScheduleRetry
        /\ UNCHANGED <<queued, reachable>>
  /\ UNCHANGED <<signaling, link, comes, loading, limit, shown>>

\* handleVideoCandidate: one that comes before the answer waits for it.
Candidate ==
  /\ "video-candidate" \in comes /\ comes' = comes \ {"video-candidate"}
  /\ IF peer = "stable" THEN reachable' = TRUE /\ UNCHANGED queued
     ELSE queued' = TRUE /\ UNCHANGED reachable
  /\ UNCHANGED <<signaling, peer, link, loading, limit, retry, warned, shown, rtcFaults>>

\* onconnectionstatechange
Connected ==
  /\ peer = "stable" /\ reachable /\ link # "connected" /\ link' = "connected"
  /\ retry' = FALSE /\ warned' = FALSE
  /\ UNCHANGED <<signaling, peer, comes, queued, reachable, loading, limit, shown, rtcFaults>>

PeerFails ==
  /\ peer \in {"have-local-offer", "answering", "stable"} /\ link # "failed" /\ link' = "failed"
  /\ RtcFault /\ ScheduleRetry
  /\ UNCHANGED <<signaling, peer, comes, queued, reachable, loading, limit, shown>>

-----------------------------------------------------------------------------

\* loadingTimer, after 5 seconds
LoadingTimeout ==
  /\ shown /\ loading /\ loading' = FALSE
  /\ warned' = (warned \/ link # "connected")
  /\ UNCHANGED <<signaling, peer, link, comes, queued, reachable, limit, retry, shown, rtcFaults>>

\* connectionTimeoutTimer, after 10
ConnectionTimeout ==
  /\ shown /\ limit /\ ~loading /\ limit' = FALSE
  /\ IF link # "connected" THEN ScheduleRetry ELSE UNCHANGED <<retry, warned>>
  /\ UNCHANGED <<signaling, peer, link, comes, queued, reachable, loading, shown, rtcFaults>>

\* reconnectTimer: the cleanup of this attempt, and the next one.
Retry ==
  /\ shown /\ retry /\ retry' = FALSE
  /\ signaling' = "connecting" /\ peer' = "none" /\ link' = "new" /\ comes' = {}
  /\ queued' = FALSE /\ reachable' = FALSE /\ loading' = TRUE /\ limit' = TRUE
  /\ UNCHANGED <<warned, shown, rtcFaults>>

\* The component goes, and its attempt and notification with it.
Unmount ==
  /\ shown /\ shown' = FALSE
  /\ signaling' = "closed" /\ peer' = "none" /\ link' = "new" /\ comes' = {}
  /\ queued' = FALSE /\ reachable' = FALSE /\ loading' = FALSE /\ limit' = FALSE
  /\ retry' = FALSE /\ warned' = FALSE
  /\ UNCHANGED rtcFaults

RtcNext ==
  \/ SignalingOpens \/ SignalingFails \/ StartVideo \/ Negotiate \/ Answer \/ Answered \/ Candidate
  \/ Connected \/ PeerFails \/ LoadingTimeout \/ ConnectionTimeout \/ Retry \/ Unmount

\* Nothing but the timers is sure to happen.
RtcFairness ==
  /\ WF_rtcVars(LoadingTimeout)
  /\ WF_rtcVars(ConnectionTimeout)
  /\ WF_rtcVars(Retry)

RtcSpec == RtcInit /\ [][RtcNext]_rtcVars /\ RtcFairness

-----------------------------------------------------------------------------
(* Properties *)

\* The warning that there is no picture is shown only while there is none, or
\* while a retry is due that will take it away (showConnectionFailureNotification).
WarningIsTrue == warned => link # "connected" \/ retry

\* The player never comes to rest without a picture: an attempt is followed by
\* another one for as long as it does not connect, whatever step it fails at.
Trying == ~shown \/ link = "connected" \/ signaling = "connecting"
NeverGivesUp == []<>Trying
=============================================================================
