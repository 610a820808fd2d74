------------------------------ MODULE DirectStream ------------------------------
(* The direct H.264 stream: the queue that the server keeps for one viewer
   (server/service/stream/direct/client.go) and the worker of the page that
   decodes and paints (web/src/pages/desktop/screen/direct.worker.ts). Frames that
   are written are in flight until the worker acknowledges them, and no more than
   a window of them are; whoever has lost the thread asks for a new key frame. *)
EXTENDS Naturals, Sequences, SequencesExt

CONSTANTS
  Window,       \* flowControlWindow
  High, Low,    \* decoderHighWatermark, decoderLowWatermark
  Owed,         \* bound on the pictures that a decoder holds back
  StreamFaults  \* bound on the failures of network, decoder and canvas

VARIABLES
  conn,         \* the socket of the worker, and the client at its other end
  reconnect,    \* reconnectTimer is set
  stopped,      \* the page has let go of the worker
  frames, inFlight, waiting,   \* frameQueue; waiting is waitingForKeyframe
  linked,       \* the frame captured last is in the queue, or was written
  downlink, uplink,            \* what is on the way
  resync,       \* resyncRequested
  pending,      \* pendingAckTimestamp, or 0
  pressure,     \* decodeBackpressured
  decoder,      \* there is a decoder
  decoding,     \* decodeQueueSize
  decoded,      \* pictures the decoder owes
  pictures, rendering, flush,  \* frameQueue of the worker, rendering, flushScheduled
  flushes,      \* messages in frameChannel
  crowded,      \* other viewers want frames too
  streamFaults

server == <<frames, inFlight, waiting, linked>>
codec == <<pending, pressure, decoder, decoding, decoded, pictures, rendering, flush>>
streamVars == <<conn, reconnect, stopped, server, downlink, uplink, resync, codec, flushes,
                crowded, streamFaults>>

Frame(key, time) == [key |-> key, time |-> time, linked |-> key \/ linked]
Resync == 0      \* streamResyncMessage; any other message is an acknowledgement

StreamTypeOK ==
  /\ conn \in {"none", "connecting", "open"}
  /\ Len(frames) + Len(inFlight) <= Window
  /\ {decoding, decoded, flushes, pending} \subseteq Nat
  /\ pictures \in 0 .. 1
  /\ {reconnect, stopped, waiting, linked, resync, pressure, decoder, rendering, flush} \subseteq BOOLEAN

StreamInit ==
  /\ conn = "connecting" /\ reconnect = FALSE /\ stopped = FALSE
  /\ frames = <<>> /\ inFlight = <<>> /\ waiting = TRUE /\ linked = FALSE
  /\ downlink = <<>> /\ uplink = <<>>
  /\ resync = FALSE /\ pending = 0 /\ pressure = FALSE
  /\ decoder = FALSE /\ decoding = 0 /\ decoded = 0
  /\ pictures = 0 /\ rendering = FALSE /\ flush = FALSE /\ flushes = 0
  /\ crowded \in BOOLEAN
  /\ streamFaults = StreamFaults

-----------------------------------------------------------------------------
(* The server *)

\* canAdvanceStream
CanAdvance == Len(inFlight) + (IF waiting THEN 0 ELSE Len(frames)) < Window

\* Only the order of timestamps matters: each capture numbers anew those that the
\* state holds.
Times == {inFlight[i] : i \in DOMAIN inFlight} \union {frames[i].time : i \in DOMAIN frames}
         \union {downlink[i].time : i \in DOMAIN downlink} \union {uplink[i] : i \in DOMAIN uplink}
         \union {pending}
Rank(t) == Cardinality({s \in Times \ {0} : s <= t})
Ranked(F) == [i \in DOMAIN F |-> [F[i] EXCEPT !.time = Rank(@)]]
RankedTimes(T) == [i \in DOMAIN T |-> Rank(T[i])]

\* A frame that finds no room; those queued before it are worthless.
Refuse == frames' = <<>> /\ linked' = FALSE /\ waiting' = TRUE

\* Mutant of Offer: the window does not bind key frames.
OfferAnyway(key) ==
  LET frame == Frame(key, Cardinality(Times \ {0}) + 1)
      room == key \/ Len(inFlight) + Len(frames) < Window IN
  \/ ~key /\ waiting /\ frames' = Ranked(frames) /\ linked' = FALSE /\ UNCHANGED waiting
  \/ (key \/ ~waiting) /\ ~room /\ Refuse
  \/ /\ (key \/ ~waiting) /\ room
     /\ frames' = Append(IF key THEN <<>> ELSE Ranked(frames), frame)
     /\ waiting' = FALSE /\ linked' = TRUE

\* offer
Offer(key) ==
  LET frame == Frame(key, Cardinality(Times \ {0}) + 1)
      room == Len(inFlight) + (IF key THEN 0 ELSE Len(frames)) < Window IN
  \/ ~key /\ waiting /\ frames' = Ranked(frames) /\ linked' = FALSE /\ UNCHANGED waiting
  \/ (key \/ ~waiting) /\ ~room /\ Refuse
  \/ /\ (key \/ ~waiting) /\ room
     /\ frames' = Append(IF key THEN <<>> ELSE Ranked(frames), frame)
     /\ waiting' = FALSE /\ linked' = TRUE

\* A tick of run that reads a frame: one of the viewers has to want it.
Capture(key) ==
  /\ conn = "open" /\ (CanAdvance \/ crowded)
  /\ Offer(key)
  /\ inFlight' = RankedTimes(inFlight) /\ downlink' = Ranked(downlink)
  /\ uplink' = RankedTimes(uplink) /\ pending' = Rank(pending)
  /\ UNCHANGED <<conn, reconnect, stopped, resync, pressure, decoder, decoding, decoded,
                 pictures, rendering, flush, flushes, crowded, streamFaults>>

\* writeLoop and popForWrite
Write ==
  /\ conn = "open" /\ frames # <<>>
  /\ downlink' = Append(downlink, Head(frames)) /\ frames' = Tail(frames)
  /\ inFlight' = Append(inFlight, Head(frames).time)
  /\ UNCHANGED <<conn, reconnect, stopped, waiting, linked, uplink, resync, codec, flushes,
                 crowded, streamFaults>>

\* acknowledge: the frames up to that time leave the window.
Acknowledge(time) ==
  \E n \in 0 .. Len(inFlight) :
     /\ \A i \in 1 .. n : inFlight[i] <= time
     /\ n < Len(inFlight) => inFlight[n + 1] > time
     /\ inFlight' = SubSeq(inFlight, n + 1, Len(inFlight))

\* requestResync: the queue waits for a key frame.
RequestResync ==
  /\ frames' = <<>> /\ inFlight' = <<>> /\ waiting' = TRUE
  /\ linked' = (linked /\ frames = <<>>)

\* handleControl
Control ==
  /\ uplink # <<>> /\ uplink' = Tail(uplink)
  /\ \/ Head(uplink) = Resync /\ RequestResync
     \/ /\ Head(uplink) # Resync
        /\ Acknowledge(Head(uplink))
        /\ UNCHANGED <<frames, waiting, linked>>
  /\ UNCHANGED <<conn, reconnect, stopped, downlink, resync, codec, flushes, crowded, streamFaults>>

-----------------------------------------------------------------------------
(* The worker *)

\* requestStreamResync
SendResync == resync' = TRUE /\ uplink' = IF resync THEN uplink ELSE Append(uplink, Resync)

\* Mutant of ResetDecoder: a picture seems to be on its way to the canvas.
ResetButRendering ==
  /\ decoder' = FALSE /\ decoding' = 0 /\ decoded' = 0
  /\ pending' = 0 /\ pressure' = FALSE
  /\ pictures' = 0 /\ flush' = FALSE /\ UNCHANGED rendering

\* resetDecoder
ResetDecoder ==
  /\ decoder' = FALSE /\ decoding' = 0 /\ decoded' = 0
  /\ pending' = 0 /\ pressure' = FALSE
  /\ pictures' = 0 /\ rendering' = FALSE /\ flush' = FALSE

Fault == streamFaults > 0 /\ streamFaults' = streamFaults - 1

\* releaseDecodeBackpressure, with time as the timestamp to acknowledge.
Release(time) ==
  IF time = 0 \/ (pressure' /\ decoding' > Low)
  THEN pending' = time /\ UNCHANGED uplink
  ELSE pending' = 0 /\ uplink' = Append(uplink, time)

\* decode and handleWsMessage: the first frame of a decoder is a key frame.
Decode(frame) ==
  /\ decoder \/ frame.key
  /\ decoder' = TRUE
  /\ decoding' = decoding + 1
  /\ LET full == pressure \/ decoding' >= High IN
       \/ /\ full /\ decoding' > Low /\ pressure' = TRUE
          /\ pending' = frame.time /\ UNCHANGED uplink
       \/ /\ ~(full /\ decoding' > Low) /\ pressure' = FALSE
          /\ pending' = 0 /\ uplink' = Append(uplink, frame.time)
  /\ resync' = (resync /\ decoder)
  /\ UNCHANGED <<decoded, pictures, rendering, flush, streamFaults>>

\* There is no decoder for the frame: another key frame has to come.
Miss(frame) ==
  /\ ~decoder /\ ~frame.key
  /\ SendResync
  /\ UNCHANGED <<codec, streamFaults>>

\* createDecoder fails, or decode throws.
Reject(frame) ==
  /\ Fault
  /\ \/ ~decoder /\ frame.key /\ resync' = TRUE /\ uplink' = Append(uplink, Resync) /\ UNCHANGED codec
     \/ decoder /\ SendResync /\ ResetDecoder

\* handleWsMessage
Receive ==
  /\ downlink # <<>> /\ downlink' = Tail(downlink)
  /\ Decode(Head(downlink)) \/ Miss(Head(downlink)) \/ Reject(Head(downlink))
  /\ UNCHANGED <<conn, reconnect, stopped, server, flushes, crowded>>

\* ondequeue: the decoder takes a frame up.
Dequeue ==
  /\ decoding > 0 /\ decoding' = decoding - 1
  /\ decoded < Owed /\ decoded' = decoded + 1
  /\ pressure' = (pressure /\ (pending = 0 \/ decoding' > Low))
  /\ Release(pending)
  /\ UNCHANGED <<conn, reconnect, stopped, server, downlink, resync, decoder, pictures, rendering,
                 flush, flushes, crowded, streamFaults>>

\* handleDecodedFrame: the picture replaces one that waits.
Output ==
  /\ decoded > 0 /\ decoded' = decoded - 1
  /\ pictures' = 1 /\ rendering' = TRUE
  /\ flush' = (flush \/ ~rendering)
  /\ flushes' = IF ~rendering /\ ~flush THEN flushes + 1 ELSE flushes
  /\ UNCHANGED <<conn, reconnect, stopped, server, downlink, uplink, resync, pending, pressure,
                 decoder, decoding, crowded, streamFaults>>

\* The error callback of the decoder.
DecoderFails ==
  /\ decoder /\ Fault
  /\ SendResync /\ ResetDecoder
  /\ UNCHANGED <<conn, reconnect, stopped, server, downlink, flushes, crowded>>

\* processFrameQueue finds no picture, or one that the canvas takes.
Flushed ==
  /\ flushes > 0 /\ flushes' = flushes - 1
  /\ flush' = FALSE /\ rendering' = FALSE /\ pictures' = 0
  /\ UNCHANGED <<conn, reconnect, stopped, server, downlink, uplink, resync, pending, pressure,
                 decoder, decoding, decoded, crowded, streamFaults>>
Idle == pictures = 0 /\ Flushed
Paint == pictures = 1 /\ Flushed

\* renderFrame throws.
PaintFails ==
  /\ flushes > 0 /\ pictures = 1 /\ Fault
  /\ flushes' = flushes - 1
  /\ SendResync /\ ResetDecoder
  /\ UNCHANGED <<conn, reconnect, stopped, server, downlink, crowded>>

-----------------------------------------------------------------------------
(* The connection *)

\* The viewer joins: newClient and enableFlowControl; onopen.
Joins ==
  /\ conn = "connecting" /\ conn' = "open"
  /\ frames' = <<>> /\ inFlight' = <<>> /\ waiting' = TRUE /\ linked' = FALSE
  /\ resync' = FALSE /\ pending' = 0 /\ pressure' = FALSE
  /\ UNCHANGED <<reconnect, stopped, downlink, uplink, decoder, decoding, decoded, pictures,
                 rendering, flush, flushes, crowded, streamFaults>>

Disconnected ==
  /\ conn' = "none"
  /\ frames' = <<>> /\ inFlight' = <<>> /\ UNCHANGED <<waiting, linked>>
  /\ downlink' = <<>> /\ uplink' = <<>>
  /\ ResetDecoder

\* onclose and scheduleReconnect
Breaks ==
  /\ conn # "none" /\ Fault
  /\ Disconnected
  /\ resync' = FALSE
  /\ reconnect' = TRUE
  /\ UNCHANGED <<stopped, flushes, crowded>>

\* The timer of scheduleReconnect; a socket may not even be created.
ConnectStream ==
  /\ reconnect
  /\ \/ reconnect' = FALSE /\ conn' = "connecting" /\ UNCHANGED streamFaults
     \/ Fault /\ UNCHANGED <<reconnect, conn>>
  /\ UNCHANGED <<stopped, server, downlink, uplink, resync, codec, flushes, crowded>>

\* The worker is told to stop, and is terminated.
Stop ==
  /\ ~stopped /\ stopped' = TRUE
  /\ reconnect' = FALSE
  /\ Disconnected
  /\ flushes' = 0
  /\ UNCHANGED <<resync, crowded, streamFaults>>

StreamNext ==
  \/ Capture(TRUE) \/ Capture(FALSE) \/ Write \/ Control
  \/ Receive \/ Dequeue \/ Output \/ DecoderFails \/ Idle \/ Paint \/ PaintFails
  \/ Joins \/ Breaks \/ ConnectStream \/ Stop

\* The encoder makes a key frame now and then, and the writer, woken by each frame,
\* gets to run between two ticks; everything else goes on by itself.
StreamFairness ==
  /\ SF_streamVars(Capture(TRUE))
  /\ SF_streamVars(Write) /\ WF_streamVars(Control)
  /\ WF_streamVars(Receive) /\ WF_streamVars(Dequeue)
  /\ WF_streamVars(Output) /\ WF_streamVars((Idle \/ Paint))
  /\ WF_streamVars(Joins) /\ WF_streamVars(ConnectStream)

StreamSpec == StreamInit /\ [][StreamNext]_streamVars /\ StreamFairness

-----------------------------------------------------------------------------
(* Properties *)

\* A delta frame that goes to the viewer was captured right after the frame that
\* goes before it: the queue never leaves out a frame and carries on without a new
\* key frame (offer, requestResync).
DeltasFollow == \A f \in ToSet(frames \o downlink) : f.linked

\* As long as the page wants the stream, pictures go on being painted: whatever
\* fails, the window opens again, a key frame comes, and the canvas is flushed.
Stopped == stopped
PicturesGoOn == <>[]Stopped \/ []<><<Paint>>_streamVars
=============================================================================
