---------------------------- MODULE WebLinksProofs ----------------------------
(****************************************************************************)
(* Theorems about the links of the page to the device, for any values of the  *)
(* constants that MCWebLinks admits, its bounds included: input socket, both  *)
(* players, settings panels, status feeds, the warning of a stalled mouse and *)
(* the terminal.  Laid out as those of WebInputProofs.                        *)
(****************************************************************************)
EXTENDS MCWebLinks, Sequences, FiniteSetTheorems, TLAPS

-------------------------------------------------------------------------------
(******************************************************************************)
(* Input socket.                                                              *)
(* s1, s2, ... are its socket, instance, beating, timer, stray, wanted,       *)
(* mounted, relative, restart, outage, wsClicks, wsFaults.                    *)
(******************************************************************************)

\* The types, flags apart.
WsFlags ==
  /\ s3 \in BOOLEAN /\ s4 \in BOOLEAN /\ s6 \in BOOLEAN
  /\ s7 \in BOOLEAN /\ s8 \in BOOLEAN /\ s9 \in BOOLEAN
WsSockets ==
  /\ s1 \in [SocketIds -> {"closed", "connecting", "open", "closing"}]
  /\ s2 \in SocketIds \union {0}
  /\ s5 \in 0 .. MaxStray
  /\ s10 \subseteq Websocket!Outages

(* The types of the socket, in two parts. *)
LEMMA WsTypes == Websocket!WsTypeOK <=> WsFlags /\ WsSockets
  BY DEF Websocket!WsTypeOK, WsFlags, WsSockets

(* They hold when the page has connected. *)
LEMMA WsStarts == Websocket!WsInit => WsFlags /\ WsSockets
  <1>1. Websocket!WsInit => WsFlags
    BY DEF Websocket!WsInit, WsFlags
  <1>2. Websocket!WsInit => WsSockets
    BY WsAssumption DEF Websocket!WsInit, WsSockets
  <1> QED
    BY <1>1, <1>2

\* The three ways in which the client changes its socket.
LEMMA ClientTypes ==
  ASSUME WsFlags, WsSockets
  PROVE  /\ Websocket!CreateConnection /\ s5' \in 0 .. MaxStray /\ UNCHANGED s10 => WsSockets'
         /\ Websocket!CloseClient /\ s10' \subseteq Websocket!Outages => WsSockets'
         /\ \A i \in SocketIds : Websocket!HandleClose(i) /\ UNCHANGED s10
               => WsSockets' /\ s3' \in BOOLEAN /\ s4' \in BOOLEAN /\ s6' = s6
  <1>1. ASSUME Websocket!CreateConnection, s5' \in 0 .. MaxStray, UNCHANGED s10
        PROVE  WsSockets'
    BY <1>1 DEF Websocket!CreateConnection, WsSockets
  <1>2. ASSUME Websocket!CloseClient, s10' \subseteq Websocket!Outages
        PROVE  WsSockets'
    BY <1>2 DEF Websocket!CloseClient, WsSockets
  <1>3. ASSUME NEW i \in SocketIds, Websocket!HandleClose(i), UNCHANGED s10
        PROVE  WsSockets' /\ s3' \in BOOLEAN /\ s4' \in BOOLEAN /\ s6' = s6
    <2>1. Websocket!ScheduleReconnect /\ s3' \in BOOLEAN /\ s6' = s6 /\ s2' = s2
      BY <1>3 DEF Websocket!HandleClose
    <2>2. s4' \in BOOLEAN
      BY <2>1, Zenon DEF Websocket!ScheduleReconnect, WsFlags
    <2>3. s5' = s5 \/ (s5 < MaxStray /\ s5' = s5 + 1)
      BY <2>1, Zenon DEF Websocket!ScheduleReconnect
    <2>4. s5' \in 0 .. MaxStray
      BY <2>3, WsAssumption DEF WsSockets
    <2>5. s1' \in [SocketIds -> {"closed", "connecting", "open", "closing"}]
      BY <1>3 DEF Websocket!HandleClose, WsSockets
    <2> QED
      BY <1>3, <2>1, <2>2, <2>4, <2>5 DEF WsSockets
  <1> QED
    BY <1>1, <1>2, <1>3, Zenon

(* Every click, fault, heartbeat and reconnection keeps them. *)
LEMMA WsKeeps ==
  ASSUME WsFlags, WsSockets, [Websocket!WsNext]_(Websocket!wsVars)
  PROVE  WsFlags' /\ WsSockets'
  <1>1. ASSUME NEW i \in SocketIds,
               Websocket!Opens(i) \/ Websocket!Closes(i) \/ Websocket!Starves(i) \/ Websocket!Fails(i)
                 \/ Websocket!Expires(i)
        PROVE  WsFlags' /\ WsSockets'
    <2>1. CASE Websocket!Opens(i)
      <3>1. WsSockets'
        BY <2>1 DEF Websocket!Opens, WsSockets
      <3> QED
        BY <2>1, <3>1 DEF Websocket!Opens, WsFlags
    <2>2. CASE Websocket!Expires(i)
      <3>1. WsSockets'
        BY <2>2 DEF Websocket!Expires, WsSockets
      <3> QED
        BY <2>2, <3>1 DEF Websocket!Expires, WsFlags
    <2>3. CASE Websocket!HandleClose(i) /\ UNCHANGED << s7, s8, s9, s10 >>
      BY <2>3, ClientTypes DEF WsFlags
    <2> QED
      BY <1>1, <2>1, <2>2, <2>3, Zenon DEF Websocket!Closes, Websocket!Starves, Websocket!Fails
  <1>2. CASE Websocket!Reconnects
    <2>1. s5' \in 0 .. MaxStray
      BY <1>2, WsAssumption DEF Websocket!Reconnects, WsSockets
    <2>2. Websocket!CreateConnection /\ UNCHANGED << s6, s7, s8, s9, s10 >>
      BY <1>2 DEF Websocket!Reconnects
    <2> QED
      BY <2>1, <2>2, ClientTypes DEF Websocket!CreateConnection, WsFlags
  <1>3. CASE Websocket!Connect /\ s7' \in BOOLEAN /\ s9' \in BOOLEAN /\ UNCHANGED << s8, s10 >>
    BY <1>3, ClientTypes DEF Websocket!Connect, Websocket!CreateConnection, WsFlags, WsSockets
  <1>4. CASE /\ Websocket!CloseClient /\ s7' \in BOOLEAN /\ s8' \in BOOLEAN /\ s9' \in BOOLEAN
             /\ s10' \subseteq Websocket!Outages
    BY <1>4, ClientTypes DEF Websocket!CloseClient, WsFlags
  <1>5. CASE Websocket!ChooseAbsolute
    BY <1>5 DEF Websocket!ChooseAbsolute, Websocket!client, WsFlags, WsSockets
  <1>6. CASE Websocket!Comes \/ Websocket!Restarts
    BY <1>3, <1>6, Zenon DEF Websocket!Comes, Websocket!Restarts, WsFlags
  <1>7. CASE Websocket!Leaves \/ Websocket!ChooseRelative
    BY <1>4, <1>7, Zenon DEF Websocket!Leaves, Websocket!ChooseRelative, WsFlags, WsSockets
  <1>8. ASSUME NEW o \in Websocket!Outages, Websocket!BeginOutage(o)
        PROVE  WsFlags' /\ WsSockets'
    BY <1>4, <1>8 DEF Websocket!BeginOutage, WsFlags, WsSockets
  <1>9. ASSUME NEW o \in Websocket!Outages, Websocket!EndOutage(o)
        PROVE  WsFlags' /\ WsSockets'
    <2>1. Websocket!Connect /\ UNCHANGED << s7, s8, s9 >> /\ s10' \subseteq s10
      BY <1>9 DEF Websocket!EndOutage
    <2>2. WsSockets'
      BY <2>1 DEF Websocket!Connect, Websocket!CreateConnection, WsSockets
    <2> QED
      BY <2>1, <2>2 DEF Websocket!Connect, Websocket!CreateConnection, WsFlags
  <1>10. CASE UNCHANGED Websocket!wsVars
    BY <1>10 DEF Websocket!wsVars, Websocket!client, WsFlags, WsSockets
  <1> QED
    BY <1>1, <1>2, <1>5, <1>6, <1>7, <1>8, <1>9, <1>10, Zenon DEF Websocket!WsNext

(* The client has one socket or none, and no more strays than the model has   *)
(* room for, whatever closes, fails and is asked for again (websocket.ts).    *)
THEOREM SocketHolds == Websocket!WsSpec => []Websocket!WsTypeOK
  <1>1. WsFlags /\ WsSockets /\ [Websocket!WsNext]_(Websocket!wsVars) => (WsFlags /\ WsSockets)'
    BY WsKeeps, Zenon
  <1> QED
    BY <1>1, WsStarts, WsTypes, PTL DEF Websocket!WsSpec

-------------------------------------------------------------------------------
(******************************************************************************)
(* Direct stream.                                                             *)
(* s1, s2, ... are its conn, reconnect, stopped, frames, inFlight, waiting,   *)
(* linked, downlink, uplink, resync, pending, pressure, decoder, decoding,    *)
(* decoded, pictures, rendering, flush, flushes, crowded, streamFaults.       *)
(******************************************************************************)

StreamFrames == [key : BOOLEAN, time : Nat, linked : {TRUE}]

\* Every frame of the queue and on the way has its predecessor before it.
StreamSequences ==
  /\ s4 \in Seq(StreamFrames) /\ s8 \in Seq(StreamFrames)
  /\ s5 \in Seq(Nat) /\ s9 \in Seq(Nat)
StreamWindow == Len(s4) + Len(s5) <= Window
\* A queue that takes delta frames has the newest frame, or has sent it.
QueueIsLinked == ~s6 => s7
StreamNumbers ==
  /\ s11 \in Nat /\ s14 \in Nat /\ s15 \in Nat /\ s19 \in Nat /\ s16 \in 0 .. 1
StreamFlags ==
  /\ s2 \in BOOLEAN /\ s3 \in BOOLEAN /\ s6 \in BOOLEAN /\ s7 \in BOOLEAN /\ s10 \in BOOLEAN
  /\ s12 \in BOOLEAN /\ s13 \in BOOLEAN /\ s17 \in BOOLEAN /\ s18 \in BOOLEAN
  /\ s1 \in {"none", "connecting", "open"}

StreamInv == StreamSequences /\ StreamWindow /\ QueueIsLinked /\ StreamNumbers /\ StreamFlags

(* The model counts with the library's cardinality. *)
LEMMA SameStreamCardinality == \A S : Stream!Cardinality(S) = Cardinality(S)
  BY Zenon DEF Stream!Cardinality, Cardinality

(* Of the times that frames carry there are finitely many, ... *)
LEMMA TimesFinite ==
  ASSUME StreamSequences
  PROVE  IsFiniteSet(Stream!Times \ {0})
  <1>1. ASSUME NEW S, NEW s \in Seq(S)
        PROVE  IsFiniteSet({s[i] : i \in DOMAIN s})
    <2>1. IsFiniteSet(DOMAIN s)
      <3>1. DOMAIN s = 1 .. Len(s) /\ Len(s) \in Int
        BY <1>1
      <3> QED
        BY <3>1, FS_Interval
    <2>2. s \in Surjection(DOMAIN s, {s[i] : i \in DOMAIN s})
      BY <1>1 DEF Surjection
    <2> QED
      BY <2>1, <2>2, FS_Surjection
  <1>2. ASSUME NEW s \in Seq(StreamFrames)
        PROVE  IsFiniteSet({s[i].time : i \in DOMAIN s})
    <2> DEFINE f == [i \in DOMAIN s |-> s[i].time]
    <2>1. IsFiniteSet(DOMAIN s)
      <3>1. DOMAIN s = 1 .. Len(s) /\ Len(s) \in Int
        BY <1>2
      <3> QED
        BY <3>1, FS_Interval
    <2>2. f \in Surjection(DOMAIN s, {s[i].time : i \in DOMAIN s})
      BY <1>2 DEF Surjection
    <2> QED
      BY <2>1, <2>2, FS_Surjection
  <1>3. IsFiniteSet(Stream!Times)
    <2>1. /\ IsFiniteSet({s5[i] : i \in DOMAIN s5}) /\ IsFiniteSet({s9[i] : i \in DOMAIN s9})
          /\ IsFiniteSet({s4[i].time : i \in DOMAIN s4}) /\ IsFiniteSet({s8[i].time : i \in DOMAIN s8})
      BY <1>1, <1>2 DEF StreamSequences
    <2>2. IsFiniteSet({s11})
      BY FS_Singleton
    <2> QED
      BY <2>1, <2>2, FS_Union DEF Stream!Times
  <1> QED
    BY <1>3, FS_Subset

(* ... so a time is replaced by a number: how many are not later, ... *)
LEMMA RanksAreNumbers ==
  ASSUME StreamSequences
  PROVE  /\ \A t : Stream!Rank(t) \in Nat
         /\ Stream!Cardinality(Stream!Times \ {0}) \in Nat
  <1>1. ASSUME NEW t
        PROVE  Stream!Rank(t) \in Nat
    <2>1. IsFiniteSet({s \in Stream!Times \ {0} : s <= t})
      BY TimesFinite, FS_Subset
    <2> QED
      BY <2>1, SameStreamCardinality, FS_CardinalityType DEF Stream!Rank
  <1> QED
    BY <1>1, TimesFinite, SameStreamCardinality, FS_CardinalityType

(* ... and the queues stay queues of frames, as long as they were. *)
LEMMA RankedTypes ==
  ASSUME StreamSequences
  PROVE  /\ \A F \in Seq(StreamFrames) : Stream!Ranked(F) \in Seq(StreamFrames) /\ Len(Stream!Ranked(F)) = Len(F)
         /\ \A T \in Seq(Nat) : Stream!RankedTimes(T) \in Seq(Nat) /\ Len(Stream!RankedTimes(T)) = Len(T)
  <1>1. ASSUME NEW F \in Seq(StreamFrames)
        PROVE  Stream!Ranked(F) \in Seq(StreamFrames) /\ Len(Stream!Ranked(F)) = Len(F)
    <2>1. DOMAIN F = 1 .. Len(F) /\ Len(F) \in Nat
      BY <1>1
    <2>2. \A i \in 1 .. Len(F) : [F[i] EXCEPT !.time = Stream!Rank(@)] \in StreamFrames
      <3> TAKE i \in 1 .. Len(F)
      <3>1. F[i] \in StreamFrames
        BY <1>1
      <3> QED
        BY <3>1, RanksAreNumbers DEF StreamFrames
    <2>3. Stream!Ranked(F) = [i \in 1 .. Len(F) |-> [F[i] EXCEPT !.time = Stream!Rank(@)]]
      BY <2>1, Zenon DEF Stream!Ranked
    <2> DEFINE R == Stream!Ranked(F)
    <2>4. R \in [1 .. Len(F) -> StreamFrames]
      BY <2>2, <2>3
    <2> HIDE DEF R
    <2>5. R \in Seq(StreamFrames) /\ Len(R) = Len(F)
      BY <2>1, <2>4
    <2> QED
      BY <2>5 DEF R
  <1>2. ASSUME NEW T \in Seq(Nat)
        PROVE  Stream!RankedTimes(T) \in Seq(Nat) /\ Len(Stream!RankedTimes(T)) = Len(T)
    <2>1. DOMAIN T = 1 .. Len(T) /\ Len(T) \in Nat
      BY <1>2
    <2>2. Stream!RankedTimes(T) = [i \in 1 .. Len(T) |-> Stream!Rank(T[i])]
      BY <2>1, Zenon DEF Stream!RankedTimes
    <2> DEFINE R == Stream!RankedTimes(T)
    <2>3. R \in [1 .. Len(T) -> Nat]
      BY <2>2, RanksAreNumbers
    <2> HIDE DEF R
    <2>4. R \in Seq(Nat) /\ Len(R) = Len(T)
      BY <2>1, <2>3
    <2> QED
      BY <2>4 DEF R
  <1> QED
    BY <1>1, <1>2

(* The invariant of the stream holds before the page connects. *)
LEMMA StreamStarts == Stream!StreamInit => StreamInv
  <1> SUFFICES ASSUME Stream!StreamInit PROVE StreamInv
    OBVIOUS
  <1>1. StreamFlags /\ QueueIsLinked
    BY DEF Stream!StreamInit, StreamFlags, QueueIsLinked
  <1>2. StreamNumbers
    BY DEF Stream!StreamInit, StreamNumbers
  <1>3. StreamSequences /\ StreamWindow
    BY StreamAssumption DEF Stream!StreamInit, StreamSequences, StreamWindow
  <1> QED
    BY <1>1, <1>2, <1>3 DEF StreamInv

\* A frame is offered to the queue.
LEMMA OfferTypes ==
  ASSUME StreamInv, NEW key \in BOOLEAN, Stream!Offer(key)
  PROVE  /\ s4' \in Seq(StreamFrames) /\ Len(s4') + Len(s5) <= Window
         /\ QueueIsLinked' /\ s6' \in BOOLEAN /\ s7' \in BOOLEAN
  <1> DEFINE frame == Stream!Frame(key, Stream!Cardinality(Stream!Times \ {0}) + 1)
             room == Len(s5) + (IF key THEN 0 ELSE Len(s4)) < Window
             G == Stream!Ranked(s4)
  <1>1. /\ s4 \in Seq(StreamFrames) /\ s5 \in Seq(Nat) /\ Len(s4) \in Nat /\ Len(s5) \in Nat
        /\ Len(s4) + Len(s5) <= Window
    BY DEF StreamInv, StreamSequences, StreamWindow
  <1>2. G \in Seq(StreamFrames) /\ Len(G) = Len(s4)
    BY <1>1, RankedTypes DEF StreamInv
  <1>3. \/ ~key /\ s6 /\ s4' = G /\ s7' = FALSE /\ s6' = s6
        \/ (key \/ ~s6) /\ ~room /\ s4' = <<>> /\ s7' = FALSE /\ s6' = TRUE
        \/ (key \/ ~s6) /\ room /\ s4' = Append(IF key THEN <<>> ELSE G, frame) /\ s6' = FALSE /\ s7' = TRUE
    BY Zenon DEF Stream!Offer, Stream!Refuse
  <1>4. key \/ ~s6 => frame \in StreamFrames
    <2>1. key \/ ~s6 => (key \/ s7) = TRUE
      BY Zenon DEF StreamInv, QueueIsLinked, StreamFlags
    <2> DEFINE n == Stream!Cardinality(Stream!Times \ {0}) + 1
    <2>2. n \in Nat
      BY RanksAreNumbers DEF StreamInv
    <2>3. frame = [key |-> key, time |-> n, linked |-> key \/ s7]
      BY Zenon DEF Stream!Frame
    <2> HIDE DEF frame, n
    <2>4. key \/ ~s6 => frame = [key |-> key, time |-> n, linked |-> TRUE]
      BY <2>1, <2>3, Zenon
    <2>5. [key |-> key, time |-> n, linked |-> TRUE] \in StreamFrames
      BY <2>2 DEF StreamFrames
    <2> QED
      BY <2>4, <2>5, Zenon
  <1> HIDE DEF frame, G
  <1>5. QueueIsLinked' /\ s6' \in BOOLEAN /\ s7' \in BOOLEAN
    BY <1>3, Zenon DEF StreamInv, QueueIsLinked, StreamFlags
  <1>6. s4' \in Seq(StreamFrames) /\ Len(s4') + Len(s5) <= Window
    <2>1. CASE s4' = G
      BY <1>1, <1>2, <2>1
    <2>2. CASE s4' = <<>>
      BY <1>1, <2>2, StreamAssumption
    <2>3. CASE room /\ frame \in StreamFrames /\ key /\ s4' = Append(<<>>, frame)
      BY <1>1, <2>3, StreamAssumption
    <2>4. CASE room /\ frame \in StreamFrames /\ ~key /\ s4' = Append(G, frame)
      BY <1>1, <1>2, <2>4, StreamAssumption
    <2> QED
      BY <1>3, <1>4, <2>1, <2>2, <2>3, <2>4
  <1> QED
    BY <1>5, <1>6

(* The encoder has a frame. *)
LEMMA CaptureKeeps ==
  ASSUME StreamInv, NEW key \in BOOLEAN, Stream!Capture(key)
  PROVE  StreamInv'
  <1>1. /\ Stream!Offer(key)
        /\ s5' = Stream!RankedTimes(s5) /\ s8' = Stream!Ranked(s8)
        /\ s9' = Stream!RankedTimes(s9) /\ s11' = Stream!Rank(s11)
        /\ UNCHANGED << s1, s2, s3, s10, s12, s13, s14, s15, s16, s17, s18, s19 >>
    BY Zenon DEF Stream!Capture
  <1>2. /\ s4' \in Seq(StreamFrames) /\ Len(s4') + Len(s5) <= Window
        /\ QueueIsLinked' /\ s6' \in BOOLEAN /\ s7' \in BOOLEAN
    BY <1>1, OfferTypes
  <1>3. StreamSequences' /\ Len(s5') = Len(s5)
    BY <1>1, <1>2, RankedTypes DEF StreamInv, StreamSequences
  <1>4. StreamNumbers'
    BY <1>1, RanksAreNumbers DEF StreamInv, StreamNumbers
  <1>5. StreamFlags'
    BY <1>1, <1>2, Zenon DEF StreamInv, StreamFlags
  <1> QED
    BY <1>2, <1>3, <1>4, <1>5 DEF StreamInv, StreamWindow

(* The writer of a client takes one off its queue. *)
LEMMA WriteKeeps ==
  ASSUME StreamInv, Stream!Write
  PROVE  StreamInv'
  <1>1. /\ s4 # <<>> /\ s8' = Append(s8, Head(s4)) /\ s4' = Tail(s4) /\ s5' = Append(s5, Head(s4).time)
        /\ UNCHANGED << s1, s2, s3, s6, s7, s9, s10, s11, s12, s13, s14, s15, s16, s17, s18, s19 >>
    BY DEF Stream!Write, Stream!codec
  <1>2. s4 \in Seq(StreamFrames) /\ s5 \in Seq(Nat) /\ Len(s4) + Len(s5) <= Window
    BY DEF StreamInv, StreamSequences, StreamWindow
  <1>3. Head(s4) \in StreamFrames /\ Tail(s4) \in Seq(StreamFrames) /\ Len(Tail(s4)) = Len(s4) - 1
    BY <1>1, <1>2
  <1>4. Head(s4).time \in Nat
    BY <1>3 DEF StreamFrames
  <1>5. StreamSequences'
    BY <1>1, <1>2, <1>3, <1>4 DEF StreamInv, StreamSequences
  <1>6. StreamWindow'
    <2>1. Len(s5') = Len(s5) + 1 /\ Len(s5) \in Nat /\ Len(s4) \in Nat
      BY <1>1, <1>2, <1>4
    <2> QED
      BY <1>1, <1>2, <1>3, <2>1, StreamAssumption DEF StreamWindow
  <1>7. StreamNumbers'
    BY <1>1 DEF StreamInv, StreamNumbers
  <1>8. StreamFlags' /\ QueueIsLinked'
    BY <1>1, Zenon DEF StreamInv, StreamFlags, QueueIsLinked
  <1> QED
    BY <1>5, <1>6, <1>7, <1>8 DEF StreamInv

(* An acknowledgement, or a request to resynchronize. *)
LEMMA ControlKeeps ==
  ASSUME StreamInv, Stream!Control
  PROVE  StreamInv'
  <1>1. /\ s9 # <<>> /\ s9' = Tail(s9)
        /\ UNCHANGED << s1, s2, s3, s8, s10, s11, s12, s13, s14, s15, s16, s17, s18, s19 >>
        /\ \/ s4' = <<>> /\ s5' = <<>> /\ s6' = TRUE /\ s7' = (s7 /\ s4 = <<>>)
           \/ Stream!Acknowledge(Head(s9)) /\ UNCHANGED << s4, s6, s7 >>
    BY DEF Stream!Control, Stream!RequestResync, Stream!codec
  <1>2. /\ s4 \in Seq(StreamFrames) /\ s5 \in Seq(Nat) /\ s9 \in Seq(Nat) /\ Len(s4) + Len(s5) <= Window
        /\ Len(s4) \in Nat /\ Len(s5) \in Nat
    BY DEF StreamInv, StreamSequences, StreamWindow
  <1>3. Tail(s9) \in Seq(Nat)
    BY <1>1, <1>2
  <1>4. ASSUME Stream!Acknowledge(Head(s9))
        PROVE  s5' \in Seq(Nat) /\ Len(s5') \in Nat /\ Len(s5') <= Len(s5)
    <2>1. PICK n \in 0 .. Len(s5) : s5' = SubSeq(s5, n + 1, Len(s5))
      BY <1>4 DEF Stream!Acknowledge
    <2> QED
      BY <1>2, <2>1
  <1>5. s4' \in Seq(StreamFrames) /\ s5' \in Seq(Nat) /\ Len(s4') + Len(s5') <= Window
    <2>1. CASE s4' = <<>> /\ s5' = <<>>
      BY <2>1, StreamAssumption
    <2>2. CASE Stream!Acknowledge(Head(s9)) /\ s4' = s4
      BY <1>2, <1>4, <2>2, StreamAssumption
    <2> QED
      BY <1>1, <2>1, <2>2
  <1>6. StreamSequences' /\ StreamWindow'
    BY <1>1, <1>3, <1>5 DEF StreamInv, StreamSequences, StreamWindow
  <1>7. StreamNumbers'
    BY <1>1 DEF StreamInv, StreamNumbers
  <1>8. s6' \in BOOLEAN /\ s7' \in BOOLEAN /\ QueueIsLinked'
    <2>1. CASE UNCHANGED << s4, s6, s7 >>
      BY <2>1, Zenon DEF StreamInv, StreamFlags, QueueIsLinked
    <2>2. CASE s6' = TRUE /\ s7' = (s7 /\ s4 = <<>>)
      <3>1. s7' \in BOOLEAN
        BY <2>2
      <3> QED
        BY <2>2, <3>1, Zenon DEF QueueIsLinked
    <2> QED
      BY <1>1, <2>1, <2>2
  <1>9. StreamFlags'
    BY <1>1, <1>8, Zenon DEF StreamInv, StreamFlags
  <1> QED
    BY <1>6, <1>7, <1>8, <1>9 DEF StreamInv

\* What the worker of the page changes: the control messages, and the decoder.
LEMMA SendResyncTypes ==
  ASSUME StreamInv, Stream!SendResync
  PROVE  s10' \in BOOLEAN /\ s9' \in Seq(Nat)
  <1>1. Append(s9, 0) \in Seq(Nat) /\ s9 \in Seq(Nat)
    BY DEF StreamInv, StreamSequences
  <1> QED
    BY <1>1 DEF Stream!SendResync, Stream!Resync

CodecTypes ==
  /\ s11 \in Nat /\ s14 \in Nat /\ s15 \in Nat /\ s16 \in 0 .. 1
  /\ s12 \in BOOLEAN /\ s13 \in BOOLEAN /\ s17 \in BOOLEAN /\ s18 \in BOOLEAN

(* The decoder has its types, ... *)
LEMMA CodecHasTypes == StreamInv => CodecTypes
  <1>1. StreamInv => s12 \in BOOLEAN /\ s13 \in BOOLEAN /\ s17 \in BOOLEAN /\ s18 \in BOOLEAN
    BY Zenon DEF StreamInv, StreamFlags
  <1>2. StreamInv => s11 \in Nat /\ s14 \in Nat /\ s15 \in Nat /\ s16 \in 0 .. 1
    BY DEF StreamInv, StreamNumbers
  <1> QED
    BY <1>1, <1>2, Zenon DEF CodecTypes

(* ... after a reset too, ... *)
LEMMA ResetTypes == Stream!ResetDecoder => CodecTypes'
  <1> SUFFICES ASSUME Stream!ResetDecoder PROVE CodecTypes'
    OBVIOUS
  <1>1. s11' \in Nat /\ s14' \in Nat /\ s15' \in Nat /\ s16' \in 0 .. 1
    BY DEF Stream!ResetDecoder
  <1>2. s12' \in BOOLEAN /\ s13' \in BOOLEAN /\ s17' \in BOOLEAN /\ s18' \in BOOLEAN
    BY Zenon DEF Stream!ResetDecoder
  <1> QED
    BY <1>1, <1>2, Zenon DEF CodecTypes

(* ... and if nothing is done to it. *)
LEMMA CodecSame == ASSUME StreamInv, UNCHANGED Stream!codec PROVE CodecTypes'
  <1>1. UNCHANGED << s11, s12, s13, s14, s15, s16, s17, s18 >>
    BY DEF Stream!codec
  <1> QED
    BY <1>1, CodecHasTypes, Zenon DEF CodecTypes

\* The worker leaves the queue of the server alone.
LEMMA WorkerKeeps ==
  ASSUME StreamInv, UNCHANGED << s1, s2, s3, s4, s5, s6, s7 >>, s8' \in Seq(StreamFrames),
         s9' \in Seq(Nat), s10' \in BOOLEAN, CodecTypes', s19' \in Nat
  PROVE  StreamInv'
  <1>1. StreamSequences' /\ StreamWindow'
    BY DEF StreamInv, StreamSequences, StreamWindow
  <1>2. StreamNumbers'
    BY Zenon DEF CodecTypes, StreamNumbers
  <1>3. StreamFlags' /\ QueueIsLinked'
    BY Zenon DEF CodecTypes, StreamInv, StreamFlags, QueueIsLinked
  <1> QED
    BY <1>1, <1>2, <1>3 DEF StreamInv

(* A frame goes to the decoder, or the worker asks for a key frame. *)
LEMMA DecodeTypes ==
  ASSUME StreamInv, NEW frame \in StreamFrames, Stream!Decode(frame)
  PROVE  CodecTypes' /\ s10' \in BOOLEAN /\ s9' \in Seq(Nat)
  <1>1. frame.time \in Nat
    BY DEF StreamFrames
  <1>2. Append(s9, frame.time) \in Seq(Nat) /\ s9 \in Seq(Nat)
    BY <1>1 DEF StreamInv, StreamSequences
  <1>3. /\ s13' = TRUE /\ s14' = s14 + 1 /\ UNCHANGED << s15, s16, s17, s18 >>
        /\ s10' = (s10 /\ s13)
        /\ \/ s12' = TRUE /\ s11' = frame.time /\ s9' = s9
           \/ s12' = FALSE /\ s11' = 0 /\ s9' = Append(s9, frame.time)
    BY DEF Stream!Decode
  <1>4. s11' \in Nat /\ s14' \in Nat /\ s15' \in Nat /\ s16' \in 0 .. 1 /\ s9' \in Seq(Nat)
    BY <1>1, <1>2, <1>3 DEF StreamInv, StreamNumbers
  <1>5. s12' \in BOOLEAN /\ s13' \in BOOLEAN /\ s17' \in BOOLEAN /\ s18' \in BOOLEAN
    BY <1>3, Zenon DEF StreamInv, StreamFlags
  <1>6. s10' \in BOOLEAN
    BY <1>3
  <1> QED
    BY <1>4, <1>5, <1>6, Zenon DEF CodecTypes

(* The worker receives a frame. *)
LEMMA StreamReceiveKeeps ==
  ASSUME StreamInv, Stream!Receive
  PROVE  StreamInv'
  <1> DEFINE frame == Head(s8)
  <1>1. /\ s8 # <<>> /\ s8' = Tail(s8) /\ UNCHANGED << s1, s2, s3, s4, s5, s6, s7, s19 >>
        /\ Stream!Decode(frame) \/ Stream!Miss(frame) \/ Stream!Reject(frame)
    BY DEF Stream!Receive, Stream!server
  <1>2. frame \in StreamFrames /\ s8' \in Seq(StreamFrames)
    BY <1>1 DEF StreamInv, StreamSequences
  <1> HIDE DEF frame
  <1>3. CodecTypes' /\ s10' \in BOOLEAN /\ s9' \in Seq(Nat)
    <2>1. CASE Stream!Decode(frame)
      BY <1>2, <2>1, DecodeTypes
    <2>2. CASE Stream!Miss(frame)
      BY <2>2, SendResyncTypes, CodecSame, Zenon DEF Stream!Miss
    <2>3. CASE Stream!Reject(frame)
      <3>1. CASE s10' = TRUE /\ s9' = Append(s9, 0) /\ UNCHANGED Stream!codec
        BY <3>1, CodecSame DEF StreamInv, StreamSequences
      <3>2. CASE Stream!SendResync /\ Stream!ResetDecoder
        BY <3>2, SendResyncTypes, ResetTypes
      <3> QED
        BY <2>3, <3>1, <3>2, Zenon DEF Stream!Reject, Stream!Resync
    <2> QED
      BY <1>1, <2>1, <2>2, <2>3
  <1>4. s19' \in Nat
    BY <1>1 DEF StreamInv, StreamNumbers
  <1> QED
    BY <1>1, <1>2, <1>3, <1>4, WorkerKeeps

(* The decoder takes one. *)
LEMMA DequeueKeeps ==
  ASSUME StreamInv, Stream!Dequeue
  PROVE  StreamInv'
  <1>1. /\ s14 > 0 /\ s14' = s14 - 1 /\ s15' = s15 + 1 /\ Stream!Release(s11)
        /\ s12' = (s12 /\ (s11 = 0 \/ s14' > Low))
        /\ UNCHANGED << s1, s2, s3, s4, s5, s6, s7, s8, s10, s13, s16, s17, s18, s19 >>
    BY DEF Stream!Dequeue, Stream!server
  <1>2. s11 \in Nat /\ s9 \in Seq(Nat) /\ Append(s9, s11) \in Seq(Nat)
    BY DEF StreamInv, StreamNumbers, StreamSequences
  <1>3. s11' \in Nat /\ s9' \in Seq(Nat)
    <2>1. \/ s11' = s11 /\ s9' = s9
          \/ s11' = 0 /\ s9' = Append(s9, s11)
      BY <1>1, Zenon DEF Stream!Release
    <2>2. 0 \in Nat
      OBVIOUS
    <2> QED
      BY <1>2, <2>1, <2>2, Zenon
  <1>4. s14' \in Nat /\ s15' \in Nat /\ s16' \in 0 .. 1 /\ s19' \in Nat
    BY <1>1 DEF StreamInv, StreamNumbers
  <1>5. s12' \in BOOLEAN
    BY <1>1
  <1>6. s10' \in BOOLEAN /\ s13' \in BOOLEAN /\ s17' \in BOOLEAN /\ s18' \in BOOLEAN
    BY <1>1, Zenon DEF StreamInv, StreamFlags
  <1>7. CodecTypes' /\ s8' \in Seq(StreamFrames)
    <2>1. s8' \in Seq(StreamFrames)
      BY <1>1 DEF StreamInv, StreamSequences
    <2> QED
      BY <1>3, <1>4, <1>5, <1>6, <2>1, Zenon DEF CodecTypes
  <1> QED
    BY <1>1, <1>3, <1>4, <1>6, <1>7, WorkerKeeps

\* A picture comes out of the decoder, and goes to the canvas.
LEMMA PictureKeeps ==
  ASSUME StreamInv, Stream!Output \/ Stream!Idle \/ Stream!Paint
  PROVE  StreamInv'
  <1>1. UNCHANGED << s1, s2, s3, s4, s5, s6, s7, s8, s9, s10, s11, s12, s13, s14 >>
    BY DEF Stream!Output, Stream!Idle, Stream!Paint, Stream!Flushed, Stream!server
  <1>2. s15' \in Nat /\ s16' \in 0 .. 1 /\ s19' \in Nat
    BY DEF Stream!Output, Stream!Idle, Stream!Paint, Stream!Flushed, StreamInv, StreamNumbers
  <1>3. s17' \in BOOLEAN /\ s18' \in BOOLEAN
    <2>1. CASE s18' = FALSE /\ s17' = FALSE
      BY <2>1
    <2>2. CASE s17' = TRUE /\ s18' = (s18 \/ ~s17)
      BY <2>2
    <2> QED
      BY <2>1, <2>2, Zenon DEF Stream!Output, Stream!Idle, Stream!Paint, Stream!Flushed
  <1>4. s8' \in Seq(StreamFrames) /\ s9' \in Seq(Nat) /\ s11' \in Nat /\ s14' \in Nat
    BY <1>1 DEF StreamInv, StreamSequences, StreamNumbers
  <1>5. s10' \in BOOLEAN /\ s12' \in BOOLEAN /\ s13' \in BOOLEAN
    BY <1>1, Zenon DEF StreamInv, StreamFlags
  <1>6. CodecTypes'
    BY <1>2, <1>3, <1>4, <1>5, Zenon DEF CodecTypes
  <1> QED
    BY <1>1, <1>2, <1>4, <1>5, <1>6, WorkerKeeps

(* It fails, or stalls. *)
LEMMA FailsKeep ==
  ASSUME StreamInv, Stream!DecoderFails \/ Stream!PaintFails
  PROVE  StreamInv'
  <1>1. Stream!SendResync /\ Stream!ResetDecoder /\ UNCHANGED << s1, s2, s3, s4, s5, s6, s7, s8 >>
    BY DEF Stream!DecoderFails, Stream!PaintFails, Stream!server
  <1>2. s19' \in Nat
    BY DEF Stream!DecoderFails, Stream!PaintFails, StreamInv, StreamNumbers
  <1>3. s8' \in Seq(StreamFrames)
    BY <1>1 DEF StreamInv, StreamSequences
  <1> QED
    BY <1>1, <1>2, <1>3, SendResyncTypes, ResetTypes, WorkerKeeps

\* The connection.
LEMMA JoinsKeeps ==
  ASSUME StreamInv, Stream!Joins
  PROVE  StreamInv'
  <1>1. /\ s1' = "open" /\ s4' = <<>> /\ s5' = <<>> /\ s6' = TRUE /\ s7' = FALSE /\ s10' = FALSE
        /\ s11' = 0 /\ s12' = FALSE /\ UNCHANGED << s2, s3, s8, s9, s13, s14, s15, s16, s17, s18, s19 >>
    BY DEF Stream!Joins
  <1>2. StreamSequences' /\ StreamWindow'
    BY <1>1, StreamAssumption DEF StreamInv, StreamSequences, StreamWindow
  <1>3. StreamNumbers'
    BY <1>1 DEF StreamInv, StreamNumbers
  <1>4. StreamFlags' /\ QueueIsLinked'
    BY <1>1 DEF StreamInv, StreamFlags, QueueIsLinked
  <1> QED
    BY <1>2, <1>3, <1>4 DEF StreamInv

(* The connection is lost or given up. *)
LEMMA DisconnectedKeeps ==
  ASSUME StreamInv, Stream!Disconnected, s2' \in BOOLEAN, s3' \in BOOLEAN, s10' \in BOOLEAN, s19' \in Nat
  PROVE  StreamInv'
  <1>1. /\ s1' = "none" /\ s4' = <<>> /\ s5' = <<>> /\ UNCHANGED << s6, s7 >> /\ s8' = <<>> /\ s9' = <<>>
    BY DEF Stream!Disconnected
  <1>2. CodecTypes'
    BY ResetTypes DEF Stream!Disconnected
  <1>3. StreamSequences' /\ StreamWindow'
    BY <1>1, StreamAssumption DEF StreamSequences, StreamWindow
  <1>4. StreamNumbers'
    BY <1>2, Zenon DEF CodecTypes, StreamNumbers
  <1>5. s1' \in {"none", "connecting", "open"}
    BY <1>1
  <1>6. StreamFlags' /\ QueueIsLinked'
    BY <1>1, <1>2, <1>5, Zenon DEF StreamInv, StreamFlags, QueueIsLinked, CodecTypes
  <1> QED
    BY <1>3, <1>4, <1>6 DEF StreamInv

(* Every step of encoder, client and worker keeps the invariant. *)
LEMMA StreamKeeps ==
  ASSUME StreamInv, [Stream!StreamNext]_(Stream!streamVars)
  PROVE  StreamInv'
  <1>1. ASSUME Stream!Breaks \/ Stream!Stop
        PROVE  StreamInv'
    <2>1. Stream!Disconnected /\ s2' \in BOOLEAN /\ s3' \in BOOLEAN /\ s10' \in BOOLEAN
      BY <1>1, Zenon DEF Stream!Breaks, Stream!Stop, StreamInv, StreamFlags
    <2>2. s19' \in Nat
      BY <1>1 DEF Stream!Breaks, Stream!Stop, StreamInv, StreamNumbers
    <2> QED
      BY <2>1, <2>2, DisconnectedKeeps
  <1>2. ASSUME Stream!ConnectStream
        PROVE  StreamInv'
    <2>1. /\ s2' \in BOOLEAN /\ s1' \in {"none", "connecting", "open"}
          /\ UNCHANGED << s3, s4, s5, s6, s7, s8, s9, s10, s11, s12, s13, s14, s15, s16, s17, s18, s19 >>
      <3>1. UNCHANGED << s3, s4, s5, s6, s7, s8, s9, s10, s11, s12, s13, s14, s15, s16, s17, s18, s19 >>
        BY <1>2 DEF Stream!ConnectStream, Stream!server, Stream!codec
      <3>2. (s2' = FALSE /\ s1' = "connecting") \/ UNCHANGED << s1, s2 >>
        BY <1>2 DEF Stream!ConnectStream
      <3>3. s2 \in BOOLEAN /\ s1 \in {"none", "connecting", "open"}
        BY Zenon DEF StreamInv, StreamFlags
      <3> QED
        BY <3>1, <3>2, <3>3
    <2>2. StreamSequences' /\ StreamWindow' /\ StreamNumbers'
      BY <2>1 DEF StreamInv, StreamSequences, StreamWindow, StreamNumbers
    <2>3. StreamFlags' /\ QueueIsLinked'
      BY <2>1, Zenon DEF StreamInv, StreamFlags, QueueIsLinked
    <2> QED
      BY <2>2, <2>3 DEF StreamInv
  <1>3. CASE UNCHANGED Stream!streamVars
    <2>1. UNCHANGED << s1, s2, s3, s4, s5, s6, s7, s8, s9, s10, s11, s12, s13, s14, s15, s16, s17, s18, s19 >>
      BY <1>3 DEF Stream!streamVars, Stream!server, Stream!codec
    <2>2. StreamSequences' /\ StreamWindow' /\ StreamNumbers'
      BY <2>1 DEF StreamInv, StreamSequences, StreamWindow, StreamNumbers
    <2>3. StreamFlags' /\ QueueIsLinked'
      BY <2>1, Zenon DEF StreamInv, StreamFlags, QueueIsLinked
    <2> QED
      BY <2>2, <2>3 DEF StreamInv
  <1>4. ASSUME Stream!Capture(TRUE) \/ Stream!Capture(FALSE)
        PROVE  StreamInv'
    <2>1. TRUE \in BOOLEAN /\ FALSE \in BOOLEAN
      OBVIOUS
    <2> QED
      BY <1>4, <2>1, CaptureKeeps, Zenon
  <1> QED
    BY <1>1, <1>2, <1>3, <1>4, WriteKeeps, ControlKeeps, StreamReceiveKeeps, DequeueKeeps, PictureKeeps,
       FailsKeep, JoinsKeeps, Zenon DEF Stream!StreamNext

(* It has in it what the stream promises. *)
LEMMA StreamPromises == StreamInv => Stream!StreamTypeOK /\ Stream!DeltasFollow
  <1> SUFFICES ASSUME StreamInv PROVE Stream!StreamTypeOK /\ Stream!DeltasFollow
    OBVIOUS
  <1>1. {s2, s3, s6, s7, s10, s12, s13, s17, s18} \subseteq BOOLEAN
    BY Zenon DEF StreamInv, StreamFlags
  <1>2. {s14, s15, s19, s11} \subseteq Nat
    BY Zenon DEF StreamInv, StreamNumbers
  <1>3. Stream!StreamTypeOK
    BY <1>1, <1>2, Zenon DEF StreamInv, StreamFlags, StreamWindow, StreamNumbers, Stream!StreamTypeOK
  <1>4. Stream!DeltasFollow
    <2>1. s4 \o s8 \in Seq(StreamFrames)
      BY DEF StreamInv, StreamSequences
    <2> DEFINE q == s4 \o s8
    <2> HIDE DEF q
    <2>2. \A f \in Stream!ToSet(q) : f \in StreamFrames
      BY <2>1 DEF Stream!ToSet, q
    <2>3. \A f \in StreamFrames : f.linked = TRUE
      BY DEF StreamFrames
    <2> QED
      BY <2>2, <2>3, Zenon DEF Stream!DeltasFollow, q
  <1> QED
    BY <1>3, <1>4

(* Queue and window together never exceed their limit, and no delta frame     *)
(* goes to a viewer whose predecessor was dropped, expired or cleared, for    *)
(* any limits, and however acknowledgements and requests to resynchronize     *)
(* arrive (frameQueue, client.go; direct.worker.ts).                          *)
THEOREM StreamHolds ==
  Stream!StreamSpec => [](Stream!StreamTypeOK /\ Stream!DeltasFollow)
  <1>1. StreamInv /\ [Stream!StreamNext]_(Stream!streamVars) => StreamInv'
    BY StreamKeeps, Zenon
  <1> QED
    BY <1>1, StreamStarts, StreamPromises, PTL DEF Stream!StreamSpec

-------------------------------------------------------------------------------
(******************************************************************************)
(* WebRTC player.                                                             *)
(* s1, s2, ... are its signaling, peer, link, comes, queued, reachable,       *)
(* loading, limit, retry, warned, shown, rtcFaults.                           *)
(******************************************************************************)

\* The types, flags apart.
RtcFlags ==
  /\ s5 \in BOOLEAN /\ s6 \in BOOLEAN /\ s7 \in BOOLEAN /\ s8 \in BOOLEAN
  /\ s9 \in BOOLEAN /\ s10 \in BOOLEAN /\ s11 \in BOOLEAN
RtcStates ==
  /\ s1 \in {"connecting", "open", "closed"}
  /\ s2 \in {"none", "new", "have-local-offer", "answering", "stable"}
  /\ s3 \in {"new", "connected", "failed"}
  /\ s4 \subseteq {"ice-servers", "video-answer", "video-candidate"}

RtcInv == RtcFlags /\ RtcStates /\ Player!WarningIsTrue

(* The invariant of the player holds when it is mounted. *)
LEMMA PlayerStarts == Player!RtcInit => RtcInv
  BY DEF Player!RtcInit, RtcInv, RtcFlags, RtcStates, Player!WarningIsTrue

(* Every message, timeout and fault keeps it. *)
LEMMA PlayerKeeps ==
  ASSUME RtcInv, [Player!RtcNext]_(Player!rtcVars)
  PROVE  RtcInv'
  <1> USE DEF RtcInv
  <1>1. ASSUME Player!SignalingOpens \/ Player!StartVideo \/ Player!Answer \/ Player!Candidate
        PROVE  RtcInv'
    <2>1. s9' = s9 /\ s10' = s10 /\ s3' = s3
      BY <1>1 DEF Player!SignalingOpens, Player!StartVideo, Player!Answer, Player!Candidate
    <2>2. RtcFlags'
      BY <1>1 DEF Player!SignalingOpens, Player!StartVideo, Player!Answer, Player!Candidate, RtcFlags
    <2>3. RtcStates'
      BY <1>1 DEF Player!SignalingOpens, Player!StartVideo, Player!Answer, Player!Candidate, RtcStates
    <2> QED
      BY <2>1, <2>2, <2>3, Zenon DEF Player!WarningIsTrue
  <1>2. ASSUME Player!SignalingFails \/ Player!Negotiate \/ Player!Answered \/ Player!PeerFails
        PROVE  RtcInv'
    <2>1. (s9' /\ s9' \in BOOLEAN /\ s10' \in BOOLEAN) \/ (s9' = s9 /\ s10' = s10 /\ s3' = s3)
      BY <1>2 DEF Player!SignalingFails, Player!Negotiate, Player!Answered, Player!PeerFails,
                  Player!ScheduleRetry
    <2>2. RtcFlags'
      <3>1. s5' \in BOOLEAN /\ s6' \in BOOLEAN
        BY <1>2, Zenon DEF Player!SignalingFails, Player!Negotiate, Player!Answered, Player!PeerFails, RtcFlags
      <3>2. s7' = s7 /\ s8' = s8 /\ s11' = s11
        BY <1>2, Zenon DEF Player!SignalingFails, Player!Negotiate, Player!Answered, Player!PeerFails
      <3> QED
        BY <2>1, <3>1, <3>2, Zenon DEF RtcFlags
    <2>3. RtcStates'
      BY <1>2 DEF Player!SignalingFails, Player!Negotiate, Player!Answered, Player!PeerFails, RtcStates
    <2> QED
      BY <2>1, <2>2, <2>3 DEF Player!WarningIsTrue, RtcFlags
  <1>3. ASSUME Player!Connected \/ Player!LoadingTimeout \/ Player!ConnectionTimeout
        PROVE  RtcInv'
    <2>1. RtcStates'
      BY <1>3 DEF Player!Connected, Player!LoadingTimeout, Player!ConnectionTimeout, RtcStates
    <2>2. RtcFlags' /\ Player!WarningIsTrue'
      BY <1>3, Zenon DEF Player!Connected, Player!LoadingTimeout, Player!ConnectionTimeout,
        Player!ScheduleRetry, RtcFlags, Player!WarningIsTrue
    <2> QED
      BY <2>1, <2>2
  <1>4. ASSUME Player!Retry \/ Player!Unmount
        PROVE  RtcInv'
    BY <1>4 DEF Player!Retry, Player!Unmount, RtcFlags, RtcStates, Player!WarningIsTrue
  <1>5. CASE UNCHANGED Player!rtcVars
    BY <1>5 DEF Player!rtcVars, Player!attempt, RtcFlags, RtcStates, Player!WarningIsTrue
  <1> QED
    BY <1>1, <1>2, <1>3, <1>4, <1>5, Zenon DEF Player!RtcNext

(* It has in it what the player promises. *)
LEMMA PlayerPromises == RtcInv => Player!RtcTypeOK /\ Player!WarningIsTrue
  BY DEF RtcInv, RtcFlags, RtcStates, Player!RtcTypeOK

(* The player warns of a failed connection only while it has no picture, or   *)
(* is about to retry, which takes the warning away, in whatever order offers, *)
(* candidates and timeouts come (h264-webrtc.tsx).                            *)
THEOREM PlayerHolds == Player!RtcSpec => [](Player!RtcTypeOK /\ Player!WarningIsTrue)
  <1>1. RtcInv /\ [Player!RtcNext]_(Player!rtcVars) => RtcInv'
    BY PlayerKeeps, Zenon
  <1> QED
    BY <1>1, PlayerStarts, PlayerPromises, PTL DEF Player!RtcSpec

-------------------------------------------------------------------------------
(******************************************************************************)
(* Settings panels.                                                           *)
(* s1, s2, ... are its panel, shown, dev, locked, calls, loads, late,         *)
(* leaving, troubled, clicks, faults.                                         *)
(******************************************************************************)

Calls == [kind : {"load", "set", "poll", "orphan"}, n : Nat, asked : Panel!Values, old : Panel!Values,
          holding : BOOLEAN, at : {"sent", "served", "refused"}]

\* The careful panels, by how they are careful.
OneAtATime(d) ==
  /\ d.load \in {"lock", "hidden"} /\ d.guard /\ d.locks /\ ~d.flips
  /\ "ok" \in d.loadFrees
  /\ d.early => "refused" \in d.restores
  /\ d.rereads = {}
  /\ d.delays \subseteq {"ok"} /\ (d.delays = {} \/ (d.shows /\ d.leaves = {}))
  /\ d.polls \in {"none", "versioned"}
  /\ d.leaves \in {{}, {"click"}}
  /\ "ok" \notin d.restores
  /\ d.shows \/ (d.leaves = {"click"} /\ "ok" \notin d.frees)

LatestCounts(d) ==
  /\ d.load = "latest" /\ d.rereads = {"ok"}
  /\ ~d.early /\ ~d.shows /\ d.restores = {} /\ d.delays = {}
  /\ d.polls = "none"

Acts == {c \in s5 : c.kind # "poll"}
AtRest == Acts = {} /\ s7 = "none" /\ ~s8

PanelTypes ==
  /\ s1 \in Panel!Panels /\ s2 \in Panel!Values /\ s3 \in Panel!Values
  /\ s4 \in BOOLEAN /\ s8 \in BOOLEAN /\ s9 \in BOOLEAN
  /\ s5 \in SUBSET Calls
  /\ s7 \in Panel!Values \union {"none"}
  /\ s6 \in Nat /\ s10 \in Nat /\ s11 \in Nat

\* Calls of a page that has gone, polls of a panel that does not poll, and reloads of
\* one that does not reload the page.
NoStrays ==
  /\ s8 => s1.leaves # {}
  /\ ~s9 => \A c \in s5 : c.kind # "orphan"
  /\ s1.polls = "none" => \A c \in s5 : c.kind # "poll"

\* What a call of such a panel knows of the device.
CallKnows(c) ==
  /\ c.kind = "load" => c.holding /\ ~s8 /\ (c.at = "served" => c.asked = s3)
  /\ c.kind = "set" => /\ c.at = "served" => c.asked = s3
                       /\ c.at # "served" => c.old = s3 /\ (s1.early \/ s2 = s3)
                       /\ s1.leaves # {} => s8

PollKnows(c) == c.n >= s10 /\ (c.n = s10 => AtRest /\ (c.at = "served" => c.asked = s3))

OneCall ==
  OneAtATime(s1) /\ ~s9 =>
    /\ \A c, e \in Acts : c = e
    /\ ~s4 => AtRest
    /\ Acts # {} => s7 = "none"
    /\ AtRest => s2 = s3
    /\ s7 # "none" => s7 = s3 /\ s1.shows /\ ~s8
    /\ \A c \in Acts : CallKnows(c)
    /\ \A c \in s5 \ Acts : PollKnows(c)

Newest(c) == c.kind = "load" /\ c.n = s6

LatestLoad ==
  LatestCounts(s1) /\ ~s9 =>
    /\ \A c \in s5 : c.kind = "load" => c.n <= s6
    /\ \A c, e \in s5 : c.kind = "load" /\ e.kind = "load" /\ c.n = e.n => c = e
    /\ \/ \E c \in s5 : c.kind = "set" /\ c.at = "served"
       \/ \E c \in s5 : Newest(c) /\ (c.at = "served" => c.asked = s3)
       \/ s2 = s3 /\ \A c \in s5 : ~Newest(c)

PanelInv == PanelTypes /\ NoStrays /\ OneCall /\ LatestLoad
\* Panels that do not load, or that allow clicks while they do.
LEMMA FreeOnes ==
  /\ Panel!HdmiIdleTimeout.load \in {"none", "free"} /\ Panel!VirtualDevices.load \in {"none", "free"}
  /\ Panel!Reboot.load \in {"none", "free"} /\ Panel!Autostart.load \in {"none", "free"}
  /\ Panel!TailscaleHeader.load \in {"none", "free"} /\ Panel!TailscaleInstall.load \in {"none", "free"}
  /\ Panel!TailscaleRun.load \in {"none", "free"} /\ Panel!TailscaleLogin.load \in {"none", "free"}
  /\ Panel!TailscaleDevice.load \in {"none", "free"} /\ Panel!TailscaleUninstall.load \in {"none", "free"}
  /\ Panel!TailscaleMemory.load \in {"none", "free"} /\ Panel!Tls.load \in {"none", "free"}
  /\ Panel!Information.load \in {"none", "free"} /\ Panel!Logout.load \in {"none", "free"}
  /\ Panel!UpdateNow.load \in {"none", "free"} /\ Panel!Offline.load \in {"none", "free"}
  /\ Panel!Images.load \in {"none", "free"} /\ Panel!MountImage.load \in {"none", "free"}
  /\ Panel!FrameDetect.load \in {"none", "free"} /\ Panel!Fps.load \in {"none", "free"}
  /\ Panel!Gop.load \in {"none", "free"} /\ Panel!Quality.load \in {"none", "free"}
  /\ Panel!Resolution.load \in {"none", "free"} /\ Panel!HdmiReset.load \in {"none", "free"}
  /\ Panel!PowerShort.load \in {"none", "free"} /\ Panel!PowerLong.load \in {"none", "free"}
  /\ Panel!PowerReset.load \in {"none", "free"} /\ Panel!PowerLed.load \in {"none", "free"}
  /\ Panel!WolList.load \in {"none", "free"} /\ Panel!Wake.load \in {"none", "free"}
  /\ Panel!Scripts.load \in {"none", "free"} /\ Panel!RunScript.load \in {"none", "free"}
  /\ Panel!Shortcuts.load \in {"none", "free"} /\ Panel!SendShortcut.load \in {"none", "free"}
  /\ Panel!PasteText.load \in {"none", "free"} /\ Panel!LeaderKeySetting.load \in {"none", "free"}
  /\ Panel!LoginPage.load \in {"none", "free"} /\ Panel!PasswordPage.load \in {"none", "free"}
  /\ Panel!WifiVerify.load \in {"none", "free"} /\ Panel!WifiPage.load \in {"none", "free"}
  <1>1. \A d \in {Panel!HdmiIdleTimeout, Panel!VirtualDevices, Panel!Reboot, Panel!Autostart,
        Panel!TailscaleHeader, Panel!TailscaleInstall, Panel!TailscaleRun, Panel!TailscaleLogin} :
          d.load \in {"none", "free"}
    BY DEF Panel!Autostart, Panel!HdmiIdleTimeout, Panel!Reboot, Panel!TailscaleHeader,
           Panel!TailscaleInstall, Panel!TailscaleLogin, Panel!TailscaleRun,
           Panel!VirtualDevices, Panel!Button, Panel!Switch
  <1>2. \A d \in {Panel!TailscaleDevice, Panel!TailscaleUninstall, Panel!TailscaleMemory, Panel!Tls,
        Panel!Information, Panel!Logout, Panel!UpdateNow, Panel!Offline} :
          d.load \in {"none", "free"}
    BY DEF Panel!Information, Panel!Logout, Panel!Offline, Panel!TailscaleDevice,
           Panel!TailscaleMemory, Panel!TailscaleUninstall, Panel!Tls, Panel!UpdateNow,
           Panel!Button, Panel!Entry, Panel!Switch
  <1>3. \A d \in {Panel!Images, Panel!MountImage, Panel!FrameDetect, Panel!Fps, Panel!Gop, Panel!Quality,
        Panel!Resolution, Panel!HdmiReset} :
          d.load \in {"none", "free"}
    BY DEF Panel!Fps, Panel!FrameDetect, Panel!Gop, Panel!HdmiReset, Panel!Images,
           Panel!MountImage, Panel!Quality, Panel!Resolution, Panel!Button, Panel!Entry,
           Panel!Switch
  <1>4. \A d \in {Panel!PowerShort, Panel!PowerLong, Panel!PowerReset, Panel!PowerLed, Panel!WolList,
        Panel!Wake, Panel!Scripts, Panel!RunScript} :
          d.load \in {"none", "free"}
    BY DEF Panel!Autostart, Panel!PowerLed, Panel!PowerLong, Panel!PowerReset, Panel!PowerShort,
           Panel!RunScript, Panel!Scripts, Panel!Wake, Panel!WolList, Panel!Button, Panel!Entry,
           Panel!Switch
  <1>5. \A d \in {Panel!Shortcuts, Panel!SendShortcut, Panel!PasteText, Panel!LeaderKeySetting,
        Panel!LoginPage, Panel!PasswordPage, Panel!WifiVerify, Panel!WifiPage} :
          d.load \in {"none", "free"}
    BY DEF Panel!Autostart, Panel!LeaderKeySetting, Panel!LoginPage, Panel!PasswordPage,
           Panel!PasteText, Panel!SendShortcut, Panel!Shortcuts, Panel!WifiPage,
           Panel!WifiVerify, Panel!Button, Panel!Entry, Panel!Switch
  <1> QED
    BY <1>1, <1>2, <1>3, <1>4, <1>5

(* Those that load and are careless all the same. *)
LEMMA CarelessOnes ==
  \A d \in {Panel!TailscaleStatus, Panel!Dns, Panel!WifiConnect, Panel!Users, Panel!WebTitle} : ~Panel!Careful(d)
  <1>1. ~Panel!Careful(Panel!TailscaleStatus)
    BY DEF Panel!Careful, Panel!TailscaleStatus, Panel!Switch
  <1>2. ~Panel!Careful(Panel!Dns)
    BY DEF Panel!Careful, Panel!Dns, Panel!Switch
  <1>3. ~Panel!Careful(Panel!WifiConnect)
    BY DEF Panel!Careful, Panel!WifiConnect, Panel!Switch
  <1>4. ~Panel!Careful(Panel!Users)
    BY DEF Panel!Careful, Panel!Users, Panel!Switch
  <1>5. ~Panel!Careful(Panel!WebTitle)
    BY DEF Panel!Careful, Panel!WebTitle, Panel!Switch
  <1> QED
    BY <1>1, <1>2, <1>3, <1>4, <1>5

(* Those that let one call at a time change the device. *)
LEMMA LockingOnes ==
  \A d \in {Panel!Ssh, Panel!Mdns, Panel!Oled, Panel!Hdmi, Panel!MouseJiggler, Panel!SwapSize,
            Panel!TailscaleSwap, Panel!WifiDisconnect, Panel!Hostname, Panel!CustomServer,
            Panel!Preview, Panel!Mcp, Panel!HidMode} : OneAtATime(d)
  <1>1. OneAtATime(Panel!Ssh)
    BY DEF OneAtATime, Panel!Ssh, Panel!Switch, Panel!Outcomes
  <1>2. OneAtATime(Panel!Mdns)
    BY DEF OneAtATime, Panel!Mdns, Panel!Ssh, Panel!Switch, Panel!Outcomes
  <1>3. OneAtATime(Panel!Oled)
    BY DEF OneAtATime, Panel!Oled, Panel!Switch, Panel!Outcomes
  <1>4. OneAtATime(Panel!Hdmi)
    BY DEF OneAtATime, Panel!Hdmi, Panel!Switch, Panel!Outcomes
  <1>5. OneAtATime(Panel!MouseJiggler)
    BY DEF OneAtATime, Panel!MouseJiggler, Panel!Switch, Panel!Outcomes
  <1>6. OneAtATime(Panel!SwapSize)
    BY DEF OneAtATime, Panel!SwapSize, Panel!Switch, Panel!Outcomes
  <1>7. OneAtATime(Panel!TailscaleSwap)
    BY DEF OneAtATime, Panel!TailscaleSwap, Panel!Switch, Panel!Outcomes
  <1>8. OneAtATime(Panel!WifiDisconnect)
    BY DEF OneAtATime, Panel!WifiDisconnect, Panel!Switch, Panel!Outcomes
  <1>9. OneAtATime(Panel!Hostname)
    BY DEF OneAtATime, Panel!Hostname, Panel!Switch, Panel!Outcomes
  <1>10. OneAtATime(Panel!CustomServer)
    BY DEF OneAtATime, Panel!CustomServer, Panel!Switch, Panel!Outcomes
  <1>11. OneAtATime(Panel!Preview)
    BY DEF OneAtATime, Panel!Preview, Panel!Switch, Panel!Outcomes
  <1>12. OneAtATime(Panel!Mcp)
    BY DEF OneAtATime, Panel!Mcp, Panel!Switch, Panel!Outcomes
  <1>13. OneAtATime(Panel!HidMode)
    BY DEF OneAtATime, Panel!HidMode, Panel!Switch, Panel!Outcomes
  <1> QED
    BY <1>1, <1>2, <1>3, <1>4, <1>5, <1>6, <1>7, <1>8, <1>9, <1>10, <1>11, <1>12, <1>13

(* The one whose latest load counts. *)
LEMMA LatestOnes == LatestCounts(Panel!UpdateCheck)
  BY DEF LatestCounts, Panel!UpdateCheck, Panel!Switch

(* A careful panel is careful in one of these ways. *)
LEMMA CarefulAre ==
  ASSUME NEW d \in Panel!Panels, Panel!Careful(d)
  PROVE  OneAtATime(d) \/ LatestCounts(d)
  <1>1. d.load \notin {"none", "free"}
    BY DEF Panel!Careful
  <1>2. d.load \in {"none", "free"}
        \/ d \in {Panel!TailscaleStatus, Panel!Dns, Panel!WifiConnect, Panel!Users,
                  Panel!WebTitle}
        \/ d \in {Panel!Ssh, Panel!Mdns, Panel!Oled, Panel!Hdmi, Panel!MouseJiggler,
                  Panel!SwapSize, Panel!TailscaleSwap, Panel!WifiDisconnect, Panel!Hostname,
                  Panel!CustomServer, Panel!Preview, Panel!Mcp, Panel!HidMode}
        \/ d = Panel!UpdateCheck
    BY FreeOnes DEF Panel!Panels
  <1> QED
    BY <1>1, <1>2, CarelessOnes, LockingOnes, LatestOnes

\* A load that follows a change is awaited under the lock or not.
LEMMA HoldsIs == \A d \in Panel!Panels : d.holds \in BOOLEAN
  <1>1. Panel!Switch.holds \in BOOLEAN
    BY Zenon DEF Panel!Switch
  <1>2. \A d \in {Panel!MouseJiggler, Panel!SwapSize, Panel!TailscaleSwap, Panel!Hostname, Panel!Preview} :
          d.holds \in BOOLEAN
    BY <1>1 DEF Panel!MouseJiggler, Panel!SwapSize, Panel!TailscaleSwap, Panel!Hostname,
           Panel!Preview
  <1>3. \A d \in {Panel!Ssh, Panel!Mdns, Panel!Oled, Panel!Hdmi, Panel!HdmiIdleTimeout,
        Panel!VirtualDevices, Panel!Reboot, Panel!Autostart} :
          d.holds \in BOOLEAN
    BY DEF Panel!Autostart, Panel!Hdmi, Panel!HdmiIdleTimeout, Panel!Mdns, Panel!Oled,
           Panel!Reboot, Panel!Ssh, Panel!VirtualDevices, Panel!Button, Panel!Switch
  <1>4. \A d \in {Panel!TailscaleStatus, Panel!TailscaleHeader, Panel!TailscaleInstall,
        Panel!TailscaleRun, Panel!TailscaleLogin, Panel!TailscaleDevice,
        Panel!TailscaleUninstall, Panel!TailscaleMemory} :
          d.holds \in BOOLEAN
    BY DEF Panel!TailscaleDevice, Panel!TailscaleHeader, Panel!TailscaleInstall,
           Panel!TailscaleLogin, Panel!TailscaleMemory, Panel!TailscaleRun,
           Panel!TailscaleStatus, Panel!TailscaleUninstall, Panel!Button, Panel!Switch
  <1>5. \A d \in {Panel!Tls, Panel!Dns, Panel!WifiConnect, Panel!WifiDisconnect, Panel!Information,
        Panel!Users, Panel!Logout, Panel!WebTitle} :
          d.holds \in BOOLEAN
    BY DEF Panel!Dns, Panel!Information, Panel!Logout, Panel!Tls, Panel!Users, Panel!WebTitle,
           Panel!WifiConnect, Panel!WifiDisconnect, Panel!Entry, Panel!Switch
  <1>6. \A d \in {Panel!UpdateCheck, Panel!UpdateNow, Panel!CustomServer, Panel!Offline, Panel!Mcp,
        Panel!HidMode, Panel!Images, Panel!MountImage} :
          d.holds \in BOOLEAN
    BY DEF Panel!CustomServer, Panel!HidMode, Panel!Images, Panel!Mcp, Panel!MountImage,
           Panel!Offline, Panel!UpdateCheck, Panel!UpdateNow, Panel!Button, Panel!Switch
  <1>7. \A d \in {Panel!FrameDetect, Panel!Fps, Panel!Gop, Panel!Quality, Panel!Resolution,
        Panel!HdmiReset, Panel!PowerShort, Panel!PowerLong} :
          d.holds \in BOOLEAN
    BY DEF Panel!Fps, Panel!FrameDetect, Panel!Gop, Panel!HdmiReset, Panel!PowerLong,
           Panel!PowerShort, Panel!Quality, Panel!Resolution, Panel!Button, Panel!Entry,
           Panel!Switch
  <1>8. \A d \in {Panel!PowerReset, Panel!PowerLed, Panel!WolList, Panel!Wake, Panel!Scripts,
        Panel!RunScript, Panel!Shortcuts, Panel!SendShortcut} :
          d.holds \in BOOLEAN
    BY DEF Panel!Autostart, Panel!PowerLed, Panel!PowerReset, Panel!RunScript, Panel!Scripts,
           Panel!SendShortcut, Panel!Shortcuts, Panel!Wake, Panel!WolList, Panel!Button,
           Panel!Entry, Panel!Switch
  <1>9. \A d \in {Panel!PasteText, Panel!LeaderKeySetting, Panel!LoginPage, Panel!PasswordPage,
        Panel!WifiVerify, Panel!WifiPage} :
          d.holds \in BOOLEAN
    BY DEF Panel!LeaderKeySetting, Panel!LoginPage, Panel!PasswordPage, Panel!PasteText,
           Panel!WifiPage, Panel!WifiVerify, Panel!Button, Panel!Entry, Panel!Switch
  <1> QED
    BY <1>1, <1>2, <1>3, <1>4, <1>5, <1>6, <1>7, <1>8, <1>9 DEF Panel!Panels

\* The calls that are made, and what becomes of them.
LEMMA CallsMade ==
  ASSUME PanelTypes
  PROVE  /\ \A n \in Nat, h \in BOOLEAN :
              /\ Panel!Load(n, h) \in Calls /\ Panel!Load(n, h).kind = "load"
              /\ Panel!Load(n, h).n = n /\ Panel!Load(n, h).holding = h /\ Panel!Load(n, h).at = "sent"
         /\ \A v \in Panel!Values :
              /\ Panel!Set(v) \in Calls /\ Panel!Set(v).kind = "set"
              /\ Panel!Set(v).old = s2 /\ Panel!Set(v).at = "sent"
         /\ Panel!Poll \in Calls /\ Panel!Poll.kind = "poll" /\ Panel!Poll.n = s10 /\ Panel!Poll.at = "sent"
  <1>1. \A n \in Nat, h \in BOOLEAN :
          /\ Panel!Load(n, h) \in Calls /\ Panel!Load(n, h).kind = "load"
          /\ Panel!Load(n, h).n = n /\ Panel!Load(n, h).holding = h /\ Panel!Load(n, h).at = "sent"
    BY DEF Panel!Load, Calls, Panel!Values
  <1>2. \A v \in Panel!Values :
          /\ Panel!Set(v) \in Calls /\ Panel!Set(v).kind = "set"
          /\ Panel!Set(v).old = s2 /\ Panel!Set(v).at = "sent"
    BY DEF PanelTypes, Panel!Set, Calls
  <1>3. Panel!Poll \in Calls /\ Panel!Poll.kind = "poll" /\ Panel!Poll.n = s10 /\ Panel!Poll.at = "sent"
    BY DEF PanelTypes, Panel!Poll, Calls, Panel!Values
  <1> QED
    BY <1>1, <1>2, <1>3

(* A call that is carried out, refused or answered stays a call. *)
LEMMA CallsMove ==
  ASSUME NEW c \in Calls, NEW v \in Panel!Values
  PROVE  /\ \A a \in {"served", "refused"} :
              LET m == [c EXCEPT !.at = a]
              IN  m \in Calls /\ m.at = a /\ m.kind = c.kind /\ m.n = c.n /\ m.asked = c.asked
                  /\ m.old = c.old /\ m.holding = c.holding
         /\ LET m == [c EXCEPT !.at = "served", !.asked = v]
            IN  m \in Calls /\ m.at = "served" /\ m.kind = c.kind /\ m.n = c.n /\ m.asked = v
                /\ m.old = c.old /\ m.holding = c.holding
  BY DEF Calls

(* So does one whose page has gone. *)
LEMMA OrphansAre == \A c \in Calls : [c EXCEPT !.kind = "orphan"] \in Calls /\ [c EXCEPT !.kind = "orphan"].kind = "orphan"
  BY DEF Calls

(* The invariant of the panels holds for each as it opens. *)
LEMMA PanelStarts == Panel!PanelInit => PanelInv
  <1> SUFFICES ASSUME Panel!PanelInit PROVE PanelInv
    OBVIOUS
  <1> DEFINE mounted == Panel!Mounted(s1)
  <1>1. /\ s1 \in Panel!Panels /\ s3 \in Panel!Values /\ s2 = "off" /\ s4 = mounted
        /\ s5 = Panel!FirstLoad(s1, 1) /\ s6 = 1 /\ s7 = "none" /\ s8 = FALSE /\ s9 = FALSE
        /\ s10 = PanelClicks /\ s11 = PanelFaults
    BY DEF Panel!PanelInit
  <1>2. mounted \in BOOLEAN
    BY DEF Panel!Mounted
  <1>3. /\ Panel!Load(1, mounted) \in Calls /\ Panel!Load(1, mounted).kind = "load"
        /\ Panel!Load(1, mounted).n = 1 /\ Panel!Load(1, mounted).holding = mounted
        /\ Panel!Load(1, mounted).at = "sent"
    BY <1>2 DEF Panel!Load, Calls, Panel!Values
  <1>4. s5 = (IF s1.load = "none" THEN {} ELSE {Panel!Load(1, mounted)})
    BY <1>1 DEF Panel!FirstLoad
  <1>5. s1.load \in {"lock", "hidden"} => mounted
    BY DEF Panel!Mounted
  <1> HIDE DEF mounted
  <1>6. PanelTypes
    BY <1>1, <1>2, <1>3, <1>4, BoundsAssumption DEF PanelTypes, Panel!Values
  <1>7. NoStrays
    BY <1>1, <1>3, <1>4 DEF NoStrays
  <1>8. OneCall
    <2> SUFFICES ASSUME OneAtATime(s1) PROVE OneCall
      BY DEF OneCall
    <2>1. mounted /\ s4 /\ s5 = {Panel!Load(1, mounted)}
      BY <1>1, <1>4, <1>5 DEF OneAtATime
    <2>2. Acts = {Panel!Load(1, mounted)} /\ ~AtRest
      BY <1>3, <2>1 DEF Acts, AtRest
    <2>3. CallKnows(Panel!Load(1, mounted))
      BY <1>1, <1>3, <2>1 DEF CallKnows
    <2> QED
      BY <1>1, <2>1, <2>2, <2>3 DEF OneCall
  <1>9. LatestLoad
    BY <1>1, <1>3, <1>4 DEF LatestLoad, LatestCounts, Newest
  <1> QED
    BY <1>6, <1>7, <1>8, <1>9 DEF PanelInv

(* The operator clicks. *)
LEMMA ClickKeeps ==
  ASSUME PanelInv, NEW v \in Panel!Values, Panel!Click(v)
  PROVE  PanelInv'
  <1> DEFINE c == Panel!Set(v)
  <1>1. /\ s10 > 0 /\ s10' = s10 - 1 /\ (s1.guard => ~s4)
        /\ s5' = s5 \union {c} /\ s4' = (s4 \/ s1.locks)
        /\ s2' = (IF s1.early THEN v ELSE s2) /\ s8' = (s8 \/ "click" \in s1.leaves)
        /\ UNCHANGED << s1, s3, s6, s7, s9, s11 >>
    BY DEF Panel!Click
  <1>2. PanelTypes /\ s10 \in Nat
    BY DEF PanelInv, PanelTypes
  <1>3. c \in Calls /\ c.kind = "set" /\ c.old = s2 /\ c.at = "sent"
    BY <1>2, CallsMade
  <1> HIDE DEF c
  <1>4. PanelTypes'
    <2>1. s4' \in BOOLEAN /\ s8' \in BOOLEAN
      BY <1>1, Zenon
    <2>2. s10' \in Nat
      BY <1>1, <1>2
    <2>3. s2' \in Panel!Values /\ s5' \in SUBSET Calls
      BY <1>1, <1>2, <1>3 DEF PanelTypes
    <2> QED
      BY <1>1, <1>2, <2>1, <2>2, <2>3, Zenon DEF PanelTypes
  <1>5. NoStrays'
    BY <1>1, <1>3 DEF NoStrays, PanelInv
  <1>6. OneCall'
    <2> SUFFICES ASSUME OneAtATime(s1), ~s9 PROVE OneCall'
      BY <1>1 DEF OneCall
    <2>0. ~s4
      BY <1>1, Zenon DEF OneAtATime
    <2>1. Acts = {} /\ s7 = "none" /\ s2 = s3
      BY <2>0, Zenon DEF PanelInv, OneCall, AtRest
    <2>2. Acts' = {c} /\ s5' \ Acts' = s5 \ Acts
      BY <1>1, <1>3, <2>1 DEF Acts
    <2>3. s4' /\ ~AtRest' /\ s7' = "none"
      BY <1>1, <2>1, <2>2 DEF OneAtATime, AtRest
    <2>4. ASSUME NEW a \in Acts' PROVE CallKnows(a)'
      <3>1. s1.leaves # {} => s8'
        BY <1>1, Zenon DEF OneAtATime
      <3>2. a.kind = "set" /\ a.at = "sent" /\ a.old = s3 /\ (s1.early \/ s2' = s3)
        BY <1>1, <1>3, <2>1, <2>2
      <3> QED
        BY <1>1, <3>1, <3>2 DEF CallKnows
    <2>5. ASSUME NEW p \in s5' \ Acts' PROVE PollKnows(p)'
      <3>1. p.n \in Nat /\ p.n >= s10
        BY <1>2, <2>2, <2>5 DEF PanelInv, OneCall, PollKnows, PanelTypes, Calls
      <3>2. s10' = s10 - 1
        BY <1>1
      <3>3. p.n >= s10' /\ p.n # s10'
        BY <1>2, <3>1, <3>2
      <3> QED
        BY <3>3 DEF PollKnows
    <2>6. \A a, e \in Acts' : a = e
      BY <2>2
    <2> QED
      BY <2>3, <2>4, <2>5, <2>6, Zenon DEF OneCall
  <1>7. LatestLoad'
    <2> SUFFICES ASSUME LatestCounts(s1), ~s9 PROVE LatestLoad'
      BY <1>1 DEF LatestLoad
    <2>1. s2' = s2
      BY <1>1 DEF LatestCounts
    <2> QED
      BY <1>1, <1>3, <2>1 DEF PanelInv, LatestLoad, Newest
  <1> QED
    BY <1>4, <1>5, <1>6, <1>7 DEF PanelInv

(* A poll begins. *)
LEMMA StartPollKeeps ==
  ASSUME PanelInv, Panel!StartPoll
  PROVE  PanelInv'
  <1> DEFINE c == Panel!Poll
  <1>1. /\ s1.polls # "none" /\ (s1.polls = "versioned" => ~s4)
        /\ s5' = s5 \union {c}
        /\ UNCHANGED << s1, s2, s3, s4, s6, s7, s8, s9, s10, s11 >>
    BY DEF Panel!StartPoll
  <1>2. PanelTypes /\ s10 \in Nat
    BY DEF PanelInv, PanelTypes
  <1>3. c \in Calls /\ c.kind = "poll" /\ c.n = s10 /\ c.at = "sent"
    BY <1>2, CallsMade
  <1> HIDE DEF c
  <1>4. PanelTypes'
    BY <1>1, <1>2, <1>3 DEF PanelTypes
  <1>5. NoStrays'
    BY <1>1, <1>3 DEF NoStrays, PanelInv
  <1>6. OneCall'
    <2> SUFFICES ASSUME OneAtATime(s1), ~s9 PROVE OneCall'
      BY <1>1 DEF OneCall
    <2>0. s1.polls = "versioned"
      BY <1>1 DEF OneAtATime
    <2>1. ~s4
      BY <1>1, <2>0, Zenon
    <2>2. AtRest
      BY <2>1, Zenon DEF PanelInv, OneCall
    <2>3. Acts' = Acts /\ s5' \ Acts' = (s5 \ Acts) \union {c} /\ (AtRest <=> AtRest')
      BY <1>1, <1>3 DEF Acts, AtRest
    <2>4. ASSUME NEW a \in Acts' PROVE CallKnows(a)'
      BY <1>1, <2>3, <2>4 DEF PanelInv, OneCall, CallKnows
    <2>5. ASSUME NEW p \in s5' \ Acts' PROVE PollKnows(p)'
      <3>1. CASE p = c
        BY <1>1, <1>2, <1>3, <2>2, <2>3, <3>1 DEF PollKnows
      <3>2. CASE p \in s5 \ Acts
        BY <1>1, <2>3, <3>2 DEF PanelInv, OneCall, PollKnows
      <3> QED
        BY <2>3, <2>5, <3>1, <3>2
    <2>6. \A a, e \in Acts' : a = e
      BY <2>3 DEF PanelInv, OneCall
    <2> QED
      BY <1>1, <2>2, <2>3, <2>4, <2>5, <2>6, Zenon DEF PanelInv, OneCall
  <1>7. LatestLoad'
    BY <1>1 DEF LatestLoad, LatestCounts
  <1> QED
    BY <1>4, <1>5, <1>6, <1>7 DEF PanelInv

(* What was held back is shown. *)
LEMMA TimerKeeps ==
  ASSUME PanelInv, Panel!TimerFires
  PROVE  PanelInv'
  <1>1. /\ s7 # "none" /\ s7' = "none" /\ s4' = FALSE
        /\ s2' = (IF s1.shows THEN s7 ELSE s2)
        /\ UNCHANGED << s1, s3, s5, s6, s8, s9, s10, s11 >>
    BY DEF Panel!TimerFires
  <1>2. PanelTypes
    BY DEF PanelInv
  <1>3. PanelTypes'
    BY <1>1, <1>2 DEF PanelTypes
  <1>4. NoStrays'
    BY <1>1 DEF NoStrays, PanelInv
  <1>5. OneCall'
    <2> SUFFICES ASSUME OneAtATime(s1), ~s9 PROVE OneCall'
      BY <1>1 DEF OneCall
    <2>1. s7 = s3 /\ s1.shows /\ ~s8 /\ Acts = {}
      BY <1>1 DEF PanelInv, OneCall
    <2>2. s2' = s3 /\ Acts' = {} /\ s5' \ Acts' = s5 \ Acts /\ AtRest' /\ ~AtRest
      BY <1>1, <2>1 DEF Acts, AtRest
    <2>3. ASSUME NEW p \in s5' \ Acts' PROVE PollKnows(p)'
      BY <1>1, <2>2, <2>3 DEF PanelInv, OneCall, PollKnows
    <2> QED
      BY <1>1, <2>2, <2>3 DEF OneCall
  <1>6. LatestLoad'
    <2> SUFFICES ASSUME LatestCounts(s1), ~s9 PROVE LatestLoad'
      BY <1>1 DEF LatestLoad
    <2>1. s2' = s2
      BY <1>1 DEF LatestCounts
    <2> QED
      BY <1>1, <2>1 DEF PanelInv, LatestLoad, Newest
  <1> QED
    BY <1>3, <1>4, <1>5, <1>6 DEF PanelInv

(* The page is left for another, or loaded again. *)
LEMMA ReloadKeeps ==
  ASSUME PanelInv, Panel!Reload
  PROVE  PanelInv'
  <1> DEFINE orphans == {[x EXCEPT !.kind = "orphan"] :
                           x \in {y \in s5 : y.kind \in {"set", "orphan"} /\ y.at = "sent"}}
             mounted == Panel!Mounted(s1)
             first == Panel!Load(s6 + 1, mounted)
  <1>1. /\ s8' = FALSE /\ s7' = "none" /\ s2' = "off" /\ s4' = mounted /\ s6' = s6 + 1
        /\ s5' = orphans \union Panel!FirstLoad(s1, s6 + 1)
        /\ s9' = (orphans # {})
        /\ UNCHANGED << s1, s3, s10, s11 >>
    BY DEF Panel!Reload
  <1>2. PanelTypes /\ s6 \in Nat /\ s6 + 1 \in Nat
    BY DEF PanelInv, PanelTypes
  <1>3. mounted \in BOOLEAN
    BY DEF Panel!Mounted
  <1>4. first \in Calls /\ first.kind = "load" /\ first.n = s6 + 1 /\ first.holding = mounted /\ first.at = "sent"
    BY <1>2, <1>3, CallsMade
  <1>5. Panel!FirstLoad(s1, s6 + 1) = (IF s1.load = "none" THEN {} ELSE {first})
    BY DEF Panel!FirstLoad
  <1>6. s1.load \in {"lock", "hidden"} => mounted
    BY DEF Panel!Mounted
  <1>7. orphans \subseteq Calls /\ \A c \in orphans : c.kind = "orphan"
    <2>1. s5 \subseteq Calls
      BY <1>2 DEF PanelTypes
    <2> QED
      BY <2>1, OrphansAre
  <1> HIDE DEF orphans, mounted, first
  <1>8. s5' \subseteq orphans \union {first} /\ (~s9' => s5' \subseteq {first})
        /\ (~s9' /\ s1.load # "none" => s5' = {first})
    BY <1>1, <1>5
  <1>9. PanelTypes'
    <2>1. s9' \in BOOLEAN
      BY <1>1, Zenon
    <2> QED
      BY <1>1, <1>2, <1>3, <1>4, <1>7, <1>8, <2>1 DEF PanelTypes, Panel!Values
  <1>10. NoStrays'
    BY <1>1, <1>4, <1>7, <1>8 DEF NoStrays
  <1>11. OneCall'
    <2> SUFFICES ASSUME OneAtATime(s1), ~s9' PROVE OneCall'
      BY <1>1 DEF OneCall
    <2>1. mounted /\ s4' /\ s5' = {first}
      BY <1>1, <1>6, <1>8 DEF OneAtATime
    <2>2. Acts' = {first} /\ ~AtRest' /\ s5' \ Acts' = {}
      BY <1>4, <2>1 DEF Acts, AtRest
    <2>3. ASSUME NEW a \in Acts' PROVE CallKnows(a)'
      BY <1>1, <1>4, <2>1, <2>2, <2>3 DEF CallKnows
    <2> QED
      BY <1>1, <2>1, <2>2, <2>3 DEF OneCall
  <1>12. LatestLoad'
    <2> SUFFICES ASSUME LatestCounts(s1), ~s9' PROVE LatestLoad'
      BY <1>1 DEF LatestLoad
    <2>1. s5' = {first}
      BY <1>8 DEF LatestCounts
    <2> QED
      BY <1>1, <1>2, <1>4, <2>1 DEF LatestLoad, Newest
  <1> QED
    BY <1>9, <1>10, <1>11, <1>12 DEF PanelInv

(* A call is carried out or refused, and the page does not know it yet.       *)
LEMMA MoveKeeps ==
  ASSUME PanelInv, NEW c \in s5, NEW m, m \in Calls, c.at = "sent", m.at # "sent",
         m.kind = c.kind, m.n = c.n, m.old = c.old, m.holding = c.holding,
         m.at = "served" => m.asked = s3' \/ (c.kind = "set" /\ s1.flips),
         s5' = (s5 \ {c}) \union {m},
         \/ s3' = s3
         \/ c.kind = "set" /\ m.at = "served",
         s11' \in Nat,
         s3' \in Panel!Values,
         UNCHANGED << s1, s2, s4, s6, s7, s8, s9, s10 >>
  PROVE  PanelInv'
  <1>2. PanelTypes /\ s5 \subseteq Calls
    BY DEF PanelInv, PanelTypes
  <1>3. PanelTypes'
    BY <1>2 DEF PanelTypes
  <1>4. NoStrays'
    BY DEF NoStrays, PanelInv
  <1>5. OneCall'
    <2> SUFFICES ASSUME OneAtATime(s1), ~s9 PROVE OneCall'
      BY DEF OneCall
    <2>1. CASE c.kind = "poll"
      <3>1. Acts' = Acts /\ (AtRest <=> AtRest') /\ s3' = s3 /\ s5' \ Acts' \subseteq (s5 \ Acts) \union {m} /\ c \in s5 \ Acts
        BY <2>1 DEF Acts, AtRest
      <3>2. ASSUME NEW a \in Acts' PROVE CallKnows(a)'
        BY <3>1, <3>2 DEF PanelInv, OneCall, CallKnows
      <3>3. ASSUME NEW p \in s5' \ Acts' PROVE PollKnows(p)'
        <4>1. CASE p = m
          BY <2>1, <3>1, <4>1 DEF PanelInv, OneCall, PollKnows
        <4>2. CASE p \in s5 \ Acts
          BY <3>1, <4>2 DEF PanelInv, OneCall, PollKnows
        <4> QED
          BY <3>1, <3>3, <4>1, <4>2
      <3>4. \A a, e \in Acts' : a = e
        BY <3>1 DEF PanelInv, OneCall
      <3> QED
        BY <3>1, <3>2, <3>3, <3>4 DEF PanelInv, OneCall
    <2>2. CASE c.kind # "poll"
      <3>1. Acts = {c} /\ ~AtRest /\ s7 = "none"
        BY <2>2 DEF PanelInv, OneCall, Acts, AtRest
      <3>2. Acts' = {m} /\ ~AtRest' /\ s5' \ Acts' = s5 \ Acts
        BY <2>2, <3>1 DEF Acts, AtRest
      <3>3. s4
        BY <3>1, Zenon DEF PanelInv, OneCall
      <3>4. CallKnows(c)
        BY <3>1 DEF PanelInv, OneCall
      <3>5. ASSUME NEW a \in Acts' PROVE CallKnows(a)'
        BY <3>2, <3>4, <3>5 DEF CallKnows, OneAtATime
      <3>6. ASSUME NEW p \in s5' \ Acts' PROVE PollKnows(p)'
        BY <3>1, <3>2, <3>6 DEF PanelInv, OneCall, PollKnows
      <3>7. \A a, e \in Acts' : a = e
        BY <3>2
      <3> QED
        BY <3>1, <3>2, <3>3, <3>5, <3>6, <3>7 DEF OneCall
    <2> QED
      BY <2>1, <2>2
  <1>6. LatestLoad'
    <2> SUFFICES ASSUME LatestCounts(s1), ~s9 PROVE LatestLoad'
      BY DEF LatestLoad
    <2>0. /\ \A e \in s5 : e.kind = "load" => e.n <= s6
          /\ \A d, e \in s5 : d.kind = "load" /\ e.kind = "load" /\ d.n = e.n => d = e
      BY DEF PanelInv, LatestLoad
    <2>1. \A e \in s5' : e.kind = "load" => e.n <= s6
      BY <2>0
    <2>2. \A d, e \in s5' : d.kind = "load" /\ e.kind = "load" /\ d.n = e.n => d = e
      BY <2>0
    <2>3. CASE c.kind = "set" /\ m.at = "served"
      BY <2>1, <2>2, <2>3 DEF LatestLoad
    <2>4. CASE s3' = s3
      <3>1. ASSUME NEW e \in s5, e.kind = "set", e.at = "served"
            PROVE  \E d \in s5' : d.kind = "set" /\ d.at = "served"
        BY <3>1
      <3>2. ASSUME NEW e \in s5, Newest(e), e.at = "served" => e.asked = s3
            PROVE  \E d \in s5' : Newest(d)' /\ (d.at = "served" => d.asked = s3')
        BY <2>4, <3>2 DEF Newest
      <3>3. (\A d \in s5 : ~Newest(d)) => \A d \in s5' : ~Newest(d)'
        BY DEF Newest
      <3> QED
        BY <2>1, <2>2, <2>4, <3>1, <3>2, <3>3 DEF PanelInv, LatestLoad
    <2> QED
      BY <2>3, <2>4
  <1> QED
    BY <1>3, <1>4, <1>5, <1>6 DEF PanelInv

(* The device refuses a call. *)
LEMMA RefuseKeeps ==
  ASSUME PanelInv, NEW c \in s5, Panel!Refuse(c)
  PROVE  PanelInv'
  <1> DEFINE m == [c EXCEPT !.at = "refused"]
  <1>1. /\ c.at = "sent" /\ s11 > 0 /\ s11' = s11 - 1 /\ s5' = (s5 \ {c}) \union {m}
        /\ UNCHANGED << s1, s2, s3, s4, s6, s7, s8, s9, s10 >>
    BY DEF Panel!Refuse
  <1>2. c \in Calls /\ s11' \in Nat /\ s3 \in Panel!Values
    BY <1>1 DEF PanelInv, PanelTypes
  <1>3. /\ m \in Calls /\ m.at = "refused" /\ m.kind = c.kind /\ m.n = c.n /\ m.old = c.old
        /\ m.holding = c.holding
    BY <1>2, CallsMove
  <1> HIDE DEF m
  <1> QED
    BY <1>1, <1>2, <1>3, MoveKeeps

(* The device carries one out. *)
LEMMA ServeKeeps ==
  ASSUME PanelInv, NEW c \in s5, Panel!Serve(c)
  PROVE  PanelInv'
  <1>1. c.at = "sent" /\ UNCHANGED << s1, s2, s4, s6, s7, s8, s9, s10, s11 >>
    BY DEF Panel!Serve
  <1>2. c \in Calls /\ c.asked \in Panel!Values /\ s11 \in Nat /\ s3 \in Panel!Values
    BY DEF PanelInv, PanelTypes, Calls
  <1>3. CASE c.kind = "orphan"
    <2>1. s5' = s5 \ {c} /\ s3' = (IF s1.flips THEN Panel!Other(s3) ELSE c.asked)
      BY <1>3 DEF Panel!Serve
    <2>2. s3' \in Panel!Values
      BY <1>2, <2>1 DEF Panel!Other, Panel!Values
    <2>3. s9
      BY <1>3 DEF PanelInv, NoStrays
    <2>4. PanelTypes'
      BY <1>1, <2>1, <2>2 DEF PanelInv, PanelTypes
    <2>5. NoStrays'
      BY <1>1, <2>1 DEF PanelInv, NoStrays
    <2> QED
      BY <1>1, <2>3, <2>4, <2>5 DEF PanelInv, OneCall, LatestLoad
  <1>4. CASE c.kind = "set"
    <2> DEFINE m == [c EXCEPT !.at = "served"]
    <2>1. s5' = (s5 \ {c}) \union {m} /\ s3' = (IF s1.flips THEN Panel!Other(s3) ELSE c.asked)
      BY <1>4 DEF Panel!Serve
    <2>2. /\ m \in Calls /\ m.at = "served" /\ m.kind = c.kind /\ m.n = c.n /\ m.old = c.old
          /\ m.holding = c.holding /\ m.asked = c.asked
      BY <1>2, CallsMove
    <2>3. s3' \in Panel!Values
      BY <1>2, <2>1 DEF Panel!Other, Panel!Values
    <2>4. m.asked = s3' \/ s1.flips
      BY <2>1, <2>2
    <2> HIDE DEF m
    <2> QED
      BY <1>1, <1>2, <1>4, <2>1, <2>2, <2>3, <2>4, MoveKeeps
  <1>5. CASE c.kind \in {"load", "poll"}
    <2> DEFINE m == [c EXCEPT !.at = "served", !.asked = s3]
    <2>1. s5' = (s5 \ {c}) \union {m} /\ s3' = s3
      BY <1>5 DEF Panel!Serve
    <2>2. /\ m \in Calls /\ m.at = "served" /\ m.kind = c.kind /\ m.n = c.n /\ m.old = c.old
          /\ m.holding = c.holding /\ m.asked = s3
      BY <1>2, CallsMove
    <2> HIDE DEF m
    <2> QED
      BY <1>1, <1>2, <2>1, <2>2, MoveKeeps
  <1> QED
    BY <1>2, <1>3, <1>4, <1>5 DEF Calls

\* How a call ends: only one that is lost, or a load that is refused, is trouble.
LEMMA EndIs ==
  ASSUME PanelInv, NEW c \in s5, NEW o \in Panel!Outcomes, Panel!EndsAs(c, o)
  PROVE  /\ s11' \in Nat /\ s9' \in BOOLEAN
         /\ ~s9' => ~s9 /\ \/ o = "ok" /\ c.at = "served"
                           \/ o = "refused" /\ c.at = "refused" /\ c.kind # "load"
  <1>1. s9 \in BOOLEAN /\ s11 \in Nat
    BY DEF PanelInv, PanelTypes
  <1>2. CASE o = "ok" /\ c.at = "served" /\ s9' = s9 /\ s11' = s11
    BY <1>1, <1>2
  <1>3. CASE o = "refused" /\ c.at = "refused" /\ s11' = s11 /\ s9' = (s9 \/ c.kind = "load")
    <2>1. s9' \in BOOLEAN /\ (~s9' => ~s9 /\ c.kind # "load")
      BY <1>3, Zenon
    <2> QED
      BY <1>1, <1>3, <2>1
  <1>4. CASE o = "lost" /\ s11 > 0 /\ s11' = s11 - 1 /\ s9' = TRUE
    BY <1>1, <1>4
  <1> QED
    BY <1>2, <1>3, <1>4, Zenon DEF Panel!EndsAs

\* The poll of a panel is shown if nothing was clicked since it was made.
LEMMA PollEndsKeeps ==
  ASSUME PanelInv, NEW c \in s5, NEW o \in Panel!Outcomes, Panel!PollEnds(c, o)
  PROVE  PanelInv'
  <1>1. /\ c.kind = "poll" /\ Panel!EndsAs(c, o) /\ s5' = s5 \ {c}
        /\ s2' = (IF o = "ok" /\ (s1.polls = "versioned" => c.n = s10) THEN c.asked ELSE s2)
        /\ UNCHANGED << s1, s3, s4, s6, s7, s8, s10 >>
    BY DEF Panel!PollEnds
  <1>2. PanelTypes /\ c \in Calls /\ c.asked \in Panel!Values
    BY DEF PanelInv, PanelTypes, Calls
  <1>3. /\ s11' \in Nat /\ s9' \in BOOLEAN
        /\ ~s9' => ~s9 /\ (o = "ok" => c.at = "served")
    BY <1>1, EndIs
  <1>4. PanelTypes'
    BY <1>1, <1>2, <1>3 DEF PanelTypes
  <1>5. NoStrays' /\ s1.polls # "none"
    BY <1>1, <1>3 DEF PanelInv, NoStrays
  <1>6. OneCall'
    <2> SUFFICES ASSUME OneAtATime(s1), ~s9' PROVE OneCall'
      BY <1>1 DEF OneCall
    <2>1. Acts' = Acts /\ s5' \ Acts' \subseteq s5 \ Acts /\ (AtRest <=> AtRest') /\ c \in s5 \ Acts
      BY <1>1 DEF Acts, AtRest
    <2>2. s1.polls = "versioned"
      BY <1>5 DEF OneAtATime
    <2>3. o = "ok" /\ c.n = s10 => AtRest /\ c.asked = s3
      BY <1>3, <2>1 DEF PanelInv, OneCall, PollKnows
    <2>4. s2' = s2 \/ (AtRest /\ s2' = s3)
      BY <1>1, <2>2, <2>3
    <2>5. ~s9
      BY <1>3
    <2>6. AtRest' => s2' = s3
      BY <2>1, <2>4, <2>5 DEF PanelInv, OneCall
    <2>7. ASSUME NEW a \in Acts' PROVE CallKnows(a)'
      <3>1. ~AtRest /\ CallKnows(a)
        BY <2>1, <2>5, <2>7 DEF PanelInv, OneCall, AtRest
      <3>2. s2' = s2
        BY <2>4, <3>1
      <3> QED
        BY <1>1, <3>1, <3>2 DEF CallKnows
    <2>8. ASSUME NEW p \in s5' \ Acts' PROVE PollKnows(p)'
      BY <1>1, <2>1, <2>5, <2>8 DEF PanelInv, OneCall, PollKnows
    <2>9. /\ \A a, e \in Acts' : a = e
          /\ ~s4' => AtRest'
          /\ Acts' # {} => s7' = "none"
          /\ s7' # "none" => s7' = s3' /\ s1.shows /\ ~s8'
      BY <1>1, <2>1, <2>5 DEF PanelInv, OneCall
    <2> QED
      BY <1>1, <2>6, <2>7, <2>8, <2>9 DEF OneCall
  <1>7. LatestLoad'
    BY <1>1, <1>5 DEF LatestLoad, LatestCounts
  <1> QED
    BY <1>4, <1>5, <1>6, <1>7 DEF PanelInv

(* A load ends: it is shown, or a later one counts. *)
LEMMA LoadEndsKeeps ==
  ASSUME PanelInv, NEW c \in s5, NEW o \in Panel!Outcomes, Panel!LoadEnds(c, o)
  PROVE  PanelInv'
  <1> DEFINE overtaken == s1.load = "latest" /\ c.n # s6
  <1>1. /\ c.kind = "load" /\ Panel!EndsAs(c, o) /\ s5' = s5 \ {c}
        /\ s2' = (IF o = "ok" /\ ~overtaken THEN c.asked ELSE s2)
        /\ s4' = (s4 /\ ~(c.holding /\ o \in s1.loadFrees /\ (s1.load = "hidden" => o = "ok")))
        /\ UNCHANGED << s1, s3, s6, s7, s8, s10 >>
    BY DEF Panel!LoadEnds
  <1>2. PanelTypes /\ c \in Calls /\ c.asked \in Panel!Values
    BY DEF PanelInv, PanelTypes, Calls
  <1>3. /\ s11' \in Nat /\ s9' \in BOOLEAN
        /\ ~s9' => ~s9 /\ o = "ok" /\ c.at = "served"
    BY <1>1, EndIs
  <1>4. PanelTypes'
    <2>1. s4' \in BOOLEAN
      BY <1>1, Zenon
    <2> QED
      BY <1>1, <1>2, <1>3, <2>1 DEF PanelTypes
  <1>5. NoStrays'
    BY <1>1, <1>3 DEF PanelInv, NoStrays
  <1>6. OneCall'
    <2> SUFFICES ASSUME OneAtATime(s1), ~s9' PROVE OneCall'
      BY <1>1 DEF OneCall
    <2>1. ~s9 /\ o = "ok" /\ c.at = "served" /\ ~overtaken
      BY <1>3 DEF OneAtATime
    <2>2. Acts = {c} /\ s7 = "none" /\ CallKnows(c)
      BY <1>1, <2>1 DEF PanelInv, OneCall, Acts
    <2>3. c.asked = s3 /\ c.holding /\ ~s8
      BY <1>1, <2>1, <2>2 DEF CallKnows
    <2>4. s2' = s3
      BY <1>1, <2>1, <2>3
    <2>5. Acts' = {} /\ s5' \ Acts' = s5 \ Acts /\ AtRest' /\ ~AtRest
      BY <1>1, <2>2, <2>3 DEF Acts, AtRest
    <2>6. ASSUME NEW p \in s5' \ Acts' PROVE PollKnows(p)'
      BY <1>1, <2>1, <2>5, <2>6 DEF PanelInv, OneCall, PollKnows
    <2> QED
      BY <1>1, <2>2, <2>4, <2>5, <2>6 DEF OneCall
  <1>7. LatestLoad'
    <2> SUFFICES ASSUME LatestCounts(s1), ~s9' PROVE LatestLoad'
      BY <1>1 DEF LatestLoad
    <2>0. s1.load = "latest" /\ ~s9 /\ o = "ok" /\ c.at = "served"
      BY <1>3 DEF LatestCounts
    <2>1. /\ \A e \in s5 : e.kind = "load" => e.n <= s6
          /\ \A d, e \in s5 : d.kind = "load" /\ e.kind = "load" /\ d.n = e.n => d = e
      BY <2>0 DEF PanelInv, LatestLoad
    <2>2. ASSUME NEW e \in s5, e.kind = "set", e.at = "served"
          PROVE  \E d \in s5' : d.kind = "set" /\ d.at = "served"
      BY <1>1, <2>2
    <2>3. CASE c.n # s6
      <3>1. s2' = s2
        BY <1>1, <2>0, <2>3
      <3>2. ASSUME NEW e \in s5, Newest(e), e.at = "served" => e.asked = s3
            PROVE  \E d \in s5' : Newest(d)' /\ (d.at = "served" => d.asked = s3')
        BY <1>1, <2>3, <3>2 DEF Newest
      <3>3. (\A d \in s5 : ~Newest(d)) => \A d \in s5' : ~Newest(d)'
        BY <1>1 DEF Newest
      <3> QED
        BY <1>1, <2>0, <2>1, <2>2, <3>1, <3>2, <3>3 DEF PanelInv, LatestLoad
    <2>4. CASE c.n = s6
      <3>1. s2' = c.asked
        BY <1>1, <2>0, <2>4
      <3>2. ASSUME NEW e \in s5, Newest(e), e.at = "served" => e.asked = s3
            PROVE  s2' = s3
        BY <1>1, <2>0, <2>1, <2>4, <3>1, <3>2 DEF Newest
      <3>3. \A d \in s5' : ~Newest(d)'
        BY <1>1, <2>1, <2>4 DEF Newest
      <3>4. ~ \A d \in s5 : ~Newest(d)
        BY <1>1, <2>4 DEF Newest
      <3> QED
        BY <1>1, <2>0, <2>1, <2>2, <3>2, <3>3, <3>4 DEF PanelInv, LatestLoad
    <2> QED
      BY <2>3, <2>4
  <1> QED
    BY <1>4, <1>5, <1>6, <1>7 DEF PanelInv

(* A change ends: what it asked for is shown, or what there was. *)
LEMMA SetEndsKeeps ==
  ASSUME PanelInv, NEW c \in s5, NEW o \in Panel!Outcomes, Panel!SetEnds(c, o)
  PROVE  PanelInv'
  <1> DEFINE again == o \in s1.rereads
             freed == o \in s1.frees \ s1.delays /\ ~(again /\ s1.holds)
             load == Panel!Load(s6 + 1, s1.holds)
             orphan == [c EXCEPT !.kind = "orphan"]
  <1>1. /\ c.kind = "set" /\ Panel!EndsAs(c, o)
        /\ s6' = (IF again THEN s6 + 1 ELSE s6)
        /\ s5' = Panel!Without(c, o) \union (IF again THEN {load} ELSE {})
        /\ s7' = (IF o \in s1.delays THEN c.asked ELSE s7)
        /\ s2' = (IF o = "ok" /\ s1.shows /\ o \notin s1.delays THEN c.asked
                  ELSE IF o \in s1.restores THEN c.old ELSE s2)
        /\ s4' = (s4 /\ ~freed)
        /\ s8' = (IF o \in s1.frees /\ s1.leaves # {} THEN FALSE ELSE s8 \/ o \in s1.leaves)
        /\ UNCHANGED << s1, s3, s10 >>
    BY DEF Panel!SetEnds
  <1>2. PanelTypes /\ c \in Calls /\ c.asked \in Panel!Values /\ c.old \in Panel!Values /\ s6 \in Nat
    BY DEF PanelInv, PanelTypes, Calls
  <1>3. /\ s11' \in Nat /\ s9' \in BOOLEAN
        /\ ~s9' => ~s9 /\ o # "lost" /\ (o = "ok" => c.at = "served") /\ (o # "ok" => c.at = "refused" /\ o = "refused")
    BY <1>1, EndIs
  <1>0. s1.holds \in BOOLEAN
    BY <1>2, HoldsIs DEF PanelTypes
  <1>4. load \in Calls /\ load.kind = "load" /\ load.n = s6 + 1 /\ load.at = "sent"
    BY <1>0, <1>2, CallsMade
  <1>5. orphan \in Calls /\ orphan.kind = "orphan"
    BY <1>2, OrphansAre
  <1>6. /\ Panel!Without(c, o) \subseteq (s5 \ {c}) \union {orphan}
        /\ o # "lost" => Panel!Without(c, o) = s5 \ {c}
    BY DEF Panel!Without
  <1> HIDE DEF load, orphan
  <1>7. PanelTypes'
    <2>1. s4' \in BOOLEAN /\ s8' \in BOOLEAN
      BY <1>1, <1>2, Zenon DEF PanelTypes
    <2>2. s5' \in SUBSET Calls
      BY <1>1, <1>2, <1>4, <1>5, <1>6 DEF PanelTypes
    <2>3. s6' \in Nat
      BY <1>1, <1>2
    <2>4. s2' \in Panel!Values /\ s7' \in Panel!Values \union {"none"}
      BY <1>1, <1>2 DEF PanelTypes
    <2> QED
      BY <1>1, <1>2, <1>3, <2>1, <2>2, <2>3, <2>4, Zenon DEF PanelTypes
  <1>8. NoStrays'
    <2>1. ~s9' => \A e \in s5' : e.kind # "orphan"
      BY <1>1, <1>3, <1>4, <1>6 DEF PanelInv, NoStrays
    <2>2. s1.polls = "none" => \A e \in s5' : e.kind # "poll"
      BY <1>1, <1>4, <1>5, <1>6 DEF PanelInv, NoStrays
    <2>3. s8' => s1.leaves # {}
      BY <1>1, Zenon DEF PanelInv, NoStrays
    <2> QED
      BY <1>1, <2>1, <2>2, <2>3, Zenon DEF NoStrays
  <1>9. OneCall'
    <2> SUFFICES ASSUME OneAtATime(s1), ~s9' PROVE OneCall'
      BY <1>1 DEF OneCall
    <2>1. ~s9 /\ o # "lost" /\ ~again
      BY <1>3 DEF OneAtATime
    <2>2. Acts = {c} /\ s7 = "none" /\ CallKnows(c)
      BY <1>1, <2>1 DEF PanelInv, OneCall, Acts
    <2>3. s4
      BY <2>1, <2>2 DEF PanelInv, OneCall, AtRest
    <2>4. s5' = s5 \ {c}
      BY <1>1, <1>6, <2>1
    <2>5. Acts' = {} /\ s5' \ Acts' = s5 \ Acts /\ ~AtRest
      BY <1>1, <2>2, <2>4 DEF Acts, AtRest
    <2>6. ASSUME NEW p \in s5' \ Acts' PROVE PollKnows(p)'
      BY <1>1, <2>1, <2>5, <2>6 DEF PanelInv, OneCall, PollKnows
    <2>7. s1.leaves = {} => ~s8
      BY DEF PanelInv, NoStrays
    <2>8. s1.leaves # {} => s8 /\ s1.leaves = {"click"}
      BY <1>1, <2>2 DEF CallKnows, OneAtATime
    <2>9. (~s4' => ~s8') /\ (s1.leaves = {} => ~s8') /\ (o \notin s1.frees /\ s1.leaves # {} => s8')
      <3>1. o # "click"
        BY DEF Panel!Outcomes
      <3>2. o \notin s1.leaves
        BY <2>8, <3>1
      <3>3. ~s4' => o \in s1.frees
        BY <1>1, <2>3, Zenon
      <3> QED
        BY <1>1, <2>7, <2>8, <3>2, <3>3, Zenon
    <2>10. CASE o = "ok"
      <3>1. c.asked = s3 /\ "ok" \notin s1.restores
        BY <1>1, <1>3, <2>2, <2>10 DEF CallKnows, OneAtATime
      <3>2. CASE o \in s1.delays
        <4>1. s7' = s3 /\ s1.shows /\ s1.leaves = {} /\ s7' # "none" /\ ~AtRest'
          BY <1>1, <1>2, <3>1, <3>2 DEF OneAtATime, Panel!Values, AtRest
        <4>2. s4'
          BY <1>1, <2>3, <3>2, Zenon
        <4> QED
          BY <1>1, <2>5, <2>6, <2>9, <4>1, <4>2 DEF OneCall
      <3>3. CASE o \notin s1.delays
        <4>1. s7' = "none" /\ (s1.shows => s2' = s3)
          BY <1>1, <2>2, <2>10, <3>1, <3>3
        <4>2. AtRest' <=> ~s8'
          BY <2>5, <4>1 DEF AtRest
        <4>3. s1.shows \/ (s8' /\ s4')
          <5>1. s1.shows \/ (s1.leaves # {} /\ o \notin s1.frees)
            BY <2>10 DEF OneAtATime
          <5> QED
            BY <2>9, <5>1, <1>1, <2>3, Zenon
        <4> QED
          BY <1>1, <2>5, <2>6, <2>9, <4>1, <4>2, <4>3 DEF OneCall
      <3> QED
        BY <3>2, <3>3
    <2>11. CASE o = "refused"
      <3>1. c.old = s3 /\ (s1.early \/ s2 = s3)
        BY <1>1, <1>3, <2>2, <2>11 DEF CallKnows
      <3>2. s2' = s3 /\ s7' = "none"
        BY <1>1, <2>2, <2>11, <3>1 DEF OneAtATime
      <3>3. AtRest' <=> ~s8'
        BY <2>5, <3>2 DEF AtRest
      <3> QED
        BY <1>1, <2>5, <2>6, <2>9, <3>2, <3>3 DEF OneCall
    <2> QED
      BY <2>1, <2>10, <2>11 DEF Panel!Outcomes
  <1>10. LatestLoad'
    <2> SUFFICES ASSUME LatestCounts(s1), ~s9' PROVE LatestLoad'
      BY <1>1 DEF LatestLoad
    <2>0. ~s9 /\ o # "lost" /\ (again <=> o = "ok")
      BY <1>3 DEF LatestCounts
    <2>1. /\ \A e \in s5 : e.kind = "load" => e.n <= s6 /\ e.n \in Nat
          /\ \A d, e \in s5 : d.kind = "load" /\ e.kind = "load" /\ d.n = e.n => d = e
      BY <1>2, <2>0 DEF PanelInv, LatestLoad, PanelTypes, Calls
    <2>2. CASE o = "ok"
      <3>1. s5' = (s5 \ {c}) \union {load} /\ s6' = s6 + 1
        BY <1>1, <1>6, <2>0, <2>2
      <3>2. \A e \in s5' : e.kind = "load" => e.n <= s6'
        BY <1>2, <1>4, <2>1, <3>1
      <3>3. \A d, e \in s5' : d.kind = "load" /\ e.kind = "load" /\ d.n = e.n => d = e
        BY <1>2, <1>4, <2>1, <3>1
      <3>4. \E e \in s5' : Newest(e)' /\ (e.at = "served" => e.asked = s3')
        BY <1>4, <3>1 DEF Newest
      <3> QED
        BY <3>2, <3>3, <3>4 DEF LatestLoad
    <2>3. CASE o = "refused"
      <3>1. s5' = s5 \ {c} /\ s6' = s6 /\ s2' = s2 /\ c.at = "refused"
        BY <1>1, <1>3, <1>6, <2>0, <2>3 DEF LatestCounts
      <3>2. ASSUME NEW e \in s5, e.kind = "set", e.at = "served"
            PROVE  \E d \in s5' : d.kind = "set" /\ d.at = "served"
        BY <3>1, <3>2
      <3>3. ASSUME NEW e \in s5, Newest(e), e.at = "served" => e.asked = s3
            PROVE  \E d \in s5' : Newest(d)' /\ (d.at = "served" => d.asked = s3')
        BY <1>1, <3>1, <3>3 DEF Newest
      <3>4. (\A d \in s5 : ~Newest(d)) => \A d \in s5' : ~Newest(d)'
        BY <3>1 DEF Newest
      <3> QED
        BY <1>1, <2>0, <2>1, <3>1, <3>2, <3>3, <3>4 DEF PanelInv, LatestLoad
    <2> QED
      BY <2>0, <2>2, <2>3 DEF Panel!Outcomes
  <1> QED
    BY <1>7, <1>8, <1>9, <1>10 DEF PanelInv

(* Every click, answer and fault keeps the invariant of the panels. *)
LEMMA PanelKeeps == PanelInv /\ [Panel!PanelNext]_Panel!panelVars => PanelInv'
  <1> SUFFICES ASSUME PanelInv, [Panel!PanelNext]_Panel!panelVars PROVE PanelInv'
    OBVIOUS
  <1>1. ASSUME NEW v \in Panel!Values, Panel!Click(v) PROVE PanelInv'
    BY <1>1, ClickKeeps
  <1>2. ASSUME NEW c \in s5, Panel!Serve(c) \/ Panel!Refuse(c) PROVE PanelInv'
    BY <1>2, ServeKeeps, RefuseKeeps
  <1>3. ASSUME NEW c \in s5, Panel!Ends(c) PROVE PanelInv'
    BY <1>3, SetEndsKeeps, LoadEndsKeeps, PollEndsKeeps DEF Panel!Ends
  <1>4. CASE UNCHANGED Panel!panelVars
    <2>1. UNCHANGED << s1, s2, s3, s4, s5, s6, s7, s8, s9, s10, s11 >>
      BY <1>4 DEF Panel!panelVars
    <2>2. Acts' = Acts /\ (AtRest <=> AtRest')
      BY <2>1 DEF Acts, AtRest
    <2>3. PanelTypes' /\ NoStrays'
      BY <2>1 DEF PanelInv, PanelTypes, NoStrays
    <2>4. OneCall'
      BY <2>1, <2>2 DEF PanelInv, OneCall, CallKnows, PollKnows
    <2>5. LatestLoad'
      BY <2>1 DEF PanelInv, LatestLoad, Newest
    <2> QED
      BY <2>3, <2>4, <2>5 DEF PanelInv
  <1> QED
    BY <1>1, <1>2, <1>3, <1>4, StartPollKeeps, TimerKeeps, ReloadKeeps DEF Panel!PanelNext

(* It has in it what the panels promise. *)
LEMMA PanelPromises == PanelInv => Panel!PanelTypeOK /\ Panel!ShownIsTrue
  <1> SUFFICES ASSUME PanelInv PROVE Panel!PanelTypeOK /\ Panel!ShownIsTrue
    OBVIOUS
  <1>1. Panel!PanelTypeOK
    BY DEF PanelInv, PanelTypes, Calls, Panel!PanelTypeOK
  <1>2. ASSUME Panel!Careful(s1), ~s9, ~s8, s7 = "none", \A c \in s5 : c.kind = "poll"
        PROVE  s2 = s3
    <2>1. OneAtATime(s1) \/ LatestCounts(s1)
      BY <1>2, CarefulAre DEF PanelInv, PanelTypes
    <2>2. CASE OneAtATime(s1)
      BY <1>2, <2>2 DEF PanelInv, OneCall, AtRest, Acts
    <2>3. CASE LatestCounts(s1)
      BY <1>2, <2>3 DEF PanelInv, LatestLoad, Newest
    <2> QED
      BY <2>1, <2>2, <2>3
  <1> QED
    BY <1>1, <1>2 DEF Panel!ShownIsTrue

(* Whatever is clicked, and however loads, changes and polls are delayed:     *)
(* once nothing is under way and no call was lost, a careful panel shows what *)
(* the device has (menu/settings, menu/mouse, settings/update).               *)
THEOREM PanelHolds == Panel!PanelSpec => [](Panel!PanelTypeOK /\ Panel!ShownIsTrue)
  BY PanelStarts, PanelKeeps, PanelPromises, PTL DEF Panel!PanelSpec

-------------------------------------------------------------------------------
(******************************************************************************)
(* Status feeds.                                                              *)
(* s1, s2, ... are its feed, store, publishing, slot, hand, stage, snapshot,  *)
(* own, wire, answer, latest, updates, outages.                               *)
(******************************************************************************)

Statuses == [run : Nat, stamp : Nat, value : Feed!Values \union {"none", "unknown"}]

\* What is on its way to the page, and what the page has or will have besides.
Sent(q) == {q[i] : i \in 1 .. Len(q)}
Way == Sent(s3) \union Sent(s9) \union {s4, s5, s7, s8}
Items == Way \union {s10, s11}

\* A device that has just started is not sure of its status.
Unsure(s) == s.value \in {"none", "unknown"}

FeedTypes ==
  /\ s1 \in Feeds
  /\ s2 \in Statuses /\ s2.run # 0
  /\ s3 \in Seq(Statuses) /\ s9 \in Seq(Statuses)
  /\ s4 \in Statuses /\ s5 \in Statuses /\ s7 \in Statuses /\ s8 \in Statuses /\ s11 \in Statuses
  /\ s10 \in Statuses \union {Feed!Asked}
  /\ s6 \in {"closed", "added", "read", "started"}
  /\ s12 \in Nat /\ s13 \in Nat
  /\ s12 <= Updates
  /\ IF s1 = "h264" THEN Len(s3) + s12 <= Updates ELSE Len(s3) <= 1
  /\ s1 # "led" => s8 = Feed!Nothing /\ s10 = Feed!Nothing
  /\ s6 # "read" => s7 = Feed!Nothing

\* The device is ahead of all, and alone in what it says at a time.
StoreIsNewest ==
  \A i \in Items :
    /\ i.run <= s2.run
    /\ i.run = s2.run => /\ i.stamp <= s2.stamp
                         /\ i.stamp = s2.stamp \/ Unsure(s2) => i.value = s2.value

\* What is on its way is of the device as it runs.
WayIsOfThisRun ==
  /\ \A i \in Sent(s3) \union Sent(s9) : i.run = s2.run
  /\ \A i \in {s4, s5, s7, s8} : i = Feed!Nothing \/ i.run = s2.run

\* A restart does not set back the clock, which the first two feeds go by.
ClockGoesOn ==
  s1 # "h264" =>
    /\ \A i \in Items : i.run < s2.run => i.stamp <= s2.stamp
    /\ \A j \in Items \union {s2} :
         j.run = s2.run /\ ~Unsure(j) => /\ j.stamp # 0
                                        /\ \A i \in Items : i.run < s2.run => i.stamp < j.stamp

\* From the store to the page, the later is nowhere ahead.
InOrder ==
  /\ \A i, j \in 1 .. Len(s3) : i < j => s3[i].stamp <= s3[j].stamp
  /\ \A i \in 1 .. Len(s3) : {s4.stamp, s5.stamp, s8.stamp} \subseteq 0 .. s3[i].stamp
  /\ s4 # Feed!Nothing => {s5.stamp, s8.stamp} \subseteq 0 .. s4.stamp
  /\ s5 # Feed!Nothing => s8.stamp <= s5.stamp

\* A status says what the device has, as do all that are as new.
IsFresh(s) ==
  /\ s.run = s2.run /\ s.value = s2.value
  /\ \A i \in Items : i.run = s2.run /\ i.stamp >= s.stamp => i.value = s2.value

\* Once connected, the page has such a status, or is about to.
FreshComes ==
  ~Unsure(s2) => s6 \in {"closed", "added"} \/ \E s \in Way \union {s11} : IsFresh(s)

FeedInv == FeedTypes /\ StoreIsNewest /\ WayIsOfThisRun /\ ClockGoesOn /\ InOrder /\ FreshComes

(* A queue with one status more, ... *)
LEMMA SentAppend ==
  ASSUME NEW S, NEW q \in Seq(S), NEW m \in S
  PROVE  /\ Append(q, m) \in Seq(S) /\ Len(Append(q, m)) = Len(q) + 1
         /\ Sent(Append(q, m)) = Sent(q) \union {m}
  BY DEF Sent

(* ... and with one less. *)
LEMMA SentTail ==
  ASSUME NEW S, NEW q \in Seq(S), q # <<>>
  PROVE  /\ Head(q) \in S /\ Tail(q) \in Seq(S) /\ Len(Tail(q)) = Len(q) - 1 /\ Head(q) = q[1]
         /\ Sent(q) = Sent(Tail(q)) \union {Head(q)}
         /\ \A i \in 1 .. Len(Tail(q)) : Tail(q)[i] = q[i + 1]
  <1>1. /\ Head(q) \in S /\ Tail(q) \in Seq(S) /\ Len(Tail(q)) = Len(q) - 1 /\ Head(q) = q[1]
        /\ Len(q) \in Nat /\ Len(q) > 0
    OBVIOUS
  <1>2. \A i \in 1 .. Len(Tail(q)) : Tail(q)[i] = q[i + 1]
    OBVIOUS
  <1>3. Sent(q) \subseteq Sent(Tail(q)) \union {Head(q)}
    <2> SUFFICES ASSUME NEW i \in 1 .. Len(q), q[i] # Head(q)
                 PROVE  q[i] \in Sent(Tail(q))
      BY DEF Sent
    <2>1. i - 1 \in 1 .. Len(Tail(q)) /\ (i - 1) + 1 = i
      BY <1>1
    <2>2. Tail(q)[i - 1] = q[i]
      BY <1>2, <2>1
    <2> QED
      BY <2>1, <2>2 DEF Sent
  <1>4. Sent(Tail(q)) \subseteq Sent(q)
    <2> SUFFICES ASSUME NEW i \in 1 .. Len(Tail(q))
                 PROVE  Tail(q)[i] \in Sent(q)
      BY DEF Sent
    <2>1. i + 1 \in 1 .. Len(q)
      BY <1>1
    <2> QED
      BY <1>2, <2>1 DEF Sent
  <1>5. Head(q) \in Sent(q)
    BY <1>1 DEF Sent
  <1> QED
    BY <1>1, <1>2, <1>3, <1>4, <1>5

(* No status, and the question that is not answered yet. *)
LEMMA NothingIs ==
  /\ Feed!Nothing \in Statuses /\ Feed!Nothing.run = 0 /\ Feed!Nothing.stamp = 0
  /\ Feed!Nothing.value = "none" /\ Feed!Asked.run = 0 /\ Feed!Asked.stamp = 0
  /\ Feed!Asked # Feed!Nothing
  <1>1. Feed!Nothing = [run |-> 0, stamp |-> 0, value |-> "none"]
    BY DEF Feed!Nothing
  <1>2. Feed!Asked = [run |-> 0, stamp |-> 0, value |-> "asked"]
    BY <1>1 DEF Feed!Asked
  <1>3. Feed!Nothing \in Statuses
    BY <1>1 DEF Statuses
  <1> QED
    BY <1>1, <1>2, <1>3

\* What is in flight are statuses, with numbers to compare.
LEMMA ItemTypes ==
  ASSUME FeedTypes
  PROVE  /\ Way \subseteq Statuses
         /\ \A i \in Items : i.run \in Nat /\ i.stamp \in Nat
         /\ s2.run \in Nat /\ s2.stamp \in Nat
  <1>1. Way \subseteq Statuses
    BY DEF FeedTypes, Way, Sent
  <1>2. \A s \in Statuses : s.run \in Nat /\ s.stamp \in Nat
    BY DEF Statuses
  <1>3. Feed!Asked.run \in Nat /\ Feed!Asked.stamp \in Nat
    BY NothingIs
  <1> QED
    BY <1>1, <1>2, <1>3 DEF FeedTypes, Items

\* The order of what is in flight, as numbers.
LEMMA OrderIs ==
  ASSUME FeedTypes
  PROVE  /\ s4.stamp \in Nat /\ s5.stamp \in Nat /\ s8.stamp \in Nat
         /\ \A i \in 1 .. Len(s3) : s3[i].stamp \in Nat /\ s3[i] \in Way
         /\ {s4, s5, s7, s8} \subseteq Way
  <1>1. {s4, s5, s7, s8} \subseteq Way /\ \A i \in 1 .. Len(s3) : s3[i] \in Way
    BY DEF Way, Sent
  <1> QED
    BY <1>1, ItemTypes DEF Items

(* What is on its way is nothing yet, or of this run and not later than the store. *)
LEMMA WayTypes ==
  ASSUME FeedInv
  PROVE  /\ \A i \in Way : i.run \in {0, s2.run} /\ i.stamp \in 0 .. s2.stamp /\ i \in Statuses
         /\ s2.run \in Nat /\ s2.stamp \in Nat /\ s2.run # 0
  <1>1. s2.run \in Nat /\ s2.stamp \in Nat /\ s2.run # 0 /\ Way \subseteq Statuses
    BY ItemTypes DEF FeedInv, FeedTypes
  <1>2. \A i \in Way : i = Feed!Nothing \/ i.run = s2.run
    BY DEF FeedInv, WayIsOfThisRun, Way
  <1>3. \A i \in Way : i \in Items /\ i.stamp \in Nat
    BY ItemTypes DEF FeedInv, Items
  <1>4. \A i \in Way : i.stamp \in 0 .. s2.stamp
    BY <1>1, <1>2, <1>3, NothingIs DEF FeedInv, StoreIsNewest
  <1> QED
    BY <1>1, <1>2, <1>4, NothingIs

\* What is as new as a fresh status is fresh.
LEMMA FreshAsNew ==
  ASSUME FeedInv, NEW s \in Items, IsFresh(s), NEW i \in Items, i.run = s2.run, i.stamp >= s.stamp
  PROVE  IsFresh(i)
  <1>1. \A j \in Items : j.stamp \in Nat
    BY ItemTypes DEF FeedInv
  <1>2. i.value = s2.value
    BY DEF IsFresh
  <1>3. ASSUME NEW j \in Items, j.run = s2.run, j.stamp >= i.stamp
        PROVE  j.value = s2.value
    <2>1. j.stamp >= s.stamp
      BY <1>1, <1>3
    <2> QED
      BY <1>3, <2>1 DEF IsFresh
  <1> QED
    BY <1>2, <1>3 DEF IsFresh

(* The store stays as it is, at most its status is sent, and for each fresh   *)
(* status that is left behind one as new has come: all but the types and the  *)
(* order is kept.                                                             *)
Passed(s) == \E i \in Way' \union {s11'} : i \in Items /\ i.run = s2.run /\ i.stamp >= s.stamp

(* Then what depends on the store holds on. *)
LEMMA StoreStays ==
  ASSUME FeedInv, FeedTypes', UNCHANGED << s1, s2 >>,
         Items' \subseteq Items \union {s2, Feed!Nothing},
         Sent(s3)' \union Sent(s9)' \subseteq {i \in Way \union {s2} : i.run = s2.run},
         {s4, s5, s7, s8}' \subseteq Way \union {s2, Feed!Nothing},
         \/ s6' \in {"closed", "added"}
         \/ s7' = s2
         \/ /\ s6 \notin {"closed", "added"}
            /\ ~Unsure(s2) => \A s \in Way \union {s11} : IsFresh(s) => Passed(s)
  PROVE  StoreIsNewest' /\ WayIsOfThisRun' /\ ClockGoesOn' /\ FreshComes'
  <1>1. s2.run \in Nat /\ s2.stamp \in Nat /\ s2.run # 0
    BY WayTypes
  <1>2. StoreIsNewest'
    <2>1. \A i \in Items \union {s2, Feed!Nothing} :
            /\ i.run <= s2.run
            /\ i.run = s2.run => /\ i.stamp <= s2.stamp
                                 /\ i.stamp = s2.stamp \/ Unsure(s2) => i.value = s2.value
      BY <1>1, NothingIs DEF FeedInv, StoreIsNewest
    <2> QED
      BY <2>1 DEF StoreIsNewest, Unsure
  <1>3. WayIsOfThisRun'
    <2>1. Feed!Nothing' = Feed!Nothing
      BY DEF Feed!Nothing
    <2>2. \A i \in {s4, s5, s7, s8} : i = Feed!Nothing \/ i.run = s2.run
      BY DEF FeedInv, WayIsOfThisRun
    <2>3. \A i \in Sent(s3) \union Sent(s9) : i.run = s2.run
      BY DEF FeedInv, WayIsOfThisRun
    <2>4. \A i \in Way \union {s2, Feed!Nothing} : i = Feed!Nothing \/ i.run = s2.run
      BY <2>2, <2>3 DEF Way
    <2>5. \A i \in {s4, s5, s7, s8}' : i = Feed!Nothing \/ i.run = s2.run
      BY <2>4
    <2>6. \A i \in Sent(s3)' \union Sent(s9)' : i.run = s2.run
      OBVIOUS
    <2> QED
      BY <2>1, <2>5, <2>6 DEF WayIsOfThisRun
  <1>4. ClockGoesOn'
    <2> SUFFICES ASSUME s1 # "h264" PROVE ClockGoesOn'
      BY DEF ClockGoesOn
    <2>1. \A i \in Items \union {s2, Feed!Nothing} : i.run < s2.run => i.stamp <= s2.stamp
      BY <1>1, NothingIs DEF FeedInv, ClockGoesOn
    <2>2. \A j \in Items \union {s2, Feed!Nothing} :
            j.run = s2.run /\ ~Unsure(j) =>
              j.stamp # 0 /\ j.stamp \in Nat /\ \A i \in Items : i.run < s2.run => i.stamp < j.stamp
      BY <1>1, NothingIs, ItemTypes DEF FeedInv, ClockGoesOn
    <2>3. \A j \in Items \union {s2, Feed!Nothing} :
            j.run = s2.run /\ ~Unsure(j) =>
              /\ j.stamp # 0
              /\ \A i \in Items \union {s2, Feed!Nothing} : i.run < s2.run => i.stamp < j.stamp
      BY <1>1, <2>2, NothingIs
    <2> QED
      BY <2>1, <2>3 DEF ClockGoesOn, Unsure
  <1>5. ASSUME NEW s, IsFresh(s)
        PROVE  IsFresh(s)'
    BY <1>1, <1>5, NothingIs DEF IsFresh
  <1>6. IsFresh(s2)'
    <2>1. \A i \in Items' : i.stamp \in Nat
      BY <1>1, ItemTypes, NothingIs DEF FeedInv
    <2>2. \A i \in Items' : i.run = s2.run /\ i.stamp >= s2.stamp => i.value = s2.value
      BY <1>1, <1>2, <2>1 DEF StoreIsNewest
    <2> QED
      BY <2>2 DEF IsFresh
  <1>7. FreshComes'
    <2> SUFFICES ASSUME ~Unsure(s2), s6' \notin {"closed", "added"}
                 PROVE  \E s \in Way' \union {s11'} : IsFresh(s)'
      BY DEF FreshComes, Unsure
    <2>1. CASE s7' = s2
      BY <1>6, <2>1 DEF Way
    <2>2. CASE s7' # s2
      <3>1. PICK s \in Way \union {s11} : IsFresh(s)
        BY <2>2 DEF FeedInv, FreshComes
      <3>2. PICK i \in Way' \union {s11'} : i \in Items /\ i.run = s2.run /\ i.stamp >= s.stamp
        BY <2>2, <3>1 DEF Passed
      <3>3. s \in Items
        BY <3>1 DEF Items
      <3>4. IsFresh(i)
        BY <3>1, <3>2, <3>3, FreshAsNew
      <3> QED
        BY <1>5, <3>2, <3>4
    <2> QED
      BY <2>1, <2>2
  <1> QED
    BY <1>2, <1>3, <1>4, <1>7

\* What is still there has passed.
LEMMA StaysPassed ==
  ASSUME FeedInv, NEW s \in Way' \union {s11'}, s \in Items, IsFresh(s)
  PROVE  Passed(s)
  <1>1. s.stamp \in Nat
    BY ItemTypes DEF FeedInv
  <1> QED
    BY <1>1 DEF Passed, IsFresh

\* The types but those of what is told apart by feed.
LEMMA TypesStay ==
  ASSUME UNCHANGED s1 PROVE Statuses' = Statuses /\ Feed!Nothing' = Feed!Nothing /\ Feed!Asked' = Feed!Asked
  BY DEF Statuses, Feed!Values, Feed!CaptureValues, Feed!LedValues, Feed!ModeValues, Feed!Nothing, Feed!Asked

(* The invariant of the feeds holds as the device starts. *)
LEMMA FeedStarts == Feed!FeedInit => FeedInv
  <1> SUFFICES ASSUME Feed!FeedInit PROVE FeedInv
    OBVIOUS
  <1>1. /\ s1 \in {"capture", "led", "h264"} /\ s1 \in Feeds
        /\ s2 = Feed!Initial(1) /\ s3 = <<>> /\ s9 = <<>> /\ s6 = "closed"
        /\ s4 = Feed!Nothing /\ s5 = Feed!Nothing /\ s7 = Feed!Nothing /\ s8 = Feed!Nothing /\ s11 = Feed!Nothing
        /\ s10 = (IF s1 = "led" THEN Feed!Asked ELSE Feed!Nothing)
        /\ s12 = Updates /\ s13 = FeedOutages
    BY FeedsAssumption DEF Feed!FeedInit
  <1>2. s2.run = 1 /\ s2.stamp = 0 /\ s2 \in Statuses
    BY <1>1 DEF Feed!Initial, Statuses, Feed!Values, Feed!CaptureValues, Feed!LedValues, Feed!ModeValues
  <1>3. FeedTypes
    BY <1>1, <1>2, NothingIs, BoundsAssumption DEF FeedTypes
  <1>4. \A i \in Items : i \in {Feed!Nothing, Feed!Asked}
    BY <1>1 DEF Items, Way, Sent
  <1>5. StoreIsNewest /\ WayIsOfThisRun /\ ClockGoesOn
    <2>1. StoreIsNewest
      BY <1>2, <1>4, NothingIs DEF StoreIsNewest
    <2>2. WayIsOfThisRun
      BY <1>1 DEF WayIsOfThisRun, Way, Sent
    <2>3. s1 # "h264" => Unsure(s2)
      BY <1>1 DEF Unsure, Feed!Initial
    <2>4. ClockGoesOn
      BY <1>2, <1>4, <2>3, NothingIs DEF ClockGoesOn
    <2> QED
      BY <2>1, <2>2, <2>4
  <1>6. InOrder
    BY <1>1, NothingIs DEF InOrder
  <1>7. FreshComes
    BY <1>1 DEF FreshComes
  <1> QED
    BY <1>3, <1>5, <1>6, <1>7 DEF FeedInv

\* The store's status moves on to the page: Enqueue, Take, Broadcast, SendOwn.
LEMMA EnqueueKeeps ==
  ASSUME FeedInv, Feed!Enqueue
  PROVE  FeedInv'
  <1>1. /\ s3 # <<>> /\ s3' = Tail(s3) /\ s4' = Head(s3)
        /\ UNCHANGED << s1, s2, s5, s6, s7, s8, s9, s10, s11, s12, s13 >>
    BY DEF Feed!Enqueue
  <1>2. FeedTypes /\ s3 \in Seq(Statuses) /\ Len(s3) \in Nat
    BY DEF FeedInv, FeedTypes
  <1>3. /\ Head(s3) \in Statuses /\ s3' \in Seq(Statuses) /\ Len(s3') = Len(s3) - 1 /\ Head(s3) = s3[1]
        /\ Sent(s3) = Sent(s3') \union {Head(s3)}
        /\ \A i \in 1 .. Len(s3') : s3'[i] = s3[i + 1]
    BY <1>1, <1>2, SentTail
  <1>4. FeedTypes'
    <2>1. IF s1 = "h264" THEN Len(s3') + s12 <= Updates ELSE Len(s3') <= 1
      BY <1>2, <1>3, BoundsAssumption DEF FeedTypes
    <2> QED
      BY <1>1, <1>2, <1>3, <2>1, TypesStay DEF FeedTypes
  <1>7. Len(s3) \in Nat /\ 1 \in 1 .. Len(s3) /\ \A i \in 1 .. Len(s3') : i + 1 \in 1 .. Len(s3) /\ 1 < i + 1
    BY <1>1, <1>2, <1>3
  <1>5. /\ Way' \subseteq Way /\ Items' \subseteq Items /\ Sent(s3)' \subseteq Sent(s3)
        /\ s4' \in Sent(s3) /\ Sent(s9)' = Sent(s9)
    BY <1>1, <1>3 DEF Way, Items, Sent
  <1>6. Head(s3).run = s2.run
    BY <1>1, <1>5 DEF FeedInv, WayIsOfThisRun
  <1>9. ASSUME NEW s \in Way \union {s11}, IsFresh(s)
        PROVE  Passed(s)
    <2>1. CASE s \in Way' \union {s11'}
      BY <1>9, <2>1, StaysPassed DEF Items
    <2>2. CASE s = s4
      <3>1. s4'.stamp >= s4.stamp
        BY <1>1, <1>2, <1>3, <1>7, OrderIs DEF FeedInv, InOrder
      <3>2. s4' \in Way' /\ s4' \in Items
        BY <1>5 DEF Way, Items
      <3> QED
        BY <1>1, <1>6, <2>2, <3>1, <3>2 DEF Passed
    <2> QED
      BY <1>1, <1>3, <1>9, <2>1, <2>2 DEF Way
  <1>10. StoreIsNewest' /\ WayIsOfThisRun' /\ ClockGoesOn' /\ FreshComes'
    <2>1. Sent(s3)' \union Sent(s9)' \subseteq {i \in Way \union {s2} : i.run = s2.run}
      BY <1>5 DEF FeedInv, WayIsOfThisRun, Way
    <2>2. {s4, s5, s7, s8}' \subseteq Way
      BY <1>1, <1>5 DEF Way
    <2>3. CASE s6 \in {"closed", "added"}
      BY <1>1, <1>4, <1>5, <2>1, <2>2, <2>3, StoreStays
    <2>4. CASE s6 \notin {"closed", "added"}
      BY <1>1, <1>4, <1>5, <1>9, <2>1, <2>2, <2>4, StoreStays
    <2> QED
      BY <2>3, <2>4
  <1>8. InOrder'
    <2>1. \A i, j \in 1 .. Len(s3') : i < j => s3'[i].stamp <= s3'[j].stamp
      BY <1>3, <1>7 DEF FeedInv, InOrder
    <2>2. \A i \in 1 .. Len(s3') : {s4'.stamp, s5.stamp, s8.stamp} \subseteq 0 .. s3'[i].stamp
      <3> TAKE i \in 1 .. Len(s3')
      <3>1. s4'.stamp \in Nat /\ s4'.stamp <= s3'[i].stamp /\ s3'[i].stamp \in Nat
        BY <1>1, <1>2, <1>3, <1>7, OrderIs DEF FeedInv, InOrder
      <3>2. {s5.stamp, s8.stamp} \subseteq 0 .. s3'[i].stamp
        BY <1>3, <1>7 DEF FeedInv, InOrder
      <3> QED
        BY <3>1, <3>2
    <2>3. {s5.stamp, s8.stamp} \subseteq 0 .. s4'.stamp
      BY <1>1, <1>3, <1>7 DEF FeedInv, InOrder
    <2>4. s5 # Feed!Nothing => s8.stamp <= s5.stamp
      BY DEF FeedInv, InOrder
    <2> QED
      BY <1>1, <2>1, <2>2, <2>3, <2>4 DEF InOrder
  <1> QED
    BY <1>4, <1>8, <1>10 DEF FeedInv

(* A watcher takes the status published. *)
LEMMA TakeKeeps ==
  ASSUME FeedInv, Feed!Take
  PROVE  FeedInv'
  <1>1. /\ s5 = Feed!Nothing /\ s4 # Feed!Nothing /\ s5' = s4 /\ s4' = Feed!Nothing
        /\ UNCHANGED << s1, s2, s3, s6, s7, s8, s9, s10, s11, s12, s13 >>
    BY DEF Feed!Take
  <1>2. FeedTypes
    BY DEF FeedInv
  <1>3. FeedTypes'
    BY <1>1, <1>2, NothingIs, TypesStay DEF FeedTypes
  <1>4. /\ Way' \subseteq Way \union {Feed!Nothing} /\ Items' \subseteq Items \union {Feed!Nothing}
        /\ Way \subseteq Way' \union {Feed!Nothing}
        /\ Sent(s3)' = Sent(s3) /\ Sent(s9)' = Sent(s9)
    BY <1>1 DEF Way, Items, Sent
  <1>5. ASSUME NEW s \in Way \union {s11}, IsFresh(s)
        PROVE  Passed(s)
    <2>1. s # Feed!Nothing
      BY <1>2, <1>5, NothingIs DEF IsFresh, FeedTypes
    <2>2. s \in Way' \union {s11'}
      BY <1>1, <1>4, <2>1
    <2> QED
      BY <1>5, <2>2, StaysPassed DEF Items
  <1>6. StoreIsNewest' /\ WayIsOfThisRun' /\ ClockGoesOn' /\ FreshComes'
    <2>1. Sent(s3)' \union Sent(s9)' \subseteq {i \in Way \union {s2} : i.run = s2.run}
      BY <1>4 DEF FeedInv, WayIsOfThisRun, Way
    <2>2. {s4, s5, s7, s8}' \subseteq Way \union {Feed!Nothing}
      BY <1>1 DEF Way
    <2>3. CASE s6 \in {"closed", "added"}
      BY <1>1, <1>3, <1>4, <2>1, <2>2, <2>3, StoreStays
    <2>4. CASE s6 \notin {"closed", "added"}
      BY <1>1, <1>3, <1>4, <1>5, <2>1, <2>2, <2>4, StoreStays
    <2> QED
      BY <2>3, <2>4
  <1>7. InOrder'
    <2>1. \A i, j \in 1 .. Len(s3) : i < j => s3[i].stamp <= s3[j].stamp
      BY DEF FeedInv, InOrder
    <2>2. \A i \in 1 .. Len(s3) : {s4.stamp, s5.stamp, s8.stamp} \subseteq 0 .. s3[i].stamp
      BY DEF FeedInv, InOrder
    <2>3. \A i \in 1 .. Len(s3) : s3[i].stamp \in Nat
      BY <1>2, OrderIs
    <2>4. \A i \in 1 .. Len(s3) : {Feed!Nothing.stamp, s4.stamp, s8.stamp} \subseteq 0 .. s3[i].stamp
      BY <2>2, <2>3, NothingIs
    <2>5. s8.stamp <= s4.stamp
      BY <1>1, <1>2, OrderIs DEF FeedInv, InOrder
    <2>6. Feed!Nothing' = Feed!Nothing
      BY DEF Feed!Nothing
    <2> QED
      BY <1>1, <2>1, <2>4, <2>5, <2>6 DEF InOrder
  <1> QED
    BY <1>3, <1>6, <1>7 DEF FeedInv

(* One more status on the socket. *)
LEMMA SentNow ==
  ASSUME FeedInv, NEW m \in Statuses
  PROVE  Append(s9, m) \in Seq(Statuses) /\ Sent(Append(s9, m)) = Sent(s9) \union {m}
  BY SentAppend DEF FeedInv, FeedTypes

(* It is sent to the page. *)
LEMMA BroadcastKeeps ==
  ASSUME FeedInv, Feed!Broadcast
  PROVE  FeedInv'
  <1>1. /\ s5 # Feed!Nothing /\ s5' = Feed!Nothing
        /\ s8' = (IF s1 = "led" /\ s6 # "closed" THEN s5 ELSE s8)
        /\ s9' = (IF s1 # "led" /\ s6 # "closed" THEN Append(s9, s5) ELSE s9)
        /\ UNCHANGED << s1, s2, s3, s4, s6, s7, s10, s11, s12, s13 >>
    BY DEF Feed!Broadcast
  <1>2. FeedTypes /\ s5 \in Statuses /\ s9 \in Seq(Statuses)
    BY DEF FeedInv, FeedTypes
  <1>9. s9' \in Seq(Statuses) /\ Sent(s9') \subseteq Sent(s9) \union {s5} /\ Sent(s9) \subseteq Sent(s9')
        /\ s8' \in {s5, s8} /\ (s1 # "led" => s8' = s8)
        /\ (s6 # "closed" => s5 \in Sent(s9') \union {s8'})
    <2>1. Append(s9, s5) \in Seq(Statuses) /\ Sent(Append(s9, s5)) = Sent(s9) \union {s5}
      BY <1>2, SentNow
    <2> QED
      BY <1>1, <1>2, <2>1
  <1>3. FeedTypes'
    BY <1>1, <1>2, <1>9, NothingIs, TypesStay DEF FeedTypes
  <1>4. /\ Way' \subseteq Way \union {Feed!Nothing} /\ Items' \subseteq Items \union {Feed!Nothing}
        /\ Sent(s3)' = Sent(s3) /\ Sent(s9)' = Sent(s9')
        /\ {s4, s5, s7, s8}' \subseteq Way \union {Feed!Nothing}
    BY <1>1, <1>9 DEF Way, Items, Sent
  <1>10. s5.run = s2.run /\ s5 \in Items /\ s5 \in Way /\ s5.stamp \in Nat /\ s8.stamp \in Nat /\ s8.stamp <= s5.stamp
    BY <1>1, <1>2, OrderIs DEF FeedInv, WayIsOfThisRun, InOrder, Way, Items
  <1>5. ASSUME NEW s \in Way \union {s11}, IsFresh(s), s6 # "closed"
        PROVE  Passed(s)
    <2>1. CASE s \in Way' \union {s11'}
      BY <1>5, <2>1, StaysPassed DEF Items
    <2>2. CASE s = s5 \/ s = s8
      BY <1>5, <1>9, <1>10, <2>2 DEF Passed, Way
    <2> QED
      BY <1>1, <1>5, <1>9, <2>1, <2>2 DEF Way, Sent
  <1>6. StoreIsNewest' /\ WayIsOfThisRun' /\ ClockGoesOn' /\ FreshComes'
    <2>1. Sent(s3)' \union Sent(s9)' \subseteq {i \in Way \union {s2} : i.run = s2.run}
      BY <1>4, <1>9, <1>10 DEF FeedInv, WayIsOfThisRun, Way
    <2>3. CASE s6 \in {"closed", "added"}
      BY <1>1, <1>3, <1>4, <2>1, <2>3, StoreStays
    <2>4. CASE s6 \notin {"closed", "added"}
      BY <1>1, <1>3, <1>4, <1>5, <2>1, <2>4, StoreStays
    <2> QED
      BY <2>3, <2>4
  <1>7. InOrder'
    <2>1. \A i, j \in 1 .. Len(s3) : i < j => s3[i].stamp <= s3[j].stamp
      BY DEF FeedInv, InOrder
    <2>2. \A i \in 1 .. Len(s3) : {s4.stamp, s5.stamp, s8.stamp} \subseteq 0 .. s3[i].stamp
      BY DEF FeedInv, InOrder
    <2>3. \A i \in 1 .. Len(s3) : s3[i].stamp \in Nat
      BY <1>2, OrderIs
    <2>4. \A i \in 1 .. Len(s3) : {s4.stamp, Feed!Nothing.stamp, s8'.stamp} \subseteq 0 .. s3[i].stamp
      BY <1>9, <2>2, <2>3, NothingIs
    <2>5. s4 # Feed!Nothing => {Feed!Nothing.stamp, s8'.stamp} \subseteq 0 .. s4.stamp
      BY <1>2, <1>9, OrderIs, NothingIs DEF FeedInv, InOrder
    <2>6. Feed!Nothing' = Feed!Nothing
      BY DEF Feed!Nothing
    <2> QED
      BY <1>1, <2>1, <2>4, <2>5, <2>6 DEF InOrder
  <1> QED
    BY <1>3, <1>6, <1>7 DEF FeedInv

\* The order is of what is not sent yet.
LEMMA OrderStays ==
  ASSUME FeedInv, UNCHANGED << s3, s4, s5 >>, s8' \in {s8, Feed!Nothing}
  PROVE  InOrder'
  <1>1. \A i, j \in 1 .. Len(s3) : i < j => s3[i].stamp <= s3[j].stamp
    BY DEF FeedInv, InOrder
  <1>2. \A i \in 1 .. Len(s3) : {s4.stamp, s5.stamp, s8.stamp} \subseteq 0 .. s3[i].stamp
    BY DEF FeedInv, InOrder
  <1>3. /\ \A i \in 1 .. Len(s3) : s3[i].stamp \in Nat
        /\ s4.stamp \in Nat /\ s5.stamp \in Nat
    BY OrderIs DEF FeedInv
  <1>4. \A i \in 1 .. Len(s3) : {s4.stamp, s5.stamp, s8'.stamp} \subseteq 0 .. s3[i].stamp
    BY <1>2, <1>3, NothingIs
  <1>5. s4 # Feed!Nothing => {s5.stamp, s8'.stamp} \subseteq 0 .. s4.stamp
    BY <1>3, NothingIs DEF FeedInv, InOrder
  <1>6. s5 # Feed!Nothing => s8'.stamp <= s5.stamp
    BY <1>3, NothingIs DEF FeedInv, InOrder
  <1>7. Feed!Nothing' = Feed!Nothing
    BY DEF Feed!Nothing
  <1> QED
    BY <1>1, <1>4, <1>5, <1>6, <1>7 DEF InOrder

(* A status of the page's own is sent. *)
LEMMA SendOwnKeeps ==
  ASSUME FeedInv, Feed!SendOwn
  PROVE  FeedInv'
  <1>1. /\ s8 # Feed!Nothing /\ s8' = Feed!Nothing /\ s9' = Append(s9, s8) /\ s6 = "started"
        /\ UNCHANGED << s1, s2, s3, s4, s5, s6, s7, s10, s11, s12, s13 >>
    BY DEF Feed!SendOwn
  <1>2. FeedTypes /\ s8 \in Statuses
    BY DEF FeedInv, FeedTypes
  <1>3. s9' \in Seq(Statuses) /\ Sent(s9') = Sent(s9) \union {s8}
    BY <1>1, <1>2, SentNow
  <1>4. FeedTypes'
    BY <1>1, <1>2, <1>3, NothingIs, TypesStay DEF FeedTypes
  <1>5. /\ Way' \subseteq Way \union {Feed!Nothing} /\ Items' \subseteq Items \union {Feed!Nothing}
        /\ Way \subseteq Way'
        /\ Sent(s3)' = Sent(s3) /\ Sent(s9)' = Sent(s9) \union {s8}
        /\ {s4, s5, s7, s8}' \subseteq Way \union {Feed!Nothing}
    BY <1>1, <1>3 DEF Way, Items, Sent
  <1>6. s8.run = s2.run
    BY <1>1 DEF FeedInv, WayIsOfThisRun
  <1>7. ASSUME NEW s \in Way \union {s11}, IsFresh(s)
        PROVE  Passed(s)
    BY <1>1, <1>5, <1>7, StaysPassed DEF Items
  <1>8. StoreIsNewest' /\ WayIsOfThisRun' /\ ClockGoesOn' /\ FreshComes'
    <2>1. Sent(s3)' \union Sent(s9)' \subseteq {i \in Way \union {s2} : i.run = s2.run}
      BY <1>5, <1>6 DEF FeedInv, WayIsOfThisRun, Way
    <2> QED
      BY <1>1, <1>4, <1>5, <1>7, <2>1, StoreStays
  <1> QED
    BY <1>1, <1>4, <1>8, OrderStays DEF FeedInv

\* A client connects, and is told what the device has: AddClient, ReadSnapshot,
\* SendSnapshot.
LEMMA ConnectKeeps ==
  ASSUME FeedInv, Feed!AddClient \/ Feed!ReadSnapshot \/ Feed!SendSnapshot
  PROVE  FeedInv'
  <1>1. UNCHANGED << s1, s2, s3, s4, s5, s8, s10, s11, s12, s13 >>
    BY DEF Feed!AddClient, Feed!ReadSnapshot, Feed!SendSnapshot
  <1>2. FeedTypes /\ s7 \in Statuses /\ s2 \in Statuses
    BY DEF FeedInv, FeedTypes
  <1>3. InOrder'
    BY <1>1, OrderStays
  <1>4. \A i \in Sent(s3) \union Sent(s9) : i.run = s2.run
    BY DEF FeedInv, WayIsOfThisRun
  <1>5. CASE Feed!AddClient
    <2>1. s6 = "closed" /\ s6' = "added" /\ UNCHANGED << s7, s9 >>
      BY <1>5 DEF Feed!AddClient
    <2>2. FeedTypes'
      BY <1>1, <1>2, <2>1, TypesStay DEF FeedTypes
    <2>3. Way' = Way /\ Items' = Items /\ Sent(s3)' = Sent(s3) /\ Sent(s9)' = Sent(s9)
      BY <1>1, <2>1 DEF Way, Items, Sent
    <2>4. /\ Sent(s3)' \union Sent(s9)' \subseteq {i \in Way \union {s2} : i.run = s2.run}
          /\ {s4, s5, s7, s8}' \subseteq Way
      BY <1>1, <1>4, <2>1, <2>3 DEF Way
    <2> QED
      BY <1>1, <1>3, <2>1, <2>2, <2>3, <2>4, StoreStays DEF FeedInv
  <1>6. CASE Feed!ReadSnapshot
    <2>1. s6 = "added" /\ s6' = "read" /\ s7' = s2 /\ s9' = s9
      BY <1>6 DEF Feed!ReadSnapshot
    <2>2. FeedTypes'
      BY <1>1, <1>2, <2>1, TypesStay DEF FeedTypes
    <2>3. Way' \subseteq Way \union {s2} /\ Items' \subseteq Items \union {s2}
          /\ Sent(s3)' = Sent(s3) /\ Sent(s9)' = Sent(s9)
      BY <1>1, <2>1 DEF Way, Items, Sent
    <2>4. /\ Sent(s3)' \union Sent(s9)' \subseteq {i \in Way \union {s2} : i.run = s2.run}
          /\ {s4, s5, s7, s8}' \subseteq Way \union {s2}
      BY <1>1, <1>4, <2>1, <2>3 DEF Way
    <2> QED
      BY <1>1, <1>3, <2>1, <2>2, <2>3, <2>4, StoreStays DEF FeedInv
  <1>7. CASE Feed!SendSnapshot
    <2>1. /\ s6 = "read" /\ s6' = "started" /\ s7' = Feed!Nothing
          /\ s9' = (IF s7.value = "none" THEN s9 ELSE Append(s9, s7))
      BY <1>7 DEF Feed!SendSnapshot
    <2>2. Append(s9, s7) \in Seq(Statuses) /\ Sent(Append(s9, s7)) = Sent(s9) \union {s7}
      BY <1>2, SentNow
    <2>3. /\ s9' \in Seq(Statuses) /\ Sent(s9) \subseteq Sent(s9') /\ Sent(s9') \subseteq Sent(s9) \union {s7}
          /\ s7.value # "none" => s7 \in Sent(s9')
          /\ s7.value = "none" => Sent(s9') = Sent(s9)
      BY <1>2, <2>1, <2>2 DEF FeedTypes
    <2>4. FeedTypes'
      BY <1>1, <1>2, <2>1, <2>3, NothingIs, TypesStay DEF FeedTypes
    <2>5. /\ Way' \subseteq Way \union {Feed!Nothing} /\ Items' \subseteq Items \union {Feed!Nothing}
          /\ Sent(s3)' = Sent(s3) /\ Sent(s9)' = Sent(s9')
          /\ {s4, s5, s7, s8}' \subseteq Way \union {Feed!Nothing}
      BY <1>1, <2>1, <2>3 DEF Way, Items, Sent
    <2>6. s7.value # "none" => s7.run = s2.run
      BY NothingIs DEF FeedInv, WayIsOfThisRun
    <2>7. ASSUME ~Unsure(s2), NEW s \in Way \union {s11}, IsFresh(s)
          PROVE  Passed(s)
      <3>1. s.value # "none"
        BY <2>7 DEF IsFresh, Unsure
      <3>2. s \in Way' \union {s11'}
        BY <1>1, <2>3, <2>5, <3>1 DEF Way, Sent
      <3> QED
        BY <2>7, <3>2, StaysPassed DEF Items
    <2>8. Sent(s3)' \union Sent(s9)' \subseteq {i \in Way \union {s2} : i.run = s2.run}
      BY <1>4, <2>3, <2>5, <2>6 DEF Way
    <2> QED
      BY <1>1, <1>3, <2>1, <2>4, <2>5, <2>7, <2>8, StoreStays DEF FeedInv
  <1> QED
    BY <1>5, <1>6, <1>7

(* The device answers the page. *)
LEMMA AnswerKeeps ==
  ASSUME FeedInv, Feed!Answer
  PROVE  FeedInv'
  <1>1. /\ s10 = Feed!Asked /\ s10' = s2
        /\ UNCHANGED << s1, s2, s3, s4, s5, s6, s7, s8, s9, s11, s12, s13 >>
    BY DEF Feed!Answer
  <1>2. FeedTypes /\ s2 \in Statuses
    BY DEF FeedInv, FeedTypes
  <1>3. FeedTypes'
    BY <1>1, <1>2, NothingIs, TypesStay DEF FeedTypes
  <1>4. Way' = Way /\ Items' \subseteq Items \union {s2} /\ Sent(s3)' = Sent(s3) /\ Sent(s9)' = Sent(s9)
    BY <1>1 DEF Way, Items, Sent
  <1>5. ASSUME NEW s \in Way \union {s11}, IsFresh(s)
        PROVE  Passed(s)
    BY <1>1, <1>4, <1>5, StaysPassed DEF Items
  <1>6. /\ Sent(s3)' \union Sent(s9)' \subseteq {i \in Way \union {s2} : i.run = s2.run}
        /\ {s4, s5, s7, s8}' \subseteq Way
    BY <1>1, <1>4 DEF Way, FeedInv, WayIsOfThisRun
  <1>7. CASE s6 \in {"closed", "added"}
    BY <1>1, <1>3, <1>4, <1>6, <1>7, StoreStays, OrderStays DEF FeedInv
  <1>8. CASE s6 \notin {"closed", "added"}
    BY <1>1, <1>3, <1>4, <1>5, <1>6, <1>8, StoreStays, OrderStays DEF FeedInv
  <1> QED
    BY <1>7, <1>8

(* What a closed connection leaves. *)
LEMMA CloseIs ==
  ASSUME Feed!Close
  PROVE  /\ s6' = "closed" /\ s7' = Feed!Nothing /\ s8' = Feed!Nothing /\ s9' = <<>>
         /\ s9' \in Seq(Statuses) /\ Sent(s9)' = {}
  BY DEF Feed!Close, Sent

(* The connection is lost. *)
LEMMA DisconnectKeeps ==
  ASSUME FeedInv, Feed!Disconnect
  PROVE  FeedInv'
  <1>1. /\ s13 > 0 /\ s13' = s13 - 1 /\ Feed!Close
        /\ UNCHANGED << s1, s2, s3, s4, s5, s10, s11, s12 >>
    BY DEF Feed!Disconnect
  <1>2. FeedTypes
    BY DEF FeedInv
  <1>3. FeedTypes'
    BY <1>1, <1>2, CloseIs, NothingIs, TypesStay DEF FeedTypes
  <1>4. /\ Way' \subseteq Way \union {Feed!Nothing} /\ Items' \subseteq Items \union {Feed!Nothing}
        /\ Sent(s3)' = Sent(s3) /\ {s4, s5, s7, s8}' \subseteq Way \union {Feed!Nothing}
    BY <1>1, CloseIs DEF Way, Items, Sent
  <1>5. Sent(s3)' \union Sent(s9)' \subseteq {i \in Way \union {s2} : i.run = s2.run}
    BY <1>1, <1>4, CloseIs DEF Way, FeedInv, WayIsOfThisRun
  <1> QED
    BY <1>1, <1>3, <1>4, <1>5, CloseIs, StoreStays, OrderStays DEF FeedInv

(* The device starts again. *)
LEMMA RestartKeeps ==
  ASSUME FeedInv, Feed!Restart
  PROVE  FeedInv'
  <1>1. /\ s13 > 0 /\ s13' = s13 - 1 /\ Feed!Close
        /\ s2' = [Feed!Initial(s2.run + 1) EXCEPT !.stamp = IF s1 = "h264" THEN 0 ELSE s2.stamp]
        /\ s3' = <<>> /\ s4' = Feed!Nothing /\ s5' = Feed!Nothing
        /\ s10' = (IF s10 = Feed!Asked THEN Feed!Nothing ELSE s10)
        /\ UNCHANGED << s1, s11, s12 >>
    BY DEF Feed!Restart
  <1>2. FeedTypes /\ s1 \in {"capture", "led", "h264"}
    BY FeedsAssumption DEF FeedInv, FeedTypes
  <1>3. s2.run \in Nat /\ s2.stamp \in Nat
    BY WayTypes
  <1>4. /\ s2'.run = s2.run + 1 /\ s2'.stamp = (IF s1 = "h264" THEN 0 ELSE s2.stamp)
        /\ s2' \in Statuses
        /\ s1 # "h264" => s2'.value \in {"none", "unknown"}
    BY <1>1, <1>2, <1>3
       DEF Feed!Initial, Statuses, Feed!Values, Feed!CaptureValues, Feed!LedValues, Feed!ModeValues
  <1>5. s3' \in Seq(Statuses) /\ Len(s3') = 0 /\ Sent(s3)' = {}
    BY <1>1 DEF Sent
  <1>6. FeedTypes'
    <2>1. s2'.run # 0
      BY <1>3, <1>4
    <2>2. s12 \in Nat /\ s12 <= Updates /\ s13' \in Nat
      BY <1>1, <1>2 DEF FeedTypes
    <2>3. IF s1 = "h264" THEN Len(s3') + s12 <= Updates ELSE Len(s3') <= 1
      BY <1>5, <2>2
    <2>4. s10' \in Statuses \union {Feed!Asked} /\ (s1 # "led" => s10' = Feed!Nothing)
      BY <1>1, <1>2, NothingIs DEF FeedTypes
    <2> QED
      BY <1>1, <1>2, <1>4, <1>5, <2>1, <2>2, <2>3, <2>4, CloseIs, NothingIs, TypesStay DEF FeedTypes
  <1>7. Way' = {Feed!Nothing} /\ Items' \subseteq Items \union {Feed!Nothing}
    BY <1>1, <1>5, CloseIs DEF Way, Items
  <1>8. \A i \in Items' : i.run \in Nat /\ i.stamp \in Nat /\ i.run < s2'.run
    BY <1>2, <1>3, <1>4, <1>7, ItemTypes, NothingIs DEF FeedInv, StoreIsNewest
  <1>9. StoreIsNewest'
    BY <1>3, <1>4, <1>8 DEF StoreIsNewest
  <1>10. ClockGoesOn'
    <2> SUFFICES ASSUME s1 # "h264" PROVE ClockGoesOn'
      BY <1>1 DEF ClockGoesOn
    <2>1. \A i \in Items : i.stamp <= s2.stamp
      BY <1>2, <1>3, ItemTypes DEF FeedInv, ClockGoesOn, StoreIsNewest
    <2>2. \A i \in Items' : i.stamp <= s2'.stamp
      BY <1>3, <1>4, <1>7, <2>1, NothingIs
    <2>3. Unsure(s2')
      BY <1>4 DEF Unsure
    <2>4. \A j \in Items' \union {s2'} : j.run = s2'.run => j = s2'
      BY <1>3, <1>4, <1>8
    <2>5. \A j \in Items' \union {s2'} : ~(j.run = s2'.run /\ ~Unsure(j))
      BY <2>3, <2>4
    <2> QED
      BY <1>8, <2>2, <2>5 DEF ClockGoesOn, Unsure
  <1>11. WayIsOfThisRun' /\ InOrder' /\ FreshComes'
    <2>1. WayIsOfThisRun'
      BY <1>1, <1>5, CloseIs, TypesStay DEF WayIsOfThisRun
    <2>2. InOrder'
      BY <1>1, <1>5, CloseIs, NothingIs, TypesStay DEF InOrder
    <2>3. FreshComes'
      BY <1>1, CloseIs DEF FreshComes
    <2> QED
      BY <2>1, <2>2, <2>3
  <1> QED
    BY <1>6, <1>9, <1>10, <1>11 DEF FeedInv

(* What an update has to say is something. *)
LEMMA KnownValues ==
  ASSUME FeedTypes, NEW v \in Feed!Values
  PROVE  v \notin {"none", "unknown"} /\ v # "asked"
  <1>1. s1 \in {"capture", "led", "h264"}
    BY FeedsAssumption DEF FeedTypes
  <1> QED
    BY <1>1 DEF Feed!Values, Feed!CaptureValues, Feed!LedValues, Feed!ModeValues

(* Updates published are updates used up. *)
LEMMA StillFits ==
  ASSUME NEW x \in Nat, NEW y \in Nat, NEW z \in Nat, NEW w \in Nat, NEW bound \in Nat,
         x + z <= bound, y <= x + 1, w + 1 = z
  PROVE  y + w <= bound
  OBVIOUS

(* The status after an update. *)
LEMMA NextIs ==
  ASSUME NEW S, NEW r \in [run : Nat, stamp : Nat, value : S], NEW n \in Nat, NEW v \in S
  PROVE  LET next == [r EXCEPT !.stamp = n, !.value = v]
         IN  next \in [run : Nat, stamp : Nat, value : S] /\ next.run = r.run /\ next.stamp = n /\ next.value = v
  OBVIOUS

(* The status changes. *)
LEMMA UpdateKeeps ==
  ASSUME FeedInv, NEW v \in Feed!Values, Feed!Update(v)
  PROVE  FeedInv'
  <1> DEFINE next == [s2 EXCEPT !.stamp = @ + 1, !.value = v]
  <1>1. /\ s12 > 0 /\ s12' = s12 - 1
        /\ s1 = "h264" \/ s3 = <<>>
        /\ s2' = (IF s1 = "capture" /\ s2.value = v THEN s2 ELSE next)
        /\ s3' = (IF s2.value = v THEN s3 ELSE Append(s3, next))
        /\ UNCHANGED << s1, s4, s5, s6, s7, s8, s9, s10, s11, s13 >>
    BY DEF Feed!Update
  <1>2. FeedTypes /\ s2 \in Statuses /\ s3 \in Seq(Statuses) /\ Len(s3) \in Nat
    BY DEF FeedInv, FeedTypes
  <1>3. s2.run \in Nat /\ s2.stamp \in Nat /\ s2.run # 0
    BY WayTypes
  <1>4. /\ next \in Statuses /\ next.run = s2.run /\ next.stamp = s2.stamp + 1 /\ next.value = v
        /\ ~Unsure(next)
    <2>1. v \notin {"none", "unknown"}
      BY <1>2, KnownValues
    <2>2. s2 \in [run : Nat, stamp : Nat, value : Feed!Values \union {"none", "unknown"}]
      BY <1>2 DEF Statuses
    <2>3. s2.stamp + 1 \in Nat /\ v \in Feed!Values \union {"none", "unknown"}
      BY <1>3
    <2>4. next \in Statuses /\ next.run = s2.run /\ next.stamp = s2.stamp + 1 /\ next.value = v
      BY <2>2, <2>3, NextIs DEF Statuses
    <2> QED
      BY <2>1, <2>4 DEF Unsure
  <1>5. Append(s3, next) \in Seq(Statuses) /\ Len(Append(s3, next)) = Len(s3) + 1
        /\ Sent(Append(s3, next)) = Sent(s3) \union {next}
    BY <1>2, <1>4, SentAppend
  <1> HIDE DEF next
  <1>6. s3' \in Seq(Statuses) /\ Len(s3') <= Len(s3) + 1 /\ Len(s3') \in Nat
    BY <1>1, <1>2, <1>5
  <1>7. FeedTypes'
    <2>1. s12' \in Nat /\ s12' <= Updates /\ s12' + 1 = s12
      BY <1>1, <1>2, BoundsAssumption DEF FeedTypes
    <2>2. s1 # "h264" => Len(s3) = 0
      BY <1>1
    <2>3. IF s1 = "h264" THEN Len(s3') + s12' <= Updates ELSE Len(s3') <= 1
      <3>1. s1 = "h264" => Len(s3) + s12 <= Updates
        BY <1>2 DEF FeedTypes
      <3>2. s12 \in Nat /\ Updates \in Nat
        BY <1>2, BoundsAssumption DEF FeedTypes
      <3> QED
        <4>1. Len(s3) \in Nat /\ Len(s3') \in Nat /\ Len(s3') <= Len(s3) + 1
          BY <1>2, <1>6
        <4>2. CASE s1 = "h264"
          <5>1. Len(s3) + s12 <= Updates
            BY <3>1, <4>2
          <5>2. Len(s3') + s12' <= Updates
            BY <2>1, <3>2, <4>1, <5>1, StillFits
          <5> QED
            BY <4>2, <5>2
        <4>3. CASE s1 # "h264"
          BY <2>2, <4>1, <4>3
        <4> QED
          BY <4>2, <4>3
    <2>4. s2' \in Statuses /\ s2'.run # 0
      BY <1>1, <1>2, <1>3, <1>4
    <2> QED
      BY <1>1, <1>2, <1>6, <2>1, <2>3, <2>4, TypesStay DEF FeedTypes
  <1>8. CASE s2' = s2 /\ s2.value = v
    <2>1. Way' = Way /\ Items' = Items /\ Sent(s3)' = Sent(s3) /\ Sent(s9)' = Sent(s9)
      BY <1>1, <1>8 DEF Way, Items, Sent
    <2>2. /\ Sent(s3)' \union Sent(s9)' \subseteq {i \in Way \union {s2} : i.run = s2.run}
          /\ {s4, s5, s7, s8}' \subseteq Way
      BY <1>1, <2>1 DEF Way, FeedInv, WayIsOfThisRun
    <2>3. ASSUME NEW s \in Way \union {s11}, IsFresh(s)
          PROVE  Passed(s)
      BY <1>1, <2>1, <2>3, StaysPassed DEF Items
    <2>4. CASE s6 \in {"closed", "added"}
      BY <1>1, <1>7, <1>8, <2>1, <2>2, <2>4, StoreStays, OrderStays DEF FeedInv
    <2>5. CASE s6 \notin {"closed", "added"}
      BY <1>1, <1>7, <1>8, <2>1, <2>2, <2>3, <2>5, StoreStays, OrderStays DEF FeedInv
    <2> QED
      BY <2>4, <2>5
  <1>9. CASE s2' = next
    <2>1. /\ Sent(s3') \subseteq Sent(s3) \union {next} /\ Sent(s3) \subseteq Sent(s3')
          /\ s2.value # v => next \in Sent(s3')
          /\ Sent(s3)' = Sent(s3') /\ Sent(s9)' = Sent(s9)
      BY <1>1, <1>5 DEF Sent
    <2>2. /\ Way' \subseteq Way \union {next} /\ Items' \subseteq Items \union {next} /\ Way \subseteq Way'
          /\ s2.value # v => next \in Way'
          /\ s2.value = v => Items' = Items
      BY <1>1, <2>1 DEF Way, Items
    <2>3. \A i \in Items : i.run <= s2.run /\ (i.run = s2.run => i.stamp <= s2.stamp) /\ i.stamp \in Nat /\ i.run \in Nat
      BY <1>2, ItemTypes DEF FeedInv, StoreIsNewest
    <2>4. StoreIsNewest'
      <3>1. \A i \in Items \union {next} :
              /\ i.run <= next.run
              /\ i.run = next.run => /\ i.stamp <= next.stamp
                                     /\ i.stamp = next.stamp => i.value = next.value
        BY <1>3, <1>4, <2>3
      <3> QED
        BY <1>4, <1>9, <2>2, <3>1 DEF StoreIsNewest, Unsure
    <2>5. WayIsOfThisRun'
      BY <1>1, <1>4, <1>9, <2>1, TypesStay DEF FeedInv, WayIsOfThisRun
    <2>6. ClockGoesOn'
      <3> SUFFICES ASSUME s1 # "h264" PROVE ClockGoesOn'
        BY <1>1 DEF ClockGoesOn
      <3>1. \A i \in Items \union {next} : i.run < s2.run => i.stamp <= s2.stamp /\ i \in Items
        BY <1>3, <1>4, <2>3 DEF FeedInv, ClockGoesOn
      <3>2. \A j \in Items :
              j.run = s2.run /\ ~Unsure(j) =>
                /\ j.stamp # 0
                /\ \A i \in Items : i.run < s2.run => i.stamp < j.stamp
        BY DEF FeedInv, ClockGoesOn
      <3>3. next.stamp # 0 /\ \A i \in Items \union {next} : i.run < s2.run => i.stamp < next.stamp
        BY <1>3, <1>4, <2>3, <3>1
      <3>4. \A j \in Items \union {next} :
              j.run = s2.run /\ ~Unsure(j) =>
                /\ j.stamp # 0
                /\ \A i \in Items \union {next} : i.run < s2.run => i.stamp < j.stamp
        BY <3>1, <3>2, <3>3
      <3>5. \A i \in Items \union {next} : i.run < s2.run => i.stamp <= next.stamp
        BY <1>3, <1>4, <2>3, <3>1
      <3> QED
        BY <1>4, <1>9, <2>2, <3>4, <3>5 DEF ClockGoesOn, Unsure
    <2>7. InOrder'
      <3>1. \A s \in Way : s.stamp \in Nat /\ s.stamp <= next.stamp
        BY <1>3, <1>4, WayTypes
      <3>2. \A i \in 1 .. Len(s3) : s3[i] \in Way /\ s3[i].stamp \in Nat /\ s3[i].stamp <= next.stamp
        BY <1>2, <3>1, OrderIs
      <3>3. s4.stamp \in 0 .. next.stamp /\ s5.stamp \in 0 .. next.stamp /\ s8.stamp \in 0 .. next.stamp
        BY <1>2, <1>3, <1>4, <3>1, OrderIs
      <3>4. CASE s3' = s3
        BY <1>1, <3>4, TypesStay DEF FeedInv, InOrder
      <3>5. CASE s3' = Append(s3, next)
        <4>1. /\ Len(s3') = Len(s3) + 1 /\ s3'[Len(s3) + 1] = next
              /\ \A i \in 1 .. Len(s3) : s3'[i] = s3[i]
          BY <1>2, <3>5
        <4>2. \A i, j \in 1 .. Len(s3) : i < j => s3[i].stamp <= s3[j].stamp
          BY DEF FeedInv, InOrder
        <4>3. \A i, j \in 1 .. Len(s3') : i < j => s3'[i].stamp <= s3'[j].stamp
          <5> TAKE i, j \in 1 .. Len(s3')
          <5> HAVE i < j
          <5>1. i \in 1 .. Len(s3) /\ (j \in 1 .. Len(s3) \/ j = Len(s3) + 1)
            BY <1>2, <4>1
          <5> QED
            BY <3>2, <4>1, <4>2, <5>1
        <4>4. \A i \in 1 .. Len(s3) : {s4.stamp, s5.stamp, s8.stamp} \subseteq 0 .. s3[i].stamp
          BY DEF FeedInv, InOrder
        <4>5. \A i \in 1 .. Len(s3') : {s4.stamp, s5.stamp, s8.stamp} \subseteq 0 .. s3'[i].stamp
          <5> TAKE i \in 1 .. Len(s3')
          <5>1. i \in 1 .. Len(s3) \/ i = Len(s3) + 1
            BY <1>2, <4>1
          <5> QED
            BY <3>3, <4>1, <4>4, <5>1
        <4>6. /\ s4 # Feed!Nothing => {s5.stamp, s8.stamp} \subseteq 0 .. s4.stamp
              /\ s5 # Feed!Nothing => s8.stamp <= s5.stamp
          BY DEF FeedInv, InOrder
        <4> QED
          BY <1>1, <4>3, <4>5, <4>6, TypesStay DEF InOrder
      <3> QED
        BY <1>1, <3>4, <3>5
    <2>8. FreshComes'
      <3>1. CASE s6 \in {"closed", "added"}
        BY <1>1, <3>1 DEF FreshComes
      <3>2. CASE s6 \notin {"closed", "added"} /\ s2.value # v
        <4>1. IsFresh(s2)'
          <5>1. \A i \in Items' : i.run = next.run /\ i.stamp >= next.stamp => i.value = next.value
            BY <1>3, <1>4, <2>2, <2>3
          <5> QED
            BY <1>9, <5>1 DEF IsFresh
        <4>2. s2' \in Way'
          BY <1>9, <2>2, <3>2
        <4> QED
          BY <4>1, <4>2 DEF FreshComes
      <3>3. CASE s6 \notin {"closed", "added"} /\ s2.value = v
        <4>1. PICK s \in Way \union {s11} : IsFresh(s)
          BY <3>3, <1>2, KnownValues DEF FeedInv, FreshComes, Unsure
        <4>2. s.run = next.run /\ s.value = next.value
              /\ \A i \in Items' : i.run = next.run /\ i.stamp >= s.stamp => i.value = next.value
          BY <1>4, <2>2, <3>3, <4>1 DEF IsFresh
        <4>3. IsFresh(s)'
          BY <1>9, <4>2 DEF IsFresh
        <4>4. s \in Way' \union {s11'}
          BY <1>1, <2>2, <4>1
        <4> QED
          BY <4>3, <4>4 DEF FreshComes
      <3> QED
        BY <3>1, <3>2, <3>3
    <2> QED
      BY <1>7, <2>4, <2>5, <2>6, <2>7, <2>8 DEF FeedInv
  <1> QED
    BY <1>1, <1>8, <1>9

\* What a page does with a status that it is told of: one that is fresh is taken,
\* unless the page has one as new, and takes the place of a fresh one if it is as new.
LEMMA Accepted ==
  ASSUME FeedInv, ~Unsure(s2), NEW m \in Items, m \in Statuses, m # Feed!Nothing
  PROVE  /\ IsFresh(m) /\ ~Feed!Accepts(m) => s11.run = s2.run /\ s11.stamp >= m.stamp
         /\ IsFresh(s11) /\ Feed!Accepts(m) => m.run = s2.run /\ m.stamp >= s11.stamp
  <1>1. /\ s2.run \in Nat /\ s2.stamp \in Nat /\ s2.run # 0
        /\ m.run \in Nat /\ m.stamp \in Nat /\ s11.run \in Nat /\ s11.stamp \in Nat /\ s11 \in Items
    BY WayTypes, ItemTypes DEF FeedInv, Items
  <1>2. m.run <= s2.run /\ s11.run <= s2.run
    BY <1>1 DEF FeedInv, StoreIsNewest
  <1>3. s1 # "h264" /\ IsFresh(m) => m.stamp # 0 /\ (s11.run < s2.run => s11.stamp < m.stamp)
    BY <1>1 DEF FeedInv, ClockGoesOn, IsFresh, Unsure
  <1>4. s1 # "h264" /\ IsFresh(s11) => s11.stamp # 0 /\ (m.run < s2.run => m.stamp < s11.stamp)
    BY <1>1 DEF FeedInv, ClockGoesOn, IsFresh, Unsure
  <1>5. /\ Feed!Stamp(m) \in {0, m.stamp} /\ Feed!Stamp(s11) \in {0, s11.stamp}
        /\ IsFresh(m) => Feed!Stamp(m) = m.stamp
        /\ IsFresh(s11) => Feed!Stamp(s11) = s11.stamp
    BY DEF Feed!Stamp, IsFresh, Unsure
  <1>6. Feed!NotOlder(m) <=> Feed!Stamp(m) >= Feed!Stamp(s11)
    BY DEF Feed!NotOlder
  <1>7. Feed!NotRevised(m) <=> (m.run = s11.run => m.stamp >= s11.stamp)
    BY DEF Feed!NotRevised
  <1>8. Feed!Accepts(m) <=> s11 = Feed!Nothing \/ (IF s1 = "h264" THEN Feed!NotRevised(m) ELSE Feed!NotOlder(m))
    BY DEF Feed!Accepts
  <1>9. ASSUME IsFresh(m), ~Feed!Accepts(m)
        PROVE  s11.run = s2.run /\ s11.stamp >= m.stamp
    <2>1. m.run = s2.run
      BY <1>9 DEF IsFresh
    <2>2. CASE s1 = "h264"
      BY <1>1, <1>7, <1>8, <1>9, <2>1, <2>2
    <2>3. CASE s1 # "h264"
      BY <1>1, <1>2, <1>3, <1>5, <1>6, <1>8, <1>9, <2>3
    <2> QED
      BY <2>2, <2>3
  <1>10. ASSUME IsFresh(s11), Feed!Accepts(m), m.run = s2.run
         PROVE  m.run = s2.run /\ m.stamp >= s11.stamp
    <2>1. s11.run = s2.run /\ s11 # Feed!Nothing
      BY <1>1, <1>10, NothingIs DEF IsFresh
    <2>2. CASE s1 = "h264"
      BY <1>1, <1>7, <1>8, <1>10, <2>1, <2>2
    <2>3. CASE s1 # "h264"
      BY <1>1, <1>2, <1>4, <1>5, <1>6, <1>8, <1>10, <2>1, <2>3
    <2> QED
      BY <2>2, <2>3
  <1>11. ASSUME IsFresh(s11), Feed!Accepts(m), m.run # s2.run
         PROVE  FALSE
    <2>1. s11.run = s2.run /\ s11 # Feed!Nothing
      BY <1>1, <1>11, NothingIs DEF IsFresh
    <2>2. CASE s1 = "h264"
      <3>1. m \in Way \union {s11}
        BY <1>1, <2>2 DEF FeedInv, FeedTypes, Items
      <3>2. m \in Way => m.run = s2.run
        BY DEF FeedInv, WayIsOfThisRun, Way
      <3> QED
        BY <1>11, <2>1, <3>1, <3>2
    <2>3. CASE s1 # "h264"
      BY <1>1, <1>2, <1>4, <1>5, <1>6, <1>8, <1>11, <2>1, <2>3
    <2> QED
      BY <2>2, <2>3
  <1> QED
    BY <1>9, <1>10, <1>11

(* What the page has then. *)
LEMMA TypesReceived ==
  ASSUME FeedInv, NEW m \in Statuses, Feed!Received(m)
  PROVE  /\ s11' \in Statuses
         /\ (Feed!Accepts(m) /\ s11' = m) \/ (~Feed!Accepts(m) /\ s11' = s11)
  <1>1. s11' = (IF Feed!Accepts(m) THEN m ELSE s11)
    BY DEF Feed!Received
  <1>2. s11 \in Statuses
    BY DEF FeedInv, FeedTypes
  <1>3. CASE Feed!Accepts(m)
    BY <1>1, <1>3
  <1>4. CASE ~Feed!Accepts(m)
    BY <1>1, <1>2, <1>4
  <1> QED
    BY <1>3, <1>4

(* The page receives a status. *)
LEMMA FeedReceiveKeeps ==
  ASSUME FeedInv, Feed!Receive
  PROVE  FeedInv'
  <1> DEFINE m == Head(s9)
  <1>1. /\ s9 # <<>> /\ s9' = Tail(s9) /\ Feed!Received(m)
        /\ UNCHANGED << s1, s2, s3, s4, s5, s6, s7, s8, s10, s12, s13 >>
    BY DEF Feed!Receive
  <1>2. FeedTypes /\ s9 \in Seq(Statuses)
    BY DEF FeedInv, FeedTypes
  <1>3. m \in Statuses /\ s9' \in Seq(Statuses) /\ Sent(s9) = Sent(s9') \union {m}
    BY <1>1, <1>2, SentTail
  <1> HIDE DEF m
  <1>4. s11' \in Statuses /\ ((Feed!Accepts(m) /\ s11' = m) \/ (~Feed!Accepts(m) /\ s11' = s11))
    BY <1>1, <1>3, TypesReceived
  <1>5. FeedTypes'
    BY <1>1, <1>2, <1>3, <1>4, TypesStay DEF FeedTypes
  <1>6. /\ Way' \subseteq Way /\ Items' \subseteq Items /\ Way \subseteq Way' \union {m}
        /\ Sent(s3)' = Sent(s3) /\ Sent(s9)' \subseteq Sent(s9)
        /\ m \in Way /\ m \in Items /\ m.run = s2.run /\ s11 \in Items
    BY <1>1, <1>3, <1>4 DEF Way, Items, Sent, FeedInv, WayIsOfThisRun
  <1>7. m # Feed!Nothing
    BY <1>2, <1>6, NothingIs DEF FeedTypes
  <1>8. ASSUME ~Unsure(s2), NEW s \in Way \union {s11}, IsFresh(s)
        PROVE  Passed(s)
    <2>1. CASE s \in Way' \union {s11'}
      BY <1>8, <2>1, StaysPassed DEF Items
    <2>2. CASE s = m /\ ~Feed!Accepts(m)
      <3>1. s11.run = s2.run /\ s11.stamp >= m.stamp
        BY <1>3, <1>6, <1>7, <1>8, <2>2, Accepted
      <3> QED
        BY <1>4, <1>6, <2>2, <3>1 DEF Passed
    <2>3. CASE s = s11 /\ Feed!Accepts(m)
      <3>1. m.run = s2.run /\ m.stamp >= s11.stamp
        BY <1>3, <1>6, <1>7, <1>8, <2>3, Accepted
      <3> QED
        BY <1>4, <1>6, <2>3, <3>1 DEF Passed
    <2> QED
      BY <1>4, <1>6, <1>8, <2>1, <2>2, <2>3
  <1>9. /\ Sent(s3)' \union Sent(s9)' \subseteq {i \in Way \union {s2} : i.run = s2.run}
        /\ {s4, s5, s7, s8}' \subseteq Way
    BY <1>1, <1>6 DEF Way, FeedInv, WayIsOfThisRun
  <1>10. CASE s6 \in {"closed", "added"}
    BY <1>1, <1>5, <1>6, <1>9, <1>10, StoreStays, OrderStays DEF FeedInv
  <1>11. CASE s6 \notin {"closed", "added"}
    BY <1>1, <1>5, <1>6, <1>8, <1>9, <1>11, StoreStays, OrderStays DEF FeedInv
  <1> QED
    BY <1>10, <1>11

(* It has its question answered. *)
LEMMA AnsweredKeeps ==
  ASSUME FeedInv, Feed!Answered
  PROVE  FeedInv'
  <1>1. /\ s10 \notin {Feed!Nothing, Feed!Asked} /\ s10' = Feed!Nothing
        /\ Feed!Received(s10) \/ s11' = s11
        /\ UNCHANGED << s1, s2, s3, s4, s5, s6, s7, s8, s9, s12, s13 >>
    BY DEF Feed!Answered
  <1>2. FeedTypes /\ s10 \in Statuses /\ s10 \in Items /\ s11 \in Statuses
    BY <1>1 DEF FeedInv, FeedTypes, Items
  <1>3. s11' \in Statuses /\ (s11' = s11 \/ (Feed!Accepts(s10) /\ s11' = s10))
    <2>1. CASE Feed!Received(s10)
      <3>1. s11' \in Statuses /\ ((Feed!Accepts(s10) /\ s11' = s10) \/ (~Feed!Accepts(s10) /\ s11' = s11))
        BY <1>2, <2>1, TypesReceived
      <3> QED
        BY <3>1
    <2>2. CASE s11' = s11
      BY <1>2, <2>2
    <2> QED
      BY <1>1, <2>1, <2>2
  <1>4. FeedTypes'
    BY <1>1, <1>2, <1>3, NothingIs, TypesStay DEF FeedTypes
  <1>5. /\ Way' = Way /\ Items' \subseteq Items \union {Feed!Nothing}
        /\ Sent(s3)' = Sent(s3) /\ Sent(s9)' = Sent(s9)
    BY <1>1, <1>2, <1>3 DEF Way, Items, Sent
  <1>6. ASSUME ~Unsure(s2), NEW s \in Way \union {s11}, IsFresh(s)
        PROVE  Passed(s)
    <2>1. CASE s \in Way' \union {s11'}
      BY <1>6, <2>1, StaysPassed DEF Items
    <2>2. CASE s = s11 /\ Feed!Accepts(s10) /\ s11' = s10
      <3>1. s10.run = s2.run /\ s10.stamp >= s11.stamp
        BY <1>1, <1>2, <1>6, <2>2, Accepted
      <3> QED
        BY <1>2, <2>2, <3>1 DEF Passed
    <2> QED
      BY <1>3, <1>5, <1>6, <2>1, <2>2
  <1>7. /\ Sent(s3)' \union Sent(s9)' \subseteq {i \in Way \union {s2} : i.run = s2.run}
        /\ {s4, s5, s7, s8}' \subseteq Way
    BY <1>1, <1>5 DEF Way, FeedInv, WayIsOfThisRun
  <1>8. CASE s6 \in {"closed", "added"}
    BY <1>1, <1>4, <1>5, <1>7, <1>8, StoreStays, OrderStays DEF FeedInv
  <1>9. CASE s6 \notin {"closed", "added"}
    BY <1>1, <1>4, <1>5, <1>6, <1>7, <1>9, StoreStays, OrderStays DEF FeedInv
  <1> QED
    BY <1>8, <1>9

(* Every step of device and page keeps the invariant of the feeds. *)
LEMMA FeedKeeps == FeedInv /\ [Feed!FeedNext]_Feed!feedVars => FeedInv'
  <1> SUFFICES ASSUME FeedInv, [Feed!FeedNext]_Feed!feedVars PROVE FeedInv'
    OBVIOUS
  <1>1. ASSUME NEW v \in Feed!Values, Feed!Update(v) PROVE FeedInv'
    BY <1>1, UpdateKeeps
  <1>2. CASE UNCHANGED Feed!feedVars
    <2>1. UNCHANGED << s1, s2, s3, s4, s5, s6, s7, s8, s9, s10, s11, s12, s13 >>
      BY <1>2 DEF Feed!feedVars
    <2>2. Statuses' = Statuses /\ Feed!Nothing' = Feed!Nothing /\ Feed!Asked' = Feed!Asked
      BY <2>1, TypesStay
    <2>3. Way' = Way /\ Items' = Items
      BY <2>1 DEF Way, Items, Sent
    <2>4. FeedTypes' /\ StoreIsNewest' /\ WayIsOfThisRun'
      BY <2>1, <2>2, <2>3 DEF FeedInv, FeedTypes, StoreIsNewest, WayIsOfThisRun, Unsure, Sent
    <2>5. ClockGoesOn' /\ InOrder' /\ FreshComes'
      BY <2>1, <2>2, <2>3 DEF FeedInv, ClockGoesOn, InOrder, FreshComes, IsFresh, Unsure
    <2> QED
      BY <2>4, <2>5 DEF FeedInv
  <1> QED
    BY <1>1, <1>2, EnqueueKeeps, TakeKeeps, BroadcastKeeps, SendOwnKeeps, ConnectKeeps, AnswerKeeps,
       DisconnectKeeps, RestartKeeps, FeedReceiveKeeps, AnsweredKeeps
       DEF Feed!FeedNext

(* It has in it what the feeds promise. *)
LEMMA FeedPromises == FeedInv => Feed!FeedTypeOK /\ Feed!FeedIsTrue
  <1> SUFFICES ASSUME FeedInv PROVE Feed!FeedTypeOK /\ Feed!FeedIsTrue
    OBVIOUS
  <1>1. FeedTypes
    BY DEF FeedInv
  <1>2. Feed!FeedTypeOK
    <2>1. {s2.value, s4.value, s5.value, s11.value} \subseteq Feed!Values \union {"none", "unknown"}
      BY <1>1 DEF FeedTypes, Statuses
    <2>2. Len(s3) <= (IF s1 = "h264" THEN Updates ELSE 1)
      <3>1. Len(s3) \in Nat /\ s12 \in Nat /\ Updates \in Nat
        BY <1>1, BoundsAssumption DEF FeedTypes
      <3>2. IF s1 = "h264" THEN Len(s3) + s12 <= Updates ELSE Len(s3) <= 1
        BY <1>1 DEF FeedTypes
      <3> QED
        BY <3>1, <3>2
    <2>3. s1 \in Feeds /\ s6 \in {"closed", "added", "read", "started"}
          /\ (s1 # "led" => s8 = Feed!Nothing /\ s10 = Feed!Nothing)
      BY <1>1 DEF FeedTypes
    <2> QED
      BY <2>1, <2>2, <2>3 DEF Feed!FeedTypeOK
  <1>3. ASSUME ~Feed!UnderWay, s11.run = s2.run \/ s2.value \notin {"none", "unknown"}
        PROVE  s11.value = s2.value
    <2>1. s3 = <<>> /\ s9 = <<>> /\ s6 = "started" /\ s4 = Feed!Nothing /\ s5 = Feed!Nothing /\ s8 = Feed!Nothing
      BY <1>3 DEF Feed!UnderWay
    <2>2. s7 = Feed!Nothing /\ Feed!Nothing.run # s2.run
      BY <1>1, <2>1, NothingIs DEF FeedTypes
    <2>3. Way = {Feed!Nothing}
      BY <2>1, <2>2 DEF Way, Sent
    <2>4. CASE Unsure(s2)
      <3>1. s11.run = s2.run /\ s11 \in Items
        BY <1>3, <2>4 DEF Unsure, Items
      <3> QED
        BY <2>4, <3>1 DEF FeedInv, StoreIsNewest
    <2>5. CASE ~Unsure(s2)
      BY <2>1, <2>2, <2>3, <2>5 DEF FeedInv, FreshComes, IsFresh
    <2> QED
      BY <2>4, <2>5
  <1>4. s11.value = s2.value => Feed!Displayed(s11) = Feed!Displayed(s2)
    BY DEF Feed!Displayed, Feed!CaptureStatusOverlay, Feed!LockIndicator, Feed!MixedWarning
  <1> QED
    BY <1>2, <1>3, <1>4 DEF Feed!FeedIsTrue

(* However updates, broadcasts, snapshots and answers overtake each other,    *)
(* over lost connections and restarts of the device: once all has arrived the *)
(* page shows the status of the device, unless that has started again and is  *)
(* not sure of it yet (ws/service.go, capture-status, keyboard-led-status).   *)
THEOREM FeedHolds == Feed!FeedSpec => [](Feed!FeedTypeOK /\ Feed!FeedIsTrue)
  BY FeedStarts, FeedKeeps, FeedPromises, PTL DEF Feed!FeedSpec

-------------------------------------------------------------------------------
(******************************************************************************)
(* Stall warning.                                                             *)
(* s1, s2, ... are its mouseMode, stalled, effect, checks, isOpen,            *)
(* isRecovering, connected, restarts, warningEvents.                          *)
(******************************************************************************)

Findings == [effect : Nat, found : {"asked", "stalled", "fine"}]

\* An answer counts only for the effect it was asked by, and that one runs for an
\* absolute mouse.
ChecksAreOfMode ==
  \A c \in s4 : c.effect <= s3 /\ (c.effect = s3 => s1 = "absolute")

WarningFlags == s2 \in BOOLEAN /\ s5 \in BOOLEAN /\ s6 \in BOOLEAN /\ s7 \in BOOLEAN
WarningChecks ==
  /\ s1 \in {"absolute", "relative"}
  /\ s3 \in Nat /\ s4 \subseteq Findings
  /\ ChecksAreOfMode

\* What the timers have to open, and who opens the socket.
WarningRestarts == s8 \in Nat /\ s9 \in Nat /\ s8 + s9 <= WarningEvents
SomebodyOpens == s7 \/ s6 \/ s8 > 0

WarningInv ==
  /\ WarningFlags /\ WarningRestarts /\ SomebodyOpens
  /\ WarningChecks
  /\ s5 => s1 = "absolute"

(* The invariant of the warning holds at the beginning. *)
LEMMA WarningStarts == Warning!WarningInit => WarningInv
  <1> SUFFICES ASSUME Warning!WarningInit PROVE WarningInv
    OBVIOUS
  <1>1. WarningFlags /\ ~s5 /\ SomebodyOpens
    BY Zenon DEF Warning!WarningInit, WarningFlags, SomebodyOpens
  <1>2. WarningChecks
    BY DEF Warning!WarningInit, WarningChecks, ChecksAreOfMode
  <1>3. WarningRestarts
    BY BoundsAssumption DEF Warning!WarningInit, WarningRestarts
  <1> QED
    BY <1>1, <1>2, <1>3 DEF WarningInv

\* The timers that are pending: one more for a click, or one less.
LEMMA WarningRestartsKeep ==
  ASSUME WarningInv, [Warning!WarningNext]_(Warning!warningVars)
  PROVE  WarningRestarts'
  <1>1. \/ s8' = s8 /\ (s9' = s9 \/ (s9 > 0 /\ s9' = s9 - 1))
        \/ s8' = s8 + 1 /\ s9 > 0 /\ s9' = s9 - 1
        \/ s8 > 0 /\ s8' = s8 - 1 /\ s9' = s9
    <2>1. CASE UNCHANGED Warning!warningVars
      BY <2>1 DEF Warning!warningVars
    <2>2. CASE Warning!DeviceChanges \/ Warning!CloseWarning \/ Warning!RecoverUsb \/ Warning!Recovered
      BY <2>2 DEF Warning!DeviceChanges, Warning!CloseWarning, Warning!RecoverUsb, Warning!Recovered, Warning!Event
    <2>3. CASE Warning!ChangeInMenu \/ Warning!SwitchToRelative \/ Warning!CloseFromMenu
      BY <2>3 DEF Warning!CloseFromMenu, Warning!ChangeInMenu, Warning!SwitchToRelative, Warning!ApplyMouseMode, Warning!Event
    <2>4. CASE Warning!Check \/ (\E c \in s4 : Warning!Observed(c) \/ Warning!Answer(c))
      BY <2>4 DEF Warning!Check, Warning!Observed, Warning!Answer
    <2>5. CASE Warning!Restart
      BY <2>5 DEF Warning!Restart
    <2> QED
      BY <2>1, <2>2, <2>3, <2>4, <2>5, Zenon DEF Warning!WarningNext
  <1> QED
    BY <1>1, BoundsAssumption DEF WarningInv, WarningRestarts

\* Who closes the socket opens it, or leaves it to a timer.
LEMMA SomebodyOpensKeeps ==
  ASSUME WarningInv, [Warning!WarningNext]_(Warning!warningVars)
  PROVE  SomebodyOpens'
  <1>1. CASE UNCHANGED Warning!warningVars
    BY <1>1, Zenon DEF Warning!warningVars, WarningInv, SomebodyOpens
  <1>2. CASE Warning!DeviceChanges \/ Warning!CloseWarning \/ Warning!Check
             \/ (\E c \in s4 : Warning!Observed(c) \/ Warning!Answer(c))
    BY <1>2, Zenon DEF Warning!DeviceChanges, Warning!CloseWarning, Warning!Check, Warning!Observed,
                       Warning!Answer, WarningInv, SomebodyOpens
  <1>3. CASE Warning!RecoverUsb \/ Warning!Recovered \/ Warning!Restart
    BY <1>3, Zenon DEF Warning!RecoverUsb, Warning!Recovered, Warning!Restart, SomebodyOpens
  <1>4. CASE Warning!CloseFromMenu
    <2>1. s8' > 0
      BY <1>4 DEF Warning!CloseFromMenu, WarningInv, WarningRestarts
    <2> QED
      BY <2>1, Zenon DEF SomebodyOpens
  <1>5. ASSUME NEW m \in {"absolute", "relative"}, Warning!ApplyMouseMode(m), s6' = s6
        PROVE  SomebodyOpens'
    <2>1. CASE m = "relative"
      <3>1. s8' > 0
        BY <1>5, <2>1 DEF Warning!ApplyMouseMode, WarningInv, WarningRestarts
      <3> QED
        BY <3>1, Zenon DEF SomebodyOpens
    <2>2. CASE m # "relative"
      <3>1. m = "absolute" /\ s8' = s8
        BY <1>5, <2>2, Zenon DEF Warning!ApplyMouseMode
      <3> QED
        BY <1>5, <3>1, Zenon DEF Warning!ApplyMouseMode, WarningInv, SomebodyOpens
    <2> QED
      BY <2>1, <2>2
  <1>6. CASE Warning!ChangeInMenu \/ Warning!SwitchToRelative
    BY <1>5, <1>6, Zenon DEF Warning!ChangeInMenu, Warning!SwitchToRelative
  <1> QED
    BY <1>1, <1>2, <1>3, <1>6, <1>4, Zenon DEF Warning!WarningNext

(* Every check and status keeps it. *)
LEMMA WarningKeeps ==
  ASSUME WarningInv, [Warning!WarningNext]_(Warning!warningVars)
  PROVE  WarningInv'
  <1> DEFINE Due == s5 => s1 = "absolute"
  <1>1. ASSUME Warning!DeviceChanges \/ Warning!CloseWarning \/ Warning!RecoverUsb \/ Warning!Recovered
               \/ Warning!CloseFromMenu \/ Warning!Restart
        PROVE  WarningFlags' /\ WarningChecks' /\ Due'
    <2>1. UNCHANGED << s1, s3, s4 >> /\ (s5' = s5 \/ s5' = FALSE)
      BY <1>1, Zenon DEF Warning!DeviceChanges, Warning!CloseWarning, Warning!RecoverUsb, Warning!Recovered,
                Warning!CloseFromMenu, Warning!Restart
    <2>2. WarningFlags'
      BY <1>1, Zenon DEF Warning!DeviceChanges, Warning!CloseWarning, Warning!RecoverUsb, Warning!Recovered,
                Warning!CloseFromMenu, Warning!Restart, WarningInv, WarningFlags
    <2>3. WarningChecks'
      BY <2>1 DEF WarningInv, WarningChecks, ChecksAreOfMode
    <2>4. s5' => s5
      BY <2>1, Zenon
    <2> QED
      BY <2>1, <2>2, <2>3, <2>4, Zenon DEF WarningInv
  <1>2. ASSUME Warning!Check
        PROVE  WarningFlags' /\ WarningChecks' /\ Due'
    <2>1. WarningChecks'
      BY <1>2 DEF Warning!Check, WarningInv, WarningChecks, ChecksAreOfMode, Findings
    <2> QED
      BY <1>2, <2>1, Zenon DEF Warning!Check, WarningInv, WarningFlags
  <1>3. ASSUME Warning!ChangeInMenu \/ Warning!SwitchToRelative
        PROVE  WarningFlags' /\ WarningChecks' /\ Due'
    <2>1. PICK m \in {"absolute", "relative"} : Warning!ApplyMouseMode(m)
      BY <1>3, Zenon DEF Warning!ChangeInMenu, Warning!SwitchToRelative
    <2>2. UNCHANGED << s2, s4, s6 >>
      BY <1>3, Zenon DEF Warning!ChangeInMenu, Warning!SwitchToRelative
    <2>3. WarningChecks'
      BY <2>1, <2>2 DEF Warning!ApplyMouseMode, WarningInv, WarningChecks, ChecksAreOfMode, Findings
    <2>4. WarningFlags' /\ Due'
      BY <2>1, <2>2, Zenon DEF Warning!ApplyMouseMode, WarningInv, WarningFlags
    <2> QED
      BY <2>3, <2>4
  <1>4. ASSUME NEW c \in s4, Warning!Observed(c)
        PROVE  WarningFlags' /\ WarningChecks' /\ Due'
    <2>1. WarningChecks'
      BY <1>4 DEF Warning!Observed, WarningInv, WarningChecks, ChecksAreOfMode, Findings
    <2> QED
      BY <1>4, <2>1, Zenon DEF Warning!Observed, WarningInv, WarningFlags
  <1>5. ASSUME NEW c \in s4, Warning!Answer(c)
        PROVE  WarningFlags' /\ WarningChecks' /\ Due'
    <2>1. WarningChecks'
      BY <1>5 DEF Warning!Answer, WarningInv, WarningChecks, ChecksAreOfMode
    <2>2. WarningFlags' /\ s1' = s1
      BY <1>5, Zenon DEF Warning!Answer, WarningInv, WarningFlags
    <2>3. s5' => s1 = "absolute"
      BY <1>5, Zenon DEF Warning!Answer, Warning!Current, WarningInv, WarningChecks, ChecksAreOfMode
    <2> QED
      BY <2>1, <2>2, <2>3
  <1>6. ASSUME UNCHANGED Warning!warningVars
        PROVE  WarningFlags' /\ WarningChecks' /\ Due'
    <2>1. WarningFlags' /\ Due'
      BY <1>6, Zenon DEF Warning!warningVars, WarningInv, WarningFlags
    <2>2. WarningChecks'
      BY <1>6 DEF Warning!warningVars, WarningInv, WarningChecks, ChecksAreOfMode
    <2> QED
      BY <2>1, <2>2
  <1>7. WarningFlags' /\ WarningChecks' /\ Due'
    BY <1>1, <1>2, <1>3, <1>4, <1>5, <1>6, Zenon DEF Warning!WarningNext
  <1> QED
    BY <1>7, WarningRestartsKeep, SomebodyOpensKeeps, Zenon DEF WarningInv

(* It has in it what the warning promises. *)
LEMMA WarningPromises == WarningInv => Warning!WarningTypeOK /\ Warning!WarningIsDue
  <1> SUFFICES ASSUME WarningInv PROVE Warning!WarningTypeOK /\ Warning!WarningIsDue
    OBVIOUS
  <1>1. Warning!WarningIsDue /\ {s2, s5, s6, s7} \subseteq BOOLEAN
    BY Zenon DEF WarningInv, WarningFlags, SomebodyOpens, Warning!WarningIsDue
  <1>2. \A c \in s4 : c.found \in {"asked", "stalled", "fine"} /\ c.effect <= s3
    BY DEF WarningInv, WarningChecks, ChecksAreOfMode, Findings
  <1>3. s8 \in 0 .. WarningEvents
    BY BoundsAssumption DEF WarningInv, WarningRestarts
  <1> QED
    BY <1>1, <1>2, <1>3, Zenon DEF WarningInv, WarningChecks, Warning!WarningTypeOK

(* The warning, which offers the relative mouse, is not shown to one who has  *)
(* it, though a check may be answered after the mode has changed; and however *)
(* recoveries of the gadget and changes of the mode overlap, a socket that    *)
(* one of them has closed will be opened again (hid-status, mouse-mode.ts).   *)
THEOREM WarningHolds == Warning!WarningSpec => [](Warning!WarningTypeOK /\ Warning!WarningIsDue)
  <1>1. WarningInv /\ [Warning!WarningNext]_(Warning!warningVars) => WarningInv'
    BY WarningKeeps, Zenon
  <1> QED
    BY <1>1, WarningStarts, WarningPromises, PTL DEF Warning!WarningSpec

-------------------------------------------------------------------------------
(******************************************************************************)
(* Terminal.                                                                  *)
(* s1, s2, ... are its address, page, socket, startTimer, closeTimer,         *)
(* running, early, sent, reads, unsent, shell, reader, writer.                *)
(******************************************************************************)

Room(b) == IF b THEN 1 ELSE 0

\* Each of the two messages is sent once: one after the socket has opened, and one
\* as the page is left.
SentOnce ==
  Len(s8) <= Room(~(s4 \/ s3 \in {"none", "connecting"})) + Room(s2 \in {"left", "gone"})

\* picocom runs, or will once what was sent has been read.
Picocom == IF s8 = <<>> THEN s11 = "picocom" ELSE s8[Len(s8)] = "picocom"

\* The socket of a page that is shown is closed by the writer, or after it.
ClosedByWriter == s2 = "shown" /\ (s3 = "closed" \/ s12 = "done") => s13 = "done"

\* What the page knows of picocom.
PicocomIsKnown ==
  /\ s2 \in {"none", "shown"} => (Picocom => s6)
  /\ s2 \in {"left", "gone"} /\ ~s7 =>
       /\ ~s4 /\ s3 \notin {"none", "connecting"}
       /\ s9 /\ s13 = "running" => ~Picocom

TerminalFlags == s4 \in BOOLEAN /\ s5 \in BOOLEAN /\ s6 \in BOOLEAN /\ s7 \in BOOLEAN /\ s9 \in BOOLEAN /\ s10 \in BOOLEAN
TerminalStates ==
  /\ s1 \in Terminal!Addresses \union {Terminal!Plain}
  /\ s2 \in {"none", "shown", "left", "gone"}
  /\ s3 \in {"none", "connecting", "open", "closed"}
  /\ s2 = "none" => s3 = "none"
  /\ s3 = "none" => s2 = "none"
  /\ s8 \in Seq({"picocom", "exit"})
  /\ s11 \in {"none", "prompt", "picocom", "killed"}
  /\ s5 => s2 = "left"
  /\ s3 \in {"none", "connecting"} => s12 = "none" /\ s13 = "none"
  /\ s12 \in {"none", "running", "done"} /\ s13 \in {"none", "running", "done"}

TerminalInv ==
  TerminalFlags /\ TerminalStates /\ SentOnce /\ ClosedByWriter /\ PicocomIsKnown

Messages == {"picocom", "exit"}

\* Sending and reading a message.
LEMMA SendsOne ==
  ASSUME NEW s \in Seq(Messages), NEW m \in Messages
  PROVE  /\ Append(s, m) \in Seq(Messages) /\ Len(Append(s, m)) = Len(s) + 1
         /\ Append(s, m) # <<>> /\ Append(s, m)[Len(Append(s, m))] = m
  OBVIOUS

(* Reading leaves the last one last. *)
LEMMA ReadsOne ==
  ASSUME NEW s \in Seq(Messages), s # <<>>
  PROVE  /\ Tail(s) \in Seq(Messages) /\ Len(Tail(s)) = Len(s) - 1 /\ Head(s) \in Messages
         /\ IF Tail(s) = <<>> THEN s[Len(s)] = Head(s) ELSE Tail(s)[Len(Tail(s))] = s[Len(s)]
  <1>1. Tail(s) \in Seq(Messages) /\ Len(Tail(s)) = Len(s) - 1 /\ Head(s) = s[1] /\ Head(s) \in Messages
    OBVIOUS
  <1>2. CASE Tail(s) = <<>>
    BY <1>1, <1>2, SMTT(30)
  <1>3. CASE Tail(s) # <<>>
    <2>1. Len(Tail(s)) \in 1 .. Len(s) - 1
      BY <1>1, <1>3
    <2> QED
      BY <1>1, <1>3, <2>1
  <1> QED
    BY <1>1, <1>2, <1>3

(* Room for a message is a number. *)
LEMMA RoomIsNatural == \A b : Room(b) \in Nat
  BY DEF Room

(* The invariant of the terminal holds before the dialog is opened. *)
LEMMA TerminalStarts == Terminal!TerminalInit => TerminalInv
  <1> SUFFICES ASSUME Terminal!TerminalInit PROVE TerminalInv
    OBVIOUS
  <1> USE DEF Terminal!TerminalInit
  <1>a. TerminalFlags
    BY Zenon DEF TerminalFlags
  <1>b. s8 \in Seq({"picocom", "exit"})
    OBVIOUS
  <1>c. s1 \in Terminal!Addresses \union {Terminal!Plain}
    OBVIOUS
  <1>1. TerminalFlags /\ TerminalStates
    BY <1>a, <1>b, <1>c DEF TerminalStates
  <1>2. SentOnce
    BY DEF SentOnce, Room
  <1>3. ClosedByWriter /\ PicocomIsKnown
    BY DEF ClosedByWriter, PicocomIsKnown, Picocom
  <1> QED
    BY <1>1, <1>2, <1>3 DEF TerminalInv

(* The dialog opens the page. *)
LEMMA SubmitKeeps ==
  ASSUME TerminalInv, NEW a \in Terminal!Addresses \union {Terminal!Plain}, Terminal!Submit(a)
  PROVE  TerminalInv'
  <1>0. s2 = "none" /\ s3 = "none" /\ s2' = "shown" /\ s3' = "connecting" /\ s1' = a
        /\ UNCHANGED << s4, s5, s6, s7, s8, s9, s10, s11, s12, s13 >>
    BY DEF Terminal!Submit, TerminalInv, TerminalStates
  <1>1. TerminalFlags' /\ TerminalStates'
    <2>1. TerminalFlags'
      BY <1>0, Zenon DEF TerminalInv, TerminalFlags
    <2>2. TerminalStates'
      BY <1>0 DEF TerminalInv, TerminalStates
    <2> QED
      BY <2>1, <2>2
  <1>2. SentOnce'
    BY <1>0 DEF TerminalInv, SentOnce, Room
  <1>3. ClosedByWriter'
    BY <1>0 DEF TerminalInv, TerminalStates, ClosedByWriter
  <1>4. PicocomIsKnown'
    BY <1>0 DEF TerminalInv, PicocomIsKnown, Picocom
  <1> QED
    BY <1>1, <1>2, <1>3, <1>4 DEF TerminalInv

(* The socket opens, and the shell is started. *)
LEMMA OpensKeeps ==
  ASSUME TerminalInv, Terminal!Opens
  PROVE  TerminalInv'
  <1>0. s3 = "connecting" /\ s3' = "open" /\ s4' = TRUE /\ s11' = "prompt" /\ s12' = "running"
        /\ s13' = "running" /\ UNCHANGED << s1, s2, s5, s6, s7, s8, s9, s10 >>
    BY DEF Terminal!Opens
  <1>1. TerminalFlags' /\ TerminalStates'
    <2>1. TerminalFlags'
      BY <1>0, Zenon DEF TerminalInv, TerminalFlags
    <2>2. TerminalStates'
      BY <1>0 DEF TerminalInv, TerminalStates
    <2> QED
      BY <2>1, <2>2
  <1>2. SentOnce'
    BY <1>0 DEF TerminalInv, SentOnce, Room
  <1>3. ClosedByWriter'
    BY <1>0 DEF ClosedByWriter
  <1>4. PicocomIsKnown'
    BY <1>0 DEF TerminalInv, PicocomIsKnown, Picocom
  <1> QED
    BY <1>1, <1>2, <1>3, <1>4 DEF TerminalInv

(* The page starts picocom. *)
LEMMA RunPicocomKeeps ==
  ASSUME TerminalInv, Terminal!RunPicocom
  PROVE  TerminalInv'
  <1>0. s4 = TRUE /\ s4' = FALSE /\ UNCHANGED << s1, s2, s3, s5, s7, s9, s10, s11, s12, s13 >>
    BY DEF Terminal!RunPicocom, TerminalInv, TerminalFlags
  <1>1. CASE UNCHANGED << s6, s8 >>
    <2>1. TerminalFlags' /\ TerminalStates'
      <3>1. TerminalFlags'
        BY <1>0, <1>1, Zenon DEF TerminalInv, TerminalFlags
      <3> QED
        BY <1>0, <1>1, <3>1 DEF TerminalInv, TerminalStates
    <2>2. SentOnce'
      BY <1>0, <1>1 DEF TerminalInv, TerminalStates, SentOnce, Room
    <2>3. ClosedByWriter'
      BY <1>0 DEF TerminalInv, ClosedByWriter
    <2>4. PicocomIsKnown'
      BY <1>0, <1>1 DEF TerminalInv, PicocomIsKnown, Picocom
    <2> QED
      BY <2>1, <2>2, <2>3, <2>4 DEF TerminalInv
  <1>2. CASE s8' = (IF s3 = "open" THEN Append(s8, "picocom") ELSE s8) /\ s6' = TRUE
    <2>1. s8 \in Seq(Messages)
      BY DEF TerminalInv, TerminalStates, Messages
    <2>2. s8' \in Seq(Messages) /\ Len(s8') <= Len(s8) + 1 /\ (s3 # "open" => s8' = s8)
      BY <1>2, <2>1, SendsOne DEF Messages
    <2>3. TerminalFlags' /\ TerminalStates'
      <3>1. TerminalFlags'
        BY <1>0, <1>2, Zenon DEF TerminalInv, TerminalFlags
      <3>2. TerminalStates'
        BY <1>0, <2>2 DEF TerminalInv, TerminalStates, Messages
      <3> QED
        BY <3>1, <3>2
    <2>4. SentOnce'
      <3>1. s3 \in {"open", "closed"} => Len(s8') <= 1 + Room(s2 \in {"left", "gone"})
        BY <1>0, <2>1, <2>2, RoomIsNatural DEF TerminalInv, SentOnce, Room
      <3>2. s3 \in {"none", "connecting"} => SentOnce'
        BY <1>0, <2>2 DEF TerminalInv, SentOnce, Room
      <3> QED
        BY <1>0, <3>1, <3>2 DEF SentOnce, Room, TerminalInv, TerminalStates
    <2>5. ClosedByWriter'
      BY <1>0 DEF TerminalInv, ClosedByWriter
    <2>6. PicocomIsKnown'
      BY <1>0, <1>2 DEF TerminalInv, PicocomIsKnown, Picocom
    <2> QED
      BY <2>3, <2>4, <2>5, <2>6 DEF TerminalInv
  <1> QED
    BY <1>1, <1>2, Zenon DEF Terminal!RunPicocom

(* The page is left, and tells picocom to exit. *)
LEMMA LeaveKeeps ==
  ASSUME TerminalInv, Terminal!Leave
  PROVE  TerminalInv'
  <1>0. s2 = "shown" /\ s2' = "left" /\ s5' = TRUE /\ UNCHANGED << s1, s3, s4, s9, s10, s11, s12, s13 >>
        /\ Terminal!ExitPicocom /\ s7' = (s4 \/ s3 = "connecting")
    BY DEF Terminal!Leave
  <1>1. s8 \in Seq(Messages)
    BY DEF TerminalInv, TerminalStates, Messages
  <1>2. /\ s8' \in Seq(Messages) /\ Len(s8') <= Len(s8) + 1
        /\ s3 = "open" /\ s6 => s8' # <<>> /\ s8'[Len(s8')] = "exit"
        /\ ~(s3 = "open" /\ s6) => UNCHANGED << s6, s8 >>
    BY <1>0, <1>1, SendsOne DEF Terminal!ExitPicocom, Messages
  <1>3. TerminalFlags'
    <2>1. s6' \in BOOLEAN
      BY <1>0, Zenon DEF Terminal!ExitPicocom, TerminalInv, TerminalFlags
    <2> QED
      BY <1>0, <2>1, Zenon DEF TerminalInv, TerminalFlags
  <1>4. TerminalStates'
    BY <1>0, <1>2 DEF TerminalInv, TerminalStates, Messages
  <1>5. SentOnce'
    <2>1. Len(s8) <= Room(~(s4 \/ s3 \in {"none", "connecting"}))
      BY <1>0, <1>1, RoomIsNatural DEF TerminalInv, SentOnce, Room
    <2> QED
      BY <1>0, <1>1, <1>2, <2>1 DEF SentOnce, Room
  <1>6. ClosedByWriter'
    BY <1>0 DEF ClosedByWriter
  <1>7. PicocomIsKnown'
    <2>1. ~s7' => ~s4 /\ s3 # "connecting" /\ s3 # "none"
      BY <1>0 DEF TerminalInv, TerminalStates
    <2>2. CASE s3 = "open" /\ s6
      <3>1. ~Picocom'
        BY <1>2, <2>2 DEF Picocom
      <3> QED
        BY <1>0, <2>1, <3>1 DEF PicocomIsKnown
    <2>3. CASE ~s6
      <3>1. ~Picocom'
        BY <1>0, <1>2, <2>3 DEF Picocom, TerminalInv, PicocomIsKnown
      <3> QED
        BY <1>0, <2>1, <3>1 DEF PicocomIsKnown
    <2>4. CASE s3 = "closed"
      <3>1. s13' = "done"
        BY <1>0, <2>4 DEF TerminalInv, ClosedByWriter
      <3> QED
        BY <1>0, <2>1, <3>1 DEF PicocomIsKnown
    <2>5. CASE s3 \in {"none", "connecting"}
      BY <1>0, <2>1, <2>5 DEF PicocomIsKnown
    <2> QED
      BY <2>2, <2>3, <2>4, <2>5 DEF TerminalInv, TerminalStates
  <1> QED
    BY <1>3, <1>4, <1>5, <1>6, <1>7 DEF TerminalInv

\* The page, its timer and its socket.
LEMMA PageKeeps ==
  ASSUME TerminalInv, Terminal!CloseLeft \/ Terminal!Unloaded \/ Terminal!Freezes
  PROVE  TerminalInv'
  <1>0. /\ UNCHANGED << s1, s6, s7, s8, s10, s11, s12, s13 >>
        /\ s4' = s4 \/ (s4' = FALSE /\ s3' = "closed")
        /\ s2' = s2 \/ (s2 = "left" /\ s2' = "gone" /\ s5' = FALSE)
        /\ s3' = s3 \/ (s3' = "closed" /\ s2 = "left")
        /\ s5' = s5 \/ s5' = FALSE
        /\ s9' = s9 \/ s9' = FALSE
    BY DEF Terminal!CloseLeft, Terminal!Unloaded, Terminal!Freezes, TerminalInv, TerminalStates
  <1>1. TerminalFlags'
    BY <1>0 DEF TerminalInv, TerminalFlags
  <1>2. TerminalStates'
    BY <1>0 DEF TerminalInv, TerminalStates
  <1>3. SentOnce'
    BY <1>0 DEF TerminalInv, TerminalStates, TerminalFlags, SentOnce, Room
  <1>4. ClosedByWriter'
    BY <1>0 DEF TerminalInv, ClosedByWriter
  <1>5. PicocomIsKnown'
    <2>1. Picocom' = Picocom
      BY <1>0 DEF Picocom
    <2> QED
      BY <1>0, <2>1 DEF TerminalInv, PicocomIsKnown
  <1> QED
    BY <1>1, <1>2, <1>3, <1>4, <1>5 DEF TerminalInv

(* The shell reads a message. *)
LEMMA ReadKeeps ==
  ASSUME TerminalInv, Terminal!Read
  PROVE  TerminalInv'
  <1>0. /\ s8 # <<>> /\ s8' = Tail(s8) /\ s11' = (IF Head(s8) = "picocom" THEN "picocom" ELSE "prompt")
        /\ UNCHANGED << s1, s2, s3, s4, s5, s6, s7, s9, s10, s12, s13 >>
    BY DEF Terminal!Read
  <1>1. s8 \in Seq(Messages)
    BY DEF TerminalInv, TerminalStates, Messages
  <1>2. /\ s8' \in Seq(Messages) /\ Len(s8') = Len(s8) - 1
        /\ IF s8' = <<>> THEN s8[Len(s8)] = Head(s8) ELSE s8'[Len(s8')] = s8[Len(s8)]
    BY <1>0, <1>1, ReadsOne
  <1>3. TerminalFlags' /\ TerminalStates'
    <2>1. TerminalFlags'
      BY <1>0, Zenon DEF TerminalInv, TerminalFlags
    <2> QED
      BY <1>0, <1>2, <2>1 DEF TerminalInv, TerminalStates, Messages
  <1>4. SentOnce'
    <2> DEFINE R == Room(~(s4 \/ s3 \in {"none", "connecting"})) + Room(s2 \in {"left", "gone"})
    <2>1. R \in Nat /\ R' = R
      BY <1>0, RoomIsNatural
    <2>2. Len(s8) <= R /\ Len(s8) \in Nat /\ Len(s8') <= R'
      BY <1>1, <1>2, <2>1 DEF TerminalInv, SentOnce
    <2> QED
      BY <2>2 DEF SentOnce
  <1>5. ClosedByWriter'
    BY <1>0 DEF TerminalInv, ClosedByWriter
  <1>6. PicocomIsKnown'
    <2>1. Picocom' = Picocom
      BY <1>0, <1>2 DEF Picocom
    <2> QED
      BY <1>0, <2>1 DEF TerminalInv, PicocomIsKnown
  <1> QED
    BY <1>3, <1>4, <1>5, <1>6 DEF TerminalInv

\* The goroutines end, and the shell is killed.
LEMMA DeviceKeeps ==
  ASSUME TerminalInv, Terminal!ReaderEnds \/ Terminal!ShellWrites \/ Terminal!WriterEnds \/ Terminal!Teardown
  PROVE  TerminalInv'
  <1>0. /\ UNCHANGED << s1, s2, s4, s5, s6, s7, s8, s9 >>
        /\ s12 \in {"running", "done"} \/ s13 = "running"
        /\ \/ UNCHANGED << s3, s11, s12, s13 >>
           \/ s12' = "done" /\ (s3 = "closed" \/ s13 = "done") /\ UNCHANGED << s3, s11, s13 >>
           \/ s13 = "running" /\ s13' = "done" /\ s3' = "closed" /\ UNCHANGED << s11, s12 >>
           \/ s12 = "done" /\ s11' = "killed" /\ s3' = "closed" /\ UNCHANGED << s12, s13 >>
    BY DEF Terminal!ReaderEnds, Terminal!ShellWrites, Terminal!WriterEnds, Terminal!Teardown
  <1>1. TerminalFlags'
    <2>1. s10' = TRUE \/ s10' = s10
      BY Zenon DEF Terminal!ReaderEnds, Terminal!ShellWrites, Terminal!WriterEnds, Terminal!Teardown
    <2>2. s10' \in BOOLEAN
      BY <2>1, Zenon DEF TerminalInv, TerminalFlags
    <2>3. UNCHANGED << s4, s5, s6, s7, s9 >>
      BY <1>0
    <2> QED
      BY <2>2, <2>3, Zenon DEF TerminalInv, TerminalFlags
  <1>2. TerminalStates'
    BY <1>0 DEF TerminalInv, TerminalStates
  <1>3. SentOnce'
    BY <1>0 DEF TerminalInv, TerminalStates, SentOnce, Room
  <1>4. ClosedByWriter'
    BY <1>0 DEF TerminalInv, TerminalStates, ClosedByWriter
  <1>5. PicocomIsKnown'
    <2>1. Picocom' => Picocom
      BY <1>0 DEF Picocom
    <2> QED
      BY <1>0, <2>1 DEF TerminalInv, TerminalStates, PicocomIsKnown
  <1> QED
    BY <1>1, <1>2, <1>3, <1>4, <1>5 DEF TerminalInv

(* Every step of page and device keeps the invariant of the terminal. *)
LEMMA TerminalKeeps ==
  ASSUME TerminalInv, [Terminal!TerminalNext]_(Terminal!terminalVars)
  PROVE  TerminalInv'
  <1>1. CASE UNCHANGED Terminal!terminalVars
    <2>1. UNCHANGED << s1, s2, s3, s4, s5, s6, s7, s8, s9, s10, s11, s12, s13 >>
      BY <1>1 DEF Terminal!terminalVars
    <2> QED
      <3>1. TerminalFlags' /\ TerminalStates'
        <4>1. TerminalFlags'
          BY <2>1, Zenon DEF TerminalInv, TerminalFlags
        <4>2. TerminalStates'
          BY <2>1 DEF TerminalInv, TerminalStates
        <4> QED
          BY <4>1, <4>2
      <3>2. SentOnce' /\ ClosedByWriter' /\ (Picocom' <=> Picocom)
        BY <2>1 DEF TerminalInv, SentOnce, ClosedByWriter, Picocom
      <3>3. PicocomIsKnown'
        BY <2>1, <3>2 DEF TerminalInv, PicocomIsKnown
      <3> QED
        BY <3>1, <3>2, <3>3 DEF TerminalInv
  <1> QED
    BY <1>1, SubmitKeeps, OpensKeeps, RunPicocomKeeps, LeaveKeeps, PageKeeps, ReadKeeps, DeviceKeeps,
       Zenon DEF Terminal!TerminalNext

\* What the form offers, the page starts with.
LEMMA OffersAreValid ==
  ASSUME NEW a \in Terminal!Addresses \union {Terminal!Plain},
         a.port \in Terminal!DevicePorts, a.baud \in Terminal!KnownRates
  PROVE  Terminal!Valid(a)
  <1>1. a \in Terminal!Addresses
    <2>1. Terminal!Plain.port = ""
      BY DEF Terminal!Plain
    <2>2. "" \notin Terminal!DevicePorts
      BY DEF Terminal!DevicePorts
    <2> QED
      BY <2>1, <2>2
  <1>2. PICK p \in Ports, r \in Rates, y \in Terminal!Parities, f \in Terminal!FlowControls, b \in 5 .. 8, s \in 1 .. 2 :
          a = [port |-> p, baud |-> r, parity |-> y, flow |-> f, bits |-> b, stop |-> s]
    BY <1>1 DEF Terminal!Addresses
  <1>3. a.parity = y /\ a.flow = f /\ a.bits = b /\ a.stop = s
    BY <1>2
  <1>4. a.parity \in Terminal!AllowedParities /\ a.flow \in Terminal!AllowedFlowControls
    BY <1>2, <1>3 DEF Terminal!Parities, Terminal!FlowControls, Terminal!AllowedParities,
                      Terminal!AllowedFlowControls
  <1> QED
    BY <1>2, <1>3, <1>4, Zenon DEF Terminal!Valid

(* It has in it what the terminal promises. *)
LEMMA TerminalPromises == TerminalInv => Terminal!TerminalTypeOK /\ Terminal!PortIsLeft
  <1> SUFFICES ASSUME TerminalInv PROVE Terminal!TerminalTypeOK /\ Terminal!PortIsLeft
    OBVIOUS
  <1>1. Len(s8) <= 2
    BY DEF TerminalInv, TerminalStates, SentOnce, Room
  <1>2. {s4, s5, s6, s7, s9, s10} \subseteq BOOLEAN
    BY Zenon DEF TerminalInv, TerminalFlags
  <1>3. {s12, s13} \subseteq {"none", "running", "done"}
    BY DEF TerminalInv, TerminalStates
  <1>4. Terminal!TerminalTypeOK
    BY <1>1, <1>2, <1>3, Zenon DEF TerminalInv, TerminalStates, Terminal!TerminalTypeOK
  <1>5. s2 \in {"left", "gone"} /\ ~s7 /\ s9 /\ s13 = "running" => s11 # "picocom" \/ s8 # <<>>
    BY DEF TerminalInv, PicocomIsKnown, Picocom
  <1>6. s1.port \in Terminal!DevicePorts /\ s1.baud \in Terminal!KnownRates => Terminal!Valid(s1)
    BY OffersAreValid DEF TerminalInv, TerminalStates
  <1> QED
    BY <1>4, <1>5, <1>6, Zenon DEF Terminal!PortIsLeft

(* For any ports and rates: once its socket is closed, a page that was not    *)
(* left at once has told picocom, which holds the port, to exit; and the page *)
(* starts with whatever the form offers for the device's ports                *)
(* (terminal/index.tsx, menu/terminal).                                       *)
THEOREM TerminalHolds ==
  Terminal!TerminalSpec => [](Terminal!TerminalTypeOK /\ Terminal!PortIsLeft)
  <1>1. TerminalInv /\ [Terminal!TerminalNext]_(Terminal!terminalVars) => TerminalInv'
    BY TerminalKeeps, Zenon
  <1> QED
    BY <1>1, TerminalStarts, TerminalPromises, PTL DEF Terminal!TerminalSpec

-------------------------------------------------------------------------------
(****************************************************************************)
(* All links.                                                                 *)
(****************************************************************************)

LinkNames == {"websocket", "stream", "player", "panel", "feeds", "warning", "terminal"}

(* Of the part that runs, its invariant.                                      *)
LinksInv ==
  /\ part \in LinkNames
  /\ part = "websocket" => WsFlags /\ WsSockets
  /\ part = "stream" => StreamInv
  /\ part = "player" => RtcInv
  /\ part = "panel" => PanelInv
  /\ part = "feeds" => FeedInv
  /\ part = "warning" => WarningInv
  /\ part = "terminal" => TerminalInv

(* It holds of whatever part a behaviour picks, ...                           *)
LEMMA LinksStart == Init => LinksInv
  BY Zenon, WsStarts, StreamStarts, PlayerStarts, PanelStarts, FeedStarts, WarningStarts,
     TerminalStarts
  DEF Init, LinksInv, LinkNames

(* ... which runs alone: a step is one of its own, or none.                   *)
LEMMA LinkStepIsOfPart ==
  ASSUME [Next]_pageVars
  PROVE  /\ part' = part
         /\ part = "websocket" => [Websocket!WsNext]_(Websocket!wsVars)
         /\ part = "stream" => [Stream!StreamNext]_(Stream!streamVars)
         /\ part = "player" => [Player!RtcNext]_(Player!rtcVars)
         /\ part = "panel" => [Panel!PanelNext]_(Panel!panelVars)
         /\ part = "feeds" => [Feed!FeedNext]_(Feed!feedVars)
         /\ part = "warning" => [Warning!WarningNext]_(Warning!warningVars)
         /\ part = "terminal" => [Terminal!TerminalNext]_(Terminal!terminalVars)
  <1>1. CASE Next
    <2>1. part' = part
      BY <1>1 DEF Next
    <2> QED
      BY <1>1, <2>1, Zenon DEF Next
  <1>2. CASE UNCHANGED pageVars
    <2>1. UNCHANGED << part, s1, s2, s3, s4, s5, s6, s7, s8, s9, s10, s11, s12, s13, s14, s15,
                       s16, s17, s18, s19, s20, s21 >>
      BY <1>2 DEF pageVars
    <2>2. UNCHANGED Websocket!wsVars
      BY <2>1 DEF Websocket!wsVars, Websocket!client, Websocket!wsBounds
    <2>3. UNCHANGED Stream!streamVars
      BY <2>1 DEF Stream!streamVars, Stream!server, Stream!codec
    <2>4. UNCHANGED Player!rtcVars /\ UNCHANGED Panel!panelVars
      BY <2>1 DEF Player!rtcVars, Player!attempt, Panel!panelVars
    <2>5. UNCHANGED Feed!feedVars /\ UNCHANGED Warning!warningVars /\ UNCHANGED Terminal!terminalVars
      BY <2>1 DEF Feed!feedVars, Warning!warningVars, Terminal!terminalVars
    <2> QED
      BY <2>1, <2>2, <2>3, <2>4, <2>5
  <1> QED
    BY <1>1, <1>2

(* So the invariant is kept, part by part.                                    *)
LEMMA LinksKeep ==
  ASSUME LinksInv, [Next]_pageVars
  PROVE  LinksInv'
  <1>1. part' = part /\ part \in LinkNames
    BY LinkStepIsOfPart, Zenon DEF LinksInv
  <1>2. CASE part = "websocket"
    <2>1. WsFlags /\ WsSockets /\ [Websocket!WsNext]_(Websocket!wsVars)
      BY <1>2, LinkStepIsOfPart, Zenon DEF LinksInv
    <2> QED
      BY <1>1, <1>2, <2>1, WsKeeps, Zenon DEF LinksInv
  <1>3. CASE part = "stream"
    <2>1. StreamInv /\ [Stream!StreamNext]_(Stream!streamVars)
      BY <1>3, LinkStepIsOfPart, Zenon DEF LinksInv
    <2> QED
      BY <1>1, <1>3, <2>1, StreamKeeps, Zenon DEF LinksInv
  <1>4. CASE part = "player"
    <2>1. RtcInv /\ [Player!RtcNext]_(Player!rtcVars)
      BY <1>4, LinkStepIsOfPart, Zenon DEF LinksInv
    <2> QED
      BY <1>1, <1>4, <2>1, PlayerKeeps, Zenon DEF LinksInv
  <1>5. CASE part = "panel"
    BY <1>1, <1>5, LinkStepIsOfPart, PanelKeeps, Zenon DEF LinksInv
  <1>6. CASE part = "feeds"
    BY <1>1, <1>6, LinkStepIsOfPart, FeedKeeps, Zenon DEF LinksInv
  <1>7. CASE part = "warning"
    <2>1. WarningInv /\ [Warning!WarningNext]_(Warning!warningVars)
      BY <1>7, LinkStepIsOfPart, Zenon DEF LinksInv
    <2> QED
      BY <1>1, <1>7, <2>1, WarningKeeps, Zenon DEF LinksInv
  <1>8. CASE part = "terminal"
    <2>1. TerminalInv /\ [Terminal!TerminalNext]_(Terminal!terminalVars)
      BY <1>8, LinkStepIsOfPart, Zenon DEF LinksInv
    <2> QED
      BY <1>1, <1>8, <2>1, TerminalKeeps, Zenon DEF LinksInv
  <1> QED
    BY <1>1, <1>2, <1>3, <1>4, <1>5, <1>6, <1>7, <1>8 DEF LinkNames

(* And so it holds of every behaviour, fair or not.                           *)
LEMMA LinksInvariance == Spec => []LinksInv
  BY LinksStart, LinksKeep, PTL DEF Spec

(* The variables of the part that runs keep their types.                      *)
THEOREM LinksTypeCorrect == Spec => []LinksTypeOK
  <1>1. LinksInv => LinksTypeOK
    BY Zenon, WsTypes, StreamPromises, PlayerPromises, PanelPromises, FeedPromises,
       WarningPromises, TerminalPromises
    DEF LinksInv, LinkNames, LinksTypeOK
  <1> QED
    BY <1>1, LinksInvariance, PTL

(* What the page shows is so: delta frames follow their predecessors          *)
(* (direct/client.go), warnings are due (h264-webrtc.tsx, hid-status), and no *)
(* recovery or change of the mouse leaves the input socket closed for good;   *)
(* careful panels and the overlays show what the device has (menu/settings,   *)
(* ws/service.go), and a terminal that is left has told picocom to exit.      *)
THEOREM ShownStaysTrue == Spec => []ShownIsTrue
  <1>1. LinksInv => ShownIsTrue
    BY Zenon, StreamPromises, PlayerPromises, PanelPromises, FeedPromises, WarningPromises,
       TerminalPromises
    DEF LinksInv, ShownIsTrue
  <1> QED
    BY <1>1, LinksInvariance, PTL
===============================================================================
