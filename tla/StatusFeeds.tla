------------------------------- MODULE StatusFeeds -------------------------------
(* The statuses that the device sends over the input socket: the state of the video
   capture ("capture", server stream/capture_status.go), the lock keys of the host
   ("led", hid/leds.go), and whether viewers mix two kinds of H.264 stream ("h264",
   stream/h264_mode.go). All are kept by a store, published through a slot that holds
   the newest (ws/capture_status.go, h264_mode.go, keyboard_led_status.go), and sent
   as a snapshot to a client that connects (ws/service.go): a snapshot and a newer
   status can overtake each other, and the page has to tell which is newer
   (pages/desktop/capture-status, keyboard-led-status, notification.tsx).

   One feed per behaviour and one page. The clock of the device goes forward, by a
   millisecond at least from status to status. The capture status is that of the video
   mode of the page, which is fixed until it is loaded again. *)
EXTENDS Naturals, Sequences

CONSTANTS
  Feeds,              \* the feeds: "capture", "led", "h264"
  Updates, FeedOutages    \* bounds: updates of the store, lost connections and restarts

VARIABLES
  feed,
  store,       \* the status that the device has: of which run, its stamp, and its value
  publishing,  \* on their way from the store to the slot
  slot,        \* pending, of the broadcaster
  hand,        \* taken from it, being sent
  stage,       \* of the connection: "closed", "added" to the manager, "read" the
               \* snapshot, or "started"
  snapshot,    \* read from the store and not sent yet
  own,         \* led: what waits in the client's own slot
  wire,        \* sent, and not received
  answer,      \* led: of GET /hid/leds: Nothing, Asked, or a status
  latest,      \* latestStatusRef
  updates, outages

feedVars == <<feed, store, publishing, slot, hand, stage, snapshot, own, wire, answer,
              latest, updates, outages>>

Nothing == [run |-> 0, stamp |-> 0, value |-> "none"]
Asked == [Nothing EXCEPT !.value = "asked"]

\* Of the results of the capture three are told apart by what is shown, of the LEDs one.
CaptureValues == {"ok", "noHdmi", "videoError"}
LedValues == {"off", "capsLock"}
ModeValues == {"plain", "mixed"}

Values == CASE feed = "capture" -> CaptureValues
            [] feed = "led" -> LedValues
            [] feed = "h264" -> ModeValues

\* What a device that has just started has.
Initial(run) ==
  [run |-> run, stamp |-> 0,
   value |-> CASE feed = "capture" -> "none" [] feed = "led" -> "unknown" [] feed = "h264" -> "plain"]

FeedTypeOK ==
  /\ feed \in Feeds
  /\ {store.value, slot.value, hand.value, latest.value} \subseteq Values \union {"none", "unknown"}
  /\ stage \in {"closed", "added", "read", "started"}
  /\ Len(publishing) <= (IF feed = "h264" THEN Updates ELSE 1)
  /\ feed # "led" => own = Nothing /\ answer = Nothing

FeedInit ==
  /\ feed \in Feeds
  /\ store = Initial(1)
  /\ publishing = <<>> /\ slot = Nothing /\ hand = Nothing
  /\ stage = "closed" /\ snapshot = Nothing /\ own = Nothing /\ wire = <<>>
  /\ answer = IF feed = "led" THEN Asked ELSE Nothing
  /\ latest = Nothing
  /\ updates = Updates /\ outages = FeedOutages

-----------------------------------------------------------------------------
(* The device *)

\* store.update, Update and h264ModeStore.update with a new value v. A capture status
\* that says the same is not kept at all; nobody is told of one that says the same.
\* The readers of capture and LEDs go on after they have told it.
Update(v) ==
  LET next == [store EXCEPT !.stamp = @ + 1, !.value = v]
      same == store.value = v
  IN  /\ updates > 0 /\ updates' = updates - 1
      /\ feed = "h264" \/ publishing = <<>>
      /\ store' = IF feed = "capture" /\ same THEN store ELSE next
      /\ publishing' = IF same THEN publishing ELSE Append(publishing, next)
      /\ UNCHANGED <<feed, slot, hand, stage, snapshot, own, wire, answer, latest, outages>>

\* Enqueue: the newest takes the place of one that still waits.
Enqueue ==
  /\ publishing # <<>>
  /\ publishing' = Tail(publishing) /\ slot' = Head(publishing)
  /\ UNCHANGED <<feed, store, hand, stage, snapshot, own, wire, answer, latest, updates, outages>>

\* takePending
Take ==
  /\ hand = Nothing /\ slot # Nothing
  /\ hand' = slot /\ slot' = Nothing
  /\ UNCHANGED <<feed, store, publishing, stage, snapshot, own, wire, answer, latest, updates, outages>>

\* broadcast to who is connected; LED statuses by way of a slot of each client.
Broadcast ==
  /\ hand # Nothing /\ hand' = Nothing
  /\ own' = IF feed = "led" /\ stage # "closed" THEN hand ELSE own
  /\ wire' = IF feed # "led" /\ stage # "closed" THEN Append(wire, hand) ELSE wire
  /\ UNCHANGED <<feed, store, publishing, slot, stage, snapshot, answer, latest, updates, outages>>

\* runKeyboardLedStatusWorker, once the client is started.
SendOwn ==
  /\ stage = "started" /\ own # Nothing
  /\ own' = Nothing /\ wire' = Append(wire, own)
  /\ UNCHANGED <<feed, store, publishing, slot, hand, stage, snapshot, answer, latest, updates, outages>>

\* Connect: AddClient
AddClient ==
  /\ stage = "closed" /\ stage' = "added"
  /\ UNCHANGED <<feed, store, publishing, slot, hand, snapshot, own, wire, answer, latest, updates, outages>>

\* sendCaptureStatusSnapshot and the others read the store ...
ReadSnapshot ==
  /\ stage = "added" /\ stage' = "read"
  /\ snapshot' = store
  /\ UNCHANGED <<feed, store, publishing, slot, hand, own, wire, answer, latest, updates, outages>>

\* ... and send what they have read; of the capture nothing may be known.
SendSnapshot ==
  /\ stage = "read" /\ stage' = "started"
  /\ wire' = IF snapshot.value = "none" THEN wire ELSE Append(wire, snapshot)
  /\ snapshot' = Nothing
  /\ UNCHANGED <<feed, store, publishing, slot, hand, own, answer, latest, updates, outages>>

\* GetKeyboardLedStatus
Answer ==
  /\ answer = Asked /\ answer' = store
  /\ UNCHANGED <<feed, store, publishing, slot, hand, stage, snapshot, own, wire, latest, updates, outages>>

Close == stage' = "closed" /\ snapshot' = Nothing /\ own' = Nothing /\ wire' = <<>>

\* The connection is lost, with what is on its way.
Disconnect ==
  /\ outages > 0 /\ outages' = outages - 1
  /\ stage # "closed" /\ Close
  /\ UNCHANGED <<feed, store, publishing, slot, hand, answer, latest, updates>>

\* The server starts again. It knows nothing, and what it numbers it numbers anew.
Restart ==
  /\ outages > 0 /\ outages' = outages - 1
  /\ store' = [Initial(store.run + 1) EXCEPT !.stamp = IF feed = "h264" THEN 0 ELSE store.stamp]
  /\ publishing' = <<>> /\ slot' = Nothing /\ hand' = Nothing
  /\ Close
  /\ answer' = IF answer = Asked THEN Nothing ELSE answer
  /\ UNCHANGED <<feed, latest, updates>>

-----------------------------------------------------------------------------
(* The page *)

\* The time a status says; the unknown one of a device that has not heard of its
\* keyboard says none.
Stamp(s) == IF s.value = "unknown" THEN 0 ELSE s.stamp

\* shouldAcceptCaptureStatus, shouldAcceptKeyboardLedStatus
NotOlder(next) == Stamp(next) >= Stamp(latest)

\* H264ModeNotification compares revisions of the same generation.
NotRevised(next) == next.run = latest.run => next.stamp >= latest.stamp

Accepts(next) == latest = Nothing \/ IF feed = "h264" THEN NotRevised(next) ELSE NotOlder(next)

Received(next) == latest' = IF Accepts(next) THEN next ELSE latest

Receive ==
  /\ wire # <<>> /\ wire' = Tail(wire)
  /\ Received(Head(wire))
  /\ UNCHANGED <<feed, store, publishing, slot, hand, stage, snapshot, own, answer, updates, outages>>

\* The answer to getKeyboardLedStatus comes, or is a failure.
Answered ==
  /\ answer \notin {Nothing, Asked} /\ answer' = Nothing
  /\ Received(answer) \/ UNCHANGED latest
  /\ UNCHANGED <<feed, store, publishing, slot, hand, stage, snapshot, own, wire, updates, outages>>

FeedNext ==
  \/ \E v \in Values : Update(v)
  \/ Enqueue \/ Take \/ Broadcast \/ SendOwn
  \/ AddClient \/ ReadSnapshot \/ SendSnapshot \/ Answer
  \/ Disconnect \/ Restart
  \/ Receive \/ Answered

FeedSpec == FeedInit /\ [][FeedNext]_feedVars

-----------------------------------------------------------------------------
(* Properties *)

\* What the operator sees
CaptureStatusOverlay(s) == IF s.value \in {"none", "ok"} THEN "hidden" ELSE s.value
LockIndicator(s) == IF s.value = "none" THEN "unknown" ELSE s.value
MixedWarning(s) == IF s.value = "mixed" THEN "warning" ELSE "hidden"

Displayed(s) ==
  CASE feed = "capture" -> CaptureStatusOverlay(s)
    [] feed = "led" -> LockIndicator(s)
    [] feed = "h264" -> MixedWarning(s)

UnderWay ==
  \/ publishing # <<>> \/ wire # <<>> \/ stage # "started"
  \/ {slot, hand, own} # {Nothing}

\* However snapshot, broadcasts and answer overtake each other, the page comes to rest
\* at what the device has. (Not after a restart of the device, until it knows
\* something again: the page goes on showing what it showed.)
FeedIsTrue ==
  ~UnderWay /\ (latest.run = store.run \/ store.value \notin {"none", "unknown"})
    => Displayed(latest) = Displayed(store)
=============================================================================
