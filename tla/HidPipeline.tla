----------------------------- MODULE HidPipeline -----------------------------
(***************************************************************************)
(* server/service/ws and server/service/hid: the way of a report from the  *)
(* WebSocket of a client to the HID gadget.                                *)
(*                                                                         *)
(* A client has a read loop, a queue and a worker for the keyboard, and a  *)
(* queue and a worker for the two mice. The read loop reserves manual      *)
(* control for every report (InputCoordinator) and queues it; it never     *)
(* waits for the gadget. A worker writes the reports of its queue and lets *)
(* go of what its client holds down when a write fails, when the client    *)
(* changes from one mouse to the other, and when the queue is closed.      *)
(*                                                                         *)
(* A step of a worker is one call of writeHID with the local bookkeeping   *)
(* that follows it: the mutex of the device is held for the whole of it.   *)
(* A write that fails has not reached the host. Left out: reports of an    *)
(* odd length, which the read loop drops before it reserves, and a queue   *)
(* that is closed under the read loop, since only the read loop closes it. *)
(***************************************************************************)
EXTENDS Integers, Sequences, FiniteSets

CONSTANTS
  Clients,
  ReportsOf,  \* the reports that each client may send
  Capacity,   \* of a queue; 200 in the code
  Failing,    \* the devices a write to which may fail
  MaxMotion   \* bound on the relative motion that is asked for

Devices == {"keyboard", "relative", "absolute"}
Lines == {"keyboard", "mouse"}
LineOf(d) == IF d = "keyboard" THEN "keyboard" ELSE "mouse"
DevicesOf(w) == {d \in Devices : LineOf(d) = w}

\* A report leaves something down or not; for the absolute mouse "at" is a
\* position, for the relative mouse a distance.
Report == [device : Devices, down : BOOLEAN, at : Nat]
NoReport == [device |-> "none", down |-> FALSE, at |-> 0]
Corner == 0  \* the position of absoluteMouseReleaseReport(nil)

ASSUME ClientsAssumption ==
  /\ IsFiniteSet(Clients)
  /\ ReportsOf \in [Clients -> SUBSET Report]
  /\ \A c \in Clients : \A r \in ReportsOf[c] : r.device = "absolute" => r.at # Corner
ASSUME CapacityAssumption == Capacity \in Nat \ {0}
ASSUME BoundAssumption == Failing \subseteq Devices /\ MaxMotion \in Nat

VARIABLES
  reader,      \* per client: where its read loop is, the report in its hand,
               \* the turns that are left to the loop of sendQueue
  queue,       \* per client and line: the reports queued
  worker,      \* per client and line: where it is, its report, devices to let go of
  active,      \* per client: keyboardActive, relativeButtonsActive, absoluteButtonsActive
  resting,     \* per client: the position in absoluteReleaseReport
  pending,     \* per client: reservations that are not completed
  host,        \* per device: what the host has seen last
  rebuilding,  \* the gadget is being rebuilt, under Hid.Lock
  newest,      \* history: what the client asked for last, down or not
  unreleased,  \* history: devices that the client's worker could not let go of
  asked        \* history: the relative motion all clients asked for

vars == <<reader, queue, worker, active, resting, pending, host, rebuilding,
          newest, unreleased, asked>>
history == <<newest, unreleased, asked>>

ReaderPlaces == {"reading", "send", "evict", "closing", "closed"}
WorkerPlaces == {"idle", "switch", "write", "clean", "end", "done"}
Reading == [at |-> "reading", report |-> NoReport, turns |-> 0]
IdleWorker == [at |-> "idle", report |-> NoReport, todo |-> {}]

Init ==
  /\ reader = [c \in Clients |-> Reading]
  /\ queue = [c \in Clients |-> [w \in Lines |-> <<>>]]
  /\ worker = [c \in Clients |-> [w \in Lines |-> IdleWorker]]
  /\ active = [c \in Clients |-> {}]
  /\ resting = [c \in Clients |-> Corner]
  /\ pending = [c \in Clients |-> 0]
  /\ host = [d \in Devices |-> [down |-> FALSE, at |-> Corner]]
  /\ rebuilding = FALSE
  /\ newest = [c \in Clients |-> [d \in Devices |-> FALSE]]
  /\ unreleased = [c \in Clients |-> {}]
  /\ asked = 0

-----------------------------------------------------------------------------
(* The read loop *)

Motion(r) == IF r.device = "relative" THEN r.at ELSE 0
InHand(c) == queue[c][LineOf(reader[c].report.device)]

\* A report arrives and its reservation is granted. (When it is refused the
\* report is dropped and nothing else happens.)
Receive(c) ==
  /\ reader[c].at = "reading"
  /\ \E r \in ReportsOf[c] :
       /\ asked + Motion(r) <= MaxMotion
       /\ reader' = [reader EXCEPT ![c] = [at |-> "send", report |-> r, turns |-> Capacity + 1]]
       /\ newest' = [newest EXCEPT ![c][r.device] = r.down]
       /\ asked' = asked + Motion(r)
  /\ pending' = [pending EXCEPT ![c] = @ + 1]
  /\ UNCHANGED <<queue, worker, active, resting, host, rebuilding, unreleased>>

SendAnyway(c) ==  \* mutant: the room is not looked at
  /\ reader[c].at = "send"
  /\ queue' = [queue EXCEPT ![c][LineOf(reader[c].report.device)] = Append(@, reader[c].report)]
  /\ reader' = [reader EXCEPT ![c] = Reading]
  /\ UNCHANGED <<worker, active, resting, pending, host, rebuilding, history>>

\* sendQueue: the queue has room.
Send(c) ==
  /\ reader[c].at = "send"
  /\ Len(InHand(c)) < Capacity
  /\ queue' = [queue EXCEPT ![c][LineOf(reader[c].report.device)] = Append(@, reader[c].report)]
  /\ reader' = [reader EXCEPT ![c] = Reading]
  /\ UNCHANGED <<worker, active, resting, pending, host, rebuilding, history>>

\* It has none: on to the oldest report.
QueueFull(c) ==
  /\ reader[c].at = "send"
  /\ Len(InHand(c)) = Capacity
  /\ reader' = [reader EXCEPT ![c].at = "evict"]
  /\ UNCHANGED <<queue, worker, active, resting, pending, host, rebuilding, history>>

\* The oldest report is taken out and completed as failed, unless the worker has
\* taken it meanwhile. After its last turn the loop ends and the report is
\* forgotten with its reservation.
Evict(c) ==
  /\ reader[c].at = "evict"
  /\ IF InHand(c) # <<>>
     THEN /\ queue' = [queue EXCEPT ![c][LineOf(reader[c].report.device)] = Tail(@)]
          /\ pending' = [pending EXCEPT ![c] = @ - 1]
     ELSE UNCHANGED <<queue, pending>>
  /\ reader' = IF reader[c].turns > 1
               THEN [reader EXCEPT ![c].at = "send", ![c].turns = @ - 1]
               ELSE [reader EXCEPT ![c] = Reading]
  /\ UNCHANGED <<worker, active, resting, host, rebuilding, history>>

\* The socket fails or the heartbeat stops: Close closes the queues.
Disconnect(c) ==
  /\ reader[c].at = "reading"
  /\ reader' = [reader EXCEPT ![c].at = "closing"]
  /\ UNCHANGED <<queue, worker, active, resting, pending, host, rebuilding, history>>

\* Close waits for both workers.
FinishClose(c) ==
  /\ reader[c].at = "closing"
  /\ \A w \in Lines : worker[c][w].at = "done"
  /\ reader' = [reader EXCEPT ![c].at = "closed"]
  /\ UNCHANGED <<queue, worker, active, resting, pending, host, rebuilding, history>>

ReaderStep(c) == Send(c) \/ QueueFull(c) \/ Evict(c) \/ FinishClose(c)

-----------------------------------------------------------------------------
(* writeHID *)

\* The mutex of the device is free and the write ends, well or, where a write
\* may fail, badly.
Attempt(d, ok) == ~rebuilding /\ (ok \/ d \in Failing)

Deliver(r) ==
  host' = [host EXCEPT ![r.device] =
             [down |-> r.down, at |-> IF r.device = "relative" THEN @.at + r.at ELSE r.at]]

\* A release report: no buttons, no motion, the pointer at p.
LetGo(d, p) ==
  host' = [host EXCEPT ![d] = [down |-> FALSE, at |-> IF d = "absolute" THEN p ELSE @.at]]

-----------------------------------------------------------------------------
(* The workers *)

SwitchNothing(d) == {}  \* mutant: the mouse changes and nothing is let go of

\* The mouse that has to be let go of before d is written to.
OtherMouse(d) ==
  CASE d = "relative" -> {"absolute"} [] d = "absolute" -> {"relative"} [] OTHER -> {}

Take(c, w) ==
  /\ worker[c][w].at = "idle"
  /\ queue[c][w] # <<>>
  /\ LET r == Head(queue[c][w])
     IN worker' = [worker EXCEPT ![c][w] =
          [at |-> IF OtherMouse(r.device) \intersect active[c] = {} THEN "write" ELSE "switch",
           report |-> r, todo |-> {}]]
  /\ queue' = [queue EXCEPT ![c][w] = Tail(@)]
  /\ UNCHANGED <<reader, active, resting, pending, host, rebuilding, history>>

DrainsSilently(c, w) == 0  \* mutant: the drained reports are not completed

\* The reports that drainHIDQueue takes and completes.
Drained(c, w) == Len(queue[c][w])

\* What a client may hold down when the write of r has failed.
ActiveAfterFailure(c, r) == active[c] \union (IF r.down THEN {r.device} ELSE {})

\* A write has failed: the queue is drained, every report in it completes as
\* failed, and the devices of the line are to be let go of.
Fail(c, w) ==
  LET r == worker[c][w].report
  IN /\ queue' = [queue EXCEPT ![c][w] = <<>>]
     /\ pending' = [pending EXCEPT ![c] = @ - Drained(c, w)]
     /\ active' = [active EXCEPT ![c] = ActiveAfterFailure(c, r)]
     /\ resting' = IF r.device = "absolute" /\ r.down
                   THEN [resting EXCEPT ![c] = r.at]
                   ELSE resting
     /\ worker' = [worker EXCEPT ![c][w] =
          [at |-> "clean", report |-> r,
           todo |-> DevicesOf(w) \intersect (active'[c] \union {r.device})]]

Released(c, d) ==
  /\ active' = [active EXCEPT ![c] = @ \ {d}]
  /\ unreleased' = [unreleased EXCEPT ![c] = @ \ {d}]

FlagLost(c, d) ==  \* mutant: the flag is cleared before the release is known to be out
  /\ unreleased' = [unreleased EXCEPT ![c] = @ \union {d}]
  /\ active' = [active EXCEPT ![c] = @ \ {d}]
  /\ UNCHANGED host

NotReleased(c, d) ==
  /\ unreleased' = [unreleased EXCEPT ![c] = @ \union {d}]
  /\ UNCHANGED <<host, active>>

\* The client has changed from one mouse to the other: first its buttons on the
\* mouse it leaves.
ReleaseOther(c, w) ==
  /\ worker[c][w].at = "switch"
  /\ \E d \in OtherMouse(worker[c][w].report.device), ok \in BOOLEAN :
       /\ Attempt(d, ok)
       /\ IF ok
          THEN /\ LetGo(d, resting[c])
               /\ Released(c, d)
               /\ worker' = [worker EXCEPT ![c][w].at = "write"]
               /\ UNCHANGED <<queue, pending, resting>>
          ELSE Fail(c, w) /\ UNCHANGED <<host, unreleased>>
  /\ UNCHANGED <<reader, rebuilding, newest, asked>>

KeepsPosition(c, r) == resting  \* mutant: absoluteReleaseReport is not renewed

RestsAt(c, r) == IF r.device = "absolute" THEN [resting EXCEPT ![c] = r.at] ELSE resting

WriteReport(c, w) ==
  /\ worker[c][w].at = "write"
  /\ LET r == worker[c][w].report
     IN \E ok \in BOOLEAN :
          /\ Attempt(r.device, ok)
          /\ IF ok
             THEN /\ Deliver(r)
                  /\ active' = [active EXCEPT ![c] = IF r.down THEN @ \union {r.device}
                                                               ELSE @ \ {r.device}]
                  /\ unreleased' = [unreleased EXCEPT ![c] = @ \ {r.device}]
                  /\ resting' = RestsAt(c, r)
                  /\ pending' = [pending EXCEPT ![c] = @ - 1]
                  /\ worker' = [worker EXCEPT ![c][w] = IdleWorker]
                  /\ UNCHANGED queue
             ELSE Fail(c, w) /\ UNCHANGED <<host, unreleased>>
  /\ UNCHANGED <<reader, rebuilding, newest, asked>>

\* The relative mouse comes before the absolute one.
First(todo) == IF "absolute" \in todo /\ todo # {"absolute"} THEN todo \ {"absolute"} ELSE todo

\* After a failure: each device is let go of, whatever becomes of the other, and
\* then the report completes as failed.
CleanUp(c, w) ==
  /\ worker[c][w].at = "clean"
  /\ \E d \in First(worker[c][w].todo), ok \in BOOLEAN :
       /\ Attempt(d, ok)
       /\ LET r == worker[c][w].report
              rest == worker[c][w].todo \ {d}
          IN /\ IF ok
                THEN Released(c, d) /\ LetGo(d, IF r.device = d THEN r.at ELSE resting[c])
                ELSE NotReleased(c, d)
             /\ worker' = [worker EXCEPT ![c][w] =
                             IF rest = {} THEN IdleWorker
                             ELSE [at |-> "clean", report |-> r, todo |-> rest]]
             /\ pending' = IF rest = {} THEN [pending EXCEPT ![c] = @ - 1] ELSE pending
  /\ UNCHANGED <<reader, queue, resting, rebuilding, newest, asked>>

Leave(todo) ==
  [at |-> IF todo = {} THEN "done" ELSE "end", report |-> NoReport, todo |-> todo]

OnlyMouseClosed(c, w) == reader[c].at = "closing" /\ w = "mouse"  \* mutant

\* The client's Close has closed the queue.
Closed(c, w) == reader[c].at = "closing"

\* The queue is closed and empty: the range over it ends.
QueueClosed(c, w) ==
  /\ worker[c][w].at = "idle"
  /\ Closed(c, w)
  /\ queue[c][w] = <<>>
  /\ worker' = [worker EXCEPT ![c][w] = Leave(DevicesOf(w) \intersect active[c])]
  /\ UNCHANGED <<reader, queue, active, resting, pending, host, rebuilding, history>>

\* The deferred function: one attempt for each device that is still held.
LastRelease(c, w) ==
  /\ worker[c][w].at = "end"
  /\ \E d \in First(worker[c][w].todo), ok \in BOOLEAN :
       /\ Attempt(d, ok)
       /\ IF ok THEN Released(c, d) /\ LetGo(d, resting[c]) ELSE NotReleased(c, d)
       /\ worker' = [worker EXCEPT ![c][w] = Leave(@.todo \ {d})]
  /\ UNCHANGED <<reader, queue, resting, pending, rebuilding, newest, asked>>

WorkerStep(c, w) ==
  \/ Take(c, w) \/ ReleaseOther(c, w) \/ WriteReport(c, w) \/ CleanUp(c, w)
  \/ QueueClosed(c, w) \/ LastRelease(c, w)

-----------------------------------------------------------------------------
(* Others at the gadget *)

\* A mode switch or the end of a session lets go of every device
\* (releaseAllHIDState); each is written to whatever became of the others.
ReleaseByOthers(d) ==
  /\ Attempt(d, TRUE)
  /\ LetGo(d, Corner)
  /\ UNCHANGED <<reader, queue, worker, active, resting, pending, rebuilding, history>>

\* An image is mounted, a virtual device is switched or the PHY is reset: under
\* both mutexes the devices are closed, the gadget is taken down and put up again.
StartRebuild ==
  /\ ~rebuilding
  /\ rebuilding' = TRUE
  /\ UNCHANGED <<reader, queue, worker, active, resting, pending, host, history>>

\* To the host a device that has left holds nothing down.
EndRebuild ==
  /\ rebuilding
  /\ rebuilding' = FALSE
  /\ host' = [d \in Devices |-> [host[d] EXCEPT !.down = FALSE]]
  /\ UNCHANGED <<reader, queue, worker, active, resting, pending, history>>

Next ==
  \/ \E c \in Clients : Receive(c) \/ Disconnect(c) \/ ReaderStep(c)
  \/ \E c \in Clients, w \in Lines : WorkerStep(c, w)
  \/ \E d \in Devices : ReleaseByOthers(d)
  \/ StartRebuild \/ EndRebuild

Spec == Init /\ [][Next]_vars

\* A read loop and a rebuild run on once started. A worker waits for mutexes that
\* others take again and again, which Go grants in turn (starvation mode); its
\* writes end after hidWriteTimeout at the latest.
Fairness ==
  /\ \A c \in Clients : WF_vars(ReaderStep(c))
  /\ \A c \in Clients, w \in Lines : SF_vars(WorkerStep(c, w))
  /\ WF_vars(EndRebuild)

FairSpec == Spec /\ Fairness

-----------------------------------------------------------------------------
(* Properties *)

\* Every variable has its type; a queue never exceeds its capacity.
TypeOK ==
  /\ reader \in [Clients -> [at : ReaderPlaces, report : Report \union {NoReport},
                             turns : 0 .. Capacity + 1]]
  /\ queue \in [Clients -> [Lines -> Seq(Report)]]
  /\ \A c \in Clients, w \in Lines : Len(queue[c][w]) <= Capacity
  /\ worker \in [Clients -> [Lines -> [at : WorkerPlaces, report : Report \union {NoReport},
                                       todo : SUBSET Devices]]]
  /\ active \in [Clients -> SUBSET Devices]
  /\ resting \in [Clients -> Nat]
  /\ pending \in [Clients -> Nat]
  /\ host \in [Devices -> [down : BOOLEAN, at : Nat]]
  /\ rebuilding \in BOOLEAN
  /\ newest \in [Clients -> [Devices -> BOOLEAN]]
  /\ unreleased \in [Clients -> SUBSET Devices]
  /\ asked \in Nat

Busy(c, w) == worker[c][w].at \in {"switch", "write", "clean"}
AtReader == [c \in Clients |-> IF reader[c].at \in {"send", "evict"} THEN 1 ELSE 0]
Queued == [c \in Clients |-> [w \in Lines |-> Len(queue[c][w])]]
AtWorker == [c \in Clients |-> [w \in Lines |-> IF Busy(c, w) THEN 1 ELSE 0]]

\* The reports of a client that are on their way: in the hand of the read loop, in
\* the queues, with the workers.
OnTheWay ==
  [c \in Clients |-> AtReader[c] + Queued[c]["keyboard"] + Queued[c]["mouse"]
                     + AtWorker[c]["keyboard"] + AtWorker[c]["mouse"]]

\* Every reservation is completed once, whatever becomes of its report: written,
\* evicted, drained after a failure, left in the queue of a client that closes.
\* Those not completed are the reports on their way. One too many completions
\* would end a session under a person's hands, one too few would keep the tools
\* out for ever.
ReservationsAccounted == \A c \in Clients : pending[c] = OnTheWay[c]

\* A key or a button that is down at the host is down for a client whose worker
\* knows it, and will let go of it, or has tried to and failed.
DownIsKnown ==
  \A d \in Devices : host[d].down =>
    \E c \in Clients : d \in active[c] /\ (worker[c][LineOf(d)].at = "done" => d \in unreleased[c])

Settled(c, w) ==
  /\ worker[c][w].at = "idle" /\ queue[c][w] = <<>>
  /\ reader[c].at \in {"send", "evict"} => LineOf(reader[c].report.device) # w

\* No key and no button stays down that a person has let go of: when the reports
\* of a client are through, though some of them were evicted, drained or sent to
\* the other mouse, the worker holds nothing that the client's last report for
\* the device has up, unless the device refused the release.
NothingStuck ==
  \A c \in Clients, d \in Devices :
    Settled(c, LineOf(d)) /\ ~newest[c][d] /\ d \notin unreleased[c] => d \notin active[c]

\* A worker that lets go of the absolute mouse does not send the pointer to the
\* corner of the screen.
ReleaseStaysPut ==
  [][\A c \in Clients : worker'[c]["mouse"] # worker[c]["mouse"] =>
        host'["absolute"].at # Corner \/ host["absolute"].at = Corner]_vars

\* Close returns, even if the gadget accepts no report any more.
CloseReturns == \A c \in Clients : reader[c].at = "closing" ~> reader[c].at = "closed"

\* What the comment on sendQueue's eviction says ("HID reports carry absolute
\* state rather than deltas"), for the relative mouse: when all reports are
\* through, the pointer has gone as far as was asked for.
NewestDescribesTruth ==
  (\A c \in Clients, w \in Lines : Settled(c, w)) => host["relative"].at = asked
=============================================================================
