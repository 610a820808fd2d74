-------------------------- MODULE HidPipelineProofs --------------------------
(***************************************************************************)
(* Theorems about HidPipeline, for any finite set of clients, any reports, *)
(* any capacity and any devices that fail.                                 *)
(***************************************************************************)
EXTENDS HidPipeline, SequenceTheorems, TLAPS

\* Reports that clients send, and those of them that belong to a line.
Sent == {r \in Report : r.device = "absolute" => r.at # Corner}
OnLine(w) == {r \in Sent : LineOf(r.device) = w}

Types ==
  /\ reader \in [Clients -> [at : ReaderPlaces, report : Report \union {NoReport}, turns : Nat]]
  /\ queue \in [Clients -> [Lines -> Seq(Sent)]]
  /\ worker \in [Clients -> [Lines -> [at : WorkerPlaces, report : Report \union {NoReport},
                                       todo : SUBSET Devices]]]
  /\ active \in [Clients -> SUBSET Devices]
  /\ resting \in [Clients -> Nat]
  /\ pending \in [Clients -> Int]
  /\ host \in [Devices -> [down : BOOLEAN, at : Nat]]
  /\ rebuilding \in BOOLEAN
  /\ newest \in [Clients -> [Devices -> BOOLEAN]]
  /\ unreleased \in [Clients -> SUBSET Devices]
  /\ asked \in Nat

\* One eviction is enough: the read loop comes back with room in the queue, for
\* nobody else puts reports into it.
ReaderInv ==
  \A c \in Clients :
    /\ reader[c].at \in {"send", "evict"} => reader[c].report \in Sent
    /\ reader[c].at = "send" =>
         \/ reader[c].turns = Capacity + 1
         \/ reader[c].turns = Capacity /\ Len(InHand(c)) < Capacity
    /\ reader[c].at = "evict" => reader[c].turns = Capacity + 1
    /\ reader[c].turns <= Capacity + 1

QueueAt(c, w) == queue[c][w] \in Seq(OnLine(w)) /\ Len(queue[c][w]) <= Capacity

\* What is still to be let go of is held or was written to; what a worker that is
\* leaving still holds is what it could not let go of.
WorkerAt(c, w) ==
  /\ Busy(c, w) => worker[c][w].report \in OnLine(w)
  /\ worker[c][w].at = "switch" => OtherMouse(worker[c][w].report.device) \subseteq active[c]
  /\ worker[c][w].at = "write" => OtherMouse(worker[c][w].report.device) \intersect active[c] = {}
  /\ worker[c][w].at = "clean" =>
       /\ worker[c][w].todo # {}
       /\ worker[c][w].todo \subseteq DevicesOf(w)
       /\ worker[c][w].todo \subseteq active[c] \union {worker[c][w].report.device}
  /\ worker[c][w].at = "end" =>
       /\ worker[c][w].todo # {}
       /\ worker[c][w].todo \subseteq DevicesOf(w) \intersect active[c]
       /\ (DevicesOf(w) \intersect active[c]) \ worker[c][w].todo \subseteq unreleased[c]
  /\ worker[c][w].at = "done" => DevicesOf(w) \intersect active[c] \subseteq unreleased[c]

RestInv == \A c \in Clients : "absolute" \in active[c] => resting[c] # Corner

HostInv == \A d \in Devices : host[d].down => \E c \in Clients : d \in active[c]

\* The line of the report in the hand of a read loop.
Hand ==
  [c \in Clients |-> IF reader[c].at \in {"send", "evict"}
                     THEN {LineOf(reader[c].report.device)} ELSE {}]

IsNewest(c, r) == r.down = newest[c][r.device]

\* The last of the reports on their way on a line is the client's newest for its
\* device: what overtakes, evicts or drains only removes earlier ones.
NewestAt(c, w) ==
  /\ w \in Hand[c] => IsNewest(c, reader[c].report)
  /\ w \notin Hand[c] /\ queue[c][w] # <<>> => IsNewest(c, queue[c][w][Len(queue[c][w])])
  /\ w \notin Hand[c] /\ queue[c][w] = <<>> /\ worker[c][w].at \in {"switch", "write"} =>
       IsNewest(c, worker[c][w].report)

\* A device that is held though its client has let go of it, and that has not
\* refused the release, is about to be let go of, or more reports are on their way.
StuckAt(c, w) ==
  \A d \in DevicesOf(w) :
    d \in active[c] /\ ~newest[c][d] /\ d \notin unreleased[c] =>
      \/ worker[c][w].at \in {"clean", "end"} /\ d \in worker[c][w].todo
      \/ w \in Hand[c] \/ queue[c][w] # <<>> \/ worker[c][w].at \in {"switch", "write"}

LineInv(c, w) == QueueAt(c, w) /\ WorkerAt(c, w) /\ NewestAt(c, w) /\ StuckAt(c, w)

IInv ==
  /\ Types /\ ReaderInv /\ RestInv /\ HostInv /\ ReservationsAccounted
  /\ \A c \in Clients, w \in Lines : LineInv(c, w)

-----------------------------------------------------------------------------
(* Lemmas on the operators *)

\* A report that a client may send is one that can be sent.
LEMMA SentType == ASSUME NEW c \in Clients, NEW r \in ReportsOf[c] PROVE r \in Sent
  BY ClientsAssumption DEF Sent

\* A report belongs to the line of its device.
LEMMA LineType == ASSUME NEW r \in Sent
                  PROVE  LineOf(r.device) \in Lines /\ r \in OnLine(LineOf(r.device))
                         /\ r \in Report /\ r.device \in DevicesOf(LineOf(r.device))
  BY DEF Sent, Report, LineOf, Lines, OnLine, DevicesOf

\* The mouse that has to be let go of is on the line of the report and is the one
\* other device of the line.
LEMMA OtherMouseType ==
  ASSUME NEW w \in Lines, NEW r \in OnLine(w)
  PROVE  /\ OtherMouse(r.device) \subseteq DevicesOf(w)
         /\ \A d \in OtherMouse(r.device) : OtherMouse(r.device) = {d} /\ d # r.device
         /\ \A d \in DevicesOf(w) : d = r.device \/ d \in OtherMouse(r.device)
  BY DEF OtherMouse, OnLine, Sent, Report, LineOf, DevicesOf, Devices, Lines

\* The devices that come first are among those to be let go of.
LEMMA FirstType == ASSUME NEW todo \in SUBSET Devices PROVE First(todo) \subseteq todo
  BY DEF First

\* A device belongs to one line.
LEMMA OneLine ==
  /\ \A w \in Lines, d \in Devices : d \in DevicesOf(w) <=> LineOf(d) = w
  /\ \A w \in Lines : \A r \in OnLine(w) : LineOf(r.device) = w /\ r.device \in DevicesOf(w)
  BY DEF DevicesOf, Lines, OnLine, Sent, Report

\* The hand of a read loop is empty or holds a report for a line.
LEMMA HandType == ASSUME Types, ReaderInv PROVE Hand \in [Clients -> SUBSET Lines]
  BY LineType DEF Hand, ReaderInv

\* The counts of reports are natural numbers, before a step and after it.
LEMMA CountTypes ==
  ASSUME Types
  PROVE  \A c \in Clients, w \in Lines :
           AtReader[c] \in Nat /\ Queued[c][w] \in Nat /\ AtWorker[c][w] \in Nat
  BY DEF Types, AtReader, Queued, AtWorker

LEMMA CountTypesNext ==
  ASSUME Types'
  PROVE  \A c \in Clients, w \in Lines :
           AtReader'[c] \in Nat /\ Queued'[c][w] \in Nat /\ AtWorker'[c][w] \in Nat
  BY DEF Types, AtReader, Queued, AtWorker

\* The reservations stay accounted for when a step of one client on one line adds
\* or completes as many as there are reports more or less on their way.
LEMMA Balance ==
  ASSUME Types, Types', ReservationsAccounted, NEW c \in Clients, NEW w \in Lines,
         \A k \in Clients \ {c} : reader'[k] = reader[k] /\ pending'[k] = pending[k],
         \A k \in Clients, u \in Lines : k # c \/ u # w =>
           queue'[k][u] = queue[k][u] /\ worker'[k][u] = worker[k][u],
         pending'[c] - pending[c] = (AtReader'[c] - AtReader[c])
           + (Queued'[c][w] - Queued[c][w]) + (AtWorker'[c][w] - AtWorker[c][w])
  PROVE  ReservationsAccounted'
<1>1. SUFFICES ASSUME NEW k \in Clients PROVE pending'[k] = OnTheWay'[k]
  BY DEF ReservationsAccounted
<1>2. "keyboard" \in Lines /\ "mouse" \in Lines /\ (w = "keyboard" \/ w = "mouse")
  BY DEF Lines
<1>3. \A u \in Lines : k # c \/ u # w =>
        Queued'[k][u] = Queued[k][u] /\ AtWorker'[k][u] = AtWorker[k][u]
  BY DEF Queued, AtWorker, Busy
<1>4. k # c => AtReader'[k] = AtReader[k] /\ pending'[k] = pending[k]
  BY DEF AtReader
<1>5. pending[k] = AtReader[k] + Queued[k]["keyboard"] + Queued[k]["mouse"]
                   + AtWorker[k]["keyboard"] + AtWorker[k]["mouse"]
  BY DEF ReservationsAccounted, OnTheWay
<1>6. OnTheWay'[k] = AtReader'[k] + Queued'[k]["keyboard"] + Queued'[k]["mouse"]
                     + AtWorker'[k]["keyboard"] + AtWorker'[k]["mouse"]
  BY DEF OnTheWay
<1>7. pending[k] \in Int /\ pending'[k] \in Int
  BY DEF Types
<1>8. CASE k # c
  BY <1>2, <1>3, <1>4, <1>5, <1>6, <1>8
<1>9. CASE k = c
  BY <1>2, <1>3, <1>5, <1>6, <1>7, <1>9, CountTypes, CountTypesNext
<1> QED BY <1>8, <1>9

\* What a report put at the end of a queue does to it.
LEMMA AppendFacts ==
  ASSUME NEW S, NEW q \in Seq(S), NEW r \in S
  PROVE  /\ Append(q, r) \in Seq(S) /\ Append(q, r) # <<>>
         /\ Len(Append(q, r)) = Len(q) + 1 /\ Append(q, r)[Len(Append(q, r))] = r
  OBVIOUS

\* What a report taken from the head of a queue leaves.
LEMMA TailFacts ==
  ASSUME NEW S, NEW q \in Seq(S), q # <<>>
  PROVE  /\ Tail(q) \in Seq(S) /\ Head(q) \in S
         /\ Len(q) > 0 /\ Len(Tail(q)) = Len(q) - 1
         /\ Tail(q) # <<>> => Tail(q)[Len(Tail(q))] = q[Len(q)]
         /\ Tail(q) = <<>> => Head(q) = q[Len(q)]
<1>1. Len(q) \in Nat \ {0}
  BY EmptySeq
<1>0. Len(Tail(q)) = Len(q) - 1
  BY HeadTailProperties
<1>2. /\ Head(q) \in S /\ Tail(q) \in Seq(S)
      /\ \A i \in 1 .. Len(Tail(q)) : Tail(q)[i] = q[i + 1]
  BY HeadTailProperties
<1>3. ASSUME Tail(q) # <<>> PROVE Tail(q)[Len(Tail(q))] = q[Len(q)]
  <2>1. Len(Tail(q)) \in Nat \ {0}
    BY <1>2, <1>3, EmptySeq
  <2> QED BY <1>0, <1>1, <1>2, <2>1
<1>4. ASSUME Tail(q) = <<>> PROVE Head(q) = q[Len(q)]
  <2>1. Len(q) = 1
    <3>1. Len(Tail(q)) = 0
      BY <1>4, EmptySeq
    <3>2. Len(q) \in Int /\ \A n \in Int : 0 = n - 1 => n = 1
      BY <1>1
    <3> QED BY <1>0, <3>1, <3>2, Zenon
  <2> QED BY <2>1
<1> QED BY <1>0, <1>1, <1>2, <1>3, <1>4

\* The reports that NewestAt speaks of belong to the line.
LEMMA Candidates ==
  ASSUME IInv, NEW c \in Clients, NEW w \in Lines
  PROVE  /\ w \in Hand[c] => reader[c].report \in OnLine(w)
         /\ queue[c][w] # <<>> => queue[c][w][Len(queue[c][w])] \in OnLine(w)
         /\ worker[c][w].at \in {"switch", "write"} => worker[c][w].report \in OnLine(w)
<1>1. w \in Hand[c] => reader[c].report \in OnLine(w)
  BY LineType DEF IInv, ReaderInv, Hand
<1>2. ASSUME queue[c][w] # <<>> PROVE queue[c][w][Len(queue[c][w])] \in OnLine(w)
  <2>1. queue[c][w] \in Seq(OnLine(w))
    BY DEF IInv, LineInv, QueueAt
  <2>2. Len(queue[c][w]) \in Nat \ {0}
    BY <1>2, <2>1, EmptySeq
  <2> QED BY <2>1, <2>2
<1>3. worker[c][w].at \in {"switch", "write"} => worker[c][w].report \in OnLine(w)
  BY DEF IInv, LineInv, WorkerAt, Busy
<1> QED BY <1>1, <1>2, <1>3

-----------------------------------------------------------------------------
(* The read loop preserves the invariant *)

\* A report arrives.
LEMMA ReceiveStep == ASSUME IInv, NEW c \in Clients, Receive(c) PROVE IInv'
<1> PICK r \in ReportsOf[c] :
      /\ reader' = [reader EXCEPT ![c] = [at |-> "send", report |-> r, turns |-> Capacity + 1]]
      /\ newest' = [newest EXCEPT ![c][r.device] = r.down]
      /\ asked' = asked + Motion(r)
  BY DEF Receive
<1> r \in Sent /\ r \in Report /\ Motion(r) \in Nat
  BY SentType, LineType DEF Motion, Report
<1> Capacity \in Nat /\ reader[c].at = "reading"
  BY CapacityAssumption DEF Receive
<1> UNCHANGED <<queue, worker, active, resting, host, rebuilding, unreleased>>
    /\ pending' = [pending EXCEPT ![c] = @ + 1]
  BY DEF Receive
<1>1. Types'
  BY DEF IInv, Types, ReaderPlaces, Report
<1>2. ReaderInv'
  BY DEF IInv, Types, ReaderInv, InHand
<1>3. RestInv' /\ HostInv'
  BY DEF IInv, RestInv, HostInv
<1>a. \A k \in Clients, d \in Devices : k # c \/ d # r.device => newest'[k][d] = newest[k][d]
  BY DEF IInv, Types
<1>b. newest'[c][r.device] = r.down
  BY DEF IInv, Types, Report
<1>c. Hand[c] = {} /\ Hand' = [Hand EXCEPT ![c] = {LineOf(r.device)}]
  BY DEF IInv, Types, Hand
<1>d. Hand \in [Clients -> SUBSET Lines]
  BY HandType DEF IInv
<1>4. ASSUME NEW k \in Clients, NEW w \in Lines PROVE LineInv(k, w)'
  <2>0. LineInv(k, w)
    BY DEF IInv
  <2>1. QueueAt(k, w)' /\ WorkerAt(k, w)'
    BY <2>0 DEF LineInv, QueueAt, WorkerAt, Busy
  <2>2. CASE k = c /\ w = LineOf(r.device)
    <3>1. NewestAt(k, w)'
      BY <2>2, <1>b, <1>c, <1>d DEF IInv, Types, NewestAt, IsNewest
    <3>2. StuckAt(k, w)'
      BY <2>2, <1>c, <1>d DEF StuckAt
    <3> QED BY <2>1, <3>1, <3>2 DEF LineInv
  <2>3. CASE ~(k = c /\ w = LineOf(r.device))
    <3>1. \A d \in DevicesOf(w) : newest'[k][d] = newest[k][d]
      BY <2>3, <1>a, OneLine DEF DevicesOf
    <3>2. \A x \in OnLine(w) : newest'[k][x.device] = newest[k][x.device]
      BY <3>1, OneLine
    <3>3. (w \in Hand'[k] <=> w \in Hand[k]) /\ (w \in Hand[k] => reader'[k] = reader[k])
      BY <2>3, <1>c, <1>d DEF IInv, Types
    <3>4. NewestAt(k, w)'
      BY <2>0, <3>2, <3>3, Candidates DEF LineInv, NewestAt, IsNewest
    <3>5. StuckAt(k, w)'
      BY <2>0, <3>1, <3>3 DEF LineInv, StuckAt
    <3> QED BY <2>1, <3>4, <3>5 DEF LineInv
  <2> QED BY <2>2, <2>3
<1>5. ReservationsAccounted'
  <2> PICK w \in Lines : TRUE
    BY DEF Lines
  <2>1. AtReader[c] = 0 /\ AtReader'[c] = 1
    BY DEF IInv, Types, AtReader
  <2>2. Queued'[c][w] = Queued[c][w] /\ AtWorker'[c][w] = AtWorker[c][w]
    BY DEF Queued, AtWorker, Busy
  <2>3. pending'[c] = pending[c] + 1 /\ pending[c] \in Int
    BY DEF IInv, Types
  <2>4. \A k \in Clients \ {c} : reader'[k] = reader[k] /\ pending'[k] = pending[k]
    BY DEF IInv, Types
  <2>5. pending'[c] - pending[c] = (AtReader'[c] - AtReader[c])
          + (Queued'[c][w] - Queued[c][w]) + (AtWorker'[c][w] - AtWorker[c][w])
    BY <2>1, <2>2, <2>3, <1>1, CountTypes DEF IInv
  <2> QED BY <2>4, <2>5, <1>1, Balance DEF IInv
<1> QED BY <1>1, <1>2, <1>3, <1>4, <1>5 DEF IInv

\* The report in the hand of a read loop, its line, and the queue of the line.
InHandIs(c, w, r, q) ==
  /\ r = reader[c].report /\ w = LineOf(reader[c].report.device) /\ r \in OnLine(w)
  /\ q = queue[c][w] /\ q \in Seq(OnLine(w)) /\ Len(q) \in 0 .. Capacity
  /\ InHand(c) = q /\ Hand[c] = {w} /\ Hand \in [Clients -> SUBSET Lines]

\* Such a report, line and queue exist while the read loop is sending or evicting.
LEMMA InHandFacts ==
  ASSUME IInv, NEW c \in Clients, reader[c].at \in {"send", "evict"}
  PROVE  \E w \in Lines, r \in Sent, q \in Seq(Sent) : InHandIs(c, w, r, q)
<1>1. reader[c].report \in Sent
  BY DEF IInv, ReaderInv
<1>2. PICK w \in Lines : w = LineOf(reader[c].report.device) /\ reader[c].report \in OnLine(w)
  BY <1>1, LineType
<1>3. /\ queue[c][w] \in Seq(OnLine(w)) /\ queue[c][w] \in Seq(Sent)
      /\ Len(queue[c][w]) <= Capacity /\ Len(queue[c][w]) \in Nat
  BY EmptySeq DEF IInv, Types, LineInv, QueueAt
<1>4. Hand[c] = {w} /\ Hand \in [Clients -> SUBSET Lines]
  BY <1>2, HandType DEF IInv, Hand
<1> QED BY <1>1, <1>2, <1>3, <1>4, CapacityAssumption DEF InHand, InHandIs

\* A report is queued.
LEMMA SendStep == ASSUME IInv, NEW c \in Clients, Send(c) PROVE IInv'
<1>0. reader[c].at = "send" /\ Capacity \in Nat
  BY CapacityAssumption DEF Send
<1> PICK w \in Lines, r \in Sent, q \in Seq(Sent) : InHandIs(c, w, r, q)
  BY <1>0, InHandFacts
<1> USE DEF InHandIs
<1>u. UNCHANGED <<worker, active, resting, pending, host, rebuilding, newest, unreleased, asked>>
  BY DEF Send, history
<1>a. reader' = [reader EXCEPT ![c] = Reading] /\ Len(q) < Capacity
  BY DEF Send
<1>b. PICK s \in Seq(OnLine(w)) :
        /\ queue' = [queue EXCEPT ![c][w] = s] /\ s \in Seq(Sent)
        /\ s # <<>> /\ Len(s) = Len(q) + 1 /\ s[Len(s)] = r
  <2>1. queue' = [queue EXCEPT ![c][w] = Append(q, r)]
    BY DEF Send
  <2>2. /\ Append(q, r) \in Seq(OnLine(w)) /\ Append(q, r) # <<>>
        /\ Len(Append(q, r)) = Len(q) + 1 /\ Append(q, r)[Len(Append(q, r))] = r
    BY AppendFacts
  <2>3. Append(q, r) \in Seq(Sent)
    BY AppendFacts
  <2> QED BY <2>1, <2>2, <2>3, Zenon
<1>c. /\ queue'[c][w] = s
      /\ \A k \in Clients \ {c} : queue'[k] = queue[k]
      /\ \A k \in Clients, u \in Lines : k # c \/ u # w => queue'[k][u] = queue[k][u]
  BY <1>b DEF IInv, Types
<1>d. Hand' = [Hand EXCEPT ![c] = {}]
  BY <1>a DEF IInv, Types, Hand, Reading
<1>e. reader'[c] = Reading /\ \A k \in Clients \ {c} : reader'[k] = reader[k]
  BY <1>a DEF IInv, Types
<1>1. Types'
  BY <1>a, <1>b, <1>u DEF IInv, Types, ReaderPlaces, Reading
<1>2. ReaderInv'
  BY <1>0, <1>c, <1>e DEF IInv, ReaderInv, InHand, Reading
<1>3. RestInv' /\ HostInv'
  BY <1>u DEF IInv, RestInv, HostInv
<1>4. ASSUME NEW k \in Clients, NEW u \in Lines PROVE LineInv(k, u)'
  <2>1. LineInv(k, u)
    BY DEF IInv
  <2>2. WorkerAt(k, u)'
    BY <2>1, <1>u DEF LineInv, WorkerAt, Busy
  <2>3. CASE k = c /\ u = w
    <3>1. QueueAt(k, u)'
      BY <2>3, <1>0, <1>a, <1>b, <1>c DEF QueueAt
    <3>2. NewestAt(k, u)'
      <4>1. IsNewest(c, r)
        BY <2>1, <2>3 DEF LineInv, NewestAt
      <4>2. newest'[c][r.device] = newest[c][r.device]
        BY <1>u
      <4>3. w \notin Hand'[c]
        BY <1>d
      <4>4. queue'[k][u] # <<>> /\ queue'[k][u][Len(queue'[k][u])] = r
        BY <2>3, <1>b, <1>c
      <4> HIDE DEF InHandIs
      <4> QED BY <2>3, <4>1, <4>2, <4>3, <4>4 DEF NewestAt, IsNewest
    <3>3. StuckAt(k, u)'
      BY <2>3, <1>b, <1>c DEF StuckAt
    <3> QED BY <2>2, <3>1, <3>2, <3>3 DEF LineInv
  <2>4. CASE ~(k = c /\ u = w)
    <3>1. queue'[k][u] = queue[k][u] /\ (u \in Hand'[k] <=> u \in Hand[k])
          /\ (u \in Hand[k] => reader'[k] = reader[k])
      BY <2>4, <1>c, <1>d, <1>e
    <3>2. QueueAt(k, u)' /\ NewestAt(k, u)'
      BY <2>1, <3>1, <1>u DEF LineInv, QueueAt, NewestAt, IsNewest
    <3>3. StuckAt(k, u)'
      BY <2>1, <3>1, <1>u DEF LineInv, StuckAt
    <3> QED BY <2>2, <3>2, <3>3 DEF LineInv
  <2> QED BY <2>3, <2>4
<1>5. ReservationsAccounted'
  <2>1. AtReader[c] = 1 /\ AtReader'[c] = 0
    BY <1>0, <1>e DEF AtReader, Reading
  <2>2. Queued'[c][w] = Queued[c][w] + 1 /\ AtWorker'[c][w] = AtWorker[c][w]
    BY <1>b, <1>c, <1>u DEF Queued, AtWorker, Busy
  <2>3. pending'[c] - pending[c] = 0
    BY <1>u DEF IInv, Types
  <2>4. Queued[c][w] \in Nat /\ AtWorker[c][w] \in Nat
    BY CountTypes DEF IInv
  <2>5. pending'[c] - pending[c] = (AtReader'[c] - AtReader[c])
          + (Queued'[c][w] - Queued[c][w]) + (AtWorker'[c][w] - AtWorker[c][w])
    BY <2>1, <2>2, <2>3, <2>4
  <2>6. /\ \A k \in Clients \ {c} : reader'[k] = reader[k] /\ pending'[k] = pending[k]
        /\ \A k \in Clients, u \in Lines : k # c \/ u # w =>
             queue'[k][u] = queue[k][u] /\ worker'[k][u] = worker[k][u]
    BY <1>c, <1>e, <1>u
  <2> QED BY <2>5, <2>6, <1>1, Balance DEF IInv
<1> QED BY <1>1, <1>2, <1>3, <1>4, <1>5 DEF IInv

\* The oldest report of a full queue is evicted, or the worker has taken it.
LEMMA EvictStep == ASSUME IInv, NEW c \in Clients, Evict(c) PROVE IInv'
<1>0. reader[c].at = "evict" /\ reader[c].turns = Capacity + 1 /\ Capacity \in Nat /\ Capacity > 0
  BY CapacityAssumption DEF IInv, ReaderInv, Evict
<1> PICK w \in Lines, r \in Sent, q \in Seq(Sent) : InHandIs(c, w, r, q)
  BY <1>0, InHandFacts
<1> USE DEF InHandIs
<1>u. UNCHANGED <<worker, active, resting, host, rebuilding, newest, unreleased, asked>>
  BY DEF Evict, history
<1>e. /\ reader'[c] = [at |-> "send", report |-> r, turns |-> Capacity]
      /\ \A k \in Clients \ {c} : reader'[k] = reader[k]
      /\ reader' \in [Clients -> [at : ReaderPlaces, report : Report \union {NoReport}, turns : Nat]]
  <2>1. reader' = [reader EXCEPT ![c].at = "send", ![c].turns = @ - 1]
    BY <1>0 DEF Evict
  <2>2. reader \in [Clients -> [at : ReaderPlaces, report : Report \union {NoReport}, turns : Nat]]
    BY DEF IInv, Types
  <2> QED BY <2>1, <2>2, <1>0 DEF ReaderPlaces
<1>a. PICK s \in Seq(OnLine(w)) :
        /\ s \in Seq(Sent) /\ Len(s) \in Nat /\ Len(s) < Capacity
        /\ queue' = [queue EXCEPT ![c][w] = s]
        /\ pending' = [pending EXCEPT ![c] = @ + (Len(s) - Len(q))]
  <2>1. queue \in [Clients -> [Lines -> Seq(Sent)]] /\ pending \in [Clients -> Int]
    BY DEF IInv, Types
  <2>2. CASE q # <<>>
    <3>1. queue' = [queue EXCEPT ![c][w] = Tail(q)] /\ pending' = [pending EXCEPT ![c] = @ - 1]
      BY <2>2 DEF Evict
    <3>2. PICK s \in Seq(OnLine(w)) : s = Tail(q) /\ s \in Seq(Sent) /\ Len(s) = Len(q) - 1
      BY <2>2, TailFacts
    <3>3. Len(q) \in Nat \ {0}
      BY <2>2, EmptySeq
    <3>4. Len(s) - Len(q) = -1 /\ Len(s) < Capacity /\ Len(s) \in Nat
      BY <3>2, <3>3, <1>0
    <3>5. pending[c] - 1 = pending[c] + (Len(s) - Len(q))
      BY <2>1, <3>4
    <3>6. queue' = [queue EXCEPT ![c][w] = s]
      BY <3>1, <3>2, Zenon
    <3>7. pending' = [pending EXCEPT ![c] = @ + (Len(s) - Len(q))]
      BY <3>1, <3>5, Zenon
    <3> QED BY <3>2, <3>4, <3>6, <3>7, Zenon
  <2>3. CASE q = <<>>
    <3>1. queue' = queue /\ pending' = pending
      BY <2>3 DEF Evict
    <3>2. queue = [queue EXCEPT ![c][w] = q] /\ Len(q) = 0
      BY <2>1, <2>3, EmptySeq
    <3>3. pending = [pending EXCEPT ![c] = @ + (Len(q) - Len(q))]
      BY <2>1, <3>2
    <3> QED BY <3>1, <3>2, <3>3, <1>0
  <2> QED BY <2>2, <2>3
<1>b. /\ queue'[c][w] = s
      /\ \A k \in Clients \ {c} : queue'[k] = queue[k]
      /\ \A k \in Clients, u \in Lines : k # c \/ u # w => queue'[k][u] = queue[k][u]
  BY <1>a DEF IInv, Types
<1>c. Hand' = Hand /\ \A k \in Clients : reader'[k].report = reader[k].report
  <2>1. \A k \in Clients : reader'[k].report = reader[k].report
          /\ (reader'[k].at \in {"send", "evict"} <=> reader[k].at \in {"send", "evict"})
    BY <1>0, <1>e
  <2> QED BY <2>1 DEF Hand
<1>1. Types'
  <2>1. queue' \in [Clients -> [Lines -> Seq(Sent)]] /\ pending' \in [Clients -> Int]
    BY <1>a DEF IInv, Types
  <2> QED BY <2>1, <1>e, <1>u DEF IInv, Types
<1>2. ReaderInv'
  BY <1>a, <1>b, <1>e DEF IInv, ReaderInv, InHand
<1>3. RestInv' /\ HostInv'
  BY <1>u DEF IInv, RestInv, HostInv
<1>4. ASSUME NEW k \in Clients, NEW u \in Lines PROVE LineInv(k, u)'
  <2>1. LineInv(k, u)
    BY DEF IInv
  <2>2. WorkerAt(k, u)'
    BY <2>1, <1>u DEF LineInv, WorkerAt, Busy
  <2>3. CASE k = c /\ u = w
    <3>1. QueueAt(k, u)'
      BY <2>3, <1>0, <1>a, <1>b DEF QueueAt
    <3>2. NewestAt(k, u)' /\ StuckAt(k, u)'
      BY <2>1, <2>3, <1>c, <1>u DEF LineInv, NewestAt, IsNewest, StuckAt
    <3> QED BY <2>2, <3>1, <3>2 DEF LineInv
  <2>4. CASE ~(k = c /\ u = w)
    <3>1. queue'[k][u] = queue[k][u]
      BY <2>4, <1>b
    <3>2. QueueAt(k, u)' /\ NewestAt(k, u)'
      BY <2>1, <3>1, <1>c, <1>u DEF LineInv, QueueAt, NewestAt, IsNewest
    <3>3. StuckAt(k, u)'
      BY <2>1, <3>1, <1>c, <1>u DEF LineInv, StuckAt
    <3> QED BY <2>2, <3>2, <3>3 DEF LineInv
  <2> QED BY <2>3, <2>4
<1>5. ReservationsAccounted'
  <2>1. AtReader[c] = 1 /\ AtReader'[c] = 1
    BY <1>0, <1>e DEF AtReader
  <2>2. Queued'[c][w] = Len(s) /\ Queued[c][w] = Len(q) /\ AtWorker'[c][w] = AtWorker[c][w]
    BY <1>b, <1>u DEF Queued, AtWorker, Busy
  <2>3. pending'[c] - pending[c] = Len(s) - Len(q)
    BY <1>a DEF IInv, Types
  <2>4. AtWorker[c][w] \in Nat
    BY CountTypes DEF IInv
  <2>5. pending'[c] - pending[c] = (AtReader'[c] - AtReader[c])
          + (Queued'[c][w] - Queued[c][w]) + (AtWorker'[c][w] - AtWorker[c][w])
    BY <2>1, <2>2, <2>3, <2>4, <1>a
  <2>6. /\ \A k \in Clients \ {c} : reader'[k] = reader[k] /\ pending'[k] = pending[k]
        /\ \A k \in Clients, u \in Lines : k # c \/ u # w =>
             queue'[k][u] = queue[k][u] /\ worker'[k][u] = worker[k][u]
    BY <1>a, <1>b, <1>e, <1>u DEF IInv, Types
  <2> QED BY <2>5, <2>6, <1>1, Balance DEF IInv
<1> QED BY <1>1, <1>2, <1>3, <1>4, <1>5 DEF IInv

\* The steps of the read loop that only move it.
LEMMA MoveStep ==
  ASSUME IInv, NEW c \in Clients, QueueFull(c) \/ Disconnect(c) \/ FinishClose(c)
  PROVE  IInv'
<1> PICK place \in ReaderPlaces :
      /\ reader' = [reader EXCEPT ![c].at = place]
      /\ \/ reader[c].at = "send" /\ place = "evict" /\ Len(InHand(c)) = Capacity
         \/ reader[c].at \in {"reading", "closing"} /\ place \in {"closing", "closed"}
      /\ UNCHANGED <<queue, worker, active, resting, pending, host, rebuilding, newest,
                     unreleased, asked>>
  BY DEF QueueFull, Disconnect, FinishClose, ReaderPlaces, history
<1>t. reader \in [Clients -> [at : ReaderPlaces, report : Report \union {NoReport}, turns : Nat]]
  BY DEF IInv, Types
<1>1. Types'
  <2>1. reader' \in [Clients -> [at : ReaderPlaces, report : Report \union {NoReport}, turns : Nat]]
    BY <1>t
  <2> QED BY <2>1 DEF IInv, Types
<1>2. ReaderInv'
  <2>1. /\ reader'[c].at = place /\ reader'[c].report = reader[c].report
        /\ reader'[c].turns = reader[c].turns
        /\ \A k \in Clients \ {c} : reader'[k] = reader[k]
    BY <1>t
  <2>2. reader[c].at = "send" => reader[c].turns = Capacity + 1 \/ Len(InHand(c)) # Capacity
    BY CapacityAssumption DEF IInv, ReaderInv
  <2> QED BY <2>1, <2>2 DEF IInv, ReaderInv, InHand
<1>3. RestInv' /\ HostInv'
  BY DEF IInv, RestInv, HostInv
<1>4. Hand' = Hand /\ AtReader' = AtReader
  BY DEF IInv, Types, Hand, AtReader
<1>5. ASSUME NEW k \in Clients, NEW u \in Lines PROVE LineInv(k, u)'
  <2>1. LineInv(k, u)
    BY DEF IInv
  <2>2. reader'[k].report = reader[k].report
    BY DEF IInv, Types
  <2> QED BY <1>4, <2>1, <2>2
          DEF LineInv, QueueAt, WorkerAt, Busy, NewestAt, IsNewest, StuckAt
<1>6. ReservationsAccounted'
  BY <1>4 DEF IInv, ReservationsAccounted, OnTheWay, Queued, AtWorker, Busy
<1> QED BY <1>1, <1>2, <1>3, <1>5, <1>6 DEF IInv

-----------------------------------------------------------------------------
(* The workers preserve the invariant *)

\* A step of one worker leaves the invariant of the other lines alone.
LEMMA OtherLines ==
  ASSUME IInv, NEW c \in Clients, NEW w \in Lines, UNCHANGED <<reader, newest>>,
         \A k \in Clients, u \in Lines : k # c \/ u # w =>
           queue'[k][u] = queue[k][u] /\ worker'[k][u] = worker[k][u],
         \A k \in Clients \ {c} : active'[k] = active[k] /\ unreleased'[k] = unreleased[k],
         \A d \in Devices \ DevicesOf(w) :
           (d \in active'[c] <=> d \in active[c]) /\ (d \in unreleased'[c] <=> d \in unreleased[c]),
         LineInv(c, w)'
  PROVE  \A k \in Clients, u \in Lines : LineInv(k, u)'
<1> SUFFICES ASSUME NEW k \in Clients, NEW u \in Lines, k # c \/ u # w PROVE LineInv(k, u)'
  OBVIOUS
<1>1. LineInv(k, u)
  BY DEF IInv
<1>2. queue'[k][u] = queue[k][u] /\ worker'[k][u] = worker[k][u] /\ Hand' = Hand
  BY DEF Hand
<1>3. \A d \in DevicesOf(u) :
        (d \in active'[k] <=> d \in active[k]) /\ (d \in unreleased'[k] <=> d \in unreleased[k])
  BY OneLine DEF DevicesOf
<1>4. QueueAt(k, u)'
  BY <1>1, <1>2 DEF LineInv, QueueAt
<1>5. WorkerAt(k, u)'
  <2>1. worker[k][u].at \in {"switch", "write"} =>
          OtherMouse(worker[k][u].report.device) \subseteq DevicesOf(u)
    BY <1>1, OtherMouseType DEF LineInv, WorkerAt, Busy
  <2>2. Busy(k, u)' <=> Busy(k, u)
    BY <1>2 DEF Busy
  <2> QED BY <1>1, <1>2, <1>3, <2>1, <2>2 DEF LineInv, WorkerAt
<1>6. NewestAt(k, u)'
  BY <1>1, <1>2 DEF LineInv, NewestAt, IsNewest
<1>7. StuckAt(k, u)'
  BY <1>1, <1>2, <1>3 DEF LineInv, StuckAt
<1> QED BY <1>4, <1>5, <1>6, <1>7 DEF LineInv

\* The read loop has no less room when reports leave the queues.
LEMMA RoomStays ==
  ASSUME IInv, reader' = reader, NEW c \in Clients, NEW w \in Lines,
         \A k \in Clients, u \in Lines : k # c \/ u # w => queue'[k][u] = queue[k][u],
         Len(queue'[c][w]) \in Nat, Len(queue'[c][w]) <= Len(queue[c][w])
  PROVE  ReaderInv'
<1> SUFFICES ASSUME NEW k \in Clients, reader[k].at = "send", reader[k].turns = Capacity,
                    Len(InHand(k)) < Capacity
             PROVE  Len(InHand(k))' < Capacity
  BY DEF IInv, ReaderInv
<1>1. LineOf(reader[k].report.device) \in Lines
  BY LineType DEF IInv, ReaderInv
<1>2. PICK u \in Lines : u = LineOf(reader[k].report.device)
  BY <1>1
<1>3. queue[k][u] \in Seq(Sent)
  BY DEF IInv, Types
<1>4. Len(queue[k][u]) \in Nat /\ Capacity \in Nat
  BY <1>3, CapacityAssumption
<1>5. Len(queue[k][u]) < Capacity
  BY <1>2 DEF InHand
<1>6. Len(queue'[k][u]) < Capacity
  <2>1. CASE k = c /\ u = w
    BY <2>1, <1>4, <1>5
  <2>2. CASE k # c \/ u # w
    BY <2>2, <1>5
  <2> QED BY <2>1, <2>2
<1> QED BY <1>2, <1>6 DEF InHand

\* What a worker finds in its queue and in its hand.
LEMMA WorkerFacts ==
  ASSUME IInv, NEW c \in Clients, NEW w \in Lines
  PROVE  /\ queue[c][w] \in Seq(OnLine(w)) /\ queue[c][w] \in Seq(Sent)
         /\ Len(queue[c][w]) \in 0 .. Capacity /\ Capacity \in Nat
         /\ worker[c][w].at \in {"switch", "write", "clean"} =>
              /\ worker[c][w].report \in OnLine(w) /\ worker[c][w].report \in Sent
              /\ worker[c][w].report \in Report
         /\ worker[c][w] \in [at : WorkerPlaces, report : Report \union {NoReport},
                              todo : SUBSET Devices]
<1>1. /\ queue[c][w] \in Seq(OnLine(w)) /\ queue[c][w] \in Seq(Sent)
      /\ Len(queue[c][w]) <= Capacity
  BY DEF IInv, Types, LineInv, QueueAt
<1>2. Len(queue[c][w]) \in Nat /\ Capacity \in Nat
  BY <1>1, CapacityAssumption
<1>3. worker[c][w].at \in {"switch", "write", "clean"} => worker[c][w].report \in OnLine(w)
  BY DEF IInv, LineInv, WorkerAt, Busy
<1>4. worker[c][w] \in [at : WorkerPlaces, report : Report \union {NoReport}, todo : SUBSET Devices]
  BY DEF IInv, Types
<1> QED BY <1>1, <1>2, <1>3, <1>4 DEF OnLine, Sent

\* The reservations stay accounted for when a worker's step completes as many as
\* leave its queue and its hand.
LEMMA WorkerBalance ==
  ASSUME IInv, Types', NEW c \in Clients, NEW w \in Lines, reader' = reader,
         \A k \in Clients \ {c} : pending'[k] = pending[k],
         \A k \in Clients, u \in Lines : k # c \/ u # w =>
           queue'[k][u] = queue[k][u] /\ worker'[k][u] = worker[k][u],
         pending'[c] - pending[c] =
           (Queued'[c][w] - Queued[c][w]) + (AtWorker'[c][w] - AtWorker[c][w])
  PROVE  ReservationsAccounted'
<1>1. AtReader'[c] = AtReader[c]
  BY DEF AtReader
<1>2. AtReader[c] \in Nat /\ Queued[c][w] \in Nat /\ AtWorker[c][w] \in Nat
      /\ Queued'[c][w] \in Nat /\ AtWorker'[c][w] \in Nat
  BY CountTypes, CountTypesNext DEF IInv
<1>3. pending'[c] - pending[c] = (AtReader'[c] - AtReader[c])
        + (Queued'[c][w] - Queued[c][w]) + (AtWorker'[c][w] - AtWorker[c][w])
  BY <1>1, <1>2
<1> QED BY <1>3, Balance DEF IInv

WorkerRecord == [at : WorkerPlaces, report : Report \union {NoReport}, todo : SUBSET Devices]

\* A worker takes a report, and finds which mouse has to be let go of before.
LEMMA TakeStep == ASSUME IInv, NEW c \in Clients, NEW w \in Lines, Take(c, w) PROVE IInv'
<1>t. Types /\ LineInv(c, w)
  BY DEF IInv
<1>0. worker[c][w].at = "idle" /\ queue[c][w] # <<>>
  BY DEF Take
<1>u. UNCHANGED <<reader, active, resting, pending, host, rebuilding, newest, unreleased, asked>>
  BY DEF Take, history
<1> PICK q \in Seq(OnLine(w)) : q = queue[c][w] /\ q \in Seq(Sent) /\ q # <<>>
                                /\ Len(q) \in 0 .. Capacity
  BY <1>0, WorkerFacts
<1> DEFINE place(r) == IF OtherMouse(r.device) \intersect active[c] = {} THEN "write" ELSE "switch"
<1>a. PICK r \in OnLine(w), s \in Seq(OnLine(w)) :
        /\ worker' = [worker EXCEPT ![c][w] = [at |-> place(r), report |-> r, todo |-> {}]]
        /\ queue' = [queue EXCEPT ![c][w] = s]
        /\ r \in Sent /\ s \in Seq(Sent)
        /\ Len(q) > 0 /\ Len(s) = Len(q) - 1
        /\ (s # <<>> => s[Len(s)] = q[Len(q)]) /\ (s = <<>> => r = q[Len(q)])
  <2>1. Head(q) \in Sent /\ Tail(q) \in Seq(Sent)
    BY TailFacts
  <2>2. /\ Tail(q) \in Seq(OnLine(w)) /\ Head(q) \in OnLine(w)
        /\ Len(q) > 0 /\ Len(Tail(q)) = Len(q) - 1
        /\ Tail(q) # <<>> => Tail(q)[Len(Tail(q))] = q[Len(q)]
        /\ Tail(q) = <<>> => Head(q) = q[Len(q)]
    BY TailFacts
  <2>3. /\ worker' = [worker EXCEPT ![c][w] =
                      [at |-> place(Head(q)), report |-> Head(q), todo |-> {}]]
        /\ queue' = [queue EXCEPT ![c][w] = Tail(q)]
    BY DEF Take
  <2> HIDE DEF place
  <2> QED BY <2>1, <2>2, <2>3, Zenon
<1>b. PICK v \in WorkerRecord :
        v = [at |-> place(r), report |-> r, todo |-> {}] /\ worker' = [worker EXCEPT ![c][w] = v]
  <2>1. place(r) \in WorkerPlaces /\ r \in Report
    BY <1>a DEF WorkerPlaces, Sent
  <2>2. [at |-> place(r), report |-> r, todo |-> {}] \in WorkerRecord
    BY <2>1 DEF WorkerRecord
  <2> QED BY <2>2, <1>a, Zenon
<1> HIDE DEF place
<1>c. /\ worker' \in [Clients -> [Lines -> WorkerRecord]]
      /\ worker'[c][w] = v
      /\ \A k \in Clients, u \in Lines : k # c \/ u # w => worker'[k][u] = worker[k][u]
  <2>1. worker \in [Clients -> [Lines -> WorkerRecord]]
    BY <1>t DEF Types, WorkerRecord
  <2>2. worker' = [worker EXCEPT ![c][w] = v]
    BY <1>b
  <2> QED BY <2>1, <2>2
<1>d. /\ queue' \in [Clients -> [Lines -> Seq(Sent)]]
      /\ queue'[c][w] = s
      /\ \A k \in Clients, u \in Lines : k # c \/ u # w => queue'[k][u] = queue[k][u]
  <2>1. queue \in [Clients -> [Lines -> Seq(Sent)]]
    BY <1>t DEF Types
  <2>2. queue' = [queue EXCEPT ![c][w] = s] /\ s \in Seq(Sent)
    BY <1>a
  <2> QED BY <2>1, <2>2
<1>e. Len(s) \in Nat /\ Len(q) \in Nat /\ Len(s) <= Len(q) /\ Len(s) <= Capacity
  BY <1>a, CapacityAssumption
<1>1. Types'
  BY <1>t, <1>c, <1>d, <1>u DEF Types, WorkerRecord
<1>2. ReaderInv'
  BY <1>d, <1>e, <1>u, RoomStays
<1>3. RestInv' /\ HostInv'
  BY <1>u DEF IInv, RestInv, HostInv
<1>4. LineInv(c, w)'
  <2>1. QueueAt(c, w)'
    BY <1>d, <1>e DEF QueueAt
  <2>2. WorkerAt(c, w)'
    <3>1. \A d \in OtherMouse(r.device) : OtherMouse(r.device) = {d}
      BY OtherMouseType
    <3> QED BY <3>1, <1>b, <1>c, <1>u DEF WorkerAt, Busy, place
  <2>3. NewestAt(c, w)'
    <3>1. NewestAt(c, w) /\ Hand' = Hand
      BY <1>t, <1>u DEF LineInv, Hand
    <3> QED BY <3>1, <1>a, <1>b, <1>c, <1>d, <1>u DEF NewestAt, IsNewest
  <2>4. StuckAt(c, w)'
    BY <1>b, <1>c DEF StuckAt, place
  <2> QED BY <2>1, <2>2, <2>3, <2>4 DEF LineInv
<1>5. \A k \in Clients, u \in Lines : LineInv(k, u)'
  BY <1>4, <1>c, <1>d, <1>u, OtherLines
<1>6. ReservationsAccounted'
  <2>1. Queued'[c][w] = Len(s) /\ Queued[c][w] = Len(q)
    BY <1>d DEF Queued
  <2>2. AtWorker'[c][w] = 1 /\ AtWorker[c][w] = 0
    BY <1>0, <1>b, <1>c DEF AtWorker, Busy, place
  <2>3. pending'[c] - pending[c] = 0
    BY <1>t, <1>u DEF Types
  <2>4. pending'[c] - pending[c] =
          (Queued'[c][w] - Queued[c][w]) + (AtWorker'[c][w] - AtWorker[c][w])
    BY <2>1, <2>2, <2>3, <1>a, <1>e
  <2> QED BY <2>4, <1>1, <1>c, <1>d, <1>u, WorkerBalance
<1> QED BY <1>1, <1>2, <1>3, <1>5, <1>6 DEF IInv

\* A failed write, of a worker that switches or writes.
LEMMA FailStep ==
  ASSUME IInv, NEW c \in Clients, NEW w \in Lines, worker[c][w].at \in {"switch", "write"},
         Fail(c, w), UNCHANGED <<reader, host, rebuilding, newest, unreleased, asked>>
  PROVE  IInv'
<1>t. Types /\ LineInv(c, w)
  BY DEF IInv
<1>0. PICK r \in OnLine(w) :
        /\ r = worker[c][w].report /\ r \in Sent /\ r \in Report
        /\ r.device \in DevicesOf(w) /\ r.device \in Devices
  BY WorkerFacts, OneLine DEF Report
<1> PICK a \in SUBSET Devices : a = active[c] \union (IF r.down THEN {r.device} ELSE {})
  <2>1. active[c] \in SUBSET Devices
    BY <1>t DEF Types
  <2>2. active[c] \union (IF r.down THEN {r.device} ELSE {}) \in SUBSET Devices
    BY <2>1, <1>0
  <2> QED BY <2>2
<1>a. /\ active'[c] = a /\ active' \in [Clients -> SUBSET Devices]
      /\ \A k \in Clients \ {c} : active'[k] = active[k]
  <2>1. active' = [active EXCEPT ![c] = a]
    BY <1>0 DEF Fail, ActiveAfterFailure
  <2>2. active \in [Clients -> SUBSET Devices]
    BY <1>t DEF Types
  <2> QED BY <2>1, <2>2
<1>b. PICK todo \in SUBSET Devices : todo = DevicesOf(w) \intersect (a \union {r.device})
  BY <1>0, <1>a DEF DevicesOf
<1>c. /\ worker' \in [Clients -> [Lines -> WorkerRecord]]
      /\ worker'[c][w] = [at |-> "clean", report |-> r, todo |-> todo]
      /\ \A k \in Clients, u \in Lines : k # c \/ u # w => worker'[k][u] = worker[k][u]
  <2>1. worker \in [Clients -> [Lines -> WorkerRecord]]
    BY <1>t DEF Types, WorkerRecord
  <2>2. [at |-> "clean", report |-> r, todo |-> todo] \in WorkerRecord
    BY <1>0 DEF WorkerRecord, WorkerPlaces
  <2>3. worker' = [worker EXCEPT ![c][w] = [at |-> "clean", report |-> r, todo |-> todo]]
    BY <1>0, <1>a, <1>b DEF Fail
  <2> QED BY <2>1, <2>2, <2>3
<1>d. /\ queue' \in [Clients -> [Lines -> Seq(Sent)]]
      /\ queue'[c][w] = <<>> /\ queue'[c][w] \in Seq(OnLine(w)) /\ Len(queue'[c][w]) = 0
      /\ \A k \in Clients, u \in Lines : k # c \/ u # w => queue'[k][u] = queue[k][u]
  <2>1. queue \in [Clients -> [Lines -> Seq(Sent)]]
    BY <1>t DEF Types
  <2>2. queue' = [queue EXCEPT ![c][w] = <<>>]
    BY DEF Fail
  <2> QED BY <2>1, <2>2, EmptySeq
<1>e. /\ pending' = [pending EXCEPT ![c] = @ - Len(queue[c][w])]
      /\ Len(queue[c][w]) \in Nat /\ Capacity \in Nat
  BY WorkerFacts DEF Fail, Drained
<1>f. /\ resting' \in [Clients -> Nat]
      /\ \A k \in Clients \ {c} : resting'[k] = resting[k]
      /\ resting'[c] = IF r.device = "absolute" /\ r.down THEN r.at ELSE resting[c]
  <2>1. resting \in [Clients -> Nat] /\ r.at \in Nat
    BY <1>t, <1>0 DEF Types, Report
  <2>2. resting' = IF r.device = "absolute" /\ r.down THEN [resting EXCEPT ![c] = r.at] ELSE resting
    BY <1>0 DEF Fail
  <2> QED BY <2>1, <2>2
<1>1. Types'
  <2>1. pending' \in [Clients -> Int]
    BY <1>t, <1>e DEF Types
  <2> QED BY <2>1, <1>t, <1>a, <1>c, <1>d, <1>f DEF Types, WorkerRecord
<1>2. ReaderInv'
  <2>1. Len(queue'[c][w]) \in Nat /\ Len(queue'[c][w]) <= Len(queue[c][w])
    BY <1>d, <1>e
  <2> QED BY <2>1, <1>d, RoomStays
<1>3. RestInv'
  BY <1>0, <1>a, <1>f DEF IInv, RestInv, Sent
<1>4. HostInv'
  <2>1. \A k \in Clients : active[k] \subseteq active'[k]
    BY <1>a
  <2> QED BY <2>1 DEF IInv, HostInv
<1>5. LineInv(c, w)'
  <2>1. QueueAt(c, w)'
    BY <1>d, <1>e DEF QueueAt
  <2>2. WorkerAt(c, w)'
    BY <1>0, <1>a, <1>b, <1>c DEF WorkerAt, Busy
  <2>3. NewestAt(c, w)'
    <3>1. Hand' = Hand /\ NewestAt(c, w)
      BY <1>t DEF LineInv, Hand
    <3> QED BY <3>1, <1>c, <1>d DEF NewestAt, IsNewest
  <2>4. StuckAt(c, w)'
    BY <1>a, <1>b, <1>c DEF StuckAt
  <2> QED BY <2>1, <2>2, <2>3, <2>4 DEF LineInv
<1>6. \A k \in Clients, u \in Lines : LineInv(k, u)'
  <2>1. \A d \in Devices \ DevicesOf(w) :
          (d \in active'[c] <=> d \in active[c]) /\ (d \in unreleased'[c] <=> d \in unreleased[c])
    BY <1>0, <1>a
  <2>2. \A k \in Clients \ {c} : active'[k] = active[k] /\ unreleased'[k] = unreleased[k]
    BY <1>a
  <2> QED BY <2>1, <2>2, <1>5, <1>c, <1>d, OtherLines
<1>7. ReservationsAccounted'
  <2>1. Queued'[c][w] = 0 /\ Queued[c][w] = Len(queue[c][w])
    BY <1>d DEF Queued
  <2>2. AtWorker'[c][w] = 1 /\ AtWorker[c][w] = 1
    BY <1>c DEF AtWorker, Busy
  <2>3. pending'[c] - pending[c] = 0 - Len(queue[c][w])
        /\ \A k \in Clients \ {c} : pending'[k] = pending[k]
    BY <1>t, <1>e DEF Types
  <2>4. pending'[c] - pending[c] =
          (Queued'[c][w] - Queued[c][w]) + (AtWorker'[c][w] - AtWorker[c][w])
    BY <2>1, <2>2, <2>3, <1>e
  <2> QED BY <2>3, <2>4, <1>1, <1>c, <1>d, WorkerBalance
<1> QED BY <1>1, <1>2, <1>3, <1>4, <1>6, <1>7 DEF IInv

\* An attempt to let go of a device, in ReleaseOther, CleanUp and LastRelease.
LEMMA Attempted ==
  ASSUME IInv, NEW c \in Clients, NEW d \in Devices, NEW ok \in BOOLEAN, NEW p \in Nat,
         IF ok THEN Released(c, d) /\ LetGo(d, p) ELSE NotReleased(c, d), resting' = resting
  PROVE  /\ active' \in [Clients -> SUBSET Devices] /\ unreleased' \in [Clients -> SUBSET Devices]
         /\ host' \in [Devices -> [down : BOOLEAN, at : Nat]]
         /\ \A k \in Clients \ {c} : active'[k] = active[k] /\ unreleased'[k] = unreleased[k]
         /\ active'[c] = IF ok THEN active[c] \ {d} ELSE active[c]
         /\ unreleased'[c] = IF ok THEN unreleased[c] \ {d} ELSE unreleased[c] \union {d}
         /\ HostInv' /\ RestInv'
<1>1. /\ active \in [Clients -> SUBSET Devices] /\ unreleased \in [Clients -> SUBSET Devices]
      /\ host \in [Devices -> [down : BOOLEAN, at : Nat]]
  BY DEF IInv, Types
<1>2. /\ active' = IF ok THEN [active EXCEPT ![c] = @ \ {d}] ELSE active
      /\ unreleased' = IF ok THEN [unreleased EXCEPT ![c] = @ \ {d}]
                              ELSE [unreleased EXCEPT ![c] = @ \union {d}]
  BY DEF Released, NotReleased
<1>3. /\ host' \in [Devices -> [down : BOOLEAN, at : Nat]]
      /\ \A e \in Devices : host'[e].down => host[e].down /\ (ok => e # d)
  <2>1. CASE ok
    <3>1. host' = [host EXCEPT ![d] = [down |-> FALSE, at |-> IF d = "absolute" THEN p ELSE @.at]]
      BY <2>1 DEF LetGo
    <3> QED BY <2>1, <3>1, <1>1
  <2>2. CASE ~ok
    BY <2>2, <1>1 DEF NotReleased
  <2> QED BY <2>1, <2>2
<1>4. /\ active' \in [Clients -> SUBSET Devices]
      /\ \A k \in Clients \ {c} : active'[k] = active[k]
      /\ active'[c] = IF ok THEN active[c] \ {d} ELSE active[c]
  BY <1>1, <1>2
<1>5. /\ unreleased' \in [Clients -> SUBSET Devices]
      /\ \A k \in Clients \ {c} : unreleased'[k] = unreleased[k]
      /\ unreleased'[c] = IF ok THEN unreleased[c] \ {d} ELSE unreleased[c] \union {d}
  BY <1>1, <1>2
<1>6. HostInv'
  <2> SUFFICES ASSUME NEW e \in Devices, host'[e].down
               PROVE  \E k \in Clients : e \in active'[k]
    BY DEF HostInv
  <2>1. PICK k \in Clients : e \in active[k]
    BY <1>3 DEF IInv, HostInv
  <2>2. e \in active'[k]
    BY <1>3, <1>4, <2>1
  <2> QED BY <2>2
<1>7. RestInv'
  <2>1. \A k \in Clients : active'[k] \subseteq active[k]
    BY <1>4
  <2> QED BY <2>1 DEF IInv, RestInv
<1> QED BY <1>3, <1>4, <1>5, <1>6, <1>7

\* A worker finds its queue closed and empty.
LEMMA QueueClosedStep ==
  ASSUME IInv, NEW c \in Clients, NEW w \in Lines, QueueClosed(c, w) PROVE IInv'
<1>t. Types /\ LineInv(c, w)
  BY DEF IInv
<1>0. worker[c][w].at = "idle" /\ queue[c][w] = <<>>
  BY DEF QueueClosed
<1>u. UNCHANGED <<reader, queue, active, resting, pending, host, rebuilding, newest,
                 unreleased, asked>>
  BY DEF QueueClosed, history
<1> PICK todo \in SUBSET Devices : todo = DevicesOf(w) \intersect active[c]
  BY <1>t DEF Types
<1>b. PICK v \in WorkerRecord :
        /\ v = [at |-> IF todo = {} THEN "done" ELSE "end", report |-> NoReport, todo |-> todo]
        /\ worker' = [worker EXCEPT ![c][w] = v]
  <2>1. Leave(todo) = [at |-> IF todo = {} THEN "done" ELSE "end", report |-> NoReport,
                       todo |-> todo]
    BY DEF Leave
  <2>2. Leave(todo) \in WorkerRecord
    BY <2>1 DEF WorkerRecord, WorkerPlaces
  <2>3. worker' = [worker EXCEPT ![c][w] = Leave(todo)]
    BY DEF QueueClosed
  <2> QED BY <2>1, <2>2, <2>3, Zenon
<1>c. /\ worker' \in [Clients -> [Lines -> WorkerRecord]] /\ worker'[c][w] = v
      /\ \A k \in Clients, u \in Lines : k # c \/ u # w => worker'[k][u] = worker[k][u]
  <2>1. worker \in [Clients -> [Lines -> WorkerRecord]]
    BY <1>t DEF Types, WorkerRecord
  <2>2. worker' = [worker EXCEPT ![c][w] = v]
    BY <1>b
  <2> QED BY <2>1, <2>2
<1>1. Types'
  BY <1>t, <1>c, <1>u DEF Types, WorkerRecord
<1>2. ReaderInv' /\ RestInv' /\ HostInv'
  BY <1>u DEF IInv, ReaderInv, InHand, RestInv, HostInv
<1>3. LineInv(c, w)'
  <2>1. QueueAt(c, w)'
    BY <1>t, <1>u DEF LineInv, QueueAt
  <2>2. WorkerAt(c, w)'
    BY <1>b, <1>c, <1>u DEF WorkerAt, Busy
  <2>3. NewestAt(c, w)'
    <3>1. Hand' = Hand /\ NewestAt(c, w)
      BY <1>t, <1>u DEF LineInv, Hand
    <3> QED BY <3>1, <1>b, <1>c, <1>u DEF NewestAt, IsNewest
  <2>4. StuckAt(c, w)'
    BY <1>b, <1>c, <1>u DEF StuckAt
  <2> QED BY <2>1, <2>2, <2>3, <2>4 DEF LineInv
<1>4. \A k \in Clients, u \in Lines : LineInv(k, u)'
  BY <1>3, <1>c, <1>u, OtherLines
<1>5. ReservationsAccounted'
  <2>1. AtWorker'[c][w] = 0 /\ AtWorker[c][w] = 0
    BY <1>0, <1>b, <1>c DEF AtWorker, Busy
  <2>2. Queued'[c][w] = Queued[c][w] /\ Queued[c][w] \in Nat /\ pending[c] \in Int
    BY <1>t, <1>u, CountTypes DEF Queued, Types
  <2>3. pending'[c] - pending[c] =
          (Queued'[c][w] - Queued[c][w]) + (AtWorker'[c][w] - AtWorker[c][w])
    BY <2>1, <2>2, <1>u
  <2> QED BY <2>3, <1>1, <1>c, <1>u, WorkerBalance
<1> QED BY <1>1, <1>2, <1>4, <1>5 DEF IInv

\* The release reports of a worker that changes from one mouse to the other.
LEMMA ReleaseOtherStep ==
  ASSUME IInv, NEW c \in Clients, NEW w \in Lines, ReleaseOther(c, w) PROVE IInv'
<1>t. Types /\ LineInv(c, w)
  BY DEF IInv
<1>0. worker[c][w].at = "switch"
  BY DEF ReleaseOther
<1> PICK r \in OnLine(w) : r = worker[c][w].report /\ r \in Sent /\ r \in Report
  BY <1>0, WorkerFacts
<1>u. UNCHANGED <<reader, rebuilding, newest, asked>>
  BY DEF ReleaseOther
<1>a. PICK d \in OtherMouse(r.device), ok \in BOOLEAN :
        IF ok THEN /\ LetGo(d, resting[c]) /\ Released(c, d)
                   /\ worker' = [worker EXCEPT ![c][w].at = "write"]
                   /\ UNCHANGED <<queue, pending, resting>>
              ELSE Fail(c, w) /\ UNCHANGED <<host, unreleased>>
  BY DEF ReleaseOther
<1>1. CASE ~ok
  BY <1>0, <1>1, <1>a, <1>u, FailStep
<1>2. CASE ok
  <2>u. LetGo(d, resting[c]) /\ Released(c, d) /\ UNCHANGED <<queue, pending, resting>>
    BY <1>2, <1>a
  <2>0. /\ d \in Devices /\ d \in DevicesOf(w) /\ OtherMouse(r.device) = {d}
        /\ resting[c] \in Nat
    <3>0. /\ OtherMouse(r.device) \subseteq DevicesOf(w)
          /\ \A e \in OtherMouse(r.device) : OtherMouse(r.device) = {e}
      BY OtherMouseType
    <3>1. d \in DevicesOf(w) /\ OtherMouse(r.device) = {d}
      BY <3>0
    <3>2. d \in Devices
      BY <3>1 DEF DevicesOf
    <3>3. resting[c] \in Nat
      BY <1>t DEF Types
    <3> QED BY <3>1, <3>2, <3>3
  <2>a. /\ active' \in [Clients -> SUBSET Devices] /\ unreleased' \in [Clients -> SUBSET Devices]
        /\ host' \in [Devices -> [down : BOOLEAN, at : Nat]]
        /\ \A k \in Clients \ {c} : active'[k] = active[k] /\ unreleased'[k] = unreleased[k]
        /\ active'[c] = active[c] \ {d} /\ unreleased'[c] = unreleased[c] \ {d}
        /\ HostInv' /\ RestInv'
    BY <1>2, <2>0, <2>u, Attempted
  <2>c. /\ worker' \in [Clients -> [Lines -> WorkerRecord]]
        /\ worker'[c][w].at = "write" /\ worker'[c][w].report = r
        /\ \A k \in Clients, u \in Lines : k # c \/ u # w => worker'[k][u] = worker[k][u]
    <3>1. worker \in [Clients -> [Lines -> WorkerRecord]]
      BY <1>t DEF Types, WorkerRecord
    <3>2. PICK v : v = [worker[c][w] EXCEPT !.at = "write"]
      OBVIOUS
    <3>3. worker' = [worker EXCEPT ![c][w] = v]
      BY <1>2, <1>a, <3>2
    <3>4. worker[c][w] \in WorkerRecord
      BY <3>1
    <3>5. v \in WorkerRecord /\ v.at = "write" /\ v.report = r
      BY <3>2, <3>4 DEF WorkerRecord, WorkerPlaces
    <3> QED BY <3>1, <3>3, <3>5
  <2>1. Types'
    BY <1>t, <1>u, <2>a, <2>c, <2>u DEF Types, WorkerRecord
  <2>2. ReaderInv'
    BY <1>u, <2>u DEF IInv, ReaderInv, InHand
  <2>3. LineInv(c, w)'
    <3>1. QueueAt(c, w)'
      BY <1>t, <2>u DEF LineInv, QueueAt
    <3>2. WorkerAt(c, w)'
      BY <2>0, <2>a, <2>c DEF WorkerAt, Busy
    <3>3. NewestAt(c, w)'
      <4>1. Hand' = Hand /\ NewestAt(c, w)
        BY <1>t, <1>u DEF LineInv, Hand
      <4> QED BY <4>1, <1>0, <1>u, <2>c, <2>u DEF NewestAt, IsNewest
    <3>4. StuckAt(c, w)'
      BY <2>c DEF StuckAt
    <3> QED BY <3>1, <3>2, <3>3, <3>4 DEF LineInv
  <2>4. \A k \in Clients, u \in Lines : LineInv(k, u)'
    <3>1. \A e \in Devices \ DevicesOf(w) :
            (e \in active'[c] <=> e \in active[c]) /\ (e \in unreleased'[c] <=> e \in unreleased[c])
      BY <2>0, <2>a
    <3>2. \A k \in Clients \ {c} : active'[k] = active[k] /\ unreleased'[k] = unreleased[k]
      BY <2>a
    <3> QED BY <3>1, <3>2, <1>u, <2>3, <2>c, <2>u, OtherLines
  <2>5. ReservationsAccounted'
    <3>1. AtWorker'[c][w] = 1 /\ AtWorker[c][w] = 1
      BY <1>0, <2>c DEF AtWorker, Busy
    <3>2. Queued'[c][w] = Queued[c][w] /\ Queued[c][w] \in Nat /\ pending[c] \in Int
      BY <1>t, <2>u, CountTypes DEF Queued, Types
    <3>3. pending'[c] - pending[c] =
            (Queued'[c][w] - Queued[c][w]) + (AtWorker'[c][w] - AtWorker[c][w])
      BY <3>1, <3>2, <2>u
    <3> QED BY <3>3, <1>u, <2>1, <2>c, <2>u, WorkerBalance
  <2> QED BY <2>1, <2>2, <2>4, <2>5, <2>a DEF IInv
<1> QED BY <1>1, <1>2

\* A report is written: what it leaves down is what the client has asked for last,
\* if it was the last on its way.
LEMMA WriteReportStep ==
  ASSUME IInv, NEW c \in Clients, NEW w \in Lines, WriteReport(c, w) PROVE IInv'
<1>t. Types /\ LineInv(c, w)
  BY DEF IInv
<1>0. worker[c][w].at = "write"
  BY DEF WriteReport
<1> PICK r \in OnLine(w) :
      /\ r = worker[c][w].report /\ r \in Sent /\ r \in Report
      /\ r.device \in DevicesOf(w) /\ r.device \in Devices
  BY <1>0, WorkerFacts, OneLine DEF Report
<1>u. UNCHANGED <<reader, rebuilding, newest, asked>>
  BY DEF WriteReport
<1>a. PICK ok \in BOOLEAN :
        IF ok THEN /\ Deliver(r)
                   /\ active' = [active EXCEPT ![c] = IF r.down THEN @ \union {r.device}
                                                                ELSE @ \ {r.device}]
                   /\ unreleased' = [unreleased EXCEPT ![c] = @ \ {r.device}]
                   /\ resting' = RestsAt(c, r)
                   /\ pending' = [pending EXCEPT ![c] = @ - 1]
                   /\ worker' = [worker EXCEPT ![c][w] = IdleWorker]
                   /\ UNCHANGED queue
              ELSE Fail(c, w) /\ UNCHANGED <<host, unreleased>>
  BY DEF WriteReport
<1>1. CASE ~ok
  BY <1>0, <1>1, <1>a, <1>u, FailStep
<1>2. CASE ok
  <2>q. queue' = queue
    BY <1>2, <1>a
  <2>a. /\ active' \in [Clients -> SUBSET Devices]
        /\ \A k \in Clients \ {c} : active'[k] = active[k]
        /\ active'[c] = IF r.down THEN active[c] \union {r.device} ELSE active[c] \ {r.device}
    <3>1. active \in [Clients -> SUBSET Devices]
      BY <1>t DEF Types
    <3>2. active' = [active EXCEPT ![c] = IF r.down THEN @ \union {r.device} ELSE @ \ {r.device}]
      BY <1>2, <1>a
    <3> QED BY <3>1, <3>2
  <2>b. /\ unreleased' \in [Clients -> SUBSET Devices]
        /\ \A k \in Clients \ {c} : unreleased'[k] = unreleased[k]
        /\ unreleased'[c] = unreleased[c] \ {r.device}
    <3>1. unreleased \in [Clients -> SUBSET Devices]
      BY <1>t DEF Types
    <3>2. unreleased' = [unreleased EXCEPT ![c] = @ \ {r.device}]
      BY <1>2, <1>a
    <3> QED BY <3>1, <3>2
  <2>c. /\ worker' \in [Clients -> [Lines -> WorkerRecord]] /\ worker'[c][w] = IdleWorker
        /\ \A k \in Clients, u \in Lines : k # c \/ u # w => worker'[k][u] = worker[k][u]
    <3>1. worker \in [Clients -> [Lines -> WorkerRecord]]
      BY <1>t DEF Types, WorkerRecord
    <3>2. worker' = [worker EXCEPT ![c][w] = IdleWorker]
      BY <1>2, <1>a
    <3>3. IdleWorker \in WorkerRecord
      BY DEF IdleWorker, WorkerRecord, WorkerPlaces
    <3> QED BY <3>1, <3>2, <3>3
  <2>d. /\ host' \in [Devices -> [down : BOOLEAN, at : Nat]]
        /\ host'[r.device].down = r.down
        /\ \A e \in Devices : e # r.device => host'[e] = host[e]
    <3>1. host \in [Devices -> [down : BOOLEAN, at : Nat]]
      BY <1>t DEF Types
    <3>2. host' = [host EXCEPT ![r.device] =
             [down |-> r.down, at |-> IF r.device = "relative" THEN @.at + r.at ELSE r.at]]
      BY <1>2, <1>a DEF Deliver
    <3>3. r.down \in BOOLEAN /\ r.at \in Nat /\ host[r.device].at + r.at \in Nat
      BY <3>1 DEF Report
    <3> QED BY <3>1, <3>2, <3>3
  <2>e. /\ resting' \in [Clients -> Nat]
        /\ \A k \in Clients \ {c} : resting'[k] = resting[k]
        /\ resting'[c] = IF r.device = "absolute" THEN r.at ELSE resting[c]
    <3>1. resting \in [Clients -> Nat] /\ r.at \in Nat
      BY <1>t DEF Types, Report
    <3>2. resting' = IF r.device = "absolute" THEN [resting EXCEPT ![c] = r.at] ELSE resting
      BY <1>2, <1>a DEF RestsAt
    <3> QED BY <3>1, <3>2
  <2>f. /\ pending' \in [Clients -> Int] /\ pending'[c] = pending[c] - 1 /\ pending[c] \in Int
        /\ \A k \in Clients \ {c} : pending'[k] = pending[k]
    <3>1. pending \in [Clients -> Int]
      BY <1>t DEF Types
    <3>2. pending' = [pending EXCEPT ![c] = @ - 1]
      BY <1>2, <1>a
    <3> QED BY <3>1, <3>2
  <2>1. Types'
    BY <1>t, <1>u, <2>a, <2>b, <2>c, <2>d, <2>e, <2>f, <2>q DEF Types, WorkerRecord
  <2>2. ReaderInv'
    BY <1>u, <2>q DEF IInv, ReaderInv, InHand
  <2>3. RestInv'
    BY <2>a, <2>e DEF IInv, RestInv, Sent
  <2>4. HostInv'
    <3> SUFFICES ASSUME NEW e \in Devices, host'[e].down
                 PROVE  \E k \in Clients : e \in active'[k]
      BY DEF HostInv
    <3>1. CASE e = r.device
      BY <3>1, <2>a, <2>d
    <3>2. CASE e # r.device
      <4>1. PICK k \in Clients : e \in active[k]
        BY <3>2, <2>d DEF IInv, HostInv
      <4>2. e \in active'[k]
        BY <3>2, <4>1, <2>a
      <4> QED BY <4>2
    <3> QED BY <3>1, <3>2
  <2>5. LineInv(c, w)'
    <3>1. QueueAt(c, w)'
      BY <1>t, <2>q DEF LineInv, QueueAt
    <3>2. WorkerAt(c, w)'
      BY <2>c DEF WorkerAt, Busy, IdleWorker
    <3>3. Hand' = Hand /\ NewestAt(c, w)
      BY <1>t, <1>u DEF LineInv, Hand
    <3>4. NewestAt(c, w)'
      BY <3>3, <1>u, <2>c, <2>q DEF NewestAt, IsNewest, IdleWorker
    <3>5. StuckAt(c, w)'
      <4> SUFFICES ASSUME NEW d \in DevicesOf(w), d \in active'[c], ~newest[c][d],
                          w \notin Hand[c], queue[c][w] = <<>>
                   PROVE  FALSE
        BY <3>3, <1>u, <2>q DEF StuckAt
      <4>1. r.down = newest[c][r.device]
        BY <3>3, <1>0 DEF NewestAt, IsNewest
      <4>2. d # r.device
        BY <4>1, <2>a
      <4>3. d \in OtherMouse(r.device) /\ OtherMouse(r.device) \intersect active[c] = {}
        BY <4>2, <1>t, <1>0, OtherMouseType DEF LineInv, WorkerAt
      <4> QED BY <4>2, <4>3, <2>a
    <3> QED BY <3>1, <3>2, <3>4, <3>5 DEF LineInv
  <2>6. \A k \in Clients, u \in Lines : LineInv(k, u)'
    <3>1. \A e \in Devices \ DevicesOf(w) :
            (e \in active'[c] <=> e \in active[c]) /\ (e \in unreleased'[c] <=> e \in unreleased[c])
      BY <2>a, <2>b
    <3>2. \A k \in Clients \ {c} : active'[k] = active[k] /\ unreleased'[k] = unreleased[k]
      BY <2>a, <2>b
    <3> QED BY <3>1, <3>2, <1>u, <2>5, <2>c, <2>q, OtherLines
  <2>7. ReservationsAccounted'
    <3>1. AtWorker'[c][w] = 0 /\ AtWorker[c][w] = 1
      BY <1>0, <2>c DEF AtWorker, Busy, IdleWorker
    <3>2. Queued'[c][w] = Queued[c][w] /\ Queued[c][w] \in Nat
      BY <1>t, <2>q, CountTypes DEF Queued
    <3>3. pending'[c] - pending[c] =
            (Queued'[c][w] - Queued[c][w]) + (AtWorker'[c][w] - AtWorker[c][w])
      BY <3>1, <3>2, <2>f
    <3> QED BY <3>3, <1>u, <2>1, <2>c, <2>f, <2>q, WorkerBalance
  <2> QED BY <2>1, <2>2, <2>3, <2>4, <2>6, <2>7 DEF IInv
<1> QED BY <1>1, <1>2

\* After a failed write: one device is let go of, or refuses.
LEMMA CleanUpStep ==
  ASSUME IInv, NEW c \in Clients, NEW w \in Lines, CleanUp(c, w) PROVE IInv'
<1>t. Types /\ LineInv(c, w)
  BY DEF IInv
<1>0. worker[c][w].at = "clean"
  BY DEF CleanUp
<1> PICK r \in OnLine(w), todo \in SUBSET Devices :
      r = worker[c][w].report /\ todo = worker[c][w].todo /\ r \in Sent /\ r \in Report
  BY <1>0, WorkerFacts
<1>r. /\ todo # {} /\ todo \subseteq DevicesOf(w)
      /\ todo \subseteq active[c] \union {r.device}
  BY <1>t, <1>0 DEF LineInv, WorkerAt
<1>u. UNCHANGED <<reader, queue, resting, rebuilding, newest, asked>>
  BY DEF CleanUp
<1>a. PICK d \in First(todo), ok \in BOOLEAN :
        /\ IF ok THEN Released(c, d) /\ LetGo(d, IF r.device = d THEN r.at ELSE resting[c])
                 ELSE NotReleased(c, d)
        /\ worker' = [worker EXCEPT ![c][w] =
                       IF todo \ {d} = {} THEN IdleWorker
                       ELSE [at |-> "clean", report |-> r, todo |-> todo \ {d}]]
        /\ pending' = IF todo \ {d} = {} THEN [pending EXCEPT ![c] = @ - 1] ELSE pending
  BY DEF CleanUp
<1>d. d \in todo /\ d \in Devices /\ d \in DevicesOf(w)
  BY <1>r, FirstType
<1>p. PICK p \in Nat : p = IF r.device = d THEN r.at ELSE resting[c]
  <2>1. r.at \in Nat /\ resting[c] \in Nat
    BY <1>t DEF Types, Report
  <2> QED BY <2>1
<1> PICK rest \in SUBSET Devices : rest = todo \ {d}
  OBVIOUS
<1>b. /\ active' \in [Clients -> SUBSET Devices] /\ unreleased' \in [Clients -> SUBSET Devices]
      /\ host' \in [Devices -> [down : BOOLEAN, at : Nat]]
      /\ \A k \in Clients \ {c} : active'[k] = active[k] /\ unreleased'[k] = unreleased[k]
      /\ active'[c] = IF ok THEN active[c] \ {d} ELSE active[c]
      /\ unreleased'[c] = IF ok THEN unreleased[c] \ {d} ELSE unreleased[c] \union {d}
      /\ HostInv' /\ RestInv'
  <2>1. IF ok THEN Released(c, d) /\ LetGo(d, p) ELSE NotReleased(c, d)
    BY <1>a, <1>p
  <2>2. resting' = resting /\ d \in Devices
    BY <1>d, <1>u
  <2> QED BY <2>1, <2>2, Attempted
<1>c. /\ worker' \in [Clients -> [Lines -> WorkerRecord]]
      /\ worker'[c][w] = IF rest = {} THEN IdleWorker
                         ELSE [at |-> "clean", report |-> r, todo |-> rest]
      /\ \A k \in Clients, u \in Lines : k # c \/ u # w => worker'[k][u] = worker[k][u]
  <2>1. worker \in [Clients -> [Lines -> WorkerRecord]]
    BY <1>t DEF Types, WorkerRecord
  <2>2. PICK v : v = IF rest = {} THEN IdleWorker
                     ELSE [at |-> "clean", report |-> r, todo |-> rest]
    OBVIOUS
  <2>3. v \in WorkerRecord
    BY <2>2 DEF WorkerRecord, WorkerPlaces, IdleWorker
  <2>4. worker' = [worker EXCEPT ![c][w] = v]
    BY <1>a, <2>2
  <2> QED BY <2>1, <2>2, <2>3, <2>4
<1>f. /\ pending' \in [Clients -> Int] /\ pending[c] \in Int
      /\ pending'[c] = IF rest = {} THEN pending[c] - 1 ELSE pending[c]
      /\ \A k \in Clients \ {c} : pending'[k] = pending[k]
  <2>1. pending \in [Clients -> Int]
    BY <1>t DEF Types
  <2>2. pending' = IF rest = {} THEN [pending EXCEPT ![c] = @ - 1] ELSE pending
    BY <1>a
  <2> QED BY <2>1, <2>2
<1>1. Types'
  BY <1>t, <1>b, <1>c, <1>f, <1>u DEF Types, WorkerRecord
<1>2. ReaderInv'
  BY <1>u DEF IInv, ReaderInv, InHand
<1>3. LineInv(c, w)'
  <2>1. QueueAt(c, w)'
    BY <1>t, <1>u DEF LineInv, QueueAt
  <2>2. WorkerAt(c, w)'
    BY <1>b, <1>c, <1>r DEF WorkerAt, Busy, IdleWorker
  <2>3. Hand' = Hand /\ NewestAt(c, w) /\ StuckAt(c, w)
    BY <1>t, <1>u DEF LineInv, Hand
  <2>4. NewestAt(c, w)'
    BY <2>3, <1>u, <1>c DEF NewestAt, IsNewest, IdleWorker
  <2>5. StuckAt(c, w)'
    BY <2>3, <1>0, <1>u, <1>b, <1>c DEF StuckAt
  <2> QED BY <2>1, <2>2, <2>4, <2>5 DEF LineInv
<1>4. \A k \in Clients, u \in Lines : LineInv(k, u)'
  <2>1. \A e \in Devices \ DevicesOf(w) :
          (e \in active'[c] <=> e \in active[c]) /\ (e \in unreleased'[c] <=> e \in unreleased[c])
    BY <1>b, <1>d
  <2>2. \A k \in Clients \ {c} : active'[k] = active[k] /\ unreleased'[k] = unreleased[k]
    BY <1>b
  <2> QED BY <2>1, <2>2, <1>u, <1>3, <1>c, OtherLines
<1>5. ReservationsAccounted'
  <2>1. AtWorker[c][w] = 1 /\ AtWorker'[c][w] = IF rest = {} THEN 0 ELSE 1
    BY <1>0, <1>c DEF AtWorker, Busy, IdleWorker
  <2>2. Queued'[c][w] = Queued[c][w] /\ Queued[c][w] \in Nat
    BY <1>t, <1>u, CountTypes DEF Queued
  <2>3. pending'[c] - pending[c] =
          (Queued'[c][w] - Queued[c][w]) + (AtWorker'[c][w] - AtWorker[c][w])
    BY <2>1, <2>2, <1>f
  <2> QED BY <2>3, <1>u, <1>1, <1>c, <1>f, WorkerBalance
<1> QED BY <1>1, <1>2, <1>4, <1>5, <1>b DEF IInv

\* After the queue is closed: one device is let go of, or refuses.
LEMMA LastReleaseStep ==
  ASSUME IInv, NEW c \in Clients, NEW w \in Lines, LastRelease(c, w) PROVE IInv'
<1>t. Types /\ LineInv(c, w)
  BY DEF IInv
<1>0. worker[c][w].at = "end"
  BY DEF LastRelease
<1> PICK todo \in SUBSET Devices : todo = worker[c][w].todo
  BY WorkerFacts
<1>r. /\ todo # {} /\ todo \subseteq DevicesOf(w) \intersect active[c]
      /\ (DevicesOf(w) \intersect active[c]) \ todo \subseteq unreleased[c]
  BY <1>t, <1>0 DEF LineInv, WorkerAt
<1>u. UNCHANGED <<reader, queue, resting, pending, rebuilding, newest, asked>>
  BY DEF LastRelease
<1>a. PICK d \in First(todo), ok \in BOOLEAN :
        /\ IF ok THEN Released(c, d) /\ LetGo(d, resting[c]) ELSE NotReleased(c, d)
        /\ worker' = [worker EXCEPT ![c][w] = Leave(@.todo \ {d})]
  BY DEF LastRelease
<1>d. d \in todo /\ d \in Devices /\ d \in DevicesOf(w) /\ resting[c] \in Nat
  BY <1>t, <1>r, FirstType DEF Types
<1> PICK rest \in SUBSET Devices : rest = todo \ {d}
  OBVIOUS
<1>b. /\ active' \in [Clients -> SUBSET Devices] /\ unreleased' \in [Clients -> SUBSET Devices]
      /\ host' \in [Devices -> [down : BOOLEAN, at : Nat]]
      /\ \A k \in Clients \ {c} : active'[k] = active[k] /\ unreleased'[k] = unreleased[k]
      /\ active'[c] = IF ok THEN active[c] \ {d} ELSE active[c]
      /\ unreleased'[c] = IF ok THEN unreleased[c] \ {d} ELSE unreleased[c] \union {d}
      /\ HostInv' /\ RestInv'
  BY <1>a, <1>d, <1>u, Attempted
<1>c. /\ worker' \in [Clients -> [Lines -> WorkerRecord]]
      /\ worker'[c][w] = [at |-> IF rest = {} THEN "done" ELSE "end", report |-> NoReport,
                         todo |-> rest]
      /\ \A k \in Clients, u \in Lines : k # c \/ u # w => worker'[k][u] = worker[k][u]
  <2>1. worker \in [Clients -> [Lines -> WorkerRecord]]
    BY <1>t DEF Types, WorkerRecord
  <2>2. PICK v : v = [at |-> IF rest = {} THEN "done" ELSE "end", report |-> NoReport,
                      todo |-> rest]
    OBVIOUS
  <2>3. Leave(rest) = v
    BY <2>2 DEF Leave
  <2>4. v \in WorkerRecord
    BY <2>2 DEF WorkerRecord, WorkerPlaces
  <2>5. worker' = [worker EXCEPT ![c][w] = v]
    BY <1>a, <2>3
  <2> QED BY <2>1, <2>2, <2>4, <2>5
<1>1. Types'
  BY <1>t, <1>b, <1>c, <1>u DEF Types, WorkerRecord
<1>2. ReaderInv'
  BY <1>u DEF IInv, ReaderInv, InHand
<1>3. LineInv(c, w)'
  <2>1. QueueAt(c, w)'
    BY <1>t, <1>u DEF LineInv, QueueAt
  <2>2. WorkerAt(c, w)'
    BY <1>b, <1>c, <1>r DEF WorkerAt, Busy
  <2>3. Hand' = Hand /\ NewestAt(c, w) /\ StuckAt(c, w)
    BY <1>t, <1>u DEF LineInv, Hand
  <2>4. NewestAt(c, w)'
    BY <2>3, <1>u, <1>c DEF NewestAt, IsNewest
  <2>5. StuckAt(c, w)'
    BY <2>3, <1>0, <1>u, <1>b, <1>c DEF StuckAt
  <2> QED BY <2>1, <2>2, <2>4, <2>5 DEF LineInv
<1>4. \A k \in Clients, u \in Lines : LineInv(k, u)'
  <2>1. \A e \in Devices \ DevicesOf(w) :
          (e \in active'[c] <=> e \in active[c]) /\ (e \in unreleased'[c] <=> e \in unreleased[c])
    BY <1>b, <1>d
  <2>2. \A k \in Clients \ {c} : active'[k] = active[k] /\ unreleased'[k] = unreleased[k]
    BY <1>b
  <2> QED BY <2>1, <2>2, <1>u, <1>3, <1>c, OtherLines
<1>5. ReservationsAccounted'
  <2>1. AtWorker[c][w] = 0 /\ AtWorker'[c][w] = 0
    BY <1>0, <1>c DEF AtWorker, Busy
  <2>2. Queued'[c][w] = Queued[c][w] /\ Queued[c][w] \in Nat /\ pending[c] \in Int
    BY <1>t, <1>u, CountTypes DEF Queued, Types
  <2>3. pending'[c] - pending[c] =
          (Queued'[c][w] - Queued[c][w]) + (AtWorker'[c][w] - AtWorker[c][w])
    BY <2>1, <2>2, <1>u
  <2> QED BY <2>3, <1>u, <1>1, <1>c, WorkerBalance
<1> QED BY <1>1, <1>2, <1>4, <1>5, <1>b DEF IInv

-----------------------------------------------------------------------------
(* The others at the gadget, and every step *)

\* A release by others lets go of a device whatever the workers know; a rebuild of
\* the gadget of all of them.
LEMMA GadgetStep ==
  ASSUME IInv, (\E d \in Devices : ReleaseByOthers(d)) \/ StartRebuild \/ EndRebuild
  PROVE  IInv'
<1>u. UNCHANGED <<reader, queue, worker, active, resting, pending, newest, unreleased, asked>>
  BY DEF ReleaseByOthers, StartRebuild, EndRebuild, history
<1>h. host \in [Devices -> [down : BOOLEAN, at : Nat]] /\ rebuilding \in BOOLEAN
  BY DEF IInv, Types
<1>1. /\ host' \in [Devices -> [down : BOOLEAN, at : Nat]] /\ rebuilding' \in BOOLEAN
      /\ \A e \in Devices : host'[e].down => host[e].down
  <2>1. CASE \E d \in Devices : ReleaseByOthers(d)
    <3>1. PICK d \in Devices : LetGo(d, Corner) /\ rebuilding' = rebuilding
      BY <2>1 DEF ReleaseByOthers
    <3>2. host' = [host EXCEPT ![d] = [down |-> FALSE, at |-> IF d = "absolute" THEN Corner ELSE @.at]]
      BY <3>1 DEF LetGo
    <3> QED BY <3>1, <3>2, <1>h DEF Corner
  <2>2. CASE StartRebuild
    BY <2>2, <1>h DEF StartRebuild
  <2>3. CASE EndRebuild
    BY <2>3, <1>h DEF EndRebuild
  <2> QED BY <2>1, <2>2, <2>3
<1>2. Types'
  BY <1>u, <1>1 DEF IInv, Types
<1>3. ReaderInv' /\ RestInv'
  BY <1>u DEF IInv, ReaderInv, InHand, RestInv
<1>4. HostInv'
  BY <1>u, <1>1 DEF IInv, HostInv
<1>5. ReservationsAccounted'
  BY <1>u DEF IInv, ReservationsAccounted, OnTheWay, AtReader, Queued, AtWorker, Busy
<1>6. ASSUME NEW k \in Clients, NEW u \in Lines PROVE LineInv(k, u)'
  <2>1. LineInv(k, u) /\ Hand' = Hand
    BY <1>u DEF IInv, Hand
  <2> QED BY <2>1, <1>u DEF LineInv, QueueAt, WorkerAt, Busy, NewestAt, IsNewest, StuckAt
<1> QED BY <1>2, <1>3, <1>4, <1>5, <1>6 DEF IInv

\* A stuttering step.
LEMMA IdleStep == ASSUME IInv, UNCHANGED vars PROVE IInv'
<1>u. UNCHANGED <<reader, queue, worker, active, resting, pending, host, rebuilding, newest,
                 unreleased, asked>>
  BY DEF vars
<1>1. Types' /\ ReaderInv' /\ RestInv' /\ HostInv'
  BY <1>u DEF IInv, Types, ReaderInv, InHand, RestInv, HostInv
<1>2. ReservationsAccounted'
  BY <1>u DEF IInv, ReservationsAccounted, OnTheWay, AtReader, Queued, AtWorker, Busy
<1>3. ASSUME NEW k \in Clients, NEW u \in Lines PROVE LineInv(k, u)'
  <2>1. LineInv(k, u) /\ Hand' = Hand
    BY <1>u DEF IInv, Hand
  <2> QED BY <2>1, <1>u DEF LineInv, QueueAt, WorkerAt, Busy, NewestAt, IsNewest, StuckAt
<1> QED BY <1>1, <1>2, <1>3 DEF IInv

\* Nothing is on its way and nothing is down at the start.
LEMMA Initially == ASSUME Init PROVE IInv
<1> USE DEF Init
<1>0. <<>> \in Seq(Sent) /\ Len(<<>>) = 0 /\ \A w \in Lines : <<>> \in Seq(OnLine(w))
  BY EmptySeq
<1>1. Types
  <2>1. Reading \in [at : ReaderPlaces, report : Report \union {NoReport}, turns : Nat]
    BY DEF Reading, ReaderPlaces
  <2>2. IdleWorker \in [at : WorkerPlaces, report : Report \union {NoReport}, todo : SUBSET Devices]
    BY DEF IdleWorker, WorkerPlaces
  <2>3. queue \in [Clients -> [Lines -> Seq(Sent)]]
    BY <1>0
  <2>4. host \in [Devices -> [down : BOOLEAN, at : Nat]]
    BY DEF Corner
  <2>5. /\ active \in [Clients -> SUBSET Devices] /\ unreleased \in [Clients -> SUBSET Devices]
        /\ rebuilding \in BOOLEAN /\ asked \in Nat
    OBVIOUS
  <2>7. resting \in [Clients -> Nat] /\ pending \in [Clients -> Int]
    BY DEF Corner
  <2>8. newest \in [Clients -> [Devices -> BOOLEAN]]
    OBVIOUS
  <2>6. /\ reader \in [Clients -> [at : ReaderPlaces, report : Report \union {NoReport}, turns : Nat]]
        /\ worker \in [Clients -> [Lines -> [at : WorkerPlaces, report : Report \union {NoReport},
                                            todo : SUBSET Devices]]]
    BY <2>1, <2>2
  <2> HIDE DEF Init
  <2> QED BY <2>3, <2>4, <2>5, <2>6, <2>7, <2>8 DEF Types
<1>2. ReaderInv /\ RestInv /\ HostInv
  BY CapacityAssumption DEF ReaderInv, RestInv, HostInv, Reading
<1>3. ASSUME NEW c \in Clients, NEW w \in Lines PROVE LineInv(c, w)
  <2>1. worker[c][w].at = "idle" /\ queue[c][w] = <<>> /\ active[c] = {} /\ Hand[c] = {}
    BY DEF IdleWorker, Hand, Reading
  <2>2. QueueAt(c, w)
    BY <2>1, <1>0, CapacityAssumption DEF QueueAt
  <2>3. WorkerAt(c, w) /\ NewestAt(c, w) /\ StuckAt(c, w)
    BY <2>1 DEF WorkerAt, Busy, NewestAt, StuckAt
  <2> QED BY <2>2, <2>3 DEF LineInv
<1>4. ASSUME NEW c \in Clients PROVE pending[c] = OnTheWay[c]
  <2>1. /\ AtReader[c] = 0
        /\ \A w \in Lines : Queued[c][w] = 0 /\ AtWorker[c][w] = 0
    BY <1>0 DEF AtReader, Queued, AtWorker, Busy, Reading, IdleWorker
  <2>2. OnTheWay[c] = 0
    BY <2>1 DEF OnTheWay, Lines
  <2> QED BY <2>2
<1> QED BY <1>1, <1>2, <1>3, <1>4 DEF IInv, ReservationsAccounted

\* Every step preserves the invariant.
LEMMA Inductive == ASSUME IInv, [Next]_vars PROVE IInv'
<1>1. ASSUME NEW c \in Clients, Receive(c) \/ Disconnect(c) \/ ReaderStep(c) PROVE IInv'
  BY <1>1, ReceiveStep, SendStep, EvictStep, MoveStep DEF ReaderStep
<1>2. ASSUME NEW c \in Clients, NEW w \in Lines, WorkerStep(c, w) PROVE IInv'
  BY <1>2, TakeStep, ReleaseOtherStep, WriteReportStep, CleanUpStep, QueueClosedStep,
     LastReleaseStep DEF WorkerStep
<1>3. CASE (\E d \in Devices : ReleaseByOthers(d)) \/ StartRebuild \/ EndRebuild
  BY <1>3, GadgetStep
<1>4. CASE UNCHANGED vars
  BY <1>4, IdleStep
<1> QED BY <1>1, <1>2, <1>3, <1>4 DEF Next

\* The invariant holds in every reachable state.
THEOREM Invariance == Spec => []IInv
<1>1. Init => IInv
  BY Initially
<1>2. IInv /\ [Next]_vars => IInv'
  BY Inductive
<1> QED BY <1>1, <1>2, PTL DEF Spec

-----------------------------------------------------------------------------
(* The theorems *)

\* Every variable keeps its type, and no queue exceeds its capacity.
THEOREM TypeCorrect == Spec => []TypeOK
<1>1. ASSUME IInv PROVE TypeOK
  <2>1. Types
    BY <1>1 DEF IInv
  <2>2. reader \in [Clients -> [at : ReaderPlaces, report : Report \union {NoReport},
                              turns : 0 .. Capacity + 1]]
    <3> SUFFICES ASSUME NEW c \in Clients PROVE reader[c].turns \in 0 .. Capacity + 1
      BY <2>1 DEF Types
    <3> QED BY <2>1, <1>1, CapacityAssumption DEF Types, IInv, ReaderInv
  <2>3. queue \in [Clients -> [Lines -> Seq(Report)]]
    <3>1. ASSUME NEW q \in Seq(Sent) PROVE q \in Seq(Report)
      BY SeqMonotonic DEF Sent
    <3> QED BY <2>1, <3>1 DEF Types
  <2>4. \A c \in Clients, w \in Lines : Len(queue[c][w]) <= Capacity
    BY <1>1 DEF IInv, LineInv, QueueAt
  <2>5. pending \in [Clients -> Nat]
    <3> SUFFICES ASSUME NEW c \in Clients PROVE pending[c] \in Nat
      BY <2>1 DEF Types
    <3>1. pending[c] = AtReader[c] + Queued[c]["keyboard"] + Queued[c]["mouse"]
                       + AtWorker[c]["keyboard"] + AtWorker[c]["mouse"]
      BY <1>1 DEF IInv, ReservationsAccounted, OnTheWay
    <3>2. \A w \in Lines : AtReader[c] \in Nat /\ Queued[c][w] \in Nat /\ AtWorker[c][w] \in Nat
      BY <2>1, CountTypes
    <3> QED BY <3>1, <3>2 DEF Lines
  <2> QED BY <2>1, <2>2, <2>3, <2>4, <2>5 DEF TypeOK, Types
<1> QED BY <1>1, Invariance, PTL

\* Every reservation of manual control is completed exactly once.
THEOREM Accounted == Spec => []ReservationsAccounted
<1>1. IInv => ReservationsAccounted
  BY DEF IInv
<1> QED BY <1>1, Invariance, PTL

\* What is down at the host is known to a worker, or was refused to it.
THEOREM HostIsKnown == Spec => []DownIsKnown
<1>1. ASSUME IInv PROVE DownIsKnown
  <2>1. ASSUME NEW d \in Devices, host[d].down
        PROVE  \E c \in Clients :
                 d \in active[c] /\ (worker[c][LineOf(d)].at = "done" => d \in unreleased[c])
    <3>1. PICK c \in Clients : d \in active[c]
      BY <1>1, <2>1 DEF IInv, HostInv
    <3>2. LineOf(d) \in Lines /\ d \in DevicesOf(LineOf(d))
      BY DEF LineOf, Lines, DevicesOf
    <3>3. worker[c][LineOf(d)].at = "done" => d \in unreleased[c]
      BY <1>1, <3>1, <3>2 DEF IInv, LineInv, WorkerAt
    <3> QED BY <3>1, <3>3
  <2> QED BY <2>1 DEF DownIsKnown
<1> QED BY <1>1, Invariance, PTL

\* What a person has let go of is let go of, unless the device refused.
THEOREM NothingSticks == Spec => []NothingStuck
<1>1. ASSUME IInv PROVE NothingStuck
  <2> SUFFICES ASSUME NEW c \in Clients, NEW d \in Devices, Settled(c, LineOf(d)),
                      ~newest[c][d], d \notin unreleased[c], d \in active[c]
               PROVE  FALSE
    BY DEF NothingStuck
  <2>1. LineOf(d) \in Lines /\ d \in DevicesOf(LineOf(d))
    BY DEF LineOf, Lines, DevicesOf
  <2>2. PICK w \in Lines : w = LineOf(d)
    BY <2>1
  <2>3. worker[c][w].at = "idle" /\ queue[c][w] = <<>> /\ w \notin Hand[c]
    BY <2>2 DEF Settled, Hand
  <2>4. StuckAt(c, w)
    BY <1>1 DEF IInv, LineInv
  <2> QED BY <2>1, <2>2, <2>3, <2>4 DEF StuckAt
<1> QED BY <1>1, Invariance, PTL

\* A worker never moves the pointer to the corner.
LEMMA StaysPut ==
  ASSUME IInv, NEW c \in Clients, NEW w \in Lines, WorkerStep(c, w)
  PROVE  host'["absolute"].at # Corner \/ host'["absolute"].at = host["absolute"].at
<1>t. Types /\ LineInv(c, w) /\ ("absolute" \in active[c] => resting[c] # Corner)
  BY DEF IInv, RestInv
<1>h. host \in [Devices -> [down : BOOLEAN, at : Nat]] /\ "absolute" \in Devices
  BY <1>t DEF Types, Devices
<1>g. ASSUME NEW d \in Devices, NEW p, LetGo(d, p), d = "absolute" => p # Corner
      PROVE  host'["absolute"].at # Corner \/ host'["absolute"].at = host["absolute"].at
  <2>1. host' = [host EXCEPT ![d] = [down |-> FALSE, at |-> IF d = "absolute" THEN p ELSE @.at]]
    BY <1>g DEF LetGo
  <2> QED BY <2>1, <1>g, <1>h
<1>1. CASE Take(c, w) \/ QueueClosed(c, w)
  BY <1>1 DEF Take, QueueClosed
<1>2. CASE ReleaseOther(c, w)
  <2>0. worker[c][w].at = "switch"
    BY <1>2 DEF ReleaseOther
  <2>1. PICK r \in OnLine(w) : r = worker[c][w].report
    BY <2>0, WorkerFacts
  <2>2. OtherMouse(r.device) \subseteq active[c] /\ active[c] \subseteq Devices
    BY <1>t, <2>0, <2>1 DEF LineInv, WorkerAt, Types
  <2>3. PICK d \in OtherMouse(r.device) : LetGo(d, resting[c]) \/ host' = host
    BY <1>2, <2>1 DEF ReleaseOther
  <2> QED BY <2>2, <2>3, <1>t, <1>g
<1>3. CASE WriteReport(c, w)
  <2>0. worker[c][w].at = "write"
    BY <1>3 DEF WriteReport
  <2>1. PICK r \in OnLine(w) : r = worker[c][w].report /\ r \in Sent /\ r \in Report
    BY <2>0, WorkerFacts
  <2>2. CASE host' = host
    BY <2>2
  <2>3. CASE Deliver(r)
    <3>1. host' = [host EXCEPT ![r.device] =
             [down |-> r.down, at |-> IF r.device = "relative" THEN @.at + r.at ELSE r.at]]
      BY <2>3 DEF Deliver
    <3>2. r.device = "absolute" => r.at # Corner
      BY <2>1 DEF Sent
    <3> QED BY <3>1, <3>2, <1>h
  <2> QED BY <1>3, <2>1, <2>2, <2>3 DEF WriteReport
<1>4. CASE CleanUp(c, w)
  <2>0. worker[c][w].at = "clean"
    BY <1>4 DEF CleanUp
  <2>1. PICK r \in OnLine(w), todo \in SUBSET Devices :
          r = worker[c][w].report /\ todo = worker[c][w].todo /\ r \in Sent
    BY <2>0, WorkerFacts
  <2>2. todo \subseteq active[c] \union {r.device}
    BY <1>t, <2>0, <2>1 DEF LineInv, WorkerAt
  <2>3. PICK d \in First(todo) : LetGo(d, IF r.device = d THEN r.at ELSE resting[c]) \/ host' = host
    BY <1>4, <2>1 DEF CleanUp, NotReleased
  <2>4. d \in todo /\ d \in Devices
    BY FirstType
  <2>5. PICK p : p = IF r.device = d THEN r.at ELSE resting[c]
    OBVIOUS
  <2>6. d = "absolute" => p # Corner
    BY <1>t, <2>1, <2>2, <2>4, <2>5 DEF Sent
  <2>7. LetGo(d, p) \/ host' = host
    BY <2>3, <2>5
  <2> QED BY <2>4, <2>6, <2>7, <1>g
<1>5. CASE LastRelease(c, w)
  <2>0. worker[c][w].at = "end"
    BY <1>5 DEF LastRelease
  <2>1. PICK todo \in SUBSET Devices : todo = worker[c][w].todo
    BY WorkerFacts
  <2>2. todo \subseteq active[c]
    BY <1>t, <2>0, <2>1 DEF LineInv, WorkerAt
  <2>3. PICK d \in First(todo) : LetGo(d, resting[c]) \/ host' = host
    BY <1>5, <2>1 DEF LastRelease, NotReleased
  <2>4. d \in todo /\ d \in Devices
    BY FirstType
  <2> QED BY <2>2, <2>3, <2>4, <1>t, <1>g
<1> QED BY <1>1, <1>2, <1>3, <1>4, <1>5 DEF WorkerStep

\* A worker that lets go of the absolute mouse does not move the pointer.
THEOREM PointerStaysPut == Spec => ReleaseStaysPut
<1>1. ASSUME IInv, [Next]_vars, NEW c \in Clients,
             worker'[c]["mouse"] # worker[c]["mouse"]
      PROVE  host'["absolute"].at # Corner \/ host["absolute"].at = Corner
  <2>1. PICK k \in Clients, w \in Lines : WorkerStep(k, w)
    <3> SUFFICES ASSUME \A k \in Clients, w \in Lines : ~WorkerStep(k, w)
                 PROVE  worker' = worker
      BY <1>1
    <3>1. CASE \E k \in Clients : Receive(k) \/ Disconnect(k) \/ ReaderStep(k)
      BY <3>1 DEF Receive, Disconnect, ReaderStep, Send, QueueFull, Evict, FinishClose
    <3>2. CASE (\E d \in Devices : ReleaseByOthers(d)) \/ StartRebuild \/ EndRebuild
      BY <3>2 DEF ReleaseByOthers, StartRebuild, EndRebuild
    <3>3. CASE UNCHANGED vars
      BY <3>3 DEF vars
    <3> QED BY <1>1, <3>1, <3>2, <3>3 DEF Next
  <2>2. host'["absolute"].at # Corner \/ host'["absolute"].at = host["absolute"].at
    BY <1>1, <2>1, StaysPut
  <2> QED BY <2>2
<1>2. IInv /\ [Next]_vars =>
        [\A c \in Clients : worker'[c]["mouse"] # worker[c]["mouse"] =>
           host'["absolute"].at # Corner \/ host["absolute"].at = Corner]_vars
  BY <1>1
<1> QED BY <1>2, Invariance, PTL DEF Spec, ReleaseStaysPut
=============================================================================
