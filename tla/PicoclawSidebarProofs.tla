------------------------- MODULE PicoclawSidebarProofs -------------------------
(***************************************************************************)
(* Theorems about PicoclawSidebar, for any scenes, any number of attempts  *)
(* and any bounds on the user, the device and the net.                     *)
(***************************************************************************)
EXTENDS PicoclawSidebar, TLAPS

\* What a request can be answered with, and the function of a mutation.
Answers == Status \union {Nothing, Failed}
Replies == Status \union {Nothing, Refused, Failed}

Request == [for : SUBSET Tasks, force : BOOLEAN, keep : BOOLEAN, allow : BOOLEAN,
            shared : BOOLEAN, latest : BOOLEAN, current : BOOLEAN, got : Answers]

ShownType == shown \in Status \union {NoStatus}
RequestsType == requests \subseteq Request
MutationType == mutation \in Kinds \union {"none"}
JobType == job \in [connected : BOOLEAN, tries : Nat, reply : Replies,
                    next : {"none", "final", "end", "confirm", "connect"}, chained : BOOLEAN]
TaskType == task \in [Tasks -> [at : Places, got : Status \union {NoStatus, Nothing, Refused, Failed}]]
DeviceType == dev \in [ready : BOOLEAN, mode : Modes, moving : BOOLEAN]

Types ==
  /\ GatewayTypeOK /\ ShownType /\ RequestsType /\ MutationType /\ JobType /\ TaskType
  /\ fresh \in BOOLEAN /\ DeviceType

\* What can wait in a dialog is a mutation.
DialogType == dialog \in {"none", "grant", "uninstall"}

\* A poll commits nothing during a mutation, and only as long as no mutation has begun
\* since it was asked for; one that others may join is such a poll.
PollsAreModest ==
  \A r \in requests :
    /\ ~r.force => ~r.allow
    /\ r.shared => ~r.force /\ r.current
    /\ ~r.force /\ r.current => mutation = "none"

\* refreshRequestSeqRef: only one request is the latest.
OneLatest == \A r, q \in requests : r.latest /\ q.latest => r = q

\* The answer of a poll that may still commit is not older than what is shown.
PollsAreRecent ==
  \A r \in requests :
    shown.recent /\ ~r.force /\ r.latest /\ r.current /\ Known(r.got) => r.got.recent

\* What the device has replied to a mutation is taken for recent.
RepliesAreRecent == Known(job.reply) => job.reply.recent

\* The function of a mutation that has gone past its first await belongs to one.
JobRuns ==
  /\ job.next # "none" => mutation # "none"
  /\ task["mutation"].at = "pausing" => job.next = "confirm"

\* The inductive invariant.
IInv ==
  /\ Types /\ PollsAreModest /\ OneLatest /\ PollsAreRecent /\ RepliesAreRecent
  /\ JobRuns /\ ConnectedIsOpen /\ DialogType

-----------------------------------------------------------------------------
(* Statuses *)

LEMMA KnownIsStatus ==
  ASSUME NEW s \in Status \union {NoStatus, Nothing, Refused, Failed}, Known(s)
  PROVE  s \in Status
  BY DEF Known, Modes, NoStatus, Nothing, Refused, Failed

LEMMA NotKnown == ~Known(NoStatus) /\ ~Known(Nothing) /\ ~Known(Refused) /\ ~Known(Failed)
  BY DEF Known, Modes, NoStatus, Nothing, Refused, Failed

LEMMA PatchedType ==
  ASSUME NEW s \in Status \union {NoStatus}, NEW m, NEW b \in BOOLEAN, m \in Modes \/ m = s.mode
  PROVE  /\ Patched(s, m, b) \in Status \union {NoStatus}
         /\ Patched(s, m, b).recent = s.recent
  BY KnownIsStatus DEF Patched, Status, Known, NoStatus

LEMMA UnavailableType ==
  ASSUME NEW s \in Status \union {NoStatus}
  PROVE  /\ Unavailable(s) \in Status \union {NoStatus}
         /\ Unavailable(s).recent = s.recent
         /\ Unavailable(s).mode = s.mode
  <1>1. CASE s \in Status
    BY <1>1 DEF Unavailable, Status
  <1>2. CASE s = NoStatus
    <2>1. Unavailable(s) = s
      BY <1>2 DEF Unavailable, NoStatus
    <2> QED BY <1>2, <2>1
  <1> QED BY <1>1, <1>2

LEMMA StatusOfType ==
  ASSUME NEW d \in [ready : BOOLEAN, mode : Modes, moving : BOOLEAN]
  PROVE  StatusOf(d) \in Status /\ StatusOf(d).recent
  BY DEF StatusOf, Status

LEMMA DatedType ==
  /\ \A s \in Status : Dated(s) \in Status /\ ~Dated(s).recent
  /\ Dated(NoStatus) = NoStatus /\ Dated(Nothing) = Nothing /\ Dated(Failed) = Failed
  /\ ~NoStatus.recent
  <1> DEFINE Any == [ready : BOOLEAN, chat : BOOLEAN, mode : {"none", "unanswered", "failed"}, moving : BOOLEAN, recent : BOOLEAN]
  <1>1. \A s \in Status : Dated(s) \in Status /\ ~Dated(s).recent
    BY DEF Dated, Status
  <1>2. \A s \in Any : ~s.recent => Dated(s) = s
    BY DEF Dated
  <1>3. NoStatus \in Any /\ ~NoStatus.recent
    BY DEF NoStatus
  <1>4. Nothing \in Any /\ ~Nothing.recent
    BY <1>3 DEF Nothing
  <1>5. Failed \in Any /\ ~Failed.recent
    BY <1>3 DEF Failed
  <1> QED BY <1>1, <1>2, <1>3, <1>4, <1>5

-----------------------------------------------------------------------------
(* What a step does to the gateway *)

GatewayStep ==
  \/ UNCHANGED gateway
  \/ \E W \in SUBSET Tasks : Connect(W)
  \/ SocketOpens \/ SocketCloses
  \/ \E state \in {"disconnected", "error"} : SocketClosed(state)
  \/ Close
  \/ \E t \in Tasks : Forget(t)
  \/ UNCHANGED <<ws, promise>> /\ transport' \in {transport, "disconnected", "error"}

\* Settling promises leaves them promises.
LEMMA SettleType ==
  ASSUME GatewayTypeOK, NEW outcome \in Promises
  PROVE  Settle(outcome) \in [Tasks -> Promises]
  BY DEF Settle, GatewayTypeOK

\* The gateway keeps its type, and tells of a connection only while its socket is open.
LEMMA GatewayKept ==
  ASSUME GatewayTypeOK, ConnectedIsOpen, GatewayStep
  PROVE  GatewayTypeOK' /\ ConnectedIsOpen'
  <1> USE DEF GatewayTypeOK, ConnectedIsOpen, Sockets, Transports
  <1>1. CASE UNCHANGED gateway
    BY <1>1 DEF gateway
  <1>2. CASE \E W \in SUBSET Tasks : Connect(W)
    BY <1>2 DEF Connect, Promises
  <1>3. CASE SocketOpens
    BY <1>3, SettleType DEF SocketOpens, Promises
  <1>4. CASE SocketCloses
    BY <1>4 DEF SocketCloses
  <1>5. CASE \E state \in {"disconnected", "error"} : SocketClosed(state)
    BY <1>5, SettleType DEF SocketClosed, Promises
  <1>6. CASE Close
    BY <1>6, SettleType DEF Close, Promises
  <1>7. CASE \E t \in Tasks : Forget(t)
    BY <1>7 DEF Forget, Promises
  <1>8. CASE UNCHANGED <<ws, promise>> /\ transport' \in {transport, "disconnected", "error"}
    BY <1>8
  <1> QED BY <1>1, <1>2, <1>3, <1>4, <1>5, <1>6, <1>7, <1>8 DEF GatewayStep

-----------------------------------------------------------------------------
(* What a step does to the requests and the status shown *)

\* Nothing; or a mutation shows what its function has got.
Keeps ==
  /\ UNCHANGED <<requests, mutation, dev>>
  /\ mutation # "none" \/ shown'.recent = shown.recent

\* One more is asked for: it waits, and a poll is asked for only without a mutation.
Asked(r) ==
  /\ r \in Request /\ r.got = Nothing
  /\ ~r.force => ~r.allow /\ r.current /\ mutation = "none"
  /\ r.shared => ~r.force /\ r.current
Asks ==
  /\ \E r : Asked(r) /\ Ask(r)
  /\ UNCHANGED <<mutation, dev>>
  /\ shown.recent => shown'.recent

\* A mutation begins or ends.
Estranges ==
  /\ requests' = Estranged
  /\ UNCHANGED dev
  /\ mutation # "none" \/ (shown.recent => shown'.recent)

Changes == Changed /\ UNCHANGED mutation /\ dev' # dev

RequestStep ==
  \/ Keeps \/ Asks \/ Estranges \/ Changes
  \/ \E r \in requests : Serve(r) \/ Deliver(r)

\* The part of the invariant that is about requests.
RequestsInv == RequestsType /\ PollsAreModest /\ OneLatest /\ PollsAreRecent
\* The promise of PollsNeverGoBack, for one step.
GoesForward ==
  shown.recent /\ dev' = dev /\ (\E r \in requests \ requests' : ~r.force /\ Known(r.got))
    => shown'.recent

LEMMA ForcedIsAsked ==
  ASSUME NEW W \in SUBSET Tasks, NEW keep \in BOOLEAN, NEW allow \in BOOLEAN
  PROVE  Asked(Forced(W, keep, allow))
  BY DEF Asked, Forced, Request, Answers

LEMMA UnforcedIsAsked ==
  ASSUME NEW W \in SUBSET Tasks, mutation = "none"
  PROVE  Asked(Unforced(W))
  BY DEF Asked, Unforced, Forced, Request, Answers

\* Superseded, estranged and answered requests are requests, and the same but for that.
Outdated(r) == [r EXCEPT !.latest = FALSE]
Stranger(r) == [r EXCEPT !.current = FALSE, !.shared = FALSE]
Answered(r, a) == [r EXCEPT !.got = a]

LEMMA OutdatedType ==
  ASSUME NEW r \in Request
  PROVE  /\ Outdated(r) \in Request /\ ~Outdated(r).latest
         /\ Outdated(r).force = r.force /\ Outdated(r).allow = r.allow
         /\ Outdated(r).shared = r.shared /\ Outdated(r).current = r.current
         /\ Outdated(r).got = r.got
  BY DEF Request, Outdated

LEMMA StrangerType ==
  ASSUME NEW r \in Request
  PROVE  /\ Stranger(r) \in Request /\ ~Stranger(r).current /\ ~Stranger(r).shared
         /\ Stranger(r).force = r.force /\ Stranger(r).allow = r.allow
         /\ Stranger(r).latest = r.latest /\ Stranger(r).got = r.got
         /\ ~r.current /\ ~r.shared => Stranger(r) = r
  BY DEF Request, Stranger

LEMMA AnsweredType ==
  ASSUME NEW r \in Request, NEW a \in Answers
  PROVE  /\ Answered(r, a) \in Request /\ Answered(r, a).got = a
         /\ Answered(r, a).force = r.force /\ Answered(r, a).allow = r.allow
         /\ Answered(r, a).shared = r.shared /\ Answered(r, a).current = r.current
         /\ Answered(r, a).latest = r.latest
  BY DEF Request, Answered

LEMMA KeepsRequests ==
  ASSUME RequestsInv, Keeps
  PROVE  RequestsInv' /\ GoesForward
  BY DEF RequestsInv, Keeps, RequestsType, PollsAreModest, OneLatest, PollsAreRecent, GoesForward

LEMMA AsksRequests ==
  ASSUME RequestsInv, Asks
  PROVE  RequestsInv' /\ GoesForward
  <1> USE DEF RequestsInv, RequestsType
  <1>1. PICK r : Asked(r) /\ Ask(r)
    BY DEF Asks
  <1>2. requests' = {Outdated(s) : s \in requests} \union {r}
    BY <1>1 DEF Ask, Superseded, Outdated
  <1>3. \A q \in requests' : q = r \/ \E s \in requests : q = Outdated(s)
    BY <1>2
  <1>4. RequestsType'
    BY <1>1, <1>3, OutdatedType DEF Asked
  <1>5. PollsAreModest'
    BY <1>1, <1>3, OutdatedType DEF PollsAreModest, Asked, Asks
  <1>6. OneLatest' /\ PollsAreRecent'
    BY <1>1, <1>3, OutdatedType, NotKnown DEF OneLatest, PollsAreRecent, Asked
  <1>7. GoesForward
    BY DEF GoesForward, Asks
  <1> QED BY <1>4, <1>5, <1>6, <1>7

LEMMA EstrangesRequests ==
  ASSUME RequestsInv, Estranges
  PROVE  RequestsInv' /\ GoesForward
  <1> USE DEF RequestsInv, RequestsType
  <1>1. requests' = {Stranger(s) : s \in requests}
    BY DEF Estranges, Estranged, Stranger
  <1>2. \A q \in requests' : \E s \in requests : q = Stranger(s)
    BY <1>1
  <1>3. RequestsType' /\ PollsAreModest' /\ PollsAreRecent'
    BY <1>2, StrangerType DEF PollsAreModest, PollsAreRecent
  <1>4. OneLatest'
    BY <1>2, StrangerType DEF OneLatest
  <1>5. GoesForward
    <2>1. ASSUME NEW r \in requests \ requests', ~r.force, mutation # "none"
          PROVE  FALSE
      <3>1. ~r.current /\ ~r.shared
        BY <2>1 DEF PollsAreModest
      <3>2. Stranger(r) \in requests'
        BY <1>1
      <3> QED BY <2>1, <3>1, <3>2, StrangerType
    <2> QED BY <2>1 DEF GoesForward, Estranges
  <1> QED BY <1>3, <1>4, <1>5

LEMMA ChangesRequests ==
  ASSUME RequestsInv, Changes, ShownType
  PROVE  RequestsInv' /\ GoesForward
  <1> USE DEF RequestsInv, RequestsType
  <1>1. \A r \in requests : Dated(r.got) \in Answers
    BY DatedType DEF Answers, Request
  <1>2. \A q \in requests' : \E r \in requests : q = Answered(r, Dated(r.got))
    BY DEF Changes, Changed, Answered
  <1>3. ~shown'.recent
    BY DatedType DEF Changes, Changed, ShownType
  <1>4. RequestsType' /\ PollsAreModest' /\ PollsAreRecent'
    BY <1>1, <1>2, <1>3, AnsweredType DEF PollsAreModest, PollsAreRecent, Changes
  <1>5. OneLatest'
    BY <1>1, <1>2, AnsweredType DEF OneLatest
  <1>6. GoesForward
    BY DEF GoesForward, Changes
  <1> QED BY <1>4, <1>5, <1>6

LEMMA ServeRequests ==
  ASSUME RequestsInv, DeviceType, NEW r \in requests, Serve(r)
  PROVE  RequestsInv' /\ GoesForward
  <1> USE DEF RequestsInv, RequestsType
  <1>1. PICK a \in {Read, Failed} : requests' = (requests \ {r}) \union {Answered(r, a)}
    BY DEF Serve, Answered
  <1>2. a \in Answers /\ (Known(a) => a.recent)
    BY StatusOfType, NotKnown DEF Read, Answers, DeviceType
  <1> DEFINE s == Answered(r, a)
  <1>3. /\ s \in Request /\ s.got = a
        /\ s.force = r.force /\ s.allow = r.allow /\ s.shared = r.shared
        /\ s.current = r.current /\ s.latest = r.latest
    BY <1>2, AnsweredType
  <1>4. requests' = (requests \ {r}) \union {s} /\ UNCHANGED <<shown, mutation, dev>>
    BY <1>1 DEF Serve
  <1> HIDE DEF s
  <1>5. RequestsType' /\ PollsAreModest'
    BY <1>3, <1>4 DEF PollsAreModest
  <1>6. OneLatest'
    BY <1>3, <1>4 DEF OneLatest
  <1>7. PollsAreRecent'
    BY <1>2, <1>3, <1>4 DEF PollsAreRecent
  <1>8. GoesForward
    BY <1>4, NotKnown DEF GoesForward, Serve
  <1> QED BY <1>5, <1>6, <1>7, <1>8

LEMMA DeliverRequests ==
  ASSUME RequestsInv, ShownType, NEW r \in requests, Deliver(r)
  PROVE  RequestsInv' /\ GoesForward
  <1> USE DEF RequestsInv, RequestsType
  <1>1. requests' = requests \ {r} /\ UNCHANGED <<mutation, dev>>
    BY DEF Deliver
  <1>2. \/ shown'.recent = shown.recent
        \/ Known(r.got) /\ MayCommit(r) /\ shown' = r.got
    BY UnavailableType DEF Deliver, ShownType
  <1>3. RequestsType' /\ PollsAreModest' /\ OneLatest'
    BY <1>1 DEF PollsAreModest, OneLatest
  <1>4. PollsAreRecent'
    BY <1>1, <1>2 DEF PollsAreRecent, OneLatest, MayCommit
  <1>5. GoesForward
    BY <1>1, <1>2 DEF GoesForward, PollsAreRecent, MayCommit
  <1> QED BY <1>3, <1>4, <1>5

\* Whatever a step does, the answers of polls do not go back.
LEMMA RequestsKept ==
  ASSUME RequestsInv, ShownType, DeviceType, RequestStep
  PROVE  RequestsInv' /\ GoesForward
  BY KeepsRequests, AsksRequests, EstrangesRequests, ChangesRequests, ServeRequests,
     DeliverRequests DEF RequestStep

-----------------------------------------------------------------------------
(* The steps: what each does to the gateway, to the requests and to the rest *)

\* The part of the invariant that is about neither requests nor the gateway.
RestInv ==
  /\ ShownType /\ MutationType /\ JobType /\ TaskType /\ fresh \in BOOLEAN /\ DeviceType
  /\ RepliesAreRecent /\ JobRuns

Carries == GatewayStep /\ RequestStep /\ RestInv'

\* The tasks keep their type, and only a mutation's own function makes it pause.
TaskStep == TaskType' /\ (task'["mutation"].at = "pausing" => task["mutation"].at = "pausing")

LEMMA TasksAre == \A b \in Handlers \union {"mutation"} : b \in Tasks
  BY SidebarAssumption

LEMMA MoveType ==
  ASSUME TaskType, NEW t \in Tasks, NEW p \in Places \ {"pausing"}, Move(t, p)
  PROVE  TaskStep
  BY TasksAre DEF TaskType, TaskStep, Move

LEMMA SameTasks == ASSUME TaskType, UNCHANGED task PROVE TaskStep
  BY DEF TaskType, TaskStep

\* A step that leaves the status, the mutation and the device alone.
LEMMA RestFrame ==
  ASSUME RestInv, UNCHANGED <<shown, mutation, job, dev>>, TaskStep, fresh' \in BOOLEAN
  PROVE  RestInv'
  BY DEF RestInv, ShownType, MutationType, JobType, DeviceType, RepliesAreRecent, JobRuns, TaskStep

LEMMA KeepsFrame == ASSUME UNCHANGED <<shown, requests, mutation, dev>> PROVE RequestStep
  BY DEF RequestStep, Keeps

LEMMA AsksFrame ==
  ASSUME NEW W \in SUBSET Tasks, NEW keep \in BOOLEAN, NEW allow \in BOOLEAN,
         Ask(Forced(W, keep, allow)), UNCHANGED <<shown, mutation, dev>>
  PROVE  RequestStep
  BY ForcedIsAsked DEF RequestStep, Asks

\* What the handlers have in common.
LEMMA ConnectIfReadyStep ==
  ASSUME TaskType, NEW t \in Tasks, ConnectIfReady(t)
  PROVE  GatewayStep /\ TaskStep /\ UNCHANGED <<shown, requests, fresh>>
  <1>1. UNCHANGED <<shown, requests, fresh>>
    BY DEF ConnectIfReady
  <1>2. CASE Connect({t}) /\ Move(t, "connecting")
    BY <1>1, <1>2, MoveType DEF GatewayStep, Places
  <1>3. CASE Finish(t) /\ UNCHANGED gateway
    BY <1>1, <1>3, MoveType DEF GatewayStep, Places, Finish
  <1> QED BY <1>2, <1>3 DEF ConnectIfReady

LEMMA ForgetsStep ==
  ASSUME TaskType, NEW t \in Tasks, Forget(t), Finish(t)
  PROVE  GatewayStep /\ TaskStep
  BY MoveType DEF GatewayStep, Places, Finish

LEMMA AsksForItself ==
  ASSUME TaskType, NEW t \in Tasks, Ask(Forced({t}, TRUE, FALSE)), Move(t, "refreshing"),
         UNCHANGED <<shown, mutation, dev>>
  PROVE  RequestStep /\ TaskStep
  BY MoveType, AsksFrame DEF Places

LEMMA OpenSidebarStep ==
  ASSUME IInv, OpenSidebar
  PROVE  Carries
  <1> USE DEF IInv, Types
  <1>1. UNCHANGED <<mutation, job, dev>>
    BY DEF OpenSidebar
  <1>2. GatewayStep /\ TaskStep /\ UNCHANGED <<shown, requests, fresh>>
    BY ConnectIfReadyStep, ForgetsStep, TasksAre DEF OpenSidebar, Handlers
  <1> QED BY <1>1, <1>2, RestFrame, KeepsFrame DEF Carries, RestInv

LEMMA SendStep ==
  ASSUME IInv, Send
  PROVE  Carries
  <1> USE DEF IInv, Types
  <1> "send" \in Tasks
    BY TasksAre DEF Handlers
  <1>1. UNCHANGED <<mutation, job, dev>>
    BY DEF Send
  <1>2. CASE ConnectIfReady("send") /\ Silent
    BY <1>1, <1>2, ConnectIfReadyStep, RestFrame, KeepsFrame DEF Carries, RestInv
  <1>3. CASE /\ fresh' = (fresh /\ promise["send"] = "failed")
             /\ Forget("send") /\ Finish("send") /\ UNCHANGED <<shown, requests>>
    BY <1>1, <1>3, ForgetsStep, RestFrame, KeepsFrame DEF Carries, RestInv
  <1>4. CASE fresh' = (fresh /\ ws # "open") /\ UNCHANGED <<gateway, shown, requests, task>>
    BY <1>1, <1>4, SameTasks, RestFrame, KeepsFrame DEF Carries, RestInv, GatewayStep
  <1>5. CASE /\ Ask(Forced({"send"}, TRUE, FALSE)) /\ Move("send", "refreshing")
             /\ UNCHANGED <<gateway, shown, fresh>>
    BY <1>1, <1>5, AsksForItself, RestFrame DEF Carries, RestInv, GatewayStep
  <1> QED BY <1>2, <1>3, <1>4, <1>5 DEF Send

LEMMA ReconnectStep ==
  ASSUME IInv, Reconnect
  PROVE  Carries
  <1> USE DEF IInv, Types
  <1> "reconnect" \in Tasks
    BY TasksAre DEF Handlers
  <1>1. UNCHANGED <<mutation, job, dev>>
    BY DEF Reconnect
  <1>2. CASE ConnectIfReady("reconnect") /\ Silent
    BY <1>1, <1>2, ConnectIfReadyStep, RestFrame, KeepsFrame DEF Carries, RestInv
  <1>3. CASE Forget("reconnect") /\ Finish("reconnect") /\ UNCHANGED <<shown, requests, fresh>>
    BY <1>1, <1>3, ForgetsStep, RestFrame, KeepsFrame DEF Carries, RestInv
  <1>4. CASE /\ Ask(Forced({"reconnect"}, TRUE, FALSE)) /\ Move("reconnect", "refreshing")
             /\ UNCHANGED <<gateway, shown, fresh>>
    BY <1>1, <1>4, AsksForItself, RestFrame DEF Carries, RestInv, GatewayStep
  <1> QED BY <1>2, <1>3, <1>4 DEF Reconnect

LEMMA NewConversationStep ==
  ASSUME IInv, NewConversation
  PROVE  Carries
  <1> USE DEF IInv, Types
  <1> "new" \in Tasks
    BY TasksAre DEF Handlers
  <1>1. UNCHANGED <<mutation, job, dev>>
    BY DEF NewConversation
  <1>2. CASE ConnectIfReady("new") /\ Silent
    BY <1>1, <1>2, ConnectIfReadyStep, RestFrame, KeepsFrame DEF Carries, RestInv
  <1>3. CASE Forget("new") /\ Finish("new") /\ UNCHANGED <<shown, requests, fresh>>
    BY <1>1, <1>3, ForgetsStep, RestFrame, KeepsFrame DEF Carries, RestInv
  <1>4. CASE Close /\ Move("new", "closing") /\ fresh' = TRUE /\ UNCHANGED <<shown, requests>>
    BY <1>1, <1>4, MoveType, RestFrame, KeepsFrame DEF Carries, RestInv, GatewayStep, Places
  <1>5. CASE /\ Ask(Forced({"new"}, TRUE, FALSE)) /\ Move("new", "refreshing")
             /\ UNCHANGED <<gateway, shown, fresh>>
    BY <1>1, <1>5, AsksForItself, RestFrame DEF Carries, RestInv, GatewayStep
  <1> QED BY <1>2, <1>3, <1>4, <1>5 DEF NewConversation

LEMMA SelectSessionStep ==
  ASSUME IInv, SelectSession
  PROVE  Carries
  <1> USE DEF IInv, Types
  <1> "select" \in Tasks
    BY TasksAre DEF Handlers
  <1>1. UNCHANGED <<mutation, job, dev>>
    BY DEF SelectSession
  <1>2. CASE ConnectIfReady("select") /\ Silent
    BY <1>1, <1>2, ConnectIfReadyStep, RestFrame, KeepsFrame DEF Carries, RestInv
  <1>3. CASE Forget("select") /\ Finish("select") /\ UNCHANGED <<shown, requests, fresh>>
    BY <1>1, <1>3, ForgetsStep, RestFrame, KeepsFrame DEF Carries, RestInv
  <1>4. CASE Close /\ Move("select", "closing") /\ fresh' = FALSE /\ UNCHANGED <<shown, requests>>
    BY <1>1, <1>4, MoveType, RestFrame, KeepsFrame DEF Carries, RestInv, GatewayStep, Places
  <1>5. CASE \/ Move("select", "loading") /\ UNCHANGED <<gateway, fresh, shown, requests>>
             \/ Finish("select") /\ UNCHANGED <<gateway, fresh, shown, requests>>
    BY <1>1, <1>5, MoveType, RestFrame, KeepsFrame
       DEF Carries, RestInv, GatewayStep, Places, Finish
  <1>6. CASE /\ Ask(Forced({"select"}, TRUE, FALSE)) /\ Move("select", "refreshing")
             /\ UNCHANGED <<gateway, shown, fresh>>
    BY <1>1, <1>6, AsksForItself, RestFrame DEF Carries, RestInv, GatewayStep
  <1> QED BY <1>2, <1>3, <1>4, <1>5, <1>6 DEF SelectSession

\* A mutation begins: what is on the screen gets no older.
LEMMA BeginStep ==
  ASSUME IInv, NEW kind \in Kinds, NEW chained \in BOOLEAN, Begin(kind, chained),
         TaskStep, task'["mutation"].at = "requesting"
  PROVE  Carries
  <1> USE DEF IInv, Types
  <1>1. shown' \in Status \union {NoStatus} /\ shown'.recent = shown.recent
    BY PatchedType DEF Begin, ShownType, Modes
  <1>2. RequestStep
    BY <1>1 DEF RequestStep, Estranges, Begin
  <1>3. job' \in [connected : BOOLEAN, tries : Nat, reply : Replies,
                  next : {"none", "final", "end", "confirm", "connect"}, chained : BOOLEAN]
    BY DEF Begin, NoJob, Replies
  <1>4. job'.reply = Nothing /\ job'.next = "none"
    BY DEF Begin, NoJob
  <1>5. RestInv'
    BY <1>1, <1>3, <1>4, NotKnown
       DEF RestInv, ShownType, MutationType, JobType, TaskStep, DeviceType, RepliesAreRecent, JobRuns, Begin
  <1> QED BY <1>2, <1>5 DEF Carries, GatewayStep, Begin

\* A step of the gateway alone.
LEMMA GatewayAlone ==
  ASSUME IInv, GatewayStep, UNCHANGED <<sidebar, dev>>
  PROVE  Carries
  <1>1. UNCHANGED <<shown, requests, mutation, job, task, fresh, dev>>
    BY DEF sidebar
  <1> QED BY <1>1, SameTasks, RestFrame, KeepsFrame DEF IInv, Types, Carries, RestInv

LEMMA BeginRequestStep ==
  ASSUME IInv, NEW kind \in Kinds, Begin(kind, FALSE), Move("mutation", "requesting")
  PROVE  Carries
  <1>1. TaskStep /\ task'["mutation"].at = "requesting"
    BY MoveType, TasksAre DEF IInv, Types, Places, Move, TaskType
  <1> QED BY <1>1, BeginStep

LEMMA ButtonsStep ==
  ASSUME IInv, Buttons
  PROVE  Carries
  <1>1. ASSUME NEW kind \in Kinds, PressButton(kind)
        PROVE  Carries
    <2>1. CASE Begin(kind, FALSE) /\ Move("mutation", "requesting")
      BY <2>1, BeginRequestStep
    <2>2. CASE UNCHANGED <<gateway, sidebar, dev>>
      BY <2>2, GatewayAlone DEF GatewayStep
    <2> QED BY <1>1, <2>1, <2>2 DEF PressButton
  <1>2. ASSUME AnswerDialog
        PROVE  Carries
    <2>1. dialog \in Kinds
      BY <1>2 DEF AnswerDialog, IInv, DialogType, Kinds
    <2>2. CASE Begin(dialog, FALSE) /\ Move("mutation", "requesting")
      BY <2>1, <2>2, BeginRequestStep
    <2>3. CASE UNCHANGED <<gateway, sidebar, dev>>
      BY <2>3, GatewayAlone DEF GatewayStep
    <2> QED BY <1>2, <2>2, <2>3 DEF AnswerDialog
  <1> QED BY <1>1, <1>2 DEF Buttons

\* A handler takes note of something, and does no more.
LEMMA MoveStep ==
  ASSUME IInv, NEW t \in Tasks, NEW p \in Places \ {"pausing"}, Move(t, p),
         UNCHANGED <<gateway, shown, requests, mutation, job, fresh, dev>>
  PROVE  Carries
  BY MoveType, RestFrame, KeepsFrame DEF IInv, Types, Carries, RestInv, GatewayStep

LEMMA GrantForToggleStep ==
  ASSUME IInv, GrantForToggle
  PROVE  Carries
  <1> "toggle" \in Tasks /\ "mutation" \in Tasks
    BY TasksAre DEF Handlers
  <1>1. CASE /\ Begin("grant", TRUE)
             /\ task' = [task EXCEPT !["toggle"] = [at |-> "granting", got |-> Nothing],
                                     !["mutation"].at = "requesting"]
    <2>1. TaskStep /\ task'["mutation"].at = "requesting"
      BY <1>1 DEF IInv, Types, TaskType, TaskStep, Places
    <2> QED BY <1>1, <2>1, BeginStep DEF Kinds
  <1>2. CASE Finish("toggle") /\ UNCHANGED <<gateway, shown, requests, mutation, job, fresh, dev>>
    BY <1>2, MoveStep DEF Finish, Places
  <1> QED BY <1>1, <1>2 DEF GrantForToggle

LEMMA ToggleRuntimeStep ==
  ASSUME IInv, ToggleRuntime
  PROVE  Carries
  <1> "toggle" \in Tasks /\ "mutation" \in Tasks
    BY TasksAre DEF Handlers
  <1>1. CASE /\ Ask(Forced({"toggle"}, FALSE, FALSE))
             /\ task' = [task EXCEPT !["toggle"] = [at |-> "refreshing", got |-> shown]]
             /\ UNCHANGED <<gateway, shown, mutation, job, fresh, dev>>
    <2>1. TaskStep
      BY <1>1 DEF IInv, Types, TaskType, TaskStep, ShownType, Places
    <2> QED BY <1>1, <2>1, AsksFrame, RestFrame DEF IInv, Types, Carries, RestInv, GatewayStep
  <1>2. CASE GrantForToggle
    BY <1>2, GrantForToggleStep
  <1>3. CASE /\ Finish("toggle") \/ Move("toggle", "asking") \/ Move("toggle", "granted")
             /\ UNCHANGED <<gateway, shown, requests, mutation, job, fresh, dev>>
    BY <1>3, MoveStep DEF Finish, Places
  <1>4. CASE Begin("start", FALSE) /\ task' = [task EXCEPT !["toggle"] = Idle, !["mutation"].at = "requesting"]
    <2>1. TaskStep /\ task'["mutation"].at = "requesting"
      BY <1>4 DEF IInv, Types, TaskType, TaskStep, Places, Idle
    <2> QED BY <1>4, <2>1, BeginStep DEF Kinds
  <1> QED BY <1>1, <1>2, <1>3, <1>4 DEF ToggleRuntime

\* The function of a mutation asks for a refresh, having shown nothing older.
LEMMA AskForMutationStep ==
  ASSUME IInv, NEW keep \in BOOLEAN, NEW next \in {"end", "connect"}, AskForMutation(keep, next),
         mutation # "none", UNCHANGED <<mutation, fresh, dev>>, GatewayStep,
         shown' \in Status \union {NoStatus}, shown.recent => shown'.recent
  PROVE  Carries
  <1> USE DEF IInv, Types
  <1> "mutation" \in Tasks
    BY TasksAre
  <1>1. RequestStep
    BY ForcedIsAsked DEF RequestStep, Asks, AskForMutation
  <1>2. TaskStep /\ task'["mutation"].at = "refreshing"
    BY MoveType DEF AskForMutation, Places, Move, TaskType
  <1>3. JobType' /\ job'.reply = job.reply
    BY DEF AskForMutation, JobType
  <1>4. RestInv'
    BY <1>2, <1>3 DEF RestInv, ShownType, MutationType, TaskStep, DeviceType, RepliesAreRecent, JobRuns
  <1> QED BY <1>1, <1>4 DEF Carries

\* The mutation ends; it may show what its own refresh has found.
LEMMA EndStep ==
  ASSUME IInv, End, UNCHANGED <<fresh, dev>>, GatewayStep,
         shown' \in Status \union {NoStatus}, mutation # "none" \/ shown' = shown
  PROVE  Carries
  <1> USE DEF IInv, Types
  <1> "mutation" \in Tasks /\ "toggle" \in Tasks
    BY TasksAre DEF Handlers
  <1>1. RequestStep
    BY DEF RequestStep, Estranges, End
  <1>2. TaskStep /\ task'["mutation"].at = "idle"
    BY DEF TaskType, TaskStep, End, EndMutation, Idle, Places
  <1>3. JobType' /\ job'.reply = Nothing /\ job'.next = "none"
    BY DEF End, EndMutation, NoJob, JobType, Replies
  <1>4. RestInv'
    BY <1>2, <1>3, NotKnown
       DEF RestInv, ShownType, MutationType, TaskStep, DeviceType, RepliesAreRecent, JobRuns, End, EndMutation
  <1> QED BY <1>1, <1>4 DEF Carries

\* The function of a mutation connects, and may show what it has got.
LEMMA ConnectForMutationStep ==
  ASSUME IInv, NEW next \in {"final", "end"}, Connect({"mutation"}), Move("mutation", "connecting"),
         job' = [job EXCEPT !.next = next], mutation # "none",
         UNCHANGED <<requests, mutation, fresh, dev>>, shown' \in Status \union {NoStatus}
  PROVE  Carries
  <1> USE DEF IInv, Types
  <1> "mutation" \in Tasks
    BY TasksAre
  <1>1. RequestStep /\ GatewayStep
    BY DEF RequestStep, Keeps, GatewayStep
  <1>2. TaskStep /\ task'["mutation"].at = "connecting"
    BY MoveType DEF Places, Move, TaskType
  <1>3. JobType' /\ job'.reply = job.reply
    BY DEF JobType
  <1>4. RestInv'
    BY <1>2, <1>3 DEF RestInv, ShownType, MutationType, TaskStep, DeviceType, RepliesAreRecent, JobRuns
  <1> QED BY <1>1, <1>4 DEF Carries

LEMMA ApplyStep ==
  ASSUME IInv, NEW s \in Status, NEW next \in {"final", "end"}, Apply(s, next),
         mutation # "none", next = "final" => s.recent, UNCHANGED <<fresh, dev>>
  PROVE  Carries
  <1>1. shown' = s
    BY DEF Apply
  <1>2. CASE /\ IF mutation = "stop" THEN Close ELSE UNCHANGED gateway
             /\ IF next = "final" THEN AskForMutation(FALSE, "end") /\ UNCHANGED mutation ELSE End
    <2>1. GatewayStep
      BY <1>2 DEF GatewayStep
    <2> QED BY <1>1, <1>2, <2>1, AskForMutationStep, EndStep
  <1>3. CASE /\ Connect({"mutation"}) /\ Move("mutation", "connecting")
             /\ job' = [job EXCEPT !.next = next] /\ UNCHANGED <<requests, mutation>>
    BY <1>1, <1>3, ConnectForMutationStep
  <1> QED BY <1>2, <1>3 DEF Apply

LEMMA TryAgainStep ==
  ASSUME IInv, TryAgain, mutation # "none", UNCHANGED <<fresh, dev>>
  PROVE  Carries
  <1> USE DEF IInv, Types
  <1> "mutation" \in Tasks
    BY TasksAre
  <1>1. RequestStep /\ GatewayStep
    BY AsksFrame DEF TryAgain, GatewayStep
  <1>2. TaskStep /\ task'["mutation"].at = "refreshing"
    BY MoveType DEF TryAgain, Places, Move, TaskType
  <1>3. JobType' /\ job'.reply = job.reply
    <2>1. job' = [job EXCEPT !.tries = job.tries + 1, !.next = "confirm"]
      BY DEF TryAgain
    <2>2. job.tries + 1 \in Nat
      BY DEF JobType
    <2> QED BY <2>1, <2>2 DEF JobType
  <1>4. RestInv'
    BY <1>2, <1>3
       DEF RestInv, ShownType, MutationType, TaskStep, DeviceType, RepliesAreRecent, JobRuns, TryAgain
  <1> QED BY <1>1, <1>4 DEF Carries

\* What the device has replied, if it is a status.
LEMMA ReplyIsStatus ==
  ASSUME IInv, Known(job.reply)
  PROVE  job.reply \in Status /\ job.reply.recent
  BY KnownIsStatus DEF IInv, Types, JobType, Replies, RepliesAreRecent

\* The branches of Mutation once its request is answered.
LEMMA RepliedStep ==
  ASSUME IInv, UNCHANGED <<fresh, dev>>,
         \/ Toggled \/ ControlGranted \/ ControlReleased
         \/ ModelConfigSaved \/ RuntimeInstalled \/ RuntimeUninstalled \/ AgentProfileChanged
  PROVE  Carries
  <1>1. shown \in Status \union {NoStatus}
    BY DEF IInv, Types, ShownType
  <1>2. CASE Toggled
    <2>1. mutation # "none"
      BY <1>2 DEF Toggled
    <2>2. CASE Expected(job.reply, mutation)
      BY <1>2, <2>1, <2>2, ReplyIsStatus, ApplyStep DEF Toggled, Expected
    <2>3. CASE ~Expected(job.reply, mutation)
      BY <1>2, <2>1, <2>3, TryAgainStep DEF Toggled
    <2> QED BY <2>2, <2>3
  <1>3. CASE ControlGranted
    <2>1. GatewayStep
      BY <1>3 DEF ControlGranted, GatewayStep
    <2>2. (~Known(job.reply)) \in BOOLEAN
      BY DEF Known
    <2> QED BY <1>1, <1>3, <2>1, <2>2, AskForMutationStep DEF ControlGranted
  <1>4. CASE ControlReleased
    <2>1. GatewayStep
      BY <1>4 DEF ControlReleased, GatewayStep
    <2>2. shown' \in Status \union {NoStatus} /\ shown'.recent = shown.recent
      BY <1>1, <1>4, PatchedType DEF ControlReleased, Modes
    <2> QED BY <1>4, <2>1, <2>2, AskForMutationStep DEF ControlReleased
  <1>5. ASSUME NEW next \in {"end", "connect"}, Saved(next), mutation # "none"
        PROVE  Carries
    <2>1. GatewayStep
      BY <1>5 DEF Saved, GatewayStep
    <2>2. CASE Known(job.reply)
      BY <1>5, <2>1, <2>2, ReplyIsStatus, AskForMutationStep DEF Saved
    <2>3. CASE ~Known(job.reply)
      BY <1>1, <1>5, <2>1, <2>3, EndStep DEF Saved
    <2> QED BY <2>2, <2>3
  <1> QED BY <1>2, <1>3, <1>4, <1>5
          DEF ModelConfigSaved, RuntimeInstalled, RuntimeUninstalled, AgentProfileChanged

LEMMA ConfirmedStep ==
  ASSUME IInv, Confirmed, job.next = "confirm", UNCHANGED <<fresh, dev>>
  PROVE  Carries
  <1> "mutation" \in Tasks
    BY TasksAre
  <1>1. mutation # "none" /\ shown \in Status \union {NoStatus}
    BY DEF IInv, JobRuns, Types, ShownType
  <1>2. CASE Expected(task["mutation"].got, mutation) /\ Apply(task["mutation"].got, "end")
    <2>1. task["mutation"].got \in Status
      BY <1>2, KnownIsStatus DEF IInv, Types, TaskType, Expected
    <2> QED BY <1>1, <1>2, <2>1, ApplyStep
  <1>3. CASE Move("mutation", "pausing") /\ UNCHANGED <<gateway, shown, requests, mutation, job>>
    <2>1. TaskType'
      BY <1>3 DEF IInv, Types, TaskType, Move, Places
    <2>2. RestInv'
      BY <1>3, <2>1
         DEF IInv, Types, RestInv, ShownType, MutationType, JobType, DeviceType, RepliesAreRecent, JobRuns
    <2> QED BY <1>3, <2>2, KeepsFrame DEF Carries, GatewayStep
  <1>4. CASE End /\ UNCHANGED <<gateway, shown>>
    BY <1>1, <1>4, EndStep DEF GatewayStep
  <1>5. CASE /\ shown' = IF Known(job.reply) THEN job.reply ELSE shown
             /\ AskForMutation(FALSE, "end") /\ UNCHANGED <<gateway, mutation>>
    <2>1. shown' \in Status \union {NoStatus} /\ (shown.recent => shown'.recent)
      BY <1>1, <1>5, ReplyIsStatus
    <2> QED BY <1>1, <1>5, <2>1, AskForMutationStep DEF GatewayStep
  <1> QED BY <1>2, <1>3, <1>4, <1>5 DEF Confirmed

LEMMA MutationStep ==
  ASSUME IInv, Mutation
  PROVE  Carries
  <1> "mutation" \in Tasks
    BY TasksAre
  <1>1. UNCHANGED <<fresh, dev>> /\ shown \in Status \union {NoStatus}
    BY DEF Mutation, IInv, Types, ShownType
  <1>2. CASE \/ Toggled \/ ControlGranted \/ ControlReleased
             \/ ModelConfigSaved \/ RuntimeInstalled \/ RuntimeUninstalled \/ AgentProfileChanged
    BY <1>1, <1>2, RepliedStep
  <1>3. CASE job.next = "confirm" /\ Confirmed
    BY <1>1, <1>3, ConfirmedStep
  <1>4. CASE job.next = "end" /\ End /\ UNCHANGED <<gateway, shown>>
    BY <1>1, <1>4, EndStep DEF GatewayStep
  <1>5. CASE job.next = "connect" /\ ConnectNewAgent
    <2>1. mutation # "none"
      BY <1>5 DEF IInv, JobRuns
    <2>2. CASE job.reply.ready /\ ~job.connected
      BY <1>1, <1>5, <2>1, <2>2, ConnectForMutationStep DEF ConnectNewAgent
    <2>3. CASE ~(job.reply.ready /\ ~job.connected)
      BY <1>1, <1>5, <2>3, EndStep DEF ConnectNewAgent, GatewayStep
    <2> QED BY <2>2, <2>3
  <1>6. CASE /\ Forget("mutation")
             /\ IF job.next = "final" THEN AskForMutation(FALSE, "end") /\ UNCHANGED mutation ELSE End
             /\ UNCHANGED shown
    <2>1. GatewayStep
      BY <1>6 DEF GatewayStep
    <2>2. CASE job.next = "final"
      BY <1>1, <1>6, <2>1, <2>2, AskForMutationStep DEF IInv, JobRuns
    <2>3. CASE job.next # "final"
      BY <1>1, <1>6, <2>1, <2>3, EndStep
    <2> QED BY <2>2, <2>3
  <1>7. CASE task["mutation"].at = "pausing" /\ TryAgain
    BY <1>1, <1>7, TryAgainStep DEF IInv, JobRuns
  <1> QED BY <1>2, <1>3, <1>4, <1>5, <1>6, <1>7 DEF Mutation

LEMMA PollStep ==
  ASSUME IInv, Poll
  PROVE  Carries
  <1>1. UNCHANGED <<gateway, shown, mutation, job, task, fresh, dev>> /\ mutation = "none"
    BY DEF Poll, Refresh
  <1>2. UNCHANGED <<shown, mutation, dev>>
    BY <1>1
  <1>3. ASSUME Ask(Unforced({})) PROVE RequestStep
    <2>1. Asked(Unforced({}))
      BY <1>1, UnforcedIsAsked
    <2> QED BY <1>2, <1>3, <2>1 DEF RequestStep, Asks
  <1>4. ASSUME requests' = {IF r.shared THEN [r EXCEPT !.for = @ \union {}] ELSE r : r \in requests}
        PROVE  RequestStep
    <2>1. \A r \in Request : [r EXCEPT !.for = @ \union {}] = r
      BY DEF Request
    <2>2. requests' = requests
      BY <1>4, <2>1 DEF IInv, Types, RequestsType
    <2>3. UNCHANGED <<shown, requests, mutation, dev>>
      BY <1>2, <2>2
    <2> QED BY <2>3, KeepsFrame
  <1>5. RequestStep
    BY <1>3, <1>4 DEF Poll, Refresh
  <1> QED BY <1>1, <1>5, SameTasks, RestFrame DEF IInv, Types, Carries, RestInv, GatewayStep

LEMMA AutoConnectStep ==
  ASSUME IInv, AutoConnect
  PROVE  Carries
  <1>1. GatewayStep
    BY DEF AutoConnect, GatewayStep
  <1> QED BY <1>1, GatewayAlone DEF AutoConnect

\* The net, or a message over it, changes what is shown but not when it was read.
LEMMA MessageStep ==
  ASSUME IInv, GatewayStep, UNCHANGED <<requests, mutation, job, task, fresh, dev>>,
         shown' \in Status \union {NoStatus}, shown'.recent = shown.recent
  PROVE  Carries
  <1> USE DEF IInv, Types
  <1>1. RequestStep
    BY DEF RequestStep, Keeps
  <1>2. RestInv'
    BY DEF RestInv, ShownType, MutationType, JobType, TaskType, DeviceType, RepliesAreRecent, JobRuns
  <1> QED BY <1>1, <1>2 DEF Carries

\* An error is followed by a forced refresh that nobody awaits.
LEMMA ErrorStep ==
  ASSUME IInv, GatewayStep, Ask(Forced({}, TRUE, FALSE)),
         UNCHANGED <<shown, mutation, job, task, fresh, dev>>
  PROVE  Carries
  BY AsksFrame, SameTasks, RestFrame DEF IInv, Types, Carries, RestInv

LEMMA NetworkStep ==
  ASSUME IInv, Network
  PROVE  Carries
  <1>1. shown \in Status \union {NoStatus}
    BY DEF IInv, Types, ShownType
  <1>2. CASE Opened \/ Closing \/ ClosedNormally
    <2>1. GatewayStep /\ UNCHANGED <<sidebar, dev>>
      BY <1>2 DEF Opened, Closing, ClosedNormally, GatewayStep
    <2> QED BY <2>1, GatewayAlone
  <1>3. CASE GatewayFails
    BY <1>3, ErrorStep DEF GatewayFails, GatewayStep
  <1>4. CASE ErrorMessage
    BY <1>4, ErrorStep DEF ErrorMessage, GatewayStep
  <1>5. CASE ControlSwitched
    BY <1>1, <1>5, PatchedType, MessageStep DEF ControlSwitched, GatewayStep
  <1>6. CASE RuntimeStopped
    <2>1. GatewayStep
      BY <1>6 DEF RuntimeStopped, GatewayStep
    <2>2. CASE ~Known(shown)
      BY <1>1, <1>6, <2>1, <2>2, MessageStep DEF RuntimeStopped
    <2>3. CASE Known(shown)
      <3> DEFINE s == Unavailable(shown)
      <3>1. s \in Status /\ s.recent = shown.recent
        BY <1>1, <2>3, UnavailableType, KnownIsStatus DEF Known
      <3>2. shown' = [s EXCEPT !.moving = FALSE, !.mode = IF s.mode = "picoclaw" THEN "off" ELSE s.mode]
        BY <1>6, <2>3 DEF RuntimeStopped
      <3> HIDE DEF s
      <3>3. shown' \in Status /\ shown'.recent = shown.recent
        BY <3>1, <3>2 DEF Status, Modes
      <3> QED BY <1>6, <2>1, <3>3, MessageStep DEF RuntimeStopped
    <2> QED BY <2>2, <2>3
  <1>7. ASSUME NEW m \in Modes, NEW moving \in BOOLEAN, ModeChanged(m, moving)
        PROVE  Carries
    <2>1. GatewayStep
      BY <1>7 DEF ModeChanged, GatewayStep
    <2> QED BY <1>1, <1>7, <2>1, PatchedType, MessageStep DEF ModeChanged
  <1>8. dev.mode \in Modes
    BY DEF IInv, Types, DeviceType
  <1> QED BY <1>2, <1>3, <1>4, <1>5, <1>6, <1>7, <1>8 DEF Network

LEMMA ServeStep ==
  ASSUME IInv, NEW r \in requests, Serve(r)
  PROVE  Carries
  <1>1. UNCHANGED <<gateway, shown, mutation, job, task, fresh, dev>>
    BY DEF Serve
  <1> QED BY <1>1, SameTasks, RestFrame DEF IInv, Types, Carries, RestInv, GatewayStep, RequestStep

LEMMA DeliverStep ==
  ASSUME IInv, NEW r \in requests, Deliver(r)
  PROVE  Carries
  <1> USE DEF IInv, Types
  <1>1. r.got \in Answers /\ shown \in Status \union {NoStatus}
    BY DEF RequestsType, Request, ShownType
  <1>2. GatewayStep
    BY DEF Deliver, GatewayStep
  <1>3. shown' \in Status \union {NoStatus}
    BY <1>1, KnownIsStatus, UnavailableType DEF Deliver, Answers
  <1>4. TaskStep
    <2>1. \A t \in Tasks : task[t] \in [at : Places, got : Status \union {NoStatus, Nothing, Refused, Failed}]
      BY DEF TaskType
    <2>2. \A t \in Tasks : LET g == IF t = "toggle" /\ ~Known(r.got) THEN task[t].got ELSE r.got
                           IN  [at |-> "refreshed", got |-> g]
                                 \in [at : Places, got : Status \union {NoStatus, Nothing, Refused, Failed}]
      BY <1>1, <2>1 DEF Answers, Places
    <2>3. TaskType'
      BY <2>1, <2>2 DEF Deliver, TaskType
    <2>4. task'["mutation"].at = "pausing" => task["mutation"].at = "pausing"
      BY TasksAre DEF Deliver
    <2> QED BY <2>3, <2>4 DEF TaskStep
  <1>5. RestInv'
    BY <1>3, <1>4
       DEF RestInv, ShownType, MutationType, JobType, TaskStep, DeviceType, RepliesAreRecent, JobRuns, Deliver
  <1> QED BY <1>2, <1>5 DEF Carries, RequestStep

LEMMA DatedShown == ASSUME ShownType PROVE Dated(shown) \in Status \union {NoStatus}
  BY DatedType DEF ShownType

\* The device answers the request of the mutation.
LEMMA ExecuteStep ==
  ASSUME IInv, Execute
  PROVE  Carries
  <1> USE DEF IInv, Types
  <1> "mutation" \in Tasks
    BY TasksAre
  <1> DEFINE Devices == [ready : BOOLEAN, mode : Modes, moving : BOOLEAN]
  <1>1. \A d \in Effects(mutation) \union {dev} : d \in Devices
    BY DEF Effects, DeviceType, Modes
  <1>2. PICK d \in Effects(mutation) \union {dev}, answered \in BOOLEAN :
          /\ dev' = d
          /\ job' = [job EXCEPT !.reply = IF ~answered THEN Failed
                                          ELSE IF d \in Effects(mutation) THEN StatusOf(d) ELSE Refused]
          /\ IF d = dev THEN UNCHANGED <<shown, requests>> ELSE Changed
    BY DEF Execute
  <1> DEFINE answer == IF ~answered THEN Failed
                       ELSE IF d \in Effects(mutation) THEN StatusOf(d) ELSE Refused
  <1>3. answer \in Replies /\ (Known(answer) => answer.recent)
    BY <1>1, StatusOfType, NotKnown DEF Replies
  <1>4. job' = [job EXCEPT !.reply = answer]
    BY <1>2
  <1> HIDE DEF answer
  <1>5. UNCHANGED <<gateway, mutation, fresh>> /\ Move("mutation", "replied")
    BY DEF Execute
  <1>6. JobType' /\ job'.reply = answer /\ job'.next = job.next
    BY <1>3, <1>4 DEF JobType
  <1>7. TaskStep
    BY <1>5, MoveType DEF Places
  <1>8. CASE d = dev
    <2>1. UNCHANGED <<shown, requests, dev>>
      BY <1>2, <1>8
    <2>2. RestInv'
      BY <1>3, <1>5, <1>6, <1>7, <2>1
         DEF RestInv, ShownType, MutationType, TaskStep, DeviceType, RepliesAreRecent, JobRuns
    <2> QED BY <1>5, <2>1, <2>2, KeepsFrame DEF Carries, GatewayStep
  <1>9. CASE d # dev
    <2>1. Changed /\ dev' # dev /\ dev' \in Devices
      BY <1>1, <1>2, <1>9
    <2>2. RestInv'
      BY <1>3, <1>5, <1>6, <1>7, <2>1, DatedShown
         DEF RestInv, ShownType, MutationType, TaskStep, DeviceType, RepliesAreRecent, JobRuns, Changed
    <2> QED BY <1>5, <2>1, <2>2 DEF Carries, GatewayStep, RequestStep, Changes
  <1> QED BY <1>8, <1>9

LEMMA DeviceChangesStep ==
  ASSUME IInv, DeviceChanges
  PROVE  Carries
  <1> USE DEF IInv, Types
  <1>1. Changed /\ UNCHANGED <<gateway, mutation, job, task, fresh>>
    BY DEF DeviceChanges
  <1>2. DeviceType' /\ dev' # dev
    BY DEF DeviceChanges, DeviceType
  <1>3. RestInv'
    BY <1>1, <1>2, DatedShown
       DEF RestInv, ShownType, MutationType, JobType, TaskType, RepliesAreRecent, JobRuns, Changed
  <1> QED BY <1>1, <1>2, <1>3 DEF Carries, GatewayStep, RequestStep, Changes

LEMMA StutterStep ==
  ASSUME IInv, UNCHANGED vars
  PROVE  Carries
  <1>1. UNCHANGED <<sidebar, dev>> /\ GatewayStep
    BY DEF vars, GatewayStep
  <1> QED BY <1>1, GatewayAlone

\* A dialog opens for a mutation that asks first.
LEMMA DialogKept ==
  ASSUME IInv, [Next]_vars
  PROVE  DialogType'
  <1> USE DEF Silent, Event, Click, user
  <1>1. UNCHANGED dialog => DialogType'
    BY DEF IInv, DialogType
  <1>2. CASE Functions
    BY <1>1, <1>2 DEF Functions, OpenSidebar, Send, Reconnect, NewConversation, SelectSession,
       ToggleRuntime, Mutation
  <1>3. CASE Buttons
    BY <1>1, <1>3 DEF Buttons, PressButton, AsksFirst, AnswerDialog, DialogType
  <1>4. CASE Poll \/ AutoConnect \/ Network
    BY <1>1, <1>4 DEF Poll, AutoConnect, Network, Opened, Closing, ClosedNormally, GatewayFails,
       ControlSwitched, RuntimeStopped, ErrorMessage, ModeChanged
  <1>5. CASE Requests
    BY <1>1, <1>5 DEF Requests, Serve, Deliver
  <1>6. CASE Device
    BY <1>1, <1>6 DEF Device, Execute, DeviceChanges
  <1>7. CASE UNCHANGED vars
    BY <1>1, <1>7 DEF vars
  <1> QED BY <1>2, <1>3, <1>4, <1>5, <1>6, <1>7 DEF Next

\* Every step of the sidebar carries the invariant.
LEMMA EveryStep ==
  ASSUME IInv, [Next]_vars
  PROVE  Carries
  <1>1. CASE Functions
    BY <1>1, OpenSidebarStep, SendStep, ReconnectStep, NewConversationStep, SelectSessionStep,
       ToggleRuntimeStep, MutationStep DEF Functions
  <1>2. CASE Buttons
    BY <1>2, ButtonsStep
  <1>3. CASE Poll \/ AutoConnect \/ Network
    BY <1>3, PollStep, AutoConnectStep, NetworkStep
  <1>4. CASE Requests
    BY <1>4, ServeStep, DeliverStep DEF Requests
  <1>5. CASE Device
    BY <1>5, ExecuteStep, DeviceChangesStep DEF Device
  <1>6. CASE UNCHANGED vars
    BY <1>6, StutterStep
  <1> QED BY <1>1, <1>2, <1>3, <1>4, <1>5, <1>6 DEF Next

-----------------------------------------------------------------------------
(* The theorems *)

LEMMA InitIInv ==
  ASSUME Init
  PROVE  IInv
  <1> DEFINE Devices == [ready : BOOLEAN, mode : Modes, moving : BOOLEAN]
  <1>1. dev \in Devices
    BY DEF Init, Modes
  <1>2. Read \in Status
    BY <1>1, StatusOfType DEF Read
  <1>3. GatewayTypeOK /\ ConnectedIsOpen
    BY DEF Init, GatewayTypeOK, ConnectedIsOpen, Sockets, Transports, Promises
  <1>4. ShownType /\ MutationType /\ fresh \in BOOLEAN
    BY <1>2 DEF Init, ShownType, MutationType
  <1>5. "open" \in Tasks /\ "mutation" \in Tasks
    BY TasksAre DEF Handlers
  <1>6. requests = {} \/ requests = {Unforced({"open"})}
    BY DEF Init
  <1>7. mutation = "none"
    BY DEF Init
  <1>8. requests = {} \/ \E r : requests = {r} /\ Asked(r)
    BY <1>5, <1>6, <1>7, UnforcedIsAsked
  <1>9. RequestsType /\ PollsAreModest /\ OneLatest /\ PollsAreRecent
    BY <1>7, <1>8, NotKnown DEF Asked, RequestsType, PollsAreModest, OneLatest, PollsAreRecent
  <1>10. job = NoJob
    BY DEF Init
  <1>11. JobType /\ RepliesAreRecent /\ job.next = "none"
    BY <1>10, NotKnown DEF NoJob, JobType, Replies, RepliesAreRecent
  <1>12. TaskType /\ task["mutation"].at # "pausing"
    <2>1. Idle \in [at : Places, got : Status \union {NoStatus, Nothing, Refused, Failed}]
      BY DEF Idle, Places
    <2>2. \/ task = [t \in Tasks |-> Idle]
          \/ task = [[t \in Tasks |-> Idle] EXCEPT !["open"].at = "refreshing"]
      BY DEF Init
    <2>3. CASE task = [t \in Tasks |-> Idle]
      BY <1>5, <2>1, <2>3 DEF TaskType, Idle
    <2>4. CASE task = [[t \in Tasks |-> Idle] EXCEPT !["open"].at = "refreshing"]
      BY <1>5, <2>1, <2>4 DEF TaskType, Idle, Places
    <2> QED BY <2>2, <2>3, <2>4
  <1>13. DialogType
    BY DEF Init, DialogType
  <1> QED BY <1>1, <1>3, <1>4, <1>9, <1>11, <1>12, <1>13 DEF IInv, Types, DeviceType, JobRuns

LEMMA StepIInv ==
  ASSUME IInv, [Next]_vars
  PROVE  IInv' /\ GoesForward
  <1>1. Carries
    BY EveryStep
  <1>2. GatewayTypeOK' /\ ConnectedIsOpen'
    BY <1>1, GatewayKept DEF IInv, Types, Carries
  <1>3. RequestsInv' /\ GoesForward
    BY <1>1, RequestsKept DEF IInv, Types, RequestsInv, Carries
  <1>4. DialogType'
    BY DialogKept
  <1> QED BY <1>1, <1>2, <1>3, <1>4 DEF IInv, Types, RequestsInv, RestInv, Carries

THEOREM Invariance == Spec => []IInv
  BY InitIInv, StepIInv, PTL DEF Spec

\* TypeOK: every part of the sidebar and of its gateway keeps its type.
THEOREM TypeCorrect == Spec => []TypeOK
  <1>1. IInv => TypeOK
    BY DEF IInv, Types, TypeOK, DialogType, ShownType, RequestsType, MutationType, TaskType, Request, Answers
  <1> QED BY Invariance, <1>1, PTL

\* ConnectedIsOpen: whatever closed, failed or was replaced in between, listeners
\* that were told of a connection last have an open socket behind it
\* (picoclaw-gateway.ts).
THEOREM ConnectedMeansOpen == Spec => []ConnectedIsOpen
  <1>1. IInv => ConnectedIsOpen
    BY DEF IInv
  <1> QED BY Invariance, <1>1, PTL

\* PollsNeverGoBack: the answer of a poll never replaces a reading the device has
\* not outlived by an older one, however the answers overtake each other
\* (refreshState's numbers and epochs).
THEOREM PollsGoForward == Spec => PollsNeverGoBack
  <1>1. IInv /\ [Next]_vars => [GoesForward]_vars
    BY StepIInv
  <1> QED BY Invariance, <1>1, PTL DEF Spec, PollsNeverGoBack, GoesForward
=============================================================================
