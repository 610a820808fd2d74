------------------------------ MODULE ChatGateway ------------------------------
(* The one gateway object of the web interface (web/src/lib/picoclaw-gateway.ts).
   It owns at most one socket; connect() gives every caller the promise of the
   attempt under way. A socket that the object has let go of keeps handlers that
   do nothing, so the promise of its attempt is never settled.
   connect() is never called with autoReconnect in the program: scheduleReconnect
   is out of reach. Session ids and the chat's messages are data. *)
EXTENDS FiniteSets

CONSTANT Tasks    \* the asynchronous functions that may await a connection

VARIABLES
  ws,          \* this.ws: "none", or the readyState of the socket
  promise,     \* what became of the promise a task awaits
  transport    \* the state listeners were told last

gateway == <<ws, promise, transport>>

Sockets == {"none", "connecting", "open", "closing"}
Promises == {"none", "pending", "lost", "ok", "failed"}
Transports == {"disconnected", "connecting", "connected", "error"}

GatewayTypeOK ==
  /\ ws \in Sockets
  /\ promise \in [Tasks -> Promises]
  /\ transport \in Transports

Waiting == {t \in Tasks : promise[t] = "pending"}
Settle(outcome) == [t \in Tasks |-> IF t \in Waiting THEN outcome ELSE promise[t]]

\* connect() for the tasks in W: an open socket resolves at once, an attempt
\* under way is shared, and anything else starts a new attempt.
Connect(W) ==
  IF ws \in {"open", "connecting"}
  THEN /\ promise' = [t \in Tasks |-> IF t \notin W THEN promise[t]
                                      ELSE IF ws = "open" THEN "ok" ELSE "pending"]
       /\ UNCHANGED <<ws, transport>>
  ELSE /\ ws' = "connecting"
       /\ transport' = "connecting"
       /\ promise' = [t \in Tasks |-> IF t \in W THEN "pending" ELSE promise[t]]

\* onopen
SocketOpens ==
  /\ ws = "connecting"
  /\ ws' = "open"
  /\ transport' = "connected"
  /\ promise' = Settle("ok")

\* The closing handshake has begun; onclose is still to come.
SocketCloses ==
  /\ ws = "open"
  /\ ws' = "closing"
  /\ UNCHANGED <<promise, transport>>

\* onclose with a code that is an error, or not.
SocketClosed(state) ==
  /\ ws # "none"
  /\ ws' = "none"
  /\ transport' = state
  /\ promise' = Settle("failed")

\* Mutant of Close: the listeners are not told.
CloseSilently ==
  /\ ws' = "none"
  /\ promise' = Settle("lost")
  /\ UNCHANGED transport

\* close(): the object lets go of the socket before onclose can come.
Close ==
  /\ ws' = "none"
  /\ transport' = "disconnected"
  /\ promise' = Settle("lost")

\* A task has taken note of the outcome it awaited.
Forget(t) == promise' = [promise EXCEPT ![t] = "none"] /\ UNCHANGED <<ws, transport>>

Hung(t) == promise[t] = "lost"
=============================================================================
