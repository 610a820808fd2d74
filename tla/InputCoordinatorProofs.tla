------------------------ MODULE InputCoordinatorProofs ------------------------
(***************************************************************************)
(* Theorems about InputCoordinator, for any finite sets of tools, callers  *)
(* and leases, any sessions that the callers use and any reports.          *)
(***************************************************************************)
EXTENDS InputCoordinator, FiniteSetTheorems, TLAPS

\* The places of a caller that has a lease.
Holding == {"leased", "waiting", "ready", "abandon", "unlease"}

\* A lease is on the mode in force, whoever has it.
ArbiterBooks == \A a \in Leases \union Tools : lease[a] \in {"none", mode}

\* A tool has a lease from LeaseTool to UnleaseTool, an MCP tool one on mcp; the
\* tool that operates is the one that the coordinator has on its books.
ToolBooks ==
  \A t \in Tools :
    /\ tpc[t] # "idle" <=> lease[t] # "none"
    /\ t \notin Jigglers /\ tpc[t] \in {"leased", "operating"} => lease[t] = "mcp"
    /\ tpc[t] = "operating" <=> operation = t

\* A caller knows its report once it has asked, and its lease while it holds one.
CallBooks ==
  \A c \in Callers :
    /\ call[c].at # "idle" => call[c].report \in Reports
    /\ call[c].lease # Nobody <=> call[c].at \in Holding

\* A session is active exactly while it has a lease, and never once closed.
ActiveBooks ==
  \A s \in Sessions :
    /\ session[s].active <=> session[s].lease # Nobody
    /\ session[s].active => ~session[s].closed

\* No two of the callers, the sessions and the calls of finish have the same lease.
LeasesApart ==
  /\ \A c, d \in Callers : c # d /\ call[c].lease # Nobody => call[c].lease # call[d].lease
  /\ \A s, u \in Sessions : s # u /\ session[s].lease # Nobody => session[s].lease # session[u].lease
  /\ \A f, g \in finishing : f.lease = g.lease => f = g
  /\ \A c \in Callers, s \in Sessions : call[c].lease # Nobody => call[c].lease # session[s].lease
  /\ \A c \in Callers, f \in finishing : call[c].lease # f.lease
  /\ \A s \in Sessions, f \in finishing : session[s].lease # f.lease

\* A lease that is kept somewhere is out.
LeasesOut ==
  /\ \A c \in Callers : call[c].lease # Nobody => lease[call[c].lease] # "none"
  /\ \A s \in Sessions : session[s].lease # Nobody => lease[session[s].lease] # "none"
  /\ \A f \in finishing : f.at = "unlease" => lease[f.lease] # "none"

\* A caller that waits knows what for, and nothing else can have begun since;
\* with a session active or a caller past its wait nothing is under way at all.
Exclusion ==
  /\ \A c \in Callers : call[c].at = "waiting" =>
       call[c].awaits # Nobody /\ operation \in {Nobody, call[c].awaits}
  /\ \A c \in Callers : call[c].at = "ready" => operation = Nobody
  /\ \A s \in Sessions : session[s].active => operation = Nobody

Books ==
  /\ TypeOK /\ IsFiniteSet(finishing)
  /\ ArbiterBooks /\ ToolBooks /\ CallBooks /\ ActiveBooks /\ LeasesApart /\ LeasesOut

\* Why an active session is active, what it has in flight and what it holds.
FlightBooks ==
  /\ \A r \in Slots : slot[r] # Free => slot[r].generation <= session[slot[r].session].generation
  /\ SessionBooks

IInv == Books /\ ManualAccounting /\ Exclusion /\ WaitedForIsCanceled /\ FlightBooks

-----------------------------------------------------------------------------
(* Lemmas on the operators *)

\* A free slot is not a reservation.
LEMMA FreeType ==
  ASSUME TypeOK, NEW r \in Slots, slot[r] # Free
  PROVE  slot[r] \in Reservations
  BY DEF TypeOK

\* A report that is sent has the fields of one that is reserved.
LEMMA ReservedType ==
  ASSUME TypeOK, NEW s \in Sessions, NEW report \in Reports
  PROVE  /\ Reserved(s, report) \in Reservations
         /\ Reserved(s, report) # Free
         /\ Reserved(s, report).session = s
         /\ Reserved(s, report).generation = session[s].generation
  <1>1. IsReleaseReport(s, report) \in BOOLEAN
    BY DEF IsReleaseReport
  <1>2. Nobody # s
    BY BoundAssumption
  <1> QED BY <1>1, <1>2, ReportsAssumption DEF Reserved, Reservations, TypeOK, Free

\* Every step is one of these.
ToolsStep ==
  \/ \E t \in Tools : LeaseTool(t)
  \/ \E t \in Tools : BeginMCP(t)
  \/ \E t \in Tools : RefuseMCP(t)
  \/ \E t \in Tools : EndOperation(t)
  \/ \E t \in Tools : UnleaseTool(t)
  \/ CancelMCP
  \/ CooldownOver
  \/ \E m \in Modes : SwitchMode(m)

CallersStep ==
  \/ \E c \in Callers, report \in Reports : AskControl(c, report)
  \/ \E c \in Callers : LeaseManual(c)
  \/ \E c \in Callers : RefuseManual(c)
  \/ \E c \in Callers : BeginManual(c)
  \/ \E c \in Callers : OperationDone(c)
  \/ \E c \in Callers : PreemptTimeout(c)
  \/ \E c \in Callers : FindClosed(c)
  \/ \E c \in Callers : Abandon(c)
  \/ \E c \in Callers : UnleaseCaller(c)

LEMMA NextCases ==
  ASSUME [Next]_vars
  PROVE  \/ ToolsStep
         \/ CallersStep
         \/ \E c \in Callers, report \in Reports : ReserveActive(c, report)
         \/ \E c \in Callers : Activate(c)
         \/ \E c \in Callers : JoinActive(c)
         \/ \E r \in Slots, success \in BOOLEAN : Complete(r, success)
         \/ \E s \in Sessions, kind \in Kinds : Reset(s, kind)
         \/ \E s \in Sessions : Close(s)
         \/ \E f \in finishing : FinishUnlease(f)
         \/ \E f \in finishing : FinishEnd(f)
         \/ UNCHANGED vars
  BY DEF Next, ToolStep, CallStep, FinishStep, ToolsStep, CallersStep

-----------------------------------------------------------------------------
(* What the steps do to the records *)

CallRecord ==
  [at : CallPlaces, report : Reports \union {NoReport},
   lease : Leases \union {Nobody}, awaits : Tools \union {Nobody}]

SessionRecord ==
  [active : BOOLEAN, closed : BOOLEAN, generation : Nat, pending : Nat,
   held : SUBSET Kinds, cool : BOOLEAN, lease : Leases \union {Nobody}]

LEMMA IdleType == Idle \in CallRecord /\ Idle.at = "idle" /\ Idle.lease = Nobody
  BY DEF Idle, CallRecord, CallPlaces

\* One caller's record is replaced.
CallBecomes(c, k) ==
  /\ call' \in [Callers -> CallRecord]
  /\ call'[c] = k
  /\ \A d \in Callers \ {c} : call'[d] = call[d]

LEMMA CallSet ==
  ASSUME call \in [Callers -> CallRecord], NEW c \in Callers, NEW k \in CallRecord,
         call' = [call EXCEPT ![c] = k]
  PROVE  CallBecomes(c, k)
  BY DEF CallBecomes

\* A caller goes to a place, with the lease and the wait that are given.
CallGoes(c, place, l, awaits) ==
  /\ call' \in [Callers -> CallRecord]
  /\ call'[c].at = place /\ call'[c].lease = l /\ call'[c].awaits = awaits
  /\ call'[c].report = call[c].report
  /\ \A d \in Callers \ {c} : call'[d] = call[d]

LEMMA CallMoves ==
  ASSUME call \in [Callers -> CallRecord], NEW c \in Callers, NEW place \in CallPlaces,
         call' = [call EXCEPT ![c].at = place]
  PROVE  CallGoes(c, place, call[c].lease, call[c].awaits)
  BY DEF CallGoes, CallRecord

LEMMA CallMovesLease ==
  ASSUME call \in [Callers -> CallRecord], NEW c \in Callers, NEW place \in CallPlaces,
         NEW l \in Leases, call' = [call EXCEPT ![c].at = place, ![c].lease = l]
  PROVE  CallGoes(c, place, l, call[c].awaits)
  BY DEF CallGoes, CallRecord

LEMMA CallMovesAwaits ==
  ASSUME call \in [Callers -> CallRecord], NEW c \in Callers, NEW place \in CallPlaces,
         NEW t \in Tools \union {Nobody},
         call' = [call EXCEPT ![c].at = place, ![c].awaits = t]
  PROVE  CallGoes(c, place, call[c].lease, t)
  BY DEF CallGoes, CallRecord

\* One session's record is replaced.
SessionBecomes(s, fields) ==
  /\ session' \in [Sessions -> SessionRecord]
  /\ session'[s] = fields
  /\ \A u \in Sessions \ {s} : session'[u] = session[u]

LEMMA SessionSet ==
  ASSUME session \in [Sessions -> SessionRecord], NEW s \in Sessions, NEW fields \in SessionRecord,
         session' = [session EXCEPT ![s] = fields]
  PROVE  SessionBecomes(s, fields)
  BY DEF SessionBecomes

\* The fields of a session change, but not whose it is.
SameOwner(fields, old) ==
  /\ fields \in SessionRecord
  /\ fields.active = old.active /\ fields.closed = old.closed
  /\ fields.generation = old.generation /\ fields.lease = old.lease

LEMMA OneMorePending ==
  ASSUME session \in [Sessions -> SessionRecord], NEW s \in Sessions,
         session' = [session EXCEPT ![s].pending = @ + 1]
  PROVE  \E fields : /\ SameOwner(fields, session[s]) /\ SessionBecomes(s, fields)
                     /\ fields.pending = session[s].pending + 1
                     /\ fields.held = session[s].held
<1> DEFINE fields == [session[s] EXCEPT !.pending = @ + 1]
<1>1. /\ SameOwner(fields, session[s])
      /\ fields.pending = session[s].pending + 1 /\ fields.held = session[s].held
  BY DEF SameOwner, SessionRecord
<1>2. session' = [session EXCEPT ![s] = fields]
  BY DEF SessionRecord
<1> HIDE DEF fields
<1>3. SessionBecomes(s, fields)
  BY <1>1, <1>2, SessionSet DEF SameOwner
<1> QED BY <1>1, <1>3

LEMMA ActivatedType ==
  ASSUME NEW old \in SessionRecord, NEW l \in Leases
  PROVE  /\ Activated(old, l) \in SessionRecord
         /\ Activated(old, l).active /\ Activated(old, l).lease = l
         /\ Activated(old, l).closed = old.closed
         /\ Activated(old, l).generation = old.generation + 1
         /\ Activated(old, l).pending = 1 /\ Activated(old, l).held = old.held
<1>1. old.generation \in Nat /\ old.generation + 1 \in Nat
  BY DEF SessionRecord
<1>2. \A n \in Nat : [old EXCEPT !.active = TRUE, !.generation = n, !.pending = 1, !.lease = l]
                      \in SessionRecord
  BY DEF SessionRecord
<1> QED BY <1>1, <1>2 DEF Activated, SessionRecord

LEMMA HeldType ==
  ASSUME NEW held \in SUBSET Kinds, NEW r \in Reservations, NEW success \in BOOLEAN
  PROVE  /\ HeldAfter(held, r.report, success) \in SUBSET Kinds
         /\ \A d \in DownAfter(held, r.report, success) : d \in SUBSET Kinds
<1>1. r.report.kind \in Kinds /\ r.report.held \in BOOLEAN
  BY DEF Reservations
<1>2. CASE ~success
  BY <1>2 DEF HeldAfter, DownAfter
<1>3. CASE success /\ r.report.held
  BY <1>1, <1>3 DEF HeldAfter, DownAfter
<1>4. CASE success /\ ~r.report.held
  BY <1>1, <1>4 DEF HeldAfter, DownAfter
<1> QED BY <1>1, <1>2, <1>3, <1>4

\* A session that settles with these fields stays as it is, or ends.
SettlesTo(s, fields, cool) ==
  \/ ~IsIdle(fields) /\ SessionBecomes(s, fields) /\ UNCHANGED finishing
  \/ /\ IsIdle(fields)
     /\ \E ended \in SessionRecord :
          /\ SessionBecomes(s, ended)
          /\ ~ended.active /\ ended.lease = Nobody /\ ended.held = {}
          /\ ended.closed = fields.closed /\ ended.generation = fields.generation
     /\ finishing' = finishing \union {Finish(fields.lease, cool)}

LEMMA SettleEffect ==
  ASSUME session \in [Sessions -> SessionRecord], NEW s \in Sessions,
         NEW fields \in SessionRecord, NEW cool \in BOOLEAN, SettleWith(s, fields, cool)
  PROVE  SettlesTo(s, fields, cool)
<1>1. CASE IsIdle(fields)
  <2> DEFINE ended == [fields EXCEPT !.active = FALSE, !.cool = FALSE, !.lease = Nobody]
  <2>1. /\ ended \in SessionRecord
        /\ ~ended.active /\ ended.lease = Nobody /\ ended.held = fields.held
        /\ ended.closed = fields.closed /\ ended.generation = fields.generation
    BY DEF SessionRecord
  <2>2. fields.held = {}
    BY <1>1 DEF IsIdle
  <2>3. /\ session' = [session EXCEPT ![s] = ended]
        /\ finishing' = finishing \union {Finish(fields.lease, cool)}
    BY <1>1 DEF SettleWith
  <2> HIDE DEF ended
  <2>4. SessionBecomes(s, ended)
    BY <2>1, <2>3, SessionSet
  <2> QED BY <1>1, <2>1, <2>2, <2>3, <2>4 DEF SettlesTo
<1>2. CASE ~IsIdle(fields)
  BY <1>2, SessionSet DEF SettleWith, SettlesTo
<1> QED BY <1>1, <1>2

\* A reservation of the session's activation is counted out, another changes nothing.
CountsOut(s, generation) ==
  IF session[s].active /\ generation = session[s].generation
  THEN \E fields : \E cool \in BOOLEAN :
         /\ SameOwner(fields, session[s]) /\ SettlesTo(s, fields, cool)
         /\ fields.pending = IF session[s].pending > 0
                             THEN session[s].pending - 1 ELSE session[s].pending
  ELSE UNCHANGED <<session, finishing>>

\* Complete: the slot is free again.
LEMMA CompleteEffect ==
  ASSUME TypeOK, NEW r \in Slots, NEW success \in BOOLEAN, Complete(r, success)
  PROVE  /\ slot[r] \in Reservations /\ slot' = [slot EXCEPT ![r] = Free]
         /\ down' \in [Sessions -> SUBSET Kinds]
         /\ UNCHANGED <<mode, lease, foreign, operation, canceled, manualSessions, cooling,
                        tpc, call>>
         /\ CountsOut(slot[r].session, slot[r].generation)
<1> DEFINE s == slot[r].session
           report == slot[r].report
           cool == session[s].cool \/ report.cool
           fields == [session[s] EXCEPT !.pending = IF @ > 0 THEN @ - 1 ELSE @,
                                        !.held = HeldAfter(@, report, success),
                                        !.cool = cool]
<1>1. slot[r] # Free
  BY DEF Complete
<1>2. slot[r] \in Reservations
  BY <1>1, FreeType
<1>3. s \in Sessions /\ session \in [Sessions -> SessionRecord] /\ cool \in BOOLEAN
      /\ down \in [Sessions -> SUBSET Kinds]
  BY <1>2 DEF TypeOK, SessionRecord, Reservations
<1>4. /\ slot' = [slot EXCEPT ![r] = Free]
      /\ \E d \in DownAfter(down[s], report, success) : down' = [down EXCEPT ![s] = d]
      /\ UNCHANGED <<mode, lease, foreign, operation, canceled, manualSessions, cooling,
                     tpc, call>>
  BY DEF Complete, arbiter, coordinator
<1>5. down' \in [Sessions -> SUBSET Kinds]
  BY <1>2, <1>3, <1>4, HeldType
<1>6. CASE session[s].active /\ slot[r].generation = session[s].generation
  <2>1. SettleWith(s, fields, cool)
    BY <1>6 DEF Complete
  <2>2. PICK n \in Nat, h \in SUBSET Kinds :
          /\ n = (IF session[s].pending > 0 THEN session[s].pending - 1 ELSE session[s].pending)
          /\ h = HeldAfter(session[s].held, report, success)
    <3> DEFINE n == IF session[s].pending > 0 THEN session[s].pending - 1 ELSE session[s].pending
               h == HeldAfter(session[s].held, report, success)
    <3>1. session[s].pending \in Nat /\ session[s].held \in SUBSET Kinds
      BY <1>3 DEF SessionRecord
    <3>2. n \in Nat
      BY <3>1
    <3>3. h \in SUBSET Kinds
      BY <1>2, <3>1, HeldType, Zenon
    <3> HIDE DEF n, h
    <3>4. \E x \in Nat, y \in SUBSET Kinds : x = n /\ y = h
      BY <3>2, <3>3, Zenon
    <3> QED BY <3>4, Zenon DEF n, h
  <2>a. fields = [session[s] EXCEPT !.pending = n, !.held = h, !.cool = cool]
    BY <2>2, Zenon
  <2>3. SameOwner(fields, session[s]) /\ fields.pending = n
    <3> HIDE DEF s, report, cool, fields
    <3> QED BY <1>3, <2>a DEF SameOwner, SessionRecord
  <2> HIDE DEF s, fields, cool
  <2>4. SettlesTo(s, fields, cool)
    BY <1>3, <2>1, <2>3, SettleEffect DEF SameOwner
  <2>5. \E g : \E k \in BOOLEAN :
          /\ SameOwner(g, session[s]) /\ SettlesTo(s, g, k)
          /\ g.pending = IF session[s].pending > 0
                         THEN session[s].pending - 1 ELSE session[s].pending
    BY <1>3, <2>2, <2>3, <2>4, Zenon
  <2>6. CountsOut(s, slot[r].generation)
    BY <1>6, <2>5, Zenon DEF CountsOut
  <2> QED BY <1>2, <1>4, <1>5, <2>6 DEF s
<1>7. CASE ~(session[s].active /\ slot[r].generation = session[s].generation)
  <2>1. UNCHANGED <<session, finishing>>
    BY <1>7 DEF Complete
  <2>2. CountsOut(s, slot[r].generation)
    BY <1>7, <2>1, Zenon DEF CountsOut
  <2> QED BY <1>2, <1>4, <1>5, <2>2
<1> QED BY <1>6, <1>7

\* Reset: the session holds one kind less.
LEMMA ResetEffect ==
  ASSUME TypeOK, NEW s \in Sessions, NEW kind \in Kinds, Reset(s, kind)
  PROVE  /\ session[s].active
         /\ down' \in [Sessions -> SUBSET Kinds]
         /\ UNCHANGED <<mode, lease, foreign, operation, canceled, manualSessions, cooling,
                        slot, tpc, call>>
         /\ \E fields : /\ SameOwner(fields, session[s]) /\ SettlesTo(s, fields, TRUE)
                        /\ fields.pending = session[s].pending
<1> DEFINE fields == [session[s] EXCEPT !.held = @ \ {kind}]
<1>1. /\ session \in [Sessions -> SessionRecord]
      /\ down \in [Sessions -> SUBSET Kinds]
  BY DEF TypeOK, SessionRecord
<1>2. SameOwner(fields, session[s]) /\ fields.pending = session[s].pending
  BY <1>1 DEF SameOwner, SessionRecord
<1>3. SettleWith(s, fields, TRUE)
  BY DEF Reset
<1>4. /\ session[s].active /\ down' \in [Sessions -> SUBSET Kinds]
      /\ UNCHANGED <<mode, lease, foreign, operation, canceled, manualSessions, cooling,
                     slot, tpc, call>>
  BY <1>1 DEF Reset, arbiter, coordinator
<1> HIDE DEF fields
<1>5. SettlesTo(s, fields, TRUE)
  BY <1>1, <1>2, <1>3, SettleEffect DEF SameOwner
<1> QED BY <1>2, <1>4, <1>5

\* Close: the session is new but for its generation, and can only be closed once.
LEMMA CloseEffect ==
  ASSUME TypeOK, NEW s \in Sessions, Close(s)
  PROVE  /\ \E fields \in SessionRecord :
              /\ SessionBecomes(s, fields)
              /\ ~fields.active /\ fields.closed /\ fields.lease = Nobody /\ fields.held = {}
              /\ fields.generation = session[s].generation + 1
         /\ finishing' = IF session[s].active
                         THEN finishing \union {Finish(session[s].lease, TRUE)}
                         ELSE finishing
         /\ UNCHANGED <<mode, lease, foreign, operation, canceled, manualSessions, cooling,
                        slot, tpc, call, down>>
<1> DEFINE fields == [NewSession EXCEPT !.closed = TRUE, !.generation = session[s].generation + 1]
<1>1. session \in [Sessions -> SessionRecord]
  BY DEF TypeOK, SessionRecord
<1>2. /\ fields \in SessionRecord
      /\ ~fields.active /\ fields.closed /\ fields.lease = Nobody /\ fields.held = {}
      /\ fields.generation = session[s].generation + 1
  <2>1. session[s].generation \in Nat /\ session[s].generation + 1 \in Nat
    BY <1>1 DEF SessionRecord
  <2>2. \A n \in Nat : [NewSession EXCEPT !.closed = TRUE, !.generation = n] \in SessionRecord
    BY DEF NewSession, SessionRecord
  <2> QED BY <2>1, <2>2 DEF NewSession, SessionRecord
<1>3. session' = [session EXCEPT ![s] = fields]
  BY DEF Close
<1> HIDE DEF fields
<1>4. SessionBecomes(s, fields)
  BY <1>1, <1>2, <1>3, SessionSet
<1> QED BY <1>2, <1>4 DEF Close, CloseActive, arbiter, coordinator

\* Where each step of reserve takes the caller.
LEMMA CallersEffect ==
  ASSUME TypeOK, NEW c \in Callers
  PROVE  /\ \A report \in Reports : AskControl(c, report) =>
              /\ call[c].at = "idle"
              /\ \E k \in CallRecord : /\ CallBecomes(c, k)
                                       /\ k.at = "asked" /\ k.report = report /\ k.lease = Nobody
         /\ LeaseManual(c) =>
              /\ call[c].at = "asked"
              /\ \E l \in Leases \ {f.lease : f \in finishing} :
                   Gate!Grant(l) /\ CallGoes(c, "leased", l, call[c].awaits)
         /\ RefuseManual(c) =>
              \/ call[c].at = "asked" /\ CallBecomes(c, Idle)
              \/ call[c].at = "leased" /\ CallGoes(c, "unlease", call[c].lease, call[c].awaits)
         /\ BeginManual(c) =>
              /\ call[c].at = "leased"
              /\ CallGoes(c, IF operation = Nobody THEN "ready" ELSE "waiting",
                          call[c].lease, operation)
         /\ OperationDone(c) =>
              call[c].at = "waiting" /\ CallGoes(c, "ready", call[c].lease, Nobody)
         /\ PreemptTimeout(c) =>
              call[c].at = "waiting" /\ CallGoes(c, "abandon", call[c].lease, Nobody)
         /\ FindClosed(c) =>
              call[c].at = "ready" /\ CallGoes(c, "abandon", call[c].lease, Nobody)
         /\ JoinActive(c) =>
              call[c].at = "ready" /\ CallGoes(c, "abandon", call[c].lease, Nobody)
         /\ Abandon(c) =>
              call[c].at = "abandon" /\ CallGoes(c, "unlease", call[c].lease, call[c].awaits)
         /\ UnleaseCaller(c) => call[c].at = "unlease" /\ CallBecomes(c, Idle)
         /\ Activate(c) => call[c].at = "ready" /\ CallBecomes(c, Idle)
<1>t. call \in [Callers -> CallRecord]
  BY DEF TypeOK, CallRecord
<1>p. /\ {"ready", "waiting", "asked", "leased", "abandon", "unlease"} \subseteq CallPlaces
      /\ operation \in Tools \union {Nobody} /\ Nobody \in Tools \union {Nobody}
  BY DEF TypeOK, CallPlaces
<1>1. ASSUME NEW report \in Reports, AskControl(c, report)
      PROVE  /\ call[c].at = "idle"
             /\ \E k \in CallRecord : /\ CallBecomes(c, k)
                                      /\ k.at = "asked" /\ k.report = report /\ k.lease = Nobody
  <2> DEFINE k == [Idle EXCEPT !.at = "asked", !.report = report]
  <2>1. k \in CallRecord /\ k.at = "asked" /\ k.report = report /\ k.lease = Nobody
    BY <1>p DEF Idle, CallRecord
  <2>2. call[c].at = "idle" /\ call' = [call EXCEPT ![c] = k]
    BY <1>1 DEF AskControl, At
  <2> HIDE DEF k
  <2> QED BY <1>t, <2>1, <2>2, CallSet
<1>2. ASSUME LeaseManual(c)
      PROVE  /\ call[c].at = "asked"
             /\ \E l \in Leases \ {f.lease : f \in finishing} :
                  Gate!Grant(l) /\ CallGoes(c, "leased", l, call[c].awaits)
  <2>1. call[c].at = "asked"
    BY <1>2 DEF LeaseManual, At
  <2>2. PICK l \in Leases \ {f.lease : f \in finishing} :
          Gate!Grant(l) /\ call' = [call EXCEPT ![c].at = "leased", ![c].lease = l]
    BY <1>2, Zenon DEF LeaseManual
  <2>3. CallGoes(c, "leased", l, call[c].awaits)
    BY <1>t, <1>p, <2>2, CallMovesLease
  <2> QED BY <2>1, <2>2, <2>3
<1>3. ASSUME RefuseManual(c)
      PROVE  \/ call[c].at = "asked" /\ CallBecomes(c, Idle)
             \/ call[c].at = "leased" /\ CallGoes(c, "unlease", call[c].lease, call[c].awaits)
  BY <1>t, <1>p, <1>3, CallSet, CallMoves, IdleType DEF RefuseManual, At, Goto
<1>4. ASSUME BeginManual(c)
      PROVE  /\ call[c].at = "leased"
             /\ CallGoes(c, IF operation = Nobody THEN "ready" ELSE "waiting",
                         call[c].lease, operation)
  <2> DEFINE place == IF operation = Nobody THEN "ready" ELSE "waiting"
  <2>1. place \in CallPlaces
    BY <1>p
  <2>2. call[c].at = "leased" /\ call' = [call EXCEPT ![c].at = place, ![c].awaits = operation]
    BY <1>4 DEF BeginManual, At
  <2> HIDE DEF place
  <2>3. CallGoes(c, place, call[c].lease, operation)
    BY <1>t, <1>p, <2>1, <2>2, CallMovesAwaits
  <2> QED BY <2>2, <2>3 DEF place
<1>5. ASSUME OperationDone(c)
      PROVE  call[c].at = "waiting" /\ CallGoes(c, "ready", call[c].lease, Nobody)
  BY <1>t, <1>p, <1>5, CallMovesAwaits DEF OperationDone, At
<1>6. ASSUME PreemptTimeout(c)
      PROVE  call[c].at = "waiting" /\ CallGoes(c, "abandon", call[c].lease, Nobody)
  BY <1>t, <1>p, <1>6, CallMovesAwaits DEF PreemptTimeout, At
<1>7. ASSUME FindClosed(c) \/ JoinActive(c)
      PROVE  call[c].at = "ready" /\ CallGoes(c, "abandon", call[c].lease, Nobody)
  BY <1>t, <1>p, <1>7, CallMovesAwaits DEF FindClosed, JoinActive, At
<1>8. ASSUME Abandon(c)
      PROVE  call[c].at = "abandon" /\ CallGoes(c, "unlease", call[c].lease, call[c].awaits)
  BY <1>t, <1>p, <1>8, CallMoves DEF Abandon, At, Goto
<1>9. ASSUME UnleaseCaller(c) PROVE call[c].at = "unlease" /\ CallBecomes(c, Idle)
  BY <1>t, <1>9, CallSet, IdleType DEF UnleaseCaller, At
<1>10. ASSUME Activate(c) PROVE call[c].at = "ready" /\ CallBecomes(c, Idle)
  BY <1>t, <1>10, CallSet, IdleType DEF Activate, At
<1> QED BY <1>1, <1>2, <1>3, <1>4, <1>5, <1>6, <1>7, <1>8, <1>9, <1>10, Zenon

\* A free slot becomes a reservation on a generation of the session.
SlotTaken(s, generation) ==
  \E r \in Slots, x \in Reservations :
    /\ slot[r] = Free /\ slot' = [slot EXCEPT ![r] = x]
    /\ x # Free /\ x.session = s /\ x.generation = generation

\* A report joins an active session.
Joins(s) ==
  /\ session[s].active /\ ~session[s].closed
  /\ \E fields : /\ SameOwner(fields, session[s]) /\ SessionBecomes(s, fields)
                 /\ fields.pending = session[s].pending + 1
                 /\ fields.held = session[s].held
  /\ SlotTaken(s, session[s].generation)

LEMMA JoinsEffect ==
  ASSUME TypeOK, NEW s \in Sessions, NEW report \in Reports,
         session[s].active, ~session[s].closed,
         session' = [session EXCEPT ![s].pending = @ + 1],
         \E r \in Slots : slot[r] = Free /\ slot' = [slot EXCEPT ![r] = Reserved(s, report)]
  PROVE  Joins(s)
<1>1. session \in [Sessions -> SessionRecord]
  BY DEF TypeOK, SessionRecord
<1>2. \E fields : /\ SameOwner(fields, session[s]) /\ SessionBecomes(s, fields)
                  /\ fields.pending = session[s].pending + 1
                  /\ fields.held = session[s].held
  BY <1>1, OneMorePending
<1>3. SlotTaken(s, session[s].generation)
  BY ReservedType, Zenon DEF SlotTaken
<1> QED BY <1>2, <1>3 DEF Joins

\* A session takes the caller's lease over and begins a generation.
Activates(c, s) ==
  /\ ~session[s].active /\ ~session[s].closed
  /\ \E fields \in SessionRecord :
       /\ SessionBecomes(s, fields)
       /\ fields.active /\ ~fields.closed /\ fields.lease = call[c].lease
       /\ fields.generation = session[s].generation + 1
       /\ fields.pending = 1 /\ fields.held = session[s].held
  /\ SlotTaken(s, session[s].generation + 1)

LEMMA ActivateEffect ==
  ASSUME TypeOK, NEW c \in Callers, call[c].report \in Reports, call[c].lease \in Leases, Activate(c)
  PROVE  Activates(c, SessionOf[c])
<1> DEFINE s == SessionOf[c]
           old == session[s]
           x == [session |-> s, generation |-> old.generation + 1, report |-> call[c].report]
<1>1. /\ s \in Sessions /\ session \in [Sessions -> SessionRecord]
      /\ old \in SessionRecord /\ old.generation + 1 \in Nat
  BY CallersAssumption DEF TypeOK, SessionRecord
<1>2. /\ ~old.active /\ ~old.closed
      /\ session' = [session EXCEPT ![s] = Activated(old, call[c].lease)]
      /\ \E r \in Slots : slot[r] = Free /\ slot' = [slot EXCEPT ![r] = x]
  BY <1>1 DEF Activate
<1>3. SessionBecomes(s, Activated(old, call[c].lease))
  BY <1>1, <1>2, ActivatedType, SessionSet
<1>4. x \in Reservations /\ x # Free /\ x.session = s /\ x.generation = old.generation + 1
  BY <1>1, ReportsAssumption, BoundAssumption DEF Reservations, Free
<1>5. SlotTaken(s, old.generation + 1)
  <2> HIDE DEF x, old, s
  <2> QED BY <1>2, <1>4, Zenon DEF SlotTaken
<1>6. \E fields \in SessionRecord :
        /\ SessionBecomes(s, fields)
        /\ fields.active /\ ~fields.closed /\ fields.lease = call[c].lease
        /\ fields.generation = old.generation + 1
        /\ fields.pending = 1 /\ fields.held = old.held
  <2> HIDE DEF x, old, s
  <2>1. /\ Activated(old, call[c].lease) \in SessionRecord
        /\ Activated(old, call[c].lease).active
        /\ Activated(old, call[c].lease).lease = call[c].lease
        /\ Activated(old, call[c].lease).closed = old.closed
        /\ Activated(old, call[c].lease).generation = old.generation + 1
        /\ Activated(old, call[c].lease).pending = 1
        /\ Activated(old, call[c].lease).held = old.held
    BY <1>1, ActivatedType
  <2> QED BY <1>2, <1>3, <2>1, Zenon
<1> QED BY <1>2, <1>5, <1>6, Zenon DEF Activates

\* What the callers that join or activate a session do to it.
LEMMA SessionsEffect ==
  ASSUME TypeOK, CallBooks, NEW c \in Callers
  PROVE  /\ SessionOf[c] \in Sessions
         /\ \A report \in Reports : ReserveActive(c, report) => Joins(SessionOf[c])
         /\ JoinActive(c) => Joins(SessionOf[c])
         /\ Activate(c) => Activates(c, SessionOf[c])
<1>1. SessionOf[c] \in Sessions
  BY CallersAssumption
<1>2. ASSUME NEW report \in Reports, ReserveActive(c, report) PROVE Joins(SessionOf[c])
  BY <1>1, <1>2, JoinsEffect DEF ReserveActive
<1>3. ASSUME JoinActive(c) PROVE Joins(SessionOf[c])
  <2>1. call[c].at = "ready"
    BY <1>3 DEF JoinActive, At
  <2>2. call[c].report \in Reports
    BY <2>1 DEF CallBooks
  <2> QED BY <1>1, <1>3, <2>2, JoinsEffect DEF JoinActive
<1>4. ASSUME Activate(c) PROVE Activates(c, SessionOf[c])
  <2>1. call[c].at = "ready"
    BY <1>4 DEF Activate, At
  <2>2. call[c].report \in Reports /\ call[c].lease \in Leases
    BY <2>1 DEF CallBooks, TypeOK, Holding
  <2> QED BY <1>4, <2>2, ActivateEffect
<1> QED BY <1>1, <1>2, <1>3, <1>4

-----------------------------------------------------------------------------
(* Type correctness *)

Typed == TypeOK /\ IsFiniteSet(finishing)

Finishes == [lease : Leases, cool : BOOLEAN, at : {"unlease", "end"}]

LEMMA InitType == Init => Typed
<1> SUFFICES ASSUME Init PROVE Typed
  OBVIOUS
<1>1. NewSession \in SessionRecord
  BY DEF NewSession, SessionRecord
<1>2. session \in [Sessions -> SessionRecord] /\ call \in [Callers -> CallRecord]
      /\ slot \in [Slots -> Reservations \union {Free}] /\ tpc \in [Tools -> {"idle"}]
      /\ down \in [Sessions -> SUBSET Kinds]
  BY <1>1, IdleType DEF Init
<1>3. mode \in Modes /\ lease \in [Leases \union Tools -> Modes \union {"none"}] /\ foreign = FALSE
  BY DEF Init, Gate!Init, Gate!NoLeases
<1>4. /\ operation = Nobody /\ canceled = FALSE /\ manualSessions = 0 /\ cooling = FALSE
      /\ finishing = {} /\ IsFiniteSet(finishing)
  BY FS_EmptySet DEF Init
<1> QED BY <1>2, <1>3, <1>4 DEF Typed, TypeOK, SessionRecord, CallRecord

LEMMA ToolsType == ASSUME Typed, ToolsStep PROVE Typed'
<1> USE DEF Typed, TypeOK, arbiter, coordinator
<1>1. CASE \E t \in Tools : LeaseTool(t)
  BY <1>1 DEF LeaseTool, Gate!Grant, Gate!TakesEdit
<1>2. CASE \E t \in Tools : BeginMCP(t)
  BY <1>2 DEF BeginMCP
<1>3. CASE \E t \in Tools : RefuseMCP(t)
  BY <1>3 DEF RefuseMCP
<1>4. CASE \E t \in Tools : EndOperation(t)
  BY <1>4 DEF EndOperation
<1>5. CASE \E t \in Tools : UnleaseTool(t)
  BY <1>5 DEF UnleaseTool, Gate!Return
<1>6. CASE CancelMCP
  BY <1>6 DEF CancelMCP, CancelOperation
<1>7. CASE CooldownOver
  BY <1>7 DEF CooldownOver
<1>8. CASE \E m \in Modes : SwitchMode(m)
  BY <1>8 DEF SwitchMode, Gate!Change
<1> QED BY <1>1, <1>2, <1>3, <1>4, <1>5, <1>6, <1>7, <1>8 DEF ToolsStep

LEMMA CallersType == ASSUME Typed, CallersStep PROVE Typed'
<1> USE DEF Typed, TypeOK, CallRecord, arbiter, coordinator
<1> PICK c \in Callers :
      \/ \E report \in Reports : AskControl(c, report)
      \/ LeaseManual(c) \/ RefuseManual(c) \/ BeginManual(c) \/ OperationDone(c)
      \/ PreemptTimeout(c) \/ FindClosed(c) \/ Abandon(c) \/ UnleaseCaller(c)
  BY DEF CallersStep
<1>c. call' \in [Callers -> CallRecord]
  BY CallersEffect DEF CallBecomes, CallGoes
<1>s. UNCHANGED <<session, slot, tpc, finishing, down>>
  BY DEF AskControl, LeaseManual, RefuseManual, BeginManual, OperationDone, PreemptTimeout,
         FindClosed, Abandon, UnleaseCaller
<1>1. CASE UNCHANGED <<arbiter, coordinator>>
  BY <1>c, <1>s, <1>1
<1>2. CASE LeaseManual(c)
  <2>1. PICK l \in Leases : Gate!Grant(l)
    BY <1>2, Zenon DEF LeaseManual
  <2>2. UNCHANGED coordinator
    BY <1>2 DEF LeaseManual
  <2> QED BY <1>c, <1>s, <2>1, <2>2 DEF Gate!Grant, Gate!TakesEdit
<1>3. CASE BeginManual(c)
  BY <1>c, <1>s, <1>3 DEF BeginManual, CancelOperation
<1>4. CASE Abandon(c)
  BY <1>c, <1>s, <1>4 DEF Abandon, EndManual
<1>5. CASE UnleaseCaller(c)
  BY <1>c, <1>s, <1>5 DEF UnleaseCaller, Gate!Return
<1> QED BY <1>1, <1>2, <1>3, <1>4, <1>5
        DEF AskControl, RefuseManual, OperationDone, PreemptTimeout, FindClosed

\* A call of finish for a lease of a session.
LEMMA FinishType ==
  ASSUME Typed, ActiveBooks, NEW s \in Sessions, session[s].active, NEW cool \in BOOLEAN
  PROVE  /\ session[s].lease \in Leases
         /\ Finish(session[s].lease, cool) \in Finishes
         /\ finishing \union {Finish(session[s].lease, cool)} \subseteq Finishes
         /\ IsFiniteSet(finishing \union {Finish(session[s].lease, cool)})
<1>1. session[s].lease \in Leases
  BY DEF Typed, TypeOK, ActiveBooks
<1>2. Finish(session[s].lease, cool) \in Finishes
  BY <1>1 DEF Finish, Finishes
<1>3. finishing \subseteq Finishes
  BY DEF Typed, TypeOK, Finishes
<1> QED BY <1>1, <1>2, <1>3, FS_AddElement DEF Typed

\* What a session that settles leaves of the types.
LEMMA SettlesType ==
  ASSUME Typed, ActiveBooks, NEW s \in Sessions, session[s].active, NEW fields,
         SameOwner(fields, session[s]), NEW cool \in BOOLEAN, SettlesTo(s, fields, cool)
  PROVE  /\ session' \in [Sessions -> SessionRecord]
         /\ finishing' \subseteq Finishes /\ IsFiniteSet(finishing')
<1>1. fields.lease = session[s].lease
  BY DEF SameOwner
<1>2. finishing \subseteq Finishes /\ IsFiniteSet(finishing)
  BY DEF Typed, TypeOK, Finishes
<1> QED BY <1>1, <1>2, FinishType DEF SettlesTo, SessionBecomes

LEMMA StepType == ASSUME Typed, CallBooks, ActiveBooks, [Next]_vars PROVE Typed'
<1> USE DEF Typed, TypeOK, arbiter, coordinator
<1>r. /\ session \in [Sessions -> SessionRecord] /\ call \in [Callers -> CallRecord]
      /\ finishing \subseteq Finishes
  BY DEF SessionRecord, CallRecord, Finishes
<1>i. ASSUME /\ session' \in [Sessions -> SessionRecord] /\ call' \in [Callers -> CallRecord]
             /\ finishing' \subseteq Finishes /\ IsFiniteSet(finishing')
             /\ slot' \in [Slots -> Reservations \union {Free}]
             /\ tpc' = tpc /\ down' \in [Sessions -> SUBSET Kinds]
             /\ UNCHANGED <<mode, foreign, operation, canceled>>
             /\ manualSessions' \in Nat /\ cooling' \in BOOLEAN
             /\ lease' \in [Leases \union Tools -> Modes \union {"none"}]
      PROVE  Typed'
  BY <1>i DEF SessionRecord, CallRecord, Finishes
<1>1. CASE ToolsStep
  BY <1>1, ToolsType
<1>2. CASE CallersStep
  BY <1>2, CallersType
<1>3. ASSUME NEW c \in Callers, NEW report \in Reports, ReserveActive(c, report) PROVE Typed'
  <2>1. Joins(SessionOf[c])
    BY <1>3, SessionsEffect
  <2> QED BY <1>3, <1>r, <1>i, <2>1
          DEF ReserveActive, Joins, SlotTaken, SessionBecomes, arbiter, coordinator
<1>4. ASSUME NEW c \in Callers, Activate(c) PROVE Typed'
  <2>1. Activates(c, SessionOf[c]) /\ CallBecomes(c, Idle)
    BY <1>4, SessionsEffect, CallersEffect
  <2>2. UNCHANGED <<arbiter, coordinator, tpc, finishing, down>>
    BY <1>4 DEF Activate
  <2>3. session' \in [Sessions -> SessionRecord] /\ slot' \in [Slots -> Reservations \union {Free}]
    BY <1>r, <2>1 DEF Activates, SlotTaken, SessionBecomes
  <2>4. call' \in [Callers -> CallRecord]
    BY <2>1 DEF CallBecomes
  <2> QED BY <1>r, <1>i, <2>2, <2>3, <2>4
<1>5. ASSUME NEW c \in Callers, JoinActive(c) PROVE Typed'
  <2>1. Joins(SessionOf[c]) /\ call' \in [Callers -> CallRecord]
    BY <1>5, SessionsEffect, CallersEffect DEF CallGoes
  <2>2. UNCHANGED <<arbiter, coordinator, tpc, finishing, down>>
    BY <1>5 DEF JoinActive
  <2>3. session' \in [Sessions -> SessionRecord] /\ slot' \in [Slots -> Reservations \union {Free}]
    BY <1>r, <2>1 DEF Joins, SlotTaken, SessionBecomes
  <2> QED BY <1>r, <1>i, <2>1, <2>2, <2>3
<1>6. ASSUME NEW r \in Slots, NEW success \in BOOLEAN, Complete(r, success) PROVE Typed'
  <2> DEFINE s == slot[r].session
  <2>1. /\ slot[r] \in Reservations /\ slot' = [slot EXCEPT ![r] = Free]
        /\ down' \in [Sessions -> SUBSET Kinds]
        /\ UNCHANGED <<mode, lease, foreign, operation, canceled, manualSessions, cooling,
                       tpc, call>>
        /\ CountsOut(s, slot[r].generation)
    BY <1>6, CompleteEffect
  <2>2. s \in Sessions
    BY <2>1 DEF Reservations
  <2>3. /\ session' \in [Sessions -> SessionRecord]
        /\ finishing' \subseteq Finishes /\ IsFiniteSet(finishing')
    <3> HIDE DEF s, Typed, TypeOK
    <3>1. CASE UNCHANGED <<session, finishing>>
      BY <1>r, <3>1 DEF Typed
    <3>2. CASE ~UNCHANGED <<session, finishing>>
      BY <2>1, <2>2, <3>2, SettlesType DEF CountsOut
    <3> QED BY <3>1, <3>2
  <2> QED BY <1>r, <1>i, <2>1, <2>3
<1>7. ASSUME NEW s \in Sessions, NEW kind \in Kinds, Reset(s, kind) PROVE Typed'
  <2>1. /\ session[s].active /\ down' \in [Sessions -> SUBSET Kinds]
        /\ UNCHANGED <<mode, lease, foreign, operation, canceled, manualSessions, cooling,
                       slot, tpc, call>>
        /\ \E fields : SameOwner(fields, session[s]) /\ SettlesTo(s, fields, TRUE)
    BY <1>7, ResetEffect
  <2>2. /\ session' \in [Sessions -> SessionRecord]
        /\ finishing' \subseteq Finishes /\ IsFiniteSet(finishing')
    BY <2>1, SettlesType
  <2> QED BY <1>r, <1>i, <2>1, <2>2
<1>8. ASSUME NEW s \in Sessions, Close(s) PROVE Typed'
  <2>1. finishing' \subseteq Finishes /\ IsFiniteSet(finishing')
    <3>1. finishing' = IF session[s].active
                       THEN finishing \union {Finish(session[s].lease, TRUE)}
                       ELSE finishing
      BY <1>8, CloseEffect
    <3>2. CASE session[s].active
      <4> HIDE DEF Typed, TypeOK
      <4> QED BY <3>1, <3>2, FinishType
    <3>3. CASE ~session[s].active
      BY <1>r, <3>1, <3>3
    <3> QED BY <3>2, <3>3
  <2> QED BY <1>8, <1>r, <1>i, <2>1, CloseEffect DEF SessionBecomes
<1>9. ASSUME NEW f \in finishing, FinishUnlease(f) PROVE Typed'
  <2>1. f \in Finishes /\ [f EXCEPT !.at = "end"] \in Finishes
    BY <1>r DEF Finishes
  <2>2. finishing' \subseteq Finishes /\ IsFiniteSet(finishing')
    BY <1>9, <1>r, <2>1, FS_AddElement, FS_RemoveElement DEF FinishUnlease
  <2> QED BY <1>9, <1>r, <1>i, <2>2 DEF FinishUnlease, Gate!Return, coordinator
<1>10. ASSUME NEW f \in finishing, FinishEnd(f) PROVE Typed'
  <2>1. finishing' \subseteq Finishes /\ IsFiniteSet(finishing')
    BY <1>10, <1>r, FS_RemoveElement DEF FinishEnd
  <2>2. manualSessions' \in Nat /\ cooling' \in BOOLEAN /\ UNCHANGED <<operation, canceled>>
    BY <1>10 DEF FinishEnd, EndManual
  <2> QED BY <1>10, <1>r, <1>i, <2>1, <2>2 DEF FinishEnd, arbiter
<1>11. CASE UNCHANGED vars
  BY <1>11 DEF vars
<1> QED BY <1>1, <1>2, <1>3, <1>4, <1>5, <1>6, <1>7, <1>8, <1>9, <1>10, <1>11, NextCases

-----------------------------------------------------------------------------
(* The books of the tools *)

\* A lease that goes out is on the mode, one that comes back is not, and no lease
\* of another is touched.
LEMMA GateEffect ==
  ASSUME TypeOK, NEW a \in Leases \union Tools
  PROVE  /\ Gate!Grant(a) =>
              /\ lease[a] = "none" /\ lease' = [lease EXCEPT ![a] = mode]
              /\ UNCHANGED <<mode, foreign>>
         /\ Gate!Return(a) =>
              /\ lease[a] # "none" /\ lease' = [lease EXCEPT ![a] = "none"]
              /\ UNCHANGED <<mode, foreign>>
  BY DEF TypeOK, Gate!Grant, Gate!Return, Gate!TakesEdit

\* The steps of callers, sessions and finish leave the tools' leases alone.
ManualLeases ==
  /\ UNCHANGED <<mode, foreign>>
  /\ \/ UNCHANGED lease
     \/ \E l \in Leases : lease' = [lease EXCEPT ![l] = mode] \/ lease' = [lease EXCEPT ![l] = "none"]

LEMMA ManualLeasesOnly ==
  ASSUME TypeOK, [Next]_vars, ~ToolsStep
  PROVE  ManualLeases /\ UNCHANGED <<tpc, operation>>
<1>1. ASSUME NEW l \in Leases, Gate!Grant(l) \/ Gate!Return(l) PROVE ManualLeases
  BY <1>1, GateEffect DEF ManualLeases
<1>2. ASSUME UNCHANGED arbiter PROVE ManualLeases
  BY <1>2 DEF ManualLeases, arbiter
<1>3. CASE CallersStep
  <2> PICK c \in Callers :
        \/ \E report \in Reports : AskControl(c, report)
        \/ LeaseManual(c) \/ RefuseManual(c) \/ BeginManual(c) \/ OperationDone(c)
        \/ PreemptTimeout(c) \/ FindClosed(c) \/ Abandon(c) \/ UnleaseCaller(c)
    BY <1>3 DEF CallersStep
  <2>1. UNCHANGED <<tpc, operation>>
    BY DEF AskControl, LeaseManual, RefuseManual, BeginManual, OperationDone, PreemptTimeout,
           FindClosed, Abandon, UnleaseCaller, EndManual, coordinator
  <2>2. CASE UNCHANGED arbiter
    BY <1>2, <2>1, <2>2
  <2>3. CASE LeaseManual(c)
    BY <1>1, <2>1, <2>3, CallersEffect
  <2>4. CASE UnleaseCaller(c)
    <3>1. Gate!Return(call[c].lease) /\ (call[c].lease \in Leases \/ call[c].lease = Nobody)
      BY <2>4 DEF UnleaseCaller, TypeOK
    <3>2. CASE call[c].lease \in Leases
      BY <1>1, <2>1, <3>1, <3>2
    <3>3. CASE call[c].lease = Nobody
      BY <2>1, <3>1, <3>3, LeasesAssumption, ToolsAssumption DEF Gate!Return, ManualLeases, TypeOK
    <3> QED BY <3>1, <3>2, <3>3
  <2> QED BY <2>2, <2>3, <2>4
          DEF AskControl, RefuseManual, BeginManual, OperationDone, PreemptTimeout,
              FindClosed, Abandon
<1>4. CASE \E f \in finishing : FinishUnlease(f)
  BY <1>1, <1>4 DEF FinishUnlease, coordinator, TypeOK
<1>5. CASE ~CallersStep /\ ~(\E f \in finishing : FinishUnlease(f))
  <2>1. UNCHANGED <<arbiter, tpc, operation>>
    BY <1>5, NextCases DEF ReserveActive, Activate, JoinActive, Complete, Reset, Close, FinishEnd,
          EndManual, vars, coordinator, arbiter
  <2> QED BY <1>2, <2>1
<1> QED BY <1>3, <1>4, <1>5

LEMMA StepTools ==
  ASSUME TypeOK, ArbiterBooks, ToolBooks, [Next]_vars
  PROVE  ArbiterBooks' /\ ToolBooks'
<1> USE DEF arbiter, coordinator
<1>a. /\ lease \in [Leases \union Tools -> Modes \union {"none"}] /\ tpc \in [Tools -> {"idle", "leased", "operating", "ended"}]
      /\ Nobody \notin Tools /\ "none" \notin Modes /\ mode \in Modes
  BY ToolsAssumption DEF TypeOK, Modes
<1>1. CASE ~ToolsStep
  <2>1. ManualLeases /\ UNCHANGED <<tpc, operation>>
    BY <1>1, ManualLeasesOnly
  <2>2. \A t \in Tools : lease'[t] = lease[t]
    BY <1>a, <2>1, LeasesAssumption DEF ManualLeases
  <2>3. ArbiterBooks'
    BY <1>a, <2>1 DEF ManualLeases, ArbiterBooks
  <2> QED BY <2>1, <2>2, <2>3 DEF ToolBooks
<1>2. ASSUME NEW t \in Tools, LeaseTool(t) PROVE ArbiterBooks' /\ ToolBooks'
  <2>1. /\ tpc[t] = "idle" /\ tpc' = [tpc EXCEPT ![t] = "leased"] /\ UNCHANGED operation
        /\ Gate!Grant(t) /\ Suits(t, mode')
    BY <1>2 DEF LeaseTool
  <2>2. lease' = [lease EXCEPT ![t] = mode] /\ mode' = mode
    BY <2>1, GateEffect
  <2> QED BY <1>a, <2>1, <2>2 DEF ArbiterBooks, ToolBooks, Suits
<1>3. ASSUME NEW t \in Tools, BeginMCP(t) PROVE ArbiterBooks' /\ ToolBooks'
  BY <1>3, <1>a DEF BeginMCP, ArbiterBooks, ToolBooks
<1>4. ASSUME NEW t \in Tools, RefuseMCP(t) PROVE ArbiterBooks' /\ ToolBooks'
  BY <1>4, <1>a DEF RefuseMCP, ArbiterBooks, ToolBooks
<1>5. ASSUME NEW t \in Tools, EndOperation(t) PROVE ArbiterBooks' /\ ToolBooks'
  BY <1>5, <1>a DEF EndOperation, ArbiterBooks, ToolBooks
<1>6. ASSUME NEW t \in Tools, UnleaseTool(t) PROVE ArbiterBooks' /\ ToolBooks'
  <2>1. /\ tpc[t] = "ended" /\ tpc' = [tpc EXCEPT ![t] = "idle"] /\ UNCHANGED operation
        /\ lease' = [lease EXCEPT ![t] = "none"] /\ mode' = mode
    BY <1>6, GateEffect DEF UnleaseTool
  <2> QED BY <1>a, <2>1 DEF ArbiterBooks, ToolBooks
<1>7. CASE CancelMCP \/ CooldownOver
  BY <1>7 DEF CancelMCP, CancelOperation, CooldownOver, ArbiterBooks, ToolBooks
<1>8. ASSUME NEW m \in Modes, SwitchMode(m) PROVE ArbiterBooks' /\ ToolBooks'
  <2>1. UNCHANGED <<tpc, operation, lease>> /\ \A a \in Leases \union Tools : lease[a] = "none"
    BY <1>8 DEF SwitchMode, Gate!Change, Gate!NoLeases
  <2> QED BY <1>a, <2>1 DEF ArbiterBooks, ToolBooks
<1> QED BY <1>1, <1>2, <1>3, <1>4, <1>5, <1>6, <1>7, <1>8 DEF ToolsStep

-----------------------------------------------------------------------------
(* The books of the leases *)

LeaseBooks == CallBooks /\ ActiveBooks /\ LeasesApart /\ LeasesOut

\* Who has a lease has one of the leases.
LEMMA LeaseTypes ==
  ASSUME Typed
  PROVE  /\ \A c \in Callers : call[c].lease # Nobody => call[c].lease \in Leases
         /\ \A s \in Sessions : session[s].lease # Nobody => session[s].lease \in Leases
         /\ \A f \in finishing : f.lease \in Leases /\ f.lease # Nobody
  BY LeasesAssumption DEF Typed, TypeOK

LEMMA ToolsLeases == ASSUME Typed, LeaseBooks, ToolsStep PROVE LeaseBooks'
<1>1. UNCHANGED <<session, call, finishing>>
  BY DEF ToolsStep, LeaseTool, BeginMCP, RefuseMCP, EndOperation, UnleaseTool, CancelMCP,
         CooldownOver, SwitchMode
<1>2. \A l \in Leases : lease'[l] = lease[l]
  <2>1. \/ \E t \in Tools : Gate!Grant(t) \/ Gate!Return(t)
        \/ UNCHANGED lease
    BY DEF ToolsStep, LeaseTool, BeginMCP, RefuseMCP, EndOperation, UnleaseTool, CancelMCP,
           CooldownOver, SwitchMode, Gate!Change, arbiter
  <2>2. TypeOK /\ Leases \cap Tools = {} /\ DOMAIN lease = Leases \union Tools
    BY LeasesAssumption DEF Typed, TypeOK
  <2>3. ASSUME NEW t \in Tools, Gate!Grant(t) \/ Gate!Return(t)
        PROVE  \E k : lease' = [lease EXCEPT ![t] = k]
    BY <2>2, <2>3, GateEffect
  <2> QED BY <2>1, <2>2, <2>3
<1> QED BY <1>1, <1>2, LeaseTypes DEF LeaseBooks, CallBooks, ActiveBooks, LeasesApart, LeasesOut

LEMMA CallersLeases == ASSUME Typed, LeaseBooks, CallersStep PROVE LeaseBooks'
<1> PICK c \in Callers :
      \/ \E report \in Reports : AskControl(c, report)
      \/ LeaseManual(c) \/ RefuseManual(c) \/ BeginManual(c) \/ OperationDone(c)
      \/ PreemptTimeout(c) \/ FindClosed(c) \/ Abandon(c) \/ UnleaseCaller(c)
  BY DEF CallersStep
<1> USE DEF LeaseBooks
<1>t. TypeOK /\ call \in [Callers -> CallRecord] /\ Nobody \notin Leases
      /\ lease \in [Leases \union Tools -> Modes \union {"none"}]
  BY LeasesAssumption DEF Typed, TypeOK, CallRecord
<1>s. UNCHANGED <<session, finishing>>
  BY DEF AskControl, LeaseManual, RefuseManual, BeginManual, OperationDone, PreemptTimeout,
         FindClosed, Abandon, UnleaseCaller
<1>l. \/ UNCHANGED lease \/ LeaseManual(c) \/ UnleaseCaller(c)
  BY DEF AskControl, RefuseManual, BeginManual, OperationDone, PreemptTimeout, FindClosed,
         Abandon, arbiter
<1>a. ActiveBooks'
  BY <1>s DEF ActiveBooks
<1>1. ASSUME NEW report \in Reports, AskControl(c, report) PROVE LeaseBooks'
  <2>1. /\ call[c].at = "idle" /\ UNCHANGED lease
        /\ \E k \in CallRecord : CallBecomes(c, k) /\ k.at = "asked" /\ k.report = report
                                 /\ k.lease = Nobody
    <3>1. UNCHANGED lease /\ call[c].at = "idle"
      BY <1>1 DEF AskControl, arbiter, At
    <3> QED BY <1>t, <1>1, <3>1, CallersEffect
  <2> QED BY <1>s, <1>a, <2>1 DEF CallBecomes, CallBooks, LeasesApart, LeasesOut, Holding
<1>2. CASE LeaseManual(c)
  <2>1. call[c].at = "asked"
    BY <1>t, <1>2, CallersEffect
  <2>2. PICK l \in Leases \ {f.lease : f \in finishing} :
          Gate!Grant(l) /\ CallGoes(c, "leased", l, call[c].awaits)
    BY <1>t, <1>2, CallersEffect
  <2>3. lease[l] = "none" /\ lease' = [lease EXCEPT ![l] = mode] /\ mode \in Modes /\ mode # "none"
    BY <1>t, <2>2, GateEffect DEF Typed, TypeOK, Modes
  <2>4. CallBooks'
    BY <1>t, <2>1, <2>2 DEF CallGoes, CallBooks, Holding
  <2>5. /\ \A d \in Callers : call[d].lease # l
        /\ \A s \in Sessions : session[s].lease # l
        /\ \A f \in finishing : f.lease # l
    BY <1>t, <2>2, <2>3 DEF LeasesOut
  <2>6. LeasesApart'
    BY <1>t, <1>s, <2>2, <2>5 DEF CallGoes, LeasesApart
  <2>7. LeasesOut'
    BY <1>t, <1>s, <2>2, <2>3, <2>5 DEF CallGoes, LeasesOut, Typed, TypeOK
  <2> QED BY <1>a, <2>4, <2>6, <2>7
<1>3. CASE call[c].at = "asked" /\ CallBecomes(c, Idle) /\ UNCHANGED lease
  <2>1. Idle.lease = Nobody /\ Idle.at = "idle" /\ call[c].lease = Nobody
    BY <1>3, IdleType DEF CallBooks, Holding
  <2> QED BY <1>s, <1>a, <1>3, <2>1 DEF CallBecomes, CallBooks, LeasesApart, LeasesOut, Holding
<1>4. ASSUME NEW place, NEW awaits, place \in Holding, call[c].at \in Holding, UNCHANGED lease,
             CallGoes(c, place, call[c].lease, awaits)
      PROVE  LeaseBooks'
  BY <1>s, <1>a, <1>4 DEF CallGoes, CallBooks, LeasesApart, LeasesOut, Holding
<1>5. CASE UnleaseCaller(c)
  <2>1. call[c].at = "unlease" /\ CallBecomes(c, Idle)
    BY <1>t, <1>5, CallersEffect
  <2>2. call[c].lease \in Leases
    BY <1>t, <2>1 DEF CallBooks, Holding, CallRecord
  <2>3. lease' = [lease EXCEPT ![call[c].lease] = "none"]
    BY <1>t, <1>5, <2>2, GateEffect DEF UnleaseCaller
  <2>4. Idle.lease = Nobody /\ Idle.at = "idle"
    BY IdleType
  <2>a. CallBooks'
    BY <2>1, <2>4 DEF CallBecomes, CallBooks, Holding
  <2>b. \A d \in Callers : call'[d].lease = Nobody \/ call'[d].lease = call[d].lease
    BY <2>1, <2>4 DEF CallBecomes
  <2>5. LeasesApart'
    BY <1>s, <2>b, LeaseTypes DEF LeasesApart
  <2>6. LeasesOut'
    BY <1>t, <1>s, <2>1, <2>2, <2>3, <2>4 DEF CallBecomes, LeasesApart, LeasesOut, Typed, TypeOK, CallRecord
  <2> QED BY <1>a, <2>a, <2>5, <2>6
<1>6. CASE RefuseManual(c)
  <2>1. UNCHANGED lease
    BY <1>6 DEF RefuseManual, arbiter
  <2> QED BY <1>t, <1>3, <1>4, <1>6, <2>1, CallersEffect DEF Holding
<1>7. CASE BeginManual(c)
  <2>1. UNCHANGED lease /\ call[c].at = "leased"
        /\ CallGoes(c, IF operation = Nobody THEN "ready" ELSE "waiting", call[c].lease, operation)
    BY <1>t, <1>7, CallersEffect DEF BeginManual, arbiter
  <2> QED BY <1>4, <2>1 DEF Holding
<1>8. CASE OperationDone(c) \/ PreemptTimeout(c) \/ FindClosed(c) \/ Abandon(c)
  <2>1. UNCHANGED lease
    BY <1>8 DEF OperationDone, PreemptTimeout, FindClosed, Abandon, arbiter
  <2> QED BY <1>t, <1>4, <1>8, <2>1, CallersEffect DEF Holding
<1> QED BY <1>1, <1>2, <1>5, <1>6, <1>7, <1>8

\* A session that joins a report keeps its lease.
LEMMA JoinsLeases ==
  ASSUME Typed, LeaseBooks, NEW s \in Sessions, Joins(s), UNCHANGED <<lease, finishing>>,
         NEW c \in Callers,
         \/ UNCHANGED call
         \/ call[c].at = "ready" /\ CallGoes(c, "abandon", call[c].lease, Nobody)
  PROVE  LeaseBooks'
<1> USE DEF LeaseBooks
<1>1. \A u \in Sessions : /\ session'[u].lease = session[u].lease
                          /\ session'[u].active = session[u].active
                          /\ session'[u].closed = session[u].closed
  BY DEF Joins, SessionBecomes, SameOwner
<1>2. /\ \A d \in Callers : call'[d].lease = call[d].lease /\ call'[d].report = call[d].report
      /\ \A d \in Callers : call'[d].at = call[d].at
                            \/ (call'[d].at = "abandon" /\ call[d].at = "ready")
  <2>1. CASE UNCHANGED call
    BY <2>1
  <2>2. CASE call[c].at = "ready" /\ CallGoes(c, "abandon", call[c].lease, Nobody)
    BY <2>2 DEF CallGoes
  <2> QED BY <2>1, <2>2
<1>3. CallBooks' /\ ActiveBooks'
  BY <1>1, <1>2 DEF CallBooks, ActiveBooks, Holding
<1>4. LeasesApart'
  BY <1>1, <1>2 DEF LeasesApart
<1>5. LeasesOut'
  BY <1>1, <1>2 DEF LeasesOut
<1> QED BY <1>3, <1>4, <1>5

\* The lease goes from the caller to the session.
LEMMA ActivateLeases ==
  ASSUME Typed, LeaseBooks, NEW c \in Callers, Activate(c) PROVE LeaseBooks'
<1> USE DEF LeaseBooks
<1> DEFINE s == SessionOf[c]
<1>1. /\ s \in Sessions /\ Activates(c, s) /\ call[c].at = "ready" /\ CallBecomes(c, Idle)
      /\ UNCHANGED <<lease, finishing>> /\ Idle.at = "idle" /\ Idle.lease = Nobody
  BY SessionsEffect, CallersEffect, IdleType DEF Activate, arbiter, Typed
<1> HIDE DEF s
<1>2. PICK fields \in SessionRecord :
        /\ SessionBecomes(s, fields)
        /\ fields.active /\ ~fields.closed /\ fields.lease = call[c].lease
  BY <1>1 DEF Activates
<1>3. call[c].lease # Nobody
  BY <1>1 DEF CallBooks, Holding
<1>4. CallBooks'
  BY <1>1 DEF CallBecomes, CallBooks, Holding
<1>5. ActiveBooks'
  BY <1>2, <1>3 DEF SessionBecomes, ActiveBooks
<1>6. LeasesApart'
  <2>1. /\ call'[c].lease = Nobody
        /\ \A d \in Callers \ {c} : call'[d].lease = call[d].lease
        /\ session'[s].lease = call[c].lease
        /\ \A u \in Sessions \ {s} : session'[u].lease = session[u].lease
    BY <1>1, <1>2 DEF SessionBecomes, CallBecomes
  <2> QED BY <1>1, <1>3, <2>1, LeaseTypes DEF LeasesApart
<1>7. LeasesOut'
  BY <1>1, <1>2, <1>3 DEF SessionBecomes, CallBecomes, LeasesOut
<1> QED BY <1>4, <1>5, <1>6, <1>7

\* The lease goes from the session to a call of finish.
LEMMA EndsLeases ==
  ASSUME Typed, LeaseBooks, NEW s \in Sessions, session[s].active, NEW fields \in SessionRecord,
         SessionBecomes(s, fields), ~fields.active, fields.lease = Nobody, NEW cool \in BOOLEAN,
         finishing' = finishing \union {Finish(session[s].lease, cool)},
         UNCHANGED <<call, lease>>
  PROVE  LeaseBooks'
<1> USE DEF LeaseBooks
<1>1. session[s].lease # Nobody
  BY DEF ActiveBooks
<1>2. /\ Finish(session[s].lease, cool).lease = session[s].lease
      /\ Finish(session[s].lease, cool).at = "unlease"
  BY DEF Finish
<1>3. CallBooks' /\ ActiveBooks'
  BY DEF SessionBecomes, CallBooks, ActiveBooks
<1>4. LeasesApart'
  <2>1. /\ session'[s].lease = Nobody
        /\ \A u \in Sessions \ {s} : session'[u].lease = session[u].lease
    BY DEF SessionBecomes
  <2> QED BY <1>1, <1>2, <2>1, LeaseTypes DEF LeasesApart
<1>5. LeasesOut'
  BY <1>1, <1>2 DEF SessionBecomes, LeasesOut
<1> QED BY <1>3, <1>4, <1>5

LEMMA SettlesLeases ==
  ASSUME Typed, LeaseBooks, NEW s \in Sessions, session[s].active, NEW fields,
         SameOwner(fields, session[s]), NEW cool \in BOOLEAN, SettlesTo(s, fields, cool),
         UNCHANGED <<call, lease>>
  PROVE  LeaseBooks'
<1>1. CASE SessionBecomes(s, fields) /\ UNCHANGED finishing
  <2>1. \A u \in Sessions : /\ session'[u].lease = session[u].lease
                            /\ session'[u].active = session[u].active
                            /\ session'[u].closed = session[u].closed
    BY <1>1 DEF SessionBecomes, SameOwner
  <2> QED BY <1>1, <2>1 DEF LeaseBooks, CallBooks, ActiveBooks, LeasesApart, LeasesOut
<1>2. CASE ~(SessionBecomes(s, fields) /\ UNCHANGED finishing)
  <2>1. fields.lease = session[s].lease
    BY DEF SameOwner
  <2>2. PICK ended \in SessionRecord : SessionBecomes(s, ended) /\ ~ended.active /\ ended.lease = Nobody
    BY <1>2 DEF SettlesTo
  <2>3. finishing' = finishing \union {Finish(session[s].lease, cool)}
    BY <1>2, <2>1 DEF SettlesTo
  <2> QED BY <2>2, <2>3, EndsLeases
<1> QED BY <1>1, <1>2

LEMMA StepLeases == ASSUME Typed, LeaseBooks, [Next]_vars PROVE LeaseBooks'
<1>t. TypeOK /\ CallBooks
  BY DEF Typed, LeaseBooks
<1>1. CASE ToolsStep
  BY <1>1, ToolsLeases
<1>2. CASE CallersStep
  BY <1>2, CallersLeases
<1>3. ASSUME NEW c \in Callers, NEW report \in Reports, ReserveActive(c, report) PROVE LeaseBooks'
  <2>1. UNCHANGED <<lease, finishing, call>>
    BY <1>3 DEF ReserveActive, arbiter
  <2> QED BY <1>t, <1>3, <2>1, SessionsEffect, JoinsLeases
<1>4. ASSUME NEW c \in Callers, Activate(c) PROVE LeaseBooks'
  BY <1>4, ActivateLeases
<1>5. ASSUME NEW c \in Callers, JoinActive(c) PROVE LeaseBooks'
  <2>1. UNCHANGED <<lease, finishing>>
    BY <1>5 DEF JoinActive, arbiter
  <2> QED BY <1>t, <1>5, <2>1, SessionsEffect, CallersEffect, JoinsLeases
<1>6. ASSUME NEW r \in Slots, NEW success \in BOOLEAN, Complete(r, success) PROVE LeaseBooks'
  <2>1. /\ slot[r].session \in Sessions /\ UNCHANGED <<call, lease>>
        /\ CountsOut(slot[r].session, slot[r].generation)
    BY <1>t, <1>6, CompleteEffect DEF Reservations
  <2>2. CASE UNCHANGED <<session, finishing>>
    BY <2>1, <2>2 DEF LeaseBooks, CallBooks, ActiveBooks, LeasesApart, LeasesOut
  <2>3. CASE ~UNCHANGED <<session, finishing>>
    BY <2>1, <2>3, SettlesLeases DEF CountsOut
  <2> QED BY <2>2, <2>3
<1>7. ASSUME NEW s \in Sessions, NEW kind \in Kinds, Reset(s, kind) PROVE LeaseBooks'
  BY <1>t, <1>7, ResetEffect, SettlesLeases
<1>8. ASSUME NEW s \in Sessions, Close(s) PROVE LeaseBooks'
  <2>1. PICK fields \in SessionRecord :
          SessionBecomes(s, fields) /\ ~fields.active /\ fields.lease = Nobody
    BY <1>t, <1>8, CloseEffect
  <2>2. /\ finishing' = IF session[s].active
                        THEN finishing \union {Finish(session[s].lease, TRUE)}
                        ELSE finishing
        /\ UNCHANGED <<call, lease>>
    BY <1>t, <1>8, CloseEffect
  <2>3. CASE session[s].active
    BY <2>1, <2>2, <2>3, EndsLeases
  <2>4. CASE ~session[s].active
    BY <2>1, <2>2, <2>4
       DEF SessionBecomes, LeaseBooks, CallBooks, ActiveBooks, LeasesApart, LeasesOut
  <2> QED BY <2>3, <2>4
<1>9. ASSUME NEW f \in finishing, FinishUnlease(f) PROVE LeaseBooks'
  <2>1. f \in Finishes /\ f.at = "unlease"
    BY <1>9 DEF Typed, TypeOK, Finishes, FinishUnlease
  <2>2. PICK g : g = [f EXCEPT !.at = "end"]
    OBVIOUS
  <2>3. g.lease = f.lease /\ g.at = "end" /\ f.lease \in Leases
    BY <2>1, <2>2 DEF Finishes
  <2>4. /\ finishing' = (finishing \ {f}) \union {g} /\ UNCHANGED <<call, session>>
        /\ Gate!Return(f.lease)
    BY <1>9, <2>2 DEF FinishUnlease
  <2>5. lease' = [lease EXCEPT ![f.lease] = "none"]
    BY <1>t, <2>3, <2>4, GateEffect
  <2>6. CallBooks' /\ ActiveBooks'
    BY <2>4 DEF LeaseBooks, CallBooks, ActiveBooks
  <2>7. LeasesApart'
    BY <2>3, <2>4 DEF LeaseBooks, LeasesApart
  <2>8. LeasesOut'
    BY <1>t, <2>3, <2>4, <2>5 DEF LeaseBooks, LeasesApart, LeasesOut, TypeOK
  <2> QED BY <2>6, <2>7, <2>8 DEF LeaseBooks
<1>10. ASSUME NEW f \in finishing, FinishEnd(f) PROVE LeaseBooks'
  <2>1. finishing' = finishing \ {f} /\ UNCHANGED <<call, session, lease>>
    BY <1>10 DEF FinishEnd, arbiter
  <2> QED BY <2>1 DEF LeaseBooks, CallBooks, ActiveBooks, LeasesApart, LeasesOut
<1>11. CASE UNCHANGED vars
  BY <1>11 DEF vars, LeaseBooks, CallBooks, ActiveBooks, LeasesApart, LeasesOut
<1> QED BY <1>1, <1>2, <1>3, <1>4, <1>5, <1>6, <1>7, <1>8, <1>9, <1>10, <1>11, NextCases

-----------------------------------------------------------------------------
(* The count of the people at the controls *)

LEMMA Counted ==
  ASSUME Typed
  PROVE  /\ IsFiniteSet(Preempting) /\ Cardinality(Preempting) \in Nat
         /\ IsFiniteSet(ActiveSessions) /\ Cardinality(ActiveSessions) \in Nat
         /\ IsFiniteSet(finishing) /\ Cardinality(finishing) \in Nat
<1>1. /\ IsFiniteSet(Callers) /\ IsFiniteSet(Sessions)
      /\ Preempting \subseteq Callers /\ ActiveSessions \subseteq Sessions
  BY CallersAssumption, SessionsAssumption DEF Preempting, ActiveSessions
<1>2. IsFiniteSet(Preempting) /\ IsFiniteSet(ActiveSessions) /\ IsFiniteSet(finishing)
  BY <1>1, FS_Subset DEF Typed
<1> QED BY <1>2, FS_CardinalityType

\* While somebody is counted the count is not zero.
LEMMA CountedIsPositive ==
  ASSUME Typed, ManualAccounting, Preempting \union ActiveSessions \union finishing # {}
  PROVE  manualSessions > 0
<1>1. \/ Cardinality(Preempting) # 0 \/ Cardinality(ActiveSessions) # 0
      \/ Cardinality(finishing) # 0
  BY Counted, FS_EmptySet
<1> QED BY <1>1, Counted DEF ManualAccounting

\* The callers that are counted change by the caller that steps, if at all.
LEMMA PreemptingChange ==
  ASSUME NEW c \in Callers, \A d \in Callers \ {c} : call'[d] = call[d]
  PROVE  Preempting' = IF call'[c].at \in {"waiting", "ready", "abandon"}
                       THEN Preempting \union {c} ELSE Preempting \ {c}
  BY DEF Preempting

LEMMA CallersCount ==
  ASSUME Typed, ManualAccounting, CallersStep PROVE ManualAccounting'
<1> PICK c \in Callers :
      \/ \E report \in Reports : AskControl(c, report)
      \/ LeaseManual(c) \/ RefuseManual(c) \/ BeginManual(c) \/ OperationDone(c)
      \/ PreemptTimeout(c) \/ FindClosed(c) \/ Abandon(c) \/ UnleaseCaller(c)
  BY DEF CallersStep
<1>t. TypeOK
  BY DEF Typed
<1>s. ActiveSessions' = ActiveSessions /\ finishing' = finishing
  BY DEF AskControl, LeaseManual, RefuseManual, BeginManual, OperationDone, PreemptTimeout,
         FindClosed, Abandon, UnleaseCaller, ActiveSessions
<1>p. c \in Preempting <=> call[c].at \in {"waiting", "ready", "abandon"}
  BY DEF Preempting
<1>1. CASE BeginManual(c)
  <2>1. /\ call[c].at = "leased" /\ call'[c].at \in {"waiting", "ready", "abandon"}
        /\ \A d \in Callers \ {c} : call'[d] = call[d]
    BY <1>t, <1>1, CallersEffect DEF CallGoes
  <2>2. Preempting' = Preempting \union {c} /\ c \notin Preempting
    BY <1>p, <2>1, PreemptingChange
  <2>3. Cardinality(Preempting') = Cardinality(Preempting) + 1
    BY <2>2, Counted, FS_AddElement
  <2>4. manualSessions' = manualSessions + 1
    BY <1>1 DEF BeginManual
  <2> QED BY <1>s, <2>3, <2>4, Counted DEF ManualAccounting
<1>2. CASE Abandon(c)
  <2>1. /\ call[c].at = "abandon" /\ call'[c].at = "unlease"
        /\ \A d \in Callers \ {c} : call'[d] = call[d]
    BY <1>t, <1>2, CallersEffect DEF CallGoes
  <2>2. Preempting' = Preempting \ {c} /\ c \in Preempting
    BY <1>p, <2>1, PreemptingChange
  <2>3. Cardinality(Preempting') = Cardinality(Preempting) - 1
    BY <2>2, Counted, FS_RemoveElement
  <2>4. manualSessions' = manualSessions - 1
    BY <1>2, <2>2, CountedIsPositive DEF Abandon, EndManual
  <2> QED BY <1>s, <2>3, <2>4, Counted DEF ManualAccounting
<1>3. CASE ~BeginManual(c) /\ ~Abandon(c)
  <2>1. /\ call'[c].at \in {"waiting", "ready", "abandon"} <=>
             call[c].at \in {"waiting", "ready", "abandon"}
        /\ \A d \in Callers \ {c} : call'[d] = call[d]
    BY <1>t, <1>3, CallersEffect, IdleType DEF CallGoes, CallBecomes
  <2>2. Preempting' = Preempting
    BY <1>p, <2>1, PreemptingChange
  <2>3. manualSessions' = manualSessions
    BY <1>3 DEF AskControl, LeaseManual, RefuseManual, OperationDone, PreemptTimeout,
                FindClosed, UnleaseCaller, coordinator
  <2> QED BY <1>s, <2>2, <2>3 DEF ManualAccounting
<1> QED BY <1>1, <1>2, <1>3

\* A session that ends is counted among the calls of finish from then on.
LEMMA EndsCount ==
  ASSUME Typed, LeaseBooks, ManualAccounting, NEW s \in Sessions, session[s].active,
         NEW fields \in SessionRecord, SessionBecomes(s, fields), ~fields.active,
         NEW cool \in BOOLEAN,
         finishing' = finishing \union {Finish(session[s].lease, cool)},
         UNCHANGED <<call, manualSessions>>
  PROVE  ManualAccounting'
<1>1. Finish(session[s].lease, cool) \notin finishing
  BY DEF Finish, LeaseBooks, LeasesApart
<1>2. Cardinality(finishing') = Cardinality(finishing) + 1
  BY <1>1, Counted, FS_AddElement
<1>3. ActiveSessions' = ActiveSessions \ {s} /\ s \in ActiveSessions
  BY DEF ActiveSessions, SessionBecomes
<1>4. Cardinality(ActiveSessions') = Cardinality(ActiveSessions) - 1
  BY <1>3, Counted, FS_RemoveElement
<1>5. Preempting' = Preempting
  BY DEF Preempting
<1> QED BY <1>2, <1>4, <1>5, Counted DEF ManualAccounting

LEMMA SettlesCount ==
  ASSUME Typed, LeaseBooks, ManualAccounting, NEW s \in Sessions, session[s].active, NEW fields,
         SameOwner(fields, session[s]), NEW cool \in BOOLEAN, SettlesTo(s, fields, cool),
         UNCHANGED <<call, manualSessions>>
  PROVE  ManualAccounting'
<1>1. CASE SessionBecomes(s, fields) /\ UNCHANGED finishing
  <2>1. ActiveSessions' = ActiveSessions /\ Preempting' = Preempting
    BY <1>1 DEF ActiveSessions, Preempting, SessionBecomes, SameOwner
  <2> QED BY <1>1, <2>1 DEF ManualAccounting
<1>2. CASE ~(SessionBecomes(s, fields) /\ UNCHANGED finishing)
  <2>1. fields.lease = session[s].lease
    BY DEF SameOwner
  <2>2. PICK ended \in SessionRecord : SessionBecomes(s, ended) /\ ~ended.active
    BY <1>2 DEF SettlesTo
  <2>3. finishing' = finishing \union {Finish(session[s].lease, cool)}
    BY <1>2, <2>1 DEF SettlesTo
  <2> QED BY <2>2, <2>3, EndsCount
<1> QED BY <1>1, <1>2

LEMMA StepCount ==
  ASSUME Typed, LeaseBooks, ManualAccounting, [Next]_vars PROVE ManualAccounting'
<1>t. TypeOK /\ CallBooks
  BY DEF Typed, LeaseBooks
<1>i. ASSUME Preempting' = Preempting, ActiveSessions' = ActiveSessions,
             UNCHANGED <<finishing, manualSessions>>
      PROVE  ManualAccounting'
  BY <1>i DEF ManualAccounting
<1>1. CASE ToolsStep
  <2>1. UNCHANGED <<call, session, finishing, manualSessions>>
    BY <1>1 DEF ToolsStep, LeaseTool, BeginMCP, RefuseMCP, EndOperation, UnleaseTool, CancelMCP,
           CooldownOver, SwitchMode, coordinator
  <2> QED BY <1>i, <2>1 DEF Preempting, ActiveSessions
<1>2. CASE CallersStep
  BY <1>2, CallersCount
<1>3. ASSUME NEW c \in Callers, NEW report \in Reports, ReserveActive(c, report)
      PROVE  ManualAccounting'
  <2>1. Joins(SessionOf[c]) /\ SessionOf[c] \in Sessions
        /\ UNCHANGED <<call, finishing, manualSessions>>
    BY <1>t, <1>3, SessionsEffect DEF ReserveActive, coordinator
  <2>2. ActiveSessions' = ActiveSessions
    BY <2>1 DEF Joins, SessionBecomes, SameOwner, ActiveSessions
  <2> QED BY <1>i, <2>1, <2>2 DEF Preempting
<1>4. ASSUME NEW c \in Callers, Activate(c) PROVE ManualAccounting'
  <2> DEFINE s == SessionOf[c]
  <2>1. /\ s \in Sessions /\ Activates(c, s) /\ call[c].at = "ready"
        /\ call'[c].at = "idle" /\ \A d \in Callers \ {c} : call'[d] = call[d]
        /\ UNCHANGED <<finishing, manualSessions>>
    BY <1>t, <1>4, SessionsEffect, CallersEffect, IdleType DEF Activate, coordinator, CallBecomes
  <2>2. Preempting' = Preempting \ {c} /\ c \in Preempting
    BY <2>1, PreemptingChange DEF Preempting
  <2>3. Cardinality(Preempting') = Cardinality(Preempting) - 1
    BY <2>2, Counted, FS_RemoveElement
  <2>4. ActiveSessions' = ActiveSessions \union {s} /\ s \notin ActiveSessions
    BY <2>1 DEF Activates, SessionBecomes, ActiveSessions
  <2>5. Cardinality(ActiveSessions') = Cardinality(ActiveSessions) + 1
    BY <2>4, Counted, FS_AddElement
  <2> QED BY <2>1, <2>3, <2>5, Counted DEF ManualAccounting
<1>5. ASSUME NEW c \in Callers, JoinActive(c) PROVE ManualAccounting'
  <2>1. /\ Joins(SessionOf[c]) /\ SessionOf[c] \in Sessions /\ call[c].at = "ready"
        /\ call'[c].at = "abandon" /\ \A d \in Callers \ {c} : call'[d] = call[d]
        /\ UNCHANGED <<finishing, manualSessions>>
    BY <1>t, <1>5, SessionsEffect, CallersEffect DEF JoinActive, coordinator, CallGoes
  <2>2. ActiveSessions' = ActiveSessions
    BY <2>1 DEF Joins, SessionBecomes, SameOwner, ActiveSessions
  <2>3. Preempting' = Preempting
    BY <2>1, PreemptingChange DEF Preempting
  <2> QED BY <1>i, <2>1, <2>2, <2>3
<1>6. ASSUME NEW r \in Slots, NEW success \in BOOLEAN, Complete(r, success)
      PROVE  ManualAccounting'
  <2>1. /\ slot[r].session \in Sessions /\ UNCHANGED <<call, manualSessions>>
        /\ CountsOut(slot[r].session, slot[r].generation)
    BY <1>t, <1>6, CompleteEffect DEF Reservations
  <2>2. CASE UNCHANGED <<session, finishing>>
    BY <1>i, <2>1, <2>2 DEF Preempting, ActiveSessions
  <2>3. CASE ~UNCHANGED <<session, finishing>>
    BY <2>1, <2>3, SettlesCount DEF CountsOut
  <2> QED BY <2>2, <2>3
<1>7. ASSUME NEW s \in Sessions, NEW kind \in Kinds, Reset(s, kind) PROVE ManualAccounting'
  BY <1>t, <1>7, ResetEffect, SettlesCount
<1>8. ASSUME NEW s \in Sessions, Close(s) PROVE ManualAccounting'
  <2>1. PICK fields \in SessionRecord : SessionBecomes(s, fields) /\ ~fields.active
    BY <1>t, <1>8, CloseEffect
  <2>2. /\ finishing' = IF session[s].active
                        THEN finishing \union {Finish(session[s].lease, TRUE)}
                        ELSE finishing
        /\ UNCHANGED <<call, manualSessions>>
    BY <1>t, <1>8, CloseEffect
  <2>3. CASE session[s].active
    BY <2>1, <2>2, <2>3, EndsCount
  <2>4. CASE ~session[s].active
    BY <1>i, <2>1, <2>2, <2>4 DEF SessionBecomes, Preempting, ActiveSessions
  <2> QED BY <2>3, <2>4
<1>9. ASSUME NEW f \in finishing, FinishUnlease(f) PROVE ManualAccounting'
  <2>1. PICK g : g = [f EXCEPT !.at = "end"]
    OBVIOUS
  <2>2. f \in Finishes /\ f.at = "unlease"
    BY <1>9 DEF Typed, TypeOK, Finishes, FinishUnlease
  <2>3. g.lease = f.lease /\ g.at = "end"
    BY <2>1, <2>2 DEF Finishes
  <2>4. g \notin finishing
    BY <2>2, <2>3 DEF LeaseBooks, LeasesApart
  <2>5. finishing' = (finishing \ {f}) \union {g}
        /\ UNCHANGED <<call, session, manualSessions>>
    BY <1>9, <2>1 DEF FinishUnlease, coordinator
  <2>6. Cardinality(finishing') = Cardinality(finishing)
    <3>1. /\ IsFiniteSet(finishing \ {f})
          /\ Cardinality(finishing \ {f}) = Cardinality(finishing) - 1
      BY Counted, FS_RemoveElement
    <3> DEFINE rest == finishing \ {f}
    <3>2. IsFiniteSet(rest) /\ g \notin rest /\ finishing' = rest \union {g}
      BY <2>4, <2>5, <3>1
    <3> HIDE DEF rest
    <3>3. Cardinality(finishing') = Cardinality(rest) + 1
      BY <3>2, FS_AddElement
    <3> QED BY <3>1, <3>3, Counted DEF rest
  <2>7. Preempting' = Preempting /\ ActiveSessions' = ActiveSessions
    BY <2>5 DEF Preempting, ActiveSessions
  <2> QED BY <2>5, <2>6, <2>7 DEF ManualAccounting
<1>10. ASSUME NEW f \in finishing, FinishEnd(f) PROVE ManualAccounting'
  <2>1. finishing' = finishing \ {f} /\ UNCHANGED <<call, session>>
    BY <1>10 DEF FinishEnd
  <2>2. Cardinality(finishing') = Cardinality(finishing) - 1
    BY <2>1, Counted, FS_RemoveElement
  <2>3. manualSessions' = manualSessions - 1
    BY <1>10, CountedIsPositive DEF FinishEnd, EndManual
  <2>4. Preempting' = Preempting /\ ActiveSessions' = ActiveSessions
    BY <2>1 DEF Preempting, ActiveSessions
  <2> QED BY <2>2, <2>3, <2>4, Counted DEF ManualAccounting
<1>11. CASE UNCHANGED vars
  BY <1>i, <1>11 DEF vars, Preempting, ActiveSessions
<1> QED BY <1>1, <1>2, <1>3, <1>4, <1>5, <1>6, <1>7, <1>8, <1>9, <1>10, <1>11, NextCases

-----------------------------------------------------------------------------
(* A person and an operation *)

Waits == Exclusion /\ WaitedForIsCanceled

\* A step that leaves the operation alone, or ends it, and that brings no caller to
\* wait or past its wait and no session to life.
LEMMA WaitsStay ==
  ASSUME Typed, Waits,
         operation' \in {operation, Nobody},
         operation' # Nobody => (canceled => canceled'),
         \A c \in Callers : \/ call'[c].at \notin {"waiting", "ready"}
                            \/ call'[c].at = call[c].at /\ call'[c].awaits = call[c].awaits,
         \A s \in Sessions : session'[s].active => session[s].active \/ operation' = Nobody
  PROVE  Waits'
  BY DEF Waits, Exclusion, WaitedForIsCanceled

LEMMA CallersWaits == ASSUME Typed, Waits, CallersStep PROVE Waits'
<1> PICK c \in Callers :
      \/ \E report \in Reports : AskControl(c, report)
      \/ LeaseManual(c) \/ RefuseManual(c) \/ BeginManual(c) \/ OperationDone(c)
      \/ PreemptTimeout(c) \/ FindClosed(c) \/ Abandon(c) \/ UnleaseCaller(c)
  BY DEF CallersStep
<1>t. TypeOK
  BY DEF Typed
<1>1. CASE BeginManual(c)
  <2>1. /\ call'[c].at = IF operation = Nobody THEN "ready" ELSE "waiting"
        /\ call'[c].awaits = operation
        /\ \A d \in Callers \ {c} : call'[d] = call[d]
    BY <1>t, <1>1, CallersEffect DEF CallGoes
  <2>2. UNCHANGED <<operation, session>> /\ canceled' = (operation # Nobody)
    BY <1>1 DEF BeginManual, CancelOperation
  <2> QED BY <2>1, <2>2 DEF Waits, Exclusion, WaitedForIsCanceled
<1>2. CASE OperationDone(c)
  <2>1. /\ call[c].at = "waiting" /\ call'[c].at = "ready" /\ operation # call[c].awaits
        /\ \A d \in Callers \ {c} : call'[d] = call[d]
    BY <1>t, <1>2, CallersEffect DEF CallGoes, OperationDone
  <2>2. UNCHANGED <<operation, canceled, session>>
    BY <1>2 DEF OperationDone, coordinator
  <2> QED BY <2>1, <2>2 DEF Waits, Exclusion, WaitedForIsCanceled
<1>3. CASE ~BeginManual(c) /\ ~OperationDone(c)
  <2>1. /\ call'[c].at \notin {"waiting", "ready"}
        /\ \A d \in Callers \ {c} : call'[d] = call[d]
    BY <1>t, <1>3, CallersEffect, IdleType DEF CallGoes, CallBecomes
  <2>2. UNCHANGED <<operation, canceled, session>>
    BY <1>3 DEF AskControl, LeaseManual, RefuseManual, PreemptTimeout, FindClosed, Abandon,
                UnleaseCaller, EndManual, coordinator
  <2> QED BY <2>1, <2>2, WaitsStay
<1> QED BY <1>1, <1>2, <1>3

LEMMA StepWaits ==
  ASSUME Typed, LeaseBooks, ManualAccounting, Waits, [Next]_vars PROVE Waits'
<1>t. TypeOK /\ CallBooks
  BY DEF Typed, LeaseBooks
<1>i. ASSUME UNCHANGED <<operation, canceled, call>>,
             \A s \in Sessions : session'[s].active => session[s].active
      PROVE  Waits'
  BY <1>i, WaitsStay
<1>1. ASSUME NEW t \in Tools, BeginMCP(t) PROVE Waits'
  <2>1. UNCHANGED <<call, session>> /\ manualSessions = 0
    BY <1>1 DEF BeginMCP, PersonAtControls, Typed, TypeOK
  <2>2. Preempting = {} /\ ActiveSessions = {}
    BY <2>1, CountedIsPositive
  <2> QED BY <2>1, <2>2 DEF Preempting, ActiveSessions, Waits, Exclusion, WaitedForIsCanceled
<1>2. CASE ToolsStep /\ ~(\E t \in Tools : BeginMCP(t))
  <2>1. UNCHANGED <<call, session>>
    BY <1>2 DEF ToolsStep, LeaseTool, RefuseMCP, EndOperation, UnleaseTool, CancelMCP,
                CooldownOver, SwitchMode
  <2>2. CASE UNCHANGED <<operation, canceled>>
    BY <1>i, <2>1, <2>2
  <2>3. CASE CancelMCP
    BY <2>1, <2>3, WaitsStay DEF CancelMCP, CancelOperation
  <2>4. ASSUME NEW t \in Tools, EndOperation(t), operation = t PROVE Waits'
    BY <2>1, <2>4, WaitsStay DEF EndOperation
  <2>5. UNCHANGED <<operation, canceled>> \/ CancelMCP
        \/ \E t \in Tools : EndOperation(t) /\ operation = t
    BY <1>2 DEF ToolsStep, LeaseTool, RefuseMCP, EndOperation, UnleaseTool, CooldownOver,
                SwitchMode, coordinator
  <2> QED BY <2>2, <2>3, <2>4, <2>5
<1>3. CASE CallersStep
  BY <1>3, CallersWaits
<1>4. ASSUME NEW c \in Callers, NEW report \in Reports, ReserveActive(c, report) PROVE Waits'
  <2>1. Joins(SessionOf[c]) /\ SessionOf[c] \in Sessions /\ UNCHANGED <<operation, canceled, call>>
    BY <1>t, <1>4, SessionsEffect DEF ReserveActive, coordinator
  <2> QED BY <1>i, <2>1 DEF Joins, SessionBecomes, SameOwner
<1>5. ASSUME NEW c \in Callers, Activate(c) PROVE Waits'
  <2> DEFINE s == SessionOf[c]
  <2>1. /\ s \in Sessions /\ Activates(c, s) /\ call[c].at = "ready" /\ call'[c].at = "idle"
        /\ \A d \in Callers \ {c} : call'[d] = call[d]
        /\ UNCHANGED <<operation, canceled>>
    BY <1>t, <1>5, SessionsEffect, CallersEffect, IdleType DEF Activate, coordinator, CallBecomes
  <2>2. operation = Nobody
    BY <2>1 DEF Waits, Exclusion
  <2> QED BY <2>1, <2>2, WaitsStay
<1>6. ASSUME NEW c \in Callers, JoinActive(c) PROVE Waits'
  <2>1. /\ Joins(SessionOf[c]) /\ SessionOf[c] \in Sessions /\ call'[c].at = "abandon"
        /\ \A d \in Callers \ {c} : call'[d] = call[d]
        /\ UNCHANGED <<operation, canceled>>
    BY <1>t, <1>6, SessionsEffect, CallersEffect DEF JoinActive, coordinator, CallGoes
  <2>2. \A s \in Sessions : session'[s].active => session[s].active
    BY <2>1 DEF Joins, SessionBecomes, SameOwner
  <2> QED BY <2>1, <2>2, WaitsStay
<1>a. ASSUME NEW s \in Sessions, session[s].active, NEW fields, SameOwner(fields, session[s]),
             NEW cool \in BOOLEAN, SettlesTo(s, fields, cool)
      PROVE  \A u \in Sessions : session'[u].active => session[u].active
  BY <1>a DEF SettlesTo, SessionBecomes
<1>7. ASSUME NEW r \in Slots, NEW success \in BOOLEAN, Complete(r, success) PROVE Waits'
  <2>1. /\ slot[r].session \in Sessions /\ UNCHANGED <<operation, canceled, call>>
        /\ CountsOut(slot[r].session, slot[r].generation)
    BY <1>t, <1>7, CompleteEffect DEF Reservations
  <2>2. \A s \in Sessions : session'[s].active => session[s].active
    BY <1>a, <2>1 DEF CountsOut
  <2> QED BY <1>i, <2>1, <2>2
<1>8. ASSUME NEW s \in Sessions, NEW kind \in Kinds, Reset(s, kind) PROVE Waits'
  <2>1. UNCHANGED <<operation, canceled, call>>
        /\ \A u \in Sessions : session'[u].active => session[u].active
    BY <1>t, <1>8, <1>a, ResetEffect
  <2> QED BY <1>i, <2>1
<1>9. ASSUME NEW s \in Sessions, Close(s) PROVE Waits'
  <2>1. UNCHANGED <<operation, canceled, call>>
        /\ \A u \in Sessions : session'[u].active => session[u].active
    BY <1>t, <1>9, CloseEffect DEF SessionBecomes
  <2> QED BY <1>i, <2>1
<1>10. CASE FinishStep
  BY <1>i, <1>10 DEF FinishStep, FinishUnlease, FinishEnd, EndManual, coordinator
<1>11. CASE UNCHANGED vars
  BY <1>i, <1>11 DEF vars
<1> QED BY <1>1, <1>2, <1>3, <1>4, <1>5, <1>6, <1>7, <1>8, <1>9, <1>10, <1>11, NextCases
        DEF FinishStep

-----------------------------------------------------------------------------
(* What a session has in flight *)

LEMMA InFlightCounted ==
  ASSUME NEW s \in Sessions
  PROVE  IsFiniteSet(InFlight(s)) /\ Cardinality(InFlight(s)) \in Nat
<1>1. IsFiniteSet(Slots) /\ InFlight(s) \subseteq Slots
  BY BoundAssumption DEF InFlight
<1> QED BY <1>1, FS_Subset, FS_CardinalityType

\* The books of the sessions that a step does not touch stay as they are when no
\* slot of theirs changes.
LEMMA OtherFlights ==
  ASSUME FlightBooks, NEW s \in Sessions, NEW u \in Sessions, u # s, session'[u] = session[u],
         \A r \in Slots : slot'[r] # slot[r] =>
           (slot[r] = Free \/ slot[r].session = s) /\ (slot'[r] = Free \/ slot'[r].session = s)
  PROVE  InFlight(u)' = InFlight(u)
  BY DEF InFlight

FlightAt(s) ==
  IF session[s].active
  THEN /\ session[s].lease \in Leases
       /\ session[s].pending = Cardinality(InFlight(s))
       /\ session[s].pending > 0 \/ session[s].held # {}
  ELSE session[s].lease = Nobody /\ session[s].held = {}

\* The generations never run ahead of their session.
Generations ==
  \A r \in Slots : slot[r] # Free => slot[r].generation <= session[slot[r].session].generation

LEMMA FlightParts == FlightBooks <=> Generations /\ \A s \in Sessions : FlightAt(s)
  BY DEF FlightBooks, Generations, SessionBooks, FlightAt

\* A step on the session s keeps the books if it keeps those of s.
LEMMA OneSessionFlights ==
  ASSUME Typed, Typed', FlightBooks, NEW s \in Sessions, FlightAt(s)',
         \A u \in Sessions \ {s} : session'[u] = session[u],
         session'[s].generation >= session[s].generation,
         \A r \in Slots : slot'[r] # slot[r] =>
           /\ slot[r] = Free \/ slot[r].session = s
           /\ slot'[r] = Free \/ (slot'[r].session = s /\ slot'[r].generation <= session'[s].generation)
  PROVE  FlightBooks'
<1>1. ASSUME NEW u \in Sessions \ {s} PROVE FlightAt(u)'
  <2>1. FlightAt(u) /\ session'[u] = session[u]
    BY FlightParts
  <2>2. InFlight(u)' = InFlight(u)
    BY <2>1, OtherFlights
  <2> QED BY <2>1, <2>2 DEF FlightAt
<1>2. Generations'
  <2> SUFFICES ASSUME NEW r \in Slots, slot'[r] # Free
               PROVE  slot'[r].generation <= session'[slot'[r].session].generation
    BY DEF Generations
  <2>1. CASE slot'[r] # slot[r]
    BY <2>1
  <2>2. CASE slot'[r] = slot[r]
    <3>1. slot[r] \in Reservations
      BY <2>2, FreeType DEF Typed
    <3>2. slot[r].session \in Sessions /\ slot[r].generation \in Nat
      BY <3>1 DEF Reservations
    <3>3. slot[r].generation <= session[slot[r].session].generation
      BY <2>2, FlightParts DEF Generations
    <3>4. session[s].generation \in Nat /\ session'[s].generation \in Nat
      BY DEF Typed, TypeOK
    <3> QED BY <2>2, <3>2, <3>3, <3>4
  <2> QED BY <2>1, <2>2
<1> QED BY <1>1, <1>2 DEF FlightBooks, Generations, SessionBooks, FlightAt

\* A report that joins is one more in flight.
LEMMA JoinsFlights ==
  ASSUME Typed, Typed', FlightBooks, NEW s \in Sessions, Joins(s)
  PROVE  FlightBooks'
<1>1. PICK fields : /\ SameOwner(fields, session[s]) /\ SessionBecomes(s, fields)
                    /\ fields.pending = session[s].pending + 1
  BY DEF Joins
<1>2. PICK r \in Slots, x \in Reservations :
        /\ slot[r] = Free /\ slot' = [slot EXCEPT ![r] = x]
        /\ x # Free /\ x.session = s /\ x.generation = session[s].generation
  BY DEF Joins, SlotTaken
<1>3. /\ slot'[r] = x /\ \A q \in Slots \ {r} : slot'[q] = slot[q]
      /\ session'[s] = fields /\ \A u \in Sessions \ {s} : session'[u] = session[u]
      /\ fields.active /\ fields.generation = session[s].generation
      /\ fields.lease = session[s].lease
      /\ session[s].active /\ session[s].generation \in Nat
  BY <1>1, <1>2 DEF Joins, SessionBecomes, SameOwner, Typed, TypeOK
<1>4. InFlight(s)' = InFlight(s) \union {r} /\ r \notin InFlight(s)
  BY <1>2, <1>3 DEF InFlight
<1>5. Cardinality(InFlight(s)') = Cardinality(InFlight(s)) + 1
  BY <1>4, InFlightCounted, FS_AddElement
<1>6. FlightAt(s)
  BY FlightParts
<1>7. FlightAt(s)'
  BY <1>1, <1>3, <1>5, <1>6, InFlightCounted DEF FlightAt
<1> QED BY <1>2, <1>3, <1>7, OneSessionFlights

\* The first report of a generation is the only one in flight.
LEMMA ActivateFlights ==
  ASSUME Typed, Typed', LeaseBooks, FlightBooks, NEW c \in Callers, Activate(c)
  PROVE  FlightBooks'
<1> DEFINE s == SessionOf[c]
<1>1. s \in Sessions /\ Activates(c, s) /\ call[c].lease \in Leases
  <2>1. TypeOK /\ CallBooks /\ call[c].at = "ready"
    BY DEF Typed, LeaseBooks, Activate, At
  <2> QED BY <2>1, SessionsEffect DEF CallBooks, Holding, TypeOK
<1> HIDE DEF s
<1>2. PICK fields \in SessionRecord :
        /\ SessionBecomes(s, fields) /\ fields.active /\ fields.lease = call[c].lease
        /\ fields.generation = session[s].generation + 1 /\ fields.pending = 1
  BY <1>1 DEF Activates
<1>3. PICK r \in Slots, x \in Reservations :
        /\ slot[r] = Free /\ slot' = [slot EXCEPT ![r] = x]
        /\ x # Free /\ x.session = s /\ x.generation = session[s].generation + 1
  BY <1>1 DEF Activates, SlotTaken
<1>4. /\ slot'[r] = x /\ \A q \in Slots \ {r} : slot'[q] = slot[q]
      /\ session'[s] = fields /\ \A u \in Sessions \ {s} : session'[u] = session[u]
      /\ session[s].generation \in Nat
  BY <1>1, <1>2, <1>3 DEF SessionBecomes, Typed, TypeOK
<1>5. \A q \in Slots : slot[q] # Free /\ slot[q].session = s =>
        slot[q].generation \in Nat /\ slot[q].generation <= session[s].generation
  BY FreeType DEF FlightBooks, Reservations, Typed
<1>6. InFlight(s)' = {r}
  BY <1>1, <1>2, <1>3, <1>4, <1>5 DEF InFlight
<1>7. FlightAt(s)'
  <2>1. Cardinality(InFlight(s)') = 1
    BY <1>6, FS_Singleton
  <2> QED BY <1>1, <1>2, <1>4, <2>1 DEF FlightAt
<1> QED BY <1>1, <1>2, <1>3, <1>4, <1>7, OneSessionFlights

\* A session that settles keeps its books when its count follows its flights.
LEMMA SettlesFlights ==
  ASSUME Typed, Typed', LeaseBooks, FlightBooks, NEW s \in Sessions, session[s].active,
         NEW fields, SameOwner(fields, session[s]), NEW cool \in BOOLEAN,
         SettlesTo(s, fields, cool), fields.pending = Cardinality(InFlight(s)'),
         \A r \in Slots : slot'[r] # slot[r] =>
           slot'[r] = Free /\ (slot[r] = Free \/ slot[r].session = s)
  PROVE  FlightBooks'
<1>1. /\ fields \in SessionRecord /\ fields.active
      /\ fields.lease = session[s].lease /\ fields.generation = session[s].generation
      /\ session[s].lease \in Leases /\ session[s].generation \in Nat
  BY DEF SameOwner, Typed, TypeOK, LeaseBooks, ActiveBooks
<1>2. \A u \in Sessions \ {s} : session'[u] = session[u]
  BY DEF SettlesTo, SessionBecomes
<1>3. session'[s].generation = session[s].generation
  BY <1>1 DEF SettlesTo, SessionBecomes
<1>4. FlightAt(s)'
  <2>1. CASE ~IsIdle(fields) /\ SessionBecomes(s, fields)
    <3>1. fields.pending \in Nat /\ (fields.pending > 0 \/ fields.held # {})
      BY <1>1, <2>1 DEF IsIdle, SessionRecord
    <3> QED BY <1>1, <2>1, <3>1 DEF SessionBecomes, FlightAt
  <2>2. CASE ~(~IsIdle(fields) /\ SessionBecomes(s, fields))
    BY <2>2 DEF SettlesTo, SessionBecomes, FlightAt
  <2> QED BY <2>1, <2>2
<1> QED BY <1>1, <1>2, <1>3, <1>4, OneSessionFlights

LEMMA CompleteFlights ==
  ASSUME Typed, Typed', LeaseBooks, FlightBooks, NEW r \in Slots, NEW success \in BOOLEAN,
         Complete(r, success)
  PROVE  FlightBooks'
<1> PICK s : s = slot[r].session
  OBVIOUS
<1>1. /\ slot[r] \in Reservations /\ slot[r] # Free /\ s \in Sessions
      /\ slot'[r] = Free /\ \A q \in Slots \ {r} : slot'[q] = slot[q]
      /\ CountsOut(s, slot[r].generation)
  BY CompleteEffect DEF Reservations, Typed, TypeOK, Complete
<1>2. session[s].generation \in Nat
  BY <1>1 DEF Typed, TypeOK
<1>3. CASE session[s].active /\ slot[r].generation = session[s].generation
  <2>1. PICK fields : \E cool \in BOOLEAN :
          /\ SameOwner(fields, session[s]) /\ SettlesTo(s, fields, cool)
          /\ fields.pending = IF session[s].pending > 0
                              THEN session[s].pending - 1 ELSE session[s].pending
    BY <1>1, <1>3, Zenon DEF CountsOut
  <2>2. session'[s].generation = session[s].generation
    BY <1>1, <2>1 DEF SettlesTo, SessionBecomes, SameOwner
  <2>3. InFlight(s)' = InFlight(s) \ {r} /\ r \in InFlight(s)
    BY <1>1, <1>3, <2>2 DEF InFlight
  <2>4. Cardinality(InFlight(s)') = Cardinality(InFlight(s)) - 1
    <3>1. IsFiniteSet(InFlight(s))
      BY <1>1, InFlightCounted
    <3>2. Cardinality(InFlight(s) \ {r}) = Cardinality(InFlight(s)) - 1
      BY <2>3, <3>1, FS_RemoveElement
    <3> QED BY <2>3, <3>2
  <2>5. Cardinality(InFlight(s)) # 0
    BY <1>1, <2>3, InFlightCounted, FS_EmptySet
  <2>6. FlightAt(s)
    BY <1>1, FlightParts
  <2>7. fields.pending = Cardinality(InFlight(s)')
    BY <1>1, <1>3, <2>1, <2>4, <2>5, <2>6, InFlightCounted DEF FlightAt
  <2> QED BY <1>1, <1>3, <2>1, <2>7, SettlesFlights
<1>4. CASE ~(session[s].active /\ slot[r].generation = session[s].generation)
  <2>1. UNCHANGED session
    BY <1>1, <1>4 DEF CountsOut
  <2>2. FlightAt(s)
    BY <1>1, FlightParts
  <2>3. session[s].active => InFlight(s)' = InFlight(s)
    BY <1>1, <1>4, <2>1 DEF InFlight
  <2>4. FlightAt(s)'
    BY <1>1, <2>1, <2>2, <2>3 DEF FlightAt
  <2> QED BY <1>1, <1>2, <2>1, <2>4, OneSessionFlights
<1> QED BY <1>3, <1>4

LEMMA StepFlights ==
  ASSUME Typed, Typed', LeaseBooks, FlightBooks, [Next]_vars PROVE FlightBooks'
<1>t. TypeOK /\ CallBooks
  BY DEF Typed, LeaseBooks
<1>i. ASSUME UNCHANGED <<session, slot>> PROVE FlightBooks'
  BY <1>i DEF FlightBooks, SessionBooks, InFlight
<1>1. CASE ToolsStep
  BY <1>1, <1>i DEF ToolsStep, LeaseTool, BeginMCP, RefuseMCP, EndOperation, UnleaseTool,
        CancelMCP, CooldownOver, SwitchMode
<1>2. CASE CallersStep
  BY <1>2, <1>i DEF CallersStep, AskControl, LeaseManual, RefuseManual, BeginManual,
        OperationDone, PreemptTimeout, FindClosed, Abandon, UnleaseCaller
<1>3. ASSUME NEW c \in Callers, NEW report \in Reports, ReserveActive(c, report) PROVE FlightBooks'
  BY <1>t, <1>3, SessionsEffect, JoinsFlights
<1>4. ASSUME NEW c \in Callers, Activate(c) PROVE FlightBooks'
  BY <1>4, ActivateFlights
<1>5. ASSUME NEW c \in Callers, JoinActive(c) PROVE FlightBooks'
  BY <1>t, <1>5, SessionsEffect, JoinsFlights
<1>6. ASSUME NEW r \in Slots, NEW success \in BOOLEAN, Complete(r, success) PROVE FlightBooks'
  BY <1>6, CompleteFlights
<1>7. ASSUME NEW s \in Sessions, NEW kind \in Kinds, Reset(s, kind) PROVE FlightBooks'
  <2>1. PICK fields : /\ SameOwner(fields, session[s]) /\ SettlesTo(s, fields, TRUE)
                      /\ fields.pending = session[s].pending
    BY <1>t, <1>7, ResetEffect
  <2>2. session[s].active /\ UNCHANGED slot
    BY <1>t, <1>7, ResetEffect
  <2>3. session'[s].generation = session[s].generation
    BY <2>1 DEF SettlesTo, SessionBecomes, SameOwner
  <2>4. InFlight(s)' = InFlight(s)
    BY <2>2, <2>3 DEF InFlight
  <2>5. fields.pending = Cardinality(InFlight(s)')
    BY <2>1, <2>2, <2>4, FlightParts DEF FlightAt
  <2> QED BY <2>1, <2>2, <2>5, SettlesFlights
<1>8. ASSUME NEW s \in Sessions, Close(s) PROVE FlightBooks'
  <2>1. PICK fields \in SessionRecord :
          /\ SessionBecomes(s, fields)
          /\ ~fields.active /\ fields.lease = Nobody /\ fields.held = {}
          /\ fields.generation = session[s].generation + 1
    BY <1>t, <1>8, CloseEffect
  <2>2. UNCHANGED slot
    BY <1>8 DEF Close
  <2>3. FlightAt(s)' /\ session[s].generation \in Nat
    BY <2>1 DEF SessionBecomes, FlightAt, Typed, TypeOK
  <2> QED BY <2>1, <2>2, <2>3, OneSessionFlights DEF SessionBecomes
<1>9. CASE FinishStep
  BY <1>9, <1>i DEF FinishStep, FinishUnlease, FinishEnd
<1>10. CASE UNCHANGED vars
  BY <1>10, <1>i DEF vars
<1> QED BY <1>1, <1>2, <1>3, <1>4, <1>5, <1>6, <1>7, <1>8, <1>9, <1>10, NextCases DEF FinishStep

-----------------------------------------------------------------------------
(* The invariant and the theorems *)

LEMMA InitIInv == Init => IInv
<1> SUFFICES ASSUME Init PROVE IInv
  OBVIOUS
<1>1. Typed
  BY InitType
<1>2. /\ \A c \in Callers : call[c] = Idle
      /\ \A s \in Sessions : /\ ~session[s].active /\ session[s].lease = Nobody
                             /\ session[s].held = {}
      /\ \A r \in Slots : slot[r] = Free
      /\ \A t \in Tools : tpc[t] = "idle"
      /\ \A a \in Leases \union Tools : lease[a] = "none"
      /\ finishing = {} /\ operation = Nobody /\ manualSessions = 0
  BY DEF Init, NewSession, Gate!Init, Gate!NoLeases
<1>3. Idle.at = "idle" /\ Idle.lease = Nobody
  BY IdleType
<1>4. Books
  BY <1>1, <1>2, <1>3, ToolsAssumption
     DEF Typed, Books, ArbiterBooks, ToolBooks, CallBooks, ActiveBooks, LeasesApart, LeasesOut, Holding
<1>5. Preempting = {} /\ ActiveSessions = {} /\ finishing = {}
  BY <1>2, <1>3 DEF Preempting, ActiveSessions
<1>6. ManualAccounting
  BY <1>2, <1>5, FS_EmptySet DEF ManualAccounting
<1>7. Exclusion /\ WaitedForIsCanceled /\ FlightBooks
  BY <1>2, <1>3 DEF Exclusion, WaitedForIsCanceled, FlightBooks, SessionBooks
<1> QED BY <1>4, <1>6, <1>7 DEF IInv

LEMMA StepIInv == ASSUME IInv, [Next]_vars PROVE IInv'
<1>1. /\ Typed /\ TypeOK /\ LeaseBooks /\ CallBooks /\ ActiveBooks /\ ArbiterBooks /\ ToolBooks
      /\ ManualAccounting /\ Waits /\ FlightBooks
  BY DEF IInv, Books, Typed, LeaseBooks, Waits
<1>2. Typed'
  BY <1>1, StepType
<1>3. LeaseBooks' /\ ArbiterBooks' /\ ToolBooks'
  BY <1>1, StepLeases, StepTools
<1>4. ManualAccounting' /\ Waits' /\ FlightBooks'
  BY <1>1, <1>2, StepCount, StepWaits, StepFlights
<1> QED BY <1>2, <1>3, <1>4 DEF IInv, Books, Typed, LeaseBooks, Waits

LEMMA Invariance == Spec => []IInv
<1>1. IInv /\ UNCHANGED vars => IInv'
  BY StepIInv
<1> QED BY InitIInv, StepIInv, PTL DEF Spec

\* Every variable keeps its type: the fields of sessions and calls, the leases of
\* the calls of finish, the reservations in the slots.
THEOREM TypeCorrect == Spec => []TypeOK
<1>1. IInv => TypeOK
  BY DEF IInv, Books
<1> QED BY <1>1, Invariance, PTL

\* However many tools, callers and sessions there are, nobody operates beside a
\* person, and no two operate at once (Coordinator.BeginMCP, ManualSession.reserve).
THEOREM GadgetIsExclusive == Spec => []HidExclusion
<1>1. IInv => HidExclusion
  BY ToolsAssumption
     DEF IInv, Books, ToolBooks, Exclusion, HidExclusion, Operating, ActiveSessions, Ready, TypeOK
<1> QED BY <1>1, Invariance, PTL

\* The count of people at the controls is exact after every path that reserve,
\* Complete, Reset, Close and finish can take (Coordinator.manualSessions).
THEOREM CountIsExact == Spec => []ManualAccounting
<1>1. IInv => ManualAccounting
  BY DEF IInv
<1> QED BY <1>1, Invariance, PTL

\* A caller never waits for an operation that was not told to stop (beginManual).
THEOREM WaitIsForCanceled == Spec => []WaitedForIsCanceled
<1>1. IInv => WaitedForIsCanceled
  BY DEF IInv
<1> QED BY <1>1, Invariance, PTL

\* An MCP tool that has the gadget works in the mode mcp (toolExecutor.begin).
THEOREM ToolsWorkInMCP == Spec => []OperationsRunInMCP
<1>1. IInv => OperationsRunInMCP
  BY DEF IInv, Books, ToolBooks, ArbiterBooks, OperationsRunInMCP, Operating
<1> QED BY <1>1, Invariance, PTL

\* The fields of a session agree with each other and with the reservations that
\* are out (finishIfIdleLocked, Complete, Reset, Close).
THEOREM SessionsAddUp == Spec => []SessionBooks
<1>1. IInv => SessionBooks
  BY DEF IInv, FlightBooks
<1> QED BY <1>1, Invariance, PTL
=============================================================================
