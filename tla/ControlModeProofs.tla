-------------------------- MODULE ControlModeProofs --------------------------
(***************************************************************************)
(* Proofs about ControlMode, for any number of users and switchers, any    *)
(* requests and any edits of the file: the type invariant, the accounting  *)
(* of the gate, and that the manager implements ModeArbiter.               *)
(***************************************************************************)
EXTENDS ControlMode, FiniteSetTheorems, TLAPS

-----------------------------------------------------------------------------
(* Lemmas on the operators *)

\* Every content of the file is read as a mode.
LEMMA EffectiveType == ASSUME NEW c PROVE Effective(c) \in Modes
  BY DefaultAssumption DEF Effective, Modes

LEMMA LoadType ==
  ASSUME TypeOK, Load
  PROVE  mode' \in Modes /\ loaded' \in BOOLEAN /\ fresh' \in BOOLEAN
  BY EffectiveType DEF TypeOK, Load, CurrentMode

LEMMA SaveType ==
  ASSUME TypeOK, NEW m \in Modes, NEW outcome \in SaveOutcomes, Save(m, outcome)
  PROVE  /\ mode' \in Modes /\ loaded' \in BOOLEAN /\ fresh' \in BOOLEAN
         /\ file' \in Contents /\ disk' \in Contents
  BY DEF TypeOK, Save, Contents

LEMMA NoRequestType == NoRequest \in [next : Modes, expected : Modes \union {"any"}]
  BY DEF NoRequest, Modes

-----------------------------------------------------------------------------
(* Every action is one of these: a flat view of Next *)

LEMMA NextCases ==
  ASSUME Next
  PROVE  \/ \E u \in Users, w \in Expectations : CheckMode(u, w)
         \/ \E u \in Users : EnterGate(u)
         \/ \E u \in Users : ConfirmLease(u)
         \/ \E u \in Users : RefuseLease(u)
         \/ \E u \in Users : LeaveGate(u)
         \/ ReadStatus
         \/ \E s \in Switchers, r \in Requests : RequestSwitch(s, r)
         \/ \E s \in Switchers : LockTransition(s)
         \/ \E s \in Switchers : SkipSwitch(s)
         \/ \E s \in Switchers : MarkTransition(s)
         \/ \E s \in Switchers, ok \in BOOLEAN : Preempt(s, ok)
         \/ \E s \in Switchers : TakeExclusive(s)
         \/ \E s \in Switchers : WaitForLeases(s)
         \/ \E s \in Switchers : DrainTimeout(s)
         \/ \E s \in Switchers, ok \in BOOLEAN : Cleanup(s, ok)
         \/ \E s \in Switchers, outcome \in SaveOutcomes : SaveMode(s, outcome)
         \/ \E s \in Switchers, outcome \in SaveOutcomes : Rollback(s, outcome)
         \/ \E s \in Switchers : ReopenGate(s)
         \/ \E s \in Switchers : UnmarkTransition(s)
         \/ \E content \in Edits : EditFile(content)
         \/ \E content \in Contents : Restart(content)
  BY DEF Next, UserStep, SwitchStep, StartSwitch

-----------------------------------------------------------------------------
(* Type correctness *)

LEMMA InitType == Init => TypeOK
<1> SUFFICES ASSUME Init PROVE TypeOK
  OBVIOUS
<1>1. mode \in Modes /\ file \in Contents /\ disk \in Contents
  BY DEF Init, Modes
<1>2. loaded \in BOOLEAN /\ fresh \in BOOLEAN /\ transitioning \in BOOLEAN /\ exclusive \in BOOLEAN
  BY DEF Init
<1>3. active \in Nat /\ lock \in Switchers \union {NoOne}
  BY DEF Init
<1>4. /\ upc \in [Users -> UserPlaces]
      /\ want \in [Users -> Expectations \union {"any"}]
      /\ granted \in [Users -> Modes \union {"none"}]
  BY DEF Init, UserPlaces
<1>5. spc \in [Switchers -> SwitchPlaces] /\ req \in [Switchers -> Requests \union {NoRequest}]
  BY DEF Init, SwitchPlaces
<1>6. QED
  BY <1>1, <1>2, <1>3, <1>4, <1>5 DEF TypeOK

LEMMA StepType == ASSUME TypeOK, [Next]_vars PROVE TypeOK'
<1> USE DEF TypeOK, manager, gate, storage, users, switchers, UserPlaces, SwitchPlaces, Goto
<1>1. CASE \E u \in Users, w \in Expectations : CheckMode(u, w)
  BY <1>1, LoadType DEF CheckMode
<1>2. CASE \E u \in Users : EnterGate(u)
  BY <1>2 DEF EnterGate
<1>3. CASE \E u \in Users : ConfirmLease(u)
  <2>1. PICK u \in Users : ConfirmLease(u)
    BY <1>3
  <2>2. mode' \in Modes /\ loaded' \in BOOLEAN /\ fresh' \in BOOLEAN
    BY <2>1, LoadType DEF ConfirmLease
  <2>3. (IF want[u] = "any" THEN mode' ELSE want[u]) \in Modes
    BY <2>2, InputsAssumption
  <2>4. QED
    BY <2>1, <2>2, <2>3 DEF ConfirmLease
<1>4. CASE \E u \in Users : RefuseLease(u)
  BY <1>4, LoadType DEF RefuseLease, LoadFails
<1>5. CASE \E u \in Users : LeaveGate(u)
  BY <1>5 DEF LeaveGate
<1>6. CASE ReadStatus
  BY <1>6, LoadType DEF ReadStatus
<1>7. CASE \E s \in Switchers, r \in Requests : RequestSwitch(s, r)
  BY <1>7 DEF RequestSwitch
<1>8. CASE \E s \in Switchers : LockTransition(s)
  BY <1>8, LoadType DEF LockTransition
<1>9. CASE \E s \in Switchers : SkipSwitch(s)
  BY <1>9, LoadType DEF SkipSwitch, LoadFails
<1>10. CASE \E s \in Switchers : MarkTransition(s)
  BY <1>10 DEF MarkTransition
<1>11. CASE \E s \in Switchers, ok \in BOOLEAN : Preempt(s, ok)
  BY <1>11 DEF Preempt
<1>12. CASE \E s \in Switchers : TakeExclusive(s)
  BY <1>12 DEF TakeExclusive
<1>13. CASE \E s \in Switchers : WaitForLeases(s)
  BY <1>13 DEF WaitForLeases
<1>14. CASE \E s \in Switchers : DrainTimeout(s)
  BY <1>14 DEF DrainTimeout
<1>15. CASE \E s \in Switchers, ok \in BOOLEAN : Cleanup(s, ok)
  BY <1>15 DEF Cleanup
<1>16. CASE \E s \in Switchers, outcome \in SaveOutcomes : SaveMode(s, outcome)
  <2>1. PICK s \in Switchers, outcome \in SaveOutcomes : SaveMode(s, outcome)
    BY <1>16
  <2>2. req[s].next \in Modes
    BY InputsAssumption, NoRequestType
  <2>3. QED
    BY <2>1, <2>2, SaveType DEF SaveMode
<1>17. CASE \E s \in Switchers, outcome \in SaveOutcomes : Rollback(s, outcome)
  <2>1. PICK s \in Switchers, outcome \in SaveOutcomes : Rollback(s, outcome)
    BY <1>17
  <2>2. "off" \in Modes
    BY DEF Modes
  <2>3. QED
    BY <2>1, <2>2, SaveType DEF Rollback
<1>18. CASE \E s \in Switchers : ReopenGate(s)
  BY <1>18 DEF ReopenGate
<1>19. CASE \E s \in Switchers : UnmarkTransition(s)
  BY <1>19 DEF UnmarkTransition
<1>20. CASE \E content \in Edits : EditFile(content)
  BY <1>20, InputsAssumption DEF EditFile
<1>21. CASE \E content \in Contents : Restart(content)
  <2>1. PICK content \in Contents : Restart(content)
    BY <1>21
  <2>2. /\ mode' \in Modes /\ file' \in Contents /\ disk' \in Contents
    BY <2>1 DEF Restart, Modes
  <2>3. /\ loaded' \in BOOLEAN /\ fresh' \in BOOLEAN /\ transitioning' \in BOOLEAN
        /\ exclusive' \in BOOLEAN /\ active' \in Nat /\ lock' \in Switchers \union {NoOne}
    BY <2>1 DEF Restart
  <2>4. /\ upc' \in [Users -> UserPlaces]
        /\ want' \in [Users -> Expectations \union {"any"}]
        /\ granted' \in [Users -> Modes \union {"none"}]
        /\ spc' \in [Switchers -> SwitchPlaces]
        /\ req' \in [Switchers -> Requests \union {NoRequest}]
    BY <2>1 DEF Restart
  <2>5. QED
    BY <2>2, <2>3, <2>4
<1>22. CASE UNCHANGED vars
  BY <1>22 DEF vars
<1>23. QED
  BY <1>1, <1>2, <1>3, <1>4, <1>5, <1>6, <1>7, <1>8, <1>9, <1>10, <1>11, <1>12,
     <1>13, <1>14, <1>15, <1>16, <1>17, <1>18, <1>19, <1>20, <1>21, <1>22, NextCases

\* The manager's variables keep their types: the counter of the gate stays a
\* natural number and the mode is always one of the three.
THEOREM TypeCorrect == Spec => []TypeOK
  BY InitType, StepType, PTL DEF Spec

-----------------------------------------------------------------------------
(* The gate *)

Count == active = Cardinality(InGate)

LEMMA InGateFinite == IsFiniteSet(InGate) /\ Cardinality(InGate) \in Nat
  BY UsersAssumption, FS_Subset, FS_CardinalityType DEF InGate

\* The steps that move nobody across the gate.
LEMMA InGateSame == ASSUME upc' = upc PROVE InGate' = InGate /\ Holders' = Holders
  BY DEF InGate, Holders

LEMMA StepCount == ASSUME TypeOK, Count, [Next]_vars PROVE Count'
<1> USE DEF users, gate
<1>1. CASE \E u \in Users, w \in Expectations : CheckMode(u, w)
  <2>1. InGate' = InGate
    BY <1>1 DEF CheckMode, InGate, TypeOK
  <2>2. active' = active
    BY <1>1 DEF CheckMode
  <2>3. QED
    BY <2>1, <2>2 DEF Count
<1>2. CASE \E u \in Users : EnterGate(u)
  <2>1. PICK u \in Users : EnterGate(u)
    BY <1>2
  <2>2. InGate' = InGate \union {u} /\ u \notin InGate
    BY <2>1 DEF EnterGate, InGate, TypeOK
  <2>3. Cardinality(InGate \union {u}) = Cardinality(InGate) + 1
    BY <2>2, InGateFinite, FS_AddElement
  <2>4. QED
    BY <2>1, <2>2, <2>3 DEF EnterGate, Count
<1>3. CASE \E u \in Users : ConfirmLease(u) \/ RefuseLease(u)
  <2>1. InGate' = InGate
    BY <1>3 DEF ConfirmLease, RefuseLease, InGate, TypeOK
  <2>2. active' = active
    BY <1>3 DEF ConfirmLease, RefuseLease
  <2>3. QED
    BY <2>1, <2>2 DEF Count
<1>4. CASE \E u \in Users : LeaveGate(u)
  <2>1. PICK u \in Users : LeaveGate(u)
    BY <1>4
  <2>2. InGate' = InGate \ {u} /\ u \in InGate
    BY <2>1 DEF LeaveGate, InGate, TypeOK
  <2>3. /\ Cardinality(InGate \ {u}) = Cardinality(InGate) - 1
        /\ Cardinality(InGate \ {u}) \in Nat
    BY <2>2, InGateFinite, FS_RemoveElement, FS_CardinalityType
  <2>4. Cardinality(InGate) > 0
    BY <2>3, InGateFinite
  <2>5. QED
    BY <2>1, <2>2, <2>3, <2>4 DEF LeaveGate, Count
<1>5. CASE upc' = upc /\ active' = active
  BY <1>5, InGateSame DEF Count
<1>6. CASE \E content \in Contents : Restart(content)
  <2>1. InGate' = {} /\ active' = 0
    BY <1>6 DEF Restart, InGate
  <2>2. QED
    BY <2>1, FS_EmptySet DEF Count
<1>7. CASE UNCHANGED vars
  BY <1>7, InGateSame DEF vars, Count
<1>8. QED
  BY <1>1, <1>2, <1>3, <1>4, <1>5, <1>6, <1>7, NextCases
  DEF ReadStatus, RequestSwitch, LockTransition, SkipSwitch, MarkTransition, Preempt,
      TakeExclusive, WaitForLeases, DrainTimeout, Cleanup, SaveMode, Rollback,
      ReopenGate, UnmarkTransition, EditFile

\* Who is in a transition, who has closed the gate, and for whom.
Turns ==
  /\ \A s \in InTransition : lock = s
  /\ lock # NoOne => lock \in InTransition
  /\ exclusive <=> Closing # {}
  /\ exclusive => active = 0

LEMMA StepTurns == ASSUME TypeOK, Turns, [Next]_vars PROVE Turns'
<1> USE DEF users, gate, InTransition, Closing, Goto, SwitchPlaces
<1>1. CASE spc' = spc /\ lock' = lock /\ exclusive' = exclusive /\ active' = active
  BY <1>1 DEF Turns
<1>2. CASE \E u \in Users : EnterGate(u)
  BY <1>2 DEF EnterGate, switchers, Turns
<1>3. CASE \E u \in Users : LeaveGate(u)
  BY <1>3 DEF LeaveGate, switchers, Turns, TypeOK
<1>4. CASE \E s \in Switchers, r \in Requests : RequestSwitch(s, r)
  BY <1>4, NoOneAssumption DEF RequestSwitch, Turns, TypeOK
<1>5. CASE \E s \in Switchers : LockTransition(s)
  BY <1>5, NoOneAssumption DEF LockTransition, Turns, TypeOK
<1>6. CASE \E s \in Switchers : SkipSwitch(s)
  BY <1>6, NoOneAssumption DEF SkipSwitch, Turns, TypeOK
<1>7. CASE \E s \in Switchers : MarkTransition(s)
  BY <1>7 DEF MarkTransition, Turns, TypeOK
<1>8. CASE \E s \in Switchers, ok \in BOOLEAN : Preempt(s, ok)
  BY <1>8 DEF Preempt, Turns, TypeOK
<1>9. CASE \E s \in Switchers : TakeExclusive(s)
  BY <1>9 DEF TakeExclusive, Turns, TypeOK
<1>10. CASE \E s \in Switchers : WaitForLeases(s) \/ DrainTimeout(s)
  BY <1>10 DEF WaitForLeases, DrainTimeout, Turns, TypeOK
<1>11. CASE \E s \in Switchers, ok \in BOOLEAN : Cleanup(s, ok)
  BY <1>11 DEF Cleanup, Turns, TypeOK
<1>12. CASE \E s \in Switchers, outcome \in SaveOutcomes : SaveMode(s, outcome) \/ Rollback(s, outcome)
  BY <1>12 DEF SaveMode, Rollback, Turns, TypeOK
<1>13. CASE \E s \in Switchers : ReopenGate(s)
  BY <1>13 DEF ReopenGate, Turns, TypeOK
<1>14. CASE \E s \in Switchers : UnmarkTransition(s)
  BY <1>14, NoOneAssumption DEF UnmarkTransition, Turns, TypeOK
<1>15. CASE \E content \in Contents : Restart(content)
  BY <1>15 DEF Restart, Turns
<1>16. CASE UNCHANGED vars
  BY <1>16 DEF vars, Turns
<1>17. QED
  BY <1>1, <1>2, <1>3, <1>4, <1>5, <1>6, <1>7, <1>8, <1>9, <1>10, <1>11, <1>12,
     <1>13, <1>14, <1>15, <1>16, NextCases
  DEF CheckMode, ConfirmLease, RefuseLease, ReadStatus, EditFile, switchers

\* Only a lease that is held is on the books, and none before the first load.
Books ==
  /\ \A u \in Users : granted[u] # "none" <=> upc[u] = "held"
  /\ ~loaded => Holders = {}

\* The inductive invariant: the two sides of the gate, the turns of the
\* switches and the leases on the books.
IInv == TypeOK /\ Count /\ Turns /\ Books

LEMMA NoneIsNoMode == "none" \notin Modes
  BY DEF Modes

\* A lease that is held is counted, so the closed gate has none inside.
LEMMA ClosedGateEmpty == ASSUME IInv, Closing # {} PROVE Holders = {}
<1>1. Cardinality(InGate) = 0
  BY DEF IInv, Count, Turns
<1>2. InGate = {}
  BY <1>1, InGateFinite, FS_EmptySet
<1>3. QED
  BY <1>2 DEF InGate, Holders

LEMMA StepBooks == ASSUME TypeOK, Books, [Next]_vars PROVE Books'
<1> USE DEF Books, Holders, users
<1>1. CASE \E u \in Users, w \in Expectations : CheckMode(u, w)
  BY <1>1 DEF CheckMode, Load, TypeOK
<1>2. CASE \E u \in Users : EnterGate(u)
  BY <1>2 DEF EnterGate, manager, TypeOK
<1>3. CASE \E u \in Users : ConfirmLease(u)
  <2>1. PICK u \in Users : ConfirmLease(u)
    BY <1>3
  <2>2. mode' \in Modes /\ loaded'
    BY <2>1, LoadType DEF ConfirmLease, Load
  <2>3. (IF want[u] = "any" THEN mode' ELSE want[u]) # "none"
    BY <2>2, InputsAssumption, NoneIsNoMode DEF TypeOK
  <2>4. QED
    BY <2>1, <2>2, <2>3 DEF ConfirmLease, TypeOK
<1>4. CASE \E u \in Users : RefuseLease(u)
  BY <1>4 DEF RefuseLease, Load, LoadFails, TypeOK
<1>5. CASE \E u \in Users : LeaveGate(u)
  BY <1>5 DEF LeaveGate, manager, TypeOK
<1>6. CASE users' = users /\ (loaded => loaded')
  BY <1>6 DEF TypeOK
<1>7. CASE \E content \in Contents : Restart(content)
  BY <1>7 DEF Restart
<1>8. CASE UNCHANGED vars
  BY <1>8 DEF vars
<1>9. QED
  BY <1>1, <1>2, <1>3, <1>4, <1>5, <1>6, <1>7, <1>8, NextCases
  DEF ReadStatus, RequestSwitch, LockTransition, SkipSwitch, MarkTransition, Preempt,
      TakeExclusive, WaitForLeases, DrainTimeout, Cleanup, SaveMode, Rollback,
      ReopenGate, UnmarkTransition, EditFile, Load, LoadFails, Save, manager

LEMMA InitIInv == Init => IInv
<1> SUFFICES ASSUME Init PROVE IInv
  OBVIOUS
<1>1. InGate = {} /\ Holders = {} /\ Closing = {} /\ InTransition = {}
  BY DEF Init, InGate, Holders, Closing, InTransition
<1>2. Count
  BY <1>1, FS_EmptySet DEF Init, Count
<1>3. Turns /\ Books
  BY <1>1 DEF Init, Turns, Books
<1>4. QED
  BY <1>2, <1>3, InitType DEF IInv

LEMMA StepIInv == ASSUME IInv, [Next]_vars PROVE IInv'
  BY StepType, StepCount, StepTurns, StepBooks DEF IInv

LEMMA Invariance == Spec => []IInv
  BY InitIInv, StepIInv, PTL DEF Spec

-----------------------------------------------------------------------------
(* The theorems *)

\* The gate's counter is the number of goroutines inside it, whatever path they
\* left by, and its exclusive side belongs to the switch that closed it.
THEOREM GateIsAccountedFor == Spec => []GateAccounting
<1>1. IInv => GateAccounting
  BY DEF IInv, Count, Turns, GateAccounting
<1>2. QED
  BY <1>1, Invariance, PTL

\* One transition at a time, and no lease is out while it cleans up or writes
\* the mode.
THEOREM TransitionsAreExclusive == Spec => []OneTransition
<1>1. IInv => OneTransition
  BY ClosedGateEmpty DEF IInv, Turns, OneTransition
<1>2. QED
  BY <1>1, Invariance, PTL

\* What happens to a manager whose file nobody edits: then what it has read is what
\* the file holds.
OwnNext ==
  \/ \E u \in Users : UserStep(u)
  \/ ReadStatus
  \/ \E s \in Switchers : \E r \in Requests : RequestSwitch(s, r)
  \/ \E s \in Switchers : StartSwitch(s) \/ SwitchStep(s)
  \/ \E content \in Contents : Restart(content)

Known == loaded => fresh

LEMMA OwnIsNext == [OwnNext]_vars => [Next]_vars
  BY DEF OwnNext, Next

LEMMA OwnCases ==
  ASSUME OwnNext
  PROVE  \/ \E u \in Users, w \in Expectations : CheckMode(u, w)
         \/ \E u \in Users : EnterGate(u)
         \/ \E u \in Users : ConfirmLease(u)
         \/ \E u \in Users : RefuseLease(u)
         \/ \E u \in Users : LeaveGate(u)
         \/ users' = users /\ (Load \/ UNCHANGED manager)
         \/ \E s \in Switchers, outcome \in SaveOutcomes : SaveMode(s, outcome) \/ Rollback(s, outcome)
         \/ \E content \in Contents : Restart(content)
  BY DEF OwnNext, UserStep, SwitchStep, StartSwitch, ReadStatus, RequestSwitch, LockTransition,
         SkipSwitch, MarkTransition, Preempt, TakeExclusive, WaitForLeases, DrainTimeout,
         Cleanup, ReopenGate, UnmarkTransition, LoadFails, manager

LEMMA StepKnown == ASSUME Known, [OwnNext]_vars PROVE Known'
<1> USE DEF Known
<1>1. CASE Load
  BY <1>1 DEF Load, KeepsMode
<1>2. CASE UNCHANGED manager
  BY <1>2 DEF manager
<1>3. CASE \E content \in Contents : Restart(content)
  BY <1>3 DEF Restart
<1>4. CASE \E s \in Switchers, outcome \in SaveOutcomes : SaveMode(s, outcome) \/ Rollback(s, outcome)
  BY <1>4 DEF SaveMode, Rollback, Save
<1>5. CASE UNCHANGED vars
  BY <1>5 DEF vars
<1>6. QED
  BY <1>1, <1>2, <1>3, <1>4, <1>5, OwnCases
  DEF CheckMode, EnterGate, ConfirmLease, RefuseLease, LeaveGate, LoadFails, manager

LEMMA StepStable ==
  ASSUME IInv, Known, LeaseHoldsMode, [OwnNext]_vars
  PROVE  LeaseHoldsMode'
<1> USE DEF LeaseHoldsMode, Known, users, Holders
<1>1. CASE \E u \in Users, w \in Expectations : CheckMode(u, w)
  BY <1>1 DEF CheckMode, Load, CurrentMode, KeepsMode, IInv, Books, TypeOK
<1>2. CASE \E u \in Users : EnterGate(u)
  BY <1>2 DEF EnterGate, manager, IInv, TypeOK
<1>3. CASE \E u \in Users : ConfirmLease(u)
  BY <1>3 DEF ConfirmLease, Admits, Load, CurrentMode, KeepsMode, IInv, Books, TypeOK
<1>4. CASE \E u \in Users : RefuseLease(u)
  BY <1>4 DEF RefuseLease, LoadFails, Load, CurrentMode, KeepsMode, IInv, Books, TypeOK
<1>5. CASE \E u \in Users : LeaveGate(u)
  BY <1>5 DEF LeaveGate, manager, IInv, TypeOK
<1>6. CASE users' = users /\ (Load \/ UNCHANGED manager)
  BY <1>6 DEF Load, CurrentMode, KeepsMode, manager, IInv, Books
<1>7. CASE \E s \in Switchers, outcome \in SaveOutcomes : SaveMode(s, outcome) \/ Rollback(s, outcome)
  <2>1. PICK s \in Switchers, outcome \in SaveOutcomes : SaveMode(s, outcome) \/ Rollback(s, outcome)
    BY <1>7
  <2>2. s \in Closing
    BY <2>1 DEF SaveMode, Rollback, Closing
  <2>3. Holders = {}
    BY <2>2, ClosedGateEmpty
  <2>4. QED
    BY <2>1, <2>3 DEF SaveMode, Rollback
<1>8. CASE \E content \in Contents : Restart(content)
  BY <1>8 DEF Restart
<1>9. CASE UNCHANGED vars
  BY <1>9 DEF vars
<1>10. QED
  BY <1>1, <1>2, <1>3, <1>4, <1>5, <1>6, <1>7, <1>8, <1>9, OwnCases

\* As long as nobody edits the mode file behind the manager's back, the mode
\* does not change under a lease.
THEOREM LeasesAreStable == ASSUME Edits = {} PROVE Spec => []LeaseHoldsMode
<1>1. Init => IInv /\ Known /\ LeaseHoldsMode
  BY InitIInv DEF Init, Known, LeaseHoldsMode
<1>2. [Next]_vars => [OwnNext]_vars
  BY DEF Next, OwnNext
<1>3. IInv /\ Known /\ LeaseHoldsMode /\ [Next]_vars => (IInv /\ Known /\ LeaseHoldsMode)'
  BY <1>2, StepIInv, StepKnown, StepStable
<1>4. QED
  BY <1>1, <1>3, PTL DEF Spec

-----------------------------------------------------------------------------
(* The manager implements the arbiter *)

SeenMode == IF loaded THEN mode ELSE Effective(file)
SeenForeign == loaded /\ ~fresh

\* A step that leaves the leases and the file alone, and at most loads the file.
LEMMA LoadRefines ==
  ASSUME TypeOK, granted' = granted, file' = file, Load \/ UNCHANGED manager
  PROVE  [Arbiter!Next]_(Arbiter!vars)
<1>1. CASE UNCHANGED manager
  BY <1>1 DEF manager, Arbiter!vars
<1>2. CASE Load /\ (KeepsMode \/ ~loaded)
  <2>1. SeenMode' = SeenMode /\ SeenForeign' = SeenForeign
    BY <1>2 DEF Load, KeepsMode, CurrentMode, SeenMode, SeenForeign
  <2>2. QED
    BY <2>1 DEF SeenMode, SeenForeign, Arbiter!vars
<1>3. CASE Load /\ loaded /\ ~KeepsMode
  <2>1. SeenForeign /\ SeenMode' = mode' /\ mode' \in Modes /\ SeenForeign' = FALSE
    BY <1>3, LoadType DEF Load, KeepsMode, SeenMode, SeenForeign, TypeOK
  <2>2. Arbiter!Adopt(mode')
    BY <2>1 DEF SeenMode, SeenForeign, Arbiter!Adopt, Arbiter!TakesEdit
  <2>3. QED
    BY <2>1, <2>2 DEF Arbiter!Next
<1>4. QED
  BY <1>1, <1>2, <1>3

LEMMA SaveRefines ==
  ASSUME IInv, Holders = {}, granted' = granted,
         NEW m \in Modes, NEW outcome \in SaveOutcomes, Save(m, outcome)
  PROVE  [Arbiter!Next]_(Arbiter!vars)
<1>1. CASE outcome = "failed"
  BY <1>1 DEF Save, Arbiter!vars
<1>2. CASE outcome # "failed"
  <2>1. SeenMode' = m /\ SeenForeign' = FALSE
    BY <1>2 DEF Save, SeenMode, SeenForeign
  <2>2. granted = [u \in Users |-> "none"]
    BY DEF IInv, Books, Holders, TypeOK
  <2>3. Arbiter!Change(m)
    BY <2>1, <2>2 DEF SeenMode, SeenForeign, Arbiter!Change, Arbiter!NoLeases
  <2>4. QED
    BY <2>3 DEF Arbiter!Next
<1>3. QED
  BY <1>1, <1>2

LEMMA ConfirmRefines ==
  ASSUME IInv, NEW u \in Users, ConfirmLease(u)
  PROVE  [Arbiter!Next]_(Arbiter!vars)
<1>1. granted[u] = "none"
  BY DEF ConfirmLease, IInv, Books, TypeOK
<1>2. mode' \in Modes /\ loaded' /\ SeenMode' = mode'
  BY LoadType DEF ConfirmLease, Load, SeenMode, IInv
<1>3. granted' = [granted EXCEPT ![u] = SeenMode']
  BY <1>2 DEF ConfirmLease, Admits, Load
<1>4. \/ SeenMode' = SeenMode /\ SeenForeign' = SeenForeign
      \/ SeenForeign /\ SeenForeign' = FALSE /\ SeenMode' \in Modes
  BY <1>2 DEF ConfirmLease, storage, Load, KeepsMode, CurrentMode, SeenMode, SeenForeign, IInv, TypeOK
<1>5. Arbiter!Grant(u)
  BY <1>1, <1>3, <1>4 DEF SeenMode, SeenForeign, Arbiter!Grant, Arbiter!TakesEdit
<1>6. QED
  BY <1>5 DEF Arbiter!Next

LEMMA LeaveRefines ==
  ASSUME IInv, NEW u \in Users, LeaveGate(u)
  PROVE  [Arbiter!Next]_(Arbiter!vars)
<1>1. SeenMode' = SeenMode /\ SeenForeign' = SeenForeign /\ granted' = [granted EXCEPT ![u] = "none"]
  BY DEF LeaveGate, manager, storage, SeenMode, SeenForeign
<1>2. CASE granted[u] = "none"
  <2>1. granted' = granted
    BY <1>1, <1>2 DEF IInv, TypeOK
  <2>2. QED
    BY <1>1, <2>1 DEF SeenMode, SeenForeign, Arbiter!vars
<1>3. CASE granted[u] # "none"
  <2>1. Arbiter!Return(u)
    BY <1>1, <1>3 DEF SeenMode, SeenForeign, Arbiter!Return
  <2>2. QED
    BY <2>1 DEF Arbiter!Next
<1>4. QED
  BY <1>2, <1>3

LEMMA EditRefines ==
  ASSUME IInv, NEW content \in Edits, EditFile(content)
  PROVE  [Arbiter!Next]_(Arbiter!vars)
<1>1. CASE loaded
  <2>1. SeenMode' = SeenMode /\ SeenForeign' = TRUE /\ granted' = granted
    BY <1>1 DEF EditFile, users, SeenMode, SeenForeign
  <2>2. Arbiter!Edit
    BY <2>1 DEF SeenMode, SeenForeign, Arbiter!Edit
  <2>3. QED
    BY <2>2 DEF Arbiter!Next
<1>2. CASE ~loaded
  <2>1. SeenMode' = Effective(content) /\ SeenForeign' = FALSE /\ granted' = granted
    BY <1>2 DEF EditFile, users, SeenMode, SeenForeign
  <2>2. granted = [u \in Users |-> "none"]
    BY <1>2 DEF IInv, Books, Holders, TypeOK
  <2>3. Arbiter!Change(Effective(content))
    BY <2>1, <2>2 DEF SeenMode, SeenForeign, Arbiter!Change, Arbiter!NoLeases
  <2>4. QED
    BY <2>3, EffectiveType DEF Arbiter!Next
<1>3. QED
  BY <1>1, <1>2

LEMMA RestartRefines ==
  ASSUME NEW content \in Contents, Restart(content)
  PROVE  [Arbiter!Next]_(Arbiter!vars)
<1>1. SeenMode' = Effective(content) /\ SeenForeign' = FALSE
  BY DEF Restart, SeenMode, SeenForeign
<1>2. Arbiter!Restart(Effective(content))
  BY <1>1 DEF Restart, SeenMode, SeenForeign, Arbiter!Restart, Arbiter!NoLeases
<1>3. QED
  BY <1>2, EffectiveType DEF Arbiter!Next

LEMMA StepRefines == ASSUME IInv, [Next]_vars PROVE [Arbiter!Next]_(Arbiter!vars)
<1>1. CASE \E u \in Users : ConfirmLease(u)
  BY <1>1, ConfirmRefines
<1>2. CASE \E u \in Users : LeaveGate(u)
  BY <1>2, LeaveRefines
<1>3. CASE granted' = granted /\ file' = file /\ (Load \/ UNCHANGED manager)
  BY <1>3, LoadRefines DEF IInv
<1>4. CASE \E s \in Switchers, outcome \in SaveOutcomes : SaveMode(s, outcome) \/ Rollback(s, outcome)
  <2>1. PICK s \in Switchers, outcome \in SaveOutcomes : SaveMode(s, outcome) \/ Rollback(s, outcome)
    BY <1>4
  <2>2. Closing # {} /\ granted' = granted
    BY <2>1 DEF SaveMode, Rollback, Closing, users
  <2>3. req[s].next \in Modes /\ "off" \in Modes
    BY InputsAssumption, NoRequestType DEF IInv, TypeOK, Modes
  <2>4. QED
    BY <2>1, <2>2, <2>3, ClosedGateEmpty, SaveRefines DEF SaveMode, Rollback
<1>5. CASE \E content \in Edits : EditFile(content)
  BY <1>5, EditRefines
<1>6. CASE \E content \in Contents : Restart(content)
  BY <1>6, RestartRefines
<1>7. CASE UNCHANGED vars
  BY <1>7 DEF vars, Arbiter!vars
<1>8. QED
  BY <1>1, <1>2, <1>3, <1>4, <1>5, <1>6, <1>7, NextCases
  DEF CheckMode, EnterGate, RefuseLease, ReadStatus, RequestSwitch, LockTransition, SkipSwitch,
      MarkTransition, Preempt, TakeExclusive, WaitForLeases, DrainTimeout, Cleanup, ReopenGate,
      UnmarkTransition, LoadFails, manager, users, storage

\* The manager keeps the arbiter's promise: a lease is granted on the mode in
\* force, and the mode changes only when no lease is out or when an edit of its
\* file is adopted.
THEOREM ManagerImplementsArbiter == Spec => ArbiterSpec
<1>1. Init => Arbiter!Init
  <2>1. Init => SeenMode \in Modes /\ ~SeenForeign
    BY EffectiveType DEF Init, SeenMode, SeenForeign
  <2>2. QED
    BY <2>1 DEF Init, SeenMode, SeenForeign, Arbiter!Init, Arbiter!NoLeases
<1>2. QED
  BY <1>1, StepRefines, Invariance, PTL DEF Spec, ArbiterSpec, Arbiter!Spec
=============================================================================
