----------------------------- MODULE ModeArbiter -----------------------------
(***************************************************************************)
(* What the AI control mode promises to the goroutines that act under it.  *)
(*                                                                         *)
(* One mode is in force at a time. An actor is granted a lease on the mode *)
(* in force, and the mode does not change while a lease is out. The one    *)
(* exception the manager makes is a mode file that someone else edited:    *)
(* the edit waits as foreign, and adopting it does not look at the leases. *)
(*                                                                         *)
(* ControlMode implements this specification; the modules of the actors    *)
(* take it in place of the manager's detail.                               *)
(***************************************************************************)
CONSTANTS
  Actors, Modes,
  NoMode          \* not a mode: the lease of an actor that has none

VARIABLES
  mode,     \* the mode in force
  lease,    \* per actor, the mode it has a lease on
  foreign   \* an edit of the mode file waits to be adopted

vars == <<mode, lease, foreign>>

TypeOK ==
  /\ mode \in Modes
  /\ lease \in [Actors -> Modes \union {NoMode}]
  /\ foreign \in BOOLEAN

NoLeases == [a \in Actors |-> NoMode]

Init ==
  /\ mode \in Modes
  /\ lease = NoLeases
  /\ foreign = FALSE

\* The mode becomes what an edited file says.
TakesEdit(m) == foreign /\ mode' = m /\ foreign' = FALSE

\* An actor gets a lease on the mode in force; looking at the mode may adopt an
\* edit first.
Grant(a) ==
  /\ lease[a] = NoMode
  /\ \/ UNCHANGED <<mode, foreign>>
     \/ \E m \in Modes : TakesEdit(m)
  /\ lease' = [lease EXCEPT ![a] = mode']

\* A lease comes back.
Return(a) ==
  /\ lease[a] # NoMode
  /\ lease' = [lease EXCEPT ![a] = NoMode]
  /\ UNCHANGED <<mode, foreign>>

\* A mode switch: it waits until every lease is back. Writing the file also
\* overwrites an edit that waits.
Change(m) ==
  /\ lease = NoLeases
  /\ mode' = m
  /\ foreign' \in {foreign, FALSE}
  /\ UNCHANGED lease

\* Someone else edits the mode file.
Edit ==
  /\ foreign' = TRUE
  /\ UNCHANGED <<mode, lease>>

\* The manager adopts the edited file, whoever has a lease.
Adopt(m) == TakesEdit(m) /\ UNCHANGED lease

\* The process dies: every lease is gone, and the mode is what the file says.
Restart(m) ==
  /\ mode' = m
  /\ lease' = NoLeases
  /\ foreign' = FALSE

Next ==
  \/ \E a \in Actors : Grant(a) \/ Return(a)
  \/ \E m \in Modes : Change(m) \/ Adopt(m) \/ Restart(m)
  \/ Edit

Spec == Init /\ [][Next]_vars
=============================================================================
