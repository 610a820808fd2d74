------------------------------- MODULE StallWarning -------------------------------
(* The warning that absolute mouse reports go nowhere (pages/desktop/hid-status). The
   page asks for the status of the devices again and again, as long as the mouse is
   absolute; the answers may be late, and come when the operator has changed the mode,
   closed the warning, or has the USB gadget recovered. A recovery closes the input
   socket while it lasts, as do the menu's reset of the HID and its mounting of an image,
   and the choice of the relative mouse for half a second, each whatever the others do;
   WsClient has what becomes of the socket. *)
EXTENDS Naturals, FiniteSets

CONSTANTS
  MaxChecks,      \* bound: checks under way at a time, one every ten seconds
  WarningEvents   \* bound: clicks, and changes of the device

VARIABLES
  mouseMode,
  stalled,       \* the host takes no absolute reports, and was seen to within a minute
  effect,        \* number of the effect that runs; checks of an earlier one are canceled
  checks,        \* getHidStatus under way: of which effect, and what was found
  isOpen, isRecovering,
  connected,     \* the client wants the input socket: close() was not called since connect()
  restarts,      \* timers of applyMouseMode and calls of the menu that will connect
  warningEvents

warningVars ==
  <<mouseMode, stalled, effect, checks, isOpen, isRecovering, connected, restarts,
    warningEvents>>

WarningTypeOK ==
  /\ mouseMode \in {"absolute", "relative"}
  /\ {stalled, isOpen, isRecovering, connected} \subseteq BOOLEAN
  /\ restarts \in 0 .. WarningEvents
  /\ \A c \in checks : c.found \in {"asked", "stalled", "fine"} /\ c.effect <= effect

WarningInit ==
  /\ mouseMode \in {"absolute", "relative"} /\ stalled \in BOOLEAN
  /\ effect = 0 /\ checks = {}
  /\ isOpen = FALSE /\ isRecovering = FALSE /\ connected = TRUE /\ restarts = 0
  /\ warningEvents = WarningEvents

Event == warningEvents > 0 /\ warningEvents' = warningEvents - 1

\* isAbsoluteMouseStalled changes, at the device or as the observation gets old.
DeviceChanges ==
  /\ Event /\ stalled' = ~stalled
  /\ UNCHANGED <<mouseMode, effect, checks, isOpen, isRecovering, connected, restarts>>

\* check, at once and every ten seconds
Check ==
  /\ mouseMode = "absolute" /\ Cardinality(checks) < MaxChecks
  /\ checks' = checks \union {[effect |-> effect, found |-> "asked"]}
  /\ UNCHANGED <<mouseMode, stalled, effect, isOpen, isRecovering, connected, restarts, warningEvents>>

Observed(c) ==
  /\ c.found = "asked"
  /\ checks' = (checks \ {c}) \union {[c EXCEPT !.found = IF stalled THEN "stalled" ELSE "fine"]}
  /\ UNCHANGED <<mouseMode, stalled, effect, isOpen, isRecovering, connected, restarts, warningEvents>>

\* cancelled
Current(c) == c.effect = effect

\* The answer: open, or destroy. A check that fails says nothing.
Answer(c) ==
  /\ checks' = checks \ {c}
  /\ isOpen' = IF Current(c) /\ c.found # "asked" THEN c.found = "stalled" ELSE isOpen
  /\ UNCHANGED <<mouseMode, stalled, effect, isRecovering, connected, restarts, warningEvents>>

\* applyMouseMode: the relative mouse closes the socket, and a timer opens it again. The
\* effect follows the mode: it cancels its checks, and closes the warning.
ApplyMouseMode(m) ==
  /\ mouseMode' = m
  /\ effect' = IF m = mouseMode THEN effect ELSE effect + 1
  /\ isOpen' = (isOpen /\ m = "absolute")
  /\ connected' = (connected /\ m = "absolute")
  /\ restarts' = IF m = "relative" THEN restarts + 1 ELSE restarts

\* In the menu, on this page: the mode that is in force may be chosen again.
ChangeInMenu ==
  /\ Event
  /\ \E m \in {"absolute", "relative"} : ApplyMouseMode(m)
  /\ UNCHANGED <<stalled, checks, isRecovering>>

SwitchToRelative ==
  /\ Event /\ isOpen
  /\ ApplyMouseMode("relative")
  /\ UNCHANGED <<stalled, checks, isRecovering>>

\* resetHid and mountImage of the menu, which know nothing of each other
CloseFromMenu ==
  /\ Event
  /\ connected' = FALSE /\ restarts' = restarts + 1
  /\ UNCHANGED <<mouseMode, stalled, effect, checks, isOpen, isRecovering>>

\* The timer fires, or the call of the menu has ended, also while a recovery is under way.
Restart ==
  /\ restarts > 0 /\ restarts' = restarts - 1
  /\ connected' = TRUE
  /\ UNCHANGED <<mouseMode, stalled, effect, checks, isOpen, isRecovering, warningEvents>>

CloseWarning ==
  /\ Event /\ isOpen /\ isOpen' = FALSE
  /\ UNCHANGED <<mouseMode, stalled, effect, checks, isRecovering, connected, restarts>>

RecoverUsb ==
  /\ Event /\ isOpen /\ ~isRecovering
  /\ isRecovering' = TRUE /\ connected' = FALSE
  /\ UNCHANGED <<mouseMode, stalled, effect, checks, isOpen, restarts>>

\* finally: the gadget was reset, or was not.
Recovered ==
  /\ isRecovering
  /\ isRecovering' = FALSE /\ connected' = TRUE /\ isOpen' = FALSE
  /\ stalled' \in {stalled, FALSE}
  /\ UNCHANGED <<mouseMode, effect, checks, restarts, warningEvents>>

WarningNext ==
  \/ DeviceChanges \/ Check \/ ChangeInMenu \/ SwitchToRelative \/ CloseWarning
  \/ RecoverUsb \/ Recovered \/ CloseFromMenu \/ Restart
  \/ \E c \in checks : Observed(c) \/ Answer(c)

WarningSpec == WarningInit /\ [][WarningNext]_warningVars

-----------------------------------------------------------------------------
(* Properties *)

\* The warning, which offers the relative mouse, is not shown to one who has it, how
\* late an answer may be. However recoveries, resets, mounts and changes of the mode
\* overlap, a socket that was closed for one of them has somebody to open it again:
\* hid-status 37-110, mouse-mode.ts 7-16, reset-hid.tsx 13-29.
WarningIsDue ==
  /\ isOpen => mouseMode = "absolute"
  /\ connected \/ isRecovering \/ restarts > 0
=============================================================================
