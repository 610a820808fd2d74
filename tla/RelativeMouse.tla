----------------------------- MODULE RelativeMouse -----------------------------
(* The relative mouse of the page (web/src/pages/desktop/mouse/relative.tsx, the
   second class of lib/mouse.ts): the picture as a touch pad. A finger's motion is
   sent on, or kept back until it is clear that the finger drags and does not tap.
   An action is one event of the browser, a timer, or the effect that runs again.
   Of the two axes there is one, and the finger is on whole pixels. *)
EXTENDS Integers

CONSTANTS
  PadWidth,    \* the width of the pad
  Tap, Drag,   \* TAP_THRESHOLD and DRAG_THRESHOLD
  Small,       \* a motion of less than this is doubled: 10 pixels of the device
  MaxDelta     \* the most that a report can carry, 127

VARIABLES
  buttons,     \* MouseReportRelative.buttons
  clicked,     \* history: what the mouse has pressed and not let go of
  fingers,     \* how many touch the pad
  at, start,   \* lastTouchPosRef and touchStartPosRef
  pending,     \* pendingTouchDeltaRef
  touchButton, \* pressedTouchButtonRef
  pressTimer,  \* touchLongPressTimerRef is set
  long, moved, several, candidate,   \* the other refs of the gesture
  sent,        \* history: the motion that reports were made of since the finger came,
               \* or Unknown
  told,        \* history: what those reports say, or Unknown once the finger turned
  cut          \* history: one of them could not say it all

touch == <<touchButton, pressTimer, long, moved, several, candidate>>
motion == <<at, start, pending, sent, told, cut>>
padVars == <<buttons, clicked, fingers, motion, touch>>

Unknown == 2 * PadWidth + 1
NoButton == "none"
Buttons == {"left", "right"}
Pad == 0 .. PadWidth
Distance(x) == IF x > start THEN x - start ELSE start - x

PadTypeOK ==
  /\ buttons \subseteq Buttons /\ clicked \subseteq Buttons
  /\ fingers \in 0 .. 2
  /\ at \in Pad /\ start \in Pad
  /\ pending \in -PadWidth .. PadWidth /\ sent \in -PadWidth .. Unknown
  /\ told \in -2 * PadWidth .. Unknown /\ cut \in BOOLEAN
  /\ touchButton \in Buttons \union {NoButton}
  /\ pressTimer \in BOOLEAN /\ long \in BOOLEAN
  /\ moved \in BOOLEAN /\ several \in BOOLEAN /\ candidate \in BOOLEAN

PadInit ==
  /\ buttons = {} /\ clicked = {} /\ fingers = 0
  /\ at = 0 /\ start = 0 /\ pending = 0 /\ sent = Unknown /\ told = Unknown /\ cut = FALSE
  /\ touchButton = NoButton /\ pressTimer = FALSE
  /\ long = FALSE /\ moved = FALSE /\ several = FALSE /\ candidate = FALSE

-----------------------------------------------------------------------------
(* The mouse *)

MouseDown(b) ==
  /\ buttons' = buttons \union {b} /\ clicked' = clicked \union {b}
  /\ UNCHANGED <<fingers, motion, touch>>

MouseUp(b) ==
  /\ buttons' = buttons \ {b} /\ clicked' = clicked \ {b}
  /\ UNCHANGED <<fingers, motion, touch>>

-----------------------------------------------------------------------------
(* Touch *)

\* releasePressedTouchButton
ReleaseTouch ==
  /\ touchButton' = NoButton
  /\ buttons' = buttons \ {touchButton}
  /\ long' = (long /\ touchButton = NoButton)

\* handleTouchStart with two fingers, of which one may have been there.
TwoFingers(x) ==
  /\ fingers < 2 /\ fingers' = 2
  /\ several' = TRUE /\ moved' = TRUE /\ pressTimer' = FALSE /\ candidate' = FALSE
  /\ ReleaseTouch
  /\ at' = x
  /\ UNCHANGED <<clicked, start, pending, sent, told, cut>>

\* handleTouchStart with one; soon after a tap, and near it, a drag may follow.
TouchStart(x) ==
  /\ fingers = 0 /\ fingers' = 1
  /\ at' = x /\ start' = x /\ pending' = 0 /\ sent' = 0 /\ told' = 0 /\ cut' = FALSE
  /\ candidate' \in BOOLEAN
  /\ touchButton' = NoButton /\ buttons' = buttons \ {touchButton}
  /\ long' = FALSE /\ moved' = FALSE /\ several' = FALSE
  /\ pressTimer' = ~candidate'
  /\ UNCHANGED clicked

\* The timer of the long press.
LongPress ==
  /\ pressTimer /\ pressTimer' = FALSE
  /\ long' = TRUE
  /\ touchButton' = "right" /\ buttons' = buttons \union {"right"}
  /\ UNCHANGED <<clicked, fingers, motion, moved, several, candidate>>

\* handleTouchMove with two fingers: they scroll.
TouchScrolls(x) ==
  /\ fingers = 2
  /\ several' = TRUE /\ moved' = TRUE /\ pressTimer' = FALSE
  /\ ReleaseTouch
  /\ at' = x /\ pending' = 0
  /\ UNCHANGED <<clicked, fingers, start, sent, told, cut, candidate>>

\* scaleTouchMovement, and clamp in buildReport
Scaled(v) == IF -Small < v /\ v < Small THEN 2 * v ELSE v
Clamped(v) == IF v > MaxDelta THEN MaxDelta ELSE IF v < -MaxDelta THEN -MaxDelta ELSE v

\* A report is made of the motion v.
Report(v) ==
  /\ sent' = IF sent # Unknown THEN sent + v ELSE sent
  /\ told' = IF told = Unknown \/ (v > 0 /\ sent < 0) \/ (v < 0 /\ sent > 0) THEN Unknown
             ELSE told + Clamped(Scaled(v))
  /\ cut' = (cut \/ Clamped(Scaled(v)) # Scaled(v))

\* Mutant of Flow: what was kept back is forgotten.
FlowForgets(d, flows) ==
  /\ pending' = 0
  /\ IF flows THEN Report(d) ELSE UNCHANGED <<sent, told, cut>>

\* A finger has moved by d: all that was kept back goes into a report, or nothing.
Flow(d, flows) ==
  /\ pending' = IF flows THEN 0 ELSE pending + d
  /\ IF flows THEN Report(pending + d) ELSE UNCHANGED <<sent, told, cut>>

\* handleTouchMove with one finger.
TouchMove(x) ==
  LET drags == candidate /\ Distance(x) > Drag /\ touchButton = NoButton IN
  /\ fingers = 1 /\ ~several /\ x # at
  /\ at' = x
  /\ moved' = (moved \/ Distance(x) > Tap)
  /\ pressTimer' = (pressTimer /\ Distance(x) <= Tap)
  /\ touchButton' = IF drags THEN "left" ELSE touchButton
  /\ buttons' = IF drags THEN buttons \union {"left"} ELSE buttons
  /\ Flow(x - at, ~candidate \/ touchButton' # NoButton \/ long)
  /\ UNCHANGED <<clicked, fingers, start, long, several, candidate>>

\* The same when another finger was there before: it only looks.
TouchIdles(x) ==
  /\ fingers = 1 /\ several
  /\ at' = x
  /\ UNCHANGED <<buttons, clicked, fingers, start, pending, sent, told, cut, touch>>

\* handleTouchEnd while another finger stays.
TouchLifts ==
  /\ fingers = 2 /\ fingers' = 1
  /\ several' = TRUE
  /\ UNCHANGED <<buttons, clicked, motion, touchButton, pressTimer, long, moved, candidate>>

\* resetTouchState
ResetTouch ==
  /\ pending' = 0 /\ touchButton' = NoButton
  /\ long' = FALSE /\ moved' = FALSE /\ several' = FALSE

\* handleTouchEnd of the last finger: a tap is a click of the left button, which
\* comes up at once, whoever else holds it.
TouchEnd ==
  LET tap == ~several /\ ~moved /\ ~long /\ touchButton = NoButton IN
  /\ fingers = 1 /\ fingers' = 0
  /\ buttons' = buttons \ {IF tap THEN "left" ELSE touchButton}
  /\ ResetTouch /\ pressTimer' = FALSE /\ candidate' = FALSE
  /\ UNCHANGED <<clicked, at, start, sent, told, cut>>

\* handleTouchCancel: it does not look whether another finger stays.
TouchCancel ==
  /\ fingers > 0 /\ fingers' \in 0 .. fingers - 1
  /\ buttons' = buttons \ {touchButton}
  /\ ResetTouch /\ pressTimer' = FALSE /\ candidate' = FALSE
  /\ sent' = Unknown /\ told' = Unknown
  /\ UNCHANGED <<clicked, at, start, cut>>

\* The effect runs again: its cleanup resets the buttons, and the refs of the
\* gesture survive it.
RerunEffect ==
  /\ buttons' = {} /\ clicked' = {} /\ pressTimer' = FALSE
  /\ UNCHANGED <<fingers, motion, touchButton, long, moved, several, candidate>>

PadNext ==
  \/ \E b \in Buttons : MouseDown(b) \/ MouseUp(b)
  \/ \E x \in Pad : TwoFingers(x) \/ TouchStart(x) \/ TouchScrolls(x) \/ TouchMove(x) \/ TouchIdles(x)
  \/ LongPress \/ TouchLifts \/ TouchEnd \/ TouchCancel \/ RerunEffect

PadSpec == PadInit /\ [][PadNext]_padVars

-----------------------------------------------------------------------------
(* Properties *)

\* A button that is reported down is held by the mouse or by the finger on the pad:
\* no gesture that is given up or canceled leaves one behind.
ButtonsAreHeld ==
  buttons \subseteq clicked \union (IF fingers > 0 THEN {touchButton} ELSE {})

\* The host is told of a way that a finger went: in its direction, at most twice of it,
\* and no less unless a report could not say it all.
Follows ==
  \/ 0 <= told /\ told <= 2 * sent /\ (cut \/ sent <= told)
  \/ told <= 0 /\ 2 * sent <= told /\ (cut \/ told <= sent)

\* Every motion of a single finger goes into one report, through taps that become
\* drags: what reports are made of and what is kept back add up to the way it went.
\* As long as it goes one way, the reports add up to that way or to twice as much
\* (small motions are doubled), less only what they cannot carry.
MotionAccounted ==
  fingers = 1 /\ ~several /\ sent # Unknown =>
    /\ sent + pending = at - start
    /\ told # Unknown => Follows

-----------------------------------------------------------------------------
(* What every step keeps *)

\* A motion that may become a drag is that of one finger, for which the timer of the
\* long press does not run. It is kept back as a whole, and nothing else is.
TimerHasFinger == pressTimer => fingers > 0 /\ ~candidate /\ touchButton = NoButton
CandidateIsAlone == candidate => fingers = 1 /\ ~several /\ ~long /\ ~pressTimer /\ sent # Unknown
KeptBackWhole ==
  /\ candidate /\ touchButton = NoButton => sent = 0
  /\ pending # 0 /\ ~several => candidate /\ touchButton = NoButton
SentInPad == sent # Unknown => sent \in -PadWidth .. PadWidth
TellsTheWay == told # Unknown => sent # Unknown /\ Follows

PadInv ==
  PadTypeOK /\ ButtonsAreHeld /\ MotionAccounted
    /\ TimerHasFinger /\ CandidateIsAlone /\ KeptBackWhole /\ SentInPad /\ TellsTheWay
=============================================================================
