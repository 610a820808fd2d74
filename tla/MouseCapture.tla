------------------------------ MODULE MouseCapture ------------------------------
(* How the page turns mouse and touch events into reports of the absolute mouse
   (web/src/pages/desktop/mouse/absolute.tsx, lib/mouse.ts): buttons, taps, long
   presses, drags, moves that wait for the next frame. An action is one event of
   the browser, a timer, or the effect that runs again. Of the two axes there is
   one. *)
EXTENDS Integers, FiniteSets

CONSTANTS
  Width,        \* the width of the picture
  LastPosition  \* 0x7fff, the largest position of the absolute mouse

VARIABLES
  buttons,     \* MouseReport.buttons
  clicked,     \* pressedMouseButtons: what the mouse has pressed and not let go of
  fingers,     \* how many touch the picture
  touching,    \* isTouchActive
  touchButton, \* pressedButtonRef
  pressTimer,  \* the timer of the long press is set
  long, dragging, moved, several, candidate,   \* the flags of the gesture
  waiting,     \* pendingMove, or None
  last         \* lastPosRef, as it is reported

gesture == <<touching, touchButton, pressTimer, long, dragging, moved, several, candidate>>
mouseVars == <<buttons, clicked, fingers, gesture, waiting, last>>

None == -1
NoButton == "none"
Buttons == {"left", "right"}
Pixels == 0 .. Width

MouseTypeOK ==
  /\ buttons \subseteq Buttons /\ clicked \subseteq Buttons
  /\ fingers \in 0 .. 2
  /\ touchButton \in Buttons \union {NoButton}
  /\ touching \in BOOLEAN /\ pressTimer \in BOOLEAN /\ long \in BOOLEAN /\ dragging \in BOOLEAN
  /\ moved \in BOOLEAN /\ several \in BOOLEAN /\ candidate \in BOOLEAN
  /\ waiting \in Int /\ last \in Int

MouseInit ==
  /\ buttons = {} /\ clicked = {} /\ fingers = 0
  /\ touching = FALSE /\ touchButton = NoButton /\ pressTimer = FALSE
  /\ long = FALSE /\ dragging = FALSE /\ moved = FALSE /\ several = FALSE /\ candidate = FALSE
  /\ waiting = None /\ last = 0

\* getCoordinate: a pixel of the picture becomes a position, its edges included.
Position(x) == (LastPosition * x) \div Width + 1

\* getCorrectedCoords: an event may be beside the picture.
Places == Pixels \union {None}

-----------------------------------------------------------------------------
(* The mouse *)

\* flushMouseMove
FlushMove == waiting' = None /\ last' = IF waiting = None THEN last ELSE waiting

\* handleMouseDown
MouseDown(b, x) ==
  /\ x # None
  /\ FlushMove
  /\ clicked' = clicked \union {b}
  /\ buttons' = buttons \union {b}
  /\ UNCHANGED <<fingers, gesture>>

\* handleMouseUp: beside the picture only a button that went down in it.
MouseUp(b, x) ==
  /\ x # None \/ b \in clicked
  /\ FlushMove
  /\ clicked' = clicked \ {b}
  /\ buttons' = buttons \ {b}
  /\ UNCHANGED <<fingers, gesture>>

\* handleMouseMove, which queues
MouseMove(x) ==
  /\ x # None
  /\ waiting' = Position(x)
  /\ UNCHANGED <<buttons, clicked, fingers, gesture, last>>

\* The next frame; or handleWheel.
Frame ==
  /\ waiting # None
  /\ FlushMove
  /\ UNCHANGED <<buttons, clicked, fingers, gesture>>

-----------------------------------------------------------------------------
(* Touch *)

\* releasePressedButton
ReleaseTouch ==
  /\ touchButton' = NoButton
  /\ buttons' = buttons \ {touchButton}
  /\ IF touchButton = NoButton THEN UNCHANGED <<waiting, last, long, dragging>>
     ELSE long' = FALSE /\ dragging' = FALSE /\ FlushMove

\* The gesture is none the mouse knows: it lets go of its button.
GiveUp == moved' = TRUE /\ pressTimer' = FALSE /\ candidate' = FALSE /\ ReleaseTouch

\* handleTouchStart with a second finger, or beside the picture.
TouchSpoils(x) ==
  /\ fingers < 2 /\ fingers' = fingers + 1
  /\ x = None \/ fingers' > 1
  /\ touching' = (x # None)
  /\ several' = (x # None \/ fingers' > 1)
  /\ GiveUp
  /\ UNCHANGED clicked

\* handleTouchStart with one finger; soon after a tap, and near it, it may be the
\* start of a drag.
TouchStart(x) ==
  /\ fingers = 0 /\ fingers' = 1 /\ x # None
  /\ touching' = TRUE
  /\ candidate' \in BOOLEAN
  /\ long' = FALSE /\ moved' = FALSE /\ dragging' = FALSE /\ several' = FALSE
  /\ touchButton' = NoButton
  /\ buttons' = buttons \ {touchButton}
  /\ last' = Position(x) /\ waiting' = IF touchButton = NoButton THEN waiting ELSE None
  /\ pressTimer' = ~candidate'
  /\ UNCHANGED clicked

\* The timer of the long press.
LongPress ==
  /\ pressTimer /\ pressTimer' = FALSE
  /\ long' = TRUE
  /\ touchButton' = "right"
  /\ buttons' = buttons \union {"right"}
  /\ UNCHANGED <<clicked, fingers, touching, dragging, moved, several, candidate, waiting, last>>

\* handleTouchMove out of the picture.
TouchLeaves ==
  /\ fingers > 0 /\ touching
  /\ GiveUp
  /\ UNCHANGED <<clicked, fingers, touching, several>>

\* handleTouchMove with two fingers: they scroll.
TouchScrolls ==
  /\ fingers > 1 /\ touching
  /\ several' = TRUE /\ moved' = TRUE /\ pressTimer' = FALSE
  /\ ReleaseTouch
  /\ UNCHANGED <<clicked, fingers, touching, candidate>>

\* handleTouchMove with one: by little, or so far that a drag begins.
TouchMove(x, far) ==
  LET drags == far /\ candidate /\ touchButton = NoButton IN
  /\ fingers = 1 /\ touching /\ ~several /\ x # None
  /\ moved' = (moved \/ far)
  /\ pressTimer' = (pressTimer /\ ~far)
  /\ dragging' = (dragging \/ drags)
  /\ touchButton' = IF drags THEN "left" ELSE touchButton
  /\ buttons' = IF drags THEN buttons \union {"left"} ELSE buttons
  /\ last' = IF ~candidate \/ dragging' \/ long THEN Position(x) ELSE last
  /\ UNCHANGED <<clicked, fingers, touching, long, several, candidate, waiting>>

\* handleTouchEnd while another finger stays.
TouchLifts ==
  /\ fingers = 2 /\ fingers' = 1
  /\ several' = (several \/ touching)
  /\ UNCHANGED <<buttons, clicked, touching, touchButton, pressTimer, long, dragging,
                 moved, candidate, waiting, last>>

\* handleTouchEnd of the last finger: a tap is a click of the left button, which
\* comes up at once, whoever else holds it.
TouchEnd(x) ==
  /\ fingers = 1 /\ fingers' = 0
  /\ IF ~touching
     THEN several' = FALSE /\ UNCHANGED <<buttons, touchButton, pressTimer, long, dragging, moved, candidate, waiting, last>>
     ELSE LET tap == ~several /\ ~moved /\ ~long /\ touchButton = NoButton /\ x # None IN
          /\ touchButton' = NoButton
          /\ buttons' = buttons \ {IF tap THEN "left" ELSE touchButton}
          /\ IF ~tap /\ touchButton # NoButton THEN FlushMove ELSE UNCHANGED <<waiting, last>>
          /\ pressTimer' = FALSE /\ candidate' = FALSE
          /\ long' = FALSE /\ moved' = FALSE /\ dragging' = FALSE /\ several' = FALSE
  /\ touching' = FALSE
  /\ UNCHANGED clicked

\* handleTouchCancel
TouchCancel ==
  /\ fingers > 0 /\ fingers' \in 0 .. fingers - 1
  /\ touchButton' = NoButton
  /\ buttons' = buttons \ {touchButton}
  /\ IF touchButton # NoButton THEN FlushMove ELSE UNCHANGED <<waiting, last>>
  /\ pressTimer' = FALSE /\ candidate' = FALSE /\ touching' = FALSE
  /\ long' = FALSE /\ moved' = FALSE /\ dragging' = FALSE /\ several' = FALSE
  /\ UNCHANGED clicked

\* The effect runs again: its cleanup resets the buttons, and the flags of the
\* gesture survive it.
RerunEffect ==
  /\ buttons' = {} /\ clicked' = {}
  /\ waiting' = None /\ pressTimer' = FALSE
  /\ UNCHANGED <<fingers, touching, touchButton, long, dragging, moved, several, candidate, last>>

MouseNext ==
  \/ \E b \in Buttons, x \in Places : MouseDown(b, x) \/ MouseUp(b, x)
  \/ \E x \in Places : MouseMove(x) \/ TouchSpoils(x) \/ TouchStart(x) \/ TouchEnd(x)
  \/ \E x \in Places, far \in BOOLEAN : TouchMove(x, far)
  \/ Frame \/ LongPress \/ TouchLeaves \/ TouchScrolls \/ TouchLifts \/ TouchCancel \/ RerunEffect

MouseSpec == MouseInit /\ [][MouseNext]_mouseVars

-----------------------------------------------------------------------------
(* Properties *)

\* A button that is reported down is one the mouse has pressed and not let go of
\* in the picture, or one that a finger on the picture holds: no gesture that is
\* given up, canceled or overtaken leaves a button behind.
ButtonsAreHeld ==
  buttons \subseteq clicked \union (IF fingers > 0 THEN {touchButton} ELSE {})

\* A button goes down where the pointer is: a move that waits for its frame is
\* reported first.
PressWherePointed == clicked' \ clicked # {} => last' = IF waiting = None THEN last ELSE waiting

-----------------------------------------------------------------------------
(* What every step keeps *)

\* A finger holds a button only on the picture, and while the timer of the long press
\* runs it holds none and no drag can begin.
HoldsOnPicture == touchButton # NoButton => touching
TimerHasFinger == pressTimer => touching /\ fingers > 0 /\ ~candidate /\ touchButton = NoButton

MouseInv == MouseTypeOK /\ ButtonsAreHeld /\ HoldsOnPicture /\ TimerHasFinger
=============================================================================
