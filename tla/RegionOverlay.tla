------------------------------- MODULE RegionOverlay -------------------------------
(* The overlay on which a region of the picture is drawn (screen/
   input-region-overlay.tsx), along one axis: what happens on the two is the same.
   A press on the overlay draws a selection, a press on its inside moves it, one on a
   handle resizes it; meanwhile the picture may move, change or go away, as the page
   looks where it is four times a second. With several fingers the events of several
   gestures mix. What is done with a saved region is in ControlRegion. *)
EXTENDS Integers

CONSTANTS
  Frames,       \* where the picture may be: [left, width, media], media its true width
  Points,       \* where pointers are seen
  Snap, Minimum,          \* edgeSnapDistance, minimumSelectionSize
  Gestures      \* bound: presses, confirmations and movements of the picture

VARIABLES
  selecting,    \* the overlay is shown
  frame,        \* frameRect, frameRectRef and mediaSize
  selected,     \* selection: [left, width]
  dragging, dragStart,
  grab,         \* resizeRef or moveRef: what is held, from where, of what selection
  drawnOn,      \* (history) the frame on which the selection was begun, as long as the
                \* picture has been nowhere else
  lost,         \* (history) the picture has been away since
  saving,       \* the region being saved
  cursor,       \* cursorPoint, around which the magnifier shows the picture, or Nowhere
  gestures

overlayVars == <<selecting, frame, selected, dragging, dragStart, grab, drawnOn, lost,
                 saving, cursor, gestures>>

None == [left |-> 0, width |-> -1, media |-> 0]
NoSelection == [left |-> 0, width |-> -1]
Nowhere == -1
NoGrab == [by |-> "none", start |-> 0, initial |-> NoSelection]

Smaller(i, j) == IF i < j THEN i ELSE j
Larger(i, j) == IF i > j THEN i ELSE j
Right(r) == r.left + r.width
Between(from, to) == [left |-> from, width |-> to - from]
\* The pictures are in the same place.
SamePlace(f, g) == f.left = g.left /\ f.width = g.width
Within(x, s) == s.left <= x /\ x <= Right(s)
Inside(s, f) == f.left <= s.left /\ s.width >= 0 /\ Right(s) <= Right(f)

OverlayTypeOK ==
  /\ selecting \in BOOLEAN /\ dragging \in BOOLEAN /\ lost \in BOOLEAN
  /\ frame \in Frames \union {None} /\ drawnOn \in Frames \union {None}
  /\ grab.by \in {"none", "w", "e", "move"}
  /\ cursor \in Int
  /\ gestures \in 0 .. Gestures

OverlayInit ==
  /\ selecting = FALSE
  /\ frame = None /\ drawnOn = None /\ lost = FALSE
  /\ selected = NoSelection
  /\ dragging = FALSE /\ dragStart = -1 /\ grab = NoGrab
  /\ saving = None /\ cursor = Nowhere
  /\ gestures = Gestures

Gesture == gestures > 0 /\ gestures' = gestures - 1

LetGo == dragging' = FALSE /\ dragStart' = -1 /\ grab' = NoGrab

-----------------------------------------------------------------------------
(* The picture *)

\* updateFrame, which finds the picture at f, or not at all.
UpdateFrame(f) ==
  /\ frame' = f /\ lost' = (lost \/ f = None)
  /\ drawnOn' = IF f = None \/ SamePlace(f, drawnOn) THEN drawnOn ELSE None
  /\ IF f # None /\ frame # None /\ ~SamePlace(f, frame) THEN LetGo /\ selected' = NoSelection
     ELSE UNCHANGED <<selected, dragging, dragStart, grab>>

\* selectArea, and the effect that looks for the picture.
OpenOverlay(f) ==
  /\ Gesture /\ ~selecting /\ selecting' = TRUE
  /\ UpdateFrame(f)
  /\ UNCHANGED <<saving, cursor>>

PictureMoves(f) ==
  /\ Gesture /\ selecting /\ f # frame
  /\ UpdateFrame(f)
  /\ UNCHANGED <<selecting, saving, cursor>>

-----------------------------------------------------------------------------
(* Pointers *)

\* clampPoint and snapToEdge
Clamp(x) ==
  LET at == Larger(frame.left, Smaller(Right(frame), x)) IN
  IF at - frame.left <= Snap THEN frame.left ELSE IF Right(frame) - at <= Snap THEN Right(frame) ELSE at

\* updateSelection
Drawn(x) ==
  IF dragStart = -1 \/ frame = None THEN selected
  ELSE Between(Smaller(dragStart, Clamp(x)), Larger(dragStart, Clamp(x)))

\* updateResizedSelection
Resized(g, x) ==
  LET s == g.initial IN
  IF frame = None THEN selected
  ELSE IF g.by = "w" THEN Between(Larger(frame.left, Smaller(Right(s) - Minimum, x)), Right(s))
  ELSE Between(s.left, Smaller(Right(frame), Larger(s.left + Minimum, x)))

\* The edge that is resized, where the magnifier goes, if that is in the picture.
EdgeOf(h, s) ==
  LET edge == IF h = "w" THEN s.left ELSE Right(s) IN
  IF frame = None THEN cursor ELSE IF Within(edge, frame) THEN edge ELSE Nowhere

\* updateMovedSelection
Moved(x) ==
  LET s == grab.initial IN
  IF frame = None THEN selected
  ELSE [s EXCEPT !.left = Larger(frame.left, Smaller(Right(frame) - s.width, s.left + x - grab.start))]

\* updateCursorPoint; a selection, if there is one, has no magnifier inside.
CursorAt(x) == IF frame # None /\ Within(x, frame) THEN x ELSE Nowhere
CursorBeside(x, s) == IF s # NoSelection /\ Within(x, s) THEN Nowhere ELSE CursorAt(x)

\* handlePointerDown
Press(x) ==
  /\ Gesture /\ selecting /\ frame # None
  /\ dragging' = TRUE /\ dragStart' = Clamp(x) /\ grab' = NoGrab
  /\ selected' = Between(Clamp(x), Clamp(x))
  /\ drawnOn' = frame /\ lost' = FALSE /\ cursor' = CursorAt(x)
  /\ UNCHANGED <<selecting, frame, saving>>

\* handleResizeStart
GrabHandle(h, x) ==
  /\ Gesture /\ selecting /\ selected # NoSelection
  /\ dragging' = FALSE /\ dragStart' = -1
  /\ grab' = [by |-> h, start |-> 0, initial |-> selected]
  /\ selected' = Resized(grab', x)
  /\ cursor' = EdgeOf(h, selected')
  /\ UNCHANGED <<selecting, frame, drawnOn, lost, saving>>

\* handleMoveStart
GrabInside(x) ==
  /\ Gesture /\ selecting /\ selected # NoSelection
  /\ dragging' = FALSE /\ dragStart' = -1
  /\ grab' = [by |-> "move", start |-> x, initial |-> selected]
  /\ cursor' = Nowhere
  /\ UNCHANGED <<selecting, frame, selected, drawnOn, lost, saving>>

\* What a pointer at x makes of the selection.
Followed(x) ==
  IF grab.by = "move" THEN Moved(x)
  ELSE IF grab.by # "none" THEN Resized(grab, x)
  ELSE IF dragging THEN Drawn(x) ELSE selected

\* What the magnifier shows while a pointer is moved to x.
Magnified(x) ==
  IF grab.by = "move" THEN Nowhere
  ELSE IF grab.by # "none" THEN (IF frame = None THEN cursor ELSE EdgeOf(grab.by, Resized(grab, x)))
  ELSE IF dragging THEN (IF frame = None THEN cursor ELSE Clamp(x))
  ELSE IF frame = None \/ selected # NoSelection THEN CursorBeside(x, selected)
  ELSE Clamp(x)

\* handlePointerMove
DragTo(x) ==
  /\ selecting
  /\ selected' = Followed(x)
  /\ cursor' = Magnified(x)
  /\ UNCHANGED <<selecting, frame, dragging, dragStart, grab, drawnOn, lost, saving, gestures>>

\* handlePointerUp, which first ends what is grabbed.
Release(x) ==
  /\ selecting
  /\ selected' = Followed(x)
  /\ IF grab # NoGrab THEN grab' = NoGrab /\ UNCHANGED <<dragging, dragStart>>
     ELSE dragging /\ LetGo
  /\ cursor' = IF grab.by = "move" THEN cursor ELSE Nowhere
  /\ UNCHANGED <<selecting, frame, drawnOn, lost, saving, gestures>>

\* onPointerLeave
Leave ==
  /\ selecting /\ cursor # Nowhere /\ cursor' = Nowhere
  /\ UNCHANGED <<selecting, frame, selected, dragging, dragStart, grab, drawnOn, lost, saving, gestures>>

-----------------------------------------------------------------------------
(* Buttons *)

\* cancelSelection: the button or Escape
Cancel ==
  /\ selecting /\ selecting' = FALSE
  /\ LetGo /\ selected' = NoSelection /\ cursor' = Nowhere
  /\ UNCHANGED <<frame, drawnOn, lost, saving, gestures>>

\* Math.round of an offset of the frame in the pixels of the picture.
InMedia(x) == (2 * (x - frame.left) * frame.media + frame.width) \div (2 * frame.width)

\* confirm; one at a time, which is a bound.
Confirm ==
  LET left == InMedia(selected.left)
      right == InMedia(Right(selected))
  IN  /\ Gesture /\ selecting /\ saving = None
      /\ frame # None /\ selected.width >= Minimum
      /\ saving' = [left |-> left, width |-> Larger(1, right - left), media |-> frame.media]
      /\ UNCHANGED <<selecting, frame, selected, dragging, dragStart, grab, drawnOn, lost, cursor>>

\* The answer: a region that is saved closes the overlay, whoever shows it by now.
Saved ==
  /\ saving # None /\ saving' = None
  /\ \/ selecting' = FALSE /\ selected' = NoSelection /\ cursor' = Nowhere
     \/ UNCHANGED <<selecting, selected, cursor>>
  /\ UNCHANGED <<frame, dragging, dragStart, grab, drawnOn, lost, gestures>>

OverlayNext ==
  \/ \E f \in Frames \union {None} : OpenOverlay(f) \/ PictureMoves(f)
  \/ \E x \in Points : Press(x) \/ GrabInside(x) \/ DragTo(x) \/ Release(x)
  \/ \E x \in Points, h \in {"w", "e"} : GrabHandle(h, x)
  \/ Leave \/ Cancel \/ Confirm \/ Saved

OverlaySpec == OverlayInit /\ [][OverlayNext]_overlayVars

-----------------------------------------------------------------------------
(* Properties *)

\* Drawn, moved or resized by whatever fingers, a selection stays on the picture it was
\* begun on. (One begun before the picture went away and came back elsewhere does
\* not: lines 163-175 forget where it was.)
SelectionInPicture ==
  selected # NoSelection /\ frame # None /\ SamePlace(drawnOn, frame) => Inside(selected, frame)

\* As long as an edge follows a pointer, the magnifier shows that edge, and not where
\* the pointer is, if that is beside the picture or near its border.
EdgeMagnified ==
  cursor # Nowhere /\ selected # NoSelection /\ frame # None /\ ~lost
    => /\ grab.by = "w" => cursor = selected.left
       /\ grab.by = "e" => cursor = Right(selected)
       /\ dragging /\ selected.width > 0 => cursor \in {selected.left, Right(selected)}

\* Rounded to the pixels of the picture, the region saved is neither empty nor
\* beyond its edge, which the device would refuse (input_region.go 214-234).
SavedInPicture ==
  saving' # saving /\ saving' # None /\ SamePlace(drawnOn, frame)
    => Inside(saving', [left |-> 0, width |-> frame.media])

SavedIsInPicture == [][SavedInPicture]_overlayVars

-----------------------------------------------------------------------------
(* What every step keeps *)

\* The frame the selection was begun on is where the picture is, and nothing that was
\* drawn on it or is grabbed of it leaves it.
DrawnWhereShown == drawnOn # None /\ frame # None => SamePlace(drawnOn, frame)
HeldInPicture ==
  drawnOn # None =>
    /\ selected # NoSelection => Inside(selected, drawnOn)
    /\ dragStart # -1 => Within(dragStart, drawnOn)
    /\ grab.by # "none" => Inside(grab.initial, drawnOn)
\* One thing is held at a time; while the picture has not been away, it is held on it.
OneHold == dragging => grab = NoGrab /\ dragStart # -1
ShownSinceDrawn ==
  ~lost /\ (selected # NoSelection \/ dragging \/ grab.by # "none") => drawnOn # None /\ frame # None

Held == [left : Int, width : Int]
OverlayTypes ==
  /\ OverlayTypeOK
  /\ selected \in Held /\ dragStart \in Int
  /\ grab \in [by : {"none", "w", "e", "move"}, start : Int, initial : Held]

OverlayInv ==
  OverlayTypes /\ EdgeMagnified /\ DrawnWhereShown /\ HeldInPicture /\ OneHold /\ ShownSinceDrawn
=============================================================================
