------------------------------- MODULE PictureView -------------------------------
(* What part of the picture the operator sees, and where a pointer on it points
   the host: the picture is fitted into the window, or cropped to the region in force
   (screen/viewport.tsx), the region is detected, computed or selected
   (auto-region.tsx, manual-region.tsx, geometry.ts), and the absolute mouse turns a
   position on the page into one on the host (mouse/absolute.tsx). ControlRegion
   has how the region is selected and saved.

   Sizes are records of two axes, and lengths are kept whole by measuring them in
   fractions of a pixel, their unit. *)
EXTENDS FiniteSetsExt, Integers

CONSTANTS
  Pictures,       \* what may be captured: [size, from, to], from and to the black borders,
                  \* each at most 45 % of the size, around a bright content
  NextPictures,   \* those that may follow
  Windows,        \* the sizes of the page
  MaxSamples,     \* the size to which a larger picture is scaled down, 640 by 360
  Selections,     \* manual: a region, or a resolution [x, y] whose ratio it is given
  LastPosition,   \* 0x7fff, the largest position of the absolute mouse
  ViewChanges     \* bound: how often window, picture or mode change

None == [x |-> 0, y |-> 0]

VARIABLES
  picture,    \* what is captured
  window,     \* the container of the picture
  mode, selection, selecting,
  region,     \* inputRegion: [frame, at, size], or None
  candidate, confirmations,   \* of AutoRegion
  viewChanges

viewVars ==
  <<picture, window, mode, selection, selecting, region, candidate, confirmations, viewChanges>>

Axes == {"x", "y"}
Other(a) == IF a = "x" THEN "y" ELSE "x"
Larger(i, j) == IF i > j THEN i ELSE j
Distance(i, j) == IF i > j THEN i - j ELSE j - i
\* Math.round of n / d
Round(n, d) == (2 * n + d) \div (2 * d)

-----------------------------------------------------------------------------
(* geometry.ts *)

\* isValidInputRegion
ValidRegion(r) ==
  \A a \in Axes : r.frame[a] > 0 /\ r.at[a] >= 0 /\ r.size[a] > 0 /\ r.at[a] + r.size[a] <= r.frame[a]

\* isInputRegionCompatible: the ratios differ by at most 0.01.
Compatible(r, media) ==
  100 * Distance(r.frame.x * media.y, media.x * r.frame.y) <= r.frame.y * media.y

\* getRenderedMediaRect, along an axis: the largest rectangle of the ratio of media
\* in box, which leaves the same room on both sides.
Rendered(box, media, a) ==
  LET b == Other(a)
      room == box[a] * media[b] - box[b] * media[a]
  IN  IF room > 0 THEN [unit |-> 2 * media[b], left |-> room, width |-> 2 * box[b] * media[a]]
      ELSE [unit |-> 1, left |-> 0, width |-> box[a]]

\* getCenteredInputRegionByAspectRatio: the largest region of the ratio of size.
Centered(size, media) ==
  LET Narrower(a) == size[a] * media[Other(a)] < media[a] * size[Other(a)]
      length == [a \in Axes |-> IF Narrower(a) THEN Round(media[Other(a)] * size[a], size[Other(a)])
                               ELSE media[a]]
  IN  [frame |-> media, at |-> [a \in Axes |-> (media[a] - length[a]) \div 2], size |-> length]

Whole(media) == [frame |-> media, at |-> None, size |-> media]

\* The size of the canvas that a picture is looked at on, in samples.
Samples(size) ==
  LET a == IF size.x * MaxSamples.y > size.y * MaxSamples.x THEN "x" ELSE "y" IN
  IF size[a] <= MaxSamples[a] THEN size
  ELSE [b \in Axes |-> Larger(1, Round(size[b] * MaxSamples[a], size[a]))]

\* The borders at the two ends of axis a in samples, of which the last may be shared
\* with the content.
Border(p, a) == <<p.from[a] * Samples(p.size)[a], p.to[a] * Samples(p.size)[a]>>
Full(p, a) == [e \in 1 .. 2 |-> Border(p, a)[e] \div p.size[a]]
Begun(p, a) == [e \in 1 .. 2 |-> (Border(p, a)[e] + p.size[a] - 1) \div p.size[a]]
\* Line i of m is in one of two borders.
Within(borders, m, i) == i < borders[1] \/ i >= m - borders[2]

\* drawMediaFrame scales a picture down: a sample that an edge runs through has a color
\* between border and content. Which of the edges are then dark, and whether corners are.
Scalings(p) ==
  LET Read(a, e) == Full(p, a)[e] .. Begun(p, a)[e] IN
  [x : Read("x", 1) \X Read("x", 2), y : Read("y", 1) \X Read("y", 2),
   corners : IF \E a \in Axes : Full(p, a) = Begun(p, a) THEN {FALSE} ELSE BOOLEAN]

\* findBorderInset: how many lines from one end of axis a are black, as far as
\* nine samples between lo and hi tell. A sample is dark in the borders of either axis.
Inset(p, s, a, fromStart, lo, hi) ==
  LET b == Other(a)
      m == Samples(p.size)
      Line(o) == IF fromStart THEN o ELSE m[a] - o - 1
      Sample(k) == lo + Round((Larger(1, hi - lo) - 1) * k, 10)
      dark == {k \in 1 .. 9 : Within(s[b], m[b], Sample(k))}
      corner == {k \in 1 .. 9 : s.corners /\ Within(Begun(p, b), m[b], Sample(k))}
      Darks(o) == IF Within(Begun(p, a), m[a], Line(o)) THEN dark \union corner ELSE dark
      Black(o) == Within(s[a], m[a], Line(o)) \/ 4 * Cardinality(Darks(o)) >= 3 * 9
      limit == (45 * m[a]) \div 100
  IN  Min({limit} \union {o \in 0 .. limit - 1 : ~Black(o)})

\* isSymmetricBorder
Symmetric(from, to, size) ==
  /\ from >= Larger(4, Round(2 * size, 100)) /\ to >= Larger(4, Round(2 * size, 100))
  /\ Distance(from, to) <= Larger(4, Round(5 * size, 100))

\* detectFrameContent: the borders above and below, those left and right between
\* them, and if there are such the rows once more between the columns.
DetectedBorders(p, s) ==
  LET m == Samples(p.size)
      Ends(a, lo, hi) == <<Inset(p, s, a, TRUE, lo, hi), Inset(p, s, a, FALSE, lo, hi)>>
      Kept(e, a) == IF Symmetric(e[1], e[2], m[a]) THEN e ELSE <<0, 0>>
      rows == Kept(Ends("y", 0, m.x), "y")
      columns == Kept(Ends("x", rows[1], m.y - rows[2]), "x")
  IN  [x |-> columns,
       y |-> IF columns = <<0, 0>> THEN rows
             ELSE Kept(Ends("y", columns[1], m.x - columns[2]), "y")]

\* Samples are turned back into pixels, and those are rounded (auto-region.tsx).
Detected(p, s) ==
  LET borders == DetectedBorders(p, s)
      m == Samples(p.size)
  IN  [frame |-> p.size,
       at |-> [a \in Axes |-> Round(borders[a][1] * p.size[a], m[a])],
       size |-> [a \in Axes |-> Round((m[a] - borders[a][1] - borders[a][2]) * p.size[a], m[a])]]
Detections == [p \in Pictures \union NextPictures |-> {Detected(p, s) : s \in Scalings(p)}]

-----------------------------------------------------------------------------
(* Layout and pointer *)

\* The viewport is cropped to the region, whatever is in the picture (viewport.tsx).
Cropped == mode # "off" /\ region # None /\ ~selecting

\* getEffectiveFrameContent: the region, as far as it goes with the picture.
Area ==
  IF region # None /\ ValidRegion(region) /\ (Cropped \/ Compatible(region, picture.size))
  THEN region ELSE Whole(picture.size)

\* Where the page shows the whole picture along axis a: fitted into the window, or
\* enlarged around the region, of which the viewport shows nothing else.
Shown(a) ==
  LET view == Rendered(window, region.size, a) IN
  IF Cropped
  THEN [unit |-> view.unit * region.size[a],
        left |-> view.left * region.size[a] - region.at[a] * view.width,
        width |-> region.frame[a] * view.width]
  ELSE Rendered(window, picture.size, a)

\* A position n / d of the way, or -1 outside.
Position(n, d) == IF n < 0 \/ n > d THEN -1 ELSE (LastPosition * n) \div d + 1

\* What of the host is seen at i: how far into the area.
SeenAt(a, i) ==
  LET r == Shown(a) IN
  Position((i * r.unit - r.left) * Area.frame[a] - Area.at[a] * r.width, Area.size[a] * r.width)

\* Mutant of PointedAt: the place of the region on the picture is forgotten.
PointedAtWhole(a, i) ==
  LET view == Rendered(window, region.size, a)
      r == Rendered(window, picture.size, a)
  IN  IF Cropped THEN Position(i * view.unit - view.left, view.width)
      ELSE Position((i * r.unit - r.left) * Area.frame[a], Area.size[a] * r.width)

\* getCorrectedCoords and getCoordinate: where an event at i points the host.
PointedAt(a, i) ==
  LET view == Rendered(window, region.size, a)
      r == Rendered(window, picture.size, a)
      left == r.left * Area.frame[a] + Area.at[a] * r.width
  IN  IF Cropped THEN Position(i * view.unit - view.left, view.width)
      ELSE Position(i * r.unit * Area.frame[a] - left, Area.size[a] * r.width)

-----------------------------------------------------------------------------

ViewTypeOK ==
  /\ picture \in Pictures \union NextPictures /\ window \in Windows
  /\ mode \in {"off", "auto", "manual"} /\ selection \in Selections /\ selecting \in BOOLEAN
  /\ region = None \/ ValidRegion(region)
  /\ candidate = None \/ ValidRegion(candidate)
  /\ confirmations \in 0 .. 4

ViewInit ==
  /\ picture \in Pictures /\ window \in Windows
  /\ mode = "off" /\ selection \in Selections /\ selecting = FALSE
  /\ region = None /\ candidate = None /\ confirmations = 0
  /\ viewChanges = ViewChanges

ViewChange == viewChanges > 0 /\ viewChanges' = viewChanges - 1

\* The effect of ManualRegion, whose timer computes the region again.
Derived == IF "frame" \in DOMAIN selection THEN selection ELSE Centered(selection, picture.size)

\* The effect of AutoRegion starts over with the mode and the overlay.
StartOver == candidate' = None /\ confirmations' = 0

Resize(w) ==
  /\ ViewChange /\ w # window /\ window' = w
  /\ UNCHANGED <<picture, mode, selection, selecting, region, candidate, confirmations>>

\* The host changes its resolution or what it shows.
Capture(p) ==
  /\ ViewChange /\ p # picture /\ picture' = p
  /\ UNCHANGED <<window, mode, selection, selecting, region, candidate, confirmations>>

\* updateMode, and the effects that follow it
ChangeMode(m) ==
  /\ ViewChange /\ m # mode /\ mode' = m
  /\ region' = IF m = "manual" THEN Derived ELSE None
  /\ StartOver
  /\ UNCHANGED <<picture, window, selection, selecting>>

\* The overlay opens or closes.
Overlay ==
  /\ mode = "manual" \/ selecting
  /\ ViewChange /\ selecting' = ~selecting
  /\ StartOver
  /\ UNCHANGED <<picture, window, mode, selection, region>>

\* detect: what is found three times in a row is the region.
Detect ==
  /\ mode = "auto" /\ ~selecting
  /\ candidate' \in Detections[picture]
  /\ confirmations' = IF candidate = candidate' THEN (IF confirmations = 4 THEN 4 ELSE confirmations + 1) ELSE 1
  /\ region' = IF candidate = candidate' /\ confirmations = 2 THEN candidate' ELSE region
  /\ UNCHANGED <<picture, window, mode, selection, selecting, viewChanges>>

\* The timer of ManualRegion
Fit ==
  /\ mode = "manual" /\ "frame" \notin DOMAIN selection
  /\ region' = Derived
  /\ UNCHANGED <<picture, window, mode, selection, selecting, candidate, confirmations, viewChanges>>

\* validateMediaSize: a region whose frame has another ratio switches the mode off.
Validate ==
  /\ mode = "manual" /\ region # None /\ ~Compatible(region, picture.size)
  /\ mode' = "off" /\ region' = None
  /\ StartOver
  /\ UNCHANGED <<picture, window, selection, selecting, viewChanges>>

ViewNext ==
  \/ \E w \in Windows : Resize(w)
  \/ \E p \in NextPictures : Capture(p)
  \/ \E m \in {"off", "auto", "manual"} : ChangeMode(m)
  \/ Overlay \/ Detect \/ Fit \/ Validate

ViewSpec == ViewInit /\ [][ViewNext]_viewVars

-----------------------------------------------------------------------------
(* Properties *)

\* The host is pointed at what the operator sees under the pointer, however the
\* picture is fitted, cropped or stretched, and nothing is sent from beside it
\* (viewport.tsx 46-77, absolute.tsx 387-450).
PointedIsSeen == \A a \in Axes : \A i \in 0 .. window[a] : PointedAt(a, i) = SeenAt(a, i)

\* The borders along axis a are about as wide, as far as their samples tell: for sure,
\* or perhaps, when an edge runs through a sample.
Bordered(p, a) ==
  \A s \in Scalings(p) : Symmetric(s[a][1], s[a][2], Samples(p.size)[a])
MaybeBordered(p, a) ==
  \E s \in Scalings(p) : Symmetric(s[a][1], s[a][2], Samples(p.size)[a])

\* Two places on axis a are the same, as far as a picture that was scaled down tells:
\* they are less than a sample and a pixel apart.
Near(p, a, i, j) ==
  LET m == Samples(p.size)[a] IN
  IF m = p.size[a] THEN i = j ELSE Distance(i, j) * m < p.size[a] + m

\* Once a picture has been looked at three times with the same result, the region is its
\* content: what is between two borders that are about as wide. It is that to the pixel
\* if the picture is not scaled down, and else as far as the samples tell
\* (auto-region.tsx 39-70, geometry.ts 64-181).
DetectedIsContent ==
  mode = "auto" /\ confirmations >= 3 /\ candidate \in Detections[picture] =>
    /\ region.frame = picture.size
    /\ \A a \in Axes :
         LET to == picture.size[a] - region.at[a] - region.size[a] IN
         \/ /\ MaybeBordered(picture, a)
            /\ Near(picture, a, region.at[a], picture.from[a]) /\ Near(picture, a, to, picture.to[a])
         \/ ~Bordered(picture, a) /\ region.at[a] = 0 /\ to = 0
=============================================================================
