------------------------------ MODULE ControlRegion ------------------------------
(* The region of the picture that the absolute mouse is mapped to: the
   configuration that the device keeps (server/service/vm/input_region.go), the
   menu and the overlay that change it (web/src/pages/desktop/menu/screen/
   original-resolution.tsx, screen/input-region-overlay.tsx), and the effects that
   derive the region in force (auto-region.tsx, manual-region.tsx, desktop/index.tsx).
   No button waits for the answer of another, so calls overlap, and each is made of
   what the page knew when it was made. *)
EXTENDS FiniteSets, Naturals

CONSTANTS
  Regions,                \* rectangles of the picture
  RegionKey,              \* the size each is listed and selected by, WxH
  Resolutions,            \* resolutions, each by its key
  RegionCalls, RegionClicks   \* bounds on the calls under way, and on the user

None == "none"

VARIABLES
  dev,         \* the configuration of the device
  page,        \* what the page knows of it
  force,       \* inputRegion: a region, "fit" for one computed, "auto", or None
  stale,       \* since the effects last ran, the region in force was set to the one
               \* that a list the page has replaced has of the selected key
  selecting,   \* the overlay is shown
  calls,       \* requests, and answers that have not been handled
  regionClicks

regionVars == <<dev, page, force, stale, selecting, calls, regionClicks>>

KeysOf(list) == {RegionKey[r] : r \in list}
Keys == KeysOf(Regions)

\* A list has at most one region of a size (validateManualRegions).
Unique(list) == \A r, q \in list : RegionKey[r] = RegionKey[q] => r = q

\* The region that a key stands for.
Find(list, key) ==
  IF key \in KeysOf(list) THEN CHOOSE r \in list : RegionKey[r] = key ELSE None

Configs == [mode : {"off", "auto", "manual"}, resolutions : SUBSET Resolutions,
            resolution : Resolutions \union {None}, regions : SUBSET Regions,
            region : Keys \union {None}]

RegionTypeOK ==
  /\ {dev, page} \subseteq Configs
  /\ force \in Regions \union {None, "fit", "auto"}
  /\ selecting \in BOOLEAN /\ stale \in BOOLEAN
  /\ Cardinality(calls) <= RegionCalls + 1

\* validateManualRegions and validateSelections
Valid(c) ==
  /\ Unique(c.regions)
  /\ c.region = None \/ c.resolution = None
  /\ c.region \in KeysOf(c.regions) \union {None}
  /\ c.resolution \in c.resolutions \union {None}

\* A call: the fields it sends, and what is still to come of it.
Call(kind, arg, patch) == [kind |-> kind, arg |-> arg, patch |-> patch, answer |-> "none", got |-> <<>>]

Nothing == [mode |-> "off", resolutions |-> {}, resolution |-> None, regions |-> {}, region |-> None]

RegionInit ==
  /\ dev \in {c \in Configs : c.resolution = None /\ Valid(c)}
  /\ page = Nothing
  /\ force = None /\ stale = FALSE /\ selecting = FALSE
  /\ calls = {Call("mount", None, <<>>)}
  /\ regionClicks = RegionClicks

-----------------------------------------------------------------------------
(* The page *)

\* The effect of ManualRegion
Derived(p) ==
  IF p.region # None THEN Find(p.regions, p.region)
  ELSE IF p.resolution # None THEN "fit" ELSE None

\* The effect of ManualRegion runs when the mode or a selection changed, and after a
\* handler that sets the list of regions: it looks at the array, which is a new one.
EffectRuns(c, p) ==
  /\ p.mode = "manual"
  /\ \/ c.kind \in {"mount", "load", "loaded", "regions", "area"}
     \/ p.mode # page.mode \/ p.resolution # page.resolution \/ p.region # page.region

\* applyManualRegion looks the region up in the list it had when it was called.
Overtaken(c) == c.kind = "region" /\ c.patch.regions # page.regions

\* Mutant of Commit: the effects do not run when the selection changes.
CommitUnlessMode(c, p, f) ==
  /\ page' = p
  /\ force' = IF p.mode # page.mode THEN IF p.mode = "manual" THEN Derived(p) ELSE None ELSE f
  /\ stale' = (p.mode = page.mode /\ (stale \/ Overtaken(c)))

\* The handler of c makes the page p and the region f, and the effects run: that of
\* AutoRegion with the mode.
Commit(c, p, f) ==
  /\ page' = p
  /\ force' = IF EffectRuns(c, p) THEN Derived(p)
              ELSE IF p.mode # page.mode /\ p.mode # "auto" THEN None ELSE f
  /\ stale' = (~EffectRuns(c, p) /\ (stale \/ Overtaken(c)))

Ask(kind, arg, patch) ==
  /\ Cardinality(calls) < RegionCalls
  /\ regionClicks > 0 /\ regionClicks' = regionClicks - 1
  /\ calls' = calls \union {Call(kind, arg, patch)}
  /\ UNCHANGED <<dev, page, force, stale>>

\* The popover opens: loadConfig.
OpenMenu == Ask("load", None, <<>>) /\ UNCHANGED selecting

\* updateMode; or the mode is switched off because the region does not fit the
\* picture any more.
UpdateMode(m) == Ask(IF m = "manual" THEN "manual" ELSE "mode", m, [mode |-> m]) /\ UNCHANGED selecting

\* applyOriginalResolution and applyManualRegion
ApplyResolution(k) ==
  /\ page.mode = "manual" /\ k \in page.resolutions \union {None}
  /\ Ask("resolution", k, [mode |-> "manual", resolution |-> k, region |-> None])
  /\ UNCHANGED selecting
ApplyRegion(k) ==
  /\ page.mode = "manual" /\ k \in KeysOf(page.regions) \union {None}
  /\ Ask("region", k, [mode |-> "manual", regions |-> page.regions, region |-> k, resolution |-> None])
  /\ UNCHANGED selecting

\* addResolution and deleteResolution: saveResolutions with the list next.
SaveResolutions(kind, next, chosen) ==
  Ask(kind, chosen,
      [mode |-> "manual", resolutions |-> next, resolution |-> chosen,
       region |-> IF chosen # None THEN None ELSE page.region])
AddResolution(k) ==
  /\ page.mode = "manual" /\ k \notin page.resolutions
  /\ SaveResolutions("added", page.resolutions \union {k}, page.resolution)
  /\ UNCHANGED selecting
DeleteResolution(k) ==
  /\ page.mode = "manual" /\ k \in page.resolutions
  /\ SaveResolutions("deleted", page.resolutions \ {k}, IF page.resolution = k THEN None ELSE page.resolution)
  /\ UNCHANGED selecting

\* deleteManualRegion
Without(list, k) == {r \in list : RegionKey[r] # k}
DeleteRegion(k) ==
  LET next == IF page.region = k THEN None ELSE page.region IN
  /\ page.mode = "manual" /\ k \in KeysOf(page.regions)
  /\ Ask("regions", next, [mode |-> "manual", regions |-> Without(page.regions, k), region |-> next,
                           resolution |-> page.resolution])
  /\ UNCHANGED selecting

\* selectArea and cancelSelection; confirm, which puts the region that was drawn in
\* the place of the one of the same size.
SelectArea == page.mode = "manual" /\ selecting' = TRUE /\ ~selecting
              /\ UNCHANGED <<dev, page, force, stale, calls, regionClicks>>
Confirm(r) ==
  /\ selecting
  /\ Ask("area", r, [mode |-> "manual", regions |-> Without(page.regions, RegionKey[r]) \union {r},
                     region |-> RegionKey[r], resolution |-> None])
  /\ UNCHANGED selecting
CancelSelection == selecting /\ selecting' = FALSE /\ UNCHANGED <<dev, page, force, stale, calls, regionClicks>>

\* The timers of ManualRegion and of AutoRegion.
Fit ==
  /\ page.mode = "manual" /\ page.region = None /\ page.resolution # None
  /\ force' = "fit"
  /\ UNCHANGED <<dev, page, stale, selecting, calls, regionClicks>>
Detect ==
  /\ page.mode = "auto" /\ ~selecting
  /\ force' = "auto"
  /\ UNCHANGED <<dev, page, stale, selecting, calls, regionClicks>>

-----------------------------------------------------------------------------
(* Requests and answers *)

\* The fields that are sent replace those of the file.
Patched(config, patch) ==
  [field \in DOMAIN config |-> IF field \in DOMAIN patch THEN patch[field] ELSE config[field]]

\* GetInputRegion and SetInputRegion: the whole is checked, with the fields
\* that are sent. The answer may be lost.
Serve(c) ==
  LET next == Patched(dev, c.patch) IN
  /\ c.answer = "none"
  /\ dev' = IF Valid(next) THEN next ELSE dev
  /\ \E a \in {"lost", IF Valid(next) THEN "ok" ELSE "refused"} :
       calls' = (calls \ {c}) \union
                {[c EXCEPT !.answer = a,
                           !.got = IF a = "ok" /\ c.patch = <<>> THEN dev' ELSE <<>>]}
  /\ UNCHANGED <<page, force, stale, selecting, regionClicks>>

\* loadConfig sets everything but the mode.
Loaded(got) == [got EXCEPT !.mode = page.mode]

\* What the handler does once its await is over.
Handled(c) ==
  \/ c.kind = "load" /\ Commit(c, Loaded(c.got), force)
  \/ /\ c.kind = "mount"
     /\ Commit(c, [c.got EXCEPT !.resolutions = page.resolutions],
               IF c.got.mode = "manual" THEN Derived([c.got EXCEPT !.resolution = None]) ELSE None)
  \/ c.kind = "mode" /\ Commit(c, [page EXCEPT !.mode = c.arg], None)
  \/ /\ c.kind = "loaded"
     /\ Commit(c, Loaded(c.got), IF c.got.resolution # None THEN None ELSE Derived(c.got))
  \/ c.kind = "manual" /\ Commit(c, [page EXCEPT !.mode = "manual"], force)
  \/ /\ c.kind = "resolution"
     /\ Commit(c, [page EXCEPT !.resolution = c.arg, !.region = None], IF c.arg = None THEN None ELSE force)
  \/ /\ c.kind = "region"
     /\ Commit(c, [page EXCEPT !.region = c.arg, !.resolution = None], Find(c.patch.regions, c.arg))
  \/ c.kind = "added" /\ Commit(c, [page EXCEPT !.resolutions = c.patch.resolutions], force)
  \/ /\ c.kind = "deleted"
     /\ Commit(c, [page EXCEPT !.resolutions = c.patch.resolutions,
                               !.resolution = IF c.arg = None THEN None ELSE @],
               IF c.arg = None THEN None ELSE force)
  \/ /\ c.kind = "regions"
     /\ Commit(c, [page EXCEPT !.regions = c.patch.regions, !.region = IF c.arg = None THEN None ELSE @],
               IF c.arg = None THEN None ELSE force)
  \/ /\ c.kind = "area"
     /\ Commit(c, [page EXCEPT !.regions = c.patch.regions, !.region = c.patch.region, !.resolution = None],
               c.arg)

Answered(c) ==
  /\ c.answer # "none"
  /\ calls' = (calls \ {c}) \union
              (IF c.answer = "ok" /\ c.kind = "manual" THEN {Call("loaded", None, <<>>)} ELSE {})
  /\ \/ c.answer = "ok" /\ Handled(c)
     \/ c.answer # "ok" /\ c.kind = "mount" /\ Commit(c, [Nothing EXCEPT !.resolutions = page.resolutions], None)
     \/ c.answer # "ok" /\ c.kind # "mount" /\ UNCHANGED <<page, force, stale>>
  /\ selecting' = (selecting /\ ~(c.answer = "ok" /\ c.kind = "area"))
  /\ UNCHANGED <<dev, regionClicks>>

RegionNext ==
  \/ \E c \in calls : Serve(c) \/ Answered(c)
  \/ \E m \in {"off", "auto", "manual"} : UpdateMode(m)
  \/ \E k \in Resolutions \union {None} : ApplyResolution(k)
  \/ \E k \in Resolutions : AddResolution(k) \/ DeleteResolution(k)
  \/ \E k \in Keys \union {None} : ApplyRegion(k)
  \/ \E k \in Keys : DeleteRegion(k)
  \/ \E r \in Regions : Confirm(r)
  \/ OpenMenu \/ SelectArea \/ CancelSelection \/ Fit \/ Detect

RegionSpec == RegionInit /\ [][RegionNext]_regionVars

-----------------------------------------------------------------------------
(* Properties *)

\* Whatever stale lists overlapping calls are made of, the device never keeps two
\* regions of a size, a selection that is not in its lists, nor two of them
\* (validateManualRegions, validateSelections).
SavedConfigIsValid ==
  /\ Unique(dev.regions)
  /\ dev.region = None \/ (dev.resolution = None /\ dev.region \in KeysOf(dev.regions))
  /\ dev.resolution \in dev.resolutions \union {None}

\* In manual mode the mouse is mapped to the whole picture or to what is selected: a
\* region that is in force has the selected size, and is the one the page lists unless
\* a selection has been answered whose list another call had replaced meanwhile (then
\* its place may be an older one, until the effects run again).
ForceIsSelected ==
  page.mode = "manual" =>
    \/ force = None
    \/ force = "fit" /\ page.region = None /\ page.resolution # None
    \/ /\ force \in Regions /\ RegionKey[force] = page.region
       /\ stale \/ force \in page.regions
=============================================================================
