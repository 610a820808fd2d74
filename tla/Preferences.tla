------------------------------- MODULE Preferences -------------------------------
(* What the web console remembers of its user's choices (web/src/lib/localstorage.ts).
   The choices are kept in the browser's storage, which all its pages share; a page
   reads most of them as the desktop is mounted, some as it is loaded or as a menu is
   opened first, and keeps them in its own state. Two notices, of an update and of an
   unchanged password, stay away for three days once they were dismissed.

   The settings of the screen are the device's, too: a page that is mounted tells it what
   is stored, and shows that when the device has taken it.

   One preference per behaviour. A browser that does without the decoder, or without
   WebRTC, does so always. *)
EXTENDS Integers, Sequences

CONSTANTS
  Pages,         \* pages of one browser
  Preferred,     \* the preferences, of Keys
  Speeds,        \* positions of the slider of the scroll speed, of 0 .. 100
  Items,         \* entries of the menu bar that may be hidden, of Icons
  LastDay, PreferenceEvents   \* bounds: days, and choices and pages opened

VARIABLES
  key,           \* the preference
  browser,       \* what the browser has: "all", "noDecoder", "nothing"
  stored,        \* its item in localStorage: <<>> or one value
  chosen,        \* (history) the last choice, or the day of the dismissal
  pages,         \* what each page has
  today, preferenceEvents

preferenceVars == <<key, browser, stored, chosen, pages, today, preferenceEvents>>

Keys == {"style", "mouseMode", "interval", "direction", "scale", "video", "icons", "menuMode",
         "leds", "power", "system", "keyboard", "language", "update", "password",
         "resolution", "quality", "fps", "gop"}
Notices == {"update", "password"}

-----------------------------------------------------------------------------
(* The choices *)

CursorStyles == {"cursor-default", "cursor-grab", "cursor-cell", "cursor-text", "cursor-none"}
MouseModes == {"absolute", "relative"}
Directions == {-1, 1}
Scales == {200, 150, 100, 75, 50}   \* per cent
MenuModes == {"auto", "always"}
Heights == {0, 1080, 720, 600, 480} \* of resolutions, 0 is automatic
Qualities == 1 .. 4
FpsList == {60, 30, 24}
GopList == {10, 30, 50, 100}
KeyboardSystems == {"win", "mac"}
KeyboardLanguages == {"en", "fr", "de", "ru", "ko", "ja"}
Languages == {"en", "de", "zh"}     \* of the wordings in locales/

\* speed2Interval
Interval(speed) == 300 - 3 * speed

\* The direct stream is offered to browsers that decode.
VideoModes == {"h264", "mjpeg"} \union (IF browser = "all" THEN {"direct"} ELSE {})

AdminItems == {"image", "download", "terminal", "script", "picoclaw"}
Icons == AdminItems \union {"wol", "power", "fullscreen", "collapse"}

\* updateItems: an entry that the role may use is hidden, or shown again.
Toggled(hidden, role) ==
  { IF i \in hidden THEN hidden \ {i} ELSE hidden \union {i} :
      i \in IF role = "admin" THEN Items ELSE Items \ AdminItems }

Choices(p) ==
  CASE key = "style" -> CursorStyles
    [] key = "mouseMode" -> MouseModes
    [] key = "interval" -> {Interval(s) : s \in Speeds}
    [] key = "direction" -> Directions
    [] key = "scale" -> Scales
    [] key = "video" -> VideoModes \ {p.value}
    [] key = "icons" -> Toggled(p.value, p.role)
    [] key = "menuMode" -> MenuModes \ {p.value}
    [] key \in {"leds", "power"} -> BOOLEAN
    [] key = "system" -> KeyboardSystems
    [] key = "keyboard" -> KeyboardLanguages
    [] key = "language" -> Languages \ {p.value}
    [] key = "resolution" -> Heights
    [] key = "quality" -> Qualities
    [] key = "fps" -> FpsList
    [] key = "gop" -> GopList \ {p.value}
    [] OTHER -> {}

-----------------------------------------------------------------------------
(* Reading. v is what the page has when it reads. *)

\* Mouse: what is stored, if it is something
MouseRead(v) == IF stored # <<>> /\ (key = "interval" => stored[1] # 0) THEN stored[1] ELSE v

ScaleRead(v) == IF stored # <<>> THEN stored[1] ELSE v

\* getVideoMode
DefaultVideoMode == IF browser = "nothing" THEN "mjpeg" ELSE "h264"
VideoRead == IF stored = <<>> \/ (stored[1] = "direct" /\ browser # "all") THEN DefaultVideoMode
             ELSE stored[1]

IconsRead == IF stored = <<>> THEN {} ELSE stored[1]
MenuModeRead == IF stored = <<>> THEN "auto" ELSE stored[1]
LedsRead == stored # <<FALSE>>
ConfirmRead == stored = <<TRUE>>

\* useEffect of VirtualKeyboard, whose state is new on every mount
LayoutRead == IF stored # <<>> THEN stored[1] ELSE IF key = "system" THEN "win" ELSE "en"

\* getCurrentLanguage, in a browser whose language has no wording
LanguageRead == IF stored # <<>> /\ stored[1] \in Languages THEN stored[1] ELSE "en"

\* Desktop, and what Screen asks of the device
ResolutionRead == IF stored = <<>> THEN 0 ELSE stored[1]
Asked == IF key \in {"quality", "fps", "gop"} THEN stored ELSE <<>>

\* getWithExpiry: it removes what has expired.
SkipDays == 3
Expired == stored # <<>> /\ today > stored[1]
Due == stored = <<>> \/ Expired

MouseKeys == {"style", "mouseMode", "interval", "direction"}

\* As the desktop is mounted
Mounted(v) ==
  CASE key \in MouseKeys -> MouseRead(v)
    [] key = "video" -> VideoRead
    [] key = "icons" -> IconsRead
    [] key = "menuMode" -> MenuModeRead
    [] key = "leds" -> LedsRead
    [] key = "power" -> ConfirmRead
    [] key \in {"system", "keyboard"} -> LayoutRead
    [] key \in Notices -> Due
    [] key = "resolution" -> ResolutionRead
    [] key = "quality" -> 2
    [] key \in {"fps", "gop"} -> 30
    [] OTHER -> v

\* As the page is loaded: the values that the atoms begin with
Default ==
  CASE key = "style" -> "cursor-default"
    [] key = "mouseMode" -> "absolute"
    [] key = "interval" -> 0
    [] key = "direction" -> -1
    [] key = "scale" -> 100
    [] key = "video" -> DefaultVideoMode
    [] key = "icons" -> {}
    [] key = "menuMode" -> "auto"
    [] key = "leds" -> TRUE
    [] key = "power" -> FALSE
    [] key = "system" -> "win"
    [] key \in {"keyboard", "language"} -> "en"
    [] key \in Notices -> TRUE
    [] key = "resolution" -> 0
    [] key = "quality" -> 2
    [] key \in {"fps", "gop"} -> 30

-----------------------------------------------------------------------------

\* A page: what it applies, since the last choice that another made ("fresh"), as it
\* was loaded or logged in to anew; whether the screen menu was opened; the scale from
\* before the overlay; whether it is about to reload itself; the day it read; and what it asks of the device.
Closed == [at |-> "closed"]

PreferencesTypeOK ==
  /\ key \in Keys /\ Len(stored) <= 1 /\ Len(chosen) <= 1
  /\ \A p \in Pages : pages[p] # Closed =>
        /\ pages[p].at \in {"loaded", "again"} /\ pages[p].day <= today
        /\ pages[p].reloads => key = "video"
        /\ pages[p].zoom # <<>> => pages[p].value = 75
  /\ key = "icons" /\ stored # <<>> => stored[1] \subseteq Items

PreferencesInit ==
  /\ key \in Preferred /\ browser \in {"all", "noDecoder", "nothing"}
  /\ (key # "video" => browser = "all")
  /\ stored = <<>> /\ chosen = <<>>
  /\ pages = [p \in Pages |-> Closed]
  /\ today = 0 /\ preferenceEvents = PreferenceEvents

Event == preferenceEvents > 0 /\ preferenceEvents' = preferenceEvents - 1

\* What has expired is removed by whoever reads it.
Cleaned == stored' = IF key \in Notices /\ Expired THEN <<>> ELSE stored

Loaded(role) ==
  [at |-> "loaded", role |-> role, fresh |-> TRUE, menu |-> FALSE, zoom |-> <<>>,
   reloads |-> FALSE, day |-> today, asks |-> Asked,
   value |-> IF key = "language" THEN LanguageRead ELSE Mounted(Default)]

\* Only administrators are told of updates.
Roles == IF key = "update" THEN {"admin"} ELSE {"admin", "user"}

\* A page is opened, or loaded again.
Load(p) ==
  /\ Event
  /\ \E role \in Roles : pages' = [pages EXCEPT ![p] = Loaded(role)]
  /\ Cleaned
  /\ UNCHANGED <<key, browser, chosen, today>>

\* Logged out and in again, the desktop is mounted again; the atoms live on.
LogIn(p) ==
  /\ Event /\ pages[p] # Closed /\ pages[p].zoom = <<>>
  /\ \E role \in Roles :
        pages' = [pages EXCEPT ![p] =
          [Loaded(role) EXCEPT !.at = "again", !.reloads = pages[p].reloads,
             !.fresh = (IF key \in {"language", "interval"} THEN pages[p].fresh ELSE TRUE),
             !.value = Mounted(pages[p].value)]]
  /\ Cleaned
  /\ UNCHANGED <<key, browser, chosen, today>>

\* updateQuality and the others: the device answers. If it refuses, or its answer comes
\* after another choice, the page shows something else than what is chosen.
Answered(p, ok) ==
  /\ pages[p] # Closed /\ pages[p].asks # <<>>
  /\ pages' = [pages EXCEPT ![p].asks = <<>>, ![p].value = IF ok THEN pages[p].asks[1] ELSE @,
                ![p].fresh = (@ /\ ok /\ pages[p].asks = chosen)]
  /\ UNCHANGED <<key, browser, stored, chosen, today, preferenceEvents>>

\* The screen menu is opened first: Scale is mounted.
OpenMenu(p) ==
  /\ key = "scale" /\ pages[p] # Closed /\ ~pages[p].menu /\ pages[p].zoom = <<>>
  /\ pages' = [pages EXCEPT ![p].menu = TRUE, ![p].value = ScaleRead(@)]
  /\ UNCHANGED <<key, browser, stored, chosen, today, preferenceEvents>>

\* InputRegionOverlay shows all of the picture, and restores the scale.
Zoom(p) ==
  /\ key = "scale" /\ pages[p] # Closed /\ pages[p].zoom = <<>>
  /\ pages' = [pages EXCEPT ![p].zoom = <<pages[p].value>>, ![p].value = 75]
  /\ UNCHANGED <<key, browser, stored, chosen, today, preferenceEvents>>

Unzoom(p) ==
  /\ key = "scale" /\ pages[p] # Closed /\ pages[p].zoom # <<>>
  /\ pages' = [pages EXCEPT ![p].zoom = <<>>, ![p].value = pages[p].zoom[1]]
  /\ UNCHANGED <<key, browser, stored, chosen, today, preferenceEvents>>

\* The others do not hear of it.
Stale(q) == IF q = Closed THEN q ELSE [q EXCEPT !.fresh = FALSE]

\* The updates of the menu's and the settings' entries: into the page and the storage.
\* A new video mode is for the page that is loaded half a second later.
Choose(p) ==
  /\ Event /\ pages[p] # Closed /\ (key = "scale" => pages[p].menu /\ pages[p].zoom = <<>>)
  /\ \E v \in Choices(pages[p]) :
        /\ stored' = <<v>> /\ chosen' = <<v>>
        /\ pages' = [q \in Pages |->
             IF q # p THEN Stale(pages[q])
             ELSE IF key = "video" THEN [Stale(pages[p]) EXCEPT !.reloads = TRUE]
             ELSE [pages[p] EXCEPT !.value = v, !.fresh = TRUE]]
  /\ UNCHANGED <<key, browser, today>>

Reload(p) ==
  /\ pages[p] # Closed /\ pages[p].reloads
  /\ pages' = [pages EXCEPT ![p] = Loaded(pages[p].role)]
  /\ UNCHANGED <<key, browser, stored, chosen, today, preferenceEvents>>

\* The tab of the update is looked at, or the notice of the password closed.
Dismiss(p) ==
  /\ Event /\ key \in Notices /\ pages[p] # Closed /\ pages[p].value
  /\ stored' = <<today + SkipDays>> /\ chosen' = <<today>>
  /\ pages' = [q \in Pages |->
       IF q = p THEN [pages[p] EXCEPT !.value = FALSE, !.fresh = TRUE, !.day = today]
       ELSE Stale(pages[q])]
  /\ UNCHANGED <<key, browser, today>>

NextDay ==
  /\ key \in Notices /\ today < LastDay /\ today' = today + 1
  /\ UNCHANGED <<key, browser, stored, chosen, pages, preferenceEvents>>

PreferencesNext ==
  \/ \E p \in Pages :
        \/ Load(p) \/ LogIn(p) \/ OpenMenu(p) \/ Zoom(p) \/ Unzoom(p)
        \/ Choose(p) \/ Reload(p) \/ Dismiss(p)
        \/ \E ok \in BOOLEAN : Answered(p, ok)
  \/ NextDay

PreferencesSpec == PreferencesInit /\ [][PreferencesNext]_preferenceVars

-----------------------------------------------------------------------------
(* Properties *)

\* What a page is to apply: the last choice made anywhere, and a notice but for the
\* three days since it was dismissed.
Wanted(p) ==
  CASE key \in Notices -> chosen = <<>> \/ p.day > chosen[1] + SkipDays
    [] key \notin Notices /\ chosen = <<>> -> Default
    [] OTHER -> chosen[1]

\* Whichever page a choice was made in, a page that is loaded after it applies it, and
\* so does one that is logged in to again, the fastest scrolling and the language apart:
\* the scale from when the menu was opened, and again when the overlay is gone, what the
\* device has to take when it has taken it. What a role may not hide stays as it was.
ChoiceIsKept ==
  \A p \in Pages :
    pages[p] # Closed /\ pages[p].fresh /\ pages[p].zoom = <<>> /\ pages[p].asks = <<>>
        /\ (key = "scale" => pages[p].menu)
      => pages[p].value = Wanted(pages[p])

-----------------------------------------------------------------------------
(* What every step keeps *)

AtMostOne(s) == s = <<>> \/ s = <<s[1]>>

\* The storage has the choice; a notice is kept as long as it is to stay away.
StoredIsChosen ==
  IF key \in Notices
  THEN IF stored = <<>> THEN chosen # <<>> => today > chosen[1] + SkipDays
       ELSE chosen # <<>> /\ stored = <<chosen[1] + SkipDays>>
  ELSE stored = chosen

\* What is chosen was on offer.
ChosenWasOffered ==
  chosen # <<>> =>
    /\ key \in Notices => chosen[1] \in Nat
    /\ key = "video" => (chosen[1] = "direct" => browser = "all")
    /\ key \in {"leds", "power"} => chosen[1] \in BOOLEAN
    /\ key = "language" => chosen[1] \in Languages
    /\ key = "icons" => chosen[1] \subseteq Items

\* The scale of a page, under the overlay as well.
Scale(p) == IF p.zoom = <<>> THEN p.value ELSE p.zoom[1]

\* What a page is made of, and what it is still to do; before the first choice all
\* pages have what there is to have.
PageWaits(p) ==
  /\ DOMAIN p = {"at", "role", "fresh", "menu", "zoom", "reloads", "day", "asks", "value"}
  /\ p.at \in {"loaded", "again"} /\ (p.reloads => key = "video")
  /\ AtMostOne(p.zoom) /\ (p.zoom # <<>> => key = "scale")
  /\ AtMostOne(p.asks) /\ (p.asks # <<>> => key \in {"quality", "fps", "gop"})
  /\ chosen = <<>> => p.fresh /\ p.asks = <<>>
PageDay(p) == p.day \in Nat /\ p.day <= today

\* What it has of the choice, under the overlay and before the device has answered.
PageShows(p) ==
  /\ p.zoom # <<>> => p.value = 75
  /\ key = "icons" => p.value \subseteq Items
  /\ key = "scale" => /\ chosen = <<>> => Scale(p) = Default
                      /\ p.fresh /\ p.menu => Scale(p) = Wanted(p)
  /\ key # "scale" /\ p.fresh /\ p.asks = <<>> => p.value = Wanted(p)

PageOK(p) == PageWaits(p) /\ PageDay(p) /\ PageShows(p)

PreferencesInv ==
  /\ key \in Keys /\ today \in Nat /\ AtMostOne(chosen)
  /\ StoredIsChosen /\ ChosenWasOffered
  /\ DOMAIN pages = Pages
  /\ \A p \in Pages : pages[p] = Closed \/ PageOK(pages[p])
=============================================================================
