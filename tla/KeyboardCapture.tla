---------------------------- MODULE KeyboardCapture ----------------------------
(* How the page turns the keyboard of the operator into reports
   (web/src/pages/desktop/keyboard, lib/keyboard.ts), with its two ways to press
   keys that are not there: the virtual keyboard and the shortcuts. Every report
   is the full state of the keys, so each overwrites what another has sent. An
   action is one event of the browser and the whole of its handler. *)
EXTENDS FiniteSets, Naturals

CONSTANTS
  Keyboards,   \* the keys the operator uses in one behaviour
  MaxKeys      \* MAX_KEYS

Modifiers == {"ControlLeft", "AltRight", "ShiftLeft", "MetaLeft"}
Leader == "Leader"     \* the key that is set as leader key

VARIABLES
  keys, windows,      \* the keys in use; the operator's system is Windows
  held, focused,      \* keys that are physically down; the page has the focus
  locked, bound,      \* the keyboard is locked; so it was when the effect ran
  pressed,            \* pressedKeys
  down,               \* KeyboardReport: the keys of the last physical report
  host,               \* the keys of the last report of all
  composing,          \* isComposing
  leaderKnown,        \* leaderState.code is set
  record, modifiers,  \* recordMode and recordModifiers
  altGr,              \* AltGrState.active
  swallowed,          \* keys in `down` whose release was not sent on
  virtualKey, virtualModifiers   \* of the virtual keyboard

operator == <<keys, windows, held, focused, locked>>
virtual == <<virtualKey, virtualModifiers>>
keyboardVars == <<operator, bound, pressed, down, host, composing, leaderKnown, record,
                  modifiers, altGr, swallowed, virtual>>

NoKey == "none"

KeyboardTypeOK ==
  /\ {held, pressed, down, host, swallowed} \subseteq SUBSET keys
  /\ modifiers \subseteq Modifiers \intersect keys
  /\ virtualModifiers \subseteq Modifiers \intersect keys
  /\ virtualKey \in keys \union {NoKey}
  /\ Cardinality(down \ Modifiers) <= MaxKeys
  /\ windows \in BOOLEAN /\ focused \in BOOLEAN /\ locked \in BOOLEAN /\ bound \in BOOLEAN
  /\ composing \in BOOLEAN /\ leaderKnown \in BOOLEAN /\ record \in BOOLEAN /\ altGr \in BOOLEAN

KeyboardInit ==
  /\ keys \in Keyboards /\ windows \in BOOLEAN
  /\ held = {} /\ focused = TRUE /\ locked = FALSE /\ bound = TRUE
  /\ pressed = {} /\ down = {} /\ host = {} /\ swallowed = {}
  /\ composing = FALSE /\ leaderKnown = FALSE
  /\ record = FALSE /\ modifiers = {} /\ altGr = FALSE
  /\ virtualKey = NoKey /\ virtualModifiers = {}

-----------------------------------------------------------------------------
(* Reports *)

\* Mutant of WithKey: a seventh key is reported.
WithKeyAnyway(D, k) == D \union {k}

\* KeyboardReport.keyDown: a seventh key is not reported.
WithKey(D, k) == IF k \in Modifiers \/ Cardinality(D \ Modifiers) < MaxKeys THEN D \union {k} ELSE D

\* sendKeyEvent for the keys in K, which come up.
SendUp(K) ==
  /\ down' = down \ K /\ swallowed' = swallowed \ K
  /\ host' = IF K = {} THEN host ELSE down'
SendDown(k) == down' = WithKey(down, k) /\ host' = down' /\ UNCHANGED swallowed
SendNothing == UNCHANGED <<down, host, swallowed>>

\* reset of useLeaderKey
LeaderReset == record' = FALSE /\ modifiers' = {} /\ SendUp(modifiers)

\* releaseKeys; the last of its reports resets everything.
ReleaseKeys ==
  /\ pressed' = {} /\ altGr' = FALSE
  /\ record' = FALSE /\ modifiers' = {}
  /\ down' = {} /\ host' = {} /\ swallowed' = {}

Handled == bound /\ focused /\ ~composing

-----------------------------------------------------------------------------
(* Keys *)

\* handleKeyDown of useLeaderKey: in record mode a modifier stays down, any other
\* key goes down and up.
LeaderDown(k) ==
  /\ \/ k = Leader /\ record' = TRUE /\ SendNothing /\ UNCHANGED modifiers
     \/ /\ k \in Modifiers \ modifiers
        /\ modifiers' = modifiers \union {k} /\ SendDown(k) /\ UNCHANGED record
     \/ k \in modifiers /\ SendNothing /\ UNCHANGED <<record, modifiers>>
     \/ k \notin Modifiers \union {Leader} /\ SendUp({k}) /\ UNCHANGED <<record, modifiers>>
  /\ pressed' = pressed \union {k}
  /\ UNCHANGED altGr

\* The key goes down; for AltGr the browser sends the left control key first, and
\* less than ten milliseconds before it.
PlainDown(k) ==
  /\ \/ /\ windows /\ k = "AltRight" /\ "ControlLeft" \in pressed
        /\ altGr' = TRUE
        /\ pressed' = (pressed \ {"ControlLeft"}) \union {k}
        /\ down' = WithKey(down \ {"ControlLeft"}, k) /\ host' = down'
        /\ swallowed' = swallowed \ {"ControlLeft"}
     \/ SendDown(k) /\ pressed' = pressed \union {k} /\ UNCHANGED altGr
  /\ UNCHANGED <<record, modifiers>>

\* handleKeyDown; a key that is held repeats.
KeyDown(k) ==
  /\ focused /\ k \in keys
  /\ held' = held \union {k}
  /\ IF ~Handled \/ k \in pressed
     THEN k \notin held /\ SendNothing /\ UNCHANGED <<pressed, record, modifiers, altGr>>
     ELSE IF leaderKnown /\ (k = Leader \/ record) THEN LeaderDown(k) ELSE PlainDown(k)
  /\ UNCHANGED <<keys, windows, focused, locked, bound, composing, leaderKnown, virtual>>

\* The release is not sent on: the key stays in the report. (A modifier of the
\* record mode comes up when that ends.)
Swallow(k) ==
  /\ swallowed' = swallowed \union (({k} \intersect down) \ modifiers)
  /\ UNCHANGED <<down, host, record, modifiers>>

\* handleKeyUp of useLeaderKey: after 350 ms the leader key ends the record mode.
LeaderUp(k) ==
  /\ \/ k = Leader /\ record /\ LeaderReset
     \/ Swallow(k)
  /\ pressed' = pressed \ {k}
  /\ UNCHANGED altGr

\* releaseMetaCombinations
MetaCombinations(k) == IF k = "MetaLeft" THEN pressed \ Modifiers ELSE {}

PlainUp(k) ==
  \/ /\ altGr /\ k = "ControlLeft"
     /\ Swallow(k)
     /\ pressed' = pressed \ {k} /\ UNCHANGED altGr
  \/ /\ ~(altGr /\ k = "ControlLeft")
     /\ SendUp({k} \union MetaCombinations(k))
     /\ pressed' = pressed \ ({k} \union MetaCombinations(k)
                              \union (IF altGr /\ k = "AltRight" THEN {"ControlLeft"} ELSE {}))
     /\ altGr' = (altGr /\ k # "AltRight")
     /\ UNCHANGED <<record, modifiers>>

\* handleKeyUp
KeyUp(k) ==
  /\ focused /\ k \in held
  /\ held' = held \ {k}
  /\ \/ ~Handled /\ Swallow(k) /\ UNCHANGED <<pressed, altGr>>
     \/ Handled /\ leaderKnown /\ (k = Leader \/ record) /\ LeaderUp(k)
     \/ Handled /\ ~(leaderKnown /\ (k = Leader \/ record)) /\ PlainUp(k)
  /\ UNCHANGED <<keys, windows, focused, locked, bound, composing, leaderKnown, virtual>>

-----------------------------------------------------------------------------
(* What else happens to the page *)

\* handleBlur, and handleVisibilityChange when the page is hidden.
Blur ==
  /\ focused /\ focused' = FALSE
  /\ ReleaseKeys
  /\ UNCHANGED <<keys, windows, held, locked, bound, composing, leaderKnown, virtual>>

\* Out of the page's sight keys go down and up; then it has the focus again.
Focus ==
  /\ ~focused /\ focused' = TRUE
  /\ held' \in SUBSET keys
  /\ UNCHANGED <<keys, windows, locked, bound, pressed, down, host, composing, leaderKnown,
                 record, modifiers, altGr, swallowed, virtual>>

\* keyboardLockAtom
Lock ==
  /\ locked' = ~locked
  /\ UNCHANGED <<keys, windows, held, focused, bound, pressed, down, host, composing, leaderKnown,
                 record, modifiers, altGr, swallowed, virtual>>

\* Mutant of Rerender: the effect has no cleanup.
RerenderOnly ==
  /\ bound = locked /\ bound' = ~locked
  /\ UNCHANGED <<operator, pressed, down, host, composing, leaderKnown,
                 record, modifiers, altGr, swallowed, virtual>>

\* The effect runs again, after its cleanup.
Rerender ==
  /\ bound = locked /\ bound' = ~locked
  /\ ReleaseKeys
  /\ UNCHANGED <<operator, composing, leaderKnown, virtual>>

\* The effect of picoclawTakeoverState.active.
Takeover ==
  /\ ReleaseKeys
  /\ UNCHANGED <<operator, bound, composing, leaderKnown, virtual>>

\* compositionstart and compositionend of an input method.
Composition ==
  /\ focused /\ composing' = ~composing
  /\ UNCHANGED <<operator, bound, pressed, down, host, leaderKnown,
                 record, modifiers, altGr, swallowed, virtual>>

\* The leader key is loaded, or set in the menu.
LeaderKnown ==
  /\ ~leaderKnown /\ leaderKnown' = TRUE
  /\ UNCHANGED <<operator, bound, pressed, down, host, composing,
                 record, modifiers, altGr, swallowed, virtual>>

-----------------------------------------------------------------------------
(* Keys that are not there *)

\* onKeyPress: a modifier is kept for the next key, or tapped when it is pressed
\* twice; another key goes down with the modifiers that were kept.
VirtualPress(k) ==
  /\ virtualKey = NoKey
  /\ \/ /\ k \in Modifiers \ virtualModifiers
        /\ virtualModifiers' = virtualModifiers \union {k}
        /\ UNCHANGED <<virtualKey, host>>
     \/ /\ k \in virtualModifiers
        /\ virtualModifiers' = {} /\ host' = {}
        /\ UNCHANGED virtualKey
     \/ /\ k \in keys \ Modifiers
        /\ virtualKey' = k /\ host' = virtualModifiers \union {k}
        /\ UNCHANGED virtualModifiers
  /\ UNCHANGED <<operator, bound, pressed, down, composing, leaderKnown,
                 record, modifiers, altGr, swallowed>>

\* onKeyReleased
VirtualRelease ==
  /\ virtualKey # NoKey
  /\ virtualKey' = NoKey /\ virtualModifiers' = {} /\ host' = {}
  /\ UNCHANGED <<operator, bound, pressed, down, composing, leaderKnown,
                 record, modifiers, altGr, swallowed>>

\* sendShortcut: all keys down, then all up.
SendShortcut ==
  /\ host' = {}
  /\ UNCHANGED <<operator, bound, pressed, down, composing, leaderKnown,
                 record, modifiers, altGr, swallowed, virtual>>

KeyboardNext ==
  \/ \E k \in keys : KeyDown(k) \/ KeyUp(k) \/ VirtualPress(k)
  \/ Blur \/ Focus \/ Lock \/ Rerender \/ Takeover \/ Composition \/ LeaderKnown
  \/ VirtualRelease \/ SendShortcut

KeyboardSpec == KeyboardInit /\ [][KeyboardNext]_keyboardVars

-----------------------------------------------------------------------------
(* Properties *)

\* Whatever is down at the host is held by the operator, kept by the record mode
\* of the leader key, pressed on the virtual keyboard, or a key whose release was
\* swallowed: by a composition, by the leader key, or as the control key of AltGr
\* (handleKeyUp, useLeaderKey.ts, useAltGr.ts).
HostKeysAreKnown ==
  host \subseteq held \union swallowed \union modifiers \union virtualModifiers \union {virtualKey}

\* Nothing the physical keyboard has pressed is down while the page cannot see it
\* come up: without the focus, or with the handlers locked (releaseKeys).
NothingDownUnseen == ~focused \/ ~bound => down = {}
=============================================================================
