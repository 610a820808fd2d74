--------------------------- MODULE MCWebControls ---------------------------
(****************************************************************************)
(* Model-checking instance of what the operator works the host with:          *)
(* keyboard, both mice, the control region with the overlay it is drawn on,   *)
(* the dialogs that take the keyboard away, image transfer, the conversation  *)
(* with the assistant, and what the page remembers.  In these models the      *)
(* parts share no state, so what holds of each alone holds of all together: a *)
(* behaviour picks one part and runs it.  As only one part runs, the parts    *)
(* are instantiated over the same variables, s1, s2, ..., in the order in     *)
(* which their modules declare theirs.                                        *)
(****************************************************************************)
EXTENDS Integers, FiniteSets, DialogKinds

CONSTANTS
    Parts,        \* the parts this instance runs
    Keyboards, MaxKeys, Width, LastPosition, PadWidth, Tap, Drag, Small, MaxDelta,
    Regions, RegionKey, Resolutions, RegionCalls, RegionClicks,
    Dialogs, MenuClicks, TransferClicks, TransferFaults, MaxPolls,
    Frames, Points, Snap, Minimum, Gestures,
    Sessions, Stored, Ids, ChatClicks, ChatFrames,
    Pages, Preferred, Speeds, Items, LastDay, PreferenceEvents

ASSUME BoundsAssumption ==
    {MaxKeys, RegionCalls, RegionClicks, MenuClicks, TransferClicks, TransferFaults, MaxPolls,
     Gestures, ChatClicks, ChatFrames, LastDay, PreferenceEvents} \subseteq Nat

VARIABLES
    part, s1, s2, s3, s4, s5, s6, s7, s8, s9, s10, s11, s12, s13, s14, s15, s16, s17

pageVars ==
    << part, s1, s2, s3, s4, s5, s6, s7, s8, s9, s10, s11, s12, s13, s14, s15, s16, s17 >>

Keyboard == INSTANCE KeyboardCapture WITH
    keys <- s1, windows <- s2, held <- s3, focused <- s4, locked <- s5, bound <- s6,
    pressed <- s7, down <- s8, host <- s9, composing <- s10, leaderKnown <- s11,
    record <- s12, modifiers <- s13, altGr <- s14, swallowed <- s15, virtualKey <-
    s16, virtualModifiers <- s17
Mouse == INSTANCE MouseCapture WITH
    buttons <- s1, clicked <- s2, fingers <- s3, touching <- s4, touchButton <- s5,
    pressTimer <- s6, long <- s7, dragging <- s8, moved <- s9, several <- s10,
    candidate <- s11, waiting <- s12, last <- s13
Pad == INSTANCE RelativeMouse WITH
    buttons <- s1, clicked <- s2, fingers <- s3, at <- s4, start <- s5, pending <- s6,
    touchButton <- s7, pressTimer <- s8, long <- s9, moved <- s10, several <- s11,
    candidate <- s12, sent <- s13, told <- s14, cut <- s15
Region == INSTANCE ControlRegion WITH
    dev <- s1, page <- s2, force <- s3, stale <- s4, selecting <- s5, calls <- s6,
    regionClicks <- s7
Menu == INSTANCE MenuDialogs WITH
    page <- s1, open <- s2, locks <- s3, count <- s4, signal <- s5, handled <- s6,
    busy <- s7, menu <- s8, countdown <- s9, due <- s10, uses <- s11
Transfer == INSTANCE ImageTransfer WITH
    job <- s1, status <- s2, shown <- s3, opened <- s4, polling <- s5, polls <- s6,
    remote <- s7, uploading <- s8, requests <- s9, cancelling <- s10, cancels <- s11,
    upload <- s12, arrived <- s13, early <- s14, transferClicks <- s15, transferFaults <- s16
Overlay == INSTANCE RegionOverlay WITH
    selecting <- s1, frame <- s2, selected <- s3, dragging <- s4, dragStart <- s5,
    grab <- s6, drawnOn <- s7, lost <- s8, saving <- s9, cursor <- s10, gestures <- s11
Chat == INSTANCE Conversation WITH
    mounted <- s1, next <- s2, active <- s3, fresh <- s4, gateway <- s5, ws <- s6,
    shown <- s7, messages <- s8, handlers <- s9, switching <- s10, crossed <- s11,
    chatClicks <- s12, chatFrames <- s13
Preference == INSTANCE Preferences WITH
    key <- s1, browser <- s2, stored <- s3, chosen <- s4, pages <- s5, today <- s6,
    preferenceEvents <- s7
(* What the values of the constants have to be.                               *)
ASSUME KeyboardsAssumption == \A K \in Keyboards : IsFiniteSet(K)
ASSUME MouseAssumption == Width \in Nat \ {0} /\ LastPosition \in Nat
ASSUME PadAssumption ==
    /\ PadWidth \in Nat /\ Tap \in Nat /\ Drag \in Nat /\ Tap <= Drag
    /\ Small \in Nat /\ MaxDelta \in Nat

(* A region is listed under its size.                                         *)
ASSUME RegionsAssumption == RegionKey \in [Regions -> STRING]

(* A dialog is known by its name, and so is the lock it holds. The popover of *)
(* the region opens the selector, which is no submenu.                        *)
ASSUME DialogsAssumption ==
    /\ IsFiniteSet(Dialogs)
    /\ \A d \in Dialogs : /\ d.counts \in BOOLEAN /\ d.animated \in BOOLEAN
                          /\ d.name /= "" /\ d.lock \in { "", d.name }
                          /\ d.animated => d.lock /= ""
                          /\ \A e \in Dialogs : e.name = d.name => e = d
                          /\ d.name = "region" => RegionSelector \in Dialogs

(* Screens show a picture less than eight times its size, and a selection is  *)
(* four of their pixels at least (minimumSelectionSize).                      *)
ASSUME FramesAssumption ==
    /\ Points \subseteq Int /\ Snap \in Nat /\ Minimum \in Nat \ {0}
    /\ \A f \in Frames : /\ f \in [left : Nat, width : Nat \ {0}, media : Nat \ {0}]
                         /\ f.width < 2 * Minimum * f.media

(* A message of the assistant has an id; what the page itself writes has none *)
(* that comes back.                                                           *)
ASSUME IdsAssumption == "" \notin Ids

ASSUME PreferredAssumption == Preferred \subseteq Preference!Keys

(* A part runs alone: what its module does not declare stays 0.             *)
From16 == << s16, s17 >>
From14 == << s14, s15, From16 >>
From12 == << s12, s13, From14 >>
From8 == << s8, s9, s10, s11, From12 >>

Unused16 == s16 = 0 /\ s17 = 0
Unused14 == s14 = 0 /\ s15 = 0 /\ Unused16
Unused12 == s12 = 0 /\ s13 = 0 /\ Unused14
Unused8 == s8 = 0 /\ s9 = 0 /\ s10 = 0 /\ s11 = 0 /\ Unused12

Init ==
    /\ part \in Parts
    /\ \/ part = "keyboard" /\ Keyboard!KeyboardInit
       \/ part = "mouse" /\ Mouse!MouseInit /\ Unused14
       \/ part = "pad" /\ Pad!PadInit /\ Unused16
       \/ part = "region" /\ Region!RegionInit /\ Unused8
       \/ part = "menu" /\ Menu!MenuInit /\ Unused12
       \/ part = "transfer" /\ Transfer!TransferInit /\ s17 = 0
       \/ part = "overlay" /\ Overlay!OverlayInit /\ Unused12
       \/ part = "chat" /\ Chat!ChatInit /\ Unused14
       \/ part = "preference" /\ Preference!PreferencesInit /\ Unused8

Next ==
    \/ part = "keyboard" /\ Keyboard!KeyboardNext /\ UNCHANGED part
    \/ part = "mouse" /\ Mouse!MouseNext /\ UNCHANGED << part, From14 >>
    \/ part = "pad" /\ Pad!PadNext /\ UNCHANGED << part, From16 >>
    \/ part = "region" /\ Region!RegionNext /\ UNCHANGED << part, From8 >>
    \/ part = "menu" /\ Menu!MenuNext /\ UNCHANGED << part, From12 >>
    \/ part = "transfer" /\ Transfer!TransferNext /\ UNCHANGED << part, s17 >>
    \/ part = "overlay" /\ Overlay!OverlayNext /\ UNCHANGED << part, From12 >>
    \/ part = "chat" /\ Chat!ChatNext /\ UNCHANGED << part, From14 >>
    \/ part = "preference" /\ Preference!PreferencesNext /\ UNCHANGED << part, From8 >>

Spec == Init /\ [][Next]_pageVars

(****************************************************************************)
(* Properties: those of the parts, one name per concern.                      *)
(****************************************************************************)

(* The variables of the part that runs keep their types.                      *)
ControlsTypeOK ==
    CASE part = "keyboard" -> Keyboard!KeyboardTypeOK
      [] part = "mouse" -> Mouse!MouseTypeOK
      [] part = "pad" -> Pad!PadTypeOK
      [] part = "region" -> Region!RegionTypeOK
      [] part = "menu" -> Menu!MenuTypeOK
      [] part = "transfer" -> Transfer!TransferTypeOK
      [] part = "overlay" -> Overlay!OverlayTypeOK
      [] part = "chat" -> Chat!ChatTypeOK
      [] part = "preference" -> Preference!PreferencesTypeOK

(* Keyboard (keyboard/index.tsx), touch (mouse/*.tsx) and dialogs (jotai/      *)
(* keyboard.ts, useMenuVisibility.ts): no key stays down at the host that the *)
(* page has forgotten, no key goes down while the page does not listen, no    *)
(* button is held that neither the mouse nor a finger holds, typing into a    *)
(* dialog does not reach the host, and the menu does not hide under a submenu.*)
HeldIsKnown ==
    /\ part = "keyboard" => Keyboard!HostKeysAreKnown /\ Keyboard!NothingDownUnseen
    /\ part = "mouse" => Mouse!ButtonsAreHeld
    /\ part = "pad" => Pad!ButtonsAreHeld
    /\ part = "menu" => Menu!TypingStaysHere /\ Menu!MenuStays

(* Control region (original-resolution.tsx, input_region.go,                  *)
(* input-region-overlay.tsx), chat panel (picoclaw-gateway.ts,                *)
(* sidebar-session-actions.ts, sidebar-effects.ts) and preferences            *)
(* (localstorage.ts): the region saved is valid, and the one in force is of   *)
(* the selected size, and as the page lists it unless that selection was      *)
(* overtaken, a selection stays on the picture and the magnifier with its     *)
(* edge; the messages shown are those of the conversation, an update stays    *)
(* one message, the AI is shown in control only over an open socket; and a    *)
(* page applies what was chosen last in any page.                             *)
KeptIsShown ==
    /\ part = "region" => Region!SavedConfigIsValid /\ Region!ForceIsSelected
    /\ part = "overlay" => Overlay!SelectionInPicture /\ Overlay!EdgeMagnified
    /\ part = "chat" => /\ Chat!MessagesOfConversation
                        /\ Chat!ControlShownWhileOpen
                        /\ Chat!OneOfEach
    /\ part = "preference" => Preference!ChoiceIsKept

(* What the host, the device and the operator are told (mouse/absolute.tsx,   *)
(* mouse/relative.tsx, input-region-overlay.tsx, download.tsx): an absolute   *)
(* button goes down where the mouse is, on the touch pad every motion goes    *)
(* into one report, which says at most twice of it and no less but what a     *)
(* report cannot carry, what is saved of a drag on the overlay is in the      *)
(* picture, and the success shown is that of the download asked for.          *)
ToldStep ==
    /\ part = "mouse" => Mouse!PressWherePointed
    /\ part = "pad" => Pad!MotionAccounted'
    /\ part = "overlay" => Overlay!SavedInPicture
    /\ part = "transfer" => Transfer!NewSuccess
ToldIsTrue == [][ToldStep]_pageVars

(****************************************************************************)
(* Values.                                                                  *)
(****************************************************************************)

MCKeyboards == { { "ControlLeft", "AltRight" }, { "Leader", "ShiftLeft", "KeyA" },
                 { "MetaLeft", "KeyA", "KeyB" } }

MCDialogs == { SettingsModal, ImageModal, KeyboardMenu, ScreenMenu,
               WolMenu, DownloadMenu, WolEdit, LeaderKeyModal,
               SerialPortModal, PasteModal, ShortcutRecorder,
               RegionPopover, ResolutionModal, RegionSelector,
               MessageInput, ModelConfig }

(* Two regions of one size, and a third of another.                           *)
MCRegionKey == [r \in Regions |-> IF r = "b" THEN "2x1" ELSE "1x1"]

MCFrames == { [left |-> 2, width |-> 8, media |-> 5], [left |-> 3, width |-> 6, media |-> 9] }
MCPoints == {0, 3, 5, 6, 9, 11}
=============================================================================
