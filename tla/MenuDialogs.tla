------------------------------ MODULE MenuDialogs ------------------------------
(****************************************************************************)
(* The dialogs of the desktop page and what they take from the rest of it.  *)
(* A dialog that asks for text holds a keyboard lock, so that what is typed *)
(* into it does not also reach the host (jotai/keyboard.ts), and a submenu  *)
(* is counted, so that the menu bar does not hide under the user            *)
(* (hooks/useMenuVisibility.ts).  Locks, count and close signal are global  *)
(* atoms that outlive the page; the dialogs themselves do not.              *)
(*                                                                          *)
(* What a dialog does when it opens, closes and unmounts is a record, its   *)
(* discipline (DialogKinds); the actions are shared.                        *)
(****************************************************************************)
EXTENDS Integers, FiniteSets, DialogKinds

CONSTANTS
    Dialogs,      \* the disciplines of the dialogs on the page
    MenuClicks    \* bound: how often a dialog is opened and the menu used

VARIABLES
    page,       \* "desktop", or "away" (the login or the password page)
    open,       \* the names of the open dialogs
    locks,      \* keyboardLocksAtom
    count,      \* submenuOpenCountAtom
    signal,     \* menuCloseSignalAtom
    handled,    \* handledCloseSignalRef of every dialog
    busy,       \* Settings' isLocked: an update or a Tailscale change runs
    menu,       \* useMenuVisibility: mode, expanded, hidden, hovered, moved
    countdown,  \* is the timer that hides the menu running
    due,        \* the effects of useMenuVisibility still to run
    uses        \* MenuClicks used

menuVars == << page, open, locks, count, signal, handled, busy, menu, countdown, due, uses >>

Names == { d.name : d \in Dialogs }
Locks == { d.lock : d \in Dialogs } \ { "" }
Counted == { d \in Dialogs : d.counts }
NoEffects == {}
BothEffects == { "display", "hover" }

MenuTypeOK ==
    /\ page \in { "desktop", "away" }
    /\ open \subseteq Names
    /\ locks \subseteq Locks
    /\ count \in 0 .. Cardinality(Counted) + MenuClicks
    /\ signal \in 0 .. MenuClicks
    /\ handled \in [Names -> 0 .. MenuClicks]
    /\ busy \in BOOLEAN
    /\ menu \in [mode : { "off", "auto", "always" }, expanded : BOOLEAN, hidden : BOOLEAN,
                 hovered : BOOLEAN, moved : BOOLEAN]
    /\ countdown \in BOOLEAN
    /\ due \subseteq BothEffects
    /\ uses \in 0 .. MenuClicks

(* The menu of a page that has just been mounted.                           *)
FreshMenu(mode) == [mode |-> mode, expanded |-> mode /= "off", hidden |-> FALSE,
                    hovered |-> FALSE, moved |-> FALSE]

MenuInit ==
    /\ page = "desktop"
    /\ open = {} /\ locks = {}
    /\ count = 0 /\ signal = 0
    /\ handled = [n \in Names |-> 0]
    /\ busy = FALSE
    /\ \E mode \in { "off", "auto", "always" } : menu = FreshMenu(mode)
    /\ countdown = FALSE
    /\ due = BothEffects
    /\ uses = 0

Use == page = "desktop" /\ uses < MenuClicks /\ uses' = uses + 1

Less(n) == IF n > 0 THEN n - 1 ELSE 0

(****************************************************************************)
(* Opening and closing.                                                     *)
(****************************************************************************)

(* A counted dialog changes submenuOpenCount, which reruns both effects of  *)
(* the menu's visibility.                                                   *)
Recount(d, n) ==
    /\ count' = IF d.counts THEN n ELSE count
    /\ due' = IF count' /= count THEN BothEffects ELSE due

(* Nothing else can be clicked while the settings modal covers the page.    *)
Reachable(d) == /\ d.parent \in open \cup { "" }
                /\ "settings" \notin open

OpenDialog(d) ==
    /\ Use
    /\ d.name \notin open
    /\ Reachable(d)
    /\ open' = open \cup { d.name }
    /\ locks' = IF d.lock = "" \/ d.animated THEN locks ELSE locks \cup { d.lock }
    /\ Recount(d, count + 1)
    /\ UNCHANGED << page, signal, handled, busy, menu, countdown >>

(* The paste dialog locks in afterOpenChange, when its animation is over.   *)
AfterOpen(d) ==
    /\ d.animated /\ d.name \in open
    /\ locks' = locks \cup { d.lock }
    /\ UNCHANGED << page, open, count, signal, handled, busy, menu, countdown, due, uses >>

(* What closing takes back: the Wake-on-LAN popover also gives back the     *)
(* lock of the name being edited in it.                                     *)
Returned(d) == { d.lock } \cup (IF d.name = "wol" THEN { "wol-edit" } ELSE {})

Close(d) ==
    /\ open' = open \ ({ d.name } \cup Returned(d))
    /\ locks' = locks \ Returned(d)
    /\ Recount(d, Less(count))

(* Mutant: closeModal gives the lock back before it looks at isLocked.      *)
CloseDialogUnlocked(d) ==
    /\ page = "desktop"
    /\ d.name \in open
    /\ IF d.name = "settings" /\ busy
       THEN locks' = locks \ Returned(d) /\ UNCHANGED << open, count, due >>
       ELSE Close(d)
    /\ UNCHANGED << page, signal, handled, busy, menu, countdown, uses >>

(* The user closes a dialog; the settings modal refuses while it is busy.   *)
CloseDialog(d) ==
    /\ page = "desktop"
    /\ d.name \in open
    /\ ~(d.name = "settings" /\ busy)
    /\ Close(d)
    /\ UNCHANGED << page, signal, handled, busy, menu, countdown, uses >>

(* Update and Tailscale lock the settings modal while they work.            *)
Busy ==
    /\ page = "desktop" /\ "settings" \in open
    /\ busy' = ~busy
    /\ UNCHANGED << page, open, locks, count, signal, handled, menu, countdown, due, uses >>

(* selectArea: the region popover closes, every toolbar menu is told to     *)
(* close, the selector opens, and the menu bar collapses.                   *)
SelectArea ==
    /\ Use
    /\ "region" \in open
    /\ open' = (open \ { "region" }) \cup { "selector" }
    /\ locks' = (locks \ { "region" }) \cup { "selector" }
    /\ signal' = signal + 1
    /\ menu' = [menu EXCEPT !.expanded = FALSE]
    /\ due' = BothEffects
    /\ UNCHANGED << page, count, handled, busy, countdown >>

(* MenuItem's effect closes an open popover that has not answered this      *)
(* signal, a popover opened after the signal included.                      *)
AnswerSignal(d) ==
    /\ d.signalled /\ d.name \in open
    /\ signal > 0 /\ handled[d.name] /= signal
    /\ handled' = [handled EXCEPT ![d.name] = signal]
    /\ Close(d)
    /\ UNCHANGED << page, signal, busy, menu, countdown, uses >>

(****************************************************************************)
(* The menu bar's visibility.                                               *)
(****************************************************************************)

(* startCountdown's early return.                                           *)
MayHide == menu.mode = "auto" /\ count = 0 /\ menu.expanded /\ ~menu.moved

(* The effects run in their order after the render: the first shows the     *)
(* menu again and starts or stops the countdown by mode; the second does so *)
(* by submenu count and hover.  startCountdown returning early leaves a     *)
(* running countdown alone.                                                 *)
Started(running) == running \/ MayHide
AfterDisplay == CASE "display" \notin due -> countdown
                  [] menu.mode = "auto" -> Started(countdown)
                  [] OTHER -> FALSE
AfterHover == IF count = 0 /\ ~menu.hovered THEN Started(AfterDisplay) ELSE FALSE

RunEffects ==
    /\ page = "desktop" /\ due /= NoEffects
    /\ menu' = IF "display" \in due THEN [menu EXCEPT !.hidden = FALSE] ELSE menu
    /\ countdown' = AfterHover
    /\ due' = NoEffects
    /\ UNCHANGED << page, open, locks, count, signal, handled, busy, uses >>

HideMenu ==
    /\ countdown
    /\ countdown' = FALSE
    /\ menu' = [menu EXCEPT !.hidden = TRUE]
    /\ UNCHANGED << page, open, locks, count, signal, handled, busy, due, uses >>

(* handleHovered: the mouse enters; it leaves, or the focus leaves an       *)
(* element of the menu while the mouse is still over it.                    *)
Hover(over) ==
    /\ page = "desktop" /\ menu.hovered /= over
    /\ menu' = [menu EXCEPT !.hovered = over, !.hidden = @ /\ ~over]
    /\ due' = due \cup { "hover" }
    /\ UNCHANGED << page, open, locks, count, signal, handled, busy, countdown, uses >>

(* handleMoved, the collapse and expand buttons, the appearance settings.   *)
ChangeMenu ==
    /\ Use
    /\ menu' \in { [menu EXCEPT !.moved = TRUE] }
                 \cup { [menu EXCEPT !.expanded = e] : e \in BOOLEAN }
                 \cup (IF "settings" \in open
                       THEN { [menu EXCEPT !.mode = m] : m \in { "off", "auto", "always" } }
                       ELSE {})
    /\ menu' /= menu
    /\ due' = BothEffects
    /\ UNCHANGED << page, open, locks, count, signal, handled, busy, countdown >>

(****************************************************************************)
(* Leaving the page and coming back.                                        *)
(****************************************************************************)

(* Logging out, an expired session and the password page unmount the desktop *)
(* without reloading it: every dialog is gone, only the locks whose cleanup  *)
(* runs are given back, and the count stays.                                 *)
CleanedLocks == { d.lock : d \in { x \in Dialogs : x.cleans } }

LeavePage ==
    /\ page = "desktop"
    /\ page' = "away"
    /\ open' = {} /\ busy' = FALSE
    /\ locks' = locks \ CleanedLocks
    /\ countdown' = FALSE /\ due' = NoEffects
    /\ menu' = FreshMenu(menu.mode)
    /\ UNCHANGED << count, signal, handled, uses >>

(* The page is mounted again; a signal of the past collapses its menu.      *)
ReturnToPage ==
    /\ page = "away" /\ uses < MenuClicks
    /\ page' = "desktop"
    /\ handled' = [n \in Names |-> 0]
    /\ menu' = [menu EXCEPT !.expanded = @ /\ signal = 0]
    /\ due' = BothEffects
    /\ UNCHANGED << open, locks, count, signal, busy, countdown, uses >>

MenuNext ==
    \/ \E d \in Dialogs : OpenDialog(d) \/ AfterOpen(d) \/ CloseDialog(d) \/ AnswerSignal(d)
    \/ Busy \/ SelectArea \/ RunEffects \/ HideMenu
    \/ \E over \in BOOLEAN : Hover(over)
    \/ ChangeMenu \/ LeavePage \/ ReturnToPage

MenuSpec == MenuInit /\ [][MenuNext]_menuVars

(****************************************************************************)
(* Properties.                                                              *)
(****************************************************************************)

(* What is typed into a dialog never also reaches the host: the keyboard is *)
(* locked as long as a dialog that asks for text is open, whatever else     *)
(* opened, closed or was told to close meanwhile (the paste dialog locks    *)
(* when its animation ends).                                                *)
TypingStaysHere ==
    \A d \in Dialogs : d.name \in open /\ d.lock /= "" /\ ~d.animated => d.lock \in locks

(* The menu bar never hides under an open submenu: once its effects have    *)
(* run, a hidden menu is in automatic mode and nothing counted is open.     *)
MenuStays ==
    menu.hidden /\ due = NoEffects =>
        /\ menu.mode = "auto"
        /\ \A d \in Counted : d.name \notin open

(****************************************************************************)
(* What every step keeps.                                                   *)
(****************************************************************************)

(* The count covers the submenus that are open, so that none is when it is  *)
(* 0; and until the effects run again, nothing hides the menu under one.    *)
OpenCounted == { d \in Counted : d.name \in open }
CountCovers == Cardinality(OpenCounted) <= count /\ count <= uses /\ signal <= uses
HidesAlone ==
    (menu.hidden \/ countdown) /\ "display" \notin due => menu.mode = "auto" /\ OpenCounted = {}

MenuInv == MenuTypeOK /\ TypingStaysHere /\ CountCovers /\ HidesAlone
================================================================================
