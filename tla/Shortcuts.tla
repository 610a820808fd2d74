-------------------------------- MODULE Shortcuts --------------------------------
(* Shortcuts of keys: they are recorded in a dialog of the keyboard menu (web/src/pages/
   desktop/menu/keyboard/shortcuts), kept in a file of the device (server/service/hid/
   shortcut.go) and listed in the menu of every page, which reads the list as its menu
   opens and closes, and after what it has added or deleted itself.

   The server reads and writes the file under a lock. Answers arrive in any order, or are
   lost. *)
EXTENDS Naturals, Sequences, SequencesExt, TLC

CONSTANTS
  Menus, Admins,          \* pages with a keyboard menu; those of administrators
  Recordable, Uncoded,    \* codes of keys; those that have no HID code, of Recordable
  Bits,                   \* modifiers, of Recordable
  RecordLimit, ReportLimit,   \* MAX_KEYS of the recorder, and of a report
  ShortcutClicks              \* bound: of the user

VARIABLES
  file,        \* the shortcuts, each with the id that it was given
  given, changes,   \* how many ids were given, and changes made
  menus,       \* of each page
  calls,       \* requests and answers on their way
  shortcutClicks

device == <<file, given, changes>>
shortcutVars == <<device, menus, calls, shortcutClicks>>

\* A page: whether its popover and the dialog are open; the keys recorded; the list it shows,
\* and how many changes it tells of. (history) Since the page asked for a list last,
\* another page changed the file, an older list took the place of a newer, or an answer
\* was lost.
NewMenu == [open |-> FALSE, dialog |-> FALSE, keys |-> <<>>,
            list |-> <<>>, version |-> 0, behind |-> FALSE]

\* On its way: a request, until it is answered.
Request(p, what) == [page |-> p, what |-> what, answered |-> FALSE]

ShortcutsTypeOK ==
  /\ \A i \in DOMAIN file : file[i].id \in 1 .. given
  /\ \A p \in Menus : menus[p].dialog => menus[p].open
  /\ \A p \in Menus : ~menus[p].dialog => menus[p].keys = <<>>

ShortcutsInit ==
  /\ file = <<>> /\ given = 0 /\ changes = 0 /\ calls = <<>> /\ shortcutClicks = ShortcutClicks
  /\ menus = [p \in Menus |-> NewMenu]

ShortcutClick == shortcutClicks > 0 /\ shortcutClicks' = shortcutClicks - 1

-----------------------------------------------------------------------------
(* The page *)

\* handleOpenChange: the popover stays open while the dialog is. Both ways, the list is read.
OpenChange(p) ==
  /\ ShortcutClick /\ ~menus[p].dialog
  /\ menus' = [menus EXCEPT ![p].open = ~@, ![p].behind = FALSE]
  /\ calls' = Append(calls, Request(p, "list"))
  /\ UNCHANGED <<device>>

\* The recorder is for administrators.
OpenDialog(p) ==
  /\ p \in Admins /\ menus[p].open /\ ~menus[p].dialog
  /\ menus' = [menus EXCEPT ![p].dialog = TRUE]
  /\ UNCHANGED <<device, calls, shortcutClicks>>

\* Mutant of RecordKey: a key more than the report has room for.
RecordKeyAnyway(p, k) ==
  /\ menus[p].dialog /\ k \notin ToSet(menus[p].keys)
  /\ menus' = [menus EXCEPT ![p].keys = Append(@, k)]
  /\ UNCHANGED <<device, calls, shortcutClicks>>

\* handleKeyDown: the input of the dialog has the focus.
RecordKey(p, k) ==
  /\ menus[p].dialog /\ k \notin ToSet(menus[p].keys) /\ Len(menus[p].keys) < RecordLimit
  /\ menus' = [menus EXCEPT ![p].keys = Append(@, k)]
  /\ UNCHANGED <<device, calls, shortcutClicks>>

\* saveShortcut, clearShortcut
Save(p) ==
  /\ ShortcutClick /\ menus[p].keys # <<>>
  /\ calls' = Append(calls, Request(p, "add") @@ [keys |-> menus[p].keys])
  /\ menus' = [menus EXCEPT ![p].keys = <<>>]
  /\ UNCHANGED <<device>>

ClearShortcut(p) ==
  /\ menus[p].keys # <<>>
  /\ menus' = [menus EXCEPT ![p].keys = <<>>]
  /\ UNCHANGED <<device, calls, shortcutClicks>>

\* closeModal
CloseDialog(p) ==
  /\ menus[p].dialog
  /\ menus' = [menus EXCEPT ![p].keys = <<>>, ![p].dialog = FALSE]
  /\ UNCHANGED <<device, calls, shortcutClicks>>

\* delShortcut
Delete(p) ==
  /\ ShortcutClick /\ menus[p].dialog
  /\ \E i \in DOMAIN menus[p].list :
        calls' = Append(calls, Request(p, "delete") @@ [id |-> menus[p].list[i].id])
  /\ UNCHANGED <<device, menus>>

-----------------------------------------------------------------------------
(* The server, which handles one request at a time *)

Answer(n, answer) == [calls EXCEPT ![n] = answer @@ [calls[n] EXCEPT !.answered = TRUE]]
Unanswered(n, what) == calls[n].what = what /\ ~calls[n].answered

\* listShortcuts
ListShortcuts(n) ==
  /\ Unanswered(n, "list")
  /\ calls' = Answer(n, [list |-> file, version |-> changes])
  /\ UNCHANGED <<device, menus, shortcutClicks>>

\* The file is written; the other pages do not hear of it.
Write(n, f) ==
  /\ file' = f /\ changes' = changes + 1
  /\ calls' = Answer(n, [ok |-> TRUE])
  /\ menus' = [p \in Menus |-> IF p = calls[n].page THEN menus[p] ELSE [menus[p] EXCEPT !.behind = TRUE]]
  /\ UNCHANGED shortcutClicks

AddShortcut(n) ==
  /\ Unanswered(n, "add")
  /\ given' = given + 1
  /\ Write(n, Append(file, [id |-> given', keys |-> calls[n].keys]))

DeleteShortcut(n) ==
  /\ Unanswered(n, "delete")
  /\ \E i \in DOMAIN file : file[i].id = calls[n].id /\ Write(n, RemoveAt(file, i))
  /\ UNCHANGED given

\* There is no such shortcut, or the file could not be written.
Refuse(n) ==
  /\ calls[n].what # "list" /\ ~calls[n].answered
  /\ calls' = Answer(n, [ok |-> FALSE])
  /\ UNCHANGED <<device, menus, shortcutClicks>>

-----------------------------------------------------------------------------
(* Answers *)

\* Mutant of Changed: the list is not read again.
ChangedQuietly(n) ==
  /\ calls[n].answered /\ calls[n].what # "list"
  /\ calls' = RemoveAt(calls, n)
  /\ UNCHANGED <<device, menus, shortcutClicks>>

\* addShortcut, delShortcut: the list is read again, unless the server refused.
Changed(n) ==
  /\ calls[n].answered /\ calls[n].what # "list"
  /\ LET rest == RemoveAt(calls, n) IN
       IF calls[n].ok
       THEN /\ calls' = Append(rest, Request(calls[n].page, "list"))
            /\ menus' = [menus EXCEPT ![calls[n].page].behind = FALSE]
       ELSE calls' = rest /\ UNCHANGED menus
  /\ UNCHANGED <<device, shortcutClicks>>

\* getShortcuts: whichever list comes last is shown.
Listed(n) ==
  /\ calls[n].answered /\ calls[n].what = "list"
  /\ menus' = [menus EXCEPT ![calls[n].page] =
                 [@ EXCEPT !.list = calls[n].list, !.version = calls[n].version,
                           !.behind = (@ \/ calls[n].version < menus[calls[n].page].version)]]
  /\ calls' = RemoveAt(calls, n)
  /\ UNCHANGED <<device, shortcutClicks>>

\* The connection fails before or after the server has handled the request.
Lost(n) ==
  /\ ShortcutClick
  /\ menus' = [menus EXCEPT ![calls[n].page].behind = TRUE]
  /\ calls' = RemoveAt(calls, n)
  /\ UNCHANGED device

ShortcutsNext ==
  \/ \E p \in Menus :
        \/ OpenChange(p) \/ OpenDialog(p) \/ Save(p)
        \/ ClearShortcut(p) \/ CloseDialog(p) \/ Delete(p)
        \/ \E k \in Recordable : RecordKey(p, k)
  \/ \E n \in DOMAIN calls :
        \/ ListShortcuts(n) \/ AddShortcut(n) \/ DeleteShortcut(n) \/ Refuse(n)
        \/ Changed(n) \/ Listed(n) \/ Lost(n)

ShortcutsSpec == ShortcutsInit /\ [][ShortcutsNext]_shortcutVars

-----------------------------------------------------------------------------
(* Properties *)

\* sendShortcut: what is down at the host once all keys of a shortcut were pressed
\* (KeyboardReport.keyDown)
Reported(keys) ==
  LET down[n \in 0 .. Len(keys)] ==
        IF n = 0 THEN {}
        ELSE LET k == keys[n] IN
             IF k \in Bits \/ (k \notin Uncoded /\ Cardinality(down[n - 1] \ Bits) < ReportLimit)
             THEN down[n - 1] \union {k} ELSE down[n - 1]
  IN down[Len(keys)]

\* A shortcut of the file is pressed as a whole, but for keys that have no code: it has
\* keys, none twice and no more than a report (recorder.tsx, keyboard.ts).
ShortcutIsWhole ==
  \A i \in DOMAIN file :
    /\ file[i].keys # <<>> /\ IsInjective(file[i].keys)
    /\ Reported(file[i].keys) = ToSet(file[i].keys) \ Uncoded

\* A page that waits for nothing shows the file, unless another page has changed it since
\* its last request, answers came in another order, or one was lost.
ListIsCurrent ==
  \A p \in Menus :
    ~menus[p].behind /\ (\A n \in DOMAIN calls : calls[n].page # p)
      => menus[p].list = file
=============================================================================
