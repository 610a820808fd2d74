-------------------------------- MODULE Pasting --------------------------------
(* Pasting a text (web/src/pages/desktop/menu/keyboard/paste.tsx, server/service/hid/
   paste.go): the device types it key by key, each a report that may be refused, while
   other clients type as well. A text is a sequence of characters, and a character the
   one report that types it. One page, and one of its pastes at a time. *)
EXTENDS Naturals, SequencesExt

CONSTANTS
  PasteTexts,   \* texts
  NotTypeable,  \* characters without an entry in the language's map
  MaxPaste,     \* maxPasteContentRunes
  PasteEvents   \* bound: edits, clicks, reports of others, what is refused or lost

VARIABLES
  paste,        \* the form: its text, isLoading, and what the last answer told
  sent,         \* the text of the request
  task,         \* its handler: what is left, where it is, whether it failed or is canceled
  host,         \* the key down, "" for none, and whether the paste's report put it there
  typed,        \* (history) what went down for the paste
  refused,      \* (history) the device did not take the last release
  crossed,      \* (history) a key of the text was down, or another client pressed it
  pasteEvents

pasteVars == <<paste, sent, task, host, typed, refused, crossed, pasteEvents>>

Characters == UNION {ToSet(text) : text \in PasteTexts}
Typeable(text) == SelectSeq(text, LAMBDA c : c \notin NotTypeable)
Resting == [at |-> "none", left |-> <<>>, failed |-> FALSE, canceled |-> FALSE, answer |-> "none"]

PastingTypeOK ==
  /\ paste.told \in {"none", "ok", "error"} /\ paste.waiting \in BOOLEAN
  /\ task.at \in {"none", "next", "up", "last"} /\ task.answer \in {"none", "ok", "error"}
  /\ host.key \in Characters \union {""} /\ IsSuffix(task.left, sent)

PastingInit ==
  /\ paste = [text |-> <<>>, waiting |-> FALSE, told |-> "none"]
  /\ sent = <<>> /\ task = Resting /\ host = [key |-> "", mine |-> FALSE]
  /\ typed = <<>> /\ refused = FALSE /\ crossed = FALSE /\ pasteEvents = PasteEvents

PasteEvent == pasteEvents > 0 /\ pasteEvents' = pasteEvents - 1
Quietly == UNCHANGED pasteEvents

-----------------------------------------------------------------------------
(* The form *)

\* The text may be edited while it is pasted, too.
EditText(text) ==
  /\ PasteEvent /\ paste' = [paste EXCEPT !.text = text]
  /\ UNCHANGED <<sent, task, host, typed, refused, crossed>>

\* submit, and what Paste refuses at once: a text that is too long, no control of the device
Submit ==
  /\ PasteEvent /\ ~paste.waiting /\ paste.text # <<>> /\ task.at = "none"
  /\ paste' = [paste EXCEPT !.waiting = TRUE, !.told = "none"]
  /\ sent' = paste.text /\ typed' = <<>> /\ crossed' = (host.key \in ToSet(paste.text))
  /\ \/ /\ Len(paste.text) <= MaxPaste
        /\ task' = [Resting EXCEPT !.at = "next", !.left = paste.text]
     \/ task' = [Resting EXCEPT !.answer = "error"]
  /\ UNCHANGED <<host, refused>>

Answered ==
  /\ paste.waiting /\ task.answer # "none"
  /\ paste' = [text |-> IF task.answer = "ok" THEN <<>> ELSE paste.text,
               waiting |-> FALSE, told |-> task.answer]
  /\ task' = Resting
  /\ Quietly /\ UNCHANGED <<sent, host, typed, refused, crossed>>

\* The connection is lost, which cancels the request.
Disconnected ==
  /\ PasteEvent /\ paste.waiting
  /\ paste' = [paste EXCEPT !.waiting = FALSE]
  /\ task' = IF task.at = "none" THEN Resting ELSE [task EXCEPT !.canceled = TRUE]
  /\ UNCHANGED <<sent, host, typed, refused, crossed>>

-----------------------------------------------------------------------------
(* The handler *)

\* writeKeyboardReport
Report(key) ==
  /\ host' = [key |-> key, mine |-> TRUE]
  /\ typed' = IF key \in {"", host.key} THEN typed ELSE Append(typed, key)
  /\ UNCHANGED refused

Fails(place) == task' = [task EXCEPT !.failed = TRUE, !.at = place]

NextCharacter ==
  /\ task.at = "next"
  /\ IF task.canceled THEN Fails("last") /\ Quietly /\ UNCHANGED <<host, typed, refused>>
     ELSE IF task.left = <<>>
     THEN task' = [task EXCEPT !.at = "last"] /\ Quietly /\ UNCHANGED <<host, typed, refused>>
     ELSE IF Head(task.left) \in NotTypeable
     THEN task' = [task EXCEPT !.left = Tail(@)] /\ Quietly /\ UNCHANGED <<host, typed, refused>>
     ELSE \/ Report(Head(task.left)) /\ task' = [task EXCEPT !.at = "up"] /\ Quietly
          \/ PasteEvent /\ Fails("last") /\ UNCHANGED <<host, typed, refused>>
  /\ UNCHANGED <<paste, sent, crossed>>

KeyUp ==
  /\ task.at = "up"
  /\ \/ Report("") /\ task' = [task EXCEPT !.at = "next", !.left = Tail(@)] /\ Quietly
     \/ PasteEvent /\ Fails("last") /\ UNCHANGED <<host, typed, refused>>
  /\ UNCHANGED <<paste, sent, crossed>>

\* Whatever happened, all keys are let go of; whether that works is not looked at.
LastKeyUp ==
  /\ task.at = "last"
  /\ \/ host' = [key |-> "", mine |-> TRUE] /\ refused' = FALSE /\ Quietly
     \/ PasteEvent /\ refused' = TRUE /\ UNCHANGED host
  /\ task' = [Resting EXCEPT !.answer = IF ~paste.waiting THEN "none"
                                        ELSE IF task.failed \/ task.canceled THEN "error" ELSE "ok"]
  /\ UNCHANGED <<paste, sent, typed, crossed>>

\* A keyboard report of another client, or of a paste on another page
OtherReport(key) ==
  /\ PasteEvent /\ host' = [key |-> key, mine |-> FALSE]
  /\ crossed' = (crossed \/ key \in ToSet(task.left))
  /\ UNCHANGED <<paste, sent, task, typed, refused>>

PastingNext ==
  \/ \E text \in PasteTexts : EditText(text)
  \/ Submit \/ Answered \/ Disconnected
  \/ NextCharacter \/ KeyUp \/ LastKeyUp
  \/ \E key \in Characters \union {""} : OtherReport(key)

PastingSpec == PastingInit /\ [][PastingNext]_pasteVars

-----------------------------------------------------------------------------
(* Properties *)

\* A paste types its text from the beginning, every character once, up to where it fails,
\* and all of it if it is told to have worked. No key of it stays down unless the device
\* refused the last release, and then it is not told to have worked. (Paste; another client
\* that presses a key of the text can swallow one.)
PasteIsWhole ==
  /\ ~crossed => /\ IsPrefix(typed, Typeable(sent))
                 /\ paste.told = "ok" => typed = Typeable(sent)
  /\ task.at = "none" /\ host.mine /\ host.key # "" => refused /\ paste.told # "ok"
=============================================================================
