----------------------------- MODULE VirtualKeyboard -----------------------------
(* The keyboards that the page draws (web/src/pages/desktop/virtual-keyboard), and the
   codes of keys (web/src/lib/keymap.ts). A host types what is printed at a place of the
   keyboard of its language, so a button has to send the code of the place where it is
   drawn, whatever it is named.

   A button is a name and the ending that tells layouts apart: KeyA_azerty is
   <<"KeyA", "azerty">>, {tab} is <<"tab", "">>. What KeyboardCapture tells of pressing,
   of modifiers above all, is left out. *)
EXTENDS Integers, Sequences, SequencesExt

VARIABLES
  spoken,    \* keyboardLanguage
  system,    \* keyboardSystem
  typed      \* the button pressed last, and the code that was sent, or 0

virtualKeyboardVars == <<spoken, system, typed>>

-----------------------------------------------------------------------------
(* Codes *)

Letters == <<"KeyA", "KeyB", "KeyC", "KeyD", "KeyE", "KeyF", "KeyG", "KeyH", "KeyI", "KeyJ",
             "KeyK", "KeyL", "KeyM", "KeyN", "KeyO", "KeyP", "KeyQ", "KeyR", "KeyS", "KeyT",
             "KeyU", "KeyV", "KeyW", "KeyX", "KeyY", "KeyZ">>
Digits == <<"Digit1", "Digit2", "Digit3", "Digit4", "Digit5", "Digit6", "Digit7", "Digit8",
            "Digit9", "Digit0">>
FunctionKeys == <<"F1", "F2", "F3", "F4", "F5", "F6", "F7", "F8", "F9", "F10", "F11", "F12">>

\* KeycodeMap as far as keyboards have keys: its codes follow on one another from 4.
Codes ==
  Letters \o Digits \o
  <<"Enter", "Escape", "Backspace", "Tab", "Space", "Minus", "Equal", "BracketLeft",
    "BracketRight", "Backslash", "IntlHash", "Semicolon", "Quote", "Backquote", "Comma",
    "Period", "Slash", "CapsLock">> \o FunctionKeys \o
  <<"PrintScreen", "ScrollLock", "Pause", "Insert", "Home", "PageUp", "Delete", "End",
    "PageDown", "ArrowRight", "ArrowLeft", "ArrowDown", "ArrowUp", "NumLock", "NumpadDivide",
    "NumpadMultiply", "NumpadSubtract", "NumpadAdd", "NumpadEnter", "Numpad1", "Numpad2",
    "Numpad3", "Numpad4", "Numpad5", "Numpad6", "Numpad7", "Numpad8", "Numpad9", "Numpad0",
    "NumpadDecimal", "IntlBackslash", "ContextMenu", "Power">>

\* getKeycode
Keycode(c) == IF c \in ToSet(Codes) THEN 3 + CHOOSE i \in DOMAIN Codes : Codes[i] = c ELSE 0

\* ModifierMap: they have a bit of the report, and no code.
ModifierCodes == {"ControlLeft", "ShiftLeft", "AltLeft", "MetaLeft",
                  "ControlRight", "ShiftRight", "AltRight", "MetaRight"}

\* The device tells its host of codes up to this one.
LastUsage == 101

-----------------------------------------------------------------------------
(* Layouts *)

SpecialKeyMap ==
  [escape |-> "Escape", backspace |-> "Backspace", tab |-> "Tab", capslock |-> "CapsLock",
   enter |-> "Enter", shiftleft |-> "ShiftLeft", shiftright |-> "ShiftRight",
   controlleft |-> "ControlLeft", controlright |-> "ControlRight", altleft |-> "AltLeft",
   metaleft |-> "MetaLeft", winleft |-> "MetaLeft", space |-> "Space",
   metaright |-> "MetaRight", winright |-> "MetaRight", altright |-> "AltRight",
   prtscr |-> "PrintScreen", scrolllock |-> "ScrollLock", pause |-> "Pause",
   insert |-> "Insert", home |-> "Home", pageup |-> "PageUp", delete |-> "Delete",
   end |-> "End", pagedown |-> "PageDown", arrowright |-> "ArrowRight",
   arrowleft |-> "ArrowLeft", arrowdown |-> "ArrowDown", arrowup |-> "ArrowUp",
   controlleft_qwertz |-> "ControlLeft", controlright_qwertz |-> "ControlRight",
   altright_qwertz |-> "AltRight"]

\* The rows of the default layout; the others are told from them.
Top == <<"escape">> \o FunctionKeys
Row1 == <<"Backquote">> \o Digits \o <<"Minus", "Equal", "backspace">>
Row2 == <<"tab", "KeyQ", "KeyW", "KeyE", "KeyR", "KeyT", "KeyY", "KeyU", "KeyI", "KeyO", "KeyP",
          "BracketLeft", "BracketRight", "Backslash">>
Row3 == <<"capslock", "KeyA", "KeyS", "KeyD", "KeyF", "KeyG", "KeyH", "KeyJ", "KeyK", "KeyL",
          "Semicolon", "Quote", "enter">>
Row4 == <<"shiftleft", "KeyZ", "KeyX", "KeyC", "KeyV", "KeyB", "KeyN", "KeyM", "Comma", "Period",
          "Slash", "shiftright">>
Row5 == <<"controlleft", "winleft", "altleft", "space", "altright", "winright", "menu",
          "controlright">>

\* Which buttons of a row have the ending: none of those in braces.
Ending(row, ending, without) ==
  [i \in DOMAIN row |->
     <<row[i], IF row[i] \in DOMAIN SpecialKeyMap \union without THEN "" ELSE ending>>]
Plain(row) == Ending(row, "", {})

\* keyboardControlPadOptions and keyboardArrowsOptions
Pads == << Plain(<<"prtscr", "scrolllock", "pause">>), Plain(<<"insert", "home", "pageup">>),
           Plain(<<"delete", "end", "pagedown">>), Plain(<<"arrowup">>),
           Plain(<<"arrowleft", "arrowdown", "arrowright">>) >>

MacRow5 == <<"controlleft", "altleft", "metaleft", "space", "metaright", "altright">>

Azerty ==
  << Ending(<<"tab", "KeyA", "KeyZ", "KeyE", "KeyR", "KeyT", "KeyY", "KeyU", "KeyI", "KeyO",
              "KeyP", "BracketLeft", "BracketRight", "Backslash">>, "azerty", {}),
     Ending(<<"capslock", "KeyQ", "KeyS", "KeyD", "KeyF", "KeyG", "KeyH", "KeyJ", "KeyK", "KeyL",
              "Semicolon", "Quote", "enter">>, "azerty", {}),
     Ending(<<"shiftleft", "KeyW", "KeyX", "KeyC", "KeyV", "KeyB", "KeyN", "KeyM", "Comma",
              "Period", "Slash", "shiftright">>, "azerty", {}) >>

\* Letters have the ending where something else is printed on the button.
QwertzPlain == ToSet(Letters) \ {"KeyQ", "KeyE", "KeyZ", "KeyY"}
Qwertz ==
  << Ending(<<"tab", "KeyQ", "KeyW", "KeyE", "KeyR", "KeyT", "KeyZ", "KeyU", "KeyI", "KeyO",
              "KeyP", "BracketLeft", "BracketRight">>, "qwertz", QwertzPlain),
     Ending(<<"capslock", "KeyA", "KeyS", "KeyD", "KeyF", "KeyG", "KeyH", "KeyJ", "KeyK", "KeyL",
              "Semicolon", "Quote", "Backslash", "enter">>, "qwertz", QwertzPlain),
     Ending(<<"shiftleft", "IntlBackslash", "KeyY", "KeyX", "KeyC", "KeyV", "KeyB", "KeyN",
              "KeyM", "Comma", "Period", "Slash", "shiftright">>, "qwertz", QwertzPlain),
     Plain(<<"controlleft_qwertz", "winleft", "altleft", "space", "altright_qwertz", "winright",
             "menu", "controlright_qwertz">>) >>

\* keyboardOptions.layout
Rows(layout) ==
  << Plain(Top) >> \o
  ( CASE layout = "mac" -> << Plain(Row1), Plain(Row2), Plain(Row3), Plain(Row4), Plain(MacRow5) >>
      [] layout = "rus" -> << Plain(Row1), Ending(Row2, "rus", {}), Ending(Row3, "rus", {}),
                              Ending(Row4, "rus", {}), Plain(Row5) >>
      [] layout = "qwertz" -> << Ending(Row1, "qwertz", {}) >> \o Qwertz
      [] layout = "azerty" -> << Ending(Row1, "azerty", {}) >> \o Azerty \o << Plain(Row5) >>
      [] layout \in {"ko", "ja"} ->
           [r \in 1 .. 4 |-> Ending(<<Row1, Row2, Row3, Row4>>[r], layout, {})] \o << Plain(Row5) >>
      [] OTHER -> << Plain(Row1), Plain(Row2), Plain(Row3), Plain(Row4), Plain(Row5) >> )
  \o Pads

SpokenLanguages == {"en", "fr", "de", "ru", "ko", "ja"}

\* The effect that sets keyboardLayout
Layout ==
  IF spoken = "en" THEN (IF system = "mac" THEN "mac" ELSE "default")
  ELSE [fr |-> "azerty", de |-> "qwertz", ru |-> "rus", ko |-> "ko", ja |-> "ja"][spoken]

\* getKeyboardCode: what a name with an ending stands for
Exchanged(ending, k) ==
  IF ending = "azerty" /\ k \in {"KeyA", "KeyQ", "KeyZ", "KeyW"}
  THEN [KeyA |-> "KeyQ", KeyQ |-> "KeyA", KeyZ |-> "KeyW", KeyW |-> "KeyZ"][k]
  ELSE IF ending = "qwertz" /\ k \in {"KeyZ", "KeyY"} THEN [KeyZ |-> "KeyY", KeyY |-> "KeyZ"][k]
  ELSE k

KeyboardCode(b) ==
  LET Own == [fr |-> "azerty", de |-> "qwertz", ko |-> "ko", ja |-> "ja", en |-> "none", ru |-> "none"]
  IN IF b[2] = Own[spoken] THEN Keycode(Exchanged(b[2], b[1]))
     ELSE IF b[2] # "" THEN 0
     ELSE IF b[1] \in DOMAIN SpecialKeyMap THEN Keycode(SpecialKeyMap[b[1]])
     ELSE Keycode(b[1])

-----------------------------------------------------------------------------

Nothing == [row |-> 0, place |-> 0, code |-> 0]

VirtualKeyboardTypeOK ==
  /\ spoken \in SpokenLanguages /\ system \in {"win", "mac"}
  /\ typed # Nothing => typed.row \in 1 .. 11 /\ typed.code \in 0 .. LastUsage

VirtualKeyboardInit ==
  /\ spoken \in SpokenLanguages /\ system \in {"win", "mac"} \* what is stored
  /\ typed = Nothing

SelectLanguage(l) == spoken' = l /\ typed' = Nothing /\ UNCHANGED system
SelectSystem(s) == spoken = "en" /\ system' = s /\ typed' = Nothing /\ UNCHANGED spoken

\* sendKeydown, of a button that is no modifier
Press(r, i) ==
  /\ LET b == Rows(Layout)[r][i] IN
       /\ ~(b[1] \in DOMAIN SpecialKeyMap /\ SpecialKeyMap[b[1]] \in ModifierCodes)
       /\ typed' = [row |-> r, place |-> i, code |-> KeyboardCode(b)]
  /\ UNCHANGED <<spoken, system>>

VirtualKeyboardNext ==
  \/ \E l \in SpokenLanguages : SelectLanguage(l)
  \/ \E s \in {"win", "mac"} : SelectSystem(s)
  \/ \E r \in DOMAIN Rows(Layout) : \E i \in DOMAIN Rows(Layout)[r] : Press(r, i)

VirtualKeyboardSpec == VirtualKeyboardInit /\ [][VirtualKeyboardNext]_virtualKeyboardVars

-----------------------------------------------------------------------------
(* Properties *)

\* The keys at the places of a row: of an American keyboard, but of a European one, which
\* has a key more between shift and Z, in German.
Places(r) ==
  LET American == <<Row1, Row2, Row3, Row4>>
      European == << Row1, SubSeq(Row2, 1, 13),
                     SubSeq(Row3, 1, 12) \o <<"Backslash", "enter">>,
                     <<"shiftleft", "IntlBackslash">> \o Tail(Row4) >>
  IN (IF Layout = "qwertz" THEN European ELSE American)[r - 1]

\* The Russian letters and the menu key send nothing: no code is given for their names.
Silent(b) == b[1] = "menu" \/ b[2] = "rus"

\* A button sends the code of the key at its place, to whichever language its name was
\* changed (getKeyboardCode, keyboardOptions.layout), and the host is told of that code.
PressedWhereDrawn ==
  typed # Nothing =>
    LET b == Rows(Layout)[typed.row][typed.place]
        At(k) == IF k \in DOMAIN SpecialKeyMap THEN Keycode(SpecialKeyMap[k]) ELSE Keycode(k)
    IN IF Silent(b) THEN typed.code = 0
       ELSE /\ typed.code \in 4 .. LastUsage
            /\ typed.row \in 2 .. 5 => typed.code = At(Places(typed.row)[typed.place])
=============================================================================
