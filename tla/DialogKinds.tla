----------------------------- MODULE DialogKinds -----------------------------
(****************************************************************************)
(* The dialogs of the desktop page, each by what it does when it opens,     *)
(* closes and unmounts (MenuDialogs has the actions).                       *)
(****************************************************************************)

(* A dialog: the lock it holds ("" for none), whether it counts as a        *)
(* submenu, whether its unmount effect gives the lock back, whether the     *)
(* close signal closes it, whether it locks only after its animation, and   *)
(* the dialog it is opened from ("" for the page).                          *)
Discipline(name, lock, counts, cleans, signalled, animated, parent) ==
    [name |-> name, lock |-> lock, counts |-> counts, cleans |-> cleans,
     signalled |-> signalled, animated |-> animated, parent |-> parent]

(* A popover of the menu bar whose content asks for no text, or for text.   *)
Popover(name) == Discipline(name, "", TRUE, FALSE, TRUE, FALSE, "")
TextPopover(name) == Discipline(name, name, TRUE, FALSE, TRUE, FALSE, "")

(* A dialog that takes its lock in its handlers, and one whose effect       *)
(* takes it and whose cleanup gives it back.                                *)
Handled(name, parent) == Discipline(name, name, FALSE, FALSE, FALSE, FALSE, parent)
Cleaned(name, parent) == Discipline(name, name, FALSE, TRUE, FALSE, FALSE, parent)

SettingsModal == Discipline("settings", "settings", TRUE, FALSE, FALSE, FALSE, "")
ImageModal == Discipline("image", "", TRUE, FALSE, FALSE, FALSE, "")
KeyboardMenu == Popover("keyboard")
ScreenMenu == Popover("screen")
WolMenu == TextPopover("wol")
DownloadMenu == TextPopover("download")
WolEdit == Handled("wol-edit", "wol")
LeaderKeyModal == Handled("leader-key", "keyboard")
SerialPortModal == Handled("serial-port", "")
PasteModal == Discipline("paste", "paste", FALSE, FALSE, FALSE, TRUE, "keyboard")
ShortcutRecorder == Cleaned("recorder", "keyboard")
RegionPopover == Cleaned("region", "screen")
ResolutionModal == Cleaned("resolution", "region")
RegionSelector == Cleaned("selector", "")
MessageInput == Cleaned("message", "")
ModelConfig == Cleaned("model-config", "")
==============================================================================
