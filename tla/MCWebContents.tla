--------------------------- MODULE MCWebContents ---------------------------
(****************************************************************************)
(* Model-checking instance of what the page makes of data: where a position   *)
(* on the picture is on the host, which key a drawn button sends, which keys  *)
(* a shortcut and a pasted text press, and which servers a list of names is.  *)
(* As in MCWebControls, the parts share no state, and a behaviour runs one of *)
(* them over the variables s1, s2, ....                                       *)
(****************************************************************************)
EXTENDS Naturals, FiniteSets

CONSTANTS
    Parts,        \* the parts this instance runs
    Pictures, NextPictures, Windows, MaxSamples, Selections, LastPosition, ViewChanges,
    Menus, Admins, Recordable, Uncoded, Bits, RecordLimit, ReportLimit, ShortcutClicks,
    Texts, AddressOf, Leases, MaxServers, DnsEvents,
    PasteTexts, NotTypeable, MaxPaste, PasteEvents

ASSUME BoundsAssumption ==
    {LastPosition, ViewChanges, RecordLimit, ReportLimit, ShortcutClicks, MaxServers,
     DnsEvents, MaxPaste, PasteEvents} \subseteq Nat

VARIABLES part, s1, s2, s3, s4, s5, s6, s7, s8, s9

pageVars == << part, s1, s2, s3, s4, s5, s6, s7, s8, s9 >>

View == INSTANCE PictureView WITH
    picture <- s1, window <- s2, mode <- s3, selection <- s4, selecting <- s5,
    region <- s6, candidate <- s7, confirmations <- s8, viewChanges <- s9
Drawn == INSTANCE VirtualKeyboard WITH spoken <- s1, system <- s2, typed <- s3
Shortcut == INSTANCE Shortcuts WITH
    file <- s1, given <- s2, changes <- s3, menus <- s4, calls <- s5, shortcutClicks <- s6
Dns == INSTANCE Resolver WITH
    files <- s1, lease <- s2, renewal <- s3, job <- s4, torn <- s5, answer <- s6,
    form <- s7, dnsEvents <- s8
Pasted == INSTANCE Pasting WITH
    paste <- s1, sent <- s2, task <- s3, host <- s4, typed <- s5, refused <- s6,
    crossed <- s7, pasteEvents <- s8

(* A part runs alone: what its module does not declare stays 0.             *)
From9 == << s9 >>
From7 == << s7, s8, From9 >>
From4 == << s4, s5, s6, From7 >>

Unused9 == s9 = 0
Unused7 == s7 = 0 /\ s8 = 0 /\ Unused9
Unused4 == s4 = 0 /\ s5 = 0 /\ s6 = 0 /\ Unused7

Init ==
    /\ part \in Parts
    /\ \/ part = "picture" /\ View!ViewInit
       \/ part = "drawn" /\ Drawn!VirtualKeyboardInit /\ Unused4
       \/ part = "shortcut" /\ Shortcut!ShortcutsInit /\ Unused7
       \/ part = "dns" /\ Dns!ResolverInit /\ Unused9
       \/ part = "paste" /\ Pasted!PastingInit /\ Unused9

Next ==
    \/ part = "picture" /\ View!ViewNext /\ UNCHANGED part
    \/ part = "drawn" /\ Drawn!VirtualKeyboardNext /\ UNCHANGED << part, From4 >>
    \/ part = "shortcut" /\ Shortcut!ShortcutsNext /\ UNCHANGED << part, From7 >>
    \/ part = "dns" /\ Dns!ResolverNext /\ UNCHANGED << part, From9 >>
    \/ part = "paste" /\ Pasted!PastingNext /\ UNCHANGED << part, From9 >>

Spec == Init /\ [][Next]_pageVars

(****************************************************************************)
(* Properties: those of the parts, one name per concern.                      *)
(****************************************************************************)

(* The variables of the part that runs keep their types.                      *)
ContentsTypeOK ==
    CASE part = "picture" -> View!ViewTypeOK
      [] part = "drawn" -> Drawn!VirtualKeyboardTypeOK
      [] part = "shortcut" -> Shortcut!ShortcutsTypeOK
      [] part = "dns" -> Dns!ResolverTypeOK
      [] part = "paste" -> Pasted!PastingTypeOK

(* Viewport and region (viewport.tsx, geometry.ts, absolute.tsx): the host is *)
(* pointed at what is seen under the pointer, and a region that is detected   *)
(* is the content of the picture, as far as its samples tell.  A button of    *)
(* the virtual keyboard sends the key at its place, a shortcut is pressed and *)
(* a text typed as a whole (virtual-keys.ts, recorder.tsx, paste.go).  A page *)
(* lists the shortcuts that are in the file (shortcuts/index.tsx,             *)
(* shortcut.go), and shows as saved the DNS servers the device has, which are *)
(* those of its mode (dns.go, dns.tsx).                                       *)
ContentsAreTrue ==
    /\ part = "picture" => View!PointedIsSeen /\ View!DetectedIsContent
    /\ part = "drawn" => Drawn!PressedWhereDrawn
    /\ part = "shortcut" => Shortcut!ShortcutIsWhole /\ Shortcut!ListIsCurrent
    /\ part = "paste" => Pasted!PasteIsWhole
    /\ part = "dns" => Dns!SavedIsShown /\ Dns!ActiveFollowsMode

(****************************************************************************)
(* Values.                                                                  *)
(****************************************************************************)

Sz(x, y) == [x |-> x, y |-> y]
MCPictures == [size : {Sz(20, 16)}, from : {Sz(0, 0), Sz(9, 7), Sz(4, 0), Sz(3, 5)},
               to : [x : {0, 4, 8}, y : {0, 4, 7}]]
              \union [size : {Sz(30, 20)}, from : {Sz(7, 0), Sz(10, 8)},
                       to : {Sz(7, 7), Sz(13, 6)}]
              \union [size : {Sz(27, 37)}, from : {Sz(0, 9), Sz(11, 12)},
                       to : {Sz(0, 11), Sz(9, 9)}]
MCMaxSamples == Sz(20, 16)
MCNextPictures == { [size |-> Sz(16, 9), from |-> Sz(0, 0), to |-> Sz(0, 0)],
                    [size |-> Sz(20, 16), from |-> Sz(0, 4), to |-> Sz(0, 4)] }
MCWindows == { Sz(20, 10), Sz(9, 14) }
MCSelections == { Sz(9, 16), [frame |-> Sz(20, 16), at |-> Sz(3, 0), size |-> Sz(11, 9)] }

MCAddressOf == [t \in {"", "A", "a", "g", "bad"} |->
                  CASE t = "A" -> "a" [] t = "bad" -> "invalid" [] OTHER -> t]
MCLeases == { <<"a">>, <<"g">> }

MCPasteTexts == { << "a", "a" >>, << "b", "x", "a" >>, << "a", "b", "a", "b" >> }
=============================================================================
