------------------------------ MODULE SettingPanels ------------------------------
(* The panels of the web console that show a setting of the device and change it
   (web/src/pages/desktop/menu, pages/auth, pages/wifi). Each is a component of its
   own, written by hand, and what differs from one to the other is its discipline:
   whether it loads the setting, what locks it, and what it does with each outcome
   of a call. The disciplines are records, one per panel; the machine below runs any
   of them against a device that takes its time. *)
EXTENDS Naturals, FiniteSets, TLC

CONSTANTS PanelClicks, PanelFaults   \* bounds on the user, and on failures

Values == {"off", "on"}
Other(v) == IF v = "on" THEN "off" ELSE "on"

\* What becomes of a call: code 0, another code, or an error (lib/http.ts: no answer
\* within a minute, or a status that is not 2xx).
Outcomes == {"ok", "refused", "lost"}

-----------------------------------------------------------------------------
(* Disciplines. Unless a panel says otherwise: the first load holds the lock until
   it is over, a click is ignored under the lock and takes it, any outcome frees it,
   and success shows what was asked. *)
Switch ==
  [load |-> "lock",        \* or "none", "free", "hidden" until loaded, "latest" wins
   loadFrees |-> Outcomes, \* the outcomes of a load that free the lock
   guard |-> TRUE,         \* a click is ignored under the lock
   locks |-> TRUE,         \* a click takes the lock
   early |-> FALSE,        \* what is asked is shown at once
   shows |-> TRUE,         \* success shows what was asked
   flips |-> FALSE,        \* the device is asked to flip what it has
   frees |-> Outcomes,     \* the outcomes that free the lock
   delays |-> {},          \* those whose effects wait for a timer
   restores |-> {},        \* those that show again what was there before
   rereads |-> {},         \* those that load again
   holds |-> FALSE,        \* that load is awaited under the lock
   leaves |-> {},          \* those that start the timer of a page reload, or "click"
   polls |-> "none"]       \* "plain", or "versioned": dropped if there was a click

\* A button: nothing is loaded, and the device acts.
Button == [Switch EXCEPT !.load = "none", !.shows = FALSE]

\* An entry of a menu: no lock at all.
Entry == [Switch EXCEPT !.load = "none", !.guard = FALSE, !.locks = FALSE]

\* Settings, Device
Ssh == [Switch EXCEPT !.frees = {"ok", "refused"}]
Mdns == Ssh
Oled == [Switch EXCEPT !.load = "hidden"]
Hdmi == [Switch EXCEPT !.loadFrees = {"ok", "refused"}, !.frees = {"ok", "refused"}, !.delays = {"ok"}]
HdmiIdleTimeout == [Switch EXCEPT !.load = "free", !.early = TRUE, !.restores = {"refused"}]
MouseJiggler == Switch
VirtualDevices == [Switch EXCEPT !.load = "free", !.flips = TRUE, !.shows = FALSE, !.rereads = {"ok"}, !.holds = TRUE]
SwapSize == Switch
Reboot == [Button EXCEPT !.frees = {"refused", "lost"}, !.leaves = {"click"}]
\* No handler has a lock, and success loads the list again.
Autostart == [Switch EXCEPT !.load = "free", !.guard = FALSE, !.locks = FALSE, !.shows = FALSE, !.rereads = {"ok"}]

\* Settings, Tailscale. The buttons of the header are there during a load; what the
\* other parts do when they are done is the load of TailscaleStatus.
TailscaleStatus == [Switch EXCEPT !.guard = FALSE, !.shows = FALSE, !.rereads = {"ok"}, !.holds = TRUE]
TailscaleHeader == [Button EXCEPT !.rereads = Outcomes]
TailscaleInstall == Button
TailscaleRun == Button
TailscaleLogin == Button
TailscaleDevice == [Switch EXCEPT !.load = "none"]
TailscaleUninstall == Button
TailscaleSwap == Switch
TailscaleMemory == [Switch EXCEPT !.load = "free"]

\* Settings, Network. The reload of the page does not wait for the answer of setTLS.
Tls == [Switch EXCEPT !.load = "none", !.frees = {}, !.leaves = {"click"}]
Dns == [Switch EXCEPT !.early = TRUE, !.rereads = {"ok"}, !.holds = TRUE]
WifiConnect == [Switch EXCEPT !.load = "hidden", !.rereads = {"refused"}]
WifiDisconnect == [Switch EXCEPT !.load = "hidden"]

\* Settings, the rest. Deleting a user is confirmed in a box that the lock does not
\* close.
Hostname == Switch
Information == [Switch EXCEPT !.load = "free"]
Users == [Switch EXCEPT !.guard = FALSE, !.shows = FALSE, !.rereads = {"ok"}, !.holds = TRUE]
Logout == Entry
WebTitle == [Switch EXCEPT !.early = TRUE]
UpdateCheck == [Switch EXCEPT !.load = "latest", !.guard = FALSE, !.locks = FALSE, !.shows = FALSE, !.rereads = {"ok"}]
UpdateNow == [Button EXCEPT !.frees = {}, !.leaves = Outcomes]
CustomServer == [Switch EXCEPT !.early = TRUE, !.restores = {"refused", "lost"}]
Offline == [Button EXCEPT !.frees = {"refused", "lost"}, !.leaves = {"ok"}]
Preview == Switch
Mcp == [Switch EXCEPT !.polls = "versioned"]

\* The menu bar
HidMode == [Switch EXCEPT !.shows = FALSE, !.frees = {"refused", "lost"}, !.leaves = {"click"}]
Images == [Switch EXCEPT !.load = "free", !.shows = FALSE, !.rereads = {"ok"}]
MountImage == [Switch EXCEPT !.load = "free"]
FrameDetect == [Switch EXCEPT !.load = "none"]
Fps == Entry
Gop == Entry
Quality == Entry
Resolution == Entry
HdmiReset == [Button EXCEPT !.delays = Outcomes]
PowerShort == Button
PowerLong == Button
PowerReset == Button
PowerLed == [Entry EXCEPT !.load = "free", !.polls = "plain"]
WolList == Autostart
Wake == Button
Scripts == [Autostart EXCEPT !.shows = TRUE, !.rereads = {}]
RunScript == Button
Shortcuts == Autostart
SendShortcut == Button
PasteText == Button
LeaderKeySetting == [Switch EXCEPT !.load = "none"]

\* Pages
LoginPage == Button
PasswordPage == Entry
WifiVerify == Button
WifiPage == Button

Panels ==
  {Ssh, Mdns, Oled, Hdmi, HdmiIdleTimeout, MouseJiggler, VirtualDevices, SwapSize, Reboot, Autostart,
   TailscaleStatus, TailscaleHeader, TailscaleInstall, TailscaleRun, TailscaleLogin, TailscaleDevice,
   TailscaleUninstall, TailscaleSwap, TailscaleMemory, Tls, Dns, WifiConnect, WifiDisconnect,
   Hostname, Information, Users, Logout, WebTitle, UpdateCheck, UpdateNow, CustomServer, Offline,
   Preview, Mcp, HidMode, Images, MountImage, FrameDetect, Fps, Gop, Quality, Resolution, HdmiReset,
   PowerShort, PowerLong, PowerReset, PowerLed, WolList, Wake, Scripts, RunScript, Shortcuts,
   SendShortcut, PasteText, LeaderKeySetting, LoginPage, PasswordPage, WifiVerify, WifiPage}

-----------------------------------------------------------------------------
VARIABLES
  panel,      \* the discipline
  shown,      \* what the panel shows
  dev,        \* what the device has
  locked,     \* the lock: isLoading and its siblings
  calls,      \* calls under way, and those of a page that has gone
  loads,      \* loads made so far: the number of the latest
  late,       \* the value that a timer is about to show, or "none"
  leaving,    \* the timer of a page reload runs
  troubled,   \* a call was lost, or a load refused, since the page was loaded
  clicks, faults

panelVars == <<panel, shown, dev, locked, calls, loads, late, leaving, troubled, clicks, faults>>

\* A call: n numbers it, old is what was shown, holding says that it holds the lock.
Load(n, holding) == [kind |-> "load", n |-> n, asked |-> "off", old |-> "off", holding |-> holding, at |-> "sent"]
Set(v) == [kind |-> "set", n |-> clicks, asked |-> v, old |-> shown, holding |-> FALSE, at |-> "sent"]
Poll == [kind |-> "poll", n |-> clicks, asked |-> "off", old |-> "off", holding |-> FALSE, at |-> "sent"]

PanelTypeOK ==
  /\ panel \in Panels
  /\ shown \in Values /\ dev \in Values
  /\ locked \in BOOLEAN /\ leaving \in BOOLEAN /\ troubled \in BOOLEAN
  /\ late \in Values \union {"none"}
  /\ \A c \in calls : /\ c.kind \in {"load", "set", "poll", "orphan"}
                      /\ c.at \in {"sent", "served", "refused"}
                      /\ c.asked \in Values /\ c.old \in Values

Mounted(d) == d.load \in {"lock", "hidden"}
FirstLoad(d, n) == IF d.load = "none" THEN {} ELSE {Load(n, Mounted(d))}

PanelInit ==
  /\ panel \in Panels
  /\ dev \in Values /\ shown = "off"
  /\ locked = Mounted(panel)
  /\ calls = FirstLoad(panel, 1) /\ loads = 1
  /\ late = "none" /\ leaving = FALSE /\ troubled = FALSE
  /\ clicks = PanelClicks /\ faults = PanelFaults

-----------------------------------------------------------------------------
(* The user and the timers *)

\* Mutant of Click: the lock is not looked at.
ClickAnyway(v) ==
  /\ clicks > 0 /\ clicks' = clicks - 1
  /\ v # shown
  /\ calls' = calls \union {Set(v)}
  /\ locked' = (locked \/ panel.locks)
  /\ shown' = IF panel.early THEN v ELSE shown
  /\ leaving' = (leaving \/ "click" \in panel.leaves)
  /\ UNCHANGED <<panel, dev, loads, late, troubled, faults>>

Click(v) ==
  /\ clicks > 0 /\ clicks' = clicks - 1
  /\ v # shown
  /\ panel.guard => ~locked
  /\ calls' = calls \union {Set(v)}
  /\ locked' = (locked \/ panel.locks)
  /\ shown' = IF panel.early THEN v ELSE shown
  /\ leaving' = (leaving \/ "click" \in panel.leaves)
  /\ UNCHANGED <<panel, dev, loads, late, troubled, faults>>

\* The interval of a panel that polls. A silent poll is not made under the lock.
StartPoll ==
  /\ panel.polls # "none"
  /\ panel.polls = "versioned" => ~locked
  /\ ~ \E c \in calls : c.kind = "poll"
  /\ calls' = calls \union {Poll}
  /\ UNCHANGED <<panel, shown, dev, locked, loads, late, leaving, troubled, clicks, faults>>

\* The timer of setHdmiState and of the reset of the HDMI input.
TimerFires ==
  /\ late # "none"
  /\ late' = "none" /\ locked' = FALSE
  /\ shown' = IF panel.shows THEN late ELSE shown
  /\ UNCHANGED <<panel, dev, calls, loads, leaving, troubled, clicks, faults>>

\* window.location.reload(): the answers of what was sent go nowhere.
Reload ==
  LET orphans == {[c EXCEPT !.kind = "orphan"] : c \in {x \in calls : x.kind \in {"set", "orphan"} /\ x.at = "sent"}} IN
  /\ leaving
  /\ leaving' = FALSE /\ late' = "none" /\ shown' = "off"
  /\ locked' = Mounted(panel)
  /\ loads' = loads + 1
  /\ calls' = orphans \union FirstLoad(panel, loads + 1)
  /\ troubled' = (orphans # {})
  /\ UNCHANGED <<panel, dev, clicks, faults>>

-----------------------------------------------------------------------------
(* Calls *)

\* The device carries a call out, or refuses it.
Serve(c) ==
  /\ c.at = "sent"
  /\ \/ /\ c.kind \in {"set", "orphan"}
        /\ dev' = IF panel.flips THEN Other(dev) ELSE c.asked
        /\ calls' = (calls \ {c}) \union (IF c.kind = "orphan" THEN {} ELSE {[c EXCEPT !.at = "served"]})
     \/ /\ c.kind \in {"load", "poll"} /\ dev' = dev
        /\ calls' = (calls \ {c}) \union {[c EXCEPT !.at = "served", !.asked = dev]}
  /\ UNCHANGED <<panel, shown, locked, loads, late, leaving, troubled, clicks, faults>>

Refuse(c) ==
  /\ c.at = "sent" /\ c.kind # "orphan"
  /\ faults > 0 /\ faults' = faults - 1
  /\ calls' = (calls \ {c}) \union {[c EXCEPT !.at = "refused"]}
  /\ UNCHANGED <<panel, shown, dev, locked, loads, late, leaving, troubled, clicks>>

\* How a call ends for the page. One that is given up may still be carried out.
EndsAs(c, o) ==
  \/ o = "ok" /\ c.at = "served" /\ UNCHANGED <<faults, troubled>>
  \/ o = "refused" /\ c.at = "refused" /\ faults' = faults /\ troubled' = (troubled \/ c.kind = "load")
  \/ o = "lost" /\ faults > 0 /\ faults' = faults - 1 /\ troubled' = TRUE
Without(c, o) ==
  (calls \ {c}) \union (IF o = "lost" /\ c.kind = "set" /\ c.at = "sent" THEN {[c EXCEPT !.kind = "orphan"]} ELSE {})

SetEnds(c, o) ==
  LET again == o \in panel.rereads
      freed == o \in panel.frees \ panel.delays /\ ~(again /\ panel.holds) IN
  /\ c.kind = "set" /\ EndsAs(c, o)
  /\ loads' = IF again THEN loads + 1 ELSE loads
  /\ calls' = Without(c, o) \union (IF again THEN {Load(loads + 1, panel.holds)} ELSE {})
  /\ late' = IF o \in panel.delays THEN c.asked ELSE late
  /\ shown' = IF o = "ok" /\ panel.shows /\ o \notin panel.delays THEN c.asked
              ELSE IF o \in panel.restores THEN c.old ELSE shown
  /\ locked' = (locked /\ ~freed)
  /\ leaving' = IF o \in panel.frees /\ panel.leaves # {} THEN FALSE ELSE leaving \/ o \in panel.leaves
  /\ UNCHANGED <<panel, dev, clicks>>

\* What a load found is shown, unless it was overtaken.
LoadEnds(c, o) ==
  LET overtaken == panel.load = "latest" /\ c.n # loads IN
  /\ c.kind = "load" /\ EndsAs(c, o)
  /\ calls' = calls \ {c}
  /\ shown' = IF o = "ok" /\ ~overtaken THEN c.asked ELSE shown
  /\ locked' = (locked /\ ~(c.holding /\ o \in panel.loadFrees /\ (panel.load = "hidden" => o = "ok")))
  /\ UNCHANGED <<panel, dev, loads, late, leaving, clicks>>

PollEnds(c, o) ==
  /\ c.kind = "poll" /\ EndsAs(c, o)
  /\ calls' = calls \ {c}
  /\ shown' = IF o = "ok" /\ (panel.polls = "versioned" => c.n = clicks) THEN c.asked ELSE shown
  /\ UNCHANGED <<panel, dev, locked, loads, late, leaving, clicks>>

Ends(c) == \E o \in Outcomes : SetEnds(c, o) \/ LoadEnds(c, o) \/ PollEnds(c, o)

Served == \E c \in calls : Serve(c)
Ended == \E c \in calls : c.kind # "poll" /\ Ends(c)

PanelNext ==
  \/ \E v \in Values : Click(v)
  \/ StartPoll \/ TimerFires \/ Reload
  \/ \E c \in calls : Serve(c) \/ Refuse(c) \/ Ends(c)

\* A call ends (the page gives it up after a minute), and timers fire.
PanelFairness ==
  /\ WF_panelVars(TimerFires)
  /\ WF_panelVars(Reload)
  /\ WF_panelVars(Served)
  /\ WF_panelVars(Ended)

PanelSpec == PanelInit /\ [][PanelNext]_panelVars /\ PanelFairness

-----------------------------------------------------------------------------
(* Properties *)

\* The disciplines that keep a panel true: the first load excludes clicks and a click
\* excludes others, or only the latest of the loads counts and every change makes one;
\* and what is shown early is taken back.
Careful(d) ==
  /\ \/ d.load \in {"lock", "hidden"} /\ d.guard
     \/ d.load = "latest" /\ d.rereads = {"ok"}
  /\ d.early => "refused" \in d.restores
  /\ \A o \in d.rereads : d.holds \/ d.load = "latest"
  /\ d.polls # "plain"

\* Once its calls are over, and none failed, a careful panel shows what the device
\* has, in whatever order the calls were carried out and answered.
ShownIsTrue ==
  Careful(panel) /\ ~troubled /\ ~leaving /\ late = "none" /\ (\A c \in calls : c.kind = "poll")
    => shown = dev

\* A panel can stay locked for good if it is hidden until it is loaded, or if some
\* outcome neither frees it nor reloads the page.
CanHang(d) ==
  \/ d.load = "hidden"
  \/ d.load = "lock" /\ d.loadFrees # Outcomes
  \/ d.locks /\ "click" \notin d.leaves /\ ~(Outcomes \subseteq d.frees \union d.leaves)

\* Every other panel comes back from its lock, whatever becomes of its calls.
Free == ~locked \/ CanHang(panel)
Unlocks == []<>Free
==============================================================================
