# A verification project for IronKVM

IronKVM is the software of a small KVM-over-IP device: a Go server (`src/server`),
a web console (`src/web`), boot scripts and the vendor's capture code. What makes
it hard is who may drive the attached machine. People at the web console, external
agents over MCP, the built-in PicoClaw agent, and a mouse jiggler all write to
one USB HID gadget, from goroutines of their own, while an *AI control mode*
says which agent is entitled to. At the other end, the web console turns a stream
of browser events into reports that have to leave nothing held at the host, and
shows a device that others change, over sockets and calls that are late, lost or
answered out of order. This directory holds TLA+ models of both ends, the TLC
configurations that check them on small instances, and proofs for every instance,
checked by TLAPS.

## Inventory

| part | source (under `src/server`) | state | operations | what is hard, what makes it correct |
|---|---|---|---|---|
| control mode manager | `service/controlmode` | mode, transitioning, cached file info, activity gate (`active`, `exclusive`), transition lock, `/etc/kvm/ai-control.mode` | `Status`, `RequireWrite`, `AcquireWrite`, `AcquireStable`, `SwitchWithCleanup`, `SwitchIfWithCleanup` | leases and switches interleave; hooks, writes and syncs fail; power loss. A lease is on one mode; one switch at a time; a switch always returns |
| input coordinator | `service/inputcontrol` | the automatic operation, count of manual sessions, cooldown; per client: active, pending, held keys, lease | `BeginMCP`, `CancelMCP`, `Reserve`, `Complete`, `Reset`, `Close` | locks are dropped to wait; completions come late or never. One owner of the gadget; books that balance on every path; leases that come back |
| PicoClaw runtime lifecycle | `service/picoclaw` (`runtime_*`, `control_mode`, `control_operations`, `model_config`, `agent_profile`, `service`) | the process, its status, the persisted intent, lifecycle lock, tracked starts | start, stop, model and profile update, startup restore, stop for MCP, probe loop | two locks, scripts that fail, cancels, stale probes. No runtime under MCP; no start without a lease; no deadlock |
| mode handlers | `router/control.go`, `router/mcp.go` | none | `PUT /mode`, disabling MCP | hooks of a switch, and a tail that runs after it |
| PicoClaw sessions | `service/picoclaw` (`session_*`, `gateway_*`, `capture_lease`) | sessions, the session lock with its idle expiry, capture leases, WebSockets | connect, take over, close, expire | closing from several sides; a lease dropped twice or never |
| MCP server | `service/mcp` | settings | tools: lease, `BeginMCP`, reports | an operation canceled between two reports |
| mouse jiggler | `service/vm/jiggler` | settings, timer | `move` | background owner of the gadget |
| HID devices | `service/hid` | file handles, bounded queues, held flags, health | enqueue, write, release all, reopen | eviction, stale flags, reports after a release |
| WebSocket clients | `service/ws` | clients, per-client queue, manual session | read loop, broadcast, close | eviction of relative movement, close against completion |
| capture and streams | `common`, `service/stream`, `mcp/capture` | capture gate, viewers per stream, frame slots | start and stop of streamers, capture leases | lost starts and stops, teardown against a read |
| HDMI control | `service/vm/hdmi.go`, `hdmi_state` | enabled, demand, viewers, idle timer | enable, disable, reset, reports of demand | timers of an older generation, persistence outside the lock |
| DNS | `service/network/dns.go`, its DHCP hook | seven files | save, lease renewal | files written one after the other without lock or journal |
| image download | `service/download` | one transfer, its status | start, cancel, status | a cancel or status that races the end |
| terminal | `service/vm/terminal.go` | a shell and its socket | open, leave | two goroutines that have to notice the other's end |
| device settings, accounts, update, Wi-Fi and Tailscale, vendor code | see `PROJECT.json` | files | one request, one file or script | little interaction; modelled, where at all, as what answers the panels |

And of the web console (under `src/web/src`):

| part | source | state | what is hard, what makes it correct |
|---|---|---|---|
| keyboard | `pages/desktop/keyboard`, `virtual-keyboard`, `menu/keyboard`, `lib/keyboard.ts` | keys held, modifiers, leader key, composition | keyup that never comes; AltGr; overlapping sources of full reports. Nothing stays down that the page has forgotten |
| mouse | `pages/desktop/mouse`, `lib/mouse.ts` | buttons, fingers, timers, a move held back | touch gestures against frames and timers. A button goes down where the pointer is, and is let go of |
| control region | `menu/screen/original-resolution.tsx`, `screen/*region*`, `geometry.ts`, `viewport.tsx` | the configuration, the region in force, a selection being drawn | overlapping saves, a picture that changes meanwhile. Clicks land where they are seen |
| menu and dialogs | `pages/desktop/menu`, `jotai/keyboard.ts`, `hooks` | keyboard locks, count of submenus | locks outlive dialogs that unmount. What is typed into a dialog stays there |
| sockets and players | `lib/websocket.ts`, `screen/direct.worker.ts`, `h264-webrtc.tsx` | a socket with its timers, a decoder, a peer connection | late events of replaced sockets, back pressure. What breaks comes back |
| status feeds | `capture-status`, `keyboard-led-status`, `hid-status`, `notification.tsx` | the newest status | a snapshot that overtakes a broadcast. The newest is shown |
| chat panel | `pages/desktop/picoclaw`, `lib/picoclaw-gateway.ts` | runtime status, mutations, sessions, messages | polls, forced refreshes and mutations whose answers cross. What is shown ends up true |
| settings panels | `menu/settings`, `menu/*`, `auth`, `wifi` | a value, a lock | calls that are late or lost. What is shown is what the device has, and panels unlock |
| image transfer, DNS, shortcuts, pasting, terminal, preferences | `menu/download.tsx`, `network/dns.tsx`, `menu/keyboard/*`, `pages/terminal`, `lib/localstorage.ts` | forms and lists | what is shown as done has been done |

How they interact: every agent tool and every manual session takes a *lease* of
the mode (the shared side of the gate) and then the HID lane of the
coordinator. A mode switch sets `transitioning`, runs a *preempt* hook (cancel
the MCP operation and the tracked PicoClaw operations), waits at most 30 s for
the leases, runs a *cleanup* hook with the gate closed (stop the runtime,
release the keys), and writes the mode file. The runtime handlers take the same
leases and a lifecycle lock of their own.

## Modules

* `ModeArbiter` is what the manager promises, without a gate or a file: a mode,
  leases granted on it, and a mode that changes only when no lease is out or by
  the adoption of a foreign edit. It is the contract the other modules rely on.
* `ControlMode` is `manager.go` and `activity.go`. A step is one hold of
  `Manager.mu` or `activityGate.mu`. `upc` and `spc` say where each goroutine
  that takes a lease, or switches, is. `Save` has the four outcomes of
  `saveLocked`: failed before the rename, sync error after it, directory not
  opened (which is told as a success), synced. `Restart` keeps the file, or after a power loss
  what the disk had. `ArbiterSpec` states that `ControlMode` implements
  `ModeArbiter` (before the first load, the mode is what the file will be read
  as; an edit not loaded yet is a foreign change to come).
* `InputCoordinator` is `coordinator.go` over an instance of `ModeArbiter`: a
  lease can be refused at any moment and the mode changes only with no lease
  out. Tools are `toolExecutor.begin` (`mcp/server.go`) and the jiggler's
  `move`; callers are goroutines in `ManualSession.reserve`; `Complete` and
  `Reset` are what the HID workers call back, in any order, or never. `call` has
  the places of `reserve` where no lock is held. `down` is the ghost of the
  devices: which of them may have a key or button down.
* `HidPipeline` is the way of a report from a client's socket to the gadget:
  `ws/client.go` (the read loop, `sendQueue` with its eviction, `Close`) and the
  workers of `hid/keyboard.go` and `hid/mouse.go`. A step of a worker is one call of
  `writeHID`, which has the device's mutex for its whole length, with what the
  worker does next without a call: `Fail` is the drain and the flags, `todo` the
  devices `cleanupFailure` or the deferred function still has to let go of.
  `active` and `resting` are the workers' local flags and the position in
  `absoluteReleaseReport`, `pending` is the session's count of reservations, seen
  from here. `host` is what the attached machine has seen. `ReleaseByOthers` is
  `releaseAllHIDState`, and a rebuild is any handler that holds `Hid.Lock` (image,
  virtual device, PHY reset). `newest`, `unreleased` and `asked` are history.
* `RuntimeLifecycle` EXTENDS `ControlMode`. Its handlers are users of the gate
  and its switches are the manager's, with the hooks filled in: each step of a
  handler or switch conjoins the manager's action with what the handler does.
  `at` is where each goroutine is in `StartRuntime`, `UpdateModelConfig`,
  `UpdateAgentProfile`, `reconcileRuntimeIntent`, `StopRuntime`,
  `StopRuntimeForMCP` or `PUT /mode`.

The web console. An action is what JavaScript runs between two awaits: one event of
the browser, a timer, an effect, or an answer, each with its whole handler.

* `ChatGateway` is the one gateway object (`picoclaw-gateway.ts`); `PicoclawSidebar`
  EXTENDS it with the sidebar's refreshes, mutations, effects and handlers, whose
  places are in `task` and `job`, against a device (`dev`) that others change. A button can be
  pressed when the panel offers it (`Header`, `ControlBar`, `InputOffered`, ...) and no dialog is
  over it (`dialog`); what is shown may change before the dialog is answered.
  `Conversation` is the other half of the panel, its messages and sessions.
* `KeyboardCapture`, `MouseCapture`, `RelativeMouse`: events to reports. `host` in
  `KeyboardCapture` is what the attached machine has down. `VirtualKeyboard` has which
  code each drawn button sends in every layout, `Shortcuts` recording, keeping
  and sending shortcuts with the device's file, `Pasting` a pasted text with its
  handler on the device.
* `ControlRegion` (which region is selected, saved, in force, with the device's
  validation; a region is listed and selected by its size, `RegionKey`, so two places of one size
  take each other's entry), `RegionOverlay` (the drags on the overlay), `PictureView` (fitting,
  cropping, detection, and the way from a pointer to a position of the host). Detection reads a
  picture that was scaled down to `MaxSamples`; what drawing makes of a sample that an
  edge runs through is a choice (`Scalings`).
* `DialogKinds` and `MenuDialogs`: a dialog is a record of what it does when it opens,
  closes and unmounts, and the actions are shared. `SettingPanels` does the same for
  the panels that load and set something: `Panels` has one record each, and the machine runs
  any of them against a device that takes its time.
* `ImageTransfer`, `Resolver`, `SerialTerminal`: a panel together with its part of the
  server. `Resolver` has the DNS files one by one; a step of a request writes one.
* `WsClient`, `DirectStream` (with the server's queue for a viewer), `WebrtcPlayer`,
  `StatusFeeds` (with the server's stores, slots and snapshots), `StallWarning` (with everybody who
  closes the input socket for a while: a recovery, the choice of the relative mouse, a reset, a mount): the
  page's links.
* `Preferences`: what several pages of one browser keep in its storage.

`ControlModeProofs`, `InputCoordinatorProofs`, `HidPipelineProofs`, `RuntimeLifecycleProofs`
and `PicoclawSidebarProofs` hold the theorems about the module each is named after, `WebInputProofs` and
`WebControlsProofs` those about the parts of `MCWebControls`, `WebLinksProofs` those about the parts of `MCWebLinks`. The
`MC...` modules and their configurations hold the instances. `MCWebControls`, `MCWebContents` and `MCWebLinks` are
instances of many components at a time: those share no state, so a behaviour picks one
(`part`) and runs it alone, over variables `s1`, `s2`, ... that stand for those of the
module that runs, in the order of its declarations. A property of such an instance is the
conjunction of what its parts promise on one concern.

## Runs

| run | question | instance |
|---|---|---|
| `control_mode` | type, gate books (`GateAccounting`), one switch at a time and no lease while it cleans up (`OneTransition`), refinement (`ArbiterSpec`), every switch returns (`SwitchReturns`) | 2 users (a tool that insists on MCP, or `AcquireStable`), 2 switchers, failing hooks and writes, edits, restarts |
| `input_clients` | one owner of the gadget, balanced count, a waiter's operation is canceled, MCP tools run in MCP | a tool, the jiggler, 2 clients with a session each |
| `input_shared` | the same with a shared session, the session's books, leases come back once clients close | 2 goroutines, 1 session, up to 2 activations |
| `input_held_keys` | `HeldKeysBlockTools` fails: a failed report of one device clears the held flags of all | the shared session |
| `runtime_lifecycle` | the mode of a lease stays in force (`LeaseHoldsMode`), no runtime and no intent under MCP (`MCPExcludesRuntime`, `IntentInMCP`), no start without a lease (`StartsUnderLease`), type | a handler with any job against a switcher with any job, the startup restore beside them and a start, or a start against two switches that overlap (`MCScenes`) |
| `runtime_order` | every transition ends when locks are taken lease first, with failing scripts and process checks | a start, 2 switchers |
| `runtime_deadlock` | `TransitionEnds` fails with a model update in play | a start or model update, 1 switcher |
| `hid_mice` | type and capacity, every reservation completed once (`ReservationsAccounted`), no button stays down (`NothingStuck`), a release leaves the pointer in place, closing ends | a client with both mice, queues of 2, every write may fail |
| `web_chat` | polls never take the status back (`PollsNeverGoBack`), connected means an open socket, every mutation ends and its button comes back (`MutationEnds`), what is shown ends up true (`Converges`) | eight pairs of buttons (`MCScenes`), 2 clicks, 1 event of device or network, and as many answers to dialogs as are opened |
| `web_controls` | what is held at the host is known (`HeldIsKnown`), what is kept or in force is what is shown (`KeptIsShown`), what is told is true at the time: a button goes down where the pointer is, the reports of a finger account for its motion, a region saved is in the picture, a success is that of the transfer asked for (`ToldIsTrue`) | one of `KeyboardCapture`, `MouseCapture`, `RelativeMouse`, `ControlRegion`, `RegionOverlay`, `MenuDialogs`, `ImageTransfer`, `Conversation`, `Preferences` |
| `web_contents` | type, and the host is pointed at what is seen, what is typed is typed as a whole, what is listed is what is kept (`ContentsAreTrue`) | one of `PictureView`, `VirtualKeyboard`, `Shortcuts`, `Pasting`, `Resolver` |
| `web_links` | what is shown is so (`ShownIsTrue`), nothing hangs (`NothingHangs`), pictures go on (`PicturesGoOn`) | one of `WsClient`, `DirectStream`, `WebrtcPlayer`, `SettingPanels`, `StatusFeeds`, `StallWarning`, `SerialTerminal` |

Bounds and why they are enough. Two users and two switchers give every pair of
goroutines that interact: the gate and the locks only ask whether somebody else
is inside. The coordinator's instance has a tool and the jiggler, hence every
pair of owners, and two clients, hence a person who leaves while another stays.
`Slots` bounds the reports in flight (2: one completes while another is
pending), `Leases` the leases of sessions (2: one is being returned while the
next is out), `MaxGeneration` the activations and closings of a session (with 3,
a completion can belong to an earlier activation). Sessions and slots are
identities only, so leases and slots are permuted (`MCSymmetry`) in the
safety run; the liveness run has no symmetry. `Reports` is one key press, one key release,
one mouse move: the coordinator tells apart only device, held and cooldown.
`HidPipeline` has queues of 1 or 2 for the code's 200: what matters is that a queue
can be full, can hold a report behind the one that is evicted, and can be
drained with something in it. One client sees both its workers and the change of
mouse; two see each other only through the host, which the proofs cover.
No number of reports is bounded; `MaxMotion`, which bounds the motion of the relative
mouse, is 0, as no property of the run is about it.
`RuntimeLifecycle` has no counter and no symmetry; `runtime_lifecycle` has its goroutines
in scenes (`MCScenes`), so that it is small enough: every job meets every switch. That run
does not check for deadlock, since it has the deadlock that
`runtime_deadlock` is about; nor does `hid_mice`, where a client that is closed
stays closed and nothing else has to happen, nor do the web runs, where a user may
leave it at that.

In the web's instances the user acts two to seven times (`...Clicks`, `...Events`, `Gestures`): enough
for a click to meet the answer of an earlier one, which is what goes wrong there, and for
another after that (seven gestures: draw, move and resize a selection, with the picture gone and back in
between). One or two faults (`...Faults`) lose or refuse a call. Values are two
(a panel's setting, a region, a session), so that an old one can be told from a new one.
Positions are a handful (`Frames`, `Points`), so that every rounding and edge case of the geometry occurs.
`Pictures` are 16 by 9 to 27 by 37 pixels and `MaxSamples` is 20 by 16 for the code's 640 by 360: two sizes are
read as they are, one is scaled down for its width and one for its height, with borders that end between samples and at them.
`Regions` are two of one size and one of another. `Small` and `MaxDelta` are 2 for the pad's 10 pixels and 127,
so that a motion across the pad of three can be doubled, and can be too much for a report. An image transfer has five clicks, one fault
and one poll at a time (`TransferClicks`, `TransferFaults`, `MaxPolls`): a download, a cancel, and the same again on a
panel that was closed and opened between them. `MCScenes` pairs each mutation with another one or with
a handler that connects, so that each meets the end, the failure and the dialog of another; every
button is in one of the pairs. `Keyboards` has three sets of keys: one with AltGr,
one with the leader key, and two letters with a modifier. `Resolver` has three events,
leases, saves and failures together: a switch to manual and back with a lease, or with a failure,
between; its lease script outside the repository is taken to put the servers in force as long as
there is none on the boot partition.

Fairness. A goroutine of the server that is not blocked runs on, hooks and
scripts end (they have timeouts) and `sync.Mutex` does not starve a waiter: weak
fairness for the steps of a switch, a reservation or a `finish` under way, and
strong fairness for those that wait for a lock others take again and again
(the workers of `HidPipeline`, whose writes end after `hidWriteTimeout`; no write is
assumed to succeed).
Nothing is assumed of clients: a lease holder may never return it, a tool may
never end, a report may never be completed.
In the web console, timers fire, sockets that were told to close do close in the end, and
calls are answered or fail within the timeout of `lib/http.ts`; a direct stream needs in
addition that the device goes on capturing key frames and that its socket can write
again and again (strong fairness, as viewers may be full in between). A write of the terminal to a page that takes
nothing ends by its deadline, but that the shell writes at all is not assumed (`ShellWrites` has no fairness).
Nothing is assumed of the user, who may leave a dialog open for ever.

Findings, each shown by a run that expects the violation: one failed report makes
the coordinator forget the keys held on other devices (`input_held_keys`); a model update, or the
startup restore, asks for the gate with the lifecycle lock held and can
deadlock with a switch to MCP (`runtime_deadlock`).

## Observations

What the code does, met while modelling and not claimed otherwise by its documentation.
The models contain these behaviours, and the properties are stated so that they hold with
them; no run is kept for each.

* Control mode: an edit of the mode file by another process changes the mode under a held
  lease (`manager.go:136`, `459`). A switch is told to have worked when the directory of the mode file could not be opened
  and was not synced (`manager.go:512`): after a power loss the mode may be the one before, so no
  property promises that an acknowledged mode survives one.
* HID: a full queue evicts motion of the relative mouse (`client.go:358`).
* Chat gateway: closing during a pending connect leaves its promise pending, and with it the mutation that
  awaits it; `connect` with a session on an open socket overwrites the session without reconnecting; an error message leaves
  the transport in error with the socket open. Sidebar: a forced refresh that a later one superseded may still be
  taken for a confirmation; a stale refresh that fails marks the runtime unavailable; handlers that
  wait while the panel is closed, or the session switched, connect all the same, with the old session.
* Input socket: a late `onclose` of a replaced socket schedules a reconnect, which replaces a live
  socket; timers nobody can clear any more connect after `close()`.
* Feeds: after a restart of the device the LED status of "unknown" has a zero time and is refused, so the page
  keeps the old one; the same holds for all updates if the device's clock was set back.
* Terminal: leaving while the socket still connects never closes it; leaving within 300 ms can
  start picocom after its exit keys were sent; a page that stays connected and takes nothing is noticed only when the shell
  writes (`terminal.go:93`), so behind one a silent shell goes on; rates that the validation does not list are ignored silently.
* Preferences: a stored scale is applied only once the screen menu has been opened; a stored scroll interval of 0
  is not applied on a second login in the same page; icons toggled in two tabs overwrite each
  other; a setting of the screen chosen while the initial push is unanswered is overwritten on the page.
* Virtual keyboard: the letters of the Russian layout and the menu key have no code and send nothing;
  the report descriptor (`S03usbdev:109`) admits codes up to 0x65, so F13 to F24, media and language keys
  do not reach the host.
* Shortcuts: a key without a HID code is recorded and left out when sent; a shortcut deleted
  on another page cannot be deleted, and the list is not read again.
* Pasting: the form takes 1024 characters, the server 833; the text can be edited while it is pasted, and the
  answer clears it; a key of another client swallows the same character of the text.
* DNS: nothing orders two saves, or a save and the hook; a power cut after the mode and before the
  active file, followed by a switch to manual, caches the manual servers as those of DHCP until the next lease;
  rows can be edited while the page saves, and the reload overwrites them.
* Mouse: the right and bottom edges are position 32768, one more than the largest; a touchcancel of one of two
  fingers moves the pointer. On the touch pad a slow motion moves the pointer twice as far as the finger, and what exceeds 127 in one report is
  lost (`relative.tsx:381`, `lib/mouse.ts:57`).
* Input socket and mouse mode: the timer that follows the choice of the relative mouse opens the socket although a recovery of the USB gadget, a
  reset or a mount is still under way (`mouse-mode.ts:13`).
* Detection: of a picture larger than 640 by 360 the region is known to within a sample (steps of three pixels for
  1920 by 1080), and a border of less than about four samples, or one whose edge mixes with the content, may be taken or left.
* Dialogs: logging out with the settings open leaves their keyboard lock and count behind; a countdown that
  survives a drag hides the menu.
* Transfer: a cancel pressed before the answer of the start, and lost, leaves the download unwatched; an upload's first poll can
  show the previous outcome.
* Overlay: a selection begun before the picture went away and came back elsewhere stays where it was on the page, and
  is saved from there.
* Region: a region chosen from the menu while a selection of the same size is being confirmed puts the older place
  in force, and clicks land beside what is shown as selected until the next change (`original-resolution.tsx:113`); deleting a resolution that is not selected clears a manual region in force; a load answered
  late can set a region after it was switched off; confirming a selection with the button still down
  leaves the drag for the next opening; an extreme ratio centers to a region of no width.
* Panels: those without an error path stay locked, or hidden, when a call is lost (`ssh.tsx`, `mdns.tsx`, `hdmi.tsx`, `oled.tsx`,
  `wifi.tsx`): `SettingPanels` has them as panels that can hang (`CanHang`).

## Proofs

`ControlModeProofs` proves, for any finite set of users, any set of switchers,
any requests and edits: `TypeCorrect`, `GateIsAccountedFor`,
`TransitionsAreExclusive`, `LeasesAreStable` and `ManagerImplementsArbiter`.
The assumptions are those the module `ControlMode` declares, which TLC also evaluates;
`LeasesAreStable` assumes in addition `Edits = {}`, which is needed: an edit changes the mode under a lease.

`GateAccounting` and `OneTransition` are not inductive. The inductive invariant
adds where the transition lock is held (a switch holds it from its first step to
its last, so two closings would be the same switch), that `transitioning` is set
from the mark to the unmark (so nobody passes the second check in between), and
that the goroutines inside the gate are finitely many, so that entering and
leaving change the cardinality by one. `LeasesAreStable` adds that the mode of a
holder was loaded from a file that nobody edited since, or written by a switch
that had the gate to itself. The refinement maps each step to a step of
`ModeArbiter` or a stutter by the same invariant: a grant happens with
`transitioning` off, a save with no lease out, an adoption only of a foreign edit.

`HidPipelineProofs` proves, for any finite set of clients, any reports they may send,
any capacity of the queues and any devices that fail: `TypeCorrect`, `Accounted`
(`ReservationsAccounted`), `HostIsKnown` (`DownIsKnown`), `NothingSticks`
(`NothingStuck`) and `PointerStaysPut` (`ReleaseStaysPut`). The assumptions are those of
`HidPipeline`: one is about what clients send, that no report of the absolute mouse
is at the corner, position 0, which `absoluteMouseReleaseReport` sends when nothing is known.
The invariant, which TLC has checked on the instances of the runs as well, says of

* the read loop: it holds a report while it sends or evicts, and comes back from its
  one eviction with room in the queue, because nobody else puts reports into it, so the
  branch of `sendQueue` that gives up after all its turns is never taken;
* a worker: before a write it holds nothing of the other mouse; after a failure it
  has on its list what it holds; when it ends, what it still holds is what was refused;
* a line (`NewestAt`): the last report on its way, in the hand of the read loop, in the
  queue or with the worker, in this order, is the client's newest for its device. Eviction
  and draining only remove earlier reports. Without this, `NothingStuck` is not inductive: it
  says nothing until everything is through;
* a device (`StuckAt`): held though its client has let go of it only while it is on a
  list, or while reports are on their way;
* the position at rest: never the corner while the absolute mouse is held.

Each action has a lemma; a worker's step leaves the invariant of all other lines alone
(`OtherLines`), and the accounting is balanced per line (`Balance`).

`InputCoordinatorProofs` proves, for any finite sets of tools, callers, leases and
slots, any sessions that the callers share or do not, and any reports: `TypeCorrect`,
`GadgetIsExclusive` (`HidExclusion`), `CountIsExact` (`ManualAccounting`),
`WaitIsForCanceled` (`WaitedForIsCanceled`), `ToolsWorkInMCP` (`OperationsRunInMCP`) and
`SessionsAddUp` (`SessionBooks`). Of the arbiter it uses what `ControlModeProofs` shows
the manager to implement. The invariant, checked by TLC on the instances of
`input_coordinator` and `input_shared` first, depends on itself in a circle, which is why
none of these is inductive alone:

* leases (`LeasesApart`, `LeasesOut`): what callers, sessions and calls of `finish` keep
  are different leases, all of them out. So a session that ends adds a call of `finish`
  that was not there before;
* hence the count is exact: each path moves one from callers to sessions to calls of
  `finish`, and who is counted out was counted in, so `endManual` never meets a zero;
* hence, while a caller waits, is past its wait or has its session active, the count is
  not zero and `BeginMCP` refuses: the only operation there can be is the one the caller
  waits for (`Exclusion`), and that one stays canceled;
* a tool's lease is on the mode in force (`ArbiterBooks`, `ToolBooks`);
* generations (`Generations`): a slot is never ahead of its session, so the first
  report of a new generation is alone in flight, and a late completion of an older one
  changes no count.

The steps are reduced first to what they do to a caller's and a session's record
(`CallersEffect`, `SessionsEffect`, `SettleEffect`); each part of the invariant has a
lemma that goes through the steps. `MaxGeneration` is a parameter there as everywhere:
the theorems hold for every value of it.

`RuntimeLifecycleProofs` EXTENDS `ControlModeProofs` and proves, for any handlers and switchers and
any of their jobs: `LifecycleTypeCorrect` (`LifecycleTypeOK`), `LeasesHold` (`LeaseHoldsMode`), `MCPIsAlone` (`MCPExcludesRuntime`), `MCPIntent`
(`IntentInMCP`) and `StartsAreLeased` (`StartsUnderLease`, an action property). Besides the constants' types it
assumes that handlers and switchers are different goroutines (`GoroutinesAssumption`) and that what the
handlers ask of the manager is among what can be asked of it (`AskedAssumption`). The first lemma
(`ManagerStep`) shows that every step of the lifecycle is a step of the manager without an edit, or leaves it
alone; so the manager's invariant, and with it that the mode stands still under a lease (`LeasesHold`), hold here without being
proved again. The invariant (`LifecycleInv`) adds

* `HandlerAt`: at which places a handler has its lease, and that it is one on PicoClaw. Hence whoever
  starts the process, or commits a start, has the gate: no switch has closed it;
* `SwitcherAt`: at which places a switcher is inside its cleanup, and that a switch to MCP
  about to write the mode has left the runtime stopped and unwanted (`Quieted`). It stays so, because only holders
  of a lease start anything and there is none with the gate closed;
* `QuietInMCP`: the same as long as MCP is in force. It is stronger than the two properties, which say nothing while
  a switch is under way; without it neither is inductive. The tail of PUT /mode off is why
  `Quieted` lets the intent be wanted for chat;
* `Unread`: the mode is not MCP before the file has been read.

`PicoclawSidebarProofs` proves, for any scenes, any number of attempts and any bounds on the user and the
events: `TypeCorrect` (`TypeOK`), `ConnectedMeansOpen` (`ConnectedIsOpen`) and `PollsGoForward`
(`PollsNeverGoBack`, an action property). The invariant (`IInv`) adds to the types

* `PollsAreModest`: a poll that may still commit has no mutation beside it, and one that others may join was asked for
  since the last mutation ended: the epoch and the shared promise of `refreshState` go together;
* `OneLatest`: among the requests in flight one at most carries the newest number;
* `PollsAreRecent`: if what is shown is recent, so is the answer of a poll that may commit. This is what the
  numbers and the epochs are for. It needs the two before it: whoever shows something newer has asked later,
  or runs in a mutation;
* `RepliesAreRecent` and `JobRuns`: what the function of a mutation shows is what the device has answered, and it is shown
  only while there is a mutation;
* `DialogType`: what a dialog confirms is a mutation.

Each action is reduced first to what it does to the gateway (`GatewayStep`), to the requests (`RequestStep`: it asks for
one, estranges all, changes the device, serves or delivers one, or keeps them) and to the rest; the invariant is shown once
for each of these classes (`GatewayKept`, `RequestsKept`), not for each of the forty actions.

`WebInputProofs` and `WebControlsProofs` prove everything that `MCWebControls` checks, for any values of the constants
that its assumptions admit: any finite keyboards and dialogs, any size of the pad and any thresholds, pictures of any
size at any place, any regions, pages, days, messages and bounds. The assumptions are stated there and evaluated by
TLC: `DialogsAssumption` (dialogs have different names, and hold the lock of that name or none), `FramesAssumption` (a
picture is shown at less than eight times its size, which is why a selection of four pixels does not round to nothing),
`IdsAssumption` (a message of the assistant has an id) and the types of the others. Of each of the nine parts there is an
invariant with three lemmas, `...Starts`, `...Keeps` and `...Promises`, and from them a theorem about the part's own
specification (`KeyboardHolds`, `MouseHolds`, `PadHolds`, `MenuHolds`, `OverlayHolds`, `RegionHolds`, `TransferHolds`,
`ChatHolds`, `PreferencesHold`). `PartsInv` puts them together for the instance: a step is one of the part that runs
(`StepIsOfPart`). Hence `ControlsTypeCorrect` (`ControlsTypeOK`), `HeldStaysKnown` (`HeldIsKnown`),
`KeptStaysShown` (`KeptIsShown`) and `ToldStaysTrue` (`ToldIsTrue`, an action property). None of the properties is inductive; TLC has checked the invariants on
the instance of the run before they were proved. What they add:

* Keyboard (`KeyboardInv`): what is down at the host is not enough to go on: the invariant says where the last physical
  report comes from (`DownIsKnown`), since any of its keys is in the next one. The leader key is the hard case: its
  release ends the record mode and is not reported, so a leader key that went down before it was known as one must
  have been swallowed by then (`LeaderIsSwallowed`), which follows from where keys that are not modifiers may be
  forgotten (`KeysAreTracked`).
* Absolute mouse (`MouseInv`): a finger holds a button only while it is on the picture (`HoldsOnPicture`), and none while
  the timer of the long press runs (`TimerHasFinger`).
* Pad (`PadInv`): motion is kept back only as a whole, for a tap that may become a drag (`KeptBackWhole`), and such a
  finger is alone (`CandidateIsAlone`). What the reports say has the sign of the motion they were made of, is at most twice
  of it, and not less unless one was clamped (`TellsTheWay`), until the finger turns back: then the parts that were
  doubled and those that were not no longer add up, and nothing is claimed.
* Menu (`MenuInv`): the count covers the dialogs that are counted and open (`CountCovers`), as a dialog that is left
  behind is never given back, and a menu that hides has run its effects (`HidesAlone`).
* Overlay (`OverlayInv`): whatever is selected, grabbed or begun lies on the picture it was drawn on (`HeldInPicture`),
  which has been nowhere else (`DrawnWhereShown`), and one thing is held at a time (`OneHold`). This invariant was not one
  at first: a picture that goes away, is drawn on elsewhere and comes back to its place has a selection beside it, so the
  history variable `drawnOn` now forgets the picture when it comes back elsewhere. That a region saved is in the
  picture (`OverlaySaves`) is integer arithmetic about rounding (`RoundedInside`).
* Control region (`RegionKept`): what a call under way carries for the handler of its answer (`CallOK`); every handler
  hands the effects a page and a region that is none, the one in force, or one of the selected size (`Fits`), which is listed
  unless the call was overtaken; for those the effects re-establish the property (`CommitFits`).
* Image transfer (`TransferInv`): the status of an earlier transfer stays until the next one begins, so the invariant follows
  an old success (`OldSuccess`) on its way to the panel: it is over when a request is accepted (`AcceptedIsNew`); until
  then a request is still to be answered (`WaitsForAnswer`); the polls that would see it begin only when no request is
  left (`PollsComeAfter`), and those that have seen it run beside no download that could be taken for a new one
  (`SeenSuccessIsAlone`, `OldSuccessIsAllSeen`). A panel that is closed forgets that it was canceling, so cancels may overlap
  downloads and each other; what they carry is typed apart (`CancelTypes`).
* Conversation (`ChatInv`): while the panel is open the gateway has the session and the socket of the conversation
  (`GatewayOfConversation`), unless it was closed in the middle of switching (`crossed`), and without a connection
  nothing is shown of the AI in control (`ClosedIsQuiet`). The lemmas about lists (`ListsGrow`, `ListsChange`,
  `ListsRetain`) say that each handler keeps the messages of one conversation, each once.
* Preferences (`PreferencesInv`): what is stored is the last choice (`StoredIsChosen`), which was on offer, and for
  each page what it waits for and shows (`PageOK`). A page that waits for an answer of the device waits for a
  choice: without a choice there is nothing under way, which had to be added to make it inductive.

`WebLinksProofs` proves the invariants of `MCWebLinks` in the same way, for any sockets, limits of the stream, ports, rates
and bounds, and every one of the panels: `LinksTypeCorrect` (`LinksTypeOK`) and `ShownStaysTrue` (`ShownIsTrue`), by way of
`LinksInv`, with the theorems of the parts' own specifications, `StreamHolds`, `PlayerHolds`, `PanelHolds`, `FeedHolds`,
`WarningHolds`, `TerminalHolds`, and `SocketHolds`, which is about types alone. The assumptions are those `MCWebLinks`
states (`FeedsAssumption` names the three feeds there are). The invariants, checked by TLC first, add:

* Direct stream (`StreamInv`): that a frame's predecessor went before it (`DeltasFollow`) is not inductive, since the next
  delta frame is judged by what became of the newest one: a queue that takes delta frames has the newest frame in it, or has
  sent it (`QueueIsLinked`). Times are replaced by their ranks after each step, which keeps the queues what they are
  (`RankedTypes`), as the times in use are finitely many.
* WebRTC player (`RtcInv`): the property with the types is inductive.
* Panels (`PanelInv`): the careful panels are careful in one of two ways (`CarefulAre`). Those that lock have one
  call at a time (`OneCall`), which knows what the device had when it was made and, when carried out, what it has now;
  what is shown early is what the call will restore or confirm; a poll of such a panel counts only if nothing was clicked
  since, and then it saw the device at rest. The other one (`LatestLoad`) has a newest load that saw what the device has, or
  a change whose answer will make one. `NoStrays` says whose calls there can be at all.
* Feeds (`FeedInv`): the device's store is ahead of everything in flight, and two statuses with the same stamp say the same
  (`StoreIsNewest`); what is published is sent in order (`InOrder`); what is on its way is of the device as it runs now
  (`WayIsOfThisRun`), and the clock goes on over a restart (`ClockGoesOn`). From these follows `FreshComes`: once the connection has
  its snapshot, the page has a status as the store has it, or one is on its way, and nothing as new says otherwise. A message
  the page refuses is not newer than what it has, and one it takes is not older (`Accepted`), so nothing fresh is lost.
* Warning (`WarningInv`): an answer that still counts was asked for by the effect that runs now, which is one for
  the absolute mouse (`ChecksAreOfMode`). Whoever closes the input socket leaves a recovery, a timer or a call that opens it
  (`SomebodyOpens`), and of those there are no more than there were events (`WarningRestarts`).
* Terminal (`TerminalInv`): each of the two messages is sent once (`SentOnce`), and picocom runs at the end of what is sent
  only if the page has not been left yet (`PicocomIsKnown`).

Model-checked only: liveness (`SwitchReturns`, `ControlComesBack`, `TransitionEnds`, `CloseReturns`, `MutationEnds`,
`Converges`, `NothingHangs`, `PicturesGoOn`) and what `MCWebContents`
checks: conversions of data, whose small domains TLC goes through as a whole. Liveness under
fairness and anything about ENABLED is beyond the prover; no module uses RECURSIVE.

## What is left out

Of the modelled parts: `lastError` and `changedAt` (reported, never read back);
invalid mode names (rejected at entry); `OperationReadOnly` (no caller);
`manualWriteMu`; in `HidPipeline`, reports of an odd length (the read loop drops
them), the handle of a device and its health, and gadget rebuilds by other processes (pastes and
LED reports are in `Pasting` and `StatusFeeds`); in `RuntimeLifecycle`, edits of the mode file and power losses
(`ControlMode` has them), uninstalling, disabling MCP in its settings, and the
texts of statuses, of which ready, pending and anything else are kept; in `Resolver`, a power cut between two requests
(each save ends with a sync, so what an answered save wrote is on the disk; a cut within a save loses any of its
writes); in `PictureView`, noise: borders are black and content is not, a border is at most 45 percent wide, and
a sample's color depends on nothing but the pixels under it; in `StallWarning`, that the desktop page itself
closes the socket when it is left.
`Faults` covers an unreadable process table and an intent that cannot be
written; the properties about MCP excluding the runtime are stated without
them, since the code then gives up the stop on purpose. The parts of the
inventory without a module are in `PROJECT.json` with the reason.

## Plan

1. Proofs about `Resolver`: what its files say agrees with what the page lists, over failures and power cuts.
2. `GatewaySessions`: session lock with expiry, session manager, capture leases. A
   lease is returned exactly once; a removal hits the session it was meant for.
3. `VideoDemand`: HDMI control, streamers' viewers, the idle timer's generation.
   Demand and no disable implies capture; a streamer with clients runs.
4. Uninstall and disabling MCP added to `RuntimeLifecycle`; the accounts store and the
   update's crash points. Twelve runs answer twelve questions now; a new module's
   first question may take the place of `input_shared`, whose instance can be joined with
   that of `input_clients`.
