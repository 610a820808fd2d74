------------------------------- MODULE SerialTerminal -------------------------------
(* The terminal page (web/src/pages/terminal) and the shell behind it (server
   service/vm/terminal.go). Opened from the form for a serial port (menu/terminal/
   serial-port.tsx) the page types picocom's command line into the shell, 300 ms after
   the socket has opened, and picocom's exit keys when it is left. On the device one
   goroutine reads the socket and one writes to it, and the shell is killed when the
   reader returns. *)
EXTENDS Naturals, Sequences

CONSTANTS
  Ports, Rates   \* what is typed into the form: among others those of DevicePorts and KnownRates

\* Those that validatePicocomParameters takes: the path of a device.
DevicePorts == {"/dev/ttyS1", "/dev/ttyS2"}

VARIABLES
  address,      \* the parameters in the address of the page
  page,         \* "none", "shown", "left", or "gone" with its tab
  socket,       \* "none", "connecting", "open", "closed"
  startTimer,   \* runPicocom is due
  closeTimer,   \* cleanupConnection closes the socket after 100 ms
  running,      \* isPicocomRunning
  early,        \* the page was left before picocom was due
  sent,         \* to the device, and not read
  reads,        \* the page takes what the device writes
  unsent,       \* the shell has written what the page does not take
  shell,        \* "none", "prompt", "picocom", "killed"
  reader, writer  \* wsRead and wsWrite: "none", "running", "done"

terminalVars == <<address, page, socket, startTimer, closeTimer, running, early, sent, reads,
                  unsent, shell, reader, writer>>

-----------------------------------------------------------------------------
(* Parameters *)

\* The choices of the form, besides port and rate, and the plain shell of the menu.
Parities == {"none", "even", "odd"}
FlowControls == {"none", "soft", "hard"}
Plain == [port |-> "", baud |-> 0, parity |-> "", flow |-> "", bits |-> 0, stop |-> 0]

\* ALLOWED_BAUD_RATES and the other lists of validater.ts
KnownRates ==
  {50, 75, 110, 134, 150, 200, 300, 600, 1200, 1800, 2400, 4800, 9600, 19200, 38400, 57600,
   115200, 230400, 460800, 500000, 576000, 921600, 1000000, 1152000, 1500000, 2000000,
   2500000, 3000000, 3500000, 4000000}
AllowedParities == {"n", "o", "e", "m", "s", "none", "even", "odd"}
AllowedFlowControls == {"n", "h", "s", "x", "none", "soft", "hard"}

\* validatePicocomParameters
Valid(a) ==
  /\ a.port \in DevicePorts /\ a.baud \in KnownRates
  /\ a.parity \in AllowedParities /\ a.flow \in AllowedFlowControls
  /\ a.bits \in 5 .. 8 /\ a.stop \in 1 .. 2

-----------------------------------------------------------------------------

TerminalTypeOK ==
  /\ page \in {"none", "shown", "left", "gone"}
  /\ socket \in {"none", "connecting", "open", "closed"}
  /\ {startTimer, closeTimer, running, early, reads, unsent} \subseteq BOOLEAN
  /\ sent \in Seq({"picocom", "exit"}) /\ Len(sent) <= 2
  /\ shell \in {"none", "prompt", "picocom", "killed"}
  /\ {reader, writer} \subseteq {"none", "running", "done"}

TerminalInit ==
  /\ address = Plain /\ page = "none" /\ socket = "none"
  /\ startTimer = FALSE /\ closeTimer = FALSE /\ running = FALSE /\ early = FALSE
  /\ sent = <<>> /\ reads = TRUE /\ unsent = FALSE
  /\ shell = "none" /\ reader = "none" /\ writer = "none"

\* submit, with a port and a rate, or the menu's entry for a shell.
Submit(a) ==
  /\ page = "none" /\ page' = "shown"
  /\ a = Plain \/ (a.port # "" /\ a.baud # 0)
  /\ address' = a /\ socket' = "connecting"
  /\ UNCHANGED <<startTimer, closeTimer, running, early, sent, reads, unsent, shell, reader, writer>>

\* The device accepts: it starts the shell and its goroutines; ws.onopen
Opens ==
  /\ socket = "connecting" /\ socket' = "open"
  /\ startTimer' = TRUE
  /\ shell' = "prompt" /\ reader' = "running" /\ writer' = "running"
  /\ UNCHANGED <<address, page, closeTimer, running, early, sent, reads, unsent>>

\* runPicocom; a socket that is closed takes the command line and drops it.
RunPicocom ==
  /\ startTimer /\ startTimer' = FALSE
  /\ IF Valid(address)
     THEN /\ sent' = IF socket = "open" THEN Append(sent, "picocom") ELSE sent
          /\ running' = TRUE
     ELSE UNCHANGED <<sent, running>>
  /\ UNCHANGED <<address, page, socket, closeTimer, early, reads, unsent, shell, reader, writer>>

\* exitPicocom
ExitPicocom ==
  IF socket = "open" /\ running THEN sent' = Append(sent, "exit") /\ running' = FALSE
  ELSE UNCHANGED <<sent, running>>

\* cleanupConnection, as the component is unmounted or before the page is unloaded.
Leave ==
  /\ page = "shown" /\ page' = "left"
  /\ ExitPicocom
  /\ closeTimer' = TRUE
  /\ early' = (startTimer \/ socket = "connecting")
  /\ UNCHANGED <<address, socket, startTimer, reads, unsent, shell, reader, writer>>

\* Its timer closes a socket that is open, not one that connects.
CloseLeft ==
  /\ closeTimer /\ closeTimer' = FALSE
  /\ socket' = IF socket = "open" THEN "closed" ELSE socket
  /\ UNCHANGED <<address, page, startTimer, running, early, sent, reads, unsent, shell, reader, writer>>

\* The page is unloaded; the browser closes the socket.
Unloaded ==
  /\ page = "left" /\ page' = "gone"
  /\ startTimer' = FALSE /\ closeTimer' = FALSE /\ socket' = "closed"
  /\ UNCHANGED <<address, running, early, sent, reads, unsent, shell, reader, writer>>

\* The page stops taking what the shell writes, and its connection stays.
Freezes ==
  /\ page = "shown" /\ socket = "open" /\ reads /\ reads' = FALSE
  /\ UNCHANGED <<address, page, socket, startTimer, closeTimer, running, early, sent, unsent, shell, reader, writer>>

-----------------------------------------------------------------------------
(* The device *)

\* wsRead writes what it reads to the shell.
Read ==
  /\ reader = "running" /\ sent # <<>>
  /\ sent' = Tail(sent)
  /\ shell' = IF Head(sent) = "picocom" THEN "picocom" ELSE "prompt"
  /\ UNCHANGED <<address, page, socket, startTimer, closeTimer, running, early, reads, unsent, reader, writer>>

\* It returns when the socket is closed, by the page or by the writer.
ReaderEnds ==
  /\ reader = "running" /\ ((socket = "closed" /\ sent = <<>>) \/ writer = "done")
  /\ reader' = "done"
  /\ UNCHANGED <<address, page, socket, startTimer, closeTimer, running, early, sent, reads, unsent, shell, writer>>

\* The shell writes, more than the connection has room for.
ShellWrites ==
  /\ writer = "running" /\ shell # "killed" /\ (~reads \/ socket = "closed")
  /\ ~unsent /\ unsent' = TRUE
  /\ UNCHANGED <<address, page, socket, startTimer, closeTimer, running, early, sent, reads, shell, reader, writer>>

\* wsWrite's deadline for it passes, or the write fails, or the shell is gone: it closes
\* the socket.
WriterEnds ==
  /\ writer = "running" /\ (unsent \/ shell = "killed")
  /\ writer' = "done" /\ socket' = "closed"
  /\ UNCHANGED <<address, page, startTimer, closeTimer, running, early, sent, reads, unsent, shell, reader>>

\* The deferred calls of Terminal
Teardown ==
  /\ reader = "done" /\ shell # "killed"
  /\ shell' = "killed" /\ socket' = "closed"
  /\ UNCHANGED <<address, page, startTimer, closeTimer, running, early, sent, reads, unsent, reader, writer>>

Addresses ==
  { [port |-> p, baud |-> r, parity |-> y, flow |-> f, bits |-> b, stop |-> s] :
      p \in Ports, r \in Rates, y \in Parities, f \in FlowControls, b \in 5 .. 8, s \in 1 .. 2 }

TerminalNext ==
  \/ \E a \in Addresses \union {Plain} : Submit(a)
  \/ Opens \/ RunPicocom \/ Leave \/ CloseLeft \/ Unloaded \/ Freezes
  \/ Read \/ ReaderEnds \/ ShellWrites \/ WriterEnds \/ Teardown

\* The timers fire and the goroutines run.
TerminalFairness ==
  /\ WF_terminalVars(CloseLeft) /\ WF_terminalVars(Read) /\ WF_terminalVars(ReaderEnds)
  /\ WF_terminalVars(WriterEnds) /\ WF_terminalVars(Teardown)

TerminalSpec == TerminalInit /\ [][TerminalNext]_terminalVars /\ TerminalFairness

-----------------------------------------------------------------------------
(* Properties *)

\* picocom, which holds the serial port, has been told to exit when the page's socket
\* closes, and by a page that was not left at once it was: index.tsx 52-103. The choices
\* of the form are ones that the page starts with, if the device and its rate are known.
PortIsLeft ==
  /\ page \in {"left", "gone"} /\ ~early /\ reads /\ writer = "running" /\ socket = "closed"
       => shell # "picocom" \/ sent # <<>>
  /\ page = "shown" /\ address.port \in DevicePorts /\ address.baud \in KnownRates => Valid(address)

\* Nobody uses the shell: the page was left after its socket had opened, or does not
\* take what the shell has written (terminal.go 61-71). A shell that is silent behind a
\* page that is frozen is not noticed, and stays.
Abandoned == shell \in {"prompt", "picocom"} /\ (unsent \/ page = "gone" \/ (page = "left" /\ ~early))
ShellEnds == []<>~Abandoned
=============================================================================
