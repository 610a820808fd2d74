-------------------------------- MODULE Resolver --------------------------------
(* The DNS servers of the device (server/service/network/dns.go), the hook that a DHCP
   lease runs (scripts/99-nanokvm-dns) and the page on which they are set (web/src/pages/
   desktop/menu/settings/network/dns.tsx). The configuration is spread over files that are
   written one after the other, without a lock against the hook and without a journal: a
   write may fail, and the device may lose its power before they are synced.

   A file is the sequence of its servers, <<>> if there are none, the file or its contents.
   Of /boot/resolv.conf it matters whether it is there: it is <<>> or <<its servers>>.
   Search domains are left out. One page. *)
EXTENDS Naturals, Sequences, SequencesExt

CONSTANTS
  Texts,       \* what rows of the form hold, without blanks and comments; "" of them
  AddressOf,   \* the address of each text; "invalid" if it is none
  Leases,      \* the servers that DHCP may tell
  MaxServers,  \* maxDNSServers
  DnsEvents    \* bound: leases, loads and saves, failures

VARIABLES
  files,       \* dns.mode, dns.servers, /boot/resolv.conf and its backup, /etc/resolv.conf,
               \* its DHCP cache, /tmp/resolv.conf; whether the hook is installed
  lease,       \* (history) what DHCP told last
  renewal,     \* <<>>, or what the hook has cached and not made active yet
  job,         \* the request that is handled, NoJob if none is
  torn,        \* (history) "active", "cache": a failure or an overlap may have left it wrong
  answer,      \* of the request: "none", "ok", "error"
  form,        \* the page
  dnsEvents

resolverVars == <<files, lease, renewal, job, torn, answer, form, dnsEvents>>

-----------------------------------------------------------------------------
(* What the files say *)

FirstOf(sources) ==
  LET known == SelectSeq(sources, LAMBDA s : s # <<>>) IN IF known = <<>> THEN <<>> ELSE known[1]

\* currentDNSMode
CurrentMode ==
  IF files.mode # "" THEN files.mode ELSE IF files.boot # <<>> THEN "manual" ELSE "dhcp"

BootServers == IF files.boot = <<>> THEN <<>> ELSE files.boot[1]

\* readDHCPResolvConfig(canFallbackEffectiveForDHCP())
DhcpConfig ==
  FirstOf(<<files.cache, files.tmp>> \o
          IF files.mode = "dhcp" \/ (files.mode = "" /\ files.boot = <<>>) THEN <<files.etc>> ELSE <<>>)

\* GetDNS: the servers that were set
ManualServers == FirstOf(<<files.servers, BootServers, files.backup>>)

-----------------------------------------------------------------------------
(* Requests *)

NoJob == [mode |-> "none"]

ManualSteps == <<"refresh", "mode", "servers", "boot", "etc", "hook">>
DhcpSteps == <<"cache", "mode", "preserve", "backup", "remove", "etc", "hook">>

\* The file that a step of setManualDNS or setDHCPDNS writes, whether it does, and what.
FileOf == [refresh |-> "cache", cache |-> "cache", mode |-> "mode", servers |-> "servers",
           preserve |-> "servers", boot |-> "boot", remove |-> "boot", backup |-> "backup",
           etc |-> "etc", hook |-> "hook"]

Applies(step) ==
  CASE step = "refresh" -> CurrentMode = "dhcp" /\ files.etc # <<>>
    [] step = "preserve" -> files.servers = <<>> /\ ManualServers # <<>>
    [] step \in {"backup", "remove"} -> files.boot # <<>>
    [] OTHER -> TRUE

Content(step) ==
  CASE step = "refresh" -> files.etc
    [] step = "preserve" -> ManualServers
    [] step = "backup" -> BootServers
    [] step = "remove" -> <<>>
    [] step = "mode" -> job.mode
    [] step = "hook" -> TRUE
    [] step = "boot" -> <<job.servers>>
    [] OTHER -> job.servers

\* A write that fails may leave its file empty; a file is removed or it is not.
Nothing(step) ==
  CASE step = "mode" -> "" [] step = "hook" -> FALSE [] step = "boot" -> << <<>> >> [] OTHER -> <<>>

\* Mutant of Once: what was there before stays.
Kept(s) == s

\* normalizeDNSServers and normalizeServers: what was there before is left out.
Once(s) ==
  LET kept[n \in 0 .. Len(s)] ==
        IF n = 0 THEN <<>>
        ELSE IF s[n] \in ToSet(kept[n - 1]) THEN kept[n - 1] ELSE Append(kept[n - 1], s[n])
  IN kept[Len(s)]
Addresses(texts) == Once([i \in DOMAIN texts |-> AddressOf[texts[i]]])

-----------------------------------------------------------------------------
(* The page *)

\* normalizeServers
Normalized(rows) == Once(SelectSeq(rows, LAMBDA t : t # ""))
Valid(rows) == \A i \in DOMAIN rows : AddressOf[rows[i]] # "invalid"

HasChanges == form.mode # form.mode0 \/ Normalized(form.rows) # Normalized(form.rows0)
CanSave == HasChanges /\ (form.mode = "manual" =>
                             Valid(form.rows) /\ Len(Normalized(form.rows)) <= MaxServers)

\* call: "load", "save", the request's answer is awaited, or "reload", after it; sent: what
\* was saved; (history) sure: whether the page was told of all it did.
Form == [call |-> "load", mode |-> "dhcp", mode0 |-> "dhcp", rows |-> <<>>, rows0 |-> <<>>,
         sent |-> <<>>, sure |-> FALSE]

DnsEvent == dnsEvents > 0 /\ dnsEvents' = dnsEvents - 1

ResolverTypeOK ==
  /\ files.mode \in {"", "manual", "dhcp"} /\ files.hook \in BOOLEAN
  /\ Len(files.boot) <= 1
  /\ \A f \in {files.servers, BootServers, files.backup, files.etc, files.cache, files.tmp} :
        IsInjective(f) /\ ToSet(f) \intersect {"", "invalid"} = {}
  /\ DOMAIN form = DOMAIN Form /\ Len(form.rows) <= MaxServers
  /\ torn \subseteq {"active", "cache"}

\* As the device was delivered, or with servers that its user has put on the boot partition
ResolverInit ==
  /\ lease \in Leases
  /\ \E boot \in {<<>>} \union {<<l>> : l \in Leases} :
       files = [mode |-> "", servers |-> <<>>, boot |-> boot, backup |-> <<>>,
                etc |-> (IF boot = <<>> THEN lease ELSE boot[1]), cache |-> <<>>, tmp |-> lease,
                hook |-> FALSE]
  /\ renewal = <<>> /\ job = NoJob /\ torn = {} /\ answer = "none"
  /\ form = Form /\ dnsEvents = DnsEvents

\* GetDNS
Shown == [Form EXCEPT !.call = "none", !.mode = CurrentMode, !.mode0 = CurrentMode,
                      !.rows = ManualServers, !.rows0 = ManualServers]

\* The page is mounted.
OpenForm ==
  /\ DnsEvent /\ form' = Form
  /\ answer' = "none" /\ UNCHANGED <<files, lease, renewal, job, torn>>

Loaded ==
  /\ form.call \in {"load", "reload"}
  /\ form' = [Shown EXCEPT !.sure = job = NoJob]
  /\ UNCHANGED <<files, lease, renewal, job, torn, answer, dnsEvents>>

\* The list could not be read: nothing is changed.
LoadFails ==
  /\ DnsEvent /\ form.call \in {"load", "reload"}
  /\ form' = [form EXCEPT !.call = "none"]
  /\ UNCHANGED <<files, lease, renewal, job, torn, answer>>

ChooseMode(m) ==
  /\ form.call = "none" /\ form' = [form EXCEPT !.mode = m]
  /\ UNCHANGED <<files, lease, renewal, job, torn, answer, dnsEvents>>

\* addServer, updateServer, removeServer: the last two even while the page saves.
EditRows ==
  /\ form.mode = "manual" /\ form.call # "load"
  /\ \/ /\ form.call = "none" /\ Len(form.rows) < MaxServers
        /\ form' = [form EXCEPT !.rows = Append(@, "")]
     \/ \E i \in DOMAIN form.rows :
          \/ \E t \in Texts : form' = [form EXCEPT !.rows[i] = t]
          \/ form' = [form EXCEPT !.rows = RemoveAt(@, i)]
  /\ UNCHANGED <<files, lease, renewal, job, torn, answer, dnsEvents>>

\* save, and SetDNS up to its first write; one request at a time
Save ==
  /\ DnsEvent /\ form.call = "none" /\ CanSave /\ job = NoJob
  /\ form.mode = "manual" => Normalized(form.rows) # <<>>
  /\ form' = [form EXCEPT !.call = "save", !.sent = Normalized(form.rows), !.sure = FALSE]
  /\ LET servers == IF form.mode = "manual" THEN Addresses(form'.sent) ELSE DhcpConfig
     IN IF servers = <<>> THEN answer' = "error" /\ UNCHANGED job
        ELSE /\ job' = [mode |-> form.mode, servers |-> servers, alone |-> renewal = <<>>, before |-> files,
                        left |-> IF form.mode = "manual" THEN ManualSteps ELSE DhcpSteps]
             /\ answer' = "none"
  /\ UNCHANGED <<files, lease, renewal, torn>>

\* The answer of SetDNS: what was sent is shown, and read again.
Saved ==
  /\ form.call = "save" /\ answer # "none"
  /\ form' = IF answer = "ok"
             THEN [form EXCEPT !.call = "reload", !.rows = form.sent, !.rows0 = form.sent,
                               !.mode0 = form.mode, !.sure = TRUE]
             ELSE [form EXCEPT !.call = "none"]
  /\ answer' = "none"
  /\ UNCHANGED <<files, lease, renewal, job, torn, dnsEvents>>

-----------------------------------------------------------------------------
(* The device *)

\* A step of setManualDNS or setDHCPDNS; the last one answers.
Step ==
  /\ job # NoJob
  /\ LET step == Head(job.left) IN
       files' = IF Applies(step) THEN [files EXCEPT ![FileOf[step]] = Content(step)] ELSE files
  /\ IF Len(job.left) > 1
     THEN job' = [job EXCEPT !.left = Tail(@)] /\ UNCHANGED <<torn, answer>>
     ELSE /\ job' = NoJob /\ answer' = "ok"
          /\ torn' = IF job.alone /\ (job.mode = "manual" \/ "cache" \notin torn)
                     THEN torn \ {"active"} ELSE {"active", "cache"}
  /\ UNCHANGED <<lease, renewal, form, dnsEvents>>

\* A write fails: the rest is not done, and the file as it was or empty.
Interrupted ==
  /\ DnsEvent /\ job # NoJob
  /\ LET step == Head(job.left) IN
       files' \in {files} \union IF Applies(step) THEN {[files EXCEPT ![FileOf[step]] = Nothing(step)]} ELSE {}
  /\ job' = NoJob /\ answer' = "error" /\ torn' = {"active", "cache"}
  /\ UNCHANGED <<lease, renewal, form>>

\* The power is cut: of what has been written since the request began, which is not
\* synced, any part is lost, and a file of it may be empty.
PowerCut ==
  /\ DnsEvent /\ job # NoJob
  /\ LET written == {f \in DOMAIN files : files[f] # job.before[f]} IN
       \E lost \in SUBSET written :
         LET kept == [f \in DOMAIN files |-> IF f \in lost THEN job.before[f] ELSE files[f]] IN
         files' \in {kept} \union {[kept EXCEPT ![FileOf[step]] = Nothing(step)] :
                                     step \in {t \in DOMAIN FileOf : FileOf[t] \in written}}
  /\ job' = NoJob /\ answer' = "error" /\ torn' = {"active", "cache"}
  /\ renewal' = <<>>
  /\ UNCHANGED <<lease, form>>

\* The cache could not be refreshed, which setManualDNS only logs.
RefreshFails ==
  /\ DnsEvent /\ job # NoJob /\ Head(job.left) = "refresh" /\ Applies("refresh")
  /\ files' \in {files, [files EXCEPT !.cache = <<>>]}
  /\ job' = [job EXCEPT !.left = Tail(@)] /\ torn' = torn \union {"cache"}
  /\ UNCHANGED <<lease, renewal, answer, form>>

\* The lease is bound or renewed. The script that comes with udhcpc is not part of the
\* repository: it notes the servers, and puts them in force while none are on the boot
\* partition. Then it runs the hook, which caches them.
Renew(l) ==
  /\ DnsEvent /\ renewal = <<>>
  /\ lease' = l
  /\ files' = [files EXCEPT !.tmp = l, !.etc = IF files.boot = <<>> THEN l ELSE @,
                            !.cache = IF files.hook THEN l ELSE @]
  /\ renewal' = IF files.hook THEN l ELSE <<>>
  /\ IF job = NoJob THEN UNCHANGED <<job, torn>>
     ELSE job' = [job EXCEPT !.alone = FALSE] /\ torn' = {"active", "cache"}
  /\ UNCHANGED <<answer, form>>

\* The hook makes the lease active if the mode says so, or if none is set.
Activate ==
  /\ renewal # <<>>
  /\ LET active == files.mode = "dhcp" \/ (files.mode = "" /\ files.boot = <<>>) IN
       /\ files' = IF active THEN [files EXCEPT !.etc = renewal] ELSE files
       /\ torn' = IF job # NoJob THEN {"active", "cache"}
                  ELSE IF files.cache # renewal THEN torn
                  ELSE torn \ ({"cache"} \union IF active THEN {"active"} ELSE {})
  /\ job' = IF job = NoJob THEN job ELSE [job EXCEPT !.alone = FALSE]
  /\ renewal' = <<>>
  /\ UNCHANGED <<lease, answer, form, dnsEvents>>

ResolverNext ==
  \/ OpenForm \/ Loaded \/ LoadFails \/ EditRows \/ Save \/ Saved
  \/ \E m \in {"manual", "dhcp"} : ChooseMode(m)
  \/ Step \/ Interrupted \/ PowerCut \/ RefreshFails \/ Activate
  \/ \E l \in Leases : Renew(l)

ResolverSpec == ResolverInit /\ [][ResolverNext]_resolverVars

-----------------------------------------------------------------------------
(* Properties *)

\* While nothing is under way, the servers in force are those of the mode: those set, or
\* those of the lease. A failure, a power cut, and a lease that is renewed in the middle of
\* a request may leave others, but only until a request is handled as a whole, or a lease renewed
\* (setManualDNS, setDHCPDNS, 99-nanokvm-dns).
ActiveFollowsMode ==
  job = NoJob /\ renewal = <<>> /\ "active" \notin torn =>
    files.etc = IF CurrentMode = "manual" THEN ManualServers ELSE lease

\* What the page shows as saved the device has: the mode, and the servers of the manual
\* mode, whether it could read them again or not (save, getDNS).
SavedIsShown ==
  form.call = "none" /\ form.sure /\ job = NoJob /\ ~HasChanges =>
    /\ form.mode = CurrentMode
    /\ form.mode = "manual" => Addresses(Normalized(form.rows)) = ManualServers
=============================================================================
