----------------------------- MODULE ImageTransfer -----------------------------
(****************************************************************************)
(* Bringing an image to the device (menu/download.tsx): the popover asks    *)
(* the server to fetch a URL, or uploads a file, and watches the transfer   *)
(* by polling its status.  The server runs one transfer at a time and keeps *)
(* the status of the last (server/service/download/service.go); polls,      *)
(* requests and cancellations overlap, and a poll may be answered with what *)
(* the server knew before the click.                                        *)
(****************************************************************************)
EXTENDS Integers, FiniteSets

CONSTANTS
    TransferClicks,   \* bound: how often the user acts
    TransferFaults,   \* bound: requests lost
    MaxPolls          \* bound: status requests under way

VARIABLES
    job,         \* the server's transfer: "none", "remote" (a URL), "upload"
    status,      \* the server's status: of the running transfer or the last
    shown,       \* the popover's status ("" before the first)
    opened,      \* is the popover open
    polling,     \* is the interval set
    polls,       \* status requests: [stale, seen]
    remote,      \* remoteDownloadActive (and isRemoteDownloading)
    uploading,   \* fileUploadActive
    requests,    \* download requests: [current, at]
    cancelling,  \* isCancelling: the button waits for the answer of a cancel request
    cancels,     \* cancel requests: [click, at], where click tells them apart
    upload,      \* the upload: "none", "sent", "running", "ok", "refused"
    arrived,     \* history: a remote transfer succeeded since the last download()
    early,       \* history: polled or cancelled before the server answered download()
    transferClicks,
    transferFaults

transferVars == << job, status, shown, opened, polling, polls, remote, uploading, requests,
                   cancelling, cancels, upload, arrived, early, transferClicks, transferFaults >>
server == << job, status, arrived >>
cancellation == << cancelling, cancels >>
watch == << shown, polling, polls, remote, uploading, early >>

Failures == { "failed", "checksum_failed" }
ServerStatuses == Failures \cup { "idle", "in_progress", "success" }
Unanswered == [status |-> "", file |-> "none"]
Sightings == { [status |-> s, file |-> f] : s \in ServerStatuses, f \in { "none", "remote", "upload" } }

TransferTypeOK ==
    /\ job \in { "none", "remote", "upload" }
    /\ status \in ServerStatuses
    /\ shown \in ServerStatuses \cup { "" }
    /\ opened \in BOOLEAN /\ polling \in BOOLEAN
    /\ polls \subseteq [stale : BOOLEAN, seen : Sightings \cup { Unanswered }]
    /\ remote \in BOOLEAN /\ uploading \in BOOLEAN
    /\ requests \subseteq [current : BOOLEAN, at : { "sent", "accepted", "refused" }]
    /\ cancelling \in BOOLEAN
    /\ cancels \subseteq [click : 0 .. TransferClicks, at : { "sent", "ok", "refused" }]
    /\ upload \in { "none", "sent", "running", "ok", "refused" }
    /\ arrived \in BOOLEAN /\ early \in BOOLEAN
    /\ transferClicks \in 0 .. TransferClicks

(* The device has just started, or has had a transfer before.               *)
TransferInit ==
    /\ job = "none"
    /\ status \in { "idle", "success", "failed" }
    /\ shown = "" /\ opened = FALSE
    /\ polling = FALSE /\ polls = {}
    /\ remote = FALSE /\ uploading = FALSE
    /\ requests = {} /\ cancelling = FALSE /\ cancels = {} /\ upload = "none"
    /\ arrived = FALSE /\ early = FALSE
    /\ transferClicks = 0 /\ transferFaults = 0

TransferClick == transferClicks < TransferClicks /\ transferClicks' = transferClicks + 1
TransferFault == transferFaults < TransferFaults /\ transferFaults' = transferFaults + 1

(****************************************************************************)
(* The server.                                                              *)
(****************************************************************************)

(* beginDownload: one transfer at a time.                                   *)
Begin(kind) == job = "none" /\ job' = kind /\ status' = "in_progress"

(* finishDownload.                                                          *)
Finish(s) == job' = "none" /\ status' = s

StartDownload(r) ==
    /\ r \in requests /\ r.at = "sent"
    /\ \/ Begin("remote") /\ requests' = (requests \ { r }) \cup { [r EXCEPT !.at = "accepted"] }
       \/ requests' = (requests \ { r }) \cup { [r EXCEPT !.at = "refused"] }
          /\ UNCHANGED << job, status >>
    /\ UNCHANGED << arrived, watch, opened, cancellation, upload, transferClicks, transferFaults >>

(* The goroutine of a remote download ends.                                 *)
EndDownload(s) ==
    /\ job = "remote" /\ s \in Failures \cup { "success" }
    /\ Finish(s)
    /\ arrived' = (arrived \/ s = "success")
    /\ UNCHANGED << watch, opened, requests, cancellation, upload, transferClicks, transferFaults >>

(* An upload that is done leaves the status idle.                           *)
RunUpload ==
    /\ \/ upload = "sent" /\ Begin("upload") /\ upload' = "running"
       \/ upload = "sent" /\ job /= "none" /\ upload' = "refused" /\ UNCHANGED << job, status >>
       \/ upload = "running" /\ Finish("idle") /\ upload' = "ok"
       \/ upload = "running" /\ (\E s \in Failures : Finish(s)) /\ upload' = "refused"
    /\ UNCHANGED << arrived, watch, opened, requests, cancellation, transferClicks, transferFaults >>

(* CancelDownloadImage: only a remote download can be cancelled; the answer *)
(* waits for its goroutine, at most ten seconds.                            *)
ServeCancel(q) ==
    /\ q \in cancels /\ q.at = "sent"
    /\ \/ /\ job = "remote" /\ Finish("idle")
          /\ cancels' = (cancels \ { q }) \cup { [q EXCEPT !.at = "ok"] }
       \/ /\ cancels' = (cancels \ { q }) \cup { [q EXCEPT !.at = "refused"] }
          /\ UNCHANGED << job, status >>
    /\ UNCHANGED << arrived, watch, opened, requests, cancelling, upload, transferClicks, transferFaults >>

ServeStatus(p) ==
    /\ p \in polls /\ p.seen = Unanswered
    /\ polls' = (polls \ { p }) \cup { [p EXCEPT !.seen = [status |-> status, file |-> job]] }
    /\ UNCHANGED << server, shown, polling, remote, uploading, early, opened, requests, cancellation, upload,
                    transferClicks, transferFaults >>

(****************************************************************************)
(* Polling.                                                                 *)
(****************************************************************************)

Outdated(ps) == { [p EXCEPT !.stale = TRUE] : p \in ps }
Asked == [stale |-> FALSE, seen |-> Unanswered]

(* startStatusPolling and stopStatusPolling: both make every request under  *)
(* way outdated.                                                            *)
StartPolling ==
    /\ polling' = TRUE /\ polls' = Outdated(polls) \cup { Asked }
    /\ early' = (early \/ requests' /= {})
StopPolling == polling' = FALSE /\ polls' = Outdated(polls) /\ UNCHANGED early

PollAgain ==
    /\ polling /\ Cardinality(polls) < MaxPolls
    /\ Asked \notin polls
    /\ polls' = polls \cup { Asked }
    /\ UNCHANGED << server, shown, polling, remote, uploading, early, opened, requests, cancellation, upload,
                    transferClicks, transferFaults >>

(* What getDownloadStatus does with an answer of this polling session.      *)
Observe(seen, others) ==
    /\ shown' = seen.status
    /\ CASE seen.status = "in_progress" ->
              /\ remote' = (seen.file = "remote")
              /\ polls' = others
              /\ UNCHANGED << polling, uploading >>
         [] seen.status = "idle" /\ uploading ->
              polls' = others /\ UNCHANGED << polling, remote, uploading >>
         [] OTHER ->
              /\ remote' = FALSE
              /\ uploading' = (uploading /\ seen.status /= "success")
              /\ polling' = FALSE /\ polls' = Outdated(others)

(* Mutant: getDownloadStatus does not compare the polling session.          *)
StatusAnsweredAnyway(p) ==
    /\ p \in polls /\ p.seen /= Unanswered
    /\ Observe(p.seen, polls \ { p })
    /\ UNCHANGED << server, early, opened, requests, cancellation, upload, transferClicks, transferFaults >>

StatusAnswered(p) ==
    /\ p \in polls /\ p.seen /= Unanswered
    /\ IF p.stale THEN polls' = polls \ { p } /\ UNCHANGED << shown, polling, remote, uploading >>
                  ELSE Observe(p.seen, polls \ { p })
    /\ UNCHANGED << server, early, opened, requests, cancellation, upload, transferClicks, transferFaults >>

(* A lost status request rejects; nobody catches it and the interval goes on. *)
StatusLost(p) ==
    /\ TransferFault
    /\ p \in polls
    /\ polls' = polls \ { p }
    /\ UNCHANGED << server, shown, polling, remote, uploading, early, opened, requests, cancellation, upload,
                    transferClicks >>

(****************************************************************************)
(* The popover.                                                             *)
(****************************************************************************)

(* handleOpenChange.                                                        *)
OpenTransfer ==
    /\ TransferClick
    /\ ~opened /\ opened' = TRUE
    /\ UNCHANGED requests /\ StartPolling
    /\ UNCHANGED << server, shown, remote, uploading, cancellation, upload, transferFaults >>

(* With no transfer to watch, the popover forgets that it waits for the     *)
(* answer of a cancellation.                                                *)
CloseTransfer ==
    /\ opened /\ opened' = FALSE
    /\ IF remote \/ uploading THEN UNCHANGED << shown, polling, polls, early, cancelling >>
                              ELSE shown' = "" /\ StopPolling /\ cancelling' = FALSE
    /\ UNCHANGED << server, remote, uploading, requests, cancels, upload,
                    transferClicks, transferFaults >>

(* download(): an earlier request is no longer the current one.             *)
Superseded(rs) == { [r EXCEPT !.current = FALSE] : r \in rs }

Download ==
    /\ TransferClick
    /\ opened /\ ~cancelling /\ shown /= "in_progress"
    /\ polling' = FALSE /\ polls' = Outdated(polls)
    /\ requests' = Superseded(requests) \cup { [current |-> TRUE, at |-> "sent"] }
    /\ remote' = TRUE /\ shown' = "in_progress"
    /\ arrived' = FALSE /\ early' = FALSE
    /\ UNCHANGED << job, status, uploading, opened, cancellation, upload, transferFaults >>

GiveUp == StopPolling /\ remote' = FALSE /\ shown' = "failed" /\ UNCHANGED uploading

DownloadAnswered(r) ==
    /\ r \in requests /\ r.at /= "sent"
    /\ requests' = requests \ { r }
    /\ CASE ~r.current -> UNCHANGED watch
         [] r.current /\ r.at = "accepted" -> StartPolling /\ UNCHANGED << shown, remote, uploading >>
         [] OTHER -> GiveUp
    /\ UNCHANGED << server, opened, cancellation, upload, transferClicks, transferFaults >>

DownloadLost(r) ==
    /\ TransferFault
    /\ r \in requests
    /\ requests' = requests \ { r }
    /\ IF r.current THEN GiveUp ELSE UNCHANGED watch
    /\ UNCHANGED << server, opened, cancellation, upload, transferClicks >>

CancelDownload ==
    /\ TransferClick
    /\ opened /\ ~cancelling /\ shown = "in_progress" /\ remote
    /\ cancelling' = TRUE
    /\ cancels' = cancels \cup { [click |-> transferClicks, at |-> "sent"] }
    /\ requests' = Superseded(requests)
    /\ early' = (early \/ requests /= {})
    /\ UNCHANGED << server, shown, polling, polls, remote, uploading, opened, upload, transferFaults >>

(* The answer may be that of a request the popover waits for no more.       *)
CancelAnswered(q) ==
    /\ q \in cancels /\ q.at \in { "ok", "refused" }
    /\ cancels' = cancels \ { q } /\ cancelling' = FALSE
    /\ UNCHANGED requests
    /\ IF q.at = "ok"
       THEN StopPolling /\ remote' = FALSE /\ shown' = "idle" /\ UNCHANGED uploading
       ELSE IF remote THEN StartPolling /\ UNCHANGED << shown, remote, uploading >>
                      ELSE UNCHANGED watch
    /\ UNCHANGED << server, opened, upload, transferClicks, transferFaults >>

CancelLost(q) ==
    /\ TransferFault
    /\ q \in cancels
    /\ cancels' = cancels \ { q } /\ cancelling' = FALSE
    /\ UNCHANGED << server, watch, opened, requests, upload, transferClicks >>

(* handleFileChange and upload; a failed choice is left out.                *)
ChooseFile ==
    /\ TransferClick
    /\ opened /\ shown /= "in_progress"
    /\ StopPolling /\ remote' = FALSE /\ shown' = "idle"
    /\ UNCHANGED << server, uploading, opened, requests, cancellation, upload, transferFaults >>

Upload ==
    /\ TransferClick
    /\ opened /\ shown /= "in_progress" /\ upload = "none"
    /\ upload' = "sent" /\ uploading' = TRUE /\ remote' = FALSE /\ shown' = "in_progress"
    /\ UNCHANGED requests /\ StartPolling
    /\ UNCHANGED << server, opened, cancellation, transferFaults >>

UploadAnswered ==
    /\ upload \in { "ok", "refused" } /\ upload' = "none"
    /\ uploading' = FALSE
    /\ remote' = (remote /\ upload = "refused")
    /\ shown' = IF upload = "ok" THEN "success" ELSE "failed"
    /\ StopPolling
    /\ UNCHANGED << server, opened, requests, cancellation, transferClicks, transferFaults >>

TransferNext ==
    \/ \E r \in requests : StartDownload(r) \/ DownloadAnswered(r) \/ DownloadLost(r)
    \/ \E s \in ServerStatuses : EndDownload(s)
    \/ RunUpload \/ PollAgain
    \/ \E p \in polls : ServeStatus(p) \/ StatusAnswered(p) \/ StatusLost(p)
    \/ \E q \in cancels : ServeCancel(q) \/ CancelAnswered(q) \/ CancelLost(q)
    \/ OpenTransfer \/ CloseTransfer \/ Download \/ CancelDownload
    \/ ChooseFile \/ Upload \/ UploadAnswered

TransferSpec == TransferInit /\ [][TransferNext]_transferVars

(****************************************************************************)
(* Properties.                                                              *)
(****************************************************************************)

(* The comments at download.tsx:123 and :175: a download the popover watches *)
(* is called successful only when a remote transfer succeeded after it was   *)
(* asked for, never on the status of an earlier one (unless, before the      *)
(* server answered, it was cancelled or polling began, as it does when the   *)
(* popover is reopened or an earlier cancellation is refused; or it is an    *)
(* upload whose answer says so).                                             *)
NewSuccess ==
    shown' = "success" /\ shown = "in_progress" /\ remote /\ ~early /\ upload' = upload => arrived
SuccessIsNew == [][NewSuccess]_transferVars

================================================================================
