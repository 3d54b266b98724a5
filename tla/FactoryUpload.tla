---------------------------- MODULE FactoryUpload ----------------------------
(***************************************************************************)
(* The upload of a completed test result over the M5FACTORY serial         *)
(* protocol: src/src/platform/factory_upload_service.cpp (queue on the     *)
(* user-interface thread, run() on the worker thread), the polling result  *)
(* page of src/src/view/screens/test_result_page.cpp, and, as environment, *)
(* the USB link and the lower device.                                      *)
(*                                                                         *)
(* A worker step is what the code does between two points where another    *)
(* thread or the device can be seen: one locked section, one serial call   *)
(* or one received line.  Uploads are numbered; a number stands for the    *)
(* payload.  Lines on the wire carry no number, as ACK_RESULT names none.  *)
(* A deadline is a timer that is off, running or due.  Wording of the      *)
(* messages is left out, and the revision counter is kept as "unseen":     *)
(* whether it differs from the revision the page saw last.                 *)
(***************************************************************************)
EXTENDS Naturals, Sequences, FiniteSets

CONSTANTS
  MaxUploads,       (* bound: uploads the user asks for                     *)
  MaxWire,          (* bound: lines from the device not yet read            *)
  MaxWithFaults     (* bound: uploads in a behaviour whose handshakes may   *)
                    (* be bad, or their ACK fail                            *)

ASSUME UploadBounds ==
  {MaxUploads, MaxWire, MaxWithFaults} \subseteq Nat /\ MaxWithFaults <= MaxUploads

None == 0                      (* no payload                                *)
Uploads == 1..MaxUploads

VARIABLES
  (* shared, under the mutex                                                *)
  snapshot,        (* snapshot.state                                        *)
  unseen,          (* snapshot.revision # last_upload_revision_             *)
  pending,         (* pending_payload                                       *)
  request_active,  (* request_active                                        *)
  stop_requested,  (* stop_requested                                        *)
  (* the worker                                                             *)
  pc,              (* where run() is                                        *)
  publishing,      (* the state the next publish() will write               *)
  link,            (* the open session: none, live, or dead (device gone)   *)
  lines,           (* received and not yet handled in this round            *)
  handshaked,      (* handshaked                                            *)
  active,          (* active_payload                                        *)
  waiting,         (* waiting_result_ack                                    *)
  timer,           (* pending_, request_ and result_deadline                *)
  (* the result page                                                        *)
  upload_requested,(* upload_requested_                                     *)
  uploads,         (* uploads asked for so far                              *)
  told,            (* what the page told the user of its last upload        *)
  (* the environment                                                        *)
  plugged,         (* the device is on the bus                              *)
  wire,            (* lines sent by the device, not yet read                *)
  written,         (* the upload in the last RESULT line written in full    *)
  inbox,           (* how many RESULT lines the device has not answered     *)
  bad_handshakes   (* whether, in this behaviour, a handshake may fail      *)

shared == <<snapshot, unseen, pending, request_active, stop_requested>>
local  == <<publishing, link, lines, handshaked, active, waiting>>
page   == <<upload_requested, uploads, told>>
device == <<plugged, written, inbox, bad_handshakes>>
vars   == <<shared, pc, local, timer, page, device, wire>>

Lines == {"FACTORY", "FACTORY_BAD", "ACK_SAVED", "ACK_NOT_SAVED", "ACK_BAD"}
Terminal(s) == s \in {"SUCCEEDED", "FAILED"}
Publishable == {"SEARCHING", "WAITING_HANDSHAKE", "READY", "SENDING",
                "WAITING_RESULT_ACK"}
States == Publishable \cup {"UNAVAILABLE", "QUEUED", "SUCCEEDED", "FAILED"}
Timers == {"pending", "request", "result"}

-----------------------------------------------------------------------------
(* set_snapshot_locked: a new revision unless nothing changes.             *)
SetSnapshot(s) ==
  /\ snapshot' = s
  /\ unseen' = (unseen \/ s # snapshot)

(* Mutant: the final state is no new revision.                             *)
FinishUnnoticed(s) ==
  /\ request_active' = FALSE
  /\ snapshot' = s
  /\ UNCHANGED unseen

(* finish_request *)
FinishRequest(s) ==
  /\ request_active' = FALSE
  /\ SetSnapshot(s)

Arm(t) == timer' = [timer EXCEPT ![t] = "running"]
Due(t) == timer[t] = "due"

(* The worker moves on to p.                                               *)
Goto(p) == pc' = p

-----------------------------------------------------------------------------
(* The user-interface thread.                                              *)

UploadBound == IF bad_handshakes THEN MaxWithFaults ELSE MaxUploads

(* start_upload_ -> upload_test_result -> queue, for a payload that fits a *)
(* protocol line and a listener that is online.                            *)
StartUpload ==
  /\ pc # "done"
  /\ pending = None /\ ~request_active
  /\ uploads < UploadBound
  /\ uploads' = uploads + 1
  /\ pending' = uploads + 1
  /\ request_active' = TRUE
  /\ Arm("pending")
  /\ SetSnapshot("QUEUED")
  /\ upload_requested' = TRUE
  /\ told' = "uploading"
  /\ UNCHANGED <<stop_requested, pc, local, device, wire>>

(* refresh_upload_, on the page's timer.                                   *)
RefreshUpload ==
  /\ unseen
  /\ unseen' = FALSE
  /\ IF ~upload_requested \/ snapshot = "READY"
     THEN UNCHANGED <<upload_requested, told>>
     ELSE /\ upload_requested' = ~(Terminal(snapshot) \/ snapshot = "UNAVAILABLE")
          /\ told' = CASE snapshot = "SUCCEEDED" -> "uploaded"
                       [] snapshot \in {"FAILED", "UNAVAILABLE"} -> "failed"
                       [] OTHER -> "uploading"
  /\ UNCHANGED <<snapshot, pending, request_active, stop_requested, pc, local,
                 timer, uploads, device, wire>>

(* The result page is left and built again: it starts from the revision of *)
(* the moment and has asked for nothing.                                   *)
ReopenPage ==
  /\ unseen' = FALSE
  /\ upload_requested' = FALSE
  /\ told' = "nothing"
  /\ UNCHANGED <<snapshot, pending, request_active, stop_requested, pc, local,
                 timer, uploads, device, wire>>

(* stop_worker, before it joins the worker.                                *)
Stop ==
  /\ ~stop_requested
  /\ stop_requested' = TRUE
  /\ UNCHANGED <<snapshot, unseen, pending, request_active, pc, local, timer,
                 page, device, wire>>

-----------------------------------------------------------------------------
(* The worker: run(), in the order of its loop.                            *)

(* Mutant: the worker only looks at the stop request between sessions.     *)
TopBetweenSessions ==
  /\ pc = "top"
  /\ Goto(IF link # "none" THEN "heartbeat"
          ELSE IF stop_requested THEN "done" ELSE "discover")
  /\ UNCHANGED <<shared, local, timer, page, device, wire>>

Top ==
  /\ pc = "top"
  /\ Goto(IF stop_requested THEN "done"
          ELSE IF link = "none" THEN "discover" ELSE "heartbeat")
  /\ UNCHANGED <<shared, local, timer, page, device, wire>>

(* The end of a round, wait_for(K_IO_POLL) or wait_for(K_DISCOVERY_RETRY). *)
Wait ==
  /\ pc = "wait"
  /\ Goto("top")
  /\ UNCHANGED <<shared, local, timer, page, device, wire>>

(* No port: expire_pending_request.                                        *)
DiscoverNothing ==
  /\ pc = "discover" /\ ~plugged
  /\ IF pending # None /\ Due("pending")
     THEN /\ pending' = None
          /\ FinishRequest("FAILED")
          /\ Goto("wait")
          /\ UNCHANGED publishing
     ELSE /\ Goto("unless_terminal")
          /\ publishing' = "SEARCHING"
          /\ UNCHANGED <<pending, request_active, snapshot, unseen>>
  /\ UNCHANGED <<stop_requested, link, lines, handshaked, active, waiting,
                 timer, page, device, wire>>

(* A port that cannot be opened, or was gone when opened:                  *)
(* fail_pending_request.                                                   *)
OpenFails ==
  /\ pc = "discover"
  /\ IF pending # None
     THEN /\ pending' = None
          /\ FinishRequest("FAILED")
          /\ Goto("wait")
          /\ UNCHANGED publishing
     ELSE /\ Goto("unless_terminal")
          /\ publishing' = "SEARCHING"
          /\ UNCHANGED <<pending, request_active, snapshot, unseen>>
  /\ UNCHANGED <<stop_requested, link, lines, handshaked, active, waiting,
                 timer, page, device, wire>>

OpenPort ==
  /\ pc = "discover" /\ plugged
  /\ link' = "live"
  /\ handshaked' = FALSE
  /\ waiting' = FALSE
  /\ lines' = <<>>
  /\ Goto("unless_terminal")
  /\ publishing' = "WAITING_HANDSHAKE"
  /\ UNCHANGED <<shared, active, timer, page, device, wire>>

(* Where run() goes after an "if not terminal, publish" that was begun in  *)
(* state s.                                                                *)
AfterPublishing(s) ==
  CASE s = "WAITING_HANDSHAKE" -> "take"
    [] s = "READY"             -> "lines"
    [] s = "SEARCHING"         -> IF link = "none" THEN "wait" ELSE "top"

(* Mutant: a state is published over a verdict.                            *)
AlwaysPublish ==
  /\ pc = "unless_terminal"
  /\ Goto("publish")
  /\ UNCHANGED <<shared, local, timer, page, device, wire>>

(* has_terminal_upload_snapshot, a locked section before that of publish.  *)
UnlessTerminal ==
  /\ pc = "unless_terminal"
  /\ Goto(IF Terminal(snapshot) THEN AfterPublishing(publishing) ELSE "publish")
  /\ UNCHANGED <<shared, local, timer, page, device, wire>>

Publish ==
  /\ pc = "publish"
  /\ SetSnapshot(publishing)
  /\ Goto(AfterPublishing(publishing))
  /\ UNCHANGED <<pending, request_active, stop_requested, local, timer, page,
                 device, wire>>

(* session->close, and what the code resets with it.                       *)
CloseSession ==
  /\ link' = "none"
  /\ active' = None
  /\ waiting' = FALSE
  /\ lines' = <<>>

(* The link heartbeat, when it is due and finds the device gone or         *)
(* replaced by another instance.                                           *)
HeartbeatLost ==
  /\ pc = "heartbeat" /\ link = "dead"
  /\ CloseSession
  /\ handshaked' = FALSE
  /\ IF active # None \/ waiting
     THEN /\ FinishRequest("FAILED")
          /\ Goto("top")
          /\ UNCHANGED publishing
     ELSE /\ Goto("unless_terminal")
          /\ publishing' = "SEARCHING"
          /\ UNCHANGED <<request_active, snapshot, unseen>>
  /\ UNCHANGED <<pending, stop_requested, timer, page, device, wire>>

(* The heartbeat is not due, or finds the same instance.                   *)
HeartbeatPasses ==
  /\ pc = "heartbeat"
  /\ Goto("take")
  /\ UNCHANGED <<shared, local, timer, page, device, wire>>

(* Mutant: the payload that is taken stays in the queue.                   *)
TakePendingCopies ==
  /\ pc = "take"
  /\ IF active = None /\ pending # None
     THEN active' = pending /\ Arm("request")
     ELSE UNCHANGED <<active, timer>>
  /\ Goto("read")
  /\ UNCHANGED <<shared, publishing, link, lines, handshaked, waiting, page,
                 device, wire>>

(* take_pending_payload *)
TakePending ==
  /\ pc = "take"
  /\ IF active = None /\ pending # None
     THEN /\ active' = pending
          /\ pending' = None
          /\ Arm("request")
     ELSE UNCHANGED <<active, pending, timer>>
  /\ Goto("read")
  /\ UNCHANGED <<snapshot, unseen, request_active, stop_requested, publishing,
                 link, lines, handshaked, waiting, page, device, wire>>

Read ==
  /\ pc = "read"
  /\ lines' = wire
  /\ wire' = <<>>
  /\ Goto("lines")
  /\ UNCHANGED <<shared, publishing, link, handshaked, active, waiting, timer,
                 page, device>>

(* read_available reports an error; what it had read is dropped.           *)
ReadFails ==
  /\ pc = "read"
  /\ CloseSession
  /\ IF active # None \/ waiting
     THEN FinishRequest("FAILED")
     ELSE UNCHANGED <<request_active, snapshot, unseen>>
  /\ Goto("top")
  /\ wire' = <<>>
  /\ UNCHANGED <<pending, stop_requested, publishing, handshaked, timer, page,
                 device>>

NextLine(l) == pc = "lines" /\ lines # <<>> /\ Head(lines) = l /\ lines' = Tail(lines)

(* A handshake line that is answered.                                      *)
Handshake ==
  /\ NextLine("FACTORY")
  /\ handshaked' = TRUE
  /\ IF active = None /\ ~waiting
     THEN Goto("unless_terminal") /\ publishing' = "READY"
     ELSE UNCHANGED <<pc, publishing>>
  /\ UNCHANGED <<shared, link, active, waiting, timer, page, device, wire>>

(* send_handshake_ack fails: the line is not a valid handshake, or the ACK *)
(* cannot be written.  waiting_result_ack keeps its value.                 *)
HandshakeFails ==
  /\ bad_handshakes
  /\ \/ NextLine("FACTORY")
     \/ NextLine("FACTORY_BAD")
  /\ IF active # None
     THEN FinishRequest("FAILED") /\ active' = None
     ELSE UNCHANGED <<active, request_active, snapshot, unseen>>
  /\ UNCHANGED <<pending, stop_requested, pc, publishing, link, handshaked,
                 waiting, timer, page, device, wire>>

(* Mutant: an ACK nobody waits for counts.                                 *)
ResultAckUnasked(l) ==
  /\ l \in {"ACK_SAVED", "ACK_NOT_SAVED", "ACK_BAD"}
  /\ NextLine(l)
  /\ FinishRequest(IF l = "ACK_SAVED" THEN "SUCCEEDED" ELSE "FAILED")
  /\ waiting' = FALSE
  /\ active' = None
  /\ UNCHANGED <<pending, stop_requested, pc, publishing, link, handshaked,
                 timer, page, device, wire>>

(* ACK_RESULT *)
ResultAck(l) ==
  /\ l \in {"ACK_SAVED", "ACK_NOT_SAVED", "ACK_BAD"}
  /\ NextLine(l)
  /\ IF waiting
     THEN /\ FinishRequest(IF l = "ACK_SAVED" THEN "SUCCEEDED" ELSE "FAILED")
          /\ waiting' = FALSE
          /\ active' = None
     ELSE UNCHANGED <<request_active, snapshot, unseen, waiting, active>>
  /\ UNCHANGED <<pending, stop_requested, pc, publishing, link, handshaked,
                 timer, page, device, wire>>

(* After the lines: send, or look at the deadlines, or neither.            *)
StartSending ==
  /\ pc = "lines" /\ lines = <<>>
  /\ active # None /\ ~waiting /\ handshaked
  /\ SetSnapshot("SENDING")
  /\ Goto("send")
  /\ UNCHANGED <<pending, request_active, stop_requested, local, timer, page,
                 device, wire>>

(* write_text of the RESULT line.  The device may have received the line   *)
(* although the write is reported as failed, or not received it although   *)
(* it is reported as written.                                              *)
Received ==
  inbox' = IF link = "live" THEN inbox + 1 ELSE inbox

Send ==
  /\ pc = "send"
  /\ Received \/ UNCHANGED inbox
  /\ written' = active
  /\ waiting' = TRUE
  /\ Arm("result")
  /\ Goto("sent")
  /\ UNCHANGED <<shared, publishing, link, lines, handshaked, active, page,
                 plugged, bad_handshakes, wire>>

(* The second publish, after a successful write.                           *)
Sent ==
  /\ pc = "sent"
  /\ SetSnapshot("WAITING_RESULT_ACK")
  /\ Goto("wait")
  /\ UNCHANGED <<pending, request_active, stop_requested, local, timer, page,
                 device, wire>>

SendFails ==
  /\ pc = "send"
  /\ Received \/ UNCHANGED inbox
  /\ FinishRequest("FAILED")
  /\ active' = None
  /\ Goto("wait")
  /\ UNCHANGED <<pending, stop_requested, publishing, link, lines, handshaked,
                 waiting, timer, page, plugged, written,
                 bad_handshakes, wire>>

Deadlines ==
  /\ pc = "lines" /\ lines = <<>>
  /\ ~(active # None /\ ~waiting /\ handshaked)
  /\ IF \/ active # None /\ ~waiting /\ Due("request")
        \/ waiting /\ Due("result")
     THEN /\ FinishRequest("FAILED")
          /\ active' = None
          /\ waiting' = FALSE
     ELSE UNCHANGED <<request_active, snapshot, unseen, active, waiting>>
  /\ Goto("wait")
  /\ UNCHANGED <<pending, stop_requested, publishing, link, lines, handshaked,
                 timer, page, device, wire>>

-----------------------------------------------------------------------------
(* Time, the link and the lower device.                                    *)

Elapse(t) ==
  /\ timer[t] = "running"
  /\ timer' = [timer EXCEPT ![t] = "due"]
  /\ UNCHANGED <<shared, pc, local, page, device, wire>>

Plug ==
  /\ ~plugged
  /\ plugged' = TRUE
  /\ UNCHANGED <<shared, pc, local, timer, page, written, inbox, bad_handshakes, wire>>

(* What is on the wire is lost; what the device received it still has.     *)
Unplug ==
  /\ plugged
  /\ plugged' = FALSE
  /\ wire' = <<>>
  /\ link' = IF link = "live" THEN "dead" ELSE link
  /\ UNCHANGED <<shared, pc, publishing, lines, handshaked, active, waiting,
                 timer, page, written, inbox, bad_handshakes>>

(* The device sends a line; only an open port receives it.                 *)
DeviceSends(l) ==
  /\ link = "live" /\ Len(wire) < MaxWire
  /\ wire' = Append(wire, l)

(* A handshake.                                                            *)
DeviceHandshake(l) ==
  /\ l \in {"FACTORY"} \cup (IF bad_handshakes THEN {"FACTORY_BAD"} ELSE {})
  /\ DeviceSends(l)
  /\ UNCHANGED <<shared, pc, local, timer, page, device>>

(* The answer to a RESULT line: stored, refused, or not understandable.    *)
DeviceAnswer(l) ==
  /\ inbox > 0
  /\ l \in {"ACK_SAVED", "ACK_NOT_SAVED", "ACK_BAD"}
  /\ DeviceSends(l)
  /\ inbox' = inbox - 1
  /\ UNCHANGED <<shared, pc, local, timer, page, plugged, written, bad_handshakes>>

-----------------------------------------------------------------------------
Init ==
  /\ snapshot = "UNAVAILABLE" /\ unseen = FALSE
  /\ pending = None /\ request_active = FALSE /\ stop_requested = FALSE
  /\ pc = "top" /\ publishing = "SEARCHING"
  /\ link = "none" /\ lines = <<>>
  /\ handshaked = FALSE /\ active = None /\ waiting = FALSE
  /\ timer = [t \in Timers |-> "off"]
  /\ upload_requested = FALSE /\ uploads = 0 /\ told = "nothing"
  /\ plugged \in BOOLEAN /\ wire = <<>> /\ inbox = 0
  /\ bad_handshakes \in BOOLEAN
  /\ written = None

Worker ==
  \/ Top \/ Wait \/ DiscoverNothing \/ OpenFails \/ OpenPort
  \/ UnlessTerminal \/ Publish \/ HeartbeatLost \/ HeartbeatPasses
  \/ TakePending \/ Read \/ ReadFails
  \/ Handshake \/ HandshakeFails \/ \E l \in Lines : ResultAck(l)
  \/ StartSending \/ Send \/ Sent \/ SendFails \/ Deadlines

Environment ==
  \/ Plug \/ Unplug
  \/ \E l \in Lines : DeviceHandshake(l) \/ DeviceAnswer(l)

Next ==
  \/ StartUpload \/ RefreshUpload \/ ReopenPage \/ Stop
  \/ Worker
  \/ \E t \in Timers : Elapse(t)
  \/ Environment

Spec == Init /\ [][Next]_vars

(* The worker is a thread that is always scheduled and whose waits are all *)
(* timed; clocks advance; the page's timer fires as long as the page is    *)
(* shown.  Nothing is assumed of the device, the link or the user.         *)
Fairness ==
  /\ WF_vars(Worker)
  /\ \A t \in Timers : WF_vars(Elapse(t))
  /\ WF_vars(RefreshUpload)

FairSpec == Spec /\ Fairness

-----------------------------------------------------------------------------
(* Every variable has its type.                                            *)
TypeOK ==
  /\ snapshot \in States /\ publishing \in Publishable
  /\ {unseen, request_active, stop_requested, handshaked, waiting,
      upload_requested, plugged, bad_handshakes} \subseteq BOOLEAN
  /\ {pending, active, uploads, written} \subseteq Uploads \cup {None}
  /\ pc \in {"top", "wait", "discover", "unless_terminal", "publish",
             "heartbeat", "take", "read", "lines", "send", "sent", "done"}
  /\ link \in {"none", "live", "dead"}
  /\ lines \in Seq(Lines) /\ wire \in Seq(Lines) /\ inbox \in 0..MaxUploads
  /\ timer \in [Timers -> {"off", "running", "due"}]
  /\ told \in {"nothing", "uploading", "uploaded", "failed"}

(* HandshakeFails forgets the payload but not waiting_result_ack, so a late *)
(* ACK gives another verdict (SuccessWasSent, below).  What else the       *)
(* service promises of its verdicts is stated for good handshakes; that it *)
(* gives one, and ends, for all.                                           *)
HandshakesGood == ~bad_handshakes

(* request_active, under the mutex, is true exactly while a payload is in  *)
(* the queue or in the hands of the worker: no refused upload without a    *)
(* running one, and never two at a time.                                   *)
OneRequest ==
  HandshakesGood =>
    /\ request_active <=> (pending # None \/ active # None)
    /\ pending = None \/ active = None

(* A verdict the page shows is the verdict of the upload it asked for,     *)
(* and the service has not changed its mind since.                         *)
PageTellsTheVerdict ==
  HandshakesGood =>
    /\ told = "uploaded" => ~request_active /\ snapshot = "SUCCEEDED"
    /\ told = "failed"   => ~request_active /\ snapshot = "FAILED"

(* A verdict stays until the next upload is queued: no search, handshake   *)
(* or publish that was under way overwrites it.                            *)
VerdictSticky ==
  [][ HandshakesGood /\ Terminal(snapshot) => snapshot' \in {snapshot, "QUEUED"} ]_snapshot

(* The page says "uploaded" only of an upload whose RESULT line was        *)
(* written to the device: no ACK of an earlier upload, or of none, counts. *)
Success == snapshot # "SUCCEEDED" /\ snapshot' = "SUCCEEDED"
SuccessWasSent == [][ Success => written = uploads ]_snapshot

(* The same where the handshakes are good.                                 *)
GoodSuccessWasSent == [][ HandshakesGood /\ Success => written = uploads ]_snapshot

(* A verdict stays until the next upload, and one of success is about it.  *)
VerdictsHold == VerdictSticky /\ GoodSuccessWasSent

(* Every upload that is queued gets its verdict, whatever the device does, *)
(* and the page that asked tells it, unless the program stops.             *)
PageIsAnswered == upload_requested ~> (~upload_requested \/ stop_requested)

(* The worker ends after stop(), so that the join does not hang.           *)
StopEnds == stop_requested ~> pc = "done"

(* The service's state and what the page made of it agree.                 *)
Inv == TypeOK /\ OneRequest /\ PageTellsTheVerdict
=============================================================================
