------------------------------ MODULE LinkTest ------------------------------
(***************************************************************************)
(* The network link test: link_service.cpp as functions of what the system *)
(* answers, LinkConnectivityModel, which keeps one result and at most one  *)
(* asynchronous test, and link_page.cpp, which shows the result, lets the  *)
(* user start again or change the iperf server, and records the result as  *)
(* evidence of the current test attempt.                                   *)
(*                                                                         *)
(* A running test is not cancelled: not by leaving the page, not by a      *)
(* restart, which only begins a new attempt while one runs.  So a result   *)
(* may serve an attempt that did not start its test; "own" says whether    *)
(* it was started for the attempt that is current.                         *)
(***************************************************************************)
EXTENDS Integers, Sequences

CONSTANTS
  Hosts, DefaultHost,                      (* iperf servers; "" is never one of them   *)
  LinkSeen,                                (* what the system may answer               *)
  WifiMinimum, EthernetMinimum             (* Mbps                                     *)

VARIABLES
  view,                                    (* the page: "gone", "open", "dialog"       *)
  in_sequence,                             (* a full test is under way                 *)
  test,                                    (* the model's task                         *)
  snapshot, settings,                      (* of the model                             *)
  saved_host,                              (* of the configuration store               *)
  text,                                    (* of the dialog                            *)
  drawn, recorded,                         (* of the page                              *)
  attempt,                                 (* evidence of the attempt: a result's      *)
                                           (* metrics, all idle when there is none     *)
  inherits                                 (* the attempt began over an older test     *)

linkVars == <<view, in_sequence, test, snapshot, settings, saved_host, text, drawn, recorded,
              attempt, inherits>>

(* Assumed by IoPages, which has the constants.                             *)
LinkAssumption ==
  /\ DefaultHost \in Hosts /\ "" \notin Hosts
  /\ WifiMinimum \in Nat /\ EthernetMinimum \in Nat
  /\ \A w \in LinkSeen : Len(w.report) \in Nat /\ DOMAIN w.report = 1 .. Len(w.report)

-----------------------------------------------------------------------------
(* link_service.cpp.                                                       *)

(* active_nm_interface, active_nm_wifi_interface: a device of the kind     *)
(* that is activated, has a name and, for Wi-Fi, an access point.          *)
ActiveNmInterface(w, wireless) ==
  \E d \in w.devices : d.wireless = wireless /\ d.activated /\ (wireless => d.ap)

(* active_sysfs_interface: one that is up and, for Wi-Fi, has quality.     *)
ActiveSysfsInterface(w, wireless) ==
  \E n \in w.net : n.wireless = wireless /\ n.up /\ (wireless => n.quality)

(* active_link_interface: the second is asked when the first knows none.   *)
ActiveLinkInterface(w, wireless) ==
  ActiveNmInterface(w, wireless) \/ ActiveSysfsInterface(w, wireless)

Metric(status, value) == [status |-> status, value |-> value]
FailedMetric == Metric("FAILED", 0)

(* run_internet_test: the first of the three DNS services that answers.    *)
RunInternetTest(w) ==
  LET answers == {i \in DOMAIN w.endpoints : w.endpoints[i].ok /\ w.endpoints[i].elapsed >= 0}
  IN IF answers = {} THEN FailedMetric
     ELSE LET i == CHOOSE j \in answers : \A k \in answers : j <= k
          IN Metric("SUCCESS", w.endpoints[i].elapsed)

(* parse_json_bps_after: iperf's report is searched as a text, here the    *)
(* sequence of its keys: the first rate after the first such section.      *)
BpsAfter(doc, section) ==
  LET from  == {i \in DOMAIN doc : doc[i].key = section}
      start == CHOOSE i \in from : \A j \in from : i <= j
      rates == {i \in DOMAIN doc : doc[i].key = "rate" /\ i > start}
      first == CHOOSE i \in rates : \A j \in rates : i <= j
  IN IF from = {} \/ rates = {} THEN -1 ELSE doc[first].value

(* Mutant: what was sent, not what arrived.                                *)
IperfBpsSent(doc) ==
  IF BpsAfter(doc, "sum_sent") >= 0 THEN BpsAfter(doc, "sum_sent")
  ELSE BpsAfter(doc, "sum_received")

(* parse_iperf_json_bps: what was received, else what was sent, else the   *)
(* last rate before one that is not a number; -1 is none.                  *)
IperfBps(doc) ==
  LET rates == {i \in DOMAIN doc : doc[i].key = "rate"}
      good  == {i \in rates : \A j \in rates : j <= i => doc[j].value >= 0}
      last  == CHOOSE i \in good : \A j \in good : j <= i
  IN IF BpsAfter(doc, "sum_received") >= 0 THEN BpsAfter(doc, "sum_received")
     ELSE IF BpsAfter(doc, "sum_sent") >= 0 THEN BpsAfter(doc, "sum_sent")
     ELSE IF good = {} THEN -1 ELSE doc[last].value

(* run_iperf_for_interface: a rate that is too low is a failure that keeps *)
(* its value.                                                              *)
RunIperf(w, host, wireless) ==
  LET rate == IperfBps(w.report)
      minimum == IF wireless THEN WifiMinimum ELSE EthernetMinimum
  IN IF ~ActiveLinkInterface(w, wireless) \/ host \notin w.servers \/ rate < 0 THEN FailedMetric
     ELSE Metric(IF rate > 0 /\ rate >= minimum THEN "SUCCESS" ELSE "FAILED", rate)

(* run_link_test: one after the other.                                     *)
RunLinkTest(w, host) ==
  [internet |-> RunInternetTest(w), wifi |-> RunIperf(w, host, TRUE),
   ethernet |-> RunIperf(w, host, FALSE)]

-----------------------------------------------------------------------------
(* The model.                                                              *)

All(status) == [internet |-> Metric(status, 0), wifi |-> Metric(status, 0),
                ethernet |-> Metric(status, 0)]
NoEvidence == All("IDLE")
NoTest == [phase |-> "none", host |-> DefaultHost, own |-> FALSE, metrics |-> All("IDLE")]

(* Takes the result of a test that is ready, with the settings it was      *)
(* started with; then starts one if it is forced or none has ever run.     *)
TakenSnapshot ==
  IF test.phase = "done"
  THEN [running |-> FALSE, host |-> test.host, metrics |-> test.metrics, own |-> test.own]
  ELSE snapshot

StartsTest(force) ==
  /\ test.phase # "running"
  /\ force \/ TakenSnapshot.metrics.internet.status = "IDLE"

(* LinkConnectivityModel::refresh; "new" is a new attempt of the page.     *)
RefreshLink(force, new) ==
  IF StartsTest(force)
  THEN /\ test' = [phase |-> "running", host |-> settings, own |-> TRUE, metrics |-> All("IDLE")]
       /\ snapshot' = [running |-> TRUE, host |-> settings, metrics |-> All("RUNNING"),
                       own |-> TRUE]
  ELSE /\ test' = [(IF test.phase = "done" THEN NoTest ELSE test) EXCEPT !.own = @ /\ ~new]
       /\ snapshot' = [TakenSnapshot EXCEPT !.own = @ /\ ~new]

-----------------------------------------------------------------------------
(* The page.                                                               *)

(* rebuild_link_panel: the rows show the snapshot.                         *)
RebuildLinkPanel == drawn' = snapshot'

(* Mutant: the metrics are recorded although the test still runs.          *)
RecordWhileRunning(begun) ==
  LET before == IF begun THEN FALSE ELSE recorded
      due    == ~before /\ snapshot'.metrics.internet.status # "IDLE"
  IN /\ recorded' = (before \/ (due /\ in_sequence))
     /\ attempt' = IF due /\ in_sequence THEN snapshot'.metrics
                   ELSE IF begun THEN NoEvidence ELSE attempt

(* Mutant: only a link that works is recorded.                             *)
RecordSuccess(begun) ==
  LET before == IF begun THEN FALSE ELSE recorded
      due    == ~before /\ ~snapshot'.running /\ snapshot'.metrics.internet.status = "SUCCESS"
  IN /\ recorded' = (before \/ (due /\ in_sequence))
     /\ attempt' = IF due /\ in_sequence THEN snapshot'.metrics
                   ELSE IF begun THEN NoEvidence ELSE attempt

(* record_evidence_: once an attempt, when there is a result.              *)
RecordEvidence(begun) ==
  LET before == IF begun THEN FALSE ELSE recorded
      due    == ~before /\ ~snapshot'.running /\ snapshot'.metrics.internet.status # "IDLE"
  IN /\ recorded' = (before \/ (due /\ in_sequence))
     /\ attempt' = IF due /\ in_sequence THEN snapshot'.metrics
                   ELSE IF begun THEN NoEvidence ELSE attempt

(* The page is built: an attempt begins, the model is refreshed, drawn and *)
(* recorded, which for a second visit is the result of the first.          *)
OpenLink ==
  /\ view = "gone" /\ view' = "open"
  /\ inherits' = (test.phase # "none" \/ snapshot.metrics.internet.status # "IDLE")
  /\ RefreshLink(FALSE, TRUE)
  /\ RebuildLinkPanel
  /\ RecordEvidence(TRUE)
  /\ UNCHANGED <<in_sequence, settings, saved_host, text>>

(* The timer, which is paused while the dialog is open: refresh_.          *)
PollLink ==
  /\ view = "open"
  /\ RefreshLink(FALSE, FALSE)
  /\ RebuildLinkPanel
  /\ RecordEvidence(FALSE)
  /\ UNCHANGED <<view, in_sequence, settings, saved_host, text, inherits>>

(* The model with the settings of the dialog: set_settings.                *)
WithSettings(host) == [snapshot EXCEPT !.host = host]

(* restart: a new attempt; a test that runs goes on and will serve it, and *)
(* an answer that was waiting is replaced by the test that is started.     *)
Restart ==
  /\ view = "open"
  /\ inherits' = (test.phase = "running")
  /\ recorded' = FALSE /\ attempt' = NoEvidence
  /\ RefreshLink(TRUE, TRUE)
  /\ RebuildLinkPanel
  /\ UNCHANGED <<view, in_sequence, settings, saved_host, text>>

ShowDialog ==
  /\ view = "open" /\ view' = "dialog"
  /\ text' = settings
  /\ UNCHANGED <<in_sequence, test, snapshot, settings, saved_host, drawn, recorded, attempt, inherits>>

(* append_dialog_char_, delete: the text becomes another one, or empty.    *)
EditDialog ==
  /\ view = "dialog"
  /\ text' \in (Hosts \cup {""}) \ {text}
  /\ UNCHANGED <<view, in_sequence, test, snapshot, settings, saved_host, drawn, recorded, attempt, inherits>>

CancelDialog ==
  /\ view = "dialog" /\ view' = "open" /\ text' = ""
  /\ UNCHANGED <<in_sequence, test, snapshot, settings, saved_host, drawn, recorded, attempt, inherits>>

(* apply_config_dialog_: set_settings, set_iperf_settings, hide, restart.  *)
ApplyDialog ==
  LET host == IF text = "" THEN DefaultHost ELSE text
  IN /\ view = "dialog" /\ view' = "open" /\ text' = ""
     /\ settings' = host /\ saved_host' = host
     /\ recorded' = FALSE /\ attempt' = NoEvidence
     /\ inherits' = (test.phase = "running")
     /\ IF test.phase = "running"
        THEN /\ test' = [test EXCEPT !.own = FALSE]
             /\ snapshot' = [WithSettings(host) EXCEPT !.own = FALSE]
        ELSE /\ test' = [phase |-> "running", host |-> host, own |-> TRUE, metrics |-> All("IDLE")]
             /\ snapshot' = [running |-> TRUE, host |-> host, metrics |-> All("RUNNING"), own |-> TRUE]
     /\ RebuildLinkPanel
     /\ UNCHANGED in_sequence

(* The destructor: a dialog goes with the page, the model stays.           *)
LeaveLink ==
  /\ view # "gone" /\ view' = "gone"
  /\ text' = "" /\ recorded' = FALSE /\ inherits' = FALSE
  /\ UNCHANGED <<in_sequence, test, snapshot, settings, saved_host, drawn, attempt>>

(* read_link_test_result returns.                                          *)
LinkFinish ==
  /\ test.phase = "running"
  /\ \E w \in LinkSeen :
       test' = [test EXCEPT !.phase = "done", !.metrics = RunLinkTest(w, test.host)]
  /\ UNCHANGED <<view, in_sequence, snapshot, settings, saved_host, text, drawn, recorded, attempt, inherits>>

LinkInit ==
  /\ view = "gone" /\ in_sequence \in BOOLEAN
  /\ test = NoTest
  /\ snapshot = [running |-> FALSE, host |-> DefaultHost, metrics |-> All("IDLE"), own |-> FALSE]
  /\ settings = DefaultHost /\ saved_host = DefaultHost /\ text = ""
  /\ drawn = snapshot /\ recorded = FALSE /\ attempt = NoEvidence /\ inherits = FALSE

LinkStep == PollLink \/ Restart \/ ShowDialog \/ EditDialog \/ CancelDialog \/ ApplyDialog

-----------------------------------------------------------------------------
(* Properties.                                                             *)

(* refresh, record_evidence_: the result on display says it is running     *)
(* exactly while a test is; the evidence of an attempt is one whole result *)
(* that has ended and is on display, taken with the settings the dialog    *)
(* shows unless the attempt began over an older test; nothing is recorded  *)
(* outside of a sequence.                                                  *)
EvidenceIsOneResult ==
  /\ snapshot.running = (test.phase # "none")
  /\ view # "gone" => drawn = snapshot
  /\ view # "gone" /\ attempt # NoEvidence =>
       /\ recorded /\ in_sequence /\ test.phase = "none"
       /\ attempt = snapshot.metrics
       /\ inherits \/ (snapshot.own /\ snapshot.host = settings)

(* refresh, record_evidence_: a page that stays open has evidence in the   *)
(* end, unless the user starts again and again: a restart that meets an    *)
(* answer not yet taken throws it away.                                    *)
Answered ==
  \/ []<><<Restart \/ ApplyDialog>>_linkVars
  \/ view = "open" /\ in_sequence /\ attempt = NoEvidence ~> view # "open" \/ attempt # NoEvidence

(* run_link_test, parse_iperf_json_bps: a test that ends has measured some *)
(* system: a rate is of an interface that is up and a server that answers, *)
(* of a report with a sum received at its end the rate of the receiver,    *)
(* and it succeeds exactly if it is enough.                                *)
EndsReceived(doc) ==
  /\ Len(doc) > 1 /\ doc[Len(doc)].key = "rate" /\ doc[Len(doc)].value >= 0
  /\ \A i \in DOMAIN doc : doc[i].key = "sum_received" <=> i = Len(doc) - 1
Measured(w, host, wireless, metric) ==
  LET minimum == IF wireless THEN WifiMinimum ELSE EthernetMinimum
  IN metric # FailedMetric =>
       /\ ActiveLinkInterface(w, wireless) /\ host \in w.servers
       /\ EndsReceived(w.report) => metric.value = w.report[Len(w.report)].value
       /\ metric.status = "SUCCESS" <=> metric.value > 0 /\ metric.value >= minimum
LinkMeasured ==
  [][test.phase = "running" /\ test'.phase = "done" =>
       \E w \in LinkSeen : /\ Measured(w, test.host, TRUE, test'.metrics.wifi)
                           /\ Measured(w, test.host, FALSE, test'.metrics.ethernet)]_linkVars
=============================================================================
