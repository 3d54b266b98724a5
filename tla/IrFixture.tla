----------------------------- MODULE IrFixture ------------------------------
(***************************************************************************)
(* The IR fixture test: the worker of ir_fixture_test_model.cpp, which     *)
(* sends its frames, then opens the receiver and waits for the replies     *)
(* F1, F2, ... of the fixture, and the page that starts it, shows what it  *)
(* published and joins it on leaving.                                      *)
(*                                                                         *)
(* The air is an external participant: while the receiver is open any      *)
(* frame may arrive, from the fixture or from another remote control.      *)
(* The deadline passes at any moment of the wait.                          *)
(***************************************************************************)
EXTENDS IrReceiver

CONSTANTS
  TxPackets,    (* K_TX_PACKET_COUNT                                        *)
  RxPackets,    (* K_RX_PACKET_COUNT                                        *)
  MaxRuns       (* how often Enter starts a run                             *)

FixtureAssumption ==
  /\ {TxPackets, RxPackets} \subseteq Nat \ {0} /\ MaxRuns \in Nat
  /\ \A f \in Frames :
       f = [address |-> f.address, command |-> f.command, protocol |-> f.protocol]

VARIABLES
  pc,                 (* the worker's next step, "none" when there is none  *)
  sent,               (* frames sent                                        *)
  received,           (* received_count                                     *)
  late,               (* the deadline has passed                            *)
  cancel_requested,
  run,                (* the published snapshot: state and items            *)
  cause,              (* and what error_message says                        *)
  displayed,          (* what the page shows of it, and whether its         *)
  stale,              (* revision is older than the snapshot's              *)
  page,               (* open, restarting or leaving (both join), closed    *)
  runs

worker    == <<pc, sent, received, late>>
published == <<run, cause, stale>>
vars == <<receiver, worker, cancel_requested, published, displayed, page, runs>>

Reply(i) == [address |-> "fixture", command |-> i, protocol |-> "NEC32"]

-----------------------------------------------------------------------------
(* What the worker publishes, each under the mutex and with a new revision.*)

Publish(state, tx, rx) ==
  /\ run' = [state |-> state, tx |-> tx, rx |-> rx]
  /\ stale' = TRUE

(* Mutant: an item that was running is left as it is.                      *)
FailItemOnly(item, why) ==
  /\ run' = [[run EXCEPT !.state = "FAILED"] EXCEPT ![item] = "FAILED"]
  /\ stale' = TRUE
  /\ cause' = why
  /\ pc' = "return"

(* fail_: with the item, whatever was running has failed.                  *)
Fail(item, why) ==
  /\ run' = [i \in DOMAIN run |->
               IF i \in {"state", item} \/ run[i] = "RUNNING" THEN "FAILED" ELSE run[i]]
  /\ stale' = TRUE
  /\ cause' = why
  /\ pc' = "return"

Canceled ==
  /\ run' = [run EXCEPT !.state = "CANCELED"]
  /\ stale' = TRUE
  /\ pc' = "return"
  /\ UNCHANGED cause

-----------------------------------------------------------------------------
(* The worker, run_.                                                       *)

Check ==
  /\ pc = "check"
  /\ \/ Fail("tx", "unavailable")
     \/ Fail("rx", "unavailable")
     \/ pc' = "send" /\ UNCHANGED published
  /\ UNCHANGED <<receiver, sent, received, late>>

(* One pass of the loop: the frame is sent, and all but the last are       *)
(* followed by a pause.                                                    *)
Send ==
  /\ pc = "send"
  /\ IF cancel_requested THEN Canceled /\ UNCHANGED sent
     ELSE \/ Fail("tx", "send") /\ UNCHANGED sent
          \/ /\ sent' = sent + 1
             /\ pc' = IF sent' < TxPackets THEN "pause" ELSE "open"
             /\ stale' = TRUE
             /\ UNCHANGED <<run, cause>>
  /\ UNCHANGED <<receiver, received, late>>

Pause ==
  /\ pc = "pause"
  /\ IF cancel_requested THEN Canceled ELSE pc' = "send" /\ UNCHANGED published
  /\ UNCHANGED <<receiver, sent, received, late>>

OpenReceiver ==
  /\ pc = "open"
  /\ \/ cancel_requested /\ Canceled /\ UNCHANGED receiver
     \/ /\ ~cancel_requested /\ StartSession("fixture", TRUE)
        /\ pc' = "listen" /\ UNCHANGED cause
        /\ Publish("RUNNING", run.tx, "RUNNING")
     \/ ~cancel_requested /\ StartSession("fixture", FALSE) /\ Fail("rx", "unavailable")
  /\ UNCHANGED <<sent, received, late>>

(* The reply the worker waits for.                                         *)
ExpectedReply(f) == f.protocol = "NEC32" /\ f.command = received + 1

(* Mutant: the deadline is forgotten.                                      *)
UntilComplete == ~cancel_requested /\ received < RxPackets

Listening == ~cancel_requested /\ ~late /\ received < RxPackets

Listen ==
  /\ pc = "listen" /\ Listening
  /\ PollSession
  /\ LET reply == snapshot'.changed /\ snapshot'.matched
     IN \/ /\ ~reply
           /\ pc' = "wait" /\ UNCHANGED <<received, published>>
        \/ /\ reply /\ ExpectedReply(snapshot'.frame)
           /\ received' = received + 1
           /\ pc' = IF received' < RxPackets THEN "wait" ELSE "verdict"
           /\ stale' = TRUE /\ UNCHANGED <<run, cause>>
        \/ /\ reply /\ ~ExpectedReply(snapshot'.frame)
           /\ Fail("rx", "reply") /\ UNCHANGED received
  /\ UNCHANGED <<sent, late>>

EndListening ==
  /\ pc = "listen" /\ ~Listening
  /\ pc' = "verdict"
  /\ UNCHANGED <<receiver, sent, received, late, published>>

Wait ==
  /\ pc = "wait"
  /\ pc' = IF cancel_requested THEN "verdict" ELSE "listen"
  /\ UNCHANGED <<receiver, sent, received, late, published>>

Verdict ==
  /\ pc = "verdict"
  /\ IF cancel_requested THEN Canceled
     ELSE IF received # RxPackets THEN Fail("rx", "timeout")
     ELSE Publish("PASSED", "PASSED", "PASSED") /\ pc' = "return" /\ UNCHANGED cause
  /\ UNCHANGED <<receiver, sent, received, late>>

(* The end of run_: the receiver's destructor closes the device.           *)
Return ==
  /\ pc = "return"
  /\ pc' = "none"
  /\ EndSession
  /\ UNCHANGED <<sent, received, late, published>>

Worker ==
  /\ Check \/ Send \/ Pause \/ OpenReceiver \/ Listen \/ EndListening \/ Wait \/ Verdict \/ Return
  /\ UNCHANGED <<cancel_requested, displayed, page, runs>>

Deadline ==
  /\ pc \in {"listen", "wait"} /\ ~late
  /\ late' = TRUE
  /\ UNCHANGED <<receiver, pc, sent, received, cancel_requested, published, displayed, page, runs>>

Air ==
  /\ Hear
  /\ UNCHANGED <<worker, cancel_requested, published, displayed, page, runs>>

-----------------------------------------------------------------------------
(* The page, on the interface's thread.                                    *)

CanStart(state) == state # "RUNNING"

(* Enter: start() cancels and joins whatever is left of the last worker.   *)
Enter ==
  /\ page = "open" /\ CanStart(run.state)
  /\ runs < MaxRuns /\ runs' = runs + 1
  /\ cancel_requested' = TRUE
  /\ page' = "restarting"
  /\ UNCHANGED <<receiver, worker, published, displayed>>

(* Mutant: nobody waits for the last worker.                               *)
StartAtOnce ==
  /\ page = "restarting"
  /\ page' = "open" /\ cancel_requested' = FALSE
  /\ pc' = "check" /\ sent' = 0 /\ received' = 0 /\ late' = FALSE
  /\ Publish("RUNNING", "RUNNING", "PENDING") /\ cause' = "none"
  /\ UNCHANGED <<receiver, displayed, runs>>

Start ==
  /\ page = "restarting" /\ pc = "none"
  /\ page' = "open" /\ cancel_requested' = FALSE
  /\ pc' = "check" /\ sent' = 0 /\ received' = 0 /\ late' = FALSE
  /\ Publish("RUNNING", "RUNNING", "PENDING") /\ cause' = "none"
  /\ UNCHANGED <<receiver, displayed, runs>>

Refresh ==
  /\ page = "open" /\ stale
  /\ displayed' = run /\ stale' = FALSE
  /\ UNCHANGED <<receiver, worker, cancel_requested, run, cause, page, runs>>

(* Back, or the verdict's page change with the destructor.                 *)
Leave ==
  /\ page = "open"
  /\ page' = "leaving" /\ cancel_requested' = TRUE
  /\ UNCHANGED <<receiver, worker, published, displayed, runs>>

Joined ==
  /\ page = "leaving" /\ pc = "none"
  /\ page' = "closed"
  /\ UNCHANGED <<receiver, worker, cancel_requested, published, displayed, runs>>

Idle == [state |-> "WAITING_FOR_FIXTURE", tx |-> "PENDING", rx |-> "PENDING"]

Init ==
  /\ ReceiverInit
  /\ pc = "none" /\ sent = 0 /\ received = 0 /\ late = FALSE
  /\ cancel_requested = FALSE
  /\ run = Idle /\ cause = "none" /\ stale = FALSE
  /\ displayed = Idle /\ page = "open" /\ runs = 0

Next == Worker \/ Deadline \/ Air \/ Enter \/ Start \/ Refresh \/ Leave \/ Joined

(* The thread runs, time passes, and the interface's loop goes on.         *)
Fairness == WF_vars(Worker) /\ WF_vars(Deadline) /\ WF_vars(Start)
            /\ WF_vars(Refresh) /\ WF_vars(Joined)
Spec == Init /\ [][Next]_vars /\ Fairness

-----------------------------------------------------------------------------
(* Type of the worker's and the page's state.                              *)
ItemStates == {"PENDING", "RUNNING", "PASSED", "FAILED"}
RunRecords == [state : {"WAITING_FOR_FIXTURE", "RUNNING", "PASSED", "FAILED", "CANCELED"},
               tx : ItemStates, rx : ItemStates]
TypeOK ==
  /\ pc \in {"none", "check", "send", "pause", "open", "listen", "wait", "verdict", "return"}
  /\ sent \in 0..TxPackets /\ received \in 0..RxPackets
  /\ late \in BOOLEAN /\ cancel_requested \in BOOLEAN /\ stale \in BOOLEAN
  /\ run \in RunRecords /\ displayed \in RunRecords
  /\ cause \in {"none", "unavailable", "send", "reply", "timeout"}
  /\ page \in {"open", "restarting", "leaving", "closed"} /\ runs \in 0..MaxRuns

(* Of the changes heard, the fixture's.                                    *)
FromFixture(s) ==
  LET c == Changes(s)
      own[i \in 0..Len(c)] == IF i = 0 THEN <<>>
                              ELSE IF c[i].address # "fixture" THEN own[i - 1]
                              ELSE Append(own[i - 1], c[i])
  IN own[Len(c)]

(* The test is half-duplex (the first LOG_INFO of run_): nothing is sent   *)
(* while the receiver is open, not by the next run either.                 *)
HalfDuplex == [][sent' > sent => ~fd]_vars

(* An ended run leaves no item running and passes only with both; a run is *)
(* canceled only by leaving the page, never by pressing Enter again.       *)
ItemsAgree ==
  /\ run.state = "FAILED" => "FAILED" \in {run.tx, run.rx} /\ "RUNNING" \notin {run.tx, run.rx}
  /\ run.state = "PASSED" <=> {run.tx, run.rx} = {"PASSED"}
  /\ run.state = "CANCELED" => page \in {"leaving", "closed"}

(* The page shows every verdict, unless it is left.                        *)
VerdictShown ==
  run.state = "RUNNING" ~> (displayed.state \in {"PASSED", "FAILED"} \/ page # "open")

(* A run passes on the fixture's replies alone, all of them and in their   *)
(* order, whatever else was heard in between: "0xED2F: F1 F2 F3 F4 F5      *)
(* verified" of run_.  It fails a reply only when the fixture answered     *)
(* something else: not for another remote control, a repeat, or the same   *)
(* reply twice running.                                                    *)
JudgedOnReplies ==
  [][LET answers == FromFixture(heard)
     IN /\ run.state # "PASSED" /\ run'.state = "PASSED"
             => IsPrefix([i \in 1..RxPackets |-> Reply(i)], answers)
        /\ cause # "reply" /\ cause' = "reply"
             => \E i \in DOMAIN answers : answers[i] # Reply(i)]_vars

(* The worker's state is of its types, and its items agree with the run.   *)
Inv == TypeOK /\ ItemsAgree
=============================================================================
