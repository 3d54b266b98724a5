----------------------------- MODULE IrReceiver -----------------------------
(***************************************************************************)
(* IrReceiverSession of ir_service.cpp: the device, the queue of received  *)
(* frames and the two snapshots it keeps.  One poll reads everything the   *)
(* driver has and hands out one frame; the others wait in pending for the  *)
(* next polls.  A frame equal to the one before it is not queued.          *)
(*                                                                         *)
(* The operations are used by IrPage and IrFixture.  A frame is what the   *)
(* decoder makes of one: an address, a command and a protocol.  How it is  *)
(* decoded from pulses is left out; a repeat, or a signal that does not    *)
(* decode, is Noise.                                                       *)
(***************************************************************************)
EXTENDS Naturals, Sequences, SequencesExt

CONSTANTS
  Frames,       (* what the fixture and other remote controls send          *)
  Noise,        (* a repeat, or a signal that is no frame                   *)
  MaxHeard,     (* frames heard by one session                              *)
  MaxErrors     (* reads that fail or are interrupted                       *)

ReceiverAssumption ==
  Noise \notin Frames /\ MaxHeard \in Nat /\ MaxErrors \in Nat

VARIABLES
  fd,             (* the device is open                                     *)
  driver,         (* what it has heard and nobody has read                  *)
  pending,        (* pending_receives_                                      *)
  receive_state,  (* the last frame read                                    *)
  snapshot,       (* the last frame handed out                              *)
  heard,          (* history: all this session's device has heard           *)
  errors

receiver == <<fd, driver, pending, receive_state, snapshot, heard, errors>>

Fresh(expected) ==
  [expected |-> expected, frame |-> Noise, matched |-> FALSE, changed |-> FALSE,
   message |-> "none"]
Blank == Fresh("any")

(* Mutant: every frame counts as news.                                     *)
FinalizeAll(state, f) ==
  LET matched == state.expected \in {"any", f.address}
  IN IF f = Noise THEN [state EXCEPT !.changed = FALSE, !.message = "noise"]
     ELSE [state EXCEPT !.frame = f, !.matched = matched, !.changed = TRUE,
             !.message = IF matched THEN "packet" ELSE "mismatch"]

(* The data of the last frame read stay until a frame with other data.     *)
Finalize(state, f) ==
  IF f = Noise
  THEN [state EXCEPT !.changed = FALSE, !.message = "noise"]
  ELSE LET matched == state.expected \in {"any", f.address}
       IN [state EXCEPT !.frame = f, !.matched = matched,
             !.changed = (f # state.frame \/ matched # state.matched),
             !.message = IF matched THEN "packet" ELSE "mismatch"]

Take(acc, f) ==
  LET state == Finalize(acc.state, f)
  IN [state |-> state,
      queue |-> IF state.changed THEN Append(acc.queue, state) ELSE acc.queue]

(* Mutant: the newest frame is handed out first.                           *)
HandOutLast(queue) ==
  IF queue = <<>>
  THEN snapshot' = [snapshot EXCEPT !.changed = FALSE] /\ pending' = <<>>
  ELSE snapshot' = Last(queue) /\ pending' = Front(queue)

(* Mutant: what the same read brought along is dropped.                    *)
HandOutOnly(queue) ==
  IF queue = <<>>
  THEN snapshot' = [snapshot EXCEPT !.changed = FALSE] /\ pending' = <<>>
  ELSE snapshot' = Head(queue) /\ pending' = <<>>

HandOut(queue) ==
  IF queue = <<>>
  THEN snapshot' = [snapshot EXCEPT !.changed = FALSE] /\ pending' = <<>>
  ELSE snapshot' = Head(queue) /\ pending' = Tail(queue)

(* start is only ever called on a closed session.                          *)
StartSession(expected, opened) ==
  /\ ~fd
  /\ fd' = opened
  /\ snapshot' = [Fresh(expected) EXCEPT !.message = IF opened THEN "waiting" ELSE "failed"]
  /\ receive_state' = Fresh(expected)
  /\ pending' = <<>> /\ driver' = <<>> /\ heard' = <<>>
  /\ UNCHANGED errors

Close ==
  /\ fd' = FALSE /\ driver' = <<>>
  /\ pending' = <<>> /\ receive_state' = Blank

StopSession == Close /\ UNCHANGED <<snapshot, heard, errors>>

(* The session's destructor; the history ends with it.                     *)
EndSession == Close /\ snapshot' = Blank /\ heard' = <<>> /\ UNCHANGED errors

PollClosed ==
  /\ ~fd
  /\ snapshot' = [snapshot EXCEPT !.changed = FALSE]
  /\ UNCHANGED <<fd, driver, pending, receive_state, heard, errors>>

(* What n reads make of the session.                                       *)
Taken(n) ==
  LET taken[i \in 0..n] == IF i = 0 THEN [state |-> receive_state, queue |-> pending]
                            ELSE Take(taken[i - 1], driver[i])
  IN taken[n]

(* The reads go on until the driver has no more, or one is interrupted.    *)
PollRead ==
  /\ fd
  /\ \E n \in 0..Len(driver) :
       /\ n < Len(driver) => errors < MaxErrors
       /\ errors' = IF n < Len(driver) THEN errors + 1 ELSE errors
       /\ driver' = SubSeq(driver, n + 1, Len(driver))
       /\ receive_state' = Taken(n).state
       /\ HandOut(Taken(n).queue)
  /\ UNCHANGED <<fd, heard>>

(* A read fails: the session closes, and what was read before is lost.     *)
PollFails ==
  /\ fd /\ errors < MaxErrors
  /\ errors' = errors + 1
  /\ snapshot' = [snapshot EXCEPT !.changed = FALSE, !.message = "failed"]
  /\ Close
  /\ UNCHANGED heard

PollSession == PollClosed \/ PollRead \/ PollFails

(* What is sent while nobody listens is lost.                              *)
Hear ==
  /\ fd /\ Len(heard) < MaxHeard
  /\ \E f \in Frames \cup {Noise} :
       heard' = Append(heard, f) /\ driver' = Append(driver, f)
  /\ UNCHANGED <<fd, pending, receive_state, snapshot, errors>>

ReceiverInit ==
  /\ fd = FALSE
  /\ driver = <<>> /\ pending = <<>> /\ heard = <<>>
  /\ receive_state = Blank /\ snapshot = Blank
  /\ errors = 0

Snapshots ==
  [expected : {"any", "fixture"}, frame : Frames \cup {Noise},
   matched : BOOLEAN, changed : BOOLEAN,
   message : {"none", "waiting", "failed", "packet", "mismatch", "noise"}]

(* Type of the session's state: only news waits to be handed out.           *)
ReceiverTypeOK ==
  /\ fd \in BOOLEAN
  /\ driver \in Seq(Frames \cup {Noise}) /\ heard \in Seq(Frames \cup {Noise})
  /\ pending \in Seq(Snapshots)
  /\ \A i \in DOMAIN pending : pending[i].changed /\ pending[i].frame # Noise
  /\ receive_state \in Snapshots /\ snapshot \in Snapshots
  /\ errors \in 0..MaxErrors

(* The reference: of the frames heard, those that differ from the frame    *)
(* before.                                                                 *)
Changes(s) ==
  LET news[i \in 0..Len(s)] ==
        IF i = 0 THEN <<>>
        ELSE IF s[i] = Noise \/ (news[i - 1] # <<>> /\ Last(news[i - 1]) = s[i]) THEN news[i - 1]
        ELSE Append(news[i - 1], s[i])
  IN news[Len(s)]
=============================================================================
