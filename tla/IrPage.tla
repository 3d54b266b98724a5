------------------------------- MODULE IrPage -------------------------------
(***************************************************************************)
(* The receiver page of ir_test_page.cpp: opened, it starts a session that *)
(* takes any address; a timer polls it and shows the snapshot; leaving     *)
(* closes it.  The sender page keeps no state.                             *)
(***************************************************************************)
EXTENDS IrReceiver

VARIABLES
  page,       (* closed or open                                             *)
  shown       (* history: the frames the page has shown, in order           *)

vars == <<receiver, page, shown>>

(* start_receiver_                                                         *)
Open ==
  /\ page = "closed"
  /\ page' = "open" /\ shown' = <<>>
  /\ \E opened \in BOOLEAN : StartSession("any", opened)

(* refresh_receiver_                                                       *)
Refresh ==
  /\ page = "open"
  /\ PollSession
  /\ shown' = IF snapshot'.frame # snapshot.frame THEN Append(shown, snapshot'.frame) ELSE shown
  /\ UNCHANGED page

Leave ==
  /\ page = "open"
  /\ page' = "closed"
  /\ StopSession
  /\ UNCHANGED shown

Init == ReceiverInit /\ page = "closed" /\ shown = <<>>
Next == Open \/ Refresh \/ Leave \/ (Hear /\ UNCHANGED <<page, shown>>)

(* The page's timer runs while the page is open.                           *)
Spec == Init /\ [][Next]_vars /\ WF_vars(Refresh)

-----------------------------------------------------------------------------
(* Type of the page's and the session's state.                             *)
TypeOK == ReceiverTypeOK /\ page \in {"closed", "open"} /\ shown \in Seq(Frames)

(* The page shows the frames in the order they came, none left out: a read *)
(* that brings several replies shows them one by one (the comment on       *)
(* pending_receives_).                                                     *)
ShownInOrder == IsPrefix(shown, Changes(heard))

(* The page's state is of its types, and what it shows is what came.       *)
Inv == TypeOK /\ ShownInOrder
=============================================================================
