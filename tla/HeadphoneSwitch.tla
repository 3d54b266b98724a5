-------------------------- MODULE HeadphoneSwitch ---------------------------
(***************************************************************************)
(* The headphone switch of the audio page (input_switch_service.cpp,       *)
(* audio_test_page.cpp): an input device that is looked for by its name,   *)
(* kept open from poll to poll, and looked for again when it cannot be     *)
(* read, since a driver that returns does so under another node.           *)
(***************************************************************************)
EXTENDS Naturals

CONSTANT MaxNodes          (* bound: nodes the driver gets                   *)

VARIABLES
  jack_page,       (* the audio page is open                                *)
  jack_node, jack_nodes,   (* the driver's node, 0 without one; all so far  *)
  inserted,        (* the switch                                            *)
  jack_fd,         (* the node that is open, 0 when there is none           *)
  jack_shown       (* ON, OFF or ERR; none before the first poll            *)

jackVars == <<jack_page, jack_node, jack_nodes, inserted, jack_fd, jack_shown>>

Shown(fd) == IF fd # jack_node \/ fd = 0 THEN "ERR" ELSE IF inserted THEN "ON" ELSE "OFF"

(* Mutant: a device that cannot be read is kept.                           *)
KeepFd(fd) == IF fd = 0 THEN jack_node ELSE fd

(* read_headphone_inserted: the fd that could be read, 0 for an error; one *)
(* of another node is closed and the device discovered again.              *)
ReadFd(fd) == IF fd # 0 /\ fd = jack_node THEN fd ELSE jack_node

(* What a second discovery may find: the node that took the place of the   *)
(* one that is open, or one that came while the device was read.           *)
Rediscovered(n) ==
  \/ n = jack_node /\ n # 0 /\ jack_fd # 0 /\ jack_fd # n
  \/ n = jack_nodes + 1 /\ n <= MaxNodes /\ (jack_fd # 0 \/ jack_node # 0)

(* update_audio_jack_status_, also when the page is built.                 *)
Poll ==
  /\ jack_fd' = ReadFd(jack_fd) /\ jack_shown' = Shown(ReadFd(jack_fd))
  /\ UNCHANGED <<jack_node, jack_nodes, inserted>>

(* The driver goes again between the second discovery and its read: the    *)
(* error leaves the new node open.                                         *)
PollLosing ==
  \E n \in {jack_node, jack_nodes + 1} :
    /\ Rediscovered(n) /\ jack_fd' = n /\ jack_shown' = "ERR"
    /\ jack_node' = 0 /\ jack_nodes' = IF n = jack_node THEN jack_nodes ELSE n
    /\ UNCHANGED inserted

OpenJackPage   == ~jack_page /\ jack_page' = TRUE /\ (Poll \/ PollLosing)
PollJack       == jack_page /\ UNCHANGED jack_page /\ Poll
PollLosingJack == jack_page /\ UNCHANGED jack_page /\ PollLosing

(* Mutant: the page goes, and the device stays open.                       *)
LeaveOpen ==
  /\ jack_page /\ jack_page' = FALSE
  /\ jack_shown' = "none"
  /\ UNCHANGED <<jack_node, jack_nodes, inserted, jack_fd>>

(* ~AudioTestPage: release_headphone_device                                *)
CloseJackPage ==
  /\ jack_page /\ jack_page' = FALSE
  /\ jack_fd' = 0 /\ jack_shown' = "none"
  /\ UNCHANGED <<jack_node, jack_nodes, inserted>>

(* The driver goes, or comes under a new node; the plug is moved.          *)
DriverMoves ==
  /\ IF jack_node # 0 THEN jack_node' = 0 /\ UNCHANGED jack_nodes
     ELSE jack_nodes < MaxNodes /\ jack_nodes' = jack_nodes + 1 /\ jack_node' = jack_nodes + 1
  /\ UNCHANGED <<jack_page, inserted, jack_fd, jack_shown>>
PlugMoves == inserted' = ~inserted /\ UNCHANGED <<jack_page, jack_node, jack_nodes, jack_fd, jack_shown>>

JackInit ==
  /\ jack_page = FALSE /\ jack_fd = 0 /\ jack_shown = "none"
  /\ jack_node \in {0, 1} /\ jack_nodes = jack_node /\ inserted \in BOOLEAN
JackNext ==
  OpenJackPage \/ PollJack \/ PollLosingJack \/ CloseJackPage \/ DriverMoves \/ PlugMoves

(* read_headphone_inserted, release_headphone_device: without the page     *)
(* nothing is open, a page that shows a state has a device open, and one   *)
(* that shows an error has none open that is still there: the next poll    *)
(* does not read on from a node that has gone.                             *)
JackReleased ==
  /\ ~jack_page => jack_fd = 0
  /\ jack_page /\ jack_shown # "ERR" => jack_fd # 0
  /\ jack_page /\ jack_shown = "ERR" => jack_fd = 0 \/ jack_fd # jack_node

(* A driver that has returned for good is shown.                           *)
JackReturns ==
  (jack_page /\ jack_node # 0) ~> (jack_shown # "ERR" \/ jack_node = 0 \/ ~jack_page)
=============================================================================
