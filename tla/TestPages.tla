----------------------------- MODULE TestPages ------------------------------
(***************************************************************************)
(* The test pages that do more than show their model: at any time one of   *)
(* them is open, current, and the program's one interface loop calls it.   *)
(* Each page is a module of its own; this one puts them on the same loop.  *)
(* The two infrared pages share the receiver session of ir_service.cpp.    *)
(*                                                                         *)
(* A page's timer is the interface's timer, a page's thread the thread the *)
(* scheduler runs, so fairness is stated once for each, not per page.      *)
(***************************************************************************)
EXTENDS IrFixture

CONSTANTS
  MaxUpgrades,                                   (* Py32Upgrade             *)
  KeysOf, Tab, Four, Eight                       (* KeyboardTest            *)

VARIABLES
  current,                                       (* the page that is open   *)
  at, joinable, passed, tempdir, firmware, job, ui, py_snapshot, handled,
  py_nav, py_dialog, reboots, started, crashed,  (* Py32Upgrade             *)
  active, marked, counts, timer, nav, evidence, popup, dialog, held, open,
                                                 (* KeyboardTest            *)
  rx_page, shown                                 (* IrPage                  *)

Py32     == INSTANCE Py32Upgrade WITH snapshot <- py_snapshot, nav <- py_nav, dialog <- py_dialog
Keyboard == INSTANCE KeyboardTest
Receiver == INSTANCE IrPage WITH page <- rx_page

ASSUME PagesAssumption ==
  /\ Py32!UpgradesAssumption
  /\ Keyboard!LayersAssumption
  /\ Receiver!ReceiverAssumption
  /\ FixtureAssumption

py32     == <<at, joinable, passed, tempdir, firmware, job, ui, py_snapshot, handled,
              py_nav, py_dialog, reboots, started, crashed>>
keyboard == <<active, marked, counts, timer, nav, evidence, popup, dialog, held, open>>
rx_only  == <<rx_page, shown>>
fx_only  == <<pc, sent, received, late, cancel_requested, run, cause, displayed, stale,
              page, runs>>
pagesVars == <<current, py32, keyboard, receiver, rx_only, fx_only>>

-----------------------------------------------------------------------------
(* A step of the page on display leaves the others alone.                  *)

Py32Only     == UNCHANGED <<current, keyboard, receiver, rx_only, fx_only>>
KeyboardOnly == UNCHANGED <<current, py32, receiver, rx_only, fx_only>>
ReceiverOnly == UNCHANGED <<current, py32, keyboard, fx_only>>
FixtureOnly  == UNCHANGED <<current, py32, keyboard, rx_only>>

PagesInit ==
  /\ current \in {"py32", "keyboard", "ir receiver", "ir fixture"}
  /\ Py32!Init /\ Keyboard!Init /\ Receiver!Init /\ Init

PagesNext ==
  \/ current = "py32"        /\ Py32!Next     /\ Py32Only
  \/ current = "keyboard"    /\ Keyboard!Next /\ KeyboardOnly
  \/ current = "ir receiver" /\ Receiver!Next /\ ReceiverOnly
  \/ current = "ir fixture"  /\ Next          /\ FixtureOnly

(* The steps of the page's thread, of the interface's timer, and of the    *)
(* interface once it has begun something: it joins, and goes on.           *)
Thread ==
  \/ current = "py32"       /\ Py32!Worker    /\ Py32Only
  \/ current = "ir fixture" /\ Worker      /\ FixtureOnly
Timer ==
  \/ current = "py32"        /\ Py32!Refresh         /\ Py32Only
  \/ current = "keyboard"    /\ Keyboard!AutoAdvance /\ KeyboardOnly
  \/ current = "ir receiver" /\ Receiver!Refresh     /\ ReceiverOnly
  \/ current = "ir fixture"  /\ Refresh      /\ FixtureOnly
Interface ==
  \/ current = "py32"       /\ (Py32!Start \/ Py32!RefreshSecond)    /\ Py32Only
  \/ current = "ir fixture" /\ (Start \/ Joined)     /\ FixtureOnly
Clock == current = "ir fixture" /\ Deadline /\ FixtureOnly

(* Threads are scheduled, timers fire, a join returns when the thread has  *)
(* ended, and time passes.  The user and the air owe nothing.              *)
PagesFairness ==
  WF_pagesVars(Thread) /\ WF_pagesVars(Timer) /\ WF_pagesVars(Interface) /\ WF_pagesVars(Clock)
PagesSpec == PagesInit /\ [][PagesNext]_pagesVars /\ PagesFairness

-----------------------------------------------------------------------------
(* The pages' properties, as their modules state them.                     *)

(* Py32Upgrade: no thread is assigned to while it runs, the page is not    *)
(* left while an upgrade runs; a reboot is into a verified version; the    *)
(* navigation comes back.                                                  *)
UpgradeInv  == Py32!Inv
UpgradeEnds == Py32!RebootIsVerified /\ Py32!NavigationReturns

(* KeyboardTest: progress, evidence, popup and dialog fit the keys that    *)
(* were pressed; the timer advances only from a complete layer.            *)
KeyboardInv == Keyboard!Inv /\ Keyboard!AdvanceFromComplete

(* IrReceiver, IrPage: only news waits in the session, on both pages; what *)
(* the receiver page shows is what came, in its order, and in the end all  *)
(* of it.                                                                  *)
ReceiverInv == ReceiverTypeOK /\ (current = "ir receiver" => Receiver!Inv)
CatchesUp ==
  current = "ir receiver" /\ Len(shown) < Len(Changes(heard))
    ~> (Len(shown) = Len(Changes(heard)) \/ ~fd)

(* IrFixture: the items agree with the run; what is sent and heard takes   *)
(* turns, and a reply is judged on what the fixture answered.              *)
FixtureInv   == Inv
FixtureTurns == HalfDuplex /\ JudgedOnReplies

(* IrPage, IrFixture: the infrared pages show what they have to in the end.*)
InfraredShown == CatchesUp /\ VerdictShown
=============================================================================
