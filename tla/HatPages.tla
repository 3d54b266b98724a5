------------------------------ MODULE HatPages ------------------------------
(***************************************************************************)
(* The pages that work on the HAT connector, one open at a time: the CAP   *)
(* fixture test, the two radio caps and EXT.IO.  They share the host's     *)
(* switches (hw) and its GPIO lines (requests), which outlive a page, so   *)
(* each visit starts on what the visits before it left.                    *)
(***************************************************************************)
EXTENDS CapFixture

CONSTANTS
  MaxVisits,                                     (* pages opened            *)
  MaxRestarts, Candidates, Registers,            (* CapRadio                *)
  Lines                                          (* ExtIo                   *)

VARIABLES
  current, visits,                               (* the page that is open   *)
  requests,                                      (* shared, as are hw,      *)
                                                 (* faults and clean        *)
  kind, view, job, round, found, heard, selected, run_state, part, cancel,
  starts,                                        (* CapRadio                *)
  outputs, inputs, level, open, io_function, dialog, selected_index, rows
                                                 (* ExtIo                   *)

Radio == INSTANCE CapRadio
Io    == INSTANCE ExtIo

ASSUME HatAssumption == MaxVisits \in Nat /\ Radio!RadioAssumption /\ Io!ExtIoAssumption

fixture == <<settled, page, pc, at, count, state, items, active_item, cancel_requested, own,
             runs, calm>>
radio   == <<kind, view, job, round, found, heard, selected, run_state, part, cancel, starts>>
io      == <<outputs, inputs, level, open, io_function, dialog, selected_index, rows>>
hatVars == <<current, visits, hw, requests, faults, clean, fixture, radio, io>>

HatInit ==
  /\ current = "none" /\ visits = 0 /\ requests = {}
  /\ Init /\ Radio!RadioInit /\ Io!ExtIoInit

(* The screen manager builds a page when the last one is gone.             *)
OpenPage ==
  /\ current = "none" /\ visits < MaxVisits
  /\ visits' = visits + 1
  /\ \/ current' = "fixture" /\ Open /\ UNCHANGED <<requests, radio, io>>
     \/ current' = "radio" /\ (\E k \in {"LORA", "CC1101"} : Radio!Open(k))
        /\ UNCHANGED <<fixture, io>>
     \/ current' = "ext io" /\ Io!Open /\ UNCHANGED <<clean, fixture, radio>>

ClosePage ==
  /\ \/ current = "fixture" /\ page = "gone"
     \/ current = "radio" /\ view = "gone"
     \/ current = "ext io" /\ ~open
  /\ current' = "none"
  /\ UNCHANGED <<visits, hw, requests, faults, clean, fixture, radio, io>>

FixtureStep == current = "fixture" /\ Next /\ UNCHANGED <<requests, radio, io>>
RadioStep   == current = "radio" /\ Radio!Next /\ UNCHANGED <<fixture, io>>
IoStep      == current = "ext io" /\ Io!Next /\ UNCHANGED <<clean, fixture, radio>>

PageStep ==
  /\ FixtureStep \/ RadioStep \/ IoStep
  /\ UNCHANGED <<current, visits>>

HatNext == OpenPage \/ ClosePage \/ PageStep

(* The page's worker is a thread and the interface is a loop: both go on.  *)
(* Only one page is open, so each is one condition for all of them.        *)
Worker ==
  \/ current = "fixture" /\ (Run \/ CleanStep) /\ UNCHANGED <<requests, radio, io>>
  \/ current = "radio" /\ Radio!Work /\ UNCHANGED <<fixture, io>>
Interface ==
  \/ current = "fixture" /\ (Cancel \/ Join) /\ UNCHANGED <<requests, radio, io>>
  \/ current = "radio" /\ (Radio!Start \/ Radio!Join) /\ UNCHANGED <<fixture, io>>

HatFairness ==
  /\ WF_hatVars(Worker /\ UNCHANGED <<current, visits>>)
  /\ WF_hatVars(Interface /\ UNCHANGED <<current, visits>>)

HatSpec == HatInit /\ [][HatNext]_hatVars /\ HatFairness
-----------------------------------------------------------------------------
(* Properties.                                                             *)

(* CapFixture: the items agree with the run, and the CAP's registers are   *)
(* only used while the host reaches them, on a bus that has settled.       *)
FixtureInv == Inv /\ ControlReachable

(* CapRadio: power while a part is asked, a verdict of both parts of this  *)
(* run, lines given back by every way out of a probe.                      *)
RadioInv == Radio!Inv

(* ExtIo: every line has one holder, rows show what is, errors come from   *)
(* outside.                                                                *)
ExtIoInv == Io!Inv

(* cleanup_, ~PowerCleanup, release_output_lines_: whatever a page was     *)
(* doing when it was left, the next one finds the power of the caps off    *)
(* (unless a switch has failed), the lines free, the pins and the bus as   *)
(* the fixture test expects them.                                          *)
HandedBack ==
  /\ current = "fixture" => Restored
  /\ current = "radio" => Radio!PowerReturned
  /\ current = "none" => requests = {}

(* cancel, the destructors: the interface does not hang: a page that is    *)
(* left, or a test that is started again, gets its worker joined.          *)
LeavingEnds ==
  (\/ current = "fixture" /\ page \in {"leaving", "joining"}
   \/ current = "radio" /\ view \in {"leaving", "restarting"})
    ~> (\/ current = "none"
        \/ current = "fixture" /\ page = "gone"
        \/ current = "radio" /\ view \in {"open", "gone"})
=============================================================================
