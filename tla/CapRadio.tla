------------------------------ MODULE CapRadio ------------------------------
(***************************************************************************)
(* The LoRa-1262 and the CC1101 cap tests: the two workers                 *)
(* (cap_lora_1262_test_model.cpp, cap_cc1101_test_model.cpp, with their    *)
(* services) and the pages that start, restart, cancel and join them.      *)
(*                                                                         *)
(* Both workers switch the external 5 V on, ask two parts in turn, tell    *)
(* the page, and switch it off whatever came of it.  A step is one call    *)
(* on the hardware or one published snapshot.  What a part answers is good *)
(* or bad; the texts of the snapshot are left out.                         *)
(***************************************************************************)
EXTENDS Naturals, FiniteSets

CONSTANTS
  MaxRestarts,    (* how often a visit of the page starts the test          *)
  Candidates,     (* SPI paths the SX1262 is looked for on                  *)
  Registers,      (* registers of the ST25R3916 that are read               *)
  MaxFaults       (* switches and lines that fail                           *)

(* Assumed by HatPages, which has the constants.                            *)
RadioAssumption ==
  /\ {MaxRestarts, Candidates, Registers, MaxFaults} \subseteq Nat
  /\ Candidates > 0 /\ Registers > 0

VARIABLES
  hw,             (* the host's switches; this module uses ext5v            *)
  requests,       (* GPIO lines this process has requested                  *)
  kind,           (* which of the two pages it is                           *)
  view,           (* open, restarting or leaving (the interface waits in    *)
                  (* join), gone                                            *)
  job, round,     (* the worker: its place, and that of the loop it is in   *)
  found,          (* run_'s locals: which parts have answered well          *)
  heard,          (* what the GPS has sent so far                           *)
  selected,       (* GPIO22 as the ST25R3916's chip select: asserted        *)
  run_state, part,(* the snapshot: run state and the two items              *)
  cancel,         (* cancel_requested_                                      *)
  starts,
  faults,
  clean           (* history: no write of the power switch has failed       *)

locals    == <<found, heard>>
published == <<run_state, part>>
lines     == <<requests, selected>>
visit     == <<kind, view, cancel, starts>>
radio     == <<visit, job, round, locals, selected, published, faults, clean>>
vars      == <<hw, requests, radio>>

Parts == {1, 2}
Lora  == kind = "LORA"
Ended == {"PASSED", "FAILED", "CANCELED"}

-----------------------------------------------------------------------------
(* The worker.                                                             *)

At(p)  == job = p /\ UNCHANGED visit
To(p)  == job' = p /\ round' = 1
Fails  == faults < MaxFaults /\ faults' = faults + 1
Works  == UNCHANGED faults
Power(v) == hw' = [hw EXCEPT !.ext5v = v]

(* write_sysfs_binary_value: reads back what it wrote.                     *)
PowerOn ==
  /\ At("power")
  /\ \/ Works /\ Power("on") /\ To("settle") /\ UNCHANGED clean
     \/ Fails /\ (Power("on") \/ UNCHANGED hw) /\ To("rollback") /\ clean' = FALSE
  /\ UNCHANGED <<lines, locals, published>>

Rollback ==
  /\ At("rollback")
  /\ \/ Works /\ Power("off") /\ UNCHANGED clean
     \/ Fails /\ (Power("off") \/ UNCHANGED hw) /\ clean' = FALSE
  /\ To("over")
  /\ run_state' = "FAILED" /\ part' = [part EXCEPT ![1] = "FAILED"]
  /\ UNCHANGED <<lines, locals>>

Settle ==
  /\ At("settle")
  /\ To(IF Lora /\ cancel THEN "tell first" ELSE IF Lora THEN "candidate" ELSE "strobe")
  /\ UNCHANGED <<hw, lines, locals, published, faults, clean>>

(* probe_spi_candidates: a path that cannot be opened, stays busy, does not*)
(* transfer or answers 0x00 or 0xFF is followed by the next; a RESET line  *)
(* that fails ends the search.  The line stays requested until then.       *)
Candidate ==
  /\ At("candidate")
  /\ \/ /\ found' = [found EXCEPT ![1] = TRUE]
        /\ requests' = requests \ {"26"} /\ To("tell first") /\ Works
     \/ /\ round < Candidates
        /\ job' = job /\ round' = round + 1
        /\ requests' \in {requests, requests \cup {"26"}}
        /\ UNCHANGED found /\ Works
     \/ /\ round = Candidates
        /\ requests' = requests \ {"26"} /\ To("tell first")
        /\ UNCHANGED found /\ Works
     \/ /\ Fails
        /\ requests' = requests \ {"26"} /\ To("tell first") /\ UNCHANGED found
  /\ UNCHANGED <<hw, selected, heard, published, clean>>

(* probe_cc1101: reset strobe, 150 ms, then the flag, then the registers.  *)
Strobe ==
  /\ At("strobe")
  /\ To("registers") \/ To("tell first")
  /\ UNCHANGED <<hw, lines, locals, published, faults, clean>>

ReadCc1101 ==
  /\ At("registers")
  /\ found' \in {[found EXCEPT ![1] = ok] : ok \in IF cancel THEN {FALSE} ELSE BOOLEAN}
  /\ To("tell first")
  /\ UNCHANGED <<hw, lines, heard, published, faults, clean>>

Verdict1 == [part EXCEPT ![1] = IF found[1] THEN "PASSED" ELSE "FAILED", ![2] = "RUNNING"]

(* The LoRa model publishes and then looks at the flag; the CC1101 model   *)
(* looks first.                                                            *)
TellFirst ==
  /\ At("tell first")
  /\ IF ~Lora /\ cancel
     THEN run_state' = "CANCELED" /\ UNCHANGED part /\ To("off")
     ELSE /\ part' = Verdict1
          /\ run_state' = IF Lora THEN "RUNNING_GPS" ELSE run_state
          /\ To(IF Lora THEN "look" ELSE "select")
  /\ UNCHANGED <<hw, lines, locals, faults, clean>>

Look ==
  /\ At("look")
  /\ IF cancel THEN run_state' = "CANCELED" /\ To("off") ELSE To("uart") /\ UNCHANGED run_state
  /\ UNCHANGED <<hw, lines, locals, part, faults, clean>>

(* run_gps_test: open and ask, or fail.                                    *)
OpenUart ==
  /\ At("uart")
  /\ To("listen") \/ To("tell second")
  /\ UNCHANGED <<hw, lines, locals, published, faults, clean>>

(* One read: nothing, the IC line, a valid NMEA sentence, or both.  The    *)
(* loop ends when both are there, after a failed read, at the deadline, or *)
(* when the flag is seen.                                                  *)
Listen ==
  /\ At("listen")
  /\ \/ /\ ~cancel
        /\ \E new \in SUBSET {"IC", "NMEA"} : heard' = heard \cup new
        /\ found' = [found EXCEPT ![2] = heard' = {"IC", "NMEA"}]
        /\ IF found'[2] THEN To("tell second") ELSE UNCHANGED <<job, round>>
     \/ UNCHANGED locals /\ To("tell second")
  /\ UNCHANGED <<hw, lines, published, faults, clean>>

(* run_st25r3916_test: GPIO22 becomes an output at rest, the device is     *)
(* opened, then every register is read between assert and deassert.        *)
Select ==
  /\ At("select")
  /\ \/ Works /\ requests' = requests \cup {"22"} /\ To("assert")
     \/ Works /\ UNCHANGED requests /\ To("tell second")
     \/ Fails /\ UNCHANGED requests /\ To("tell second")
  /\ UNCHANGED <<hw, selected, locals, published, clean>>

(* ~OutputLine releases the line.                                          *)
Deselect == requests' = requests \ {"22"} /\ selected' = FALSE /\ To("tell second")

Assert ==
  /\ At("assert")
  /\ \/ Works /\ selected' = TRUE /\ job' = "transfer" /\ UNCHANGED <<round, requests>>
     \/ Fails /\ Deselect
  /\ UNCHANGED <<hw, locals, published, clean>>

(* Mutant: a failed transfer is returned before the line is deasserted.    *)
TransferReturnsEarly ==
  /\ At("transfer")
  /\ \E ok \in BOOLEAN :
       IF ok THEN selected' = FALSE /\ job' = "assert" /\ round' = round + 1
       ELSE UNCHANGED selected /\ To("tell second")
  /\ UNCHANGED <<hw, requests, locals, published, faults, clean>>

(* transfer_with_software_cs: deasserted whatever came of the transfer;    *)
(* after the last register the flag is looked at and the identity judged.  *)
Transfer ==
  /\ At("transfer")
  /\ \/ /\ Works /\ round < Registers
        /\ selected' = FALSE /\ job' = "assert" /\ round' = round + 1
        /\ UNCHANGED <<requests, found>>
     \/ /\ Works /\ round = Registers
        /\ found' \in {[found EXCEPT ![2] = ok] : ok \in IF cancel THEN {FALSE} ELSE BOOLEAN}
        /\ Deselect
     \/ /\ UNCHANGED faults /\ Deselect /\ UNCHANGED found
     \/ /\ Fails /\ Deselect /\ UNCHANGED found
  /\ UNCHANGED <<hw, heard, published, clean>>

(* Mutant: the verdict looks at the part that answered last.               *)
VerdictOfSecond == IF found[2] THEN "PASSED" ELSE "FAILED"

Verdict == IF found[1] /\ found[2] THEN "PASSED" ELSE "FAILED"

TellSecond ==
  /\ At("tell second")
  /\ IF cancel THEN run_state' = "CANCELED" /\ UNCHANGED part
     ELSE /\ run_state' = Verdict
          /\ part' = [part EXCEPT ![2] = IF found[2] THEN "PASSED" ELSE "FAILED"]
  /\ To("off")
  /\ UNCHANGED <<hw, lines, locals, faults, clean>>

(* Mutant: the power is only switched off after a verdict.                 *)
PowerOffAfterVerdict ==
  /\ At("off")
  /\ IF run_state = "CANCELED" THEN UNCHANGED hw ELSE Power("off")
  /\ To("over")
  /\ UNCHANGED <<lines, locals, published, faults, clean>>

(* ~PowerCleanup, on every way out of run_.                                *)
PowerOff ==
  /\ At("off")
  /\ \/ Works /\ Power("off") /\ UNCHANGED clean
     \/ Fails /\ (Power("off") \/ UNCHANGED hw) /\ clean' = FALSE
  /\ To("over")
  /\ UNCHANGED <<lines, locals, published>>

Work ==
  \/ PowerOn \/ Rollback \/ Settle \/ Candidate \/ Strobe \/ ReadCc1101 \/ TellFirst \/ Look
  \/ OpenUart \/ Listen \/ Select \/ Assert \/ Transfer \/ TellSecond \/ PowerOff

-----------------------------------------------------------------------------
(* The page.                                                               *)

CanStart == run_state \in Ended \cup {"WAITING"}
Idle     == job \in {"none", "over"}

(* Enter, when can_start: start() cancels ...                              *)
Restart ==
  /\ view = "open" /\ CanStart /\ starts < MaxRestarts
  /\ view' = "restarting" /\ cancel' = TRUE
  /\ UNCHANGED <<hw, requests, kind, starts, job, round, locals, selected, published,
                 faults, clean>>

(* ... joins the last worker, and only then resets the snapshot.           *)
Start ==
  /\ view = "restarting" /\ Idle
  /\ view' = "open" /\ cancel' = FALSE /\ starts' = starts + 1
  /\ run_state' = "RUNNING" /\ part' = [p \in Parts |-> IF p = 1 THEN "RUNNING" ELSE "PENDING"]
  /\ found' = [p \in Parts |-> FALSE] /\ heard' = {}
  /\ To("power")
  /\ UNCHANGED <<hw, requests, kind, selected, faults, clean>>

(* Back, a verdict of the operator, or the next test: the page goes, and   *)
(* with it, when the worker has been joined, the model.                    *)
Leave ==
  /\ view = "open"
  /\ view' = "leaving" /\ cancel' = TRUE
  /\ UNCHANGED <<hw, requests, kind, starts, job, round, locals, selected, published,
                 faults, clean>>

Join ==
  /\ view = "leaving" /\ Idle
  /\ view' = "gone" /\ cancel' = FALSE /\ starts' = 0
  /\ job' = "none" /\ round' = 1
  /\ found' = [p \in Parts |-> FALSE] /\ heard' = {}
  /\ run_state' = "WAITING" /\ part' = [p \in Parts |-> "PENDING"]
  /\ UNCHANGED <<hw, requests, kind, selected, faults, clean>>

(* A new page with a new model; the hardware is as it was.                 *)
Open(k) ==
  /\ view = "gone"
  /\ view' = "open" /\ kind' = k
  /\ UNCHANGED <<hw, requests, cancel, starts, job, round, locals, selected, published,
                 faults, clean>>

RadioInit ==
  /\ kind = "LORA" /\ view = "gone" /\ cancel = FALSE /\ starts = 0
  /\ job = "none" /\ round = 1
  /\ found = [p \in Parts |-> FALSE] /\ heard = {} /\ selected = FALSE
  /\ run_state = "WAITING" /\ part = [p \in Parts |-> "PENDING"]

Next == Work \/ Restart \/ Start \/ Leave \/ Join
-----------------------------------------------------------------------------
(* Properties.                                                             *)

(* Types of the page's, the worker's and the snapshot's state.             *)
TypeOK ==
  /\ kind \in {"LORA", "CC1101"}
  /\ view \in {"open", "restarting", "leaving", "gone"}
  /\ job \in {"none", "power", "rollback", "settle", "candidate", "strobe", "registers",
              "tell first", "look", "uart", "listen", "select", "assert", "transfer",
              "tell second", "off", "over"}
  /\ round \in 1..(Candidates + Registers)
  /\ found \in [Parts -> BOOLEAN] /\ heard \subseteq {"IC", "NMEA"}
  /\ selected \in BOOLEAN /\ requests \subseteq {"22", "23", "26"}
  /\ run_state \in Ended \cup {"WAITING", "RUNNING", "RUNNING_GPS"}
  /\ part \in [Parts -> {"PENDING", "RUNNING", "PASSED", "FAILED"}]
  /\ starts \in 0..MaxRestarts /\ faults \in 0..MaxFaults

(* run_: no part is asked, and none is judged, while the external 5 V is   *)
(* off, although the switch is used by the run before and by its rollback. *)
PoweredWhileAsked ==
  job \notin {"none", "over", "power", "rollback"} => hw.ext5v = "on"

(* run_: PASSED is told only of a run in which both parts have answered.   *)
PassedBothAnswered ==
  run_state = "PASSED" => \A p \in Parts : found[p] /\ part[p] = "PASSED"

(* transfer_with_software_cs, ~OutputLine: the ST25R3916 is selected only  *)
(* during a transfer with it, and no line stays requested after the probe  *)
(* that needed it, whichever way the probe was left.                       *)
LinesGivenBack ==
  /\ selected => job = "transfer"
  /\ requests # {} /\ view # "gone" => job \in {"candidate", "assert", "transfer"}

(* run_: after a run, passed, failed or canceled anywhere, the external    *)
(* 5 V is off unless the switch itself failed.                             *)
PowerReturned == job = "over" /\ clean => hw.ext5v = "off"

(* The state is of its types, and what was asked agrees with power, lines  *)
(* and verdict.                                                            *)
Inv == TypeOK /\ PoweredWhileAsked /\ PassedBothAnswered /\ LinesGivenBack
=============================================================================
