----------------------------- MODULE CapFixture -----------------------------
(***************************************************************************)
(* The CAP fixture test: the worker of cap_fixture_test_model.cpp, the     *)
(* page that starts, cancels and joins it, and the hardware they leave     *)
(* behind for the next run.                                                *)
(*                                                                         *)
(* What the worker does is a list of operations (Script, one list per      *)
(* run_..._ function); what it undoes is another (Cleanup).  The CAP       *)
(* answers on its HAT pins, and on the Grove connector while its own I2C   *)
(* channel and the host's mux (grove_fun) both point there.  0x08 and 0x09 *)
(* TOGGLE its two channels, so a command too many is as bad as a missing   *)
(* one.  Payloads, frames and voltages are left out: an operation that     *)
(* looks at them succeeds or fails.  Time is left out: a loop that polls   *)
(* until a deadline polls at most MaxPolls times.                          *)
(***************************************************************************)
EXTENDS Naturals, Sequences, FiniteSets

CONSTANTS
  MaxRuns,        (* how often the page is opened                           *)
  MaxFaults,      (* operations that fail                                   *)
  MaxPolls,       (* polls within a deadline                                *)
  ResetAttempts   (* K_SOFTWARE_RESET_ATTEMPTS                              *)

ASSUME FixtureAssumption ==
  {MaxRuns, MaxFaults, MaxPolls, ResetAttempts} \subseteq Nat /\ ResetAttempts > 0

VARIABLES
  hw,               (* the host's switches and the CAP's two channels       *)
  settled,          (* a delay has completed since the mux last changed     *)
  page,             (* open, leaving (cancel has seen RUNNING), joining, or *)
                    (* gone                                                 *)
  pc, at,           (* the worker: its phase and its place in the list      *)
  count,            (* of the loop it is in: reset attempts or polls        *)
  state, items,     (* the snapshot: run state and items                    *)
  active_item,
  cancel_requested,
  own,              (* what the model remembers of the hardware             *)
  runs, faults,
  clean, calm       (* history: no cleanup operation has failed; no cancel  *)

worker   == <<pc, at, count>>
snapshot == <<state, items, active_item>>
history  == <<runs, clean, calm>>
vars     == <<hw, settled, page, worker, snapshot, cancel_requested, own, faults, history>>

Items == 1..8     (* Power, I2C, Grove I2C, UART, Grove UART, SPI, USB, GPIO *)

-----------------------------------------------------------------------------
(* The operations.                                                         *)

Op(d)      == [do |-> d,        what |-> "none", to |-> "none"]
Set(w, v)  == [do |-> "set",    what |-> w,      to |-> v]
Out(w)     == [do |-> "toggle", what |-> w,      to |-> "GROVE"]
Back(w)    == [do |-> "toggle", what |-> w,      to |-> "HAT"]
Home(w)    == [do |-> "home",   what |-> w,      to |-> "HAT"]
Pins(v)    == [do |-> "pins",   what |-> "pins", to |-> v]

Begin     == Op("begin")
Pass      == Op("pass")
Delay     == Op("delay")
SureDelay == Op("sure_delay")
Read      == Op("read")
Write     == Op("write")
Check     == Op("check")
Poll      == Op("poll")
Host      == Op("host")
Verify    == Op("verify")
Hold      == Op("hold")
Hid       == Op("hid")

Prepare  == <<Set("mux", "HAT"), Set("ext5v", "on"), Delay, Op("reset"), Delay>>
RunPower == <<Begin, Set("ext5v", "on"), Delay, Write, Delay, Host, Write, Delay,
              Read, Read, Host, Pass, Delay>>
RunI2c   == <<Begin, Read, Write, Delay, Read, Host, Write, Write, Delay, Check, Pass, Delay>>

(* Mutant: the host's bus gets no time to settle.                          *)
RunGroveI2cAtOnce ==
  <<Begin, Set("grove5v", "on"), SureDelay, Out("i2c"), Delay, Set("mux", "GROVE"),
    Write, Delay, Check, Back("i2c"), Delay, Delay, Home("i2c"), Set("mux", "HAT"),
    SureDelay, Poll, Pass, Delay>>

RunGroveI2c ==
  <<Begin, Set("grove5v", "on"), SureDelay, Out("i2c"), Delay, Set("mux", "GROVE"), Delay,
    Write, Delay, Check, Back("i2c"), Delay, Delay, Home("i2c"), Set("mux", "HAT"),
    SureDelay, Poll, Pass, Delay>>

PrepareUart == <<Op("open"), Host, Write, Poll, Host>>
RunUart == <<Begin>> \o PrepareUart \o <<Verify, Host, Host, Verify, Delay, Read, Read, Pass, Delay>>

RunGroveUart ==
  <<Begin, Set("mux", "HAT"), Delay, Out("uart"), Delay, Poll, Delay>> \o PrepareUart
  \o <<Verify, Host, Verify, Back("uart"), Delay, Delay, Home("uart"), Pass, Delay>>

RunSpi == <<Begin, Write, Delay, Host, Delay, Read, Read, Pass, Delay>>

(* "find" jumps over the hub reset and the second wait.                    *)
RunUsb ==
  <<Begin, Pins("USB"), Delay, Write, Write, Delay, Op("find"), Host, Delay, Verify,
    Hid, Write, Delay, Verify, Write, Delay, Pass, Delay>>

(* Two of the five samples.                                                *)
RunGpio ==
  <<Begin, Pins("GPIO"), Delay, Op("drive"), Hold, Write, Hold, Host,
    Op("assert"), Op("sample"), Op("pause"), Op("assert"), Op("sample"),
    Op("stop"), Op("inputs"), Op("verdict"), Pass>>

Script == Prepare \o RunPower \o RunI2c \o RunGroveI2c \o RunUart \o RunGroveUart
          \o RunSpi \o RunUsb \o RunGpio
StopAt == CHOOSE i \in DOMAIN Script : Script[i].do = "stop"

(* What an operation does when it finds cancel_requested_: return without  *)
(* fail_, fail_, or not look.                                              *)
Quiet  == {"write", "read", "toggle", "poll", "delay", "hold", "sample", "pause"}
Loud   == {"check", "verify", "find", "hid", "sure_delay"}
(* Those that need the CAP to answer, and those that leave for the STOP.   *)
CapOps == {"write", "read", "check", "reset", "toggle", "poll", "hid", "sample"}
InSampling == {"assert", "sample", "pause"}

CleanUp ==
  <<Op("recover_mux"), Op("recover_i2c"), Set("mux", "HAT"), Op("recover_uart"), Op("stop"),
    Pins("GPIO"), Op("inputs"), Set("ext5v", "off"), Set("grove5v", "off"), Op("close")>>

Now == IF pc = "run" THEN Script[at] ELSE CleanUp[at]

Reachable == hw.i2c = "HAT" \/ hw.mux = "GROVE"
Flipped(w) == [hw EXCEPT ![w] = IF @ = "HAT" THEN "GROVE" ELSE "HAT"]

(* The mux is written: a change needs time before the Grove bus is used.   *)
Switch(w, v) ==
  /\ hw' = [hw EXCEPT ![w] = v]
  /\ settled' = (settled /\ (w = "mux" => hw.mux = v))

-----------------------------------------------------------------------------
(* The run.                                                                *)

FailItem ==
  /\ state' = "FAILED"
  /\ items' = [items EXCEPT ![active_item] = "FAILED"]
  /\ UNCHANGED active_item

(* The run_ function is left for cleanup_; within the sampling of run_gpio_*)
(* the STOP command and the inputs come first.                             *)
LeaveRun(fails) ==
  /\ IF fails THEN FailItem ELSE UNCHANGED snapshot
  /\ count' = 0
  /\ IF Now.do \in InSampling
     THEN /\ at' = StopAt
          /\ own' = [own EXCEPT !.read_ok = FALSE]
          /\ UNCHANGED pc
     ELSE pc' = "cleanup" /\ at' = 1 /\ UNCHANGED own

Advance == at' = at + 1 /\ count' = 0 /\ UNCHANGED pc

Running(d) == pc = "run" /\ Now.do \in d
Heeds      == ~(cancel_requested /\ Now.do \in Quiet \cup Loud)
Works(d)   == Running(d) /\ Heeds /\ (Now.do \in CapOps => Reachable)
Frame      == UNCHANGED <<page, cancel_requested, history>>

(* cancel_requested_ is seen.                                              *)
Canceled ==
  /\ Running(Quiet \cup Loud) /\ cancel_requested
  /\ LeaveRun(Now.do \in Loud)
  /\ Frame /\ UNCHANGED <<hw, settled, faults>>

(* An operation fails.  A switch that reports failure may have switched.   *)
Fault ==
  /\ Running({Script[i].do : i \in DOMAIN Script}
             \ {"begin", "pass", "home", "delay", "sure_delay", "reset", "find",
                "stop", "inputs", "verdict"})
  /\ Heeds
  /\ \/ faults < MaxFaults /\ faults' = faults + 1
     \/ Now.do \in CapOps /\ ~Reachable /\ UNCHANGED faults
  /\ LeaveRun(TRUE)
  /\ \/ UNCHANGED <<hw, settled>>
     \/ Now.do \in {"set", "pins"} /\ Switch(Now.what, Now.to)
     \/ Now.do = "drive" /\ Switch("lines", "out")
  /\ Frame

BeginItem ==
  /\ Running({"begin"})
  /\ LET i == Cardinality({k \in 1..at : Script[k].do = "begin"})
     IN  active_item' = i /\ items' = [items EXCEPT ![i] = "RUNNING"]
  /\ Advance /\ Frame /\ UNCHANGED <<state, hw, settled, own, faults>>

PassItem ==
  /\ Running({"pass"})
  /\ items' = [items EXCEPT ![active_item] = "PASSED"]
  /\ IF at = Len(Script) THEN pc' = "cleanup" /\ at' = 1 /\ count' = 0 ELSE Advance
  /\ Frame /\ UNCHANGED <<state, active_item, hw, settled, own, faults>>

(* Registers, frames, files: nothing this model keeps changes.             *)
Exchange ==
  /\ Works({"write", "read", "check", "host", "verify", "hid", "hold", "assert",
            "sample", "pause", "poll", "open"})
  /\ Advance /\ Frame /\ UNCHANGED <<hw, settled, snapshot, own, faults>>

DelayEnds ==
  /\ Works({"delay", "sure_delay"})
  /\ settled' = TRUE
  /\ Advance /\ Frame /\ UNCHANGED <<hw, snapshot, own, faults>>

SetSwitch ==
  /\ Works({"set"})
  /\ Switch(Now.what, Now.to)
  /\ Advance /\ Frame /\ UNCHANGED <<snapshot, own, faults>>

(* 0x08 or 0x09 out to Grove sets cap_grove_..._active_ at once; the one   *)
(* that comes back leaves it to the end of the delays (ComeHome).          *)
Toggle ==
  /\ Works({"toggle"})
  /\ hw' = Flipped(Now.what)
  /\ own' = [own EXCEPT ![Now.what] = (@ \/ Now.to = "GROVE")]
  /\ Advance /\ Frame /\ UNCHANGED <<settled, snapshot, faults>>

ComeHome ==
  /\ Running({"home"})
  /\ own' = [own EXCEPT ![Now.what] = FALSE]
  /\ Advance /\ Frame /\ UNCHANGED <<hw, settled, snapshot, faults>>

(* Mutant: any function known is taken for the one asked for.              *)
KnownAnyPins(v) == own.known # "unknown"

(* select_host_pin_function_: skipped when the model knows the function.   *)
KnownPins(v) == own.known = v

SelectPins ==
  /\ Works({"pins"})
  /\ IF KnownPins(Now.to) THEN UNCHANGED <<hw, settled, own>>
     ELSE Switch("pins", Now.to) /\ own' = [own EXCEPT !.known = Now.to]
  /\ Advance /\ Frame /\ UNCHANGED <<snapshot, faults>>

Drive ==
  /\ Works({"drive"})
  /\ Switch("lines", "out")
  /\ Advance /\ Frame /\ UNCHANGED <<snapshot, own, faults>>

(* Mutant: a loop without a deadline that does not look at the flag.       *)
PollForever ==
  /\ Running({"poll"})
  /\ count' = (count + 1) % 2
  /\ Frame /\ UNCHANGED <<pc, at, snapshot, own, hw, settled, faults>>

(* A loop with a deadline: not yet, and one poll too many (fail_).         *)
PollAgain ==
  /\ Works({"poll"})
  /\ IF count < MaxPolls THEN count' = count + 1 /\ UNCHANGED <<pc, at, snapshot, own>>
     ELSE LeaveRun(TRUE)
  /\ Frame /\ UNCHANGED <<hw, settled, faults>>

(* Up to ResetAttempts writes of 0x07, which restarts the CAP on HAT.      *)
Reset ==
  /\ Running({"reset"})
  /\ \/ /\ cancel_requested /\ LeaveRun(FALSE) /\ UNCHANGED <<hw, faults>>
     \/ /\ ~cancel_requested /\ Reachable
        /\ hw' = [hw EXCEPT !.i2c = "HAT", !.uart = "HAT"]
        /\ Advance /\ UNCHANGED <<snapshot, own, faults>>
     \/ /\ ~cancel_requested
        /\ \/ faults < MaxFaults /\ faults' = faults + 1
           \/ ~Reachable /\ UNCHANGED faults
        /\ IF count + 1 < ResetAttempts
           THEN count' = count + 1 /\ UNCHANGED <<pc, at, snapshot, own>>
           ELSE LeaveRun(TRUE)
        /\ UNCHANGED hw
  /\ Frame /\ UNCHANGED settled

(* The fixture's USB device is there, or the hub is reset first.           *)
Find ==
  /\ Works({"find"})
  /\ at' \in {at + 1, at + 4}
  /\ count' = 0
  /\ Frame /\ UNCHANGED <<pc, hw, settled, snapshot, own, faults>>

(* The mandatory STOP, and the lines as inputs: neither leaves the run.    *)
GpioStop ==
  /\ Running({"stop"})
  /\ \/ Reachable /\ UNCHANGED <<own, faults>>
     \/ faults < MaxFaults /\ faults' = faults + 1 /\ own' = [own EXCEPT !.stop_ok = FALSE]
  /\ Advance /\ Frame /\ UNCHANGED <<hw, settled, snapshot>>

(* Mutant: the lines count as released whatever came of it.                *)
GpioInputsAssumed ==
  /\ Running({"inputs"})
  /\ own' = [own EXCEPT !.released = TRUE]
  /\ \/ Switch("lines", "in") /\ UNCHANGED faults
     \/ faults < MaxFaults /\ faults' = faults + 1 /\ UNCHANGED <<hw, settled>>
  /\ Advance /\ Frame /\ UNCHANGED snapshot

GpioInputs ==
  /\ Running({"inputs"})
  /\ \/ /\ Switch("lines", "in") /\ own' = [own EXCEPT !.released = TRUE]
        /\ UNCHANGED faults
     \/ faults < MaxFaults /\ faults' = faults + 1 /\ UNCHANGED <<hw, settled, own>>
  /\ Advance /\ Frame /\ UNCHANGED snapshot

GpioVerdict ==
  /\ Running({"verdict"})
  /\ \/ own.read_ok /\ own.stop_ok /\ own.released /\ Advance /\ UNCHANGED <<snapshot, own, faults>>
     \/ own.read_ok /\ ~(own.stop_ok /\ own.released) /\ LeaveRun(TRUE) /\ UNCHANGED faults
     \/ ~own.read_ok /\ LeaveRun(FALSE) /\ UNCHANGED faults
     \/ own.read_ok /\ faults < MaxFaults /\ faults' = faults + 1 /\ LeaveRun(TRUE)
  /\ Frame /\ UNCHANGED <<hw, settled>>

-----------------------------------------------------------------------------
(* cleanup_: every step is tried, whatever became of the one before.       *)

Cleaning(d) == pc = "cleanup" /\ Now.do = d
CleanFrame  == Advance /\ UNCHANGED <<page, cancel_requested, snapshot, runs, calm>>
CleanOk     == UNCHANGED <<faults, clean>>
CleanFault  == faults < MaxFaults /\ faults' = faults + 1 /\ clean' = FALSE

(* A live Grove channel is reached through the Grove bus; the wait for the *)
(* bus is a delay_, which a cancellation cuts short.                       *)
RecoverMux ==
  /\ Cleaning("recover_mux")
  /\ \/ ~own.i2c /\ CleanOk /\ UNCHANGED <<hw, settled>>
     \/ /\ own.i2c /\ CleanOk
        /\ hw' = [hw EXCEPT !.mux = "GROVE"]
        /\ settled' = (~cancel_requested \/ (settled /\ hw.mux = "GROVE"))
     \/ own.i2c /\ CleanFault /\ (Switch("mux", "GROVE") \/ UNCHANGED <<hw, settled>>)
  /\ CleanFrame /\ UNCHANGED own

RecoverChannel(w) ==
  /\ Cleaning(IF w = "i2c" THEN "recover_i2c" ELSE "recover_uart")
  /\ \/ ~own[w] /\ CleanOk /\ UNCHANGED hw
     \/ own[w] /\ Reachable /\ CleanOk /\ hw' = Flipped(w)
     \/ own[w] /\ (CleanFault \/ (~Reachable /\ CleanOk)) /\ UNCHANGED hw
  /\ own' = [own EXCEPT ![w] = FALSE]
  /\ CleanFrame /\ UNCHANGED settled

CleanSet ==
  /\ Cleaning("set")
  /\ \/ Switch(Now.what, Now.to) /\ CleanOk
     \/ CleanFault /\ (Switch(Now.what, Now.to) \/ UNCHANGED <<hw, settled>>)
  /\ CleanFrame /\ UNCHANGED own

CleanStop == Cleaning("stop") /\ CleanOk /\ CleanFrame /\ UNCHANGED <<hw, settled, own>>

CleanPins ==
  /\ Cleaning("pins")
  /\ \/ KnownPins("GPIO") /\ CleanOk /\ UNCHANGED <<hw, settled, own>>
     \/ /\ ~KnownPins("GPIO") /\ CleanOk
        /\ Switch("pins", "GPIO") /\ own' = [own EXCEPT !.known = "GPIO"]
     \/ /\ ~KnownPins("GPIO") /\ CleanFault /\ UNCHANGED own
        /\ Switch("pins", "GPIO") \/ UNCHANGED <<hw, settled>>
  /\ CleanFrame

CleanInputs ==
  /\ Cleaning("inputs")
  /\ \/ own.released /\ CleanOk /\ UNCHANGED <<hw, settled, own>>
     \/ /\ ~own.released /\ CleanOk
        /\ Switch("lines", "in") /\ own' = [own EXCEPT !.released = TRUE]
     \/ ~own.released /\ CleanFault /\ UNCHANGED <<hw, settled, own>>
  /\ CleanFrame

(* Mutant: a canceled run is not told apart.                               *)
VerdictOfPassed == IF items[8] = "PASSED" THEN "PASSED" ELSE state

(* The UART is closed and run_    publishes its verdict, unless it was     *)
(* left before the first item: then it returns without one.                *)
Verdict ==
  IF items[1] = "PENDING" THEN state
  ELSE IF cancel_requested THEN "CANCELED"
  ELSE IF items[8] = "PASSED" THEN "PASSED" ELSE state

EndRun ==
  /\ Cleaning("close")
  /\ pc' = "over" /\ at' = 0 /\ count' = 0
  /\ state' = Verdict
  /\ UNCHANGED <<hw, settled, page, items, active_item, cancel_requested, own, faults, history>>

-----------------------------------------------------------------------------
(* The page.                                                               *)

(* Enter: start() if the snapshot is IDLE.                                 *)
Start ==
  /\ page = "open" /\ state = "IDLE"
  /\ state' = "RUNNING" /\ cancel_requested' = FALSE
  /\ pc' = "run" /\ at' = 1 /\ count' = 0
  /\ UNCHANGED <<hw, settled, page, items, active_item, own, faults, history>>

(* Back, or a verdict: cancel() reads the run state ...                    *)
Leave ==
  /\ page = "open"
  /\ page' = IF state = "RUNNING" THEN "leaving" ELSE "joining"
  /\ UNCHANGED <<hw, settled, worker, snapshot, cancel_requested, own, faults, history>>

(* ... and then sets the flag, whatever the run has become since.          *)
Cancel ==
  /\ page = "leaving"
  /\ cancel_requested' = TRUE /\ calm' = FALSE
  /\ page' = "joining"
  /\ UNCHANGED <<hw, settled, worker, snapshot, own, faults, runs, clean>>

Fresh ==
  [i2c |-> FALSE, uart |-> FALSE, known |-> "unknown", released |-> FALSE,
   read_ok |-> TRUE, stop_ok |-> TRUE]

(* The destructor: the interface waits for the worker; then the model is   *)
(* gone too.                                                               *)
Join ==
  /\ page = "joining" /\ pc \in {"none", "over"}
  /\ page' = "gone" /\ pc' = "none" /\ at' = 0 /\ count' = 0
  /\ state' = "IDLE" /\ items' = [i \in Items |-> "PENDING"] /\ active_item' = 7
  /\ cancel_requested' = FALSE
  /\ own' = Fresh
  /\ UNCHANGED <<hw, settled, faults, history>>

(* A new page has a new model; the hardware is as it was left.             *)
Open ==
  /\ page = "gone" /\ runs < MaxRuns
  /\ runs' = runs + 1
  /\ page' = "open"
  /\ UNCHANGED <<hw, settled, worker, snapshot, cancel_requested, own, faults, clean, calm>>

(* The host is started, and no page has been opened.                       *)
Init ==
  /\ hw = [mux |-> "HAT", ext5v |-> "off", grove5v |-> "off", pins |-> "GPIO",
           lines |-> "in", i2c |-> "HAT", uart |-> "HAT"]
  /\ settled = TRUE
  /\ page = "gone" /\ pc = "none" /\ at = 0 /\ count = 0
  /\ state = "IDLE" /\ items = [i \in Items |-> "PENDING"] /\ active_item = 7
  /\ cancel_requested = FALSE
  /\ own = Fresh
  /\ runs = 0 /\ faults = 0 /\ clean = TRUE /\ calm = TRUE

Run ==
  \/ Canceled \/ Fault \/ BeginItem \/ PassItem \/ Exchange \/ DelayEnds \/ SetSwitch
  \/ Toggle \/ ComeHome \/ SelectPins \/ Drive \/ PollAgain \/ Reset \/ Find
  \/ GpioStop \/ GpioInputs \/ GpioVerdict

CleanStep ==
  \/ RecoverMux \/ RecoverChannel("i2c") \/ CleanSet \/ RecoverChannel("uart") \/ CleanStop
  \/ CleanPins \/ CleanInputs \/ EndRun

Next == Run \/ CleanStep \/ Start \/ Leave \/ Cancel \/ Join \/ Open

(* The worker is a thread and the interface is a loop: both go on.         *)
Fairness == WF_vars(Run \/ CleanStep) /\ WF_vars(Cancel) /\ WF_vars(Join)
Spec == Init /\ [][Next]_vars /\ Fairness

-----------------------------------------------------------------------------
(* Properties.                                                             *)

(* Type of the worker's, the page's and the hardware's state.              *)
TypeOK ==
  /\ hw \in [mux : {"HAT", "GROVE"}, ext5v : {"on", "off"}, grove5v : {"on", "off"},
             pins : {"GPIO", "USB"}, lines : {"in", "out"},
             i2c : {"HAT", "GROVE"}, uart : {"HAT", "GROVE"}]
  /\ page \in {"open", "leaving", "joining", "gone"}
  /\ \/ pc \in {"none", "over"} /\ at = 0
     \/ pc = "run" /\ at \in DOMAIN Script
     \/ pc = "cleanup" /\ at \in DOMAIN CleanUp
  /\ state \in {"IDLE", "RUNNING", "PASSED", "FAILED", "CANCELED"}
  /\ items \in [Items -> {"PENDING", "RUNNING", "PASSED", "FAILED"}]
  /\ active_item \in Items
  /\ count <= MaxPolls + ResetAttempts /\ faults <= MaxFaults /\ runs <= MaxRuns

(* run_: a register of the CAP is only used while the host reaches it, and *)
(* over the Grove bus only after the bus has settled.  (The reset is what  *)
(* finds out whether the last run left the CAP in reach.)                  *)
ControlReachable ==
  Running(CapOps \ {"reset"}) /\ Heeds => Reachable /\ (hw.mux = "GROVE" => settled)

(* begin_item_, pass_item_, fail_: an item is touched only when all before *)
(* it have passed, so at most one has failed or is running.                *)
ItemsInOrder ==
  items[1] # "PENDING" =>
    \A i, j \in Items : i < j /\ items[j] # "PENDING" => items[i] = "PASSED"

(* run_: PASSED means that every check has passed, and is only said once   *)
(* the hardware has been restored as far as it could be.                   *)
PassedIsComplete ==
  state = "PASSED" => pc = "over" /\ \A i \in Items : items[i] = "PASSED"

(* run_: a run that got as far as its first item ends with a verdict.      *)
EndedIsTold == pc = "over" /\ items[1] # "PENDING" => state # "RUNNING"

(* cleanup_: after any run, canceled or failed at any point, in which every*)
(* step of every cleanup so far worked, the power outputs are off, the     *)
(* lines are inputs, the pins are GPIOs and the bus is on HAT; and without *)
(* a cancellation, the CAP's channels are on HAT too.                      *)
Restored ==
  pc = "over" /\ clean =>
    /\ hw.ext5v = "off" /\ hw.grove5v = "off" /\ hw.lines = "in"
    /\ hw.pins = "GPIO" /\ hw.mux = "HAT"
    /\ calm => hw.i2c = "HAT" /\ hw.uart = "HAT"

(* run_gpio_: the lines are driven only while the pins are GPIOs: never    *)
(* against the USB function.                                               *)
DrivenAsGpio == [][hw.lines = "in" /\ hw'.lines = "out" => hw.pins = "GPIO"]_vars

(* cleanup_, line 1140: "grove_fun kept LOW; CAP control I2C remains on    *)
(* HAT".  Not so when the run was canceled between the 0x08 that comes back*)
(* and the end of its delays: the cleanup toggles once more.               *)
ControlRemainsOnHat ==
  [][Cleaning("set") /\ Now.what = "mux" /\ clean /\ clean' => hw'.i2c = "HAT"]_vars

(* The state is of its types, and the items agree with the run.            *)
Inv == TypeOK /\ ItemsInOrder /\ PassedIsComplete /\ EndedIsTold
=============================================================================
