-------------------------- MODULE TestPagesProofs --------------------------
(***************************************************************************)
(* Proofs about the test pages.  One page is open in a behaviour, and a    *)
(* step of PagesNext is a step of that page, so that each page has an      *)
(* inductive invariant of its own.                                         *)
(*                                                                         *)
(* The IR pages take turns with one session.  What it hands out and what   *)
(* waits in it are told from all that it read: the changes among those     *)
(* signals, in their order.                                                *)
(***************************************************************************)
EXTENDS TestPages, Induction

-----------------------------------------------------------------------------
(* Py32Upgrade.                                                            *)

LastCheck == Len(Py32!Checks)

(* The checks by name, and how many there are.                             *)
CheckNames == {Py32!Checks[i] : i \in 1 .. LastCheck}

(* The types, and no thread was assigned to while it ran.                  *)
FlagsTyped ==
  /\ joinable \in BOOLEAN /\ tempdir \in BOOLEAN /\ py_snapshot \in BOOLEAN
  /\ handled \in BOOLEAN /\ py_nav \in BOOLEAN /\ py_dialog \in BOOLEAN
  /\ crashed = FALSE
UpgradeTyped ==
  /\ at \in 0 .. (LastCheck + 4) /\ passed \subseteq CheckNames
  /\ firmware \in {"old", "partial", "target"}
  /\ job \in [running : BOOLEAN, done : BOOLEAN, success : BOOLEAN]
  /\ ui \in {"idle", "drawn", "joining", "gone"}
  /\ started \in 0 .. MaxUpgrades /\ reboots \in 0 .. started

(* Where the worker is tells what has been passed and what was told: done  *)
(* follows running, and both follow the result.                            *)
WorkerPlaced ==
  /\ \A i \in 1 .. LastCheck : at \in 1 .. (LastCheck + 2) /\ i < at => Py32!Checks[i] \in passed
  /\ at \in {0, LastCheck + 4} => ~job.running
  /\ at # 0 => ~job.done /\ started # 0
  /\ job.done => started # 0
  /\ job.success =>
       /\ at \in {0, LastCheck + 3, LastCheck + 4} /\ firmware = "target"
       /\ \A i \in 1 .. LastCheck : Py32!Checks[i] \in passed

(* What the page has read is still so; it gives the navigation back and    *)
(* reboots once for each upgrade; it joins only to start one more.         *)
PagePlaced ==
  /\ ui = "drawn" /\ py_snapshot => job.success
  /\ ui = "joining" => started < MaxUpgrades
  /\ ui = "gone" => py_nav
  /\ py_nav => ~job.running
  /\ ~handled /\ started # 0 => reboots < started

UInv == FlagsTyped /\ UpgradeTyped /\ WorkerPlaced /\ PagePlaced

(* There are ten checks.                                                   *)
LEMMA TenChecks == LastCheck = 10 /\ DOMAIN Py32!Checks = 1 .. LastCheck
BY DEF LastCheck, Py32!Checks

(* It tells all that UpgradeInv does.                                      *)
LEMMA UInvGivesInv == ASSUME UInv PROVE UpgradeInv
<1>1. Py32!TypeOK
  BY TenChecks DEF UInv, FlagsTyped, UpgradeTyped, CheckNames, Py32!TypeOK, Py32!Stopped, LastCheck
<1>2. Py32!NoTerminate
  BY DEF UInv, FlagsTyped, Py32!NoTerminate
<1>3. Py32!NeverLeavesRunning
  BY DEF UInv, PagePlaced, Py32!NeverLeavesRunning
<1> QED
  BY <1>1, <1>2, <1>3 DEF UpgradeInv, Py32!Inv

(* It holds before the first upgrade.                                      *)
LEMMA InitUInv == ASSUME Py32!Init PROVE UInv
<1>1. MaxUpgrades \in Nat
  BY PagesAssumption DEF Py32!UpgradesAssumption
<1>2. job = [running |-> FALSE, done |-> FALSE, success |-> FALSE]
  BY DEF Py32!Init, Py32!Fresh
<1>3. UpgradeTyped
  BY <1>1, <1>2, TenChecks DEF Py32!Init, UpgradeTyped
<1>6. FlagsTyped
  BY DEF Py32!Init, FlagsTyped
<1>4. WorkerPlaced
  BY <1>2, TenChecks DEF Py32!Init, WorkerPlaced
<1>5. PagePlaced
  BY <1>2 DEF Py32!Init, PagePlaced
<1> QED
  BY <1>3, <1>4, <1>5, <1>6 DEF UInv

(* A step of the worker leaves the page alone, a result what was passed.   *)
PageKept ==
  /\ joinable' = joinable /\ ui' = ui /\ py_snapshot' = py_snapshot /\ handled' = handled
  /\ py_nav' = py_nav /\ py_dialog' = py_dialog /\ reboots' = reboots /\ started' = started
  /\ crashed' = crashed

(* The worker stores a result: what it says of success is true.            *)
LEMMA ResultKeepsUInv ==
  ASSUME UInv, at \in 1 .. (LastCheck + 2), at' = LastCheck + 3, tempdir' = FALSE,
         job' \in [running : BOOLEAN, done : BOOLEAN, success : BOOLEAN],
         job'.running = job.running, job'.done = job.done,
         job'.success => at = LastCheck + 2 /\ firmware' = "target",
         firmware' \in {"old", "partial", "target"},
         passed' = passed, PageKept
  PROVE  UInv'
<1>1. ~job.success
  BY TenChecks DEF UInv, WorkerPlaced
<1>2. UpgradeTyped'
  BY TenChecks DEF UInv, UpgradeTyped, PageKept
<1>5. FlagsTyped'
  BY DEF UInv, FlagsTyped, PageKept
<1>3. WorkerPlaced'
  BY TenChecks DEF UInv, WorkerPlaced, PageKept
<1>4. PagePlaced'
  BY <1>1 DEF UInv, PagePlaced, PageKept
<1> QED
  BY <1>2, <1>3, <1>4, <1>5 DEF UInv

(* job with another success flag.                                          *)
LEMMA ResultStored ==
  ASSUME UInv, NEW ok \in BOOLEAN, Py32!Result(ok)
  PROVE  /\ at' = LastCheck + 3 /\ tempdir' = FALSE
         /\ job' \in [running : BOOLEAN, done : BOOLEAN, success : BOOLEAN]
         /\ job'.running = job.running /\ job'.done = job.done /\ job'.success = ok
BY DEF Py32!Result, Py32!Over, LastCheck, UInv, UpgradeTyped

(* What failed left no success behind.                                     *)
LEMMA FailureKeepsUInv ==
  ASSUME UInv, at \in 1 .. (LastCheck + 2), Py32!Result(FALSE), passed' = passed, PageKept,
         firmware' \in {"old", "partial", "target"}
  PROVE  UInv'
<1>1. at' = LastCheck + 3 /\ tempdir' = FALSE
  BY ResultStored
<1>2. /\ job' \in [running : BOOLEAN, done : BOOLEAN, success : BOOLEAN]
      /\ job'.running = job.running /\ job'.done = job.done
  BY ResultStored
<1>3. job'.success => at = LastCheck + 2 /\ firmware' = "target"
  BY ResultStored
<1> QED
  BY <1>1, <1>2, <1>3, ResultKeepsUInv

(* The worker's steps.                                                     *)
LEMMA WorkerKeepsUInv == ASSUME UInv, Py32!Worker PROVE UInv'
<1> USE TenChecks
<1>0. FlagsTyped /\ UpgradeTyped /\ WorkerPlaced /\ PagePlaced
  BY DEF UInv
<1>1. ASSUME NEW ok \in BOOLEAN, Py32!Check(ok) PROVE UInv'
  <2>1. at \in 1 .. LastCheck
    BY <1>1 DEF Py32!Check, LastCheck
  <2>2. UNCHANGED <<firmware, joinable, ui, py_snapshot, handled, py_nav, py_dialog, reboots,
                    started, crashed>>
    BY <1>1 DEF Py32!Check, Py32!page
  <2>3. CASE ok
    <3>1. at' = at + 1 /\ passed' = passed \cup {Py32!Checks[at]} /\ job' = job
      BY <1>1, <2>3 DEF Py32!Check
    <3>2. tempdir' \in BOOLEAN
      <4>1. tempdir' = (tempdir \/ Py32!Checks[at] = "temporary directory")
        BY <1>1, <2>3 DEF Py32!Check
      <4> QED
        BY <4>1, <1>0, Zenon DEF FlagsTyped
    <3>7. FlagsTyped'
      BY <1>0, <2>2, <3>2 DEF FlagsTyped
    <3>6. passed' \subseteq CheckNames
      BY <1>0, <2>1, <3>1 DEF UpgradeTyped, CheckNames
    <3>3. UpgradeTyped'
      BY <1>0, <2>1, <2>2, <3>1, <3>6 DEF UpgradeTyped
    <3>4. WorkerPlaced'
      BY <1>0, <2>1, <2>2, <3>1 DEF WorkerPlaced
    <3>5. PagePlaced'
      BY <1>0, <2>2, <3>1 DEF PagePlaced
    <3> QED
      BY <3>3, <3>4, <3>5, <3>7 DEF UInv
  <2>4. CASE ~ok
    <3>1. Py32!Result(FALSE) /\ UNCHANGED passed
      BY <1>1, <2>4 DEF Py32!Check
    <3>2. firmware' \in {"old", "partial", "target"}
      BY <1>0, <2>2 DEF UpgradeTyped
    <3> QED
      <4>1. at \in 1 .. (LastCheck + 2)
        BY <2>1
      <4>2. PageKept /\ passed' = passed
        BY <2>2, <3>1 DEF PageKept
      <4> QED
        BY <3>1, <3>2, <4>1, <4>2, FailureKeepsUInv
  <2> QED
    BY <2>3, <2>4
<1>2. ASSUME NEW ok \in BOOLEAN, NEW chip \in {"old", "partial", "target"},
             Py32!Programmed(ok, chip)
      PROVE  UInv'
  <2>1. /\ at = LastCheck + 1 /\ firmware' = chip
        /\ UNCHANGED <<passed, joinable, ui, py_snapshot, handled, py_nav, py_dialog, reboots,
                       started, crashed>>
    BY <1>2 DEF Py32!Programmed, Py32!page, Py32!Program, LastCheck
  <2>2. CASE ok
    <3>1. at' = LastCheck + 2 /\ tempdir' = tempdir /\ job' = job
      BY <1>2, <2>2 DEF Py32!Programmed, Py32!ReadBack, LastCheck
    <3>5. FlagsTyped'
      BY <1>0, <2>1, <3>1 DEF FlagsTyped
    <3>2. UpgradeTyped'
      BY <1>0, <1>2, <2>1, <3>1 DEF UpgradeTyped
    <3>3. WorkerPlaced'
      BY <1>0, <2>1, <3>1 DEF WorkerPlaced
    <3>4. PagePlaced'
      BY <1>0, <2>1, <3>1 DEF PagePlaced
    <3> QED
      BY <3>2, <3>3, <3>4, <3>5 DEF UInv
  <2>3. CASE ~ok
    <3>1. Py32!Result(FALSE)
      BY <1>2, <2>3 DEF Py32!Programmed
    <3> QED
      <4>1. at \in 1 .. (LastCheck + 2) /\ firmware' \in {"old", "partial", "target"}
        BY <2>1, <1>2
      <4>2. PageKept /\ passed' = passed
        BY <2>1 DEF PageKept
      <4> QED
        BY <3>1, <4>1, <4>2, FailureKeepsUInv
  <2> QED
    BY <2>2, <2>3
<1>3. CASE Py32!Verified
  <2>1. /\ at = LastCheck + 2 /\ Py32!Result(firmware = "target")
        /\ UNCHANGED <<passed, firmware, joinable, ui, py_snapshot, handled, py_nav, py_dialog,
                       reboots, started, crashed>>
    BY <1>3 DEF Py32!Verified, Py32!page, Py32!ReadBack, LastCheck
  <2>2. firmware' \in {"old", "partial", "target"} /\ firmware' = firmware
    BY <1>0, <2>1 DEF UpgradeTyped
  <2>3. /\ at' = LastCheck + 3 /\ tempdir' = FALSE
        /\ job' \in [running : BOOLEAN, done : BOOLEAN, success : BOOLEAN]
        /\ job'.running = job.running /\ job'.done = job.done
        /\ job'.success <=> firmware = "target"
    <3>1. (firmware = "target") \in BOOLEAN
      OBVIOUS
    <3> QED
      BY <2>1, <3>1, ResultStored
  <2> QED
    <3>1. PageKept /\ passed' = passed
      BY <2>1 DEF PageKept
    <3>2. at \in 1 .. (LastCheck + 2)
      BY <2>1
    <3>3. job'.success => at = LastCheck + 2 /\ firmware' = "target"
      BY <2>1, <2>2, <2>3
    <3> QED
      BY <2>2, <2>3, <3>1, <3>2, <3>3, ResultKeepsUInv
<1>4. CASE Py32!WorkerStops
  <2>1. /\ at = LastCheck + 3 /\ at' = LastCheck + 4 /\ job' = [job EXCEPT !.running = FALSE]
        /\ UNCHANGED <<passed, tempdir, firmware, joinable, ui, py_snapshot, handled, py_nav,
                       py_dialog, reboots, started, crashed>>
    BY <1>4 DEF Py32!WorkerStops, Py32!page, Py32!Over, Py32!Stopped, LastCheck
  <2>2. /\ job' \in [running : BOOLEAN, done : BOOLEAN, success : BOOLEAN]
        /\ ~job'.running /\ job'.done = job.done /\ job'.success = job.success
    BY <1>0, <2>1 DEF UpgradeTyped
  <2>6. FlagsTyped'
    BY <1>0, <2>1 DEF FlagsTyped
  <2>3. UpgradeTyped'
    BY <1>0, <2>1, <2>2 DEF UpgradeTyped
  <2>4. WorkerPlaced'
    BY <1>0, <2>1, <2>2 DEF WorkerPlaced
  <2>5. PagePlaced'
    BY <1>0, <2>1, <2>2 DEF PagePlaced
  <2> QED
    BY <2>3, <2>4, <2>5, <2>6 DEF UInv
<1>5. CASE Py32!WorkerDone
  <2>1. /\ at = LastCheck + 4 /\ at' = 0 /\ job' = [job EXCEPT !.done = TRUE]
        /\ UNCHANGED <<passed, tempdir, firmware, joinable, ui, py_snapshot, handled, py_nav,
                       py_dialog, reboots, started, crashed>>
    BY <1>5 DEF Py32!WorkerDone, Py32!page, Py32!Stopped, LastCheck
  <2>2. /\ job' \in [running : BOOLEAN, done : BOOLEAN, success : BOOLEAN]
        /\ job'.running = job.running /\ job'.done /\ job'.success = job.success
    BY <1>0, <2>1 DEF UpgradeTyped
  <2>6. FlagsTyped'
    BY <1>0, <2>1 DEF FlagsTyped
  <2>3. UpgradeTyped'
    BY <1>0, <2>1, <2>2 DEF UpgradeTyped
  <2>4. WorkerPlaced'
    BY <1>0, <2>1, <2>2 DEF WorkerPlaced
  <2>5. PagePlaced'
    BY <1>0, <2>1, <2>2 DEF PagePlaced
  <2> QED
    BY <2>3, <2>4, <2>5, <2>6 DEF UInv
<1>6. firmware \in {"old", "partial", "target"}
  BY <1>0 DEF UpgradeTyped
<1> QED
  BY <1>1, <1>2, <1>3, <1>4, <1>5, <1>6 DEF Py32!Worker

(* The page's steps.                                                       *)
LEMMA PageKeepsUInv ==
  ASSUME UInv,
         \/ Py32!ShowDialog \/ Py32!CancelDialog \/ Py32!Confirm \/ Py32!Start
         \/ Py32!Refresh \/ Py32!RefreshSecond \/ Py32!Leave
  PROVE  UInv'
<1> USE TenChecks
<1>0. FlagsTyped /\ UpgradeTyped /\ WorkerPlaced /\ PagePlaced
  BY DEF UInv
<1>1. CASE Py32!Start
  <2>1. /\ ui = "joining" /\ (~joinable \/ at = 0) /\ ui' = "idle" /\ joinable' = TRUE
        /\ at' = 1 /\ passed' = {} /\ handled' = FALSE /\ py_nav' = FALSE
        /\ UNCHANGED <<tempdir, firmware, py_snapshot, py_dialog, reboots>>
    BY <1>1 DEF Py32!Start, Py32!StartIf
  <2>2. started' = started + 1 /\ started < MaxUpgrades
    BY <1>0, <1>1, <2>1 DEF Py32!Start, Py32!StartIf, PagePlaced
  <2>3. /\ job' \in [running : BOOLEAN, done : BOOLEAN, success : BOOLEAN]
        /\ job'.running /\ ~job'.done /\ ~job'.success
    BY <1>1 DEF Py32!Start, Py32!StartIf, Py32!Fresh
  <2>4. crashed' = FALSE
    <3>1. crashed' = (crashed \/ (joinable /\ at # 0))
      BY <1>1 DEF Py32!Start, Py32!StartIf
    <3> QED
      BY <1>0, <2>1, <3>1, Zenon DEF FlagsTyped
  <2>5. FlagsTyped'
    BY <1>0, <2>1, <2>4 DEF FlagsTyped
  <2>6. UpgradeTyped'
    <3>1. at' \in 0 .. (LastCheck + 4) /\ passed' \subseteq CheckNames'
      BY <2>1
    <3>2. MaxUpgrades \in Nat
      BY PagesAssumption DEF Py32!UpgradesAssumption
    <3>3. started' \in 0 .. MaxUpgrades /\ reboots' \in 0 .. started'
      BY <1>0, <2>1, <2>2, <3>2 DEF UpgradeTyped
    <3> QED
      BY <1>0, <2>1, <2>3, <3>1, <3>3 DEF UpgradeTyped
  <2>7. WorkerPlaced'
    BY <1>0, <2>1, <2>2, <2>3 DEF WorkerPlaced, UpgradeTyped
  <2>8. PagePlaced'
    BY <1>0, <2>1, <2>2, <2>3 DEF PagePlaced, UpgradeTyped
  <2> QED
    BY <2>5, <2>6, <2>7, <2>8 DEF UInv
<1>2. ASSUME UNCHANGED <<at, passed, tempdir, firmware, job, joinable, started, crashed>>,
             UNCHANGED <<handled, py_nav, reboots, py_snapshot>>,
             \/ ui' = "idle"
             \/ ui' = "joining" /\ started < MaxUpgrades
             \/ ui' = "gone" /\ py_nav,
             py_dialog' \in BOOLEAN
      PROVE  UInv'
  <2>1. FlagsTyped'
    BY <1>0, <1>2 DEF FlagsTyped
  <2>2. UpgradeTyped'
    BY <1>0, <1>2 DEF UpgradeTyped
  <2>3. WorkerPlaced'
    BY <1>0, <1>2 DEF WorkerPlaced
  <2>4. PagePlaced'
    BY <1>0, <1>2 DEF PagePlaced
  <2> QED
    BY <2>1, <2>2, <2>3, <2>4 DEF UInv
<1>3. CASE Py32!ShowDialog \/ Py32!CancelDialog \/ Py32!Confirm
  <2>1. CASE Py32!ShowDialog
    <3>1. /\ UNCHANGED <<at, passed, tempdir, firmware, job, joinable, started, crashed>>
          /\ UNCHANGED <<handled, py_nav, reboots, py_snapshot>> /\ ui' = "idle"
      BY <2>1 DEF Py32!ShowDialog, Py32!worker
    <3>2. py_dialog' \in BOOLEAN
      BY <2>1 DEF Py32!ShowDialog
    <3> QED
      BY <1>2, <3>1, <3>2
  <2>2. CASE Py32!CancelDialog
    <3>1. /\ UNCHANGED <<at, passed, tempdir, firmware, job, joinable, started, crashed>>
          /\ UNCHANGED <<handled, py_nav, reboots, py_snapshot>> /\ ui' = "idle"
      BY <2>2 DEF Py32!CancelDialog, Py32!worker
    <3>2. py_dialog' \in BOOLEAN
      BY <2>2 DEF Py32!CancelDialog
    <3> QED
      BY <1>2, <3>1, <3>2
  <2>3. CASE Py32!Confirm
    BY <1>2, <2>3 DEF Py32!Confirm, Py32!worker
  <2> QED
    BY <1>3, <2>1, <2>2, <2>3
<1>4. CASE Py32!Leave \/ Py32!RefreshEnds
  <2>1. CASE Py32!Leave
    BY <1>0, <1>2, <2>1 DEF Py32!Leave, Py32!worker, FlagsTyped
  <2>2. CASE Py32!RefreshEnds
    <3>1. /\ UNCHANGED <<at, passed, tempdir, firmware, job, joinable, started, crashed>>
          /\ UNCHANGED <<handled, py_nav, reboots, py_snapshot>> /\ ui' = "idle"
      BY <2>2 DEF Py32!RefreshEnds, Py32!worker
    <3>2. py_dialog' \in BOOLEAN
      BY <1>0, <2>2 DEF Py32!RefreshEnds, FlagsTyped
    <3> QED
      BY <1>2, <3>1, <3>2
  <2> QED
    BY <1>4, <2>1, <2>2
<1>5. CASE Py32!Refresh
  <2>1. /\ ui' = "drawn" /\ py_snapshot' = job.success
        /\ UNCHANGED <<at, passed, tempdir, firmware, job, joinable, started, crashed, handled,
                       py_nav, py_dialog, reboots>>
    BY <1>5 DEF Py32!Refresh, Py32!worker
  <2>2. py_snapshot' \in BOOLEAN
    BY <1>0, <2>1 DEF UpgradeTyped
  <2>3. FlagsTyped'
    BY <1>0, <2>1, <2>2 DEF FlagsTyped
  <2>4. UpgradeTyped'
    BY <1>0, <2>1 DEF UpgradeTyped
  <2>5. WorkerPlaced'
    BY <1>0, <2>1 DEF WorkerPlaced
  <2>6. PagePlaced'
    BY <1>0, <2>1 DEF PagePlaced
  <2> QED
    BY <2>3, <2>4, <2>5, <2>6 DEF UInv
<1>6. CASE Py32!RefreshCompletes
  <2>1. /\ ui = "drawn" /\ job.done /\ ~handled /\ ui' = "idle" /\ handled' = TRUE
        /\ UNCHANGED <<at, passed, tempdir, firmware, job, joinable, started, crashed, py_snapshot>>
    BY <1>6 DEF Py32!RefreshCompletes, Py32!CompleteIf, Py32!worker
  <2>2. py_nav' = TRUE /\ py_dialog' \in BOOLEAN
    <3>1. py_nav' = (py_nav \/ TRUE) /\ py_dialog' = (py_dialog /\ ~py_snapshot)
      BY <1>6 DEF Py32!RefreshCompletes, Py32!CompleteIf
    <3> QED
      BY <3>1, Zenon
  <2>3. reboots' = reboots \/ reboots' = reboots + 1
    BY <1>6 DEF Py32!RefreshCompletes, Py32!CompleteIf
  <2>4. reboots < started /\ ~job.running
    BY <1>0, <2>1, PagesAssumption DEF WorkerPlaced, PagePlaced
  <2>5. FlagsTyped'
    BY <1>0, <2>1, <2>2 DEF FlagsTyped
  <2>6. UpgradeTyped'
    <3>1. started' \in 0 .. MaxUpgrades /\ reboots' \in 0 .. started'
      BY <1>0, <2>1, <2>3, <2>4 DEF UpgradeTyped
    <3> QED
      BY <1>0, <2>1, <3>1 DEF UpgradeTyped
  <2>7. WorkerPlaced'
    BY <1>0, <2>1 DEF WorkerPlaced
  <2>8. PagePlaced'
    BY <1>0, <2>1, <2>2, <2>4 DEF PagePlaced
  <2> QED
    BY <2>5, <2>6, <2>7, <2>8 DEF UInv
<1> QED
  BY <1>1, <1>3, <1>4, <1>5, <1>6 DEF Py32!RefreshSecond

(* Every step keeps it; a step of another page leaves it alone.            *)
LEMMA NextUInv == UInv /\ [PagesNext]_pagesVars => UInv'
<1> SUFFICES ASSUME UInv, [PagesNext]_pagesVars PROVE UInv'
  OBVIOUS
<1>1. CASE Py32!Next
  BY <1>1, WorkerKeepsUInv, PageKeepsUInv DEF Py32!Next
<1>2. CASE UNCHANGED py32
  <2>1. UNCHANGED <<at, joinable, passed, tempdir, firmware, job, ui, py_snapshot, handled,
                    py_nav, py_dialog, reboots, started, crashed>>
    BY <1>2 DEF py32
  <2> QED
    BY <2>1 DEF UInv, FlagsTyped, UpgradeTyped, WorkerPlaced, PagePlaced
<1> QED
  BY <1>1, <1>2 DEF PagesNext, pagesVars, KeyboardOnly, ReceiverOnly, FixtureOnly

(* No thread is assigned to while it runs, and the page is not left while  *)
(* an upgrade runs, for any number of upgrades: UpgradeInv.                *)
THEOREM UpgradeThm == PagesSpec => []UpgradeInv
<1>1. PagesInit => UInv
  BY InitUInv DEF PagesInit
<1>2. UInv => UpgradeInv
  BY UInvGivesInv
<1> QED
  BY <1>1, <1>2, NextUInv, PTL DEF PagesSpec

(* The device only reboots into the version that was verified, after every *)
(* check, whatever the upgrade command claimed: RebootIsVerified.          *)
THEOREM RebootThm == PagesSpec => Py32!RebootIsVerified
<1> DEFINE A == reboots' # reboots
                 => firmware = "target"
                    /\ passed = {Py32!Checks[i] : i \in DOMAIN Py32!Checks}
<1>1. UInv /\ [PagesNext]_pagesVars => [A]_(Py32!vars)
  <2> SUFFICES ASSUME UInv, [PagesNext]_pagesVars, reboots' # reboots PROVE A
    OBVIOUS
  <2>1. ui = "drawn" /\ py_snapshot
    <3>1. Py32!Next
      BY DEF PagesNext, pagesVars, KeyboardOnly, ReceiverOnly, FixtureOnly, py32
    <3> QED
      BY <3>1 DEF Py32!Next, Py32!Worker, Py32!Check, Py32!Programmed, Py32!Verified,
         Py32!WorkerStops, Py32!WorkerDone, Py32!ShowDialog, Py32!CancelDialog, Py32!Confirm,
         Py32!Start, Py32!StartIf, Py32!Refresh, Py32!RefreshSecond, Py32!RefreshEnds,
         Py32!RefreshCompletes, Py32!CompleteIf, Py32!Leave, Py32!page
  <2>2. firmware = "target" /\ \A i \in 1 .. LastCheck : Py32!Checks[i] \in passed
    BY <2>1 DEF UInv, PagePlaced, WorkerPlaced
  <2>3. passed \subseteq CheckNames
    BY DEF UInv, UpgradeTyped
  <2> QED
    BY <2>2, <2>3, TenChecks DEF CheckNames
<1>2. PagesInit => UInv
  BY InitUInv DEF PagesInit
<1> QED
  BY <1>1, <1>2, NextUInv, PTL DEF PagesSpec, Py32!RebootIsVerified

-----------------------------------------------------------------------------
(* KeyboardTest.                                                           *)

(* The actions belong to the layer on display, which a pending advance is  *)
(* from and the dialog stands over; a popup is of a key that may be held.  *)
LayerShown ==
  /\ active \in Keyboard!Layers /\ nav = active
  /\ timer # 0 => timer = active /\ timer # 3 /\ KeysOf[timer] \subseteq marked
  /\ dialog => active = 3 /\ popup = Keyboard!None
  /\ popup # Keyboard!None =>
       popup \in {Tab, Four} \/ (popup = Eight /\ active = 3)
HeldShown ==
  /\ held \in Keyboard!Keys \cup {Keyboard!None}
  /\ popup # Keyboard!None /\ open => popup = held

(* Progress is the number of marked keys.                                  *)
Progress ==
  /\ marked \subseteq Keyboard!Keys
  /\ counts = [l \in Keyboard!Layers |-> Cardinality(marked \cap KeysOf[l])]
  /\ evidence = (IF marked = {} THEN 0 ELSE 1)

YInv == LayerShown /\ HeldShown /\ Progress

(* Cardinality and finite sets are those of FiniteSets.                    *)
LEMMA SameCardinality == \A S : Keyboard!Cardinality(S) = Cardinality(S)
BY Zenon DEF Keyboard!Cardinality, Cardinality

(* The layers are finite, disjoint, and have the keys that are held.       *)
LEMMA LayersOfKeys ==
  /\ \A l \in Keyboard!Layers : IsFiniteSet(KeysOf[l])
  /\ \A l, m \in Keyboard!Layers : l # m => KeysOf[l] \cap KeysOf[m] = {}
  /\ {Tab, Four, Eight} \subseteq Keyboard!Keys
<1>1. \A S : Keyboard!IsFiniteSet(S) <=> IsFiniteSet(S)
  BY Zenon DEF Keyboard!IsFiniteSet, IsFiniteSet
<1> QED
  BY <1>1, PagesAssumption DEF Keyboard!LayersAssumption

(* What is marked on a layer is finite, and complete when it is as many as *)
(* the layer has.                                                          *)
LEMMA MarkedOnLayer ==
  ASSUME NEW l \in Keyboard!Layers, NEW S
  PROVE  /\ IsFiniteSet(S \cap KeysOf[l])
         /\ Cardinality(S \cap KeysOf[l]) \in Nat
         /\ Cardinality(S \cap KeysOf[l]) = 0 <=> S \cap KeysOf[l] = {}
         /\ Cardinality(S \cap KeysOf[l]) >= Cardinality(KeysOf[l]) => KeysOf[l] \subseteq S
<1>1. IsFiniteSet(KeysOf[l]) /\ S \cap KeysOf[l] \in SUBSET KeysOf[l]
  BY LayersOfKeys
<1>2. /\ IsFiniteSet(S \cap KeysOf[l])
      /\ Cardinality(S \cap KeysOf[l]) <= Cardinality(KeysOf[l])
      /\ Cardinality(KeysOf[l]) = Cardinality(S \cap KeysOf[l]) => KeysOf[l] = S \cap KeysOf[l]
  BY <1>1, FS_Subset
<1>3. Cardinality(S \cap KeysOf[l]) \in Nat /\ Cardinality(KeysOf[l]) \in Nat
  BY <1>1, <1>2, FS_CardinalityType
<1>4. Cardinality(S \cap KeysOf[l]) = 0 <=> S \cap KeysOf[l] = {}
  BY <1>2, FS_EmptySet
<1>5. Cardinality(S \cap KeysOf[l]) >= Cardinality(KeysOf[l]) => KeysOf[l] \subseteq S
  BY <1>2, <1>3
<1> QED
  BY <1>2, <1>3, <1>4, <1>5

(* It tells all that KeyboardInv does.                                     *)
LEMMA YInvGivesInv == ASSUME YInv PROVE KeyboardInv
<1>0. LayerShown /\ HeldShown /\ Progress
  BY DEF YInv
<1>1. counts = [l \in Keyboard!Layers |-> Keyboard!Cardinality(marked \cap KeysOf[l])]
  BY <1>0, SameCardinality DEF Progress
<1>2. timer \in {0} \cup Keyboard!Layers /\ nav \in Keyboard!Layers
  BY <1>0 DEF LayerShown
<1>3. popup \in {Keyboard!None, Tab, Four, Eight}
  BY <1>0 DEF LayerShown
<1>4. Keyboard!CountsAreOfKeys
  BY <1>0, <1>1, <1>2, <1>3 DEF LayerShown, HeldShown, Keyboard!CountsAreOfKeys
<1>5. Keyboard!EvidenceOnce
  BY <1>0 DEF Progress, Keyboard!EvidenceOnce
<1>6. Keyboard!DialogOnLastLayer
  BY <1>0 DEF LayerShown, Keyboard!DialogOnLastLayer
<1>7. Keyboard!PopupOfHeldKey
  BY <1>0 DEF HeldShown, Keyboard!PopupOfHeldKey
<1>8. Keyboard!AdvanceFromComplete
  BY <1>0 DEF LayerShown, Keyboard!AdvanceFromComplete
<1> QED
  BY <1>4, <1>5, <1>6, <1>7, <1>8 DEF KeyboardInv, Keyboard!Inv

(* It holds when the page is opened.                                       *)
LEMMA InitYInv == ASSUME Keyboard!Init PROVE YInv
<1>1. LayerShown
  BY DEF Keyboard!Init, LayerShown, Keyboard!Layers
<1>2. HeldShown
  BY DEF Keyboard!Init, HeldShown
<1>3. Progress
  <2>1. \A S : Cardinality({} \cap S) = 0
    <3>1. \A S : {} \cap S = {}
      OBVIOUS
    <3> QED
      BY <3>1, FS_EmptySet
  <2> QED
    BY <2>1 DEF Keyboard!Init, Progress
<1> QED
  BY <1>1, <1>2, <1>3 DEF YInv

(* mark_key_pressed_ counts a key once, tells the session of the first one,*)
(* and schedules an advance only from a layer that is complete.            *)
LEMMA MarkKeepsYInv ==
  ASSUME YInv, NEW k \in Keyboard!Keys, Keyboard!MarkKeyPressed(k), active' = active
  PROVE  /\ Progress'
         /\ timer' # 0 => timer' = active' /\ timer' # 3 /\ KeysOf[timer'] \subseteq marked'
<1>0. LayerShown /\ HeldShown /\ Progress
  BY DEF YInv
<1>1. PICK l \in Keyboard!Layers :
        /\ k \in KeysOf[l]
        /\ evidence' = IF Keyboard!FirstKey(k, l) THEN evidence + 1 ELSE evidence
        /\ marked' = marked \cup {k}
        /\ counts' = Keyboard!Counted(k, l)
        /\ Keyboard!Schedule(l)
  BY DEF Keyboard!MarkKeyPressed
<1>2. counts' = [m \in Keyboard!Layers |-> Cardinality(marked' \cap KeysOf[m])]
  <2>1. \A m \in Keyboard!Layers : m # l => marked' \cap KeysOf[m] = marked \cap KeysOf[m]
    BY <1>1, LayersOfKeys
  <2>2. CASE k \in marked
    <3>1. marked' = marked /\ counts' = counts
      BY <1>1, <2>2 DEF Keyboard!Counted
    <3> QED
      BY <1>0, <3>1 DEF Progress
  <2>3. CASE k \notin marked
    <3>1. counts' = [counts EXCEPT ![l] = counts[l] + 1]
      BY <1>1, <2>3 DEF Keyboard!Counted
    <3>2. marked' \cap KeysOf[l] = (marked \cap KeysOf[l]) \cup {k}
      BY <1>1
    <3>3. Cardinality(marked' \cap KeysOf[l]) = Cardinality(marked \cap KeysOf[l]) + 1
      BY <2>3, <3>2, MarkedOnLayer, FS_AddElement
    <3> QED
      BY <1>0, <1>1, <2>1, <3>1, <3>3 DEF Progress
  <2> QED
    BY <2>2, <2>3
<1>3. evidence' = (IF marked' = {} THEN 0 ELSE 1)
  <2>1. (\A m \in Keyboard!Layers : counts[m] = 0) <=> marked = {}
    <3>1. \A m \in Keyboard!Layers : counts[m] = 0 <=> marked \cap KeysOf[m] = {}
      BY <1>0, MarkedOnLayer DEF Progress
    <3>2. marked # {} => \E m \in Keyboard!Layers : marked \cap KeysOf[m] # {}
      BY <1>0 DEF Progress, Keyboard!Keys
    <3> QED
      BY <3>1, <3>2
  <2>2. Keyboard!FirstKey(k, l) <=> marked = {}
    BY <2>1 DEF Keyboard!FirstKey
  <2>3. marked' # {}
    BY <1>1
  <2> QED
    BY <1>0, <1>1, <2>2, <2>3 DEF Progress
<1>4. Progress'
  BY <1>0, <1>1, <1>2, <1>3 DEF Progress
<1>5. timer' # 0 => timer' = active' /\ timer' # 3 /\ KeysOf[timer'] \subseteq marked'
  <2>1. CASE timer' = timer
    BY <1>0, <1>1, <2>1 DEF LayerShown
  <2>2. CASE timer' # timer
    <3>1. timer' = l /\ l = active /\ Keyboard!NextLayer(l) # l /\ Keyboard!Complete(l, counts')
      BY <1>1, <2>2 DEF Keyboard!Schedule
    <3>2. KeysOf[l] \subseteq marked'
      BY <1>2, <3>1, SameCardinality, MarkedOnLayer DEF Keyboard!Complete
    <3> QED
      BY <3>1, <3>2 DEF Keyboard!NextLayer
  <2> QED
    BY <2>1, <2>2
<1> QED
  BY <1>4, <1>5

(* The page's steps.                                                       *)
LEMMA KeyboardKeepsYInv == ASSUME YInv, Keyboard!Next PROVE YInv'
<1>0. LayerShown /\ HeldShown /\ Progress
  BY DEF YInv
<1> USE DEF Keyboard!Layers
<1>1. ASSUME NEW k \in Keyboard!Keys, Keyboard!Press(k) PROVE YInv'
  <2>1. /\ open /\ ~dialog /\ held = Keyboard!None /\ held' = k
        /\ popup' = IF k \in Keyboard!HoldKeys THEN k ELSE popup
        /\ UNCHANGED <<active, nav, dialog, open>>
    BY <1>1 DEF Keyboard!Press
  <2>2. /\ Progress'
        /\ timer' # 0 => timer' = active' /\ timer' # 3 /\ KeysOf[timer'] \subseteq marked'
    BY <1>1, <2>1, MarkKeepsYInv DEF Keyboard!Press
  <2>3. popup = Keyboard!None
    BY <1>0, <2>1 DEF HeldShown
  <2>6. popup' # Keyboard!None => popup' \in {Tab, Four} \/ (popup' = Eight /\ active = 3)
    <3>1. k \in Keyboard!HoldKeys => k \in {Tab, Four} \/ (k = Eight /\ nav = 3)
      BY DEF Keyboard!HoldKeys
    <3>2. (popup' = k /\ k \in Keyboard!HoldKeys) \/ popup' = Keyboard!None
      BY <2>1, <2>3
    <3>3. nav = active
      BY <1>0 DEF LayerShown
    <3> QED
      BY <3>1, <3>2, <3>3
  <2>4. LayerShown'
    BY <1>0, <2>1, <2>2, <2>6 DEF LayerShown
  <2>5. HeldShown'
    BY <2>1, <2>3 DEF HeldShown
  <2> QED
    BY <2>2, <2>4, <2>5 DEF YInv
<1>2. ASSUME UNCHANGED <<marked, counts, evidence>> PROVE Progress'
  BY <1>0, <1>2 DEF Progress
<1>3. CASE Keyboard!Release
  <2>1. /\ open /\ held' = Keyboard!None
        /\ popup' = IF ~dialog /\ held \in Keyboard!HoldKeys THEN Keyboard!None ELSE popup
        /\ UNCHANGED <<active, marked, counts, timer, nav, evidence, dialog, open>>
    BY <1>3 DEF Keyboard!Release
  <2>2. popup' = Keyboard!None
    BY <1>0, <2>1 DEF LayerShown, HeldShown, Keyboard!HoldKeys
  <2>3. LayerShown'
    BY <1>0, <2>1, <2>2 DEF LayerShown
  <2>4. HeldShown'
    BY <2>1, <2>2 DEF HeldShown
  <2> QED
    BY <1>2, <2>1, <2>3, <2>4 DEF YInv
<1>4. CASE Keyboard!LongTab
  <2>1. /\ ~dialog /\ popup' = Keyboard!None
        /\ Keyboard!TransitionTo(Keyboard!NextCyclic(active))
        /\ UNCHANGED <<marked, counts, evidence, dialog, held, open>>
    BY <1>4 DEF Keyboard!LongTab
  <2>2. LayerShown'
    BY <1>0, <2>1 DEF LayerShown, Keyboard!TransitionTo, Keyboard!NextCyclic
  <2>3. HeldShown'
    BY <1>0, <2>1 DEF HeldShown
  <2> QED
    BY <1>2, <2>1, <2>2, <2>3 DEF YInv
<1>5. CASE Keyboard!LongEight
  <2>1. /\ nav = 3 /\ popup' = Keyboard!None
        /\ UNCHANGED <<active, marked, counts, timer, nav, evidence, held, open>>
    BY <1>5 DEF Keyboard!LongEight
  <2>2. LayerShown'
    BY <1>0, <2>1 DEF LayerShown
  <2>3. HeldShown'
    BY <1>0, <2>1 DEF HeldShown
  <2> QED
    BY <1>2, <2>1, <2>2, <2>3 DEF YInv
<1>6. CASE Keyboard!LongFour
  <2>1. /\ ~open' /\ popup' = Keyboard!None /\ timer' = 0
        /\ UNCHANGED <<active, marked, counts, nav, evidence, dialog, held>>
    BY <1>6 DEF Keyboard!LongFour
  <2>2. LayerShown'
    BY <1>0, <2>1 DEF LayerShown
  <2>3. HeldShown'
    BY <1>0, <2>1 DEF HeldShown
  <2> QED
    BY <1>2, <2>1, <2>2, <2>3 DEF YInv
<1>7. CASE Keyboard!CloseDialog
  <2>1. /\ dialog /\ ~dialog' /\ held' = Keyboard!None
        /\ UNCHANGED <<active, marked, counts, timer, nav, evidence, popup, open>>
    BY <1>7 DEF Keyboard!CloseDialog
  <2>2. LayerShown'
    BY <1>0, <2>1 DEF LayerShown
  <2>3. HeldShown'
    BY <1>0, <2>1 DEF LayerShown, HeldShown
  <2> QED
    BY <1>2, <2>1, <2>2, <2>3 DEF YInv
<1>8. CASE Keyboard!AutoAdvance
  <2>1. /\ timer # 0 /\ UNCHANGED <<marked, counts, evidence, popup, dialog, held, open>>
        /\ IF active = timer THEN Keyboard!TransitionTo(Keyboard!NextLayer(timer))
           ELSE timer' = 0 /\ UNCHANGED <<active, nav>>
    BY <1>8 DEF Keyboard!AutoAdvance
  <2>2. active = timer /\ active # 3
    BY <1>0, <2>1 DEF LayerShown
  <2>3. LayerShown'
    BY <1>0, <2>1, <2>2 DEF LayerShown, Keyboard!TransitionTo, Keyboard!NextLayer
  <2>4. HeldShown'
    BY <1>0, <2>1 DEF HeldShown
  <2> QED
    BY <1>2, <2>1, <2>3, <2>4 DEF YInv
<1> QED
  BY <1>1, <1>3, <1>4, <1>5, <1>6, <1>7, <1>8 DEF Keyboard!Next

(* Every step keeps it; a step of another page leaves it alone.            *)
LEMMA NextYInv == YInv /\ [PagesNext]_pagesVars => YInv'
<1> SUFFICES ASSUME YInv, [PagesNext]_pagesVars PROVE YInv'
  OBVIOUS
<1>1. CASE Keyboard!Next
  BY <1>1, KeyboardKeepsYInv
<1>2. CASE UNCHANGED keyboard
  <2>1. UNCHANGED <<active, marked, counts, timer, nav, evidence, popup, dialog, held, open>>
    BY <1>2 DEF keyboard
  <2> QED
    BY <2>1 DEF YInv, LayerShown, HeldShown, Progress
<1> QED
  BY <1>1, <1>2 DEF PagesNext, pagesVars, Py32Only, ReceiverOnly, FixtureOnly

(* For every layout: progress counts keys and not presses, the session is  *)
(* told of the first key once, the advance is from a complete layer, the   *)
(* dialog stands over the last layer, and a popup is of the key that is    *)
(* down: KeyboardInv.                                                      *)
THEOREM KeyboardThm == PagesSpec => []KeyboardInv
<1>1. PagesInit => YInv
  BY InitYInv DEF PagesInit
<1>2. YInv => KeyboardInv
  BY YInvGivesInv
<1> QED
  BY <1>1, <1>2, NextYInv, PTL DEF PagesSpec

-----------------------------------------------------------------------------
(* IrFixture: the worker and its page.  What the receiver hands out does   *)
(* not matter here: any of it can only end the wait.                       *)

FixtureTyped ==
  /\ pc \in {"none", "check", "send", "pause", "open", "listen", "wait", "verdict", "return"}
  /\ sent \in 0 .. TxPackets /\ received \in 0 .. RxPackets
  /\ run \in RunRecords /\ displayed \in RunRecords
  /\ cause \in {"none", "unavailable", "send", "reply", "timeout"}
  /\ page \in {"open", "restarting", "leaving", "closed"} /\ runs \in 0 .. MaxRuns
FixtureFlags == late \in BOOLEAN /\ cancel_requested \in BOOLEAN /\ stale \in BOOLEAN

Judging == {"check", "send", "pause", "open", "listen", "wait", "verdict"}

(* A run is published as running until it has its verdict, which agrees    *)
(* with the items; only who leaves cancels one.                            *)
RunPlaced ==
  /\ pc \in Judging <=> run.state = "RUNNING"
  /\ pc \in {"check", "send", "pause"} => sent < TxPackets
  /\ run.state \in {"RUNNING", "CANCELED"} => run.tx = "RUNNING"
  /\ run.state = "WAITING_FOR_FIXTURE" => run.tx = "PENDING"
  /\ ItemsAgree

(* The flag is set by who joins, and Enter joins no run that has no verdict*)
(* yet; the device is only open while one listens.                         *)
JoinsCancel ==
  /\ cancel_requested => page # "open"
  /\ page = "restarting" => pc \in {"return", "none"}
  /\ current = "ir fixture" /\ fd => pc \in {"listen", "wait", "verdict", "return"}

XInv == FixtureTyped /\ FixtureFlags /\ RunPlaced /\ JoinsCancel

(* It tells all that FixtureInv does.                                      *)
LEMMA XInvGivesInv == ASSUME XInv PROVE FixtureInv
<1>1. TypeOK
  BY DEF XInv, FixtureTyped, FixtureFlags, TypeOK
<1> QED
  BY <1>1 DEF XInv, RunPlaced, FixtureInv, Inv

(* It holds before the first run.                                          *)
LEMMA InitXInv == ASSUME Init PROVE XInv
<1>1. TxPackets \in Nat /\ RxPackets \in Nat /\ MaxRuns \in Nat
  BY PagesAssumption DEF FixtureAssumption
<1>2. Idle \in RunRecords
  BY DEF Idle, RunRecords, ItemStates
<1>3. FixtureTyped
  BY <1>1, <1>2 DEF Init, FixtureTyped
<1>6. FixtureFlags
  BY DEF Init, FixtureFlags
<1>4. RunPlaced
  BY DEF Init, Idle, RunPlaced, ItemsAgree, Judging
<1>5. JoinsCancel
  BY DEF Init, ReceiverInit, JoinsCancel
<1> QED
  BY <1>3, <1>4, <1>5, <1>6 DEF XInv

(* A counter below its bound may count.                                    *)
LEMMA OneMore ==
  ASSUME NEW bound \in Nat, NEW n \in 0 .. bound, n < bound
  PROVE  n + 1 \in 0 .. bound
OBVIOUS

(* A counter starts within its bound.                                      *)
LEMMA FromZero ==
  ASSUME NEW bound \in Nat
  PROVE  0 \in 0 .. bound /\ (bound # 0 => 0 < bound)
OBVIOUS

(* What a step of the worker leaves alone.                                 *)
OthersKept ==
  /\ cancel_requested' = cancel_requested /\ displayed' = displayed /\ page' = page
  /\ runs' = runs /\ current' = current

(* A worker that goes on in its run publishes nothing that its page has not*)
(* seen, but may mark the receiver as running.                             *)
LEMMA GoesOn ==
  ASSUME XInv, OthersKept, pc \in Judging, pc' \in Judging,
         sent' \in 0 .. TxPackets, received' \in 0 .. RxPackets,
         pc' \in {"check", "send", "pause"} => sent' < TxPackets,
         run' \in RunRecords, run'.state = "RUNNING", run'.tx = "RUNNING",
         cause' = cause, late' \in BOOLEAN, stale' \in BOOLEAN,
         fd' => pc' \in {"listen", "wait", "verdict"}
  PROVE  XInv'
<1>1. FixtureTyped'
  BY DEF XInv, FixtureTyped, OthersKept, Judging
<1>2. FixtureFlags'
  BY DEF XInv, FixtureFlags, OthersKept
<1>3. RunPlaced'
  BY DEF XInv, RunPlaced, ItemsAgree, OthersKept
<1>4. JoinsCancel'
  BY DEF XInv, JoinsCancel, OthersKept, Judging
<1> QED
  BY <1>1, <1>2, <1>3, <1>4 DEF XInv

(* A worker that has its verdict publishes it and returns.                 *)
LEMMA HasVerdict ==
  ASSUME XInv, OthersKept, pc \in Judging, pc' = "return",
         sent' = sent, received' \in 0 .. RxPackets,
         cause' \in {"none", "unavailable", "send", "reply", "timeout"},
         late' \in BOOLEAN, stale' \in BOOLEAN,
         run' \in RunRecords,
         \/ run'.state = "FAILED" /\ "FAILED" \in {run'.tx, run'.rx}
              /\ "RUNNING" \notin {run'.tx, run'.rx}
         \/ run'.state = "PASSED" /\ run'.tx = "PASSED" /\ run'.rx = "PASSED"
         \/ run'.state = "CANCELED" /\ run'.tx = "RUNNING" /\ cancel_requested
  PROVE  XInv'
<1>1. FixtureTyped'
  BY DEF XInv, FixtureTyped, OthersKept
<1>2. FixtureFlags'
  BY DEF XInv, FixtureFlags, OthersKept
<1>3. RunPlaced'
  <2>1. cancel_requested => page \in {"leaving", "closed"}
    BY DEF XInv, JoinsCancel, Judging, FixtureTyped
  <2> QED
    BY <2>1 DEF RunPlaced, ItemsAgree, Judging, OthersKept
<1>4. JoinsCancel'
  BY DEF XInv, JoinsCancel, OthersKept, Judging
<1> QED
  BY <1>1, <1>2, <1>3, <1>4 DEF XInv

(* fail_ leaves no item running.                                           *)
LEMMA FailPublishes ==
  ASSUME XInv, OthersKept, pc \in Judging, NEW item \in {"tx", "rx"},
         NEW why \in {"unavailable", "send", "reply", "timeout"}, Fail(item, why),
         sent' = sent, received' = received, late' = late
  PROVE  XInv'
<1>1. run \in RunRecords
  BY DEF XInv, FixtureTyped
<1>2. /\ run' = [i \in DOMAIN run |->
               IF i \in {"state", item} \/ run[i] = "RUNNING" THEN "FAILED" ELSE run[i]]
      /\ pc' = "return" /\ cause' = why /\ stale' = TRUE
  BY DEF Fail
<1>3. /\ run = [state |-> run.state, tx |-> run.tx, rx |-> run.rx]
      /\ DOMAIN run = {"state", "tx", "rx"}
  BY <1>1 DEF RunRecords
<1>4. /\ run' \in RunRecords /\ run'.state = "FAILED" /\ "FAILED" \in {run'.tx, run'.rx}
      /\ "RUNNING" \notin {run'.tx, run'.rx}
  <2>1. /\ DOMAIN run' = {"state", "tx", "rx"}
        /\ run'["state"] = "FAILED"
        /\ run'["tx"] = IF item = "tx" \/ run["tx"] = "RUNNING" THEN "FAILED" ELSE run["tx"]
        /\ run'["rx"] = IF item = "rx" \/ run["rx"] = "RUNNING" THEN "FAILED" ELSE run["rx"]
    BY <1>2, <1>3
  <2>2. run["tx"] \in ItemStates /\ run["rx"] \in ItemStates
    BY <1>1 DEF RunRecords
  <2>3. run' = [state |-> run'["state"], tx |-> run'["tx"], rx |-> run'["rx"]]
    BY <1>2, <2>1
  <2>4. run'["tx"] \in ItemStates /\ run'["rx"] \in ItemStates
    BY <2>1, <2>2 DEF ItemStates
  <2>5. run' \in RunRecords
    BY <2>1, <2>3, <2>4 DEF RunRecords
  <2> QED
    BY <2>1, <2>5
<1>5. sent' = sent /\ received' \in 0 .. RxPackets /\ late' \in BOOLEAN /\ stale' \in BOOLEAN
  BY <1>2 DEF XInv, FixtureTyped, FixtureFlags
<1>6. cause' \in {"none", "unavailable", "send", "reply", "timeout"}
  BY <1>2
<1> QED
  BY <1>2, <1>4, <1>5, <1>6, HasVerdict

(* A worker that sees the flag has been left.                              *)
LEMMA CanceledPublishes ==
  ASSUME XInv, OthersKept, pc \in Judging, Canceled, cancel_requested,
         sent' = sent, received' = received, late' = late
  PROVE  XInv'
<1>1. run \in RunRecords /\ run.tx = "RUNNING"
  BY DEF XInv, FixtureTyped, RunPlaced
<1>2. run' \in RunRecords /\ run'.state = "CANCELED" /\ run'.tx = "RUNNING"
  BY <1>1 DEF Canceled, RunRecords
<1>3. /\ pc' = "return" /\ cause' \in {"none", "unavailable", "send", "reply", "timeout"}
      /\ received' \in 0 .. RxPackets
  BY DEF Canceled, XInv, FixtureTyped
<1>4. late' \in BOOLEAN /\ stale' \in BOOLEAN
  BY DEF Canceled, XInv, FixtureFlags
<1> QED
  BY <1>2, <1>3, <1>4, HasVerdict

(* The steps of run_.                                                      *)
LEMMA RunKeepsXInv == ASSUME XInv, current = "ir fixture", FixtureOnly, Worker PROVE XInv'
<1>0. FixtureTyped /\ FixtureFlags /\ RunPlaced /\ JoinsCancel /\ OthersKept
  BY DEF XInv, FixtureOnly, Worker, OthersKept
<1>1. TxPackets \in Nat /\ RxPackets \in Nat
  BY PagesAssumption DEF FixtureAssumption
<1>2. run \in RunRecords /\ sent \in 0 .. TxPackets /\ received \in 0 .. RxPackets
  BY <1>0 DEF FixtureTyped
<1>3. late \in BOOLEAN /\ stale \in BOOLEAN
  BY <1>0 DEF FixtureFlags
<1>4. pc \in Judging => run.state = "RUNNING" /\ run.tx = "RUNNING"
  BY <1>0 DEF RunPlaced
<1>5. pc \notin {"listen", "wait", "verdict", "return"} => ~fd
  BY <1>0 DEF JoinsCancel
<1>6. CASE Check
  <2>1. /\ pc = "check" /\ UNCHANGED <<sent, received, late>> /\ fd' = fd
        /\ \/ Fail("tx", "unavailable") \/ Fail("rx", "unavailable")
           \/ pc' = "send" /\ UNCHANGED <<run, cause, stale>>
    BY <1>6 DEF Check, published, receiver
  <2>2. pc \in Judging
    BY <2>1 DEF Judging
  <2>3. CASE Fail("tx", "unavailable") \/ Fail("rx", "unavailable")
    BY <1>0, <2>1, <2>2, <2>3, FailPublishes
  <2>4. CASE pc' = "send" /\ UNCHANGED <<run, cause, stale>>
    <3>1. sent < TxPackets
      BY <1>0, <2>1 DEF RunPlaced
    <3> QED
      BY <1>0, <1>2, <1>3, <1>4, <1>5, <2>1, <2>2, <2>4, <3>1, GoesOn DEF Judging
  <2> QED
    BY <2>1, <2>3, <2>4
<1>7. CASE Send
  <2>1. pc = "send" /\ UNCHANGED <<received, late>> /\ fd' = fd /\ pc \in Judging
    BY <1>7 DEF Send, receiver, Judging
  <2>2. CASE cancel_requested
    BY <1>0, <1>7, <2>1, <2>2, CanceledPublishes DEF Send
  <2>3. CASE ~cancel_requested /\ Fail("tx", "send") /\ UNCHANGED sent
    BY <1>0, <2>1, <2>3, FailPublishes
  <2>4. CASE /\ sent' = sent + 1 /\ pc' = IF sent' < TxPackets THEN "pause" ELSE "open"
             /\ stale' = TRUE /\ UNCHANGED <<run, cause>>
    <3>1. sent < TxPackets
      BY <1>0, <2>1 DEF RunPlaced
    <3>2. sent' \in 0 .. TxPackets
      BY <1>1, <1>2, <2>4, <3>1, OneMore
    <3>3. pc' \in {"pause", "open"} /\ (pc' = "pause" => sent' < TxPackets)
      BY <2>4
    <3>4. /\ pc' \in Judging /\ run'.state = "RUNNING" /\ run'.tx = "RUNNING" /\ run' \in RunRecords
          /\ stale' \in BOOLEAN /\ late' \in BOOLEAN /\ received' \in 0 .. RxPackets
      BY <1>2, <1>3, <1>4, <2>1, <2>4, <3>3 DEF Judging
    <3>5. pc' \in {"check", "send", "pause"} => sent' < TxPackets
      BY <3>3
    <3>6. fd' => pc' \in {"listen", "wait", "verdict"}
      BY <1>5, <2>1
    <3> QED
      BY <1>0, <2>1, <2>4, <3>2, <3>4, <3>5, <3>6, GoesOn
  <2> QED
    BY <1>7, <2>2, <2>3, <2>4 DEF Send
<1>8. CASE Pause
  <2>1. /\ pc = "pause" /\ UNCHANGED <<sent, received, late>> /\ fd' = fd /\ pc \in Judging
        /\ sent < TxPackets
    BY <1>0, <1>8 DEF Pause, receiver, Judging, RunPlaced
  <2>2. CASE cancel_requested
    BY <1>0, <1>8, <2>1, <2>2, CanceledPublishes DEF Pause
  <2>3. CASE ~cancel_requested
    <3>1. pc' = "send" /\ UNCHANGED <<run, cause, stale>>
      BY <1>8, <2>3 DEF Pause, published
    <3> QED
      BY <1>0, <1>2, <1>3, <1>4, <1>5, <2>1, <3>1, GoesOn DEF Judging
  <2> QED
    BY <2>2, <2>3
<1>9. CASE OpenReceiver
  <2>1. pc = "open" /\ UNCHANGED <<sent, received, late>> /\ pc \in Judging
    BY <1>9 DEF OpenReceiver, Judging
  <2>2. CASE cancel_requested /\ Canceled
    BY <1>0, <2>1, <2>2, CanceledPublishes
  <2>3. CASE /\ pc' = "listen" /\ UNCHANGED cause /\ Publish("RUNNING", run.tx, "RUNNING")
    <3>1. run' \in RunRecords /\ run'.state = "RUNNING" /\ run'.tx = "RUNNING" /\ stale' = TRUE
      BY <1>4, <2>1, <2>3 DEF Publish, RunRecords, ItemStates
    <3> QED
      BY <1>0, <1>2, <1>3, <2>1, <2>3, <3>1, GoesOn DEF Judging
  <2>4. CASE Fail("rx", "unavailable")
    BY <1>0, <2>1, <2>4, FailPublishes
  <2> QED
    BY <1>9, <2>2, <2>3, <2>4 DEF OpenReceiver
<1>10. CASE Listen
  <2>1. pc = "listen" /\ received < RxPackets /\ UNCHANGED <<sent, late>> /\ pc \in Judging
    BY <1>10 DEF Listen, Listening, Judging
  <2>2. CASE \/ pc' = "wait" /\ UNCHANGED <<received, run, cause, stale>>
             \/ /\ received' = received + 1
                /\ pc' = IF received' < RxPackets THEN "wait" ELSE "verdict"
                /\ stale' = TRUE /\ UNCHANGED <<run, cause>>
    <3>1. /\ received' \in 0 .. RxPackets /\ pc' \in {"wait", "verdict"}
          /\ UNCHANGED <<run, cause>>
      <4>1. received' = received \/ received' = received + 1
        BY <2>2
      <4>2. received' \in 0 .. RxPackets
        BY <1>1, <1>2, <2>1, <4>1, OneMore
      <4> QED
        BY <2>2, <4>2
    <3>2. stale' \in BOOLEAN
      BY <1>3, <2>2
    <3> QED
      BY <1>0, <1>2, <1>3, <1>4, <2>1, <3>1, <3>2, GoesOn DEF Judging
  <2>3. CASE Fail("rx", "reply") /\ UNCHANGED received
    BY <1>0, <2>1, <2>3, FailPublishes
  <2> QED
    BY <1>10, <2>2, <2>3 DEF Listen, published
<1>11. CASE EndListening \/ Wait
  <2>1. /\ pc \in Judging /\ pc' \in {"listen", "verdict"}
        /\ UNCHANGED <<sent, received, late, run, cause, stale>>
    BY <1>11 DEF EndListening, Wait, published, Judging
  <2> QED
    BY <1>0, <1>2, <1>3, <1>4, <2>1, GoesOn DEF Judging
<1>12. CASE Verdict
  <2>1. pc = "verdict" /\ UNCHANGED <<sent, received, late>> /\ pc \in Judging
    BY <1>12 DEF Verdict, Judging
  <2>2. CASE cancel_requested
    BY <1>0, <1>12, <2>1, <2>2, CanceledPublishes DEF Verdict
  <2>3. CASE Fail("rx", "timeout")
    BY <1>0, <2>1, <2>3, FailPublishes
  <2>4. CASE Publish("PASSED", "PASSED", "PASSED") /\ pc' = "return" /\ UNCHANGED cause
    <3>1. /\ run' \in RunRecords /\ stale' = TRUE
          /\ run'.state = "PASSED" /\ run'.tx = "PASSED" /\ run'.rx = "PASSED"
      BY <2>4 DEF Publish, RunRecords, ItemStates
    <3>2. cause' \in {"none", "unavailable", "send", "reply", "timeout"}
      BY <1>0, <2>4 DEF FixtureTyped
    <3> QED
      BY <1>0, <1>2, <1>3, <2>1, <2>4, <3>1, <3>2, HasVerdict
  <2> QED
    BY <1>12, <2>2, <2>3, <2>4 DEF Verdict
<1>13. CASE Return
  <2>1. /\ pc = "return" /\ pc' = "none" /\ ~fd'
        /\ UNCHANGED <<sent, received, late, run, cause, stale>>
    BY <1>13 DEF Return, EndSession, Close, published
  <2>2. FixtureTyped'
    BY <1>0, <2>1 DEF FixtureTyped, OthersKept
  <2>3. FixtureFlags'
    BY <1>0, <2>1 DEF FixtureFlags, OthersKept
  <2>4. RunPlaced'
    BY <1>0, <2>1 DEF RunPlaced, ItemsAgree, OthersKept, Judging
  <2>5. JoinsCancel'
    BY <1>0, <2>1 DEF JoinsCancel, OthersKept
  <2> QED
    BY <2>2, <2>3, <2>4, <2>5 DEF XInv
<1> QED
  BY <1>6, <1>7, <1>8, <1>9, <1>10, <1>11, <1>12, <1>13 DEF Worker

(* The page's steps, the deadline and the air.                             *)
LEMMA PageKeepsXInv ==
  ASSUME XInv, current = "ir fixture", FixtureOnly,
         Deadline \/ Air \/ Enter \/ Start \/ Refresh \/ Leave \/ Joined
  PROVE  XInv'
<1>0. FixtureTyped /\ FixtureFlags /\ RunPlaced /\ JoinsCancel /\ current' = current
  BY DEF XInv, FixtureOnly
<1>1. TxPackets \in Nat /\ TxPackets # 0 /\ RxPackets \in Nat /\ MaxRuns \in Nat
  BY PagesAssumption DEF FixtureAssumption
<1>2. ASSUME UNCHANGED <<pc, sent, received, run, cause, fd>>,
             displayed' \in {displayed, run}, FixtureFlags',
             page' \in {"open", "restarting", "leaving", "closed"}, runs' \in 0 .. MaxRuns,
             run.state = "CANCELED" => page' \in {"leaving", "closed"},
             cancel_requested' => page' # "open",
             page' = "restarting" => pc \in {"return", "none"}
      PROVE  XInv'
  <2>1. FixtureTyped'
    BY <1>0, <1>2 DEF FixtureTyped
  <2>2. RunPlaced'
    BY <1>0, <1>2 DEF RunPlaced, ItemsAgree
  <2>3. JoinsCancel'
    BY <1>0, <1>2 DEF JoinsCancel
  <2> QED
    BY <1>2, <2>1, <2>2, <2>3 DEF XInv
<1>3. CASE Deadline \/ Air
  <2>1. /\ UNCHANGED <<pc, sent, received, run, cause, fd, cancel_requested, displayed, page,
                       runs, stale>>
        /\ late' = late \/ late' = TRUE
    BY <1>3 DEF Deadline, Air, Hear, receiver, published, worker
  <2>2. FixtureFlags'
    BY <1>0, <2>1 DEF FixtureFlags
  <2> QED
    BY <1>0, <1>2, <2>1, <2>2 DEF FixtureTyped, RunPlaced, ItemsAgree, JoinsCancel
<1>4. CASE Enter
  <2>1. /\ page = "open" /\ run.state # "RUNNING" /\ runs < MaxRuns /\ runs' = runs + 1
        /\ cancel_requested' = TRUE /\ page' = "restarting"
        /\ UNCHANGED <<pc, sent, received, run, cause, fd, displayed, late, stale>>
    BY <1>4 DEF Enter, CanStart, receiver, published, worker
  <2>2. FixtureFlags'
    BY <1>0, <2>1 DEF FixtureFlags
  <2>3. pc \in {"return", "none"} /\ run.state # "CANCELED"
    BY <1>0, <2>1 DEF RunPlaced, ItemsAgree, Judging, FixtureTyped
  <2>4. runs' \in 0 .. MaxRuns
    <3>1. runs \in 0 .. MaxRuns
      BY <1>0 DEF FixtureTyped
    <3> QED
      BY <1>1, <2>1, <3>1, OneMore
  <2> QED
    BY <1>2, <2>1, <2>2, <2>3, <2>4
<1>5. CASE Refresh
  <2>1. /\ displayed' = run /\ stale' = FALSE
        /\ UNCHANGED <<pc, sent, received, run, cause, fd, cancel_requested, page, runs, late>>
    BY <1>5 DEF Refresh, receiver, worker
  <2>2. FixtureFlags'
    BY <1>0, <2>1 DEF FixtureFlags
  <2> QED
    BY <1>0, <1>2, <2>1, <2>2 DEF FixtureTyped, RunPlaced, ItemsAgree, JoinsCancel
<1>6. CASE Leave
  <2>1. /\ page' = "leaving" /\ cancel_requested' = TRUE
        /\ UNCHANGED <<pc, sent, received, run, cause, fd, displayed, runs, late, stale>>
    BY <1>6 DEF Leave, receiver, published, worker
  <2>2. FixtureFlags'
    BY <1>0, <2>1 DEF FixtureFlags
  <2> QED
    BY <1>0, <1>2, <2>1, <2>2 DEF FixtureTyped
<1>7. CASE Joined
  <2>1. /\ page' = "closed"
        /\ UNCHANGED <<pc, sent, received, run, cause, fd, cancel_requested, displayed, runs,
                       late, stale>>
    BY <1>7 DEF Joined, receiver, published, worker
  <2>2. FixtureFlags'
    BY <1>0, <2>1 DEF FixtureFlags
  <2> QED
    BY <1>0, <1>2, <2>1, <2>2 DEF FixtureTyped
<1>8. CASE Start
  <2>1. /\ pc = "none" /\ page' = "open" /\ cancel_requested' = FALSE
        /\ pc' = "check" /\ sent' = 0 /\ received' = 0 /\ late' = FALSE /\ stale' = TRUE
        /\ run' = [state |-> "RUNNING", tx |-> "RUNNING", rx |-> "PENDING"] /\ cause' = "none"
        /\ UNCHANGED <<fd, displayed, runs>>
    BY <1>8 DEF Start, Publish, receiver
  <2>2. FixtureFlags'
    BY <2>1 DEF FixtureFlags
  <2>3. FixtureTyped'
    <3>1. run' \in RunRecords
      BY <2>1 DEF RunRecords, ItemStates
    <3>2. 0 \in 0 .. TxPackets /\ 0 \in 0 .. RxPackets
      BY <1>1, FromZero
    <3>3. displayed' \in RunRecords /\ runs' \in 0 .. MaxRuns
      BY <1>0, <2>1 DEF FixtureTyped
    <3> QED
      BY <2>1, <3>1, <3>2, <3>3 DEF FixtureTyped
  <2>4. RunPlaced'
    <3>1. 0 < TxPackets
      BY <1>1, FromZero
    <3>2. /\ sent' = 0 /\ pc' = "check"
          /\ run'.state = "RUNNING" /\ run'.tx = "RUNNING" /\ run'.rx = "PENDING"
      BY <2>1
    <3>3. ItemsAgree'
      BY <3>2 DEF ItemsAgree
    <3> QED
      BY <3>1, <3>2, <3>3 DEF RunPlaced, Judging
  <2>5. JoinsCancel'
    BY <1>0, <2>1 DEF JoinsCancel
  <2> QED
    BY <2>2, <2>3, <2>4, <2>5 DEF XInv
<1> QED
  BY <1>3, <1>4, <1>5, <1>6, <1>7, <1>8

(* Every step keeps it; a step of another page leaves it alone, although   *)
(* the receiver's page uses the same session.                              *)
LEMMA NextXInv == XInv /\ [PagesNext]_pagesVars => XInv'
<1> SUFFICES ASSUME XInv, [PagesNext]_pagesVars PROVE XInv'
  OBVIOUS
<1>1. CASE current = "ir fixture" /\ Next /\ FixtureOnly
  BY <1>1, RunKeepsXInv, PageKeepsXInv DEF Next
<1>2. CASE UNCHANGED <<current, fx_only>> /\ (current = "ir fixture" => fd' = fd)
  <2>1. UNCHANGED <<current, pc, sent, received, late, cancel_requested, run, cause, displayed,
                    stale, page, runs>>
    BY <1>2 DEF fx_only
  <2>2. FixtureTyped'
    BY <2>1 DEF XInv, FixtureTyped
  <2>3. FixtureFlags'
    BY <2>1 DEF XInv, FixtureFlags
  <2>4. RunPlaced'
    BY <2>1 DEF XInv, RunPlaced, ItemsAgree
  <2>5. JoinsCancel'
    <3>1. JoinsCancel
      BY DEF XInv
    <3>2. current = "ir fixture" /\ fd' => current = "ir fixture" /\ fd
      BY <1>2
    <3> QED
      BY <2>1, <3>1, <3>2 DEF JoinsCancel
  <2> QED
    BY <2>2, <2>3, <2>4, <2>5 DEF XInv
<1> QED
  BY <1>1, <1>2 DEF PagesNext, pagesVars, Py32Only, KeyboardOnly, ReceiverOnly, receiver

(* For every number of frames sent and expected: an ended run leaves no    *)
(* item running, passes only with both, and is canceled only by leaving:   *)
(* FixtureInv.                                                             *)
THEOREM FixtureThm == PagesSpec => []FixtureInv
<1>1. PagesInit => XInv
  BY InitXInv DEF PagesInit
<1>2. XInv => FixtureInv
  BY XInvGivesInv
<1> QED
  BY <1>1, <1>2, NextXInv, PTL DEF PagesSpec

(* Nothing is sent while the receiver is open, by the next run neither:    *)
(* HalfDuplex, the half of FixtureTurns that is about the order.           *)
THEOREM HalfDuplexThm == PagesSpec => HalfDuplex
<1>1. XInv /\ [PagesNext]_pagesVars => [sent' > sent => ~fd]_vars
  <2> SUFFICES ASSUME XInv, [PagesNext]_pagesVars, sent' > sent PROVE ~fd
    OBVIOUS
  <2>1. sent \in 0 .. TxPackets /\ TxPackets \in Nat
    BY PagesAssumption DEF XInv, FixtureTyped, FixtureAssumption
  <2>2. sent' # sent
    BY <2>1
  <2>3. current = "ir fixture" /\ Next
    BY <2>2 DEF PagesNext, pagesVars, Py32Only, KeyboardOnly, ReceiverOnly, fx_only
  <2>4. Send
    <3>1. ~Start
      BY <2>1 DEF Start
    <3>2. ~Deadline /\ ~Air /\ ~Enter /\ ~Refresh /\ ~Leave /\ ~Joined
      BY <2>2 DEF Deadline, Air, Enter, Refresh, Leave, Joined, worker
    <3>3. ~Check /\ ~Pause /\ ~OpenReceiver /\ ~EndListening /\ ~Wait /\ ~Verdict /\ ~Return
      BY <2>2 DEF Check, Pause, OpenReceiver, EndListening, Wait, Verdict, Return
    <3>4. ~Listen
      BY <2>2 DEF Listen
    <3> QED
      BY <2>3, <3>1, <3>2, <3>3, <3>4 DEF Next, Worker
  <2> QED
    BY <2>3, <2>4 DEF Send, XInv, JoinsCancel
<1>2. PagesInit => XInv
  BY InitXInv DEF PagesInit
<1> QED
  BY <1>1, <1>2, NextXInv, PTL DEF PagesSpec, HalfDuplex

-----------------------------------------------------------------------------
(* IrReceiver: the reference, frame by frame.                              *)

Signals == Frames \cup {Noise}

(* What a frame adds to the changes before it.                             *)
Added(c, f) == IF f = Noise \/ (c # <<>> /\ Last(c) = f) THEN c ELSE Append(c, f)

News(s) ==
  LET news[i \in 0..Len(s)] ==
        IF i = 0 THEN <<>>
        ELSE IF s[i] = Noise \/ (news[i - 1] # <<>> /\ Last(news[i - 1]) = s[i]) THEN news[i - 1]
        ELSE Append(news[i - 1], s[i])
  IN news

(* Changes is what they are after the last signal.                         *)
LEMMA ChangesAreNews ==
  ASSUME NEW s PROVE Changes(s) = News(s)[Len(s)]
BY DEF Changes, News

(* The changes start with none, and each signal adds its own.              *)
LEMMA NewsSteps ==
  ASSUME NEW s \in Seq(Signals)
  PROVE  /\ News(s) \in [0 .. Len(s) -> Seq(Frames)]
         /\ News(s)[0] = <<>>
         /\ \A i \in 1 .. Len(s) : News(s)[i] = Added(News(s)[i - 1], s[i])
<1> DEFINE n == Len(s)
           B == Seq(Frames)
           step == [p \in (1 .. n) \X B |-> Added(p[2], s[p[1]])]
           Is(g) == g = [i \in 0 .. n |->
                           IF i = 0 THEN <<>>
                           ELSE IF s[i] = Noise \/ (g[i - 1] # <<>> /\ Last(g[i - 1]) = s[i]) THEN g[i - 1]
                           ELSE Append(g[i - 1], s[i])]
<1>1. n \in Nat /\ <<>> \in B
  OBVIOUS
<1>3. \A i \in 1 .. n, c \in B : step[<<i, c>>] = Added(c, s[i])
  OBVIOUS
<1>2. \A i \in 1 .. n, c \in B : step[<<i, c>>] \in B
  <2> SUFFICES ASSUME NEW i \in 1 .. n, NEW c \in B PROVE Added(c, s[i]) \in B
    BY <1>3
  <2> QED BY DEF Added, Signals
<1> HIDE DEF step, n, B
<1>14. IsStep(step, n, B)
  BY <1>2 DEF IsStep
<1>4. PICK f \in [0 .. n -> B] : IsRecursive(f, <<>>, step, n)
  BY <1>1, <1>14, Recursion
<1>5. f[0] = <<>> /\ \A i \in 1 .. n : f[i] = Added(f[i - 1], s[i])
  BY <1>1, <1>3, <1>4 DEF IsRecursive
<1>6. Is(f)
  <2>1. f = [i \in 0 .. n |-> f[i]]
    BY <1>4
  <2>2. \A i \in 0 .. n : i # 0 => i \in 1 .. n
    BY <1>1
  <2> QED BY <1>5, <2>1, <2>2 DEF Added
<1>7. News(s) = CHOOSE g : Is(g)
  BY DEF News, n
<1>8. Is(News(s))
  BY <1>6, <1>7
<1> DEFINE g == News(s)
<1> HIDE DEF g
<1>9. Is(g)
  BY <1>8 DEF g
<1>10. g[0] = <<>> /\ \A i \in 1 .. n : g[i] = Added(g[i - 1], s[i])
  <2>1. g[0] = <<>>
    BY <1>1, <1>9
  <2>2. ASSUME NEW i \in 1 .. n PROVE g[i] = Added(g[i - 1], s[i])
    <3>1. i \in 0 .. n /\ i # 0
      BY <1>1
    <3> QED BY <1>9, <3>1 DEF Added
  <2> QED BY <2>1, <2>2
<1>11. DOMAIN g = 0 .. n
  BY <1>9
<1>12. \A i \in 0 .. n : g[i] \in B
  <2> DEFINE T == {i \in 0 .. n : g[i] \in B}
  <2>1. 0 \in T
    BY <1>1, <1>10
  <2>2. ASSUME NEW i \in 0 .. n - 1, i \in T PROVE i + 1 \in T
    <3>1. i + 1 \in 1 .. n /\ (i + 1) - 1 = i
      BY <1>1
    <3>2. g[i + 1] = Added(g[i], s[i + 1])
      BY <1>10, <3>1
    <3>4. g[i + 1] \in B
      BY <1>2, <1>3, <2>2, <3>1, <3>2
    <3> QED BY <3>1, <3>4
  <2> HIDE DEF T
  <2>3. \A i \in 0 .. n : i \in T
    BY <1>1, <2>1, <2>2, Upwards
  <2> QED BY <2>3 DEF T
<1>13. g = [i \in 0 .. n |-> g[i]]
  BY <1>9
<1> QED BY <1>10, <1>11, <1>12, <1>13 DEF g, n, B

(* The changes of a longer history are those of the shorter, so far.       *)
LEMMA NewsAgree ==
  ASSUME NEW s \in Seq(Signals), NEW f \in Signals
  PROVE  \A i \in 0 .. Len(s) : News(Append(s, f))[i] = News(s)[i]
<1> DEFINE t == Append(s, f)
           n == Len(s)
           G == {i \in 0 .. n : News(t)[i] = News(s)[i]}
<1>1. t \in Seq(Signals) /\ Len(t) = n + 1 /\ n \in Nat /\ \A i \in 1 .. n : t[i] = s[i]
  OBVIOUS
<1> HIDE DEF t
<1>2. /\ News(s)[0] = <<>> /\ News(t)[0] = <<>>
      /\ \A i \in 1 .. n : News(s)[i] = Added(News(s)[i - 1], s[i])
      /\ \A i \in 1 .. n + 1 : News(t)[i] = Added(News(t)[i - 1], t[i])
  BY <1>1, NewsSteps
<1> HIDE DEF n
<1>3. 0 \in G
  BY <1>1, <1>2
<1>4. ASSUME NEW i \in 0 .. n - 1, i \in G PROVE i + 1 \in G
  <2>1. i + 1 \in 1 .. n /\ i + 1 \in 1 .. n + 1 /\ (i + 1) - 1 = i /\ i + 1 \in 0 .. n
    BY <1>1
  <2>2. News(t)[i] = News(s)[i]
    BY <1>4
  <2> QED BY <1>1, <1>2, <2>1, <2>2
<1> HIDE DEF G
<1>5. \A i \in 0 .. n : i \in G
  BY <1>1, <1>3, <1>4, Upwards
<1> QED BY <1>5 DEF G, t, n

(* They only grow, and no two that follow each other are the same.         *)
Extends(c, d) == Len(c) <= Len(d) /\ \A i \in 1 .. Len(c) : d[i] = c[i]

(* What is extended is also extended by one more.                          *)
LEMMA AppendExtends ==
  ASSUME NEW S, NEW b \in Seq(S), NEW c \in Seq(S), Extends(b, c), NEW x
  PROVE  Extends(b, Append(c, x))
BY Appended DEF Extends

(* Sequences each of which is the one before it, or that with one more.    *)
AreGrowing(c, n, S) ==
  /\ \A i \in 0 .. n : c[i] \in Seq(S)
  /\ \A i \in 1 .. n : c[i] = c[i - 1] \/ \E x \in S : c[i] = Append(c[i - 1], x)

(* Each is extended by all that come after it.                             *)
LEMMA Grow ==
  ASSUME NEW n \in Nat, NEW S, NEW c, AreGrowing(c, n, S), NEW k \in 0 .. n
  PROVE  \A i \in 0 .. n : k <= i => Extends(c[k], c[i])
<1> DEFINE G == {i \in 0 .. n : k <= i => Extends(c[k], c[i])}
<1>1. (\A i \in 0 .. n : c[i] \in Seq(S))
      /\ \A i \in 1 .. n : c[i] = c[i - 1] \/ \E x \in S : c[i] = Append(c[i - 1], x)
  BY DEF AreGrowing
<1>2. Extends(c[k], c[k])
  BY <1>1 DEF Extends
<1>3. 0 \in G
  <2>1. k <= 0 => k = 0
    OBVIOUS
  <2> QED BY <1>1, <1>2, <2>1
<1>4. ASSUME NEW i \in 0 .. n - 1, i \in G PROVE i + 1 \in G
  <2>1. i + 1 \in 1 .. n /\ (i + 1) - 1 = i /\ i + 1 \in 0 .. n
    OBVIOUS
  <2>2. c[i + 1] = c[i] \/ \E x \in S : c[i + 1] = Append(c[i], x)
    BY <1>1, <2>1
  <2>3. CASE k = i + 1
    BY <1>2, <2>1, <2>3
  <2>4. CASE k <= i
    <3>1. Extends(c[k], c[i]) /\ c[k] \in Seq(S) /\ c[i] \in Seq(S)
      BY <1>1, <1>4, <2>4
    <3>2. \A x \in S : Extends(c[k], Append(c[i], x))
      BY <3>1, AppendExtends
    <3> QED BY <2>1, <2>2, <3>1, <3>2
  <2>5. CASE i + 1 < k
    BY <2>1, <2>5
  <2> QED BY <2>3, <2>4, <2>5
<1> HIDE DEF G
<1>5. \A i \in 0 .. n : i \in G
  BY <1>3, <1>4, Upwards
<1> QED BY <1>5 DEF G

(* So are the changes of what was heard.                                   *)
LEMMA NewsGrow ==
  ASSUME NEW s \in Seq(Signals), NEW k \in 0 .. Len(s)
  PROVE  \A i \in 0 .. Len(s) : k <= i => Extends(News(s)[k], News(s)[i])
<1>1. AreGrowing(News(s), Len(s), Frames)
  <2>1. \A i \in 1 .. Len(s) : s[i] # Noise => s[i] \in Frames
    BY DEF Signals
  <2> QED BY <2>1, NewsSteps DEF AreGrowing, Added
<1>2. Len(s) \in Nat
  OBVIOUS
<1> QED BY <1>1, <1>2, Grow

(* No two changes that follow each other are the same.                     *)
LEMMA NewsDiffer ==
  ASSUME NEW s \in Seq(Signals)
  PROVE  \A i \in 0 .. Len(s) : \A j \in 1 .. Len(News(s)[i]) - 1 :
           News(s)[i][j] # News(s)[i][j + 1]
<1> DEFINE n == Len(s)
           c(i) == News(s)[i]
           G == {i \in 0 .. n : \A j \in 1 .. Len(c(i)) - 1 : c(i)[j] # c(i)[j + 1]}
<1>1. n \in Nat /\ c(0) = <<>> /\ (\A i \in 0 .. n : c(i) \in Seq(Frames))
      /\ \A i \in 1 .. n : c(i) = Added(c(i - 1), s[i])
  <2>1. n \in Nat
    OBVIOUS
  <2> QED BY <2>1, NewsSteps
<1> HIDE DEF n, c
<1>3. 0 \in G
  BY <1>1
<1>4. ASSUME NEW i \in 0 .. n - 1, i \in G PROVE i + 1 \in G
  <2>1. i + 1 \in 1 .. n /\ (i + 1) - 1 = i /\ i + 1 \in 0 .. n /\ i \in 0 .. n
    BY <1>1
  <2>2. c(i + 1) = Added(c(i), s[i + 1]) /\ c(i) \in Seq(Frames)
    BY <1>1, <2>1
  <2>3. \A j \in 1 .. Len(c(i)) - 1 : c(i)[j] # c(i)[j + 1]
    BY <1>4
  <2>4. \A j \in 1 .. Len(c(i + 1)) - 1 : c(i + 1)[j] # c(i + 1)[j + 1]
    <3>1. CASE c(i + 1) = c(i)
      BY <2>3, <3>1
    <3>2. CASE c(i + 1) = Append(c(i), s[i + 1]) /\ ~(c(i) # <<>> /\ Last(c(i)) = s[i + 1])
      <4>1. Len(c(i + 1)) = Len(c(i)) + 1 /\ (\A j \in 1 .. Len(c(i)) : c(i + 1)[j] = c(i)[j])
            /\ c(i + 1)[Len(c(i)) + 1] = s[i + 1] /\ Len(c(i)) \in Nat
        BY <2>2, <3>2
      <4>2. c(i) # <<>> => c(i)[Len(c(i))] # s[i + 1]
        BY <3>2 DEF Last
      <4>3. Len(c(i)) > 0 => c(i) # <<>>
        BY <2>2
      <4> QED BY <2>3, <4>1, <4>2, <4>3
    <3> QED BY <2>2, <3>1, <3>2 DEF Added
  <2> QED BY <2>1, <2>4
<1> HIDE DEF G
<1>5. \A i \in 0 .. n : i \in G
  BY <1>1, <1>3, <1>4, Upwards
<1> QED BY <1>5 DEF G, n, c

-----------------------------------------------------------------------------
(* IrReceiver: a session hands out the changes, one by one.                *)

(* A state that is of a frame says what it expected and whether it fits.   *)
Fits(state, e) ==
  /\ state.expected = e
  /\ state.frame # Noise => (state.matched <=> e \in {"any", state.frame.address})

Queued == {q \in Snapshots : q.changed = TRUE /\ q.frame \in Frames}

(* After m changes were handed out, the others wait in their order, and    *)
(* the last frame read is the last change.                                 *)
Waits(acc, m, c, e) ==
  /\ acc.state \in Snapshots /\ acc.queue \in Seq(Queued) /\ c \in Seq(Frames)
  /\ Fits(acc.state, e) /\ \A i \in 1 .. Len(acc.queue) : Fits(acc.queue[i], e)
  /\ Len(c) = m + Len(acc.queue)
  /\ \A i \in 1 .. Len(acc.queue) : acc.queue[i].frame = c[m + i]
  /\ acc.state.frame = IF c = <<>> THEN Noise ELSE Last(c)

(* finalize: a frame is a change if it is valid and not the one before it. *)
LEMMA Finalized ==
  ASSUME ReceiverAssumption, NEW state \in Snapshots, NEW e, Fits(state, e), NEW f \in Signals
  PROVE  LET new == Finalize(state, f)
         IN /\ new \in Snapshots /\ Fits(new, e)
            /\ new.frame = IF f = Noise THEN state.frame ELSE f
            /\ new.changed <=> f # Noise /\ f # state.frame
            /\ new.changed = TRUE => new \in Queued
<1> DEFINE new == Finalize(state, f)
           matched == state.expected \in {"any", f.address}
           changed == f # state.frame \/ matched # state.matched
<1>1. /\ state = [expected |-> state.expected, frame |-> state.frame, matched |-> state.matched,
                  changed |-> state.changed, message |-> state.message]
      /\ state.expected \in {"any", "fixture"} /\ state.frame \in Signals
      /\ state.matched \in BOOLEAN /\ state.changed \in BOOLEAN
  BY DEF Snapshots, Signals
<1>2. CASE f = Noise
  <2>1. new = [expected |-> state.expected, frame |-> state.frame, matched |-> state.matched,
               changed |-> FALSE, message |-> "noise"]
    BY <1>1, <1>2 DEF Finalize
  <2>2. new \in Snapshots
    BY <1>1, <2>1 DEF Snapshots, Signals
  <2> QED BY <1>1, <1>2, <2>1, <2>2 DEF Fits
<1>3. CASE f # Noise
  <2>1. new = [expected |-> state.expected, frame |-> f, matched |-> matched,
               changed |-> changed, message |-> IF matched THEN "packet" ELSE "mismatch"]
    BY <1>1, <1>3 DEF Finalize
  <2>2. matched \in BOOLEAN /\ changed \in BOOLEAN /\ f \in Frames /\ f \in Signals
    BY <1>3 DEF Signals
  <2>3. new \in Snapshots
    <3> HIDE DEF matched, changed, new
    <3> QED BY <1>1, <2>1, <2>2 DEF Snapshots, Signals
  <2>4. matched <=> e \in {"any", f.address}
    BY DEF Fits
  <2>5. Fits(new, e)
    <3>1. new.expected = e /\ new.frame = f /\ new.matched = matched
      BY <2>1 DEF Fits
    <3> QED BY <2>4, <3>1 DEF Fits
  <2>6. changed <=> f # state.frame
    <3>1. f = state.frame => (matched <=> state.matched)
      BY <1>3, <2>4 DEF Fits
    <3>2. f = state.frame => matched = state.matched
      BY <1>1, <2>2, <3>1
    <3> QED BY <3>2
  <2>7. new.frame = f /\ (new.changed <=> changed)
    <3> HIDE DEF matched, changed
    <3> QED BY <2>1
  <2> HIDE DEF new, changed, matched
  <2> QED BY <1>3, <2>2, <2>3, <2>5, <2>6, <2>7 DEF Queued, new
<1> QED BY <1>2, <1>3

(* What waits after a signal is what waited before it, with its change.    *)
LEMMA TakesOne ==
  ASSUME ReceiverAssumption, NEW acc, NEW m \in Nat, NEW c, NEW e, Waits(acc, m, c, e),
         NEW f \in Signals
  PROVE  Waits(Take(acc, f), m, Added(c, f), e)
<1> DEFINE state == Finalize(acc.state, f)
           queue == IF state.changed THEN Append(acc.queue, state) ELSE acc.queue
           new == Take(acc, f)
<1>1. /\ state \in Snapshots /\ Fits(state, e)
      /\ state.frame = IF f = Noise THEN acc.state.frame ELSE f
      /\ state.changed <=> f # Noise /\ f # acc.state.frame
      /\ state.changed = TRUE => state \in Queued
  BY Finalized DEF Waits
<1>2. new.state = state /\ new.queue = queue
  BY DEF Take
<1>3. state.changed \in BOOLEAN
  BY <1>1 DEF Snapshots
<1> HIDE DEF state, new
<1>4. c \in Seq(Frames) /\ (c # <<>> => Last(c) \in Frames /\ Len(c) > 0)
  BY DEF Waits, Last
<1>5. acc.state.frame = IF c = <<>> THEN Noise ELSE Last(c)
  BY DEF Waits
<1>6. CASE state.changed = TRUE
  <2>1. f \in Frames /\ f # Noise /\ ~(c # <<>> /\ Last(c) = f)
    BY <1>1, <1>4, <1>5, <1>6 DEF Signals
  <2>2. Added(c, f) = Append(c, f) /\ queue = Append(acc.queue, state)
    BY <1>6, <2>1 DEF Added
  <2> DEFINE d == Append(c, f)
             n == Len(acc.queue)
  <2>3. /\ d \in Seq(Frames) /\ Len(d) = Len(c) + 1
        /\ d[Len(c) + 1] = f /\ \A j \in 1 .. Len(c) : d[j] = c[j]
    BY <1>4, <2>1, Appended
  <2>4. acc.queue \in Seq(Queued) /\ state \in Queued
    BY <1>1, <1>6 DEF Waits
  <2>5. /\ queue \in Seq(Queued) /\ Len(queue) = n + 1 /\ queue[n + 1] = state
        /\ \A j \in 1 .. n : queue[j] = acc.queue[j]
    BY <2>2, <2>4, Appended
  <2>6. state.frame = f
    BY <1>1, <2>1
  <2>8. n \in Nat /\ Len(c) = m + n
    BY <2>4 DEF Waits
  <2>11. Added(c, f) = d
    BY <2>2
  <2> HIDE DEF queue, d, n
  <2>7. d # <<>> /\ Last(d) = f
    BY <1>4, <2>3 DEF Last
  <2>9. Len(d) = m + Len(queue)
    BY <2>3, <2>5, <2>8
  <2>10. \A i \in 1 .. Len(queue) : queue[i].frame = d[m + i] /\ Fits(queue[i], e)
    <3> SUFFICES ASSUME NEW i \in 1 .. n + 1 PROVE queue[i].frame = d[m + i] /\ Fits(queue[i], e)
      BY <2>5
    <3>1. CASE i \in 1 .. n
      <4>1. queue[i] = acc.queue[i] /\ m + i \in 1 .. Len(c)
        BY <2>5, <2>8, <3>1
      <4>2. d[m + i] = c[m + i]
        BY <2>3, <4>1
      <4>3. acc.queue[i].frame = c[m + i] /\ Fits(acc.queue[i], e)
        BY <3>1 DEF Waits, n
      <4> QED BY <4>1, <4>2, <4>3
    <3>2. CASE i = n + 1
      <4>1. m + i = Len(c) + 1 /\ queue[i] = state
        BY <2>5, <2>8, <3>2
      <4> QED BY <1>1, <2>3, <2>6, <4>1
    <3> QED BY <2>8, <3>1, <3>2
  <2> QED BY <1>1, <1>2, <2>3, <2>5, <2>6, <2>7, <2>9, <2>10, <2>11 DEF Waits, new
<1>7. CASE state.changed = FALSE
  <2>1. f = Noise \/ (c # <<>> /\ Last(c) = f)
    BY <1>1, <1>5, <1>7
  <2>2. Added(c, f) = c /\ queue = acc.queue
    BY <1>7, <2>1 DEF Added
  <2>3. state.frame = acc.state.frame
    BY <1>1, <1>7
  <2> HIDE DEF queue
  <2> QED BY <1>1, <1>2, <2>2, <2>3 DEF Waits, new
<1> QED BY <1>3, <1>6, <1>7

(* The session: what is still in the driver is the end of what was heard;  *)
(* of what was read, m changes were handed out and the others wait.        *)
Unread == Len(heard) - Len(driver)
Session(m, e) ==
  /\ driver \in Seq(Signals) /\ heard \in Seq(Signals)
  /\ Unread >= 0 /\ \A i \in 1 .. Len(driver) : heard[Unread + i] = driver[i]
  /\ Waits([state |-> receive_state, queue |-> pending], m, News(heard)[Unread], e)

(* After n signals of the driver, all the changes among them wait.         *)
LEMMA TakenWaits ==
  ASSUME ReceiverAssumption, NEW m \in Nat, NEW e, Session(m, e), NEW n \in 0 .. Len(driver)
  PROVE  Waits(Taken(n), m, News(heard)[Unread + n], e)
<1> DEFINE B == [state : Snapshots, queue : Seq(Queued)]
           b == [state |-> receive_state, queue |-> pending]
           c(i) == News(heard)[Unread + i]
           Good == {acc \in B : \E d : Waits(acc, m, d, e)}
           step == [p \in (1 .. n) \X Good |-> Take(p[2], driver[p[1]])]
           Is(g) == g = [i \in 0 .. n |-> IF i = 0 THEN b ELSE Take(g[i - 1], driver[i])]
<1>1. n \in Nat /\ Len(driver) \in Nat /\ Unread \in Nat /\ Unread + Len(driver) = Len(heard)
      /\ heard \in Seq(Signals)
  BY DEF Session, Unread
<1>2. \A i \in 1 .. n : driver[i] \in Signals /\ driver[i] = heard[Unread + i]
  BY <1>1 DEF Session
<1>3. c(0) = News(heard)[Unread] /\ \A i \in 1 .. n : c(i) = Added(c(i - 1), driver[i])
  <2>1. \A i \in 1 .. Len(heard) : News(heard)[i] = Added(News(heard)[i - 1], heard[i])
    BY <1>1, NewsSteps
  <2>2. ASSUME NEW i \in 1 .. n PROVE c(i) = Added(c(i - 1), driver[i])
    <3>1. Unread + i \in 1 .. Len(heard) /\ (Unread + i) - 1 = Unread + (i - 1)
      BY <1>1
    <3> QED BY <1>2, <2>1, <3>1
  <2>3. Unread + 0 = Unread
    BY <1>1
  <2> QED BY <2>2, <2>3
<1> HIDE DEF c
<1>4. b \in Good
  BY DEF Session, Waits
<1>5. \A i \in 1 .. n, acc \in Good : step[<<i, acc>>] = Take(acc, driver[i])
  OBVIOUS
<1> HIDE DEF step
<1>6. ASSUME NEW i \in 1 .. n, NEW acc \in Good PROVE Take(acc, driver[i]) \in Good
  <2>1. PICK d : Waits(acc, m, d, e)
    OBVIOUS
  <2>2. Waits(Take(acc, driver[i]), m, Added(d, driver[i]), e)
    BY <1>2, <2>1, TakesOne
  <2>3. Take(acc, driver[i]) \in B
    <3> DEFINE t == Take(acc, driver[i])
    <3>1. t = [state |-> t.state, queue |-> t.queue]
      BY DEF Take
    <3>2. t.state \in Snapshots /\ t.queue \in Seq(Queued)
      BY <2>2 DEF Waits
    <3> HIDE DEF t
    <3>3. t \in B
      BY <3>1, <3>2
    <3> QED BY <3>3 DEF t
  <2> QED BY <2>2, <2>3
<1> HIDE DEF Good, B
<1>7. IsStep(step, n, Good)
  BY <1>5, <1>6 DEF IsStep
<1>8. PICK f \in [0 .. n -> Good] : IsRecursive(f, b, step, n)
  BY <1>1, <1>4, <1>7, Recursion
<1> HIDE DEF b
<1>9. f[0] = b /\ \A i \in 1 .. n : f[i] = Take(f[i - 1], driver[i])
  <2>1. f[0] = b /\ \A i \in 1 .. n : f[i] = step[<<i, f[i - 1]>>]
    BY <1>8 DEF IsRecursive
  <2>2. \A i \in 1 .. n : i - 1 \in 0 .. n
    BY <1>1
  <2>3. \A i \in 1 .. n : f[i - 1] \in Good
    BY <1>8, <2>2
  <2> QED BY <1>5, <2>1, <2>3
<1>10. Is(f)
  <2>1. f = [i \in 0 .. n |-> f[i]]
    BY <1>8
  <2>2. \A i \in 0 .. n : i # 0 => i \in 1 .. n
    BY <1>1
  <2> QED BY <1>9, <2>1, <2>2
<1>11. Taken(n) = (CHOOSE g : Is(g))[n]
  BY DEF Taken, b
<1> DEFINE g == CHOOSE h : Is(h)
<1>12. Is(g)
  BY <1>10
<1> HIDE DEF g
<1>13. g[0] = b /\ \A i \in 1 .. n : g[i] = Take(g[i - 1], driver[i])
  <2>1. g[0] = b
    BY <1>1, <1>12
  <2>2. ASSUME NEW i \in 1 .. n PROVE g[i] = Take(g[i - 1], driver[i])
    <3>1. i \in 0 .. n /\ i # 0
      BY <1>1
    <3> QED BY <1>12, <3>1
  <2> QED BY <2>1, <2>2
<1> DEFINE T == {i \in 0 .. n : Waits(g[i], m, c(i), e)}
<1>14. 0 \in T
  BY <1>1, <1>3, <1>13 DEF Session, b
<1>15. ASSUME NEW i \in 0 .. n - 1, i \in T PROVE i + 1 \in T
  <2>1. i + 1 \in 1 .. n /\ (i + 1) - 1 = i /\ i + 1 \in 0 .. n
    BY <1>1
  <2>2. g[i + 1] = Take(g[i], driver[i + 1]) /\ c(i + 1) = Added(c(i), driver[i + 1])
    BY <1>3, <1>13, <2>1
  <2>3. Waits(g[i], m, c(i), e)
    BY <1>15
  <2>4. Waits(g[i + 1], m, c(i + 1), e)
    BY <1>2, <2>1, <2>2, <2>3, TakesOne
  <2> QED BY <2>1, <2>4
<1> HIDE DEF T
<1>16. n \in T
  <2>1. \A i \in 0 .. n : i \in T
    BY <1>1, <1>14, <1>15, Upwards
  <2> QED BY <1>1, <2>1
<1> QED BY <1>11, <1>16 DEF T, g, c

-----------------------------------------------------------------------------
(* IrReceiver: its operations.                                             *)

SessionTyped ==
  /\ fd \in BOOLEAN /\ driver \in Seq(Signals) /\ heard \in Seq(Signals)
  /\ pending \in Seq(Queued)
  /\ receive_state \in Snapshots /\ snapshot \in Snapshots
  /\ errors \in 0 .. MaxErrors

(* The types of the session are those the run checks.                      *)
LEMMA TypedReceiver == ASSUME ReceiverAssumption, SessionTyped PROVE ReceiverTypeOK
<1>1. \A i \in DOMAIN pending : pending[i] \in Queued
  BY DEF SessionTyped
<1>2. \A q \in Queued : q \in Snapshots /\ q.changed /\ q.frame # Noise
  BY DEF Queued, ReceiverAssumption
<1>3. Queued \subseteq Snapshots
  BY DEF Queued
<1>4. pending \in Seq(Snapshots)
  BY <1>3 DEF SessionTyped
<1> QED BY <1>1, <1>2, <1>4 DEF SessionTyped, ReceiverTypeOK, Signals

(* A snapshot that was handed out is one without a change.                 *)
LEMMA Quiet ==
  ASSUME NEW state \in Snapshots
  PROVE  LET new == [state EXCEPT !.changed = FALSE]
         IN new \in Snapshots /\ new.frame = state.frame /\ new.changed = FALSE
BY DEF Snapshots

(* A session starts with a snapshot without a frame, whatever it says.     *)
LEMMA FreshIsSnapshot ==
  ASSUME NEW e \in {"any", "fixture"}
  PROVE  /\ Fresh(e) \in Snapshots /\ Fresh(e).frame = Noise /\ Fresh(e).expected = e
         /\ Fits(Fresh(e), e)
         /\ \A x \in {"waiting", "failed"} :
              /\ [Fresh(e) EXCEPT !.message = x] \in Snapshots
              /\ [Fresh(e) EXCEPT !.message = x].frame = Noise
BY DEF Fresh, Snapshots, Fits

(* start: nothing was heard and nothing waits; the device may not open.    *)
LEMMA Starts ==
  ASSUME SessionTyped, NEW e \in {"any", "fixture"}, NEW opened \in BOOLEAN,
         StartSession(e, opened)
  PROVE  SessionTyped' /\ Session(0, e)' /\ snapshot'.frame = Noise /\ heard' = <<>> /\ fd' = opened
<1>1. /\ fd' = opened /\ pending' = <<>> /\ driver' = <<>> /\ heard' = <<>> /\ errors' = errors
      /\ receive_state' = Fresh(e)
      /\ snapshot' = [Fresh(e) EXCEPT !.message = IF opened THEN "waiting" ELSE "failed"]
  BY DEF StartSession
<1>2. snapshot' \in Snapshots /\ snapshot'.frame = Noise
  BY <1>1, FreshIsSnapshot
<1>3. receive_state' \in Snapshots /\ Fits(receive_state', e) /\ receive_state'.frame = Noise
  BY <1>1, FreshIsSnapshot
<1>4. SessionTyped'
  BY <1>1, <1>2, <1>3 DEF SessionTyped
<1>5. Unread' = 0
  BY <1>1 DEF Unread
<1>6. <<>> \in Seq(Signals) /\ Len(<<>>) = 0
  OBVIOUS
<1>7. News(heard')[0] = <<>>
  BY <1>1, <1>6, NewsSteps
<1>8. Waits([state |-> receive_state', queue |-> pending'], 0, <<>>, e)
  BY <1>1, <1>3 DEF Waits
<1>9. Session(0, e)'
  BY <1>1, <1>5, <1>6, <1>7, <1>8 DEF Session
<1> QED BY <1>1, <1>2, <1>4, <1>9

(* The device is closed: what the driver and the queue held is gone.       *)
LEMMA Closes ==
  ASSUME SessionTyped, Close, snapshot' \in Snapshots, heard' \in Seq(Signals),
         errors' \in 0 .. MaxErrors
  PROVE  SessionTyped' /\ fd' = FALSE
<1>1. receive_state' = Fresh("any") /\ driver' = <<>> /\ pending' = <<>> /\ fd' = FALSE
  BY DEF Close, Blank
<1>2. receive_state' \in Snapshots
  BY <1>1, FreshIsSnapshot
<1>3. <<>> \in Seq(Signals) /\ <<>> \in Seq(Queued)
  OBVIOUS
<1> QED BY <1>1, <1>2, <1>3 DEF SessionTyped

(* The end of a session, for whatever reason.                              *)
LEMMA Ends == ASSUME SessionTyped, EndSession PROVE SessionTyped' /\ fd' = FALSE
<1>1. snapshot' = Fresh("any") /\ heard' = <<>> /\ errors' = errors /\ Close
  BY DEF EndSession, Blank
<1>2. snapshot' \in Snapshots
  BY <1>1, FreshIsSnapshot
<1> QED BY <1>1, <1>2, Closes DEF SessionTyped

(* stop: what was heard and what is shown stay as they were.               *)
LEMMA Stops ==
  ASSUME SessionTyped, StopSession
  PROVE  SessionTyped' /\ fd' = FALSE /\ heard' = heard /\ snapshot' = snapshot
<1>1. snapshot' = snapshot /\ heard' = heard /\ errors' = errors /\ Close
  BY DEF StopSession
<1> QED BY <1>1, Closes DEF SessionTyped

(* A poll whose read fails closes the device and hands out no change.      *)
LEMMA Fails ==
  ASSUME ReceiverAssumption, SessionTyped, PollFails
  PROVE  /\ SessionTyped' /\ fd' = FALSE /\ heard' = heard
         /\ snapshot'.frame = snapshot.frame /\ snapshot'.changed = FALSE
<1>1. /\ Close /\ heard' = heard /\ errors' = errors + 1 /\ errors < MaxErrors
      /\ snapshot' = [snapshot EXCEPT !.changed = FALSE, !.message = "failed"]
  BY DEF PollFails
<1>2. snapshot' \in Snapshots /\ snapshot'.frame = snapshot.frame /\ snapshot'.changed = FALSE
  BY <1>1 DEF SessionTyped, Snapshots
<1>3. errors' \in 0 .. MaxErrors
  BY <1>1 DEF SessionTyped, ReceiverAssumption
<1> QED BY <1>1, <1>2, <1>3, Closes DEF SessionTyped

(* A poll of a closed session hands out no change.                         *)
LEMMA ClosedPoll ==
  ASSUME SessionTyped, PollClosed
  PROVE  /\ SessionTyped' /\ ~fd /\ fd' = fd /\ heard' = heard
         /\ snapshot'.frame = snapshot.frame /\ snapshot'.changed = FALSE
<1>1. /\ ~fd /\ snapshot' = [snapshot EXCEPT !.changed = FALSE]
      /\ UNCHANGED <<fd, driver, pending, receive_state, heard, errors>>
  BY DEF PollClosed
<1>2. snapshot' \in Snapshots /\ snapshot'.frame = snapshot.frame /\ snapshot'.changed = FALSE
  BY <1>1, Quiet DEF SessionTyped
<1> QED BY <1>1, <1>2 DEF SessionTyped

(* A signal reaches the driver: nothing of it is read yet.                 *)
LEMMA Hears ==
  ASSUME SessionTyped, Hear, NEW m, NEW e, Session(m, e)
  PROVE  /\ SessionTyped' /\ Session(m, e)' /\ fd' /\ snapshot' = snapshot
         /\ News(heard')[Unread'] = News(heard)[Unread]
<1>1. PICK f \in Signals : heard' = Append(heard, f) /\ driver' = Append(driver, f)
  BY DEF Hear, Signals
<1>2. fd /\ UNCHANGED <<fd, pending, receive_state, snapshot, errors>>
  BY DEF Hear
<1>3. heard \in Seq(Signals) /\ driver \in Seq(Signals) /\ Unread >= 0
  BY DEF Session
<1>4. /\ heard' \in Seq(Signals) /\ Len(heard') = Len(heard) + 1 /\ heard'[Len(heard) + 1] = f
      /\ \A i \in 1 .. Len(heard) : heard'[i] = heard[i]
  BY <1>1, <1>3, Appended
<1>5. /\ driver' \in Seq(Signals) /\ Len(driver') = Len(driver) + 1 /\ driver'[Len(driver) + 1] = f
      /\ \A i \in 1 .. Len(driver) : driver'[i] = driver[i]
  BY <1>1, <1>3, Appended
<1>6. Unread' = Unread /\ Unread \in 0 .. Len(heard) /\ Unread + Len(driver) = Len(heard)
      /\ Len(driver) \in Nat
  BY <1>3, <1>4, <1>5 DEF Unread
<1>7. News(heard')[Unread'] = News(heard)[Unread]
  BY <1>1, <1>3, <1>6, NewsAgree
<1>8. \A i \in 1 .. Len(driver') : heard'[Unread' + i] = driver'[i]
  <2> SUFFICES ASSUME NEW i \in 1 .. Len(driver) + 1 PROVE heard'[Unread + i] = driver'[i]
    BY <1>5, <1>6
  <2>1. CASE i \in 1 .. Len(driver)
    <3>1. Unread + i \in 1 .. Len(heard)
      BY <1>6, <2>1
    <3>2. heard[Unread + i] = driver[i]
      BY <2>1 DEF Session
    <3> QED BY <1>4, <1>5, <2>1, <3>1, <3>2
  <2>2. CASE i = Len(driver) + 1
    <3>1. Unread + i = Len(heard) + 1
      BY <1>6, <2>2
    <3> QED BY <1>4, <1>5, <2>2, <3>1
  <2> QED BY <1>6, <2>1, <2>2
<1>9. Session(m, e)'
  BY <1>2, <1>3, <1>4, <1>5, <1>6, <1>7, <1>8 DEF Session
<1>10. SessionTyped'
  BY <1>2, <1>4, <1>5 DEF SessionTyped
<1> QED BY <1>2, <1>7, <1>9, <1>10

(* One poll that reads: it hands out the next change, or there is none.    *)
LEMMA Reads ==
  ASSUME ReceiverAssumption, SessionTyped, PollRead, NEW m \in Nat, NEW e, Session(m, e)
  PROVE  /\ SessionTyped' /\ fd' /\ heard' = heard
         /\ Unread \in 0 .. Len(heard) /\ Unread' \in 0 .. Len(heard) /\ Unread <= Unread'
         /\ \/ /\ Session(m, e)'
               /\ snapshot'.frame = snapshot.frame /\ snapshot'.changed = FALSE
            \/ /\ Session(m + 1, e)' /\ snapshot' \in Queued /\ Fits(snapshot', e)
               /\ m + 1 \in 1 .. Len(News(heard)[Unread'])
               /\ snapshot'.frame = News(heard)[Unread'][m + 1]
<1>1. PICK n \in 0 .. Len(driver) :
        /\ n < Len(driver) => errors < MaxErrors
        /\ errors' = IF n < Len(driver) THEN errors + 1 ELSE errors
        /\ driver' = SubSeq(driver, n + 1, Len(driver))
        /\ receive_state' = Taken(n).state
        /\ HandOut(Taken(n).queue)
  BY DEF PollRead
<1>2. fd /\ fd' = fd /\ heard' = heard
  BY DEF PollRead
<1>3. heard \in Seq(Signals) /\ driver \in Seq(Signals) /\ Unread >= 0
  BY DEF Session
<1>4. /\ driver' \in Seq(Signals) /\ Len(driver') = Len(driver) - n
      /\ \A i \in 1 .. Len(driver) - n : driver'[i] = driver[n + i]
  BY <1>1, <1>3, SubSeqOf
<1>5. /\ n \in Nat /\ Len(driver) \in Nat /\ Unread \in Nat /\ Unread + Len(driver) = Len(heard)
      /\ Unread' = Unread + n
  BY <1>2, <1>3, <1>4 DEF Unread
<1>6. Unread \in 0 .. Len(heard) /\ Unread' \in 0 .. Len(heard) /\ Unread <= Unread'
  BY <1>5
<1>7. \A i \in 1 .. Len(driver') : heard'[Unread' + i] = driver'[i]
  <2> SUFFICES ASSUME NEW i \in 1 .. Len(driver) - n
               PROVE  heard[Unread + n + i] = driver[n + i]
    BY <1>2, <1>4, <1>5
  <2>1. n + i \in 1 .. Len(driver) /\ Unread + n + i = Unread + (n + i)
    BY <1>5
  <2> QED BY <2>1 DEF Session
<1> DEFINE acc == Taken(n)
           q == acc.queue
           c == News(heard)[Unread']
<1>8. Waits(acc, m, c, e)
  BY <1>1, <1>5, TakenWaits
<1> HIDE DEF acc
<1>9. errors' \in 0 .. MaxErrors
  BY <1>1 DEF SessionTyped, ReceiverAssumption
<1>10. /\ acc.state \in Snapshots /\ q \in Seq(Queued) /\ c \in Seq(Frames)
       /\ Fits(acc.state, e) /\ \A i \in 1 .. Len(q) : Fits(q[i], e)
       /\ Len(c) = m + Len(q)
       /\ \A i \in 1 .. Len(q) : q[i].frame = c[m + i]
       /\ acc.state.frame = IF c = <<>> THEN Noise ELSE Last(c)
  BY <1>8 DEF Waits
<1>11. receive_state' = acc.state /\ HandOut(q)
  BY <1>1 DEF acc
<1>12. c = News(heard')[Unread']
  BY <1>2
<1> HIDE DEF q, c
<1>13. CASE q = <<>>
  <2>1. snapshot' = [snapshot EXCEPT !.changed = FALSE] /\ pending' = <<>>
    BY <1>11, <1>13 DEF HandOut
  <2>2. snapshot' \in Snapshots /\ snapshot'.frame = snapshot.frame /\ snapshot'.changed = FALSE
    BY <2>1, Quiet DEF SessionTyped
  <2>3. Waits([state |-> receive_state', queue |-> pending'], m, c, e)
    BY <1>10, <1>11, <1>13, <2>1 DEF Waits
  <2>4. Session(m, e)'
    BY <1>2, <1>3, <1>4, <1>5, <1>7, <1>12, <2>3 DEF Session
  <2>5. SessionTyped'
    BY <1>2, <1>4, <1>9, <1>10, <1>11, <2>1, <2>2 DEF SessionTyped
  <2> QED BY <1>2, <1>6, <2>2, <2>4, <2>5
<1>14. CASE q # <<>>
  <2>1. snapshot' = Head(q) /\ pending' = Tail(q)
    BY <1>11, <1>14 DEF HandOut
  <2>2. /\ pending' \in Seq(Queued) /\ Len(q) \in Nat \ {0} /\ Len(pending') = Len(q) - 1
        /\ snapshot' \in Queued /\ snapshot' = q[1]
        /\ \A i \in 1 .. Len(q) - 1 : pending'[i] = q[i + 1]
    BY <1>10, <1>14, <2>1, TailOf
  <2>3. snapshot' \in Snapshots
    BY <2>2 DEF Queued
  <2>4. m + 1 \in 1 .. Len(c) /\ snapshot'.frame = c[m + 1] /\ Fits(snapshot', e)
    BY <1>10, <2>2
  <2>5. \A i \in 1 .. Len(pending') :
          pending'[i].frame = c[(m + 1) + i] /\ Fits(pending'[i], e)
    <3> SUFFICES ASSUME NEW i \in 1 .. Len(q) - 1
                 PROVE  q[i + 1].frame = c[(m + 1) + i] /\ Fits(q[i + 1], e)
      BY <2>2
    <3>1. i + 1 \in 1 .. Len(q) /\ (m + 1) + i = m + (i + 1)
      BY <2>2
    <3> QED BY <1>10, <3>1
  <2>6. Len(c) = (m + 1) + Len(pending')
    BY <1>10, <2>2
  <2>7. Waits([state |-> receive_state', queue |-> pending'], m + 1, c, e)
    BY <1>10, <1>11, <2>2, <2>5, <2>6 DEF Waits
  <2>8. Session(m + 1, e)'
    BY <1>2, <1>3, <1>4, <1>5, <1>7, <1>12, <2>7 DEF Session
  <2>9. SessionTyped'
    BY <1>2, <1>4, <1>9, <1>10, <1>11, <2>2, <2>3 DEF SessionTyped
  <2> QED BY <1>2, <1>6, <2>2, <2>4, <2>8, <2>9 DEF c
<1> QED BY <1>13, <1>14

-----------------------------------------------------------------------------
(* IrPage: its operations are those of the session.                        *)

(* The same operator, seen from the page and from the session.             *)
LEMMA SameFresh == \A e : Receiver!Fresh(e) = Fresh(e)
BY DEF Receiver!Fresh, Fresh

(* The same.                                                               *)
LEMMA SameStart ==
  ASSUME NEW e, NEW opened PROVE Receiver!StartSession(e, opened) <=> StartSession(e, opened)
BY SameFresh DEF Receiver!StartSession, StartSession

(* The same.                                                               *)
LEMMA SameClose == (Receiver!Close <=> Close) /\ (Receiver!StopSession <=> StopSession)
BY DEF Receiver!Close, Close, Receiver!Blank, Blank, Receiver!Fresh, Fresh,
       Receiver!StopSession, StopSession

(* The same.                                                               *)
LEMMA SameTake == \A acc, f : Receiver!Take(acc, f) = Take(acc, f)
BY DEF Receiver!Take, Take, Receiver!Finalize, Finalize

(* The same.                                                               *)
LEMMA SameTaken == \A n : Receiver!Taken(n) = Taken(n)
BY SameTake DEF Receiver!Taken, Taken

(* The same.                                                               *)
LEMMA SamePoll == Receiver!PollSession <=> PollSession
<1>1. Receiver!PollClosed <=> PollClosed
  BY DEF Receiver!PollClosed, PollClosed
<1>2. Receiver!PollFails <=> PollFails
  BY SameClose DEF Receiver!PollFails, PollFails
<1>3. Receiver!PollRead <=> PollRead
  BY SameTaken DEF Receiver!PollRead, PollRead, Receiver!HandOut, HandOut
<1> QED BY <1>1, <1>2, <1>3 DEF Receiver!PollSession, PollSession

(* The same.                                                               *)
LEMMA SameHear == Receiver!Hear <=> Hear
BY DEF Receiver!Hear, Hear

(* The same.                                                               *)
LEMMA SameChanges == \A s : Receiver!Changes(s) = Changes(s)
BY DEF Receiver!Changes, Changes, Receiver!Last, Last

(* The receiver page: what it has shown is the beginning of the changes    *)
(* heard; while the device is open it is as many as were handed out.       *)
ReceiverKept ==
  /\ SessionTyped
  /\ rx_page \in {"closed", "open"} /\ shown \in Seq(Frames)
  /\ rx_page = "closed" => ~fd
  /\ snapshot.frame = IF shown = <<>> THEN Noise ELSE Last(shown)
  /\ fd => Extends(shown, News(heard)[Unread])
           /\ \E m \in Nat : m = Len(shown) /\ Session(m, "any")
  /\ Extends(shown, News(heard)[Len(heard)])

(* To extend is transitive.                                                *)
LEMMA ExtendsFurther ==
  ASSUME NEW S, NEW b \in Seq(S), NEW c \in Seq(S), NEW d \in Seq(S),
         Extends(b, c), Extends(c, d)
  PROVE  Extends(b, d)
BY DEF Extends

(* A step that closes the session and shows nothing new keeps it.          *)
LEMMA KeptShown ==
  ASSUME ReceiverKept, SessionTyped', ~fd', UNCHANGED <<rx_page, shown, heard>>,
         snapshot'.frame = snapshot.frame
  PROVE  ReceiverKept'
BY DEF ReceiverKept

(* The page shows what a poll hands out, change by change.                 *)
LEMMA RefreshKeepsReceiver ==
  ASSUME ReceiverAssumption, ReceiverKept, Receiver!Refresh PROVE ReceiverKept'
<1>1. /\ rx_page = "open" /\ PollSession /\ rx_page' = rx_page
      /\ shown' = IF snapshot'.frame # snapshot.frame THEN Append(shown, snapshot'.frame) ELSE shown
  BY SamePoll DEF Receiver!Refresh
<1>2. SessionTyped
  BY DEF ReceiverKept
<1>3. CASE PollClosed
  <2>1. SessionTyped' /\ ~fd /\ fd' = fd /\ heard' = heard /\ snapshot'.frame = snapshot.frame
    BY <1>2, <1>3, ClosedPoll
  <2> QED BY <1>1, <2>1, KeptShown
<1>4. CASE PollFails
  <2>1. SessionTyped' /\ fd' = FALSE /\ heard' = heard /\ snapshot'.frame = snapshot.frame
    BY <1>2, <1>4, Fails
  <2> QED BY <1>1, <2>1, KeptShown
<1>5. CASE PollRead
  <2>1. fd
    BY <1>5 DEF PollRead
  <2>2. PICK m \in Nat : m = Len(shown) /\ Session(m, "any")
    BY <2>1 DEF ReceiverKept
  <2>3. Session(m, "any") /\ Extends(shown, News(heard)[Unread]) /\ shown \in Seq(Frames)
    BY <2>1, <2>2 DEF ReceiverKept
  <2>4. /\ SessionTyped' /\ fd' /\ heard' = heard
        /\ Unread \in 0 .. Len(heard) /\ Unread' \in 0 .. Len(heard) /\ Unread <= Unread'
        /\ \/ Session(m, "any")' /\ snapshot'.frame = snapshot.frame
           \/ /\ Session(m + 1, "any")' /\ snapshot' \in Queued
              /\ m + 1 \in 1 .. Len(News(heard)[Unread'])
              /\ snapshot'.frame = News(heard)[Unread'][m + 1]
    BY <1>2, <1>5, <2>3, Reads
  <2>5. heard \in Seq(Signals)
    BY <1>2 DEF SessionTyped
  <2> DEFINE b == News(heard)[Unread]
             c == News(heard)[Unread']
             d == News(heard)[Len(heard)]
  <2>6. Len(heard) \in 0 .. Len(heard) /\ Unread' <= Len(heard)
    BY <2>4, <2>5
  <2>7. b \in Seq(Frames) /\ c \in Seq(Frames) /\ d \in Seq(Frames)
    BY <2>4, <2>5, <2>6, NewsSteps
  <2>8. Extends(b, c) /\ Extends(c, d)
    BY <2>4, <2>5, <2>6, NewsGrow
  <2>9. \A j \in 1 .. Len(c) - 1 : c[j] # c[j + 1]
    BY <2>4, <2>5, NewsDiffer
  <2>10. Extends(shown, b)
    BY <2>3
  <2>14. c = News(heard')[Unread'] /\ d = News(heard')[Len(heard')]
    BY <2>4
  <2>15. snapshot.frame = IF shown = <<>> THEN Noise ELSE Last(shown)
    BY DEF ReceiverKept
  <2> HIDE DEF b, c, d
  <2>11. Extends(shown, c)
    BY <2>3, <2>7, <2>8, <2>10, ExtendsFurther
  <2>12. CASE Session(m, "any")' /\ snapshot'.frame = snapshot.frame
    <3>1. shown' = shown
      BY <1>1, <2>12
    <3>2. m = Len(shown') /\ Session(m, "any")'
      BY <2>2, <2>12, <3>1
    <3> QED BY <1>1, <2>4, <2>11, <2>12, <2>14, <3>1, <3>2 DEF ReceiverKept
  <2>13. CASE /\ Session(m + 1, "any")' /\ snapshot' \in Queued
              /\ m + 1 \in 1 .. Len(News(heard)[Unread'])
              /\ snapshot'.frame = News(heard)[Unread'][m + 1]
    <3>1. m + 1 \in 1 .. Len(c) /\ snapshot'.frame = c[m + 1]
      BY <2>13 DEF c
    <3>2. snapshot'.frame \in Frames /\ snapshot'.frame # Noise
      BY <2>13 DEF Queued, ReceiverAssumption
    <3>3. snapshot'.frame # snapshot.frame
      <4>1. CASE shown = <<>>
        BY <2>15, <3>2, <4>1
      <4>2. CASE shown # <<>>
        <5>1. m \in 1 .. Len(c) - 1 /\ Last(shown) = shown[m]
          BY <2>2, <2>3, <3>1, <4>2 DEF Last
        <5>2. shown[m] = c[m]
          BY <2>2, <2>11, <5>1 DEF Extends
        <5> QED BY <2>9, <2>15, <3>1, <4>2, <5>1, <5>2
      <4> QED BY <4>1, <4>2
    <3>4. shown' = Append(shown, snapshot'.frame)
      BY <1>1, <3>3
    <3>5. /\ shown' \in Seq(Frames) /\ Len(shown') = m + 1 /\ shown'[m + 1] = snapshot'.frame
          /\ \A j \in 1 .. m : shown'[j] = shown[j]
      BY <2>2, <2>3, <3>2, <3>4, Appended
    <3>6. Extends(shown', c)
      <4>1. \A j \in 1 .. m + 1 : j \in 1 .. m \/ j = m + 1
        BY <2>2
      <4> QED BY <2>2, <2>11, <3>1, <3>5, <4>1 DEF Extends
    <3>7. Extends(shown', d)
      BY <2>7, <2>8, <3>5, <3>6, ExtendsFurther
    <3>8. shown' # <<>> /\ Last(shown') = snapshot'.frame
      BY <2>2, <3>5 DEF Last
    <3>9. m + 1 \in Nat /\ m + 1 = Len(shown') /\ Session(m + 1, "any")'
      BY <2>13, <3>5
    <3> QED BY <1>1, <2>4, <2>14, <3>5, <3>6, <3>7, <3>8, <3>9 DEF ReceiverKept
  <2> QED BY <2>4, <2>12, <2>13
<1> QED BY <1>1, <1>3, <1>4, <1>5 DEF PollSession

(* Every step of the page keeps it.                                        *)
LEMMA ReceiverKeeps ==
  ASSUME ReceiverAssumption, ReceiverKept, Receiver!Next PROVE ReceiverKept'
<1>0. SessionTyped
  BY DEF ReceiverKept
<1>1. CASE Receiver!Open
  <2>1. PICK opened \in BOOLEAN : StartSession("any", opened)
    BY <1>1, SameStart DEF Receiver!Open
  <2>2. rx_page' = "open" /\ shown' = <<>>
    BY <1>1 DEF Receiver!Open
  <2>3. SessionTyped' /\ Session(0, "any")' /\ snapshot'.frame = Noise /\ heard' = <<>>
    BY <1>0, <2>1, Starts
  <2>4. <<>> \in Seq(Signals) /\ Len(<<>>) = 0 /\ shown' \in Seq(Frames)
    BY <2>2
  <2>5. News(heard')[0] = <<>>
    BY <2>3, <2>4, NewsSteps
  <2>6. Unread' = 0
    BY <2>3 DEF Session, Unread
  <2>7. Extends(shown', <<>>)
    BY <2>2 DEF Extends
  <2>8. 0 = Len(shown') /\ Session(0, "any")'
    BY <2>2, <2>3
  <2> QED BY <2>2, <2>3, <2>4, <2>5, <2>6, <2>7, <2>8 DEF ReceiverKept
<1>2. CASE Receiver!Refresh
  BY <1>2, RefreshKeepsReceiver
<1>3. CASE Receiver!Leave
  <2>1. StopSession /\ rx_page' = "closed" /\ shown' = shown
    BY <1>3, SameClose DEF Receiver!Leave
  <2>2. SessionTyped' /\ fd' = FALSE /\ heard' = heard /\ snapshot' = snapshot
    BY <1>0, <2>1, Stops
  <2> QED BY <2>1, <2>2 DEF ReceiverKept
<1>4. CASE Receiver!Hear /\ UNCHANGED <<rx_page, shown>>
  <2>1. Hear /\ fd
    BY <1>4, SameHear DEF Hear
  <2>2. PICK m \in Nat : m = Len(shown) /\ Session(m, "any")
    BY <2>1 DEF ReceiverKept
  <2>3. Session(m, "any") /\ Extends(shown, News(heard)[Unread]) /\ shown \in Seq(Frames)
    BY <2>1, <2>2 DEF ReceiverKept
  <2>4. /\ SessionTyped' /\ Session(m, "any")' /\ fd' /\ snapshot' = snapshot
        /\ News(heard')[Unread'] = News(heard)[Unread]
    BY <1>0, <2>1, <2>3, Hears
  <2>5. m = Len(shown') /\ Session(m, "any")' /\ Extends(shown', News(heard')[Unread'])
    BY <1>4, <2>2, <2>3, <2>4
  <2>6. heard' \in Seq(Signals) /\ Unread' \in 0 .. Len(heard') /\ Len(heard') \in 0 .. Len(heard')
        /\ Unread' <= Len(heard')
    BY <2>4 DEF Session, Unread
  <2>7. Extends(News(heard')[Unread'], News(heard')[Len(heard')])
    BY <2>6, NewsGrow
  <2>8. News(heard')[Unread'] \in Seq(Frames) /\ News(heard')[Len(heard')] \in Seq(Frames)
    BY <2>6, NewsSteps
  <2>9. Extends(shown', News(heard')[Len(heard')])
    BY <1>4, <2>3, <2>5, <2>7, <2>8, ExtendsFurther
  <2>10. /\ rx_page' = rx_page /\ shown' = shown /\ rx_page # "closed"
         /\ rx_page \in {"closed", "open"}
         /\ snapshot.frame = IF shown = <<>> THEN Noise ELSE Last(shown)
    BY <1>4, <2>1 DEF ReceiverKept
  <2>11. snapshot'.frame = IF shown' = <<>> THEN Noise ELSE Last(shown')
    BY <2>4, <2>10
  <2> QED BY <2>3, <2>4, <2>5, <2>9, <2>10, <2>11 DEF ReceiverKept
<1> QED BY <1>1, <1>2, <1>3, <1>4 DEF Receiver!Next

(* A session that was never started is of its types.                       *)
LEMMA InitSession == ASSUME ReceiverAssumption, ReceiverInit PROVE SessionTyped
<1>1. Fresh("any") \in Snapshots
  BY FreshIsSnapshot
<1>2. <<>> \in Seq(Signals) /\ <<>> \in Seq(Queued)
  OBVIOUS
<1>3. fd \in BOOLEAN
  BY DEF ReceiverInit
<1>5. errors = 0 /\ MaxErrors \in Nat
  BY DEF ReceiverInit, ReceiverAssumption
<1>4. receive_state = Fresh("any") /\ snapshot = Fresh("any") /\ driver = <<>> /\ heard = <<>>
      /\ pending = <<>>
  BY DEF ReceiverInit, Blank
<1> QED BY <1>1, <1>2, <1>3, <1>4, <1>5 DEF SessionTyped

(* The page is not open, and shows nothing.                                *)
LEMMA InitReceiver == ASSUME ReceiverAssumption, Receiver!Init PROVE ReceiverKept
<1>1. ReceiverInit /\ rx_page = "closed" /\ shown = <<>>
  BY DEF Receiver!Init, Receiver!ReceiverInit, ReceiverInit, Receiver!Blank, Blank,
         Receiver!Fresh, Fresh
<1>2. fd = FALSE /\ heard = <<>> /\ snapshot = Fresh("any")
  BY <1>1 DEF ReceiverInit, Blank
<1>3. snapshot.frame = Noise
  BY <1>2, FreshIsSnapshot
<1>4. <<>> \in Seq(Signals) /\ Len(<<>>) = 0 /\ shown \in Seq(Frames)
  BY <1>1
<1>5. News(heard)[Len(heard)] = <<>>
  BY <1>2, <1>4, NewsSteps
<1> QED BY <1>1, <1>2, <1>3, <1>4, <1>5, InitSession DEF ReceiverKept, Extends

(* It tells all that the run checks of the page.                           *)
LEMMA ReceiverKeptGivesInv == ASSUME ReceiverAssumption, ReceiverKept PROVE Receiver!Inv
<1>1. ReceiverTypeOK
  BY TypedReceiver DEF ReceiverKept
<1>2. Receiver!ReceiverTypeOK
  BY <1>1 DEF ReceiverTypeOK, Receiver!ReceiverTypeOK, Snapshots, Receiver!Snapshots
<1>3. Receiver!TypeOK
  BY <1>2 DEF ReceiverKept, Receiver!TypeOK
<1> DEFINE c == News(heard)[Len(heard)]
<1>4. c = Receiver!Changes(heard)
  BY ChangesAreNews, SameChanges
<1>5. shown \in Seq(Frames) /\ Extends(shown, c)
  BY DEF ReceiverKept
<1>6. heard \in Seq(Signals) /\ Len(heard) \in 0 .. Len(heard)
  BY DEF ReceiverKept, SessionTyped
<1>7. c \in Seq(Frames)
  BY <1>6, NewsSteps
<1> HIDE DEF c
<1>8. shown = SubSeq(c, 1, Len(shown)) /\ Len(shown) <= Len(c)
  BY <1>5, <1>7 DEF Extends
<1>9. Receiver!IsPrefix(shown, c)
  BY <1>8 DEF Receiver!IsPrefix
<1> QED BY <1>3, <1>4, <1>9 DEF Receiver!Inv, Receiver!ShownInOrder

-----------------------------------------------------------------------------
(* The page of the fixture's test uses the session too: for it, the types. *)

SessionKept ==
  /\ SessionTyped
  /\ fd => \E m \in Nat : Session(m, IF current = "ir fixture" THEN "fixture" ELSE "any")
  /\ current = "ir receiver" => ReceiverKept

(* The fixture's session is one too: it listens for the fixture's frames.  *)
LEMMA FixtureKeeps ==
  ASSUME ReceiverAssumption, SessionTyped, Next, fd => \E m \in Nat : Session(m, "fixture")
  PROVE  SessionTyped' /\ (fd' => \E m \in Nat : Session(m, "fixture")')
<1>1. CASE UNCHANGED receiver
  BY <1>1 DEF receiver, SessionTyped, Session, Unread
<1>2. CASE \E opened \in BOOLEAN : StartSession("fixture", opened)
  <2>1. SessionTyped' /\ Session(0, "fixture")'
    BY <1>2, Starts
  <2> QED BY <2>1
<1>3. CASE PollClosed
  BY <1>3, ClosedPoll
<1>4. CASE PollFails
  BY <1>4, Fails
<1>5. CASE PollRead
  <2>1. PICK m \in Nat : Session(m, "fixture")
    BY <1>5 DEF PollRead
  <2>2. SessionTyped' /\ (Session(m, "fixture")' \/ Session(m + 1, "fixture")')
    BY <1>5, <2>1, Reads
  <2>3. m + 1 \in Nat
    OBVIOUS
  <2> QED BY <2>2, <2>3
<1>6. CASE EndSession
  BY <1>6, Ends
<1>7. CASE Hear
  <2>1. PICK m \in Nat : Session(m, "fixture")
    BY <1>7 DEF Hear
  <2>2. SessionTyped' /\ Session(m, "fixture")'
    BY <1>7, <2>1, Hears
  <2> QED BY <2>2
<1>8. CASE Worker
  <2>1. CASE OpenReceiver
    BY <1>1, <1>2, <2>1 DEF OpenReceiver
  <2>2. CASE Listen
    BY <1>3, <1>4, <1>5, <2>2 DEF Listen, PollSession
  <2>3. CASE Return
    BY <1>6, <2>3 DEF Return
  <2>4. CASE Check \/ Send \/ Pause \/ EndListening \/ Wait \/ Verdict
    BY <1>1, <2>4 DEF Check, Send, Pause, EndListening, Wait, Verdict
  <2> QED BY <1>8, <2>1, <2>2, <2>3, <2>4 DEF Worker
<1>9. CASE Deadline \/ Enter \/ Start \/ Refresh \/ Leave \/ Joined
  BY <1>1, <1>9 DEF Deadline, Enter, Start, Refresh, Leave, Joined
<1>10. CASE Air
  BY <1>7, <1>10 DEF Air
<1> QED BY <1>8, <1>9, <1>10 DEF Next

(* Every step of the pages keeps it, whichever page has the session.       *)
LEMMA NextSession == SessionKept /\ [PagesNext]_pagesVars => SessionKept'
<1> SUFFICES ASSUME SessionKept, [PagesNext]_pagesVars PROVE SessionKept'
  OBVIOUS
<1>0. ReceiverAssumption
  BY PagesAssumption DEF Receiver!ReceiverAssumption, ReceiverAssumption
<1>1. CASE UNCHANGED <<current, receiver, rx_only>>
  BY <1>1 DEF receiver, rx_only, SessionKept, SessionTyped, Session, Unread, ReceiverKept
<1>2. CASE current = "ir fixture" /\ Next /\ FixtureOnly
  <2>1. current' = "ir fixture"
    BY <1>2 DEF FixtureOnly
  <2>2. SessionTyped' /\ (fd' => \E m \in Nat : Session(m, "fixture")')
    BY <1>0, <1>2, FixtureKeeps DEF SessionKept
  <2> QED BY <2>1, <2>2 DEF SessionKept
<1>3. CASE current = "ir receiver" /\ Receiver!Next /\ ReceiverOnly
  <2>1. current' = "ir receiver"
    BY <1>3 DEF ReceiverOnly
  <2>2. ReceiverKept'
    BY <1>0, <1>3, ReceiverKeeps DEF SessionKept
  <2> QED BY <2>1, <2>2 DEF SessionKept, ReceiverKept
<1> QED BY <1>1, <1>2, <1>3 DEF PagesNext, pagesVars, Py32Only, KeyboardOnly

(* It holds before any page was opened.                                    *)
LEMMA InitSessionKept == ASSUME PagesInit PROVE SessionKept
<1>0. ReceiverAssumption
  BY PagesAssumption DEF Receiver!ReceiverAssumption, ReceiverAssumption
<1>1. ReceiverKept
  BY <1>0, InitReceiver DEF PagesInit
<1>2. fd = FALSE
  BY DEF PagesInit, Init, ReceiverInit
<1> QED BY <1>1, <1>2 DEF SessionKept, ReceiverKept

(* For any frames, any number of them and of failing reads: on both pages  *)
(* only news waits to be handed out, and the receiver page shows what came,*)
(* in its order, none left out: ReceiverInv.                               *)
THEOREM ReceiverThm == PagesSpec => []ReceiverInv
<1>1. PagesInit => SessionKept
  BY InitSessionKept
<1>2. ASSUME SessionKept PROVE ReceiverInv
  <2>1. ReceiverAssumption
    BY PagesAssumption DEF Receiver!ReceiverAssumption, ReceiverAssumption
  <2> QED BY <1>2, <2>1, TypedReceiver, ReceiverKeptGivesInv DEF SessionKept, ReceiverInv
<1> QED
  BY <1>1, <1>2, NextSession, PTL DEF PagesSpec

-----------------------------------------------------------------------------
(* IrFixture: the fixture's frames among the changes.                      *)

Own(c) ==
  LET own[i \in 0..Len(c)] == IF i = 0 THEN <<>>
                              ELSE IF c[i].address # "fixture" THEN own[i - 1]
                              ELSE Append(own[i - 1], c[i])
  IN own

(* FromFixture is what they are after the last change.                     *)
LEMMA AnswersAreOwn ==
  ASSUME NEW s PROVE FromFixture(s) = Own(Changes(s))[Len(Changes(s))]
BY DEF FromFixture, Own

(* What a frame adds to the fixture's frames before it.                    *)
Answered(b, f) == IF f.address # "fixture" THEN b ELSE Append(b, f)

(* The fixture's frames start with none, and each change adds its own.     *)
LEMMA OwnSteps ==
  ASSUME NEW c \in Seq(Frames)
  PROVE  /\ Own(c) \in [0 .. Len(c) -> Seq(Frames)]
         /\ Own(c)[0] = <<>>
         /\ \A i \in 1 .. Len(c) : Own(c)[i] = Answered(Own(c)[i - 1], c[i])
<1> DEFINE n == Len(c)
           B == Seq(Frames)
           step == [p \in (1 .. n) \X B |-> Answered(p[2], c[p[1]])]
           Is(g) == g = [i \in 0 .. n |->
                           IF i = 0 THEN <<>>
                           ELSE IF c[i].address # "fixture" THEN g[i - 1]
                           ELSE Append(g[i - 1], c[i])]
<1>1. n \in Nat /\ <<>> \in B
  OBVIOUS
<1>3. \A i \in 1 .. n, b \in B : step[<<i, b>>] = Answered(b, c[i])
  OBVIOUS
<1>2. \A i \in 1 .. n, b \in B : step[<<i, b>>] \in B
  <2> SUFFICES ASSUME NEW i \in 1 .. n, NEW b \in B PROVE Answered(b, c[i]) \in B
    BY <1>3
  <2> QED BY DEF Answered
<1> HIDE DEF step, n, B
<1>14. IsStep(step, n, B)
  BY <1>2 DEF IsStep
<1>4. PICK f \in [0 .. n -> B] : IsRecursive(f, <<>>, step, n)
  BY <1>1, <1>14, Recursion
<1>5. f[0] = <<>> /\ \A i \in 1 .. n : f[i] = Answered(f[i - 1], c[i])
  BY <1>1, <1>3, <1>4 DEF IsRecursive
<1>6. Is(f)
  <2>1. f = [i \in 0 .. n |-> f[i]]
    BY <1>4
  <2>2. \A i \in 0 .. n : i # 0 => i \in 1 .. n
    BY <1>1
  <2> QED BY <1>5, <2>1, <2>2 DEF Answered
<1>7. Own(c) = CHOOSE g : Is(g)
  BY DEF Own, n
<1> DEFINE g == Own(c)
<1> HIDE DEF g
<1>9. Is(g)
  BY <1>6, <1>7 DEF g
<1>10. g[0] = <<>> /\ \A i \in 1 .. n : g[i] = Answered(g[i - 1], c[i])
  <2>1. g[0] = <<>>
    BY <1>1, <1>9
  <2>2. ASSUME NEW i \in 1 .. n PROVE g[i] = Answered(g[i - 1], c[i])
    <3>1. i \in 0 .. n /\ i # 0
      BY <1>1
    <3> QED BY <1>9, <3>1 DEF Answered
  <2> QED BY <2>1, <2>2
<1>12. \A i \in 0 .. n : g[i] \in B
  <2> DEFINE T == {i \in 0 .. n : g[i] \in B}
  <2>1. 0 \in T
    BY <1>1, <1>10
  <2>2. ASSUME NEW i \in 0 .. n - 1, i \in T PROVE i + 1 \in T
    <3>1. i + 1 \in 1 .. n /\ (i + 1) - 1 = i
      BY <1>1
    <3>2. g[i + 1] = Answered(g[i], c[i + 1])
      BY <1>10, <3>1
    <3>4. g[i + 1] \in B
      BY <1>2, <1>3, <2>2, <3>1, <3>2
    <3> QED BY <3>1, <3>4
  <2> HIDE DEF T
  <2>3. \A i \in 0 .. n : i \in T
    BY <1>1, <2>1, <2>2, Upwards
  <2> QED BY <2>3 DEF T
<1>13. g = [i \in 0 .. n |-> g[i]]
  BY <1>9
<1> QED BY <1>10, <1>12, <1>13 DEF g, n, B

(* The fixture's frames of more changes are those of fewer, so far.        *)
LEMMA OwnAgree ==
  ASSUME NEW c \in Seq(Frames), NEW d \in Seq(Frames), Extends(c, d)
  PROVE  \A i \in 0 .. Len(c) : Own(d)[i] = Own(c)[i]
<1> DEFINE n == Len(c)
           G == {i \in 0 .. n : Own(d)[i] = Own(c)[i]}
<1>1. n \in Nat /\ n <= Len(d) /\ Len(d) \in Nat /\ \A i \in 1 .. n : d[i] = c[i]
  BY DEF Extends
<1>2. /\ Own(c)[0] = <<>> /\ Own(d)[0] = <<>>
      /\ \A i \in 1 .. n : Own(c)[i] = Answered(Own(c)[i - 1], c[i])
      /\ \A i \in 1 .. Len(d) : Own(d)[i] = Answered(Own(d)[i - 1], d[i])
  BY OwnSteps
<1> HIDE DEF n
<1>3. 0 \in G
  BY <1>1, <1>2
<1>4. ASSUME NEW i \in 0 .. n - 1, i \in G PROVE i + 1 \in G
  <2>1. i + 1 \in 1 .. n /\ i + 1 \in 1 .. Len(d) /\ (i + 1) - 1 = i /\ i + 1 \in 0 .. n
    BY <1>1
  <2>2. Own(d)[i] = Own(c)[i]
    BY <1>4
  <2> QED BY <1>1, <1>2, <2>1, <2>2
<1> HIDE DEF G
<1>5. \A i \in 0 .. n : i \in G
  BY <1>1, <1>3, <1>4, Upwards
<1> QED BY <1>5 DEF G, n

(* They only grow.                                                         *)
LEMMA OwnGrow ==
  ASSUME NEW c \in Seq(Frames), NEW k \in 0 .. Len(c)
  PROVE  \A i \in 0 .. Len(c) : k <= i => Extends(Own(c)[k], Own(c)[i])
<1>1. AreGrowing(Own(c), Len(c), Frames)
  <2>1. \A i \in 1 .. Len(c) : c[i] \in Frames
    OBVIOUS
  <2> QED BY <2>1, OwnSteps DEF AreGrowing, Answered
<1>2. Len(c) \in Nat
  OBVIOUS
<1> QED BY <1>1, <1>2, Grow

-----------------------------------------------------------------------------
(* IrFixture: the replies counted are the fixture's.                       *)

Replies(n) == [i \in 1 .. n |-> Reply(i)]

(* After k of the frames heard were read and m of their changes handed out,*)
(* the fixture's among these are the replies counted.                      *)
Counted(m, k) ==
  /\ heard \in Seq(Signals) /\ k \in 0 .. Len(heard)
  /\ m \in 0 .. Len(News(heard)[k]) /\ Own(News(heard)[k])[m] = Replies(received)
  /\ fd => k = Unread /\ Session(m, "fixture")

CountKept ==
  /\ received \in Nat
  /\ pc \in {"check", "send", "pause", "open"} => received = 0
  /\ pc \in {"listen", "wait", "verdict"} => \E m, k \in Nat : Counted(m, k)

(* The replies to n + 1 requests are those to n and one more.              *)
LEMMA OneReply ==
  ASSUME NEW n \in Nat
  PROVE  /\ Replies(n) \in Seq({Reply(i) : i \in 1 .. n}) /\ Len(Replies(n)) = n
         /\ Append(Replies(n), Reply(n + 1)) = Replies(n + 1)
         /\ \A i \in 1 .. n : Replies(n)[i] = Reply(i)
<1> DEFINE R == {Reply(i) : i \in 1 .. n}
<1>1. Replies(n) \in Seq(R) /\ Len(Replies(n)) = n /\ \A i \in 1 .. n : Replies(n)[i] = Reply(i)
  BY DEF Replies
<1> DEFINE a == Append(Replies(n), Reply(n + 1))
<1>2. /\ Len(a) = n + 1 /\ a[n + 1] = Reply(n + 1)
      /\ \A j \in 1 .. n : a[j] = Replies(n)[j]
  BY <1>1, Appended
<1>3. a = [i \in 1 .. n + 1 |-> a[i]]
  BY <1>1
<1>4. \A i \in 1 .. n + 1 : i \in 1 .. n \/ i = n + 1
  OBVIOUS
<1> HIDE DEF a
<1>5. \A i \in 1 .. n + 1 : a[i] = Reply(i)
  BY <1>1, <1>2, <1>4
<1>6. a = Replies(n + 1)
  BY <1>3, <1>5 DEF Replies
<1> QED BY <1>1, <1>6 DEF a

(* A frame of the fixture is the reply waited for when the test says so.   *)
LEMMA ExpectedIsReply ==
  ASSUME NEW f \in Frames, f.address = "fixture"
  PROVE  ExpectedReply(f) <=> f = Reply(received + 1)
<1>1. f = [address |-> f.address, command |-> f.command, protocol |-> f.protocol]
  BY PagesAssumption DEF FixtureAssumption
<1> QED BY <1>1 DEF ExpectedReply, Reply

(* More of the frames read, none handed out.                               *)
LEMMA CountedFurther ==
  ASSUME NEW m, NEW k, Counted(m, k), NEW j \in 0 .. Len(heard), k <= j
  PROVE  /\ Extends(News(heard)[k], News(heard)[j])
         /\ News(heard)[k] \in Seq(Frames) /\ News(heard)[j] \in Seq(Frames)
         /\ m \in 0 .. Len(News(heard)[j]) /\ Own(News(heard)[j])[m] = Replies(received)
<1>1. heard \in Seq(Signals) /\ k \in 0 .. Len(heard)
  BY DEF Counted
<1> DEFINE b == News(heard)[k]
           c == News(heard)[j]
<1>2. Extends(b, c) /\ b \in Seq(Frames) /\ c \in Seq(Frames)
  BY <1>1, NewsGrow, NewsSteps
<1>3. m \in 0 .. Len(b) /\ Own(b)[m] = Replies(received)
  BY DEF Counted
<1> HIDE DEF b, c
<1>4. Own(c)[m] = Own(b)[m]
  BY <1>2, <1>3, OwnAgree
<1>5. m \in 0 .. Len(c)
  BY <1>2, <1>3 DEF Extends
<1> QED BY <1>2, <1>3, <1>4, <1>5 DEF b, c

(* The worker's poll.                                                      *)
LEMMA ListenCounts ==
  ASSUME ReceiverAssumption, SessionTyped, CountKept, Listen
  PROVE  /\ pc' # "return" => \E m, k \in Nat : Counted(m, k)'
         /\ cause' # cause => \E i \in DOMAIN FromFixture(heard) : FromFixture(heard)[i] # Reply(i)
<1>1. PICK m \in Nat, k \in Nat : Counted(m, k)
  BY DEF CountKept, Listen
<1>2. heard \in Seq(Signals) /\ k \in 0 .. Len(heard)
  BY <1>1 DEF Counted
<1> DEFINE reply == snapshot'.changed /\ snapshot'.matched
<1>3. \/ ~reply /\ received' = received /\ cause' = cause
      \/ reply /\ ExpectedReply(snapshot'.frame) /\ received' = received + 1 /\ cause' = cause
      \/ reply /\ ~ExpectedReply(snapshot'.frame) /\ pc' = "return"
  BY DEF Listen, Fail, published
<1>4. CASE PollClosed \/ PollFails
  <2>1. fd' = FALSE /\ heard' = heard /\ snapshot'.changed = FALSE
    <3>1. CASE PollClosed
      <4>1. ~fd /\ fd' = fd /\ heard' = heard /\ snapshot'.changed = FALSE /\ SessionTyped'
        BY <3>1, ClosedPoll
      <4> QED BY <4>1 DEF SessionTyped
    <3>2. CASE PollFails
      BY <3>2, Fails
    <3> QED BY <1>4, <3>1, <3>2
  <2>2. received' = received /\ cause' = cause
    BY <1>3, <2>1
  <2>3. Counted(m, k)'
    BY <1>1, <2>1, <2>2 DEF Counted
  <2> QED BY <2>2, <2>3
<1>5. CASE PollRead
  <2>0. fd
    BY <1>5 DEF PollRead
  <2>1. k = Unread /\ Session(m, "fixture")
    BY <1>1, <2>0 DEF Counted
  <2>2. /\ fd' /\ heard' = heard
        /\ Unread' \in 0 .. Len(heard) /\ k <= Unread'
        /\ \/ Session(m, "fixture")' /\ snapshot'.changed = FALSE
           \/ /\ Session(m + 1, "fixture")' /\ snapshot' \in Queued /\ Fits(snapshot', "fixture")
              /\ m + 1 \in 1 .. Len(News(heard)[Unread'])
              /\ snapshot'.frame = News(heard)[Unread'][m + 1]
    BY <1>5, <2>1, Reads
  <2>14. Len(heard) \in Nat
    BY <1>2
  <2>15. Unread' \in Nat /\ Unread' <= Len(heard)
    BY <2>2, <2>14
  <2>3. PICK j \in Nat : j = Unread'
    BY <2>15
  <2> DEFINE c == News(heard)[j]
             d == News(heard)[Len(heard)]
  <2>4. j \in 0 .. Len(heard) /\ k <= j /\ Len(heard) \in 0 .. Len(heard) /\ j <= Len(heard)
    BY <2>2, <2>3, <2>14, <2>15
  <2>5. c \in Seq(Frames) /\ m \in 0 .. Len(c) /\ Own(c)[m] = Replies(received)
    BY <1>1, <2>4, CountedFurther
  <2>6. d \in Seq(Frames) /\ Extends(c, d)
    BY <1>2, <2>4, NewsGrow, NewsSteps
  <2>7. c = News(heard')[j]
    BY <2>2
  <2>8. c = News(heard)[Unread'] /\ d = Changes(heard)
    BY <2>3, ChangesAreNews
  <2>13. heard' \in Seq(Signals) /\ j \in 0 .. Len(heard')
    BY <1>2, <2>2, <2>4
  <2> HIDE DEF c, d
  <2>9. CASE Session(m, "fixture")' /\ snapshot'.changed = FALSE
    <3>1. received' = received /\ cause' = cause
      BY <1>3, <2>9
    <3>2. Counted(m, j)'
      BY <2>2, <2>3, <2>5, <2>7, <2>9, <2>13, <3>1 DEF Counted
    <3> QED BY <3>1, <3>2
  <2>10. CASE /\ Session(m + 1, "fixture")' /\ snapshot' \in Queued /\ Fits(snapshot', "fixture")
              /\ m + 1 \in 1 .. Len(News(heard)[Unread'])
              /\ snapshot'.frame = News(heard)[Unread'][m + 1]
    <3> DEFINE f == snapshot'.frame
    <3>1. m + 1 \in 1 .. Len(c) /\ m + 1 \in 0 .. Len(c) /\ f = c[m + 1] /\ f \in Frames
          /\ snapshot'.changed = TRUE /\ m + 1 \in Nat /\ (m + 1) - 1 = m
      <4>1. Len(c) \in Nat
        BY <2>5
      <4>2. m + 1 \in 1 .. Len(c) /\ snapshot'.frame = c[m + 1]
        BY <2>8, <2>10
      <4>3. snapshot'.frame \in Frames /\ snapshot'.changed = TRUE
        BY <2>10 DEF Queued
      <4> QED BY <4>1, <4>2, <4>3
    <3>2. reply <=> f.address = "fixture"
      <4>1. snapshot'.matched <=> "fixture" \in {"any", f.address}
        BY <2>10, <3>1 DEF Fits, ReceiverAssumption
      <4> QED BY <3>1, <4>1
    <3>3. Own(c)[m + 1] = IF f.address # "fixture" THEN Own(c)[m] ELSE Append(Own(c)[m], f)
      <4>1. Own(c)[m + 1] = Answered(Own(c)[(m + 1) - 1], c[m + 1])
        BY <2>5, <3>1, OwnSteps
      <4> QED BY <3>1, <4>1 DEF Answered
    <3>4. Append(Replies(received), Reply(received + 1)) = Replies(received + 1)
      BY OneReply DEF CountKept
    <3>5. f.address = "fixture" => (ExpectedReply(f) <=> f = Reply(received + 1))
      BY <3>1, ExpectedIsReply
    <3>9. Session(m + 1, "fixture")'
      BY <2>10
    <3> HIDE DEF f, reply
    <3>6. CASE ~reply \/ ExpectedReply(f)
      <4>1. Own(c)[m + 1] = Replies(received') /\ cause' = cause
        BY <1>3, <2>5, <3>2, <3>3, <3>4, <3>5, <3>6 DEF f
      <4>2. Counted(m + 1, j)'
        BY <2>2, <2>3, <2>7, <2>13, <3>1, <3>9, <4>1 DEF Counted
      <4> QED BY <3>1, <4>1, <4>2
    <3>7. CASE reply /\ ~ExpectedReply(f)
      <4>1. pc' = "return"
        BY <1>3, <3>7 DEF f
      <4>2. f # Reply(received + 1) /\ Own(c)[m + 1] = Append(Replies(received), f)
        BY <2>5, <3>2, <3>3, <3>5, <3>7
      <4> DEFINE a == Own(c)[m + 1]
                 answers == Own(d)[Len(d)]
      <4>3. Len(a) = received + 1 /\ a[received + 1] = f
        <5>1. Replies(received) \in Seq({Reply(i) : i \in 1 .. received})
              /\ Len(Replies(received)) = received
          BY OneReply DEF CountKept
        <5> DEFINE b == Replies(received)
        <5>2. /\ Len(Append(b, f)) = Len(b) + 1 /\ Append(b, f)[Len(b) + 1] = f
          BY <5>1, Appended
        <5> QED BY <4>2, <5>1, <5>2
      <4>4. Own(d)[m + 1] = a
        BY <2>5, <2>6, <3>1, OwnAgree
      <4>5. m + 1 \in 0 .. Len(d) /\ Len(d) \in 0 .. Len(d) /\ m + 1 <= Len(d)
        <5>1. Len(c) \in Nat /\ Len(d) \in Nat /\ Len(c) <= Len(d)
          BY <2>5, <2>6 DEF Extends
        <5> QED BY <3>1, <5>1
      <4>6. Extends(a, answers) /\ answers \in Seq(Frames)
        BY <2>6, <4>4, <4>5, OwnGrow, OwnSteps
      <4>7. answers = FromFixture(heard)
        BY <2>8, AnswersAreOwn
      <4> HIDE DEF a, answers
      <4>8. received + 1 \in DOMAIN answers /\ answers[received + 1] = f
        <5>1. Len(a) <= Len(answers) /\ \A i \in 1 .. Len(a) : answers[i] = a[i]
          BY <4>6 DEF Extends
        <5>2. Len(answers) \in Nat /\ DOMAIN answers = 1 .. Len(answers)
          BY <4>6
        <5>3. received + 1 \in 1 .. Len(a) /\ received + 1 \in 1 .. Len(answers)
          BY <4>3, <5>1, <5>2 DEF CountKept
        <5> QED BY <4>3, <5>1, <5>2, <5>3
      <4>9. received + 1 \in DOMAIN FromFixture(heard)
            /\ FromFixture(heard)[received + 1] # Reply(received + 1)
        BY <4>2, <4>7, <4>8
      <4> QED BY <4>1, <4>9
    <3> QED BY <3>6, <3>7
  <2> QED BY <2>2, <2>9, <2>10
<1> QED BY <1>4, <1>5 DEF Listen, PollSession

(* The other steps of the worker, and of those it shares its state with.   *)
LEMMA NextCounts ==
  ASSUME ReceiverAssumption, SessionTyped, CountKept, Next PROVE CountKept'
<1>0. received \in Nat
  BY DEF CountKept
<1>1. ASSUME UNCHANGED <<receiver, received>>,
             pc' \in {"check", "send", "pause", "open"}
               => pc \in {"check", "send", "pause", "open"},
             pc' \in {"listen", "wait", "verdict"} => pc \in {"listen", "wait", "verdict"}
      PROVE  CountKept'
  <2>1. UNCHANGED <<fd, driver, pending, receive_state, heard, received>>
    BY <1>1 DEF receiver
  <2>2. \A m, k : Counted(m, k) => Counted(m, k)'
    BY <2>1 DEF Counted, Session, Unread
  <2> QED BY <1>1, <2>1, <2>2 DEF CountKept
<1>2. CASE OpenReceiver /\ pc' = "listen"
  <2>1. StartSession("fixture", TRUE) /\ received' = received /\ received = 0
    BY <1>2 DEF OpenReceiver, Canceled, Fail, CountKept
  <2>2. SessionTyped' /\ Session(0, "fixture")' /\ heard' = <<>>
    BY <2>1, Starts
  <2>3. heard' \in Seq(Signals) /\ Len(heard') = 0 /\ driver' = <<>> /\ Unread' = 0
    BY <2>1, <2>2 DEF StartSession, Unread
  <2>4. News(heard')[0] = <<>>
    BY <2>3, NewsSteps
  <2>8. <<>> \in Seq(Frames) /\ Len(<<>>) = 0
    OBVIOUS
  <2>5. Own(<<>>)[0] = <<>> /\ <<>> \in Seq(Frames) /\ Len(<<>>) = 0
    BY <2>8, OwnSteps
  <2>6. Replies(received') = <<>>
    BY <2>1 DEF Replies
  <2>7. Counted(0, 0)'
    BY <2>2, <2>3, <2>4, <2>5, <2>6 DEF Counted
  <2> QED BY <1>0, <1>2, <2>1, <2>7 DEF CountKept
<1>3. CASE OpenReceiver /\ pc' = "return"
  BY <1>0, <1>3 DEF OpenReceiver, CountKept
<1>4. CASE Listen
  <2>1. pc' # "return" => \E m, k \in Nat : Counted(m, k)'
    BY <1>4, ListenCounts
  <2>2. received' \in {received, received + 1}
    BY <1>4 DEF Listen
  <2>3. pc' \in {"wait", "verdict", "return"}
    BY <1>4 DEF Listen, Fail
  <2> QED BY <1>0, <2>1, <2>2, <2>3 DEF CountKept
<1>5. CASE Air
  <2>1. Hear /\ pc' = pc /\ received' = received
    BY <1>5 DEF Air, worker
  <2>2. ASSUME NEW m \in Nat, NEW k \in Nat, Counted(m, k) PROVE Counted(m, k)'
    <3>1. k = Unread /\ Session(m, "fixture") /\ k \in 0 .. Len(heard)
      BY <2>1, <2>2 DEF Hear, Counted
    <3>2. /\ Session(m, "fixture")' /\ fd' /\ News(heard')[Unread'] = News(heard)[Unread]
      BY <2>1, <3>1, Hears
    <3>3. Unread' = Unread /\ heard' \in Seq(Signals) /\ k \in 0 .. Len(heard')
      <4>1. PICK f \in Signals : heard' = Append(heard, f) /\ driver' = Append(driver, f)
        BY <2>1 DEF Hear, Signals
      <4>2. heard \in Seq(Signals) /\ driver \in Seq(Signals)
        BY <3>1 DEF Session
      <4>3. Len(heard') = Len(heard) + 1 /\ Len(driver') = Len(driver) + 1
            /\ Len(heard) \in Nat /\ Len(driver) \in Nat
        BY <4>1, <4>2
      <4> QED BY <3>1, <3>2, <4>3 DEF Unread, Session
    <3> QED BY <2>1, <2>2, <3>1, <3>2, <3>3 DEF Counted
  <2> QED BY <2>1, <2>2 DEF CountKept
<1>6. CASE Return
  BY <1>0, <1>6 DEF Return, CountKept
<1>7. CASE Start
  BY <1>7 DEF Start, CountKept
<1>8. CASE Check \/ Send \/ Pause
  <2>1. UNCHANGED <<receiver, received>> /\ pc \in {"check", "send", "pause", "open"}
        /\ pc' \in {"send", "pause", "open", "return"}
    BY <1>8 DEF Check, Send, Pause, Fail, Canceled
  <2> QED BY <1>1, <2>1
<1>9. CASE EndListening \/ Wait \/ Verdict
  <2>1. UNCHANGED <<receiver, received>> /\ pc \in {"listen", "wait", "verdict"}
        /\ pc' \in {"listen", "verdict", "return"}
    BY <1>9 DEF EndListening, Wait, Verdict, Fail, Canceled
  <2> QED BY <1>1, <2>1
<1>10. CASE Deadline \/ Enter \/ Refresh \/ Leave \/ Joined
  <2>1. UNCHANGED <<receiver, received, pc>>
    BY <1>10 DEF Deadline, Enter, Refresh, Leave, Joined, worker
  <2> QED BY <1>1, <2>1
<1>11. OpenReceiver => pc' \in {"listen", "return"}
  BY DEF OpenReceiver, Canceled, Fail
<1> QED
  BY <1>2, <1>3, <1>4, <1>5, <1>6, <1>7, <1>8, <1>9, <1>10, <1>11 DEF Next, Worker

(* The verdicts of a step.                                                 *)
LEMMA NextJudges ==
  ASSUME ReceiverAssumption, SessionTyped, CountKept, run \in RunRecords, Next
  PROVE  /\ run.state # "PASSED" /\ run'.state = "PASSED"
              => IsPrefix(Replies(RxPackets), FromFixture(heard))
         /\ cause # "reply" /\ cause' = "reply"
              => \E i \in DOMAIN FromFixture(heard) : FromFixture(heard)[i] # Reply(i)
<1>0. \A item, why : Fail(item, why) => run'.state = "FAILED" /\ cause' = why
  BY DEF Fail, RunRecords
<1>3. Canceled => run'.state = "CANCELED" /\ cause' = cause
  BY DEF Canceled, RunRecords
<1>1. CASE Verdict
  <2>1. cause' # "reply" \/ cause' = cause
    BY <1>0, <1>1, <1>3 DEF Verdict
  <2>2. SUFFICES ASSUME run.state # "PASSED", run'.state = "PASSED"
                 PROVE  IsPrefix(Replies(RxPackets), FromFixture(heard))
    BY <2>1
  <2>3. received = RxPackets
    <3>1. ~Canceled /\ ~Fail("rx", "timeout")
      BY <1>0, <1>3, <2>2
    <3> QED BY <1>1, <3>1 DEF Verdict
  <2>4. PICK m \in Nat, k \in Nat : Counted(m, k)
    BY <1>1 DEF Verdict, CountKept
  <2> DEFINE d == News(heard)[Len(heard)]
             a == Own(d)[m]
             answers == Own(d)[Len(d)]
  <2>5. heard \in Seq(Signals) /\ k \in 0 .. Len(heard) /\ Len(heard) \in Nat
    BY <2>4 DEF Counted
  <2>6. Len(heard) \in 0 .. Len(heard) /\ k <= Len(heard)
    BY <2>5
  <2>7. d \in Seq(Frames) /\ m \in 0 .. Len(d) /\ a = Replies(received)
    BY <2>4, <2>6, CountedFurther
  <2>8. answers = FromFixture(heard)
    BY ChangesAreNews, AnswersAreOwn
  <2> HIDE DEF d
  <2>9. Len(d) \in 0 .. Len(d) /\ m <= Len(d)
    BY <2>7
  <2>10. Extends(a, answers) /\ a \in Seq(Frames) /\ answers \in Seq(Frames)
    BY <2>7, <2>9, OwnGrow, OwnSteps
  <2> HIDE DEF a, answers
  <2>11. a = SubSeq(answers, 1, Len(a)) /\ Len(a) <= Len(answers)
    BY <2>10 DEF Extends
  <2>12. IsPrefix(a, answers)
    BY <2>11 DEF IsPrefix
  <2> QED BY <2>3, <2>7, <2>8, <2>12
<1>2. CASE Listen
  <2>1. cause' # cause => \E i \in DOMAIN FromFixture(heard) : FromFixture(heard)[i] # Reply(i)
    BY <1>2, ListenCounts
  <2>2. run'.state = "PASSED" => run.state = "PASSED"
    BY <1>0, <1>2 DEF Listen, published
  <2> QED BY <2>1, <2>2
<1>4. CASE Check \/ Send \/ OpenReceiver
  <2>1. CASE Check
    BY <1>0, <2>1 DEF Check, published
  <2>2. CASE Send
    BY <1>0, <1>3, <2>2 DEF Send, published
  <2>3. CASE OpenReceiver
    <3>1. Publish("RUNNING", run.tx, "RUNNING") => run'.state = "RUNNING"
      BY DEF Publish
    <3>2. Fail("rx", "unavailable") => run'.state = "FAILED" /\ cause' = "unavailable"
      BY <1>0
    <3>3. \/ Canceled
          \/ cause' = cause /\ Publish("RUNNING", run.tx, "RUNNING")
          \/ Fail("rx", "unavailable")
      BY <2>3 DEF OpenReceiver
    <3> QED BY <1>3, <3>1, <3>2, <3>3
  <2> QED BY <1>4, <2>1, <2>2, <2>3
<1>5. CASE Pause \/ EndListening \/ Wait \/ Return \/ Deadline \/ Air \/ Enter \/ Start
           \/ Refresh \/ Leave \/ Joined
  <2>1. run'.state # "PASSED" \/ run'.state = run.state
    BY <1>3, <1>5 DEF Pause, EndListening, Wait, Return, Deadline, Air, Enter, Start, Publish,
                      Refresh, Leave, Joined, published
  <2>2. cause' # "reply" \/ cause' = cause
    BY <1>3, <1>5 DEF Pause, EndListening, Wait, Return, Deadline, Air, Enter, Start,
                      Refresh, Leave, Joined, published
  <2> QED BY <2>1, <2>2
<1> QED BY <1>1, <1>2, <1>4, <1>5 DEF Next, Worker

(* Every step keeps what the session hands out and what is counted of it.  *)
LEMMA NextCountKept ==
  SessionKept /\ (current = "ir fixture" => CountKept) /\ [PagesNext]_pagesVars
    => (current = "ir fixture" => CountKept)'
<1> SUFFICES ASSUME SessionKept, current = "ir fixture" => CountKept, [PagesNext]_pagesVars
             PROVE  (current = "ir fixture" => CountKept)'
  OBVIOUS
<1>0. ReceiverAssumption
  BY PagesAssumption DEF Receiver!ReceiverAssumption, ReceiverAssumption
<1>1. CASE UNCHANGED <<current, receiver, fx_only>>
  BY <1>1 DEF receiver, fx_only, CountKept, Counted, Session, Unread
<1>2. CASE current = "ir fixture" /\ Next /\ FixtureOnly
  BY <1>0, <1>2, NextCounts DEF SessionKept
<1>3. CASE current' # "ir fixture"
  BY <1>3
<1> QED
  BY <1>1, <1>2, <1>3 DEF PagesNext, pagesVars, Py32Only, KeyboardOnly, ReceiverOnly

(* For every number of frames, and whatever other remote controls send: a  *)
(* run passes on the fixture's replies, all of them and in their order,    *)
(* and fails one only when the fixture answered something else; and        *)
(* nothing is sent while the receiver is open.                             *)
THEOREM FixtureTurnsThm == PagesSpec => FixtureTurns
<1> DEFINE Counting == current = "ir fixture" => CountKept
<1>1. ASSUME PagesInit PROVE SessionKept /\ Counting
  <2>1. SessionKept
    BY <1>1, InitSessionKept
  <2>2. received = 0 /\ pc = "none"
    BY <1>1 DEF PagesInit, Init
  <2> QED BY <2>1, <2>2 DEF CountKept
<1>2. SessionKept /\ Counting /\ [PagesNext]_pagesVars => Counting'
  BY NextCountKept
<1>3. XInv /\ SessionKept /\ Counting /\ [PagesNext]_pagesVars
        => [LET answers == FromFixture(heard)
            IN /\ run.state # "PASSED" /\ run'.state = "PASSED"
                    => IsPrefix([i \in 1..RxPackets |-> Reply(i)], answers)
               /\ cause # "reply" /\ cause' = "reply"
                    => \E i \in DOMAIN answers : answers[i] # Reply(i)]_vars
  <2> SUFFICES ASSUME XInv, SessionKept, Counting, PagesNext, ~UNCHANGED vars
               PROVE  LET answers == FromFixture(heard)
                      IN /\ run.state # "PASSED" /\ run'.state = "PASSED"
                              => IsPrefix([i \in 1..RxPackets |-> Reply(i)], answers)
                         /\ cause # "reply" /\ cause' = "reply"
                              => \E i \in DOMAIN answers : answers[i] # Reply(i)
    BY DEF pagesVars, vars, receiver, worker, published, fx_only
  <2>1. CASE run' = run /\ cause' = cause
    BY <2>1
  <2>2. CASE current = "ir fixture" /\ Next
    <3>1. ReceiverAssumption /\ SessionTyped /\ CountKept /\ run \in RunRecords
      BY <2>2, PagesAssumption DEF Receiver!ReceiverAssumption, ReceiverAssumption, SessionKept,
                                   XInv, FixtureTyped
    <3> QED BY <2>2, <3>1, NextJudges DEF Replies
  <2> QED
    BY <2>1, <2>2 DEF PagesNext, Py32Only, KeyboardOnly, ReceiverOnly, fx_only
<1>4. PagesInit => XInv
  BY InitXInv DEF PagesInit
<1> HIDE DEF Counting
<1> QED
  BY <1>1, <1>2, <1>3, <1>4, NextXInv, NextSession, HalfDuplexThm, PTL
     DEF PagesSpec, FixtureTurns, JudgedOnReplies
=============================================================================
