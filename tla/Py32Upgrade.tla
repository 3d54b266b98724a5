---------------------------- MODULE Py32Upgrade -----------------------------
(***************************************************************************)
(* The PY32 firmware upgrade: the worker thread of                         *)
(* py32_upgrade_service.cpp and the page that starts it, polls it every    *)
(* 100 ms and reboots the device (py32_upgrade_page.cpp).                  *)
(*                                                                         *)
(* The two threads share JobState: two atomic flags, and a result behind a *)
(* mutex.  The page's refresh reads the result, then the flag, so the      *)
(* worker may end in between; that is a step of its own here (ui).         *)
(***************************************************************************)
EXTENDS Naturals, Sequences

CONSTANT MaxUpgrades   (* how often the upgrade is started                  *)

UpgradesAssumption == MaxUpgrades \in Nat \ {0}

(* What run() asks before it programs the chip, in its order.              *)
Checks == <<"archive", "checksum file", "archive verified", "temporary directory",
            "extracted", "inner checksums", "inner verified", "files", "validated",
            "dry run">>
Program  == Len(Checks) + 1
ReadBack == Len(Checks) + 2
Over     == Len(Checks) + 3     (* the result is stored                     *)
Stopped  == Len(Checks) + 4     (* running is FALSE, done is not yet TRUE   *)

VARIABLES
  at,        (* the worker: 0 when there is none, else its next step        *)
  joinable,  (* worker_ holds a thread                                      *)
  passed,    (* the checks this run of the worker has passed                *)
  tempdir,   (* its temporary directory exists                              *)
  firmware,  (* what is in the chip                                         *)
  job,       (* JobState                                                    *)
  ui,        (* the page's thread: idle, drawn (refresh_ took its snapshot),*)
             (* joining, or gone (the page was destroyed)                   *)
  snapshot,  (* the success flag refresh_ has read                          *)
  handled,   (* completion_handled_                                         *)
  nav,       (* the page has its navigation actions                         *)
  dialog,    (* the confirmation dialog is visible                          *)
  reboots,   (* calls of safe_reboot                                        *)
  started,   (* upgrades started                                            *)
  crashed    (* a joinable std::thread was assigned to: std::terminate      *)

worker == <<at, passed, tempdir, firmware>>
page   == <<ui, snapshot, handled, nav, dialog, reboots>>
vars   == <<worker, page, job, joinable, started, crashed>>

Fresh == [running |-> FALSE, done |-> FALSE, success |-> FALSE]

-----------------------------------------------------------------------------
(* The worker: py32_upgrade::run and the end of the thread function.       *)

Result(ok) == at' = Over /\ tempdir' = FALSE /\ job' = [job EXCEPT !.success = ok]

(* One check.  A failed one is the result of the run; the destructor of    *)
(* TemporaryDirectory removes the directory on every way out.              *)
Check(ok) ==
  /\ at \in 1..Len(Checks)
  /\ IF ok
     THEN /\ at' = at + 1
          /\ passed' = passed \cup {Checks[at]}
          /\ tempdir' = (tempdir \/ Checks[at] = "temporary directory")
          /\ UNCHANGED job
     ELSE Result(FALSE) /\ UNCHANGED passed
  /\ UNCHANGED <<firmware, page, joinable, started, crashed>>

(* The upgrade command: it may fail before, while or after it has written, *)
(* and it may report success without having written.                       *)
Programmed(ok, chip) ==
  /\ at = Program
  /\ firmware' = chip
  /\ IF ok THEN at' = ReadBack /\ UNCHANGED <<tempdir, job>> ELSE Result(FALSE)
  /\ UNCHANGED <<passed, page, joinable, started, crashed>>

(* Mutant: the version is not read back.                                   *)
VerifiedBlindly == at = ReadBack /\ Result(TRUE)
                   /\ UNCHANGED <<passed, firmware, page, joinable, started, crashed>>

(* The version is read back and compared with the target.                  *)
Verified ==
  /\ at = ReadBack
  /\ Result(firmware = "target")
  /\ UNCHANGED <<passed, firmware, page, joinable, started, crashed>>

(* running.store(false), then done.store(true).                            *)
WorkerStops ==
  /\ at = Over
  /\ at' = Stopped
  /\ job' = [job EXCEPT !.running = FALSE]
  /\ UNCHANGED <<passed, tempdir, firmware, page, joinable, started, crashed>>

WorkerDone ==
  /\ at = Stopped
  /\ at' = 0
  /\ job' = [job EXCEPT !.done = TRUE]
  /\ UNCHANGED <<passed, tempdir, firmware, page, joinable, started, crashed>>

-----------------------------------------------------------------------------
(* The page.                                                               *)

(* Key 8 or Enter: show_upgrade_confirm_dialog_.  Enter works while an     *)
(* upgrade runs, too; key 8 is a navigation action.                        *)
ShowDialog ==
  /\ ui = "idle" /\ ~dialog
  /\ dialog' = TRUE
  /\ UNCHANGED <<worker, ui, snapshot, handled, nav, reboots, job, joinable, started, crashed>>

CancelDialog ==
  /\ ui = "idle" /\ dialog
  /\ dialog' = FALSE
  /\ UNCHANGED <<worker, ui, snapshot, handled, nav, reboots, job, joinable, started, crashed>>

(* The dialog's OK: it closes, and start_upgrade_ returns at once when a   *)
(* worker runs.                                                            *)
Confirm ==
  /\ ui = "idle" /\ dialog
  /\ started < MaxUpgrades
  /\ dialog' = FALSE
  /\ ui' = IF job.running THEN "idle" ELSE "joining"
  /\ UNCHANGED <<worker, snapshot, handled, nav, reboots, job, joinable, started, crashed>>

(* The rest of start_upgrade_: once the previous thread has ended, the     *)
(* shared state is cleared, the navigation taken away, the thread started. *)
StartIf(joined) ==
  /\ ui = "joining"
  /\ joined
  /\ ui' = "idle"
  /\ crashed' = (crashed \/ (joinable /\ at # 0))
  /\ joinable' = TRUE
  /\ job' = [Fresh EXCEPT !.running = TRUE]
  /\ at' = 1
  /\ passed' = {}
  /\ handled' = FALSE
  /\ nav' = FALSE
  /\ started' = started + 1
  /\ UNCHANGED <<tempdir, firmware, snapshot, dialog, reboots>>

(* Mutant: the previous thread is not joined.                              *)
StartUnjoined == StartIf(TRUE)

Start == StartIf(~joinable \/ at = 0)

(* refresh_, first half: the snapshot under the mutex.                     *)
Refresh ==
  /\ ui = "idle"
  /\ ui' = "drawn"
  /\ snapshot' = job.success
  /\ UNCHANGED <<worker, handled, nav, dialog, reboots, job, joinable, started, crashed>>

(* refresh_, second half, when the flag is not set or was handled.         *)
RefreshEnds ==
  /\ ui = "drawn"
  /\ ~job.done \/ handled
  /\ ui' = "idle"
  /\ UNCHANGED <<worker, snapshot, handled, nav, dialog, reboots, job, joinable, started, crashed>>

CompleteIf(restored) ==
  /\ ui = "drawn"
  /\ job.done /\ ~handled
  /\ ui' = "idle"
  /\ handled' = TRUE
  /\ nav' = (nav \/ restored)
  /\ reboots' = IF snapshot THEN reboots + 1 ELSE reboots
  /\ dialog' = (dialog /\ ~snapshot)
  /\ UNCHANGED <<worker, snapshot, job, joinable, started, crashed>>

(* Mutant: the page does not give the navigation back.                     *)
RefreshKeepsNav == CompleteIf(FALSE)

(* refresh_, second half, at the end of an upgrade: the navigation comes   *)
(* back, and the device reboots when the snapshot says success.            *)
RefreshCompletes == CompleteIf(TRUE)

(* Back, a navigation action: the destructor joins the thread.             *)
Leave ==
  /\ ui = "idle" /\ nav /\ ~dialog
  /\ ui' = "gone"
  /\ UNCHANGED <<worker, snapshot, handled, nav, dialog, reboots, job, joinable, started, crashed>>

Init ==
  /\ at = 0 /\ joinable = FALSE /\ passed = {} /\ tempdir = FALSE
  /\ firmware = "old"
  /\ job = Fresh
  /\ ui = "idle" /\ snapshot = FALSE /\ handled = FALSE /\ nav = TRUE /\ dialog = FALSE
  /\ reboots = 0 /\ started = 0 /\ crashed = FALSE

Worker ==
  \/ \E ok \in BOOLEAN : Check(ok)
  \/ \E chip \in {firmware, "partial", "target"} : Programmed(FALSE, chip)
  \/ \E chip \in {firmware, "target"} : Programmed(TRUE, chip)
  \/ Verified \/ WorkerStops \/ WorkerDone
RefreshSecond == RefreshEnds \/ RefreshCompletes
Next ==
  \/ Worker
  \/ ShowDialog \/ CancelDialog \/ Confirm \/ Start
  \/ Refresh \/ RefreshSecond
  \/ Leave

(* Every command of the worker has a timeout (process_service.cpp), so it  *)
(* goes on; the page's timer fires; a join returns when the thread ended.  *)
Spec == /\ Init /\ [][Next]_vars
        /\ WF_vars(Worker) /\ WF_vars(Start) /\ WF_vars(Refresh) /\ WF_vars(RefreshSecond)

-----------------------------------------------------------------------------
(* Properties.                                                             *)

(* The shared state and the page's state are of their types, and an        *)
(* upgrade reboots the device once at most (completion_handled_).          *)
TypeOK ==
  /\ at \in 0..Stopped /\ joinable \in BOOLEAN /\ tempdir \in BOOLEAN
  /\ passed \subseteq {Checks[i] : i \in DOMAIN Checks}
  /\ firmware \in {"old", "partial", "target"}
  /\ job \in [running : BOOLEAN, done : BOOLEAN, success : BOOLEAN]
  /\ ui \in {"idle", "drawn", "joining", "gone"}
  /\ snapshot \in BOOLEAN /\ handled \in BOOLEAN /\ nav \in BOOLEAN
  /\ dialog \in BOOLEAN /\ crashed \in BOOLEAN
  /\ started \in 0..MaxUpgrades /\ reboots \in 0..started

(* No thread is started while the previous one is still joinable and runs: *)
(* running is FALSE a moment before the thread ends, so start_upgrade_     *)
(* must join.                                                              *)
NoTerminate == ~crashed

(* The page is not left while an upgrade runs: its destructor would join,  *)
(* and the user interface would stand still for minutes.                   *)
NeverLeavesRunning == ui = "gone" => ~job.running

(* A started upgrade gives the navigation back, whatever came of it.       *)
NavigationReturns == [](~nav => <>nav)

(* The dialog of py32_upgrade_page.cpp promises: "After the upgrade        *)
(* completes, the device will reboot."  refresh_ reads the result before   *)
(* the flag that says it is there.                                         *)
SuccessReboots == [][handled' /\ ~handled /\ job.success => reboots' = reboots + 1]_vars

(* A reboot is into the target version: every check on the package and the *)
(* dry run passed, the chip was read back, and nothing changed it since,   *)
(* also when the upgrade command claims a success it did not have.         *)
RebootIsVerified ==
  [][reboots' # reboots
       => firmware = "target" /\ passed = {Checks[i] : i \in DOMAIN Checks}]_vars

(* The page and its one thread agree.                                      *)
Inv == TypeOK /\ NoTerminate /\ NeverLeavesRunning
=============================================================================
