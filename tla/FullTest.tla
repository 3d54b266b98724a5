------------------------------ MODULE FullTest ------------------------------
(***************************************************************************)
(* The full-test sequence on the screen: AppViewModel (app_viewmodel.cpp), *)
(* ScreenManager (screen_namager.cpp), the start screen's session recovery *)
(* dialog (start_screen.cpp) and the verdict dialog of every test page     *)
(* (base_screen.cpp, test_confirm_dialog.cpp), over SessionManager.        *)
(*                                                                         *)
(* All of it runs on the user-interface thread.  Two things interleave     *)
(* there: a page change is only requested, and done by an asynchronous     *)
(* call (Flush) after the handler has returned, so further keys of the     *)
(* same input batch reach the page that is about to go; and the program    *)
(* may stop anywhere.  A handler that calls SessionManager twice takes two *)
(* steps, "doing" says where it is; no other handler runs in between.      *)
(*                                                                         *)
(* Pages are START, RESULT and, one per test, the test's identifier.       *)
(* Evidence is left to SessionManager (no attempts here).                  *)
(***************************************************************************)
EXTENDS SessionManager

ASSUME PagesAssumption == {"START", "RESULT", "NONE"} \cap TestIds = {}

VARIABLES
  seq_active,  (* model_.test_sequence_active()                             *)
  index,       (* test_sequence_index_, counted from 1                      *)
  page,        (* model_.current_page(), which is also requested_page_      *)
  scheduled,   (* page_switch_scheduled_                                    *)
  loaded,      (* loaded_page_, the screen on display                       *)
  nav,         (* nav_actions_ holds the actions of the screen on display   *)
  dialog,      (* its verdict dialog: none, open, or triggered              *)
  recovery,    (* the start screen's recovery dialog is visible             *)
  doing,       (* the handler that is running, if any                       *)
  faulty       (* whether, in this behaviour, a write or a read may fail    *)

screen    == <<page, scheduled, loaded, nav, dialog>>
session   == <<memory, disk>>
view      == <<seq_active, index, screen, recovery>>
testvars  == <<vars, view, doing, faulty>>

WriteOk  == IF faulty THEN BOOLEAN ELSE {TRUE}
Writes   == IF faulty THEN 0..2 ELSE {2}
ReadOk   == IF faulty THEN BOOLEAN ELSE {TRUE}

Idle == doing = "nothing"

(* Mutant: nothing is scheduled for the page that is requested already.    *)
ShowPageOnce(p) ==
  /\ page' = p
  /\ nav' = FALSE
  /\ scheduled' = (p # page)

(* show_page_: the actions of the old page are taken away, the new page is *)
(* requested.                                                              *)
ShowPage(p) ==
  /\ page' = p
  /\ nav' = FALSE
  /\ scheduled' = TRUE

StayOnPage == UNCHANGED <<page, nav, scheduled>>

ShowStartPage == seq_active' = FALSE /\ ShowPage("START")

-----------------------------------------------------------------------------
(* The start screen.                                                       *)

(* "Full Test" is selected: load_recoverable_test_session, then the        *)
(* recovery dialog or start_new_test_session_.                             *)
SelectFullTest(readable) ==
  /\ Idle /\ loaded = "START" /\ ~recovery
  /\ LoadLatestRecoverable(readable)
  /\ recovery' = (readable /\ Recoverable)
  /\ doing' = IF readable /\ Recoverable THEN "nothing" ELSE "starting"
  /\ UNCHANGED <<seq_active, index, screen>>

(* The recovery dialog: Start New, Resume, Close.                          *)
RecoveryStartNew ==
  /\ Idle /\ recovery
  /\ recovery' = FALSE
  /\ doing' = "replacing"
  /\ UNCHANGED <<vars, seq_active, index, screen>>

RecoveryResume ==
  /\ Idle /\ recovery
  /\ recovery' = FALSE
  /\ doing' = "resuming"
  /\ UNCHANGED <<vars, seq_active, index, screen>>

RecoveryClose ==
  /\ Idle /\ recovery
  /\ recovery' = FALSE
  /\ UNCHANGED <<vars, seq_active, index, screen, doing>>

(* A single test is opened from the menu.                                  *)
OpenSingleTest(t) ==
  /\ Idle /\ loaded = "START" /\ ~recovery
  /\ seq_active' = FALSE
  /\ ShowPage(t)
  /\ UNCHANGED <<vars, index, loaded, dialog, recovery, doing>>

-----------------------------------------------------------------------------
(* AppViewModel.                                                           *)

(* start_full_test_sequence, up to open_test_sequence_item_; "replacing"   *)
(* when the recovery dialog asked for it.                                  *)
StartRefused ==
  /\ doing \in {"starting", "replacing"} /\ faulty
  /\ StartNewRefused
  /\ doing' = "nothing"
  /\ UNCHANGED view

Start(ok) ==
  /\ doing \in {"starting", "replacing"}
  /\ StartNew(ok)
  /\ seq_active' = (ok \/ seq_active)
  /\ index' = IF ok THEN 1 ELSE index
  /\ doing' = IF ok THEN "opening" ELSE "nothing"
  /\ UNCHANGED <<screen, recovery>>

(* resume_full_test_sequence.  The dialog is only shown over the session   *)
(* that was loaded for it, so recoverable() holds and nothing is loaded    *)
(* again.                                                                  *)
ResumeTest ==
  /\ doing = "resuming" /\ Active
  /\ index' = NextIncomplete
  /\ NextIncomplete <= Len(plan)
  /\ seq_active' = TRUE
  /\ doing' = "opening"
  /\ UNCHANGED <<vars, screen, recovery>>

(* All tests are completed: only the finalization is missing.              *)
ResumeFinalize(written) ==
  /\ doing = "resuming" /\ Active
  /\ index' = NextIncomplete
  /\ NextIncomplete > Len(plan)
  /\ Finalize(written)
  /\ doing' = "nothing"
  /\ IF written > 1
     THEN seq_active' = FALSE /\ ShowPage("RESULT")
     ELSE StayOnPage /\ UNCHANGED seq_active
  /\ UNCHANGED <<loaded, dialog, recovery>>

(* Mutant: the page is shown although set_current_test failed.             *)
OpenItemUnchecked(ok) ==
  /\ doing = "opening"
  /\ SetCurrentTest(index, ok)
  /\ doing' = "nothing"
  /\ ShowPage(plan[index])
  /\ UNCHANGED <<seq_active, index, loaded, dialog, recovery>>

(* set_current_test and the page of the test, from                         *)
(* open_test_sequence_item_ and from advance_test_sequence_.               *)
OpenItem(ok) ==
  /\ doing = "opening"
  /\ SetCurrentTest(index, ok)
  /\ doing' = "nothing"
  /\ IF ok
     THEN ShowPage(plan[index]) /\ UNCHANGED seq_active
     ELSE ShowStartPage
  /\ UNCHANGED <<index, loaded, dialog, recovery>>

(* Mutant: the sequence goes on although the verdict was not stored.       *)
CompleteUnchecked(verdict, ok, written) ==
  /\ Idle /\ dialog = "open" /\ seq_active
  /\ CompleteTest(index, verdict, ok, written)
  /\ dialog' = "triggered"
  /\ LET last == index = Len(plan)
         done == TRUE
     IN /\ index' = IF done THEN index + 1 ELSE index
        /\ doing' = IF done /\ ~last THEN "opening" ELSE "nothing"
        /\ IF done /\ last
           THEN seq_active' = FALSE /\ ShowPage("RESULT")
           ELSE StayOnPage /\ UNCHANGED seq_active
  /\ UNCHANGED <<loaded, recovery>>

(* Mutant: the dialog takes a second choice.                               *)
CompleteRepeatable(verdict, ok, written) ==
  /\ Idle /\ dialog = "open" /\ seq_active
  /\ CompleteTest(index, verdict, ok, written)
  /\ LET last == index = Len(plan)
         done == ok /\ (AllCompleted(Judged(index, verdict)) => written > 1)
     IN /\ index' = IF done THEN index + 1 ELSE index
        /\ doing' = IF done /\ ~last THEN "opening" ELSE "nothing"
        /\ IF done /\ last
           THEN seq_active' = FALSE /\ ShowPage("RESULT")
           ELSE StayOnPage /\ UNCHANGED seq_active
  /\ UNCHANGED <<loaded, dialog, recovery>>

(* The verdict is chosen in the dialog: complete_current_test in a         *)
(* sequence; the rest of it, advance_test_sequence_, when that succeeded.  *)
(* The dialog takes no second choice.                                      *)
CompleteCurrentTest(verdict, ok, written) ==
  /\ Idle /\ dialog = "open" /\ seq_active
  /\ CompleteTest(index, verdict, ok, written)
  /\ dialog' = "triggered"
  /\ LET last == index = Len(plan)
         done == ok /\ (AllCompleted(Judged(index, verdict)) => written > 1)
     IN /\ index' = IF done THEN index + 1 ELSE index
        /\ doing' = IF done /\ ~last THEN "opening" ELSE "nothing"
        /\ IF done /\ last
           THEN seq_active' = FALSE /\ ShowPage("RESULT")
           ELSE StayOnPage /\ UNCHANGED seq_active
  /\ UNCHANGED <<loaded, recovery>>

(* complete_test refuses when the sequence has lost its session.           *)
VerdictRefused ==
  /\ Idle /\ dialog = "open" /\ seq_active /\ ~Active
  /\ dialog' = "triggered"
  /\ UNCHANGED <<vars, seq_active, index, page, scheduled, loaded, nav,
                 recovery, doing>>

(* The verdict of a single test is not kept.                               *)
CompleteSingleTest ==
  /\ Idle /\ dialog = "open" /\ ~seq_active
  /\ dialog' = "triggered"
  /\ ShowStartPage
  /\ UNCHANGED <<vars, index, loaded, recovery, doing>>

(* request_back_or_quit, without a handler of the page: a key that reaches *)
(* the back action of the page, which an open dialog captures.             *)
Back ==
  /\ Idle /\ nav /\ dialog # "open" /\ ~recovery /\ page # "START"
  /\ ShowStartPage
  /\ UNCHANGED <<vars, index, loaded, dialog, recovery, doing>>

-----------------------------------------------------------------------------
(* The verdict dialog of a test page.                                      *)

OpenDialog ==
  /\ Idle /\ nav /\ dialog = "none" /\ loaded \in TestIds
  /\ dialog' = "open"
  /\ UNCHANGED <<vars, seq_active, index, page, scheduled, loaded, nav,
                 recovery, doing>>

CancelDialog ==
  /\ Idle /\ dialog = "open"
  /\ dialog' = "none"
  /\ UNCHANGED <<vars, seq_active, index, page, scheduled, loaded, nav,
                 recovery, doing>>

-----------------------------------------------------------------------------
(* flush_requested_page: a page that is already on display is not built    *)
(* again outside a sequence.                                               *)
Flush ==
  /\ Idle /\ scheduled
  /\ scheduled' = FALSE
  /\ IF loaded = page /\ ~seq_active
     THEN UNCHANGED <<loaded, nav, dialog, recovery>>
     ELSE /\ loaded' = page
          /\ nav' = TRUE
          /\ dialog' = "none"
          /\ recovery' = FALSE
  /\ UNCHANGED <<vars, seq_active, index, page, doing>>

(* The program stops and starts again on the start page.                   *)
Restart ==
  /\ Crash
  /\ seq_active' = FALSE /\ index' = 1
  /\ page' = "START" /\ scheduled' = TRUE /\ loaded' = "NONE"
  /\ nav' = FALSE /\ dialog' = "none" /\ recovery' = FALSE
  /\ doing' = "nothing"

-----------------------------------------------------------------------------
FInit ==
  /\ Init
  /\ seq_active = FALSE /\ index = 1
  /\ page = "START" /\ scheduled = TRUE /\ loaded = "NONE"
  /\ nav = FALSE /\ dialog = "none" /\ recovery = FALSE
  /\ doing = "nothing"
  /\ faulty \in BOOLEAN

Handlers ==
  \/ \E readable \in ReadOk : SelectFullTest(readable)
  \/ RecoveryStartNew \/ RecoveryResume \/ RecoveryClose
  \/ \E t \in TestIds : OpenSingleTest(t)
  \/ StartRefused
  \/ \E ok \in WriteOk : Start(ok) \/ OpenItem(ok)
  \/ ResumeTest
  \/ \E written \in Writes : ResumeFinalize(written)
  \/ \E verdict \in Verdicts, ok \in WriteOk, written \in Writes :
       CompleteCurrentTest(verdict, ok, written)
  \/ VerdictRefused \/ CompleteSingleTest \/ Back
  \/ OpenDialog \/ CancelDialog
  \/ Flush
  \/ Restart

FNext == Handlers /\ UNCHANGED faulty

FSpec == FInit /\ [][FNext]_testvars

-----------------------------------------------------------------------------
(* Every variable of the screen has its type.                              *)
FTypeOK ==
  /\ seq_active \in BOOLEAN /\ scheduled \in BOOLEAN /\ nav \in BOOLEAN
  /\ recovery \in BOOLEAN /\ faulty \in BOOLEAN
  /\ index \in 1..(Len(plan) + 1)
  /\ page \in {"START", "RESULT"} \cup TestIds
  /\ loaded \in {"NONE", "START", "RESULT"} \cup TestIds
  /\ dialog \in {"none", "open", "triggered"}
  /\ doing \in {"nothing", "starting", "replacing", "resuming", "opening"}

(* When nothing is under way, the sequence's page is the page of the test  *)
(* its verdict will be stored for, and the session on disk says so too.    *)
SequenceOnScreen ==
  Idle /\ ~scheduled /\ seq_active /\ Active =>
    /\ loaded = page /\ page = plan[index]
    /\ current_test = plan[index]

(* A running sequence always has a session to store its verdicts in.  Only *)
(* without write faults: a second "Full Test" on the start screen that is  *)
(* about to go, whose start fails, takes the session from the sequence.    *)
SequenceHasSession == ~faulty /\ seq_active => Active

(* A verdict is only stored for the test on display, whatever keys arrive  *)
(* while the page is being changed.                                        *)
VerdictForDisplayedTest ==
  [][ \A i \in 1..Len(tests) :
        (session_id' = session_id /\ tests'[i] # tests[i])
          => loaded = tests[i].id /\ dialog = "open" ]_testvars

(* The sequence runs through the plan in order, also across failed writes, *)
(* leaving, restarting and resuming: the tests before the current one have *)
(* a verdict, the ones after it have none.                                 *)
NothingSkipped ==
  seq_active => \A i \in 1..Len(tests) : /\ i < index => tests[i].completed
                                         /\ i > index => ~tests[i].completed

(* The result page shows the verdicts the result file reports, and never a *)
(* session that is not closed; it is empty when a start that failed has    *)
(* emptied the manager while the page was pending.                         *)
ResultPageOfCompleted ==
  loaded = "RESULT" /\ state # "NONE" =>
    state = "COMPLETED" /\ results[session_id] = ResultOf(tests)

(* A session is only abandoned when the user chose Start New for it in the *)
(* recovery dialog, never by a start that was not offered to resume it.    *)
AbandonedOnRequest ==
  [][ \A s \in 1..Len(files) :
        (files[s].state = "IN_PROGRESS" /\ files'[s].state = "ABANDONED")
          => doing = "replacing" /\ Recoverable /\ s = Len(files) ]_testvars

(* Once a page change is done the page can be used: it has its navigation  *)
(* actions, and a dialog that has taken a choice is gone.  Without faults: *)
(* a verdict that cannot be stored leaves its dialog triggered.            *)
PageUsable ==
  ~faulty /\ Idle /\ ~scheduled => nav /\ dialog # "triggered"

(* The screen, the sequence and the session agree, at every step of a full *)
(* test, and a page at rest can be used.                                   *)
FInv ==
  FTypeOK /\ SequenceOnScreen /\ SequenceHasSession /\ NothingSkipped
  /\ ResultPageOfCompleted /\ PageUsable
=============================================================================
