--------------------------- MODULE SessionManager ---------------------------
(***************************************************************************)
(* The persistent full-test session of src/src/model/test_session.cpp.     *)
(*                                                                         *)
(* A session is one JSON file, replaced as a whole by every change         *)
(* (persist_ -> write_text_file_atomic: temporary file, fsync, rename) and *)
(* a result file written once all tests are completed.  SessionManager     *)
(* keeps the same data in memory; every operation changes memory, persists *)
(* and rolls memory back when the write fails.                             *)
(*                                                                         *)
(* Files are modelled as sequences: session s is files[s], and the order   *)
(* of the sequence is the order of creation, which under a clock that does *)
(* not step back is also the order of the modification times               *)
(* load_latest_recoverable compares.  Every operation is one action: the   *)
(* user-interface thread is the only one that uses SessionManager, so a    *)
(* crash inside an operation leaves the disk as one of the failing writes  *)
(* of that operation does, and Crash then follows.                         *)
(*                                                                         *)
(* Timestamps, device metadata, names and per-test details are data no     *)
(* property tells apart and are left out.                                  *)
(***************************************************************************)
EXTENDS Naturals, Sequences, FiniteSets

CONSTANTS
  TestIds,      (* identifiers of the tests a plan can name                 *)
  Plans,        (* test_sequence_plan(): the plans of the product models    *)
  NoTest,       (* the empty current_test_id_                               *)
  NoResult,     (* the result file does not exist                           *)
  MaxSessions,  (* bound: session files ever created                        *)
  MaxAttempts   (* bound: attempts of one test, for each plan; with 0, its  *)
                (* tests are only judged                                    *)

(* start_new refuses an empty plan and one with a duplicate id, so a plan  *)
(* that gets past it is a non-empty sequence of distinct identifiers.      *)
ASSUME PlansAssumption ==
  /\ Plans # {}
  /\ \A p \in Plans : /\ p \in Seq(TestIds)
                      /\ Len(p) > 0
                      /\ \A i, j \in DOMAIN p : p[i] = p[j] => i = j
ASSUME BoundsAssumption == MaxSessions \in Nat /\ MaxAttempts \in [Plans -> Nat]

VARIABLES
  plan,          (* the plan of the running program, fixed until a restart  *)
  state,         (* state_                                                  *)
  session_id,    (* session_id_ and session_path_; 0 when empty             *)
  tests,         (* tests_                                                  *)
  current_test,  (* current_test_id_                                        *)
  files,         (* the *.session.json files, oldest first                  *)
  results        (* the *.result.json file of each session, or NoResult     *)

memory == <<state, session_id, tests, current_test>>
disk   == <<files, results>>
vars   == <<plan, memory, disk>>

Verdicts == {"PASS", "FAIL"}
States   == {"NONE", "IN_PROGRESS", "COMPLETED", "ABANDONED"}

(* TestRecord.  evidence is the set of attempts in which the entries of    *)
(* the evidence map were recorded, so has_evidence() is evidence # {}.     *)
Records ==
  [id : TestIds, completed : BOOLEAN, result : Verdicts,
   attempts : Nat, evidence : SUBSET Nat]

(* The result file: build_result_json.                                     *)
ResultDocs ==
  [status : Verdicts,
   tests  : Seq([id : TestIds, result : Verdicts,
                 attempted : BOOLEAN, has_evidence : BOOLEAN])]
ASSUME NoResultAssumption == NoResult \notin ResultDocs

Documents ==
  [state : States, tests : Seq(Records), current_test : TestIds \cup {NoTest}]

Document(st, ts, cur) == [state |-> st, tests |-> ts, current_test |-> cur]

FreshTests(p) ==
  [i \in 1..Len(p) |-> [id |-> p[i], completed |-> FALSE, result |-> "FAIL",
                        attempts |-> 0, evidence |-> {}]]

AllCompleted(ts) == \A i \in DOMAIN ts : ts[i].completed

(* build_result_json: the overall status and, per test, the verdict with   *)
(* FAIL for a test that never completed.                                   *)
ResultOf(ts) ==
  [status |-> IF \A i \in DOMAIN ts : ts[i].completed /\ ts[i].result = "PASS"
              THEN "PASS" ELSE "FAIL",
   tests  |-> [i \in 1..Len(ts) |->
                 [id           |-> ts[i].id,
                  result       |-> IF ts[i].completed THEN ts[i].result ELSE "FAIL",
                  attempted    |-> ts[i].attempts > 0,
                  has_evidence |-> ts[i].evidence # {}]]]

Active == state = "IN_PROGRESS"

(* next_incomplete_index(), counted from 1; Len(tests) + 1 when all are    *)
(* completed.                                                              *)
NextIncomplete ==
  CHOOSE i \in 1..(Len(tests) + 1) :
    /\ i <= Len(tests) => ~tests[i].completed
    /\ \A j \in 1..(i - 1) : tests[j].completed

-----------------------------------------------------------------------------
(* reset_() *)
Reset ==
  /\ state' = "NONE"
  /\ session_id' = 0
  /\ tests' = <<>>
  /\ current_test' = NoTest

(* Mutant: the caller does not roll back when persist_() fails.            *)
CommitWithoutRollback(ok, ts, cur) ==
  /\ tests' = ts
  /\ current_test' = cur
  /\ files' = IF ok THEN [files EXCEPT ![session_id] = Document(state, ts, cur)]
                    ELSE files

(* persist_() and, when the write fails, the caller's rollback.            *)
Commit(ok, ts, cur) ==
  /\ tests' = IF ok THEN ts ELSE tests
  /\ current_test' = IF ok THEN cur ELSE current_test
  /\ files' = IF ok THEN [files EXCEPT ![session_id] = Document(state, ts, cur)]
                    ELSE files

(* start_new when the session in progress cannot be marked abandoned: the  *)
(* old session stays as it was.                                            *)
StartNewRefused ==
  /\ Active
  /\ UNCHANGED vars

(* Mutant: abandon() does not ask whether the session is in progress.      *)
AfterAbandonAny ==
  IF session_id # 0
  THEN [files EXCEPT ![session_id] = Document("ABANDONED", tests, NoTest)]
  ELSE files

(* The files after abandon() of the session in memory, if it is active.    *)
AfterAbandon ==
  IF Active
  THEN [files EXCEPT ![session_id] = Document("ABANDONED", tests, NoTest)]
  ELSE files

(* Mutant: no reset_() after the first write of the new session failed.    *)
StartNewWithoutReset(ok) ==
  /\ Len(files) < MaxSessions
  /\ state' = "IN_PROGRESS"
  /\ session_id' = Len(files) + 1
  /\ tests' = FreshTests(plan)
  /\ current_test' = NoTest
  /\ files' = IF ok THEN Append(AfterAbandon,
                                Document("IN_PROGRESS", FreshTests(plan), NoTest))
                    ELSE AfterAbandon
  /\ results' = IF ok THEN Append(results, NoResult) ELSE results
  /\ UNCHANGED plan

(* start_new: abandons the active session, then writes a fresh one; when   *)
(* that write fails the manager is left empty.                             *)
StartNew(ok) ==
  /\ Len(files) < MaxSessions
  /\ IF ok
     THEN /\ state' = "IN_PROGRESS"
          /\ session_id' = Len(files) + 1
          /\ tests' = FreshTests(plan)
          /\ current_test' = NoTest
          /\ files' = Append(AfterAbandon,
                             Document("IN_PROGRESS", FreshTests(plan), NoTest))
          /\ results' = Append(results, NoResult)
     ELSE /\ Reset
          /\ files' = AfterAbandon
          /\ UNCHANGED results
  /\ UNCHANGED plan

(* The document load_latest_recoverable accepts: the latest file only, in  *)
(* progress, and with exactly the tests of the running program's plan.     *)
Recoverable ==
  /\ files # <<>>
  /\ LET doc == files[Len(files)]
     IN /\ doc.state = "IN_PROGRESS"
        /\ Len(doc.tests) = Len(plan)
        /\ \A i \in 1..Len(plan) : doc.tests[i].id = plan[i]

(* Mutant: a failed load leaves the session in memory as it was.           *)
LoadWithoutReset(readable) ==
  /\ IF readable /\ Recoverable
     THEN LET doc == files[Len(files)]
          IN /\ state' = doc.state
             /\ session_id' = Len(files)
             /\ tests' = doc.tests
             /\ current_test' = doc.current_test
     ELSE UNCHANGED memory
  /\ UNCHANGED <<plan, disk>>

(* load_latest_recoverable.  readable is FALSE when the directory or the   *)
(* latest file cannot be read or parsed.                                   *)
LoadLatestRecoverable(readable) ==
  /\ IF readable /\ Recoverable
     THEN LET doc == files[Len(files)]
          IN /\ state' = doc.state
             /\ session_id' = Len(files)
             /\ tests' = doc.tests
             /\ current_test' = doc.current_test
     ELSE Reset
  /\ UNCHANGED <<plan, disk>>

(* set_current_test *)
SetCurrentTest(i, ok) ==
  /\ Active
  /\ i \in 1..Len(tests)
  /\ Commit(ok, tests, tests[i].id)
  /\ UNCHANGED <<plan, state, session_id, results>>

(* Mutant: a retry keeps the evidence of the attempt before.               *)
BeginTestKeepsEvidence(i, ok) ==
  /\ Active
  /\ i \in 1..Len(tests)
  /\ ~tests[i].completed
  /\ tests[i].attempts < MaxAttempts[plan]
  /\ Commit(ok, [tests EXCEPT ![i].attempts = tests[i].attempts + 1], tests[i].id)
  /\ UNCHANGED <<plan, state, session_id, results>>

(* begin_test: a new attempt drops the evidence of the one before.         *)
BeginTest(i, ok) ==
  /\ Active
  /\ i \in 1..Len(tests)
  /\ ~tests[i].completed
  /\ tests[i].attempts < MaxAttempts[plan]
  /\ Commit(ok,
            [tests EXCEPT ![i].attempts = tests[i].attempts + 1,
                          ![i].evidence = {}],
            tests[i].id)
  /\ UNCHANGED <<plan, state, session_id, results>>

(* record_evidence: counts as the first attempt when none was begun.       *)
RecordEvidence(i, ok) ==
  /\ Active
  /\ i \in 1..Len(tests)
  /\ ~tests[i].completed
  /\ LET n == IF tests[i].attempts = 0 THEN 1 ELSE tests[i].attempts
     IN /\ n <= MaxAttempts[plan]
        /\ Commit(ok,
                  [tests EXCEPT ![i].attempts = n,
                                ![i].evidence = tests[i].evidence \cup {n}],
                  current_test)
  /\ UNCHANGED <<plan, state, session_id, results>>

(* Mutant: the session is closed before its result file is written.        *)
FinalizeClosesFirst(ts, written) ==
  /\ tests' = ts
  /\ results' = IF written > 1
                THEN [results EXCEPT ![session_id] = ResultOf(ts)] ELSE results
  /\ state' = IF written > 0 THEN "COMPLETED" ELSE state
  /\ current_test' = IF written > 0 THEN NoTest ELSE current_test
  /\ files' = [files EXCEPT ![session_id] = Document(state', ts, current_test')]
  /\ UNCHANGED <<plan, session_id>>

(* finalize() on the tests ts, already persisted: the result file is       *)
(* written first (write_result_), then the session as completed.  written  *)
(* counts the writes that succeed; below 2, memory rolls back.             *)
FinalizeWith(ts, written) ==
  /\ tests' = ts
  /\ results' = IF written > 0
                THEN [results EXCEPT ![session_id] = ResultOf(ts)] ELSE results
  /\ state' = IF written > 1 THEN "COMPLETED" ELSE state
  /\ current_test' = IF written > 1 THEN NoTest ELSE current_test
  /\ files' = [files EXCEPT ![session_id] = Document(state', ts, current_test')]
  /\ UNCHANGED <<plan, session_id>>

(* finalize() called on its own, for a recovered session whose tests are   *)
(* all completed.                                                          *)
Finalize(written) ==
  /\ Active
  /\ AllCompleted(tests)
  /\ FinalizeWith(tests, written)

Judged(i, verdict) ==
  [tests EXCEPT ![i].completed = TRUE, ![i].result = verdict]

(* complete_test: persists the verdict and, when it was the last missing   *)
(* one, finalizes.  A completed test may be completed again.  ok is FALSE  *)
(* when the first write fails, written counts the ones of finalize.        *)
CompleteTest(i, verdict, ok, written) ==
  /\ Active
  /\ i \in 1..Len(tests)
  /\ IF ok /\ AllCompleted(Judged(i, verdict))
     THEN FinalizeWith(Judged(i, verdict), written)
     ELSE /\ Commit(ok, Judged(i, verdict), current_test)
          /\ UNCHANGED <<plan, state, session_id, results>>

(* The program stops, at any point, and is started again: memory is empty. *)
(* The product model the plan is made from is read again at start-up.      *)
Crash ==
  /\ Reset
  /\ plan' \in Plans
  /\ UNCHANGED disk

-----------------------------------------------------------------------------
Init ==
  /\ plan \in Plans
  /\ state = "NONE"
  /\ session_id = 0
  /\ tests = <<>>
  /\ current_test = NoTest
  /\ files = <<>>
  /\ results = <<>>

TestOperation(i) ==
  \/ \E ok \in BOOLEAN : SetCurrentTest(i, ok)
  \/ \E ok \in BOOLEAN : BeginTest(i, ok)
  \/ \E ok \in BOOLEAN : RecordEvidence(i, ok)
  \/ \E verdict \in Verdicts, ok \in BOOLEAN, written \in 0..2 :
       CompleteTest(i, verdict, ok, written)

Next ==
  \/ StartNewRefused
  \/ \E ok \in BOOLEAN : StartNew(ok)
  \/ \E readable \in BOOLEAN : LoadLatestRecoverable(readable)
  \/ \E i \in 1..Len(tests) : TestOperation(i)
  \/ \E written \in 0..2 : Finalize(written)
  \/ Crash

Spec == Init /\ [][Next]_vars

-----------------------------------------------------------------------------
(* Every variable has its type.                                            *)
TypeOK ==
  /\ plan \in Plans
  /\ state \in States
  /\ session_id \in 0..Len(files)
  /\ tests \in Seq(Records)
  /\ current_test \in TestIds \cup {NoTest}
  /\ files \in Seq(Documents)
  /\ results \in Seq(ResultDocs \cup {NoResult})
  /\ Len(results) = Len(files)

(* Memory never runs ahead of the disk and never falls behind it: between  *)
(* operations the session in memory is the newest one on disk, and every   *)
(* field is what its file holds, whichever writes failed before.           *)
MemoryMatchesDisk ==
  state # "NONE" =>
    /\ session_id = Len(files)
    /\ files # <<>>
    /\ files[session_id] = Document(state, tests, current_test)

(* A session the disk calls completed has a result file, and that file     *)
(* reports the verdicts of the session, not those of an earlier finalize   *)
(* that wrote the result and then failed to close the session.             *)
CompletedHasResult ==
  \A s \in 1..Len(files) :
    files[s].state = "COMPLETED" =>
      /\ AllCompleted(files[s].tests)
      /\ results[s] = ResultOf(files[s].tests)

(* The evidence on disk was recorded in the test's last attempt: a retry   *)
(* never reports what an earlier attempt measured (begin_test clears it,   *)
(* and a failed begin_test keeps the old attempt and its evidence).        *)
EvidenceFromLastAttempt ==
  \A s \in 1..Len(files) : \A i \in 1..Len(files[s].tests) :
    files[s].tests[i].evidence \subseteq {files[s].tests[i].attempts}

(* "Recover the latest compatible unfinished full-test session": one that  *)
(* is on disk is found by load_latest_recoverable.                         *)
Compatible(ts) ==
  Len(ts) = Len(plan) /\ \A i \in 1..Len(plan) : ts[i].id = plan[i]
UnfinishedIsRecovered ==
  (\E s \in 1..Len(files) :
     files[s].state = "IN_PROGRESS" /\ Compatible(files[s].tests))
    => Recoverable

(* What the files tell: the phase and verdicts of every session and what   *)
(* its result file reports.                                                *)
VerdictsOf(ts) ==
  [i \in 1..Len(ts) |-> IF ts[i].completed THEN ts[i].result ELSE "NONE"]
ReportOf(r) ==
  IF r = NoResult THEN NoResult
  ELSE [status   |-> r.status,
        verdicts |-> [i \in 1..Len(r.tests) |-> r.tests[i].result]]
JournalOf(fs, rs) ==
  [s \in 1..Len(fs) |-> [phase    |-> fs[s].state,
                         verdicts |-> VerdictsOf(fs[s].tests),
                         report   |-> ReportOf(rs[s])]]

J == INSTANCE SessionJournal WITH journal  <- JournalOf(files, results),
                                  NoReport <- NoResult

(* Seen through its files the session manager is an append-only journal:   *)
(* only the newest session changes, only while in progress, no verdict is  *)
(* taken back, and no session closes without the report of its verdicts.   *)
Journal == J!JSpec

=============================================================================
