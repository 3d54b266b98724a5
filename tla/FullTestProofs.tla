--------------------------- MODULE FullTestProofs ---------------------------
(***************************************************************************)
(* Proofs about FullTest, for any plans and any number of sessions.        *)
(*                                                                         *)
(* First the session manager alone: what is in memory and what is on the   *)
(* disk agree (IInv), and what is on the disk goes on like the journal of  *)
(* verdicts that SessionJournal is.                                        *)
(*                                                                         *)
(* Then the screen: it, the sequence and the session agree at every step   *)
(* of a full test (FInv), a verdict is only stored for the test on         *)
(* display, and a session is only abandoned on request.  That the session  *)
(* itself is sound is taken over: every handler is a step of the session   *)
(* manager.                                                                *)
(***************************************************************************)
EXTENDS FullTest, TLAPS

(* The inductive invariant: what the disk says of the session in memory is *)
(* needed to know what a rollback restores and what finalize reports.      *)
IInv == TypeOK /\ MemoryMatchesDisk /\ CompletedHasResult

-----------------------------------------------------------------------------
(* Types of the values the operations build.                               *)

(* The tests of a new session are records, one per test of the plan.       *)
LEMMA FreshTestsType ==
  ASSUME NEW p \in Plans
  PROVE  FreshTests(p) \in Seq(Records)
<1>1. p \in Seq(TestIds)
  BY PlansAssumption
<1>2. \A i \in 1..Len(p) : p[i] \in TestIds
  BY <1>1
<1>3. \A i \in 1..Len(p) :
        [id |-> p[i], completed |-> FALSE, result |-> "FAIL",
         attempts |-> 0, evidence |-> {}] \in Records
  BY <1>2 DEF Records, Verdicts
<1>4. FreshTests(p) \in [1..Len(p) -> Records]
  BY <1>3 DEF FreshTests
<1> QED
  BY <1>1, <1>4

(* The result file built from typed tests is a result document.            *)
LEMMA ResultOfType ==
  ASSUME NEW ts \in Seq(Records)
  PROVE  ResultOf(ts) \in ResultDocs
<1> DEFINE R == [id : TestIds, result : Verdicts,
                 attempted : BOOLEAN, has_evidence : BOOLEAN]
           entry(i) == [id           |-> ts[i].id,
                        result       |-> IF ts[i].completed THEN ts[i].result ELSE "FAIL",
                        attempted    |-> ts[i].attempts > 0,
                        has_evidence |-> ts[i].evidence # {}]
<1>1. \A i \in 1..Len(ts) : ts[i] \in Records
  OBVIOUS
<1>2. \A i \in 1..Len(ts) : entry(i) \in R
  BY <1>1 DEF Records, Verdicts
<1>3. [i \in 1..Len(ts) |-> entry(i)] \in Seq(R)
  <2>1. [i \in 1..Len(ts) |-> entry(i)] \in [1..Len(ts) -> R]
    BY <1>2
  <2> HIDE DEF entry, R
  <2> QED
    BY <2>1
<1>4. (IF \A i \in DOMAIN ts : ts[i].completed /\ ts[i].result = "PASS"
       THEN "PASS" ELSE "FAIL") \in Verdicts
  BY DEF Verdicts
<1> QED
  BY <1>3, <1>4 DEF ResultOf, ResultDocs

(* A document of typed parts is typed.                                     *)
LEMMA DocumentType ==
  ASSUME NEW st \in States, NEW ts \in Seq(Records),
         NEW cur \in TestIds \cup {NoTest}
  PROVE  Document(st, ts, cur) \in Documents
BY DEF Document, Documents

(* A test with another attempt number and other evidence is typed.         *)
LEMMA AttemptType ==
  ASSUME NEW t \in Records, NEW n \in Nat, NEW e \in SUBSET Nat
  PROVE  [t EXCEPT !.attempts = n, !.evidence = e] \in Records
<1> DEFINE u == [t EXCEPT !.attempts = n]
<1>1. u \in Records
  BY DEF Records
<1>2. [u EXCEPT !.evidence = e] \in Records
  <2> HIDE DEF u
  <2> QED
    BY <1>1 DEF Records
<1>3. [t EXCEPT !.attempts = n, !.evidence = e] = [u EXCEPT !.evidence = e]
  BY DEF Records
<1> QED
  BY <1>2, <1>3

(* Writing one test of a session keeps the tests typed.                    *)
LEMMA RecordUpdateType ==
  ASSUME NEW ts \in Seq(Records), NEW i \in 1..Len(ts), NEW r \in Records
  PROVE  [ts EXCEPT ![i] = r] \in Seq(Records)
OBVIOUS

-----------------------------------------------------------------------------
(* The two ways an operation ends preserve the invariant.                  *)

(* A step that changes nothing, as a refused or rolled-back operation.     *)
LEMMA StutterPreserves ==
  IInv /\ UNCHANGED vars => IInv'
BY DEF IInv, TypeOK, MemoryMatchesDisk, CompletedHasResult, vars, memory, disk

(* persist_ with rollback.                                                 *)
LEMMA CommitPreserves ==
  ASSUME IInv, Active, NEW ok \in BOOLEAN, NEW ts \in Seq(Records),
         NEW cur \in TestIds \cup {NoTest},
         Commit(ok, ts, cur),
         UNCHANGED <<plan, state, session_id, results>>
  PROVE  IInv'
<1> USE DEF IInv, Active
<1>1. CASE ~ok
  <2>1. UNCHANGED vars
    BY <1>1 DEF Commit, vars, memory, disk
  <2> QED
    BY <2>1, StutterPreserves
<1>2. CASE ok
  <2> DEFINE d == Document(state, ts, cur)
  <2>1. d \in Documents /\ d.state = state
    BY DocumentType DEF TypeOK, Document
  <2>2. session_id \in 1..Len(files) /\ session_id = Len(files)
    BY DEF TypeOK, MemoryMatchesDisk
  <2>3. tests' = ts /\ current_test' = cur /\ files' = [files EXCEPT ![session_id] = d]
    BY <1>2 DEF Commit
  <2> HIDE DEF d
  <2>4. files' \in Seq(Documents) /\ Len(files') = Len(files)
    BY <2>1, <2>2, <2>3 DEF TypeOK
  <2>5. TypeOK'
    BY <2>3, <2>4 DEF TypeOK
  <2>6. MemoryMatchesDisk'
    BY <2>2, <2>3, <2>4 DEF MemoryMatchesDisk, TypeOK, d, Document
  <2>7. ASSUME NEW s \in 1..Len(files'), files'[s].state = "COMPLETED"
        PROVE  s # session_id /\ files'[s] = files[s]
    BY <2>1, <2>2, <2>3, <2>4, <2>7 DEF TypeOK
  <2>8. CompletedHasResult'
    BY <2>4, <2>7 DEF CompletedHasResult
  <2> QED
    BY <2>5, <2>6, <2>8
<1> QED
  BY <1>1, <1>2

(* finalize: result file, then session file.                               *)
LEMMA FinalizePreserves ==
  ASSUME IInv, Active, NEW ts \in Seq(Records), AllCompleted(ts),
         NEW written \in 0..2, FinalizeWith(ts, written)
  PROVE  IInv'
<1> USE DEF IInv, Active
<1>1. session_id \in 1..Len(files) /\ session_id = Len(files)
  BY DEF TypeOK, MemoryMatchesDisk
<1>2. /\ state' \in {"IN_PROGRESS", "COMPLETED"}
      /\ state' = "COMPLETED" <=> written > 1
      /\ current_test' \in TestIds \cup {NoTest}
      /\ tests' = ts
  BY DEF FinalizeWith, TypeOK
<1> DEFINE d == Document(state', ts, current_test')
<1>3. d \in Documents /\ d.state = state' /\ d.tests = ts
  BY <1>2, DocumentType DEF Document, States
<1>4. files' = [files EXCEPT ![session_id] = d]
  BY DEF FinalizeWith
<1>5. /\ results' \in Seq(ResultDocs \cup {NoResult})
      /\ Len(results') = Len(results)
      /\ \A s \in 1..Len(files) : s # session_id => results'[s] = results[s]
      /\ written > 1 => results'[session_id] = ResultOf(ts)
  <2> DEFINE r == ResultOf(ts)
  <2>1. r \in ResultDocs
    BY ResultOfType
  <2>2. results' = IF written > 0 THEN [results EXCEPT ![session_id] = r] ELSE results
    BY DEF FinalizeWith
  <2> HIDE DEF r
  <2>3. /\ results' \in Seq(ResultDocs \cup {NoResult})
        /\ Len(results') = Len(results)
        /\ \A s \in 1..Len(files) : s # session_id => results'[s] = results[s]
        /\ written > 1 => results'[session_id] = r
    <3> DEFINE D == ResultDocs \cup {NoResult}
    <3>1. r \in D /\ results \in Seq(D) /\ session_id \in 1..Len(results)
      BY <1>1, <2>1 DEF TypeOK
    <3>2. Len(results) = Len(files)
      BY DEF TypeOK
    <3> HIDE DEF D
    <3>3. results' \in Seq(D) /\ Len(results') = Len(results)
      BY <2>2, <3>1
    <3>4. /\ \A s \in 1..Len(files) : s # session_id => results'[s] = results[s]
          /\ written > 1 => results'[session_id] = r
      BY <2>2, <3>1, <3>2
    <3> QED
      BY <3>3, <3>4 DEF D
  <2> QED
    BY <2>3 DEF r
<1> HIDE DEF d
<1>6. files' \in Seq(Documents) /\ Len(files') = Len(files)
  BY <1>1, <1>3, <1>4 DEF TypeOK
<1>7. TypeOK'
  BY <1>2, <1>5, <1>6 DEF TypeOK, FinalizeWith, States
<1>8. MemoryMatchesDisk'
  BY <1>1, <1>2, <1>4, <1>6 DEF MemoryMatchesDisk, FinalizeWith, TypeOK, d, Document
<1>9. ASSUME NEW s \in 1..Len(files'), files'[s].state = "COMPLETED"
      PROVE  AllCompleted(files'[s].tests) /\ results'[s] = ResultOf(files'[s].tests)
  <2>1. CASE s = session_id
    <3>1. files'[s] = d
      BY <1>1, <1>4, <1>6, <2>1 DEF TypeOK
    <3>2. written > 1 /\ files'[s].tests = ts
      BY <1>2, <1>3, <1>9, <3>1
    <3> QED
      BY <1>5, <2>1, <3>2
  <2>2. CASE s # session_id
    <3>1. files'[s] = files[s] /\ results'[s] = results[s] /\ s \in 1..Len(files)
      BY <1>4, <1>5, <1>6, <2>2 DEF TypeOK
    <3> QED
      BY <1>9, <3>1 DEF CompletedHasResult
  <2> QED
    BY <2>1, <2>2
<1>10. CompletedHasResult'
  BY <1>9 DEF CompletedHasResult, AllCompleted, ResultOf
<1> QED
  BY <1>7, <1>8, <1>10

-----------------------------------------------------------------------------
(* Starting, loading, stopping.                                            *)

(* An operation that only changes memory and leaves it empty.              *)
LEMMA ResetPreserves ==
  ASSUME IInv, Reset, plan' \in Plans, UNCHANGED disk
  PROVE  IInv'
<1>1. TypeOK'
  <2>1. tests' \in Seq(Records) /\ session_id' \in 0..Len(files')
    BY DEF Reset, IInv, TypeOK, disk
  <2> QED
    BY <2>1 DEF Reset, IInv, TypeOK, disk, States
<1>2. MemoryMatchesDisk'
  BY DEF Reset, MemoryMatchesDisk
<1>3. CompletedHasResult'
  BY DEF IInv, CompletedHasResult, disk
<1> QED
  BY <1>1, <1>2, <1>3 DEF IInv

(* Abandoning the session in memory rewrites only its own, newest file.    *)
LEMMA AfterAbandonFacts ==
  ASSUME IInv
  PROVE  /\ AfterAbandon \in Seq(Documents)
         /\ Len(AfterAbandon) = Len(files)
         /\ \A s \in 1..Len(files) :
              \/ AfterAbandon[s] = files[s]
              \/ /\ Active
                 /\ s = session_id
                 /\ AfterAbandon[s] = Document("ABANDONED", tests, NoTest)
         /\ \A s \in 1..Len(files) :
              AfterAbandon[s].state = "COMPLETED" => AfterAbandon[s] = files[s]
<1>1. CASE ~Active
  BY <1>1 DEF AfterAbandon, IInv, TypeOK
<1>2. CASE Active
  <2> DEFINE d == Document("ABANDONED", tests, NoTest)
  <2>1. d \in Documents /\ d.state = "ABANDONED"
    BY DocumentType DEF IInv, TypeOK, Document, States
  <2>2. AfterAbandon = [files EXCEPT ![session_id] = d]
    BY <1>2 DEF AfterAbandon
  <2>3. session_id \in 1..Len(files) /\ files \in Seq(Documents)
    BY <1>2 DEF IInv, TypeOK, MemoryMatchesDisk, Active
  <2> HIDE DEF d
  <2>4. \A s \in 1..Len(files) : AfterAbandon[s] = IF s = session_id THEN d ELSE files[s]
    BY <2>2, <2>3
  <2>5. AfterAbandon \in Seq(Documents) /\ Len(AfterAbandon) = Len(files)
    BY <2>1, <2>2, <2>3
  <2> QED
    BY <1>2, <2>1, <2>4, <2>5 DEF d
<1> QED
  BY <1>1, <1>2

(* start_new *)
LEMMA StartNewPreserves ==
  ASSUME IInv, NEW ok \in BOOLEAN, StartNew(ok)
  PROVE  IInv'
<1> DEFINE d == Document("IN_PROGRESS", FreshTests(plan), NoTest)
<1>1. AfterAbandon \in Seq(Documents) /\ Len(AfterAbandon) = Len(files)
  BY AfterAbandonFacts
<1>2. FreshTests(plan) \in Seq(Records)
  BY FreshTestsType DEF IInv, TypeOK
<1>3. d \in Documents /\ d.state = "IN_PROGRESS"
  BY <1>2, DocumentType DEF States, Document
<1>4. CASE ok
  <2> HIDE DEF d
  <2>1. files' = Append(AfterAbandon, d) /\ results' = Append(results, NoResult)
    BY <1>4 DEF StartNew, d
  <2>2. /\ files' \in Seq(Documents)
        /\ Len(files') = Len(files) + 1
        /\ results' \in Seq(ResultDocs \cup {NoResult})
        /\ Len(results') = Len(files) + 1
        /\ \A s \in 1..Len(files) :
             files'[s] = AfterAbandon[s] /\ results'[s] = results[s]
        /\ files'[Len(files) + 1] = d
    BY <1>1, <1>3, <2>1 DEF IInv, TypeOK
  <2>3. TypeOK'
    BY <1>2, <1>4, <2>2 DEF StartNew, IInv, TypeOK, States
  <2>4. MemoryMatchesDisk'
    BY <1>4, <2>2 DEF StartNew, MemoryMatchesDisk, IInv, TypeOK, d, Document
  <2>5. ASSUME NEW s \in 1..Len(files'), files'[s].state = "COMPLETED"
        PROVE  s \in 1..Len(files) /\ files'[s] = files[s] /\ results'[s] = results[s]
    <3>1. s # Len(files) + 1
      BY <1>3, <2>2, <2>5
    <3>2. s \in 1..Len(files)
      BY <2>2, <3>1 DEF IInv, TypeOK
    <3> QED
      BY <2>2, <2>5, <3>2, AfterAbandonFacts
  <2>6. CompletedHasResult'
    BY <2>5 DEF IInv, CompletedHasResult
  <2> QED
    BY <2>3, <2>4, <2>6 DEF IInv
<1>5. CASE ~ok
  <2>1. Reset /\ files' = AfterAbandon /\ results' = results /\ plan' = plan
    BY <1>5 DEF StartNew
  <2>2. TypeOK'
    <3>1. tests' \in Seq(Records) /\ session_id' \in 0..Len(files')
      BY <1>1, <2>1 DEF Reset, IInv, TypeOK
    <3> QED
      BY <1>1, <2>1, <3>1 DEF Reset, IInv, TypeOK, States
  <2>3. MemoryMatchesDisk'
    BY <2>1 DEF Reset, MemoryMatchesDisk
  <2>4. ASSUME NEW s \in 1..Len(files'), files'[s].state = "COMPLETED"
        PROVE  s \in 1..Len(files) /\ files'[s] = files[s]
    BY <1>1, <2>1, <2>4, AfterAbandonFacts
  <2>5. CompletedHasResult'
    BY <2>1, <2>4 DEF IInv, CompletedHasResult
  <2> QED
    BY <2>2, <2>3, <2>5 DEF IInv
<1> QED
  BY <1>4, <1>5

(* load_latest_recoverable *)
LEMMA LoadPreserves ==
  ASSUME IInv, NEW readable \in BOOLEAN, LoadLatestRecoverable(readable)
  PROVE  IInv'
<1>1. CASE readable /\ Recoverable
  <2>1. Len(files) \in 1..Len(files) /\ files[Len(files)] \in Documents
    BY <1>1 DEF Recoverable, IInv, TypeOK
  <2>2. /\ state' = files[Len(files)].state
        /\ session_id' = Len(files)
        /\ tests' = files[Len(files)].tests
        /\ current_test' = files[Len(files)].current_test
        /\ UNCHANGED <<plan, files, results>>
    BY <1>1 DEF LoadLatestRecoverable, disk
  <2>3. TypeOK'
    BY <2>1, <2>2 DEF IInv, TypeOK, Documents
  <2>4. MemoryMatchesDisk'
    BY <2>1, <2>2, <1>1 DEF MemoryMatchesDisk, Document, Documents, Recoverable
  <2>5. CompletedHasResult'
    BY <2>2 DEF IInv, CompletedHasResult
  <2> QED
    BY <2>3, <2>4, <2>5 DEF IInv
<1>2. CASE ~(readable /\ Recoverable)
  <2>1. Reset /\ plan' \in Plans /\ UNCHANGED disk
    BY <1>2 DEF LoadLatestRecoverable, IInv, TypeOK
  <2> QED
    BY <2>1, ResetPreserves
<1> QED
  BY <1>1, <1>2

-----------------------------------------------------------------------------
(* Operations on one test.                                                 *)

(* set_current_test, begin_test, record_evidence, complete_test.           *)
LEMMA TestOperationPreserves ==
  ASSUME IInv, NEW i \in 1..Len(tests), TestOperation(i)
  PROVE  IInv'
<1> DEFINE t == tests[i]
<1>1. tests \in Seq(Records) /\ t \in Records
  BY DEF IInv, TypeOK
<1>2. ASSUME NEW ok \in BOOLEAN, SetCurrentTest(i, ok)  PROVE IInv'
  <2>1. tests[i].id \in TestIds \cup {NoTest}
    BY <1>1 DEF Records
  <2> QED
    BY <1>1, <1>2, <2>1, CommitPreserves DEF SetCurrentTest
<1>3. ASSUME NEW ok \in BOOLEAN, BeginTest(i, ok)  PROVE IInv'
  <2> DEFINE r == [t EXCEPT !.attempts = t.attempts + 1, !.evidence = {}]
             ts == [tests EXCEPT ![i].attempts = tests[i].attempts + 1,
                                 ![i].evidence = {}]
  <2>1. r \in Records
    <3>1. t.attempts + 1 \in Nat /\ {} \in SUBSET Nat
      BY <1>1 DEF Records
    <3> QED
      BY <1>1, <3>1, AttemptType
  <2>2. ts = [tests EXCEPT ![i] = r]
    BY <1>1
  <2>3. ts \in Seq(Records)
    BY <1>1, <2>1, <2>2, RecordUpdateType
  <2>4. t.id \in TestIds \cup {NoTest}
    BY <1>1 DEF Records
  <2>5. Commit(ok, ts, t.id) /\ Active /\ UNCHANGED <<plan, state, session_id, results>>
    BY <1>3 DEF BeginTest
  <2> HIDE DEF ts, t
  <2> QED
    BY <2>3, <2>4, <2>5, CommitPreserves
<1>4. ASSUME NEW ok \in BOOLEAN, RecordEvidence(i, ok)  PROVE IInv'
  <2> DEFINE n == IF tests[i].attempts = 0 THEN 1 ELSE tests[i].attempts
             r == [t EXCEPT !.attempts = n, !.evidence = t.evidence \cup {n}]
             ts == [tests EXCEPT ![i].attempts = n,
                                 ![i].evidence = tests[i].evidence \cup {n}]
  <2>1. r \in Records
    <3>1. n \in Nat /\ t.evidence \cup {n} \in SUBSET Nat
      BY <1>1 DEF Records
    <3> QED
      BY <1>1, <3>1, AttemptType
  <2>2. ts = [tests EXCEPT ![i] = r]
    BY <1>1
  <2>3. ts \in Seq(Records)
    BY <1>1, <2>1, <2>2, RecordUpdateType
  <2>4. current_test \in TestIds \cup {NoTest}
    BY DEF IInv, TypeOK
  <2>5. Commit(ok, ts, current_test) /\ Active
        /\ UNCHANGED <<plan, state, session_id, results>>
    BY <1>4 DEF RecordEvidence
  <2> HIDE DEF ts
  <2> QED
    BY <2>3, <2>4, <2>5, CommitPreserves
<1>5. ASSUME NEW verdict \in Verdicts, NEW ok \in BOOLEAN, NEW written \in 0..2,
             CompleteTest(i, verdict, ok, written)
      PROVE  IInv'
  <2>1. Judged(i, verdict) \in Seq(Records)
    <3> DEFINE r == [t EXCEPT !.completed = TRUE, !.result = verdict]
    <3>1. r \in Records
      BY <1>1 DEF Records
    <3>2. Judged(i, verdict) = [tests EXCEPT ![i] = r]
      BY <1>1 DEF Judged
    <3> QED
      BY <1>1, <3>1, <3>2, RecordUpdateType
  <2>2. CASE ok /\ AllCompleted(Judged(i, verdict))
    BY <1>5, <2>1, <2>2, FinalizePreserves DEF CompleteTest
  <2>3. CASE ~(ok /\ AllCompleted(Judged(i, verdict)))
    <3>1. current_test \in TestIds \cup {NoTest}
      BY DEF IInv, TypeOK
    <3> QED
      BY <1>5, <2>1, <2>3, <3>1, CommitPreserves DEF CompleteTest
  <2> QED
    BY <2>2, <2>3
<1> QED
  BY <1>2, <1>3, <1>4, <1>5 DEF TestOperation

-----------------------------------------------------------------------------
(* The theorems.                                                           *)

(* IInv holds initially and is preserved by every step.                    *)
LEMMA InitEstablishes ==
  Init => IInv
<1> SUFFICES ASSUME Init PROVE IInv
  OBVIOUS
<1>1. /\ Len(files) = 0
      /\ files \in Seq(Documents) /\ tests \in Seq(Records)
      /\ results \in Seq(ResultDocs \cup {NoResult})
  BY DEF Init
<1> QED
  BY <1>1 DEF Init, IInv, TypeOK, MemoryMatchesDisk, CompletedHasResult, States

(* Every step of the session manager keeps it.                             *)
LEMMA NextPreserves ==
  IInv /\ [Next]_vars => IInv'
<1> SUFFICES ASSUME IInv, [Next]_vars PROVE IInv'
  OBVIOUS
<1>1. CASE UNCHANGED vars \/ StartNewRefused
  BY <1>1, StutterPreserves DEF StartNewRefused
<1>2. ASSUME NEW ok \in BOOLEAN, StartNew(ok)  PROVE IInv'
  BY <1>2, StartNewPreserves
<1>3. ASSUME NEW readable \in BOOLEAN, LoadLatestRecoverable(readable)  PROVE IInv'
  BY <1>3, LoadPreserves
<1>4. ASSUME NEW i \in 1..Len(tests), TestOperation(i)  PROVE IInv'
  BY <1>4, TestOperationPreserves
<1>5. ASSUME NEW written \in 0..2, Finalize(written)  PROVE IInv'
  BY <1>5, FinalizePreserves DEF Finalize, IInv, TypeOK
<1>6. CASE Crash
  BY <1>6, ResetPreserves DEF Crash
<1> QED
  BY <1>1, <1>2, <1>3, <1>4, <1>5, <1>6 DEF Next

(* Every variable keeps its type, the session in memory is always the      *)
(* newest one on disk, field by field, and a completed session has the     *)
(* result file of its own verdicts: after any sequence of operations,      *)
(* failed writes and restarts.                                             *)
THEOREM InvariantThm == Spec => []IInv
BY InitEstablishes, NextPreserves, PTL DEF Spec

(* TypeOK alone.                                                           *)
THEOREM TypeThm == Spec => []TypeOK
<1>1. IInv => TypeOK
  BY DEF IInv
<1> QED
  BY <1>1, InvariantThm, PTL

(* Rollback keeps memory and disk together: MemoryMatchesDisk.             *)
THEOREM MemoryMatchesDiskThm == Spec => []MemoryMatchesDisk
<1>1. IInv => MemoryMatchesDisk
  BY DEF IInv
<1> QED
  BY <1>1, InvariantThm, PTL

(* A completed session has the result file of its verdicts.                *)
THEOREM CompletedHasResultThm == Spec => []CompletedHasResult
<1>1. IInv => CompletedHasResult
  BY DEF IInv
<1> QED
  BY <1>1, InvariantThm, PTL

-----------------------------------------------------------------------------
(* The evidence of a test.                                                 *)

(* What EvidenceFromLastAttempt says of one session, and that no evidence  *)
(* is of an attempt 0: record_evidence makes it the first one.             *)
FromLastAttempt(t) == t.evidence \subseteq {t.attempts} \ {0}
AllFromLast(ts)    == \A i \in 1..Len(ts) : FromLastAttempt(ts[i])
EInv == \A s \in 1..Len(files) : AllFromLast(files[s].tests)

(* The session in memory is one of those on disk.                          *)
LEMMA MemoryFromLast ==
  ASSUME IInv, EInv, Active
  PROVE  AllFromLast(tests)
BY DEF IInv, TypeOK, EInv, Active, MemoryMatchesDisk, Document

(* Writing the session in memory, and nothing else, with such tests.       *)
LEMMA WriteFromLast ==
  ASSUME IInv, EInv, Active, NEW d, AllFromLast(d.tests),
         files' = [files EXCEPT ![session_id] = d]
  PROVE  EInv'
<1>1. session_id \in 1..Len(files) /\ files \in Seq(Documents)
  BY DEF IInv, TypeOK, MemoryMatchesDisk, Active
<1>2. Len(files') = Len(files)
  BY <1>1
<1>3. \A s \in 1..Len(files) : files'[s] = IF s = session_id THEN d ELSE files[s]
  BY <1>1
<1> QED
  BY <1>2, <1>3 DEF EInv, AllFromLast, FromLastAttempt

(* Only one test of the session changes.                                   *)
LEMMA UpdateFromLast ==
  ASSUME NEW ts \in Seq(Records), NEW i \in 1..Len(ts), NEW r, FromLastAttempt(r),
         AllFromLast(ts)
  PROVE  AllFromLast([ts EXCEPT ![i] = r])
<1>1. \A j \in 1..Len(ts) : [ts EXCEPT ![i] = r][j] = IF j = i THEN r ELSE ts[j]
  OBVIOUS
<1>2. Len([ts EXCEPT ![i] = r]) = Len(ts)
  OBVIOUS
<1> QED
  BY <1>1, <1>2 DEF AllFromLast

(* persist_, with its rollback.                                            *)
LEMMA CommitFromLast ==
  ASSUME IInv, EInv, Active, NEW ok \in BOOLEAN, NEW ts, NEW cur, AllFromLast(ts),
         Commit(ok, ts, cur)
  PROVE  EInv'
<1>1. CASE ok
  <2> DEFINE d == Document(state, ts, cur)
  <2>1. d.tests = ts /\ files' = [files EXCEPT ![session_id] = d]
    BY <1>1 DEF Commit, Document
  <2> HIDE DEF d
  <2> QED
    BY <2>1, WriteFromLast
<1>2. CASE ~ok
  BY <1>2 DEF Commit, EInv
<1> QED
  BY <1>1, <1>2

(* finalize rewrites the session with the tests it was given.              *)
LEMMA FinalizeFromLast ==
  ASSUME IInv, EInv, Active, NEW ts, AllFromLast(ts), NEW written, FinalizeWith(ts, written)
  PROVE  EInv'
<1> DEFINE d == Document(state', ts, current_test')
<1>1. d.tests = ts /\ files' = [files EXCEPT ![session_id] = d]
  BY DEF FinalizeWith, Document
<1> HIDE DEF d
<1> QED
  BY <1>1, WriteFromLast

(* begin_test drops the evidence, record_evidence adds that of the attempt *)
(* it counts, complete_test and the others leave both alone.               *)
LEMMA TestOperationFromLast ==
  ASSUME IInv, EInv, NEW i \in 1..Len(tests), TestOperation(i)
  PROVE  EInv'
<1> DEFINE t == tests[i]
<1>1. Active
  BY DEF TestOperation, SetCurrentTest, BeginTest, RecordEvidence, CompleteTest
<1>2. tests \in Seq(Records) /\ t \in Records
  BY DEF IInv, TypeOK
<1>3. AllFromLast(tests) /\ FromLastAttempt(t)
  BY <1>1, MemoryFromLast DEF AllFromLast
<1>4. ASSUME NEW ok \in BOOLEAN, SetCurrentTest(i, ok)  PROVE EInv'
  BY <1>1, <1>3, <1>4, CommitFromLast DEF SetCurrentTest
<1>5. ASSUME NEW ok \in BOOLEAN, BeginTest(i, ok)  PROVE EInv'
  <2> DEFINE r == [t EXCEPT !.attempts = t.attempts + 1, !.evidence = {}]
             ts == [tests EXCEPT ![i].attempts = tests[i].attempts + 1,
                                 ![i].evidence = {}]
  <2>1. FromLastAttempt(r)
    BY <1>2 DEF FromLastAttempt, Records
  <2>2. ts = [tests EXCEPT ![i] = r]
    BY <1>2
  <2> HIDE DEF r
  <2>3. AllFromLast(ts)
    <3>1. AllFromLast([tests EXCEPT ![i] = r])
      BY <1>2, <1>3, <2>1, UpdateFromLast
    <3> HIDE DEF ts
    <3> QED
      BY <2>2, <3>1
  <2>4. Commit(ok, ts, tests[i].id)
    BY <1>5 DEF BeginTest
  <2> HIDE DEF ts
  <2> QED
    BY <1>1, <2>3, <2>4, CommitFromLast
<1>6. ASSUME NEW ok \in BOOLEAN, RecordEvidence(i, ok)  PROVE EInv'
  <2> DEFINE n == IF tests[i].attempts = 0 THEN 1 ELSE tests[i].attempts
             r == [t EXCEPT !.attempts = n, !.evidence = t.evidence \cup {n}]
             ts == [tests EXCEPT ![i].attempts = n,
                                 ![i].evidence = tests[i].evidence \cup {n}]
  <2>1. FromLastAttempt(r)
    <3>1. r.attempts = n /\ r.evidence = t.evidence \cup {n}
      BY <1>2 DEF Records
    <3>2. t.evidence \subseteq {n} /\ n # 0
      BY <1>2, <1>3 DEF FromLastAttempt, Records
    <3> HIDE DEF r, n
    <3> QED
      BY <3>1, <3>2 DEF FromLastAttempt
  <2>2. ts = [tests EXCEPT ![i] = r]
    BY <1>2
  <2> HIDE DEF r
  <2>3. AllFromLast(ts)
    <3>1. AllFromLast([tests EXCEPT ![i] = r])
      BY <1>2, <1>3, <2>1, UpdateFromLast
    <3> HIDE DEF ts
    <3> QED
      BY <2>2, <3>1
  <2>4. Commit(ok, ts, current_test)
    BY <1>6 DEF RecordEvidence
  <2> HIDE DEF ts
  <2> QED
    BY <1>1, <2>3, <2>4, CommitFromLast
<1>7. ASSUME NEW verdict \in Verdicts, NEW ok \in BOOLEAN, NEW written \in 0..2,
             CompleteTest(i, verdict, ok, written)
      PROVE  EInv'
  <2> DEFINE r == [t EXCEPT !.completed = TRUE, !.result = verdict]
             ts == Judged(i, verdict)
  <2>1. FromLastAttempt(r)
    BY <1>2, <1>3 DEF FromLastAttempt, Records
  <2>2. ts = [tests EXCEPT ![i] = r]
    BY <1>2 DEF Judged
  <2> HIDE DEF r
  <2>3. AllFromLast(ts)
    <3>1. AllFromLast([tests EXCEPT ![i] = r])
      BY <1>2, <1>3, <2>1, UpdateFromLast
    <3> HIDE DEF ts
    <3> QED
      BY <2>2, <3>1
  <2>4. CASE FinalizeWith(ts, written)
    BY <1>1, <2>3, <2>4, FinalizeFromLast
  <2>5. CASE Commit(ok, ts, current_test)
    BY <1>1, <2>3, <2>5, CommitFromLast
  <2> QED
    BY <1>7, <2>4, <2>5 DEF CompleteTest
<1> QED
  BY <1>4, <1>5, <1>6, <1>7 DEF TestOperation

(* start_new closes the old session as it is and begins without evidence.  *)
LEMMA StartNewFromLast ==
  ASSUME IInv, EInv, NEW ok \in BOOLEAN, StartNew(ok)
  PROVE  EInv'
<1>1. AfterAbandon \in Seq(Documents) /\ Len(AfterAbandon) = Len(files)
  BY AfterAbandonFacts
<1>2. \A s \in 1..Len(files) : AllFromLast(AfterAbandon[s].tests)
  BY AfterAbandonFacts, MemoryFromLast DEF EInv, Document
<1>3. AllFromLast(FreshTests(plan))
  <2>1. plan \in Seq(TestIds)
    BY PlansAssumption DEF IInv, TypeOK
  <2> QED
    BY <2>1 DEF AllFromLast, FromLastAttempt, FreshTests
<1>4. CASE ok
  <2> DEFINE d == Document("IN_PROGRESS", FreshTests(plan), NoTest)
  <2>1. AllFromLast(d.tests)
    BY <1>3 DEF Document
  <2>2. files' = Append(AfterAbandon, d)
    BY <1>4 DEF StartNew
  <2> HIDE DEF d
  <2>3. /\ Len(files') = Len(files) + 1
        /\ \A s \in 1..Len(files) : files'[s] = AfterAbandon[s]
        /\ files'[Len(files) + 1] = d
    BY <1>1, <2>2 DEF IInv, TypeOK
  <2>4. ASSUME NEW s \in 1..Len(files')  PROVE AllFromLast(files'[s].tests)
    BY <1>2, <2>1, <2>3, <2>4 DEF IInv, TypeOK
  <2> QED
    BY <2>4 DEF EInv, AllFromLast, FromLastAttempt
<1>5. CASE ~ok
  <2>1. files' = AfterAbandon
    BY <1>5 DEF StartNew
  <2> QED
    BY <1>1, <1>2, <2>1 DEF EInv, AllFromLast, FromLastAttempt
<1> QED
  BY <1>4, <1>5

(* No retry reports what an attempt before it measured.                    *)
THEOREM EvidenceThm == Spec => []EvidenceFromLastAttempt
<1>1. Init => EInv
  BY DEF Init, EInv
<1>2. IInv /\ EInv /\ [Next]_vars => EInv'
  <2> SUFFICES ASSUME IInv, EInv, [Next]_vars PROVE EInv'
    OBVIOUS
  <2>1. CASE UNCHANGED disk
    BY <2>1 DEF EInv, disk
  <2>2. CASE UNCHANGED vars \/ StartNewRefused \/ Crash
    BY <2>1, <2>2 DEF StartNewRefused, Crash, vars
  <2>3. ASSUME NEW ok \in BOOLEAN, StartNew(ok)  PROVE EInv'
    BY <2>3, StartNewFromLast
  <2>4. ASSUME NEW readable \in BOOLEAN, LoadLatestRecoverable(readable)  PROVE EInv'
    BY <2>1, <2>4 DEF LoadLatestRecoverable
  <2>5. ASSUME NEW i \in 1..Len(tests), TestOperation(i)  PROVE EInv'
    BY <2>5, TestOperationFromLast
  <2>6. ASSUME NEW written \in 0..2, Finalize(written)  PROVE EInv'
    BY <2>6, MemoryFromLast, FinalizeFromLast DEF Finalize
  <2> QED
    BY <2>2, <2>3, <2>4, <2>5, <2>6 DEF Next
<1>3. EInv => EvidenceFromLastAttempt
  BY DEF EInv, AllFromLast, FromLastAttempt, EvidenceFromLastAttempt
<1> QED
  BY <1>1, <1>2, <1>3, InvariantThm, PTL DEF Spec


-----------------------------------------------------------------------------
(* SessionManager implements SessionJournal: the property Journal.  The    *)
(* journal is what the files tell; memory is known by MemoryMatchesDisk to *)
(* be the newest session, so that an operation on memory is a step of the  *)
(* newest entry.                                                           *)

(* The entry of one session.                                               *)
Entry(doc, r) ==
  [phase |-> doc.state, verdicts |-> VerdictsOf(doc.tests), report |-> ReportOf(r)]

told == JournalOf(files, results)

-----------------------------------------------------------------------------
(* The journal, entry by entry.                                            *)

(* JournalOf has an entry per file.                                        *)
LEMMA JournalEntries ==
  ASSUME NEW D, NEW fs \in Seq(D), NEW rs
  PROVE  /\ JournalOf(fs, rs) = [s \in 1..Len(fs) |-> Entry(fs[s], rs[s])]
         /\ Len(JournalOf(fs, rs)) = Len(fs)
BY DEF JournalOf, Entry

(* While a session is open, it is the newest entry, with the verdicts that *)
(* memory has.                                                             *)
LEMMA OpenEntry ==
  ASSUME IInv, Active
  PROVE  /\ Len(told) = Len(files) /\ Len(files) > 0 /\ session_id = Len(files)
         /\ told[Len(told)] = [phase |-> "IN_PROGRESS", verdicts |-> VerdictsOf(tests),
                               report |-> ReportOf(results[Len(files)])]
         /\ J!Open
<1>1. files \in Seq(Documents) /\ session_id = Len(files) /\ Len(files) > 0
  BY DEF IInv, TypeOK, MemoryMatchesDisk, Active
<1>2. files[Len(files)].state = "IN_PROGRESS" /\ files[Len(files)].tests = tests
  BY <1>1 DEF IInv, MemoryMatchesDisk, Active, Document
<1>3. /\ Len(told) = Len(files)
      /\ told[Len(files)] = Entry(files[Len(files)], results[Len(files)])
  BY <1>1, JournalEntries DEF told
<1> QED
  BY <1>1, <1>2, <1>3 DEF Entry, J!Open, J!Newest, told

(* Rewriting the newest session, and maybe its result, is rewriting the    *)
(* newest entry.                                                           *)
LEMMA RewriteNewest ==
  ASSUME IInv, Active, NEW d,
         files' = [files EXCEPT ![session_id] = d],
         Len(results') = Len(results),
         \A s \in 1..Len(files) : s # session_id => results'[s] = results[s]
  PROVE  told' = [told EXCEPT ![Len(told)] = Entry(d, results'[session_id])]
<1>1. files \in Seq(Documents) /\ session_id = Len(files) /\ Len(files) > 0
  BY OpenEntry DEF IInv, TypeOK
<1> DEFINE D == Documents \cup {d}
<1>2. files' \in Seq(D) /\ Len(files') = Len(files) /\ files \in Seq(D)
  BY <1>1
<1>3. \A s \in 1..Len(files) : files'[s] = IF s = session_id THEN d ELSE files[s]
  BY <1>1
<1> HIDE DEF D
<1>4. /\ told = [s \in 1..Len(files) |-> Entry(files[s], results[s])]
      /\ Len(told) = Len(files)
  BY <1>2, JournalEntries DEF told
<1>5. told' = [s \in 1..Len(files) |-> Entry(files'[s], results'[s])]
  <2> DEFINE fs == files'
             rs == results'
  <2>1. told' = JournalOf(fs, rs)
    BY DEF told, JournalOf
  <2>2. fs \in Seq(D) /\ Len(fs) = Len(files)
    BY <1>2
  <2> HIDE DEF fs, rs
  <2>3. JournalOf(fs, rs) = [s \in 1..Len(fs) |-> Entry(fs[s], rs[s])]
    BY <2>2, JournalEntries
  <2> QED
    BY <2>1, <2>2, <2>3 DEF fs, rs
<1> QED
  BY <1>1, <1>3, <1>4, <1>5

-----------------------------------------------------------------------------
(* Progress of the open session.                                           *)

(* From tests ts to us, no verdict is lost: VerdictsOf goes on.            *)
KeepsVerdicts(ts, us) ==
  /\ Len(us) = Len(ts)
  /\ \A i \in 1..Len(ts) :
       \/ us[i].completed = ts[i].completed /\ us[i].result = ts[i].result
       \/ us[i].completed /\ us[i].result \in Verdicts

(* What a store writes is a step of the journal of verdicts.               *)
LEMMA KeptIsJudged ==
  ASSUME NEW ts \in Seq(Records), NEW us \in Seq(Records), KeepsVerdicts(ts, us)
  PROVE  J!Judges(VerdictsOf(ts), VerdictsOf(us))
BY DEF KeepsVerdicts, VerdictsOf, J!Judges, J!Outcomes, Verdicts

(* persist_, with its rollback, is progress that leaves the report alone.  *)
LEMMA CommitProgresses ==
  ASSUME IInv, Active, NEW ok \in BOOLEAN, NEW us \in Seq(Records), NEW cur,
         KeepsVerdicts(tests, us),
         Commit(ok, us, cur), results' = results
  PROVE  [J!JNext]_told
<1>1. CASE ~ok
  BY <1>1 DEF Commit, told
<1>2. CASE ok
  <2> DEFINE d == Document(state, us, cur)
             e == Entry(d, results[session_id])
  <2>1. files' = [files EXCEPT ![session_id] = d]
    BY <1>2 DEF Commit
  <2>2. d.state = "IN_PROGRESS" /\ d.tests = us
    BY DEF Document, Active
  <2> HIDE DEF d
  <2>3. told' = [told EXCEPT ![Len(told)] = e]
    BY <2>1, RewriteNewest
  <2>4. /\ e.phase = "IN_PROGRESS" /\ e.verdicts = VerdictsOf(us)
        /\ e.report = ReportOf(results[session_id])
    BY <2>2 DEF Entry
  <2> HIDE DEF e
  <2>5. J!Judges(VerdictsOf(tests), VerdictsOf(us))
    BY KeptIsJudged DEF IInv, TypeOK
  <2>6. /\ J!Open /\ Len(told) = Len(files) /\ Len(files) > 0 /\ session_id = Len(files)
        /\ J!Newest.verdicts = VerdictsOf(tests)
        /\ J!Newest.report = ReportOf(results[session_id])
    BY OpenEntry DEF J!Newest, told
  <2>7. J!Progress(e)
    BY <2>3, <2>4, <2>5, <2>6 DEF J!Progress, told
  <2>8. told'[Len(told)] = e
    <3>1. Len(told) \in DOMAIN told
      BY <2>6, JournalEntries DEF told, IInv, TypeOK
    <3> QED
      BY <2>3, <3>1
  <2> QED
    BY <2>6, <2>7, <2>8 DEF J!JNext, told
<1> QED
  BY <1>1, <1>2

(* The report of tests that are all completed is that of their verdicts.   *)
LEMMA ReportOfCompleted ==
  ASSUME NEW ts \in Seq(Records), AllCompleted(ts)
  PROVE  /\ ReportOf(ResultOf(ts)) = J!Report(VerdictsOf(ts))
         /\ J!AllJudged(VerdictsOf(ts))
<1>1. \A i \in 1..Len(ts) : ts[i].completed /\ ts[i].result \in Verdicts
  <2>1. \A i \in 1..Len(ts) : i \in DOMAIN ts /\ ts[i] \in Records
    OBVIOUS
  <2>2. \A i \in 1..Len(ts) : ts[i].completed
    BY <2>1, Zenon DEF AllCompleted
  <2>3. \A i \in 1..Len(ts) : ts[i].result \in Verdicts
    BY <2>1 DEF Records
  <2> QED
    BY <2>2, <2>3
<1>2. VerdictsOf(ts) = [i \in 1..Len(ts) |-> ts[i].result]
  BY <1>1 DEF VerdictsOf
<1>3. J!AllJudged(VerdictsOf(ts))
  BY <1>1, <1>2 DEF J!AllJudged, J!Outcomes, Verdicts
<1> DEFINE r == ResultOf(ts)
<1>4. r # NoResult
  BY ResultOfType, NoResultAssumption
<1>5. Len(r.tests) = Len(ts) /\ \A i \in 1..Len(ts) : r.tests[i].result = ts[i].result
  BY <1>1 DEF ResultOf
<1>6. r.status = IF \A i \in DOMAIN ts : ts[i].result = "PASS" THEN "PASS" ELSE "FAIL"
  BY <1>1 DEF ResultOf
<1>7. DOMAIN ts = 1..Len(ts)
  OBVIOUS
<1> HIDE DEF r
<1>8. ReportOf(r) = J!Report(VerdictsOf(ts))
  BY <1>2, <1>4, <1>5, <1>6, <1>7 DEF ReportOf, J!Report
<1> QED
  BY <1>3, <1>8 DEF r

(* finalize is progress: the report of all the verdicts, then the end.     *)
LEMMA FinalizeProgresses ==
  ASSUME IInv, Active, NEW us \in Seq(Records), AllCompleted(us), KeepsVerdicts(tests, us),
         NEW written \in 0..2, FinalizeWith(us, written)
  PROVE  [J!JNext]_told
<1>1. /\ J!Open /\ Len(told) = Len(files) /\ Len(files) > 0 /\ session_id = Len(files)
      /\ J!Newest.verdicts = VerdictsOf(tests)
      /\ J!Newest.report = ReportOf(results[session_id])
  BY OpenEntry DEF J!Newest, told
<1>2. Len(results) = Len(files) /\ results \in Seq(ResultDocs \cup {NoResult})
  BY DEF IInv, TypeOK
<1> DEFINE d == Document(state', us, current_test')
           r == ResultOf(us)
           e == Entry(d, results'[session_id])
<1>3. files' = [files EXCEPT ![session_id] = d] /\ d.tests = us /\ d.state = state'
  BY DEF FinalizeWith, Document
<1>4. results' = IF written > 0 THEN [results EXCEPT ![session_id] = r] ELSE results
  BY DEF FinalizeWith
<1>5. state' = IF written > 1 THEN "COMPLETED" ELSE "IN_PROGRESS"
  BY DEF FinalizeWith, Active
<1> HIDE DEF d, r
<1>6. /\ Len(results') = Len(results)
      /\ \A s \in 1..Len(files) : s # session_id => results'[s] = results[s]
      /\ results'[session_id] = IF written > 0 THEN r ELSE results[session_id]
  <2>1. session_id \in 1..Len(results)
    BY <1>1, <1>2
  <2> QED
    BY <1>2, <1>4, <2>1
<1>7. told' = [told EXCEPT ![Len(told)] = e]
  BY <1>3, <1>6, RewriteNewest
<1>8. /\ e.phase = state' /\ e.verdicts = VerdictsOf(us)
      /\ e.report = IF written > 0 THEN ReportOf(r) ELSE ReportOf(results[session_id])
  BY <1>3, <1>6 DEF Entry
<1> HIDE DEF e
<1>9. J!Judges(VerdictsOf(tests), VerdictsOf(us))
  BY KeptIsJudged DEF IInv, TypeOK
<1>10. ReportOf(r) = J!Report(VerdictsOf(us)) /\ J!AllJudged(VerdictsOf(us))
  BY ReportOfCompleted DEF r
<1>11. J!Progress(e)
  <2>1. CASE written > 0
    BY <1>1, <1>5, <1>7, <1>8, <1>9, <1>10, <2>1 DEF J!Progress, told
  <2>2. CASE ~(written > 0)
    BY <1>1, <1>5, <1>7, <1>8, <1>9, <2>2 DEF J!Progress, told
  <2> QED
    BY <2>1, <2>2
<1>12. told'[Len(told)] = e
  <2>1. Len(told) \in DOMAIN told
    BY <1>1, JournalEntries DEF told, IInv, TypeOK
  <2> QED
    BY <1>7, <2>1
<1> QED
  BY <1>1, <1>11, <1>12 DEF J!JNext, told

(* An operation on one test, of which only complete_test judges.           *)
LEMMA TestOperationProgresses ==
  ASSUME IInv, NEW i \in 1..Len(tests), TestOperation(i)
  PROVE  [J!JNext]_told
<1>1. Active
  BY DEF TestOperation, SetCurrentTest, BeginTest, RecordEvidence, CompleteTest
<1>2. tests \in Seq(Records) /\ tests[i] \in Records
  BY DEF IInv, TypeOK
<1>3. ASSUME NEW ok \in BOOLEAN, SetCurrentTest(i, ok)  PROVE [J!JNext]_told
  <2>1. KeepsVerdicts(tests, tests)
    BY DEF KeepsVerdicts
  <2> QED
    BY <1>1, <1>2, <1>3, <2>1, CommitProgresses DEF SetCurrentTest
<1>4. ASSUME NEW n \in Nat, NEW v \in SUBSET Nat, NEW ok \in BOOLEAN, NEW cur,
             results' = results,
             Commit(ok, [tests EXCEPT ![i].attempts = n, ![i].evidence = v], cur)
      PROVE  [J!JNext]_told
  <2> DEFINE q == [tests[i] EXCEPT !.attempts = n, !.evidence = v]
             us == [tests EXCEPT ![i].attempts = n, ![i].evidence = v]
  <2>1. q \in Records /\ q.completed = tests[i].completed /\ q.result = tests[i].result
    BY <1>2, AttemptType DEF Records
  <2>2. us = [tests EXCEPT ![i] = q]
    BY <1>2
  <2> HIDE DEF q
  <2>3. us \in Seq(Records)
    BY <1>2, <2>1, <2>2, RecordUpdateType
  <2>4. KeepsVerdicts(tests, us)
    BY <1>2, <2>1, <2>2 DEF KeepsVerdicts
  <2> HIDE DEF us
  <2> QED
    BY <1>1, <1>4, <2>3, <2>4, CommitProgresses DEF us
<1>5. ASSUME NEW ok \in BOOLEAN, BeginTest(i, ok)  PROVE [J!JNext]_told
  <2>1. tests[i].attempts + 1 \in Nat /\ {} \in SUBSET Nat
    BY <1>2 DEF Records
  <2> QED
    BY <1>4, <1>5, <2>1 DEF BeginTest
<1>6. ASSUME NEW ok \in BOOLEAN, RecordEvidence(i, ok)  PROVE [J!JNext]_told
  <2> DEFINE n == IF tests[i].attempts = 0 THEN 1 ELSE tests[i].attempts
  <2>1. n \in Nat /\ tests[i].evidence \cup {n} \in SUBSET Nat
    BY <1>2 DEF Records
  <2>2. /\ Commit(ok, [tests EXCEPT ![i].attempts = n,
                                    ![i].evidence = tests[i].evidence \cup {n}],
                  current_test)
        /\ results' = results
    BY <1>6 DEF RecordEvidence
  <2> HIDE DEF n
  <2> QED
    BY <1>4, <2>1, <2>2
<1>7. ASSUME NEW verdict \in Verdicts, NEW ok \in BOOLEAN, NEW written \in 0..2,
             CompleteTest(i, verdict, ok, written)
      PROVE  [J!JNext]_told
  <2> DEFINE q == [tests[i] EXCEPT !.completed = TRUE, !.result = verdict]
             us == Judged(i, verdict)
  <2>1. q \in Records /\ q.completed /\ q.result = verdict
    BY <1>2 DEF Records
  <2>2. us = [tests EXCEPT ![i] = q]
    BY <1>2 DEF Judged
  <2> HIDE DEF q
  <2>3. us \in Seq(Records)
    BY <1>2, <2>1, <2>2, RecordUpdateType
  <2>4. KeepsVerdicts(tests, us)
    BY <1>2, <2>1, <2>2 DEF KeepsVerdicts
  <2> HIDE DEF us
  <2>5. CASE ok /\ AllCompleted(us)
    BY <1>1, <1>7, <2>3, <2>4, <2>5, FinalizeProgresses DEF CompleteTest, us
  <2>6. CASE ~(ok /\ AllCompleted(us))
    BY <1>1, <1>7, <2>3, <2>4, <2>6, CommitProgresses DEF CompleteTest, us
  <2> QED
    BY <2>5, <2>6
<1> QED
  BY <1>3, <1>5, <1>6, <1>7 DEF TestOperation

-----------------------------------------------------------------------------
(* A new session.                                                          *)

(* abandon() in start_new gives the open session up.                       *)
LEMMA AbandonGivesUp ==
  ASSUME IInv, Active
  PROVE  JournalOf(AfterAbandon, results) = J!GivenUp
<1> DEFINE d == Document("ABANDONED", tests, NoTest)
<1>1. /\ Len(told) = Len(files) /\ Len(files) > 0 /\ session_id = Len(files)
      /\ told[Len(told)] = [phase |-> "IN_PROGRESS", verdicts |-> VerdictsOf(tests),
                            report |-> ReportOf(results[Len(files)])]
  BY OpenEntry
<1>2. d.state = "ABANDONED" /\ d.tests = tests
  BY DEF Document
<1>3. files \in Seq(Documents) /\ AfterAbandon \in Seq(Documents)
      /\ Len(AfterAbandon) = Len(files) /\ AfterAbandon = [files EXCEPT ![session_id] = d]
  BY AfterAbandonFacts DEF AfterAbandon, IInv, TypeOK
<1>4. \A s \in 1..Len(files) : AfterAbandon[s] = IF s = session_id THEN d ELSE files[s]
  BY <1>3
<1> HIDE DEF d
<1>5. told = [s \in 1..Len(files) |-> Entry(files[s], results[s])]
  BY <1>3, JournalEntries DEF told
<1>6. JournalOf(AfterAbandon, results)
        = [s \in 1..Len(files) |-> Entry(AfterAbandon[s], results[s])]
  <2> DEFINE fs == AfterAbandon
  <2>1. fs \in Seq(Documents) /\ Len(fs) = Len(files)
    BY <1>3
  <2> HIDE DEF fs
  <2>2. JournalOf(fs, results) = [s \in 1..Len(fs) |-> Entry(fs[s], results[s])]
    BY <2>1, JournalEntries
  <2> QED
    BY <2>1, <2>2 DEF fs
<1>7. [told[Len(told)] EXCEPT !.phase = "ABANDONED"] = Entry(d, results[session_id])
  BY <1>1, <1>2 DEF Entry
<1>8. J!GivenUp = [told EXCEPT ![Len(told)] = [told[Len(told)] EXCEPT !.phase = "ABANDONED"]]
  BY DEF J!GivenUp, told
<1>9. J!GivenUp = [told EXCEPT ![Len(files)] = Entry(d, results[session_id])]
  BY <1>1, <1>7, <1>8
<1>10. \A s \in 1..Len(files) :
         Entry(AfterAbandon[s], results[s])
           = IF s = Len(files) THEN Entry(d, results[session_id])
             ELSE Entry(files[s], results[s])
  BY <1>1, <1>4
<1> QED
  BY <1>5, <1>6, <1>9, <1>10

(* The first document of a session is a fresh entry after the others.      *)
LEMMA NewEntry ==
  ASSUME NEW fs \in Seq(Documents), NEW rs, Len(rs) = Len(fs),
         rs \in Seq(ResultDocs \cup {NoResult}), NEW p \in Plans
  PROVE  JournalOf(Append(fs, Document("IN_PROGRESS", FreshTests(p), NoTest)),
                   Append(rs, NoResult))
           = Append(JournalOf(fs, rs), J!Fresh(Len(p)))
<1> DEFINE d  == Document("IN_PROGRESS", FreshTests(p), NoTest)
           gs == Append(fs, d)
           ss == Append(rs, NoResult)
<1>1. FreshTests(p) \in Seq(Records) /\ p \in Seq(TestIds)
  BY FreshTestsType, PlansAssumption
<1>2. d \in Documents
  BY <1>1, DocumentType DEF States
<1>3. VerdictsOf(FreshTests(p)) = [i \in 1..Len(p) |-> J!Unjudged]
  <2>1. Len(FreshTests(p)) = Len(p)
    BY <1>1 DEF FreshTests
  <2>2. \A i \in 1..Len(p) : FreshTests(p)[i].completed = FALSE
    BY DEF FreshTests
  <2> QED
    BY <2>1, <2>2 DEF VerdictsOf, J!Unjudged
<1>4. Entry(d, NoResult) = J!Fresh(Len(p))
  BY <1>3 DEF Entry, Document, ReportOf, J!Fresh
<1> HIDE DEF d
<1>5. /\ gs \in Seq(Documents) /\ Len(gs) = Len(fs) + 1
      /\ \A s \in 1..Len(fs) : gs[s] = fs[s]
      /\ gs[Len(fs) + 1] = d
  BY <1>2
<1>6. /\ \A s \in 1..Len(fs) : ss[s] = rs[s]
      /\ ss[Len(fs) + 1] = NoResult
  OBVIOUS
<1> HIDE DEF gs, ss
<1>7. /\ JournalOf(gs, ss) = [s \in 1..Len(gs) |-> Entry(gs[s], ss[s])]
      /\ JournalOf(fs, rs) = [s \in 1..Len(fs) |-> Entry(fs[s], rs[s])]
  BY <1>5, JournalEntries
<1> DEFINE j == JournalOf(fs, rs)
           e(s) == Entry(fs[s], rs[s])
           D == {e(s) : s \in 1..Len(fs)} \cup {J!Fresh(Len(p))}
<1>8. j \in Seq(D) /\ Len(j) = Len(fs) /\ J!Fresh(Len(p)) \in D
  BY <1>7
<1>9. \A s \in 1..Len(fs) : j[s] = Entry(fs[s], rs[s])
  BY <1>7
<1> HIDE DEF j, D
<1>10. Append(j, J!Fresh(Len(p)))
         = [s \in 1..(Len(fs) + 1) |-> IF s = Len(fs) + 1 THEN J!Fresh(Len(p)) ELSE j[s]]
  <2> DEFINE f == J!Fresh(Len(p))
             k == Append(j, f)
  <2>1. k \in Seq(D) /\ Len(k) = Len(fs) + 1 /\ Len(fs) \in Nat
    BY <1>8
  <2>2. \A s \in 1..(Len(fs) + 1) : k[s] = IF s = Len(fs) + 1 THEN f ELSE j[s]
    BY <1>8
  <2> HIDE DEF k, f
  <2>3. k = [s \in 1..(Len(fs) + 1) |-> k[s]]
    BY <2>1
  <2> QED
    BY <2>2, <2>3 DEF k, f
<1>11. JournalOf(gs, ss) = Append(j, J!Fresh(Len(p)))
  BY <1>4, <1>5, <1>6, <1>7, <1>9, <1>10
<1> QED
  BY <1>11 DEF j, gs, ss, d

(* start_new begins a session, after giving up the open one; when its      *)
(* first write fails it has only given up.                                 *)
LEMMA StartNewProgresses ==
  ASSUME IInv, NEW ok \in BOOLEAN, StartNew(ok)
  PROVE  [J!JNext]_told
<1>1. /\ AfterAbandon \in Seq(Documents) /\ Len(AfterAbandon) = Len(results)
      /\ results \in Seq(ResultDocs \cup {NoResult})
      /\ plan \in Plans
  BY AfterAbandonFacts DEF IInv, TypeOK
<1> DEFINE left == JournalOf(AfterAbandon, results)
<1>2. CASE ok
  <2> DEFINE fresh == J!Fresh(Len(plan))
  <2>1. /\ files' = Append(AfterAbandon, Document("IN_PROGRESS", FreshTests(plan), NoTest))
        /\ results' = Append(results, NoResult)
    BY <1>2 DEF StartNew
  <2>2. told' = JournalOf(Append(AfterAbandon,
                                 Document("IN_PROGRESS", FreshTests(plan), NoTest)),
                          Append(results, NoResult))
    BY <2>1 DEF told, JournalOf
  <2>3. told' = Append(left, fresh)
    <3> DEFINE fs == AfterAbandon
    <3>1. fs \in Seq(Documents) /\ Len(results) = Len(fs)
      BY <1>1
    <3> HIDE DEF fs
    <3>2. JournalOf(Append(fs, Document("IN_PROGRESS", FreshTests(plan), NoTest)),
                    Append(results, NoResult))
            = Append(JournalOf(fs, results), J!Fresh(Len(plan)))
      BY <1>1, <3>1, NewEntry
    <3> QED
      BY <2>2, <3>2 DEF fs
  <2>4. /\ told'[Len(told')] = fresh /\ Len(told') > 0
        /\ Len(fresh.verdicts) = Len(plan) /\ Len(plan) > 0
    <3>1. plan \in Seq(TestIds) /\ Len(plan) > 0
      BY <1>1, PlansAssumption
    <3>2. Len(fresh.verdicts) = Len(plan)
      BY <3>1 DEF J!Fresh
    <3>3. told'[Len(told')] = fresh /\ Len(told') > 0
      <4> DEFINE fs == AfterAbandon
                 D == {Entry(fs[s], results[s]) : s \in 1..Len(fs)}
      <4>1. fs \in Seq(Documents)
        BY <1>1
      <4> HIDE DEF fs
      <4>2. /\ JournalOf(fs, results) = [s \in 1..Len(fs) |-> Entry(fs[s], results[s])]
            /\ Len(JournalOf(fs, results)) = Len(fs) /\ Len(fs) \in Nat
        BY <4>1, JournalEntries
      <4>3. JournalOf(fs, results) \in Seq(D)
        BY <4>2
      <4>4. told' = Append(JournalOf(fs, results), fresh)
        BY <2>3 DEF fs
      <4> HIDE DEF D, fresh
      <4> DEFINE j == JournalOf(fs, results)
      <4> HIDE DEF j
      <4>5. j \in Seq(D)
        BY <4>3 DEF j
      <4>6. Append(j, fresh)[Len(Append(j, fresh))] = fresh /\ Len(Append(j, fresh)) > 0
        BY <4>5
      <4> QED
        BY <4>4, <4>6 DEF j
    <3> QED
      BY <3>1, <3>2, <3>3
  <2>5. CASE Active
    <3>1. left = J!GivenUp /\ J!Open
      BY <2>5, AbandonGivesUp, OpenEntry
    <3>2. J!Begin(Len(plan))
      BY <2>3, <2>4, <3>1 DEF J!Begin, told
    <3> QED
      BY <2>4, <3>2 DEF J!JNext, told
  <2>6. CASE ~Active
    <3>1. left = told
      BY <2>6 DEF AfterAbandon, told
    <3>2. J!Begin(Len(plan))
      BY <2>3, <2>4, <3>1 DEF J!Begin, told
    <3> QED
      BY <2>4, <3>2 DEF J!JNext, told
  <2> QED
    BY <2>5, <2>6
<1>3. CASE ~ok
  <2>1. told' = left
    BY <1>3 DEF StartNew, told, JournalOf
  <2>2. CASE Active
    <3>1. left = J!GivenUp /\ J!Open
      BY <2>2, AbandonGivesUp, OpenEntry
    <3> QED
      BY <2>1, <3>1 DEF J!JNext, J!GiveUp, told
  <2>3. CASE ~Active
    BY <2>1, <2>3 DEF AfterAbandon, told
  <2> QED
    BY <2>2, <2>3
<1> QED
  BY <1>2, <1>3

-----------------------------------------------------------------------------
(* The session manager is the journal.                                     *)

(* Before the first session the journal is empty.                          *)
LEMMA InitIsEmpty ==
  Init => J!JInit
<1> SUFFICES ASSUME Init PROVE J!JInit
  OBVIOUS
<1>1. files \in Seq(Documents) /\ files = <<>>
  BY DEF Init
<1>2. told = [s \in 1..Len(files) |-> Entry(files[s], results[s])]
  <2>1. files \in Seq(Documents)
    BY <1>1
  <2> QED
    BY ONLY <2>1, JournalEntries DEF told
<1>3. told \in [1..0 -> {}]
  BY <1>1, <1>2
<1>4. told = <<>>
  <2> HIDE DEF told
  <2>1. told \in Seq({}) /\ Len(told) = 0
    BY <1>3
  <2> QED
    BY <2>1
<1> QED
  BY <1>4 DEF J!JInit, told

(* Every step of the manager is one of the journal, or leaves it alone:    *)
(* loading, refused calls and restarts write nothing.                      *)
LEMMA NextProgresses ==
  IInv /\ [Next]_vars => [J!JNext]_told
<1> SUFFICES ASSUME IInv, [Next]_vars PROVE [J!JNext]_told
  OBVIOUS
<1>1. CASE UNCHANGED disk
  BY <1>1 DEF disk, told, JournalOf
<1>2. ASSUME NEW ok \in BOOLEAN, StartNew(ok)  PROVE [J!JNext]_told
  BY <1>2, StartNewProgresses
<1>3. ASSUME NEW i \in 1..Len(tests), TestOperation(i)  PROVE [J!JNext]_told
  BY <1>3, TestOperationProgresses
<1>4. ASSUME NEW written \in 0..2, Finalize(written)  PROVE [J!JNext]_told
  <2>1. tests \in Seq(Records) /\ KeepsVerdicts(tests, tests)
    BY DEF IInv, TypeOK, KeepsVerdicts
  <2> QED
    BY <1>4, <2>1, FinalizeProgresses DEF Finalize
<1> QED
  BY <1>1, <1>2, <1>3, <1>4
  DEF Next, vars, StartNewRefused, LoadLatestRecoverable, Crash

(* The files are an append-only journal of sessions, whichever writes fail *)
(* and wherever the program stops: the property Journal.                   *)
THEOREM JournalThm == Spec => Journal
<1>1. IInv /\ [Next]_vars => [J!JNext]_(JournalOf(files, results))
  BY NextProgresses DEF told
<1> QED
  BY <1>1, InitIsEmpty, InvariantThm, PTL DEF Spec, Journal, J!JSpec

-----------------------------------------------------------------------------
(* FullTest.                                                               *)

(* The session the disk holds last, and the session manager in memory.     *)
Last == files[Len(files)]

(* Memory is empty or holds a session of the running program's plan that   *)
(* is in progress or closed.                                               *)
MemoryOfPlan ==
  /\ state \in {"NONE", "IN_PROGRESS", "COMPLETED"}
  /\ state = "NONE" => tests = <<>>
  /\ state # "NONE" => /\ Len(tests) = Len(plan)
                       /\ \A i \in 1..Len(plan) : tests[i].id = plan[i]

(* Tests are judged in the order of the plan: without this the index that  *)
(* resume looks for could have judged tests behind it.                     *)
InOrder(ts) ==
  \E n \in 0..Len(ts) : \A i \in 1..Len(ts) : ts[i].completed <=> i <= n
LastInOrder == files # <<>> => InOrder(Last.tests)

(* Where the user interface is while a handler runs, and what it shows.    *)
HandlersPlaced ==
  /\ recovery => loaded = "START"
  /\ doing \in {"starting", "replacing", "resuming"} => loaded = "START"
  /\ doing = "starting" => state = "NONE"
  /\ doing = "opening" => /\ Active /\ seq_active /\ index <= Len(plan)
                          /\ loaded # "RESULT" /\ dialog # "open"
  /\ dialog = "open" => Idle /\ nav /\ loaded \in TestIds
PagesPlaced ==
  /\ nav \/ ~scheduled => loaded = page
  /\ seq_active /\ doing # "opening" => index <= Len(plan) /\ page = plan[index]
  /\ page = "RESULT" /\ doing # "opening" => ~Active /\ ~Recoverable
  /\ loaded = "RESULT" => Idle /\ ~Active
  /\ seq_active => state # "COMPLETED"

(* A running sequence is where the last session on disk says, although the *)
(* session may have left memory: what a second "Full Test" loads again is  *)
(* the session of the sequence, at its index.                              *)
SequenceStored ==
  seq_active /\ Recoverable =>
    /\ \A i \in 1..Len(plan) : /\ i < index => Last.tests[i].completed
                               /\ i > index => ~Last.tests[i].completed
    /\ loaded = "START" \/ doing = "opening" => ~Last.tests[index].completed
    /\ doing # "opening" => Last.current_test = plan[index]

(* Without faults a page change that is pending is one to another page, or *)
(* to one that a sequence builds anew.                                     *)
ChangePending ==
  ~faulty =>
    /\ scheduled /\ ~seq_active => loaded # page
    /\ ~scheduled => nav
    /\ dialog = "triggered" => scheduled \/ doing = "opening"

(* The inductive invariant.                                                *)
GInv ==
  /\ IInv /\ MemoryOfPlan /\ LastInOrder
  /\ FTypeOK /\ HandlersPlaced /\ PagesPlaced
  /\ SequenceStored /\ SequenceHasSession /\ ChangePending

-----------------------------------------------------------------------------
(* Plans, and the session on disk.                                         *)

(* The pages of the tests are pages of their own.                          *)
LEMMA PlanFacts ==
  ASSUME IInv
  PROVE  /\ plan \in Plans /\ Len(plan) \in Nat /\ Len(plan) > 0
         /\ \A i \in 1..Len(plan) :
              /\ plan[i] \in TestIds
              /\ plan[i] # "START" /\ plan[i] # "RESULT" /\ plan[i] # "NONE"
         /\ \A i, j \in 1..Len(plan) : plan[i] = plan[j] => i = j
<1>1. plan \in Plans
  BY DEF IInv, TypeOK
<1>2. plan \in Seq(TestIds) /\ Len(plan) > 0
      /\ \A i, j \in DOMAIN plan : plan[i] = plan[j] => i = j
  BY <1>1, PlansAssumption
<1>3. Len(plan) \in Nat /\ DOMAIN plan = 1..Len(plan)
      /\ \A i \in 1..Len(plan) : plan[i] \in TestIds
  BY <1>2
<1>4. \A t \in TestIds : t # "START" /\ t # "RESULT" /\ t # "NONE"
  BY PagesAssumption
<1> QED
  BY <1>1, <1>2, <1>3, <1>4

(* A document whose tests are those of the plan.                           *)
OfPlan(ts) == Len(ts) = Len(plan) /\ \A i \in 1..Len(plan) : ts[i].id = plan[i]

(* A session can be recovered if it was in progress, with the plan's       *)
(* tests.                                                                  *)
LEMMA RecoverableIs ==
  Recoverable <=> files # <<>> /\ Last.state = "IN_PROGRESS" /\ OfPlan(Last.tests)
BY DEF Recoverable, Last, OfPlan

(* The session in memory is the last one on disk, and can be recovered     *)
(* exactly while it is in progress.                                        *)
LEMMA MemoryIsLast ==
  ASSUME IInv, MemoryOfPlan, state # "NONE"
  PROVE  /\ files \in Seq(Documents) /\ Len(files) \in Nat /\ Len(files) > 0
         /\ session_id = Len(files) /\ files # <<>>
         /\ Last = Document(state, tests, current_test)
         /\ Last.state = state /\ Last.tests = tests
         /\ Last.current_test = current_test
         /\ OfPlan(tests)
         /\ Recoverable <=> Active
<1>1. /\ files \in Seq(Documents) /\ files # <<>> /\ session_id = Len(files)
      /\ files[session_id] = Document(state, tests, current_test)
  BY DEF IInv, TypeOK, MemoryMatchesDisk
<1>2. Last = Document(state, tests, current_test)
  BY <1>1 DEF Last
<1>3. Last.state = state /\ Last.tests = tests /\ Last.current_test = current_test
  BY <1>2 DEF Document
<1>4. OfPlan(tests)
  BY DEF MemoryOfPlan, OfPlan
<1>5. Len(files) \in Nat /\ Len(files) > 0
  BY <1>1
<1> QED
  BY <1>1, <1>2, <1>3, <1>4, <1>5, RecoverableIs DEF Active

(* The tests on disk are typed.                                            *)
LEMMA LastTyped ==
  ASSUME IInv, files # <<>>
  PROVE  Last \in Documents /\ Last.tests \in Seq(Records)
<1>1. files \in Seq(Documents) /\ Len(files) \in 1..Len(files)
  BY DEF IInv, TypeOK
<1>2. Last \in Documents
  BY <1>1 DEF Last
<1> QED
  BY <1>2 DEF Documents

(* What resume finds when the tests were judged in order: behind the first *)
(* test without a verdict there is none with one.                          *)
LEMMA NextIncompleteFacts ==
  ASSUME tests \in Seq(Records), InOrder(tests)
  PROVE  /\ NextIncomplete \in 1..(Len(tests) + 1)
         /\ NextIncomplete <= Len(tests) => ~tests[NextIncomplete].completed
         /\ \A i \in 1..Len(tests) : /\ i < NextIncomplete => tests[i].completed
                                     /\ i > NextIncomplete => ~tests[i].completed
<1> DEFINE P(i) == /\ i <= Len(tests) => ~tests[i].completed
                   /\ \A j \in 1..(i - 1) : tests[j].completed
<1>1. Len(tests) \in Nat
  OBVIOUS
<1>2. PICK n \in 0..Len(tests) : \A i \in 1..Len(tests) : tests[i].completed <=> i <= n
  BY DEF InOrder
<1>3. n + 1 \in 1..(Len(tests) + 1) /\ P(n + 1)
  BY <1>1, <1>2
<1>4. NextIncomplete = CHOOSE i \in 1..(Len(tests) + 1) : P(i)
  BY DEF NextIncomplete
<1>5. NextIncomplete \in 1..(Len(tests) + 1) /\ P(NextIncomplete)
  <2> HIDE DEF P
  <2> QED
    BY <1>3, <1>4
<1>6. NextIncomplete = n + 1
  BY <1>1, <1>2, <1>5
<1> QED
  BY <1>1, <1>2, <1>5, <1>6

(* The test that is judged is completed, the others are as they were.      *)
LEMMA JudgedFacts ==
  ASSUME tests \in Seq(Records), NEW i \in 1..Len(tests), NEW verdict \in Verdicts
  PROVE  /\ Judged(i, verdict) \in Seq(Records)
         /\ Len(Judged(i, verdict)) = Len(tests)
         /\ \A j \in 1..Len(tests) :
              /\ Judged(i, verdict)[j].id = tests[j].id
              /\ Judged(i, verdict)[j].completed <=> j = i \/ tests[j].completed
              /\ j # i => Judged(i, verdict)[j] = tests[j]
<1> DEFINE r == [tests[i] EXCEPT !.completed = TRUE, !.result = verdict]
<1>1. tests[i] \in Records
  OBVIOUS
<1>2. r \in Records /\ r.completed /\ r.id = tests[i].id
  BY <1>1 DEF Records
<1>3. Judged(i, verdict) = [tests EXCEPT ![i] = r]
  BY <1>1 DEF Judged
<1> HIDE DEF r
<1>4. \A j \in 1..Len(tests) : Judged(i, verdict)[j] = IF j = i THEN r ELSE tests[j]
  BY <1>3
<1>5. Judged(i, verdict) \in Seq(Records) /\ Len(Judged(i, verdict)) = Len(tests)
  BY <1>2, <1>3
<1> QED
  BY <1>2, <1>4, <1>5

-----------------------------------------------------------------------------
(* What the operations of the session manager do to the last session.      *)

(* A handler that does not call it.                                        *)
LEMMA NoSessionStep ==
  ASSUME UNCHANGED vars
  PROVE  /\ plan' = plan /\ state' = state /\ tests' = tests
         /\ session_id' = session_id /\ current_test' = current_test
         /\ files' = files /\ results' = results /\ Last' = Last
         /\ Recoverable' <=> Recoverable
         /\ Active' <=> Active
         /\ IInv => IInv'
         /\ MemoryOfPlan => MemoryOfPlan'
         /\ LastInOrder => LastInOrder'
<1>1. /\ plan' = plan /\ state' = state /\ tests' = tests
      /\ session_id' = session_id /\ current_test' = current_test
      /\ files' = files /\ results' = results
  BY DEF vars, memory, disk
<1>2. Last' = Last
  BY <1>1 DEF Last
<1>3. (Recoverable' <=> Recoverable) /\ (Active' <=> Active)
  BY <1>1 DEF Recoverable, Active
<1>4. IInv => IInv'
  BY StutterPreserves
<1>5. MemoryOfPlan => MemoryOfPlan'
  BY <1>1 DEF MemoryOfPlan
<1>6. LastInOrder => LastInOrder'
  BY <1>1, <1>2 DEF LastInOrder, InOrder
<1> QED
  BY <1>1, <1>2, <1>3, <1>4, <1>5, <1>6

(* The last file is rewritten, or one is added: it is the last afterwards. *)
LEMMA RewriteLast ==
  ASSUME IInv, Active, MemoryOfPlan, NEW d, files' = [files EXCEPT ![session_id] = d]
  PROVE  Last' = d /\ Len(files') = Len(files) /\ files' # <<>>
         /\ \A s \in 1..Len(files) : s # Len(files) => files'[s] = files[s]
<1>1. /\ files \in Seq(Documents) /\ Len(files) \in Nat /\ Len(files) > 0
      /\ session_id = Len(files)
  BY MemoryIsLast DEF Active
<1>2. Len(files') = Len(files) /\ files'[Len(files)] = d
  BY <1>1
<1>3. \A s \in 1..Len(files) : s # Len(files) => files'[s] = files[s]
  BY <1>1
<1>4. files' # <<>>
  BY <1>1, <1>2
<1> QED
  BY <1>2, <1>3, <1>4 DEF Last

(* persist_ of tests of the plan, with its rollback.                       *)
LEMMA CommitEffect ==
  ASSUME IInv, MemoryOfPlan, LastInOrder, Active, NEW ok \in BOOLEAN,
         NEW ts, NEW cur, OfPlan(ts), InOrder(ts), Commit(ok, ts, cur),
         UNCHANGED <<plan, state, session_id, results>>
  PROVE  /\ MemoryOfPlan' /\ LastInOrder' /\ Active' /\ Recoverable'
         /\ Last'.tests = tests' /\ Last'.current_test = current_test'
         /\ tests' = IF ok THEN ts ELSE tests
         /\ current_test' = IF ok THEN cur ELSE current_test
         /\ Len(files') = Len(files)
         /\ \A s \in 1..Len(files) : files'[s].state = files[s].state
<1>1. /\ Last.state = state /\ Last.tests = tests /\ Last.current_test = current_test
      /\ OfPlan(tests) /\ files # <<>> /\ Len(files) \in Nat
  BY MemoryIsLast DEF Active
<1>2. /\ state' = state /\ plan' = plan
      /\ tests' = IF ok THEN ts ELSE tests
      /\ current_test' = IF ok THEN cur ELSE current_test
      /\ files' = IF ok THEN [files EXCEPT ![session_id] = Document(state, ts, cur)]
                  ELSE files
  BY DEF Commit
<1>3. /\ Last'.state = state /\ Last'.tests = tests' /\ Last'.current_test = current_test'
      /\ files' # <<>> /\ Len(files') = Len(files)
      /\ \A s \in 1..Len(files) : files'[s].state = files[s].state
  <2>1. CASE ok
    <3> DEFINE d == Document(state, ts, cur)
    <3>1. d.state = state /\ d.tests = ts /\ d.current_test = cur
      BY DEF Document
    <3>2. files' = [files EXCEPT ![session_id] = d]
      BY <1>2, <2>1
    <3> HIDE DEF d
    <3>3. Last' = d /\ Len(files') = Len(files) /\ files' # <<>>
          /\ \A s \in 1..Len(files) : s # Len(files) => files'[s] = files[s]
      BY <3>2, RewriteLast
    <3>4. files'[Len(files)].state = files[Len(files)].state
      BY <1>1, <3>1, <3>3 DEF Last
    <3> QED
      BY <1>2, <2>1, <3>1, <3>3, <3>4
  <2>2. CASE ~ok
    <3>1. files' = files
      BY <1>2, <2>2
    <3>2. Last' = Last
      BY <3>1 DEF Last
    <3> QED
      BY <1>1, <1>2, <2>2, <3>1, <3>2
  <2> QED
    BY <2>1, <2>2
<1>4. OfPlan(tests)' /\ InOrder(tests)'
  <2>1. CASE ok
    BY <1>2, <2>1 DEF OfPlan, InOrder
  <2>2. CASE ~ok
    <3>1. InOrder(tests)
      BY <1>1 DEF LastInOrder
    <3> QED
      BY <1>1, <1>2, <2>2, <3>1 DEF OfPlan, InOrder
  <2> QED
    BY <2>1, <2>2
<1>5. MemoryOfPlan'
  BY <1>2, <1>4 DEF MemoryOfPlan, OfPlan, Active
<1>6. LastInOrder'
  BY <1>3, <1>4 DEF LastInOrder, InOrder
<1>7. Active' /\ Recoverable'
  <2>1. Active'
    BY <1>2 DEF Active
  <2>2. Last'.state = "IN_PROGRESS" /\ OfPlan(Last.tests)'
    BY <1>3, <1>4 DEF Active, OfPlan
  <2> QED
    BY <1>3, <2>1, <2>2 DEF Recoverable, Last, OfPlan
<1> QED
  BY <1>2, <1>3, <1>5, <1>6, <1>7

(* finalize of tests of the plan: unless both writes succeed the session   *)
(* stays in progress.                                                      *)
LEMMA FinalizeEffect ==
  ASSUME IInv, MemoryOfPlan, Active, NEW written \in 0..2,
         NEW ts, OfPlan(ts), InOrder(ts), FinalizeWith(ts, written)
  PROVE  /\ MemoryOfPlan' /\ LastInOrder'
         /\ Active' <=> written <= 1
         /\ Recoverable' <=> written <= 1
         /\ state' # "NONE" /\ plan' = plan /\ tests' = ts
         /\ Last'.tests = ts
         /\ written <= 1 => Last'.current_test = current_test
         /\ Len(files') = Len(files)
         /\ \A s \in 1..Len(files) : files'[s].state # "ABANDONED"
                                       \/ files'[s].state = files[s].state
<1> DEFINE d == Document(state', ts, current_test')
<1>1. /\ plan' = plan /\ tests' = ts
      /\ state' = IF written > 1 THEN "COMPLETED" ELSE state
      /\ current_test' = IF written > 1 THEN NoTest ELSE current_test
      /\ files' = [files EXCEPT ![session_id] = d]
  BY DEF FinalizeWith
<1>2. d.state = state' /\ d.tests = ts /\ d.current_test = current_test'
  BY DEF Document
<1> HIDE DEF d
<1>3. Last' = d /\ Len(files') = Len(files) /\ files' # <<>>
      /\ \A s \in 1..Len(files) : s # Len(files) => files'[s] = files[s]
  BY <1>1, RewriteLast
<1>4. /\ state' = "IN_PROGRESS" <=> written <= 1
      /\ state' \in {"IN_PROGRESS", "COMPLETED"}
  BY <1>1 DEF Active
<1>5. OfPlan(ts)' /\ InOrder(ts)'
  BY <1>1 DEF OfPlan, InOrder
<1>6. MemoryOfPlan'
  BY <1>1, <1>4, <1>5 DEF MemoryOfPlan, OfPlan
<1>7. LastInOrder'
  BY <1>2, <1>3, <1>5 DEF LastInOrder, InOrder
<1>8. Active' <=> written <= 1
  BY <1>4 DEF Active
<1>9. Recoverable' <=> written <= 1
  <2>1. Last'.state = state' /\ Last'.tests = ts
    BY <1>2, <1>3
  <2>2. files' # <<>>
    BY <1>3
  <2> QED
    BY <1>4, <1>5, <2>1, <2>2 DEF Recoverable, Last, OfPlan
<1>10. files'[Len(files)].state = state'
  BY <1>2, <1>3 DEF Last
<1> QED
  BY <1>1, <1>2, <1>3, <1>4, <1>6, <1>7, <1>8, <1>9, <1>10

(* load_latest_recoverable: the last session, or none.  What was in memory *)
(* before is either what is loaded again, or gone.                         *)
LEMMA LoadEffect ==
  ASSUME IInv, MemoryOfPlan, LastInOrder, NEW readable \in BOOLEAN,
         LoadLatestRecoverable(readable)
  PROVE  /\ MemoryOfPlan' /\ LastInOrder'
         /\ plan' = plan /\ files' = files /\ results' = results /\ Last' = Last
         /\ Recoverable' <=> Recoverable
         /\ readable /\ Recoverable => Active' /\ tests' = Last.tests
         /\ ~(readable /\ Recoverable) => state' = "NONE"
         /\ state # "NONE" /\ session_id' = session_id => tests' = tests
<1>1. plan' = plan /\ files' = files /\ results' = results
  BY DEF LoadLatestRecoverable, disk
<1>2. Last' = Last /\ (Recoverable' <=> Recoverable)
  BY <1>1 DEF Last, Recoverable
<1>3. LastInOrder'
  BY <1>1, <1>2 DEF LastInOrder, InOrder
<1>4. CASE readable /\ Recoverable
  <2>1. /\ files # <<>> /\ state' = "IN_PROGRESS" /\ session_id' = Len(files)
        /\ tests' = Last.tests /\ OfPlan(Last.tests)
    BY <1>4, RecoverableIs DEF LoadLatestRecoverable, Last
  <2>2. MemoryOfPlan'
    BY <1>1, <2>1 DEF MemoryOfPlan, OfPlan
  <2>3. state # "NONE" => tests' = tests
    BY <2>1, MemoryIsLast
  <2> QED
    BY <1>1, <1>2, <1>3, <1>4, <2>1, <2>2, <2>3 DEF Active
<1>5. CASE ~(readable /\ Recoverable)
  <2>1. state' = "NONE" /\ tests' = <<>> /\ session_id' = 0
    BY <1>5 DEF LoadLatestRecoverable, Reset
  <2>2. MemoryOfPlan'
    BY <2>1 DEF MemoryOfPlan
  <2>3. state # "NONE" => session_id' # session_id
    BY <2>1, MemoryIsLast
  <2> QED
    BY <1>1, <1>2, <1>3, <1>5, <2>1, <2>2, <2>3
<1> QED
  BY <1>4, <1>5

(* start_new: a fresh session in which nothing is judged, or none at all.  *)
LEMMA StartEffect ==
  ASSUME IInv, MemoryOfPlan, LastInOrder, NEW ok \in BOOLEAN, StartNew(ok)
  PROVE  /\ MemoryOfPlan' /\ LastInOrder' /\ plan' = plan
         /\ session_id' # session_id \/ state = "NONE"
         /\ ok => /\ Active' /\ Recoverable'
                  /\ \A i \in 1..Len(plan) : ~Last'.tests[i].completed
         /\ ~ok => /\ state' = "NONE"
                   /\ Recoverable' => Recoverable /\ ~Active /\ Last' = Last
         /\ \A s \in 1..Len(files) :
              files'[s] # files[s] => Active /\ s = Len(files)
<1> DEFINE A == AfterAbandon
<1>1. /\ A \in Seq(Documents) /\ Len(A) = Len(files)
      /\ \A s \in 1..Len(files) :
           \/ A[s] = files[s]
           \/ /\ Active /\ s = session_id
              /\ A[s] = Document("ABANDONED", tests, NoTest)
  BY AfterAbandonFacts
<1>2. files \in Seq(Documents) /\ Len(files) \in Nat /\ session_id \in 0..Len(files)
  BY DEF IInv, TypeOK
<1>3. state # "NONE" => session_id = Len(files) /\ Len(files) > 0
  BY MemoryIsLast
<1>4. A = IF Active THEN [files EXCEPT ![session_id] = Document("ABANDONED", tests, NoTest)]
          ELSE files
  BY DEF AfterAbandon
<1>5. plan' = plan
  BY DEF StartNew
<1>6. PlansAssumption /\ Len(plan) \in Nat /\ Len(plan) > 0
  BY PlanFacts, PlansAssumption
<1> HIDE DEF A
<1>7. CASE ok
  <2> DEFINE f == FreshTests(plan)
             d == Document("IN_PROGRESS", f, NoTest)
  <2>1. /\ state' = "IN_PROGRESS" /\ session_id' = Len(files) + 1
        /\ tests' = f /\ files' = Append(A, d)
    BY <1>7 DEF StartNew, A
  <2>2. /\ Len(f) = Len(plan)
        /\ \A i \in 1..Len(plan) : f[i].id = plan[i] /\ ~f[i].completed
    BY <1>6 DEF FreshTests
  <2>3. d.state = "IN_PROGRESS" /\ d.tests = f
    BY DEF Document
  <2> HIDE DEF f, d
  <2>4. /\ Len(files') = Len(files) + 1 /\ files'[Len(files) + 1] = d
        /\ \A s \in 1..Len(files) : files'[s] = A[s]
    BY <1>1, <1>2, <2>1
  <2>5. Last' = d /\ files' # <<>>
    BY <1>2, <2>4 DEF Last
  <2>6. OfPlan(f)' /\ InOrder(f)'
    <3>1. InOrder(f)
      <4>1. 0 \in 0..Len(f) /\ \A i \in 1..Len(f) : f[i].completed <=> i <= 0
        BY <1>6, <2>2
      <4> QED
        BY <4>1 DEF InOrder
    <3>2. f' = f
      BY <1>5 DEF f
    <3> QED
      BY <1>5, <2>2, <3>1, <3>2 DEF OfPlan, InOrder
  <2>7. MemoryOfPlan' /\ Active'
    BY <1>5, <2>1, <2>2 DEF MemoryOfPlan, Active
  <2>8. LastInOrder'
    <3>1. f' = f
      BY <1>5 DEF f
    <3> QED
      BY <2>3, <2>5, <2>6, <3>1 DEF LastInOrder, InOrder
  <2>9. Recoverable'
    BY <1>5, <2>2, <2>3, <2>5 DEF Recoverable, Last
  <2>10. \A s \in 1..Len(files) : files'[s] # files[s] => Active /\ s = Len(files)
    BY <1>1, <1>3, <2>4 DEF Active
  <2>11. session_id' # session_id
    BY <1>2, <2>1
  <2> QED
    BY <1>5, <1>7, <2>2, <2>3, <2>5, <2>7, <2>8, <2>9, <2>10, <2>11
<1>8. CASE ~ok
  <2>1. state' = "NONE" /\ session_id' = 0 /\ tests' = <<>> /\ files' = A
    BY <1>8 DEF StartNew, Reset, A
  <2>2. MemoryOfPlan'
    BY <2>1 DEF MemoryOfPlan
  <2>3. \A s \in 1..Len(files) : files'[s] # files[s] => Active /\ s = Len(files)
    BY <1>1, <1>3, <2>1 DEF Active
  <2>4. CASE Active
    <3> DEFINE d == Document("ABANDONED", tests, NoTest)
    <3>1. files' = [files EXCEPT ![session_id] = d] /\ d.state = "ABANDONED" /\ d.tests = tests
      BY <1>4, <2>1, <2>4 DEF Document
    <3> HIDE DEF d
    <3>2. Last' = d /\ files' # <<>>
      BY <2>4, <3>1, RewriteLast
    <3>3. ~Recoverable'
      BY <3>1, <3>2 DEF Recoverable, Last
    <3>4. InOrder(tests)
      BY <2>4, MemoryIsLast DEF LastInOrder, Active
    <3>5. LastInOrder'
      BY <3>1, <3>2, <3>4 DEF LastInOrder, InOrder
    <3> QED
      BY <1>3, <1>5, <1>8, <2>1, <2>2, <2>3, <2>4, <3>3, <3>5 DEF Active
  <2>5. CASE ~Active
    <3>1. files' = files
      BY <1>4, <2>1, <2>5
    <3>2. Last' = Last /\ (Recoverable' <=> Recoverable)
      BY <1>5, <3>1 DEF Last, Recoverable
    <3>3. LastInOrder'
      BY <3>1, <3>2 DEF LastInOrder, InOrder
    <3> QED
      BY <1>2, <1>3, <1>5, <1>8, <2>1, <2>2, <2>3, <2>5, <3>2, <3>3
  <2> QED
    BY <2>4, <2>5
<1> QED
  BY <1>7, <1>8

(* A test of the session is opened.                                        *)
LEMMA OpenEffect ==
  ASSUME IInv, MemoryOfPlan, LastInOrder, NEW i, NEW ok \in BOOLEAN, SetCurrentTest(i, ok)
  PROVE  /\ MemoryOfPlan' /\ LastInOrder' /\ Active /\ Active' /\ Recoverable'
         /\ plan' = plan /\ tests' = tests /\ i \in 1..Len(plan)
         /\ Last'.tests = Last.tests /\ Last.tests = tests
         /\ ok => Last'.current_test = plan[i]
         /\ \A s \in 1..Len(files) : files'[s].state = files[s].state
<1>1. /\ Active /\ i \in 1..Len(tests) /\ Commit(ok, tests, tests[i].id)
      /\ UNCHANGED <<plan, state, session_id, results>>
  BY DEF SetCurrentTest
<1>2. /\ Last.tests = tests /\ OfPlan(tests) /\ files # <<>>
  BY <1>1, MemoryIsLast DEF Active
<1>3. InOrder(tests)
  BY <1>2 DEF LastInOrder
<1>4. i \in 1..Len(plan) /\ tests[i].id = plan[i]
  BY <1>1, <1>2 DEF OfPlan
<1>5. /\ MemoryOfPlan' /\ LastInOrder' /\ Active' /\ Recoverable'
      /\ Last'.tests = tests' /\ Last'.current_test = current_test'
      /\ tests' = tests
      /\ current_test' = IF ok THEN tests[i].id ELSE current_test
      /\ \A s \in 1..Len(files) : files'[s].state = files[s].state
  BY <1>1, <1>2, <1>3, CommitEffect
<1> QED
  BY <1>1, <1>2, <1>4, <1>5

(* A verdict is stored: for the last test of the plan the session is       *)
(* closed when all writes succeed.                                         *)
LEMMA CompleteEffect ==
  ASSUME IInv, MemoryOfPlan, LastInOrder, NEW i \in 1..Len(plan),
         \A j \in 1..Len(plan) : /\ j < i => tests[j].completed
                                 /\ j > i => ~tests[j].completed,
         NEW verdict \in Verdicts, NEW ok \in BOOLEAN, NEW written \in 0..2,
         CompleteTest(i, verdict, ok, written)
  PROVE  /\ MemoryOfPlan' /\ LastInOrder' /\ Active /\ plan' = plan
         /\ AllCompleted(Judged(i, verdict)) <=> i = Len(plan)
         /\ ok /\ i = Len(plan) /\ written > 1 => ~Active' /\ ~Recoverable' /\ state' # "NONE"
         /\ ~(ok /\ i = Len(plan) /\ written > 1) =>
              /\ Active' /\ Recoverable' /\ Last'.tests = tests'
              /\ Last'.current_test = Last.current_test
         /\ \A j \in 1..Len(plan) : j # i => tests'[j] = tests[j]
         /\ ok => tests'[i].completed
         /\ \A s \in 1..Len(files) : files'[s].state # "ABANDONED"
                                       \/ files'[s].state = files[s].state
<1> DEFINE js == Judged(i, verdict)
<1>1. Active /\ Len(tests) = Len(plan) /\ tests \in Seq(Records) /\ i \in 1..Len(tests)
  BY MemoryIsLast DEF CompleteTest, OfPlan, Active, IInv, TypeOK
<1>2. /\ Last.tests = tests /\ OfPlan(tests) /\ files # <<>>
      /\ Last.current_test = current_test /\ InOrder(tests)
  BY <1>1, MemoryIsLast DEF Active, LastInOrder
<1>3. /\ js \in Seq(Records) /\ Len(js) = Len(plan)
      /\ \A j \in 1..Len(plan) : /\ js[j].id = tests[j].id
                                 /\ js[j].completed <=> j = i \/ tests[j].completed
                                 /\ j # i => js[j] = tests[j]
  BY <1>1, JudgedFacts
<1> HIDE DEF js
<1>4. OfPlan(js)
  BY <1>2, <1>3 DEF OfPlan
<1>5. Len(plan) \in Nat
  BY <1>1
<1>6. \A j \in 1..Len(plan) : js[j].completed <=> j <= i
  BY <1>3, <1>5
<1>7. InOrder(js)
  <2>1. i \in 0..Len(js) /\ \A j \in 1..Len(js) : js[j].completed <=> j <= i
    BY <1>3, <1>5, <1>6
  <2> QED
    BY <2>1 DEF InOrder
<1>8. AllCompleted(js) <=> i = Len(plan)
  <2>1. DOMAIN js = 1..Len(plan)
    BY <1>3
  <2> QED
    BY <1>5, <1>6, <2>1 DEF AllCompleted
<1>9. CASE ok /\ i = Len(plan)
  <2>1. FinalizeWith(js, written)
    BY <1>8, <1>9 DEF CompleteTest, js
  <2>2. /\ MemoryOfPlan' /\ LastInOrder'
        /\ Active' <=> written <= 1
        /\ Recoverable' <=> written <= 1
        /\ state' # "NONE" /\ plan' = plan /\ tests' = js
        /\ Last'.tests = js
        /\ written <= 1 => Last'.current_test = current_test
        /\ \A s \in 1..Len(files) : files'[s].state # "ABANDONED"
                                      \/ files'[s].state = files[s].state
    BY <1>1, <1>4, <1>7, <2>1, FinalizeEffect
  <2>3. /\ \A j \in 1..Len(plan) : j # i => tests'[j] = tests[j]
        /\ tests'[i].completed
    BY <1>3, <2>2
  <2> QED
    BY <1>1, <1>2, <1>8, <1>9, <2>2, <2>3 DEF js
<1>10. CASE ~(ok /\ i = Len(plan))
  <2>1. /\ Commit(ok, js, current_test)
        /\ UNCHANGED <<plan, state, session_id, results>>
    BY <1>8, <1>10 DEF CompleteTest, js
  <2>2. /\ MemoryOfPlan' /\ LastInOrder' /\ Active' /\ Recoverable'
        /\ Last'.tests = tests' /\ Last'.current_test = current_test'
        /\ tests' = IF ok THEN js ELSE tests
        /\ current_test' = IF ok THEN current_test ELSE current_test
        /\ \A s \in 1..Len(files) : files'[s].state = files[s].state
    BY <1>1, <1>4, <1>7, <2>1, CommitEffect
  <2>3. /\ \A j \in 1..Len(plan) : j # i => tests'[j] = tests[j]
        /\ ok => tests'[i].completed
    BY <1>3, <2>2
  <2> QED
    BY <1>1, <1>2, <1>8, <1>10, <2>1, <2>2, <2>3 DEF js
<1> QED
  BY <1>9, <1>10

-----------------------------------------------------------------------------
(* Every handler is a step of the session manager, or none.                *)

(* What may fail does not, while nothing is faulty.                        *)
LEMMA FaultFacts ==
  /\ \A ok \in WriteOk : ok \in BOOLEAN
  /\ \A readable \in ReadOk : readable \in BOOLEAN
  /\ \A written \in Writes : written \in 0..2
  /\ ~faulty => /\ \A ok \in WriteOk : ok
                /\ \A readable \in ReadOk : readable
                /\ \A written \in Writes : written = 2
<1>1. CASE faulty
  <2>1. WriteOk = BOOLEAN /\ ReadOk = BOOLEAN /\ Writes = 0..2
    BY <1>1 DEF WriteOk, ReadOk, Writes
  <2> QED
    BY <1>1, <2>1
<1>2. CASE ~faulty
  <2>1. WriteOk = {TRUE} /\ ReadOk = {TRUE} /\ Writes = {2}
    BY <1>2 DEF WriteOk, ReadOk, Writes
  <2> QED
    BY <1>2, <2>1
<1> QED
  BY <1>1, <1>2

(* So whatever is kept by the session manager is kept by the screen.       *)
LEMMA HandlerIsSessionStep ==
  FNext => [Next]_vars
<1> SUFFICES ASSUME FNext PROVE [Next]_vars
  OBVIOUS
<1>1. CASE UNCHANGED vars
  BY <1>1
<1>2. ASSUME NEW readable \in ReadOk, SelectFullTest(readable) PROVE Next
  BY <1>2, FaultFacts DEF SelectFullTest, Next
<1>3. CASE StartRefused
  BY <1>3 DEF StartRefused, Next
<1>4. ASSUME NEW ok \in WriteOk, Start(ok) PROVE Next
  BY <1>4, FaultFacts DEF Start, Next
<1>5. ASSUME NEW ok \in WriteOk, OpenItem(ok) PROVE Next
  <2>1. SetCurrentTest(index, ok) /\ ok \in BOOLEAN
    BY <1>5, FaultFacts DEF OpenItem
  <2>2. index \in 1..Len(tests)
    BY <2>1 DEF SetCurrentTest
  <2> QED
    BY <2>1, <2>2 DEF Next, TestOperation
<1>6. ASSUME NEW written \in Writes, ResumeFinalize(written) PROVE Next
  BY <1>6, FaultFacts DEF ResumeFinalize, Next
<1>7. ASSUME NEW verdict \in Verdicts, NEW ok \in WriteOk, NEW written \in Writes,
             CompleteCurrentTest(verdict, ok, written)
      PROVE  Next
  <2>1. CompleteTest(index, verdict, ok, written) /\ ok \in BOOLEAN /\ written \in 0..2
    BY <1>7, FaultFacts DEF CompleteCurrentTest
  <2>2. index \in 1..Len(tests)
    BY <2>1 DEF CompleteTest
  <2> QED
    BY <2>1, <2>2 DEF Next, TestOperation
<1>8. CASE Restart
  BY <1>8 DEF Restart, Next
<1>9. CASE \/ RecoveryStartNew \/ RecoveryResume \/ RecoveryClose \/ ResumeTest
           \/ VerdictRefused \/ CompleteSingleTest \/ Back
           \/ OpenDialog \/ CancelDialog \/ Flush
           \/ \E t \in TestIds : OpenSingleTest(t)
  BY <1>1, <1>9 DEF RecoveryStartNew, RecoveryResume, RecoveryClose, ResumeTest,
     VerdictRefused, CompleteSingleTest, Back, OpenDialog, CancelDialog, Flush,
     OpenSingleTest
<1> QED
  BY <1>2, <1>3, <1>4, <1>5, <1>6, <1>7, <1>8, <1>9 DEF FNext, Handlers

-----------------------------------------------------------------------------
(* The handlers that leave the session alone.                              *)

(* They leave what depends on the session as it was.                       *)
LEMMA QuietFacts ==
  ASSUME GInv, UNCHANGED vars
  PROVE  /\ plan' = plan /\ state' = state /\ Last' = Last
         /\ Len(plan) \in Nat /\ Len(plan) > 0
         /\ Recoverable' <=> Recoverable
         /\ Active' <=> Active
         /\ IInv' /\ MemoryOfPlan' /\ LastInOrder'
BY NoSessionStep, PlanFacts DEF GInv

(* The recovery dialog: Start New.                                         *)
LEMMA RecoveryStartNewPreserves ==
  ASSUME GInv, RecoveryStartNew, UNCHANGED faulty
  PROVE  GInv'
<1> USE DEF RecoveryStartNew, Idle, screen
<1>1. UNCHANGED vars
  OBVIOUS
<1>2. /\ plan' = plan /\ state' = state /\ Last' = Last
      /\ Len(plan) \in Nat /\ Len(plan) > 0
      /\ Recoverable' <=> Recoverable
      /\ Active' <=> Active
      /\ IInv' /\ MemoryOfPlan' /\ LastInOrder'
  BY <1>1, QuietFacts
<1>4. FTypeOK'
  BY <1>2 DEF GInv, FTypeOK
<1>5. HandlersPlaced'
  BY <1>2, PagesAssumption DEF GInv, FTypeOK, HandlersPlaced, PagesPlaced
<1>6. PagesPlaced'
  BY <1>2, PagesAssumption DEF GInv, FTypeOK, HandlersPlaced, PagesPlaced
<1>7. SequenceStored'
  BY <1>2 DEF GInv, FTypeOK, HandlersPlaced, PagesPlaced, SequenceStored
<1>8. SequenceHasSession' /\ ChangePending'
  BY <1>2, PagesAssumption
  DEF GInv, FTypeOK, HandlersPlaced, PagesPlaced, SequenceHasSession, ChangePending
<1> QED
  BY <1>2, <1>4, <1>5, <1>6, <1>7, <1>8 DEF GInv

(* Resume.                                                                 *)
LEMMA RecoveryResumePreserves ==
  ASSUME GInv, RecoveryResume, UNCHANGED faulty
  PROVE  GInv'
<1> USE DEF RecoveryResume, Idle, screen
<1>1. UNCHANGED vars
  OBVIOUS
<1>2. /\ plan' = plan /\ state' = state /\ Last' = Last
      /\ Len(plan) \in Nat /\ Len(plan) > 0
      /\ Recoverable' <=> Recoverable
      /\ Active' <=> Active
      /\ IInv' /\ MemoryOfPlan' /\ LastInOrder'
  BY <1>1, QuietFacts
<1>4. FTypeOK'
  BY <1>2 DEF GInv, FTypeOK
<1>5. HandlersPlaced'
  BY <1>2, PagesAssumption DEF GInv, FTypeOK, HandlersPlaced, PagesPlaced
<1>6. PagesPlaced'
  BY <1>2, PagesAssumption DEF GInv, FTypeOK, HandlersPlaced, PagesPlaced
<1>7. SequenceStored'
  BY <1>2 DEF GInv, FTypeOK, HandlersPlaced, PagesPlaced, SequenceStored
<1>8. SequenceHasSession' /\ ChangePending'
  BY <1>2, PagesAssumption
  DEF GInv, FTypeOK, HandlersPlaced, PagesPlaced, SequenceHasSession, ChangePending
<1> QED
  BY <1>2, <1>4, <1>5, <1>6, <1>7, <1>8 DEF GInv

(* Close.                                                                  *)
LEMMA RecoveryClosePreserves ==
  ASSUME GInv, RecoveryClose, UNCHANGED faulty
  PROVE  GInv'
<1> USE DEF RecoveryClose, Idle, screen
<1>1. UNCHANGED vars
  OBVIOUS
<1>2. /\ plan' = plan /\ state' = state /\ Last' = Last
      /\ Len(plan) \in Nat /\ Len(plan) > 0
      /\ Recoverable' <=> Recoverable
      /\ Active' <=> Active
      /\ IInv' /\ MemoryOfPlan' /\ LastInOrder'
  BY <1>1, QuietFacts
<1>4. FTypeOK'
  BY <1>2 DEF GInv, FTypeOK
<1>5. HandlersPlaced'
  BY <1>2, PagesAssumption DEF GInv, FTypeOK, HandlersPlaced, PagesPlaced
<1>6. PagesPlaced'
  BY <1>2, PagesAssumption DEF GInv, FTypeOK, HandlersPlaced, PagesPlaced
<1>7. SequenceStored'
  BY <1>2 DEF GInv, FTypeOK, HandlersPlaced, PagesPlaced, SequenceStored
<1>8. SequenceHasSession' /\ ChangePending'
  BY <1>2, PagesAssumption
  DEF GInv, FTypeOK, HandlersPlaced, PagesPlaced, SequenceHasSession, ChangePending
<1> QED
  BY <1>2, <1>4, <1>5, <1>6, <1>7, <1>8 DEF GInv

(* A single test is opened while a page change may be pending.             *)
LEMMA OpenSingleTestPreserves ==
  ASSUME GInv, NEW t \in TestIds, OpenSingleTest(t), UNCHANGED faulty
  PROVE  GInv'
<1> USE DEF OpenSingleTest, ShowPage, Idle, screen
<1>1. UNCHANGED vars
  OBVIOUS
<1>2. /\ plan' = plan /\ state' = state /\ Last' = Last
      /\ Len(plan) \in Nat /\ Len(plan) > 0
      /\ Recoverable' <=> Recoverable
      /\ Active' <=> Active
      /\ IInv' /\ MemoryOfPlan' /\ LastInOrder'
  BY <1>1, QuietFacts
<1>4. FTypeOK'
  BY <1>2 DEF GInv, FTypeOK
<1>5. HandlersPlaced'
  BY <1>2, PagesAssumption DEF GInv, FTypeOK, HandlersPlaced, PagesPlaced
<1>6. PagesPlaced'
  BY <1>2, PagesAssumption DEF GInv, FTypeOK, HandlersPlaced, PagesPlaced
<1>7. SequenceStored'
  BY <1>2 DEF GInv, FTypeOK, HandlersPlaced, PagesPlaced, SequenceStored
<1>8. SequenceHasSession' /\ ChangePending'
  BY <1>2, PagesAssumption
  DEF GInv, FTypeOK, HandlersPlaced, PagesPlaced, SequenceHasSession, ChangePending
<1> QED
  BY <1>2, <1>4, <1>5, <1>6, <1>7, <1>8 DEF GInv

(* start_new is refused: the sequence is not started.                      *)
LEMMA StartRefusedPreserves ==
  ASSUME GInv, StartRefused, UNCHANGED faulty
  PROVE  GInv'
<1> USE DEF StartRefused, Idle, screen, StartNewRefused, view
<1>1. UNCHANGED vars
  OBVIOUS
<1>2. /\ plan' = plan /\ state' = state /\ Last' = Last
      /\ Len(plan) \in Nat /\ Len(plan) > 0
      /\ Recoverable' <=> Recoverable
      /\ Active' <=> Active
      /\ IInv' /\ MemoryOfPlan' /\ LastInOrder'
  BY <1>1, QuietFacts
<1>4. FTypeOK'
  BY <1>2 DEF GInv, FTypeOK
<1>5. HandlersPlaced'
  BY <1>2, PagesAssumption DEF GInv, FTypeOK, HandlersPlaced, PagesPlaced
<1>6. PagesPlaced'
  BY <1>2, PagesAssumption DEF GInv, FTypeOK, HandlersPlaced, PagesPlaced
<1>7. SequenceStored'
  BY <1>2 DEF GInv, FTypeOK, HandlersPlaced, PagesPlaced, SequenceStored
<1>8. SequenceHasSession' /\ ChangePending'
  BY <1>2, PagesAssumption
  DEF GInv, FTypeOK, HandlersPlaced, PagesPlaced, SequenceHasSession, ChangePending
<1> QED
  BY <1>2, <1>4, <1>5, <1>6, <1>7, <1>8 DEF GInv

(* The sequence goes on at the first test without a verdict.               *)
LEMMA ResumeTestPreserves ==
  ASSUME GInv, ResumeTest, UNCHANGED faulty
  PROVE  GInv'
<1> USE DEF ResumeTest, Idle, screen
<1>1. UNCHANGED vars
  OBVIOUS
<1>2. /\ plan' = plan /\ state' = state /\ Last' = Last
      /\ Len(plan) \in Nat /\ Len(plan) > 0
      /\ Recoverable' <=> Recoverable
      /\ Active' <=> Active
      /\ IInv' /\ MemoryOfPlan' /\ LastInOrder'
  BY <1>1, QuietFacts
<1>3. /\ index' \in 1..Len(plan) /\ ~Last.tests[index'].completed
      /\ \A i \in 1..Len(plan) : /\ i < index' => Last.tests[i].completed
                                 /\ i > index' => ~Last.tests[i].completed
  <2>1. /\ tests \in Seq(Records) /\ Last.tests = tests /\ files # <<>>
        /\ Len(tests) = Len(plan)
    BY MemoryIsLast DEF GInv, Active, IInv, TypeOK, OfPlan
  <2>2. InOrder(tests)
    BY <2>1 DEF GInv, LastInOrder
  <2> QED
    BY <2>1, <2>2, NextIncompleteFacts
<1>4. FTypeOK'
  BY <1>2, <1>3 DEF GInv, FTypeOK
<1>5. HandlersPlaced'
  BY <1>2, <1>3, PagesAssumption DEF GInv, FTypeOK, HandlersPlaced, PagesPlaced
<1>6. PagesPlaced'
  BY <1>2, <1>3, PagesAssumption DEF GInv, FTypeOK, HandlersPlaced, PagesPlaced, Active
<1>7. SequenceStored'
  BY <1>2, <1>3 DEF GInv, FTypeOK, HandlersPlaced, PagesPlaced, SequenceStored
<1>8. SequenceHasSession' /\ ChangePending'
  BY <1>2, PagesAssumption
  DEF GInv, FTypeOK, HandlersPlaced, PagesPlaced, SequenceHasSession, ChangePending
<1> QED
  BY <1>2, <1>4, <1>5, <1>6, <1>7, <1>8 DEF GInv

(* A verdict for a session that is gone.                                   *)
LEMMA VerdictRefusedPreserves ==
  ASSUME GInv, VerdictRefused, UNCHANGED faulty
  PROVE  GInv'
<1> USE DEF VerdictRefused, Idle, screen
<1>1. UNCHANGED vars
  OBVIOUS
<1>2. /\ plan' = plan /\ state' = state /\ Last' = Last
      /\ Len(plan) \in Nat /\ Len(plan) > 0
      /\ Recoverable' <=> Recoverable
      /\ Active' <=> Active
      /\ IInv' /\ MemoryOfPlan' /\ LastInOrder'
  BY <1>1, QuietFacts
<1>4. FTypeOK'
  BY <1>2 DEF GInv, FTypeOK
<1>5. HandlersPlaced'
  BY <1>2, PagesAssumption DEF GInv, FTypeOK, HandlersPlaced, PagesPlaced
<1>6. PagesPlaced'
  BY <1>2, PagesAssumption DEF GInv, FTypeOK, HandlersPlaced, PagesPlaced
<1>7. SequenceStored'
  BY <1>2 DEF GInv, FTypeOK, HandlersPlaced, PagesPlaced, SequenceStored
<1>8. SequenceHasSession' /\ ChangePending'
  BY <1>2, PagesAssumption
  DEF GInv, FTypeOK, HandlersPlaced, PagesPlaced, SequenceHasSession, ChangePending
<1> QED
  BY <1>2, <1>4, <1>5, <1>6, <1>7, <1>8 DEF GInv

(* The verdict of a single test.                                           *)
LEMMA CompleteSingleTestPreserves ==
  ASSUME GInv, CompleteSingleTest, UNCHANGED faulty
  PROVE  GInv'
<1> USE DEF CompleteSingleTest, ShowStartPage, ShowPage, Idle, screen
<1>1. UNCHANGED vars
  OBVIOUS
<1>2. /\ plan' = plan /\ state' = state /\ Last' = Last
      /\ Len(plan) \in Nat /\ Len(plan) > 0
      /\ Recoverable' <=> Recoverable
      /\ Active' <=> Active
      /\ IInv' /\ MemoryOfPlan' /\ LastInOrder'
  BY <1>1, QuietFacts
<1>4. FTypeOK'
  BY <1>2 DEF GInv, FTypeOK
<1>5. HandlersPlaced'
  BY <1>2, PagesAssumption DEF GInv, FTypeOK, HandlersPlaced, PagesPlaced
<1>6. PagesPlaced'
  BY <1>2, PagesAssumption DEF GInv, FTypeOK, HandlersPlaced, PagesPlaced
<1>7. SequenceStored'
  BY <1>2 DEF GInv, FTypeOK, HandlersPlaced, PagesPlaced, SequenceStored
<1>8. SequenceHasSession' /\ ChangePending'
  BY <1>2, PagesAssumption
  DEF GInv, FTypeOK, HandlersPlaced, PagesPlaced, SequenceHasSession, ChangePending
<1> QED
  BY <1>2, <1>4, <1>5, <1>6, <1>7, <1>8 DEF GInv

(* Back to the start page: no sequence runs on.                            *)
LEMMA BackPreserves ==
  ASSUME GInv, Back, UNCHANGED faulty
  PROVE  GInv'
<1> USE DEF Back, ShowStartPage, ShowPage, Idle, screen
<1>1. UNCHANGED vars
  OBVIOUS
<1>2. /\ plan' = plan /\ state' = state /\ Last' = Last
      /\ Len(plan) \in Nat /\ Len(plan) > 0
      /\ Recoverable' <=> Recoverable
      /\ Active' <=> Active
      /\ IInv' /\ MemoryOfPlan' /\ LastInOrder'
  BY <1>1, QuietFacts
<1>4. FTypeOK'
  BY <1>2 DEF GInv, FTypeOK
<1>5. HandlersPlaced'
  BY <1>2, PagesAssumption DEF GInv, FTypeOK, HandlersPlaced, PagesPlaced
<1>6. PagesPlaced'
  BY <1>2, PagesAssumption DEF GInv, FTypeOK, HandlersPlaced, PagesPlaced
<1>7. SequenceStored'
  BY <1>2 DEF GInv, FTypeOK, HandlersPlaced, PagesPlaced, SequenceStored
<1>8. SequenceHasSession' /\ ChangePending'
  BY <1>2, PagesAssumption
  DEF GInv, FTypeOK, HandlersPlaced, PagesPlaced, SequenceHasSession, ChangePending
<1> QED
  BY <1>2, <1>4, <1>5, <1>6, <1>7, <1>8 DEF GInv

(* The verdict dialog opens over a page at rest.                           *)
LEMMA OpenDialogPreserves ==
  ASSUME GInv, OpenDialog, UNCHANGED faulty
  PROVE  GInv'
<1> USE DEF OpenDialog, Idle, screen
<1>1. UNCHANGED vars
  OBVIOUS
<1>2. /\ plan' = plan /\ state' = state /\ Last' = Last
      /\ Len(plan) \in Nat /\ Len(plan) > 0
      /\ Recoverable' <=> Recoverable
      /\ Active' <=> Active
      /\ IInv' /\ MemoryOfPlan' /\ LastInOrder'
  BY <1>1, QuietFacts
<1>4. FTypeOK'
  BY <1>2 DEF GInv, FTypeOK
<1>5. HandlersPlaced'
  BY <1>2, PagesAssumption DEF GInv, FTypeOK, HandlersPlaced, PagesPlaced
<1>6. PagesPlaced'
  BY <1>2, PagesAssumption DEF GInv, FTypeOK, HandlersPlaced, PagesPlaced
<1>7. SequenceStored'
  BY <1>2 DEF GInv, FTypeOK, HandlersPlaced, PagesPlaced, SequenceStored
<1>8. SequenceHasSession' /\ ChangePending'
  BY <1>2, PagesAssumption
  DEF GInv, FTypeOK, HandlersPlaced, PagesPlaced, SequenceHasSession, ChangePending
<1> QED
  BY <1>2, <1>4, <1>5, <1>6, <1>7, <1>8 DEF GInv

(* It closes without a verdict.                                            *)
LEMMA CancelDialogPreserves ==
  ASSUME GInv, CancelDialog, UNCHANGED faulty
  PROVE  GInv'
<1> USE DEF CancelDialog, Idle, screen
<1>1. UNCHANGED vars
  OBVIOUS
<1>2. /\ plan' = plan /\ state' = state /\ Last' = Last
      /\ Len(plan) \in Nat /\ Len(plan) > 0
      /\ Recoverable' <=> Recoverable
      /\ Active' <=> Active
      /\ IInv' /\ MemoryOfPlan' /\ LastInOrder'
  BY <1>1, QuietFacts
<1>4. FTypeOK'
  BY <1>2 DEF GInv, FTypeOK
<1>5. HandlersPlaced'
  BY <1>2, PagesAssumption DEF GInv, FTypeOK, HandlersPlaced, PagesPlaced
<1>6. PagesPlaced'
  BY <1>2, PagesAssumption DEF GInv, FTypeOK, HandlersPlaced, PagesPlaced
<1>7. SequenceStored'
  BY <1>2 DEF GInv, FTypeOK, HandlersPlaced, PagesPlaced, SequenceStored
<1>8. SequenceHasSession' /\ ChangePending'
  BY <1>2, PagesAssumption
  DEF GInv, FTypeOK, HandlersPlaced, PagesPlaced, SequenceHasSession, ChangePending
<1> QED
  BY <1>2, <1>4, <1>5, <1>6, <1>7, <1>8 DEF GInv

(* The page that was requested is built, or it is there already.           *)
LEMMA FlushPreserves ==
  ASSUME GInv, Flush, UNCHANGED faulty
  PROVE  GInv'
<1> USE DEF Flush, Idle, screen
<1>1. UNCHANGED vars
  OBVIOUS
<1>2. /\ plan' = plan /\ state' = state /\ Last' = Last
      /\ Len(plan) \in Nat /\ Len(plan) > 0
      /\ Recoverable' <=> Recoverable
      /\ Active' <=> Active
      /\ IInv' /\ MemoryOfPlan' /\ LastInOrder'
  BY <1>1, QuietFacts
<1>3. seq_active /\ doing = "nothing" => page # "START"
  BY PlanFacts DEF GInv, FTypeOK, PagesPlaced
<1>4. FTypeOK'
  BY <1>2 DEF GInv, FTypeOK
<1>5. HandlersPlaced'
  BY <1>2, PagesAssumption DEF GInv, FTypeOK, HandlersPlaced, PagesPlaced
<1>6. PagesPlaced'
  BY <1>2, PagesAssumption DEF GInv, FTypeOK, HandlersPlaced, PagesPlaced
<1>7. SequenceStored'
  BY <1>2, <1>3 DEF GInv, FTypeOK, HandlersPlaced, PagesPlaced, SequenceStored
<1>8. SequenceHasSession' /\ ChangePending'
  BY <1>2, PagesAssumption
  DEF GInv, FTypeOK, HandlersPlaced, PagesPlaced, SequenceHasSession, ChangePending
<1> QED
  BY <1>2, <1>4, <1>5, <1>6, <1>7, <1>8 DEF GInv

-----------------------------------------------------------------------------
(* The handlers that call the session manager.                             *)

(* "Full Test": the session that is loaded is the one the sequence is in,  *)
(* or none, and then there is nothing to abandon.                          *)
LEMMA SelectFullTestPreserves ==
  ASSUME GInv, IInv', NEW readable \in ReadOk, SelectFullTest(readable), UNCHANGED faulty
  PROVE  GInv'
<1> USE DEF SelectFullTest, Idle, screen
<1>1. readable \in BOOLEAN /\ (~faulty => readable)
  BY FaultFacts
<1>2. /\ MemoryOfPlan' /\ LastInOrder'
      /\ plan' = plan /\ Last' = Last
      /\ Recoverable' <=> Recoverable
      /\ readable /\ Recoverable => Active'
      /\ ~(readable /\ Recoverable) => state' = "NONE"
  BY <1>1, LoadEffect DEF GInv
<1>3. Len(plan) \in Nat /\ Len(plan) > 0
  BY PlanFacts DEF GInv
<1>4. FTypeOK'
  BY <1>2, <1>3 DEF GInv, FTypeOK
<1>5. HandlersPlaced'
  BY <1>2, PagesAssumption DEF GInv, FTypeOK, HandlersPlaced, PagesPlaced
<1>6. PagesPlaced'
  BY <1>2, PagesAssumption DEF GInv, FTypeOK, HandlersPlaced, PagesPlaced, Active
<1>7. SequenceStored'
  BY <1>2, <1>3 DEF GInv, FTypeOK, HandlersPlaced, PagesPlaced, SequenceStored
<1>8. SequenceHasSession'
  <2>1. Active => Recoverable
    BY MemoryIsLast DEF GInv, Active
  <2> QED
    BY <1>1, <1>2, <2>1 DEF GInv, SequenceHasSession
<1>9. ChangePending'
  BY <1>2 DEF GInv, ChangePending
<1> QED
  BY <1>2, <1>4, <1>5, <1>6, <1>7, <1>8, <1>9 DEF GInv

(* A new session, from the menu or from the recovery dialog.               *)
LEMMA StartPreserves ==
  ASSUME GInv, IInv', NEW ok \in WriteOk, Start(ok), UNCHANGED faulty
  PROVE  GInv'
<1> USE DEF Start, Idle, screen
<1>1. ok \in BOOLEAN /\ (~faulty => ok)
  BY FaultFacts
<1>2. /\ MemoryOfPlan' /\ LastInOrder' /\ plan' = plan
      /\ ok => /\ Active' /\ Recoverable'
               /\ \A i \in 1..Len(plan) : ~Last'.tests[i].completed
      /\ ~ok => /\ state' = "NONE"
                /\ Recoverable' => Recoverable /\ ~Active /\ Last' = Last
  BY <1>1, StartEffect DEF GInv
<1>3. Len(plan) \in Nat /\ Len(plan) > 0
  BY PlanFacts DEF GInv
<1>4. FTypeOK'
  BY <1>1, <1>2, <1>3 DEF GInv, FTypeOK
<1>5. HandlersPlaced'
  BY <1>1, <1>2, <1>3, PagesAssumption DEF GInv, FTypeOK, HandlersPlaced, PagesPlaced
<1>6. PagesPlaced'
  BY <1>1, <1>2, <1>3, PagesAssumption
  DEF GInv, FTypeOK, HandlersPlaced, PagesPlaced, Active
<1>7. SequenceStored'
  BY <1>1, <1>2, <1>3 DEF GInv, FTypeOK, HandlersPlaced, PagesPlaced, SequenceStored
<1>8. SequenceHasSession' /\ ChangePending'
  BY <1>1, <1>2 DEF GInv, SequenceHasSession, ChangePending, HandlersPlaced
<1> QED
  BY <1>2, <1>4, <1>5, <1>6, <1>7, <1>8 DEF GInv

(* All tests were judged before the restart: the session is closed now.    *)
LEMMA ResumeFinalizePreserves ==
  ASSUME GInv, IInv', NEW written \in Writes, ResumeFinalize(written), UNCHANGED faulty
  PROVE  GInv'
<1> USE DEF ResumeFinalize, ShowPage, StayOnPage, Idle, screen
<1>1. written \in 0..2 /\ (~faulty => written = 2)
  BY FaultFacts
<1>2. /\ Active /\ FinalizeWith(tests, written)
      /\ Last.tests = tests /\ OfPlan(tests) /\ files # <<>> /\ Recoverable
      /\ tests \in Seq(Records)
  BY MemoryIsLast DEF GInv, Active, Finalize, IInv, TypeOK
<1>3. InOrder(tests) /\ Len(tests) = Len(plan)
  BY <1>2 DEF GInv, LastInOrder, OfPlan
<1>4. /\ MemoryOfPlan' /\ LastInOrder'
      /\ Active' <=> written <= 1
      /\ Recoverable' <=> written <= 1
      /\ plan' = plan
  BY <1>1, <1>2, <1>3, FinalizeEffect DEF GInv
<1>5. Len(plan) \in Nat /\ Len(plan) > 0
  BY PlanFacts DEF GInv
<1>6. \A i \in 1..Len(plan) : Last.tests[i].completed
  BY <1>2, <1>3, <1>5, NextIncompleteFacts
<1>7. ~seq_active
  BY <1>2, <1>5, <1>6 DEF GInv, FTypeOK, HandlersPlaced, PagesPlaced, SequenceStored
<1>8. index' \in 1..(Len(plan) + 1)
  BY <1>2, <1>3, NextIncompleteFacts
<1>9. FTypeOK'
  BY <1>1, <1>4, <1>5, <1>8 DEF GInv, FTypeOK
<1>10. HandlersPlaced'
  BY <1>1, <1>4, <1>5, PagesAssumption DEF GInv, FTypeOK, HandlersPlaced, PagesPlaced
<1>11. PagesPlaced'
  BY <1>1, <1>2, <1>4, <1>7, PagesAssumption
  DEF GInv, FTypeOK, HandlersPlaced, PagesPlaced
<1>12. SequenceStored' /\ SequenceHasSession' /\ ChangePending'
  BY <1>1, <1>4, <1>7, PagesAssumption
  DEF GInv, FTypeOK, SequenceStored, SequenceHasSession, ChangePending, HandlersPlaced
<1> QED
  BY <1>4, <1>9, <1>10, <1>11, <1>12 DEF GInv

(* The page of the test the session is at; without the write, no sequence. *)
LEMMA OpenItemPreserves ==
  ASSUME GInv, IInv', NEW ok \in WriteOk, OpenItem(ok), UNCHANGED faulty
  PROVE  GInv'
<1> USE DEF OpenItem, ShowPage, ShowStartPage, Idle, screen
<1>1. ok \in BOOLEAN /\ (~faulty => ok)
  BY FaultFacts
<1>2. /\ MemoryOfPlan' /\ LastInOrder' /\ Active /\ Active' /\ Recoverable'
      /\ plan' = plan /\ index \in 1..Len(plan)
      /\ Last'.tests = Last.tests
      /\ ok => Last'.current_test = plan[index]
  BY <1>1, OpenEffect DEF GInv
<1>3. /\ Len(plan) \in Nat /\ Len(plan) > 0
      /\ plan[index] \in TestIds /\ plan[index] # "START" /\ plan[index] # "RESULT"
  BY <1>2, PlanFacts DEF GInv
<1>4. Recoverable
  BY <1>2, MemoryIsLast DEF GInv, Active
<1>5. FTypeOK'
  BY <1>1, <1>2, <1>3 DEF GInv, FTypeOK
<1>6. HandlersPlaced'
  BY <1>1, <1>2, <1>3, PagesAssumption DEF GInv, FTypeOK, HandlersPlaced, PagesPlaced
<1>7. PagesPlaced'
  BY <1>1, <1>2, <1>3, PagesAssumption
  DEF GInv, FTypeOK, HandlersPlaced, PagesPlaced, Active
<1>8. SequenceStored'
  BY <1>1, <1>2, <1>3, <1>4 DEF GInv, FTypeOK, HandlersPlaced, SequenceStored
<1>9. SequenceHasSession' /\ ChangePending'
  BY <1>1, <1>2 DEF GInv, FTypeOK, HandlersPlaced, SequenceHasSession, ChangePending
<1> QED
  BY <1>2, <1>5, <1>6, <1>7, <1>8, <1>9 DEF GInv

(* Before a verdict the sequence is at its test, on display and on disk.   *)
LEMMA JudgingFacts ==
  ASSUME GInv, Idle, dialog = "open", seq_active, Active
  PROVE  /\ index \in 1..Len(plan) /\ loaded = plan[index] /\ page = plan[index]
         /\ Last.tests = tests /\ Recoverable
         /\ \A j \in 1..Len(plan) : /\ j < index => tests[j].completed
                                    /\ j > index => ~tests[j].completed
<1>1. Last.tests = tests /\ Recoverable
  BY MemoryIsLast DEF GInv, Active
<1>2. Len(plan) \in Nat
  BY PlanFacts DEF GInv
<1>3. index \in 1..Len(plan) /\ loaded = plan[index] /\ page = plan[index]
  BY <1>2 DEF GInv, FTypeOK, HandlersPlaced, PagesPlaced, Idle
<1> QED
  BY <1>1, <1>3 DEF GInv, SequenceStored

(* A verdict: the sequence goes on to the next test, or is over.           *)
LEMMA CompletePreserves ==
  ASSUME GInv, IInv', NEW verdict \in Verdicts, NEW ok \in WriteOk, NEW written \in Writes,
         CompleteCurrentTest(verdict, ok, written), UNCHANGED faulty
  PROVE  GInv'
<1> DEFINE last == index = Len(plan)
           done == ok /\ (last => written > 1)
<1>1. /\ ok \in BOOLEAN /\ written \in 0..2
      /\ ~faulty => ok /\ written = 2
  BY FaultFacts
<1>2. /\ Idle /\ dialog = "open" /\ seq_active
      /\ CompleteTest(index, verdict, ok, written)
      /\ dialog' = "triggered"
      /\ UNCHANGED <<loaded, recovery>>
  BY DEF CompleteCurrentTest
<1>3. Active
  BY <1>2 DEF CompleteTest
<1>4. /\ index \in 1..Len(plan) /\ loaded = plan[index] /\ page = plan[index]
      /\ Last.tests = tests /\ Recoverable
      /\ \A j \in 1..Len(plan) : /\ j < index => tests[j].completed
                                 /\ j > index => ~tests[j].completed
  BY <1>2, <1>3, JudgingFacts
<1>5. /\ MemoryOfPlan' /\ LastInOrder' /\ plan' = plan
      /\ AllCompleted(Judged(index, verdict)) <=> last
      /\ ok /\ last /\ written > 1 => ~Active' /\ ~Recoverable' /\ state' # "NONE"
      /\ ~(ok /\ last /\ written > 1) =>
           /\ Active' /\ Recoverable' /\ Last'.tests = tests'
           /\ Last'.current_test = Last.current_test
      /\ \A j \in 1..Len(plan) : j # index => tests'[j] = tests[j]
      /\ ok => tests'[index].completed
  BY <1>1, <1>2, <1>4, CompleteEffect DEF GInv
<1>6. /\ index' = IF done THEN index + 1 ELSE index
      /\ doing' = IF done /\ ~last THEN "opening" ELSE "nothing"
      /\ IF done /\ last
         THEN seq_active' = FALSE /\ ShowPage("RESULT")
         ELSE StayOnPage /\ UNCHANGED seq_active
  BY <1>5 DEF CompleteCurrentTest
<1>7. /\ Len(plan) \in Nat /\ Len(plan) > 0
      /\ plan[index] \in TestIds /\ plan[index] # "START" /\ plan[index] # "RESULT"
  BY <1>4, PlanFacts DEF GInv
<1>8. recovery' = FALSE /\ plan' = plan
  BY <1>2, <1>4, <1>5, <1>7 DEF GInv, FTypeOK, HandlersPlaced
<1>9. CASE done /\ last
  <2>1. /\ seq_active' = FALSE /\ index' = Len(plan) + 1 /\ doing' = "nothing"
        /\ page' = "RESULT" /\ nav' = FALSE /\ scheduled' = TRUE
        /\ ~Active' /\ ~Recoverable'
    BY <1>4, <1>5, <1>6, <1>9 DEF ShowPage
  <2>2. FTypeOK'
    <3>1. index' \in 1..(Len(plan') + 1)
      BY <1>7, <1>8, <2>1
    <3>2. page' \in {"START", "RESULT"} \cup TestIds
      BY <2>1
    <3> QED
      BY <1>2, <1>8, <2>1, <3>1, <3>2 DEF GInv, FTypeOK
  <2>3. HandlersPlaced' /\ PagesPlaced'
    BY <1>2, <1>4, <1>7, <1>8, <2>1 DEF HandlersPlaced, PagesPlaced, Idle
  <2>4. SequenceStored' /\ SequenceHasSession' /\ ChangePending'
    BY <1>2, <1>4, <1>7, <2>1 DEF SequenceStored, SequenceHasSession, ChangePending
  <2> QED
    BY <1>5, <2>2, <2>3, <2>4 DEF GInv
<1>10. CASE done /\ ~last
  <2>1. /\ seq_active' = TRUE /\ index' = index + 1 /\ doing' = "opening"
        /\ page' = page /\ nav' = nav /\ scheduled' = scheduled
        /\ Active' /\ Recoverable' /\ Last'.tests = tests' /\ ok
    BY <1>2, <1>5, <1>6, <1>10 DEF StayOnPage
  <2>2. index + 1 \in 1..Len(plan)
    BY <1>4, <1>7, <1>10
  <2>3. FTypeOK'
    BY <1>2, <1>7, <1>8, <2>1, <2>2 DEF GInv, FTypeOK
  <2>4. HandlersPlaced' /\ PagesPlaced'
    BY <1>2, <1>4, <1>5, <1>7, <1>8, <2>1, <2>2
    DEF GInv, HandlersPlaced, PagesPlaced, Idle, Active
  <2>5. SequenceStored'
    BY <1>4, <1>5, <1>7, <2>1, <2>2 DEF SequenceStored
  <2>6. SequenceHasSession' /\ ChangePending'
    BY <1>2, <2>1 DEF GInv, SequenceHasSession, ChangePending
  <2> QED
    BY <1>5, <2>3, <2>4, <2>5, <2>6 DEF GInv
<1>11. CASE ~done
  <2>1. /\ seq_active' = TRUE /\ index' = index /\ doing' = "nothing"
        /\ page' = page /\ nav' = nav /\ scheduled' = scheduled
        /\ Active' /\ Recoverable' /\ Last'.tests = tests'
        /\ Last'.current_test = Last.current_test /\ faulty
    <3>1. faulty
      BY <1>1, <1>11
    <3> QED
      BY <1>2, <1>5, <1>6, <1>11, <3>1 DEF StayOnPage
  <2>2. FTypeOK'
    BY <1>2, <1>4, <1>7, <1>8, <2>1 DEF GInv, FTypeOK
  <2>3. HandlersPlaced' /\ PagesPlaced'
    BY <1>2, <1>4, <1>5, <1>7, <1>8, <2>1
    DEF GInv, HandlersPlaced, PagesPlaced, Idle, Active
  <2>4. SequenceStored'
    BY <1>2, <1>4, <1>5, <1>7, <2>1 DEF GInv, SequenceStored, Idle
  <2>5. SequenceHasSession' /\ ChangePending'
    BY <2>1 DEF SequenceHasSession, ChangePending
  <2> QED
    BY <1>5, <2>2, <2>3, <2>4, <2>5 DEF GInv
<1> QED
  BY <1>9, <1>10, <1>11

(* The program starts again on the start page, without a session.          *)
LEMMA RestartPreserves ==
  ASSUME GInv, IInv', Restart, UNCHANGED faulty
  PROVE  GInv'
<1> USE DEF Restart, Idle
<1>1. state' = "NONE" /\ tests' = <<>> /\ files' = files
  BY DEF Crash, Reset, disk
<1>2. MemoryOfPlan' /\ LastInOrder'
  BY <1>1 DEF GInv, MemoryOfPlan, LastInOrder, Last, InOrder
<1>3. Len(plan') \in Nat /\ Len(plan') > 0
  BY PlansAssumption DEF Crash
<1>4. FTypeOK'
  <2>1. index' \in 1..(Len(plan') + 1)
    BY <1>3
  <2>2. /\ page' \in {"START", "RESULT"} \cup TestIds
        /\ loaded' \in {"NONE", "START", "RESULT"} \cup TestIds
        /\ dialog' \in {"none", "open", "triggered"}
        /\ doing' \in {"nothing", "starting", "replacing", "resuming", "opening"}
    OBVIOUS
  <2> QED
    BY <2>1, <2>2 DEF GInv, FTypeOK
<1>6. HandlersPlaced'
  BY <1>1 DEF HandlersPlaced
<1>5. PagesPlaced' /\ SequenceStored' /\ SequenceHasSession' /\ ChangePending'
  BY <1>1 DEF PagesPlaced, SequenceStored, SequenceHasSession, ChangePending
<1> QED
  BY <1>2, <1>4, <1>5, <1>6 DEF GInv

-----------------------------------------------------------------------------
(* The theorems.                                                           *)

(* The program starts with no full test on.                                *)
LEMMA FInitEstablishes ==
  FInit => GInv
<1> SUFFICES ASSUME FInit PROVE GInv
  OBVIOUS
<1>1. IInv
  BY InitEstablishes DEF FInit
<1>2. Len(plan) \in Nat /\ Len(plan) > 0
  BY <1>1, PlanFacts
<1>3. state = "NONE" /\ tests = <<>> /\ files = <<>>
  BY DEF FInit, Init
<1>4. FTypeOK
  <2>1. index \in 1..(Len(plan) + 1)
    BY <1>2 DEF FInit
  <2>2. /\ page \in {"START", "RESULT"} \cup TestIds
        /\ loaded \in {"NONE", "START", "RESULT"} \cup TestIds
        /\ dialog \in {"none", "open", "triggered"}
        /\ doing \in {"nothing", "starting", "replacing", "resuming", "opening"}
    BY DEF FInit
  <2> QED
    BY <2>1, <2>2 DEF FInit, FTypeOK
<1>5. MemoryOfPlan /\ LastInOrder /\ HandlersPlaced
  BY <1>3 DEF FInit, MemoryOfPlan, LastInOrder, HandlersPlaced
<1>6. PagesPlaced /\ SequenceStored /\ SequenceHasSession /\ ChangePending
  BY <1>3 DEF FInit, PagesPlaced, SequenceStored, SequenceHasSession, ChangePending
<1> QED
  BY <1>1, <1>4, <1>5, <1>6 DEF GInv

(* Every handler keeps it.                                                 *)
LEMMA FNextPreserves ==
  GInv /\ [FNext]_testvars => GInv'
<1>1. ASSUME GInv, FNext PROVE GInv'
  <2>1. IInv'
    BY <1>1, HandlerIsSessionStep, NextPreserves DEF GInv
  <2>2. UNCHANGED faulty /\ Handlers
    BY <1>1 DEF FNext
  <2>3. ASSUME NEW readable \in ReadOk, SelectFullTest(readable) PROVE GInv'
    BY <1>1, <2>1, <2>2, <2>3, SelectFullTestPreserves
  <2>4. ASSUME NEW ok \in WriteOk, Start(ok) \/ OpenItem(ok) PROVE GInv'
    BY <1>1, <2>1, <2>2, <2>4, StartPreserves, OpenItemPreserves
  <2>5. ASSUME NEW written \in Writes, ResumeFinalize(written) PROVE GInv'
    BY <1>1, <2>1, <2>2, <2>5, ResumeFinalizePreserves
  <2>6. ASSUME NEW verdict \in Verdicts, NEW ok \in WriteOk, NEW written \in Writes,
               CompleteCurrentTest(verdict, ok, written)
        PROVE  GInv'
    BY <1>1, <2>1, <2>2, <2>6, CompletePreserves
  <2>7. CASE RecoveryStartNew \/ RecoveryResume \/ RecoveryClose
    BY <1>1, <2>2, <2>7, RecoveryStartNewPreserves, RecoveryResumePreserves,
       RecoveryClosePreserves
  <2>8. CASE StartRefused \/ ResumeTest \/ VerdictRefused \/ CompleteSingleTest
    BY <1>1, <2>2, <2>8, StartRefusedPreserves, ResumeTestPreserves,
       VerdictRefusedPreserves, CompleteSingleTestPreserves
  <2>9. CASE Back \/ OpenDialog \/ CancelDialog \/ Flush
    BY <1>1, <2>2, <2>9, BackPreserves, OpenDialogPreserves, CancelDialogPreserves,
       FlushPreserves
  <2>10. ASSUME NEW t \in TestIds, OpenSingleTest(t) PROVE GInv'
    BY <1>1, <2>2, <2>10, OpenSingleTestPreserves
  <2>11. CASE Restart
    BY <1>1, <2>1, <2>2, <2>11, RestartPreserves
  <2> QED
    BY <2>2, <2>3, <2>4, <2>5, <2>6, <2>7, <2>8, <2>9, <2>10, <2>11 DEF Handlers
<1>2. ASSUME GInv, UNCHANGED testvars PROVE GInv'
  <2>1. UNCHANGED vars /\ UNCHANGED <<view, doing, faulty>>
    BY <1>2 DEF testvars
  <2>2. /\ plan' = plan /\ state' = state /\ Last' = Last
        /\ Recoverable' <=> Recoverable
        /\ Active' <=> Active
        /\ IInv' /\ MemoryOfPlan' /\ LastInOrder'
    BY <1>2, <2>1, QuietFacts
  <2>3. FTypeOK' /\ HandlersPlaced' /\ PagesPlaced'
    BY <1>2, <2>1, <2>2
    DEF GInv, FTypeOK, HandlersPlaced, PagesPlaced, Idle, view, screen
  <2>4. SequenceStored' /\ SequenceHasSession' /\ ChangePending'
    BY <1>2, <2>1, <2>2
    DEF GInv, SequenceStored, SequenceHasSession, ChangePending, view, screen
  <2> QED
    BY <2>2, <2>3, <2>4 DEF GInv
<1> QED
  BY <1>1, <1>2

(* What the page shows follows from where the sequence is.                 *)
LEMMA ScreenAgrees ==
  GInv => FInv
<1> SUFFICES ASSUME GInv PROVE FInv
  OBVIOUS
<1>1. Active => Recoverable /\ Last.tests = tests /\ Last.current_test = current_test
               /\ Len(tests) = Len(plan)
  BY MemoryIsLast DEF GInv, Active, OfPlan
<1>2. SequenceOnScreen
  BY <1>1 DEF GInv, SequenceOnScreen, SequenceStored, PagesPlaced, Idle
<1>3. NothingSkipped
  <2> SUFFICES ASSUME seq_active
               PROVE  \A i \in 1..Len(tests) : /\ i < index => tests[i].completed
                                               /\ i > index => ~tests[i].completed
    BY DEF NothingSkipped
  <2>1. CASE Active
    BY <1>1, <2>1 DEF GInv, SequenceStored
  <2>2. CASE ~Active
    <3>1. tests = <<>>
      BY <2>2 DEF GInv, PagesPlaced, MemoryOfPlan, Active
    <3> QED
      BY <3>1
  <2> QED
    BY <2>1, <2>2
<1>4. ResultPageOfCompleted
  <2> SUFFICES ASSUME loaded = "RESULT", state # "NONE"
               PROVE  state = "COMPLETED" /\ results[session_id] = ResultOf(tests)
    BY DEF ResultPageOfCompleted
  <2>1. state = "COMPLETED"
    BY DEF GInv, PagesPlaced, MemoryOfPlan, Active
  <2>2. /\ session_id \in 1..Len(files) /\ session_id = Len(files)
        /\ files[session_id].state = "COMPLETED" /\ files[session_id].tests = tests
    BY <2>1, MemoryIsLast DEF GInv, Last
  <2>3. results[session_id] = ResultOf(files[session_id].tests)
    BY <2>2 DEF GInv, IInv, CompletedHasResult
  <2> QED
    BY <2>1, <2>2, <2>3
<1>5. PageUsable
  BY DEF GInv, PageUsable, ChangePending, Idle
<1> QED
  BY <1>2, <1>3, <1>4, <1>5 DEF GInv, FInv

(* It holds in every state.                                                *)
LEMMA GInvThm == FSpec => []GInv
BY FInitEstablishes, FNextPreserves, PTL DEF FSpec

(* The page on display is that of the test whose verdict is asked for, the *)
(* plan is gone through without a gap, the result page shows a closed      *)
(* session, and a page at rest can be used: FInv, after any keys, failed   *)
(* writes and restarts.                                                    *)
THEOREM ScreenThm == FSpec => []FInv
BY GInvThm, ScreenAgrees, PTL

(* A verdict is stored for the test on display only.                       *)
THEOREM VerdictThm == FSpec => VerdictForDisplayedTest
<1> DEFINE A == \A i \in 1..Len(tests) :
                  (session_id' = session_id /\ tests'[i] # tests[i])
                    => loaded = tests[i].id /\ dialog = "open"
<1>1. ASSUME GInv, FNext PROVE A
  <2> SUFFICES ASSUME NEW i \in 1..Len(tests),
                      session_id' = session_id, tests'[i] # tests[i]
               PROVE  loaded = tests[i].id /\ dialog = "open"
    OBVIOUS
  <2>1. Handlers /\ tests \in Seq(Records) /\ state # "NONE"
    BY <1>1 DEF FNext, GInv, IInv, TypeOK, MemoryOfPlan
  <2>2. tests' # tests
    OBVIOUS
  <2>3. ASSUME NEW readable \in ReadOk, SelectFullTest(readable) PROVE FALSE
    BY <1>1, <2>1, <2>2, <2>3, FaultFacts, LoadEffect DEF SelectFullTest, GInv
  <2>4. ASSUME NEW ok \in WriteOk, Start(ok) PROVE FALSE
    BY <1>1, <2>1, <2>4, FaultFacts, StartEffect DEF Start, GInv
  <2>5. ASSUME NEW ok \in WriteOk, OpenItem(ok) PROVE FALSE
    BY <1>1, <2>2, <2>5, FaultFacts, OpenEffect DEF OpenItem, GInv
  <2>6. ASSUME NEW written \in Writes, ResumeFinalize(written) PROVE FALSE
    BY <2>2, <2>6 DEF ResumeFinalize, Finalize, FinalizeWith
  <2>7. ASSUME NEW verdict \in Verdicts, NEW ok \in WriteOk, NEW written \in Writes,
               CompleteCurrentTest(verdict, ok, written)
        PROVE  loaded = tests[i].id /\ dialog = "open"
    <3>1. /\ Idle /\ dialog = "open" /\ seq_active
          /\ CompleteTest(index, verdict, ok, written) /\ Active
          /\ ok \in BOOLEAN /\ written \in 0..2
      BY <2>7, FaultFacts DEF CompleteCurrentTest, CompleteTest
    <3>2. /\ index \in 1..Len(plan) /\ loaded = plan[index]
          /\ \A j \in 1..Len(plan) : /\ j < index => tests[j].completed
                                     /\ j > index => ~tests[j].completed
      BY <1>1, <3>1, JudgingFacts
    <3>3. \A j \in 1..Len(plan) : j # index => tests'[j] = tests[j]
      BY <1>1, <3>1, <3>2, CompleteEffect DEF GInv
    <3>4. OfPlan(tests)
      BY <1>1, <2>1, MemoryIsLast DEF GInv
    <3> QED
      BY <3>1, <3>2, <3>3, <3>4 DEF OfPlan
  <2>8. CASE Restart
    <3>1. session_id' = 0
      BY <2>8 DEF Restart, Crash, Reset
    <3> QED
      BY <1>1, <2>1, <3>1, MemoryIsLast DEF GInv
  <2>9. CASE tests' = tests
    BY <2>2, <2>9
  <2> QED
    BY <2>1, <2>3, <2>4, <2>5, <2>6, <2>7, <2>8, <2>9
    DEF Handlers, RecoveryStartNew, RecoveryResume, RecoveryClose, ResumeTest,
        VerdictRefused, CompleteSingleTest, Back, OpenDialog, CancelDialog, Flush,
        OpenSingleTest, StartRefused, StartNewRefused, vars, memory
<1>2. GInv /\ [FNext]_testvars => [A]_testvars
  BY <1>1
<1> QED
  BY <1>2, GInvThm, PTL DEF FSpec, VerdictForDisplayedTest

(* A session that can be resumed is only abandoned by Start New.           *)
THEOREM AbandonThm == FSpec => AbandonedOnRequest
<1> DEFINE A == \A s \in 1..Len(files) :
                  (files[s].state = "IN_PROGRESS" /\ files'[s].state = "ABANDONED")
                    => doing = "replacing" /\ Recoverable /\ s = Len(files)
<1>1. ASSUME GInv, FNext PROVE A
  <2> SUFFICES ASSUME NEW s \in 1..Len(files),
                      files[s].state = "IN_PROGRESS", files'[s].state = "ABANDONED"
               PROVE  doing = "replacing" /\ Recoverable /\ s = Len(files)
    OBVIOUS
  <2>1. Handlers
    BY <1>1 DEF FNext
  <2>2. files'[s].state # files[s].state
    OBVIOUS
  <2>3. ASSUME NEW ok \in WriteOk, Start(ok)
        PROVE  doing = "replacing" /\ Recoverable /\ s = Len(files)
    <3>1. Active /\ s = Len(files)
      BY <1>1, <2>2, <2>3, FaultFacts, StartEffect DEF Start, GInv
    <3>2. Recoverable
      BY <1>1, <3>1, MemoryIsLast DEF GInv, Active
    <3>3. doing # "starting"
      BY <1>1, <3>1 DEF GInv, HandlersPlaced, Active
    <3> QED
      BY <2>3, <3>1, <3>2, <3>3 DEF Start
  <2>4. ASSUME NEW ok \in WriteOk, OpenItem(ok) PROVE FALSE
    BY <1>1, <2>2, <2>4, FaultFacts, OpenEffect DEF OpenItem, GInv
  <2>5. ASSUME NEW written \in Writes, ResumeFinalize(written) PROVE FALSE
    <3>1. /\ Active /\ FinalizeWith(tests, written) /\ files # <<>>
          /\ Last.tests = tests /\ OfPlan(tests) /\ written \in 0..2
      BY <1>1, <2>5, FaultFacts, MemoryIsLast DEF ResumeFinalize, Finalize, GInv, Active
    <3>2. InOrder(tests)
      BY <1>1, <3>1 DEF GInv, LastInOrder
    <3> QED
      BY <1>1, <2>2, <3>1, <3>2, FinalizeEffect DEF GInv
  <2>6. ASSUME NEW verdict \in Verdicts, NEW ok \in WriteOk, NEW written \in Writes,
               CompleteCurrentTest(verdict, ok, written)
        PROVE  FALSE
    <3>1. /\ Idle /\ dialog = "open" /\ seq_active
          /\ CompleteTest(index, verdict, ok, written) /\ Active
          /\ ok \in BOOLEAN /\ written \in 0..2
      BY <2>6, FaultFacts DEF CompleteCurrentTest, CompleteTest
    <3>2. /\ index \in 1..Len(plan)
          /\ \A j \in 1..Len(plan) : /\ j < index => tests[j].completed
                                     /\ j > index => ~tests[j].completed
      BY <1>1, <3>1, JudgingFacts
    <3> QED
      BY <1>1, <2>2, <3>1, <3>2, CompleteEffect DEF GInv
  <2>7. CASE files' = files
    BY <2>2, <2>7
  <2> QED
    BY <2>1, <2>3, <2>4, <2>5, <2>6, <2>7
    DEF Handlers, RecoveryStartNew, RecoveryResume, RecoveryClose, ResumeTest,
        VerdictRefused, CompleteSingleTest, Back, OpenDialog, CancelDialog, Flush,
        OpenSingleTest, StartRefused, StartNewRefused, Restart, Crash, SelectFullTest,
        LoadLatestRecoverable, vars, disk
<1>2. GInv /\ [FNext]_testvars => [A]_testvars
  BY <1>1
<1> QED
  BY <1>2, GInvThm, PTL DEF FSpec, AbandonedOnRequest

(* The screens drive the session manager, whatever keys arrive, and do     *)
(* nothing else to it: what is proved of its sessions, their files and the *)
(* journal they keep is true of every full test.                           *)
THEOREM SessionThm == FSpec => Spec
<1>1. FInit => Init
  BY DEF FInit
<1>2. [FNext]_testvars => [Next]_vars
  BY HandlerIsSessionStep DEF testvars
<1> QED
  BY <1>1, <1>2, PTL DEF FSpec, Spec

=============================================================================
