---------------------------- MODULE IoPagesProofs ----------------------------
(***************************************************************************)
(* Proofs about the connectivity pages, for any worlds, tours, hosts and   *)
(* speeds.  The three parts of the invariant are about variables of their  *)
(* own and are kept one by one: the readings, the link test and the UART   *)
(* page share only which page is open and what the bus is switched to.     *)
(*                                                                         *)
(* The last part is about the services and the parser of the report.       *)
(***************************************************************************)
EXTENDS IoPages, Induction

-----------------------------------------------------------------------------
(* UartPage.                                                               *)

(* Its types.                                                              *)
Holds ==
  [action : {"NONE", "CLEAR_BUFFER", "BAUD_SETTINGS", "THEME_TOGGLE", "EXIT_UART"},
   key : HoldKeys \cup {"none"}, consumed : BOOLEAN]
SerialTyped ==
  /\ uart \in BOOLEAN /\ session \in BOOLEAN /\ status \in BOOLEAN /\ hold_popup \in BOOLEAN
  /\ baud \in 1 .. Rates /\ saved_baud \in 1 .. Rates /\ port_rate \in 0 .. Rates
  /\ pending \in Holds
(* Its invariant, with equivalences of formulas.                           *)
Fit ==
  /\ hold_popup <=> pending.action # "NONE" /\ ~pending.consumed
  /\ uart => (status <=> ~session)
  /\ ~uart => ~session /\ choice = 0
  /\ port_rate # 0 <=> session
  /\ input \in 0 .. MaxInput /\ choice \in 0 .. Rates
SerialKept == SerialTyped /\ Fit

(* It tells all that the run checks of the UART page.                      *)
LEMMA SerialFits ==
  ASSUME SerialKept PROVE SerialInv
<1>1. hold_popup = (pending.action # "NONE" /\ ~pending.consumed)
  BY DEF SerialKept, SerialTyped, Fit
<1>2. uart => status = ~session
  BY DEF SerialKept, SerialTyped, Fit
<1>3. (port_rate # 0) = session
  BY DEF SerialKept, SerialTyped, Fit
<1> QED BY <1>1, <1>2, <1>3 DEF SerialKept, Fit, SerialInv, Uart!UartInv

(* What the constants are to the page: the rates go around, the input is   *)
(* bounded.                                                                *)
LEMMA Speeds ==
  /\ Rates \in Nat /\ Rates > 0 /\ MaxInput \in Nat /\ MaxInput > 0
  /\ HoldKeys \subseteq {"r", "six", "t", "four", "esc"}
BY IoAssumption DEF Uart!UartAssumption

(* The way around the list stays in it.                                    *)
LEMMA Around ==
  ASSUME NEW c \in 1 .. Rates, NEW delta \in {Rates - 1, 1}
  PROVE  ((c - 1 + delta + Rates) % Rates) + 1 \in 1 .. Rates
<1>1. c - 1 + delta + Rates \in Nat /\ Rates \in Nat \ {0}
  BY Speeds
<1>2. \A n \in Nat : \A r \in Nat \ {0} : n % r \in 0 .. r - 1
  OBVIOUS
<1>3. (c - 1 + delta + Rates) % Rates \in 0 .. Rates - 1
  BY <1>1, <1>2
<1> QED BY <1>3, Speeds

(* The holds a key leaves behind: none, one that begins, one that is used. *)
LEMMA HoldsAre ==
  /\ Uart!NoHold \in Holds /\ Uart!NoHold.action = "NONE" /\ Uart!NoHold.consumed = FALSE
  /\ \A k \in HoldKeys : LET p == [action |-> Uart!HoldAction[k], key |-> k, consumed |-> FALSE]
                         IN p \in Holds /\ p.action # "NONE" /\ p.consumed = FALSE
  /\ \A p \in Holds : LET q == [p EXCEPT !.consumed = TRUE]
                      IN q \in Holds /\ q.action = p.action /\ q.consumed = TRUE
<1>1. Uart!NoHold \in Holds /\ Uart!NoHold.action = "NONE" /\ Uart!NoHold.consumed = FALSE
  BY DEF Uart!NoHold, Holds
<1>2. ASSUME NEW k \in HoldKeys
      PROVE  Uart!HoldAction[k] \in {"CLEAR_BUFFER", "BAUD_SETTINGS", "THEME_TOGGLE", "EXIT_UART"}
  BY <1>2, Speeds DEF Uart!HoldAction
<1>3. ASSUME NEW p \in Holds
      PROVE  LET q == [p EXCEPT !.consumed = TRUE]
             IN q \in Holds /\ q.action = p.action /\ q.consumed = TRUE
  BY <1>3 DEF Holds
<1> QED BY <1>1, <1>2, <1>3 DEF Holds

(* The session is opened or not, with the speed that is asked for.         *)
LEMMA SessionOpens ==
  ASSUME SerialKept, NEW rate \in 1 .. Rates, Uart!OpenSession(rate)
  PROVE  /\ session' \in BOOLEAN /\ status' \in BOOLEAN /\ (status' <=> ~session')
         /\ port_rate' \in 0 .. Rates /\ (port_rate' # 0 <=> session') /\ (session' => port_rate' = rate)
<1> USE Speeds DEF Uart!OpenSession, Uart!OpenOutcomes, Uart!ShowStatus
<1>1. PICK outcome \in {"occupied", "failed", "ok"} :
        /\ session' = (outcome = "ok") /\ port_rate' = IF outcome = "ok" THEN rate ELSE 0
        /\ status' = (outcome # "ok")
  OBVIOUS
<1>2. CASE outcome = "ok"
  <2>1. session' = TRUE /\ port_rate' = rate /\ status' = FALSE
    BY <1>1, <1>2
  <2> QED BY <2>1
<1>3. CASE outcome # "ok"
  <2>1. session' = FALSE /\ port_rate' = 0 /\ status' = TRUE
    BY <1>1, <1>3
  <2> QED BY <2>1
<1> QED BY <1>2, <1>3

(* A key of the page keeps what is pending and typed in their types.       *)
LEMMA KeyKeepsSerial ==
  ASSUME SerialKept,
         NEW k \in Uart!UartKeys,
         \/ Uart!Press(k) \/ Uart!PressInDialog(k) \/ Uart!Release(k) \/ Uart!Long(k)
  PROVE  SerialKept'
<1> USE Speeds, HoldsAre DEF SerialKept, SerialTyped, Fit, Uart!Typing
<1>1. CASE Uart!Press(k)
  <2>1. input' \in 0 .. MaxInput
    BY <1>1 DEF Uart!Press, Uart!Append1, Uart!UartKeys
  <2>2. CASE k \in HoldKeys
    <3>1. pending' \in Holds /\ pending'.action # "NONE" /\ pending'.consumed = FALSE
      BY <1>1, <2>2 DEF Uart!Press, Uart!BeginHold
    <3>2. hold_popup' = TRUE
      BY <1>1, <2>2 DEF Uart!Press, Uart!BeginHold
    <3> QED BY <1>1, <2>1, <3>1, <3>2 DEF Uart!Press
  <2>3. CASE k \notin HoldKeys
    BY <1>1, <2>1, <2>3 DEF Uart!Press
  <2> QED BY <2>2, <2>3
<1>2. CASE Uart!PressInDialog(k)
  BY <1>2 DEF Uart!PressInDialog
<1>3. CASE Uart!Release(k)
  <2>1. input' = input \/ input' = Uart!Append1
    BY <1>3 DEF Uart!Release
  <2>4. input' \in 0 .. MaxInput
    BY <2>1 DEF Uart!Append1
  <2>2. CASE Uart!PendingMatches(k)
    BY <1>3, <2>4, <2>2 DEF Uart!Release
  <2>3. CASE ~Uart!PendingMatches(k)
    BY <1>3, <2>4, <2>3 DEF Uart!Release
  <2> QED BY <2>2, <2>3
<1>4. CASE Uart!Long(k)
  <2>1. pending' \in Holds /\ pending'.consumed = TRUE /\ hold_popup' = FALSE
    BY <1>4 DEF Uart!Long, Uart!Consumed
  <2>2. input' \in 0 .. MaxInput /\ choice' \in 0 .. Rates
    BY <1>4 DEF Uart!Long, Uart!ShowConfigDialog
  <2> QED BY <1>4, <2>1, <2>2 DEF Uart!Long
<1> QED BY <1>1, <1>2, <1>3, <1>4

(* So do the dialog's keys and its speed.                                  *)
LEMMA DialogKeepsSerial ==
  ASSUME SerialKept,
         \/ \E delta \in {Rates - 1, 1} : Uart!Step(delta)
         \/ Uart!Cancel \/ Uart!Apply
  PROVE  SerialKept'
<1> USE Speeds DEF SerialKept, SerialTyped, Fit
<1>1. ASSUME NEW delta \in {Rates - 1, 1}, Uart!Step(delta) PROVE SerialKept'
  <2>1. choice \in 1 .. Rates
    BY <1>1 DEF Uart!Step
  <2>2. choice' \in 1 .. Rates
    BY <1>1, <2>1, Around DEF Uart!Step
  <2> QED BY <1>1, <2>2 DEF Uart!Step
<1>2. CASE Uart!Cancel
  BY <1>2 DEF Uart!Cancel
<1>3. CASE Uart!Apply
  <2>1. choice \in 1 .. Rates /\ baud' = choice /\ saved_baud' = choice
    BY <1>3 DEF Uart!Apply
  <2>2. CASE session
    BY <1>3, <2>1, <2>2 DEF Uart!Apply, Uart!SetBaudRate, Uart!Configure
  <2>3. CASE ~session
    <3>1. Uart!OpenSession(choice)
      BY <1>3, <2>3 DEF Uart!Apply
    <3> QED BY <1>3, <2>1, <3>1, SessionOpens DEF Uart!Apply
  <2> QED BY <2>2, <2>3
<1> QED BY <1>1, <1>2, <1>3

(* The invariant of the UART page holds of every step of the pages.        *)
LEMMA SerialStart ==
  ASSUME IoInit PROVE SerialKept
<1>1. pending \in Holds /\ pending.action = "NONE"
  BY HoldsAre DEF IoInit, Uart!UartInit
<1>2. uart = FALSE /\ session = FALSE /\ hold_popup = FALSE /\ port_rate = 0
      /\ choice = 0 /\ input = 0 /\ status = FALSE
  BY DEF IoInit, Uart!UartInit
<1>5. uart \in BOOLEAN /\ session \in BOOLEAN /\ status \in BOOLEAN /\ hold_popup \in BOOLEAN
  BY <1>2
<1>6. baud \in 1 .. Rates /\ saved_baud \in 1 .. Rates
  BY DEF IoInit, Uart!UartInit
<1>7. port_rate \in 0 .. Rates
  BY <1>2, Speeds
<1>3. SerialTyped
  BY <1>1, <1>5, <1>6, <1>7 DEF SerialTyped
<1>4. Fit
  BY <1>1, <1>2, Speeds DEF Fit
<1> QED BY <1>3, <1>4 DEF SerialKept

(* The page is built with the session's settings.                          *)
LEMMA SerialBuilt ==
  ASSUME SerialKept, Uart!Build PROVE SerialKept'
<1>1. Uart!OpenSession(saved_baud) /\ saved_baud \in 1 .. Rates
  BY DEF Uart!Build, SerialKept, SerialTyped
<1>2. /\ session' \in BOOLEAN /\ status' \in BOOLEAN /\ (status' <=> ~session')
      /\ port_rate' \in 0 .. Rates /\ (port_rate' # 0 <=> session')
  BY <1>1, SessionOpens
<1>3. pending' \in Holds /\ pending'.action = "NONE"
  BY HoldsAre DEF Uart!Build
<1>4. uart' = TRUE /\ hold_popup' = FALSE /\ choice' = 0 /\ input' = 0
  BY DEF Uart!Build
<1>5. SerialTyped'
  BY <1>2, <1>3, <1>4, Speeds DEF Uart!Build, SerialKept, SerialTyped
<1>6. Fit'
  BY <1>2, <1>3, <1>4, Speeds DEF Fit
<1> QED BY <1>5, <1>6 DEF SerialKept

(* The page is left: what it holds goes with it.                           *)
LEMMA SerialLeft ==
  ASSUME SerialKept, Uart!LeaveUart PROVE SerialKept'
<1>1. pending' \in Holds /\ pending'.action = "NONE"
  BY HoldsAre DEF Uart!LeaveUart
<1>2. uart' = FALSE /\ session' = FALSE /\ hold_popup' = FALSE /\ port_rate' = 0
      /\ choice' = 0 /\ input' = 0 /\ status' = FALSE
  BY DEF Uart!LeaveUart
<1>5. uart' \in BOOLEAN /\ session' \in BOOLEAN /\ status' \in BOOLEAN /\ hold_popup' \in BOOLEAN
  BY <1>2
<1>6. baud' \in 1 .. Rates /\ saved_baud' \in 1 .. Rates
  BY DEF Uart!LeaveUart, SerialKept, SerialTyped
<1>7. port_rate' \in 0 .. Rates
  BY <1>2, Speeds
<1>3. SerialTyped'
  BY <1>1, <1>5, <1>6, <1>7 DEF SerialTyped
<1>4. Fit'
  BY <1>1, <1>2, Speeds DEF Fit
<1> QED BY <1>3, <1>4 DEF SerialKept

(* What the steps of the pages are for the UART page.                      *)
LEMMA SerialSteps1 ==
  ASSUME [IoNext]_ioVars
  PROVE  \/ Uart!Build \/ Uart!LeaveUart \/ Uart!UartStep \/ UNCHANGED serial
BY DEF IoNext, OpenPage, ClosePage, Timer, LinkStep, UartStep, LinkReturns, ServiceReturns,
       TimePasses, ioVars

(* Every step keeps it, those of other pages too.                          *)
LEMMA SerialStays ==
  ASSUME SerialKept, [IoNext]_ioVars PROVE SerialKept'
<1>1. CASE Uart!Build
  BY <1>1, SerialBuilt
<1>2. CASE Uart!LeaveUart
  BY <1>2, SerialLeft
<1>3. CASE Uart!UartStep
  BY <1>3, KeyKeepsSerial, DialogKeepsSerial DEF Uart!UartStep
<1>4. CASE UNCHANGED serial
  BY <1>4 DEF serial, SerialKept, SerialTyped, Fit
<1> QED BY <1>1, <1>2, <1>3, <1>4, SerialSteps1

(* HeldIsNotTyped: ...                                                     *)
LEMMA KeyTypes ==
  ASSUME SerialKept, NEW k \in Uart!UartKeys,
         \/ Uart!Press(k) \/ Uart!PressInDialog(k) \/ Uart!Release(k) \/ Uart!Long(k)
  PROVE  /\ input' > input => input' = input + 1
         /\ pending.consumed /\ pending' = Uart!NoHold => input' <= input
<1> USE Speeds, HoldsAre DEF SerialKept, SerialTyped, Fit, Uart!Typing
<1>1. CASE Uart!Press(k)
  <2>1. CASE k \in HoldKeys
    <3>1. input' = input
      BY <1>1, <2>1 DEF Uart!Press
    <3> QED BY <3>1
  <2>2. CASE k \notin HoldKeys
    <3>1. pending' = pending
      BY <1>1, <2>2 DEF Uart!Press
    <3>2. ~(pending.consumed /\ pending' = Uart!NoHold)
      BY <3>1
    <3>3. input' > input => input' = input + 1
      BY <1>1, <2>2 DEF Uart!Press, Uart!Append1, Uart!UartKeys
    <3> QED BY <3>2, <3>3
  <2> QED BY <2>1, <2>2
<1>2. CASE Uart!PressInDialog(k)
  BY <1>2 DEF Uart!PressInDialog
<1>3. CASE Uart!Release(k)
  <2>1. input' = input \/ (input' = Uart!Append1 /\ ~pending.consumed)
    BY <1>3 DEF Uart!Release
  <2> QED BY <2>1 DEF Uart!Append1
<1>4. CASE Uart!Long(k)
  <2>1. input' = input \/ input' = 0
    BY <1>4 DEF Uart!Long
  <2> QED BY <2>1
<1> QED BY <1>1, <1>2, <1>3, <1>4

(* One input at a time, and none for a hold that was already used.         *)
LEMMA HoldsSteps ==
  ASSUME SerialKept, [IoNext]_ioVars
  PROVE  /\ input' > input => input' = input + 1
         /\ pending.consumed /\ pending' = Uart!NoHold => input' <= input
<1>1. input \in Nat
  BY Speeds DEF SerialKept, Fit
<1>2. CASE input' = 0
  BY <1>1, <1>2
<1>3. CASE input' = input
  BY <1>1, <1>3
<1>4. CASE \E k \in Uart!UartKeys :
             Uart!Press(k) \/ Uart!PressInDialog(k) \/ Uart!Release(k) \/ Uart!Long(k)
  BY <1>4, KeyTypes
<1>5. \/ input' = 0 \/ input' = input
      \/ \E k \in Uart!UartKeys :
           Uart!Press(k) \/ Uart!PressInDialog(k) \/ Uart!Release(k) \/ Uart!Long(k)
  <2>1. CASE Uart!Build
    BY <2>1 DEF Uart!Build
  <2>2. CASE Uart!LeaveUart
    BY <2>2 DEF Uart!LeaveUart
  <2>3. CASE Uart!UartStep
    BY <2>3 DEF Uart!UartStep, Uart!Step, Uart!Cancel, Uart!Apply
  <2>4. CASE UNCHANGED serial
    BY <2>4 DEF serial
  <2> QED BY <2>1, <2>2, <2>3, <2>4, SerialSteps1
<1> QED BY <1>2, <1>3, <1>4, <1>5

(* DifferenceIsTold. *)
LEMMA DifferenceSteps ==
  ASSUME SerialKept, [IoNext]_ioVars
  PROVE  session /\ session' /\ baud' # port_rate' /\ <<baud', port_rate'>> # <<baud, port_rate>>
           => told' = "failed"
<1> SUFFICES ASSUME session, session', baud' # port_rate',
                    <<baud', port_rate'>> # <<baud, port_rate>>
             PROVE  told' = "failed"
  OBVIOUS
<1>1. ~Uart!Build
  BY DEF SerialKept, Fit, Uart!Build
<1>2. ~Uart!LeaveUart
  BY DEF Uart!LeaveUart
<1>3. Uart!Apply
  BY <1>1, <1>2, SerialSteps1
     DEF Uart!UartStep, Uart!Press, Uart!PressInDialog, Uart!Release, Uart!Long, Uart!Typing,
         Uart!Step, Uart!Cancel, serial
<1> QED BY <1>3 DEF Uart!Apply, Uart!SetBaudRate, Uart!Configure

-----------------------------------------------------------------------------
(* LinkTest.                                                               *)

Ended == {"SUCCESS", "FAILED"}

(* What a test and a result are made of: metrics that are not those of a   *)
(* test that has ended are all the same.                                   *)
IsTest(x) ==
  /\ x = [phase |-> x.phase, host |-> x.host, own |-> x.own, metrics |-> x.metrics]
  /\ x.phase \in {"none", "running", "done"} /\ x.own \in BOOLEAN
  /\ x.phase = "done" => x.metrics.internet.status \in Ended
IsSnapshot(x) ==
  /\ x = [running |-> x.running, host |-> x.host, metrics |-> x.metrics, own |-> x.own]
  /\ x.running \in BOOLEAN /\ x.own \in BOOLEAN
  /\ x.metrics.internet.status = "IDLE" => x.metrics = Link!NoEvidence

(* The result on display is of the test; a test, and then its result, is   *)
(* of the attempt that did not inherit it, with the settings of the        *)
(* dialog.                                                                 *)
OneTest ==
  /\ IsTest(test) /\ IsSnapshot(snapshot)
  /\ snapshot.running <=> test.phase # "none"
OwnTest ==
  view # "gone" /\ ~inherits =>
    /\ test.phase # "none" => test.own /\ test.host = settings
    /\ test.phase = "none" /\ snapshot.metrics # Link!NoEvidence =>
         snapshot.own /\ snapshot.host = settings
Evidence ==
  view # "gone" /\ attempt # Link!NoEvidence =>
    /\ recorded /\ in_sequence /\ test.phase = "none"
    /\ attempt = snapshot.metrics
LinkKept ==
  /\ OneTest /\ OwnTest /\ Evidence
  /\ view # "gone" => drawn = snapshot
  /\ view \in {"gone", "open", "dialog"} /\ recorded \in BOOLEAN /\ in_sequence \in BOOLEAN

(* It tells all that the run checks of the link page.                      *)
LEMMA LinkFits ==
  ASSUME LinkKept PROVE LinkInv
<1>1. snapshot.running = (test.phase # "none")
  BY DEF LinkKept, OneTest, IsSnapshot
<1> QED BY <1>1 DEF LinkKept, OwnTest, Evidence, LinkInv, Link!EvidenceIsOneResult

(* The metrics that are all the same.                                      *)
LEMMA AllAre ==
  ASSUME NEW st PROVE Link!All(st).internet.status = st
BY DEF Link!All, Link!Metric

(* The page without evidence shows every metric idle.                      *)
LEMMA NoEvidenceIsIdle == Link!NoEvidence = Link!All("IDLE")
BY DEF Link!NoEvidence

(* A test that is started, with the settings it is given.                  *)
Started(host) ==
  /\ test' = [phase |-> "running", host |-> host, own |-> TRUE, metrics |-> Link!All("IDLE")]
  /\ snapshot' = [running |-> TRUE, host |-> host, metrics |-> Link!All("RUNNING"), own |-> TRUE]

(* It is one test, which is running, on the link it was started for.       *)
LEMMA StartedIsOne ==
  ASSUME NEW host, Started(host)
  PROVE  /\ OneTest' /\ test'.phase = "running" /\ snapshot'.running = TRUE
         /\ test'.own = TRUE /\ test'.host = host
<1>1. test'.phase = "running" /\ test'.own = TRUE /\ test'.host = host
  BY DEF Started
<1>2. IsTest(test')
  BY DEF Started, IsTest
<1>3. snapshot'.running = TRUE /\ snapshot'.own = TRUE
  BY DEF Started
<1>4. snapshot'.metrics.internet.status = "RUNNING"
  BY AllAre DEF Started
<1>5. IsSnapshot(snapshot')
  BY <1>3, <1>4 DEF Started, IsSnapshot
<1> QED BY <1>1, <1>2, <1>3, <1>5 DEF OneTest

(* refresh: a test is started, its answer is taken, or both stay.          *)
LEMMA Refreshing ==
  ASSUME OneTest, NEW force \in BOOLEAN, NEW new \in BOOLEAN, Link!RefreshLink(force, new)
  PROVE  \/ /\ Started(settings) /\ test.phase # "running"
            /\ force \/ (test.phase = "none" /\ snapshot.metrics = Link!NoEvidence)
         \/ /\ test.phase = "done" /\ ~force /\ test'.phase = "none" /\ snapshot'.running = FALSE
            /\ snapshot'.host = test.host /\ snapshot'.metrics = test.metrics
            /\ snapshot'.own = (test.own /\ ~new) /\ IsTest(test') /\ IsSnapshot(snapshot')
         \/ /\ test.phase # "done" /\ test'.phase = test.phase /\ test'.host = test.host
            /\ test'.own = (test.own /\ ~new) /\ test'.metrics = test.metrics
            /\ snapshot' = [snapshot EXCEPT !.own = @ /\ ~new]
            /\ IsTest(test') /\ IsSnapshot(snapshot')
            /\ test.phase = "none" => ~force /\ snapshot.metrics.internet.status # "IDLE"
<1>1. CASE Link!StartsTest(force)
  <2>1. Started(settings) /\ test.phase # "running"
    BY <1>1 DEF Link!RefreshLink, Started, Link!StartsTest
  <2>2. force \/ (test.phase = "none" /\ snapshot.metrics = Link!NoEvidence)
    <3>1. test.phase = "done" => Link!TakenSnapshot.metrics.internet.status # "IDLE"
      BY DEF Link!TakenSnapshot, OneTest, IsTest, Ended
    <3>2. test.phase # "done" => Link!TakenSnapshot = snapshot
      BY DEF Link!TakenSnapshot
    <3>3. test.phase # "running" /\ (force \/ Link!TakenSnapshot.metrics.internet.status = "IDLE")
      BY <1>1 DEF Link!StartsTest
    <3> QED BY <3>1, <3>2, <3>3 DEF OneTest, IsTest, IsSnapshot
  <2> QED BY <2>1, <2>2
<1>2. CASE ~Link!StartsTest(force) /\ test.phase = "done"
  <2>1. ~force
    BY <1>2 DEF Link!StartsTest
  <2>2. test' = [Link!NoTest EXCEPT !.own = @ /\ ~new]
    BY <1>2 DEF Link!RefreshLink
  <2>3. test'.phase = "none" /\ test'.own = FALSE /\ IsTest(test')
    BY <2>2 DEF Link!NoTest, IsTest
  <2>4. snapshot' = [[running |-> FALSE, host |-> test.host, metrics |-> test.metrics,
                      own |-> test.own] EXCEPT !.own = @ /\ ~new]
    BY <1>2 DEF Link!RefreshLink, Link!TakenSnapshot
  <2>5. /\ snapshot' = [running |-> FALSE, host |-> test.host, metrics |-> test.metrics,
                       own |-> (test.own /\ ~new)]
    BY <2>4
  <2>6. snapshot'.metrics.internet.status # "IDLE"
    BY <1>2, <2>5 DEF OneTest, IsTest, Ended
  <2>7. IsSnapshot(snapshot')
    BY <2>5, <2>6 DEF IsSnapshot
  <2> QED BY <1>2, <2>1, <2>3, <2>5, <2>7
<1>3. CASE ~Link!StartsTest(force) /\ test.phase # "done"
  <2>1. test' = [test EXCEPT !.own = @ /\ ~new]
    BY <1>3 DEF Link!RefreshLink
  <2>2. snapshot' = [snapshot EXCEPT !.own = @ /\ ~new]
    BY <1>3 DEF Link!RefreshLink, Link!TakenSnapshot
  <2>3. /\ test'.phase = test.phase /\ test'.host = test.host /\ test'.own = (test.own /\ ~new)
        /\ test'.metrics = test.metrics /\ IsTest(test')
    BY <2>1 DEF OneTest, IsTest
  <2>4. IsSnapshot(snapshot')
    BY <2>2 DEF OneTest, IsSnapshot
  <2>5. test.phase = "none" => ~force /\ snapshot.metrics.internet.status # "IDLE"
    BY <1>3 DEF Link!StartsTest, Link!TakenSnapshot
  <2> QED BY <1>3, <2>2, <2>3, <2>4, <2>5
<1> QED BY <1>1, <1>2, <1>3

(* A refresh, forced or not, leaves it one test.                           *)
LEMMA RefreshIsOne ==
  ASSUME OneTest, NEW force \in BOOLEAN, NEW new \in BOOLEAN, Link!RefreshLink(force, new)
  PROVE  OneTest'
<1>1. CASE Started(settings)
  BY <1>1, StartedIsOne
<1>2. CASE ~Started(settings)
  BY <1>2, Refreshing DEF OneTest, IsSnapshot
<1> QED BY <1>1, <1>2

(* record_evidence_: what it may do to the evidence.                       *)
LEMMA Recording ==
  ASSUME LinkKept, NEW begun \in BOOLEAN, Link!RecordEvidence(begun)
  PROVE  \/ /\ begun \/ ~recorded
            /\ ~snapshot'.running /\ in_sequence /\ recorded' = TRUE /\ attempt' = snapshot'.metrics
         \/ /\ ~begun /\ recorded' = recorded /\ attempt' = attempt
            /\ recorded \/ snapshot'.running \/ ~in_sequence
                 \/ snapshot'.metrics.internet.status = "IDLE"
         \/ begun /\ recorded' = FALSE /\ attempt' = Link!NoEvidence
<1> USE DEF Link!RecordEvidence, LinkKept
<1>1. CASE begun
  BY <1>1
<1>2. CASE ~begun
  BY <1>2
<1> QED BY <1>1, <1>2

(* The page opens: the attempt begins, and inherits whatever there is.     *)
LEMMA OpenKeepsLink ==
  ASSUME LinkKept, Link!OpenLink PROVE LinkKept'
<1>1. /\ view' = "open" /\ UNCHANGED <<in_sequence, settings>> /\ drawn' = snapshot'
      /\ inherits' = (test.phase # "none" \/ snapshot.metrics.internet.status # "IDLE")
      /\ Link!RefreshLink(FALSE, TRUE) /\ Link!RecordEvidence(TRUE)
  BY DEF Link!OpenLink, Link!RebuildLinkPanel
<1>2. OneTest'
  BY <1>1, RefreshIsOne DEF LinkKept
<1>3. OwnTest'
  <2> SUFFICES ASSUME ~inherits' PROVE (test'.own /\ test'.host = settings') /\ test'.phase = "running"
    BY DEF OwnTest
  <2>1. test.phase = "none" /\ snapshot.metrics.internet.status = "IDLE"
    BY <1>1
  <2>2. Started(settings)
    BY <1>1, <2>1, Refreshing DEF LinkKept
  <2> QED BY <1>1, <2>2, StartedIsOne
<1>4. recorded' \in BOOLEAN /\ Evidence'
  BY <1>1, <1>2, Recording DEF Evidence, OneTest, IsTest, IsSnapshot
<1> QED BY <1>1, <1>2, <1>3, <1>4 DEF LinkKept

(* The timer.                                                              *)
LEMMA PollKeepsLink ==
  ASSUME LinkKept, Link!PollLink PROVE LinkKept'
<1>1. /\ view = "open" /\ UNCHANGED <<view, in_sequence, settings, inherits>> /\ drawn' = snapshot'
      /\ Link!RefreshLink(FALSE, FALSE) /\ Link!RecordEvidence(FALSE)
  BY DEF Link!PollLink, Link!RebuildLinkPanel
<1>2. OneTest'
  BY <1>1, RefreshIsOne DEF LinkKept
<1>3. CASE Started(settings) /\ test.phase # "running"
  <2>1. snapshot'.running = TRUE /\ test'.own = TRUE /\ test'.host = settings /\ test'.phase = "running"
    BY <1>3, StartedIsOne
  <2>2. OwnTest'
    BY <1>1, <2>1 DEF OwnTest
  <2>3. test.phase = "done" \/ (test.phase = "none" /\ snapshot.metrics = Link!NoEvidence)
    BY <1>1, <1>3, <2>1, Refreshing DEF LinkKept, OneTest, IsTest
  <2>4. attempt = Link!NoEvidence
    BY <1>1, <2>3 DEF LinkKept, Evidence
  <2>5. recorded' \in BOOLEAN /\ attempt' = Link!NoEvidence
    BY <1>1, <2>1, <2>4, Recording DEF LinkKept
  <2> QED BY <1>1, <1>2, <2>2, <2>5 DEF LinkKept, Evidence
<1>4. CASE test.phase = "done" /\ ~Started(settings)
  <2>1. /\ test'.phase = "none" /\ snapshot'.running = FALSE /\ snapshot'.host = test.host
        /\ snapshot'.metrics = test.metrics /\ snapshot'.own = test.own
    BY <1>1, <1>4, Refreshing DEF LinkKept, OneTest, IsTest
  <2>2. OwnTest'
    BY <1>1, <1>4, <2>1 DEF LinkKept, OwnTest
  <2>3. attempt = Link!NoEvidence
    BY <1>1, <1>4 DEF LinkKept, Evidence
  <2>4. recorded' \in BOOLEAN /\ Evidence'
    BY <1>1, <2>1, <2>3, Recording DEF LinkKept, Evidence
  <2> QED BY <1>1, <1>2, <2>2, <2>4 DEF LinkKept
<1>5. CASE test.phase = "running" \/ (test.phase = "none" /\ ~Started(settings))
  <2>1. /\ test'.phase = test.phase /\ test'.host = test.host /\ test'.own = test.own
        /\ snapshot' = [snapshot EXCEPT !.own = @ /\ ~FALSE]
    BY <1>1, <1>5, Refreshing DEF LinkKept, OneTest, IsTest
  <2>2. snapshot' = snapshot
    BY <2>1 DEF LinkKept, OneTest, IsSnapshot
  <2>3. OwnTest'
    BY <1>1, <2>1, <2>2 DEF LinkKept, OwnTest
  <2>4. recorded' \in BOOLEAN /\ Evidence'
    BY <1>1, <2>1, <2>2, Recording DEF LinkKept, Evidence, OneTest
  <2> QED BY <1>1, <1>2, <2>3, <2>4 DEF LinkKept
<1> QED BY <1>3, <1>4, <1>5 DEF LinkKept, OneTest, IsTest

(* The user starts again.                                                  *)
LEMMA RestartKeepsLink ==
  ASSUME LinkKept, Link!Restart PROVE LinkKept'
<1>1. /\ view = "open" /\ UNCHANGED <<view, in_sequence, settings>> /\ drawn' = snapshot'
      /\ inherits' = (test.phase = "running") /\ recorded' = FALSE /\ attempt' = Link!NoEvidence
      /\ Link!RefreshLink(TRUE, TRUE)
  BY DEF Link!Restart, Link!RebuildLinkPanel
<1>2. OneTest'
  BY <1>1, RefreshIsOne DEF LinkKept
<1>3. OwnTest'
  <2> SUFFICES ASSUME ~inherits' PROVE (test'.own /\ test'.host = settings') /\ test'.phase = "running"
    BY DEF OwnTest
  <2>1. Started(settings)
    BY <1>1, Refreshing DEF LinkKept, OneTest, IsTest
  <2> QED BY <1>1, <2>1, StartedIsOne
<1>4. Evidence' /\ recorded' \in BOOLEAN
  BY <1>1 DEF Evidence
<1> QED BY <1>1, <1>2, <1>3, <1>4 DEF LinkKept

(* The dialog's settings are taken and the test starts again.              *)
LEMMA ApplyKeepsLink ==
  ASSUME LinkKept, Link!ApplyDialog PROVE LinkKept'
<1> DEFINE host == IF text = "" THEN DefaultHost ELSE text
<1>1. /\ view' = "open" /\ UNCHANGED in_sequence /\ drawn' = snapshot' /\ settings' = host
      /\ inherits' = (test.phase = "running") /\ recorded' = FALSE /\ attempt' = Link!NoEvidence
      /\ IF test.phase = "running"
         THEN /\ test' = [test EXCEPT !.own = FALSE]
              /\ snapshot' = [[snapshot EXCEPT !.host = host] EXCEPT !.own = FALSE]
         ELSE Started(host)
  BY DEF Link!ApplyDialog, Link!RebuildLinkPanel, Link!WithSettings, Started
<1> HIDE DEF host
<1>2. Evidence' /\ recorded' \in BOOLEAN
  BY <1>1 DEF Evidence
<1>3. CASE test.phase = "running"
  <2>1. test'.phase = "running" /\ IsTest(test')
    BY <1>1, <1>3 DEF LinkKept, OneTest, IsTest
  <2>2. IsSnapshot(snapshot') /\ snapshot'.running = snapshot.running
    BY <1>1, <1>3 DEF LinkKept, OneTest, IsSnapshot
  <2>3. OneTest'
    BY <1>3, <2>1, <2>2 DEF LinkKept, OneTest
  <2>4. OwnTest'
    BY <1>1, <1>3 DEF OwnTest
  <2> QED BY <1>1, <1>2, <2>3, <2>4 DEF LinkKept
<1>4. CASE test.phase # "running"
  <2>1. OneTest' /\ test'.own = TRUE /\ test'.host = host /\ test'.phase = "running"
    BY <1>1, <1>4, StartedIsOne
  <2>2. OwnTest'
    BY <1>1, <2>1 DEF OwnTest
  <2> QED BY <1>1, <1>2, <2>1, <2>2 DEF LinkKept
<1> QED BY <1>3, <1>4

(* The page is left, or its dialog opens, is edited or is left.            *)
LEMMA RestKeepsLink ==
  ASSUME LinkKept,
         Link!LeaveLink \/ Link!ShowDialog \/ Link!EditDialog \/ Link!CancelDialog
  PROVE  LinkKept'
<1>1. CASE Link!LeaveLink
  <2>1. UNCHANGED <<in_sequence, test, snapshot>> /\ view' = "gone" /\ recorded' = FALSE
    BY <1>1 DEF Link!LeaveLink
  <2> QED BY <2>1 DEF LinkKept, OneTest, OwnTest, Evidence
<1>2. CASE Link!ShowDialog \/ Link!EditDialog \/ Link!CancelDialog
  <2>1. /\ view # "gone" /\ view' \in {"open", "dialog"}
        /\ UNCHANGED <<in_sequence, test, snapshot, settings, drawn, recorded, attempt, inherits>>
    BY <1>2 DEF Link!ShowDialog, Link!EditDialog, Link!CancelDialog
  <2> QED BY <2>1 DEF LinkKept, OneTest, OwnTest, Evidence
<1> QED BY <1>1, <1>2

(* The test ends, whatever is open.                                        *)
LEMMA TestEnds ==
  ASSUME NEW w, NEW host PROVE Link!RunLinkTest(w, host).internet.status \in Ended
BY DEF Link!RunLinkTest, Link!RunInternetTest, Link!FailedMetric, Link!Metric, Ended

(* The page shows the evidence of its own test.                            *)
LEMMA FinishKeepsLink ==
  ASSUME LinkKept, Link!LinkFinish PROVE LinkKept'
<1>1. PICK w \in LinkSeen :
        test' = [test EXCEPT !.phase = "done", !.metrics = Link!RunLinkTest(w, test.host)]
  BY DEF Link!LinkFinish
<1>2. /\ test.phase = "running"
      /\ UNCHANGED <<view, in_sequence, snapshot, settings, drawn, recorded, attempt, inherits>>
  BY DEF Link!LinkFinish
<1>3. /\ test'.phase = "done" /\ test'.own = test.own /\ test'.host = test.host
      /\ test'.metrics.internet.status \in Ended
      /\ test' = [phase |-> test'.phase, host |-> test'.host, own |-> test'.own,
                  metrics |-> test'.metrics]
  BY <1>1, TestEnds DEF LinkKept, OneTest, IsTest
<1>4. OneTest'
  BY <1>2, <1>3 DEF LinkKept, OneTest, IsTest
<1>5. OwnTest' /\ Evidence'
  BY <1>2, <1>3 DEF LinkKept, OwnTest, Evidence
<1> QED BY <1>2, <1>4, <1>5 DEF LinkKept

(* No test was started yet.                                                *)
LEMMA LinkStart ==
  ASSUME IoInit PROVE LinkKept
<1>1. /\ view = "gone" /\ in_sequence \in BOOLEAN /\ test = Link!NoTest /\ recorded = FALSE
      /\ snapshot = [running |-> FALSE, host |-> DefaultHost, metrics |-> Link!All("IDLE"), own |-> FALSE]
  BY DEF IoInit, Link!LinkInit
<1>2. IsTest(test) /\ test.phase = "none"
  BY <1>1 DEF Link!NoTest, IsTest
<1>3. IsSnapshot(snapshot) /\ snapshot.running = FALSE
  BY <1>1, NoEvidenceIsIdle DEF IsSnapshot
<1> QED BY <1>1, <1>2, <1>3 DEF LinkKept, OneTest, OwnTest, Evidence

(* A step is one of the link page's, or leaves what it works with alone.   *)
LEMMA LinkMoves ==
  ASSUME [IoNext]_ioVars
  PROVE  \/ Link!OpenLink \/ Link!LeaveLink \/ Link!LinkStep \/ Link!LinkFinish \/ UNCHANGED link
BY DEF IoNext, OpenPage, ClosePage, Timer, LinkStep, UartStep, LinkReturns, ServiceReturns,
       TimePasses, ioVars, Link!LinkStep

(* Every step keeps it, those of other pages too.                          *)
LEMMA LinkStays ==
  ASSUME LinkKept, [IoNext]_ioVars PROVE LinkKept'
<1>1. CASE Link!OpenLink
  BY <1>1, OpenKeepsLink
<1>2. CASE Link!LinkStep \/ Link!LeaveLink
  BY <1>2, PollKeepsLink, RestartKeepsLink, ApplyKeepsLink, RestKeepsLink DEF Link!LinkStep
<1>3. CASE Link!LinkFinish
  BY <1>3, FinishKeepsLink
<1>4. CASE UNCHANGED link
  BY <1>4 DEF link, LinkKept, OneTest, OwnTest, Evidence
<1> QED BY <1>1, <1>2, <1>3, <1>4, LinkMoves

-----------------------------------------------------------------------------
(* A set of numbers has a least, which Min is.                             *)
LEMMA MinIsLeast ==
  ASSUME NEW T \in SUBSET Nat, T # {}
  PROVE  Min(T) \in T /\ \A x \in T : Min(T) <= x
BY Least DEF Min

-----------------------------------------------------------------------------
(* BusServices: the order of a list.                                       *)

(* A list of the elements of a set, each once, in the order of a rank.     *)
InOrder(s, T, rank) ==
  /\ s \in [1 .. Cardinality(T) -> T] /\ IsInjective(s)
  /\ \A i, j \in DOMAIN s : i < j => rank[s[i]] <= rank[s[j]]

(* An element is put into its place.                                       *)
LEMMA PutInOrder ==
  ASSUME NEW S, NEW rank \in [S -> Int], NEW T \in SUBSET S, IsFiniteSet(T),
         NEW s, InOrder(s, T, rank), NEW x \in S \ T
  PROVE  \E r : InOrder(r, T \cup {x}, rank)
<1> DEFINE n == Cardinality(T)
           Above == {i \in 1 .. n : rank[s[i]] > rank[x]} \cup {n + 1}
           k == Min(Above)
           r == [i \in 1 .. n + 1 |-> IF i < k THEN s[i] ELSE IF i = k THEN x ELSE s[i - 1]]
<1>1. n \in Nat /\ Cardinality(T \cup {x}) = n + 1
  BY FS_CardinalityType, FS_AddElement
<1>2. s \in [1 .. n -> T] /\ IsInjective(s)
  BY DEF InOrder
<1>3. \A i, j \in 1 .. n : i < j => rank[s[i]] <= rank[s[j]]
  BY <1>2 DEF InOrder
<1> HIDE DEF n
<1>4. k \in Above /\ \A i \in Above : k <= i
  BY <1>1, MinIsLeast
<1>5. k \in 1 .. n + 1
  BY <1>1, <1>4
<1>6. \A i \in 1 .. n : i < k => rank[s[i]] <= rank[x]
  BY <1>1, <1>2, <1>4, <1>5
<1>7. \A i \in 1 .. n : k <= i => rank[x] <= rank[s[i]]
  BY <1>1, <1>2, <1>3, <1>4, <1>5
<1> HIDE DEF k, Above
<1>8. r \in [1 .. n + 1 -> T \cup {x}]
  BY <1>1, <1>2, <1>5
<1>9. IsInjective(r)
  <2> SUFFICES ASSUME NEW i \in 1 .. n + 1, NEW j \in 1 .. n + 1, i < j PROVE r[i] # r[j]
    BY <1>1, <1>8 DEF IsInjective
  <2>1. \A a, b \in 1 .. n : s[a] = s[b] => a = b
    BY <1>2 DEF IsInjective
  <2>2. \A a \in 1 .. n : s[a] # x
    BY <1>2
  <2> QED BY <1>1, <1>5, <2>1, <2>2
<1>10. ASSUME NEW i \in 1 .. n + 1, NEW j \in 1 .. n + 1, i < j PROVE rank[r[i]] <= rank[r[j]]
  <2>1. CASE j < k
    BY <1>1, <1>3, <1>5, <1>10, <2>1
  <2>2. CASE j = k
    BY <1>1, <1>6, <1>5, <1>10, <2>2
  <2>3. CASE k < j /\ i < k
    <3>1. r[i] = s[i] /\ r[j] = s[j - 1] /\ i \in 1 .. n /\ j - 1 \in 1 .. n /\ (i < j - 1 \/ i = j - 1)
      BY <1>1, <1>5, <1>10, <2>3
    <3>2. rank[s[i]] \in Int
      BY <1>2, <3>1
    <3> QED BY <1>3, <3>1, <3>2
  <2>4. CASE k < j /\ i = k
    BY <1>1, <1>7, <1>5, <1>10, <2>4
  <2>5. CASE k < j /\ k < i
    BY <1>1, <1>3, <1>5, <1>10, <2>5
  <2> QED BY <1>1, <1>5, <2>1, <2>2, <2>3, <2>4, <2>5
<1> HIDE DEF r
<1>11. DOMAIN r = 1 .. n + 1
  BY <1>8
<1> QED BY <1>1, <1>8, <1>9, <1>10, <1>11 DEF InOrder

(* So the elements of a finite set can be listed in the order of a rank.   *)
LEMMA CanBeOrdered ==
  ASSUME NEW S, IsFiniteSet(S), NEW rank \in [S -> Int]
  PROVE  \E s : InOrder(s, S, rank)
<1> DEFINE G == {T \in SUBSET S : \E s : InOrder(s, T, rank)}
<1>1. {} \in G
  <2>1. Cardinality({}) = 0
    BY FS_EmptySet
  <2>2. InOrder(<<>>, {}, rank)
    BY <2>1 DEF InOrder, IsInjective
  <2> QED BY <2>2
<1>2. ASSUME NEW T \in G, NEW x \in S \ T PROVE T \cup {x} \in G
  <2>1. IsFiniteSet(T)
    BY FS_Subset
  <2>2. PICK s : InOrder(s, T, rank)
    OBVIOUS
  <2> QED BY <2>1, <2>2, PutInOrder
<1>3. G \in SUBSET (SUBSET S)
  OBVIOUS
<1> HIDE DEF G
<1>4. S \in G
  BY <1>1, <1>2, <1>3, ByParts
<1> QED BY <1>4 DEF G

(* wireless_result_sort_less: everything once, the strongest first.        *)
LEMMA Strongest ==
  ASSUME NEW S, IsFiniteSet(S), \A e \in S : e.strength \in Int
  PROVE  LET s == StrongestFirst(S)
         IN /\ s \in [1 .. Cardinality(S) -> S] /\ IsInjective(s)
            /\ \A i, j \in DOMAIN s : i < j => s[i].strength >= s[j].strength
<1> DEFINE rank == [e \in S |-> 0 - e.strength]
           s == StrongestFirst(S)
<1>1. rank \in [S -> Int]
  OBVIOUS
<1>2. PICK r : InOrder(r, S, rank)
  BY <1>1, CanBeOrdered
<1>3. \A i, j \in DOMAIN r : i < j => 0 - r[i].strength <= 0 - r[j].strength
  BY <1>2 DEF InOrder
<1>4. /\ s \in [1 .. Cardinality(S) -> S] /\ IsInjective(s)
      /\ \A i, j \in DOMAIN s : i < j => 0 - s[i].strength <= 0 - s[j].strength
  BY <1>2, <1>3 DEF InOrder, StrongestFirst, Ascending
<1> HIDE DEF s
<1>5. \A i, j \in DOMAIN s : i < j => s[i].strength >= s[j].strength
  <2> SUFFICES ASSUME NEW i \in DOMAIN s, NEW j \in DOMAIN s, i < j
               PROVE  s[i].strength >= s[j].strength
    OBVIOUS
  <2>1. s[i] \in S /\ s[j] \in S
    BY <1>4
  <2>2. s[i].strength \in Int /\ s[j].strength \in Int
    BY <2>1
  <2> QED BY <1>4, <2>2
<1>6. s \in [1 .. Cardinality(S) -> S] /\ IsInjective(s)
  BY <1>4
<1> QED BY <1>5, <1>6 DEF s

(* A list of as many as there are, none of them twice, has them all.       *)
LEMMA AllListed ==
  ASSUME NEW S, IsFiniteSet(S), NEW s \in [1 .. Cardinality(S) -> S], IsInjective(s)
  PROVE  /\ s = <<>> <=> S = {}
         /\ s \in Seq(S) /\ Len(s) = Cardinality(S) /\ ToSet(s) = S
         /\ DOMAIN s = 1 .. Cardinality(S) /\ Cardinality(S) \in Nat
<1> DEFINE n == Cardinality(S)
<1>1. n \in Nat
  BY FS_CardinalityType
<1>2. s \in [1 .. n -> S] /\ IsInjective(s)
  OBVIOUS
<1>3. n = 0 <=> S = {}
  BY FS_EmptySet
<1>4. IsFiniteSet(1 .. n) /\ Cardinality(1 .. n) = n
  BY <1>1, FS_Interval
<1> HIDE DEF n
<1>5. s \in Seq(S) /\ Len(s) = n /\ DOMAIN s = 1 .. n
  BY <1>1, <1>2
<1>6. ASSUME NEW x \in S, x \notin ToSet(s) PROVE FALSE
  <2>1. IsFiniteSet(S \ {x}) /\ Cardinality(S \ {x}) = n - 1
    BY FS_RemoveElement DEF n
  <2>2. s \in [1 .. n -> S \ {x}]
    BY <1>2, <1>6 DEF ToSet
  <2>4. Cardinality(S \ {x}) < Cardinality(1 .. n)
    BY <1>1, <1>4, <2>1
  <2>3. \E a, b \in 1 .. n : a # b /\ s[a] = s[b]
    BY <1>4, <2>1, <2>2, <2>4, FS_PigeonHole
  <2> QED BY <1>2, <2>3 DEF IsInjective
<1>7. ToSet(s) = S
  BY <1>2, <1>6 DEF ToSet
<1>8. s = <<>> <=> S = {}
  BY <1>1, <1>3, <1>5
<1> QED BY <1>1, <1>5, <1>7, <1>8 DEF n

(* The list by strength is empty exactly when there is nothing.            *)
LEMMA StrongestHasAll ==
  ASSUME NEW S, IsFiniteSet(S), \A e \in S : e.strength \in Int
  PROVE  LET s == StrongestFirst(S)
         IN /\ s = <<>> <=> S = {}
            /\ s \in Seq(S) /\ ToSet(s) = S /\ IsInjective(s)
            /\ \A i, j \in DOMAIN s : i < j => s[i].strength >= s[j].strength
<1> DEFINE s == StrongestFirst(S)
<1>1. /\ s \in [1 .. Cardinality(S) -> S] /\ IsInjective(s)
      /\ \A i, j \in DOMAIN s : i < j => s[i].strength >= s[j].strength
  BY Strongest
<1> HIDE DEF s
<1>2. (s = <<>> <=> S = {}) /\ s \in Seq(S) /\ ToSet(s) = S
  BY <1>1, AllListed
<1> QED BY <1>1, <1>2 DEF s

-----------------------------------------------------------------------------
(* BusServices: an answer is never without a word.                         *)

(* A list of items and an error.                                           *)
IsReading(r) == r = Reading(r.items, r.error) /\ r.items \in Seq(ToSet(r.items))

(* An error alone is one.                                                  *)
LEMMA FailedIsReading ==
  ASSUME NEW e PROVE IsReading(Failed(e))
BY DEF IsReading, Failed, Reading

(* A list of so many things is one.                                        *)
LEMMA ListIsSeq ==
  ASSUME NEW n \in Nat, NEW f, f = [i \in 1 .. n |-> f[i]]
  PROVE  f \in Seq(ToSet(f)) /\ Len(f) = n /\ (f = <<>> <=> n = 0)
<1>1. DOMAIN f = 1 .. n /\ \A i \in 1 .. n : f[i] \in ToSet(f)
  BY DEF ToSet
<1>2. f \in [1 .. n -> ToSet(f)]
  BY <1>1
<1> QED BY <1>2

(* What has an item or an error is not the answer without a word.          *)
LEMMA Worded ==
  ASSUME NEW r, r.items # <<>> \/ r.error # "none"
  PROVE  r # Nothing
<1> SUFFICES ASSUME r = Nothing PROVE FALSE
  OBVIOUS
<1> QED BY DEF Nothing, Reading

(* An error that is there is told, and no error before it is.              *)
LEMMA ErrorIsTold ==
  ASSUME NEW errors, DOMAIN errors \subseteq Nat, NEW k \in DOMAIN errors, errors[k] # "none"
  PROVE  \E m \in DOMAIN errors :
           /\ FirstError(errors) = errors[m] /\ errors[m] # "none"
           /\ \A i \in DOMAIN errors : i < m => errors[i] = "none"
<1> DEFINE bad == {i \in DOMAIN errors : errors[i] # "none"}
           m == Min(bad)
<1>1. bad \in SUBSET Nat /\ bad # {}
  OBVIOUS
<1>2. FirstError(errors) = errors[m]
  BY <1>1 DEF FirstError
<1> HIDE DEF bad
<1>3. m \in bad /\ \A i \in bad : m <= i
  BY <1>1, MinIsLeast
<1> HIDE DEF m
<1>4. m \in DOMAIN errors /\ errors[m] # "none" /\ m \in Nat
  BY <1>1, <1>3 DEF bad
<1>5. \A i \in DOMAIN errors : errors[i] # "none" => m <= i /\ i \in Nat
  BY <1>3 DEF bad
<1>6. \A i \in DOMAIN errors : i < m => errors[i] = "none"
  BY <1>4, <1>5
<1> QED BY <1>2, <1>4, <1>6

(* scan_wifi: what the devices hear is finite.                             *)
LEMMA HeardIsFinite ==
  ASSUME NEW w, WifiShape(w) PROVE IsFiniteSet(Heard(w))
<1> DEFINE I == DOMAIN w.devices
           hears == [i \in I |-> {i} \X DOMAIN w.devices[i].points]
           lists == {hears[i] : i \in I}
<1>1. IsFiniteSet(I)
  BY FS_Interval DEF WifiShape, IsList
<1>2. hears \in Surjection(I, lists)
  BY DEF Surjection
<1>3. ASSUME NEW i \in I PROVE IsFiniteSet(hears[i])
  <2>1. IsFiniteSet({i})
    BY FS_Singleton
  <2>2. w.devices[i].points \in Seq(ToSet(w.devices[i].points))
    BY DEF WifiShape, IsList
  <2>3. IsFiniteSet(DOMAIN w.devices[i].points)
    BY <2>2, FS_Interval
  <2> QED BY <2>1, <2>3, FS_Product
<1>4. IsFiniteSet(lists)
  <2> HIDE DEF I, lists, hears
  <2> QED BY <1>1, <1>2, FS_Surjection
<1>5. \A l \in lists : IsFiniteSet(l)
  BY <1>3
<1>6. IsFiniteSet(UNION lists)
  <2> HIDE DEF lists
  <2> QED BY <1>4, <1>5, FS_UNION
<1>7. Heard(w) = UNION lists
  BY DEF Heard
<1> QED BY <1>6, <1>7

(* Every point that is heard has an item, the strongest first.             *)
LEMMA PointsListed ==
  ASSUME NEW w, WifiShape(w)
  PROVE  LET s == PointItems(w)
         IN /\ s \in Seq(ToSet(s)) /\ (s = <<>> <=> Heard(w) = {})
            /\ \E heard \in Bijection(DOMAIN s, Heard(w)) :
                 \A k \in DOMAIN s : s[k] = Point(w, heard[k])
            /\ \A j, k \in DOMAIN s : j < k => s[j].strength >= s[k].strength
<1> DEFINE S == Heard(w)
           n == Cardinality(S)
           rank == [h \in S |-> 0 - Point(w, h).strength]
           order == Ascending(S, LAMBDA h : 0 - Point(w, h).strength)
           s == PointItems(w)
<1>1. IsFiniteSet(S) /\ rank \in [S -> Int] /\ \A h \in S : Point(w, h).strength \in Int
  <2>1. \A h \in Heard(w) : Point(w, h).strength \in Int
    BY DEF WifiShape
  <2> QED BY <2>1, HeardIsFinite
<1>2. PICK r : InOrder(r, S, rank)
  BY <1>1, CanBeOrdered
<1>3. \A i, j \in DOMAIN r : i < j => 0 - Point(w, r[i]).strength <= 0 - Point(w, r[j]).strength
  BY <1>2 DEF InOrder
<1>4. /\ order \in [1 .. n -> S] /\ IsInjective(order)
      /\ \A i, j \in DOMAIN order :
           i < j => 0 - Point(w, order[i]).strength <= 0 - Point(w, order[j]).strength
  BY <1>2, <1>3 DEF InOrder, Ascending
<1>5. s = [k \in DOMAIN order |-> Point(w, order[k])]
  BY DEF PointItems
<1> HIDE DEF S, rank, order, s
<1>6. n \in Nat /\ DOMAIN order = 1 .. n /\ ToSet(order) = S /\ (order = <<>> <=> S = {})
  BY <1>1, <1>4, AllListed
<1> HIDE DEF n
<1>7. DOMAIN s = 1 .. n /\ \A k \in 1 .. n : s[k] = Point(w, order[k])
  BY <1>5, <1>6
<1>8. s = [k \in 1 .. n |-> s[k]]
  BY <1>5, <1>6
<1>9. s \in Seq(ToSet(s)) /\ (s = <<>> <=> n = 0)
  BY <1>6, <1>8, ListIsSeq
<1>10. n = 0 <=> S = {}
  BY <1>4, <1>6
<1>11. order \in Bijection(DOMAIN s, S)
  <2>1. \A h \in S : \E k \in 1 .. n : order[k] = h
    BY <1>6 DEF ToSet
  <2> QED BY <1>4, <1>7, <2>1 DEF Bijection, Injection, Surjection
<1>12. ASSUME NEW j \in DOMAIN s, NEW k \in DOMAIN s, j < k PROVE s[j].strength >= s[k].strength
  <2>1. j \in 1 .. n /\ k \in 1 .. n /\ order[j] \in S /\ order[k] \in S
    BY <1>4, <1>7
  <2>2. Point(w, order[j]).strength \in Int /\ Point(w, order[k]).strength \in Int
    BY <1>1, <2>1
  <2>3. 0 - Point(w, order[j]).strength <= 0 - Point(w, order[k]).strength
    BY <1>4, <1>6, <1>12, <2>1
  <2> QED BY <1>7, <2>1, <2>2, <2>3
<1> QED BY <1>7, <1>9, <1>10, <1>11, <1>12 DEF s, S

(* Every list of errors of the devices ends with one.                      *)
LEMMA ScanErrors ==
  ASSUME NEW w, WifiShape(w)
  PROVE  LET errors == [i \in DOMAIN w.devices |-> RequestWifiScan(w.devices[i])]
                         \o <<"no_access_point">>
             n == Len(w.devices)
         IN /\ n \in Nat /\ DOMAIN w.devices = 1 .. n /\ DOMAIN errors = 1 .. n + 1
            /\ \A i \in 1 .. n : errors[i] = RequestWifiScan(w.devices[i])
            /\ errors[n + 1] = "no_access_point"
<1> DEFINE n == Len(w.devices)
           first == [i \in 1 .. n |-> RequestWifiScan(w.devices[i])]
<1>1. n \in Nat /\ DOMAIN w.devices = 1 .. n
  BY DEF WifiShape, IsList
<1>2. first \in Seq({RequestWifiScan(w.devices[i]) : i \in 1 .. n}) /\ Len(first) = n
  BY <1>1
<1> HIDE DEF n
<1>3. \A i \in 1 .. n : first[i] = RequestWifiScan(w.devices[i])
  OBVIOUS
<1> HIDE DEF first
<1>4. LET errors == first \o <<"no_access_point">>
      IN DOMAIN errors = 1 .. n + 1 /\ (\A i \in 1 .. n : errors[i] = first[i])
         /\ errors[n + 1] = "no_access_point"
  BY <1>1, <1>2
<1> QED BY <1>1, <1>3, <1>4 DEF first, n

(* scan_wifi: a word about why there is no list, or an item for every      *)
(* point that a device hears.                                              *)
LEMMA WifiAnswers ==
  ASSUME NEW w, WifiShape(w) PROVE WifiTells(w, ScanWifi(w))
<1> DEFINE refusal == IF ~w.client THEN "no_NetworkManager" ELSE EnsureWifiEnabled(w)
           errors == [i \in DOMAIN w.devices |-> RequestWifiScan(w.devices[i])]
                       \o <<"no_access_point">>
           r == ScanWifi(w)
<1>1. /\ refusal = "none" => w.client /\ w.hardware
      /\ refusal # "none" => ~(w.client /\ w.hardware /\ w.enabled)
  BY DEF EnsureWifiEnabled
<1>2. CASE refusal # "none"
  <2>1. r = Failed(refusal)
    BY <1>2 DEF ScanWifi
  <2>2. r.items = <<>> /\ r.error # "none"
    BY <1>2, <2>1 DEF Failed, Reading
  <2> QED BY <1>1, <1>2, <2>2 DEF WifiTells
<1>3. CASE refusal = "none" /\ w.devices = <<>>
  <2>3. Heard(w) = {}
    BY <1>3 DEF Heard
  <2>1. r = Failed("no_device")
    BY <1>3, <2>3 DEF ScanWifi, ReadWifiAccessPoints
  <2>2. r.items = <<>> /\ r.error # "none"
    BY <2>1 DEF Failed, Reading
  <2> QED BY <1>3, <2>2 DEF WifiTells
<1>4. CASE refusal = "none" /\ w.devices # <<>> /\ Heard(w) # {}
  <2>1. r = Reading(PointItems(w), "none")
    BY <1>4 DEF ScanWifi, ReadWifiAccessPoints
  <2>2. r.items = PointItems(w)
    BY <2>1 DEF Reading
  <2>3. r.items # <<>>
    BY <1>4, <2>2, PointsListed
  <2> HIDE DEF r
  <2>4. /\ \E heard \in Bijection(DOMAIN r.items, Heard(w)) :
             \A k \in DOMAIN r.items : r.items[k] = Point(w, heard[k])
        /\ \A j, k \in DOMAIN r.items : j < k => r.items[j].strength >= r.items[k].strength
    BY <2>2, PointsListed
  <2>5. WifiTells(w, r)
    BY <1>1, <1>4, <2>3, <2>4 DEF WifiTells
  <2> QED BY <2>5 DEF r
<1>5. CASE refusal = "none" /\ w.devices # <<>> /\ Heard(w) = {}
  <2>1. r = Failed(FirstError(errors))
    BY <1>5 DEF ScanWifi, ReadWifiAccessPoints
  <2> DEFINE n == Len(w.devices)
  <2>2. /\ n \in Nat /\ DOMAIN w.devices = 1 .. n /\ DOMAIN errors = 1 .. n + 1
        /\ \A i \in 1 .. n : errors[i] = RequestWifiScan(w.devices[i])
        /\ errors[n + 1] = "no_access_point"
    BY ScanErrors
  <2> HIDE DEF errors, n
  <2>3. DOMAIN errors \subseteq Nat /\ n + 1 \in DOMAIN errors /\ errors[n + 1] # "none"
    BY <2>2
  <2>4. PICK m \in DOMAIN errors :
          /\ FirstError(errors) = errors[m] /\ errors[m] # "none"
          /\ \A i \in DOMAIN errors : i < m => errors[i] = "none"
    BY <2>3, ErrorIsTold
  <2>5. ASSUME NEW i \in 1 .. n
        PROVE  errors[i] = IF Answered(w.devices[i]) THEN "none"
                           ELSE IF w.devices[i].reply = "failed" THEN "scan_failed"
                           ELSE "scan_timed_out"
    BY <2>2 DEF RequestWifiScan, Answered
  <2>6. ScanWord(w, errors[m])
    <3>1. CASE m = n + 1
      <4>1. \A i \in 1 .. n : Answered(w.devices[i])
        BY <2>2, <2>4, <2>5, <3>1
      <4> QED BY <2>2, <3>1, <4>1 DEF ScanWord
    <3>2. CASE m # n + 1
      <4>1. m \in 1 .. n
        BY <2>2, <3>2
      <4>2. ~Answered(w.devices[m])
            /\ errors[m] = IF w.devices[m].reply = "failed" THEN "scan_failed" ELSE "scan_timed_out"
        BY <2>4, <2>5, <4>1
      <4>3. \A j \in 1 .. n : j < m => Answered(w.devices[j])
        BY <2>2, <2>4, <2>5
      <4> QED BY <2>2, <4>1, <4>2, <4>3 DEF ScanWord
    <3> QED BY <3>1, <3>2
  <2>7. r.items = <<>> /\ r.error = errors[m]
    BY <2>1, <2>4 DEF Failed, Reading
  <2> QED BY <1>5, <2>4, <2>6, <2>7 DEF WifiTells
<1> QED BY <1>2, <1>3, <1>4, <1>5

(* scan_bluetooth.                                                         *)
LEMMA BluetoothAnswers ==
  ASSUME NEW w
  PROVE  LET r == ScanBluetooth(w)
             all == IF w.again THEN w.found ELSE w.known
         IN \/ /\ r.items = <<>> /\ r.error # "none"
               /\ r.error = "no_device_found" => w.power /\ w.discovery
               /\ w.bus /\ w.managed /\ w.adapter => StrongestFirst(all) = <<>>
            \/ r.items = StrongestFirst(all) /\ r.items # <<>>
<1> DEFINE all == IF w.again THEN w.found ELSE w.known
           power == IF w.power THEN "none" ELSE "enable_Bluetooth"
           discovery == IF w.discovery /\ w.again THEN "none" ELSE "enable_Bluetooth"
           errors == <<power, discovery, "no_device_found">>
           r == ScanBluetooth(w)
<1>1. CASE ~w.bus \/ ~w.managed \/ ~w.adapter
  BY <1>1 DEF ScanBluetooth, Failed, Reading
<1>2. CASE w.bus /\ w.managed /\ w.adapter /\ StrongestFirst(all) # <<>>
  BY <1>2 DEF ScanBluetooth, BluezDevices, Reading
<1>3. CASE w.bus /\ w.managed /\ w.adapter /\ StrongestFirst(all) = <<>>
  <2>1. r = Failed(FirstError(errors))
    BY <1>3 DEF ScanBluetooth, BluezDevices
  <2>2. DOMAIN errors = 1 .. 3 /\ errors[1] = power /\ errors[2] = discovery
        /\ errors[3] = "no_device_found"
    OBVIOUS
  <2> HIDE DEF errors
  <2>6. DOMAIN errors \subseteq Nat /\ 3 \in DOMAIN errors /\ errors[3] # "none"
    BY <2>2
  <2>3. PICK m \in DOMAIN errors :
          /\ FirstError(errors) = errors[m] /\ errors[m] # "none"
          /\ \A i \in DOMAIN errors : i < m => errors[i] = "none"
    BY <2>6, ErrorIsTold
  <2>4. errors[m] = "no_device_found" => w.power /\ w.discovery
    BY <2>2, <2>3
  <2>5. r.items = <<>> /\ r.error = errors[m]
    BY <2>1, <2>3 DEF Failed, Reading
  <2> QED BY <1>3, <2>3, <2>4, <2>5
<1> QED BY <1>1, <1>2, <1>3

(* The others.                                                             *)
LEMMA EthernetAnswers ==
  ASSUME NEW w PROVE ReadEthernet(w) # Nothing /\ IsReading(ReadEthernet(w))
<1> DEFINE wired == {i \in DOMAIN w.devices : w.devices[i].wired}
           S == {i \in DOMAIN EthernetFields : EthernetFields[i] \in w.devices[Min(wired)].fields}
           known == Ascending(S, LAMBDA i : i)
           named == [k \in DOMAIN known |-> EthernetFields[known[k]]]
           r == Reading(named, IF known = <<>> THEN "no_information" ELSE "none")
<1>1. CASE ~w.client \/ wired = {}
  BY <1>1, FailedIsReading DEF ReadEthernet, Nothing, Failed, Reading
<1>2. CASE w.client /\ wired # {}
  <2>1. ReadEthernet(w) = r
    BY <1>2 DEF ReadEthernet
  <2>0. DOMAIN EthernetFields = 1 .. 5
    BY DEF EthernetFields
  <2>2. S \subseteq 1 .. 5
    BY <2>0, Zenon
  <2> HIDE DEF S
  <2>11. IsFiniteSet(1 .. 5)
    BY FS_Interval, 1 \in Int, 5 \in Int
  <2>3. IsFiniteSet(S)
    BY <2>2, <2>11, FS_Subset
  <2> DEFINE rank == [i \in S |-> i]
  <2>4. rank \in [S -> Int]
    BY <2>2
  <2>5. PICK o : InOrder(o, S, rank)
    BY <2>3, <2>4, CanBeOrdered
  <2>6. known \in [1 .. Cardinality(S) -> S]
    BY <2>5 DEF InOrder, Ascending
  <2>7. Cardinality(S) \in Nat
    BY <2>3, FS_CardinalityType
  <2> HIDE DEF known
  <2>8. named \in Seq(ToSet(named)) /\ (named = <<>> <=> known = <<>>)
    <3> DEFINE n == Cardinality(S)
    <3>1. DOMAIN known = 1 .. n /\ (known = <<>> <=> n = 0)
      BY <2>6, <2>7
    <3> HIDE DEF n
    <3>2. named = [i \in 1 .. n |-> named[i]]
      BY <3>1
    <3> HIDE DEF named
    <3> QED BY <2>7, <3>1, <3>2, ListIsSeq DEF n
  <2> HIDE DEF named
  <2>9. IsReading(r)
    BY <2>8 DEF IsReading, Reading
  <2>10. r.items # <<>> \/ r.error # "none"
    BY <2>8 DEF Reading
  <2> QED BY <2>1, <2>9, <2>10, Worded, Zenon
<1> QED BY <1>1, <1>2, Zenon

(* list_usb_devices: an error, or an item of its own for each device.      *)
LEMMA UsbAnswers ==
  ASSUME NEW w, IsFiniteSet(w.entries)
  PROVE  LET r == ListUsbDevices(w)
             devices == {e \in w.entries : e.device /\ e.present}
         IN \/ r.items = <<>> /\ r.error # "none"
            \/ /\ r.error = "none" /\ r.items # <<>> /\ Len(r.items) = Cardinality(devices)
               /\ \A i \in DOMAIN r.items : r.items[i] # "none"
<1> DEFINE devices == {e \in w.entries : e.device /\ e.present}
           n == Cardinality(devices)
           named == [i \in 1 .. n |-> UsbDeviceName(Ascending(devices, LAMBDA e : e.path)[i])]
<1>1. IsFiniteSet(devices) /\ n \in Nat /\ (n = 0 <=> devices = {})
  BY FS_Subset, FS_CardinalityType, FS_EmptySet
<1>2. \A d : UsbDeviceName(d) # "none"
  BY DEF UsbDeviceName
<1>3. CASE w.failure # "none"
  BY <1>3 DEF ListUsbDevices, Failed, Reading
<1>4. CASE w.failure = "none"
  <2>1. ListUsbDevices(w) = Reading(named, IF devices = {} THEN "no_USB_device" ELSE "none")
    BY <1>4 DEF ListUsbDevices
  <2> HIDE DEF n
  <2>4. \A i \in 1 .. n : named[i] # "none"
    BY <1>2
  <2>5. DOMAIN named = 1 .. n
    OBVIOUS
  <2>6. Len(named) = n
    BY <1>1, <2>5
  <2>2. DOMAIN named = 1 .. n /\ Len(named) = n /\ \A i \in 1 .. n : named[i] # "none"
    BY <2>4, <2>5, <2>6
  <2> HIDE DEF named, devices
  <2>3. named = <<>> <=> devices = {}
    BY <1>1, <2>2
  <2> QED BY <2>1, <2>2, <2>3 DEF Reading, devices, n
<1> QED BY <1>3, <1>4

(* read_hdmi never answers without a word.                                 *)
LEMMA HdmiAnswers ==
  ASSUME NEW w PROVE ReadHdmi(w) # Nothing
<1> DEFINE chosen == ChooseHdmiConnector(w.connectors)
           lines == <<"Connector", "Status">> \o (IF chosen[1].mode THEN <<"Resolution">> ELSE <<>>)
<1>1. CASE ~w.drm \/ chosen = <<>>
  BY <1>1, Worded DEF ReadHdmi, Failed, Reading
<1>2. CASE w.drm /\ chosen # <<>>
  <2>1. lines # <<>>
    OBVIOUS
  <2>2. ReadHdmi(w).items = lines
    BY <1>2 DEF ReadHdmi, Reading
  <2> QED BY <2>1, <2>2, Worded
<1> QED BY <1>1, <1>2

(* list_spi_devices: no device is an error.                                *)
LEMMA SpiAnswers ==
  ASSUME NEW w
  PROVE  ListSpiDevices(w).items = <<>> => ListSpiDevices(w).error # "none"
<1> DEFINE names == Ascending({n \in w.entries : n.spidev}, LAMBDA n : n.rank)
           errors == <<IF w.dev THEN "none" ELSE "no_dev", IF names = <<>> THEN "no_SPI_device" ELSE "none">>
<1>1. ListSpiDevices(w) = Reading(names, FirstError(errors))
  BY DEF ListSpiDevices
<1>2. DOMAIN errors = 1 .. 2 /\ (names = <<>> => errors[2] = "no_SPI_device")
  OBVIOUS
<1> HIDE DEF errors, names
<1>3. names = <<>> => FirstError(errors) # "none"
  <2> SUFFICES ASSUME names = <<>> PROVE FirstError(errors) # "none"
    OBVIOUS
  <2>1. DOMAIN errors \subseteq Nat /\ 2 \in DOMAIN errors /\ errors[2] # "none"
    BY <1>2
  <2> QED BY <2>1, ErrorIsTold
<1> QED BY <1>1, <1>3 DEF Reading

(* A list by strength is a reading, with whatever error.                   *)
LEMMA StrongestIsReading ==
  ASSUME NEW S, Strengths(S), NEW e PROVE IsReading(Reading(StrongestFirst(S), e))
<1> DEFINE s == StrongestFirst(S)
<1>1. s \in Seq(S) /\ ToSet(s) = S
  BY StrongestHasAll DEF Strengths
<1> HIDE DEF s
<1>2. IsReading(Reading(s, e))
  BY <1>1 DEF IsReading, Reading
<1> QED BY <1>2 DEF s

(* What every service but I2C's answers is a reading with a word in it.    *)
LEMMA WifiIsWorded ==
  ASSUME NEW w, WifiShape(w) PROVE ScanWifi(w) # Nothing /\ IsReading(ScanWifi(w))
<1> DEFINE s == PointItems(w)
           r == ScanWifi(w)
<1>1. s \in Seq(ToSet(s))
  BY PointsListed
<1>2. (\E e : r = Failed(e)) \/ r = Reading(s, "none")
  BY DEF ScanWifi, ReadWifiAccessPoints
<1>3. r.items # <<>> \/ r.error # "none"
  BY WifiAnswers DEF WifiTells
<1> HIDE DEF s, r
<1>4. IsReading(Reading(s, "none"))
  BY <1>1 DEF IsReading, Reading
<1>5. IsReading(r)
  BY <1>2, <1>4, FailedIsReading
<1>6. r # Nothing
  BY <1>3, Worded
<1> QED BY <1>5, <1>6 DEF r

(* scan_bluetooth: the same of its answer.                                 *)
LEMMA BluetoothIsWorded ==
  ASSUME NEW w, Strengths(w.known), Strengths(w.found)
  PROVE  ScanBluetooth(w) # Nothing /\ IsReading(ScanBluetooth(w))
<1> DEFINE all == IF w.again THEN w.found ELSE w.known
           r == ScanBluetooth(w)
<1>1. Strengths(all)
  OBVIOUS
<1>2. (\E e : r = Failed(e)) \/ r = Reading(StrongestFirst(all), "none")
  BY DEF ScanBluetooth, BluezDevices
<1>3. r.items # <<>> \/ r.error # "none"
  BY BluetoothAnswers
<1> HIDE DEF all, r
<1>4. IsReading(r)
  BY <1>1, <1>2, FailedIsReading, StrongestIsReading
<1>5. r # Nothing
  BY <1>3, Worded
<1> QED BY <1>4, <1>5 DEF r

(* list_usb_devices: the same of its answer.                               *)
LEMMA UsbIsWorded ==
  ASSUME NEW w, IsFiniteSet(w.entries)
  PROVE  ListUsbDevices(w) # Nothing /\ IsReading(ListUsbDevices(w))
<1> DEFINE devices == {e \in w.entries : e.device /\ e.present}
           n == Cardinality(devices)
           name(i) == UsbDeviceName(Ascending(devices, LAMBDA e : e.path)[i])
           named == [i \in 1 .. n |-> name(i)]
           r == ListUsbDevices(w)
<1>1. IsFiniteSet(devices) /\ n \in Nat
  BY FS_Subset, FS_CardinalityType
<1>2. (\E e : r = Failed(e)) \/ (\E e : r = Reading(named, e))
  BY DEF ListUsbDevices
<1>3. r.items # <<>> \/ r.error # "none"
  BY UsbAnswers
<1> HIDE DEF devices, n, r, name
<1>4. named = [i \in 1 .. n |-> named[i]]
  OBVIOUS
<1> HIDE DEF named
<1>5. named \in Seq(ToSet(named))
  BY <1>1, <1>4, ListIsSeq
<1>6. IsReading(r)
  <2>1. \A e : IsReading(Reading(named, e))
    BY <1>5 DEF IsReading, Reading
  <2> QED BY <1>2, <2>1, FailedIsReading
<1>7. r # Nothing
  BY <1>3, Worded
<1> QED BY <1>6, <1>7 DEF r

(* read_hdmi answers with a list and an error.                             *)
LEMMA HdmiIsReading ==
  ASSUME NEW w PROVE IsReading(ReadHdmi(w))
<1> DEFINE chosen == ChooseHdmiConnector(w.connectors)
           long == <<"Connector", "Status">> \o <<"Resolution">>
           short == <<"Connector", "Status">> \o <<>>
<1>1. long \in Seq({"Connector", "Status", "Resolution"})
      /\ short \in Seq({"Connector", "Status", "Resolution"})
  OBVIOUS
<1>2. \/ \E e : ReadHdmi(w) = Failed(e)
      \/ \E e : ReadHdmi(w) = Reading(long, e) \/ ReadHdmi(w) = Reading(short, e)
  <2> HIDE DEF chosen
  <2> QED BY DEF ReadHdmi, chosen
<1> HIDE DEF long, short
<1>3. \A f \in Seq({"Connector", "Status", "Resolution"}) : f \in Seq(ToSet(f))
  BY DEF ToSet
<1>4. \A e : IsReading(Reading(long, e)) /\ IsReading(Reading(short, e))
  BY <1>1, <1>3 DEF IsReading, Reading
<1> QED BY <1>2, <1>4, FailedIsReading

(* list_spi_devices answers with a list and an error.                      *)
LEMMA SpiIsReading ==
  ASSUME NEW w, IsFiniteSet(w.entries), \A n \in w.entries : n.rank \in Int
  PROVE  IsReading(ListSpiDevices(w))
<1> DEFINE S == {n \in w.entries : n.spidev}
           rank == [n \in S |-> n.rank]
           names == Ascending(S, LAMBDA n : n.rank)
<1>1. IsFiniteSet(S) /\ rank \in [S -> Int]
  BY FS_Subset
<1>2. \A n \in S : rank[n] = n.rank
  OBVIOUS
<1>3. \E e : ListSpiDevices(w) = Reading(names, e)
  BY DEF ListSpiDevices
<1> HIDE DEF S, rank
<1>4. PICK o : InOrder(o, S, rank)
  BY <1>1, CanBeOrdered
<1>5. \A i, j \in DOMAIN o : i < j => o[i].rank <= o[j].rank
  BY <1>2, <1>4 DEF InOrder
<1>6. names \in [1 .. Cardinality(S) -> S] /\ Cardinality(S) \in Nat
  BY <1>1, <1>4, <1>5, FS_CardinalityType DEF InOrder, Ascending
<1> HIDE DEF names
<1>7. names \in Seq(ToSet(names))
  BY <1>6, ListIsSeq
<1> QED BY <1>3, <1>7 DEF IsReading, Reading

(* So does every service but the I2C scan, whatever it finds.              *)
LEMMA NeverWithoutWord ==
  ASSUME NEW t \in Topics \ {"I2C"}, NEW w \in Seen[t]
  PROVE  ReadTopic(t, w) # Nothing /\ IsReading(ReadTopic(t, w))
<1>1. CASE t = "WIFI"
  BY <1>1, ReadingsAssumption, WifiIsWorded DEF ReadTopic
<1>2. CASE t = "BLUETOOTH"
  BY <1>2, ReadingsAssumption, BluetoothIsWorded DEF ReadTopic
<1>3. CASE t = "USB"
  BY <1>3, ReadingsAssumption, UsbIsWorded DEF ReadTopic
<1>4. CASE t = "ETHERNET"
  BY <1>4, EthernetAnswers DEF ReadTopic
<1>5. CASE t = "HDMI"
  BY <1>5, HdmiAnswers, HdmiIsReading DEF ReadTopic
<1>6. CASE t = "SPI"
  <2>1. ReadTopic(t, w) = ListSpiDevices(w) /\ IsReading(ListSpiDevices(w))
    BY <1>6, ReadingsAssumption, SpiIsReading DEF ReadTopic
  <2> QED BY <2>1, SpiAnswers, Worded
<1> QED BY <1>1, <1>2, <1>3, <1>4, <1>5, <1>6 DEF Topics

-----------------------------------------------------------------------------
(* BusServices: an answer tells truly of the system it was asked of.       *)

(* scan_bluetooth.                                                         *)
LEMMA BluetoothIsTold ==
  ASSUME NEW w, Strengths(w.known), Strengths(w.found)
  PROVE  BluetoothTells(w, ScanBluetooth(w))
<1> DEFINE all == IF w.again THEN w.found ELSE w.known
           r == ScanBluetooth(w)
<1>1. \/ /\ r.items = <<>> /\ r.error # "none"
         /\ r.error = "no_device_found" => w.power /\ w.discovery
         /\ w.bus /\ w.managed /\ w.adapter => StrongestFirst(all) = <<>>
      \/ r.items = StrongestFirst(all) /\ r.items # <<>>
  BY BluetoothAnswers
<1>2. Strengths(all)
  OBVIOUS
<1> HIDE DEF all, r
<1>3. LET s == StrongestFirst(all)
      IN /\ s = <<>> <=> all = {}
         /\ ToSet(s) = all /\ IsInjective(s)
         /\ \A i, j \in DOMAIN s : i < j => s[i].strength >= s[j].strength
  BY <1>2, StrongestHasAll DEF Strengths
<1>4. IF r.items # <<>>
      THEN /\ IsInjective(r.items) /\ ToSet(r.items) = all
           /\ \A j, k \in DOMAIN r.items : j < k => r.items[j].strength >= r.items[k].strength
      ELSE /\ r.error # "none" /\ (r.error = "no_device_found" => w.power /\ w.discovery)
           /\ w.bus /\ w.managed /\ w.adapter => all = {}
  BY <1>1, <1>3
<1> QED BY <1>4 DEF BluetoothTells, all, r

(* choose_hdmi_connector: any list of connectors.                          *)
LEMMA HdmiChoice ==
  ASSUME NEW n \in Nat, NEW S, NEW connectors \in [1 .. n -> S]
  PROVE  LET chosen == ChooseHdmiConnector(connectors)
         IN /\ n = 0 => chosen = <<>>
            /\ n > 0 => \E i \in 1 .. n :
                 /\ chosen = <<connectors[i]>>
                 /\ connectors[i].status # "connected" =>
                      \A j \in 1 .. n : connectors[j].status # "connected"
<1> DEFINE plugged == {i \in DOMAIN connectors : connectors[i].status = "connected"}
<1>1. plugged \in SUBSET Nat /\ (n = 0 => plugged = {} /\ connectors = <<>>)
  OBVIOUS
<1>2. CASE plugged # {}
  <2>1. Min(plugged) \in plugged
    BY <1>1, <1>2, MinIsLeast
  <2> QED BY <1>1, <1>2, <2>1 DEF ChooseHdmiConnector
<1>3. CASE plugged = {}
  <2>1. n > 0 => connectors # <<>> /\ 1 \in 1 .. n
    OBVIOUS
  <2>2. \A j \in 1 .. n : connectors[j].status # "connected"
    BY <1>3
  <2>3. n > 0 => ChooseHdmiConnector(connectors) = <<connectors[1]>>
    BY <1>3, <2>1 DEF ChooseHdmiConnector
  <2>4. n = 0 => ChooseHdmiConnector(connectors) = <<>>
    BY <1>1, <1>3 DEF ChooseHdmiConnector
  <2> QED BY <2>1, <2>2, <2>3, <2>4
<1> QED BY <1>2, <1>3

(* read_hdmi_info: of any list of connectors.                              *)
LEMMA HdmiIsTold ==
  ASSUME NEW w, IsList(w.connectors) PROVE HdmiTells(w, ReadHdmi(w))
<1> DEFINE chosen == ChooseHdmiConnector(w.connectors)
           r == ReadHdmi(w)
           n == Len(w.connectors)
<1>1. n \in Nat /\ DOMAIN w.connectors = 1 .. n /\ w.connectors \in [1 .. n -> ToSet(w.connectors)]
  BY DEF IsList
<1> HIDE DEF n
<1>2. CASE ~w.drm
  BY <1>2 DEF ReadHdmi, Failed, Reading, HdmiTells
<1>3. CASE w.drm /\ n = 0
  <2>1. chosen = <<>>
    BY <1>1, <1>3, HdmiChoice
  <2> QED BY <1>3, <2>1 DEF ReadHdmi, Failed, Reading, HdmiTells
<1>4. CASE w.drm /\ n > 0
  <2>1. PICK i \in 1 .. n :
          /\ chosen = <<w.connectors[i]>>
          /\ w.connectors[i].status # "connected" =>
               \A j \in 1 .. n : w.connectors[j].status # "connected"
    BY <1>1, <1>4, HdmiChoice
  <2> DEFINE c == w.connectors[i]
  <2>2. chosen # <<>> /\ chosen[1] = c
    BY <2>1
  <2>3. r.error = IF c.status # "connected" THEN "disconnected" ELSE IF ~c.mode THEN "no_mode" ELSE "none"
    <3> HIDE DEF chosen, c
    <3> QED BY <1>4, <2>2 DEF ReadHdmi, Reading, chosen
  <2>4. r.error = "none" => c.status = "connected" /\ c.mode
    BY <2>3
  <2>5. r.error = "disconnected" => c.status # "connected"
    BY <2>3
  <2> HIDE DEF r
  <2>6. HdmiTells(w, r)
    BY <1>1, <2>1, <2>4, <2>5 DEF HdmiTells
  <2> QED BY <2>6 DEF r
<1> QED BY <1>1, <1>2, <1>3, <1>4

(* list_usb_devices: of any finite set of entries.                         *)
LEMMA UsbIsTold ==
  ASSUME NEW w, IsFiniteSet(w.entries) PROVE UsbTells(w, ListUsbDevices(w))
BY UsbAnswers DEF UsbTells

(* list_spi_devices: of any finite set of entries.                         *)
LEMMA SpiIsTold ==
  ASSUME NEW w, IsFiniteSet(w.entries), \A n \in w.entries : n.rank \in Int
  PROVE  SpiTells(w, ListSpiDevices(w))
<1> DEFINE S == {n \in w.entries : n.spidev}
           rank == [n \in S |-> n.rank]
           names == Ascending(S, LAMBDA n : n.rank)
           errors == <<IF w.dev THEN "none" ELSE "no_dev", IF names = <<>> THEN "no_SPI_device" ELSE "none">>
           r == ListSpiDevices(w)
<1>1. IsFiniteSet(S) /\ rank \in [S -> Int] /\ \A n \in S : rank[n] = n.rank
  BY FS_Subset
<1>2. r = Reading(names, FirstError(errors))
  BY DEF ListSpiDevices
<1>3. DOMAIN errors = 1 .. 2 /\ (~w.dev => errors[1] # "none") /\ (names = <<>> => errors[2] # "none")
  OBVIOUS
<1> HIDE DEF S, rank, errors, r
<1>4. PICK o : InOrder(o, S, rank)
  BY <1>1, CanBeOrdered
<1>5. \A i, j \in DOMAIN o : i < j => o[i].rank <= o[j].rank
  BY <1>1, <1>4 DEF InOrder
<1>6. names \in [1 .. Cardinality(S) -> S] /\ IsInjective(names)
  BY <1>4, <1>5 DEF InOrder, Ascending
<1> HIDE DEF names
<1>7. ToSet(names) = S
  BY <1>1, <1>6, AllListed
<1>8. ASSUME names = <<>> \/ ~w.dev PROVE FirstError(errors) # "none"
  <2>1. DOMAIN errors \subseteq Nat /\ \E k \in DOMAIN errors : errors[k] # "none"
    BY <1>3, <1>8
  <2> QED BY <2>1, ErrorIsTold
<1>9. r.items = names /\ r.error = FirstError(errors)
  BY <1>2 DEF Reading
<1> QED BY <1>7, <1>8, <1>9 DEF SpiTells, S, r

(* read_ethernet_info: of any list of devices.                             *)
LEMMA EthernetIsTold ==
  ASSUME NEW w, IsList(w.devices) PROVE EthernetTells(w, ReadEthernet(w))
<1> DEFINE wired == {i \in DOMAIN w.devices : w.devices[i].wired}
           m == Min(wired)
           S == {i \in DOMAIN EthernetFields : EthernetFields[i] \in w.devices[m].fields}
           known == Ascending(S, LAMBDA i : i)
           named == [k \in DOMAIN known |-> EthernetFields[known[k]]]
           r == ReadEthernet(w)
<1>0. r # Nothing
  BY EthernetAnswers
<1>1. CASE ~w.client \/ wired = {}
  <2>1. r.items = <<>>
    BY <1>1 DEF ReadEthernet, Failed, Reading
  <2> QED BY <1>0, <2>1 DEF EthernetTells
<1>2. CASE w.client /\ wired # {}
  <2>1. r.items = named
    BY <1>2 DEF ReadEthernet, Reading
  <2>2. DOMAIN w.devices \subseteq Nat
    BY DEF IsList
  <2>3. m \in wired /\ \A i \in wired : m <= i
    BY <1>2, <2>2, MinIsLeast
  <2> HIDE DEF m
  <2>4. /\ m \in DOMAIN w.devices /\ w.devices[m].wired
        /\ \A j \in DOMAIN w.devices : j < m => ~w.devices[j].wired
    BY <2>2, <2>3
  <2>5. DOMAIN EthernetFields = 1 .. 5
    BY DEF EthernetFields
  <2>6. S \subseteq 1 .. 5
    BY <2>5, Zenon
  <2>7. \A x : x \in w.devices[m].fields /\ x \in ToSet(EthernetFields) <=> \E i \in S : EthernetFields[i] = x
    BY DEF ToSet
  <2> HIDE DEF S, r
  <2>8. IsFiniteSet(1 .. 5)
    BY FS_Interval, 1 \in Int, 5 \in Int
  <2>9. IsFiniteSet(S)
    BY <2>6, <2>8, FS_Subset
  <2> DEFINE rank == [i \in S |-> i]
  <2>10. rank \in [S -> Int]
    BY <2>6
  <2>11. PICK o : InOrder(o, S, rank)
    BY <2>9, <2>10, CanBeOrdered
  <2>12. known \in [1 .. Cardinality(S) -> S] /\ IsInjective(known)
    BY <2>11 DEF InOrder, Ascending
  <2> HIDE DEF known
  <2>13. ToSet(known) = S
    BY <2>9, <2>12, AllListed
  <2>14. \A x : x \in ToSet(named) <=> \E i \in S : EthernetFields[i] = x
    BY <2>13 DEF ToSet
  <2>15. ToSet(r.items) = w.devices[m].fields \cap ToSet(EthernetFields)
    BY <2>1, <2>7, <2>14
  <2>16. EthernetTells(w, r)
    BY <1>0, <2>4, <2>15 DEF EthernetTells, r
  <2> QED BY <2>16 DEF r
<1> QED BY <1>1, <1>2

(* scan_i2c_bus: present is what was selected and acknowledged.            *)
LEMMA I2cIsTold ==
  ASSUME NEW w, IsList(w.addresses),
         \A i \in DOMAIN w.addresses : w.addresses[i].select \in {"ok", "busy", "error"}
  PROVE  I2cTells(w, ScanI2cBus(w))
<1> DEFINE n == Len(w.addresses)
           found == [i \in DOMAIN w.addresses |-> ProbeI2cAddress(w.addresses[i])]
           r == ScanI2cBus(w)
<1>1. n \in Nat /\ DOMAIN w.addresses = 1 .. n
  BY DEF IsList
<1> HIDE DEF n
<1>2. ASSUME NEW i \in 1 .. n
      PROVE  found[i] = "PRESENT" <=> w.addresses[i].select = "ok" /\ w.addresses[i].acks
  BY <1>1 DEF ProbeI2cAddress
<1>3. found = [i \in 1 .. n |-> found[i]]
  BY <1>1
<1>4. CASE ~w.bus
  BY <1>4 DEF ScanI2cBus, Failed, Reading, I2cTells
<1>5. CASE w.bus
  <2>1. r.items = found
    BY <1>5 DEF ScanI2cBus, Reading
  <2> HIDE DEF found, r
  <2>2. Len(found) = n
    BY <1>1, <1>3, ListIsSeq
  <2>3. I2cTells(w, r)
    BY <1>1, <1>2, <1>5, <2>1, <2>2 DEF I2cTells, n
  <2> QED BY <2>3 DEF r
<1> QED BY <1>4, <1>5

(* So whatever a service answers.                                          *)
LEMMA AnswerTells ==
  ASSUME NEW t \in Topics, NEW w \in Seen[t] PROVE Tells(t, w, ReadTopic(t, w))
<1>1. CASE t = "WIFI"
  BY <1>1, ReadingsAssumption, WifiAnswers DEF ReadTopic, Tells
<1>2. CASE t = "BLUETOOTH"
  BY <1>2, ReadingsAssumption, BluetoothIsTold DEF ReadTopic, Tells
<1>3. CASE t = "ETHERNET"
  BY <1>3, ReadingsAssumption, EthernetIsTold DEF ReadTopic, Tells
<1>4. CASE t = "USB"
  BY <1>4, ReadingsAssumption, UsbIsTold DEF ReadTopic, Tells
<1>5. CASE t = "HDMI"
  BY <1>5, ReadingsAssumption, HdmiIsTold DEF ReadTopic, Tells
<1>6. CASE t = "I2C"
  BY <1>6, ReadingsAssumption, I2cIsTold DEF ReadTopic, Tells
<1>7. CASE t = "SPI"
  BY <1>7, ReadingsAssumption, SpiIsTold DEF ReadTopic, Tells
<1> QED BY <1>1, <1>2, <1>3, <1>4, <1>5, <1>6, <1>7 DEF Topics

(* iperf: the rate after the last section is the receiver's, or the        *)
(* sender's if there is none.                                              *)
LEMMA RateAfter ==
  ASSUME NEW doc, NEW section, NEW n \in Nat, DOMAIN doc = 1 .. n,
         NEW k \in 1 .. n, k + 1 = n, doc[k].key = section, doc[n].key = "rate",
         \A i \in 1 .. n : doc[i].key = section => i = k
  PROVE  Link!BpsAfter(doc, section) = doc[n].value
<1> DEFINE from  == {i \in DOMAIN doc : doc[i].key = section}
           start == CHOOSE i \in from : \A j \in from : i <= j
           rates == {i \in DOMAIN doc : doc[i].key = "rate" /\ i > start}
           first == CHOOSE i \in rates : \A j \in rates : i <= j
<1>1. from = {k}
  OBVIOUS
<1> HIDE DEF from
<1>2. start = k
  BY <1>1
<1> HIDE DEF start
<1>3. rates = {n}
  BY <1>2
<1> HIDE DEF rates
<1>4. first = n
  BY <1>3
<1> HIDE DEF first
<1>5. Link!BpsAfter(doc, section) = IF from = {} \/ rates = {} THEN -1 ELSE doc[first].value
  BY DEF Link!BpsAfter, from, rates, start, first
<1> QED BY <1>1, <1>3, <1>4, <1>5

(* parse_iperf_json_bps: of a report that ends with the sum received, the  *)
(* rate is that of the receiver.                                           *)
LEMMA RateIsReceived ==
  ASSUME NEW doc, NEW n \in Nat, Len(doc) = n, DOMAIN doc = 1 .. n,
         Link!EndsReceived(doc)
  PROVE  Link!IperfBps(doc) = doc[n].value
<1>1. /\ n > 1 /\ doc[n].key = "rate" /\ doc[n].value >= 0
      /\ \A i \in 1 .. n : doc[i].key = "sum_received" <=> i = n - 1
  BY DEF Link!EndsReceived
<1>2. n - 1 \in 1 .. n /\ n - 1 + 1 = n
  BY <1>1
<1>3. Link!BpsAfter(doc, "sum_received") = doc[n].value
  BY <1>1, <1>2, RateAfter
<1> QED BY <1>1, <1>3 DEF Link!IperfBps

(* run_iperf_for_interface: a rate is one of the system that was met.      *)
LEMMA IperfIsMeasured ==
  ASSUME NEW w \in LinkSeen, NEW host, NEW wireless \in BOOLEAN
  PROVE  Link!Measured(w, host, wireless, Link!RunIperf(w, host, wireless))
<1> DEFINE rate == Link!IperfBps(w.report)
           n == Len(w.report)
           minimum == IF wireless THEN WifiMinimum ELSE EthernetMinimum
           metric == Link!RunIperf(w, host, wireless)
<1>1. n \in Nat /\ DOMAIN w.report = 1 .. n
  BY IoAssumption DEF Link!LinkAssumption
<1>2. Link!EndsReceived(w.report) => rate = w.report[n].value
  BY <1>1, RateIsReceived
<1>3. CASE ~(Link!ActiveLinkInterface(w, wireless) /\ host \in w.servers /\ ~(rate < 0))
  <2>1. metric = Link!FailedMetric
    <3> HIDE DEF rate
    <3> QED BY <1>3 DEF Link!RunIperf, rate
  <2> QED BY <2>1 DEF Link!Measured
<1>4. CASE Link!ActiveLinkInterface(w, wireless) /\ host \in w.servers /\ ~(rate < 0)
  <2>1. metric = Link!Metric(IF rate > 0 /\ rate >= minimum THEN "SUCCESS" ELSE "FAILED", rate)
    <3> HIDE DEF rate
    <3> QED BY <1>4 DEF Link!RunIperf, rate
  <2> HIDE DEF rate, metric
  <2>2. metric.value = rate /\ (metric.status = "SUCCESS" <=> rate > 0 /\ rate >= minimum)
    BY <2>1 DEF Link!Metric
  <2>3. Link!Measured(w, host, wireless, metric)
    BY <1>2, <1>4, <2>2 DEF Link!Measured
  <2> QED BY <2>3 DEF metric
<1> QED BY <1>3, <1>4

(* run_link_test: both metrics.                                            *)
LEMMA LinkIsMeasured ==
  ASSUME LinkKept, Link!LinkFinish
  PROVE  \E w \in LinkSeen : /\ Link!Measured(w, test.host, TRUE, test'.metrics.wifi)
                             /\ Link!Measured(w, test.host, FALSE, test'.metrics.ethernet)
<1>1. PICK w \in LinkSeen :
        test' = [test EXCEPT !.phase = "done", !.metrics = Link!RunLinkTest(w, test.host)]
  BY DEF Link!LinkFinish
<1>2. /\ test'.metrics.wifi = Link!RunIperf(w, test.host, TRUE)
      /\ test'.metrics.ethernet = Link!RunIperf(w, test.host, FALSE)
  BY <1>1 DEF LinkKept, OneTest, IsTest, Link!RunLinkTest
<1> QED BY <1>2, IperfIsMeasured

-----------------------------------------------------------------------------
(* Readings.                                                               *)

(* A model without data has no task and asks at its next refresh; every    *)
(* answer that waits to be taken has a word in it, and is the one to the   *)
(* system its service met.                                                 *)
ModelKept(t) ==
  /\ IsReading(data[t])
  /\ task[t].phase = "done" => task[t].reading # Nothing /\ IsReading(task[t].reading)
  /\ data[t] = Nothing => task[t].phase = "none" /\ aged[t] = TRUE
Met(t) ==
  task[t].phase = "done" =>
    \E w \in task[t].met : w \in Seen[t] /\ task[t].reading = ReadTopic(t, w)
Models ==
  /\ \A t \in Topics : Met(t)
  /\ task = [t \in Topics |-> task[t]] /\ data = [t \in Topics |-> data[t]]
  /\ aged \in [Topics -> BOOLEAN]
  /\ \A t \in Topics : task[t].phase \in {"none", "running", "done"}
  /\ \A t \in Topics \ {"I2C"} : ModelKept(t)
  /\ spoiled \subseteq {"task", "data"}
ReadingsKept ==
  /\ Models
  /\ page = "none" \/ page = active \/ page \notin Topics
  /\ popup \in BOOLEAN /\ (popup = TRUE => page = "I2C")
  /\ NeverBlank

IoKept == SerialKept /\ LinkKept /\ ReadingsKept

(* It tells all that the run checks of the reading pages.                  *)
LEMMA ReadingsFit ==
  ASSUME ReadingsKept PROVE ReadingsInv
BY DEF ReadingsKept, Models, ReadingsInv, TypeOK

(* What is put before a list.                                              *)
LEMMA Lengths ==
  ASSUME NEW S, NEW a \in Seq(S), NEW b \in Seq(S)
  PROVE  Len(a \o b) = Len(a) + Len(b)
OBVIOUS

(* The rows of a reading with a word in it.                                *)
LEMMA RowsAreThere ==
  ASSUME NEW t, NEW d, IsReading(d) PROVE Rows(t, d) # <<>>
<1> DEFINE row(i) == Row(t, d.items[i])
           rows == [i \in DOMAIN d.items |-> row(i)]
<1>1. CASE d = Nothing
  BY <1>1 DEF Rows
<1>2. CASE d # Nothing
  <2>1. d.items # <<>> \/ d.error # "none"
    BY <1>2 DEF IsReading, Nothing
  <2>2. d.items \in Seq(ToSet(d.items))
    BY DEF IsReading
  <2> DEFINE n == Len(d.items)
  <2>3. n \in Nat /\ DOMAIN d.items = 1 .. n /\ (d.items = <<>> <=> n = 0)
    BY <2>2
  <2>4. Rows(t, d) = (IF d.error = "none" THEN <<>> ELSE <<<<"info", d.error>>>>) \o rows
    BY <1>2 DEF Rows
  <2> HIDE DEF n, row
  <2>5. rows = [i \in 1 .. n |-> rows[i]]
    BY <2>3
  <2> HIDE DEF rows
  <2>6. rows \in Seq(ToSet(rows)) /\ Len(rows) = n
    BY <2>3, <2>5, ListIsSeq
  <2>7. CASE d.error = "none"
    <3>1. Rows(t, d) = <<>> \o rows
      BY <2>4, <2>7
    <3>2. Len(<<>> \o rows) = n
      BY <2>3, <2>6
    <3> QED BY <2>1, <2>3, <2>7, <3>1, <3>2
  <2>8. CASE d.error # "none"
    <3>1. Rows(t, d) = <<<<"info", d.error>>>> \o rows
      BY <2>4, <2>8
    <3> DEFINE word == <<<<"info", d.error>>>>
    <3> DEFINE U == {<<"info", d.error>>} \cup ToSet(rows)
    <3>2. word \in Seq(U) /\ Len(word) = 1
      OBVIOUS
    <3>5. rows \in Seq(U)
      BY <2>6
    <3> HIDE DEF word, U
    <3>3. Len(word \o rows) = 1 + n
      BY <2>6, <3>2, <3>5, Lengths
    <3>4. word \o rows # <<>>
      BY <2>3, <3>3
    <3> QED BY <3>1, <3>4 DEF word
  <2> QED BY <2>7, <2>8
<1> QED BY <1>1, <1>2

(* refresh: what a model has, asks and takes, for every model.             *)
LEMMA Refreshes ==
  ASSUME Models, NEW t \in Topics, NEW force \in BOOLEAN, Refresh(t, force)
  PROVE  /\ Models'
         /\ \A u \in Topics \ {t} : data'[u] = data[u]
         /\ data'[t] = Refreshed(t, force)
         /\ t # "I2C" => data'[t] # Nothing /\ IsReading(data'[t])
<1> DEFINE next == IF Starts(t, force) THEN Asking
                   ELSE IF task[t].phase = "done" THEN Idle ELSE task[t]
<1>1. /\ task' = [task EXCEPT ![t] = next] /\ data' = [data EXCEPT ![t] = Refreshed(t, force)]
      /\ aged' = [aged EXCEPT ![t] = @ /\ ~Starts(t, force)]
  BY DEF Refresh
<1> HIDE DEF next
<1>2. /\ task' = [u \in Topics |-> task'[u]] /\ task'[t] = next
      /\ \A u \in Topics \ {t} : task'[u] = task[u]
  BY <1>1 DEF Models
<1>3. /\ data' = [u \in Topics |-> data'[u]] /\ data'[t] = Refreshed(t, force)
      /\ \A u \in Topics \ {t} : data'[u] = data[u]
  BY <1>1 DEF Models
<1>4. aged' \in [Topics -> BOOLEAN] /\ \A u \in Topics \ {t} : aged'[u] = aged[u]
  <2>1. (aged[t] /\ ~Starts(t, force)) \in BOOLEAN
    OBVIOUS
  <2> QED BY <1>1, <2>1 DEF Models
<1>5. next.phase \in {"none", "running"}
  BY DEF next, Asking, Idle, Models
<1>6. \A u \in Topics : task'[u].phase \in {"none", "running", "done"}
  BY <1>2, <1>5 DEF Models
<1>7. spoiled' \subseteq {"task", "data"}
  BY DEF Refresh, SpoiledAfter, Models
<1>8. t # "I2C" => data'[t] # Nothing /\ IsReading(data'[t])
  <2> SUFFICES ASSUME t # "I2C" PROVE data'[t] # Nothing /\ IsReading(data'[t])
    OBVIOUS
  <2>1. ModelKept(t)
    BY DEF Models
  <2>2. IsReading(Taken(t)) /\ (Taken(t) = Nothing => task[t].phase = "none" /\ aged[t] = TRUE)
    BY <2>1 DEF Taken, ModelKept
  <2>3. Taken(t) = Nothing => Starts(t, force)
    BY <2>2 DEF Starts
  <2>4. Placeholder # Nothing /\ IsReading(Placeholder)
    BY FailedIsReading DEF Placeholder, Failed, Nothing, Reading
  <2> QED BY <1>3, <2>2, <2>3, <2>4 DEF Refreshed
<1>9. \A u \in Topics \ {"I2C"} : ModelKept(u)'
  <2> SUFFICES ASSUME NEW u \in Topics \ {"I2C"} PROVE ModelKept(u)'
    OBVIOUS
  <2>1. CASE u = t
    BY <1>2, <1>5, <1>8, <2>1 DEF ModelKept
  <2>2. CASE u # t
    <3>1. ModelKept(u) /\ task'[u] = task[u] /\ data'[u] = data[u] /\ aged'[u] = aged[u]
      BY <1>2, <1>3, <1>4, <2>2 DEF Models
    <3> QED BY <3>1 DEF ModelKept
  <2> QED BY <2>1, <2>2
<1>10. \A u \in Topics : Met(u)'
  <2> SUFFICES ASSUME NEW u \in Topics PROVE Met(u)'
    OBVIOUS
  <2>1. CASE u = t
    BY <1>2, <1>5, <2>1 DEF Met
  <2>2. CASE u # t
    <3>1. Met(u) /\ task'[u] = task[u]
      BY <1>2, <2>2 DEF Models
    <3> QED BY <3>1 DEF Met
  <2> QED BY <2>1, <2>2
<1> QED BY <1>2, <1>3, <1>4, <1>6, <1>7, <1>8, <1>9, <1>10 DEF Models

(* What is on display after a model was refreshed.                         *)
LEMMA DrawnIsThere ==
  ASSUME NEW t \in Topics \ {"I2C"}, IsReading(data'[t])
  PROVE  Drawn(t, data'[t]) # <<>>
BY RowsAreThere DEF Drawn

(* The page opens.                                                         *)
LEMMA EnterKeeps ==
  ASSUME ReadingsKept, NEW t \in Topics, opened' = opened \cup {t}, Enter(t)
  PROVE  ReadingsKept'
<1>1. page' = t /\ active' = t /\ Refresh(t, FALSE)
  BY DEF Enter
<1>2. /\ Models'
      /\ \A u \in Topics \ {t} : data'[u] = data[u]
      /\ t # "I2C" => data'[t] # Nothing /\ IsReading(data'[t])
  BY <1>1, Refreshes DEF ReadingsKept
<1>3. t # "I2C" => shown' # <<>>
  BY <1>2, DrawnIsThere DEF Enter
<1>4. popup' \in BOOLEAN /\ (popup' = TRUE => t = "I2C")
  BY DEF Enter
<1>5. NeverBlank'
  BY <1>1, <1>2, <1>3 DEF ReadingsKept, NeverBlank
<1> QED BY <1>1, <1>2, <1>4, <1>5 DEF ReadingsKept

(* The view's timer.                                                       *)
LEMMA PollKeeps ==
  ASSUME ReadingsKept, Poll PROVE ReadingsKept'
<1>1. page \in Topics /\ UNCHANGED <<page, opened, active>> /\ Refresh(page, FALSE)
  BY DEF Poll
<1>2. /\ Models'
      /\ \A u \in Topics \ {page} : data'[u] = data[u]
      /\ page # "I2C" => data'[page] # Nothing /\ IsReading(data'[page])
  BY <1>1, Refreshes DEF ReadingsKept
<1>3. page # "I2C" => shown' # <<>>
  BY <1>1, <1>2, DrawnIsThere DEF Poll, Draw, ReadingsKept, NeverBlank
<1>4. popup' \in BOOLEAN /\ (popup' = TRUE => page = "I2C")
  BY DEF Poll, Draw
<1>5. NeverBlank'
  BY <1>1, <1>2, <1>3 DEF ReadingsKept, NeverBlank
<1> QED BY <1>1, <1>2, <1>4, <1>5 DEF ReadingsKept

(* 'r', which draws nothing.                                               *)
LEMMA PressKeeps ==
  ASSUME ReadingsKept, PressRefresh PROVE ReadingsKept'
<1>1. page \in Topics /\ UNCHANGED <<page, opened, active, shown, popup>> /\ Refresh(page, TRUE)
  <2>1. page = active
    BY DEF PressRefresh, ReadingsKept, Topics
  <2> QED BY <2>1 DEF PressRefresh
<1>2. /\ Models'
      /\ \A u \in Topics \ {page} : data'[u] = data[u]
      /\ page # "I2C" => data'[page] # Nothing
  BY <1>1, Refreshes DEF ReadingsKept
<1>3. NeverBlank'
  BY <1>1, <1>2 DEF ReadingsKept, NeverBlank
<1> QED BY <1>1, <1>2, <1>3 DEF ReadingsKept

(* A service returns, or five seconds pass.                                *)
LEMMA ReturnKeeps ==
  ASSUME ReadingsKept, NEW t \in Topics, ReadFinish(t) PROVE ReadingsKept'
<1>1. PICK w \in Seen[t] :
        task' = [task EXCEPT ![t] = [phase |-> "done", reading |-> ReadTopic(t, w), met |-> {w}]]
  BY DEF ReadFinish
<1>2. /\ UNCHANGED <<page, opened, active, data, aged, shown, popup, spoiled>>
      /\ task[t].phase = "running"
  BY DEF ReadFinish
<1>3. /\ task' = [u \in Topics |-> task'[u]]
      /\ task'[t].phase = "done" /\ task'[t].reading = ReadTopic(t, w) /\ task'[t].met = {w}
      /\ \A u \in Topics \ {t} : task'[u] = task[u]
  BY <1>1 DEF ReadingsKept, Models
<1>4. ASSUME NEW u \in Topics \ {"I2C"} PROVE ModelKept(u)'
  <2>1. ModelKept(u)
    BY DEF ReadingsKept, Models
  <2>2. CASE u = t
    BY <1>2, <1>3, <2>1, <2>2, NeverWithoutWord DEF ModelKept
  <2>3. CASE u # t
    BY <1>2, <1>3, <2>1, <2>3 DEF ModelKept
  <2> QED BY <2>2, <2>3
<1>5. \A u \in Topics : task'[u].phase \in {"none", "running", "done"}
  BY <1>3 DEF ReadingsKept, Models
<1>7. ASSUME NEW u \in Topics PROVE Met(u)'
  <2>1. CASE u = t
    BY <1>3, <2>1 DEF Met
  <2>2. CASE u # t
    BY <1>3, <2>2 DEF ReadingsKept, Models, Met
  <2> QED BY <2>1, <2>2
<1>6. Models'
  BY <1>2, <1>3, <1>4, <1>5, <1>7 DEF ReadingsKept, Models
<1> QED BY <1>2, <1>6 DEF ReadingsKept, NeverBlank

(* A reading becomes old.                                                  *)
LEMMA AgeKeeps ==
  ASSUME ReadingsKept, NEW t \in Topics, Age(t) PROVE ReadingsKept'
<1>1. /\ aged' = [aged EXCEPT ![t] = TRUE]
      /\ UNCHANGED <<page, opened, active, task, data, shown, popup, spoiled>>
  BY DEF Age
<1>2. /\ aged' \in [Topics -> BOOLEAN]
      /\ \A u \in Topics : aged'[u] = aged[u] \/ aged'[u] = TRUE
  BY <1>1 DEF ReadingsKept, Models
<1>3. ASSUME NEW u \in Topics \ {"I2C"} PROVE ModelKept(u)'
  <2>1. ModelKept(u)
    BY DEF ReadingsKept, Models
  <2> QED BY <1>1, <1>2, <2>1 DEF ModelKept
<1>4. Models'
  BY <1>1, <1>2, <1>3 DEF ReadingsKept, Models, Met
<1> QED BY <1>1, <1>4 DEF ReadingsKept, NeverBlank

(* Another page opens, steps or closes, or this one closes.                *)
LEMMA RestKeeps ==
  ASSUME ReadingsKept, UNCHANGED <<task, data, aged>>, spoiled' \subseteq spoiled \cup {"task"},
         page' \notin Topics \/ UNCHANGED <<page, active, shown>>,
         popup' = FALSE \/ UNCHANGED <<page, popup>>,
         \E p : p \notin Topics /\ opened' \subseteq opened \cup {p}
  PROVE  ReadingsKept'
<1>1. Models'
  BY DEF ReadingsKept, Models, ModelKept, Met
<1>2. NeverBlank'
  BY DEF ReadingsKept, NeverBlank
<1>3. page' = "none" \/ page' = active' \/ page' \notin Topics
  BY DEF ReadingsKept
<1>4. popup' \in BOOLEAN /\ (popup' = TRUE => page' = "I2C")
  BY DEF ReadingsKept
<1> QED BY <1>1, <1>2, <1>3, <1>4 DEF ReadingsKept

(* Nothing was read yet.                                                   *)
LEMMA ReadingsStart ==
  ASSUME IoInit PROVE ReadingsKept
<1>1. ReadingsInit
  BY DEF IoInit
<1>2. \A t \in Topics : task[t] = Idle /\ data[t] = Nothing /\ aged[t] = TRUE
  BY <1>1 DEF ReadingsInit
<1>3. Idle.phase = "none" /\ IsReading(Nothing)
  BY DEF Idle, Nothing, IsReading, Reading
<1>4. Models
  BY <1>1, <1>2, <1>3 DEF ReadingsInit, Models, ModelKept, Met
<1> QED BY <1>1, <1>4 DEF ReadingsInit, ReadingsKept, NeverBlank, Topics

(* Every step keeps it, those of other pages too.                          *)
LEMMA ReadingsStays ==
  ASSUME ReadingsKept, [IoNext]_ioVars PROVE ReadingsKept'
<1>1. ASSUME NEW p \in Pages, OpenPage(p) PROVE ReadingsKept'
  <2>1. opened' = opened \cup {p} /\ page = "none"
    BY <1>1 DEF OpenPage
  <2>2. CASE p \in Topics /\ Enter(p)
    BY <2>1, <2>2, EnterKeeps
  <2>3. CASE ~(p \in Topics /\ Enter(p))
    <3>1. /\ p \in {"LINK", "UART"} /\ page' = p
          /\ UNCHANGED <<task, data, aged, shown, popup>> /\ spoiled' \subseteq spoiled \cup {"task"}
      BY <1>1, <2>3 DEF OpenPage, Spoil
    <3>2. p \notin Topics
      BY <3>1 DEF Topics
    <3>3. popup = FALSE
      BY <2>1 DEF ReadingsKept
    <3> QED BY <2>1, <3>1, <3>2, <3>3, RestKeeps
  <2> QED BY <2>2, <2>3
<1> DEFINE Other == /\ UNCHANGED <<task, data, aged, opened>> /\ spoiled' \subseteq spoiled \cup {"task"}
                    /\ \/ page' = "none" /\ popup' = FALSE
                       \/ page' = "none" /\ UNCHANGED <<popup>> /\ page \in {"LINK", "UART"}
                       \/ UNCHANGED <<page, active, shown, popup>>
<1>2. \/ Other \/ Poll \/ PressRefresh \/ \E p \in Pages : OpenPage(p)
      \/ \E t \in Topics : ReadFinish(t) \/ Age(t)
  <2>1. CASE ClosePage
    BY <2>1 DEF ClosePage, Leave, readings
  <2>2. CASE Timer \/ LinkStep \/ UartStep \/ LinkReturns
    BY <2>2 DEF Timer, LinkStep, UartStep, LinkReturns, readings, Spoil
  <2>3. CASE UNCHANGED ioVars
    BY <2>3 DEF ioVars, readings
  <2> QED BY <2>1, <2>2, <2>3 DEF IoNext, ServiceReturns, TimePasses
<1>3. CASE Other
  <2>1. "none" \notin Topics /\ "I2C" \notin {"LINK", "UART"}
    BY DEF Topics
  <2>2. popup' = FALSE \/ UNCHANGED <<page, popup>>
    BY <1>3, <2>1 DEF ReadingsKept
  <2> QED BY <1>3, <2>1, <2>2, RestKeeps
<1> QED BY <1>1, <1>2, <1>3, PollKeeps, PressKeeps, ReturnKeeps, AgeKeeps

-----------------------------------------------------------------------------
(* The theorems.                                                           *)

(* Every page that reads has a line and knows its model, evidence is one   *)
(* whole result, and the UART page's popup, log and port fit each other,   *)
(* in every state.                                                         *)
THEOREM IoPagesCorrect == IoSpec => []IoInv
<1>1. IoInit => IoKept
  BY SerialStart, LinkStart, ReadingsStart DEF IoKept
<1>2. IoKept /\ [IoNext]_ioVars => IoKept'
  BY SerialStays, LinkStays, ReadingsStays DEF IoKept
<1>3. IoKept => IoInv
  BY SerialFits, LinkFits, ReadingsFit DEF IoKept, IoInv, LinkInv, SerialInv
<1> QED BY <1>1, <1>2, <1>3, PTL DEF IoSpec

(* refresh: a step but for 'r' keeps a view that shows its model at that.  *)
LEMMA FollowSteps ==
  ASSUME ReadingsKept, [IoNext]_ioVars, page \in Topics, page' = page, ~PressRefresh,
         shown = Drawn(page, data[page])
  PROVE  shown' = Drawn(page, data'[page])
<1>1. CASE Poll
  <2>1. Refresh(page, FALSE) /\ Draw(page, Changed(page, FALSE))
    BY <1>1 DEF Poll
  <2>2. data'[page] = Refreshed(page, FALSE)
    BY <2>1, Refreshes DEF ReadingsKept
  <2>3. CASE Changed(page, FALSE)
    BY <2>1, <2>3 DEF Draw
  <2>4. CASE ~Changed(page, FALSE)
    BY <2>1, <2>2, <2>4 DEF Draw, Changed
  <2> QED BY <2>3, <2>4
<1>2. Poll \/ UNCHANGED <<data, shown>>
  <2>1. page # "none" /\ page # "LINK" /\ page # "UART"
    BY DEF Topics
  <2>2. \A p : ~OpenPage(p)
    BY <2>1 DEF OpenPage
  <2>3. ~ClosePage
    BY <2>1 DEF ClosePage, Leave
  <2> QED BY <2>2, <2>3 DEF IoNext, Timer, LinkStep, UartStep, LinkReturns, ServiceReturns,
                  TimePasses, ReadFinish, Age, readings, ioVars
<1> QED BY <1>1, <1>2

(* A view that shows what its model has goes on to, but for the 'r' key.   *)
THEOREM ViewFollowsModel == IoSpec => PanelFollows
<1>1. IoInit => IoKept
  BY SerialStart, LinkStart, ReadingsStart DEF IoKept
<1>2. IoKept /\ [IoNext]_ioVars => IoKept'
  BY SerialStays, LinkStays, ReadingsStays DEF IoKept
<1>3. IoKept /\ [IoNext]_ioVars =>
        [(page \in Topics /\ page' = page /\ shown = Drawn(page, data[page]) /\ ~PressRefresh)
           => shown' = Drawn(page, data'[page])]_<<page, task, data, aged, shown, popup>>
  BY FollowSteps DEF IoKept
<1> QED BY <1>1, <1>2, <1>3, PTL DEF IoSpec, PanelFollows

(* A hold that was used types nothing, the line grows by one character at  *)
(* a time, and a speed that comes to differ from the port's is told.       *)
THEOREM SerialStepsHold == IoSpec => SerialSteps
<1>1. IoInit => IoKept
  BY SerialStart, LinkStart, ReadingsStart DEF IoKept
<1>2. IoKept /\ [IoNext]_ioVars => IoKept'
  BY SerialStays, LinkStays, ReadingsStays DEF IoKept
<1>3. IoKept /\ [IoNext]_ioVars =>
        [/\ input' > input => input' = input + 1
         /\ pending.consumed /\ pending' = Uart!NoHold => input' <= input]_Uart!uartVars
  BY HoldsSteps DEF IoKept
<1>4. IoKept /\ [IoNext]_ioVars =>
        [session /\ session' /\ baud' # port_rate' /\ <<baud', port_rate'>> # <<baud, port_rate>>
           => told' = "failed"]_Uart!uartVars
  BY DifferenceSteps DEF IoKept
<1> QED BY <1>1, <1>2, <1>3, <1>4, PTL
    DEF IoSpec, SerialSteps, Uart!HeldIsNotTyped, Uart!DifferenceIsTold

(* refresh: what a model takes tells of the system its task met.           *)
LEMMA TakenTells ==
  ASSUME ReadingsKept, [IoNext]_ioVars, NEW t \in Topics, data'[t] # data[t]
  PROVE  data'[t] = Placeholder \/ \E w \in task[t].met : Tells(t, w, data'[t])
<1>1. PICK u \in Topics, force \in BOOLEAN : Refresh(u, force)
  <2>1. UNCHANGED data \/ Poll \/ PressRefresh \/ \E p \in Topics : Enter(p)
    BY DEF IoNext, OpenPage, ClosePage, Leave, Timer, LinkStep, UartStep, LinkReturns,
           ServiceReturns, TimePasses, ReadFinish, Age, readings, ioVars
  <2>2. CASE Poll
    BY <2>2 DEF Poll
  <2>3. CASE PressRefresh
    <3>1. page \in Topics /\ page = active
      BY <2>3 DEF PressRefresh, ReadingsKept, Topics
    <3> QED BY <2>3, <3>1 DEF PressRefresh
  <2>4. CASE \E p \in Topics : Enter(p)
    BY <2>4 DEF Enter
  <2> QED BY <2>1, <2>2, <2>3, <2>4
<1>2. data'[u] = Refreshed(u, force) /\ \A x \in Topics \ {u} : data'[x] = data[x]
  BY <1>1, Refreshes DEF ReadingsKept
<1>3. u = t
  BY <1>2
<1>4. data'[t] = Placeholder \/ (task[t].phase = "done" /\ data'[t] = task[t].reading)
  BY <1>2, <1>3 DEF Refreshed, Taken
<1>5. task[t].phase = "done" => \E w \in task[t].met : Tells(t, w, task[t].reading)
  BY AnswerTells DEF ReadingsKept, Models, Met
<1> QED BY <1>4, <1>5

(* A test that ends is the link's own step.                                *)
LEMMA LinkEnds ==
  ASSUME LinkKept, [IoNext]_ioVars, test.phase = "running", test'.phase = "done"
  PROVE  Link!LinkFinish
<1>1. CASE Link!OpenLink \/ Link!PollLink \/ Link!Restart
  <2>1. PICK force \in BOOLEAN, new \in BOOLEAN : Link!RefreshLink(force, new)
    BY <1>1 DEF Link!OpenLink, Link!PollLink, Link!Restart
  <2>2. test'.phase = "running" \/ test'.phase = test.phase
    BY <2>1, StartedIsOne, Refreshing DEF LinkKept
  <2> QED BY <2>2
<1>2. CASE Link!ApplyDialog
  <2>1. test' = [test EXCEPT !.own = FALSE]
    BY <1>2 DEF Link!ApplyDialog
  <2>2. test'.phase = test.phase
    BY <2>1 DEF LinkKept, OneTest, IsTest
  <2> QED BY <2>2
<1>3. CASE Link!LeaveLink \/ Link!ShowDialog \/ Link!EditDialog \/ Link!CancelDialog \/ UNCHANGED link
  BY <1>3 DEF Link!LeaveLink, Link!ShowDialog, Link!EditDialog, Link!CancelDialog, link
<1> QED BY <1>1, <1>2, <1>3, LinkMoves DEF Link!LinkStep

(* Whatever was opened and left meanwhile: what a model takes tells truly  *)
(* of the system its own task met, and a link test that ends measured one. *)
THEOREM ServicesAnswerSoundly == IoSpec => AnswersSound
<1>1. IoInit => IoKept
  BY SerialStart, LinkStart, ReadingsStart DEF IoKept
<1>2. IoKept /\ [IoNext]_ioVars => IoKept'
  BY SerialStays, LinkStays, ReadingsStays DEF IoKept
<1>3. IoKept /\ [IoNext]_ioVars =>
        [\A t \in Topics : data'[t] # data[t] =>
           data'[t] = Placeholder \/ \E w \in task[t].met : Tells(t, w, data'[t])]_readings
  BY TakenTells DEF IoKept
<1>4. IoKept /\ [IoNext]_ioVars =>
        [test.phase = "running" /\ test'.phase = "done" =>
           \E w \in LinkSeen : /\ Link!Measured(w, test.host, TRUE, test'.metrics.wifi)
                               /\ Link!Measured(w, test.host, FALSE, test'.metrics.ethernet)]_Link!linkVars
  BY LinkEnds, LinkIsMeasured DEF IoKept
<1> QED BY <1>1, <1>2, <1>3, <1>4, PTL
    DEF IoSpec, AnswersSound, ReadingsTell, Link!LinkMeasured
=============================================================================
