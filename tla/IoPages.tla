------------------------------- MODULE IoPages ------------------------------
(***************************************************************************)
(* IoTestPage: the connectivity pages, one open at a time on one interface *)
(* loop, in any order and again and again.  What outlives a page: the      *)
(* models with their tasks (Readings, LinkTest), the saved settings, and   *)
(* the external bus, which the I2C page switches to I2C and the UART page  *)
(* to the UART, neither of them back.                                      *)
(***************************************************************************)
EXTENDS Readings

CONSTANTS
  Hosts, DefaultHost, LinkSeen, WifiMinimum, EthernetMinimum,           (* LinkTest *)
  Rates, MaxInput, HoldKeys                                                (* UartPage *)

VARIABLES
  view, in_sequence, test, snapshot, settings, saved_host, text, drawn, recorded, attempt,
  inherits,                                                             (* LinkTest *)
  uart, session, port_rate, baud, saved_baud, told, status, input, pending, hold_popup, choice,
  down                                                                  (* UartPage *)

Link == INSTANCE LinkTest
Uart == INSTANCE UartPage

ASSUME IoAssumption == ReadingsAssumption /\ Link!LinkAssumption /\ Uart!UartAssumption

link   == <<view, in_sequence, test, snapshot, settings, saved_host, text, drawn, recorded,
            attempt, inherits>>
serial == <<uart, session, port_rate, baud, saved_baud, told, status, input, pending, hold_popup,
            choice, down>>
ioVars == <<page, opened, bus, readings, link, serial>>

Pages == Topics \cup {"LINK", "UART"}

IoInit ==
  /\ ReadingsInit /\ Link!LinkInit /\ Uart!UartInit

(* A scan of the bus that runs while it is switched is spoiled.            *)
Spoil ==
  spoiled' = IF bus' # "i2c" /\ task["I2C"].phase = "running" THEN spoiled \cup {"task"}
             ELSE spoiled

(* The page's constructor: show_subpage, build_content.                    *)
OpenPage(p) ==
  /\ page = "none" /\ \E tour \in Tours : opened \cup {p} \subseteq tour
  /\ opened' = opened \cup {p}
  /\ \/ p \in Topics /\ Enter(p) /\ UNCHANGED <<link, serial>>
     \/ /\ p = "LINK" /\ page' = p /\ active' = p
        /\ Link!OpenLink
        /\ UNCHANGED <<bus, task, data, aged, shown, popup, spoiled, serial>>
     \/ /\ p = "UART" /\ page' = p /\ active' = p
        /\ Uart!Build /\ Spoil
        /\ UNCHANGED <<task, data, aged, shown, popup, link>>

(* Its destructor.                                                         *)
ClosePage ==
  \/ Leave /\ UNCHANGED <<link, serial>>
  \/ /\ page = "LINK" /\ page' = "none" /\ Link!LeaveLink
     /\ UNCHANGED <<opened, bus, readings, serial>>
  \/ /\ page = "UART" /\ page' = "none" /\ Uart!LeaveUart
     /\ UNCHANGED <<opened, readings, link>>

LinkStep == Link!LinkStep /\ UNCHANGED <<page, opened, bus, readings, serial>>
UartStep ==
  /\ Uart!UartStep /\ Spoil
  /\ UNCHANGED <<page, opened, active, task, data, aged, shown, popup, link>>

(* What goes on whatever page is open.                                     *)
ServiceReturns(t) == ReadFinish(t) /\ UNCHANGED <<link, serial>>
TimePasses(t)     == Age(t) /\ UNCHANGED <<link, serial>>
LinkReturns       == Link!LinkFinish /\ UNCHANGED <<page, opened, bus, readings, serial>>

(* The timer of the view on display.                                       *)
Timer ==
  \/ Poll /\ UNCHANGED <<link, serial>>
  \/ Link!PollLink /\ UNCHANGED <<page, opened, bus, readings, serial>>

IoNext ==
  \/ \E p \in Pages : OpenPage(p)
  \/ ClosePage \/ Timer \/ LinkStep \/ UartStep \/ LinkReturns
  \/ PressRefresh /\ UNCHANGED <<link, serial>>
  \/ \E t \in Topics : ServiceReturns(t) \/ TimePasses(t)

(* Every call of a service has time limits and returns, timers fire, and   *)
(* time passes; it is enough to ask it of the page on display.  The user   *)
(* owes nothing.                                                           *)
IoFairness ==
  /\ WF_ioVars(Timer)
  /\ WF_ioVars(LinkReturns)
  /\ WF_ioVars(page \in Topics /\ ServiceReturns(page))
  /\ WF_ioVars(page \in Topics /\ TimePasses(page))

IoSpec == IoInit /\ [][IoNext]_ioVars /\ IoFairness

-----------------------------------------------------------------------------
(* Properties: those of Readings are PanelFollows, Settles, GridRecovers.  *)

(* Readings: types, and no page without a line.                            *)
ReadingsInv == TypeOK /\ NeverBlank

(* Readings, LinkTest: what a model takes tells truly of the system its    *)
(* own task met, whatever was opened and left in between.                  *)
AnswersSound == ReadingsTell /\ Link!LinkMeasured

(* LinkTest: evidence is one whole result that has ended.                  *)
LinkInv == Link!EvidenceIsOneResult

(* Readings, LinkTest: a page that says it is scanning, or that tests a    *)
(* link, has its answer in the end.                                        *)
AnswersShown == Settles /\ Link!Answered

(* UartPage: popup, log and port fit each other.                           *)
SerialInv == Uart!UartInv

(* No page shows, records or hides what its model and its port do not      *)
(* agree with.                                                             *)
IoInv == ReadingsInv /\ LinkInv /\ SerialInv

(* UartPage: a hold is not typed, a difference of speeds is told.          *)
SerialSteps == Uart!HeldIsNotTyped /\ Uart!DifferenceIsTold
=============================================================================
