------------------------------ MODULE UartPage ------------------------------
(***************************************************************************)
(* The UART page (uart_page.cpp) on its serial session (uart_service.cpp). *)
(* Most keys are typed into a line that Enter sends.  Keys that also have  *)
(* a meaning when they are held are typed when they are released, unless   *)
(* they were held.  The keyboard router tells the page of every press, but *)
(* of the release and the hold only of the key pressed last.               *)
(*                                                                         *)
(* Of the typed line and of the port's lines only what the properties      *)
(* tell apart is kept: how long the line is, and what was last said of the *)
(* speed.                                                                  *)
(***************************************************************************)
EXTENDS Naturals

CONSTANTS
  Rates,                                   (* the speeds of the list, as 1 .. n        *)
  MaxInput,                                (* K_MAX_INPUT_CHARS                        *)
  HoldKeys                                 (* those of the keys to hold that are used  *)

VARIABLES
  uart,                                    (* the page is open                         *)
  bus,                                     (* of the external bus: "uart" or "i2c"     *)
  session, port_rate,                      (* the open port and its speed              *)
  baud, saved_baud,                        (* of the page and of the configuration     *)
  told,                                    (* last said of the speed                   *)
  status,                                  (* the log is hidden behind a message       *)
  input,                                   (* characters typed                         *)
  pending, hold_popup,                     (* the hold that began, its popup           *)
  choice,                                  (* of the dialog, 0 when there is none      *)
  down                                     (* the key to hold that was pressed last    *)

uartVars == <<uart, bus, session, port_rate, baud, saved_baud, told, status, input, pending,
              hold_popup, choice, down>>

(* Assumed by IoPages, which has the constants.                             *)
UartAssumption ==
  /\ Rates \in Nat \ {0} /\ MaxInput \in Nat \ {0}
  /\ HoldKeys \subseteq {"r", "six", "t", "four", "esc"}

-----------------------------------------------------------------------------
(* Keys: one that is only typed, Enter, Backspace, and those to hold.      *)

HoldAction == [r |-> "CLEAR_BUFFER", six |-> "BAUD_SETTINGS", t |-> "THEME_TOGGLE",
               four |-> "EXIT_UART", esc |-> "EXIT_UART"]
Typed    == HoldKeys \ {"esc"}                   (* released early, a character *)
UartKeys == HoldKeys \cup {"a", "enter", "backspace"}

NoHold == [action |-> "NONE", key |-> "none", consumed |-> FALSE]
NoKey  == "none"

ActionOf(k) == IF k \in HoldKeys THEN HoldAction[k] ELSE "NONE"

(* pending_hold_matches_: of the action, not of the key.                   *)
PendingMatches(k) == pending.action # "NONE" /\ ActionOf(k) = pending.action

(* append_input_char_: what is too much is not taken.                      *)
Append1 == IF input < MaxInput THEN input + 1 ELSE input

-----------------------------------------------------------------------------
(* The session.                                                            *)

(* UartDebugSession::open and configure_uart_port: the console has it, it  *)
(* cannot be opened, or it is open with this speed.                        *)
OpenOutcomes == {"occupied", "failed", "ok"}

(* show_status_: the log is hidden behind a message, or shown.             *)
ShowStatus(hides) == status' = hides

(* open_session_: the bus is switched, a failure to do so is ignored.      *)
OpenSession(rate) ==
  \E outcome \in OpenOutcomes :
    /\ bus' \in {bus, "uart"}
    /\ session' = (outcome = "ok")
    /\ port_rate' = IF outcome = "ok" THEN rate ELSE 0
    /\ ShowStatus(outcome # "ok")
    /\ told' = IF outcome = "ok" THEN "opened" ELSE told

(* configure_uart_port: raw, no flow control, this speed.                  *)
Configure(rate) == port_rate' = rate

(* Mutant: the new speed is announced before it is tried.                  *)
SetBaudRateTold(rate) ==
  /\ port_rate' \in {port_rate, rate}
  /\ told' = "set"

(* set_baud_rate, and what apply_config_dialog_ says of it: the port is    *)
(* drained, flushed and configured, or keeps its speed.                    *)
SetBaudRate(rate) ==
  \/ Configure(rate) /\ told' = "set"
  \/ UNCHANGED port_rate /\ told' = "failed"

-----------------------------------------------------------------------------
(* The page.                                                               *)

Build ==
  /\ ~uart /\ uart' = TRUE
  /\ baud' = saved_baud
  /\ input' = 0 /\ pending' = NoHold /\ hold_popup' = FALSE /\ choice' = 0 /\ down' = NoKey
  /\ OpenSession(saved_baud)
  /\ UNCHANGED saved_baud

Typing(n) == input' = n /\ UNCHANGED <<uart, bus, session, port_rate, baud, saved_baud, told, status,
                                       choice>>

(* begin_hold_action_, show_hold_popup_                                    *)
BeginHold(k) ==
  /\ pending' = [action |-> HoldAction[k], key |-> k, consumed |-> FALSE]
  /\ hold_popup' = TRUE

(* handle_key without a dialog.  Enter: send_input_ takes the whole line,  *)
(* and what cannot be written is lost.                                     *)
Press(k) ==
  /\ uart /\ choice = 0
  /\ down' = IF k \in HoldKeys THEN k ELSE NoKey
  /\ IF k \in HoldKeys
     THEN BeginHold(k)
     ELSE UNCHANGED <<pending, hold_popup>>
  /\ Typing(CASE k = "enter" -> 0
              [] k = "backspace" -> IF input = 0 THEN 0 ELSE input - 1
              [] k = "a" -> Append1
              [] k \in HoldKeys -> input)

(* The dialog takes a press; only a key it opened or closed with is        *)
(* forgotten by the router.                                                *)
PressInDialog(k) ==
  /\ uart /\ choice # 0 /\ k \in HoldKeys \ {"four", "esc"}
  /\ down' = k
  /\ Typing(input) /\ UNCHANGED <<pending, hold_popup>>

(* Mutant: the key is typed also when it was held.                         *)
ReleaseTypes(k) ==
  /\ uart /\ down = k
  /\ down' = NoKey
  /\ IF PendingMatches(k)
     THEN pending' = NoHold /\ hold_popup' = FALSE
          /\ Typing(IF pending.key \in Typed THEN Append1 ELSE input)
     ELSE Typing(input) /\ UNCHANGED <<pending, hold_popup>>

(* handle_key_release.  The router forgets a key that is not the last, and *)
(* the key that opened or closed a dialog.                                 *)
Release(k) ==
  /\ uart /\ down = k
  /\ down' = NoKey
  /\ IF PendingMatches(k)
     THEN pending' = NoHold /\ hold_popup' = FALSE
          /\ Typing(IF pending.key \in Typed /\ ~pending.consumed THEN Append1 ELSE input)
     ELSE Typing(input) /\ UNCHANGED <<pending, hold_popup>>

(* Mutant: the popup stays when the hold has done its work.                *)
ConsumedShown == pending' = [pending EXCEPT !.consumed = TRUE] /\ UNCHANGED hold_popup

Consumed == pending' = [pending EXCEPT !.consumed = TRUE] /\ hold_popup' = FALSE

(* show_config_dialog: it begins with the page's speed.                    *)
ShowConfigDialog == choice' = baud

(* handle_long_key: the key is held for long, once, and its hold is the    *)
(* one that is pending.  Clearing the buffers also reads and drops what    *)
(* came; the theme and the screenshot are not the page's.                  *)
Long(k) ==
  /\ uart /\ choice = 0 /\ down = k /\ PendingMatches(k) /\ ~pending.consumed
  /\ pending.action # "EXIT_UART"
  /\ Consumed
  /\ input' = IF pending.action = "CLEAR_BUFFER" THEN 0 ELSE input
  /\ told' = IF pending.action = "CLEAR_BUFFER" THEN "none" ELSE told
  /\ IF pending.action = "BAUD_SETTINGS" THEN ShowConfigDialog ELSE choice' = 0
  /\ down' = IF pending.action = "BAUD_SETTINGS" THEN NoKey ELSE down
  /\ UNCHANGED <<uart, bus, session, port_rate, baud, saved_baud, status>>

(* The same for Escape and '4': the page is left, the port is drained and  *)
(* closed.                                                                 *)
LeaveUart ==
  /\ uart /\ choice = 0 /\ pending.action = "EXIT_UART" /\ ~pending.consumed
  /\ down \in {"esc", "four"}
  /\ uart' = FALSE /\ session' = FALSE /\ port_rate' = 0
  /\ input' = 0 /\ told' = "none" /\ status' = FALSE
  /\ pending' = NoHold /\ hold_popup' = FALSE /\ down' = NoKey /\ choice' = 0
  /\ UNCHANGED <<bus, baud, saved_baud>>

(* step_baud_selection_: up or down, around.                               *)
Step(delta) ==
  /\ uart /\ choice # 0
  /\ choice' = ((choice - 1 + delta + Rates) % Rates) + 1
  /\ UNCHANGED <<uart, bus, session, port_rate, baud, saved_baud, told, status, input, pending,
                 hold_popup, down>>

(* hide_config_dialog_.                                                    *)
Cancel ==
  /\ uart /\ choice # 0 /\ choice' = 0 /\ down' = NoKey
  /\ UNCHANGED <<uart, bus, session, port_rate, baud, saved_baud, told, status, input, pending,
                 hold_popup>>

(* apply_config_dialog_: the speed is the page's and saved before it is    *)
(* tried; without a session one is opened.                                 *)
Apply ==
  /\ uart /\ choice # 0 /\ choice' = 0 /\ down' = NoKey
  /\ baud' = choice /\ saved_baud' = choice
  /\ IF session THEN SetBaudRate(choice) /\ UNCHANGED <<bus, session, status>>
     ELSE OpenSession(choice)
  /\ UNCHANGED <<uart, input, pending, hold_popup>>

UartInit ==
  /\ uart = FALSE /\ session = FALSE /\ port_rate = 0
  /\ saved_baud \in 1 .. Rates /\ baud = saved_baud
  /\ told = "none" /\ status = FALSE /\ input = 0
  /\ pending = NoHold /\ hold_popup = FALSE /\ choice = 0 /\ down = NoKey

UartStep ==
  \/ \E k \in UartKeys : Press(k) \/ PressInDialog(k) \/ Release(k) \/ Long(k)
  \/ \E delta \in {Rates - 1, 1} : Step(delta)
  \/ Cancel \/ Apply

-----------------------------------------------------------------------------
(* Properties.                                                             *)

(* begin_hold_action_, handle_key_release, open_session_: the popup asks   *)
(* to hold exactly while a hold that began has not been used; the log is   *)
(* hidden exactly when no port is open; the line fits.                     *)
UartInv ==
  /\ hold_popup = (pending.action # "NONE" /\ ~pending.consumed)
  /\ uart => status = ~session
  /\ ~uart => ~session /\ choice = 0
  /\ (port_rate # 0) = session
  /\ input \in 0 .. MaxInput /\ choice \in 0 .. Rates

(* handle_long_key, handle_key_release: a hold that was used types nothing *)
(* when its key is let go, and the line grows by one character at a time,  *)
(* at the press of a plain key or at the release of a key that was tapped. *)
HeldIsNotTyped ==
  [][/\ input' > input => input' = input + 1
     /\ pending.consumed /\ pending' = NoHold => input' <= input]_uartVars

(* apply_config_dialog_: the speed of the page and of the configuration    *)
(* may come to differ from the port's only in a step that says so.         *)
DifferenceIsTold ==
  [][session /\ session' /\ baud' # port_rate' /\ <<baud', port_rate'>> # <<baud, port_rate>>
       => told' = "failed"]_uartVars
=============================================================================
