-------------------------------- MODULE ExtIo --------------------------------
(***************************************************************************)
(* The EXT.IO page (ext_io_page.cpp) over the line service                 *)
(* (gpio_service.cpp): two power switches and the GPIO lines of the HAT,   *)
(* shown and driven as outputs, or shown as inputs that a timer polls.     *)
(*                                                                         *)
(* The service keeps the lines set as outputs in a map of the process; the *)
(* page keeps an object of its own per input row.  The kernel gives a line *)
(* to one request at a time, also within one process.  All of it runs on   *)
(* the interface thread, one handler at a time; a handler is one step.     *)
(***************************************************************************)
EXTENDS Naturals, SequencesExt

CONSTANTS
  Lines,          (* the GPIO lines, in the order of their rows             *)
  MaxFaults       (* calls that fail                                        *)

(* Assumed by HatPages, which has the constants.                            *)
ExtIoAssumption ==
  /\ Lines \in Seq({"22", "23", "26"}) /\ Lines # <<>> /\ IsInjective(Lines)
  /\ MaxFaults \in Nat

VARIABLES
  hw,             (* the host's switches; this module uses ext5v, grove5v   *)
  requests,       (* GPIO lines this process has requested                  *)
  outputs, inputs,(* of these: by the service's map, by the page's rows     *)
  level,          (* of every line                                          *)
  open,           (* the page is on display                                 *)
  io_function, dialog, selected_index,
  rows,           (* per row: active and error, as shown                    *)
  faults

shown == <<io_function, dialog, selected_index, rows>>
held  == <<requests, outputs, inputs>>
vars  == <<hw, held, level, open, shown, faults>>

Row       == <<"ext5v", "grove5v">> \o Lines
Rows      == DOMAIN Row
Switches  == {"ext5v", "grove5v"}
LineSet   == ToSet(Lines)
IsLine(i) == Row[i] \in LineSet
On(s)     == hw[s] = "on"

FaultsAfter(k) == faults + k <= MaxFaults /\ faults' = faults + k

-----------------------------------------------------------------------------
(* The line service.                                                       *)

(* A request of the map for a line fails while a row holds it.             *)
FreeForOutput(l) == l \notin inputs

Hold(outs, ins) == outputs' = outs /\ inputs' = ins /\ requests' = outs \cup ins

(* read_output_states_: a switch or a line that cannot be read is shown    *)
(* off, as an error.                                                       *)
OutputRows(failing, ins, levels) ==
  [i \in Rows |->
    IF i \in failing \/ Row[i] \in ins
    THEN [active |-> FALSE, error |-> TRUE]
    ELSE [active |-> IF IsLine(i) THEN levels[Row[i]] ELSE On(Row[i]), error |-> FALSE]]

(* read_input_states_: the rows of the lines; a line is requested once and *)
(* given back only when it cannot be read.                                 *)
InputRows(failing, outs) ==
  [i \in Rows |->
    IF ~IsLine(i) THEN rows[i]
    ELSE IF i \in failing \/ Row[i] \in outs THEN [active |-> FALSE, error |-> TRUE]
    ELSE [active |-> level[Row[i]], error |-> FALSE]]

InputsRead(failing, outs) == {Row[i] : i \in {j \in Rows : IsLine(j)} \ failing} \ outs

Visible(function, i) == function = "OUTPUT" \/ IsLine(i)
FirstVisible(function) == CHOOSE i \in Rows : Visible(function, i)
                                   /\ \A j \in 1..(i - 1) : ~Visible(function, j)

(* At most one row fails per reading.                                      *)
Failing == {{}} \cup {{i} : i \in Rows}
Count(failing) == IF failing = {} THEN 0 ELSE 1

-----------------------------------------------------------------------------
(* The page.                                                               *)

(* A toggle that succeeds clears the error of the row.                     *)
Toggled(row) == [active |-> ~row.active, error |-> FALSE]

(* Enter or a click on a switch: write_sysfs_binary_value.                 *)
ToggleSwitch(i) ==
  /\ ~IsLine(i)
  /\ LET set == [hw EXCEPT ![Row[i]] = IF rows[i].active THEN "off" ELSE "on"]
     IN  \/ /\ FaultsAfter(0) /\ hw' = set
            /\ rows' = [rows EXCEPT ![i] = Toggled(@)]
         \/ /\ FaultsAfter(1) /\ hw' \in {hw, set}
            /\ rows' = [rows EXCEPT ![i].error = TRUE]
  /\ UNCHANGED <<held, level>>

(* On a line: set_output_value.  A call that fails may have set the level, *)
(* and may or may not keep the request.                                    *)
ToggleLine(i) ==
  /\ IsLine(i)
  /\ LET l    == Row[i]
         high == ~rows[i].active
         set  == [level EXCEPT ![l] = high]
     IN  \/ /\ FreeForOutput(l) /\ FaultsAfter(0)
            /\ level' = set /\ Hold(outputs \cup {l}, inputs)
            /\ rows' = [rows EXCEPT ![i] = Toggled(@)]
         \/ /\ IF FreeForOutput(l) THEN FaultsAfter(1) ELSE FaultsAfter(0)
            /\ \/ level' \in {level, set} /\ FreeForOutput(l) /\ Hold(outputs \cup {l}, inputs)
               \/ UNCHANGED level /\ Hold(outputs \ {l}, inputs)
            /\ rows' = [rows EXCEPT ![i].error = TRUE]
  /\ UNCHANGED hw

Toggle ==
  /\ open /\ dialog = "none" /\ io_function = "OUTPUT"
  /\ ToggleSwitch(selected_index) \/ ToggleLine(selected_index)
  /\ UNCHANGED <<open, io_function, dialog, selected_index>>

(* Up and down move to the next row that can be seen.                      *)
Select ==
  /\ open /\ dialog = "none"
  /\ \E i \in Rows \ {selected_index} :
       /\ Visible(io_function, i)
       /\ \A j \in Rows : (i < j /\ j < selected_index) \/ (selected_index < j /\ j < i)
                            => ~Visible(io_function, j)
       /\ selected_index' = i
  /\ UNCHANGED <<hw, held, level, open, io_function, dialog, rows, faults>>

ShowConfigDialog ==
  /\ open /\ dialog = "none"
  /\ dialog' = io_function
  /\ UNCHANGED <<hw, held, level, open, io_function, selected_index, rows, faults>>

StepFunctionSelection ==
  /\ open /\ dialog # "none"
  /\ dialog' = IF dialog = "OUTPUT" THEN "INPUT" ELSE "OUTPUT"
  /\ UNCHANGED <<hw, held, level, open, io_function, selected_index, rows, faults>>

HideConfigDialog ==
  /\ open /\ dialog # "none"
  /\ dialog' = "none"
  /\ UNCHANGED <<hw, held, level, open, io_function, selected_index, rows, faults>>

(* Mutant: the function changes and the lines of the old one stay.         *)
BecomeInputHolding(failing) ==
  /\ Hold(outputs, InputsRead(failing, outputs))
  /\ rows' = InputRows(failing, outputs)

(* release_output_lines_, then the rows request the lines as inputs.  The  *)
(* switches' rows, which are hidden, were cleared.                         *)
BecomeInput(failing) ==
  /\ Hold({}, InputsRead(failing, {}))
  /\ rows' = [InputRows(failing, {}) EXCEPT ![1] = [active |-> FALSE, error |-> FALSE],
                                            ![2] = [active |-> FALSE, error |-> FALSE]]

(* release_input_lines_, then every row is read again.                     *)
BecomeOutput(failing) ==
  /\ Hold(outputs, {})
  /\ rows' = OutputRows(failing, {}, level)

(* apply_config_dialog_: nothing more happens when nothing was changed.    *)
ApplyConfig ==
  /\ open /\ dialog # "none"
  /\ dialog' = "none"
  /\ IF dialog = io_function THEN UNCHANGED <<held, io_function, selected_index, rows, faults>>
     ELSE \E failing \in Failing :
            /\ FaultsAfter(Count(failing))
            /\ IF io_function = "INPUT" THEN BecomeOutput(failing) ELSE BecomeInput(failing)
            /\ io_function' = dialog
            /\ selected_index' = IF Visible(dialog, selected_index) THEN selected_index
                                 ELSE FirstVisible(dialog)
  /\ UNCHANGED <<hw, level, open>>

(* input_poll_timer_cb: every row is read again, in a dialog too.          *)
Poll ==
  /\ open /\ io_function = "INPUT"
  /\ \E failing \in Failing :
       /\ FaultsAfter(Count(failing))
       /\ Hold(outputs, InputsRead(failing, outputs))
       /\ rows' = InputRows(failing, outputs)
  /\ UNCHANGED <<hw, level, open, io_function, dialog, selected_index>>

(* Whatever is connected drives a line that the host does not drive.       *)
Drive ==
  /\ open
  /\ \E l \in LineSet \ outputs : level' = [level EXCEPT ![l] = ~@]
  /\ UNCHANGED <<hw, held, open, shown, faults>>

(* What is connected meanwhile is not known to the page.                   *)
Open ==
  /\ ~open
  /\ open' = TRUE
  /\ level' \in [LineSet -> BOOLEAN]
  /\ \E failing \in Failing :
       /\ FaultsAfter(Count(failing))
       /\ rows' = OutputRows(failing, inputs, level')
  /\ UNCHANGED <<hw, held, io_function, dialog, selected_index>>

(* Mutant: the page goes and the service's map keeps its lines.            *)
CloseKeepingOutputs ==
  /\ open /\ open' = FALSE
  /\ Hold(outputs, {})
  /\ UNCHANGED <<hw, level, shown, faults>>

(* ~ExtIoConnectivityView: both kinds of lines; a switch stays as it is.   *)
Close ==
  /\ open /\ open' = FALSE
  /\ Hold({}, {})
  /\ rows' = [i \in Rows |-> [active |-> FALSE, error |-> FALSE]]
  /\ io_function' = "OUTPUT" /\ dialog' = "none" /\ selected_index' = 1
  /\ level' = [l \in LineSet |-> FALSE]
  /\ UNCHANGED <<hw, faults>>

ExtIoInit ==
  /\ outputs = {} /\ inputs = {} /\ level = [l \in LineSet |-> FALSE]
  /\ open = FALSE /\ io_function = "OUTPUT" /\ dialog = "none" /\ selected_index = 1
  /\ rows = [i \in Rows |-> [active |-> FALSE, error |-> FALSE]]

Next ==
  \/ Toggle \/ Select \/ ShowConfigDialog \/ StepFunctionSelection \/ HideConfigDialog
  \/ ApplyConfig \/ Poll \/ Drive \/ Close
-----------------------------------------------------------------------------
(* Properties.                                                             *)

(* Types of the page's and the lines' state.                               *)
TypeOK ==
  /\ outputs \subseteq LineSet /\ inputs \subseteq LineSet
  /\ level \in [LineSet -> BOOLEAN] /\ open \in BOOLEAN
  /\ io_function \in {"OUTPUT", "INPUT"} /\ dialog \in {"none", "OUTPUT", "INPUT"}
  /\ selected_index \in Rows
  /\ rows \in [Rows -> [active : BOOLEAN, error : BOOLEAN]]
  /\ faults \in 0..MaxFaults

(* apply_config_dialog_: the page is never in its own way: a line is held  *)
(* by the map or by a row, as the function says, never by both.            *)
OneHolder ==
  /\ inputs # {} => io_function = "INPUT" /\ open
  /\ outputs # {} => io_function = "OUTPUT" /\ open

(* toggle_row_, read_output_states_: a row without an error shows what the *)
(* switch is, or the line once the page drives it, although toggles that   *)
(* failed may have changed it.                                             *)
ShownAsIs ==
  open /\ io_function = "OUTPUT" =>
    \A i \in Rows : ~rows[i].error =>
      IF Row[i] \in Switches THEN rows[i].active = On(Row[i])
      ELSE Row[i] \in outputs => rows[i].active = level[Row[i]]

(* A row shows an error only after a call that failed for an outer reason: *)
(* lines released too late would be busy.                                  *)
ErrorsComeFromOutside == faults = 0 => \A i \in Rows : ~rows[i].error

(* ensure_selected_visible_: the row that Enter acts on can be seen.       *)
SelectedIsVisible == Visible(io_function, selected_index)

(* The state is of its types, the lines have one holder, and what is shown *)
(* is what the hardware is.                                                *)
Inv == TypeOK /\ OneHolder /\ ShownAsIs /\ ErrorsComeFromOutside /\ SelectedIsVisible
=============================================================================
