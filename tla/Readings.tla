------------------------------ MODULE Readings ------------------------------
(***************************************************************************)
(* The connectivity pages that read and show: Wi-Fi, Bluetooth, Ethernet,  *)
(* USB, HDMI, SPI and I2C.  Each has a model of its own                    *)
(* (connectivity_test_model.cpp) that outlives the page, with one          *)
(* asynchronous task that asks the service (BusServices), and a view that  *)
(* polls the model and draws it again when the model says it changed.      *)
(*                                                                         *)
(* A task is not cancelled when its page is left; its answer waits.        *)
(***************************************************************************)
EXTENDS BusServices

CONSTANTS
  Seen,                                  (* what the system may answer: worlds by topic *)
  Tours                                  (* pages that one behaviour opens, in any order *)

VARIABLES
  page,                                  (* the page on display, or "none"              *)
  opened,                                (* the pages that have been opened             *)
  active,                                (* the view model's active page                *)
  bus,                                   (* what the external bus is switched to        *)
  task, data, aged,                      (* by topic: the model                         *)
  shown, popup,                          (* the view: its rows, and I2C's "Scanning"    *)
  spoiled                                (* I2C's "task" or "data" met a wrong bus      *)

Topics == {"WIFI", "BLUETOOTH", "ETHERNET", "USB", "HDMI", "I2C", "SPI"}

(* A system has finitely many access points, adapters and entries, and     *)
(* what it lists as an array has a first.                                  *)
ASSUME ReadingsAssumption ==
  /\ \A t \in Topics : Seen[t] # {}
  /\ \A w \in Seen["WIFI"] : WifiShape(w)
  /\ \A w \in Seen["BLUETOOTH"] : Strengths(w.known) /\ Strengths(w.found)
  /\ \A w \in Seen["ETHERNET"] : IsList(w.devices)
  /\ \A w \in Seen["USB"] : IsFiniteSet(w.entries)
  /\ \A w \in Seen["HDMI"] : IsList(w.connectors)
  /\ \A w \in Seen["SPI"] : IsFiniteSet(w.entries) /\ \A n \in w.entries : n.rank \in Int
  /\ \A w \in Seen["I2C"] :
       /\ IsList(w.addresses)
       /\ \A i \in DOMAIN w.addresses : w.addresses[i].select \in {"ok", "busy", "error"}
  /\ Tours # {}

readings == <<active, task, data, aged, shown, popup, spoiled>>

-----------------------------------------------------------------------------
(* The services and the rows.                                              *)

(* read_wifi_scan_result and its siblings.                                 *)
ReadTopic(t, w) ==
  CASE t = "WIFI"      -> ScanWifi(w)
    [] t = "BLUETOOTH" -> ScanBluetooth(w)
    [] t = "ETHERNET"  -> ReadEthernet(w)
    [] t = "USB"       -> ListUsbDevices(w)
    [] t = "HDMI"      -> ReadHdmi(w)
    [] t = "I2C"       -> ScanI2cBus(w)
    [] t = "SPI"       -> ListSpiDevices(w)

(* What an answer tells of the system it was asked of.                     *)
Tells(t, w, r) ==
  CASE t = "WIFI"      -> WifiTells(w, r)
    [] t = "BLUETOOTH" -> BluetoothTells(w, r)
    [] t = "ETHERNET"  -> EthernetTells(w, r)
    [] t = "USB"       -> UsbTells(w, r)
    [] t = "HDMI"      -> HdmiTells(w, r)
    [] t = "I2C"       -> I2cTells(w, r)
    [] t = "SPI"       -> SpiTells(w, r)

(* wifi_icon_for_strength: unknown, low, medium, high.                     *)
SignalIcon(strength) ==
  CASE strength < 0 -> "none" [] strength \in 0 .. 34 -> "low"
    [] strength \in 35 .. 69 -> "medium" [] strength >= 70 -> "high"

(* A row is its icon and its text; a hidden network has a name on display. *)
Row(t, item) ==
  CASE t = "WIFI" ->
         <<SignalIcon(item.strength), IF item.ssid = "none" THEN "<hidden>" ELSE item.ssid>>
    [] t # "WIFI" -> <<t, item>>

(* wifi_panel_rows and its siblings: the error, then the items.            *)
Rows(t, d) ==
  IF d = Nothing THEN <<<<"info", "nothing_found">>>>
  ELSE (IF d.error = "none" THEN <<>> ELSE <<<<"info", d.error>>>>)
       \o [i \in DOMAIN d.items |-> Row(t, d.items[i])]

(* i2c_address_states: the grid has a cell for every address; what was not *)
(* probed looks absent, and an error is not shown.                         *)
BlankGrid == <<>>
Grid(d) == SelectSeq([i \in DOMAIN d.items |-> <<i, d.items[i]>>], LAMBDA c : c[2] # "ABSENT")

Drawn(t, d) == IF t = "I2C" THEN Grid(d) ELSE Rows(t, d)

-----------------------------------------------------------------------------
(* The models.  A task also keeps, for the properties, the system that its *)
(* service met: the code has no such thing.                                *)

Idle     == [phase |-> "none", reading |-> Nothing, met |-> {}]
Asking   == [phase |-> "running", reading |-> Nothing, met |-> {}]
Placeholder == Failed("scanning")

(* Mutant: an answer without items is not kept.                            *)
TakenItems(t) ==
  IF task[t].phase = "done" /\ task[t].reading.items # <<>> THEN task[t].reading ELSE data[t]

(* The answer of the task, if it is there: future_ready, get.              *)
Taken(t) == IF task[t].phase = "done" THEN task[t].reading ELSE data[t]

(* A new task is started when there is none and five seconds have passed   *)
(* since the last was, or at once if it is forced.                         *)
Starts(t, force) == task[t].phase # "running" /\ (force \/ aged[t])

(* Mutant: nothing stands in for the first answer.                         *)
RefreshedBare(t, force) == Taken(t)

(* What a model has after a refresh: a placeholder if it never had data.   *)
Refreshed(t, force) ==
  IF Starts(t, force) /\ t # "I2C" /\ Taken(t) = Nothing THEN Placeholder ELSE Taken(t)

(* Mutant: the error does not count as a change.                           *)
ChangedItems(t, force) == Refreshed(t, force).items # data[t].items

(* Mutant: as the other models, I2C's does not tell that it started.       *)
ChangedData(t, force) == Refreshed(t, force) # data[t]

(* What refresh returns.  I2C's also tells that a scan began or ended.     *)
Changed(t, force) ==
  \/ Refreshed(t, force) # data[t]
  \/ t = "I2C" /\ (Starts(t, force) \/ task[t].phase = "done")

(* Which of I2C's task and data have met the bus in another mode: a task   *)
(* hands it on to the data.                                                *)
SpoiledAfter(starts) ==
  LET asked == IF starts THEN (IF bus' = "i2c" THEN {} ELSE {"task"})
               ELSE IF task["I2C"].phase = "running" THEN spoiled \cap {"task"} ELSE {}
      had   == IF task["I2C"].phase # "done" THEN spoiled \cap {"data"}
               ELSE IF "task" \in spoiled THEN {"data"} ELSE {}
  IN asked \cup had

(* WifiConnectivityModel::refresh and its siblings.                        *)
Refresh(t, force) ==
  /\ task' = [task EXCEPT ![t] = IF Starts(t, force) THEN Asking
                                 ELSE IF @.phase = "done" THEN Idle ELSE @]
  /\ data' = [data EXCEPT ![t] = Refreshed(t, force)]
  /\ aged' = [aged EXCEPT ![t] = @ /\ ~Starts(t, force)]
  /\ spoiled' = IF t = "I2C" THEN SpoiledAfter(Starts(t, force)) ELSE spoiled

-----------------------------------------------------------------------------
(* The views and the page around them.                                     *)

(* A refresh_ of the view: drawn again when the model changed, or when     *)
(* this view has not been drawn yet.  I2C's grid is drawn blank by build.  *)
Draw(t, changed) ==
  /\ shown' = IF changed THEN Drawn(t, data'[t]) ELSE shown
  /\ popup' = (t = "I2C" /\ task'[t].phase # "none")

(* IoTestPage, for the page of a topic: the bus is switched for I2C, and a *)
(* failure to do so is ignored; then the view is built.                    *)
Enter(t) ==
  /\ page' = t /\ active' = t
  /\ IF t = "I2C" THEN bus' \in {bus, "i2c"} ELSE UNCHANGED bus
  /\ Refresh(t, FALSE)
  /\ shown' = IF t = "I2C" /\ ~Changed(t, FALSE) THEN BlankGrid ELSE Drawn(t, data'[t])
  /\ popup' = (t = "I2C" /\ task'[t].phase # "none")

(* The view's timer.                                                       *)
Poll ==
  /\ page \in Topics
  /\ UNCHANGED <<page, opened, active, bus>>
  /\ Refresh(page, FALSE) /\ Draw(page, Changed(page, FALSE))

(* 'r' on these pages: refresh_active, of which the page drops the result: *)
(* what changed is not drawn by it.                                        *)
PressRefresh ==
  /\ page \in Topics
  /\ UNCHANGED <<page, opened, active, bus, shown, popup>>
  /\ Refresh(active, TRUE)

(* The page's destructor: the view goes, the model and its task stay.      *)
Leave ==
  /\ page \in Topics
  /\ page' = "none" /\ shown' = <<>> /\ popup' = FALSE
  /\ UNCHANGED <<opened, active, bus, task, data, aged, spoiled>>

(* Five seconds since the last task was started.                           *)
Age(t) ==
  /\ ~aged[t]
  /\ aged' = [aged EXCEPT ![t] = TRUE]
  /\ UNCHANGED <<page, opened, active, bus, task, data, shown, popup, spoiled>>

(* The service returns, whatever page is open.                             *)
ReadFinish(t) ==
  /\ task[t].phase = "running"
  /\ \E w \in Seen[t] :
       task' = [task EXCEPT ![t] = [phase |-> "done", reading |-> ReadTopic(t, w), met |-> {w}]]
  /\ UNCHANGED <<page, opened, active, bus, data, aged, shown, popup, spoiled>>

ReadingsInit ==
  /\ page = "none" /\ opened = {} /\ active = "none" /\ bus = "uart"
  /\ task = [t \in Topics |-> Idle]
  /\ data = [t \in Topics |-> Nothing]
  /\ aged = [t \in Topics |-> TRUE]
  /\ shown = <<>> /\ popup = FALSE /\ spoiled = {}

-----------------------------------------------------------------------------
(* Properties.                                                             *)

TypeOK ==
  /\ page = "none" \/ page = active \/ page \notin Topics
  /\ \A t \in Topics : task[t].phase \in {"none", "running", "done"} /\ aged[t] \in BOOLEAN
  /\ popup => page = "I2C"
  /\ spoiled \subseteq {"task", "data"}

(* refresh, scan_wifi and its siblings: whatever page was left, and        *)
(* however old the task, what a model takes is a placeholder or tells      *)
(* truly of the system its own service met: all there is and in order, or  *)
(* the right word about why there is nothing.                              *)
ReadingsTell ==
  [][\A t \in Topics : data'[t] # data[t] =>
       data'[t] = Placeholder \/ \E w \in task[t].met : Tells(t, w, data'[t])]_readings

(* refresh_, wifi_panel_rows: a page never shows an empty list without a   *)
(* word: from the moment it opens there is a device or a line that says    *)
(* why there is none, whatever the model was doing when the page was left  *)
(* the last time; a model with no data and no error is one nobody asked.   *)
NeverBlank ==
  /\ page \in Topics \ {"I2C"} => shown # <<>> /\ data[page] # Nothing
  /\ \A t \in Topics \ {"I2C"} : data[t] = Nothing => t \notin opened

(* refresh, refresh_: a view that shows what its model has goes on to, but *)
(* for the 'r' key, which takes an answer without drawing it.              *)
PanelFollows ==
  [][(page \in Topics /\ page' = page /\ shown = Drawn(page, data[page]) /\ ~PressRefresh)
       => shown' = Drawn(page, data'[page])]_<<page, task, data, aged, shown, popup>>

(* refresh: "Scanning..." does not stay: a page that shows it gets its     *)
(* reading, unless it is left.                                             *)
Settles ==
  page \in Topics /\ data[page] = Placeholder ~> page \notin Topics \/ data[page] # Placeholder

(* I2cConnectivityModel::refresh: the grid lags behind the model when the  *)
(* page opens on old data or 'r' takes an answer; the next scan draws it,  *)
(* and a reading taken while the bus was switched to the UART goes, if the *)
(* bus can be switched back.  Only 'r' again and again keeps the grid old. *)
GridRecovers ==
  \/ []<><<PressRefresh>>_<<page, task, data, aged, shown, popup>>
  \/ /\ page = "I2C" /\ shown # Drawn("I2C", data["I2C"])
          ~> page # "I2C" \/ shown = Drawn("I2C", data["I2C"])
     /\ page = "I2C" /\ spoiled # {} /\ bus = "i2c" ~> page # "I2C" \/ spoiled = {}
=============================================================================
