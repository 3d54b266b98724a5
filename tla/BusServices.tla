----------------------------- MODULE BusServices -----------------------------
(***************************************************************************)
(* The platform services behind the connectivity pages, as functions of    *)
(* what the system answers ("world"): wifi_service.cpp (NetworkManager),   *)
(* bluetooth_service.cpp (BlueZ), ethernet_service.cpp, usb_service.cpp    *)
(* (udev), hdmi_service.cpp (sysfs), i2c_service.cpp and spi_service.cpp;  *)
(* then what connectivity_test_model.cpp makes of the answer and which     *)
(* rows the pages show for it.                                             *)
(*                                                                         *)
(* A reading is a list of items and an error, either of which may be       *)
(* empty.  Names and errors are abstracted to short values, "none" stands  *)
(* for an empty one; where the code sorts by a path or a name, worlds give *)
(* the entries a number in that order.  What the system lists by a path of *)
(* its own is a set; what it lists as an array is a sequence, in which the *)
(* same may come twice.                                                    *)
(***************************************************************************)
EXTENDS Integers, SequencesExt

Reading(items, error) == [items |-> items, error |-> error]
Nothing   == Reading(<<>>, "none")
Failed(e) == Reading(<<>>, e)

(* The first of some errors that is not empty.                             *)
FirstError(errors) ==
  LET bad == {i \in DOMAIN errors : errors[i] # "none"}
  IN IF bad = {} THEN "none" ELSE errors[Min(bad)]

(* The elements of a finite set, each once, in the order of a number.      *)
Ascending(S, key(_)) ==
  CHOOSE s \in [1 .. Cardinality(S) -> S] :
    /\ IsInjective(s)
    /\ \A i, j \in DOMAIN s : i < j => key(s[i]) <= key(s[j])

(* wireless_result_sort_less: the strongest first.                         *)
StrongestFirst(S) == Ascending(S, LAMBDA e : 0 - e.strength)

-----------------------------------------------------------------------------
(* Wi-Fi.  An access point is a record of ssid ("none" if hidden), strength *)
(* and bssid; a device answers a scan request ("ok", "failed", or "none"   *)
(* in time), may publish a new last-scan time, and has a list of points,   *)
(* which may be of an earlier scan.                                        *)

(* What the devices hear, by device and place in its list: a point that    *)
(* two devices know is heard twice.                                        *)
Heard(w)    == UNION {{i} \X DOMAIN w.devices[i].points : i \in DOMAIN w.devices}
Point(w, h) == w.devices[h[1]].points[h[2]]

(* What an answer is like: any list of devices, each with a list of points. *)
IsList(s)    == s \in Seq(ToSet(s))
Strengths(S) == IsFiniteSet(S) /\ \A e \in S : e.strength \in Int
WifiShape(w) ==
  /\ w.enable \in {"timeout", "failed", "ignored", "done"}
  /\ IsList(w.devices)
  /\ \A i \in DOMAIN w.devices : IsList(w.devices[i].points)
  /\ \A h \in Heard(w) : Point(w, h).strength \in Int

(* ensure_wifi_enabled: the error, or "none".                              *)
EnsureWifiEnabled(w) ==
  CASE ~w.hardware -> "switch_off"
    [] w.hardware /\ w.enabled -> "none"
    [] w.hardware /\ ~w.enabled ->
         [timeout |-> "enable_timed_out", failed |-> "enable_failed",
          ignored |-> "not_enabled", done |-> "none"][w.enable]

(* request_wifi_scan and wait_for_wifi_scan: a refusal is an error even    *)
(* when the time of the last scan has changed.                             *)
RequestWifiScan(d) ==
  CASE d.reply = "failed" -> "scan_failed"
    [] d.reply # "failed" /\ ~d.fresh -> "scan_timed_out"
    [] d.reply # "failed" /\ d.fresh -> "none"

(* The points heard, one item each, the strongest first.                   *)
PointItems(w) ==
  LET order == Ascending(Heard(w), LAMBDA h : 0 - Point(w, h).strength)
  IN [k \in DOMAIN order |-> Point(w, order[k])]

(* Mutant: the error of the device that was asked last.                    *)
ReadWifiAccessPointsLastError(w) ==
  LET errors == [i \in DOMAIN w.devices |-> RequestWifiScan(w.devices[i])]
  IN CASE w.devices = <<>> -> Failed("no_device")
       [] Heard(w) # {} -> Reading(PointItems(w), "none")
       [] w.devices # <<>> /\ Heard(w) = {} ->
            Failed(FirstError(Reverse(errors) \o <<"no_access_point">>))

(* read_wifi_access_points: every device is asked to scan, then the lists  *)
(* of all are taken; an error is kept only if there is no point at all.    *)
ReadWifiAccessPoints(w) ==
  LET errors == [i \in DOMAIN w.devices |-> RequestWifiScan(w.devices[i])]
  IN CASE w.devices = <<>> -> Failed("no_device")
       [] Heard(w) # {} -> Reading(PointItems(w), "none")
       [] w.devices # <<>> /\ Heard(w) = {} ->
            Failed(FirstError(errors \o <<"no_access_point">>))

(* scan_wifi.                                                              *)
ScanWifi(w) ==
  LET refusal == IF ~w.client THEN "no_NetworkManager" ELSE EnsureWifiEnabled(w)
  IN IF refusal # "none" THEN Failed(refusal) ELSE ReadWifiAccessPoints(w)

-----------------------------------------------------------------------------
(* Bluetooth.  "known" are the devices BlueZ lists at first, "found" those *)
(* it lists after the discovery, if it answers again.                      *)

(* bluez_devices_from_managed_objects: name, else address; -1 percent      *)
(* without an RSSI.                                                        *)
BluezDevices(S) == StrongestFirst(S)

(* Mutant: the devices of the first query are shown.                       *)
ScanBluetoothFirst(w) ==
  IF ~w.bus THEN Failed("no_bus") ELSE
  IF ~w.managed THEN Failed("enable_Bluetooth") ELSE
  IF ~w.adapter THEN Failed("no_adapter") ELSE
  Reading(BluezDevices(w.known), IF w.known = {} THEN "no_device_found" ELSE "none")

(* scan_bluetooth: power on, start the discovery, wait, ask again.         *)
ScanBluetooth(w) ==
  LET devices   == BluezDevices(IF w.again THEN w.found ELSE w.known)
      power     == IF w.power THEN "none" ELSE "enable_Bluetooth"
      discovery == IF w.discovery /\ w.again THEN "none" ELSE "enable_Bluetooth"
  IN IF ~w.bus THEN Failed("no_bus") ELSE
     IF ~w.managed THEN Failed("enable_Bluetooth") ELSE
     IF ~w.adapter THEN Failed("no_adapter") ELSE
     IF devices # <<>> THEN Reading(devices, "none")
     ELSE Failed(FirstError(<<power, discovery, "no_device_found">>))

-----------------------------------------------------------------------------
(* Ethernet, USB, HDMI, SPI and I2C.                                       *)

(* read_ethernet_info and read_ethernet_refresh_result: the fields that    *)
(* are known of the first Ethernet device of a list of devices.            *)
EthernetFields == <<"Interface", "State", "Connection", "IPv4", "MAC">>
ReadEthernet(w) ==
  LET wired == {i \in DOMAIN w.devices : w.devices[i].wired}
      known == Ascending({i \in DOMAIN EthernetFields :
                            EthernetFields[i] \in w.devices[Min(wired)].fields}, LAMBDA i : i)
  IN CASE ~w.client -> Failed("no_NetworkManager")
       [] w.client /\ wired = {} -> Failed("no_Ethernet_device")
       [] w.client /\ wired # {} ->
            Reading([k \in DOMAIN known |-> EthernetFields[known[k]]],
                    IF known = <<>> THEN "no_information" ELSE "none")

(* usb_device_name: host controllers by product, then vendor and product,  *)
(* then the ids.                                                           *)
UsbDeviceName(d) ==
  CASE d.product # "none" ->
         IF d.vendor = "none" \/ d.controller THEN d.product ELSE "vendor_product"
    [] d.product = "none" /\ d.vendor # "none" -> d.vendor
    [] d.product = "none" /\ d.vendor = "none" -> IF d.ids THEN "vid_pid" ELSE "USB_Device"

(* list_usb_devices: the entries that are devices and can still be opened, *)
(* by their path.                                                          *)
ListUsbDevices(w) ==
  LET devices == {e \in w.entries : e.device /\ e.present}
      named   == [i \in 1 .. Cardinality(devices) |->
                    UsbDeviceName(Ascending(devices, LAMBDA e : e.path)[i])]
  IN IF w.failure # "none" THEN Failed(w.failure)
     ELSE Reading(named, IF devices = {} THEN "no_USB_device" ELSE "none")

(* list_usb_port_devices: the same devices by bus and port, for the        *)
(* precheck.                                                               *)
ListUsbPortDevices(w) ==
  LET devices == {e \in w.entries : e.device /\ e.present}
  IN IF w.failure # "none" THEN Failed(w.failure)
     ELSE Reading(Ascending(devices, LAMBDA e : 10 * e.bus + e.port),
                  IF devices = {} THEN "no_USB_device" ELSE "none")

(* Mutant: the first connector, connected or not.                          *)
ChooseHdmiFirst(connectors) ==
  IF connectors = <<>> THEN <<>> ELSE <<connectors[1]>>

(* choose_hdmi_connector: the first that is connected, else the first.     *)
ChooseHdmiConnector(connectors) ==
  LET plugged == {i \in DOMAIN connectors : connectors[i].status = "connected"}
  IN IF plugged # {} THEN <<connectors[Min(plugged)]>>
     ELSE IF connectors # <<>> THEN <<connectors[1]>> ELSE <<>>

(* read_hdmi_info and read_hdmi_refresh_result.                            *)
ReadHdmi(w) ==
  LET chosen == ChooseHdmiConnector(w.connectors)
      c      == chosen[1]
      error  == IF c.status # "connected" THEN "disconnected"
                ELSE IF ~c.mode THEN "no_mode" ELSE "none"
  IN IF ~w.drm THEN Failed("no_DRM")
     ELSE IF chosen = <<>> THEN Failed("no_connector")
     ELSE Reading(<<"Connector", "Status">> \o (IF c.mode THEN <<"Resolution">> ELSE <<>>), error)

(* list_spi_devices: what of /dev could be listed, with the error if not   *)
(* all of it could.                                                        *)
ListSpiDevices(w) ==
  LET names == Ascending({n \in w.entries : n.spidev}, LAMBDA n : n.rank)
  IN Reading(names, FirstError(<<IF w.dev THEN "none" ELSE "no_dev",
                                 IF names = <<>> THEN "no_SPI_device" ELSE "none">>))

(* probe_i2c_address.                                                      *)
ProbeI2cAddress(a) ==
  CASE a.select = "busy"  -> "KERNEL_DRIVER"
    [] a.select = "error" -> "ABSENT"
    [] a.select = "ok"    -> IF a.acks THEN "PRESENT" ELSE "ABSENT"

(* scan_i2c_bus: the addresses 0x03 to 0x77 in order.                      *)
ScanI2cBus(w) ==
  IF ~w.bus THEN Failed("no_bus_device")
  ELSE Reading([i \in DOMAIN w.addresses |-> ProbeI2cAddress(w.addresses[i])], "none")
-----------------------------------------------------------------------------
(* What an answer r tells of the system w it was asked of.                 *)

(* read_wifi_access_points: a list says that Wi-Fi is on and has an item   *)
(* for every point in the list of every device, one for one, the strongest *)
(* first.  Without a list, and if Wi-Fi is on, no device has a point and   *)
(* the word is about the first device whose scan failed, if one did.       *)
Answered(d) == d.reply # "failed" /\ d.fresh
ScanWord(w, word) ==
  \/ word = "no_access_point" /\ \A i \in DOMAIN w.devices : Answered(w.devices[i])
  \/ \E i \in DOMAIN w.devices :
       /\ ~Answered(w.devices[i]) /\ \A j \in DOMAIN w.devices : j < i => Answered(w.devices[j])
       /\ word = IF w.devices[i].reply = "failed" THEN "scan_failed" ELSE "scan_timed_out"
WifiTells(w, r) ==
  IF r.items # <<>>
  THEN /\ w.client /\ w.hardware
       /\ \E heard \in Bijection(DOMAIN r.items, Heard(w)) :
            \A k \in DOMAIN r.items : r.items[k] = Point(w, heard[k])
       /\ \A j, k \in DOMAIN r.items : j < k => r.items[j].strength >= r.items[k].strength
  ELSE /\ r.error # "none"
       /\ w.client /\ w.hardware /\ w.enabled /\ w.devices # <<>> =>
            Heard(w) = {} /\ ScanWord(w, r.error)

(* scan_bluetooth: what is listed is what was there after the discovery,   *)
(* or before it if BlueZ answers no more, each once and the strongest      *)
(* first; a word instead if there is nothing, that nothing was found only  *)
(* after a discovery.                                                      *)
BluetoothTells(w, r) ==
  LET there == IF w.again THEN w.found ELSE w.known IN
  IF r.items # <<>>
  THEN /\ IsInjective(r.items) /\ ToSet(r.items) = there
       /\ \A j, k \in DOMAIN r.items : j < k => r.items[j].strength >= r.items[k].strength
  ELSE /\ r.error # "none" /\ (r.error = "no_device_found" => w.power /\ w.discovery)
       /\ w.bus /\ w.managed /\ w.adapter => there = {}

(* read_ethernet_info: the known fields of the first Ethernet device.      *)
EthernetTells(w, r) ==
  /\ r # Nothing
  /\ r.items # <<>> => \E i \in DOMAIN w.devices :
       /\ w.devices[i].wired /\ \A j \in DOMAIN w.devices : j < i => ~w.devices[j].wired
       /\ ToSet(r.items) = w.devices[i].fields \cap ToSet(EthernetFields)

(* list_usb_devices: an item, with a name, for every device that is there. *)
UsbTells(w, r) ==
  IF r.items = <<>> THEN r.error # "none"
  ELSE /\ Len(r.items) = Cardinality({e \in w.entries : e.device /\ e.present})
       /\ \A i \in DOMAIN r.items : r.items[i] # "none"

(* choose_hdmi_connector: no error only for a connected display with a     *)
(* mode, and a connected one is never passed over for one that is not.     *)
HdmiTells(w, r) ==
  /\ r.error = "none" =>
       \E i \in DOMAIN w.connectors : w.connectors[i].status = "connected" /\ w.connectors[i].mode
  /\ r.error = "disconnected" => \A i \in DOMAIN w.connectors :
                                   w.connectors[i].status # "connected"

(* list_spi_devices: what could be listed, and that /dev could not be      *)
(* listed to its end is told with it.                                      *)
SpiTells(w, r) ==
  /\ ToSet(r.items) = {n \in w.entries : n.spidev}
  /\ r.items = <<>> \/ ~w.dev => r.error # "none"

(* scan_i2c_bus: a cell for each address, and present is only what was     *)
(* selected and acknowledged; a driver of the kernel is not probed.        *)
I2cTells(w, r) ==
  IF ~w.bus THEN r.error # "none"
  ELSE /\ Len(r.items) = Len(w.addresses)
       /\ \A i \in DOMAIN w.addresses :
            r.items[i] = "PRESENT" <=> w.addresses[i].select = "ok" /\ w.addresses[i].acks
=============================================================================
