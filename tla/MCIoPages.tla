----------------------------- MODULE MCIoPages ------------------------------
(* Two answers of each service: something and nothing, or two that differ. *)
EXTENDS IoPages

Radio(reply, fresh, points) == [reply |-> reply, fresh |-> fresh, points |-> points]
Near   == [ssid |-> "a", strength |-> 80, bssid |-> 1]
Hidden == [ssid |-> "none", strength |-> 40, bssid |-> 2]
Beacons == {[path |-> 1, name |-> "aa:bb", strength |-> 0 - 1],
            [path |-> 2, name |-> "n", strength |-> 60], [path |-> 3, name |-> "n", strength |-> 60]}
Plugged(path, present) == [path |-> path, device |-> TRUE, present |-> present, controller |-> FALSE,
                           vendor |-> "v", product |-> "none", ids |-> TRUE]

(* Two radios that both hear a point, one of them too late; or neither     *)
(* hears any, each with an error of its own.                               *)
MCSeen ==
  [WIFI |-> {[client |-> TRUE, hardware |-> TRUE, enabled |-> TRUE, enable |-> "done", devices |-> d]
               : d \in {<<Radio("ok", TRUE, <<Hidden, Near>>), Radio("none", FALSE, <<Near>>)>>,
                        <<Radio("failed", TRUE, <<>>), Radio("none", FALSE, <<>>)>>}},
   BLUETOOTH |-> {[bus |-> TRUE, managed |-> TRUE, adapter |-> TRUE, power |-> TRUE,
                   discovery |-> TRUE, again |-> TRUE, known |-> {}, found |-> S]
                    : S \in {{}, Beacons}},
   ETHERNET |-> {[client |-> TRUE, devices |-> <<[wired |-> FALSE, fields |-> {"MAC"}],
                                                 [wired |-> TRUE, fields |-> S]>>]
                   : S \in {{}, {"State", "IPv4"}}},
   USB |-> {[failure |-> f, entries |-> {Plugged(1, FALSE), Plugged(2, TRUE)}] : f \in {"none", "no_udev"}},
   HDMI |-> {[drm |-> TRUE, connectors |-> <<[status |-> "disconnected", mode |-> FALSE],
                                             [status |-> s, mode |-> TRUE]>>]
               : s \in {"connected", "disconnected"}},
   SPI |-> {[dev |-> d, entries |-> {[spidev |-> d, rank |-> 1], [spidev |-> TRUE, rank |-> 2]}]
              : d \in BOOLEAN},
   I2C |-> {[bus |-> b, addresses |-> <<[select |-> "busy", acks |-> FALSE],
                                        [select |-> "ok", acks |-> TRUE]>>] : b \in BOOLEAN}]

Entry(k, v) == [key |-> k, value |-> v]
(* More was sent than arrived, enough for Ethernet but for the loss.       *)
Report(v)   == <<Entry("rate", v), Entry("sum_sent", 0), Entry("rate", v + 5),
                 Entry("sum_received", 0), Entry("rate", v)>>
MCLinkSeen ==
  {[devices |-> {[wireless |-> TRUE, activated |-> TRUE, ap |-> TRUE]},
    net |-> {[wireless |-> FALSE, up |-> u, quality |-> FALSE]},
    endpoints |-> <<[ok |-> FALSE, elapsed |-> 0], [ok |-> u, elapsed |-> 7]>>,
    servers |-> {"lan"}, report |-> Report(5)] : u \in BOOLEAN}
(* The pages share the page and the bus, so pairs meet what there is.      *)
MCTours == {{"WIFI", "LINK"}, {"BLUETOOTH", "ETHERNET"}, {"USB"}, {"HDMI"}, {"SPI"},
            {"I2C", "UART"}}
MCHosts == {"lan", "other"}
=============================================================================
