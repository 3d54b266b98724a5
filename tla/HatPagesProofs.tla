--------------------------- MODULE HatPagesProofs ---------------------------
(***************************************************************************)
(* Proofs about the pages on the HAT connector.                            *)
(*                                                                         *)
(* First CapFixture alone, for any number of runs, faults, polls and reset *)
(* attempts.  A run is a walk through the list of operations that Script   *)
(* is: each switch, each flag the model remembers and each item is a       *)
(* matter of the place the run is at, and the cleanup one of the steps     *)
(* that are behind it.  So the proofs first say which operations are where *)
(* (the places), then what a step does by its place (the moves), and then  *)
(* keep each part of the invariant over the moves alone.                   *)
(*                                                                         *)
(* Then the pages together.  They follow one another on the same switches  *)
(* and lines, so each page's invariant says what it keeps while another    *)
(* page is open, and the lines are accounted for by the page that has      *)
(* them.                                                                   *)
(***************************************************************************)
EXTENDS HatPages, Integers, FiniteSetTheorems, TLAPS

-----------------------------------------------------------------------------
(* CapFixture: where the operations of a run are.                          *)

Plain == {Delay, SureDelay, Read, Write, Check, Poll, Host, Verify, Hold, Hid, Op("open")}
Sampling == {Op("assert"), Op("sample"), Op("pause")}
Operations ==
  {Begin, Pass, Op("reset"), Op("find"), Op("drive"), Op("stop"), Op("inputs"), Op("verdict"),
   Set("mux", "HAT"), Set("mux", "GROVE"), Set("ext5v", "on"), Set("grove5v", "on"),
   Out("i2c"), Out("uart"), Back("i2c"), Back("uart"), Home("i2c"), Home("uart"),
   Pins("USB"), Pins("GPIO")} \cup Plain \cup Sampling

(* Two sequences, one after the other.                                     *)
LEMMA Joined ==
  ASSUME NEW S, NEW s \in Seq(S), NEW t \in Seq(S)
  PROVE  /\ s \o t \in Seq(S) /\ Len(s \o t) = Len(s) + Len(t)
         /\ \A i \in 1 .. Len(s) : (s \o t)[i] = s[i]
         /\ \A i \in 1 .. Len(t) : (s \o t)[Len(s) + i] = t[i]
OBVIOUS

(* Each run_ function is a list of operations of known length.             *)
LEMMA Blocks ==
  /\ Prepare \in Seq(Operations) /\ Len(Prepare) = 5
  /\ RunPower \in Seq(Operations) /\ Len(RunPower) = 13
  /\ RunI2c \in Seq(Operations) /\ Len(RunI2c) = 12
  /\ RunGroveI2c \in Seq(Operations) /\ Len(RunGroveI2c) = 19
  /\ RunUart \in Seq(Operations) /\ Len(RunUart) = 15
  /\ RunGroveUart \in Seq(Operations) /\ Len(RunGroveUart) = 21
  /\ RunSpi \in Seq(Operations) /\ Len(RunSpi) = 9
  /\ RunUsb \in Seq(Operations) /\ Len(RunUsb) = 18
  /\ RunGpio \in Seq(Operations) /\ Len(RunGpio) = 17
<1> USE DEF Operations, Plain, Sampling
<1>1. Prepare \in Seq(Operations) /\ Len(Prepare) = 5
  BY DEF Prepare
<1>2. RunPower \in Seq(Operations) /\ Len(RunPower) = 13
  BY DEF RunPower
<1>3. RunI2c \in Seq(Operations) /\ Len(RunI2c) = 12
  BY DEF RunI2c
<1>4. RunGroveI2c \in Seq(Operations) /\ Len(RunGroveI2c) = 19
  BY DEF RunGroveI2c
<1>5. RunUart \in Seq(Operations) /\ Len(RunUart) = 15
  BY DEF RunUart, PrepareUart
<1>6. RunGroveUart \in Seq(Operations) /\ Len(RunGroveUart) = 21
  BY DEF RunGroveUart, PrepareUart
<1>7. RunSpi \in Seq(Operations) /\ Len(RunSpi) = 9
  BY DEF RunSpi
<1>8. RunUsb \in Seq(Operations) /\ Len(RunUsb) = 18
  BY DEF RunUsb
<1>9. RunGpio \in Seq(Operations) /\ Len(RunGpio) = 17
  BY DEF RunGpio
<1> QED
  BY <1>1, <1>2, <1>3, <1>4, <1>5, <1>6, <1>7, <1>8, <1>9

(* A block that is appended to what was there before it.                   *)
LEMMA Appended ==
  ASSUME NEW s \in Seq(Operations), NEW t \in Seq(Operations)
  PROVE  /\ s \o t \in Seq(Operations)
         /\ Len(s \o t) = Len(s) + Len(t)
         /\ \A i \in 1 .. Len(s) : (s \o t)[i] = s[i]
         /\ \A i \in (Len(s) + 1) .. (Len(s) + Len(t)) : (s \o t)[i] = t[i - Len(s)]
<1>1. /\ s \o t \in Seq(Operations) /\ Len(s \o t) = Len(s) + Len(t)
      /\ \A i \in 1 .. Len(s) : (s \o t)[i] = s[i]
      /\ \A i \in 1 .. Len(t) : (s \o t)[Len(s) + i] = t[i]
  BY Joined
<1>2. ASSUME NEW i \in (Len(s) + 1) .. (Len(s) + Len(t)) PROVE (s \o t)[i] = t[i - Len(s)]
  <2>1. Len(s) \in Nat /\ Len(t) \in Nat
    OBVIOUS
  <2>2. i - Len(s) \in 1 .. Len(t) /\ Len(s) + (i - Len(s)) = i
    BY <2>1
  <2>3. (s \o t)[Len(s) + (i - Len(s))] = t[i - Len(s)]
    BY <1>1, <2>2
  <2> QED
    BY <2>2, <2>3
<1> QED
  BY <1>1, <1>2

(* The list as it grows, function by function.                            *)
UpToPower == Prepare \o RunPower
UpToI2c == UpToPower \o RunI2c
UpToGroveI2c == UpToI2c \o RunGroveI2c
UpToUart == UpToGroveI2c \o RunUart
UpToGroveUart == UpToUart \o RunGroveUart
UpToSpi == UpToGroveUart \o RunSpi
UpToUsb == UpToSpi \o RunUsb

(* The list up to run_power_, and where its two parts are.                 *)
LEMMA UpToPowerFacts ==
  /\ UpToPower \in Seq(Operations) /\ Len(UpToPower) = 18
  /\ \A i \in 1 .. 5 : UpToPower[i] = Prepare[i]
  /\ \A i \in 6 .. 18 : UpToPower[i] = RunPower[i - 5]
<1>1. Prepare \in Seq(Operations) /\ RunPower \in Seq(Operations)
  BY Blocks
<1>0. Len(Prepare) = 5 /\ Len(RunPower) = 13
  BY Blocks
<1>2. UpToPower = Prepare \o RunPower
  BY DEF UpToPower
<1>3. UpToPower \in Seq(Operations) /\ Len(UpToPower) = Len(Prepare) + Len(RunPower)
  BY <1>1, <1>2, Appended
<1>4. /\ \A i \in 1 .. Len(Prepare) : UpToPower[i] = Prepare[i]
      /\ \A i \in (Len(Prepare) + 1) .. (Len(Prepare) + Len(RunPower)) :
           UpToPower[i] = RunPower[i - Len(Prepare)]
  BY <1>1, <1>2, Appended
<1>5. \A i \in 6 .. 18 :
        i \in (Len(Prepare) + 1) .. (Len(Prepare) + Len(RunPower)) /\ i - Len(Prepare) = i - 5
  BY <1>0
<1> QED
  BY <1>0, <1>3, <1>4, <1>5

(* The same up to run_i2c_.                                                *)
LEMMA UpToI2cFacts ==
  /\ UpToI2c \in Seq(Operations) /\ Len(UpToI2c) = 30
  /\ \A i \in 1 .. 18 : UpToI2c[i] = UpToPower[i]
  /\ \A i \in 19 .. 30 : UpToI2c[i] = RunI2c[i - 18]
<1>1. UpToPower \in Seq(Operations) /\ RunI2c \in Seq(Operations)
  BY Blocks, UpToPowerFacts
<1>0. Len(UpToPower) = 18 /\ Len(RunI2c) = 12
  BY Blocks, UpToPowerFacts
<1>2. UpToI2c = UpToPower \o RunI2c
  BY DEF UpToI2c
<1>3. UpToI2c \in Seq(Operations) /\ Len(UpToI2c) = Len(UpToPower) + Len(RunI2c)
  BY <1>1, <1>2, Appended
<1>4. /\ \A i \in 1 .. Len(UpToPower) : UpToI2c[i] = UpToPower[i]
      /\ \A i \in (Len(UpToPower) + 1) .. (Len(UpToPower) + Len(RunI2c)) :
           UpToI2c[i] = RunI2c[i - Len(UpToPower)]
  BY <1>1, <1>2, Appended
<1>5. \A i \in 19 .. 30 :
        i \in (Len(UpToPower) + 1) .. (Len(UpToPower) + Len(RunI2c)) /\ i - Len(UpToPower) = i - 18
  BY <1>0
<1> QED
  BY <1>0, <1>3, <1>4, <1>5

(* The same up to run_grove_i2c_.                                          *)
LEMMA UpToGroveI2cFacts ==
  /\ UpToGroveI2c \in Seq(Operations) /\ Len(UpToGroveI2c) = 49
  /\ \A i \in 1 .. 30 : UpToGroveI2c[i] = UpToI2c[i]
  /\ \A i \in 31 .. 49 : UpToGroveI2c[i] = RunGroveI2c[i - 30]
<1>1. UpToI2c \in Seq(Operations) /\ RunGroveI2c \in Seq(Operations)
  BY Blocks, UpToI2cFacts
<1>0. Len(UpToI2c) = 30 /\ Len(RunGroveI2c) = 19
  BY Blocks, UpToI2cFacts
<1>2. UpToGroveI2c = UpToI2c \o RunGroveI2c
  BY DEF UpToGroveI2c
<1>3. UpToGroveI2c \in Seq(Operations) /\ Len(UpToGroveI2c) = Len(UpToI2c) + Len(RunGroveI2c)
  BY <1>1, <1>2, Appended
<1>4. /\ \A i \in 1 .. Len(UpToI2c) : UpToGroveI2c[i] = UpToI2c[i]
      /\ \A i \in (Len(UpToI2c) + 1) .. (Len(UpToI2c) + Len(RunGroveI2c)) :
           UpToGroveI2c[i] = RunGroveI2c[i - Len(UpToI2c)]
  BY <1>1, <1>2, Appended
<1>5. \A i \in 31 .. 49 :
        i \in (Len(UpToI2c) + 1) .. (Len(UpToI2c) + Len(RunGroveI2c)) /\ i - Len(UpToI2c) = i - 30
  BY <1>0
<1> QED
  BY <1>0, <1>3, <1>4, <1>5

(* The same up to run_uart_.                                               *)
LEMMA UpToUartFacts ==
  /\ UpToUart \in Seq(Operations) /\ Len(UpToUart) = 64
  /\ \A i \in 1 .. 49 : UpToUart[i] = UpToGroveI2c[i]
  /\ \A i \in 50 .. 64 : UpToUart[i] = RunUart[i - 49]
<1>1. UpToGroveI2c \in Seq(Operations) /\ RunUart \in Seq(Operations)
  BY Blocks, UpToGroveI2cFacts
<1>0. Len(UpToGroveI2c) = 49 /\ Len(RunUart) = 15
  BY Blocks, UpToGroveI2cFacts
<1>2. UpToUart = UpToGroveI2c \o RunUart
  BY DEF UpToUart
<1>3. UpToUart \in Seq(Operations) /\ Len(UpToUart) = Len(UpToGroveI2c) + Len(RunUart)
  BY <1>1, <1>2, Appended
<1>4. /\ \A i \in 1 .. Len(UpToGroveI2c) : UpToUart[i] = UpToGroveI2c[i]
      /\ \A i \in (Len(UpToGroveI2c) + 1) .. (Len(UpToGroveI2c) + Len(RunUart)) :
           UpToUart[i] = RunUart[i - Len(UpToGroveI2c)]
  BY <1>1, <1>2, Appended
<1>5. \A i \in 50 .. 64 :
        /\ i \in (Len(UpToGroveI2c) + 1) .. (Len(UpToGroveI2c) + Len(RunUart))
        /\ i - Len(UpToGroveI2c) = i - 49
  BY <1>0
<1> QED
  BY <1>0, <1>3, <1>4, <1>5

(* The same up to run_grove_uart_.                                         *)
LEMMA UpToGroveUartFacts ==
  /\ UpToGroveUart \in Seq(Operations) /\ Len(UpToGroveUart) = 85
  /\ \A i \in 1 .. 64 : UpToGroveUart[i] = UpToUart[i]
  /\ \A i \in 65 .. 85 : UpToGroveUart[i] = RunGroveUart[i - 64]
<1>1. UpToUart \in Seq(Operations) /\ RunGroveUart \in Seq(Operations)
  BY Blocks, UpToUartFacts
<1>0. Len(UpToUart) = 64 /\ Len(RunGroveUart) = 21
  BY Blocks, UpToUartFacts
<1>2. UpToGroveUart = UpToUart \o RunGroveUart
  BY DEF UpToGroveUart
<1>3. UpToGroveUart \in Seq(Operations) /\ Len(UpToGroveUart) = Len(UpToUart) + Len(RunGroveUart)
  BY <1>1, <1>2, Appended
<1>4. /\ \A i \in 1 .. Len(UpToUart) : UpToGroveUart[i] = UpToUart[i]
      /\ \A i \in (Len(UpToUart) + 1) .. (Len(UpToUart) + Len(RunGroveUart)) :
           UpToGroveUart[i] = RunGroveUart[i - Len(UpToUart)]
  BY <1>1, <1>2, Appended
<1>5. \A i \in 65 .. 85 :
        /\ i \in (Len(UpToUart) + 1) .. (Len(UpToUart) + Len(RunGroveUart))
        /\ i - Len(UpToUart) = i - 64
  BY <1>0
<1> QED
  BY <1>0, <1>3, <1>4, <1>5

(* The same up to run_spi_.                                                *)
LEMMA UpToSpiFacts ==
  /\ UpToSpi \in Seq(Operations) /\ Len(UpToSpi) = 94
  /\ \A i \in 1 .. 85 : UpToSpi[i] = UpToGroveUart[i]
  /\ \A i \in 86 .. 94 : UpToSpi[i] = RunSpi[i - 85]
<1>1. UpToGroveUart \in Seq(Operations) /\ RunSpi \in Seq(Operations)
  BY Blocks, UpToGroveUartFacts
<1>0. Len(UpToGroveUart) = 85 /\ Len(RunSpi) = 9
  BY Blocks, UpToGroveUartFacts
<1>2. UpToSpi = UpToGroveUart \o RunSpi
  BY DEF UpToSpi
<1>3. UpToSpi \in Seq(Operations) /\ Len(UpToSpi) = Len(UpToGroveUart) + Len(RunSpi)
  BY <1>1, <1>2, Appended
<1>4. /\ \A i \in 1 .. Len(UpToGroveUart) : UpToSpi[i] = UpToGroveUart[i]
      /\ \A i \in (Len(UpToGroveUart) + 1) .. (Len(UpToGroveUart) + Len(RunSpi)) :
           UpToSpi[i] = RunSpi[i - Len(UpToGroveUart)]
  BY <1>1, <1>2, Appended
<1>5. \A i \in 86 .. 94 :
        /\ i \in (Len(UpToGroveUart) + 1) .. (Len(UpToGroveUart) + Len(RunSpi))
        /\ i - Len(UpToGroveUart) = i - 85
  BY <1>0
<1> QED
  BY <1>0, <1>3, <1>4, <1>5

(* The same up to run_usb_.                                                *)
LEMMA UpToUsbFacts ==
  /\ UpToUsb \in Seq(Operations) /\ Len(UpToUsb) = 112
  /\ \A i \in 1 .. 94 : UpToUsb[i] = UpToSpi[i]
  /\ \A i \in 95 .. 112 : UpToUsb[i] = RunUsb[i - 94]
<1>1. UpToSpi \in Seq(Operations) /\ RunUsb \in Seq(Operations)
  BY Blocks, UpToSpiFacts
<1>0. Len(UpToSpi) = 94 /\ Len(RunUsb) = 18
  BY Blocks, UpToSpiFacts
<1>2. UpToUsb = UpToSpi \o RunUsb
  BY DEF UpToUsb
<1>3. UpToUsb \in Seq(Operations) /\ Len(UpToUsb) = Len(UpToSpi) + Len(RunUsb)
  BY <1>1, <1>2, Appended
<1>4. /\ \A i \in 1 .. Len(UpToSpi) : UpToUsb[i] = UpToSpi[i]
      /\ \A i \in (Len(UpToSpi) + 1) .. (Len(UpToSpi) + Len(RunUsb)) :
           UpToUsb[i] = RunUsb[i - Len(UpToSpi)]
  BY <1>1, <1>2, Appended
<1>5. \A i \in 95 .. 112 :
        i \in (Len(UpToSpi) + 1) .. (Len(UpToSpi) + Len(RunUsb)) /\ i - Len(UpToSpi) = i - 94
  BY <1>0
<1> QED
  BY <1>0, <1>3, <1>4, <1>5

(* The whole list: run_gpio_ is its last part.                             *)
LEMMA ScriptFacts ==
  /\ Script \in Seq(Operations) /\ Len(Script) = 129
  /\ \A i \in 1 .. 112 : Script[i] = UpToUsb[i]
  /\ \A i \in 113 .. 129 : Script[i] = RunGpio[i - 112]
<1>1. UpToUsb \in Seq(Operations) /\ RunGpio \in Seq(Operations)
  BY Blocks, UpToUsbFacts
<1>0. Len(UpToUsb) = 112 /\ Len(RunGpio) = 17
  BY Blocks, UpToUsbFacts
<1>2. Script = UpToUsb \o RunGpio
  BY DEF Script, UpToPower, UpToI2c, UpToGroveI2c, UpToUart, UpToGroveUart, UpToSpi, UpToUsb
<1>3. Script \in Seq(Operations) /\ Len(Script) = Len(UpToUsb) + Len(RunGpio)
  BY <1>1, <1>2, Appended
<1>4. /\ \A i \in 1 .. Len(UpToUsb) : Script[i] = UpToUsb[i]
      /\ \A i \in (Len(UpToUsb) + 1) .. (Len(UpToUsb) + Len(RunGpio)) :
           Script[i] = RunGpio[i - Len(UpToUsb)]
  BY <1>1, <1>2, Appended
<1>5. \A i \in 113 .. 129 :
        i \in (Len(UpToUsb) + 1) .. (Len(UpToUsb) + Len(RunGpio)) /\ i - Len(UpToUsb) = i - 112
  BY <1>0
<1> QED
  BY <1>0, <1>3, <1>4, <1>5

(* Where in the list each function's operations are.                       *)
LEMMA ScriptBlocks ==
  /\ Script \in Seq(Operations) /\ Len(Script) = 129
  /\ \A i \in 1 .. 5 : Script[i] = Prepare[i]
  /\ \A i \in 6 .. 18 : Script[i] = RunPower[i - 5]
  /\ \A i \in 19 .. 30 : Script[i] = RunI2c[i - 18]
  /\ \A i \in 31 .. 49 : Script[i] = RunGroveI2c[i - 30]
  /\ \A i \in 50 .. 64 : Script[i] = RunUart[i - 49]
  /\ \A i \in 65 .. 85 : Script[i] = RunGroveUart[i - 64]
  /\ \A i \in 86 .. 94 : Script[i] = RunSpi[i - 85]
  /\ \A i \in 95 .. 112 : Script[i] = RunUsb[i - 94]
  /\ \A i \in 113 .. 129 : Script[i] = RunGpio[i - 112]
BY Blocks, UpToPowerFacts, UpToI2cFacts, UpToGroveI2cFacts, UpToUartFacts,
   UpToGroveUartFacts, UpToSpiFacts, UpToUsbFacts, ScriptFacts

(* Where the operations are that are more than registers, frames, files or *)
(* a wait, and the waits that matter.                                      *)
Begins  == {6, 19, 31, 50, 65, 86, 95, 113}
Passes  == {17, 29, 48, 63, 84, 93, 111, 129}
Sets    == {1, 2, 7, 32, 36, 45, 66}
Waits   == {3, 18, 30, 35, 37, 42, 43, 49, 64, 81, 82, 85, 94, 112}
Toggles == {34, 41, 68, 80}
Homes   == {44, 83}
Selects == {96, 114}
Special ==
  Begins \cup Passes \cup Sets \cup Waits \cup Toggles \cup Homes \cup Selects
    \cup {4, 101, 116} \cup 121 .. 128

(* prepare_: the bus, the 5 V, the wait and the reset.                     *)
LEMMA PreparePlaces ==
  /\ Script[1] = Set("mux", "HAT") /\ Script[2] = Set("ext5v", "on") /\ Script[3] = Delay
  /\ Script[4] = Op("reset")
  /\ \A i \in 1 .. 5 : i \notin Special => Script[i] \in Plain
<1>1. /\ Prepare[1] = Set("mux", "HAT") /\ Prepare[2] = Set("ext5v", "on") /\ Prepare[3] = Delay
      /\ Prepare[4] = Op("reset")
  BY DEF Prepare
<1>2. \A j \in {5} :
        Prepare[j] \in Plain
  BY DEF Prepare, Plain
<1>3. \A i \in 1 .. 5 : i \notin Special =>
        i \in {5}
  BY DEF Special, Begins, Passes, Sets, Waits, Toggles, Homes,
     Selects
<1>4. \A i \in 1 .. 5 : Script[i] = Prepare[i]
  BY ScriptBlocks
<1> QED
  BY <1>1, <1>2, <1>3, <1>4

(* run_power_ writes the 5 V switch.                                       *)
LEMMA PowerPlaces ==
  /\ Script[6] = Begin /\ Script[7] = Set("ext5v", "on") /\ Script[17] = Pass
  /\ Script[18] = Delay
  /\ \A i \in 6 .. 18 : i \notin Special => Script[i] \in Plain
<1>1. /\ RunPower[1] = Begin /\ RunPower[2] = Set("ext5v", "on") /\ RunPower[12] = Pass
      /\ RunPower[13] = Delay
  BY DEF RunPower
<1>2. \A j \in {3, 4, 5, 6, 7, 8, 9, 10, 11} :
        RunPower[j] \in Plain
  BY DEF RunPower, Plain
<1>3. \A i \in 6 .. 18 : i \notin Special =>
        i - 5 \in {3, 4, 5, 6, 7, 8, 9, 10, 11}
  BY DEF Special, Begins, Passes, Sets, Waits, Toggles, Homes,
     Selects
<1>4. \A i \in 6 .. 18 : Script[i] = RunPower[i - 5]
  BY ScriptBlocks
<1> QED
  BY <1>1, <1>2, <1>3, <1>4

(* run_i2c_ writes none.                                                   *)
LEMMA I2cPlaces ==
  /\ Script[19] = Begin /\ Script[29] = Pass /\ Script[30] = Delay
  /\ \A i \in 19 .. 30 : i \notin Special => Script[i] \in Plain
<1>1. /\ RunI2c[1] = Begin /\ RunI2c[11] = Pass /\ RunI2c[12] = Delay
  BY DEF RunI2c
<1>2. \A j \in {2, 3, 4, 5, 6, 7, 8, 9, 10} :
        RunI2c[j] \in Plain
  BY DEF RunI2c, Plain
<1>3. \A i \in 19 .. 30 : i \notin Special =>
        i - 18 \in {2, 3, 4, 5, 6, 7, 8, 9, 10}
  BY DEF Special, Begins, Passes, Sets, Waits, Toggles, Homes,
     Selects
<1>4. \A i \in 19 .. 30 : Script[i] = RunI2c[i - 18]
  BY ScriptBlocks
<1> QED
  BY <1>1, <1>2, <1>3, <1>4

(* run_grove_i2c_ takes the I2C channel out, and the bus after it, and     *)
(* both back.                                                              *)
LEMMA GroveI2cPlaces ==
  /\ Script[31] = Begin /\ Script[32] = Set("grove5v", "on") /\ Script[34] = Out("i2c")
  /\ Script[35] = Delay /\ Script[36] = Set("mux", "GROVE") /\ Script[37] = Delay
  /\ Script[41] = Back("i2c") /\ Script[42] = Delay /\ Script[43] = Delay
  /\ Script[44] = Home("i2c") /\ Script[45] = Set("mux", "HAT") /\ Script[48] = Pass
  /\ Script[49] = Delay
  /\ \A i \in 31 .. 49 : i \notin Special => Script[i] \in Plain
<1>1. /\ RunGroveI2c[1] = Begin /\ RunGroveI2c[2] = Set("grove5v", "on")
      /\ RunGroveI2c[4] = Out("i2c") /\ RunGroveI2c[5] = Delay
      /\ RunGroveI2c[6] = Set("mux", "GROVE") /\ RunGroveI2c[7] = Delay
      /\ RunGroveI2c[11] = Back("i2c") /\ RunGroveI2c[12] = Delay /\ RunGroveI2c[13] = Delay
      /\ RunGroveI2c[14] = Home("i2c") /\ RunGroveI2c[15] = Set("mux", "HAT")
      /\ RunGroveI2c[18] = Pass /\ RunGroveI2c[19] = Delay
  BY DEF RunGroveI2c
<1>2. \A j \in {3, 8, 9, 10, 16, 17} :
        RunGroveI2c[j] \in Plain
  BY DEF RunGroveI2c, Plain
<1>3. \A i \in 31 .. 49 : i \notin Special =>
        i - 30 \in {3, 8, 9, 10, 16, 17}
  BY DEF Special, Begins, Passes, Sets, Waits, Toggles, Homes,
     Selects
<1>4. \A i \in 31 .. 49 : Script[i] = RunGroveI2c[i - 30]
  BY ScriptBlocks
<1> QED
  BY <1>1, <1>2, <1>3, <1>4

(* run_uart_ writes none.                                                  *)
LEMMA UartPlaces ==
  /\ Script[50] = Begin /\ Script[63] = Pass /\ Script[64] = Delay
  /\ \A i \in 50 .. 64 : i \notin Special => Script[i] \in Plain
<1>1. /\ RunUart[1] = Begin /\ RunUart[14] = Pass /\ RunUart[15] = Delay
  BY DEF RunUart, PrepareUart
<1>2. \A j \in {2, 3, 4, 5, 6, 7, 8, 9, 10, 11, 12, 13} :
        RunUart[j] \in Plain
  BY DEF RunUart, PrepareUart, Plain
<1>3. \A i \in 50 .. 64 : i \notin Special =>
        i - 49 \in {2, 3, 4, 5, 6, 7, 8, 9, 10, 11, 12, 13}
  BY DEF Special, Begins, Passes, Sets, Waits, Toggles, Homes,
     Selects
<1>4. \A i \in 50 .. 64 : Script[i] = RunUart[i - 49]
  BY ScriptBlocks
<1> QED
  BY <1>1, <1>2, <1>3, <1>4

(* run_grove_uart_ takes the UART channel out and back.                    *)
LEMMA GroveUartPlaces ==
  /\ Script[65] = Begin /\ Script[66] = Set("mux", "HAT") /\ Script[68] = Out("uart")
  /\ Script[80] = Back("uart") /\ Script[81] = Delay /\ Script[82] = Delay
  /\ Script[83] = Home("uart") /\ Script[84] = Pass /\ Script[85] = Delay
  /\ \A i \in 65 .. 85 : i \notin Special => Script[i] \in Plain
<1>1. /\ RunGroveUart[1] = Begin /\ RunGroveUart[2] = Set("mux", "HAT")
      /\ RunGroveUart[4] = Out("uart") /\ RunGroveUart[16] = Back("uart")
      /\ RunGroveUart[17] = Delay /\ RunGroveUart[18] = Delay /\ RunGroveUart[19] = Home("uart")
      /\ RunGroveUart[20] = Pass /\ RunGroveUart[21] = Delay
  BY DEF RunGroveUart, PrepareUart
<1>2. \A j \in {3, 5, 6, 7, 8, 9, 10, 11, 12, 13, 14, 15} :
        RunGroveUart[j] \in Plain
  BY DEF RunGroveUart, PrepareUart, Plain
<1>3. \A i \in 65 .. 85 : i \notin Special =>
        i - 64 \in {3, 5, 6, 7, 8, 9, 10, 11, 12, 13, 14, 15}
  BY DEF Special, Begins, Passes, Sets, Waits, Toggles, Homes,
     Selects
<1>4. \A i \in 65 .. 85 : Script[i] = RunGroveUart[i - 64]
  BY ScriptBlocks
<1> QED
  BY <1>1, <1>2, <1>3, <1>4

(* run_spi_ writes none.                                                   *)
LEMMA SpiPlaces ==
  /\ Script[86] = Begin /\ Script[93] = Pass /\ Script[94] = Delay
  /\ \A i \in 86 .. 94 : i \notin Special => Script[i] \in Plain
<1>1. /\ RunSpi[1] = Begin /\ RunSpi[8] = Pass /\ RunSpi[9] = Delay
  BY DEF RunSpi
<1>2. \A j \in {2, 3, 4, 5, 6, 7} :
        RunSpi[j] \in Plain
  BY DEF RunSpi, Plain
<1>3. \A i \in 86 .. 94 : i \notin Special =>
        i - 85 \in {2, 3, 4, 5, 6, 7}
  BY DEF Special, Begins, Passes, Sets, Waits, Toggles, Homes,
     Selects
<1>4. \A i \in 86 .. 94 : Script[i] = RunSpi[i - 85]
  BY ScriptBlocks
<1> QED
  BY <1>1, <1>2, <1>3, <1>4

(* run_usb_ gives the pins to the USB function.                            *)
LEMMA UsbPlaces ==
  /\ Script[95] = Begin /\ Script[96] = Pins("USB") /\ Script[101] = Op("find")
  /\ Script[111] = Pass /\ Script[112] = Delay
  /\ \A i \in 95 .. 112 : i \notin Special => Script[i] \in Plain
<1>1. /\ RunUsb[1] = Begin /\ RunUsb[2] = Pins("USB") /\ RunUsb[7] = Op("find")
      /\ RunUsb[17] = Pass /\ RunUsb[18] = Delay
  BY DEF RunUsb
<1>2. \A j \in {3, 4, 5, 6, 8, 9, 10, 11, 12, 13, 14, 15, 16} :
        RunUsb[j] \in Plain
  BY DEF RunUsb, Plain
<1>3. \A i \in 95 .. 112 : i \notin Special =>
        i - 94 \in {3, 4, 5, 6, 8, 9, 10, 11, 12, 13, 14, 15, 16}
  BY DEF Special, Begins, Passes, Sets, Waits, Toggles, Homes,
     Selects
<1>4. \A i \in 95 .. 112 : Script[i] = RunUsb[i - 94]
  BY ScriptBlocks
<1> QED
  BY <1>1, <1>2, <1>3, <1>4

(* run_gpio_ takes the pins back, drives, samples, stops and releases the  *)
(* lines.                                                                  *)
LEMMA GpioPlaces ==
  /\ Script[113] = Begin /\ Script[114] = Pins("GPIO") /\ Script[116] = Op("drive")
  /\ Script[121] = Op("assert") /\ Script[122] = Op("sample") /\ Script[123] = Op("pause")
  /\ Script[124] = Op("assert") /\ Script[125] = Op("sample") /\ Script[126] = Op("stop")
  /\ Script[127] = Op("inputs") /\ Script[128] = Op("verdict") /\ Script[129] = Pass
  /\ \A i \in 113 .. 129 : i \notin Special => Script[i] \in Plain
<1>1. /\ RunGpio[1] = Begin /\ RunGpio[2] = Pins("GPIO") /\ RunGpio[4] = Op("drive")
      /\ RunGpio[9] = Op("assert") /\ RunGpio[10] = Op("sample") /\ RunGpio[11] = Op("pause")
      /\ RunGpio[12] = Op("assert") /\ RunGpio[13] = Op("sample") /\ RunGpio[14] = Op("stop")
      /\ RunGpio[15] = Op("inputs") /\ RunGpio[16] = Op("verdict") /\ RunGpio[17] = Pass
  BY DEF RunGpio
<1>2. \A j \in {3, 5, 6, 7, 8} : RunGpio[j] \in Plain
  <2>1. /\ RunGpio[3] = Delay /\ RunGpio[5] = Hold /\ RunGpio[6] = Write
        /\ RunGpio[7] = Hold /\ RunGpio[8] = Host
    BY DEF RunGpio
  <2> QED
    BY <2>1 DEF Plain
<1>3. \A i \in 113 .. 129 : i \notin Special => i - 112 \in {3, 5, 6, 7, 8}
  BY DEF Special, Begins, Passes, Sets, Waits, Toggles, Homes, Selects
<1>4. \A i \in 113 .. 129 : Script[i] = RunGpio[i - 112]
  BY ScriptBlocks
<1>5. \A i \in 113 .. 129 : i \notin Special => Script[i] \in Plain
  BY <1>2, <1>3, <1>4
<1>6. /\ Script[113] = RunGpio[1] /\ Script[114] = RunGpio[2] /\ Script[116] = RunGpio[4]
      /\ Script[121] = RunGpio[9] /\ Script[122] = RunGpio[10] /\ Script[123] = RunGpio[11]
      /\ Script[124] = RunGpio[12] /\ Script[125] = RunGpio[13] /\ Script[126] = RunGpio[14]
      /\ Script[127] = RunGpio[15] /\ Script[128] = RunGpio[16] /\ Script[129] = RunGpio[17]
  BY <1>4
<1> QED
  BY <1>1, <1>5, <1>6

(* What an operation is called, of those that a place is asked for.        *)
PlainKinds == {"delay", "sure_delay", "read", "write", "check", "poll", "host", "verify",
               "hold", "hid", "open"}

(* The kind and the operands of each operation.                            *)
LEMMA OperationKinds ==
  /\ \A o \in Plain : o.do \in PlainKinds
  /\ Begin.do = "begin" /\ Pass.do = "pass" /\ Delay.do = "delay"
  /\ \A d : Op(d).do = d
  /\ \A w, v : Set(w, v).do = "set" /\ Set(w, v).what = w /\ Set(w, v).to = v
  /\ \A w : Out(w).do = "toggle" /\ Out(w).what = w /\ Out(w).to = "GROVE"
  /\ \A w : Back(w).do = "toggle" /\ Back(w).what = w /\ Back(w).to = "HAT"
  /\ \A w : Home(w).do = "home" /\ Home(w).what = w /\ Home(w).to = "HAT"
  /\ \A v : Pins(v).do = "pins" /\ Pins(v).what = "pins" /\ Pins(v).to = v
<1>1. \A o \in Plain : o.do \in PlainKinds
  <2>1. /\ Delay.do = "delay" /\ SureDelay.do = "sure_delay" /\ Read.do = "read"
        /\ Write.do = "write" /\ Check.do = "check" /\ Poll.do = "poll" /\ Host.do = "host"
        /\ Verify.do = "verify" /\ Hold.do = "hold" /\ Hid.do = "hid"
    BY DEF Op, Delay, SureDelay, Read, Write, Check, Poll, Host, Verify, Hold, Hid
  <2>2. Op("open").do = "open"
    BY DEF Op
  <2> QED
    BY <2>1, <2>2 DEF Plain, PlainKinds
<1> QED
  BY <1>1 DEF Op, Begin, Pass, Delay, Set, Out, Back, Home, Pins

Kinds(i, d) ==
  /\ d = "begin" <=> i \in Begins
  /\ d = "pass" <=> i \in Passes
  /\ d = "set" <=> i \in Sets
  /\ d = "toggle" <=> i \in Toggles
  /\ d = "home" <=> i \in Homes
  /\ d = "pins" <=> i \in Selects
  /\ d = "reset" <=> i = 4
  /\ d = "find" <=> i = 101
  /\ d = "drive" <=> i = 116
  /\ d \in InSampling <=> i \in 121 .. 125
  /\ d = "stop" <=> i = 126
  /\ d = "inputs" <=> i = 127
  /\ d = "verdict" <=> i = 128
  /\ i \in Waits => d = "delay"
  /\ i \notin Special => d \in PlainKinds

(* A kind that is known where its places are known.                        *)
LEMMA KindsOf ==
  /\ \A i \in Begins : Kinds(i, "begin")
  /\ \A i \in Passes : Kinds(i, "pass")
  /\ \A i \in Sets : Kinds(i, "set")
  /\ \A i \in Toggles : Kinds(i, "toggle")
  /\ \A i \in Homes : Kinds(i, "home")
  /\ \A i \in Selects : Kinds(i, "pins")
  /\ \A i \in Waits : Kinds(i, "delay")
  /\ \A i \in {4} : Kinds(i, "reset")
  /\ \A i \in {101} : Kinds(i, "find")
  /\ \A i \in {116} : Kinds(i, "drive")
  /\ \A i \in {126} : Kinds(i, "stop")
  /\ \A i \in {127} : Kinds(i, "inputs")
  /\ \A i \in {128} : Kinds(i, "verdict")
  /\ \A i \in 121 .. 125, d \in InSampling : Kinds(i, d)
  /\ \A i \in 1 .. 129 \ Special, d \in PlainKinds : Kinds(i, d)
<1> USE DEF Kinds, Special, Begins, Passes, Sets, Waits, Toggles, Homes, Selects, InSampling,
   PlainKinds
<1>1. ASSUME NEW i \in Begins PROVE Kinds(i, "begin")
  OBVIOUS
<1>2. ASSUME NEW i \in Passes PROVE Kinds(i, "pass")
  OBVIOUS
<1>3. ASSUME NEW i \in Sets PROVE Kinds(i, "set")
  OBVIOUS
<1>4. ASSUME NEW i \in Toggles PROVE Kinds(i, "toggle")
  OBVIOUS
<1>5. ASSUME NEW i \in Homes PROVE Kinds(i, "home")
  OBVIOUS
<1>6. ASSUME NEW i \in Selects PROVE Kinds(i, "pins")
  OBVIOUS
<1>7. ASSUME NEW i \in Waits PROVE Kinds(i, "delay")
  OBVIOUS
<1>8. ASSUME NEW i \in {4} PROVE Kinds(i, "reset")
  OBVIOUS
<1>9. ASSUME NEW i \in {101} PROVE Kinds(i, "find")
  OBVIOUS
<1>10. ASSUME NEW i \in {116} PROVE Kinds(i, "drive")
  OBVIOUS
<1>11. ASSUME NEW i \in {126} PROVE Kinds(i, "stop")
  OBVIOUS
<1>12. ASSUME NEW i \in {127} PROVE Kinds(i, "inputs")
  OBVIOUS
<1>13. ASSUME NEW i \in {128} PROVE Kinds(i, "verdict")
  OBVIOUS
<1>14. ASSUME NEW i \in 121 .. 125, NEW d \in InSampling PROVE Kinds(i, d)
  <2>1. CASE d = "assert"
    BY <2>1
  <2>2. CASE d = "sample"
    BY <2>2
  <2>3. CASE d = "pause"
    BY <2>3
  <2> HIDE DEF Kinds
  <2> QED
    BY <2>1, <2>2, <2>3
<1>15. ASSUME NEW i \in 1 .. 129 \ Special, NEW d \in PlainKinds PROVE Kinds(i, d)
  <2>1. /\ d \notin {"begin", "pass", "set", "toggle", "home", "pins", "reset", "find", "drive",
                     "stop", "inputs", "verdict"}
        /\ d \notin InSampling
    OBVIOUS
  <2>2. /\ i \notin Begins /\ i \notin Passes /\ i \notin Sets /\ i \notin Toggles
        /\ i \notin Homes /\ i \notin Selects /\ i \notin Waits /\ i \notin 121 .. 128
        /\ i \notin {4, 101, 116}
    BY DEF Special
  <2> HIDE DEF Special, Begins, Passes, Sets, Waits, Toggles, Homes, Selects, InSampling, PlainKinds
  <2> QED
    BY <2>1, <2>2
<1> HIDE DEF Kinds, Special, Begins, Passes, Sets, Waits, Toggles, Homes, Selects, InSampling,
   PlainKinds
<1> QED
  BY <1>1, <1>2, <1>3, <1>4, <1>5, <1>6, <1>7, <1>8, <1>9, <1>10, <1>11, <1>12, <1>13, <1>14, <1>15

(* Every place has the kind that Kinds says.                               *)
LEMMA KindsByPlace == \A i \in 1 .. 129 : Kinds(i, Script[i].do)
<1>1. ASSUME NEW i \in 1 .. 5 PROVE Kinds(i, Script[i].do)
  <2>1. /\ Script[1].do = "set" /\ Script[2].do = "set" /\ Script[3].do = "delay"
        /\ Script[4].do = "reset"
    BY PreparePlaces, OperationKinds
  <2>2. CASE i \notin Special
    <3>1. Script[i] \in Plain
      BY <2>2, PreparePlaces
    <3> QED
      BY <2>2, <3>1, OperationKinds, KindsOf
  <2>3. CASE i \in Special
    <3>1. i \in {1, 2, 3, 4}
      BY <2>3 DEF Special, Begins, Passes, Sets, Waits, Toggles, Homes, Selects
    <3>2. /\ Kinds(1, "set") /\ Kinds(2, "set") /\ Kinds(3, "delay") /\ Kinds(4, "reset")
      BY KindsOf DEF Begins, Passes, Sets, Waits, Toggles, Homes, Selects, InSampling
    <3> QED
      BY <2>1, <3>1, <3>2
  <2> QED
    BY <2>2, <2>3
<1>2. ASSUME NEW i \in 6 .. 18 PROVE Kinds(i, Script[i].do)
  <2>1. /\ Script[6].do = "begin" /\ Script[7].do = "set" /\ Script[17].do = "pass"
        /\ Script[18].do = "delay"
    BY PowerPlaces, OperationKinds
  <2>2. CASE i \notin Special
    <3>1. Script[i] \in Plain
      BY <2>2, PowerPlaces
    <3> QED
      BY <2>2, <3>1, OperationKinds, KindsOf
  <2>3. CASE i \in Special
    <3>1. i \in {6, 7, 17, 18}
      BY <2>3 DEF Special, Begins, Passes, Sets, Waits, Toggles, Homes, Selects
    <3>2. /\ Kinds(6, "begin") /\ Kinds(7, "set") /\ Kinds(17, "pass") /\ Kinds(18, "delay")
      BY KindsOf DEF Begins, Passes, Sets, Waits, Toggles, Homes, Selects, InSampling
    <3> QED
      BY <2>1, <3>1, <3>2
  <2> QED
    BY <2>2, <2>3
<1>3. ASSUME NEW i \in 19 .. 30 PROVE Kinds(i, Script[i].do)
  <2>1. /\ Script[19].do = "begin" /\ Script[29].do = "pass" /\ Script[30].do = "delay"
    BY I2cPlaces, OperationKinds
  <2>2. CASE i \notin Special
    <3>1. Script[i] \in Plain
      BY <2>2, I2cPlaces
    <3> QED
      BY <2>2, <3>1, OperationKinds, KindsOf
  <2>3. CASE i \in Special
    <3>1. i \in {19, 29, 30}
      BY <2>3 DEF Special, Begins, Passes, Sets, Waits, Toggles, Homes, Selects
    <3>2. /\ Kinds(19, "begin") /\ Kinds(29, "pass") /\ Kinds(30, "delay")
      BY KindsOf DEF Begins, Passes, Sets, Waits, Toggles, Homes, Selects, InSampling
    <3> QED
      BY <2>1, <3>1, <3>2
  <2> QED
    BY <2>2, <2>3
<1>4. ASSUME NEW i \in 31 .. 49 PROVE Kinds(i, Script[i].do)
  <2>1. /\ Script[31].do = "begin" /\ Script[32].do = "set" /\ Script[34].do = "toggle"
        /\ Script[35].do = "delay" /\ Script[36].do = "set" /\ Script[37].do = "delay"
        /\ Script[41].do = "toggle" /\ Script[42].do = "delay" /\ Script[43].do = "delay"
        /\ Script[44].do = "home" /\ Script[45].do = "set" /\ Script[48].do = "pass"
        /\ Script[49].do = "delay"
    BY GroveI2cPlaces, OperationKinds
  <2>2. CASE i \notin Special
    <3>1. Script[i] \in Plain
      BY <2>2, GroveI2cPlaces
    <3> QED
      BY <2>2, <3>1, OperationKinds, KindsOf
  <2>3. CASE i \in Special
    <3>1. i \in {31, 32, 34, 35, 36, 37, 41, 42, 43, 44, 45, 48, 49}
      BY <2>3 DEF Special, Begins, Passes, Sets, Waits, Toggles, Homes, Selects
    <3>2. /\ Kinds(31, "begin") /\ Kinds(32, "set") /\ Kinds(34, "toggle") /\ Kinds(35, "delay")
          /\ Kinds(36, "set") /\ Kinds(37, "delay") /\ Kinds(41, "toggle") /\ Kinds(42, "delay")
          /\ Kinds(43, "delay") /\ Kinds(44, "home") /\ Kinds(45, "set") /\ Kinds(48, "pass")
          /\ Kinds(49, "delay")
      BY KindsOf DEF Begins, Passes, Sets, Waits, Toggles, Homes, Selects, InSampling
    <3> QED
      BY <2>1, <3>1, <3>2
  <2> QED
    BY <2>2, <2>3
<1>5. ASSUME NEW i \in 50 .. 64 PROVE Kinds(i, Script[i].do)
  <2>1. /\ Script[50].do = "begin" /\ Script[63].do = "pass" /\ Script[64].do = "delay"
    BY UartPlaces, OperationKinds
  <2>2. CASE i \notin Special
    <3>1. Script[i] \in Plain
      BY <2>2, UartPlaces
    <3> QED
      BY <2>2, <3>1, OperationKinds, KindsOf
  <2>3. CASE i \in Special
    <3>1. i \in {50, 63, 64}
      BY <2>3 DEF Special, Begins, Passes, Sets, Waits, Toggles, Homes, Selects
    <3>2. /\ Kinds(50, "begin") /\ Kinds(63, "pass") /\ Kinds(64, "delay")
      BY KindsOf DEF Begins, Passes, Sets, Waits, Toggles, Homes, Selects, InSampling
    <3> QED
      BY <2>1, <3>1, <3>2
  <2> QED
    BY <2>2, <2>3
<1>6. ASSUME NEW i \in 65 .. 85 PROVE Kinds(i, Script[i].do)
  <2>1. /\ Script[65].do = "begin" /\ Script[66].do = "set" /\ Script[68].do = "toggle"
        /\ Script[80].do = "toggle" /\ Script[81].do = "delay" /\ Script[82].do = "delay"
        /\ Script[83].do = "home" /\ Script[84].do = "pass" /\ Script[85].do = "delay"
    BY GroveUartPlaces, OperationKinds
  <2>2. CASE i \notin Special
    <3>1. Script[i] \in Plain
      BY <2>2, GroveUartPlaces
    <3> QED
      BY <2>2, <3>1, OperationKinds, KindsOf
  <2>3. CASE i \in Special
    <3>1. i \in {65, 66, 68, 80, 81, 82, 83, 84, 85}
      BY <2>3 DEF Special, Begins, Passes, Sets, Waits, Toggles, Homes, Selects
    <3>2. /\ Kinds(65, "begin") /\ Kinds(66, "set") /\ Kinds(68, "toggle") /\ Kinds(80, "toggle")
          /\ Kinds(81, "delay") /\ Kinds(82, "delay") /\ Kinds(83, "home") /\ Kinds(84, "pass")
          /\ Kinds(85, "delay")
      BY KindsOf DEF Begins, Passes, Sets, Waits, Toggles, Homes, Selects, InSampling
    <3> QED
      BY <2>1, <3>1, <3>2
  <2> QED
    BY <2>2, <2>3
<1>7. ASSUME NEW i \in 86 .. 94 PROVE Kinds(i, Script[i].do)
  <2>1. /\ Script[86].do = "begin" /\ Script[93].do = "pass" /\ Script[94].do = "delay"
    BY SpiPlaces, OperationKinds
  <2>2. CASE i \notin Special
    <3>1. Script[i] \in Plain
      BY <2>2, SpiPlaces
    <3> QED
      BY <2>2, <3>1, OperationKinds, KindsOf
  <2>3. CASE i \in Special
    <3>1. i \in {86, 93, 94}
      BY <2>3 DEF Special, Begins, Passes, Sets, Waits, Toggles, Homes, Selects
    <3>2. /\ Kinds(86, "begin") /\ Kinds(93, "pass") /\ Kinds(94, "delay")
      BY KindsOf DEF Begins, Passes, Sets, Waits, Toggles, Homes, Selects, InSampling
    <3> QED
      BY <2>1, <3>1, <3>2
  <2> QED
    BY <2>2, <2>3
<1>8. ASSUME NEW i \in 95 .. 112 PROVE Kinds(i, Script[i].do)
  <2>1. /\ Script[95].do = "begin" /\ Script[96].do = "pins" /\ Script[101].do = "find"
        /\ Script[111].do = "pass" /\ Script[112].do = "delay"
    BY UsbPlaces, OperationKinds
  <2>2. CASE i \notin Special
    <3>1. Script[i] \in Plain
      BY <2>2, UsbPlaces
    <3> QED
      BY <2>2, <3>1, OperationKinds, KindsOf
  <2>3. CASE i \in Special
    <3>1. i \in {95, 96, 101, 111, 112}
      BY <2>3 DEF Special, Begins, Passes, Sets, Waits, Toggles, Homes, Selects
    <3>2. /\ Kinds(95, "begin") /\ Kinds(96, "pins") /\ Kinds(101, "find") /\ Kinds(111, "pass")
          /\ Kinds(112, "delay")
      BY KindsOf DEF Begins, Passes, Sets, Waits, Toggles, Homes, Selects, InSampling
    <3> QED
      BY <2>1, <3>1, <3>2
  <2> QED
    BY <2>2, <2>3
<1>9. ASSUME NEW i \in 113 .. 129 PROVE Kinds(i, Script[i].do)
  <2>1. /\ Script[113].do = "begin" /\ Script[114].do = "pins" /\ Script[116].do = "drive"
        /\ Script[121].do = "assert" /\ Script[122].do = "sample" /\ Script[123].do = "pause"
        /\ Script[124].do = "assert" /\ Script[125].do = "sample" /\ Script[126].do = "stop"
        /\ Script[127].do = "inputs" /\ Script[128].do = "verdict" /\ Script[129].do = "pass"
    <3>1. /\ Script[113] = Begin /\ Script[114] = Pins("GPIO") /\ Script[116] = Op("drive")
          /\ Script[121] = Op("assert") /\ Script[122] = Op("sample")
          /\ Script[123] = Op("pause") /\ Script[124] = Op("assert")
          /\ Script[125] = Op("sample") /\ Script[126] = Op("stop") /\ Script[127] = Op("inputs")
          /\ Script[128] = Op("verdict") /\ Script[129] = Pass
      BY GpioPlaces
    <3>2. /\ Script[113].do = "begin" /\ Script[114].do = "pins" /\ Script[116].do = "drive"
          /\ Script[121].do = "assert"
      BY <3>1 DEF Op, Begin, Pins, Pass
    <3>3. /\ Script[122].do = "sample" /\ Script[123].do = "pause" /\ Script[124].do = "assert"
          /\ Script[125].do = "sample"
      BY <3>1 DEF Op, Begin, Pins, Pass
    <3>4. /\ Script[126].do = "stop" /\ Script[127].do = "inputs" /\ Script[128].do = "verdict"
          /\ Script[129].do = "pass"
      BY <3>1 DEF Op, Begin, Pins, Pass
    <3> QED
      BY <3>2, <3>3, <3>4
  <2>2. CASE i \notin Special
    <3>1. Script[i] \in Plain
      BY <2>2, GpioPlaces
    <3> QED
      BY <2>2, <3>1, OperationKinds, KindsOf
  <2>3. CASE i \in Special
    <3>1. i \in {113, 114, 116, 121, 122, 123, 124, 125, 126, 127, 128, 129}
      BY <2>3 DEF Special, Begins, Passes, Sets, Waits, Toggles, Homes, Selects
    <3>2. /\ Kinds(113, "begin") /\ Kinds(114, "pins") /\ Kinds(116, "drive")
          /\ Kinds(121, "assert") /\ Kinds(122, "sample") /\ Kinds(123, "pause")
          /\ Kinds(124, "assert") /\ Kinds(125, "sample") /\ Kinds(126, "stop")
          /\ Kinds(127, "inputs") /\ Kinds(128, "verdict") /\ Kinds(129, "pass")
      <4>1. /\ Kinds(113, "begin") /\ Kinds(114, "pins") /\ Kinds(116, "drive")
            /\ Kinds(121, "assert")
        BY KindsOf DEF Begins, Selects, Passes, InSampling
      <4>2. /\ Kinds(122, "sample") /\ Kinds(123, "pause") /\ Kinds(124, "assert")
            /\ Kinds(125, "sample")
        BY KindsOf DEF Begins, Selects, Passes, InSampling
      <4>3. /\ Kinds(126, "stop") /\ Kinds(127, "inputs") /\ Kinds(128, "verdict")
            /\ Kinds(129, "pass")
        BY KindsOf DEF Begins, Selects, Passes, InSampling
      <4> QED
        BY <4>1, <4>2, <4>3
    <3> QED
      BY <2>1, <3>1, <3>2
  <2> QED
    BY <2>2, <2>3
<1> SUFFICES ASSUME NEW i \in 1 .. 129 PROVE Kinds(i, Script[i].do)
  OBVIOUS
<1>10. \/ i \in 1 .. 5 \/ i \in 6 .. 18 \/ i \in 19 .. 30 \/ i \in 31 .. 49 \/ i \in 50 .. 64
       \/ i \in 65 .. 85 \/ i \in 86 .. 94 \/ i \in 95 .. 112 \/ i \in 113 .. 129
  OBVIOUS
<1>11. CASE i \in 1 .. 5
  BY <1>1, <1>11
<1>12. CASE i \in 6 .. 18
  BY <1>2, <1>12
<1>13. CASE i \in 19 .. 30
  BY <1>3, <1>13
<1>14. CASE i \in 31 .. 49
  BY <1>4, <1>14
<1>15. CASE i \in 50 .. 64
  BY <1>5, <1>15
<1>16. CASE i \in 65 .. 85
  BY <1>6, <1>16
<1>17. CASE i \in 86 .. 94
  BY <1>7, <1>17
<1>18. CASE i \in 95 .. 112
  BY <1>8, <1>18
<1>19. CASE i \in 113 .. 129
  BY <1>9, <1>19
<1> QED
  BY <1>10, <1>11, <1>12, <1>13, <1>14, <1>15, <1>16, <1>17, <1>18, <1>19
-----------------------------------------------------------------------------
(* The invariant, in parts.                                                *)

Places == {"HAT", "GROVE"}
CapTyped ==
  /\ hw \in [mux : Places, ext5v : {"on", "off"}, grove5v : {"on", "off"},
             pins : {"GPIO", "USB"}, lines : {"in", "out"}, i2c : Places, uart : Places]
  /\ own \in [i2c : BOOLEAN, uart : BOOLEAN, known : {"unknown", "GPIO", "USB"},
              released : BOOLEAN, read_ok : BOOLEAN, stop_ok : BOOLEAN]
  /\ items \in [Items -> {"PENDING", "RUNNING", "PASSED", "FAILED"}]
  /\ active_item \in Items
  /\ cancel_requested \in BOOLEAN
CapCounts ==
  count \in 0 .. (MaxPolls + ResetAttempts) /\ faults \in 0 .. MaxFaults /\ runs \in 0 .. MaxRuns
CapPlaced ==
  \/ pc = "none" /\ at = 0
  \/ pc = "run" /\ at \in 1 .. 129
  \/ pc = "cleanup" /\ at \in 1 .. 10
  \/ pc = "over" /\ at = 0

(* The page, the run state and the worker.                                 *)
CapPage ==
  /\ page \in {"open", "leaving", "joining", "gone"}
  /\ page = "gone" => pc = "none"
  /\ page = "leaving" => pc # "none"
  /\ cancel_requested => page = "joining" /\ pc # "none" /\ calm = FALSE
  /\ pc = "none" =>
       /\ state = "IDLE" /\ own = Fresh /\ active_item = 7
       /\ items = [i \in Items |-> "PENDING"]
CapState ==
  /\ state = "IDLE" => pc = "none"
  /\ state \in {"IDLE", "RUNNING", "FAILED"} \/ (pc = "over" /\ state \in {"PASSED", "CANCELED"})
  /\ pc = "run" /\ state = "FAILED" => ~own.read_ok
  /\ pc = "run" /\ ~own.read_ok => at \in 126 .. 128 /\ (cancel_requested \/ state = "FAILED")
  /\ pc = "cleanup" /\ state = "RUNNING" => cancel_requested \/ items[8] = "PASSED"
  /\ pc = "cleanup" \/ pc = "over" => ItemsInOrder
  /\ PassedIsComplete /\ EndedIsTold

(* The items before the place have passed, those after it are pending.     *)
BeginOf(k) == IF k = 1 THEN 6 ELSE IF k = 2 THEN 19 ELSE IF k = 3 THEN 31 ELSE IF k = 4 THEN 50
            ELSE IF k = 5 THEN 65 ELSE IF k = 6 THEN 86 ELSE IF k = 7 THEN 95 ELSE 113
PassOf(k)  == IF k = 1 THEN 17 ELSE IF k = 2 THEN 29 ELSE IF k = 3 THEN 48 ELSE IF k = 4 THEN 63
            ELSE IF k = 5 THEN 84 ELSE IF k = 6 THEN 93 ELSE IF k = 7 THEN 111 ELSE 129
CapItems ==
  pc = "run" => \A k \in Items :
    /\ at <= BeginOf(k) => items[k] = "PENDING"
    /\ at > BeginOf(k) /\ at <= PassOf(k) => active_item = k /\ items[k] \in {"RUNNING", "FAILED"}
    /\ at > PassOf(k) => items[k] = "PASSED"

(* The switches of a run that goes on.                                     *)
CapSwitches ==
  pc = "run" =>
    /\ at >= 2 => (hw.mux = "GROVE" <=> at \in 37 .. 45)
    /\ at >= 5 => (hw.i2c = "GROVE" <=> at \in 35 .. 41)
    /\ at >= 5 => (hw.uart = "GROVE" <=> at \in 69 .. 80)
    /\ at \in 38 .. 45 => settled = TRUE
CapOwn ==
  pc = "run" =>
    /\ own.i2c <=> at \in 35 .. 44
    /\ own.uart <=> at \in 69 .. 83
    /\ own.known = (IF at <= 96 THEN "unknown" ELSE IF at <= 114 THEN "USB" ELSE "GPIO")
    /\ at > 96 => hw.pins = own.known
    /\ at <= 127 => ~own.released

(* What the model remembers is so.                                         *)
CapKnows ==
  /\ own.released => hw.lines = "in"
  /\ own.known = "GPIO" => hw.pins = "GPIO"

(* The CAP's channels, where nobody was cancelled and no cleanup failed.   *)
CapChannels ==
  clean /\ calm =>
    /\ pc \in {"none", "over"} \/ (pc = "run" /\ at < 5) => hw.i2c = "HAT" /\ hw.uart = "HAT"
    /\ pc = "cleanup" => (hw.i2c = "GROVE" <=> own.i2c) /\ (hw.uart = "GROVE" <=> own.uart)

(* The cleanup, step by step.                                              *)
CapCleanup ==
  clean =>
    /\ pc = "cleanup" /\ at = 2 /\ own.i2c => hw.mux = "GROVE"
    /\ pc = "over" \/ (pc = "cleanup" /\ at > 2) => ~own.i2c
    /\ pc = "over" \/ (pc = "cleanup" /\ at > 4) => ~own.uart
    /\ pc = "over" \/ (pc = "cleanup" /\ at > 3) => hw.mux = "HAT"
    /\ pc = "over" \/ (pc = "cleanup" /\ at > 6) => hw.pins = "GPIO"
    /\ pc = "over" \/ (pc = "cleanup" /\ at > 7) => hw.lines = "in"
    /\ pc = "over" \/ (pc = "cleanup" /\ at > 8) => hw.ext5v = "off"
    /\ pc = "over" \/ (pc = "cleanup" /\ at > 9) => hw.grove5v = "off"

CapInv ==
  /\ CapTyped /\ CapCounts /\ CapPlaced /\ CapPage /\ CapState /\ CapItems
  /\ CapSwitches /\ CapOwn /\ CapKnows /\ CapChannels /\ CapCleanup

(* The STOP that the sampling is left for.                                 *)
LEMMA StopIsThere == StopAt = 126
<1>1. Len(Script) = 129 /\ DOMAIN Script = 1 .. 129
  BY ScriptBlocks
<1>2. \A i \in DOMAIN Script : Script[i].do = "stop" <=> i = 126
  BY <1>1, KindsByPlace DEF Kinds
<1>3. 126 \in DOMAIN Script
  BY <1>1
<1> QED
  BY <1>2, <1>3 DEF StopAt

-----------------------------------------------------------------------------
(* What a step of the run does, by the place it is at.                     *)

Acting ==
  Begins \cup Passes \cup Sets \cup Toggles \cup Homes \cup Selects \cup {4, 116} \cup 126 .. 128

(* A switch is written, or was written by the operation that failed.       *)
SwitchWritten ==
  \/ at \in {1, 45, 66} /\ hw' = [hw EXCEPT !.mux = "HAT"]
  \/ at = 36 /\ hw' = [hw EXCEPT !.mux = "GROVE"]
  \/ at \in {2, 7} /\ hw' = [hw EXCEPT !.ext5v = "on"]
  \/ at = 32 /\ hw' = [hw EXCEPT !.grove5v = "on"]
PinsWritten ==
  \/ at = 96 /\ hw' = [hw EXCEPT !.pins = "USB"]
  \/ at = 114 /\ hw' = [hw EXCEPT !.pins = "GPIO"]

Left ==
  /\ pc' = "cleanup" /\ at' = 1 /\ own' = own
  /\ at \notin Begins \cup Passes \cup Homes \cup 121 .. 127
  /\ at \in Waits => cancel_requested
  /\ \/ FailItem /\ at \notin Waits
     \/ UNCHANGED snapshot /\ (cancel_requested \/ ~own.read_ok)
  /\ \/ UNCHANGED hw \/ SwitchWritten \/ PinsWritten
     \/ at = 116 /\ hw' = [hw EXCEPT !.lines = "out"]
Jumped ==
  /\ pc' = "run" /\ at \in 121 .. 125 /\ at' = 126 /\ own' = [own EXCEPT !.read_ok = FALSE]
  /\ FailItem \/ (UNCHANGED snapshot /\ (cancel_requested \/ ~own.read_ok))
  /\ UNCHANGED <<hw, settled>>
Stays ==
  UNCHANGED <<pc, at, hw, settled, own, snapshot>>
Ahead ==
  /\ pc' = "run" /\ at \notin Acting /\ (at' = at + 1 \/ (at = 101 /\ at' = at + 4))
  /\ settled' = settled \/ settled' = TRUE
  /\ at \in Waits => settled' = TRUE
  /\ UNCHANGED <<hw, own, snapshot>>
Begun ==
  /\ pc' = "run" /\ at \in Begins /\ at' = at + 1
  /\ active_item' = Cardinality({k \in 1..at : Script[k].do = "begin"})
  /\ items' = [items EXCEPT ![active_item'] = "RUNNING"]
  /\ UNCHANGED <<hw, settled, own, state>>
Passed ==
  /\ at \in Passes
  /\ IF at = 129 THEN pc' = "cleanup" /\ at' = 1 ELSE pc' = "run" /\ at' = at + 1
  /\ items' = [items EXCEPT ![active_item] = "PASSED"]
  /\ UNCHANGED <<hw, settled, own, state, active_item>>
SwitchSet ==
  /\ pc' = "run" /\ at \in Sets /\ at' = at + 1 /\ SwitchWritten
  /\ UNCHANGED <<own, snapshot>>
Toggled ==
  /\ pc' = "run" /\ at' = at + 1
  /\ \/ at = 34 /\ hw' = Flipped("i2c") /\ own' = [own EXCEPT !.i2c = TRUE]
     \/ at = 41 /\ hw' = Flipped("i2c") /\ own' = own
     \/ at = 68 /\ hw' = Flipped("uart") /\ own' = [own EXCEPT !.uart = TRUE]
     \/ at = 80 /\ hw' = Flipped("uart") /\ own' = own
  /\ UNCHANGED <<settled, snapshot>>
CameHome ==
  /\ pc' = "run" /\ at' = at + 1
  /\ \/ at = 44 /\ own' = [own EXCEPT !.i2c = FALSE]
     \/ at = 83 /\ own' = [own EXCEPT !.uart = FALSE]
  /\ UNCHANGED <<hw, settled, snapshot>>
Selected ==
  /\ pc' = "run" /\ at' = at + 1
  /\ \/ /\ PinsWritten
        /\ own' = [own EXCEPT !.known = IF at = 96 THEN "USB" ELSE "GPIO"]
     \/ /\ UNCHANGED <<hw, own>>
        /\ at \in Selects /\ own.known = IF at = 96 THEN "USB" ELSE "GPIO"
  /\ UNCHANGED snapshot
Driven ==
  /\ pc' = "run" /\ at = 116 /\ at' = at + 1 /\ hw' = [hw EXCEPT !.lines = "out"]
  /\ UNCHANGED <<own, snapshot>>
HasReset ==
  /\ pc' = "run" /\ at = 4 /\ at' = at + 1
  /\ hw' = [hw EXCEPT !.i2c = "HAT", !.uart = "HAT"]
  /\ UNCHANGED <<settled, own, snapshot>>
Stopped ==
  /\ pc' = "run" /\ at = 126 /\ at' = at + 1
  /\ own' = own \/ own' = [own EXCEPT !.stop_ok = FALSE]
  /\ UNCHANGED <<hw, settled, snapshot>>
Released ==
  /\ pc' = "run" /\ at = 127 /\ at' = at + 1
  /\ \/ hw' = [hw EXCEPT !.lines = "in"] /\ own' = [own EXCEPT !.released = TRUE]
     \/ UNCHANGED <<hw, own>>
  /\ UNCHANGED snapshot
Judged ==
  /\ pc' = "run" /\ at = 128 /\ at' = at + 1 /\ own.read_ok
  /\ UNCHANGED <<hw, settled, own, snapshot>>

Moves ==
  \/ Left \/ Jumped \/ Stays \/ Ahead \/ Begun \/ Passed \/ SwitchSet \/ Toggled \/ CameHome
  \/ Selected \/ Driven \/ HasReset \/ Stopped \/ Released \/ Judged

(* The operation of a run is the one at its place, of the kind Kinds says. *)
LEMMA Where ==
  ASSUME CapPlaced, pc = "run"
  PROVE  at \in 1 .. 129 /\ Now = Script[at] /\ Kinds(at, Now.do)
<1>1. at \in 1 .. 129
  BY DEF CapPlaced
<1> QED
  BY <1>1, KindsByPlace DEF Now

(* Which switch an operation writes is known from its place.               *)
LEMMA WrittenWhere ==
  ASSUME CapPlaced, pc = "run"
  PROVE  /\ Now.do = "set" /\ hw' = [hw EXCEPT ![Now.what] = Now.to] => SwitchWritten
         /\ Now.do = "pins" => (at = 96 /\ Now.what = "pins" /\ Now.to = "USB")
                               \/ (at = 114 /\ Now.what = "pins" /\ Now.to = "GPIO")
<1>1. at \in 1 .. 129 /\ Now = Script[at] /\ Kinds(at, Now.do)
  BY Where
<1>2. ASSUME Now.do = "set", hw' = [hw EXCEPT ![Now.what] = Now.to] PROVE SwitchWritten
  <2>1. at \in {1, 2, 7, 32, 36, 45, 66}
    BY <1>1, <1>2 DEF Kinds, Sets
  <2>2. /\ Script[1] = Set("mux", "HAT") /\ Script[2] = Set("ext5v", "on")
        /\ Script[7] = Set("ext5v", "on") /\ Script[32] = Set("grove5v", "on")
        /\ Script[36] = Set("mux", "GROVE") /\ Script[45] = Set("mux", "HAT")
        /\ Script[66] = Set("mux", "HAT")
    BY PreparePlaces, PowerPlaces, GroveI2cPlaces, GroveUartPlaces
  <2>3. ASSUME NEW w, NEW v, Now = Set(w, v) PROVE hw' = [hw EXCEPT ![w] = v]
    <3>1. Now.what = w /\ Now.to = v
      BY <2>3, OperationKinds
    <3> QED
      BY <1>2, <3>1
  <2>4. \/ at \in {1, 45, 66} /\ Now = Set("mux", "HAT")
        \/ at = 36 /\ Now = Set("mux", "GROVE")
        \/ at \in {2, 7} /\ Now = Set("ext5v", "on")
        \/ at = 32 /\ Now = Set("grove5v", "on")
    BY <1>1, <2>1, <2>2
  <2> QED
    BY <2>3, <2>4 DEF SwitchWritten
<1>3. ASSUME Now.do = "pins"
      PROVE  (at = 96 /\ Now.what = "pins" /\ Now.to = "USB")
             \/ (at = 114 /\ Now.what = "pins" /\ Now.to = "GPIO")
  <2>1. at \in {96, 114}
    BY <1>1, <1>3 DEF Kinds, Selects
  <2>2. Script[96] = Pins("USB") /\ Script[114] = Pins("GPIO")
    BY UsbPlaces, GpioPlaces
  <2> QED
    BY <1>1, <2>1, <2>2, OperationKinds
<1> QED
  BY <1>2, <1>3

(* The run is left, or, in the sampling, goes on with the STOP.            *)
LEMMA LeavesOrJumps ==
  ASSUME CapPlaced, pc = "run", Now.do \notin {"begin", "pass", "home", "stop", "inputs"},
         NEW fails \in BOOLEAN, LeaveRun(fails),
         fails => at \notin Waits,
         at \in Waits => cancel_requested,
         ~fails => cancel_requested \/ ~own.read_ok,
         \/ UNCHANGED <<hw, settled>>
         \/ at \notin 121 .. 125 /\ (SwitchWritten \/ PinsWritten)
         \/ at = 116 /\ hw' = [hw EXCEPT !.lines = "out"]
  PROVE  Left \/ Jumped
<1>1. at \in 1 .. 129 /\ Kinds(at, Now.do)
  BY Where
<1>2. \/ FailItem /\ at \notin Waits
      \/ UNCHANGED snapshot /\ (cancel_requested \/ ~own.read_ok)
  BY DEF LeaveRun
<1>3. CASE Now.do \in InSampling
  <2>1. at \in 121 .. 125
    BY <1>1, <1>3 DEF Kinds
  <2>2. UNCHANGED <<hw, settled>>
    BY <2>1
  <2>3. /\ at' = StopAt /\ own' = [own EXCEPT !.read_ok = FALSE] /\ UNCHANGED pc
    BY <1>3 DEF LeaveRun
  <2>4. StopAt = 126
    BY StopIsThere
  <2> QED
    BY <1>2, <2>1, <2>2, <2>3, <2>4 DEF Jumped
<1>4. CASE Now.do \notin InSampling
  <2>1. at \notin Begins \cup Passes \cup Homes \cup 121 .. 127
    BY <1>1, <1>4 DEF Kinds
  <2>2. pc' = "cleanup" /\ at' = 1 /\ own' = own
    BY <1>4 DEF LeaveRun
  <2> QED
    BY <1>2, <2>1, <2>2 DEF Left
<1> QED
  BY <1>3, <1>4

(* Every step of the run is one of the moves.                              *)
LEMMA RunMoves ==
  ASSUME CapTyped, CapPlaced, Run
  PROVE  pc = "run" /\ at \in 1 .. 129 /\ Frame /\ Moves
<1>0. pc = "run" /\ Frame
  BY DEF Run, Canceled, Fault, BeginItem, PassItem, Exchange, DelayEnds, SetSwitch, Toggle,
     ComeHome, SelectPins, Drive, PollAgain, Reset, Find, GpioStop, GpioInputs, GpioVerdict,
     Running, Works
<1>1. at \in 1 .. 129 /\ Now = Script[at] /\ Kinds(at, Now.do)
  BY <1>0, Where
<1> SUFFICES Moves
  BY <1>0, <1>1
<1> DEFINE L(fails) == LeaveRun(fails) /\ UNCHANGED <<hw, settled>>
<1>2. ASSUME NEW fails \in BOOLEAN, L(fails),
             Now.do \notin {"begin", "pass", "home", "stop", "inputs"},
             fails => at \notin Waits, at \in Waits => cancel_requested,
             ~fails => cancel_requested \/ ~own.read_ok
      PROVE  Moves
  BY <1>0, <1>2, LeavesOrJumps DEF Moves
<1>3. CASE Canceled
  <2>1. Now.do \in Quiet \cup Loud /\ cancel_requested /\ L(Now.do \in Loud)
    BY <1>3 DEF Canceled, Running
  <2>2. Now.do \notin {"begin", "pass", "home", "stop", "inputs"}
    BY <2>1 DEF Quiet, Loud
  <2>3. Now.do \in Loud => at \notin Waits
    BY <1>1 DEF Kinds, Loud
  <2>4. CASE Now.do \in Loud
    <3>1. L(TRUE)
      BY <2>1, <2>4 DEF LeaveRun
    <3> QED
      BY <1>2, <2>1, <2>2, <2>3, <2>4, <3>1
  <2>5. CASE Now.do \notin Loud
    <3>1. L(FALSE)
      BY <2>1, <2>5 DEF LeaveRun
    <3> QED
      BY <1>2, <2>1, <2>2, <2>5, <3>1
  <2> QED
    BY <2>4, <2>5
<1>4. CASE Fault
  <2>1. Now.do \notin {"begin", "pass", "home", "delay", "stop", "inputs"} /\ LeaveRun(TRUE)
    BY <1>4 DEF Fault, Running
  <2>2. at \notin Waits
    BY <1>1, <2>1 DEF Kinds
  <2>3. \/ UNCHANGED <<hw, settled>>
        \/ Now.do \in {"set", "pins"} /\ hw' = [hw EXCEPT ![Now.what] = Now.to]
        \/ Now.do = "drive" /\ hw' = [hw EXCEPT !.lines = "out"]
    BY <1>4 DEF Fault, Switch
  <2>4. Now.do = "set" /\ hw' = [hw EXCEPT ![Now.what] = Now.to] =>
          at \notin 121 .. 125 /\ SwitchWritten
    BY <1>0, <1>1, WrittenWhere DEF SwitchWritten
  <2>5. Now.do = "pins" /\ hw' = [hw EXCEPT ![Now.what] = Now.to] =>
          at \notin 121 .. 125 /\ PinsWritten
    <3>1. Now.do = "pins" =>
            \/ at = 96 /\ Now.what = "pins" /\ Now.to = "USB"
            \/ at = 114 /\ Now.what = "pins" /\ Now.to = "GPIO"
      BY <1>0, WrittenWhere
    <3>2. Now.do = "pins" => at \notin 121 .. 125
      BY <3>1
    <3>3. Now.do = "pins" /\ hw' = [hw EXCEPT ![Now.what] = Now.to] => PinsWritten
      BY <3>1 DEF PinsWritten
    <3> QED
      BY <3>2, <3>3
  <2>6. Now.do = "drive" => at = 116
    BY <1>1 DEF Kinds
  <2> QED
    BY <1>0, <2>1, <2>2, <2>3, <2>4, <2>5, <2>6, LeavesOrJumps DEF Moves
<1>5. CASE BeginItem
  <2>1. Now.do = "begin"
    BY <1>5 DEF BeginItem, Running
  <2>2. at \in Begins
    BY <1>1, <2>1 DEF Kinds
  <2> QED
    BY <1>0, <1>5, <2>2 DEF BeginItem, Advance, Begun, Moves
<1>6. CASE PassItem
  <2>1. Now.do = "pass"
    BY <1>6 DEF PassItem, Running
  <2>2. at \in Passes /\ Len(Script) = 129
    BY <1>1, <2>1, ScriptBlocks DEF Kinds
  <2> QED
    BY <1>0, <1>6, <2>2 DEF PassItem, Advance, Passed, Moves
<1>7. CASE Exchange
  <2>1. Now.do \in {"write", "read", "check", "host", "verify", "hid", "hold", "assert",
                    "sample", "pause", "poll", "open"}
    BY <1>7 DEF Exchange, Works, Running
  <2>2. at \notin Acting /\ at \notin Waits
    BY <1>1, <2>1 DEF Kinds, Acting
  <2> QED
    BY <1>0, <1>7, <2>2 DEF Exchange, Advance, Ahead, Moves
<1>8. CASE DelayEnds
  <2>1. Now.do \in {"delay", "sure_delay"}
    BY <1>8 DEF DelayEnds, Works, Running
  <2>2. at \notin Acting
    BY <1>1, <2>1 DEF Kinds, Acting
  <2> QED
    BY <1>0, <1>8, <2>2 DEF DelayEnds, Advance, Ahead, Moves
<1>9. CASE SetSwitch
  <2>1. Now.do = "set" /\ hw' = [hw EXCEPT ![Now.what] = Now.to]
    BY <1>9 DEF SetSwitch, Works, Running, Switch
  <2>2. at \in Sets /\ SwitchWritten
    BY <1>0, <1>1, <2>1, WrittenWhere DEF Kinds
  <2> QED
    BY <1>0, <1>9, <2>2 DEF SetSwitch, Advance, SwitchSet, Moves
<1>10. CASE Toggle
  <2>1. Now.do = "toggle" /\ hw' = Flipped(Now.what) /\ pc' = "run" /\ at' = at + 1
        /\ own' = [own EXCEPT ![Now.what] = (@ \/ Now.to = "GROVE")]
        /\ UNCHANGED <<settled, snapshot>>
    BY <1>0, <1>10 DEF Toggle, Works, Running, Advance
  <2>2. at \in {34, 41, 68, 80}
    BY <1>1, <2>1 DEF Kinds, Toggles
  <2>3. /\ Script[34] = Out("i2c") /\ Script[41] = Back("i2c")
        /\ Script[68] = Out("uart") /\ Script[80] = Back("uart")
    BY GroveI2cPlaces, GroveUartPlaces
  <2>4. /\ own.i2c \in BOOLEAN /\ own.uart \in BOOLEAN
        /\ own = [own EXCEPT !.i2c = own.i2c] /\ own = [own EXCEPT !.uart = own.uart]
    BY DEF CapTyped
  <2>5. CASE at = 34
    <3>1. Now.what = "i2c" /\ Now.to = "GROVE"
      BY <1>1, <2>3, <2>5, OperationKinds
    <3> QED
      BY <2>1, <2>5, <3>1 DEF Toggled, Moves
  <2>6. CASE at = 41
    <3>1. Now.what = "i2c" /\ Now.to = "HAT"
      BY <1>1, <2>3, <2>6, OperationKinds
    <3>2. own' = own
      BY <2>1, <2>4, <3>1
    <3> QED
      BY <2>1, <2>6, <3>1, <3>2 DEF Toggled, Moves
  <2>7. CASE at = 68
    <3>1. Now.what = "uart" /\ Now.to = "GROVE"
      BY <1>1, <2>3, <2>7, OperationKinds
    <3> QED
      BY <2>1, <2>7, <3>1 DEF Toggled, Moves
  <2>8. CASE at = 80
    <3>1. Now.what = "uart" /\ Now.to = "HAT"
      BY <1>1, <2>3, <2>8, OperationKinds
    <3>2. own' = own
      BY <2>1, <2>4, <3>1
    <3> QED
      BY <2>1, <2>8, <3>1, <3>2 DEF Toggled, Moves
  <2> QED
    BY <2>2, <2>5, <2>6, <2>7, <2>8
<1>11. CASE ComeHome
  <2>1. Now.do = "home" /\ pc' = "run" /\ at' = at + 1 /\ own' = [own EXCEPT ![Now.what] = FALSE]
        /\ UNCHANGED <<hw, settled, snapshot>>
    BY <1>0, <1>11 DEF ComeHome, Running, Advance
  <2>2. at \in {44, 83}
    BY <1>1, <2>1 DEF Kinds, Homes
  <2>3. Script[44] = Home("i2c") /\ Script[83] = Home("uart")
    BY GroveI2cPlaces, GroveUartPlaces
  <2>4. (at = 44 => Now.what = "i2c") /\ (at = 83 => Now.what = "uart")
    BY <1>1, <2>3, OperationKinds
  <2> QED
    BY <2>1, <2>2, <2>4 DEF CameHome, Moves
<1>12. CASE SelectPins
  <2>1. Now.do = "pins" /\ pc' = "run" /\ at' = at + 1 /\ UNCHANGED snapshot
    BY <1>0, <1>12 DEF SelectPins, Works, Running, Advance
  <2>2. \/ own.known = Now.to /\ UNCHANGED <<hw, settled, own>>
        \/ hw' = [hw EXCEPT !.pins = Now.to] /\ own' = [own EXCEPT !.known = Now.to]
    BY <1>12 DEF SelectPins, KnownPins, Switch
  <2>3. (at = 96 /\ Now.to = "USB") \/ (at = 114 /\ Now.to = "GPIO")
    BY <1>0, <2>1, WrittenWhere
  <2> QED
    BY <2>1, <2>2, <2>3 DEF Selected, PinsWritten, Selects, Moves
<1>13. CASE Drive
  <2>1. Now.do = "drive"
    BY <1>13 DEF Drive, Works, Running
  <2>2. at = 116
    BY <1>1, <2>1 DEF Kinds
  <2> QED
    BY <1>0, <1>13, <2>2 DEF Drive, Advance, Switch, Driven, Moves
<1>14. CASE PollAgain
  <2>1. Now.do = "poll"
    BY <1>14 DEF PollAgain, Works, Running
  <2>2. at \notin Waits
    BY <1>1, <2>1 DEF Kinds
  <2>3. \/ UNCHANGED <<pc, at, snapshot, own>>
        \/ LeaveRun(TRUE)
    BY <1>14 DEF PollAgain
  <2>4. UNCHANGED <<hw, settled>>
    BY <1>14 DEF PollAgain
  <2> QED
    BY <1>2, <2>1, <2>2, <2>3, <2>4 DEF Stays, Moves
<1>15. CASE Reset
  <2>1. Now.do = "reset"
    BY <1>15 DEF Reset, Running
  <2>2. at = 4 /\ at \notin Waits
    BY <1>1, <2>1 DEF Kinds, Waits
  <2>3. \/ cancel_requested /\ LeaveRun(FALSE) /\ UNCHANGED hw
        \/ HasReset
        \/ UNCHANGED <<pc, at, snapshot, own, hw>>
        \/ LeaveRun(TRUE) /\ UNCHANGED hw
    BY <1>0, <1>15, <2>2 DEF Reset, Advance, HasReset
  <2>4. UNCHANGED settled
    BY <1>15 DEF Reset
  <2> QED
    BY <1>2, <2>1, <2>2, <2>3, <2>4 DEF Stays, Moves
<1>16. CASE Find
  <2>1. Now.do = "find"
    BY <1>16 DEF Find, Works, Running
  <2>2. at = 101
    BY <1>1, <2>1 DEF Kinds
  <2>3. at \notin Acting /\ at \notin Waits
    BY <2>2 DEF Acting, Begins, Passes, Sets, Toggles, Homes, Selects, Waits
  <2> QED
    BY <1>0, <1>16, <2>2, <2>3 DEF Find, Ahead, Moves
<1>17. CASE GpioStop
  <2>1. Now.do = "stop"
    BY <1>17 DEF GpioStop, Running
  <2>2. at = 126
    BY <1>1, <2>1 DEF Kinds
  <2> QED
    BY <1>0, <1>17, <2>2 DEF GpioStop, Advance, Stopped, Moves
<1>18. CASE GpioInputs
  <2>1. Now.do = "inputs"
    BY <1>18 DEF GpioInputs, Running
  <2>2. at = 127
    BY <1>1, <2>1 DEF Kinds
  <2> QED
    BY <1>0, <1>18, <2>2 DEF GpioInputs, Advance, Switch, Released, Moves
<1>19. CASE GpioVerdict
  <2>1. Now.do = "verdict"
    BY <1>19 DEF GpioVerdict, Running
  <2>2. at = 128 /\ at \notin Waits
    BY <1>1, <2>1 DEF Kinds, Waits
  <2>3. \/ own.read_ok /\ Advance /\ UNCHANGED <<snapshot, own>>
        \/ LeaveRun(TRUE)
        \/ ~own.read_ok /\ LeaveRun(FALSE)
    BY <1>19 DEF GpioVerdict
  <2>4. UNCHANGED <<hw, settled>>
    BY <1>19 DEF GpioVerdict
  <2> QED
    BY <1>0, <1>2, <2>1, <2>2, <2>3, <2>4 DEF Advance, Judged, Moves
<1> QED
  BY <1>3, <1>4, <1>5, <1>6, <1>7, <1>8, <1>9, <1>10, <1>11, <1>12, <1>13, <1>14, <1>15, <1>16,
     <1>17, <1>18, <1>19 DEF Run

(* Each function begins and passes one item, and they follow one another.  *)
LEMMA Brackets ==
  /\ \A k \in Items : /\ BeginOf(k) \in Begins /\ PassOf(k) \in Passes /\ BeginOf(k) < PassOf(k)
                      /\ BeginOf(k) \in 1 .. 129 /\ PassOf(k) \in 1 .. 129
  /\ \A i, j \in Items : i < j => PassOf(i) < BeginOf(j)
  /\ \A b \in Begins : \E k \in Items : b = BeginOf(k)
  /\ \A p \in Passes : \E k \in Items : p = PassOf(k)
<1>1. \A k \in Items : /\ BeginOf(k) \in Begins /\ PassOf(k) \in Passes /\ BeginOf(k) < PassOf(k)
                       /\ BeginOf(k) \in 1 .. 129 /\ PassOf(k) \in 1 .. 129
  BY DEF Items, BeginOf, PassOf, Begins, Passes
<1>2. \A i, j \in Items : i < j => PassOf(i) < BeginOf(j)
  BY DEF Items, BeginOf, PassOf
<1>3. /\ BeginOf(1) = 6 /\ BeginOf(2) = 19 /\ BeginOf(3) = 31 /\ BeginOf(4) = 50 /\ BeginOf(5) = 65
      /\ BeginOf(6) = 86 /\ BeginOf(7) = 95 /\ BeginOf(8) = 113
      /\ PassOf(1) = 17 /\ PassOf(2) = 29 /\ PassOf(3) = 48 /\ PassOf(4) = 63 /\ PassOf(5) = 84
      /\ PassOf(6) = 93 /\ PassOf(7) = 111 /\ PassOf(8) = 129
  BY DEF BeginOf, PassOf
<1>4. {1, 2, 3, 4, 5, 6, 7, 8} \subseteq Items
  BY DEF Items
<1>5. \A b \in Begins : \E k \in Items : b = BeginOf(k)
  BY <1>3, <1>4 DEF Begins
<1>6. \A p \in Passes : \E k \in Items : p = PassOf(k)
  BY <1>3, <1>4 DEF Passes
<1> QED
  BY <1>1, <1>2, <1>5, <1>6

(* BeginItem counts the functions that have begun.                         *)
LEMMA OneMore ==
  ASSUME NEW S, IsFiniteSet(S), NEW e, e \notin S, NEW T, T = S \cup {e}, NEW n \in Nat,
         Cardinality(S) = n
  PROVE  IsFiniteSet(T) /\ Cardinality(T) = n + 1
<1>1. IsFiniteSet(S \cup {e}) /\ Cardinality(S \cup {e}) = Cardinality(S) + 1
  BY FS_AddElement
<1> QED
  BY <1>1

(* At the beginning of the n-th function, n have begun.                    *)
LEMMA BegunBefore ==
  ASSUME NEW n \in Items
  PROVE  Cardinality({k \in 1..BeginOf(n) : Script[k].do = "begin"}) = n
<1> DEFINE B(m) == {k \in Begins : k <= m}
<1>0. ASSUME NEW i \in Begins PROVE {k \in 1..i : Script[k].do = "begin"} = B(i)
  <2>1. \A k \in 1 .. 129 : Script[k].do = "begin" <=> k \in Begins
    BY KindsByPlace DEF Kinds
  <2>2. Begins \subseteq 1 .. 129
    BY DEF Begins
  <2>3. \A k \in 1 .. i : k \in 1 .. 129
    BY <2>2
  <2>4. \A k \in Begins : k \in 1 .. i <=> k <= i
    BY <2>2
  <2> QED
    BY <2>1, <2>3, <2>4
<1>1. {k \in 1..BeginOf(n) : Script[k].do = "begin"} = B(BeginOf(n))
  BY <1>0, Brackets
<1>2. /\ B(6) = {} \cup {6} /\ B(19) = B(6) \cup {19} /\ B(31) = B(19) \cup {31}
      /\ B(50) = B(31) \cup {50} /\ B(65) = B(50) \cup {65} /\ B(86) = B(65) \cup {86}
      /\ B(95) = B(86) \cup {95} /\ B(113) = B(95) \cup {113}
  BY DEF Begins
<1>3. /\ 6 \notin {} /\ 19 \notin B(6) /\ 31 \notin B(19) /\ 50 \notin B(31) /\ 65 \notin B(50)
      /\ 86 \notin B(65) /\ 95 \notin B(86) /\ 113 \notin B(95)
  BY DEF Begins
<1> HIDE DEF B
<1>4. IsFiniteSet({}) /\ Cardinality({}) = 0
  BY FS_EmptySet
<1>5. IsFiniteSet(B(6)) /\ Cardinality(B(6)) = 0 + 1
  BY <1>2, <1>3, <1>4, OneMore
<1>6. IsFiniteSet(B(19)) /\ Cardinality(B(19)) = 1 + 1
  BY <1>2, <1>3, <1>5, OneMore
<1>7. IsFiniteSet(B(31)) /\ Cardinality(B(31)) = 2 + 1
  BY <1>2, <1>3, <1>6, OneMore
<1>8. IsFiniteSet(B(50)) /\ Cardinality(B(50)) = 3 + 1
  BY <1>2, <1>3, <1>7, OneMore
<1>9. IsFiniteSet(B(65)) /\ Cardinality(B(65)) = 4 + 1
  BY <1>2, <1>3, <1>8, OneMore
<1>10. IsFiniteSet(B(86)) /\ Cardinality(B(86)) = 5 + 1
  BY <1>2, <1>3, <1>9, OneMore
<1>11. IsFiniteSet(B(95)) /\ Cardinality(B(95)) = 6 + 1
  BY <1>2, <1>3, <1>10, OneMore
<1>12. IsFiniteSet(B(113)) /\ Cardinality(B(113)) = 7 + 1
  BY <1>2, <1>3, <1>11, OneMore
<1> QED
  BY <1>1, <1>5, <1>6, <1>7, <1>8, <1>9, <1>10, <1>11, <1>12 DEF BeginOf, Items

-----------------------------------------------------------------------------
(* The parts of the invariant, over a step of the run.                     *)

(* The types.                                                              *)
LEMMA MovesKeepTyped ==
  ASSUME CapTyped, pc = "run", at \in 1 .. 129, Frame, Moves
  PROVE  CapTyped'
<1> DEFINE HW == [mux : Places, ext5v : {"on", "off"}, grove5v : {"on", "off"},
                  pins : {"GPIO", "USB"}, lines : {"in", "out"}, i2c : Places, uart : Places]
           OWN == [i2c : BOOLEAN, uart : BOOLEAN, known : {"unknown", "GPIO", "USB"},
                   released : BOOLEAN, read_ok : BOOLEAN, stop_ok : BOOLEAN]
<1>1. hw' \in HW
  <2>1. SwitchWritten \/ PinsWritten => hw' \in HW
    BY DEF CapTyped, SwitchWritten, PinsWritten, Places
  <2>2. hw' = [hw EXCEPT !.lines = "out"] \/ hw' = [hw EXCEPT !.lines = "in"] => hw' \in HW
    BY DEF CapTyped
  <2>3. hw' = Flipped("i2c") \/ hw' = Flipped("uart") => hw' \in HW
    BY DEF CapTyped, Flipped, Places
  <2>4. hw' = [hw EXCEPT !.i2c = "HAT", !.uart = "HAT"] => hw' \in HW
    BY DEF CapTyped, Places
  <2>5. UNCHANGED hw => hw' \in HW
    BY DEF CapTyped
  <2> HIDE DEF HW
  <2> QED
    BY <2>1, <2>2, <2>3, <2>4, <2>5 DEF Moves, Left, Jumped, Stays, Ahead, Begun, Passed,
       SwitchSet, Toggled, CameHome, Selected, Driven, HasReset, Stopped, Released, Judged
<1>2. own' \in OWN
  <2>1. \/ own' = own
        \/ \E v \in BOOLEAN : \/ own' = [own EXCEPT !.read_ok = v]
                              \/ own' = [own EXCEPT !.i2c = v]
                              \/ own' = [own EXCEPT !.uart = v]
                              \/ own' = [own EXCEPT !.stop_ok = v]
                              \/ own' = [own EXCEPT !.released = v]
        \/ \E v \in {"USB", "GPIO"} : own' = [own EXCEPT !.known = v]
    BY DEF Moves, Left, Jumped, Stays, Ahead, Begun, Passed, SwitchSet, Toggled, CameHome,
       Selected, Driven, HasReset, Stopped, Released, Judged
  <2> QED
    BY <2>1 DEF CapTyped
<1>3. items' \in [Items -> {"PENDING", "RUNNING", "PASSED", "FAILED"}] /\ active_item' \in Items
  <2>1. \/ UNCHANGED <<items, active_item>>
        \/ active_item' = active_item /\ items' = [items EXCEPT ![active_item] = "FAILED"]
        \/ active_item' = active_item /\ items' = [items EXCEPT ![active_item] = "PASSED"]
        \/ /\ at \in Begins
           /\ active_item' = Cardinality({k \in 1..at : Script[k].do = "begin"})
           /\ items' = [items EXCEPT ![active_item'] = "RUNNING"]
    BY DEF Moves, Left, Jumped, Stays, Ahead, Begun, Passed, SwitchSet, Toggled, CameHome,
       Selected, Driven, HasReset, Stopped, Released, Judged, FailItem, snapshot
  <2>2. CASE /\ at \in Begins
             /\ active_item' = Cardinality({k \in 1..at : Script[k].do = "begin"})
             /\ items' = [items EXCEPT ![active_item'] = "RUNNING"]
    <3>1. PICK n \in Items : at = BeginOf(n)
      BY <2>2, Brackets
    <3>2. active_item' = n
      BY <2>2, <3>1, BegunBefore
    <3> QED
      BY <2>2, <3>2 DEF CapTyped
  <2> QED
    BY <2>1, <2>2 DEF CapTyped
<1>4. cancel_requested' \in BOOLEAN
  BY DEF Frame, CapTyped
<1> QED
  BY <1>1, <1>2, <1>3, <1>4 DEF CapTyped

(* A step that leaves the bus and the channels stands where they are the   *)
(* same before and after.                                                  *)
LEMMA SameBus ==
  ASSUME CapSwitches, pc = "run", at \in 1 .. 129,
         hw'.mux = hw.mux, hw'.i2c = hw.i2c, hw'.uart = hw.uart,
         \/ at' = at /\ settled' = settled
         \/ /\ at \notin Sets \cup Toggles \cup {4}
            /\ at' = at + 1 \/ (at = 101 /\ at' = at + 4) \/ (at \in 121 .. 125 /\ at' = 126)
            /\ settled' = settled \/ settled' = TRUE \/ at \in 96 .. 129
            /\ at \in Waits => settled' = TRUE
  PROVE  CapSwitches'
<1>1. CASE at' = at /\ settled' = settled
  BY <1>1 DEF CapSwitches
<1>2. CASE /\ at \notin Sets \cup Toggles \cup {4}
           /\ at' = at + 1 \/ (at = 101 /\ at' = at + 4) \/ (at \in 121 .. 125 /\ at' = 126)
           /\ settled' = settled \/ settled' = TRUE \/ at \in 96 .. 129
           /\ at \in Waits => settled' = TRUE
  <2>1. at \notin {1, 2, 4, 7, 32, 34, 36, 41, 45, 66, 68, 80} /\ (at = 37 => settled' = TRUE)
    BY <1>2 DEF Sets, Toggles, Waits
  <2>2. at' >= 2 => at >= 2
    BY <1>2, <2>1
  <2>3. at' >= 5 => at >= 5
    BY <1>2, <2>1
  <2>4. at' \in 37 .. 45 <=> at \in 37 .. 45
    BY <1>2, <2>1
  <2>5. at' \in 35 .. 41 <=> at \in 35 .. 41
    BY <1>2, <2>1
  <2>6. at' \in 69 .. 80 <=> at \in 69 .. 80
    BY <1>2, <2>1
  <2>7. at' \in 38 .. 45 /\ at # 37 => at \in 38 .. 45 /\ (settled' = settled \/ settled' = TRUE)
    BY <1>2
  <2> QED
    BY <2>1, <2>2, <2>3, <2>4, <2>5, <2>6, <2>7 DEF CapSwitches
<1> QED
  BY <1>1, <1>2

(* The bus and the channels are where the place says.                      *)
LEMMA MovesKeepSwitches ==
  ASSUME CapTyped, CapSwitches, pc = "run", at \in 1 .. 129, Moves
  PROVE  CapSwitches'
<1> DEFINE Same == hw'.mux = hw.mux /\ hw'.i2c = hw.i2c /\ hw'.uart = hw.uart
<1>0. /\ hw.mux \in Places /\ hw.i2c \in Places /\ hw.uart \in Places
      /\ UNCHANGED hw => Same
      /\ PinsWritten => Same
      /\ hw' = [hw EXCEPT !.lines = "out"] \/ hw' = [hw EXCEPT !.lines = "in"] => Same
  BY DEF CapTyped, PinsWritten
<1>1. CASE Left
  BY <1>1 DEF Left, CapSwitches
<1>2. CASE Jumped
  <2>1. at \notin Sets \cup Toggles \cup {4} /\ at \notin Waits
    BY <1>2 DEF Jumped, Sets, Toggles, Waits
  <2> QED
    BY <1>0, <1>2, <2>1, SameBus DEF Jumped
<1>3. CASE Stays
  BY <1>0, <1>3, SameBus DEF Stays
<1>4. CASE Ahead
  <2>1. at \notin Sets \cup Toggles \cup {4}
    BY <1>4 DEF Ahead, Acting
  <2> QED
    BY <1>0, <1>4, <2>1, SameBus DEF Ahead
<1>5. CASE Begun \/ Passed \/ CameHome \/ Stopped \/ Judged
  <2>1. /\ at \in Begins \cup Passes \cup {44, 83, 126, 128}
        /\ UNCHANGED <<hw, settled>>
        /\ \/ at = 129 /\ pc' = "cleanup"
           \/ at' = at + 1
    BY <1>5 DEF Begun, Passed, CameHome, Stopped, Judged
  <2>2. at \notin Sets \cup Toggles \cup {4} /\ at \notin Waits
    BY <2>1 DEF Begins, Passes, Sets, Toggles, Waits
  <2>3. CASE pc' = "cleanup"
    BY <2>3 DEF CapSwitches
  <2> QED
    BY <1>0, <2>1, <2>2, <2>3, SameBus
<1>6. CASE Selected \/ Driven \/ Released
  <2>1. at \in {96, 114, 116, 127} /\ at' = at + 1 /\ Same
    BY <1>0, <1>6 DEF Selected, PinsWritten, Selects, Driven, Released
  <2>2. at \notin Sets \cup Toggles \cup {4} /\ at \notin Waits
    BY <2>1 DEF Sets, Toggles, Waits
  <2>3. at \in 96 .. 129
    BY <2>1
  <2> QED
    BY <2>1, <2>2, <2>3, SameBus
<1>7. CASE SwitchSet
  <2>1. /\ at' = at + 1 /\ at \in {1, 2, 7, 32, 36, 45, 66} /\ SwitchWritten
        /\ hw'.i2c = hw.i2c /\ hw'.uart = hw.uart
    BY <1>7 DEF CapTyped, SwitchSet, Sets, SwitchWritten
  <2>2. /\ at \in {1, 45, 66} => hw'.mux = "HAT"
        /\ at = 36 => hw'.mux = "GROVE"
        /\ at \in {2, 7, 32} => hw'.mux = hw.mux
    BY <2>1 DEF CapTyped, SwitchWritten
  <2>3. at' \in {2, 3, 8, 33, 37, 46, 67}
    BY <2>1
  <2> QED
    BY <1>0, <2>1, <2>2, <2>3 DEF CapSwitches, Places
<1>8. CASE Toggled
  <2>1. /\ at' = at + 1 /\ at \in {34, 41, 68, 80} /\ settled' = settled /\ hw'.mux = hw.mux
        /\ at \in {34, 41} => hw'.uart = hw.uart /\ (hw'.i2c = "GROVE" <=> hw.i2c # "GROVE")
        /\ at \in {68, 80} => hw'.i2c = hw.i2c /\ (hw'.uart = "GROVE" <=> hw.uart # "GROVE")
    BY <1>8 DEF CapTyped, Toggled, Flipped, Places
  <2>2. at' \in {35, 42, 69, 81}
    BY <2>1
  <2> QED
    BY <2>1, <2>2 DEF CapSwitches
<1>9. CASE HasReset
  <2>1. at = 4 /\ at' = 5 /\ hw'.mux = hw.mux /\ hw'.i2c = "HAT" /\ hw'.uart = "HAT"
    BY <1>9 DEF CapTyped, HasReset
  <2> QED
    BY <2>1 DEF CapSwitches
<1> QED
  BY <1>1, <1>2, <1>3, <1>4, <1>5, <1>6, <1>7, <1>8, <1>9 DEF Moves

(* So are the flags that the cleanup goes by.                              *)
LEMMA MovesKeepOwn ==
  ASSUME CapTyped, CapOwn, pc = "run", at \in 1 .. 129, Moves
  PROVE  CapOwn'
<1> DEFINE Known(i) == IF i <= 96 THEN "unknown" ELSE IF i <= 114 THEN "USB" ELSE "GPIO"
           Parts ==
             /\ own'.i2c <=> at' \in 35 .. 44
             /\ own'.uart <=> at' \in 69 .. 83
             /\ own'.known = Known(at')
             /\ at' > 96 => hw'.pins = own'.known
             /\ at' <= 127 => ~own'.released
<1>0. Parts => CapOwn'
  BY DEF CapOwn
<1>1. /\ own.i2c <=> at \in 35 .. 44
      /\ own.uart <=> at \in 69 .. 83
      /\ own.known = Known(at)
      /\ at > 96 => hw.pins = own.known
      /\ at <= 127 => ~own.released
  BY DEF CapOwn
(* Neither the pins nor what is remembered of them and the channels.       *)
<1>2. ASSUME hw'.pins = hw.pins, own'.i2c = own.i2c, own'.uart = own.uart,
             own'.known = own.known, at' > 127 \/ own'.released = own.released,
             at \notin Toggles \cup Homes \cup Selects,
             at' = at \/ at' = at + 1 \/ (at = 101 /\ at' = at + 4)
               \/ (at \in 121 .. 125 /\ at' = 126)
      PROVE  CapOwn'
  <2>1. at \notin {34, 41, 68, 80, 44, 83, 96, 114}
    BY <1>2 DEF Toggles, Homes, Selects
  <2>2. at' \in 35 .. 44 <=> at \in 35 .. 44
    BY <1>2, <2>1
  <2>3. at' \in 69 .. 83 <=> at \in 69 .. 83
    BY <1>2, <2>1
  <2>4. (at' <= 96 <=> at <= 96) /\ (at' <= 114 <=> at <= 114) /\ (at' > 96 <=> at > 96)
    BY <1>2, <2>1
  <2>5. at' <= 127 => at <= 127
    BY <1>2
  <2> QED
    BY <1>0, <1>1, <1>2, <2>2, <2>3, <2>4, <2>5
<1>3. CASE Left
  BY <1>3 DEF Left, CapOwn
<1>4. CASE Jumped \/ Stopped
  <2>1. /\ \/ at \in 121 .. 125 /\ at' = 126
           \/ at = 126 /\ at' = at + 1
        /\ hw' = hw /\ own'.i2c = own.i2c /\ own'.uart = own.uart
        /\ own'.known = own.known /\ own'.released = own.released
    BY <1>4 DEF Jumped, Stopped, CapTyped
  <2>2. at \notin Toggles \cup Homes \cup Selects
    BY <2>1 DEF Toggles, Homes, Selects
  <2> QED
    BY <1>2, <2>1, <2>2
<1>5. CASE Ahead \/ Begun \/ Passed \/ Judged \/ HasReset \/ Driven \/ SwitchSet
  <2>1. hw'.pins = hw.pins /\ own' = own
    BY <1>5 DEF Ahead, Begun, Passed, Judged, HasReset, Driven, SwitchSet, SwitchWritten, CapTyped
  <2>2. at \notin Toggles \cup Homes \cup Selects
    BY <1>5 DEF Ahead, Begun, Passed, Judged, HasReset, Driven, SwitchSet, Acting, Begins, Passes,
       Sets, Toggles, Homes, Selects
  <2>3. \/ at' = at + 1 \/ (at = 101 /\ at' = at + 4) \/ pc' = "cleanup"
    BY <1>5 DEF Ahead, Begun, Passed, Judged, HasReset, Driven, SwitchSet
  <2>4. CASE pc' = "cleanup"
    BY <2>4 DEF CapOwn
  <2> QED
    BY <1>2, <2>1, <2>2, <2>3, <2>4
<1>6. CASE Stays
  BY <1>6 DEF Stays, CapOwn
<1>7. CASE Released
  <2>1. /\ at = 127 /\ at' = 128 /\ hw'.pins = hw.pins /\ own'.i2c = own.i2c
        /\ own'.uart = own.uart /\ own'.known = own.known
    BY <1>7 DEF Released, CapTyped
  <2>2. at \notin Toggles \cup Homes \cup Selects
    BY <2>1 DEF Toggles, Homes, Selects
  <2> QED
    BY <1>2, <2>1, <2>2
<1>8. CASE Toggled
  <2>1. /\ at \in {34, 41, 68, 80} /\ at' = at + 1 /\ hw'.pins = hw.pins
        /\ own'.known = own.known /\ own'.released = own.released
        /\ own'.i2c <=> own.i2c \/ at = 34
        /\ own'.uart <=> own.uart \/ at = 68
    BY <1>8 DEF Toggled, Flipped, CapTyped
  <2>2. at' \in {35, 42, 69, 81}
    BY <2>1
  <2> QED
    BY <1>0, <1>1, <2>1, <2>2
<1>9. CASE CameHome
  <2>1. /\ at \in {44, 83} /\ at' = at + 1 /\ hw'.pins = hw.pins
        /\ own'.known = own.known /\ own'.released = own.released
        /\ own'.i2c <=> own.i2c /\ at # 44
        /\ own'.uart <=> own.uart /\ at # 83
    BY <1>9 DEF CameHome, CapTyped
  <2>2. at' \in {45, 84}
    BY <2>1
  <2> QED
    BY <1>0, <1>1, <2>1, <2>2
<1>10. CASE Selected
  <2>1. /\ at \in {96, 114} /\ at' = at + 1 /\ own'.released = own.released
        /\ own'.i2c = own.i2c /\ own'.uart = own.uart
        /\ own'.known = IF at = 96 THEN "USB" ELSE "GPIO"
    BY <1>10 DEF Selected, PinsWritten, Selects, CapTyped
  <2>2. own.known # own'.known
    BY <1>1, <2>1
  <2>3. PinsWritten
    BY <1>10, <2>2 DEF Selected
  <2>4. hw'.pins = own'.known
    BY <2>1, <2>3 DEF PinsWritten, CapTyped
  <2>5. at' \in {97, 115}
    BY <2>1
  <2> QED
    BY <1>0, <1>1, <2>1, <2>4, <2>5
<1> QED
  BY <1>3, <1>4, <1>5, <1>6, <1>7, <1>8, <1>9, <1>10 DEF Moves

(* What is remembered as done has been done.                               *)
LEMMA MovesKeepKnows ==
  ASSUME CapTyped, CapOwn, CapKnows, pc = "run", at \in 1 .. 129, Moves
  PROVE  CapKnows'
<1>1. own'.released => hw'.lines = "in"
  <2>1. CASE hw'.lines = hw.lines /\ own'.released = own.released
    BY <2>1 DEF CapKnows
  <2>2. CASE at = 116 /\ own'.released = own.released
    BY <2>2 DEF CapOwn
  <2>3. CASE Released
    BY <2>3 DEF Released, CapTyped, CapKnows
  <2>4. \/ hw'.lines = hw.lines /\ own'.released = own.released
        \/ at = 116 /\ own'.released = own.released
        \/ Released
    <3>1. CASE Selected
      BY <3>1 DEF Selected, PinsWritten, CapTyped
    <3>2. CASE Left
      BY <3>2 DEF Left, SwitchWritten, PinsWritten, CapTyped
    <3> QED
      BY <3>1, <3>2 DEF CapTyped, SwitchWritten, Flipped, Moves, Jumped, Stays, Ahead, Begun,
         Passed, SwitchSet, Toggled, CameHome, Driven, HasReset, Stopped, Judged
  <2> QED
    BY <2>1, <2>2, <2>3, <2>4
<1>2. own'.known = "GPIO" => hw'.pins = "GPIO"
  <2>1. CASE hw'.pins = hw.pins /\ own'.known = own.known
    BY <2>1 DEF CapKnows
  <2>2. CASE PinsWritten /\ own'.known = own.known
    <3>1. own.known # "GPIO"
      BY <2>2 DEF CapOwn, PinsWritten
    <3> QED
      BY <2>2, <3>1
  <2>3. CASE PinsWritten /\ own'.known = IF at = 96 THEN "USB" ELSE "GPIO"
    BY <2>3 DEF PinsWritten, CapTyped
  <2>4. \/ hw'.pins = hw.pins /\ own'.known = own.known
        \/ PinsWritten /\ own'.known = own.known
        \/ PinsWritten /\ own'.known = IF at = 96 THEN "USB" ELSE "GPIO"
    <3>1. CASE Selected
      BY <3>1 DEF Selected, CapTyped
    <3>2. CASE Left
      BY <3>2 DEF Left, SwitchWritten, CapTyped
    <3> QED
      BY <3>1, <3>2 DEF CapTyped, SwitchWritten, Flipped, Moves, Jumped, Stays, Ahead, Begun,
         Passed, SwitchSet, Toggled, CameHome, Driven, HasReset, Stopped, Released, Judged
  <2> QED
    BY <2>1, <2>2, <2>3, <2>4
<1> QED
  BY <1>1, <1>2 DEF CapKnows

(* The channels that are out are those remembered to be.                   *)
LEMMA MovesKeepChannels ==
  ASSUME CapTyped, CapPage, CapSwitches, CapOwn, CapChannels, pc = "run", at \in 1 .. 129,
         Frame, Moves
  PROVE  CapChannels'
<1> SUFFICES ASSUME clean', calm' PROVE
      /\ pc' \in {"none", "over"} \/ (pc' = "run" /\ at' < 5) =>
           hw'.i2c = "HAT" /\ hw'.uart = "HAT"
      /\ pc' = "cleanup" => (hw'.i2c = "GROVE" <=> own'.i2c) /\ (hw'.uart = "GROVE" <=> own'.uart)
  BY DEF CapChannels
<1>1. clean /\ calm /\ ~cancel_requested
  BY DEF Frame, history, CapPage
<1>2. (at < 5 => hw.i2c = "HAT" /\ hw.uart = "HAT") /\ hw.i2c \in Places /\ hw.uart \in Places
  BY <1>1 DEF CapChannels, CapTyped
<1>3. /\ own.i2c <=> at \in 35 .. 44
      /\ own.uart <=> at \in 69 .. 83
      /\ at >= 5 => (hw.i2c = "GROVE" <=> at \in 35 .. 41)
      /\ at >= 5 => (hw.uart = "GROVE" <=> at \in 69 .. 80)
  BY DEF CapOwn, CapSwitches
<1>4. CASE Left
  <2>1. hw'.i2c = hw.i2c /\ hw'.uart = hw.uart /\ own' = own /\ pc' = "cleanup"
    BY <1>4 DEF Left, SwitchWritten, PinsWritten, CapTyped
  <2>2. at \notin {42, 43, 44, 81, 82, 83}
    BY <1>1, <1>4 DEF Left, Waits, Homes
  <2> QED
    BY <1>2, <1>3, <2>1, <2>2 DEF Places
<1>5. CASE Passed /\ at = 129
  BY <1>3, <1>5 DEF Passed, Places
<1>6. CASE pc' = "run" /\ at' < 5
  <2>1. (at < 5 /\ at # 4) \/ at' = at
    BY <1>6 DEF Moves, Left, Jumped, Stays, Ahead, Begun, Passed, SwitchSet, Toggled, CameHome,
       Selected, Driven, HasReset, Stopped, Released, Judged, Acting, PinsWritten, Selects, Passes,
       Begins
  <2>2. CASE at' = at
    <3>1. Stays
      BY <1>6, <2>2 DEF Moves, Left, Jumped, Ahead, Begun, Passed, SwitchSet, Toggled, CameHome,
         Selected, Driven, HasReset, Stopped, Released, Judged
    <3> QED
      BY <1>2, <1>6, <2>2, <3>1 DEF Stays
  <2>3. CASE at < 5 /\ at # 4
    <3>1. hw'.i2c = hw.i2c /\ hw'.uart = hw.uart
      BY <1>6, <2>3 DEF CapTyped, SwitchWritten, PinsWritten, Moves, Left, Jumped, Stays, Ahead,
         Begun, Passed, SwitchSet, Toggled, CameHome, Selected, Driven, HasReset, Stopped,
         Released, Judged
    <3> QED
      BY <1>2, <1>6, <2>3, <3>1
  <2> QED
    BY <2>1, <2>2, <2>3
<1>7. \/ Left \/ (Passed /\ at = 129) \/ pc' = "run"
  BY DEF Moves, Jumped, Stays, Ahead, Begun, Passed, SwitchSet, Toggled, CameHome, Selected, Driven,
     HasReset, Stopped, Released, Judged
<1> QED
  BY <1>4, <1>5, <1>6, <1>7

(* A run that is left has its cleanup before it.                           *)
LEMMA MovesKeepCleanup ==
  ASSUME CapCleanup, pc = "run", Moves PROVE CapCleanup'
<1>1. pc' = "run" \/ (pc' = "cleanup" /\ at' = 1)
  BY DEF Moves, Left, Jumped, Stays, Ahead, Begun, Passed, SwitchSet, Toggled, CameHome, Selected,
     Driven, HasReset, Stopped, Released, Judged
<1> QED
  BY <1>1 DEF CapCleanup

(* A step of the run leads to a place of the run, or to the cleanup.       *)
LEMMA MovesKeepPlaced ==
  ASSUME CapPlaced, pc = "run", at \in 1 .. 129, Moves
  PROVE  CapPlaced' /\ pc' \in {"run", "cleanup"}
<1>1. CASE Left \/ Jumped \/ Stays
  BY <1>1 DEF Left, Jumped, Stays, CapPlaced
<1>2. CASE Ahead \/ Begun \/ Passed \/ SwitchSet \/ Selected
  <2>1. \/ pc' = "run" /\ at # 129 /\ (at' = at + 1 \/ (at = 101 /\ at' = at + 4))
        \/ pc' = "cleanup" /\ at' = 1
    BY <1>2 DEF Ahead, Begun, Passed, SwitchSet, Selected, PinsWritten, Acting, Begins, Passes,
       Sets, Selects
  <2> QED
    BY <2>1 DEF CapPlaced
<1>3. CASE Toggled \/ CameHome \/ Driven \/ HasReset \/ Stopped \/ Released \/ Judged
  BY <1>3 DEF Toggled, CameHome, Driven, HasReset, Stopped, Released, Judged, CapPlaced
<1> QED
  BY <1>1, <1>2, <1>3 DEF Moves

(* The snapshot: which step writes the run state, and how.                 *)
LEMMA MovesState ==
  ASSUME Moves
  PROVE  state' = state \/ (state' = "FAILED" /\ (Left \/ Jumped))
BY DEF Moves, Left, Jumped, Stays, Ahead, Begun, Passed, SwitchSet, Toggled, CameHome, Selected,
   Driven, HasReset, Stopped, Released, Judged, FailItem, snapshot

(* The page is as it was.                                                  *)
LEMMA MovesKeepPage ==
  ASSUME CapPage, CapPlaced, pc = "run", at \in 1 .. 129, Frame, Moves
  PROVE  CapPage'
<1>1. pc' \in {"run", "cleanup"}
  BY MovesKeepPlaced
<1> QED
  BY <1>1 DEF CapPage, Frame, history

(* The items of a run: one step before and one after.                      *)
LEMMA ItemsOrdered ==
  ASSUME CapItems, pc = "run", at \in 1 .. 129
  PROVE  ItemsInOrder
<1>1. ASSUME NEW i \in Items, NEW j \in Items, i < j, items[j] # "PENDING"
      PROVE  items[i] = "PASSED"
  <2>1. at > BeginOf(j)
    BY <1>1, Brackets DEF CapItems
  <2>2. PassOf(i) < BeginOf(j)
    BY <1>1, Brackets
  <2>3. at > PassOf(i)
    BY <2>1, <2>2, Brackets
  <2> QED
    BY <2>3 DEF CapItems
<1> QED
  BY <1>1 DEF ItemsInOrder

(* The items before the place have passed, those after it are pending.     *)
LEMMA MovesKeepItems ==
  ASSUME CapTyped, CapItems, pc = "run", at \in 1 .. 129, Moves
  PROVE  CapItems'
<1> DEFINE Good(k) ==
             /\ at' <= BeginOf(k) => items'[k] = "PENDING"
             /\ at' > BeginOf(k) /\ at' <= PassOf(k) =>
                  active_item' = k /\ items'[k] \in {"RUNNING", "FAILED"}
             /\ at' > PassOf(k) => items'[k] = "PASSED"
<1> SUFFICES ASSUME pc' = "run", NEW k \in Items PROVE Good(k)
  BY DEF CapItems
<1>1. /\ at <= BeginOf(k) => items[k] = "PENDING"
      /\ at > BeginOf(k) /\ at <= PassOf(k) => active_item = k /\ items[k] \in {"RUNNING", "FAILED"}
      /\ at > PassOf(k) => items[k] = "PASSED"
  BY DEF CapItems
<1>2. BeginOf(k) \in 1 .. 129 /\ PassOf(k) \in 1 .. 129 /\ BeginOf(k) < PassOf(k)
  BY Brackets
<1>3. items \in [Items -> {"PENDING", "RUNNING", "PASSED", "FAILED"}]
  BY DEF CapTyped
<1>4. CASE Begun
  <2>1. PICK n \in Items : at = BeginOf(n)
    BY <1>4, Brackets DEF Begun
  <2>2. active_item' = n /\ items' = [items EXCEPT ![n] = "RUNNING"] /\ at' = at + 1
    BY <1>4, <2>1, BegunBefore DEF Begun
  <2>3. /\ k < n => PassOf(k) < BeginOf(n)
        /\ n < k => PassOf(n) < BeginOf(k)
        /\ BeginOf(n) < PassOf(n) /\ PassOf(n) \in 1 .. 129
    BY Brackets
  <2>4. k < n \/ k = n \/ n < k
    BY DEF Items
  <2> QED
    BY <1>1, <1>2, <1>3, <2>1, <2>2, <2>3, <2>4
<1>5. CASE Passed
  <2>1. PICK n \in Items : at = PassOf(n)
    BY <1>5, Brackets DEF Passed
  <2>2. /\ BeginOf(n) \in 1 .. 129 /\ BeginOf(n) < PassOf(n)
        /\ active_item = n
    BY <2>1, Brackets DEF CapItems
  <2>3. items' = [items EXCEPT ![n] = "PASSED"] /\ at' = at + 1
    BY <1>5, <2>2 DEF Passed
  <2>4. /\ k < n => PassOf(k) < BeginOf(n)
        /\ n < k => PassOf(n) < BeginOf(k)
    BY Brackets
  <2>5. k < n \/ k = n \/ n < k
    BY DEF Items
  <2> QED
    BY <1>1, <1>2, <1>3, <2>1, <2>2, <2>3, <2>4, <2>5
<1>6. CASE Jumped
  <2>1. at \in 121 .. 125 /\ at' = 126 /\ active_item' = active_item
    BY <1>6 DEF Jumped, FailItem, snapshot
  <2>2. active_item = 8 /\ items[8] \in {"RUNNING", "FAILED"}
    BY <2>1 DEF CapItems, BeginOf, PassOf, Items
  <2>3. items' = items \/ items' = [items EXCEPT ![8] = "FAILED"]
    BY <1>6, <2>2 DEF Jumped, FailItem, snapshot
  <2>4. k # 8 => PassOf(k) < BeginOf(8)
    BY Brackets DEF Items
  <2>5. BeginOf(8) = 113 /\ PassOf(8) = 129
    BY DEF BeginOf, PassOf
  <2> QED
    BY <1>1, <1>2, <1>3, <2>1, <2>2, <2>3, <2>4, <2>5
<1>7. CASE Stays
  BY <1>1, <1>7 DEF Stays, snapshot
<1>8. CASE \/ Ahead \/ SwitchSet \/ Toggled \/ CameHome \/ Selected \/ Driven \/ HasReset
           \/ Stopped \/ Released \/ Judged
  <2>1. /\ UNCHANGED <<items, active_item>>
        /\ at' = at + 1 \/ (at = 101 /\ at' = at + 4)
    BY <1>8 DEF Ahead, SwitchSet, Toggled, CameHome, Selected, Driven, HasReset, Stopped, Released,
       Judged, snapshot
  <2>2. at \notin Begins /\ at \notin Passes
    BY <1>8 DEF Ahead, SwitchSet, Toggled, CameHome, Selected, Driven, HasReset, Stopped, Released,
       Judged, Acting, PinsWritten, Begins, Passes, Sets, Toggles, Homes, Selects
  <2>3. at # BeginOf(k) /\ at # PassOf(k)
    BY <2>2, Brackets
  <2>4. at = 101 => /\ BeginOf(k) \notin 101 .. 105 /\ PassOf(k) \notin 101 .. 105
    BY DEF BeginOf, PassOf
  <2>5. (at' <= BeginOf(k) <=> at <= BeginOf(k)) /\ (at' <= PassOf(k) <=> at <= PassOf(k))
    BY <1>2, <2>1, <2>3, <2>4
  <2>6. at' \in Int
    BY <2>1
  <2> QED
    BY <1>1, <1>2, <2>1, <2>5, <2>6
<1>9. ~Left
  BY DEF Left
<1> QED
  BY <1>4, <1>5, <1>6, <1>7, <1>8, <1>9 DEF Moves

(* A run that is left: at most the item it was at has failed.              *)
LEMMA LeavingKeepsOrder ==
  ASSUME CapTyped, CapItems, pc = "run", at \in 1 .. 129, Moves, pc' = "cleanup"
  PROVE  ItemsInOrder'
<1>0. ItemsInOrder
  BY ItemsOrdered
<1>1. CASE UNCHANGED items
  BY <1>0, <1>1 DEF ItemsInOrder
<1>2. CASE items[1] = "PENDING" /\ active_item \in Items
           /\ items' = [items EXCEPT ![active_item] = "FAILED"]
  <2>1. \A k \in Items : items[k] = "PENDING"
    <3>1. at <= BeginOf(1)
      BY <1>2 DEF CapItems, Items, BeginOf, PassOf
    <3>2. \A k \in Items : BeginOf(1) <= BeginOf(k)
      BY DEF BeginOf
    <3> QED
      BY <3>1, <3>2, Brackets DEF CapItems, BeginOf
  <2> QED
    BY <1>2, <2>1 DEF CapTyped, ItemsInOrder, Items
<1>3. ASSUME NEW n \in Items, NEW v, n = active_item, items' = [items EXCEPT ![n] = v],
             at > BeginOf(n), at <= PassOf(n)
      PROVE  ItemsInOrder'
  <2>1. ASSUME NEW i \in Items, NEW j \in Items, i < j, items'[j] # "PENDING"
        PROVE  items'[i] = "PASSED"
    <3>0. /\ BeginOf(n) \in 1 .. 129 /\ PassOf(n) \in 1 .. 129
          /\ PassOf(i) \in 1 .. 129 /\ BeginOf(j) \in 1 .. 129
          /\ i \in 1 .. 8 /\ j \in 1 .. 8 /\ n \in 1 .. 8
      BY Brackets DEF Items
    <3>1. CASE j < n \/ j = n
      <4>1. PassOf(i) < BeginOf(n)
        BY <2>1, <3>0, <3>1, Brackets
      <4>2. at > PassOf(i) /\ i # n
        BY <1>3, <2>1, <3>0, <3>1, <4>1
      <4>3. items[i] = "PASSED"
        BY <4>2 DEF CapItems
      <4> QED
        BY <1>3, <4>2, <4>3 DEF CapTyped
    <3>2. CASE j > n
      <4>1. PassOf(n) < BeginOf(j)
        BY <3>2, Brackets
      <4>2. at <= BeginOf(j)
        BY <1>3, <3>0, <4>1
      <4>3. items'[j] = "PENDING"
        BY <1>3, <3>2, <4>2 DEF CapTyped, CapItems
      <4> QED
        BY <2>1, <4>3
    <3> QED
      BY <2>1, <3>0, <3>1, <3>2
  <2> QED
    BY <2>1 DEF ItemsInOrder
<1>4. CASE Passed
  <2>1. PICK n \in Items : at = PassOf(n)
    BY <1>4, Brackets DEF Passed
  <2>2. at > BeginOf(n) /\ at <= PassOf(n)
    BY <2>1, Brackets
  <2>3. n = active_item
    BY <2>2 DEF CapItems
  <2> QED
    BY <1>3, <1>4, <2>2, <2>3 DEF Passed
<1>5. CASE Left /\ FailItem /\ at \notin Waits /\ items[1] # "PENDING"
  <2>0. 1 \in Items /\ BeginOf(1) = 6
    BY DEF Items, BeginOf
  <2>1. at <= BeginOf(1) => items[1] = "PENDING"
    BY <2>0 DEF CapItems
  <2>2. at \notin Waits /\ at \notin Begins /\ at > 6
    BY <1>5, <2>0, <2>1 DEF Left
  <2>3. \E n \in Items : at > BeginOf(n) /\ at <= PassOf(n)
    <3>1. \/ at \in 7 .. 17 \/ at \in 20 .. 29 \/ at \in 32 .. 48 \/ at \in 51 .. 63
          \/ at \in 66 .. 84 \/ at \in 87 .. 93 \/ at \in 96 .. 111 \/ at \in 114 .. 129
      BY <2>2 DEF Waits, Begins
    <3> QED
      BY <3>1 DEF BeginOf, PassOf, Items
  <2>4. PICK n \in Items : at > BeginOf(n) /\ at <= PassOf(n)
    BY <2>3
  <2>5. n = active_item
    BY <2>4 DEF CapItems
  <2> QED
    BY <1>3, <1>5, <2>4, <2>5 DEF FailItem
<1>6. \/ UNCHANGED items
      \/ Passed
      \/ Left /\ FailItem /\ at \notin Waits
  BY DEF Moves, Left, Jumped, Stays, Ahead, Begun, SwitchSet, Toggled, CameHome, Selected, Driven,
     HasReset, Stopped, Released, Judged, snapshot
<1> QED
  BY <1>1, <1>2, <1>4, <1>5, <1>6 DEF CapTyped, FailItem

(* The run state is written by a failure only.                             *)
LEMMA MovesKeepState ==
  ASSUME CapTyped, CapPlaced, CapState, CapItems, pc = "run", at \in 1 .. 129, Frame, Moves
  PROVE  CapState'
<1>0. pc' \in {"run", "cleanup"} /\ cancel_requested' = cancel_requested
  BY MovesKeepPlaced DEF Frame
<1>1. state \in {"RUNNING", "FAILED"} /\ state' \in {"RUNNING", "FAILED"}
  BY MovesState DEF CapState
<1>2. pc' = "cleanup" => ItemsInOrder'
  BY LeavingKeepsOrder
<1>3. ASSUME pc' = "cleanup", state' = "RUNNING" PROVE cancel_requested \/ items'[8] = "PASSED"
  <2>1. CASE Left
    <3>1. cancel_requested \/ ~own.read_ok
      BY <1>1, <1>3, <2>1 DEF Left, FailItem
    <3>2. state = "RUNNING"
      BY <1>1, <1>3, MovesState
    <3> QED
      BY <3>1, <3>2 DEF CapState
  <2>2. CASE Passed
    <3>1. at = 129 /\ items' = [items EXCEPT ![active_item] = "PASSED"]
      BY <1>3, <2>2 DEF Passed
    <3>2. active_item = 8
      BY <3>1 DEF CapItems, BeginOf, PassOf, Items
    <3> QED
      BY <3>1, <3>2 DEF CapTyped, Items
  <2> QED
    BY <1>3, <2>1, <2>2 DEF Moves, Jumped, Stays, Ahead, Begun, SwitchSet, Toggled, CameHome,
       Selected, Driven, HasReset, Stopped, Released, Judged
<1>4. ASSUME pc' = "run"
      PROVE  /\ state' = "FAILED" => ~own'.read_ok
             /\ ~own'.read_ok => at' \in 126 .. 128 /\ (cancel_requested \/ state' = "FAILED")
  <2>1. /\ state = "FAILED" => ~own.read_ok
        /\ ~own.read_ok => at \in 126 .. 128 /\ (cancel_requested \/ state = "FAILED")
    BY DEF CapState
  <2>2. CASE Jumped
    <3>1. ~own'.read_ok
      BY <2>2 DEF Jumped, CapTyped
    <3>2. cancel_requested \/ state' = "FAILED"
      BY <2>1, <2>2 DEF Jumped, FailItem
    <3> QED
      BY <2>2, <3>1, <3>2 DEF Jumped
  <2>3. CASE /\ own'.read_ok = own.read_ok /\ state' = state
             /\ \/ at' = at \/ at \notin 126 .. 128
                \/ (at \in 126 .. 127 /\ at' = at + 1) \/ own.read_ok
    BY <2>1, <2>3
  <2>4. \/ Jumped
        \/ /\ own'.read_ok = own.read_ok /\ state' = state
           /\ \/ at' = at \/ at \notin 126 .. 128
              \/ (at \in 126 .. 127 /\ at' = at + 1) \/ own.read_ok
    <3>1. CASE Ahead \/ Begun \/ Passed \/ SwitchSet
      <4>1. at \notin 126 .. 128
        BY <3>1 DEF Ahead, Begun, Passed, SwitchSet, Acting, Begins, Passes, Sets
      <4> QED
        BY <3>1, <4>1 DEF Ahead, Begun, Passed, SwitchSet, snapshot
    <3>2. CASE Toggled \/ CameHome \/ Selected \/ Driven \/ HasReset
      <4>1. at \notin 126 .. 128
        BY <3>2 DEF Toggled, CameHome, Selected, Driven, HasReset, PinsWritten, Selects
      <4> QED
        BY <3>2, <4>1 DEF Toggled, CameHome, Selected, Driven, HasReset, CapTyped, snapshot
    <3>3. CASE Stays \/ Stopped \/ Released \/ Judged
      BY <3>3 DEF Stays, Stopped, Released, Judged, CapTyped, snapshot
    <3>4. ~Left
      BY <1>4 DEF Left
    <3> QED
      BY <3>1, <3>2, <3>3, <3>4 DEF Moves
  <2> QED
    BY <2>2, <2>3, <2>4
<1> QED
  BY <1>0, <1>1, <1>2, <1>3, <1>4 DEF CapState, PassedIsComplete, EndedIsTold

(* Polls, attempts and faults stay within their bounds.                    *)
LEMMA RunKeepsCounts == ASSUME CapCounts, Run PROVE CapCounts'
<1>1. /\ MaxFaults \in Nat /\ MaxPolls \in Nat /\ ResetAttempts \in Nat
  BY FixtureAssumption
<1>2. faults' = faults \/ (faults < MaxFaults /\ faults' = faults + 1)
  BY DEF Run, Canceled, Fault, BeginItem, PassItem, Exchange, DelayEnds, SetSwitch, Toggle,
     ComeHome, SelectPins, Drive, PollAgain, Reset, Find, GpioStop, GpioInputs, GpioVerdict
<1>3. \/ count' = 0
      \/ count < MaxPolls /\ count' = count + 1
      \/ count + 1 < ResetAttempts /\ count' = count + 1
  BY DEF Run, Canceled, Fault, BeginItem, PassItem, Exchange, DelayEnds, SetSwitch, Toggle,
     ComeHome, SelectPins, Drive, PollAgain, Reset, Find, GpioStop, GpioInputs, GpioVerdict,
     Advance, LeaveRun
<1>4. runs' = runs
  BY DEF Run, Canceled, Fault, BeginItem, PassItem, Exchange, DelayEnds, SetSwitch, Toggle,
     ComeHome, SelectPins, Drive, PollAgain, Reset, Find, GpioStop, GpioInputs, GpioVerdict,
     Frame, history
<1> QED
  BY <1>1, <1>2, <1>3, <1>4 DEF CapCounts

(* A step of the run keeps the invariant.                                  *)
LEMMA RunKeeps == ASSUME CapInv, Run PROVE CapInv'
<1>1. /\ CapTyped /\ CapCounts /\ CapPlaced /\ CapPage /\ CapState /\ CapItems
      /\ CapSwitches /\ CapOwn /\ CapKnows /\ CapChannels /\ CapCleanup
  BY DEF CapInv
<1>2. pc = "run" /\ at \in 1 .. 129 /\ Frame /\ Moves
  BY <1>1, RunMoves
<1>3. CapTyped' /\ CapCounts' /\ CapPlaced' /\ CapPage'
  BY <1>1, <1>2, MovesKeepTyped, RunKeepsCounts, MovesKeepPlaced, MovesKeepPage
<1>4. CapState' /\ CapItems' /\ CapSwitches' /\ CapOwn'
  BY <1>1, <1>2, MovesKeepState, MovesKeepItems, MovesKeepSwitches, MovesKeepOwn
<1>5. CapKnows' /\ CapChannels' /\ CapCleanup'
  BY <1>1, <1>2, MovesKeepKnows, MovesKeepChannels, MovesKeepCleanup
<1> QED
  BY <1>3, <1>4, <1>5 DEF CapInv

-----------------------------------------------------------------------------
(* What a step of the cleanup does, by the place it is at.                 *)

(* Which step of the cleanup is at which place.                            *)
LEMMA CleanUpPlaces ==
  ASSUME pc = "cleanup", at \in 1 .. 10
  PROVE  /\ Now.do = "recover_mux" => at = 1
         /\ Now.do = "recover_i2c" => at = 2
         /\ Now.do = "recover_uart" => at = 4
         /\ Now.do = "set" => \/ at = 3 /\ Now.what = "mux" /\ Now.to = "HAT"
                              \/ at = 8 /\ Now.what = "ext5v" /\ Now.to = "off"
                              \/ at = 9 /\ Now.what = "grove5v" /\ Now.to = "off"
         /\ Now.do = "stop" => at = 5
         /\ Now.do = "pins" => at = 6 /\ Now.to = "GPIO"
         /\ Now.do = "inputs" => at = 7
         /\ Now.do = "close" => at = 10
<1>1. Now = CleanUp[at]
  BY DEF Now
<1>2. /\ CleanUp[1] = Op("recover_mux") /\ CleanUp[2] = Op("recover_i2c")
      /\ CleanUp[3] = Set("mux", "HAT") /\ CleanUp[4] = Op("recover_uart")
      /\ CleanUp[5] = Op("stop") /\ CleanUp[6] = Pins("GPIO") /\ CleanUp[7] = Op("inputs")
      /\ CleanUp[8] = Set("ext5v", "off") /\ CleanUp[9] = Set("grove5v", "off")
      /\ CleanUp[10] = Op("close")
  BY DEF CleanUp
<1>3. /\ at = 1 => Now.do = "recover_mux"
      /\ at = 2 => Now.do = "recover_i2c"
      /\ at = 3 => Now.do = "set" /\ Now.what = "mux" /\ Now.to = "HAT"
      /\ at = 4 => Now.do = "recover_uart"
      /\ at = 5 => Now.do = "stop"
      /\ at = 6 => Now.do = "pins" /\ Now.to = "GPIO"
      /\ at = 7 => Now.do = "inputs"
      /\ at = 8 => Now.do = "set" /\ Now.what = "ext5v" /\ Now.to = "off"
      /\ at = 9 => Now.do = "set" /\ Now.what = "grove5v" /\ Now.to = "off"
      /\ at = 10 => Now.do = "close"
  BY <1>1, <1>2, OperationKinds
<1>4. at \in {1, 2, 3, 4, 5, 6, 7, 8, 9, 10}
  OBVIOUS
<1> QED
  BY <1>3, <1>4

(* The step worked, or has spoilt the cleanup.                             *)
Recovered(w) ==
  /\ own' = [own EXCEPT ![w] = FALSE]
  /\ \/ hw' = hw /\ (~own[w] \/ clean' = FALSE \/ ~Reachable)
     \/ hw' = Flipped(w) /\ own[w]
Turned(w, v) ==
  own' = own /\ (hw' = [hw EXCEPT ![w] = v] \/ (hw' = hw /\ clean' = FALSE))
CleanMoves ==
  /\ pc = "cleanup" /\ at \in 1 .. 9 /\ pc' = "cleanup" /\ at' = at + 1
  /\ clean' = clean \/ clean' = FALSE
  /\ UNCHANGED <<page, cancel_requested, snapshot, runs, calm>>
  /\ \/ at = 1 /\ own' = own /\ \/ hw' = hw /\ (~own.i2c \/ clean' = FALSE)
                                \/ hw' = [hw EXCEPT !.mux = "GROVE"]
     \/ at = 2 /\ Recovered("i2c")
     \/ at = 3 /\ Turned("mux", "HAT")
     \/ at = 4 /\ Recovered("uart")
     \/ at = 5 /\ UNCHANGED <<hw, own>>
     \/ at = 6 /\ \/ UNCHANGED <<hw, own>> /\ (own.known = "GPIO" \/ clean' = FALSE)
                  \/ /\ hw' = [hw EXCEPT !.pins = "GPIO"]
                     /\ own' = own \/ own' = [own EXCEPT !.known = "GPIO"]
     \/ at = 7 /\ \/ UNCHANGED <<hw, own>> /\ (own.released \/ clean' = FALSE)
                  \/ /\ hw' = [hw EXCEPT !.lines = "in"]
                     /\ own' = [own EXCEPT !.released = TRUE]
     \/ at = 8 /\ Turned("ext5v", "off")
     \/ at = 9 /\ Turned("grove5v", "off")

(* Every step of the cleanup ends the run or is one of these.              *)
LEMMA CleaningMoves ==
  ASSUME CapPlaced, CleanStep PROVE EndRun \/ CleanMoves
<1>0. CASE EndRun
  BY <1>0
<1>1. CASE RecoverMux
  <2>1. pc = "cleanup" /\ at = 1
    BY <1>1, CleanUpPlaces DEF RecoverMux, Cleaning, CapPlaced
  <2> QED
    BY <1>1, <2>1 DEF RecoverMux, CleanFrame, CleanOk, CleanFault, Advance, Switch, CleanMoves
<1>2. CASE RecoverChannel("i2c")
  <2>1. pc = "cleanup" /\ at = 2
    BY <1>2, CleanUpPlaces DEF RecoverChannel, Cleaning, CapPlaced
  <2>2. Recovered("i2c") /\ (clean' = clean \/ clean' = FALSE)
    BY <1>2 DEF RecoverChannel, CleanOk, CleanFault, Recovered
  <2> QED
    BY <1>2, <2>1, <2>2 DEF RecoverChannel, CleanFrame, Advance, CleanMoves
<1>3. CASE RecoverChannel("uart")
  <2>1. pc = "cleanup" /\ at = 4
    BY <1>3, CleanUpPlaces DEF RecoverChannel, Cleaning, CapPlaced
  <2>2. Recovered("uart") /\ (clean' = clean \/ clean' = FALSE)
    BY <1>3 DEF RecoverChannel, CleanOk, CleanFault, Recovered
  <2> QED
    BY <1>3, <2>1, <2>2 DEF RecoverChannel, CleanFrame, Advance, CleanMoves
<1>4. CASE CleanSet
  <2>1. pc = "cleanup" /\ Now.do = "set" /\ at \in 1 .. 10
    BY <1>4 DEF CleanSet, Cleaning, CapPlaced
  <2>2. \/ at = 3 /\ Now.what = "mux" /\ Now.to = "HAT"
        \/ at = 8 /\ Now.what = "ext5v" /\ Now.to = "off"
        \/ at = 9 /\ Now.what = "grove5v" /\ Now.to = "off"
    BY <2>1, CleanUpPlaces
  <2>3. Turned(Now.what, Now.to) /\ (clean' = clean \/ clean' = FALSE)
    BY <1>4 DEF CleanSet, CleanOk, CleanFault, Switch, Turned
  <2>4. \/ at = 3 /\ Turned("mux", "HAT")
        \/ at = 8 /\ Turned("ext5v", "off")
        \/ at = 9 /\ Turned("grove5v", "off")
    BY <2>2, <2>3
  <2>5. /\ pc' = "cleanup" /\ at' = at + 1
        /\ UNCHANGED <<page, cancel_requested, snapshot, runs, calm>>
    BY <1>4, <2>1 DEF CleanSet, CleanFrame, Advance
  <2> QED
    BY <2>1, <2>3, <2>4, <2>5 DEF CleanMoves
<1>5. CASE CleanStop
  <2>1. pc = "cleanup" /\ at = 5
    BY <1>5, CleanUpPlaces DEF CleanStop, Cleaning, CapPlaced
  <2> QED
    BY <1>5, <2>1 DEF CleanStop, CleanFrame, CleanOk, Advance, CleanMoves
<1>6. CASE CleanPins
  <2>1. pc = "cleanup" /\ at = 6
    BY <1>6, CleanUpPlaces DEF CleanPins, Cleaning, CapPlaced
  <2> QED
    BY <1>6, <2>1 DEF CleanPins, KnownPins, CleanFrame, CleanOk, CleanFault, Advance, Switch,
       CleanMoves
<1>7. CASE CleanInputs
  <2>1. pc = "cleanup" /\ at = 7
    BY <1>7, CleanUpPlaces DEF CleanInputs, Cleaning, CapPlaced
  <2> QED
    BY <1>7, <2>1 DEF CleanInputs, CleanFrame, CleanOk, CleanFault, Advance, Switch, CleanMoves
<1> QED
  BY <1>0, <1>1, <1>2, <1>3, <1>4, <1>5, <1>6, <1>7 DEF CleanStep

(* The types.                                                              *)
LEMMA CleaningKeepsTyped == ASSUME CapTyped, CleanMoves PROVE CapTyped'
<1> DEFINE HW == [mux : Places, ext5v : {"on", "off"}, grove5v : {"on", "off"},
                  pins : {"GPIO", "USB"}, lines : {"in", "out"}, i2c : Places, uart : Places]
           OWN == [i2c : BOOLEAN, uart : BOOLEAN, known : {"unknown", "GPIO", "USB"},
                   released : BOOLEAN, read_ok : BOOLEAN, stop_ok : BOOLEAN]
<1>1. hw' \in HW
  <2>1. \/ hw' = hw \/ hw' = Flipped("i2c") \/ hw' = Flipped("uart")
        \/ hw' = [hw EXCEPT !.mux = "HAT"] \/ hw' = [hw EXCEPT !.mux = "GROVE"]
        \/ hw' = [hw EXCEPT !.ext5v = "off"] \/ hw' = [hw EXCEPT !.grove5v = "off"]
        \/ hw' = [hw EXCEPT !.pins = "GPIO"] \/ hw' = [hw EXCEPT !.lines = "in"]
    BY DEF CleanMoves, Turned, Recovered
  <2> QED
    BY <2>1 DEF CapTyped, Flipped, Places
<1>2. own' \in OWN
  <2>1. \/ own' = own
        \/ own' = [own EXCEPT !.i2c = FALSE] \/ own' = [own EXCEPT !.uart = FALSE]
        \/ own' = [own EXCEPT !.known = "GPIO"] \/ own' = [own EXCEPT !.released = TRUE]
    BY DEF CleanMoves, Turned, Recovered
  <2> QED
    BY <2>1 DEF CapTyped
<1>3. UNCHANGED <<items, active_item, cancel_requested>>
  BY DEF CleanMoves, snapshot
<1> QED
  BY <1>1, <1>2, <1>3 DEF CapTyped

(* What only a step of the run or of the page can disturb.                 *)
LEMMA CleaningKeepsPlaces ==
  ASSUME CapPage, CapState, CapItems, CapSwitches, CapOwn, CleanMoves
  PROVE  CapPlaced' /\ CapPage' /\ CapState' /\ CapItems' /\ CapSwitches' /\ CapOwn'
<1>1. pc = "cleanup" /\ pc' = "cleanup" /\ at \in 1 .. 9 /\ at' = at + 1
  BY DEF CleanMoves
<1>2. UNCHANGED <<page, cancel_requested, state, items, active_item, calm>>
  BY DEF CleanMoves, snapshot
<1>3. CapPlaced'
  BY <1>1 DEF CapPlaced
<1>4. CapPage'
  BY <1>1, <1>2 DEF CapPage
<1>5. CapState'
  BY <1>1, <1>2 DEF CapState, ItemsInOrder, PassedIsComplete, EndedIsTold
<1>6. CapItems' /\ CapSwitches' /\ CapOwn'
  BY <1>1 DEF CapItems, CapSwitches, CapOwn
<1> QED
  BY <1>3, <1>4, <1>5, <1>6

(* What is remembered as done has been done.                               *)
LEMMA CleaningKeepsKnows == ASSUME CapTyped, CapKnows, CleanMoves PROVE CapKnows'
<1>1. own'.released => hw'.lines = "in"
  <2>1. CASE at = 7
    BY <2>1 DEF CleanMoves, CapTyped, CapKnows
  <2>2. CASE at # 7
    <3>1. hw'.lines = hw.lines /\ own'.released = own.released
      BY <2>2 DEF CleanMoves, Turned, Recovered, Flipped, CapTyped
    <3> QED
      BY <3>1 DEF CapKnows
  <2> QED
    BY <2>1, <2>2
<1>2. own'.known = "GPIO" => hw'.pins = "GPIO"
  <2>1. CASE at = 6
    BY <2>1 DEF CleanMoves, CapTyped, CapKnows
  <2>2. CASE at # 6
    <3>1. hw'.pins = hw.pins /\ own'.known = own.known
      BY <2>2 DEF CleanMoves, Turned, Recovered, Flipped, CapTyped
    <3> QED
      BY <3>1 DEF CapKnows
  <2> QED
    BY <2>1, <2>2
<1> QED
  BY <1>1, <1>2 DEF CapKnows

(* The channels come back through a bus that reaches them.                 *)
LEMMA CleaningKeepsChannels ==
  ASSUME CapTyped, CapChannels, CapCleanup, CleanMoves PROVE CapChannels'
<1> SUFFICES ASSUME clean', calm'
    PROVE  (hw'.i2c = "GROVE" <=> own'.i2c) /\ (hw'.uart = "GROVE" <=> own'.uart)
  BY DEF CapChannels, CleanMoves
<1>1. clean /\ clean' # FALSE /\ calm
  BY DEF CleanMoves
<1>2. (hw.i2c = "GROVE" <=> own.i2c) /\ (hw.uart = "GROVE" <=> own.uart)
  BY <1>1 DEF CapChannels, CleanMoves
<1>3. hw.i2c \in Places /\ hw.uart \in Places
  BY DEF CapTyped
<1>4. CASE at = 2
  <2>1. own.i2c => hw.mux = "GROVE"
    BY <1>1, <1>4 DEF CapCleanup, CleanMoves
  <2>2. Recovered("i2c")
    BY <1>4 DEF CleanMoves
  <2>3. own'.i2c = FALSE /\ own'.uart = own.uart
    BY <2>2 DEF Recovered, CapTyped
  <2>4. CASE hw' = hw /\ ~own.i2c
    BY <1>2, <2>3, <2>4
  <2>5. CASE hw' = Flipped("i2c") /\ own.i2c
    BY <1>2, <2>3, <2>5 DEF Flipped, CapTyped
  <2> QED
    BY <1>1, <2>1, <2>2, <2>4, <2>5 DEF Recovered, Reachable
<1>5. CASE at = 4
  <2>1. ~own.i2c
    BY <1>1, <1>5 DEF CapCleanup, CleanMoves
  <2>2. Recovered("uart")
    BY <1>5 DEF CleanMoves
  <2>3. own'.uart = FALSE /\ own'.i2c = own.i2c
    BY <2>2 DEF Recovered, CapTyped
  <2>4. CASE hw' = hw /\ ~own.uart
    BY <1>2, <2>3, <2>4
  <2>5. CASE hw' = Flipped("uart") /\ own.uart
    BY <1>2, <2>3, <2>5 DEF Flipped, CapTyped
  <2>6. hw.i2c = "HAT"
    BY <1>2, <1>3, <2>1 DEF Places
  <2> QED
    BY <1>1, <2>2, <2>4, <2>5, <2>6 DEF Recovered, Reachable
<1>6. CASE at \notin {2, 4}
  <2>1. hw'.i2c = hw.i2c /\ hw'.uart = hw.uart /\ own'.i2c = own.i2c /\ own'.uart = own.uart
    BY <1>6 DEF CleanMoves, Turned, CapTyped
  <2> QED
    BY <1>2, <2>1
<1> QED
  BY <1>4, <1>5, <1>6

(* A step that worked has done what it is for, and none undoes another.    *)
LEMMA CleaningKeepsCleanup ==
  ASSUME CapTyped, CapKnows, CapCleanup, CleanMoves PROVE CapCleanup'
<1> SUFFICES ASSUME clean' PROVE
      /\ at' = 2 /\ own'.i2c => hw'.mux = "GROVE"
      /\ at' > 2 => ~own'.i2c
      /\ at' > 4 => ~own'.uart
      /\ at' > 3 => hw'.mux = "HAT"
      /\ at' > 6 => hw'.pins = "GPIO"
      /\ at' > 7 => hw'.lines = "in"
      /\ at' > 8 => hw'.ext5v = "off"
      /\ at' > 9 => hw'.grove5v = "off"
  BY DEF CapCleanup, CleanMoves
<1>1. clean /\ clean' # FALSE /\ at \in 1 .. 9 /\ at' = at + 1
  BY DEF CleanMoves
<1>2. /\ at > 2 => ~own.i2c
      /\ at > 4 => ~own.uart
      /\ at > 3 => hw.mux = "HAT"
      /\ at > 6 => hw.pins = "GPIO"
      /\ at > 7 => hw.lines = "in"
      /\ at > 8 => hw.ext5v = "off"
  BY <1>1 DEF CapCleanup, CleanMoves
<1>3. at' = 2 /\ own'.i2c => hw'.mux = "GROVE"
  BY <1>1 DEF CleanMoves, CapTyped
<1>4. (at' > 2 => ~own'.i2c) /\ (at' > 4 => ~own'.uart)
  BY <1>1, <1>2 DEF CleanMoves, Recovered, Turned, CapTyped
<1>5. at' > 3 => hw'.mux = "HAT"
  BY <1>1, <1>2 DEF CleanMoves, Recovered, Turned, Flipped, CapTyped
<1>6. at' > 6 => hw'.pins = "GPIO"
  BY <1>1, <1>2 DEF CleanMoves, Turned, CapTyped, CapKnows
<1>7. at' > 7 => hw'.lines = "in"
  BY <1>1, <1>2 DEF CleanMoves, Turned, CapTyped, CapKnows
<1>8. (at' > 8 => hw'.ext5v = "off") /\ (at' > 9 => hw'.grove5v = "off")
  BY <1>1, <1>2 DEF CleanMoves, Turned, CapTyped
<1> QED
  BY <1>3, <1>4, <1>5, <1>6, <1>7, <1>8

(* Polls and faults stay within their bounds.                              *)
LEMMA CleaningKeepsCounts == ASSUME CapCounts, CleanStep PROVE CapCounts'
<1>1. /\ MaxFaults \in Nat /\ MaxPolls \in Nat /\ ResetAttempts \in Nat
  BY FixtureAssumption
<1>2. faults' = faults \/ (faults < MaxFaults /\ faults' = faults + 1)
  BY DEF CleanStep, RecoverMux, RecoverChannel, CleanSet, CleanStop, CleanPins, CleanInputs, EndRun,
     CleanOk, CleanFault
<1>3. count' = 0 /\ runs' = runs
  BY DEF CleanStep, RecoverMux, RecoverChannel, CleanSet, CleanStop, CleanPins, CleanInputs, EndRun,
     CleanFrame, Advance, history
<1> QED
  BY <1>1, <1>2, <1>3 DEF CapCounts

(* The run is over.                                                        *)
LEMMA EndKeeps == ASSUME CapInv, EndRun PROVE CapInv'
<1>0. /\ CapTyped /\ CapCounts /\ CapPlaced /\ CapPage /\ CapState /\ CapItems
      /\ CapSwitches /\ CapOwn /\ CapKnows /\ CapChannels /\ CapCleanup
  BY DEF CapInv
<1>1. pc = "cleanup" /\ at = 10
  BY <1>0, CleanUpPlaces DEF EndRun, Cleaning, CapPlaced
<1>2. /\ pc' = "over" /\ at' = 0 /\ state' = Verdict
      /\ UNCHANGED <<hw, settled, page, items, active_item, cancel_requested, own, faults, runs,
                     clean, calm>>
  BY DEF EndRun, history
<1>3. CapTyped' /\ CapPlaced' /\ CapPage' /\ CapItems' /\ CapSwitches' /\ CapOwn' /\ CapKnows'
  BY <1>0, <1>1, <1>2 DEF CapTyped, CapPlaced, CapPage, CapItems, CapSwitches, CapOwn, CapKnows
<1>4. CapCounts'
  BY <1>0, CleaningKeepsCounts DEF CleanStep
<1>5. CapCleanup'
  BY <1>0, <1>1, <1>2 DEF CapCleanup
<1>6. CapChannels'
  <2>1. clean => ~own.i2c /\ ~own.uart
    BY <1>0, <1>1 DEF CapCleanup
  <2> QED
    BY <1>0, <1>1, <1>2, <2>1 DEF CapChannels, CapTyped, Places
<1>7. CapState'
  <2>1. ItemsInOrder /\ state \in {"RUNNING", "FAILED"}
    BY <1>0, <1>1 DEF CapState
  <2>2. ItemsInOrder'
    BY <1>2, <2>1 DEF ItemsInOrder
  <2>3. state' \in {"RUNNING", "FAILED", "CANCELED", "PASSED"}
    BY <1>2, <2>1 DEF Verdict
  <2>4. PassedIsComplete'
    <3>1. ASSUME state' = "PASSED" PROVE \A i \in Items : items[i] = "PASSED"
      <4>1. items[1] # "PENDING" /\ items[8] = "PASSED"
        BY <1>2, <2>1, <3>1 DEF Verdict
      <4>2. \A i \in Items : i < 8 => items[i] = "PASSED"
        BY <2>1, <4>1 DEF ItemsInOrder, Items
      <4> QED
        BY <4>1, <4>2 DEF Items
    <3> QED
      BY <1>2, <3>1 DEF PassedIsComplete
  <2>5. EndedIsTold'
    <3>1. state = "RUNNING" => cancel_requested \/ items[8] = "PASSED"
      BY <1>0, <1>1 DEF CapState
    <3> QED
      BY <1>2, <2>1, <3>1 DEF Verdict, EndedIsTold
  <2> QED
    BY <1>2, <2>2, <2>3, <2>4, <2>5 DEF CapState
<1> QED
  BY <1>3, <1>4, <1>5, <1>6, <1>7 DEF CapInv

(* A step of the cleanup keeps the invariant.                              *)
LEMMA CleaningKeeps == ASSUME CapInv, CleanStep PROVE CapInv'
<1>1. /\ CapTyped /\ CapCounts /\ CapPlaced /\ CapPage /\ CapState /\ CapItems
      /\ CapSwitches /\ CapOwn /\ CapKnows /\ CapChannels /\ CapCleanup
  BY DEF CapInv
<1>2. CASE EndRun
  BY <1>2, EndKeeps
<1>3. CASE CleanMoves
  <2>1. CapTyped' /\ CapCounts'
    BY <1>1, <1>3, CleaningKeepsTyped, CleaningKeepsCounts
  <2>2. CapPlaced' /\ CapPage' /\ CapState' /\ CapItems' /\ CapSwitches' /\ CapOwn'
    BY <1>1, <1>3, CleaningKeepsPlaces
  <2>3. CapKnows' /\ CapChannels' /\ CapCleanup'
    BY <1>1, <1>3, CleaningKeepsKnows, CleaningKeepsChannels, CleaningKeepsCleanup
  <2> QED
    BY <2>1, <2>2, <2>3 DEF CapInv
<1> QED
  BY <1>1, <1>2, <1>3, CleaningMoves

-----------------------------------------------------------------------------
(* The page.                                                               *)

(* A new model is of its types.                                            *)
LEMMA FreshTyped ==
  /\ Fresh \in [i2c : BOOLEAN, uart : BOOLEAN, known : {"unknown", "GPIO", "USB"},
               released : BOOLEAN, read_ok : BOOLEAN, stop_ok : BOOLEAN]
  /\ [i \in Items |-> "PENDING"] \in [Items -> {"PENDING", "RUNNING", "PASSED", "FAILED"}]
  /\ 7 \in Items
BY DEF Fresh, Items

(* The page starts, leaves, cancels, joins and opens.                      *)
LEMMA PageKeeps ==
  ASSUME CapInv, Start \/ Leave \/ Cancel \/ Join \/ Open PROVE CapInv'
<1>0. /\ CapTyped /\ CapCounts /\ CapPlaced /\ CapPage /\ CapState /\ CapItems
      /\ CapSwitches /\ CapOwn /\ CapKnows /\ CapChannels /\ CapCleanup
  BY DEF CapInv
<1>1. CASE Start
  <2>1. /\ page = "open" /\ state = "IDLE" /\ state' = "RUNNING" /\ cancel_requested' = FALSE
        /\ pc' = "run" /\ at' = 1 /\ count' = 0
        /\ UNCHANGED <<hw, settled, page, items, active_item, own, faults, runs, clean, calm>>
    BY <1>1 DEF Start, history
  <2>2. pc = "none" /\ own = Fresh /\ items = [i \in Items |-> "PENDING"]
    BY <1>0, <2>1 DEF CapState, CapPage
  <2>3. CapTyped' /\ CapCounts' /\ CapPlaced' /\ CapPage'
    <3>1. CapTyped'
      BY <1>0, <2>1 DEF CapTyped
    <3>2. CapPlaced' /\ CapCounts'
      BY <1>0, <2>1, FixtureAssumption DEF CapCounts, CapPlaced
    <3>3. CapPage'
      BY <1>0, <2>1 DEF CapPage
    <3> QED
      BY <3>1, <3>2, <3>3
  <2>4. CapState'
    BY <2>1, <2>2 DEF CapState, Fresh, PassedIsComplete, EndedIsTold
  <2>5. CapItems'
    <3>1. \A k \in Items : at' <= BeginOf(k) /\ at' <= PassOf(k) /\ items'[k] = "PENDING"
      BY <2>1, <2>2 DEF BeginOf, PassOf
    <3> QED
      BY <2>1, <3>1, Brackets DEF CapItems
  <2>6. CapSwitches' /\ CapOwn'
    BY <2>1, <2>2 DEF CapSwitches, CapOwn, Fresh
  <2>7. CapKnows' /\ CapChannels' /\ CapCleanup'
    BY <1>0, <2>1, <2>2 DEF CapKnows, CapChannels, CapCleanup
  <2> QED
    BY <2>3, <2>4, <2>5, <2>6, <2>7 DEF CapInv
<1>2. CASE Leave \/ Open
  <2>1. /\ UNCHANGED <<hw, settled, pc, at, count, state, items, active_item, cancel_requested, own,
                       faults, clean, calm>>
        /\ \/ runs' = runs
           \/ runs < MaxRuns /\ runs' = runs + 1
    BY <1>2 DEF Leave, Open, worker, snapshot, history
  <2>2. CapPage'
    <3>1. page' = "leaving" => pc # "none"
      BY <1>0, <1>2 DEF Leave, Open, CapPage
    <3>2. page' \in {"open", "leaving", "joining"}
      BY <1>2 DEF Leave, Open
    <3>3. ~cancel_requested
      BY <1>0, <1>2 DEF Leave, Open, CapPage
    <3> QED
      BY <1>0, <2>1, <3>1, <3>2, <3>3 DEF CapPage
  <2>3. CapCounts'
    BY <1>0, <2>1, FixtureAssumption DEF CapCounts
  <2>4. CapTyped' /\ CapPlaced' /\ CapState' /\ CapItems'
    BY <1>0, <2>1 DEF CapTyped, CapPlaced, CapState, CapItems, ItemsInOrder, PassedIsComplete,
       EndedIsTold
  <2>5. CapSwitches' /\ CapOwn' /\ CapKnows' /\ CapChannels' /\ CapCleanup'
    BY <1>0, <2>1 DEF CapSwitches, CapOwn, CapKnows, CapChannels, CapCleanup
  <2> QED
    BY <2>2, <2>3, <2>4, <2>5 DEF CapInv
<1>3. CASE Cancel
  <2>1. /\ page = "leaving" /\ page' = "joining" /\ cancel_requested' = TRUE /\ calm' = FALSE
        /\ UNCHANGED <<hw, settled, pc, at, count, state, items, active_item, own, faults, runs,
                       clean>>
    BY <1>3 DEF Cancel, worker, snapshot
  <2>2. CapTyped' /\ CapCounts' /\ CapPlaced' /\ CapPage'
    BY <1>0, <2>1 DEF CapTyped, CapCounts, CapPlaced, CapPage
  <2>3. CapState' /\ CapItems'
    BY <1>0, <2>1 DEF CapState, CapItems, ItemsInOrder, PassedIsComplete, EndedIsTold
  <2>4. CapSwitches' /\ CapOwn' /\ CapKnows' /\ CapChannels' /\ CapCleanup'
    BY <1>0, <2>1 DEF CapSwitches, CapOwn, CapKnows, CapChannels, CapCleanup
  <2> QED
    BY <2>2, <2>3, <2>4 DEF CapInv
<1>4. CASE Join
  <2>1. /\ page' = "gone" /\ pc \in {"none", "over"} /\ pc' = "none" /\ at' = 0 /\ count' = 0
        /\ state' = "IDLE" /\ items' = [i \in Items |-> "PENDING"] /\ active_item' = 7
        /\ cancel_requested' = FALSE /\ own' = Fresh
        /\ UNCHANGED <<hw, settled, faults, runs, clean, calm>>
    BY <1>4 DEF Join, history
  <2>2. CapTyped'
    BY <1>0, <2>1, FreshTyped DEF CapTyped
  <2>3. CapCounts' /\ CapPlaced' /\ CapPage'
    BY <1>0, <2>1, FixtureAssumption DEF CapCounts, CapPlaced, CapPage
  <2>4. CapState'
    BY <2>1 DEF CapState, PassedIsComplete, EndedIsTold
  <2>5. CapItems' /\ CapSwitches' /\ CapOwn' /\ CapCleanup'
    BY <2>1 DEF CapItems, CapSwitches, CapOwn, CapCleanup
  <2>6. CapKnows' /\ CapChannels'
    BY <1>0, <2>1 DEF CapKnows, CapChannels, Fresh
  <2> QED
    BY <2>2, <2>3, <2>4, <2>5, <2>6 DEF CapInv
<1> QED
  BY <1>1, <1>2, <1>3, <1>4

(* The host is started with everything where a run expects it.             *)
LEMMA InitGood == ASSUME Init PROVE CapInv
<1>1. CapTyped
  <2>1. hw \in [mux : Places, ext5v : {"on", "off"}, grove5v : {"on", "off"},
                pins : {"GPIO", "USB"}, lines : {"in", "out"}, i2c : Places, uart : Places]
    BY DEF Init, Places
  <2> QED
    BY <2>1, FreshTyped DEF Init, CapTyped
<1>2. CapCounts /\ CapPlaced /\ CapPage
  BY FixtureAssumption DEF Init, CapCounts, CapPlaced, CapPage
<1>3. CapState /\ CapItems /\ CapSwitches /\ CapOwn
  BY DEF Init, CapState, CapItems, CapSwitches, CapOwn, PassedIsComplete, EndedIsTold
<1>4. CapKnows /\ CapChannels /\ CapCleanup
  BY DEF Init, CapKnows, CapChannels, CapCleanup, Fresh
<1> QED
  BY <1>1, <1>2, <1>3, <1>4 DEF CapInv

(* Every step of the page and its worker keeps the invariant.              *)
LEMMA FixtureKeeps == ASSUME CapInv, Next PROVE CapInv'
BY RunKeeps, CleaningKeeps, PageKeeps DEF Next

(* What the fixture's page knows while another one is open: it is gone,    *)
(* the other switches only the power, and no cleanup is undone.            *)
LEMMA FixtureElsewhere ==
  ASSUME CapInv, page = "gone", hw' \in [mux : Places, ext5v : {"on", "off"},
           grove5v : {"on", "off"}, pins : {"GPIO", "USB"}, lines : {"in", "out"}, i2c : Places,
           uart : Places],
         hw'.mux = hw.mux, hw'.pins = hw.pins, hw'.lines = hw.lines, hw'.i2c = hw.i2c,
         hw'.uart = hw.uart, faults' \in 0 .. MaxFaults, clean' => clean,
         UNCHANGED <<settled, page, pc, at, count, state, items, active_item, cancel_requested, own,
                     runs, calm>>
  PROVE  CapInv'
<1>0. /\ CapTyped /\ CapCounts /\ CapPlaced /\ CapPage /\ CapState /\ CapItems
      /\ CapSwitches /\ CapOwn /\ CapKnows /\ CapChannels /\ CapCleanup
  BY DEF CapInv
<1>1. pc = "none"
  BY <1>0 DEF CapPage
<1>2. CapTyped' /\ CapCounts' /\ CapPlaced' /\ CapPage'
  BY <1>0 DEF CapTyped, CapCounts, CapPlaced, CapPage
<1>3. CapState' /\ CapItems' /\ CapSwitches' /\ CapOwn'
  BY <1>0, <1>1 DEF CapState, CapItems, CapSwitches, CapOwn, PassedIsComplete, EndedIsTold
<1>4. CapKnows' /\ CapChannels' /\ CapCleanup'
  BY <1>0, <1>1 DEF CapKnows, CapChannels, CapCleanup
<1> QED
  BY <1>2, <1>3, <1>4 DEF CapInv

-----------------------------------------------------------------------------
(* What follows.                                                           *)

(* The invariant implies the one the runs check, and ControlReachable: a   *)
(* register is only used at places where the switches are known to reach   *)
(* it.                                                                     *)
LEMMA InvGivesReach == ASSUME CapInv PROVE Inv /\ ControlReachable
<1>0. /\ CapTyped /\ CapCounts /\ CapPlaced /\ CapPage /\ CapState /\ CapItems
      /\ CapSwitches /\ CapOwn
  BY DEF CapInv
<1>1. TypeOK
  <2>1. DOMAIN Script = 1 .. 129 /\ DOMAIN CleanUp = 1 .. 10
    BY ScriptBlocks DEF CleanUp
  <2>2. state \in {"IDLE", "RUNNING", "PASSED", "FAILED", "CANCELED"}
    BY <1>0 DEF CapState
  <2>3. page \in {"open", "leaving", "joining", "gone"}
    BY <1>0 DEF CapPage
  <2>4. \/ pc \in {"none", "over"} /\ at = 0
        \/ pc = "run" /\ at \in DOMAIN Script
        \/ pc = "cleanup" /\ at \in DOMAIN CleanUp
    BY <1>0, <2>1 DEF CapPlaced
  <2>5. count <= MaxPolls + ResetAttempts /\ faults <= MaxFaults /\ runs <= MaxRuns
    BY <1>0, FixtureAssumption DEF CapCounts
  <2> QED
    BY <1>0, <2>2, <2>3, <2>4, <2>5 DEF TypeOK, CapTyped, Places
<1>2. ItemsInOrder
  <2>1. CASE pc = "none"
    BY <1>0, <2>1 DEF CapPage, ItemsInOrder, Items
  <2>2. CASE pc = "run"
    BY <1>0, <2>2, ItemsOrdered DEF CapPlaced
  <2>3. CASE pc \in {"cleanup", "over"}
    BY <1>0, <2>3 DEF CapState
  <2> QED
    BY <1>0, <2>1, <2>2, <2>3 DEF CapPlaced
<1>3. PassedIsComplete /\ EndedIsTold
  BY <1>0 DEF CapState
<1>4. ControlReachable
  <2> SUFFICES ASSUME Running(CapOps \ {"reset"})
               PROVE  Reachable /\ (hw.mux = "GROVE" => settled)
    BY DEF ControlReachable
  <2>1. pc = "run" /\ at \in 1 .. 129 /\ Kinds(at, Now.do) /\ Now.do \in CapOps \ {"reset"}
    BY <1>0, Where DEF Running
  <2>2. at \notin {1, 2, 3, 4, 35, 36, 37}
    BY <2>1 DEF Kinds, CapOps, Sets, Waits
  <2>3. at >= 5
    BY <2>1, <2>2
  <2>4. /\ hw.mux = "GROVE" <=> at \in 37 .. 45
        /\ hw.i2c = "GROVE" <=> at \in 35 .. 41
        /\ at \in 38 .. 45 => settled = TRUE
    BY <1>0, <2>1, <2>3 DEF CapSwitches
  <2>5. hw.mux = "GROVE" => settled
    BY <2>2, <2>4
  <2>6. hw.i2c = "HAT" \/ hw.mux = "GROVE"
    BY <1>0, <2>2, <2>4 DEF CapTyped, Places
  <2> QED
    BY <2>5, <2>6 DEF Reachable
<1> QED
  BY <1>1, <1>2, <1>3, <1>4 DEF Inv

(* It implies Restored: a run that is over has every step of its cleanup   *)
(* behind it.                                                              *)
LEMMA InvGivesRestored == ASSUME CapInv PROVE Restored
BY DEF CapInv, CapCleanup, CapChannels, Restored

(* The lines are driven at one place, where the pins are GPIOs:            *)
(* DrivenAsGpio.                                                           *)
LEMMA LinesDrivenAsGpio ==
  ASSUME CapInv, Next, hw.lines = "in", hw'.lines = "out" PROVE hw.pins = "GPIO"
<1>0. CapTyped /\ CapPlaced /\ CapOwn /\ CapKnows
  BY DEF CapInv
<1>1. CASE Run
  <2>1. pc = "run" /\ Moves
    BY <1>0, <1>1, RunMoves
  <2>2. CASE at = 116
    BY <1>0, <2>1, <2>2 DEF CapOwn
  <2>3. CASE at # 116
    <3>1. CASE Selected
      BY <1>0, <3>1 DEF Selected, PinsWritten, CapTyped
    <3>2. CASE Left
      BY <1>0, <2>3, <3>2 DEF Left, SwitchWritten, PinsWritten, CapTyped
    <3> QED
      BY <1>0, <2>1, <2>3, <3>1, <3>2 DEF CapTyped, SwitchWritten, Flipped, Moves, Jumped, Stays,
         Ahead, Begun, Passed, SwitchSet, Toggled, CameHome, Driven, HasReset, Stopped, Released,
         Judged
  <2> QED
    BY <2>2, <2>3
<1>2. CASE CleanStep
  <2>1. CASE EndRun
    BY <2>1 DEF EndRun
  <2>2. CASE CleanMoves
    BY <1>0, <2>2 DEF CleanMoves, Recovered, Turned, Flipped, CapTyped
  <2> QED
    BY <1>0, <1>2, <2>1, <2>2, CleaningMoves
<1>3. CASE Start \/ Leave \/ Cancel \/ Join \/ Open
  BY <1>3 DEF Start, Leave, Cancel, Join, Open
<1> QED
  BY <1>1, <1>2, <1>3 DEF Next

-----------------------------------------------------------------------------
(* What the pages share.                                                   *)

SwitchNames == {"mux", "ext5v", "grove5v", "pins", "lines", "i2c", "uart"}

(* Only the page that is open is anywhere but at its start.                *)
Shared ==
  /\ hw = [w \in SwitchNames |-> hw[w]]
  /\ faults \in 0 .. MaxFaults
OnePage ==
  /\ current \in {"none", "fixture", "radio", "ext io"}
  /\ view # "gone" => current = "radio"
  /\ current # "ext io" => open = FALSE

(* The bounds as numbers.                                                  *)
LEMMA Bounds ==
  /\ MaxFaults \in Nat /\ MaxRestarts \in Nat /\ Candidates \in Nat /\ Registers \in Nat
  /\ Candidates > 0 /\ Registers > 0
BY HatAssumption DEF Radio!RadioAssumption

(* A switch that is written, or a counted fault.                           *)
LEMMA SwitchKeepsShape ==
  ASSUME hw = [w \in SwitchNames |-> hw[w]], NEW w, NEW v, hw' = [hw EXCEPT ![w] = v]
  PROVE  hw' = [x \in SwitchNames |-> hw'[x]]
OBVIOUS

(* A fault more is within the bound of faults.                             *)
LEMMA FaultsCount ==
  ASSUME faults \in 0 .. MaxFaults,
         faults' = faults \/ (faults < MaxFaults /\ faults' = faults + 1)
  PROVE  faults' \in 0 .. MaxFaults /\ (faults' = 0 => faults = 0)
BY Bounds

(* A step of the fixture's page keeps them in shape.                       *)
LEMMA FixtureKeepsShared ==
  ASSUME Shared, Next PROVE Shared' /\ (faults' = 0 => faults = 0)
<1> DEFINE Kept == faults' = faults \/ (faults < MaxFaults /\ faults' = faults + 1)
<1> DEFINE Shaped == hw' = [x \in SwitchNames |-> hw'[x]]
<1> SUFFICES Shaped /\ Kept
  BY FaultsCount DEF Shared
<1>0. hw = [w \in SwitchNames |-> hw[w]]
  BY DEF Shared
<1>1. ASSUME NEW w, NEW v, Switch(w, v) PROVE Shaped
  BY <1>0, <1>1, SwitchKeepsShape DEF Switch
<1>2. UNCHANGED hw => Shaped
  BY <1>0
<1>3. CASE \/ Canceled \/ BeginItem \/ PassItem \/ Exchange \/ DelayEnds \/ ComeHome
           \/ PollAgain \/ Find
  BY <1>2, <1>3 DEF Canceled, BeginItem, PassItem, Exchange, DelayEnds, ComeHome, PollAgain, Find
<1>4. CASE Fault
  BY <1>1, <1>2, <1>4 DEF Fault
<1>5. CASE SetSwitch
  BY <1>1, <1>5 DEF SetSwitch
<1>6. CASE Toggle
  <2>1. hw' = [hw EXCEPT ![Now.what] = IF @ = "HAT" THEN "GROVE" ELSE "HAT"] /\ faults' = faults
    BY <1>6 DEF Toggle, Flipped
  <2> QED
    BY <1>0, <2>1, SwitchKeepsShape
<1>7. CASE SelectPins
  BY <1>1, <1>2, <1>7 DEF SelectPins
<1>8. CASE Drive
  BY <1>1, <1>8 DEF Drive
<1>9. CASE Reset
  <2>1. /\ hw' = hw \/ hw' = [hw EXCEPT !.i2c = "HAT", !.uart = "HAT"]
        /\ Kept
    BY <1>9 DEF Reset
  <2>2. ASSUME hw' = [hw EXCEPT !.i2c = "HAT", !.uart = "HAT"] PROVE Shaped
    BY <1>0, <2>2
  <2> QED
    BY <1>2, <2>1, <2>2
<1>10. CASE GpioStop
  BY <1>2, <1>10 DEF GpioStop
<1>11. CASE GpioInputs
  BY <1>1, <1>2, <1>11 DEF GpioInputs
<1>12. CASE GpioVerdict
  BY <1>2, <1>12 DEF GpioVerdict
<1>13. CASE RecoverMux
  <2>1. hw' = hw \/ hw' = [hw EXCEPT !.mux = "GROVE"] \/ Switch("mux", "GROVE")
    BY <1>13 DEF RecoverMux
  <2>2. Kept
    BY <1>13 DEF RecoverMux, CleanOk, CleanFault
  <2> QED
    BY <1>0, <1>1, <1>2, <2>1, <2>2, SwitchKeepsShape
<1>14. ASSUME NEW w, RecoverChannel(w) PROVE Shaped /\ Kept
  <2>1. hw' = hw \/ hw' = [hw EXCEPT ![w] = IF @ = "HAT" THEN "GROVE" ELSE "HAT"]
    BY <1>14 DEF RecoverChannel, Flipped
  <2>2. Kept
    BY <1>14 DEF RecoverChannel, CleanOk, CleanFault
  <2> QED
    BY <1>0, <1>2, <2>1, <2>2, SwitchKeepsShape
<1>15. CASE CleanSet
  BY <1>1, <1>2, <1>15 DEF CleanSet, CleanOk, CleanFault
<1>16. CASE CleanStop
  BY <1>2, <1>16 DEF CleanStop, CleanOk
<1>17. CASE CleanPins
  BY <1>1, <1>2, <1>17 DEF CleanPins, CleanOk, CleanFault
<1>18. CASE CleanInputs
  BY <1>1, <1>2, <1>18 DEF CleanInputs, CleanOk, CleanFault
<1>19. CASE EndRun \/ Start \/ Leave \/ Cancel \/ Join \/ Open
  BY <1>2, <1>19 DEF EndRun, Start, Leave, Cancel, Join, Open
<1> QED
  BY <1>3, <1>4, <1>5, <1>6, <1>7, <1>8, <1>9, <1>10, <1>11, <1>12, <1>13, <1>14, <1>15, <1>16,
     <1>17, <1>18, <1>19 DEF Next, Run, CleanStep

-----------------------------------------------------------------------------
(* CapRadio.                                                               *)

Working == {"settle", "candidate", "strobe", "registers", "tell first", "look", "uart", "listen",
            "select", "assert", "transfer", "tell second", "off"}
PartStates == {"PENDING", "RUNNING", "PASSED", "FAILED"}
RadioTyped ==
  /\ kind \in {"LORA", "CC1101"} /\ view \in {"open", "restarting", "leaving", "gone"}
  /\ job \in {"none", "power", "rollback", "over"} \cup Working
  /\ found \in [Radio!Parts -> BOOLEAN] /\ heard \subseteq {"IC", "NMEA"}
  /\ run_state \in {"PASSED", "FAILED", "CANCELED", "WAITING", "RUNNING", "RUNNING_GPS"}
  /\ part \in [Radio!Parts -> PartStates]
RadioCounts ==
  /\ round \in 1 .. (Candidates + Registers) /\ starts \in 0 .. MaxRestarts
  /\ view = "restarting" => starts < MaxRestarts
  /\ job = "candidate" => round <= Candidates
  /\ job \in {"assert", "transfer"} => round <= Registers

(* The 5 V are on for whoever is at work, and off after it.                *)
RadioPowered ==
  /\ view = "gone" => job = "none"
  /\ job \in Working => hw["ext5v"] = "on"
  /\ job = "over" /\ clean => hw["ext5v"] = "off"

(* The first verdict is told before the second part is asked.              *)
RadioJudged ==
  /\ job \in {"look", "uart", "listen", "select", "assert", "transfer", "tell second"} =>
       (part[1] = "PASSED" => found[1])
  /\ job \in {"look", "uart", "listen", "select", "assert", "transfer", "tell second"} =>
       (found[1] => part[1] = "PASSED")
  /\ run_state = "PASSED" =>
       /\ job \in {"off", "over"}
       /\ found[1] /\ found[2] /\ part[1] = "PASSED" /\ part[2] = "PASSED"

(* A line is requested by the place the worker is at.                      *)
Requested ==
  /\ current \in {"none", "fixture"} => requests = {}
  /\ current = "radio" => requests \subseteq
       (IF job = "candidate" THEN {"26"} ELSE IF job \in {"assert", "transfer"} THEN {"22"} ELSE {})
  /\ current = "ext io" => requests \subseteq {"22", "23", "26"}
RadioSelected == selected \in BOOLEAN /\ (selected => job = "transfer")

RInv == RadioTyped /\ RadioCounts /\ RadioPowered /\ RadioJudged /\ Requested /\ RadioSelected

(* It tells all that the run checks of the radio pages.                    *)
LEMMA RInvGivesInv == ASSUME Shared, OnePage, RInv PROVE RadioInv
<1>1. Radio!TypeOK
  <2>1. /\ kind \in {"LORA", "CC1101"} /\ view \in {"open", "restarting", "leaving", "gone"}
        /\ job \in {"none", "power", "rollback", "settle", "candidate", "strobe", "registers",
              "tell first", "look", "uart", "listen", "select", "assert", "transfer",
              "tell second", "off", "over"}
        /\ found \in [Radio!Parts -> BOOLEAN] /\ heard \subseteq {"IC", "NMEA"}
        /\ run_state \in Radio!Ended \cup {"WAITING", "RUNNING", "RUNNING_GPS"}
        /\ part \in [Radio!Parts -> {"PENDING", "RUNNING", "PASSED", "FAILED"}]
    BY DEF RInv, RadioTyped, Working, PartStates, Radio!Ended
  <2>2. requests \subseteq {"22", "23", "26"}
    BY DEF RInv, Requested, OnePage
  <2>3. selected \in BOOLEAN
    BY DEF RInv, RadioSelected
  <2>4. /\ round \in 1 .. (Candidates + Registers) /\ starts \in 0 .. MaxRestarts
        /\ faults \in 0 .. MaxFaults
    BY DEF RInv, RadioCounts, Shared
  <2> QED
    BY <2>1, <2>2, <2>3, <2>4 DEF Radio!TypeOK
<1>2. Radio!PoweredWhileAsked
  BY DEF RInv, RadioTyped, RadioPowered, Radio!PoweredWhileAsked
<1>3. Radio!PassedBothAnswered
  BY DEF RInv, RadioJudged, Radio!PassedBothAnswered, Radio!Parts
<1>4. selected => job = "transfer"
  BY DEF RInv, RadioSelected
<1>5. requests # {} /\ view # "gone" => job \in {"candidate", "assert", "transfer"}
  BY DEF RInv, Requested, OnePage
<1> QED
  BY <1>1, <1>2, <1>3, <1>4, <1>5 DEF RadioInv, Radio!Inv, Radio!LinesGivenBack

(* What a step of another page, or of none, leaves of it.                  *)
LEMMA RadioElsewhere ==
  ASSUME RInv, view = "gone", UNCHANGED radio, Requested'
  PROVE  RInv'
<1>1. job = "none"
  BY DEF RInv, RadioPowered
<1>2. /\ kind' = kind /\ view' = view /\ job' = job /\ round' = round /\ found' = found
      /\ heard' = heard /\ selected' = selected /\ run_state' = run_state /\ part' = part
      /\ starts' = starts
  BY DEF radio
<1>3. RadioTyped' /\ RadioCounts' /\ RadioJudged'
  BY <1>2 DEF RInv, RadioTyped, RadioCounts, RadioJudged
<1>4. RadioPowered'
  BY <1>1, <1>2 DEF RInv, RadioPowered, Working
<1>5. RadioSelected'
  BY <1>2 DEF RInv, RadioSelected
<1> QED
  BY <1>3, <1>4, <1>5 DEF RInv

(* A worker that goes on asks with the 5 V on.                             *)
LEMMA RadioWorks ==
  ASSUME RadioTyped, RadioPowered, job \in Working, job' \in Working, hw' = hw, view' = view
  PROVE  RadioPowered'
BY DEF RadioPowered, Working

(* A switch that was written is as it was written.                         *)
LEMMA Written ==
  ASSUME Shared, NEW v, hw' = [hw EXCEPT !.ext5v = v]
  PROVE  hw'["ext5v"] = v
BY DEF Shared, SwitchNames

(* The counters, whichever place the worker goes to.                       *)
LEMMA RadioStarts ==
  ASSUME RadioCounts, round' = 1, starts' \in 0 .. MaxRestarts,
         view' = "restarting" => starts' < MaxRestarts
  PROVE  RadioCounts'
BY Bounds DEF RadioCounts

(* The worker, conjunct by conjunct.                                       *)
LEMMA WorkKeepsShared ==
  ASSUME Shared, Radio!Work PROVE Shared' /\ (faults' = 0 => faults = 0)
<1>1. hw' = hw \/ \E v : hw' = [hw EXCEPT !.ext5v = v]
  BY DEF Radio!Work, Radio!PowerOn, Radio!Rollback, Radio!Settle, Radio!Candidate, Radio!Strobe,
     Radio!ReadCc1101, Radio!TellFirst, Radio!Look, Radio!OpenUart, Radio!Listen, Radio!Select,
     Radio!Assert, Radio!Transfer, Radio!TellSecond, Radio!PowerOff, Radio!Power
<1>2. faults' = faults \/ (faults < MaxFaults /\ faults' = faults + 1)
  BY DEF Radio!Work, Radio!PowerOn, Radio!Rollback, Radio!Settle, Radio!Candidate, Radio!Strobe,
     Radio!ReadCc1101, Radio!TellFirst, Radio!Look, Radio!OpenUart, Radio!Listen, Radio!Select,
     Radio!Assert, Radio!Transfer, Radio!TellSecond, Radio!PowerOff, Radio!Fails, Radio!Works
<1>3. hw' = [w \in SwitchNames |-> hw'[w]]
  BY <1>1, SwitchKeepsShape DEF Shared
<1> QED
  BY <1>2, <1>3, FaultsCount DEF Shared

(* The worker keeps the types.                                             *)
LEMMA WorkKeepsTyped == ASSUME RadioTyped, Radio!Work PROVE RadioTyped'
<1>1. kind' = kind /\ view' = view
  BY DEF Radio!Work, Radio!PowerOn, Radio!Rollback, Radio!Settle, Radio!Candidate, Radio!Strobe,
     Radio!ReadCc1101, Radio!TellFirst, Radio!Look, Radio!OpenUart, Radio!Listen, Radio!Select,
     Radio!Assert, Radio!Transfer, Radio!TellSecond, Radio!PowerOff, Radio!At, Radio!visit
<1>2. job' \in {"none", "power", "rollback", "over"} \cup Working
  BY DEF RadioTyped, Working, Radio!Work, Radio!PowerOn, Radio!Rollback, Radio!Settle,
     Radio!Candidate, Radio!Strobe, Radio!ReadCc1101, Radio!TellFirst, Radio!Look, Radio!OpenUart,
     Radio!Listen, Radio!Select, Radio!Assert, Radio!Transfer, Radio!TellSecond, Radio!PowerOff,
     Radio!To, Radio!Deselect, Radio!At
<1>3. found' \in [Radio!Parts -> BOOLEAN]
  <2>1. \/ found' = found
        \/ \E p \in Radio!Parts, ok \in BOOLEAN : found' = [found EXCEPT ![p] = ok]
    <3>1. CASE Radio!Candidate
      BY <3>1 DEF Radio!Candidate, Radio!Parts
    <3>2. CASE Radio!ReadCc1101
      BY <3>2 DEF Radio!ReadCc1101, Radio!Parts
    <3>3. CASE Radio!Listen
      BY <3>3 DEF Radio!Listen, Radio!Parts, Radio!locals
    <3>4. CASE Radio!Transfer
      BY <3>4 DEF Radio!Transfer, Radio!Parts
    <3> QED
      BY <3>1, <3>2, <3>3, <3>4 DEF Radio!Work, Radio!PowerOn, Radio!Rollback, Radio!Settle,
         Radio!Strobe, Radio!TellFirst, Radio!Look, Radio!OpenUart, Radio!Select, Radio!Assert,
         Radio!TellSecond, Radio!PowerOff, Radio!locals
  <2> QED
    BY <2>1 DEF RadioTyped
<1>4. heard' \subseteq {"IC", "NMEA"}
  BY DEF RadioTyped, Radio!Work, Radio!PowerOn, Radio!Rollback, Radio!Settle,
     Radio!Candidate, Radio!Strobe, Radio!ReadCc1101, Radio!TellFirst, Radio!Look, Radio!OpenUart,
     Radio!Listen, Radio!Select, Radio!Assert, Radio!Transfer, Radio!TellSecond, Radio!PowerOff,
     Radio!locals
<1>5. run_state' \in {"PASSED", "FAILED", "CANCELED", "WAITING", "RUNNING", "RUNNING_GPS"}
  BY DEF RadioTyped, Radio!Work, Radio!PowerOn, Radio!Rollback, Radio!Settle,
     Radio!Candidate, Radio!Strobe, Radio!ReadCc1101, Radio!TellFirst, Radio!Look, Radio!OpenUart,
     Radio!Listen, Radio!Select, Radio!Assert, Radio!Transfer, Radio!TellSecond, Radio!PowerOff,
     Radio!published, Radio!Verdict
<1>6. part' \in [Radio!Parts -> PartStates]
  BY DEF RadioTyped, PartStates, Radio!Parts, Radio!Work, Radio!PowerOn, Radio!Rollback,
     Radio!Settle, Radio!Candidate, Radio!Strobe, Radio!ReadCc1101, Radio!TellFirst, Radio!Look,
     Radio!OpenUart, Radio!Listen, Radio!Select, Radio!Assert, Radio!Transfer, Radio!TellSecond,
     Radio!PowerOff, Radio!published, Radio!Verdict1
<1> QED
  BY <1>1, <1>2, <1>3, <1>4, <1>5, <1>6 DEF RadioTyped

(* The worker keeps what is counted.                                       *)
LEMMA WorkKeepsCounts == ASSUME RadioCounts, Radio!Work PROVE RadioCounts'
<1>1. starts' = starts /\ view' = view
  BY DEF Radio!Work, Radio!PowerOn, Radio!Rollback, Radio!Settle, Radio!Candidate, Radio!Strobe,
     Radio!ReadCc1101, Radio!TellFirst, Radio!Look, Radio!OpenUart, Radio!Listen, Radio!Select,
     Radio!Assert, Radio!Transfer, Radio!TellSecond, Radio!PowerOff, Radio!At, Radio!visit
<1>2. \/ round' = 1
      \/ round' = round /\ job' = job
      \/ job = "candidate" /\ round < Candidates /\ round' = round + 1 /\ job' = job
      \/ job = "assert" /\ round' = round /\ job' = "transfer"
      \/ job = "transfer" /\ round < Registers /\ round' = round + 1 /\ job' = "assert"
  BY DEF Radio!Work, Radio!PowerOn, Radio!Rollback, Radio!Settle, Radio!Candidate, Radio!Strobe,
     Radio!ReadCc1101, Radio!TellFirst, Radio!Look, Radio!OpenUart, Radio!Listen, Radio!Select,
     Radio!Assert, Radio!Transfer, Radio!TellSecond, Radio!PowerOff, Radio!At, Radio!To,
     Radio!Deselect
<1>3. /\ round \in 1 .. (Candidates + Registers) /\ starts' \in 0 .. MaxRestarts
      /\ view' = "restarting" => starts' < MaxRestarts
  BY <1>1 DEF RadioCounts
<1>4. CASE round' = 1
  BY <1>3, <1>4, RadioStarts
<1>5. CASE round' = round /\ job' = job
  BY <1>1, <1>5 DEF RadioCounts
<1>6. CASE job = "candidate" /\ round < Candidates /\ round' = round + 1 /\ job' = job
  <2>1. round' \in 1 .. (Candidates + Registers) /\ round' <= Candidates
    BY <1>3, <1>6, Bounds
  <2> QED
    BY <1>3, <1>6, <2>1 DEF RadioCounts
<1>7. CASE job = "assert" /\ round' = round /\ job' = "transfer"
  BY <1>3, <1>7 DEF RadioCounts
<1>8. CASE job = "transfer" /\ round < Registers /\ round' = round + 1 /\ job' = "assert"
  <2>1. round' \in 1 .. (Candidates + Registers) /\ round' <= Registers
    BY <1>3, <1>8, Bounds
  <2> QED
    BY <1>3, <1>8, <2>1 DEF RadioCounts
<1> QED
  BY <1>2, <1>4, <1>5, <1>6, <1>7, <1>8

(* The worker keeps the power it works with.                               *)
LEMMA WorkKeepsPowered ==
  ASSUME Shared, RadioTyped, RadioPowered, Radio!Work
  PROVE  RadioPowered'
<1>1. view' = view /\ job # "none"
  BY DEF Radio!Work, Radio!PowerOn, Radio!Rollback, Radio!Settle, Radio!Candidate, Radio!Strobe,
     Radio!ReadCc1101, Radio!TellFirst, Radio!Look, Radio!OpenUart, Radio!Listen, Radio!Select,
     Radio!Assert, Radio!Transfer, Radio!TellSecond, Radio!PowerOff, Radio!At, Radio!visit
<1>2. view' # "gone"
  BY <1>1 DEF RadioPowered
<1>3. CASE Radio!PowerOn
  <2>1. (job' = "settle" /\ hw'["ext5v"] = "on") \/ job' = "rollback"
    BY <1>3, Written DEF Radio!PowerOn, Radio!Power, Radio!To
  <2> QED
    BY <1>2, <2>1 DEF RadioPowered, Working
<1>4. CASE Radio!Rollback \/ Radio!PowerOff
  <2>1. job' = "over" /\ (hw'["ext5v"] = "off" \/ clean' = FALSE)
    BY <1>4, Written DEF Radio!Rollback, Radio!PowerOff, Radio!Power, Radio!To
  <2> QED
    BY <1>2, <2>1 DEF RadioPowered, Working
<1>5. CASE ~(Radio!PowerOn \/ Radio!Rollback \/ Radio!PowerOff)
  <2>1. job \in Working /\ job' \in Working /\ hw' = hw
    BY <1>5 DEF Working, Radio!Work, Radio!Settle, Radio!Candidate, Radio!Strobe,
       Radio!ReadCc1101, Radio!TellFirst, Radio!Look, Radio!OpenUart, Radio!Listen, Radio!Select,
       Radio!Assert, Radio!Transfer, Radio!TellSecond, Radio!At, Radio!To, Radio!Deselect
  <2> QED
    BY <1>1, <2>1, RadioWorks
<1> QED
  BY <1>3, <1>4, <1>5

(* Between the two verdicts nothing touches what the first part said.      *)
Second == {"look", "uart", "listen", "select", "assert", "transfer", "tell second"}
(* The worker tells its verdicts one after the other.                      *)
LEMMA WorkKeepsJudged ==
  ASSUME RadioTyped, RadioJudged, Radio!Work
  PROVE  RadioJudged'
<1>0. /\ found = [p \in Radio!Parts |-> found[p]] /\ part = [p \in Radio!Parts |-> part[p]]
      /\ job \in Second => (part[1] = "PASSED" <=> found[1])
      /\ run_state = "PASSED" => job \in {"off", "over"}
  BY DEF RadioTyped, RadioJudged, Second
<1>1. ASSUME run_state' # "PASSED", job' \notin Second PROVE RadioJudged'
  BY <1>1 DEF RadioJudged, Second
<1>2. ASSUME run_state' # "PASSED", job \in Second, part'[1] = part[1], found'[1] = found[1]
      PROVE  RadioJudged'
  BY <1>0, <1>2 DEF RadioJudged
<1>3. CASE Radio!PowerOn \/ Radio!Settle \/ Radio!Candidate \/ Radio!Strobe \/ Radio!ReadCc1101
  <2>1. run_state' = run_state /\ job \notin {"off", "over"} /\ job' \notin Second
    BY <1>3 DEF Second, Radio!PowerOn, Radio!Settle, Radio!Candidate, Radio!Strobe,
       Radio!ReadCc1101, Radio!At, Radio!To, Radio!published
  <2> QED
    BY <1>0, <1>1, <2>1
<1>4. CASE Radio!Rollback
  BY <1>1, <1>4 DEF Radio!Rollback, Radio!To, Second
<1>5. CASE Radio!TellFirst
  <2>1. CASE job' \notin Second
    BY <1>0, <1>1, <1>5, <2>1 DEF Radio!TellFirst, Radio!To, Radio!At, Second
  <2>2. CASE job' \in Second
    <3>1. part' = [part EXCEPT ![1] = IF found[1] THEN "PASSED" ELSE "FAILED", ![2] = "RUNNING"]
      BY <1>5, <2>2 DEF Radio!TellFirst, Radio!To, Radio!Verdict1, Second
    <3>2. part'[1] = IF found[1] THEN "PASSED" ELSE "FAILED"
      BY <1>0, <3>1 DEF Radio!Parts
    <3>3. run_state' # "PASSED" /\ found' = found
      BY <1>0, <1>5 DEF Radio!TellFirst, Radio!locals, Radio!At
    <3>4. found'[1] <=> found[1]
      BY <3>3
    <3> QED
      BY <3>2, <3>3, <3>4 DEF RadioJudged
  <2> QED
    BY <2>1, <2>2
<1>6. CASE Radio!Look \/ Radio!OpenUart \/ Radio!Select \/ Radio!Assert
  <2>1. job \in Second /\ part' = part /\ found' = found
    BY <1>6 DEF Second, Radio!Look, Radio!OpenUart, Radio!Select, Radio!Assert, Radio!At,
       Radio!published, Radio!locals
  <2>2. run_state' # "PASSED"
    BY <1>0, <1>6, <2>1 DEF Second, Radio!Look, Radio!OpenUart, Radio!Select, Radio!Assert,
       Radio!published
  <2> QED
    BY <1>2, <2>1, <2>2
<1>7. CASE Radio!Listen \/ Radio!Transfer
  <2>1. job \in Second /\ part' = part /\ run_state' = run_state
    BY <1>7 DEF Second, Radio!Listen, Radio!Transfer, Radio!At, Radio!published
  <2>2. found' = found \/ \E ok : found' = [found EXCEPT ![2] = ok]
    BY <1>7 DEF Radio!Listen, Radio!Transfer, Radio!locals
  <2>3. found'[1] = found[1]
    BY <1>0, <2>2 DEF Radio!Parts
  <2>4. run_state' # "PASSED"
    BY <1>0, <2>1 DEF Second
  <2> QED
    BY <1>2, <2>1, <2>3, <2>4
<1>8. CASE Radio!TellSecond
  <2>1. job = "tell second" /\ job' = "off" /\ found' = found
    BY <1>8 DEF Radio!TellSecond, Radio!At, Radio!To, Radio!locals
  <2>2. CASE run_state' # "PASSED"
    BY <1>1, <2>1, <2>2 DEF Second
  <2>3. CASE run_state' = "PASSED"
    <3>1. found[1] /\ found[2]
      BY <1>8, <2>3 DEF Radio!TellSecond, Radio!Verdict
    <3>2. part' = [part EXCEPT ![2] = IF found[2] THEN "PASSED" ELSE "FAILED"]
      BY <1>8, <2>3 DEF Radio!TellSecond
    <3>3. part'[1] = "PASSED" /\ part'[2] = "PASSED"
      BY <1>0, <2>1, <3>1, <3>2 DEF Radio!Parts, Second
    <3> QED
      BY <2>1, <3>1, <3>3 DEF RadioJudged
  <2> QED
    BY <2>2, <2>3
<1>9. CASE Radio!PowerOff
  <2>1. /\ job' = "over" /\ found' = found /\ part' = part /\ run_state' = run_state
    BY <1>9 DEF Radio!PowerOff, Radio!To, Radio!locals, Radio!published
  <2> QED
    BY <2>1 DEF RadioJudged
<1> QED
  BY <1>3, <1>4, <1>5, <1>6, <1>7, <1>8, <1>9 DEF Radio!Work

(* The worker has the lines it requested, and no others.                   *)
LEMMA WorkKeepsRequested ==
  ASSUME current = "radio", current' = current, Requested, Radio!Work
  PROVE  Requested'
<1>1. requests \subseteq (IF job = "candidate" THEN {"26"}
                          ELSE IF job \in {"assert", "transfer"} THEN {"22"} ELSE {})
  BY DEF Requested
<1>2. CASE Radio!Candidate
  BY <1>1, <1>2 DEF Requested, Radio!Candidate, Radio!At, Radio!To
<1>3. CASE Radio!Select
  BY <1>1, <1>3 DEF Requested, Radio!Select, Radio!At, Radio!To
<1>4. CASE Radio!Assert \/ Radio!Transfer
  BY <1>1, <1>4 DEF Requested, Radio!Assert, Radio!Transfer, Radio!At, Radio!To, Radio!Deselect
<1>5. CASE ~(Radio!Candidate \/ Radio!Select \/ Radio!Assert \/ Radio!Transfer)
  <2>1. requests' = requests /\ job \notin {"candidate", "assert", "transfer"}
    BY <1>5 DEF Radio!Work, Radio!PowerOn, Radio!Rollback, Radio!Settle, Radio!Strobe,
       Radio!ReadCc1101, Radio!TellFirst, Radio!Look, Radio!OpenUart, Radio!Listen,
       Radio!TellSecond, Radio!PowerOff, Radio!lines, Radio!At
  <2> QED
    BY <1>1, <2>1 DEF Requested
<1> QED
  BY <1>2, <1>3, <1>4, <1>5

(* The worker selects the radio only while it transfers.                   *)
LEMMA WorkKeepsSelected == ASSUME RadioSelected, Radio!Work PROVE RadioSelected'
<1>1. \/ selected' = TRUE /\ job' = "transfer"
      \/ selected' = FALSE
      \/ selected' = selected /\ job # "transfer"
  BY DEF Radio!Work, Radio!PowerOn, Radio!Rollback, Radio!Settle, Radio!Candidate, Radio!Strobe,
     Radio!ReadCc1101, Radio!TellFirst, Radio!Look, Radio!OpenUart, Radio!Listen, Radio!Select,
     Radio!Assert, Radio!Transfer, Radio!TellSecond, Radio!PowerOff, Radio!At, Radio!lines,
     Radio!Deselect
<1>2. selected = FALSE \/ job = "transfer"
  BY DEF RadioSelected
<1>3. selected' = FALSE \/ (selected' = TRUE /\ job' = "transfer")
  BY <1>1, <1>2
<1> QED
  BY <1>3 DEF RadioSelected

(* The page: a restart or a leave only sets the flag, Start and Join find  *)
(* nobody at work.                                                         *)
LEMMA RadioPageKeeps ==
  ASSUME Shared, RInv, current = "radio", current' = current,
         Radio!Restart \/ Radio!Start \/ Radio!Leave \/ Radio!Join
  PROVE  Shared' /\ RInv' /\ faults' = faults
<1>0. RadioTyped /\ RadioCounts /\ RadioPowered /\ RadioJudged /\ Requested /\ RadioSelected
  BY DEF RInv
<1>1. /\ hw' = hw /\ faults' = faults /\ clean' = clean /\ selected' = selected
      /\ requests' = requests /\ kind' = kind
  BY DEF Radio!Restart, Radio!Start, Radio!Leave, Radio!Join
<1>2. Shared'
  BY <1>1 DEF Shared
<1>3. CASE Radio!Restart \/ Radio!Leave
  <2>1. /\ view' \in {"restarting", "leaving"} /\ job' = job /\ round' = round /\ starts' = starts
        /\ found' = found /\ heard' = heard /\ run_state' = run_state /\ part' = part
    BY <1>3 DEF Radio!Restart, Radio!Leave, Radio!locals, Radio!published
  <2>2. RadioTyped'
    BY <1>0, <1>1, <2>1 DEF RadioTyped
  <2>6. view' = "restarting" => starts < MaxRestarts
    BY <1>3 DEF Radio!Restart, Radio!Leave
  <2>7. RadioCounts'
    BY <1>0, <2>1, <2>6 DEF RadioCounts
  <2>3. RadioPowered'
    BY <1>0, <1>1, <2>1 DEF RadioPowered
  <2>4. RadioJudged'
    BY <1>0, <2>1 DEF RadioJudged
  <2>5. Requested' /\ RadioSelected'
    BY <1>0, <1>1, <2>1 DEF Requested, RadioSelected
  <2> QED
    BY <1>1, <1>2, <2>2, <2>3, <2>4, <2>5, <2>7 DEF RInv
<1>4. CASE Radio!Start \/ Radio!Join
  <2>1. /\ job \in {"none", "over"} /\ round' = 1
        /\ \/ view' = "open" /\ starts' = starts + 1 /\ job' = "power" /\ run_state' = "RUNNING"
           \/ view' = "gone" /\ starts' = 0 /\ job' = "none" /\ run_state' = "WAITING"
    BY <1>4 DEF Radio!Start, Radio!Join, Radio!Idle, Radio!To
  <2>2. /\ found' = [p \in Radio!Parts |-> FALSE] /\ heard' = {}
        /\ \/ part' = [p \in Radio!Parts |-> IF p = 1 THEN "RUNNING" ELSE "PENDING"]
           \/ part' = [p \in Radio!Parts |-> "PENDING"]
    BY <1>4 DEF Radio!Start, Radio!Join
  <2>3. found' \in [Radio!Parts -> BOOLEAN] /\ part' \in [Radio!Parts -> PartStates]
    BY <2>2 DEF PartStates
  <2>4. RadioTyped'
    BY <1>0, <1>1, <2>1, <2>2, <2>3 DEF RadioTyped
  <2>5. starts' \in 0 .. MaxRestarts
    <3>1. starts < MaxRestarts \/ starts' = 0
      BY <1>0, <1>4 DEF RadioCounts, Radio!Start, Radio!Join
    <3>2. starts \in 0 .. MaxRestarts
      BY <1>0 DEF RadioCounts
    <3> QED
      BY <2>1, <3>1, <3>2, Bounds
  <2>6. RadioCounts'
    BY <1>0, <2>1, <2>5, RadioStarts
  <2>7. RadioPowered'
    BY <2>1 DEF RadioPowered, Working
  <2>8. RadioJudged'
    BY <2>1 DEF RadioJudged
  <2>9. Requested' /\ RadioSelected'
    BY <1>0, <1>1, <2>1 DEF Requested, RadioSelected
  <2> QED
    BY <1>1, <1>2, <2>4, <2>6, <2>7, <2>8, <2>9 DEF RInv
<1> QED
  BY <1>3, <1>4

-----------------------------------------------------------------------------
(* ExtIo.                                                                  *)

(* The rows: two switches, then every line once.                           *)
LEMMA RowFacts ==
  /\ Io!Rows = 1 .. (2 + Len(Lines)) /\ Len(Lines) \in Nat /\ Len(Lines) > 0
  /\ Io!Row[1] = "ext5v" /\ Io!Row[2] = "grove5v"
  /\ \A i \in Io!Rows : i > 2 => Io!Row[i] = Lines[i - 2] /\ i - 2 \in 1 .. Len(Lines)
  /\ Io!LineSet = {Lines[k] : k \in 1 .. Len(Lines)}
  /\ \A k \in 1 .. Len(Lines) : Lines[k] \in {"22", "23", "26"}
  /\ \A k, m \in 1 .. Len(Lines) : Lines[k] = Lines[m] => k = m
<1>1. Lines \in Seq({"22", "23", "26"}) /\ Lines # <<>> /\ Io!IsInjective(Lines)
  BY HatAssumption DEF Io!ExtIoAssumption
<1>2. /\ Len(Lines) \in Nat /\ Len(Lines) > 0 /\ DOMAIN Lines = 1 .. Len(Lines)
      /\ \A k \in 1 .. Len(Lines) : Lines[k] \in {"22", "23", "26"}
  BY <1>1
<1>3. \A k, m \in 1 .. Len(Lines) : Lines[k] = Lines[m] => k = m
  BY <1>1, <1>2 DEF Io!IsInjective
<1>4. Io!LineSet = {Lines[k] : k \in 1 .. Len(Lines)}
  BY <1>2 DEF Io!LineSet, Io!ToSet
<1>5. /\ DOMAIN Io!Row = 1 .. (2 + Len(Lines)) /\ Io!Row[1] = "ext5v" /\ Io!Row[2] = "grove5v"
      /\ \A i \in 1 .. (2 + Len(Lines)) : i > 2 => Io!Row[i] = Lines[i - 2]
  BY <1>1, <1>2 DEF Io!Row
<1>6. \A i \in Io!Rows : i > 2 => Io!Row[i] = Lines[i - 2] /\ i - 2 \in 1 .. Len(Lines)
  BY <1>2, <1>5 DEF Io!Rows
<1> QED
  BY <1>2, <1>3, <1>4, <1>5, <1>6 DEF Io!Rows

(* Which rows are lines and which are switches.                            *)
LEMMA RowKinds ==
  /\ Io!LineSet \subseteq {"22", "23", "26"}
  /\ \A i \in Io!Rows : Io!IsLine(i) <=> i > 2
  /\ \A i \in Io!Rows : ~Io!IsLine(i) <=> Io!Row[i] \in Io!Switches
  /\ \A i, j \in Io!Rows : Io!Row[i] = Io!Row[j] => i = j
  /\ 1 \in Io!Rows /\ 2 \in Io!Rows /\ 3 \in Io!Rows
  /\ Io!IsLine(3) /\ ~Io!IsLine(1) /\ ~Io!IsLine(2)
<1>1. Io!LineSet \subseteq {"22", "23", "26"}
  BY RowFacts
<1>2. ASSUME NEW i \in Io!Rows PROVE Io!IsLine(i) <=> i > 2
  <2>1. CASE i > 2
    BY <2>1, RowFacts DEF Io!IsLine
  <2>2. CASE ~(i > 2)
    <3>1. i = 1 \/ i = 2
      BY <2>2, RowFacts
    <3> QED
      BY <1>1, <3>1, <2>2, RowFacts DEF Io!IsLine
  <2> QED
    BY <2>1, <2>2
<1>3. ASSUME NEW i \in Io!Rows PROVE ~Io!IsLine(i) <=> Io!Row[i] \in Io!Switches
  <2>1. ~Io!IsLine(i) => i = 1 \/ i = 2
    BY <1>2, RowFacts
  <2> QED
    BY <1>1, <2>1, RowFacts DEF Io!IsLine, Io!Switches
<1>4. ASSUME NEW i \in Io!Rows, NEW j \in Io!Rows, Io!Row[i] = Io!Row[j] PROVE i = j
  <2>1. Io!IsLine(i) <=> Io!IsLine(j)
    BY <1>4 DEF Io!IsLine
  <2>2. CASE i > 2
    <3>1. j > 2
      BY <1>2, <2>1, <2>2
    <3>2. Lines[i - 2] = Lines[j - 2] /\ i - 2 \in 1 .. Len(Lines) /\ j - 2 \in 1 .. Len(Lines)
      BY <1>4, <2>2, <3>1, RowFacts
    <3>3. i - 2 = j - 2
      BY <3>2, RowFacts
    <3> QED
      BY <3>3, RowFacts
  <2>3. CASE ~(i > 2)
    <3>1. ~(j > 2)
      BY <1>2, <2>1, <2>3
    <3>2. (i = 1 \/ i = 2) /\ (j = 1 \/ j = 2)
      BY <2>3, <3>1, RowFacts
    <3> QED
      BY <1>4, <3>2, RowFacts
  <2> QED
    BY <2>2, <2>3
<1>5. 1 \in Io!Rows /\ 2 \in Io!Rows /\ 3 \in Io!Rows
  BY RowFacts
<1>6. Io!IsLine(3) /\ ~Io!IsLine(1) /\ ~Io!IsLine(2)
  BY <1>2, <1>5
<1> QED
  BY <1>1, <1>2, <1>3, <1>4, <1>5, <1>6

RowStates == [active : BOOLEAN, error : BOOLEAN]
IoTyped ==
  /\ outputs \subseteq Io!LineSet /\ inputs \subseteq Io!LineSet
  /\ level \in [Io!LineSet -> BOOLEAN]
  /\ io_function \in {"OUTPUT", "INPUT"} /\ dialog \in {"none", "OUTPUT", "INPUT"}
  /\ selected_index \in Io!Rows /\ rows \in [Io!Rows -> RowStates]

(* The lines are held by the map or by the rows, and the page is not in    *)
(* its own way; while it is closed nobody holds one.                       *)
IoHeld ==
  /\ inputs # {} => io_function = "INPUT"
  /\ outputs # {} => io_function = "OUTPUT"
  /\ open = FALSE => inputs = {} /\ outputs = {}
  /\ current = "ext io" => requests = outputs \cup inputs

EInv ==
  /\ IoTyped /\ open \in BOOLEAN /\ IoHeld
  /\ Io!ShownAsIs /\ Io!ErrorsComeFromOutside /\ Io!SelectedIsVisible

(* It tells all that the run checks of the EXT.IO page.                    *)
LEMMA EInvGivesInv == ASSUME Shared, EInv PROVE ExtIoInv
<1>1. Io!TypeOK
  BY DEF Shared, EInv, IoTyped, RowStates, Io!TypeOK
<1>2. Io!OneHolder
  BY DEF EInv, IoHeld, Io!OneHolder
<1> QED
  BY <1>1, <1>2 DEF EInv, ExtIoInv, Io!Inv

(* What a reading shows: a row without an error is what the line or the    *)
(* switch is, and an error has been counted or is of a line that is busy.  *)
LEMMA OutputsRead ==
  ASSUME NEW failing, NEW ins, NEW levels \in [Io!LineSet -> BOOLEAN],
         NEW shown, shown = Io!OutputRows(failing, ins, levels)
  PROVE  /\ shown \in [Io!Rows -> RowStates]
         /\ \A i \in Io!Rows : ~shown[i].error =>
              shown[i].active = IF Io!IsLine(i) THEN levels[Io!Row[i]] ELSE Io!On(Io!Row[i])
         /\ failing = {} /\ ins = {} => \A i \in Io!Rows : ~shown[i].error
<1>1. shown = [i \in Io!Rows |->
        IF i \in failing \/ Io!Row[i] \in ins THEN [active |-> FALSE, error |-> TRUE]
        ELSE [active |-> IF Io!IsLine(i) THEN levels[Io!Row[i]] ELSE Io!On(Io!Row[i]),
              error |-> FALSE]]
  BY DEF Io!OutputRows
<1>2. \A i \in Io!Rows : (IF Io!IsLine(i) THEN levels[Io!Row[i]] ELSE Io!On(Io!Row[i])) \in BOOLEAN
  BY DEF Io!IsLine, Io!On
<1>3. shown \in [Io!Rows -> RowStates]
  BY <1>1, <1>2 DEF RowStates
<1>4. ASSUME NEW i \in Io!Rows, ~shown[i].error
      PROVE  shown[i].active = IF Io!IsLine(i) THEN levels[Io!Row[i]] ELSE Io!On(Io!Row[i])
  <2>1. ~(i \in failing \/ Io!Row[i] \in ins)
    BY <1>1, <1>4
  <2> QED
    BY <1>1, <2>1
<1>5. failing = {} /\ ins = {} => \A i \in Io!Rows : ~shown[i].error
  BY <1>1
<1> QED
  BY <1>3, <1>4, <1>5

(* What inputs show is a state of each row, with an error only from        *)
(* outside.                                                                *)
LEMMA InputsShown ==
  ASSUME IoTyped, NEW failing, NEW outs, NEW shown, shown = Io!InputRows(failing, outs)
  PROVE  /\ shown \in [Io!Rows -> RowStates]
         /\ failing = {} /\ outs = {} => \A i \in Io!Rows : shown[i].error => rows[i].error
<1>1. shown = [i \in Io!Rows |->
        IF ~Io!IsLine(i) THEN rows[i]
        ELSE IF i \in failing \/ Io!Row[i] \in outs THEN [active |-> FALSE, error |-> TRUE]
        ELSE [active |-> level[Io!Row[i]], error |-> FALSE]]
  BY DEF Io!InputRows
<1>2. \A i \in Io!Rows : Io!IsLine(i) => level[Io!Row[i]] \in BOOLEAN
  BY DEF IoTyped, Io!IsLine
<1>3. shown \in [Io!Rows -> RowStates]
  BY <1>1, <1>2 DEF RowStates, IoTyped
<1> QED
  BY <1>1, <1>3

(* Only lines are read.                                                    *)
LEMMA LinesRead ==
  ASSUME NEW failing, NEW outs PROVE Io!InputsRead(failing, outs) \subseteq Io!LineSet
BY DEF Io!InputsRead, Io!IsLine

(* The first row that can be seen: a switch, or the first line.            *)
LEMMA FirstIsVisible ==
  ASSUME NEW function \in {"OUTPUT", "INPUT"}
  PROVE  /\ Io!FirstVisible(function) \in Io!Rows
         /\ Io!Visible(function, Io!FirstVisible(function))
<1> DEFINE First(i) == Io!Visible(function, i) /\ \A j \in 1 .. (i - 1) : ~Io!Visible(function, j)
<1>1. \E i \in Io!Rows : First(i)
  <2>1. CASE function = "OUTPUT"
    <3>1. First(1)
      BY <2>1 DEF Io!Visible
    <3> QED
      BY <3>1, RowKinds
  <2>2. CASE function = "INPUT"
    <3>1. Io!Visible(function, 3) /\ ~Io!Visible(function, 1) /\ ~Io!Visible(function, 2)
      BY <2>2, RowKinds DEF Io!Visible
    <3>2. \A j \in 1 .. (3 - 1) : j = 1 \/ j = 2
      OBVIOUS
    <3>3. First(3)
      BY <3>1, <3>2
    <3> QED
      BY <3>3, RowKinds
  <2> QED
    BY <2>1, <2>2
<1>2. Io!FirstVisible(function) = CHOOSE i \in Io!Rows : First(i)
  BY DEF Io!FirstVisible
<1> HIDE DEF First
<1>3. Io!FirstVisible(function) \in Io!Rows /\ First(Io!FirstVisible(function))
  BY <1>1, <1>2
<1> QED
  BY <1>3 DEF First

(* A failing row is counted.                                               *)
LEMMA FailingCounts ==
  ASSUME faults \in 0 .. MaxFaults, NEW failing \in Io!Failing,
         Io!FaultsAfter(Io!Count(failing))
  PROVE  /\ faults' \in 0 .. MaxFaults
         /\ faults' = 0 => failing = {} /\ faults = 0
<1>1. /\ failing = {} => faults' = faults + 0
      /\ failing # {} => faults' = faults + 1
      /\ faults' <= MaxFaults
  BY DEF Io!FaultsAfter, Io!Count
<1> QED
  BY <1>1, Bounds

(* A row that was toggled, or whose call failed, and the rows beside it.   *)
LEMMA RowWritten ==
  ASSUME rows \in [Io!Rows -> RowStates], NEW k \in Io!Rows,
         NEW toggled, NEW failed,
         toggled = [rows EXCEPT ![k] = [active |-> ~rows[k].active, error |-> FALSE]],
         failed = [rows EXCEPT ![k].error = TRUE]
  PROVE  /\ toggled \in [Io!Rows -> RowStates] /\ failed \in [Io!Rows -> RowStates]
         /\ toggled[k] = [active |-> ~rows[k].active, error |-> FALSE] /\ failed[k].error
         /\ \A i \in Io!Rows \ {k} : toggled[i] = rows[i] /\ failed[i] = rows[i]
<1>1. rows[k] \in RowStates /\ rows[k].active \in BOOLEAN
  BY DEF RowStates
<1>2. [active |-> ~rows[k].active, error |-> FALSE] \in RowStates
  BY DEF RowStates
<1>3. toggled \in [Io!Rows -> RowStates]
  BY <1>2
<1>4. [rows[k] EXCEPT !.error = TRUE] \in RowStates
  BY <1>1 DEF RowStates
<1>5. failed = [rows EXCEPT ![k] = [rows[k] EXCEPT !.error = TRUE]]
  OBVIOUS
<1>6. failed \in [Io!Rows -> RowStates]
  BY <1>4, <1>5
<1>7. failed[k].error
  BY <1>1, <1>5 DEF RowStates
<1>8. toggled[k] = [active |-> ~rows[k].active, error |-> FALSE]
  OBVIOUS
<1>9. \A i \in Io!Rows \ {k} : toggled[i] = rows[i] /\ failed[i] = rows[i]
  BY <1>5
<1> QED
  BY <1>3, <1>6, <1>7, <1>8, <1>9

(* Enter on a switch.                                                      *)
LEMMA ToggleSwitchKeeps ==
  ASSUME Shared, EInv, open = TRUE, io_function = "OUTPUT", Io!ToggleSwitch(selected_index),
         UNCHANGED <<current, open, io_function, dialog, selected_index>>
  PROVE  Shared' /\ EInv'
<1> DEFINE k == selected_index
<1>0. IoTyped /\ IoHeld /\ Io!ShownAsIs /\ Io!ErrorsComeFromOutside /\ Io!SelectedIsVisible
  BY DEF EInv
<1>1. k \in Io!Rows /\ ~Io!IsLine(k) /\ Io!Row[k] \in Io!Switches
  BY <1>0, RowKinds DEF IoTyped, Io!ToggleSwitch
<1>2. UNCHANGED <<requests, outputs, inputs, level>>
  BY DEF Io!ToggleSwitch, Io!held
<1>3. \/ /\ faults' = faults
         /\ hw' = [hw EXCEPT ![Io!Row[k]] = IF rows[k].active THEN "off" ELSE "on"]
         /\ rows' = [rows EXCEPT ![k] = [active |-> ~rows[k].active, error |-> FALSE]]
      \/ /\ faults < MaxFaults /\ faults' = faults + 1
         /\ hw' = hw \/ hw' = [hw EXCEPT ![Io!Row[k]] = IF rows[k].active THEN "off" ELSE "on"]
         /\ rows' = [rows EXCEPT ![k].error = TRUE]
  BY Bounds DEF Shared, Io!ToggleSwitch, Io!FaultsAfter, Io!Toggled
<1>4. Shared'
  <2>1. hw' = [w \in SwitchNames |-> hw'[w]]
    BY <1>3, SwitchKeepsShape DEF Shared
  <2> QED
    BY <1>3, <2>1, FaultsCount DEF Shared
<1>5. rows' \in [Io!Rows -> RowStates]
  BY <1>0, <1>1, <1>3, RowWritten DEF IoTyped
<1>6. IoTyped' /\ IoHeld' /\ Io!SelectedIsVisible'
  BY <1>0, <1>2, <1>5 DEF IoTyped, IoHeld, Io!SelectedIsVisible
<1>7. ASSUME NEW i \in Io!Rows, ~rows'[i].error
      PROVE  IF Io!Row[i] \in Io!Switches THEN rows'[i].active = (hw'[Io!Row[i]] = "on")
             ELSE Io!Row[i] \in outputs => rows'[i].active = level[Io!Row[i]]
  <2>1. CASE i # k
    <3>1. rows'[i] = rows[i]
      BY <1>0, <1>1, <1>3, <2>1, RowWritten DEF IoTyped
    <3>2. Io!Row[i] \in Io!Switches => hw'[Io!Row[i]] = hw[Io!Row[i]]
      <4>1. Io!Row[i] # Io!Row[k]
        BY <1>1, <2>1, RowKinds
      <4>2. hw = [w \in SwitchNames |-> hw[w]] /\ Io!Switches \subseteq SwitchNames
        BY DEF Shared, SwitchNames, Io!Switches
      <4> QED
        BY <1>3, <4>1, <4>2
    <3> QED
      BY <1>0, <1>7, <3>1, <3>2 DEF Io!ShownAsIs, Io!On
  <2>2. CASE i = k
    <3>1. /\ rows'[k] = [active |-> ~rows[k].active, error |-> FALSE]
          /\ hw' = [hw EXCEPT ![Io!Row[k]] = IF rows[k].active THEN "off" ELSE "on"]
      BY <1>0, <1>1, <1>3, <1>7, <2>2, RowWritten DEF IoTyped
    <3>2. hw'[Io!Row[k]] = IF rows[k].active THEN "off" ELSE "on"
      BY <1>1, <3>1 DEF Shared, SwitchNames, Io!Switches
    <3> QED
      BY <1>1, <2>2, <3>1, <3>2
  <2> QED
    BY <2>1, <2>2
<1>8. Io!ShownAsIs'
  BY <1>2, <1>7 DEF Io!ShownAsIs, Io!On
<1>9. Io!ErrorsComeFromOutside'
  <2>1. faults' = 0 => \A i \in Io!Rows : ~rows[i].error
    BY <1>0, <1>3, Bounds DEF Io!ErrorsComeFromOutside, Shared
  <2>2. faults' = 0 => rows' = [rows EXCEPT ![k] = [active |-> ~rows[k].active, error |-> FALSE]]
    BY <1>3, Bounds DEF Shared
  <2> QED
    BY <1>0, <2>1, <2>2 DEF Io!ErrorsComeFromOutside, IoTyped
<1> QED
  BY <1>4, <1>6, <1>8, <1>9 DEF EInv

(* Enter on a line, which no row holds while the function is OUTPUT.       *)
LEMMA ToggleLineKeeps ==
  ASSUME Shared, EInv, open = TRUE, io_function = "OUTPUT", Io!ToggleLine(selected_index),
         UNCHANGED <<current, open, io_function, dialog, selected_index>>
  PROVE  Shared' /\ EInv'
<1> DEFINE k == selected_index
           l == Io!Row[k]
<1>0. IoTyped /\ IoHeld /\ Io!ShownAsIs /\ Io!ErrorsComeFromOutside /\ Io!SelectedIsVisible
  BY DEF EInv
<1>1. k \in Io!Rows /\ Io!IsLine(k) /\ l \in Io!LineSet /\ l \notin Io!Switches
  BY <1>0, RowKinds DEF IoTyped, Io!ToggleLine, Io!IsLine
<1>2. inputs = {} /\ Io!FreeForOutput(l)
  BY <1>0 DEF IoHeld, Io!FreeForOutput
<1>3. /\ hw' = hw /\ inputs' = inputs
      /\ \/ /\ faults' = faults /\ level' = [level EXCEPT ![l] = ~rows[k].active]
            /\ outputs' = outputs \cup {l} /\ requests' = outputs' \cup inputs'
            /\ rows' = [rows EXCEPT ![k] = [active |-> ~rows[k].active, error |-> FALSE]]
         \/ /\ faults < MaxFaults /\ faults' = faults + 1
            /\ level' = level \/ level' = [level EXCEPT ![l] = ~rows[k].active]
            /\ outputs' = outputs \cup {l} \/ outputs' = outputs \ {l}
            /\ requests' = outputs' \cup inputs'
            /\ rows' = [rows EXCEPT ![k].error = TRUE]
  BY <1>2, Bounds DEF Shared, Io!ToggleLine, Io!FaultsAfter, Io!Hold, Io!Toggled
<1>4. Shared'
  BY <1>3, FaultsCount DEF Shared
<1>5. rows' \in [Io!Rows -> RowStates]
  BY <1>0, <1>1, <1>3, RowWritten DEF IoTyped
<1>6. rows[k].active \in BOOLEAN
  BY <1>0, <1>1 DEF IoTyped, RowStates
<1>7. level' \in [Io!LineSet -> BOOLEAN]
  BY <1>0, <1>1, <1>3, <1>6 DEF IoTyped
<1>8. IoTyped'
  BY <1>0, <1>1, <1>3, <1>5, <1>7 DEF IoTyped
<1>9. IoHeld' /\ Io!SelectedIsVisible'
  BY <1>0, <1>2, <1>3 DEF IoHeld, Io!SelectedIsVisible
<1>10. ASSUME NEW i \in Io!Rows, ~rows'[i].error
       PROVE  IF Io!Row[i] \in Io!Switches THEN rows'[i].active = (hw[Io!Row[i]] = "on")
              ELSE Io!Row[i] \in outputs' => rows'[i].active = level'[Io!Row[i]]
  <2>1. CASE i # k
    <3>1. rows'[i] = rows[i] /\ Io!Row[i] # l
      BY <1>0, <1>1, <1>3, <2>1, RowKinds, RowWritten DEF IoTyped
    <3>2. Io!Row[i] \in outputs' => Io!Row[i] \in outputs
      BY <1>3, <3>1
    <3>3. Io!Row[i] \in outputs => level'[Io!Row[i]] = level[Io!Row[i]]
      <4>1. level \in [Io!LineSet -> BOOLEAN] /\ outputs \subseteq Io!LineSet
        BY <1>0 DEF IoTyped
      <4>2. level' = level \/ level' = [level EXCEPT ![l] = ~rows[k].active]
        BY <1>3
      <4> QED
        BY <3>1, <4>1, <4>2
    <3> QED
      BY <1>0, <1>10, <3>1, <3>2, <3>3 DEF Io!ShownAsIs, Io!On
  <2>2. CASE i = k
    <3>1. /\ rows'[k] = [active |-> ~rows[k].active, error |-> FALSE]
          /\ level' = [level EXCEPT ![l] = ~rows[k].active]
      BY <1>0, <1>1, <1>3, <1>10, <2>2, RowWritten DEF IoTyped
    <3>2. level'[l] = ~rows[k].active
      BY <1>0, <1>1, <3>1 DEF IoTyped
    <3> QED
      BY <1>1, <2>2, <3>1, <3>2
  <2> QED
    BY <2>1, <2>2
<1>11. Io!ShownAsIs'
  BY <1>3, <1>10 DEF Io!ShownAsIs, Io!On
<1>12. Io!ErrorsComeFromOutside'
  <2>1. faults' = 0 => \A i \in Io!Rows : ~rows[i].error
    BY <1>0, <1>3, Bounds DEF Io!ErrorsComeFromOutside, Shared
  <2>2. faults' = 0 => rows' = [rows EXCEPT ![k] = [active |-> ~rows[k].active, error |-> FALSE]]
    BY <1>3, Bounds DEF Shared
  <2> QED
    BY <1>0, <2>1, <2>2 DEF Io!ErrorsComeFromOutside, IoTyped
<1> QED
  BY <1>4, <1>8, <1>9, <1>11, <1>12 DEF EInv

(* The rows are read again with the function that applies from now on.     *)
LEMMA BecomesOutput ==
  ASSUME EInv, NEW failing \in Io!Failing, Io!BecomeOutput(failing), io_function = "INPUT",
         io_function' = "OUTPUT", open = TRUE, UNCHANGED <<hw, level, open>>,
         faults' = 0 => failing = {}
  PROVE  /\ outputs' = {} /\ inputs' = {} /\ requests' = {}
         /\ rows' \in [Io!Rows -> RowStates]
         /\ Io!ShownAsIs' /\ Io!ErrorsComeFromOutside'
<1>1. outputs = {} /\ level \in [Io!LineSet -> BOOLEAN]
  BY DEF EInv, IoHeld, IoTyped
<1>2. outputs' = {} /\ inputs' = {} /\ requests' = {}
  BY <1>1 DEF Io!BecomeOutput, Io!Hold
<1>3. rows' = Io!OutputRows(failing, {}, level)
  BY DEF Io!BecomeOutput
<1>4. /\ rows' \in [Io!Rows -> RowStates]
      /\ \A i \in Io!Rows : ~rows'[i].error =>
           rows'[i].active = IF Io!IsLine(i) THEN level[Io!Row[i]] ELSE Io!On(Io!Row[i])
      /\ failing = {} => \A i \in Io!Rows : ~rows'[i].error
  BY <1>1, <1>3, OutputsRead
<1>5. Io!ShownAsIs'
  BY <1>2, <1>4, RowKinds DEF Io!ShownAsIs, Io!On
<1>6. Io!ErrorsComeFromOutside'
  BY <1>4 DEF Io!ErrorsComeFromOutside
<1> QED
  BY <1>2, <1>4, <1>5, <1>6

(* A page that reads its inputs and shows them keeps its invariant.        *)
LEMMA ReadsInputs ==
  ASSUME EInv, NEW failing \in Io!Failing, io_function' = "INPUT", NEW shown,
         shown = Io!InputRows(failing, {}),
         \/ rows' = shown
         \/ rows' = [shown EXCEPT ![1] = [active |-> FALSE, error |-> FALSE],
                                  ![2] = [active |-> FALSE, error |-> FALSE]],
         outputs' = {}, inputs' = Io!InputsRead(failing, {}),
         faults' = 0 => failing = {} /\ faults = 0
  PROVE  /\ rows' \in [Io!Rows -> RowStates] /\ inputs' \subseteq Io!LineSet
         /\ Io!ShownAsIs' /\ Io!ErrorsComeFromOutside'
<1>1. /\ shown \in [Io!Rows -> RowStates]
      /\ failing = {} => \A i \in Io!Rows : shown[i].error => rows[i].error
  BY InputsShown DEF EInv
<1>2. [active |-> FALSE, error |-> FALSE] \in RowStates
  BY DEF RowStates
<1>3. rows' \in [Io!Rows -> RowStates]
  BY <1>1, <1>2
<1>4. \A i \in Io!Rows : rows'[i].error => shown[i].error
  BY <1>1
<1>5. Io!ShownAsIs'
  BY DEF Io!ShownAsIs
<1>6. Io!ErrorsComeFromOutside'
  BY <1>1, <1>4 DEF EInv, Io!ErrorsComeFromOutside
<1> QED
  BY <1>3, <1>5, <1>6, LinesRead

(* apply_config_dialog_.                                                   *)
LEMMA ApplyConfigKeeps ==
  ASSUME Shared, EInv, current' = current, Io!ApplyConfig
  PROVE  Shared' /\ EInv'
<1>0. IoTyped /\ IoHeld /\ Io!ShownAsIs /\ Io!ErrorsComeFromOutside /\ Io!SelectedIsVisible
  BY DEF EInv
<1>1. /\ open = TRUE /\ open' = open /\ dialog # "none" /\ dialog' = "none"
      /\ hw' = hw /\ level' = level
  BY DEF EInv, Io!ApplyConfig
<1>2. CASE dialog = io_function
  <2>1. UNCHANGED <<requests, outputs, inputs, io_function, selected_index, rows, faults>>
    BY <1>2 DEF Io!ApplyConfig, Io!held
  <2>2. Shared' /\ IoTyped' /\ IoHeld'
    BY <1>0, <1>1, <2>1 DEF Shared, IoTyped, IoHeld
  <2>3. Io!ShownAsIs' /\ Io!ErrorsComeFromOutside' /\ Io!SelectedIsVisible'
    BY <1>0, <1>1, <2>1 DEF Io!ShownAsIs, Io!ErrorsComeFromOutside, Io!SelectedIsVisible, Io!On
  <2> QED
    BY <1>1, <2>2, <2>3 DEF EInv
<1>3. CASE dialog # io_function
  <2>1. dialog \in {"OUTPUT", "INPUT"} /\ io_function \in {"OUTPUT", "INPUT"}
    BY <1>0, <1>1 DEF IoTyped
  <2>2. PICK failing \in Io!Failing :
          /\ Io!FaultsAfter(Io!Count(failing))
          /\ IF io_function = "INPUT" THEN Io!BecomeOutput(failing) ELSE Io!BecomeInput(failing)
          /\ io_function' = dialog
          /\ selected_index' = IF Io!Visible(dialog, selected_index) THEN selected_index
                               ELSE Io!FirstVisible(dialog)
    BY <1>3 DEF Io!ApplyConfig
  <2>3. faults' \in 0 .. MaxFaults /\ (faults' = 0 => failing = {} /\ faults = 0)
    BY <2>2, FailingCounts DEF Shared
  <2>4. Shared'
    BY <1>1, <2>3 DEF Shared
  <2>5. selected_index' \in Io!Rows /\ Io!SelectedIsVisible'
    BY <1>0, <2>1, <2>2, FirstIsVisible DEF IoTyped, Io!SelectedIsVisible, Io!Visible, Io!IsLine
  <2>6. CASE io_function = "INPUT"
    <3>1. io_function' = "OUTPUT" /\ Io!BecomeOutput(failing)
      BY <1>3, <2>1, <2>2, <2>6
    <3>2. /\ outputs' = {} /\ inputs' = {} /\ requests' = {}
          /\ rows' \in [Io!Rows -> RowStates]
          /\ Io!ShownAsIs' /\ Io!ErrorsComeFromOutside'
      BY <1>1, <2>3, <2>6, <3>1, BecomesOutput
    <3>3. IoTyped' /\ IoHeld'
      BY <1>0, <1>1, <2>5, <3>1, <3>2 DEF IoTyped, IoHeld
    <3> QED
      BY <1>1, <2>4, <2>5, <3>2, <3>3 DEF EInv
  <2>7. CASE io_function = "OUTPUT"
    <3>1. io_function' = "INPUT" /\ Io!BecomeInput(failing)
      BY <1>3, <2>1, <2>2, <2>7
    <3>2. /\ outputs' = {} /\ inputs' = Io!InputsRead(failing, {})
          /\ requests' = outputs' \cup inputs'
          /\ rows' = [Io!InputRows(failing, {}) EXCEPT ![1] = [active |-> FALSE, error |-> FALSE],
                                                       ![2] = [active |-> FALSE, error |-> FALSE]]
      BY <3>1 DEF Io!BecomeInput, Io!Hold
    <3>3. /\ rows' \in [Io!Rows -> RowStates] /\ inputs' \subseteq Io!LineSet
          /\ Io!ShownAsIs' /\ Io!ErrorsComeFromOutside'
      BY <2>3, <3>1, <3>2, ReadsInputs
    <3>4. IoTyped'
      BY <1>0, <1>1, <2>5, <3>1, <3>2, <3>3 DEF IoTyped
    <3>5. IoHeld'
      BY <1>1, <3>1, <3>2 DEF IoHeld
    <3> QED
      BY <1>1, <2>4, <2>5, <3>3, <3>4, <3>5 DEF EInv
  <2> QED
    BY <2>1, <2>6, <2>7
<1> QED
  BY <1>2, <1>3

(* input_poll_timer_cb.                                                    *)
LEMMA PollKeeps == ASSUME Shared, EInv, current' = current, Io!Poll PROVE Shared' /\ EInv'
<1>0. IoTyped /\ IoHeld /\ Io!SelectedIsVisible
  BY DEF EInv
<1>1. /\ open = TRUE /\ io_function = "INPUT"
      /\ UNCHANGED <<hw, level, open, io_function, dialog, selected_index>>
  BY DEF EInv, Io!Poll
<1>2. outputs = {}
  BY <1>0, <1>1 DEF IoHeld
<1>3. PICK failing \in Io!Failing :
        /\ Io!FaultsAfter(Io!Count(failing))
        /\ Io!Hold({}, Io!InputsRead(failing, {}))
        /\ rows' = Io!InputRows(failing, {})
  BY <1>2 DEF Io!Poll
<1>4. faults' \in 0 .. MaxFaults /\ (faults' = 0 => failing = {} /\ faults = 0)
  BY <1>3, FailingCounts DEF Shared
<1>5. /\ outputs' = {} /\ inputs' = Io!InputsRead(failing, {})
      /\ requests' = outputs' \cup inputs'
  BY <1>3 DEF Io!Hold
<1>6. /\ rows' \in [Io!Rows -> RowStates] /\ inputs' \subseteq Io!LineSet
      /\ Io!ShownAsIs' /\ Io!ErrorsComeFromOutside'
  BY <1>1, <1>3, <1>4, <1>5, ReadsInputs
<1>7. IoTyped'
  BY <1>0, <1>1, <1>5, <1>6 DEF IoTyped
<1>8. IoHeld' /\ Io!SelectedIsVisible' /\ Shared'
  BY <1>0, <1>1, <1>4, <1>5 DEF IoHeld, Io!SelectedIsVisible, Shared
<1> QED
  BY <1>1, <1>6, <1>7, <1>8 DEF EInv

(* The rows themselves are left alone: a choice, the dialog, the outside.  *)
LEMMA QuietKeeps ==
  ASSUME Shared, EInv, current' = current,
         Io!Select \/ Io!ShowConfigDialog \/ Io!StepFunctionSelection \/ Io!HideConfigDialog
           \/ Io!Drive
  PROVE  Shared' /\ EInv'
<1>0. IoTyped /\ IoHeld /\ Io!ShownAsIs /\ Io!ErrorsComeFromOutside /\ Io!SelectedIsVisible
  BY DEF EInv
<1>1. UNCHANGED <<hw, requests, outputs, inputs, open, io_function, rows, faults>>
  BY DEF Io!Select, Io!ShowConfigDialog, Io!StepFunctionSelection, Io!HideConfigDialog, Io!Drive,
     Io!held, Io!shown
<1>2. Shared' /\ IoHeld' /\ Io!ErrorsComeFromOutside' /\ open' \in BOOLEAN
  BY <1>0, <1>1 DEF EInv, Shared, IoHeld, Io!ErrorsComeFromOutside
<1>3. CASE Io!Drive
  <2>1. PICK l \in Io!LineSet \ outputs : level' = [level EXCEPT ![l] = ~level[l]]
    BY <1>3 DEF Io!Drive
  <2>2. dialog' = dialog /\ selected_index' = selected_index
    BY <1>3 DEF Io!Drive, Io!shown
  <2>3. level \in [Io!LineSet -> BOOLEAN] /\ outputs \subseteq Io!LineSet
    BY <1>0 DEF IoTyped
  <2>4. /\ level' \in [Io!LineSet -> BOOLEAN]
        /\ \A o \in outputs : level'[o] = level[o]
    BY <2>1, <2>3
  <2>5. IoTyped' /\ Io!SelectedIsVisible'
    BY <1>0, <1>1, <2>2, <2>4 DEF IoTyped, Io!SelectedIsVisible
  <2>6. Io!ShownAsIs'
    BY <1>0, <1>1, <2>4 DEF Io!ShownAsIs, Io!On
  <2> QED
    BY <1>2, <2>5, <2>6 DEF EInv
<1>4. CASE ~Io!Drive
  <2>1. /\ level' = level /\ dialog' \in {"none", "OUTPUT", "INPUT"}
        /\ \/ selected_index' = selected_index
           \/ selected_index' \in Io!Rows /\ Io!Visible(io_function, selected_index')
    BY <1>0, <1>4 DEF IoTyped, Io!Select, Io!ShowConfigDialog, Io!StepFunctionSelection,
       Io!HideConfigDialog
  <2>2. selected_index' \in Io!Rows /\ Io!SelectedIsVisible'
    BY <1>0, <1>1, <2>1 DEF IoTyped, Io!SelectedIsVisible, Io!Visible, Io!IsLine
  <2>3. IoTyped'
    BY <1>0, <1>1, <2>1, <2>2 DEF IoTyped
  <2>4. Io!ShownAsIs'
    BY <1>0, <1>1, <2>1 DEF Io!ShownAsIs, Io!On
  <2> QED
    BY <1>2, <2>2, <2>3, <2>4 DEF EInv
<1> QED
  BY <1>3, <1>4

(* The page comes and goes.                                                *)
LEMMA CloseKeeps == ASSUME Shared, EInv, current' = current, Io!Close PROVE Shared' /\ EInv'
<1>1. /\ open' = FALSE /\ outputs' = {} /\ inputs' = {} /\ requests' = {}
      /\ rows' = [i \in Io!Rows |-> [active |-> FALSE, error |-> FALSE]]
      /\ io_function' = "OUTPUT" /\ dialog' = "none" /\ selected_index' = 1
      /\ level' = [l \in Io!LineSet |-> FALSE] /\ hw' = hw /\ faults' = faults
  BY DEF Io!Close, Io!Hold
<1>2. IoTyped'
  BY <1>1, RowKinds DEF IoTyped, RowStates
<1>3. Shared' /\ IoHeld'
  BY <1>1 DEF Shared, IoHeld
<1>4. Io!ShownAsIs' /\ Io!ErrorsComeFromOutside' /\ Io!SelectedIsVisible'
  BY <1>1 DEF Io!ShownAsIs, Io!ErrorsComeFromOutside, Io!SelectedIsVisible, Io!Visible
<1> QED
  BY <1>1, <1>2, <1>3, <1>4 DEF EInv

(* The page opens with no line requested.                                  *)
LEMMA OpenKeeps ==
  ASSUME Shared, EInv, requests = {}, Io!Open
  PROVE  Shared' /\ EInv' /\ open' = TRUE /\ requests' = {}
<1>0. IoTyped /\ IoHeld /\ Io!SelectedIsVisible
  BY DEF EInv
<1>1. /\ open = FALSE /\ open' = TRUE
      /\ UNCHANGED <<hw, requests, outputs, inputs, io_function, dialog, selected_index>>
      /\ level' \in [Io!LineSet -> BOOLEAN]
  BY DEF EInv, Io!Open, Io!held
<1>2. inputs = {} /\ outputs = {}
  BY <1>0, <1>1 DEF IoHeld
<1>3. PICK failing \in Io!Failing :
        /\ Io!FaultsAfter(Io!Count(failing)) /\ rows' = Io!OutputRows(failing, {}, level')
  BY <1>2 DEF Io!Open
<1>4. faults' \in 0 .. MaxFaults /\ (faults' = 0 => failing = {} /\ faults = 0)
  BY <1>3, FailingCounts DEF Shared
<1>5. /\ rows' \in [Io!Rows -> RowStates]
      /\ failing = {} => \A i \in Io!Rows : ~rows'[i].error
      /\ \A i \in Io!Rows : ~rows'[i].error =>
           rows'[i].active = IF Io!IsLine(i) THEN level'[Io!Row[i]] ELSE Io!On(Io!Row[i])
  BY <1>1, <1>3, OutputsRead
<1>6. IoTyped'
  BY <1>0, <1>1, <1>5 DEF IoTyped
<1>7. IoHeld' /\ Io!SelectedIsVisible' /\ Shared'
  BY <1>0, <1>1, <1>2, <1>4 DEF IoHeld, Io!SelectedIsVisible, Shared
<1>8. Io!ShownAsIs'
  BY <1>1, <1>2, <1>5, RowKinds DEF Io!ShownAsIs, Io!On
<1>9. Io!ErrorsComeFromOutside'
  BY <1>4, <1>5 DEF Io!ErrorsComeFromOutside
<1> QED
  BY <1>1, <1>2, <1>6, <1>7, <1>8, <1>9 DEF EInv

-----------------------------------------------------------------------------
(* The pages together.                                                     *)

HatInv == Shared /\ OnePage /\ RInv /\ EInv

(* What a step of another page leaves of this one's.                       *)
LEMMA IoElsewhere ==
  ASSUME EInv, open = FALSE, UNCHANGED io, faults' = 0 => faults = 0,
         current' = "ext io" => requests' = {}
  PROVE  EInv'
<1>1. UNCHANGED <<outputs, inputs, level, open, io_function, dialog, selected_index, rows>>
  BY DEF io
<1>2. IoTyped' /\ IoHeld'
  BY <1>1 DEF EInv, IoTyped, IoHeld
<1>3. Io!ShownAsIs' /\ Io!ErrorsComeFromOutside' /\ Io!SelectedIsVisible'
  BY <1>1 DEF EInv, Io!ShownAsIs, Io!ErrorsComeFromOutside, Io!SelectedIsVisible
<1> QED
  BY <1>1, <1>2, <1>3 DEF EInv

(* It holds before any page was opened.                                    *)
LEMMA InitHatInv == ASSUME HatInit PROVE HatInv
<1>1. Shared
  BY Bounds DEF HatInit, Init, Shared, SwitchNames
<1>2. OnePage
  BY DEF HatInit, Radio!RadioInit, Io!ExtIoInit, OnePage
<1>3. RadioTyped /\ RadioPowered /\ RadioJudged
  BY DEF HatInit, Radio!RadioInit, RadioTyped, RadioPowered, RadioJudged, Working, PartStates
<1>4. RadioCounts
  BY Bounds DEF HatInit, Radio!RadioInit, RadioCounts
<1>5. Requested /\ RadioSelected
  BY DEF HatInit, Radio!RadioInit, Requested, RadioSelected
<1>6. IoTyped
  BY RowKinds DEF HatInit, Io!ExtIoInit, IoTyped, RowStates
<1>7. IoHeld /\ open \in BOOLEAN
  BY DEF HatInit, Io!ExtIoInit, IoHeld
<1>8. Io!ShownAsIs /\ Io!ErrorsComeFromOutside /\ Io!SelectedIsVisible
  BY DEF HatInit, Io!ExtIoInit, Io!ShownAsIs, Io!ErrorsComeFromOutside, Io!SelectedIsVisible,
     Io!Visible
<1> QED
  BY <1>1, <1>2, <1>3, <1>4, <1>5, <1>6, <1>7, <1>8 DEF HatInv, RInv, EInv

(* A page is opened where nothing is requested, and closed when it has     *)
(* given back what it had.                                                 *)
LEMMA OpenPageKeeps == ASSUME HatInv, OpenPage PROVE HatInv'
<1>0. Shared /\ OnePage /\ RInv /\ EInv
  BY DEF HatInv
<1>1. current = "none" /\ view = "gone" /\ open = FALSE /\ requests = {}
  BY <1>0 DEF OpenPage, OnePage, RInv, Requested
<1>2. CASE current' = "fixture" /\ Open /\ UNCHANGED <<requests, radio, io>>
  <2>1. Shared' /\ (faults' = 0 => faults = 0)
    BY <1>0, <1>2, FixtureKeepsShared DEF Next
  <2>2. view' = view /\ open' = open
    BY <1>2 DEF radio, io
  <2>3. OnePage' /\ Requested'
    BY <1>1, <1>2, <2>2 DEF OnePage, Requested
  <2> QED
    BY <1>0, <1>1, <1>2, <2>1, <2>3, RadioElsewhere, IoElsewhere DEF HatInv
<1>3. CASE current' = "radio" /\ (\E k \in {"LORA", "CC1101"} : Radio!Open(k))
           /\ UNCHANGED <<fixture, io>>
  <2>1. /\ kind' \in {"LORA", "CC1101"} /\ view' = "open"
        /\ UNCHANGED <<hw, requests, cancel, starts, job, round, found, heard, selected, run_state,
                       part, faults, clean>>
    BY <1>3 DEF Radio!Open, Radio!locals, Radio!published
  <2>2. Shared' /\ (faults' = 0 => faults = 0) /\ open' = open
    BY <1>0, <1>3, <2>1 DEF Shared, io
  <2>3. job = "none"
    BY <1>0, <1>1 DEF RInv, RadioPowered
  <2>4. RadioTyped' /\ RadioCounts' /\ RadioJudged' /\ RadioPowered'
    BY <1>0, <2>1, <2>3 DEF RInv, RadioTyped, RadioCounts, RadioJudged, RadioPowered, Working
  <2>5. RadioSelected'
    BY <1>0, <2>1 DEF RInv, RadioSelected
  <2>6. OnePage' /\ Requested'
    BY <1>1, <1>3, <2>1, <2>2 DEF OnePage, Requested
  <2>7. EInv'
    BY <1>0, <1>1, <1>3, <2>2, IoElsewhere
  <2> QED
    BY <2>2, <2>4, <2>5, <2>6, <2>7 DEF HatInv, RInv
<1>4. CASE current' = "ext io" /\ Io!Open /\ UNCHANGED <<clean, fixture, radio>>
  <2>1. Shared' /\ EInv' /\ open' = TRUE /\ requests' = {}
    BY <1>0, <1>1, <1>4, OpenKeeps
  <2>2. view' = view
    BY <1>4 DEF radio
  <2>3. OnePage' /\ Requested'
    BY <1>1, <1>4, <2>1, <2>2 DEF OnePage, Requested
  <2> QED
    BY <1>0, <1>1, <1>4, <2>1, <2>3, RadioElsewhere DEF HatInv
<1> QED
  BY <1>2, <1>3, <1>4 DEF OpenPage

(* A page is closed: its lines and its switches are given back.            *)
LEMMA ClosePageKeeps == ASSUME HatInv, ClosePage PROVE HatInv'
<1>0. Shared /\ OnePage /\ RInv /\ EInv
  BY DEF HatInv
<1>1. /\ current' = "none" /\ UNCHANGED <<hw, requests, faults, clean, radio, io>>
      /\ view' = view /\ open' = open
  BY DEF ClosePage, radio, io
<1>2. view = "gone" /\ open = FALSE
  BY <1>0 DEF ClosePage, OnePage, EInv
<1>3. requests = {}
  <2>1. CASE current = "fixture"
    BY <1>0, <2>1 DEF RInv, Requested
  <2>2. CASE current = "radio"
    BY <1>0, <1>2, <2>2 DEF RInv, Requested, RadioPowered
  <2>3. CASE current = "ext io"
    BY <1>0, <1>2, <2>3 DEF EInv, IoHeld
  <2> QED
    BY <2>1, <2>2, <2>3 DEF ClosePage
<1>4. Shared' /\ OnePage' /\ Requested'
  BY <1>0, <1>1, <1>2, <1>3 DEF Shared, OnePage, Requested
<1> QED
  BY <1>0, <1>1, <1>2, <1>3, <1>4, RadioElsewhere, IoElsewhere DEF HatInv

(* A step of the open page keeps it.                                       *)
LEMMA PageStepKeeps == ASSUME HatInv, PageStep PROVE HatInv'
<1>0. Shared /\ OnePage /\ RInv /\ EInv /\ current' = current
  BY DEF HatInv, PageStep
<1>1. CASE FixtureStep
  <2>1. Shared' /\ (faults' = 0 => faults = 0)
    BY <1>0, <1>1, FixtureKeepsShared DEF FixtureStep
  <2>2. /\ current = "fixture" /\ view' = view /\ open' = open /\ view = "gone" /\ open = FALSE
        /\ UNCHANGED <<requests, radio, io>>
    BY <1>0, <1>1 DEF FixtureStep, OnePage, radio, io
  <2>3. OnePage' /\ Requested'
    BY <1>0, <2>2 DEF OnePage, RInv, Requested
  <2> QED
    BY <1>0, <2>1, <2>2, <2>3, RadioElsewhere, IoElsewhere DEF HatInv
<1>2. CASE RadioStep
  <2>1. /\ current = "radio" /\ open = FALSE /\ UNCHANGED io /\ open' = open
    BY <1>0, <1>2 DEF RadioStep, OnePage, io
  <2>2. Shared' /\ RInv' /\ (faults' = 0 => faults = 0)
    <3>1. CASE Radio!Work
      BY <1>0, <2>1, <3>1, WorkKeepsShared, WorkKeepsTyped, WorkKeepsCounts, WorkKeepsPowered,
         WorkKeepsJudged, WorkKeepsRequested, WorkKeepsSelected DEF RInv
    <3>2. CASE Radio!Restart \/ Radio!Start \/ Radio!Leave \/ Radio!Join
      BY <1>0, <2>1, <3>2, RadioPageKeeps
    <3> QED
      BY <1>2, <3>1, <3>2 DEF RadioStep, Radio!Next
  <2>3. OnePage'
    BY <1>0, <2>1 DEF OnePage
  <2> QED
    BY <1>0, <2>1, <2>2, <2>3, IoElsewhere DEF HatInv
<1>3. CASE IoStep
  <2>1. /\ current = "ext io" /\ view = "gone" /\ UNCHANGED radio /\ view' = view
    BY <1>0, <1>3 DEF IoStep, OnePage, radio
  <2>2. Shared' /\ EInv'
    <3>1. CASE Io!Toggle
      BY <1>0, <3>1, ToggleSwitchKeeps, ToggleLineKeeps DEF Io!Toggle, EInv
    <3>2. CASE Io!ApplyConfig \/ Io!Poll \/ Io!Close
      BY <1>0, <3>2, ApplyConfigKeeps, PollKeeps, CloseKeeps
    <3>3. CASE Io!Select \/ Io!ShowConfigDialog \/ Io!StepFunctionSelection
               \/ Io!HideConfigDialog \/ Io!Drive
      BY <1>0, <3>3, QuietKeeps
    <3> QED
      BY <1>3, <3>1, <3>2, <3>3 DEF IoStep, Io!Next
  <2>3. OnePage'
    BY <1>0, <2>1 DEF OnePage
  <2>4. Requested'
    BY <1>0, <2>1, <2>2, RowKinds DEF EInv, IoHeld, IoTyped, Requested
  <2> QED
    BY <1>0, <2>1, <2>2, <2>3, <2>4, RadioElsewhere DEF HatInv
<1> QED
  BY <1>1, <1>2, <1>3 DEF PageStep

(* Every step keeps it.                                                    *)
LEMMA NextHatInv == HatInv /\ [HatNext]_hatVars => HatInv'
<1> SUFFICES ASSUME HatInv, [HatNext]_hatVars PROVE HatInv'
  OBVIOUS
<1>1. CASE UNCHANGED hatVars
  <2>1. /\ UNCHANGED <<current, hw, requests, faults, radio, io>> /\ clean' = clean
        /\ view' = view /\ open' = open
    BY <1>1 DEF hatVars, radio, io
  <2>2. Shared' /\ OnePage' /\ Requested'
    <3>1. job' = job
      BY <2>1 DEF radio
    <3> QED
      BY <2>1, <3>1 DEF HatInv, Shared, OnePage, RInv, Requested
  <2>3. RadioTyped' /\ RadioCounts' /\ RadioPowered' /\ RadioJudged'
    <3>1. RadioTyped' /\ RadioCounts'
      BY <2>1 DEF HatInv, RInv, RadioTyped, RadioCounts, radio
    <3>2. RadioPowered'
      BY <2>1 DEF HatInv, RInv, RadioPowered, radio
    <3>3. RadioJudged'
      BY <2>1 DEF HatInv, RInv, RadioJudged, radio
    <3> QED
      BY <3>1, <3>2, <3>3
  <2>4. RadioSelected'
    BY <2>1 DEF HatInv, RInv, RadioSelected, radio
  <2>5. UNCHANGED <<outputs, inputs, level, io_function, dialog, selected_index, rows>>
    BY <2>1 DEF io
  <2>6. IoTyped' /\ IoHeld' /\ open' \in BOOLEAN
    BY <2>1, <2>5 DEF HatInv, EInv, IoTyped, IoHeld
  <2>7. Io!ShownAsIs' /\ Io!ErrorsComeFromOutside' /\ Io!SelectedIsVisible'
    BY <2>1, <2>5 DEF HatInv, EInv, Io!ShownAsIs, Io!ErrorsComeFromOutside,
       Io!SelectedIsVisible, Io!On
  <2> QED
    BY <2>2, <2>3, <2>4, <2>6, <2>7 DEF HatInv, RInv, EInv
<1> QED
  BY <1>1, OpenPageKeeps, ClosePageKeeps, PageStepKeeps DEF HatNext

-----------------------------------------------------------------------------
(* The fixture's page.  What it knows of the host is not disturbed by the  *)
(* others: they switch the power, and no cleanup that failed is forgotten. *)

FixtureIn == CapInv /\ (current # "fixture" => page = "gone")

(* A step of another page, as the fixture's page sees it.                  *)
Hardware ==
  [mux : Places, ext5v : {"on", "off"}, grove5v : {"on", "off"}, pins : {"GPIO", "USB"},
   lines : {"in", "out"}, i2c : Places, uart : Places]
PowerOnly ==
  /\ hw' \in Hardware
  /\ hw'.mux = hw.mux /\ hw'.pins = hw.pins /\ hw'.lines = hw.lines
  /\ hw'.i2c = hw.i2c /\ hw'.uart = hw.uart
  /\ clean' => clean

(* Switching the power is one.                                             *)
LEMMA PowerSwitched ==
  ASSUME hw \in Hardware, NEW w \in {"ext5v", "grove5v"}, NEW v \in {"on", "off"},
         hw' = hw \/ hw' = [hw EXCEPT ![w] = v], clean' => clean
  PROVE  PowerOnly
<1>1. CASE hw' = hw
  BY <1>1 DEF PowerOnly
<1>2. CASE w = "ext5v" /\ hw' = [hw EXCEPT !.ext5v = v]
  BY <1>2 DEF PowerOnly, Hardware
<1>3. CASE w = "grove5v" /\ hw' = [hw EXCEPT !.grove5v = v]
  BY <1>3 DEF PowerOnly, Hardware
<1> QED
  BY <1>1, <1>2, <1>3

(* The radio caps' worker powers the cap, and spoils the cleanup when it   *)
(* cannot; the pages leave both alone.                                     *)
LEMMA RadioPowerOnly ==
  ASSUME hw \in Hardware, Radio!Next \/ (\E k \in {"LORA", "CC1101"} : Radio!Open(k))
  PROVE  PowerOnly
<1>1. hw' = hw \/ hw' = [hw EXCEPT !["ext5v"] = "on"] \/ hw' = [hw EXCEPT !["ext5v"] = "off"]
  <2>1. CASE Radio!PowerOn \/ Radio!Rollback \/ Radio!PowerOff
    BY <2>1 DEF Radio!PowerOn, Radio!Rollback, Radio!PowerOff, Radio!Power
  <2>2. CASE Radio!Settle \/ Radio!Candidate \/ Radio!Strobe \/ Radio!ReadCc1101
             \/ Radio!TellFirst \/ Radio!Look \/ Radio!OpenUart \/ Radio!Listen \/ Radio!Select
             \/ Radio!Assert \/ Radio!Transfer \/ Radio!TellSecond
    BY <2>2 DEF Radio!Settle, Radio!Candidate, Radio!Strobe, Radio!ReadCc1101, Radio!TellFirst,
       Radio!Look, Radio!OpenUart, Radio!Listen, Radio!Select, Radio!Assert, Radio!Transfer,
       Radio!TellSecond
  <2>3. CASE \/ Radio!Restart \/ Radio!Start \/ Radio!Leave \/ Radio!Join
             \/ \E k \in {"LORA", "CC1101"} : Radio!Open(k)
    BY <2>3 DEF Radio!Restart, Radio!Start, Radio!Leave, Radio!Join, Radio!Open
  <2> QED
    BY <2>1, <2>2, <2>3 DEF Radio!Next, Radio!Work
<1>2. clean' = clean \/ clean' = FALSE
  <2>1. CASE Radio!PowerOn \/ Radio!Rollback \/ Radio!PowerOff
    BY <2>1 DEF Radio!PowerOn, Radio!Rollback, Radio!PowerOff
  <2>2. CASE Radio!Settle \/ Radio!Candidate \/ Radio!Strobe \/ Radio!ReadCc1101
             \/ Radio!TellFirst \/ Radio!Look \/ Radio!OpenUart \/ Radio!Listen \/ Radio!Select
             \/ Radio!Assert \/ Radio!Transfer \/ Radio!TellSecond
    BY <2>2 DEF Radio!Settle, Radio!Candidate, Radio!Strobe, Radio!ReadCc1101, Radio!TellFirst,
       Radio!Look, Radio!OpenUart, Radio!Listen, Radio!Select, Radio!Assert, Radio!Transfer,
       Radio!TellSecond
  <2>3. CASE \/ Radio!Restart \/ Radio!Start \/ Radio!Leave \/ Radio!Join
             \/ \E k \in {"LORA", "CC1101"} : Radio!Open(k)
    BY <2>3 DEF Radio!Restart, Radio!Start, Radio!Leave, Radio!Join, Radio!Open
  <2> QED
    BY <2>1, <2>2, <2>3 DEF Radio!Next, Radio!Work
<1> QED
  BY <1>1, <1>2, PowerSwitched

(* EXT.IO switches one of the two supplies, and does not touch the         *)
(* cleanup.                                                                *)
LEMMA IoPowerOnly ==
  ASSUME hw \in Hardware, EInv, Io!Next \/ Io!Open, UNCHANGED clean
  PROVE  PowerOnly
<1>1. CASE Io!Toggle /\ Io!ToggleSwitch(selected_index)
  <2>1. Io!Row[selected_index] \in {"ext5v", "grove5v"}
    BY <1>1, RowKinds DEF EInv, IoTyped, Io!ToggleSwitch, Io!Switches
  <2> DEFINE v == IF rows[selected_index].active THEN "off" ELSE "on"
  <2>2. v \in {"on", "off"} /\ (hw' = hw \/ hw' = [hw EXCEPT ![Io!Row[selected_index]] = v])
    BY <1>1 DEF Io!ToggleSwitch
  <2> QED
    BY <2>1, <2>2, PowerSwitched
<1>2. CASE ~(Io!Toggle /\ Io!ToggleSwitch(selected_index))
  <2>1. hw' = hw
    BY <1>2 DEF Io!Next, Io!Toggle, Io!ToggleLine, Io!Select, Io!ShowConfigDialog,
       Io!StepFunctionSelection, Io!HideConfigDialog, Io!ApplyConfig, Io!Poll, Io!Drive, Io!Close,
       Io!Open
  <2> QED
    BY <2>1 DEF PowerOnly
<1> QED
  BY <1>1, <1>2

(* While another page is open, and while one is opened or closed.          *)
LEMMA FixtureAway ==
  ASSUME FixtureIn, page = "gone", PowerOnly, faults' \in 0 .. MaxFaults, UNCHANGED fixture
  PROVE  FixtureIn'
<1>1. UNCHANGED <<settled, page, pc, at, count, state, items, active_item, cancel_requested, own,
                  runs, calm>>
  BY DEF fixture
<1> QED
  BY <1>1, FixtureElsewhere DEF FixtureIn, PowerOnly, Hardware

(* A step that leaves the host and the fixture alone.                      *)
LEMMA FixtureStutters ==
  ASSUME CapInv, UNCHANGED <<hw, faults, clean, fixture>> PROVE CapInv'
<1>0. UNCHANGED <<hw, faults, clean, settled, page, pc, at, count, state, items, active_item,
                  cancel_requested, own, runs, calm>>
  BY DEF fixture
<1>1. CapTyped' /\ CapCounts' /\ CapPlaced' /\ CapPage'
  BY <1>0 DEF CapInv, CapTyped, CapCounts, CapPlaced, CapPage
<1>2. CapState'
  BY <1>0 DEF CapInv, CapState, ItemsInOrder, PassedIsComplete, EndedIsTold
<1>3. CapItems' /\ CapSwitches' /\ CapOwn' /\ CapKnows'
  BY <1>0 DEF CapInv, CapItems, CapSwitches, CapOwn, CapKnows
<1>4. CapChannels' /\ CapCleanup'
  BY <1>0 DEF CapInv, CapChannels, CapCleanup
<1> QED
  BY <1>1, <1>2, <1>3, <1>4 DEF CapInv

(* The host is started and no page is open.                                *)
LEMMA InitFixtureIn == HatInit => FixtureIn
BY InitGood DEF HatInit, FixtureIn, Init

(* Every step, of whichever page, keeps it.                                *)
LEMMA NextFixtureIn == HatInv /\ FixtureIn /\ [HatNext]_hatVars => FixtureIn'
<1> SUFFICES ASSUME HatInv, FixtureIn, [HatNext]_hatVars PROVE FixtureIn'
  OBVIOUS
<1>1. /\ hw \in Hardware /\ faults' \in 0 .. MaxFaults /\ HatInv' /\ EInv /\ CapInv
      /\ current # "fixture" => page = "gone"
  BY NextHatInv DEF HatInv, Shared, FixtureIn, CapInv, CapTyped, Hardware
<1>2. CASE UNCHANGED hatVars
  <2>1. UNCHANGED <<current, hw, faults, clean, fixture, page>>
    BY <1>2 DEF hatVars, fixture
  <2> QED
    BY <1>1, <2>1, FixtureStutters DEF FixtureIn
<1>3. CASE OpenPage
  <2>0. page = "gone"
    BY <1>1, <1>3 DEF OpenPage
  <2>1. CASE current' = "fixture" /\ Open
    BY <1>1, <2>1, FixtureKeeps DEF FixtureIn, Next
  <2>2. CASE (\E k \in {"LORA", "CC1101"} : Radio!Open(k)) /\ UNCHANGED fixture
    BY <1>1, <2>0, <2>2, RadioPowerOnly, FixtureAway
  <2>3. CASE Io!Open /\ UNCHANGED <<clean, fixture>>
    BY <1>1, <2>0, <2>3, IoPowerOnly, FixtureAway
  <2> QED
    BY <1>3, <2>1, <2>2, <2>3 DEF OpenPage
<1>4. CASE ClosePage
  <2>1. page = "gone" /\ UNCHANGED <<hw, faults, clean, fixture>>
    BY <1>1, <1>4 DEF ClosePage
  <2>2. PowerOnly
    BY <1>1, <2>1 DEF PowerOnly
  <2> QED
    BY <1>1, <2>1, <2>2, FixtureAway
<1>5. CASE PageStep
  <2>1. CASE FixtureStep
    BY <1>1, <1>5, <2>1, FixtureKeeps DEF PageStep, FixtureStep, FixtureIn
  <2>2. CASE RadioStep
    BY <1>1, <2>2, RadioPowerOnly, FixtureAway DEF RadioStep
  <2>3. CASE IoStep
    BY <1>1, <2>3, IoPowerOnly, FixtureAway DEF IoStep
  <2> QED
    BY <1>5, <2>1, <2>2, <2>3 DEF PageStep
<1> QED
  BY <1>2, <1>3, <1>4, <1>5 DEF HatNext

(* The pins' lines are driven by the fixture's own step only.              *)
LEMMA StepDrivenAsGpio ==
  HatInv /\ FixtureIn /\ [HatNext]_hatVars
    => [hw.lines = "in" /\ hw'.lines = "out" => hw.pins = "GPIO"]_vars
<1> SUFFICES ASSUME HatInv, FixtureIn, [HatNext]_hatVars, hw.lines = "in", hw'.lines = "out"
             PROVE  hw.pins = "GPIO"
  OBVIOUS
<1>1. hw \in Hardware /\ EInv /\ CapInv
  BY DEF HatInv, FixtureIn, CapInv, CapTyped, Hardware
<1>2. CASE hw'.lines = hw.lines
  BY <1>2
<1>3. CASE Next
  BY <1>1, <1>3, LinesDrivenAsGpio
<1>4. CASE PowerOnly
  BY <1>2, <1>4 DEF PowerOnly
<1>5. UNCHANGED hatVars \/ ClosePage => hw'.lines = hw.lines
  BY DEF hatVars, ClosePage
<1>6. OpenPage => Next \/ PowerOnly
  BY <1>1, RadioPowerOnly, IoPowerOnly DEF OpenPage, Next
<1>7. PageStep => Next \/ PowerOnly
  BY <1>1, RadioPowerOnly, IoPowerOnly DEF PageStep, FixtureStep, RadioStep, IoStep
<1> QED
  BY <1>2, <1>3, <1>4, <1>5, <1>6, <1>7 DEF HatNext

-----------------------------------------------------------------------------
(* The theorems.                                                           *)

(* For every number of candidates, registers, restarts, faults and visits: *)
(* a part is asked with the 5 V on, a run passes with both parts, and      *)
(* every way out of a probe gives its line back: RadioInv.                 *)
THEOREM RadioThm == HatSpec => []RadioInv
<1>1. HatInv => RadioInv
  BY RInvGivesInv DEF HatInv
<1> QED
  BY <1>1, InitHatInv, NextHatInv, PTL DEF HatSpec

(* For any of the lines: each has one holder, a row without an error shows *)
(* what is, the row that Enter acts on can be seen, and no error is the    *)
(* page's own doing: ExtIoInv.                                             *)
THEOREM ExtIoThm == HatSpec => []ExtIoInv
<1>1. HatInv => ExtIoInv
  BY EInvGivesInv DEF HatInv
<1> QED
  BY <1>1, InitHatInv, NextHatInv, PTL DEF HatSpec

(* For any number of runs, faults, polls, attempts and visits, whatever    *)
(* pages came before: the items agree with the run, a run passes when all  *)
(* have, and a register of the CAP is only used while the host reaches it, *)
(* on a bus that has settled: FixtureInv.                                  *)
THEOREM CapFixtureThm == HatSpec => []FixtureInv
<1>1. FixtureIn => FixtureInv
  BY InvGivesReach DEF FixtureIn, FixtureInv
<1> QED
  BY <1>1, InitHatInv, NextHatInv, InitFixtureIn, NextFixtureIn, PTL DEF HatSpec

(* Whatever a page was doing when it was left, the next one finds the host *)
(* as it expects it, unless a switch has failed; after a run of a radio    *)
(* cap the 5 V are off unless a switch has failed; and between two pages   *)
(* no line is requested: HandedBack.                                       *)
THEOREM HandedBackThm == HatSpec => []HandedBack
<1>1. HatInv => Radio!PowerReturned
  BY DEF HatInv, RInv, RadioPowered, Radio!PowerReturned
<1>2. HatInv => (current = "none" => requests = {})
  BY DEF HatInv, RInv, Requested
<1>3. FixtureIn => Restored
  BY InvGivesRestored DEF FixtureIn
<1>4. HatInv /\ FixtureIn => HandedBack
  BY <1>1, <1>2, <1>3 DEF HandedBack
<1> QED
  BY <1>4, InitHatInv, NextHatInv, InitFixtureIn, NextFixtureIn, PTL DEF HatSpec

(* No step of any page drives the lines while the pins have their USB      *)
(* function: DrivenAsGpio.                                                 *)
THEOREM DrivenThm == HatSpec => DrivenAsGpio
BY InitHatInv, NextHatInv, InitFixtureIn, NextFixtureIn, StepDrivenAsGpio, PTL
   DEF HatSpec, DrivenAsGpio
=============================================================================
