---------------------------- MODULE MCTestPages -----------------------------
(* The keyboard with the three held keys and one more on the first layer,  *)
(* and two and one on the others; on the air the fixture's replies, one of *)
(* them in another protocol, and a remote control that sends the first     *)
(* command.                                                                *)
EXTENDS TestPages

MCKeysOf == <<{"tab", "4", "8", "q"}, {"f1", "f2"}, {"!"}>>

Answer(i) == [address |-> "fixture", command |-> i, protocol |-> "NEC32"]
MCFrames ==
  {Answer(1), Answer(2), [Answer(1) EXCEPT !.protocol = "NECX"],
   [Answer(1) EXCEPT !.address = "other"]}
=============================================================================
