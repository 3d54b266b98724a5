----------------------------- MODULE MCHatPages -----------------------------
(* One of the three lines: the one that a radio cap uses too.               *)
EXTENDS HatPages

MCLines == <<"22">>
=============================================================================
