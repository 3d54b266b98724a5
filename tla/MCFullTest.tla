----------------------------- MODULE MCFullTest -----------------------------
(* Model-checking instance of FullTest: plans of one, two and three tests. *)
EXTENDS FullTest

CONSTANTS input, camera, link

MCTestIds  == {input, camera, link}
MCPlans    == {<<input>>, <<input, camera>>, <<input, camera, link>>}
NoAttempts == [p \in MCPlans |-> 0]

=============================================================================
