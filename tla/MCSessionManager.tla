-------------------------- MODULE MCSessionManager --------------------------
(* Model-checking instance of SessionManager: the plans of the two product *)
(* models, one a subsequence of the other, as CardputerZero and its Lite.  *)
EXTENDS SessionManager

CONSTANTS input, camera

MCTestIds == {input, camera}
MCPlans   == {<<input, camera>>, <<input>>}

(* Attempts and evidence with the short plan, two verdicts with the long.  *)
MCAttempts == [p \in MCPlans |-> IF Len(p) = 1 THEN 2 ELSE 0]
NoAttempts == [p \in MCPlans |-> 0]

=============================================================================
