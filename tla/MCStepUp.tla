------------------------------ MODULE MCStepUp ------------------------------
(* TLC instances of StepUp: who owns which client. *)
EXTENDS StepUp, TLC

CONSTANTS alice, bob, browser, other

Owners == [c \in {browser, other} |-> IF c = other THEN bob ELSE alice]
=============================================================================
