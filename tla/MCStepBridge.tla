---------------------------- MODULE MCStepBridge ----------------------------
(***************************************************************************)
(* Model-checking instance of StepBridge: equal voting powers.             *)
(***************************************************************************)
EXTENDS StepBridge

CONSTANT dummy

MCPower == [n \in Nodes |-> 1]
=============================================================================
