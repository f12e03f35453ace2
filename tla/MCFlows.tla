------------------------------ MODULE MCFlows ------------------------------
(* Flows with one flow, of either kind: flows share nothing.               *)
EXTENDS Flows
=============================================================================
