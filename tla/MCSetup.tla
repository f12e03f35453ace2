------------------------------ MODULE MCSetup ------------------------------
(* Setup over every configuration, with few warp-cli attempts.             *)
EXTENDS Setup
=============================================================================
