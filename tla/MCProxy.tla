------------------------------ MODULE MCProxy ------------------------------
(* Proxy with a few handlers.                                              *)
EXTENDS Proxy, TLC

(* Handlers are interchangeable. *)
Symmetry == Permutations(Handlers)
=============================================================================
