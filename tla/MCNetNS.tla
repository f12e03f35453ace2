------------------------------ MODULE MCNetNS ------------------------------
(* NetNS with two callers and four capabilities, one of which warp-svc     *)
(* keeps; the fallback for the last capability is past the kernel's.       *)
EXTENDS NetNS

KeptCaps == {0}
=============================================================================
