----------------------------- MODULE MCTCPBind -----------------------------
(* TCPBind with small sets of threads, connections and packet lengths.     *)
EXTENDS TCPBind

(* Packet lengths on both sides of the 16-bit limit. *)
EdgeSizes == {65535, 65536}

=============================================================================
