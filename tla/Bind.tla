-------------------------------- MODULE Bind --------------------------------
(***************************************************************************)
(* What wireguard-go may rely on in a conn.Bind that carries its datagrams *)
(* over a connection of its own (TCPBind, Socks5Bind), stated about the    *)
(* transport the bind is using:                                            *)
(*                                                                         *)
(*   - only an open bind takes a transport into use;                       *)
(*   - Close takes the transport in use away from the bind;                *)
(*   - a transport that the bind has given up, or that was set up too late *)
(*     to be used, is never used again.                                    *)
(***************************************************************************)
CONSTANTS
  Transport,   \* the connections or sessions that can be set up
  None         \* no transport

VARIABLES
  open,        \* the bind is open
  cur,         \* the transport in use
  spent        \* the transports that are of no more use

vars == <<open, cur, spent>>

Init == open = FALSE /\ cur = None /\ spent = {}

(* The transport in use, if there is one, is given up. *)
Retire == spent' = spent \cup ({cur} \ {None})

Open == ~open /\ open' = TRUE /\ UNCHANGED <<cur, spent>>

Attach(t) ==
  /\ open
  /\ t \notin spent \cup {cur}
  /\ cur' = t
  /\ Retire
  /\ UNCHANGED open

Detach == open /\ cur' = None /\ Retire /\ UNCHANGED open

Discard(t) ==
  /\ t \notin spent \cup {cur}
  /\ spent' = spent \cup {t}
  /\ UNCHANGED <<open, cur>>

Close == open' = FALSE /\ cur' = None /\ Retire

Next ==
  \/ Open \/ Detach \/ Close
  \/ \E t \in Transport : Attach(t) \/ Discard(t)

Spec == Init /\ [][Next]_vars
=============================================================================
