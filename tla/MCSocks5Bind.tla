--------------------------- MODULE MCSocks5Bind ---------------------------
(* Socks5Bind with two associations, so that a bind is closed and opened   *)
(* again, and one sender.                                                  *)
EXTENDS Socks5Bind
=============================================================================
