---------------------------- MODULE Socks5Codec ----------------------------
(***************************************************************************)
(* The SOCKS5 messages of socks5.go, as lengths and offsets: the UDP       *)
(* header WriteToHost puts before a payload and ReadFrom takes off again,  *)
(* and the request of a command.                                           *)
(*                                                                         *)
(* A datagram is its length n and the bytes the decoder looks at: frag,    *)
(* atyp and the byte after it, which is the length of a domain name; and,  *)
(* of a domain name, whether it is an IP literal (lit).  What the session  *)
(* keeps in readBuf between datagrams has the same shape.                  *)
(***************************************************************************)
EXTENDS Integers

V4     == 1      \* socks5AddrIPv4
Domain == 3      \* socks5AddrDomain
V6     == 4      \* socks5AddrIPv6

Byte == 0 .. 255
Datagram == [n : Nat, frag : Byte, atyp : Byte, b4 : Byte, lit : BOOLEAN]

Failed == [ok |-> FALSE, off |-> 0, len |-> 0]
Panic  == [ok |-> FALSE, off |-> -1, len |-> 0]

-----------------------------------------------------------------------------
(* Mutant: a name of any length is accepted. *)
TooLongNever(l) == FALSE

(* len(host) > 255 *)
TooLong(l) == l > 255

(* The address field for a host of l bytes, length byte included. *)
AddrLen(atyp, l) == CASE atyp = V4 -> 4 [] atyp = V6 -> 16 [] atyp = Domain -> 1 + l

(* WriteToHost: RSV, FRAG, the address, the port, then a payload of p      *)
(* bytes; the length of a name is written as one byte.  (For an IP address *)
(* l stands for its first byte.)                                           *)
WriteToHost(atyp, l, lit, p) ==
  [n |-> 3 + 1 + AddrLen(atyp, l) + 2 + p, frag |-> 0, atyp |-> atyp,
   b4 |-> l % 256, lit |-> lit]

(* socks5WriteRequest differs in its first three bytes, VER, CMD and RSV,  *)
(* and has no payload.                                                     *)
RequestLen(atyp, l) == 3 + 1 + AddrLen(atyp, l) + 2

-----------------------------------------------------------------------------
(* conn.Read into readBuf: the bytes beyond the datagram are those of      *)
(* earlier ones.                                                           *)
Fill(buf, d) ==
  [n |-> d.n, frag |-> IF d.n > 2 THEN d.frag ELSE buf.frag,
   atyp |-> IF d.n > 3 THEN d.atyp ELSE buf.atyp,
   b4 |-> IF d.n > 4 THEN d.b4 ELSE buf.b4, lit |-> d.lit]

(* Mutant: the end of the name is not checked. *)
ShortDomainUnchecked(n, off, l) == FALSE

(* n < off+l+2 *)
ShortDomain(n, off, l) == n < off + l + 2

(* n < off+4+2, n < off+16+2 *)
ShortAddr(n, off, size) == n < off + size + 2

(* The payload tmp[off:n] of a reader with room for max bytes; the slice   *)
(* panics when off is past n.                                              *)
Payload(n, off, max) ==
  IF off > n THEN Panic
  ELSE IF n - off > max THEN Failed
  ELSE [ok |-> TRUE, off |-> off, len |-> n - off]

(* ReadFrom on a filled buffer. *)
ReadFrom(t, max) ==
  IF t.n < 4 \/ t.frag # 0 THEN Failed
  ELSE CASE t.atyp \in {V4, V6} ->
              LET size == IF t.atyp = V4 THEN 4 ELSE 16 IN
              IF ShortAddr(t.n, 4, size) THEN Failed
              ELSE Payload(t.n, 4 + size + 2, max)
         [] t.atyp = Domain ->
              IF t.n < 4 + 1 \/ ShortDomain(t.n, 5, t.b4) \/ ~t.lit THEN Failed
              ELSE Payload(t.n, 5 + t.b4 + 2, max)
         [] OTHER -> Failed

-----------------------------------------------------------------------------
(***************************************************************************)
(* The layout of RFC 1928, section 7, against which both are checked.      *)
(***************************************************************************)
HeaderLen(d) == 6 + (IF d.atyp = V4 THEN 4 ELSE IF d.atyp = V6 THEN 16 ELSE 1 + d.b4)

WellFormed(d) ==
  /\ d.n >= 5 /\ d.frag = 0
  /\ d.atyp \in {V4, V6, Domain}
  /\ d.n >= HeaderLen(d)

(* ReadFrom accepts exactly the whole, unfragmented datagrams with an IP   *)
(* address whose payload fits, and returns exactly the payload, whatever   *)
(* an earlier and longer datagram has left in readBuf.                     *)
ReadsExactly(buf, d, max) ==
  LET r == ReadFrom(Fill(buf, d), max) IN
  IF /\ WellFormed(d)
     /\ d.atyp = Domain => d.lit
     /\ d.n - HeaderLen(d) <= max
  THEN r = [ok |-> TRUE, off |-> HeaderLen(d), len |-> d.n - HeaderLen(d)]
  ELSE r = Failed

(* Whatever WriteToHost accepts, a relay that follows the RFC finds the    *)
(* name and the payload at their full length.                              *)
WritesExactly(atyp, l, lit, p) ==
  LET d == WriteToHost(atyp, l, lit, p) IN
  ~(atyp = Domain /\ TooLong(l)) =>
    /\ WellFormed(d)
    /\ d.n - HeaderLen(d) = p
    /\ atyp = Domain => d.b4 = l
    /\ RequestLen(atyp, l) = HeaderLen(d)
=============================================================================
