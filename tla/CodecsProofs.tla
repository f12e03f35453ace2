---------------------------- MODULE CodecsProofs ----------------------------
(***************************************************************************)
(* The two halves of the SOCKS5 UDP codec, for datagrams, names, payloads  *)
(* and buffers of every size; the binds of the warp commands, for any two  *)
(* executables; the warp-svc command line, of any length (WarpCmdProofs).  *)
(* With them, what the codecs run checks on the inputs around each limit   *)
(* holds for any sets of lengths, any room and any length of line.         *)
(***************************************************************************)
EXTENDS MCCodecs, WarpCmdProofs, TLAPS

(* A filled buffer shows the decoder the datagram's own bytes wherever the *)
(* datagram has them, and a full datagram in their type in any case.       *)
LEMMA FillFacts ==
  ASSUME NEW buf \in Datagram, NEW d \in Datagram
  PROVE  /\ Fill(buf, d) \in Datagram
         /\ Fill(buf, d).n = d.n /\ Fill(buf, d).lit = d.lit
         /\ d.n > 2 => Fill(buf, d).frag = d.frag
         /\ d.n > 3 => Fill(buf, d).atyp = d.atyp
         /\ d.n > 4 => Fill(buf, d).b4 = d.b4
  BY DEF Fill, Datagram

(* The decoder: ReadFrom of socks5.go accepts exactly the well-formed      *)
(* datagrams whose payload fits and returns exactly the payload, whatever  *)
(* readBuf holds beyond the datagram; in particular it never slices past   *)
(* what was read.                                                          *)
THEOREM DecoderExact ==
  ASSUME NEW buf \in Datagram, NEW d \in Datagram, NEW max \in Nat
  PROVE  ReadsExactly(buf, d, max)
<1> DEFINE t == Fill(buf, d)
<1>1. /\ d.n \in Nat /\ d.frag \in Byte /\ d.atyp \in Byte
      /\ d.b4 \in Byte /\ d.lit \in BOOLEAN
  BY DEF Datagram
<1>2. /\ t \in Datagram /\ t.n = d.n /\ t.lit = d.lit
      /\ d.n > 2 => t.frag = d.frag
      /\ d.n > 3 => t.atyp = d.atyp
      /\ d.n > 4 => t.b4 = d.b4
  BY FillFacts
<1> HIDE DEF t
<1>3. CASE d.n < 4 \/ d.frag # 0
  <2>1. ReadFrom(t, max) = Failed
    BY <1>1, <1>2, <1>3 DEF ReadFrom
  <2>2. ~WellFormed(d)
    BY <1>1, <1>3 DEF WellFormed
  <2> QED BY <2>1, <2>2 DEF ReadsExactly, t
<1>4. CASE d.n >= 4 /\ d.frag = 0
  <2>0. /\ t.n = d.n /\ t.frag = 0 /\ t.atyp = d.atyp /\ ~(t.n < 4)
    BY <1>1, <1>2, <1>4
  <2>1. CASE d.atyp = V4
    <3>1. HeaderLen(d) = 10
      BY <2>1 DEF HeaderLen, V4
    <3>2. ReadFrom(t, max) = IF d.n < 10 THEN Failed ELSE Payload(d.n, 10, max)
      BY <1>1, <2>0, <2>1 DEF ReadFrom, ShortAddr, V4, V6, Domain
    <3> QED
      BY <1>1, <1>4, <2>1, <3>1, <3>2
      DEF ReadsExactly, WellFormed, Payload, t, V4, V6, Domain
  <2>2. CASE d.atyp = V6
    <3>1. HeaderLen(d) = 22
      BY <2>2 DEF HeaderLen, V4, V6
    <3>2. ReadFrom(t, max) = IF d.n < 22 THEN Failed ELSE Payload(d.n, 22, max)
      BY <1>1, <2>0, <2>2 DEF ReadFrom, ShortAddr, V4, V6, Domain
    <3> QED
      BY <1>1, <1>4, <2>2, <3>1, <3>2
      DEF ReadsExactly, WellFormed, Payload, t, V4, V6, Domain
  <2>3. CASE d.atyp = Domain
    <3>1. HeaderLen(d) = 7 + d.b4
      BY <1>1, <2>3 DEF HeaderLen, V4, V6, Domain, Byte
    <3>2. CASE d.n < 5
      <4>1. ReadFrom(t, max) = Failed
        BY <1>1, <2>0, <2>3, <3>2 DEF ReadFrom, V4, V6, Domain
      <4>2. ~WellFormed(d)
        BY <1>1, <3>2 DEF WellFormed
      <4> QED BY <4>1, <4>2 DEF ReadsExactly, t
    <3>3. CASE d.n >= 5
      <4>1. t.b4 = d.b4
        BY <1>1, <1>2, <3>3
      <4>2. ReadFrom(t, max) = IF d.n < 7 + d.b4 \/ ~d.lit THEN Failed
                               ELSE Payload(d.n, 7 + d.b4, max)
        BY <1>1, <1>2, <2>0, <2>3, <3>3, <4>1
        DEF ReadFrom, ShortDomain, V4, V6, Domain, Byte
      <4>3. WellFormed(d) <=> d.n >= 7 + d.b4
        BY <1>1, <1>4, <2>3, <3>1, <3>3 DEF WellFormed
      <4>4. CASE d.n < 7 + d.b4 \/ ~d.lit
        <5>1. ReadFrom(t, max) = Failed
          BY <4>2, <4>4
        <5>2. ~(WellFormed(d) /\ (d.atyp = Domain => d.lit))
          BY <1>1, <2>3, <4>3, <4>4 DEF Byte
        <5> QED BY <5>1, <5>2 DEF ReadsExactly, t
      <4>5. CASE d.n >= 7 + d.b4 /\ d.lit
        <5>1. ReadFrom(t, max) = Payload(d.n, 7 + d.b4, max)
          BY <1>1, <4>2, <4>5 DEF Byte
        <5>2. Payload(d.n, 7 + d.b4, max) =
                IF d.n - (7 + d.b4) > max THEN Failed
                ELSE [ok |-> TRUE, off |-> 7 + d.b4, len |-> d.n - (7 + d.b4)]
          BY <1>1, <4>5 DEF Payload, Byte
        <5>3. WellFormed(d) /\ (d.atyp = Domain => d.lit)
          BY <4>3, <4>5
        <5>4. d.n - (7 + d.b4) > max <=> ~(d.n - (7 + d.b4) <= max)
          BY <1>1 DEF Byte
        <5> QED BY <3>1, <5>1, <5>2, <5>3, <5>4 DEF ReadsExactly, t
      <4> QED BY <1>1, <4>4, <4>5 DEF Byte
    <3> QED BY <1>1, <3>2, <3>3
  <2>4. CASE d.atyp \notin {V4, V6, Domain}
    <3>1. ReadFrom(t, max) = Failed
      BY <2>0, <2>4 DEF ReadFrom
    <3>2. ~WellFormed(d)
      BY <2>4 DEF WellFormed
    <3> QED BY <3>1, <3>2 DEF ReadsExactly, t
  <2> QED BY <2>1, <2>2, <2>3, <2>4
<1> QED BY <1>1, <1>3, <1>4

(* The encoder: of every name WriteToHost and socks5WriteRequest accept    *)
(* the length survives its one byte, and the payload starts where the      *)
(* layout of the RFC puts it.                                              *)
THEOREM EncoderExact ==
  ASSUME NEW atyp \in {V4, V6, Domain}, NEW l \in Nat, NEW lit \in BOOLEAN,
         NEW p \in Nat
  PROVE  WritesExactly(atyp, l, lit, p)
<1> DEFINE d == WriteToHost(atyp, l, lit, p)
<1>1. /\ d.n = 3 + 1 + AddrLen(atyp, l) + 2 + p /\ d.frag = 0
      /\ d.atyp = atyp /\ d.b4 = l % 256
  BY DEF WriteToHost
<1> HIDE DEF d
<1>2. CASE atyp = V4
  BY <1>1, <1>2 DEF WritesExactly, WellFormed, HeaderLen, AddrLen, RequestLen,
                    d, V4, V6, Domain
<1>3. CASE atyp = V6
  BY <1>1, <1>3 DEF WritesExactly, WellFormed, HeaderLen, AddrLen, RequestLen,
                    d, V4, V6, Domain
<1>4. CASE atyp = Domain
  <2>1. CASE TooLong(l)
    BY <1>4, <2>1 DEF WritesExactly
  <2>2. CASE ~TooLong(l)
    <3>1. l % 256 = l
      BY <2>2 DEF TooLong
    <3>2. AddrLen(atyp, l) = 1 + l
      BY <1>4 DEF AddrLen, V4, V6, Domain
    <3>3. HeaderLen(d) = 7 + l
      BY <1>1, <1>4, <3>1 DEF HeaderLen, V4, V6, Domain
    <3> QED
      BY <1>1, <1>4, <3>1, <3>2, <3>3
      DEF WritesExactly, WellFormed, RequestLen, d, V4, V6, Domain
  <2> QED BY <2>1, <2>2
<1> QED BY <1>2, <1>3, <1>4

-----------------------------------------------------------------------------
(* If prepareWarpCommandBinds accepts the two commands, the path of each   *)
(* under /warp shows its executable and no other, whatever directories and *)
(* names they have.                                                        *)
THEOREM BindsShowSources ==
  ASSUME NEW svc, NEW cli
  PROVE  TargetsShowSources(svc, cli)
<1> DEFINE first == AddBind({}, svc)
           r     == AddBind(first.binds, cli)
<1>1. first.binds = IF svc = NoBind THEN {} ELSE {svc}
  BY DEF AddBind, Bound
<1>2. CASE svc = NoBind
  <2>1. r = AddBind({}, cli)
    BY <1>1, <1>2
  <2>2. cli # NoBind => r.binds = {cli}
    BY <2>1 DEF AddBind, Bound
  <2>3. \A e \in {svc, cli} \ {NoBind} : Bound(r.binds, e.base) = {e}
    BY <1>2, <2>2 DEF Bound
  <2> QED BY <2>3, Zenon DEF TargetsShowSources, prepareWarpCommandBinds
<1>3. CASE svc # NoBind
  <2>1. r = AddBind({svc}, cli)
    BY <1>1, <1>3
  <2>2. CASE cli = NoBind \/ cli = svc
    <3>1. r.binds = {svc}
      BY <2>1, <2>2 DEF AddBind, Bound
    <3>2. \A e \in {svc, cli} \ {NoBind} : Bound(r.binds, e.base) = {e}
      BY <2>2, <3>1 DEF Bound
    <3> QED BY <3>2, Zenon DEF TargetsShowSources, prepareWarpCommandBinds
  <2>3. CASE cli # NoBind /\ cli # svc
    <3>1. r = [ok |-> Bound({svc}, cli.base) = {}, binds |-> {svc} \cup {cli}]
      BY <2>1, <2>3 DEF AddBind, Bound
    <3>2. r.ok => svc.base # cli.base
      <4>1. Bound({svc}, cli.base) = {} => svc.base # cli.base
        BY DEF Bound
      <4> HIDE DEF r
      <4>2. r.ok => Bound({svc}, cli.base) = {}
        BY <3>1
      <4> QED BY <4>1, <4>2, Zenon
    <3>3. r.binds = {svc, cli}
      BY <3>1
    <3>4. r.ok => \A e \in {svc, cli} \ {NoBind} : Bound(r.binds, e.base) = {e}
      BY <3>2, <3>3 DEF Bound
    <3> QED BY <3>4, Zenon DEF TargetsShowSources, prepareWarpCommandBinds
  <2> QED BY <2>2, <2>3
<1> QED BY <1>2, <1>3

USE LengthsAssumption

(* A call has the argument it was given. *)
ArgsTyped ==
  /\ fn = "ReadFrom" => arg \in Read
  /\ fn = "WriteToHost" => arg \in Write
  /\ fn = "Command" => arg \in Line

LEMMA Typed == Spec => []ArgsTyped
<1>1. Init => ArgsTyped
  BY DEF Init, ArgsTyped
<1>2. ArgsTyped /\ [Next]_<<fn, arg, done>> => ArgsTyped'
  BY DEF ArgsTyped, Next
<1> QED BY <1>1, <1>2, PTL DEF Spec

(* ReadFrom of socks5.go takes exactly the payload of exactly the good     *)
(* datagrams, of any length and into any room, whatever an earlier one has *)
(* left in readBuf.                                                        *)
THEOREM DatagramsReadTheorem == Spec => []DatagramsRead
<1>1. ArgsTyped => DatagramsRead
  <2> SUFFICES ASSUME arg \in Read PROVE ReadsExactly(arg.buf, arg.d, Room)
    BY DEF ArgsTyped, DatagramsRead
  <2> DEFINE buf == arg.buf
             d   == arg.d
             b   == [n |-> 0, frag |-> buf.frag, atyp |-> buf.atyp,
                     b4 |-> buf.b4, lit |-> FALSE]
  <2>1. b \in Datagram /\ d \in Datagram
    <3>1. /\ d.n \in Nat /\ d.lit \in BOOLEAN
          /\ d = [n |-> d.n, frag |-> d.frag, atyp |-> d.atyp, b4 |-> d.b4,
                  lit |-> d.lit]
      BY DEF Read
    <3>2. /\ d.frag \in {0, 1} /\ d.atyp \in Atyps /\ d.b4 \in {0, 1, 4}
          /\ buf.frag \in {0, 1} /\ buf.atyp \in Atyps /\ buf.b4 \in {0, 4}
      BY DEF Read
    <3>3. /\ d.frag \in Byte /\ d.atyp \in Byte /\ d.b4 \in Byte
          /\ buf.frag \in Byte /\ buf.atyp \in Byte /\ buf.b4 \in Byte
      BY <3>2 DEF Atyps, Byte, V4, V6, Domain
    <3> HIDE DEF d, buf
    <3> QED BY <3>1, <3>3 DEF Datagram
  <2>2. Fill(buf, d) = Fill(b, d)
    BY DEF Fill
  <2>3. ReadsExactly(b, d, Room)
    BY <2>1, DecoderExact
  <2> QED BY <2>2, <2>3 DEF ReadsExactly
<1> QED BY <1>1, Typed, PTL

(* What WriteToHost and socks5WriteRequest write is parsed as it was       *)
(* meant, for names and payloads of any length they accept.                *)
THEOREM DatagramsWrittenTheorem == Spec => []DatagramsWritten
<1>1. ArgsTyped => DatagramsWritten
  <2> SUFFICES ASSUME arg \in Write
               PROVE  WritesExactly(arg[1], arg[2], arg[3], arg[4])
    BY DEF ArgsTyped, DatagramsWritten
  <2>1. /\ arg[1] \in {V4, V6, Domain} /\ arg[2] \in Nat
        /\ arg[3] \in BOOLEAN /\ arg[4] \in Nat
    BY DEF Write
  <2> QED BY <2>1, EncoderExact
<1> QED BY <1>1, Typed, PTL

(* The arguments of warp-svc survive being split, joined and split again,  *)
(* whatever the configured command line is.                                *)
THEOREM ArgsSurviveTheorem == Spec => []ArgsSurvive
<1>1. ArgsTyped => ArgsSurvive
  <2> SUFFICES ASSUME arg \in Line PROVE ArgsSurviveJoin(arg)
    BY DEF ArgsTyped, ArgsSurvive
  <2>1. PICK k \in 0 .. MaxLine : arg \in [1 .. k -> Char]
    BY DEF Line
  <2>2. arg \in Seq(Char)
    BY <2>1
  <2> QED BY <2>2, CommandSurvives
<1> QED BY <1>1, Typed, PTL

(* No warp command is started under a path that shows another executable.  *)
THEOREM BindsFaithfulTheorem == Spec => []BindsFaithful
<1>1. BindsFaithful
  BY BindsShowSources DEF BindsFaithful
<1> QED BY <1>1, PTL
=============================================================================
