------------------------------ MODULE MCCodecs ------------------------------
(***************************************************************************)
(* The pure functions of Socks5Codec and WarpCmd over bounded inputs: a    *)
(* behaviour is one call, for every function and every input.              *)
(***************************************************************************)
EXTENDS Socks5Codec, WarpCmd

CONSTANTS
  Lengths,     \* lengths of received datagrams
  NameLens,    \* lengths of domain names
  Payloads,    \* payload lengths
  Room,        \* what the reader of a datagram has room for
  MaxLine      \* length of a command line

(* Lengths, and the room of a Go slice. *)
ASSUME LengthsAssumption ==
  /\ Lengths \subseteq Nat /\ NameLens \subseteq Nat /\ Payloads \subseteq Nat
  /\ Room \in Nat /\ MaxLine \in Nat

VARIABLES fn, arg, done

EdgeLengths == 0 .. 12 \cup 20 .. 24
EdgeNames   == {0, 1, 4, 255, 256}
Atyps       == {V4, Domain, V6, 9}

Read == [buf : [frag : {0, 1}, atyp : Atyps, b4 : {0, 4}],
         d   : [n : Lengths, frag : {0, 1}, atyp : Atyps, b4 : {0, 1, 4},
                lit : BOOLEAN]]
Write == {V4, Domain, V6} \X NameLens \X BOOLEAN \X Payloads
Line  == UNION {[1 .. k -> Char] : k \in 0 .. MaxLine}
Exe   == [dir : {"x", "y"}, base : {"b", "c"}] \cup {NoBind}

Init ==
  /\ done = FALSE
  /\ \/ fn = "ReadFrom" /\ arg \in Read
     \/ fn = "WriteToHost" /\ arg \in Write
     \/ fn = "Command" /\ arg \in Line
     \/ fn = "Binds" /\ arg \in Exe \X Exe

Next == ~done /\ done' = TRUE /\ UNCHANGED <<fn, arg>>

Spec == Init /\ [][Next]_<<fn, arg, done>>

(* ReadFrom takes exactly the payload of exactly the good datagrams, and   *)
(* never looks at bytes an earlier datagram left behind.                   *)
DatagramsRead == fn = "ReadFrom" => ReadsExactly(arg.buf, arg.d, Room)

(* What WriteToHost and socks5WriteRequest write is parsed by the other    *)
(* side as it was meant, names of 255 and 256 bytes included.              *)
DatagramsWritten ==
  fn = "WriteToHost" => WritesExactly(arg[1], arg[2], arg[3], arg[4])

(* The arguments of warp-svc survive being split, joined and split again.  *)
ArgsSurvive == fn = "Command" => ArgsSurviveJoin(arg)

(* No warp command is started under a path that shows another executable.  *)
BindsFaithful == fn = "Binds" => TargetsShowSources(arg[1], arg[2])
=============================================================================
