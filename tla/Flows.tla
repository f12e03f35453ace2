------------------------------- MODULE Flows -------------------------------
(***************************************************************************)
(* The flows of nsstack.go: each TCP connection or UDP association that    *)
(* the gVisor stack intercepts is forwarded through the SOCKS5 server by a *)
(* goroutine (handleTCP, handleUDP) and two loops (pipe, udpPipe).         *)
(*                                                                         *)
(* Direction "up" is local -> remote, "down" is remote -> local.  The      *)
(* remote of a TCP flow is the control connection of its CONNECT call, the *)
(* one of a UDP flow the relay socket of its association.  Flows share     *)
(* nothing.  Data is counted in pieces: what one Read returns.             *)
(***************************************************************************)
EXTENDS Socks5Client, Naturals

CONSTANTS
  MaxPieces,   \* bound on the pieces an end sends
  Expiry       \* udpIdleExpiry, in ticks

(* The endpoint of a UDP flow starts with a datagram. *)
ASSUME BoundsAssumption == MaxPieces \in Nat \ {0} /\ Expiry \in Nat

Dir == {"up", "down"}

VARIABLES
  main,        \* where the goroutine of a flow is
  local,       \* the stack's endpoint
  loop,        \* where the loop of each direction is
  sent,        \* pieces the source of a direction has sent
  got,         \* pieces the loop has passed on
  fin,         \* the source has ended its direction
  eof,         \* the loop has half-closed the sink
  localGone,   \* the application reset the connection, or the stack is closed
  timer,       \* ticks left until the read deadline of the local endpoint
  quiet        \* ticks since the application last sent a datagram

flowVars == <<main, local, loop, sent, got, fin, eof, localGone, timer, quiet>>
vars == <<clientVars, flowVars>>

TypeOK ==
  /\ ClientTypeOK
  /\ main \in [Calls -> {"new", "dial", "pipe", "closeRelay", "closeCtrl",
                         "closeLocal", "done"}]
  /\ local \in [Calls -> Endpoint]
  /\ loop \in [Calls -> [Dir -> {"none", "arm", "read", "write", "half", "done"}]]
  /\ sent \in [Calls -> [Dir -> 0 .. MaxPieces]]
  /\ got \in [Calls -> [Dir -> 0 .. MaxPieces]]
  /\ \A f \in Calls : \A d \in Dir :   \* a loop passes on only what was sent
       got[f][d] + (IF loop[f][d] = "write" /\ cmd[f] = "connect" THEN 1 ELSE 0)
         <= sent[f][d]
  /\ fin \in [Calls -> [Dir -> BOOLEAN]]
  /\ eof \in [Calls -> [Dir -> BOOLEAN]]
  /\ localGone \in [Calls -> BOOLEAN]
  /\ timer \in [Calls -> 0 .. Expiry]
  /\ quiet \in [Calls -> 0 .. Expiry]

Init ==
  /\ ClientInit
  /\ main = [f \in Calls |-> "new"]
  /\ local = [f \in Calls |-> "none"]
  /\ loop = [f \in Calls |-> [d \in Dir |-> "none"]]
  /\ sent = [f \in Calls |-> [d \in Dir |-> 0]]
  /\ got = [f \in Calls |-> [d \in Dir |-> 0]]
  /\ fin = [f \in Calls |-> [d \in Dir |-> FALSE]]
  /\ eof = [f \in Calls |-> [d \in Dir |-> FALSE]]
  /\ localGone = [f \in Calls |-> FALSE]
  /\ timer = [f \in Calls |-> 0]
  /\ quiet = [f \in Calls |-> 0]

Goto(f, l) == main' = [main EXCEPT ![f] = l]
LoopTo(f, d, l) == loop' = [loop EXCEPT ![f][d] = l]
TCP(f) == cmd[f] = "connect"
UDP(f) == cmd[f] = "associate"

dataVars == <<sent, got, fin, eof, localGone, timer, quiet>>

-----------------------------------------------------------------------------
(***************************************************************************)
(* handleTCP and handleUDP.  The address of a UDP flow is parsed back from *)
(* the text tcpipFullAddr made of it, which cannot fail.                   *)
(***************************************************************************)

(* The forwarder hands over a request; without an endpoint a TCP flow is   *)
(* answered with a reset and a UDP flow is dropped.  The endpoint of a UDP *)
(* flow starts with the datagram that caused the request.                  *)
Accept(f, k) ==
  /\ main[f] = "new"
  /\ \/ /\ local' = [local EXCEPT ![f] = "open"]
        /\ Goto(f, "dial")
        /\ Call(f, k)
        /\ sent' = [sent EXCEPT ![f]["up"] = IF k = "associate" THEN 1 ELSE 0]
     \/ /\ Goto(f, "done")
        /\ UNCHANGED <<local, sent, clientVars>>
  /\ UNCHANGED <<loop, got, fin, eof, localGone, timer, quiet>>

Dialling(f) == main[f] = "dial" /\ CallStep(f) /\ UNCHANGED flowVars

(* Both loops are started, or local is closed. *)
Dialled(f) ==
  /\ main[f] = "dial"
  /\ \/ /\ stage[f] = "ok"
        /\ Goto(f, "pipe")
        /\ loop' = [loop EXCEPT ![f] =
                      [up |-> IF TCP(f) THEN "read" ELSE "arm", down |-> "read"]]
     \/ /\ stage[f] = "failed"
        /\ Goto(f, "closeLocal")
        /\ UNCHANGED loop
  /\ UNCHANGED <<local, dataVars, clientVars>>

(* Mutant: pipe waits for one of its loops, as udpPipe does. *)
FinishedAny(f) == \E d \in Dir : loop[f][d] = "done"

(* Mutant: udpPipe waits for both of its loops, as pipe does. *)
FinishedAll(f) == \A d \in Dir : loop[f][d] = "done"

(* pipe waits for both of its loops, udpPipe for the first. *)
Finished(f) ==
  \/ TCP(f) /\ \A d \in Dir : loop[f][d] = "done"
  \/ UDP(f) /\ \E d \in Dir : loop[f][d] = "done"

PipeReturns(f) ==
  /\ main[f] = "pipe"
  /\ Finished(f)
  /\ Goto(f, IF TCP(f) THEN "closeCtrl" ELSE "closeRelay")
  /\ UNCHANGED <<local, loop, dataVars, clientVars>>

(* The deferred calls: the remote, then local. *)
CleanUp(f) ==
  /\ \/ main[f] = "closeRelay" /\ CloseRelay(f) /\ Goto(f, "closeCtrl")
        /\ UNCHANGED local
     \/ main[f] = "closeCtrl" /\ CloseControl(f) /\ Goto(f, "closeLocal")
        /\ UNCHANGED local
     \/ main[f] = "closeLocal" /\ local' = [local EXCEPT ![f] = "closed"]
        /\ Goto(f, "done") /\ UNCHANGED clientVars
  /\ UNCHANGED <<loop, dataVars>>

MainStep(f) == Dialling(f) \/ Dialled(f) \/ PipeReturns(f) \/ CleanUp(f)

-----------------------------------------------------------------------------
(***************************************************************************)
(* pipe: io.Copy in each direction, then CloseWrite on the sink.           *)
(***************************************************************************)
Opposite(d) == IF d = "up" THEN "down" ELSE "up"

(* The source of direction d as this process holds it, and whether the     *)
(* other end of it is gone.  The sink of d is the source of the opposite   *)
(* direction.                                                              *)
SourceOpen(f, d) == IF d = "up" THEN local[f] = "open" ELSE ctrl[f] = "open"
SourceGone(f, d) == IF d = "up" THEN localGone[f] ELSE server[f] = "gone"
SinkOpen(f, d) == SourceOpen(f, Opposite(d))
SinkGone(f, d) == SourceGone(f, Opposite(d))

(* A read returns the next piece, or it fails or reports the end.  A       *)
(* deadline that is left on the remote fails its reads and writes.         *)
CopyRead(f, d) ==
  /\ TCP(f) /\ loop[f][d] = "read"
  /\ \/ /\ SourceOpen(f, d) /\ got[f][d] < sent[f][d]
        /\ LoopTo(f, d, "write")
     \/ /\ \/ ~SourceOpen(f, d) \/ SourceGone(f, d)
           \/ got[f][d] = sent[f][d] /\ fin[f][d]
           \/ d = "down" /\ armed[f]
        /\ LoopTo(f, d, "half")
  /\ UNCHANGED <<main, local, dataVars, clientVars>>

(* Mutant: a piece is written again instead of the next one being read. *)
CopyWriteAgain(f, d) ==
  /\ TCP(f) /\ loop[f][d] = "write"
  /\ SinkOpen(f, d)
  /\ got' = [got EXCEPT ![f][d] = @ + 1]
  /\ UNCHANGED <<main, local, loop, sent, fin, eof, localGone, timer, quiet,
                 clientVars>>

(* A write is accepted, or it fails; either may happen when the other end  *)
(* is gone.                                                                *)
CopyWrite(f, d) ==
  /\ TCP(f) /\ loop[f][d] = "write"
  /\ \/ /\ SinkOpen(f, d)
        /\ got' = [got EXCEPT ![f][d] = @ + 1]
        /\ LoopTo(f, d, "read")
     \/ /\ ~SinkOpen(f, d) \/ SinkGone(f, d) \/ (d = "up" /\ armed[f])
        /\ LoopTo(f, d, "half")
        /\ UNCHANGED got
  /\ UNCHANGED <<main, local, sent, fin, eof, localGone, timer, quiet,
                 clientVars>>

(* Mutant: the sink is closed in both directions. *)
CloseWriteFull(f, d) ==
  /\ TCP(f) /\ loop[f][d] = "half"
  /\ IF d = "up"
     THEN ctrl' = [ctrl EXCEPT ![f] = "closed"] /\ UNCHANGED local
     ELSE local' = [local EXCEPT ![f] = "closed"] /\ UNCHANGED ctrl
  /\ eof' = [eof EXCEPT ![f][d] = TRUE]
  /\ LoopTo(f, d, "done")
  /\ UNCHANGED <<main, sent, got, fin, localGone, timer, quiet,
                 stage, cmd, relay, armed, server>>

(* CloseWrite on the sink; the loop reports that it is done. *)
CloseWrite(f, d) ==
  /\ TCP(f) /\ loop[f][d] = "half"
  /\ eof' = [eof EXCEPT ![f][d] = TRUE]
  /\ LoopTo(f, d, "done")
  /\ UNCHANGED <<main, local, sent, got, fin, localGone, timer, quiet,
                 clientVars>>

CopyStep(f, d) == CopyRead(f, d) \/ CopyWrite(f, d) \/ CloseWrite(f, d)

-----------------------------------------------------------------------------
(***************************************************************************)
(* udpPipe.                                                                *)
(***************************************************************************)

(* Mutant: the deadline is set when the loop starts, not on every turn. *)
UdpArmOnce(f) ==
  /\ UDP(f) /\ loop[f]["up"] = "arm"
  /\ timer' = [timer EXCEPT ![f] = IF got[f]["up"] = 0 THEN Expiry ELSE @]
  /\ LoopTo(f, "up", "read")
  /\ UNCHANGED <<main, local, sent, got, fin, eof, localGone, quiet, clientVars>>

UdpArm(f) ==
  /\ UDP(f) /\ loop[f]["up"] = "arm"
  /\ timer' = [timer EXCEPT ![f] = Expiry]
  /\ LoopTo(f, "up", "read")
  /\ UNCHANGED <<main, local, sent, got, fin, eof, localGone, quiet, clientVars>>

(* local.ReadFrom returns a datagram, or fails: the deadline has passed or *)
(* the endpoint is closed.                                                 *)
UdpReadLocal(f) ==
  /\ UDP(f) /\ loop[f]["up"] = "read"
  /\ \/ /\ local[f] = "open" /\ got[f]["up"] < sent[f]["up"]
        /\ LoopTo(f, "up", "write")
     \/ /\ timer[f] = 0 \/ local[f] = "closed" \/ localGone[f]
        /\ LoopTo(f, "up", "done")
  /\ UNCHANGED <<main, local, dataVars, clientVars>>

(* remote.WriteTo; a write to the relay may fail at any time. *)
UdpWriteRemote(f) ==
  /\ UDP(f) /\ loop[f]["up"] = "write"
  /\ \/ /\ relay[f] = "open"
        /\ got' = [got EXCEPT ![f]["up"] = @ + 1]
        /\ LoopTo(f, "up", "arm")
     \/ LoopTo(f, "up", "done") /\ UNCHANGED got
  /\ UNCHANGED <<main, local, sent, fin, eof, localGone, timer, quiet,
                 clientVars>>

(* remote.ReadFrom: the relay sends whenever it likes; the read fails when *)
(* the socket is closed, the network reports an error or the datagram is   *)
(* not one the codec accepts.                                              *)
UdpReadRemote(f) ==
  /\ UDP(f) /\ loop[f]["down"] = "read"
  /\ \/ relay[f] = "open" /\ LoopTo(f, "down", "write")
     \/ LoopTo(f, "down", "done")
  /\ UNCHANGED <<main, local, dataVars, clientVars>>

UdpWriteLocal(f) ==
  /\ UDP(f) /\ loop[f]["down"] = "write"
  /\ \/ local[f] = "open" /\ LoopTo(f, "down", "read")
     \/ LoopTo(f, "down", "done")
  /\ UNCHANGED <<main, local, dataVars, clientVars>>

UdpStep(f) == \/ UdpArm(f) \/ UdpReadLocal(f) \/ UdpWriteRemote(f)
              \/ UdpReadRemote(f) \/ UdpWriteLocal(f)

-----------------------------------------------------------------------------
(***************************************************************************)
(* The two ends.                                                           *)
(***************************************************************************)

(* The end of direction d can act: the application from the moment the     *)
(* stack has accepted it, the destination once the CONNECT has succeeded.  *)
Alive(f, d) ==
  IF d = "up"
  THEN local[f] = "open" /\ ~localGone[f]
  ELSE TCP(f) /\ stage[f] = "ok" /\ ctrl[f] = "open" /\ server[f] = "answers"

SourceSends(f, d) ==
  /\ Alive(f, d) /\ ~fin[f][d] /\ sent[f][d] < MaxPieces
  /\ sent' = [sent EXCEPT ![f][d] = @ + 1]
  /\ quiet' = IF d = "up" THEN [quiet EXCEPT ![f] = 0] ELSE quiet
  /\ UNCHANGED <<main, local, loop, got, fin, eof, localGone, timer, clientVars>>

SourceEnds(f, d) ==
  /\ Alive(f, d) /\ TCP(f) /\ ~fin[f][d]
  /\ fin' = [fin EXCEPT ![f][d] = TRUE]
  /\ UNCHANGED <<main, local, loop, sent, got, eof, localGone, timer, quiet,
                 clientVars>>

LocalGone(f) ==
  /\ local[f] = "open" /\ ~localGone[f]
  /\ localGone' = [localGone EXCEPT ![f] = TRUE]
  /\ UNCHANGED <<main, local, loop, sent, got, fin, eof, timer, quiet, clientVars>>

RemoteFails(f) == ServerFails(f) /\ UNCHANGED flowVars

(* A tick is long compared with a turn of a loop: time passes only while   *)
(* the reader of the local endpoint has nothing to read.                   *)
Tick(f) ==
  /\ UDP(f) /\ loop[f]["up"] = "read" /\ local[f] = "open"
  /\ got[f]["up"] = sent[f]["up"]
  /\ timer[f] > 0
  /\ timer' = [timer EXCEPT ![f] = @ - 1]
  /\ quiet' = [quiet EXCEPT ![f] = IF @ < Expiry THEN @ + 1 ELSE @]
  /\ UNCHANGED <<main, local, loop, sent, got, fin, eof, localGone, clientVars>>

Next ==
  \E f \in Calls :
    \/ \E k \in {"connect", "associate"} : Accept(f, k)
    \/ MainStep(f) \/ UdpStep(f)
    \/ LocalGone(f) \/ RemoteFails(f) \/ Tick(f)
    \/ \E d \in Dir : CopyStep(f, d) \/ SourceSends(f, d) \/ SourceEnds(f, d)

Spec == Init /\ [][Next]_vars

(***************************************************************************)
(* Fairness: runnable goroutines run, the handshake ends by its deadline   *)
(* and time passes.  The application reads what it is sent; a destination  *)
(* that has fallen silent may leave a write to it blocked for ever.  Only  *)
(* a closed relay socket is sure to end a read.  Nobody has to send, to    *)
(* end a direction or to fail.                                             *)
(***************************************************************************)
Fairness ==
  \A f \in Calls :
    /\ WF_vars(MainStep(f))
    /\ WF_vars(CopyStep(f, "up") /\ server[f] # "silent")
    /\ WF_vars(CopyStep(f, "down"))
    /\ WF_vars(UdpArm(f) \/ UdpReadLocal(f) \/ UdpWriteRemote(f))
    /\ WF_vars(UdpReadRemote(f) /\ relay[f] = "closed")
    /\ WF_vars(UdpWriteLocal(f))
    /\ WF_vars(Tick(f))

FairSpec == Spec /\ Fairness

-----------------------------------------------------------------------------
Healthy(f) == ~localGone[f] /\ server[f] # "gone"

(* What one end of a healthy TCP flow sees as the end of the stream is the *)
(* end the other side sent, after everything it sent before: neither the   *)
(* half-close of one direction nor the deadline of the handshake cuts the  *)
(* other direction short.                                                  *)
EndMeansAll ==
  \A f \in Calls, d \in Dir :
    /\ TCP(f) /\ main[f] \notin {"new", "dial"} /\ stage[f] = "ok"
    /\ Healthy(f)
    /\ eof[f][d] \/ ~SinkOpen(f, d)
    => fin[f][d] /\ got[f][d] = sent[f][d]

(* Data still arrives after the opposite direction has been half-closed:   *)
(* whatever was sent into a TCP flow is passed on as long as both ends     *)
(* live and read.                                                          *)
HalfOpenDelivers ==
  \A f \in Calls, d \in Dir :
    /\ main[f] = "pipe" /\ TCP(f)
    /\ eof[f][Opposite(d)] /\ got[f][d] < sent[f][d]
    ~> got[f][d] = sent[f][d] \/ ~Healthy(f) \/ server[f] = "silent"

(* Every flow is taken down.  A TCP flow, when both of its ends have       *)
(* finished or failed.  A UDP flow, once its application has gone quiet:   *)
(* replies do not prolong it, however many the relay sends, and the loop   *)
(* that udpPipe leaves running ends with the sockets.                      *)
FlowEnds ==
  \A f \in Calls :
    /\ /\ main[f] = "pipe" /\ TCP(f)
       /\ fin[f]["up"] \/ localGone[f]
       /\ fin[f]["down"] \/ server[f] = "gone"
       ~> main[f] = "done" \/ server[f] = "silent"
    /\ main[f] = "pipe" /\ UDP(f)
       ~> main[f] = "done" /\ \A d \in Dir : loop[f][d] = "done"

(* The idle deadline of a UDP flow passes only after udpIdleExpiry without *)
(* a datagram from the application.  (A datagram that comes between that   *)
(* moment and the read's return is lost with the flow.)                    *)
CutOnlyWhenIdle ==
  [][\A f \in Calls : timer[f] > 0 /\ timer'[f] = 0 => quiet'[f] = Expiry]_vars

(* A flow that is over holds no connection, whichever step of the          *)
(* handshake, of the copying or of the clean-up it ended in.               *)
NothingLeaked ==
  \A f \in Calls :
    main[f] = "done" => "open" \notin {local[f], ctrl[f], relay[f]}
=============================================================================
