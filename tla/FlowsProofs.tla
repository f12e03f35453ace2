---------------------------- MODULE FlowsProofs ----------------------------
(***************************************************************************)
(* Proofs about Flows, for any number of flows and pieces and any expiry.  *)
(*                                                                         *)
(* Flows share nothing, so the inductive invariant is about one flow: what *)
(* its SOCKS5 call has opened and that it has cleared the deadline         *)
(* (CallShape), what is open at each step of its goroutine (Life), where   *)
(* its loops can be then (Loops), that a loop passes on only what was sent *)
(* (Counted), that a TCP loop which stops while both ends live has passed  *)
(* on everything and seen the end (Whole), and that the idle deadline      *)
(* lags behind the last datagram that was read (Idle).                     *)
(***************************************************************************)
EXTENDS Flows, TLAPS

(* The connections of a call at each stage.  A call that has got its reply *)
(* has no deadline on the control connection any more.                     *)
CallShape(f) ==
  /\ stage[f] \in {"idle", "dial"} => ctrl[f] = "none"
  /\ stage[f] \in {"greet", "request", "reply", "udp"} => ctrl[f] = "open"
  /\ stage[f] = "failed" => ctrl[f] # "open"
  /\ stage[f] # "ok" => relay[f] = "none"
  /\ stage[f] = "udp" => UDP(f)
  /\ stage[f] \in {"udp", "ok"} => ~armed[f]

(* What is open at each step of the goroutine of a flow. *)
Life(f) ==
  /\ main[f] = "new" => stage[f] = "idle" /\ local[f] = "none"
  /\ main[f] = "dial" => stage[f] # "idle" /\ local[f] = "open"
  /\ main[f] \in {"pipe", "closeRelay", "closeCtrl"} =>
       stage[f] = "ok" /\ local[f] = "open"
  /\ main[f] = "closeRelay" => UDP(f)
  /\ main[f] = "closeCtrl" => relay[f] # "open"
  /\ main[f] = "closeLocal" =>
       local[f] = "open" /\ ctrl[f] # "open" /\ relay[f] # "open"
  /\ main[f] = "done" =>
       local[f] # "open" /\ ctrl[f] # "open" /\ relay[f] # "open"
  /\ stage[f] = "ok" /\ main[f] \in {"dial", "pipe"} => ctrl[f] = "open"
  /\ stage[f] = "ok" /\ TCP(f) => relay[f] = "none"

(* Where the loops are.  Those of a TCP flow have ended before anything is *)
(* closed; one of a UDP flow may outlive it.                               *)
Loops(f) ==
  /\ main[f] \in {"new", "dial"} \/ stage[f] # "ok" =>
       \A d \in Dir : loop[f][d] = "none" /\ ~eof[f][d]
  /\ main[f] = "pipe" => \A d \in Dir : loop[f][d] # "none"
  /\ TCP(f) /\ stage[f] = "ok" /\ main[f] \notin {"dial", "pipe"} =>
       \A d \in Dir : loop[f][d] = "done"
  /\ \A d \in Dir : eof[f][d] => loop[f][d] = "done"

(* A loop passes on only what was sent. *)
Counted(f) ==
  /\ \A d \in Dir :
       got[f][d] + (IF loop[f][d] = "write" /\ TCP(f) THEN 1 ELSE 0)
         <= sent[f][d]
  /\ UDP(f) /\ loop[f]["up"] = "write" => got[f]["up"] < sent[f]["up"]
  /\ main[f] = "new" => got[f]["up"] = 0

(* A loop of a healthy TCP flow that has stopped copying has copied all. *)
Whole(f) ==
  TCP(f) /\ stage[f] = "ok" /\ Healthy(f) =>
    \A d \in Dir : loop[f][d] \in {"half", "done"} =>
                     fin[f][d] /\ got[f][d] = sent[f][d]

(* While there is nothing to read, the deadline is at least as far away as *)
(* the time the application has been silent falls short of the expiry.     *)
Idle(f) ==
  UDP(f) /\ loop[f]["up"] = "read" /\ got[f]["up"] = sent[f]["up"] =>
    quiet[f] + timer[f] >= Expiry

FlowInv(f) ==
  CallShape(f) /\ Life(f) /\ Loops(f) /\ Counted(f) /\ Whole(f) /\ Idle(f)

(* The types of the variables, without the count of TypeOK. *)
Types ==
  /\ ClientTypeOK
  /\ main \in [Calls -> {"new", "dial", "pipe", "closeRelay", "closeCtrl",
                         "closeLocal", "done"}]
  /\ local \in [Calls -> Endpoint]
  /\ loop \in [Calls -> [Dir -> {"none", "arm", "read", "write", "half",
                                  "done"}]]
  /\ sent \in [Calls -> [Dir -> 0 .. MaxPieces]]
  /\ got \in [Calls -> [Dir -> 0 .. MaxPieces]]
  /\ fin \in [Calls -> [Dir -> BOOLEAN]]
  /\ eof \in [Calls -> [Dir -> BOOLEAN]]
  /\ localGone \in [Calls -> BOOLEAN]
  /\ timer \in [Calls -> 0 .. Expiry]
  /\ quiet \in [Calls -> 0 .. Expiry]

IInv == Types /\ \A f \in Calls : FlowInv(f)

USE BoundsAssumption

-----------------------------------------------------------------------------
(* Nothing of flow g changes. *)
SameAt(g) ==
  /\ stage'[g] = stage[g] /\ cmd'[g] = cmd[g] /\ ctrl'[g] = ctrl[g]
  /\ relay'[g] = relay[g] /\ armed'[g] = armed[g] /\ server'[g] = server[g]
  /\ main'[g] = main[g] /\ local'[g] = local[g] /\ loop'[g] = loop[g]
  /\ sent'[g] = sent[g] /\ got'[g] = got[g] /\ fin'[g] = fin[g]
  /\ eof'[g] = eof[g] /\ localGone'[g] = localGone[g]
  /\ timer'[g] = timer[g] /\ quiet'[g] = quiet[g]

(* What each step of flow f has to do for IInv. *)
Preserves(f) ==
  Types' /\ FlowInv(f)' /\ \A g \in Calls \ {f} : SameAt(g)

LEMMA Frame ==
  ASSUME NEW g \in Calls, FlowInv(g), SameAt(g)
  PROVE  FlowInv(g)'
<1> USE DEF SameAt, TCP, UDP, Healthy
<1>1. CallShape(g)'
  BY DEF FlowInv, CallShape
<1>2. Life(g)'
  BY DEF FlowInv, Life
<1>3. Loops(g)'
  BY DEF FlowInv, Loops
<1>4. Counted(g)'
  BY DEF FlowInv, Counted
<1>5. Whole(g)'
  BY DEF FlowInv, Whole
<1>6. Idle(g)'
  BY DEF FlowInv, Idle
<1> QED BY <1>1, <1>2, <1>3, <1>4, <1>5, <1>6 DEF FlowInv

LEMMA StepPreserves ==
  ASSUME IInv, NEW f \in Calls, Preserves(f)
  PROVE  IInv'
<1>1. \A g \in Calls : FlowInv(g)'
  BY Frame DEF IInv, Preserves
<1> QED BY <1>1 DEF IInv, Preserves

(* What LoopTo does to the loops. *)
LEMMA LoopToFacts ==
  ASSUME Types, NEW f \in Calls, NEW d \in Dir,
         NEW l \in {"none", "arm", "read", "write", "half", "done"},
         LoopTo(f, d, l)
  PROVE  /\ loop' \in [Calls -> [Dir -> {"none", "arm", "read", "write",
                                         "half", "done"}]]
         /\ loop'[f][d] = l
         /\ \A e \in Dir \ {d} : loop'[f][e] = loop[f][e]
         /\ \A g \in Calls \ {f} : loop'[g] = loop[g]
BY DEF Types, LoopTo

(* A piece that is passed on is counted, and was sent. *)
LEMMA GotFacts ==
  ASSUME Types, NEW f \in Calls, NEW d \in Dir, got[f][d] < sent[f][d],
         got' = [got EXCEPT ![f][d] = @ + 1]
  PROVE  /\ got' \in [Calls -> [Dir -> 0 .. MaxPieces]]
         /\ got'[f][d] = got[f][d] + 1
         /\ \A e \in Dir \ {d} : got'[f][e] = got[f][e]
         /\ \A g \in Calls \ {f} : got'[g] = got[g]
<1>1. got[f][d] \in Nat /\ sent[f][d] \in 0 .. MaxPieces
  BY DEF Types
<1>2. got[f][d] + 1 \in 0 .. MaxPieces
  BY <1>1
<1> QED BY <1>2 DEF Types

(* IInv holds initially. *)
LEMMA InitIInv == Init => IInv
<1> SUFFICES ASSUME Init PROVE IInv
  OBVIOUS
<1>1. Types
  BY DEF Init, ClientInit, Types, ClientTypeOK, Handshake, Endpoint
<1>2. ASSUME NEW f \in Calls PROVE FlowInv(f)
  <2>1. CallShape(f) /\ Life(f)
    BY DEF Init, ClientInit, CallShape, Life, TCP, UDP
  <2>2. \A d \in Dir : /\ loop[f][d] = "none" /\ eof[f][d] = FALSE
                       /\ got[f][d] = 0 /\ sent[f][d] = 0
    BY DEF Init
  <2>3. main[f] = "new" /\ stage[f] = "idle" /\ "up" \in Dir
    BY DEF Init, ClientInit, Dir
  <2>4. Loops(f) /\ Whole(f) /\ Idle(f)
    BY <2>2, <2>3 DEF Loops, Whole, Idle
  <2>5. Counted(f)
    BY <2>2, <2>3 DEF Counted
  <2> QED BY <2>1, <2>4, <2>5 DEF FlowInv
<1> QED BY <1>1, <1>2 DEF IInv

-----------------------------------------------------------------------------
(* The goroutine of a flow. *)

LEMMA AcceptPreserves ==
  ASSUME Types, NEW f \in Calls, FlowInv(f),
         NEW k \in {"connect", "associate"}, Accept(f, k)
  PROVE  Preserves(f)
<1>1. main[f] = "new" /\ stage[f] = "idle" /\ local[f] = "none"
  BY DEF Accept, FlowInv, Life
<1>2. \A d \in Dir : /\ loop'[f][d] = "none" /\ ~eof'[f][d]
                     /\ loop[f][d] = "none"
  BY <1>1 DEF Accept, FlowInv, Loops
<1>3. got[f]["up"] = 0 /\ UNCHANGED got
  BY <1>1 DEF Accept, FlowInv, Counted
<1>4. CASE /\ local' = [local EXCEPT ![f] = "open"]
           /\ Goto(f, "dial")
           /\ Call(f, k)
           /\ sent' = [sent EXCEPT ![f]["up"] =
                         IF k = "associate" THEN 1 ELSE 0]
  <2> USE <1>4 DEF Goto, Call
  <2>1. \A n \in {0, 1} : n \in 0 .. MaxPieces
    OBVIOUS
  <2>2. sent' \in [Calls -> [Dir -> 0 .. MaxPieces]]
    BY <2>1 DEF Types, Dir
  <2>3. \A d \in Dir : got[f][d] <= sent'[f][d]
    BY <1>2, <1>3 DEF Types, Dir, FlowInv, Counted
  <2>4. Types'
    BY <2>2 DEF Types, ClientTypeOK, Handshake, Endpoint, Accept
  <2>5. \A g \in Calls \ {f} : SameAt(g)
    BY DEF SameAt, Types, ClientTypeOK, Accept
  <2>6. main'[f] = "dial" /\ stage'[f] = "dial" /\ local'[f] = "open"
    BY DEF Types, ClientTypeOK
  <2>7. CallShape(f)' /\ Life(f)'
    BY <1>1, <2>6 DEF FlowInv, CallShape, Life, TCP, UDP
  <2>8. Loops(f)' /\ Whole(f)' /\ Idle(f)'
    BY <1>2, <2>6 DEF Loops, Whole, Idle, Dir
  <2>9. Counted(f)'
    BY <1>2, <1>3, <2>3, <2>6 DEF Types, Counted, Dir
  <2> QED BY <2>4, <2>5, <2>7, <2>8, <2>9 DEF Preserves, FlowInv
<1>5. CASE Goto(f, "done") /\ UNCHANGED <<local, sent, clientVars>>
  <2> USE <1>5 DEF Goto, clientVars
  <2>1. Types'
    BY DEF Types, ClientTypeOK, Accept
  <2>2. \A g \in Calls \ {f} : SameAt(g)
    BY DEF SameAt, Types, Accept
  <2>3. main'[f] = "done"
    BY DEF Types
  <2>4. CallShape(f)' /\ Life(f)'
    BY <1>1, <2>3 DEF FlowInv, CallShape, Life, TCP, UDP
  <2>5. Loops(f)' /\ Whole(f)' /\ Idle(f)'
    BY <1>1, <1>2, <2>3 DEF Loops, Whole, Idle, Dir
  <2>6. Counted(f)'
    BY <1>2, <1>3, <2>3 DEF Accept, FlowInv, Counted, Dir, TCP, UDP
  <2> QED BY <2>1, <2>2, <2>4, <2>5, <2>6 DEF Preserves, FlowInv
<1> QED BY <1>4, <1>5, Zenon DEF Accept

(* A step of the handshake.  The loops have not been started. *)
LEMMA DiallingPreserves ==
  ASSUME Types, NEW f \in Calls, FlowInv(f), Dialling(f)
  PROVE  Preserves(f)
<1> USE DEF flowVars
<1>1. main[f] = "dial" /\ UNCHANGED flowVars /\ CallStep(f)
  BY DEF Dialling
<1>2. \A d \in Dir : loop'[f][d] = "none" /\ ~eof'[f][d]
  BY <1>1 DEF FlowInv, Loops
<1>3. UNCHANGED <<cmd, server>>
  BY <1>1 DEF CallStep, DialServer, Greet, WriteRequest, ReadReply, DialRelay
<1>4. ClientTypeOK'
  <2> USE DEF Types, ClientTypeOK, Handshake, Endpoint
  <2>1. CASE DialServer(f)
    BY <2>1 DEF DialServer
  <2>2. CASE Greet(f)
    BY <2>2 DEF Greet, GiveUp
  <2>3. CASE WriteRequest(f)
    BY <2>3 DEF WriteRequest, GiveUp
  <2>4. CASE ReadReply(f)
    BY <2>4 DEF ReadReply, GiveUp
  <2>5. CASE DialRelay(f)
    BY <2>5 DEF DialRelay, GiveUp
  <2> QED BY <1>1, <2>1, <2>2, <2>3, <2>4, <2>5 DEF CallStep
<1>5. Types'
  BY <1>1, <1>4 DEF Types
<1>6. \A g \in Calls \ {f} :
        /\ stage'[g] = stage[g] /\ ctrl'[g] = ctrl[g]
        /\ relay'[g] = relay[g] /\ armed'[g] = armed[g]
  BY <1>1 DEF CallStep, DialServer, Greet, WriteRequest, ReadReply, DialRelay,
              GiveUp, Types, ClientTypeOK
<1>7. \A g \in Calls \ {f} : SameAt(g)
  BY <1>1, <1>3, <1>6 DEF SameAt
<1>8. CallShape(f)' /\ Life(f)'
  BY <1>1, <1>3 DEF CallStep, DialServer, Greet, WriteRequest, ReadReply,
              DialRelay, GiveUp, Types, ClientTypeOK, FlowInv, CallShape, Life,
              TCP, UDP
<1>9. Loops(f)' /\ Whole(f)' /\ Idle(f)'
  BY <1>1, <1>2 DEF Loops, Whole, Idle, Dir
<1>10. Counted(f)'
  BY <1>1, <1>3 DEF FlowInv, Counted, TCP, UDP
<1> QED BY <1>5, <1>7, <1>8, <1>9, <1>10 DEF Preserves, FlowInv

LEMMA DialledPreserves ==
  ASSUME Types, NEW f \in Calls, FlowInv(f), Dialled(f)
  PROVE  Preserves(f)
<1> USE DEF dataVars, clientVars
<1>1. main[f] = "dial" /\ UNCHANGED <<local, dataVars, clientVars>>
  BY DEF Dialled
<1>2. \A d \in Dir : loop[f][d] = "none" /\ ~eof[f][d]
  BY <1>1 DEF FlowInv, Loops
<1>3. CASE /\ stage[f] = "ok" /\ Goto(f, "pipe")
           /\ loop' = [loop EXCEPT ![f] =
                [up |-> IF TCP(f) THEN "read" ELSE "arm", down |-> "read"]]
  <2> USE <1>3 DEF Goto
  <2>1. /\ loop'[f]["up"] = IF TCP(f) THEN "read" ELSE "arm"
        /\ loop'[f]["down"] = "read" /\ main'[f] = "pipe"
    BY DEF Types
  <2>2. loop' \in [Calls -> [Dir -> {"none", "arm", "read", "write", "half",
                                     "done"}]]
    BY DEF Types, Dir
  <2>3. Types'
    BY <1>1, <2>2 DEF Types, ClientTypeOK
  <2>4. \A g \in Calls \ {f} : SameAt(g)
    BY <1>1 DEF SameAt, Types
  <2>5. CallShape(f)' /\ Life(f)'
    BY <1>1, <2>1 DEF FlowInv, CallShape, Life, TCP, UDP
  <2>6. Loops(f)' /\ Whole(f)' /\ Idle(f)'
    BY <1>1, <1>2, <2>1 DEF Loops, Whole, Idle, Dir, TCP, UDP
  <2>7. Counted(f)'
    BY <1>1, <1>2, <2>1 DEF FlowInv, Counted, Dir, TCP, UDP
  <2> QED BY <2>3, <2>4, <2>5, <2>6, <2>7 DEF Preserves, FlowInv
<1>4. CASE stage[f] = "failed" /\ Goto(f, "closeLocal") /\ UNCHANGED loop
  <2> USE <1>4 DEF Goto
  <2>1. main'[f] = "closeLocal"
    BY DEF Types
  <2>2. Types'
    BY <1>1 DEF Types, ClientTypeOK
  <2>3. \A g \in Calls \ {f} : SameAt(g)
    BY <1>1 DEF SameAt, Types
  <2>4. CallShape(f)' /\ Life(f)'
    BY <1>1, <2>1 DEF FlowInv, CallShape, Life, TCP, UDP
  <2>5. Loops(f)' /\ Whole(f)' /\ Idle(f)'
    BY <1>1, <1>2, <2>1 DEF Loops, Whole, Idle, Dir
  <2>6. Counted(f)'
    BY <1>1, <2>1 DEF FlowInv, Counted, TCP, UDP
  <2> QED BY <2>2, <2>3, <2>4, <2>5, <2>6 DEF Preserves, FlowInv
<1> QED BY <1>3, <1>4 DEF Dialled

LEMMA PipeReturnsPreserves ==
  ASSUME Types, NEW f \in Calls, FlowInv(f), PipeReturns(f)
  PROVE  Preserves(f)
<1> USE DEF dataVars, clientVars, Goto
<1>1. /\ main[f] = "pipe" /\ Finished(f)
      /\ UNCHANGED <<local, loop, dataVars, clientVars>>
      /\ main' = [main EXCEPT ![f] =
                    IF TCP(f) THEN "closeCtrl" ELSE "closeRelay"]
  BY DEF PipeReturns
<1>2. main'[f] = IF TCP(f) THEN "closeCtrl" ELSE "closeRelay"
  BY <1>1 DEF Types
<1>3. Types'
  BY <1>1 DEF Types, ClientTypeOK
<1>4. \A g \in Calls \ {f} : SameAt(g)
  BY <1>1 DEF SameAt, Types
<1>5. cmd[f] \in {"connect", "associate"}
  BY DEF Types, ClientTypeOK
<1>6. CallShape(f)' /\ Life(f)'
  BY <1>1, <1>2, <1>5 DEF FlowInv, CallShape, Life, TCP, UDP
<1>7. Loops(f)'
  BY <1>1, <1>2, <1>5 DEF FlowInv, Life, Loops, Finished, TCP, UDP
<1>8. Whole(f)' /\ Idle(f)'
  BY <1>1 DEF FlowInv, Whole, Idle, Healthy, TCP, UDP
<1>9. Counted(f)'
  BY <1>1, <1>2 DEF FlowInv, Counted, TCP, UDP
<1> QED BY <1>3, <1>4, <1>6, <1>7, <1>8, <1>9 DEF Preserves, FlowInv

LEMMA CleanUpPreserves ==
  ASSUME Types, NEW f \in Calls, FlowInv(f), CleanUp(f)
  PROVE  Preserves(f)
<1> USE DEF dataVars, clientVars, Goto, CloseRelay, CloseControl
<1>1. UNCHANGED <<loop, dataVars, stage, cmd, armed, server>>
  BY DEF CleanUp
<1>2. /\ main[f] \in {"closeRelay", "closeCtrl", "closeLocal"}
      /\ main'[f] \in {"closeCtrl", "closeLocal", "done"}
  BY DEF CleanUp, Types
<1>3. Types'
  <2>1. ctrl' \in [Calls -> Endpoint] /\ relay' \in [Calls -> Endpoint]
    BY DEF CleanUp, Types, ClientTypeOK, Endpoint
  <2>2. local' \in [Calls -> Endpoint]
    BY DEF CleanUp, Types, Endpoint
  <2>3. main' \in [Calls -> {"new", "dial", "pipe", "closeRelay", "closeCtrl",
                            "closeLocal", "done"}]
    BY DEF CleanUp, Types
  <2> QED BY <1>1, <2>1, <2>2, <2>3 DEF Types, ClientTypeOK
<1>4. \A g \in Calls \ {f} : SameAt(g)
  BY <1>1 DEF CleanUp, SameAt, Types, ClientTypeOK
<1>5. CallShape(f)' /\ Life(f)'
  BY <1>1 DEF CleanUp, FlowInv, CallShape, Life, Types, ClientTypeOK, TCP, UDP
<1>6. Loops(f)'
  BY <1>1, <1>2 DEF FlowInv, Loops, TCP, UDP
<1>7. Whole(f)' /\ Idle(f)'
  BY <1>1 DEF CleanUp, FlowInv, Whole, Idle, Healthy, TCP, UDP
<1>8. Counted(f)'
  BY <1>1, <1>2 DEF FlowInv, Counted, TCP, UDP
<1> QED BY <1>3, <1>4, <1>5, <1>6, <1>7, <1>8 DEF Preserves, FlowInv

-----------------------------------------------------------------------------
(* The loops of pipe.  One that is still copying belongs to a flow whose   *)
(* connections are open and have no deadline.                              *)

LEMMA Copying ==
  ASSUME Types, NEW f \in Calls, FlowInv(f), NEW d \in Dir,
         loop[f][d] # "none", loop[f][d] # "done", TCP(f)
  PROVE  /\ main[f] = "pipe" /\ stage[f] = "ok" /\ ~eof[f][d]
         /\ SourceOpen(f, d) /\ SinkOpen(f, d) /\ ~armed[f]
<1>1. main[f] = "pipe" /\ stage[f] = "ok" /\ ~eof[f][d]
  BY DEF FlowInv, Loops
<1>2. local[f] = "open" /\ ctrl[f] = "open" /\ ~armed[f]
  BY <1>1 DEF FlowInv, Life, CallShape
<1> QED BY <1>1, <1>2 DEF SourceOpen, SinkOpen

LEMMA CopyReadPreserves ==
  ASSUME Types, NEW f \in Calls, FlowInv(f), NEW d \in Dir, CopyRead(f, d)
  PROVE  Preserves(f)
<1> USE DEF dataVars, clientVars
<1>1. /\ UNCHANGED <<main, local, dataVars, clientVars>>
      /\ loop[f][d] = "read" /\ TCP(f)
  BY DEF CopyRead
<1>2. /\ main[f] = "pipe" /\ stage[f] = "ok" /\ ~eof[f][d]
      /\ SourceOpen(f, d) /\ ~armed[f]
  BY <1>1, Copying
<1>3. PICK l \in {"write", "half"} :
        /\ LoopTo(f, d, l)
        /\ l = "write" => got[f][d] < sent[f][d]
        /\ l = "half" /\ Healthy(f) => fin[f][d] /\ got[f][d] = sent[f][d]
  BY <1>2 DEF CopyRead, SourceGone, Healthy
<1>4. /\ loop' \in [Calls -> [Dir -> {"none", "arm", "read", "write", "half",
                                      "done"}]]
      /\ loop'[f][d] = l
      /\ \A e \in Dir \ {d} : loop'[f][e] = loop[f][e]
      /\ \A g \in Calls \ {f} : loop'[g] = loop[g]
  BY <1>3, LoopToFacts
<1>5. Types'
  BY <1>1, <1>4 DEF Types, ClientTypeOK
<1>6. \A g \in Calls \ {f} : SameAt(g)
  BY <1>1, <1>4 DEF SameAt
<1>7. CallShape(f)' /\ Life(f)'
  BY <1>1 DEF FlowInv, CallShape, Life, TCP, UDP
<1>8. Loops(f)'
  BY <1>1, <1>2, <1>4 DEF FlowInv, Loops, TCP
<1>9. Counted(f)'
  <2>1. got[f][d] \in Nat /\ sent[f][d] \in Nat
    BY DEF Types
  <2>2. got[f][d] + (IF l = "write" THEN 1 ELSE 0) <= sent[f][d]
    BY <1>1, <1>3, <2>1 DEF FlowInv, Counted
  <2> QED BY <1>1, <1>2, <1>4, <2>2 DEF FlowInv, Counted, TCP, UDP
<1>10. Whole(f)'
  BY <1>1, <1>2, <1>3, <1>4 DEF FlowInv, Whole, Healthy, TCP
<1>11. Idle(f)'
  BY <1>1 DEF Idle, TCP, UDP
<1> QED BY <1>5, <1>6, <1>7, <1>8, <1>9, <1>10, <1>11 DEF Preserves, FlowInv

LEMMA CopyWritePreserves ==
  ASSUME Types, NEW f \in Calls, FlowInv(f), NEW d \in Dir, CopyWrite(f, d)
  PROVE  Preserves(f)
<1> USE DEF clientVars
<1>1. /\ UNCHANGED <<main, local, sent, fin, eof, localGone, timer, quiet,
                     clientVars>>
      /\ loop[f][d] = "write" /\ TCP(f)
  BY DEF CopyWrite
<1>2. /\ main[f] = "pipe" /\ stage[f] = "ok" /\ ~eof[f][d]
      /\ SinkOpen(f, d) /\ ~armed[f]
  BY <1>1, Copying
<1>3. /\ got[f][d] \in Nat /\ sent[f][d] \in Nat
      /\ got[f][d] < sent[f][d]
  <2>1. got[f][d] \in Nat /\ sent[f][d] \in Nat
    BY DEF Types
  <2>2. got[f][d] + 1 <= sent[f][d]
    BY <1>1 DEF FlowInv, Counted
  <2> QED BY <2>1, <2>2
<1>4. CallShape(f)' /\ Life(f)' /\ Idle(f)'
  BY <1>1 DEF FlowInv, CallShape, Life, Idle, TCP, UDP
<1>5. CASE got' = [got EXCEPT ![f][d] = @ + 1] /\ LoopTo(f, d, "read")
  <2>1. /\ loop' \in [Calls -> [Dir -> {"none", "arm", "read", "write", "half",
                                        "done"}]]
        /\ loop'[f][d] = "read"
        /\ \A e \in Dir \ {d} : loop'[f][e] = loop[f][e]
        /\ \A g \in Calls \ {f} : loop'[g] = loop[g]
    BY <1>5, LoopToFacts
  <2>2. /\ got' \in [Calls -> [Dir -> 0 .. MaxPieces]]
        /\ got'[f][d] = got[f][d] + 1
        /\ \A e \in Dir \ {d} : got'[f][e] = got[f][e]
        /\ \A g \in Calls \ {f} : got'[g] = got[g]
    BY <1>3, <1>5, GotFacts
  <2>3. Types'
    BY <1>1, <2>1, <2>2 DEF Types, ClientTypeOK
  <2>4. \A g \in Calls \ {f} : SameAt(g)
    BY <1>1, <2>1, <2>2 DEF SameAt
  <2>5. Loops(f)'
    BY <1>1, <1>2, <2>1 DEF FlowInv, Loops, TCP
  <2>6. Counted(f)'
    <3>1. got'[f][d] <= sent[f][d]
      BY <1>3, <2>2
    <3>2. got'[f][d] \in Nat /\ got'[f][d] + 0 <= sent[f][d]
      BY <1>3, <2>2, <3>1
    <3>3. \A e \in Dir : got'[f][e] + (IF loop'[f][e] = "write" /\ TCP(f)'
                                       THEN 1 ELSE 0) <= sent'[f][e]
      BY <1>1, <2>1, <2>2, <3>2 DEF FlowInv, Counted, TCP
    <3> QED BY <1>1, <1>2, <3>3 DEF Counted, TCP, UDP
  <2>7. Whole(f)'
    BY <1>1, <1>2, <2>1, <2>2 DEF FlowInv, Whole, Healthy, TCP
  <2> QED BY <1>4, <2>3, <2>4, <2>5, <2>6, <2>7 DEF Preserves, FlowInv
<1>6. CASE ~Healthy(f) /\ LoopTo(f, d, "half") /\ UNCHANGED got
  <2>1. /\ loop' \in [Calls -> [Dir -> {"none", "arm", "read", "write", "half",
                                        "done"}]]
        /\ loop'[f][d] = "half"
        /\ \A e \in Dir \ {d} : loop'[f][e] = loop[f][e]
        /\ \A g \in Calls \ {f} : loop'[g] = loop[g]
    BY <1>6, LoopToFacts
  <2>2. Types'
    BY <1>1, <1>6, <2>1 DEF Types, ClientTypeOK
  <2>3. \A g \in Calls \ {f} : SameAt(g)
    BY <1>1, <1>6, <2>1 DEF SameAt
  <2>4. Loops(f)'
    BY <1>1, <1>2, <2>1 DEF FlowInv, Loops, TCP
  <2>5. Counted(f)'
    <3>1. got[f][d] <= sent[f][d]
      BY <1>3
    <3>2. got'[f][d] \in Nat /\ got'[f][d] + 0 <= sent[f][d]
      BY <1>3, <1>6, <3>1
    <3>3. \A e \in Dir : got'[f][e] + (IF loop'[f][e] = "write" /\ TCP(f)'
                                       THEN 1 ELSE 0) <= sent'[f][e]
      BY <1>1, <1>6, <2>1, <3>2 DEF FlowInv, Counted, TCP
    <3> QED BY <1>1, <1>2, <3>3 DEF Counted, TCP, UDP
  <2>6. Whole(f)'
    BY <1>1, <1>6 DEF Whole, Healthy
  <2> QED BY <1>4, <2>2, <2>3, <2>4, <2>5, <2>6 DEF Preserves, FlowInv
<1>7. SinkGone(f, d) => ~Healthy(f)
  BY DEF SinkGone, SourceGone, Healthy
<1> QED BY <1>2, <1>5, <1>6, <1>7 DEF CopyWrite

LEMMA CloseWritePreserves ==
  ASSUME Types, NEW f \in Calls, FlowInv(f), NEW d \in Dir, CloseWrite(f, d)
  PROVE  Preserves(f)
<1> USE DEF clientVars
<1>1. /\ UNCHANGED <<main, local, sent, got, fin, localGone, timer, quiet,
                     clientVars>>
      /\ loop[f][d] = "half" /\ TCP(f)
      /\ eof' = [eof EXCEPT ![f][d] = TRUE] /\ LoopTo(f, d, "done")
  BY DEF CloseWrite
<1>2. main[f] = "pipe" /\ stage[f] = "ok"
  BY <1>1, Copying
<1>3. /\ loop' \in [Calls -> [Dir -> {"none", "arm", "read", "write", "half",
                                      "done"}]]
      /\ loop'[f][d] = "done"
      /\ \A e \in Dir \ {d} : loop'[f][e] = loop[f][e]
      /\ \A g \in Calls \ {f} : loop'[g] = loop[g]
  BY <1>1, LoopToFacts
<1>4. /\ eof' \in [Calls -> [Dir -> BOOLEAN]]
      /\ \A g \in Calls \ {f} : eof'[g] = eof[g]
  BY <1>1 DEF Types
<1>5. \A e \in Dir \ {d} : eof'[f][e] = eof[f][e]
  BY <1>1 DEF Types
<1>6. Types'
  BY <1>1, <1>3, <1>4 DEF Types, ClientTypeOK
<1>7. \A g \in Calls \ {f} : SameAt(g)
  BY <1>1, <1>3, <1>4 DEF SameAt
<1>8. CallShape(f)' /\ Life(f)' /\ Idle(f)'
  BY <1>1 DEF FlowInv, CallShape, Life, Idle, TCP, UDP
<1>9. Loops(f)'
  BY <1>1, <1>2, <1>3, <1>5 DEF FlowInv, Loops, TCP
<1>10. Counted(f)'
  BY <1>1, <1>2, <1>3 DEF FlowInv, Counted, TCP, UDP
<1>11. Whole(f)'
  BY <1>1, <1>2, <1>3 DEF FlowInv, Whole, Healthy, TCP
<1> QED BY <1>6, <1>7, <1>8, <1>9, <1>10, <1>11 DEF Preserves, FlowInv

-----------------------------------------------------------------------------
(* The loops of udpPipe.  One that runs belongs to a flow whose handshake  *)
(* has succeeded; it may outlive the flow.                                 *)

LEMMA Relaying ==
  ASSUME NEW f \in Calls, FlowInv(f), NEW d \in Dir, loop[f][d] # "none"
  PROVE  main[f] \notin {"new", "dial"} /\ stage[f] = "ok"
BY DEF FlowInv, Loops

(* A step of a UDP loop that passes nothing on.  Where the count and the   *)
(* deadline stand afterwards is left to the step.                          *)
LEMMA UdpLoopStep ==
  ASSUME Types, NEW f \in Calls, FlowInv(f), NEW d \in Dir, UDP(f),
         NEW l \in {"arm", "read", "write", "done"},
         loop[f][d] # "none", loop[f][d] # "done", LoopTo(f, d, l),
         timer' \in [Calls -> 0 .. Expiry],
         \A g \in Calls \ {f} : timer'[g] = timer[g],
         UNCHANGED <<main, local, sent, got, fin, eof, localGone, quiet,
                     clientVars>>,
         d = "up" /\ l = "write" => got[f][d] < sent[f][d],
         Idle(f)'
  PROVE  Preserves(f)
<1> USE DEF clientVars
<1>1. main[f] \notin {"new", "dial"} /\ stage[f] = "ok"
  BY Relaying
<1>2. /\ loop' \in [Calls -> [Dir -> {"none", "arm", "read", "write", "half",
                                      "done"}]]
      /\ loop'[f][d] = l
      /\ \A e \in Dir \ {d} : loop'[f][e] = loop[f][e]
      /\ \A g \in Calls \ {f} : loop'[g] = loop[g]
  BY LoopToFacts
<1>3. Types'
  BY <1>2 DEF Types, ClientTypeOK
<1>4. \A g \in Calls \ {f} : SameAt(g)
  BY <1>2 DEF SameAt
<1>5. CallShape(f)' /\ Life(f)'
  BY DEF FlowInv, CallShape, Life, TCP, UDP
<1>6. Loops(f)'
  BY <1>1, <1>2 DEF FlowInv, Loops, TCP, UDP
<1>7. Counted(f)'
  <2>1. \A e \in Dir : got[f][e] \in Nat /\ got[f][e] + 0 <= sent[f][e]
    BY DEF FlowInv, Counted, Types, TCP, UDP
  <2>2. \A e \in Dir : got'[f][e] + (IF loop'[f][e] = "write" /\ TCP(f)'
                                     THEN 1 ELSE 0) <= sent'[f][e]
    BY <2>1 DEF TCP, UDP
  <2>3. loop'[f]["up"] = "write" => got[f]["up"] < sent[f]["up"]
    BY <1>2 DEF FlowInv, Counted, Dir
  <2> QED BY <1>1, <2>2, <2>3 DEF Counted
<1>8. Whole(f)'
  BY DEF Whole, TCP, UDP
<1> QED BY <1>3, <1>4, <1>5, <1>6, <1>7, <1>8 DEF Preserves, FlowInv

(* The deadline is set to its full length on every turn. *)
LEMMA UdpArmPreserves ==
  ASSUME Types, NEW f \in Calls, FlowInv(f), UdpArm(f)
  PROVE  Preserves(f)
<1>1. /\ timer' \in [Calls -> 0 .. Expiry] /\ timer'[f] = Expiry
      /\ \A g \in Calls \ {f} : timer'[g] = timer[g]
  BY DEF UdpArm, Types
<1>2. Idle(f)'
  <2>1. quiet'[f] \in Nat
    BY DEF UdpArm, Types
  <2>2. quiet'[f] + timer'[f] >= Expiry
    BY <1>1, <2>1
  <2> QED BY <2>2 DEF Idle
<1> QED BY <1>1, <1>2, UdpLoopStep DEF UdpArm, Dir

LEMMA UdpReadLocalPreserves ==
  ASSUME Types, NEW f \in Calls, FlowInv(f), UdpReadLocal(f)
  PROVE  Preserves(f)
<1> USE DEF dataVars
<1>1. PICK l \in {"write", "done"} :
        LoopTo(f, "up", l) /\ (l = "write" => got[f]["up"] < sent[f]["up"])
  BY DEF UdpReadLocal
<1>2. loop'[f]["up"] = l
  BY <1>1, LoopToFacts DEF Dir
<1>3. Idle(f)'
  BY <1>2 DEF Idle
<1>4. UNCHANGED <<main, local, sent, got, fin, eof, localGone, quiet,
                  clientVars>>
  BY DEF UdpReadLocal
<1>5. timer' \in [Calls -> 0 .. Expiry] /\ UNCHANGED timer
  BY DEF UdpReadLocal, Types
<1> QED BY <1>1, <1>3, <1>4, <1>5, UdpLoopStep DEF UdpReadLocal, Dir

LEMMA UdpDownPreserves ==
  ASSUME Types, NEW f \in Calls, FlowInv(f),
         UdpReadRemote(f) \/ UdpWriteLocal(f)
  PROVE  Preserves(f)
<1> USE DEF dataVars, Dir
<1>1. PICK l \in {"read", "write", "done"} : LoopTo(f, "down", l)
  BY DEF UdpReadRemote, UdpWriteLocal
<1>2. loop'[f]["up"] = loop[f]["up"]
  BY <1>1, LoopToFacts
<1>3. /\ UNCHANGED <<main, local, sent, got, fin, eof, localGone, quiet,
                     clientVars>>
      /\ UNCHANGED timer /\ UDP(f)
      /\ loop[f]["down"] # "none" /\ loop[f]["down"] # "done"
  BY DEF UdpReadRemote, UdpWriteLocal
<1>4. Idle(f)'
  BY <1>2, <1>3 DEF FlowInv, Idle, UDP, clientVars
<1>5. timer' \in [Calls -> 0 .. Expiry]
  BY <1>3 DEF Types
<1> QED BY <1>1, <1>3, <1>4, <1>5, UdpLoopStep

LEMMA UdpWriteRemotePreserves ==
  ASSUME Types, NEW f \in Calls, FlowInv(f), UdpWriteRemote(f)
  PROVE  Preserves(f)
<1> USE DEF Dir
<1>1. /\ UDP(f) /\ loop[f]["up"] = "write"
      /\ UNCHANGED <<main, local, sent, fin, eof, localGone, timer, quiet,
                     clientVars>>
  BY DEF UdpWriteRemote
<1>2. PICK l \in {"arm", "done"} : LoopTo(f, "up", l)
  BY DEF UdpWriteRemote
<1>3. /\ loop' \in [Calls -> [Dir -> {"none", "arm", "read", "write", "half",
                                      "done"}]]
      /\ loop'[f]["up"] = l /\ loop'[f]["down"] = loop[f]["down"]
      /\ \A g \in Calls \ {f} : loop'[g] = loop[g]
  BY <1>2, LoopToFacts
<1>4. Idle(f)'
  BY <1>3 DEF Idle
<1>5. CASE UNCHANGED got
  <2>1. timer' \in [Calls -> 0 .. Expiry]
    BY <1>1 DEF Types
  <2> QED BY <1>1, <1>2, <1>4, <1>5, <2>1, UdpLoopStep
<1>6. CASE got' = [got EXCEPT ![f]["up"] = @ + 1]
  <2>1. main[f] \notin {"new", "dial"} /\ stage[f] = "ok"
    BY <1>1, Relaying
  <2>2. got[f]["up"] < sent[f]["up"]
    BY <1>1 DEF FlowInv, Counted
  <2>3. /\ got' \in [Calls -> [Dir -> 0 .. MaxPieces]]
        /\ got'[f]["up"] = got[f]["up"] + 1
        /\ got'[f]["down"] = got[f]["down"]
        /\ \A g \in Calls \ {f} : got'[g] = got[g]
    BY <1>6, <2>2, GotFacts
  <2>4. Types'
    BY <1>1, <1>3, <2>3 DEF Types, ClientTypeOK, clientVars
  <2>5. \A g \in Calls \ {f} : SameAt(g)
    BY <1>1, <1>3, <2>3 DEF SameAt, clientVars
  <2>6. CallShape(f)' /\ Life(f)'
    BY <1>1 DEF FlowInv, CallShape, Life, TCP, UDP, clientVars
  <2>7. Loops(f)'
    BY <1>1, <1>3, <2>1 DEF FlowInv, Loops, TCP, UDP, clientVars
  <2>8. Counted(f)'
    <3>1. /\ got[f]["up"] \in Nat /\ sent[f]["up"] \in Nat
          /\ got[f]["down"] \in Nat
      BY DEF Types
    <3>2. got'[f]["up"] + 0 <= sent[f]["up"]
      BY <2>2, <2>3, <3>1
    <3>3. got'[f]["down"] + 0 <= sent[f]["down"]
      BY <1>1, <2>3, <3>1 DEF FlowInv, Counted, TCP, UDP
    <3> QED BY <1>1, <1>3, <2>1, <3>2, <3>3 DEF Counted, TCP, UDP, clientVars
  <2>9. Whole(f)'
    BY <1>1 DEF Whole, TCP, UDP, clientVars
  <2> QED BY <1>4, <2>4, <2>5, <2>6, <2>7, <2>8, <2>9 DEF Preserves, FlowInv
<1> QED BY <1>5, <1>6 DEF UdpWriteRemote

-----------------------------------------------------------------------------
(* The two ends.  A source that has ended its direction sends no more, so  *)
(* a loop that has seen the end has still passed on everything.            *)

LEMMA SourceSendsPreserves ==
  ASSUME Types, NEW f \in Calls, FlowInv(f), NEW d \in Dir, SourceSends(f, d)
  PROVE  Preserves(f)
<1> USE DEF clientVars
<1>1. /\ UNCHANGED <<main, local, loop, got, fin, eof, localGone, timer,
                     clientVars>>
      /\ ~fin[f][d] /\ sent[f][d] < MaxPieces
      /\ sent' = [sent EXCEPT ![f][d] = @ + 1]
      /\ quiet' = IF d = "up" THEN [quiet EXCEPT ![f] = 0] ELSE quiet
  BY DEF SourceSends
<1>2. \A e \in Dir : /\ got[f][e] \in Nat /\ sent[f][e] \in Nat
                     /\ got[f][e] <= sent[f][e]
  <2> SUFFICES ASSUME NEW e \in Dir
               PROVE  /\ got[f][e] \in Nat /\ sent[f][e] \in Nat
                      /\ got[f][e] <= sent[f][e]
    OBVIOUS
  <2>1. got[f][e] \in Nat /\ sent[f][e] \in Nat
    BY DEF Types
  <2>2. got[f][e] + (IF loop[f][e] = "write" /\ TCP(f) THEN 1 ELSE 0)
          <= sent[f][e]
    BY DEF FlowInv, Counted
  <2> QED BY <2>1, <2>2
<1>3. /\ sent' \in [Calls -> [Dir -> 0 .. MaxPieces]]
      /\ sent'[f][d] = sent[f][d] + 1
      /\ \A e \in Dir \ {d} : sent'[f][e] = sent[f][e]
      /\ \A g \in Calls \ {f} : sent'[g] = sent[g]
  <2>1. sent[f][d] + 1 \in 0 .. MaxPieces
    BY <1>1, <1>2
  <2> QED BY <1>1, <2>1 DEF Types
<1>4. /\ quiet' \in [Calls -> 0 .. Expiry]
      /\ \A g \in Calls \ {f} : quiet'[g] = quiet[g]
      /\ d # "up" => UNCHANGED quiet
  BY <1>1 DEF Types
<1>5. Types'
  BY <1>1, <1>3, <1>4 DEF Types, ClientTypeOK
<1>6. \A g \in Calls \ {f} : SameAt(g)
  BY <1>1, <1>3, <1>4 DEF SameAt
<1>7. CallShape(f)' /\ Life(f)'
  BY <1>1 DEF FlowInv, CallShape, Life, TCP, UDP
<1>8. Loops(f)'
  BY <1>1 DEF FlowInv, Loops, TCP
<1>9. Counted(f)'
  <2>1. \A e \in Dir : sent[f][e] <= sent'[f][e] /\ sent'[f][e] \in Nat
    BY <1>2, <1>3
  <2>2. \A e \in Dir : got[f][e] + (IF loop[f][e] = "write" /\ TCP(f)
                                    THEN 1 ELSE 0) <= sent'[f][e]
    BY <1>2, <2>1 DEF FlowInv, Counted
  <2> QED BY <1>1, <1>2, <2>1, <2>2 DEF FlowInv, Counted, TCP, UDP, Dir
<1>10. Whole(f)'
  BY <1>1, <1>3 DEF FlowInv, Whole, Healthy, TCP
<1>11. Idle(f)'
  <2>1. CASE d = "up"
    <3>1. got[f]["up"] # sent'[f]["up"]
      BY <1>2, <1>3, <2>1
    <3> QED BY <1>1, <3>1 DEF Idle
  <2>2. CASE d # "up"
    BY <1>1, <1>3, <1>4, <2>2 DEF FlowInv, Idle, UDP, Dir
  <2> QED BY <2>1, <2>2
<1> QED BY <1>5, <1>6, <1>7, <1>8, <1>9, <1>10, <1>11 DEF Preserves, FlowInv

LEMMA SourceEndsPreserves ==
  ASSUME Types, NEW f \in Calls, FlowInv(f), NEW d \in Dir, SourceEnds(f, d)
  PROVE  Preserves(f)
<1> USE DEF clientVars
<1>1. /\ UNCHANGED <<main, local, loop, sent, got, eof, localGone, timer, quiet,
                     clientVars>>
      /\ fin' = [fin EXCEPT ![f][d] = TRUE]
  BY DEF SourceEnds
<1>2. /\ fin' \in [Calls -> [Dir -> BOOLEAN]]
      /\ \A g \in Calls \ {f} : fin'[g] = fin[g]
  BY <1>1 DEF Types
<1>3. \A e \in Dir : fin[f][e] => fin'[f][e]
  BY <1>1 DEF Types
<1>4. Types'
  BY <1>1, <1>2 DEF Types, ClientTypeOK
<1>5. \A g \in Calls \ {f} : SameAt(g)
  BY <1>1, <1>2 DEF SameAt
<1>6. CallShape(f)' /\ Life(f)' /\ Loops(f)'
  BY <1>1 DEF FlowInv, CallShape, Life, Loops, TCP, UDP
<1>7. Counted(f)' /\ Idle(f)'
  BY <1>1 DEF FlowInv, Counted, Idle, TCP, UDP
<1>8. Whole(f)'
  BY <1>1, <1>3 DEF FlowInv, Whole, Healthy, TCP
<1> QED BY <1>4, <1>5, <1>6, <1>7, <1>8 DEF Preserves, FlowInv

LEMMA FailurePreserves ==
  ASSUME Types, NEW f \in Calls, FlowInv(f), LocalGone(f) \/ RemoteFails(f)
  PROVE  Preserves(f)
<1> USE DEF LocalGone, RemoteFails, ServerFails, clientVars, flowVars
<1>1. UNCHANGED <<stage, cmd, ctrl, relay, armed, main, local, loop, sent, got,
                  fin, eof, timer, quiet>>
  OBVIOUS
<1>2. /\ localGone' \in [Calls -> BOOLEAN]
      /\ \A g \in Calls \ {f} : localGone'[g] = localGone[g]
  BY DEF Types
<1>3. /\ server' \in [Calls -> {"answers", "silent", "gone"}]
      /\ \A g \in Calls \ {f} : server'[g] = server[g]
  BY DEF Types, ClientTypeOK
<1>4. Healthy(f)' => Healthy(f)
  BY DEF Types, ClientTypeOK, Healthy
<1> HIDE DEF LocalGone, RemoteFails, ServerFails
<1>5. Types'
  BY <1>1, <1>2, <1>3 DEF Types, ClientTypeOK
<1>6. \A g \in Calls \ {f} : SameAt(g)
  BY <1>1, <1>2, <1>3 DEF SameAt
<1>7. CallShape(f)' /\ Life(f)' /\ Loops(f)'
  BY <1>1 DEF FlowInv, CallShape, Life, Loops, TCP, UDP
<1>8. Counted(f)' /\ Idle(f)'
  BY <1>1 DEF FlowInv, Counted, Idle, TCP, UDP
<1>9. Whole(f)'
  BY <1>1, <1>4 DEF FlowInv, Whole, TCP
<1> QED BY <1>5, <1>6, <1>7, <1>8, <1>9 DEF Preserves, FlowInv

(* The deadline comes one tick closer, and the application has been silent *)
(* for one more, until it has been for the whole expiry.                   *)
LEMMA TickFacts ==
  ASSUME Types, NEW f \in Calls, FlowInv(f), Tick(f)
  PROVE  /\ timer' \in [Calls -> 0 .. Expiry]
         /\ quiet' \in [Calls -> 0 .. Expiry]
         /\ \A g \in Calls \ {f} : timer'[g] = timer[g] /\ quiet'[g] = quiet[g]
         /\ quiet'[f] + timer'[f] >= Expiry
<1>1. timer[f] \in 0 .. Expiry /\ quiet[f] \in 0 .. Expiry /\ timer[f] > 0
  BY DEF Types, Tick
<1>2. quiet[f] + timer[f] >= Expiry
  BY DEF Tick, FlowInv, Idle
<1>3. timer' = [timer EXCEPT ![f] = timer[f] - 1]
  BY DEF Tick
<1>4. quiet' = [quiet EXCEPT ![f] = IF quiet[f] < Expiry THEN quiet[f] + 1
                                                          ELSE quiet[f]]
  BY DEF Tick
<1>5. timer[f] - 1 \in 0 .. Expiry
  BY <1>1
<1>6. (IF quiet[f] < Expiry THEN quiet[f] + 1 ELSE quiet[f]) \in 0 .. Expiry
  BY <1>1
<1>7. (IF quiet[f] < Expiry THEN quiet[f] + 1 ELSE quiet[f]) + (timer[f] - 1)
        >= Expiry
  BY <1>1, <1>2
<1> QED BY <1>3, <1>4, <1>5, <1>6, <1>7 DEF Types

LEMMA TickPreserves ==
  ASSUME Types, NEW f \in Calls, FlowInv(f), Tick(f)
  PROVE  Preserves(f)
<1> USE DEF clientVars
<1>1. UNCHANGED <<main, local, loop, sent, got, fin, eof, localGone,
                  clientVars>>
  BY DEF Tick
<1>2. Types'
  BY <1>1, TickFacts DEF Types, ClientTypeOK
<1>3. \A g \in Calls \ {f} : SameAt(g)
  BY <1>1, TickFacts DEF SameAt
<1>4. CallShape(f)' /\ Life(f)' /\ Loops(f)'
  BY <1>1 DEF FlowInv, CallShape, Life, Loops, TCP, UDP
<1>5. Counted(f)' /\ Whole(f)'
  BY <1>1 DEF FlowInv, Counted, Whole, Healthy, TCP, UDP
<1>6. Idle(f)'
  BY TickFacts DEF Idle
<1> QED BY <1>2, <1>3, <1>4, <1>5, <1>6 DEF Preserves, FlowInv

-----------------------------------------------------------------------------
LEMMA NextPreserves == IInv /\ [Next]_vars => IInv'
<1> SUFFICES ASSUME IInv, [Next]_vars PROVE IInv'
  OBVIOUS
<1>1. CASE UNCHANGED vars
  <2>1. Types'
    BY <1>1 DEF IInv, Types, ClientTypeOK, vars, clientVars, flowVars
  <2>2. \A g \in Calls : SameAt(g)
    BY <1>1 DEF SameAt, vars, clientVars, flowVars
  <2> QED BY <2>1, <2>2, Frame DEF IInv
<1>2. CASE Next
  <2>1. PICK f \in Calls :
          \/ \E k \in {"connect", "associate"} : Accept(f, k)
          \/ MainStep(f) \/ UdpStep(f)
          \/ LocalGone(f) \/ RemoteFails(f) \/ Tick(f)
          \/ \E d \in Dir :
               CopyStep(f, d) \/ SourceSends(f, d) \/ SourceEnds(f, d)
    BY <1>2, Zenon DEF Next
  <2>2. Types /\ FlowInv(f)
    BY DEF IInv
  <2>3. CASE \E k \in {"connect", "associate"} : Accept(f, k)
    BY <2>2, <2>3, AcceptPreserves, StepPreserves
  <2>4. CASE MainStep(f)
    BY <2>2, <2>4, DiallingPreserves, DialledPreserves, PipeReturnsPreserves,
       CleanUpPreserves, StepPreserves DEF MainStep
  <2>5. CASE UdpStep(f)
    BY <2>2, <2>5, UdpArmPreserves, UdpReadLocalPreserves, UdpDownPreserves,
       UdpWriteRemotePreserves, StepPreserves DEF UdpStep
  <2>6. CASE LocalGone(f) \/ RemoteFails(f) \/ Tick(f)
    BY <2>2, <2>6, FailurePreserves, TickPreserves, StepPreserves
  <2>7. CASE \E d \in Dir :
               CopyStep(f, d) \/ SourceSends(f, d) \/ SourceEnds(f, d)
    BY <2>2, <2>7, CopyReadPreserves, CopyWritePreserves, CloseWritePreserves,
       SourceSendsPreserves, SourceEndsPreserves, StepPreserves DEF CopyStep
  <2> QED BY <2>1, <2>3, <2>4, <2>5, <2>6, <2>7
<1> QED BY <1>1, <1>2

(* IInv is an invariant of the flows of nsstack.go. *)
THEOREM Invariance == Spec => []IInv
<1>1. Init => IInv
  BY InitIInv
<1>2. IInv /\ [Next]_vars => IInv'
  BY NextPreserves
<1> QED BY <1>1, <1>2, PTL DEF Spec

(* The variables have their types, and io.Copy and the loops of udpPipe    *)
(* pass on no more than what they were sent.                               *)
THEOREM TypeCorrect == Spec => []TypeOK
<1>1. IInv => TypeOK
  BY DEF IInv, FlowInv, Types, Counted, TypeOK, TCP
<1> QED BY <1>1, Invariance, PTL

(* The end of the stream that one end of a healthy TCP flow sees is the    *)
(* one the other end sent, after everything it sent before: CloseWrite on  *)
(* one side, or the deadline of the handshake, never cuts the other        *)
(* direction short.                                                        *)
THEOREM EndMeansAllTheorem == Spec => []EndMeansAll
<1>1. IInv => EndMeansAll
  <2> SUFFICES ASSUME IInv, NEW f \in Calls, NEW d \in Dir,
                      TCP(f), main[f] \notin {"new", "dial"}, stage[f] = "ok",
                      Healthy(f), eof[f][d] \/ ~SinkOpen(f, d)
               PROVE  fin[f][d] /\ got[f][d] = sent[f][d]
    BY DEF EndMeansAll
  <2>1. Life(f) /\ Loops(f) /\ Whole(f)
    BY DEF IInv, FlowInv
  <2>2. loop[f][d] = "done"
    <3>1. CASE eof[f][d]
      BY <2>1, <3>1 DEF Loops
    <3>2. CASE main[f] # "pipe"
      BY <2>1, <3>2 DEF Loops
    <3>3. CASE main[f] = "pipe" /\ ~SinkOpen(f, d)
      BY <2>1, <3>3 DEF Life, SinkOpen, SourceOpen
    <3> QED BY <3>1, <3>2, <3>3
  <2> QED BY <2>1, <2>2 DEF Whole
<1> QED BY <1>1, Invariance, PTL

(* A flow whose goroutine has returned has closed its endpoint and, if it  *)
(* got that far, its control connection and its relay socket, whichever    *)
(* error path of DialContext, UDPAssociate, pipe or udpPipe it took.       *)
THEOREM NothingLeakedTheorem == Spec => []NothingLeaked
<1>1. IInv => NothingLeaked
  BY DEF IInv, FlowInv, Life, NothingLeaked
<1> QED BY <1>1, Invariance, PTL

(* The idle deadline of udpPipe passes only when the application has sent  *)
(* nothing for udpIdleExpiry.                                              *)
THEOREM CutOnlyWhenIdleTheorem == Spec => CutOnlyWhenIdle
<1> DEFINE Cut == \A f \in Calls :
                    timer[f] > 0 /\ timer'[f] = 0 => quiet'[f] = Expiry
<1>1. ASSUME IInv, [Next]_vars, NEW g \in Calls,
             timer[g] > 0, timer'[g] = 0
      PROVE  quiet'[g] = Expiry
  <2>1. timer' # timer
    BY <1>1
  <2>2. timer[g] \in 0 .. Expiry
    BY <1>1 DEF IInv, Types
  <2>3. PICK f \in Calls : Tick(f) \/ UdpArm(f)
    <3>1. Next
      BY <1>1, <2>1 DEF vars, flowVars
    <3> QED BY <3>1, <2>1 DEF Next, Accept, MainStep, Dialling, Dialled,
               PipeReturns, CleanUp, UdpStep, UdpReadLocal, UdpWriteRemote,
               UdpReadRemote, UdpWriteLocal, LocalGone, RemoteFails, CopyStep,
               CopyRead, CopyWrite, CloseWrite, SourceSends, SourceEnds,
               dataVars, flowVars
  <2>4. ~UdpArm(f)
    <3>1. ASSUME UdpArm(f) PROVE timer'[g] = timer[g] \/ timer'[g] = Expiry
      BY <1>1, <3>1 DEF IInv, Types, UdpArm
    <3> QED BY <1>1, <2>2, <3>1
  <2>5. Types /\ FlowInv(f) /\ Tick(f)
    BY <1>1, <2>3, <2>4 DEF IInv
  <2>6. f = g
    BY <1>1, <2>5, TickFacts
  <2>7. quiet'[g] \in 0 .. Expiry /\ quiet'[g] + timer'[g] >= Expiry
    BY <2>5, <2>6, TickFacts
  <2> QED BY <1>1, <2>7
<1>2. IInv /\ [Next]_vars => Cut
  BY <1>1
<1>3. Cut => [Cut]_vars
  OBVIOUS
<1> HIDE DEF Cut
<1>4. Spec => [][Cut]_vars
  BY <1>2, <1>3, Invariance, PTL DEF Spec
<1> QED BY <1>4 DEF CutOnlyWhenIdle, Cut

=============================================================================
