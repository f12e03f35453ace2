------------------------- MODULE Socks5BindProofs -------------------------
(***************************************************************************)
(* Socks5Bind, for any number of associations and senders: no association  *)
(* is leaked, net.ErrClosed means closed, and the bind implements Bind.    *)
(*                                                                         *)
(* None of them is inductive as it stands.  IInv adds who may be where     *)
(* (Places), which step of UDPAssociate has which socket (CallShape), that *)
(* a call under way is the device's (CallsOwned), that Open, the session   *)
(* in use and Close are never about the same association (Phases), and     *)
(* what a closed relay tells the receive routine (ReadSeesClose).          *)
(***************************************************************************)
EXTENDS Socks5Bind, TLAPS

(* Each thread is at a place of its own code. *)
Places ==
  /\ pc[Dev] \in {"idle", "assoc"}
  /\ pc[Closer] \in {"idle", "closeRelay", "closeCtrl"}
  /\ pc[Rcv] \in {"stopped", "call", "read", "check", "ret"}
  /\ \A s \in Senders : pc[s] \in {"idle", "write"}

(* The sockets a call has at each stage; every call of the bind is an      *)
(* association.                                                            *)
CallShape ==
  \A c \in Calls :
    /\ stage[c] # "idle" => cmd[c] = "associate"
    /\ stage[c] \in {"idle", "dial"} => ctrl[c] = "none"
    /\ stage[c] = "failed" => ctrl[c] # "open"
    /\ stage[c] # "ok" => relay[c] = "none"

(* A call that has not returned is the device's. *)
CallsOwned ==
  \A c \in Calls : stage[c] \in Handshake => pc[Dev] = "assoc" /\ ls[Dev] = c

(* The three phases of an association exclude each other. *)
Phases ==
  /\ session # Nil => open /\ stage[session] = "ok" /\ relay[session] = "open"
  /\ pc[Dev] = "assoc" =>
       /\ ls[Dev] \in Calls /\ stage[ls[Dev]] # "idle"
       /\ stage[ls[Dev]] = "ok" => relay[ls[Dev]] = "open"
       /\ session = Nil /\ pc[Closer] = "idle" /\ pc[Rcv] = "stopped"
  /\ pc[Closer] # "idle" =>
       ls[Closer] \in Calls /\ stage[ls[Closer]] = "ok" /\ ~open
  /\ pc[Closer] = "closeCtrl" => relay[ls[Closer]] = "closed"

(* The receive routine meets a bind without a session, or a closed relay,  *)
(* only after Close.                                                       *)
ReadSeesClose ==
  /\ pc[Rcv] # "stopped" /\ open => session # Nil
  /\ pc[Rcv] = "read" => ls[Rcv] \in Calls
  /\ pc[Rcv] = "read" /\ relay[ls[Rcv]] = "closed" => ~open
  /\ pc[Rcv] \in {"check", "ret"} /\ rerr = "closed" => ~open

IInv == /\ TypeOK /\ Places /\ CallShape /\ CallsOwned /\ Phases
        /\ SessionsOwned /\ ReadSeesClose

USE NilAssumption, ThreadAssumption

LEMMA InitIInv == Init => IInv
<1> SUFFICES ASSUME Init PROVE IInv OBVIOUS
<1> USE DEF Init, ClientInit
<1>1. TypeOK BY DEF TypeOK, ClientTypeOK, Thread, Handshake, Endpoint
<1>2. Places BY DEF Places, Thread
<1>3. CallShape /\ CallsOwned BY DEF CallShape, CallsOwned, Handshake
<1>4. Phases BY <1>2 DEF Phases, Places, Thread
<1>5. SessionsOwned BY DEF SessionsOwned
<1>6. ReadSeesClose BY DEF ReadSeesClose, Thread
<1> QED BY <1>1, <1>2, <1>3, <1>4, <1>5, <1>6 DEF IInv

-----------------------------------------------------------------------------
(***************************************************************************)
(* Every action preserves IInv.                                            *)
(***************************************************************************)
LEMMA OpenPreserves == ASSUME IInv, NEW c \in Calls, Open(c) PROVE IInv'
BY DEF IInv, TypeOK, ClientTypeOK, Places, CallShape, CallsOwned, Phases,
       SessionsOwned, ReadSeesClose, Thread, Handshake, Endpoint, Open, Call,
       Goto

LEMMA AssociatePreserves == ASSUME IInv, Associate PROVE IInv'
<1> USE DEF IInv, TypeOK, ClientTypeOK, Thread, Associate, CallStep,
           DialServer, Greet, WriteRequest, ReadReply, DialRelay, GiveUp
<1>1. TypeOK'
  <2>1. ls[Dev] \in Calls BY DEF Phases
  <2>2. stage' \in [Calls -> Handshake \cup {"idle", "ok", "failed"}]
    BY <2>1 DEF Handshake
  <2>3. ctrl' \in [Calls -> Endpoint] /\ relay' \in [Calls -> Endpoint]
    BY <2>1 DEF Endpoint
  <2>4. armed' \in [Calls -> BOOLEAN] BY <2>1
  <2> QED BY <2>2, <2>3, <2>4
<1>2. Places' BY DEF Places, Phases
<1>3. CallShape' BY DEF CallShape, Phases, Handshake
<1>4. CallsOwned' BY DEF CallsOwned, Phases, Places, Handshake
<1>5. Phases' BY DEF Phases, Places, CallShape, CallsOwned, Handshake
<1>6. SessionsOwned' BY DEF SessionsOwned, Phases, Places, CallShape
<1>7. ReadSeesClose' BY DEF ReadSeesClose, Phases, Places
<1> QED BY <1>1, <1>2, <1>3, <1>4, <1>5, <1>6, <1>7

LEMMA OpenFailedPreserves == ASSUME IInv, OpenFailed PROVE IInv'
<1> USE DEF IInv, TypeOK, ClientTypeOK, Thread, OpenFailed, clientVars, Goto,
           Forget
<1>1. TypeOK' BY DEF Phases, Places, Handshake, Endpoint
<1>2. Places' BY DEF Places, Phases
<1>3. CallShape' BY DEF CallShape, Phases, Handshake
<1>4. CallsOwned' BY DEF CallsOwned, Phases, Places, Handshake
<1>5. Phases' BY DEF Phases, Places, CallShape, CallsOwned, Handshake
<1>6. SessionsOwned' BY DEF SessionsOwned, Phases, Places, CallShape
<1>7. ReadSeesClose' BY DEF ReadSeesClose, Phases, Places
<1> QED BY <1>1, <1>2, <1>3, <1>4, <1>5, <1>6, <1>7

LEMMA OpenDonePreserves == ASSUME IInv, OpenDone PROVE IInv'
BY DEF IInv, TypeOK, ClientTypeOK, Places, CallShape, CallsOwned, Phases,
       SessionsOwned, ReadSeesClose, Thread, Handshake, Endpoint, OpenDone,
       clientVars, Goto, Forget

LEMMA ClosePreserves == ASSUME IInv, Close PROVE IInv'
<1> USE DEF IInv, TypeOK, ClientTypeOK, Thread, Close, clientVars, Goto
<1>1. TypeOK' BY DEF Phases, Places, Handshake, Endpoint
<1>2. Places' BY DEF Places, Phases
<1>3. CallShape' BY DEF CallShape, Phases, Handshake
<1>4. CallsOwned' BY DEF CallsOwned, Phases, Places, Handshake
<1>5. Phases' BY DEF Phases, Places, CallShape, CallsOwned, Handshake
<1>6. SessionsOwned' BY DEF SessionsOwned, Phases, Places, CallShape
<1>7. ReadSeesClose' BY DEF ReadSeesClose, Phases, Places
<1> QED BY <1>1, <1>2, <1>3, <1>4, <1>5, <1>6, <1>7

LEMMA CloseSessionPreserves == ASSUME IInv, CloseSession PROVE IInv'
BY DEF IInv, TypeOK, ClientTypeOK, Places, CallShape, CallsOwned, Phases,
       SessionsOwned, ReadSeesClose, Thread, Handshake, Endpoint, CloseSession,
       CloseRelay, CloseControl, Goto, Forget

LEMMA SendPreserves ==
  ASSUME IInv, NEW s \in Senders, Send(s) \/ SendWrite(s) PROVE IInv'
BY DEF IInv, TypeOK, ClientTypeOK, Places, CallShape, CallsOwned, Phases,
       SessionsOwned, ReadSeesClose, Thread, Handshake, Endpoint, Send,
       SendWrite, clientVars, Goto, Forget

LEMMA ReceivePreserves ==
  ASSUME IInv,
         Receive \/ ReadDatagram \/ ReadFailed \/ ReceiveCheck \/ ReceiveReturn
  PROVE  IInv'
BY DEF IInv, TypeOK, ClientTypeOK, Places, CallShape, CallsOwned, Phases,
       SessionsOwned, ReadSeesClose, Thread, Handshake, Endpoint, Receive,
       ReadDatagram, ReadFailed, ReceiveCheck, ReceiveReturn, clientVars, Goto,
       Forget

LEMMA ServerPreserves == ASSUME IInv, ServerStep PROVE IInv'
BY DEF IInv, TypeOK, ClientTypeOK, Places, CallShape, CallsOwned, Phases,
       SessionsOwned, ReadSeesClose, Handshake, Endpoint, ServerStep,
       ServerFails

LEMMA StutterPreserves == ASSUME IInv, UNCHANGED vars PROVE IInv'
BY DEF IInv, TypeOK, ClientTypeOK, Places, CallShape, CallsOwned, Phases,
       SessionsOwned, ReadSeesClose, vars, clientVars

LEMMA NextPreserves == IInv /\ [Next]_vars => IInv'
BY OpenPreserves, AssociatePreserves, OpenFailedPreserves, OpenDonePreserves,
   ClosePreserves, CloseSessionPreserves, SendPreserves, ReceivePreserves,
   ServerPreserves, StutterPreserves
   DEF Next

(* The inductive invariant holds in every reachable state. *)
THEOREM Invariance == Spec => []IInv
BY InitIInv, NextPreserves, PTL DEF Spec

-----------------------------------------------------------------------------
(* Every variable keeps its type; in particular no goroutine works on a    *)
(* session it does not have.                                               *)
THEOREM TypeCorrect == Spec => []TypeOK
<1>1. IInv => TypeOK BY DEF IInv
<1> QED BY Invariance, <1>1, PTL

(* Whichever step of UDPAssociate fails and whenever Close comes, an open  *)
(* connection of an association has somebody who will close it.            *)
THEOREM SessionsOwnedTheorem == Spec => []SessionsOwned
<1>1. IInv => SessionsOwned BY DEF IInv
<1> QED BY Invariance, <1>1, PTL

(* receive returns net.ErrClosed only after Close. *)
THEOREM ErrClosedTheorem == Spec => []ErrClosedMeansClosed
<1>1. IInv => ErrClosedMeansClosed
  BY DEF IInv, ReadSeesClose, ErrClosedMeansClosed
<1> QED BY Invariance, <1>1, PTL

(* As long as the bind is open, the session that receive reads from and    *)
(* every Send writes to is the one that is installed, although both took   *)
(* it from b under b.mu and use it after they have let go of b.mu: no      *)
(* datagram of a new session is lost to the socket of an old one.          *)
CurrentSession ==
  open =>
    /\ pc[Rcv] = "read" => ls[Rcv] = session
    /\ \A s \in Senders : pc[s] = "write" => ls[s] = session

(* What Open, and the steps that leave Senders and Rcv alone, preserve. *)
LEMMA CurrentSessionStep ==
  ASSUME IInv, CurrentSession, [Next]_vars PROVE CurrentSession'
<1> USE DEF IInv, TypeOK, Places, Phases, Thread, CurrentSession
<1>1. ASSUME NEW c \in Calls, Open(c) PROVE CurrentSession'
  BY <1>1 DEF Open, Goto
<1>2. CASE Associate BY <1>2 DEF Associate
<1>3. CASE OpenFailed BY <1>3 DEF OpenFailed, Goto, Forget
<1>4. CASE OpenDone
  <2>1. CASE open
    <3>1. pc[Rcv] = "stopped" /\ session = Nil BY <1>4 DEF OpenDone
    <3>2. \A s \in Senders : pc[s] # "write"  \* TypeOK: it would have one
      BY <2>1, <3>1
    <3> QED BY <1>4, <2>1, <3>1, <3>2 DEF OpenDone, Forget
  <2>2. CASE ~open BY <1>4, <2>2 DEF OpenDone, Goto, Forget
  <2> QED BY <2>1, <2>2
<1>5. CASE Close BY <1>5 DEF Close
<1>6. CASE CloseSession BY <1>6 DEF CloseSession, Goto, Forget
<1>7. ASSUME NEW s \in Senders, Send(s) \/ SendWrite(s)
      PROVE  CurrentSession'
  BY <1>7 DEF Send, SendWrite, Goto, Forget
<1>8. CASE Receive BY <1>8 DEF Receive, Goto
<1>9. CASE ReadDatagram \/ ReadFailed \/ ReceiveCheck \/ ReceiveReturn
  BY <1>9 DEF ReadDatagram, ReadFailed, ReceiveCheck, ReceiveReturn, Goto,
              Forget
<1>10. CASE ServerStep BY <1>10 DEF ServerStep
<1>11. CASE UNCHANGED vars BY <1>11 DEF vars
<1> QED
  BY <1>1, <1>2, <1>3, <1>4, <1>5, <1>6, <1>7, <1>8, <1>9, <1>10, <1>11
     DEF Next

(* receive and Send work on the installed session while the bind is open.  *)
THEOREM CurrentSessionTheorem == Spec => []CurrentSession
<1>1. Init => CurrentSession BY DEF Init, CurrentSession
<1>2. IInv /\ CurrentSession /\ [Next]_vars => CurrentSession'
  BY CurrentSessionStep
<1> QED BY <1>1, <1>2, Invariance, PTL DEF Spec

-----------------------------------------------------------------------------
(***************************************************************************)
(* The bind implements Bind.                                               *)
(***************************************************************************)

(* What Bind sees depends on these only. *)
LEMMA BindStutters ==
  ASSUME UNCHANGED <<open, session, stage>>, pc'[Dev] = pc[Dev], ls'[Dev] = ls[Dev]
  PROVE  UNCHANGED B!vars
BY DEF B!vars, Spent

(* Steps of UDPAssociate happen to an association Bind does not see yet. *)
LEMMA AssociateImplements ==
  ASSUME IInv, Associate PROVE UNCHANGED B!vars
<1>1. /\ UNCHANGED <<open, session, pc, ls>> /\ pc[Dev] = "assoc"
      /\ \A c \in Calls : c # ls[Dev] => stage'[c] = stage[c]
  BY DEF Associate, CallStep, DialServer, Greet, WriteRequest, ReadReply,
         DialRelay, GiveUp, IInv, TypeOK, ClientTypeOK
<1>2. Spent' = Spent BY <1>1 DEF Spent
<1> QED BY <1>1, <1>2 DEF B!vars

(* Open's second critical section is Attach, or Discard after a Close. *)
LEMMA OpenDoneImplements ==
  ASSUME IInv, OpenDone PROVE \E c \in Calls : B!Attach(c) \/ B!Discard(c)
<1> DEFINE c == ls[Dev]
<1>1. /\ c \in Calls /\ stage[c] = "ok" /\ session = Nil /\ pc[Dev] = "assoc"
      /\ pc'[Dev] = "idle" /\ UNCHANGED <<stage, open>>
  BY DEF OpenDone, IInv, Phases, TypeOK, Thread, clientVars, Goto
<1>2. c \notin Spent \cup {session} BY <1>1 DEF Spent
<1>3. CASE open /\ session' = c
  <2>1. Spent' = Spent \cup ({session} \ {Nil})
    BY <1>1, <1>3 DEF Spent
  <2>2. B!Attach(c) BY <1>1, <1>2, <1>3, <2>1 DEF B!Attach, B!Retire
  <2> QED BY <1>1, <2>2
<1>4. CASE session' = session
  <2>1. Spent' = Spent \cup {c}
    BY <1>1, <1>4 DEF Spent
  <2>2. B!Discard(c) BY <1>1, <1>2, <1>4, <2>1 DEF B!Discard
  <2> QED BY <1>1, <2>2
<1> QED BY <1>3, <1>4 DEF OpenDone

(* Close and a failed Open are Close. *)
LEMMA CloseImplements ==
  ASSUME IInv, Close \/ OpenFailed PROVE B!Close
<1>1. CASE Close
  <2>1. /\ open' = FALSE /\ session' = Nil /\ UNCHANGED stage
        /\ pc'[Dev] = pc[Dev] /\ ls'[Dev] = ls[Dev]
    BY <1>1 DEF Close, clientVars, Goto, IInv, TypeOK, Thread
  <2>2. session # Nil => stage[session] = "ok" /\ pc[Dev] # "assoc"
    BY DEF IInv, Phases
  <2>3. Spent' = Spent \cup ({session} \ {Nil})
    BY <2>1, <2>2 DEF Spent, IInv, TypeOK
  <2> QED BY <2>1, <2>3 DEF B!Close, B!Retire
<1>2. CASE OpenFailed
  <2>1. /\ open' = FALSE /\ session = Nil /\ session' = Nil /\ UNCHANGED stage
        /\ pc[Dev] = "assoc" /\ pc'[Dev] = "idle" /\ stage[ls[Dev]] = "failed"
    BY <1>2 DEF OpenFailed, clientVars, Goto, IInv, TypeOK, Phases, Thread
  <2>2. Spent' = Spent BY <2>1 DEF Spent
  <2> QED BY <2>1, <2>2 DEF B!Close, B!Retire
<1> QED BY <1>1, <1>2

LEMMA NextImplements == IInv /\ [Next]_vars => [B!Next]_(B!vars)
<1> SUFFICES ASSUME IInv, [Next]_vars PROVE B!Next \/ UNCHANGED B!vars
  OBVIOUS
<1> USE DEF IInv, TypeOK, Thread, Goto, Forget, clientVars
<1>1. ASSUME NEW c \in Calls, Open(c) PROVE B!Open
  <2>1. /\ ~open /\ open' = TRUE /\ session' = session
        /\ stage[c] = "idle" /\ stage' = [stage EXCEPT ![c] = "dial"]
        /\ pc[Dev] = "idle" /\ pc'[Dev] = "assoc" /\ ls'[Dev] = c
    BY <1>1 DEF Open, Call
  <2>2. Spent' = Spent BY <2>1 DEF Spent, ClientTypeOK
  <2> QED BY <2>1, <2>2 DEF B!Open
<1>2. CASE Associate BY <1>2, AssociateImplements
<1>3. CASE OpenDone BY <1>3, OpenDoneImplements DEF B!Next
<1>4. CASE OpenFailed \/ Close BY <1>4, CloseImplements DEF B!Next
<1>5. CASE CloseSession
  BY <1>5, BindStutters DEF CloseSession, CloseRelay, CloseControl
<1>6. ASSUME NEW s \in Senders, Send(s) \/ SendWrite(s) PROVE UNCHANGED B!vars
  BY <1>6, BindStutters DEF Send, SendWrite
<1>7. CASE Receive \/ ReadDatagram \/ ReadFailed \/ ReceiveCheck \/ ReceiveReturn
  BY <1>7, BindStutters
     DEF Receive, ReadDatagram, ReadFailed, ReceiveCheck, ReceiveReturn
<1>8. CASE ServerStep \/ UNCHANGED vars
  BY <1>8, BindStutters DEF ServerStep, ServerFails, vars
<1> QED
  BY <1>1, <1>2, <1>3, <1>4, <1>5, <1>6, <1>7, <1>8 DEF Next, B!Next

(* The bind keeps the contract of Bind: a session is taken into use only   *)
(* while the bind is open, at most once, and Close takes it away, however  *)
(* late UDPAssociate returns.                                              *)
THEOREM RefinesBind == Spec => ImplementsBind
<1>1. Init => B!Init
  BY DEF Init, ClientInit, B!Init, Spent
<1> QED
  BY <1>1, Invariance, NextImplements, PTL DEF Spec, ImplementsBind, B!Spec
=============================================================================
