---------------------------- MODULE Socks5Bind ----------------------------
(***************************************************************************)
(* The WireGuard transport of socks5bind.go: datagrams through the UDP     *)
(* relay of an outer SOCKS5 server, one association per Open.              *)
(*                                                                         *)
(*   Dev      the wireguard-go device, which calls Open;                   *)
(*   Closer   whoever calls Close;                                         *)
(*   Rcv      the receive routine the device starts on b.receive;          *)
(*   Senders  the goroutines that call Send.                               *)
(*                                                                         *)
(* Every critical section of b.mu is one action; UDPAssociate, ReadFrom    *)
(* and the two closes of a session happen outside of it.  A session is     *)
(* named by the call of Socks5Client that set it up.                       *)
(***************************************************************************)
EXTENDS Socks5Client

CONSTANTS Dev, Closer, Rcv, Senders, Nil

Thread == Senders \cup {Dev, Closer, Rcv}

ASSUME NilAssumption == Nil \notin Calls
ASSUME ThreadAssumption ==
  /\ Dev # Closer /\ Dev # Rcv /\ Closer # Rcv
  /\ {Dev, Closer, Rcv} \cap Senders = {}

VARIABLES
  open,      \* b.open
  session,   \* b.session
  pc,        \* where each thread is
  ls,        \* the thread's local session
  rerr       \* the error receive is about to return

vars == <<clientVars, open, session, pc, ls, rerr>>

TypeOK ==
  /\ ClientTypeOK
  /\ open \in BOOLEAN
  /\ session \in Calls \cup {Nil}
  /\ pc \in [Thread -> {"idle", "assoc", "closeRelay", "closeCtrl", "write",
                        "stopped", "call", "read", "check", "ret"}]
  /\ ls \in [Thread -> Calls \cup {Nil}]
  /\ \A t \in Thread :    \* a thread that works on a session has one
       pc[t] \in {"assoc", "closeRelay", "closeCtrl", "write", "read"}
         => ls[t] # Nil
  /\ rerr \in {"none", "closed", "net"}

Init ==
  /\ ClientInit
  /\ open = FALSE
  /\ session = Nil
  /\ pc = [t \in Thread |-> IF t = Rcv THEN "stopped" ELSE "idle"]
  /\ ls = [t \in Thread |-> Nil]
  /\ rerr = "none"

Goto(t, l) == pc' = [pc EXCEPT ![t] = l]
Forget(t)  == ls' = [ls EXCEPT ![t] = Nil]

-----------------------------------------------------------------------------
(***************************************************************************)
(* Open.  The device (external) calls it only when the receive routine of  *)
(* the previous Open has ended and neither a Send nor a Close is under     *)
(* way.  Open on an open bind returns ErrBindAlreadyOpen and changes       *)
(* nothing.  A Close that comes while Open is in UDPAssociate is allowed   *)
(* here, although wireguard-go has none: the code provides for it.         *)
(***************************************************************************)
Open(c) ==
  /\ pc[Dev] = "idle" /\ pc[Closer] = "idle" /\ pc[Rcv] = "stopped"
  /\ \A s \in Senders : pc[s] = "idle"
  /\ ~open
  /\ open' = TRUE
  /\ Call(c, "associate")
  /\ ls' = [ls EXCEPT ![Dev] = c]
  /\ Goto(Dev, "assoc")
  /\ UNCHANGED <<session, rerr>>

Associate == /\ pc[Dev] = "assoc"
             /\ CallStep(ls[Dev])
             /\ UNCHANGED <<open, session, pc, ls, rerr>>

(* UDPAssociate has failed: open is reverted. *)
OpenFailed ==
  /\ pc[Dev] = "assoc" /\ stage[ls[Dev]] = "failed"
  /\ open' = FALSE
  /\ Goto(Dev, "idle") /\ Forget(Dev)
  /\ UNCHANGED <<clientVars, session, rerr>>

(* Mutant: the session is installed whether or not the bind is still open. *)
OpenDoneUnchecked ==
  /\ pc[Dev] = "assoc" /\ stage[ls[Dev]] = "ok"
  /\ session' = ls[Dev]
  /\ pc' = [pc EXCEPT ![Dev] = "idle", ![Rcv] = "call"]
  /\ Forget(Dev)
  /\ UNCHANGED <<clientVars, open, rerr>>

(* The second critical section: the session is installed and the device    *)
(* starts the receive routine; or the bind was closed meanwhile and the    *)
(* session is closed, under b.mu.                                          *)
OpenDone ==
  /\ pc[Dev] = "assoc" /\ stage[ls[Dev]] = "ok"
  /\ \/ /\ open
        /\ session' = ls[Dev]
        /\ pc' = [pc EXCEPT ![Dev] = "idle", ![Rcv] = "call"]
        /\ UNCHANGED clientVars
     \/ /\ ~open
        /\ ctrl' = [ctrl EXCEPT ![ls[Dev]] = "closed"]
        /\ relay' = [relay EXCEPT ![ls[Dev]] = "closed"]
        /\ Goto(Dev, "idle")
        /\ UNCHANGED <<session, stage, cmd, armed, server>>
  /\ Forget(Dev)
  /\ UNCHANGED <<open, rerr>>

-----------------------------------------------------------------------------
(* Mutant: open is left set while the session is taken away. *)
CloseStillOpen ==
  /\ pc[Closer] = "idle"
  /\ session' = Nil
  /\ ls' = [ls EXCEPT ![Closer] = session]
  /\ Goto(Closer, IF session = Nil THEN "idle" ELSE "closeRelay")
  /\ UNCHANGED <<clientVars, open, rerr>>

(* Close: the critical section, then the session's two connections. *)
Close ==
  /\ pc[Closer] = "idle"
  /\ open' = FALSE
  /\ session' = Nil
  /\ ls' = [ls EXCEPT ![Closer] = session]
  /\ Goto(Closer, IF session = Nil THEN "idle" ELSE "closeRelay")
  /\ UNCHANGED <<clientVars, rerr>>

(* Mutant: only the control connection is closed. *)
CloseSessionControlOnly ==
  /\ pc[Closer] = "closeRelay"
  /\ CloseControl(ls[Closer])
  /\ Goto(Closer, "idle") /\ Forget(Closer)
  /\ UNCHANGED <<open, session, rerr>>

CloseSession ==
  /\ \/ /\ pc[Closer] = "closeRelay"
        /\ CloseRelay(ls[Closer])
        /\ Goto(Closer, "closeCtrl")
        /\ UNCHANGED ls
     \/ /\ pc[Closer] = "closeCtrl"
        /\ CloseControl(ls[Closer])
        /\ Goto(Closer, "idle") /\ Forget(Closer)
  /\ UNCHANGED <<open, session, rerr>>

-----------------------------------------------------------------------------
(* Send: without a session it returns ErrClosed and changes nothing. *)
Send(s) ==
  /\ pc[s] = "idle" /\ pc[Dev] = "idle"
  /\ open /\ session # Nil
  /\ ls' = [ls EXCEPT ![s] = session]
  /\ Goto(s, "write")
  /\ UNCHANGED <<clientVars, open, session, rerr>>

(* WriteToHost; its outcome changes nothing here. *)
SendWrite(s) ==
  /\ pc[s] = "write"
  /\ Goto(s, "idle") /\ Forget(s)
  /\ UNCHANGED <<clientVars, open, session, rerr>>

-----------------------------------------------------------------------------
(* receive: currentSession, on entry. *)
Receive ==
  /\ pc[Rcv] = "call"
  /\ \/ /\ open /\ session # Nil
        /\ ls' = [ls EXCEPT ![Rcv] = session]
        /\ Goto(Rcv, "read")
        /\ UNCHANGED rerr
     \/ /\ ~open \/ session = Nil
        /\ rerr' = "closed"
        /\ Goto(Rcv, "ret")
        /\ UNCHANGED ls
  /\ UNCHANGED <<clientVars, open, session>>

(* ReadFrom returns a datagram, which receive returns; the device calls it *)
(* again.                                                                  *)
ReadDatagram ==
  /\ pc[Rcv] = "read"
  /\ relay[ls[Rcv]] = "open"
  /\ Goto(Rcv, "call") /\ Forget(Rcv)
  /\ UNCHANGED <<clientVars, open, session, rerr>>

(* ReadFrom fails: the socket is closed, or the datagram is malformed, or  *)
(* the network reports an error.  The first is a net.ErrClosed.            *)
ReadFailed ==
  /\ pc[Rcv] = "read"
  /\ rerr' = IF relay[ls[Rcv]] = "closed" THEN "closed" ELSE "net"
  /\ Goto(Rcv, "check")
  /\ UNCHANGED <<clientVars, open, session, ls>>

(* isOpen's critical section. *)
ReceiveCheck ==
  /\ pc[Rcv] = "check"
  /\ rerr' = IF open THEN rerr ELSE "closed"
  /\ Goto(Rcv, "ret")
  /\ UNCHANGED <<clientVars, open, session, ls>>

(* The device (external) ends the receive routine on net.ErrClosed; on     *)
(* another error it calls receive again, or ends it too when the error is  *)
(* not temporary or the tenth in a row.                                    *)
ReceiveReturn ==
  /\ pc[Rcv] = "ret"
  /\ \/ Goto(Rcv, "stopped")
     \/ rerr # "closed" /\ Goto(Rcv, "call")
  /\ rerr' = "none"
  /\ Forget(Rcv)
  /\ UNCHANGED <<clientVars, open, session>>

-----------------------------------------------------------------------------
ServerStep == /\ \E c \in Calls : ServerFails(c)
              /\ UNCHANGED <<open, session, pc, ls, rerr>>

Next ==
  \/ \E c \in Calls : Open(c)
  \/ Associate \/ OpenFailed \/ OpenDone
  \/ Close \/ CloseSession
  \/ \E s \in Senders : Send(s) \/ SendWrite(s)
  \/ Receive \/ ReadDatagram \/ ReadFailed \/ ReceiveCheck \/ ReceiveReturn
  \/ ServerStep

Spec == Init /\ [][Next]_vars

(***************************************************************************)
(* Fairness: runnable goroutines run; dials and reads of the control       *)
(* connection end by their deadline; a read of the relay is sure to end    *)
(* only when the socket is closed.  Nobody has to call Open, Close, Send.  *)
(***************************************************************************)
Fairness ==
  /\ WF_vars(Associate \/ OpenFailed \/ OpenDone)
  /\ WF_vars(CloseSession)
  /\ WF_vars(Receive \/ ReceiveCheck \/ ReceiveReturn)
  /\ WF_vars(ReadFailed /\ relay[ls[Rcv]] = "closed")

FairSpec == Spec /\ Fairness

-----------------------------------------------------------------------------
(* No association is leaked: a control connection or relay socket that is  *)
(* open belongs to the bind's session, to the Open that is setting it up   *)
(* or to the Close that is taking it down, whichever step of UDPAssociate  *)
(* failed and whenever Close came.                                         *)
SessionsOwned ==
  \A c \in Calls :
    "open" \in {ctrl[c], relay[c]} =>
      \/ c = session
      \/ pc[Dev] = "assoc" /\ ls[Dev] = c
      \/ pc[Closer] \in {"closeRelay", "closeCtrl"} /\ ls[Closer] = c

(* receive reports net.ErrClosed, on which the device ends the receive     *)
(* routine for good, only when the bind has been closed.                   *)
ErrClosedMeansClosed == pc[Rcv] = "ret" /\ rerr = "closed" => ~open

(* Close unblocks the receive routine, for which the device waits before   *)
(* it calls Open again.                                                    *)
ReceiverEnds == ~open ~> pc[Rcv] = "stopped"

(* Open returns even if the outer SOCKS5 server accepts the connection and *)
(* then says nothing.                                                      *)
OpenReturns == pc[Dev] = "assoc" ~> pc[Dev] = "idle"

(* A session that has been set up and is neither in use nor still held by  *)
(* Open will never be used.                                                *)
Spent == {c \in Calls : /\ stage[c] = "ok"
                        /\ c # session
                        /\ ~(pc[Dev] = "assoc" /\ ls[Dev] = c)}

B == INSTANCE Bind WITH Transport <- Calls, None <- Nil, cur <- session,
                        spent <- Spent

(* The bind keeps the contract of Bind: a session is taken into use only   *)
(* while the bind is open, at most once, and Close takes it away.          *)
ImplementsBind == B!Spec
=============================================================================
