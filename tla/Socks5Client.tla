--------------------------- MODULE Socks5Client ---------------------------
(***************************************************************************)
(* The SOCKS5 client of socks5.go: the calls DialContext (CONNECT) and     *)
(* UDPAssociate, each over a control connection of its own, against a      *)
(* server that answers, falls silent or goes away.                         *)
(*                                                                         *)
(* A call is the sequence dial, greet, request, reply and, for an          *)
(* association, the dial of the relay.  Every failure closes what the call *)
(* has opened.  A read of a silent server ends only by the deadline of the *)
(* control connection, which the call sets first and clears last.  What    *)
(* the messages look like is in Socks5Codec.                               *)
(***************************************************************************)
CONSTANT
  Calls      \* identities of the calls, and of what they return

VARIABLES
  stage,     \* where a call is; "ok" and "failed" are its results
  cmd,       \* CONNECT or UDP ASSOCIATE
  ctrl,      \* the TCP connection to the server
  relay,     \* the UDP socket to the relay
  armed,     \* the control connection has a deadline
  server     \* what the server does on the control connection

clientVars == <<stage, cmd, ctrl, relay, armed, server>>

Handshake == {"dial", "greet", "request", "reply", "udp"}
Endpoint  == {"none", "open", "closed"}

ClientTypeOK ==
  /\ stage \in [Calls -> Handshake \cup {"idle", "ok", "failed"}]
  /\ cmd \in [Calls -> {"connect", "associate"}]
  /\ ctrl \in [Calls -> Endpoint]
  /\ relay \in [Calls -> Endpoint]
  /\ armed \in [Calls -> BOOLEAN]
  /\ server \in [Calls -> {"answers", "silent", "gone"}]

ClientInit ==
  /\ stage = [c \in Calls |-> "idle"]
  /\ cmd = [c \in Calls |-> "connect"]
  /\ ctrl = [c \in Calls |-> "none"]
  /\ relay = [c \in Calls |-> "none"]
  /\ armed = [c \in Calls |-> FALSE]
  /\ server = [c \in Calls |-> "answers"]

(* A caller enters DialContext or UDPAssociate. *)
Call(c, k) ==
  /\ stage[c] = "idle"
  /\ stage' = [stage EXCEPT ![c] = "dial"]
  /\ cmd' = [cmd EXCEPT ![c] = k]
  /\ UNCHANGED <<ctrl, relay, armed, server>>

-----------------------------------------------------------------------------
(* Mutant: the control connection gets no deadline. *)
DialServerUnbounded(c) ==
  /\ stage[c] = "dial"
  /\ \/ /\ stage' = [stage EXCEPT ![c] = "greet"]
        /\ ctrl' = [ctrl EXCEPT ![c] = "open"]
     \/ /\ stage' = [stage EXCEPT ![c] = "failed"]
        /\ UNCHANGED ctrl
  /\ UNCHANGED <<cmd, relay, armed, server>>

(* Base.DialContext, bounded by the context, then SetDeadline. *)
DialServer(c) ==
  /\ stage[c] = "dial"
  /\ \/ /\ stage' = [stage EXCEPT ![c] = "greet"]
        /\ ctrl' = [ctrl EXCEPT ![c] = "open"]
        /\ armed' = [armed EXCEPT ![c] = TRUE]
     \/ /\ stage' = [stage EXCEPT ![c] = "failed"]
        /\ UNCHANGED <<ctrl, armed>>
  /\ UNCHANGED <<cmd, relay, server>>

(* A read of the control connection that returns what it asked for, and    *)
(* one that fails: a wrong answer, the end of the stream, the deadline.    *)
Answered(c) == server[c] = "answers"
ReadFails(c) == server[c] # "silent" \/ armed[c]

(* Mutant: a refused call leaves its control connection open. *)
GiveUpLeaky(c) ==
  /\ stage' = [stage EXCEPT ![c] = "failed"]
  /\ UNCHANGED ctrl

(* ctrl.Close() and return the error. *)
GiveUp(c) ==
  /\ stage' = [stage EXCEPT ![c] = "failed"]
  /\ ctrl' = [ctrl EXCEPT ![c] = "closed"]

(* socks5Greet: offer no-auth, and read the server's choice. *)
Greet(c) ==
  /\ stage[c] = "greet"
  /\ \/ Answered(c) /\ stage' = [stage EXCEPT ![c] = "request"] /\ UNCHANGED ctrl
     \/ ReadFails(c) /\ GiveUp(c)
  /\ UNCHANGED <<cmd, relay, armed, server>>

(* socks5WriteRequest: fails for a name that is too long, or in Write. *)
WriteRequest(c) ==
  /\ stage[c] = "request"
  /\ \/ stage' = [stage EXCEPT ![c] = "reply"] /\ UNCHANGED ctrl
     \/ GiveUp(c)
  /\ UNCHANGED <<cmd, relay, armed, server>>

(* socks5ReadReply; a success clears the deadline. *)
ReadReply(c) ==
  /\ stage[c] = "reply"
  /\ \/ /\ Answered(c)
        /\ stage' = [stage EXCEPT
                       ![c] = IF cmd[c] = "connect" THEN "ok" ELSE "udp"]
        /\ armed' = [armed EXCEPT ![c] = FALSE]
        /\ UNCHANGED ctrl
     \/ ReadFails(c) /\ GiveUp(c) /\ UNCHANGED armed
  /\ UNCHANGED <<cmd, relay, server>>

(* The UDP socket to the relay, bounded by the context. *)
DialRelay(c) ==
  /\ stage[c] = "udp"
  /\ \/ /\ stage' = [stage EXCEPT ![c] = "ok"]
        /\ relay' = [relay EXCEPT ![c] = "open"]
        /\ UNCHANGED ctrl
     \/ GiveUp(c) /\ UNCHANGED relay
  /\ UNCHANGED <<cmd, armed, server>>

CallStep(c) ==
  DialServer(c) \/ Greet(c) \/ WriteRequest(c) \/ ReadReply(c) \/ DialRelay(c)

(* The server falls silent or goes away.  Nothing tells the client of an   *)
(* association, which never reads its control connection again.            *)
ServerFails(c) ==
  /\ ctrl[c] = "open"
  /\ \/ server[c] = "answers" /\ server' = [server EXCEPT ![c] = "silent"]
     \/ server[c] # "gone" /\ server' = [server EXCEPT ![c] = "gone"]
  /\ UNCHANGED <<stage, cmd, ctrl, relay, armed>>

(* The two halves of Socks5UDPSession.Close, in their order. *)
CloseRelay(c) ==
  /\ relay' = [relay EXCEPT ![c] = "closed"]
  /\ UNCHANGED <<stage, cmd, ctrl, armed, server>>
CloseControl(c) ==
  /\ ctrl' = [ctrl EXCEPT ![c] = "closed"]
  /\ UNCHANGED <<stage, cmd, relay, armed, server>>

=============================================================================
