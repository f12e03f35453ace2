------------------------------ MODULE TCPBind ------------------------------
(***************************************************************************)
(* The udp-over-tcp WireGuard transport of tcpbind.go: one bind, its       *)
(* current TCP connection, and the goroutines that share it.               *)
(*                                                                         *)
(*   Dev      the wireguard-go device, which calls Open and Close;         *)
(*   Rcv      the receive routine the device starts on Open's              *)
(*            ReceiveFunc and that calls receive in a loop;                *)
(*   Senders  the goroutines that call Send.                               *)
(*                                                                         *)
(* Every critical section of b.mu is one action: nothing blocks under it.  *)
(* dial() releases b.mu around DialContext, so it is three actions, and    *)
(* the other goroutines run between them.  b.writeMu is held across a      *)
(* whole sendOne, dials included, and is a variable.                       *)
(*                                                                         *)
(* Payloads are abstracted to their length.  A connection keeps what the   *)
(* framing depends on: whether this side closed it, whether the bytes      *)
(* written so far end at a frame boundary, and whether the bytes read so   *)
(* far do.                                                                 *)
(***************************************************************************)
EXTENDS Naturals

CONSTANTS
  Senders,   \* goroutines that call Send
  Dev,       \* the device's lifecycle thread
  Rcv,       \* the receive routine
  Conn,      \* identities of the TCP connections DialContext can return
  Sizes,     \* lengths of the packets passed to Send
  Nil        \* Go's nil, for connections and for a free mutex

Thread == Senders \cup {Dev, Rcv}

ASSUME ThreadAssumption == Dev # Rcv /\ {Dev, Rcv} \cap Senders = {}
ASSUME NilAssumption == Nil \notin Thread \cup Conn
ASSUME SizesAssumption == Sizes \subseteq Nat

MaxAttempts == 3                 \* attempts of sendOne's loop
MaxPacket   == 65535             \* largest packet Send accepts

VARIABLES
  open,      \* b.open
  conn,      \* b.conn
  connGen,   \* b.connGen
  writeMu,   \* holder of b.writeMu
  pc,        \* where each thread is
  cont,      \* which call of dial() a thread is in
  lc,        \* the thread's local copy c of b.conn
  gen,       \* its local gen, the staleGen its next dial is given
  fresh,     \* the connection a thread's DialContext returned
  attempt,   \* iterations of sendOne's loop begun
  sz,        \* length of the packet being sent
  rerr,      \* the error receive is about to return
  status,    \* of each connection: not dialled, open, closed by this side
  out,       \* of each connection: where the outgoing byte stream stands
  inb        \* of each connection: where the incoming byte stream stands

bvars == <<open, conn, connGen, writeMu>>
tvars == <<cont, lc, gen, fresh, attempt, sz, rerr>>
cvars == <<status, out, inb>>
vars  == <<bvars, pc, tvars, cvars>>

(***************************************************************************)
(* The calls of dial(): from Open, from sendOne without a connection,      *)
(* from sendOne after a failed Write, from receive without a connection,   *)
(* from receive after a failed read; "none" outside of dial().             *)
(***************************************************************************)
DialCall == {"none", "open", "sendNil", "sendErr", "recvNil", "recvErr"}

DialPC == {"dial", "dialing", "install"}
DevPC  == {"idle", "opened", "openFailed"}
SendPC == {"idle", "lock", "try", "write", "sendRet"}
RecvPC == {"stopped", "call", "recheck", "hdr", "body", "drain", "readErr",
           "recvRet", "panic"}

TypeOK ==
  /\ open \in BOOLEAN
  /\ conn \in Conn \cup {Nil}
  /\ connGen \in Nat
  /\ writeMu \in Senders \cup {Nil}
  /\ pc \in [Thread -> DialPC \cup DevPC \cup SendPC \cup RecvPC]
  /\ pc[Dev] \in DialPC \cup DevPC
  /\ pc[Rcv] \in DialPC \cup RecvPC
  /\ \A s \in Senders : pc[s] \in DialPC \cup SendPC
  /\ cont \in [Thread -> DialCall]
  /\ lc \in [Thread -> Conn \cup {Nil}]
  /\ gen \in [Thread -> Nat]
  /\ fresh \in [Thread -> Conn \cup {Nil}]
  /\ attempt \in [Senders -> 0 .. MaxAttempts]
  /\ sz \in [Senders -> Nat]
  /\ rerr \in {"none", "closed", "net", "oversize"}
  /\ status \in [Conn -> {"none", "open", "closed"}]
  /\ out \in [Conn -> {"boundary", "torn", "garbled"}]
  /\ inb \in [Conn -> {"boundary", "mid", "dead"}]

Init ==
  /\ open = FALSE
  /\ conn = Nil
  /\ connGen = 0
  /\ writeMu = Nil
  /\ pc = [t \in Thread |-> IF t = Rcv THEN "stopped" ELSE "idle"]
  /\ cont = [t \in Thread |-> "none"]
  /\ lc = [t \in Thread |-> Nil]
  /\ gen = [t \in Thread |-> 0]
  /\ fresh = [t \in Thread |-> Nil]
  /\ attempt = [s \in Senders |-> 0]
  /\ sz = [s \in Senders |-> 0]
  /\ rerr = "none"
  /\ status = [c \in Conn |-> "none"]
  /\ out = [c \in Conn |-> "boundary"]
  /\ inb = [c \in Conn |-> "boundary"]

Goto(t, l) == pc' = [pc EXCEPT ![t] = l]

-----------------------------------------------------------------------------
(***************************************************************************)
(* dial(staleGen).                                                         *)
(***************************************************************************)

(* Mutant: the generation check is missing. *)
ReconnectedNever(t) == FALSE

(* Another caller has already reconnected. *)
Reconnected(t) == gen[t] # 0 /\ gen[t] # connGen

(* Close the connection in the slot, if any. *)
CloseConn ==
  status' = [c \in Conn |-> IF c = conn THEN "closed" ELSE status[c]]

(* Where the caller goes on, given dial's result. *)
AfterDial(call, res) ==
  CASE call = "open"    -> IF res = "nil" THEN "opened" ELSE "openFailed"
    [] call = "sendNil" -> IF res = "closed" THEN "sendRet" ELSE "try"
    [] call = "sendErr" -> "try"
    [] call = "recvNil" -> IF res = "nil" THEN "recheck" ELSE "recvRet"
    [] call = "recvErr" -> "recvRet"

(* dial returns nil, net.ErrClosed or a dialling error.  receive returns   *)
(* the error itself when it has no connection, and the read error it       *)
(* already holds otherwise.  No caller uses its c or gen after a dial.     *)
DialReturn(t, res) ==
  /\ Goto(t, AfterDial(cont[t], res))
  /\ cont' = [cont EXCEPT ![t] = "none"]
  /\ lc' = [lc EXCEPT ![t] = Nil]
  /\ gen' = [gen EXCEPT ![t] = 0]
  /\ rerr' = IF cont[t] = "recvNil" /\ res # "nil"
             THEN IF res = "closed" THEN "closed" ELSE "net"
             ELSE rerr

(* First critical section: drop the old connection, unless the bind is     *)
(* closed or the caller's connection has already been replaced.            *)
DialStart(t) ==
  /\ pc[t] = "dial"
  /\ \/ /\ ~open
        /\ DialReturn(t, "closed")
        /\ UNCHANGED <<conn, status>>
     \/ /\ open /\ Reconnected(t)
        /\ DialReturn(t, "nil")
        /\ UNCHANGED <<conn, status>>
     \/ /\ open /\ ~Reconnected(t)
        /\ CloseConn
        /\ conn' = Nil
        /\ Goto(t, "dialing")
        /\ UNCHANGED <<cont, rerr, lc, gen>>
  /\ UNCHANGED <<open, connGen, writeMu, fresh, attempt, sz, out, inb>>

(* DialContext succeeds, with no lock held. *)
DialConnected(t, c) ==
  /\ pc[t] = "dialing"
  /\ status[c] = "none"
  /\ status' = [status EXCEPT ![c] = "open"]
  /\ fresh' = [fresh EXCEPT ![t] = c]
  /\ Goto(t, "install")
  /\ UNCHANGED <<bvars, cont, lc, gen, attempt, sz, rerr, out, inb>>

(* DialContext fails or runs into dialTimeout. *)
DialFailed(t) ==
  /\ pc[t] = "dialing"
  /\ DialReturn(t, "err")
  /\ UNCHANGED <<bvars, fresh, attempt, sz, cvars>>

(* Mutant: Close is not noticed, the connection is always installed. *)
DialInstallUnchecked(t) ==
  /\ pc[t] = "install"
  /\ conn' = fresh[t]
  /\ connGen' = connGen + 1
  /\ DialReturn(t, "nil")
  /\ fresh' = [fresh EXCEPT ![t] = Nil]
  /\ UNCHANGED <<open, writeMu, attempt, sz, status, out, inb>>

(* Second critical section: install the new connection, or close it if     *)
(* the bind was closed meanwhile.                                          *)
DialInstall(t) ==
  /\ pc[t] = "install"
  /\ \/ /\ ~open
        /\ status' = [status EXCEPT ![fresh[t]] = "closed"]
        /\ DialReturn(t, "closed")
        /\ UNCHANGED <<conn, connGen>>
     \/ /\ open
        /\ conn' = fresh[t]
        /\ connGen' = connGen + 1
        /\ DialReturn(t, "nil")
        /\ UNCHANGED status
  /\ fresh' = [fresh EXCEPT ![t] = Nil]
  /\ UNCHANGED <<open, writeMu, attempt, sz, out, inb>>

Dial(t) ==
  \/ DialStart(t)
  \/ \E c \in Conn : DialConnected(t, c)
  \/ DialFailed(t)
  \/ DialInstall(t)

-----------------------------------------------------------------------------
(***************************************************************************)
(* Open and Close, called by the device.  The device (external) opens the  *)
(* bind only when the receive routine of the previous Open has ended and   *)
(* no Send is in progress, and calls Send only once Open has returned;     *)
(* it may call Close at any other time.  Open on an open bind returns      *)
(* ErrBindAlreadyOpen and changes nothing.                                 *)
(***************************************************************************)
Open ==
  /\ pc[Dev] = "idle"
  /\ pc[Rcv] = "stopped"
  /\ \A s \in Senders : pc[s] = "idle"
  /\ ~open
  /\ open' = TRUE
  /\ gen' = [gen EXCEPT ![Dev] = connGen]
  /\ cont' = [cont EXCEPT ![Dev] = "open"]
  /\ Goto(Dev, "dial")
  /\ UNCHANGED <<conn, connGen, writeMu, lc, fresh, attempt, sz, rerr, cvars>>

(* dial failed: open is reverted so that a later BindUpdate can retry. *)
OpenFailed ==
  /\ pc[Dev] = "openFailed"
  /\ open' = FALSE
  /\ Goto(Dev, "idle")
  /\ UNCHANGED <<conn, connGen, writeMu, tvars, cvars>>

(* Open returns b.receive and the device starts the receive routine. *)
OpenReturns ==
  /\ pc[Dev] = "opened"
  /\ pc' = [pc EXCEPT ![Dev] = "idle", ![Rcv] = "call"]
  /\ UNCHANGED <<bvars, tvars, cvars>>

Close ==
  /\ pc[Dev] = "idle"
  /\ open' = FALSE
  /\ CloseConn
  /\ conn' = Nil
  /\ UNCHANGED <<connGen, writeMu, pc, tvars, out, inb>>

-----------------------------------------------------------------------------
(***************************************************************************)
(* Send and sendOne.  BatchSize is 1: a call carries one packet.           *)
(***************************************************************************)

(* Mutant: the limit is off by one. *)
TooLargeOffByOne(n) == n > MaxPacket + 1

TooLarge(n) == n > MaxPacket

(* The 16-bit length prefix PutUint16 writes for a packet of n bytes. *)
Prefix(n) == n % 65536

(* A packet that is too large is refused before anything is changed. *)
Send(s, n) ==
  /\ pc[s] = "idle"
  /\ pc[Dev] = "idle"
  /\ ~TooLarge(n)
  /\ sz' = [sz EXCEPT ![s] = n]
  /\ Goto(s, "lock")
  /\ UNCHANGED <<bvars, cont, lc, gen, fresh, attempt, rerr, cvars>>

SendLock(s) ==
  /\ pc[s] = "lock"
  /\ writeMu = Nil
  /\ writeMu' = s
  /\ attempt' = [attempt EXCEPT ![s] = 0]
  /\ Goto(s, "try")
  /\ UNCHANGED <<open, conn, connGen, cont, lc, gen, fresh, sz, rerr, cvars>>

(* Mutant: one attempt too many. *)
SendLeftOneMore(s) == attempt[s] <= MaxAttempts

(* for attempt := 0; attempt < 3; attempt++ *)
SendLeft(s) == attempt[s] < MaxAttempts

(* The head of the retry loop, up to currentConn's critical section.       *)
(* Without a connection the next dial is dial(0).                          *)
SendTry(s) ==
  /\ pc[s] = "try"
  /\ \/ /\ ~SendLeft(s)
        /\ Goto(s, "sendRet")
        /\ UNCHANGED <<attempt, lc, gen, cont>>
     \/ /\ SendLeft(s)
        /\ attempt' = [attempt EXCEPT ![s] = @ + 1]
        /\ lc' = [lc EXCEPT ![s] = conn]
        /\ gen' = [gen EXCEPT ![s] = IF conn = Nil THEN 0 ELSE connGen]
        /\ \/ /\ ~open
              /\ Goto(s, "sendRet")
              /\ UNCHANGED cont
           \/ /\ open /\ conn = Nil
              /\ cont' = [cont EXCEPT ![s] = "sendNil"]
              /\ Goto(s, "dial")
           \/ /\ open /\ conn # Nil
              /\ Goto(s, "write")
              /\ UNCHANGED cont
  /\ UNCHANGED <<bvars, fresh, sz, rerr, cvars>>

(* What a whole frame of n bytes, and a part of a frame, make of an        *)
(* outgoing stream: the peer can parse it only if every frame starts at a  *)
(* boundary and is as long as its prefix says.                             *)
AddFrame(o, n) ==
  IF o = "boundary" /\ Prefix(n) = n THEN "boundary" ELSE "garbled"
AddPart(o) == IF o = "boundary" THEN "torn" ELSE "garbled"

(* c.Write(buf): the whole frame, or an error after none or a part of it;  *)
(* nothing is written to a connection this side has closed.  An error of   *)
(* Write does not promise that a later Write on the connection fails.      *)
SendWrite(s) ==
  /\ pc[s] = "write"
  /\ \/ /\ status[lc[s]] = "open"
        /\ out' = [out EXCEPT ![lc[s]] = AddFrame(@, sz[s])]
        /\ Goto(s, "sendRet")
        /\ UNCHANGED cont
     \/ /\ \/ UNCHANGED out
           \/ /\ status[lc[s]] = "open"
              /\ out' = [out EXCEPT ![lc[s]] = AddPart(@)]
        /\ cont' = [cont EXCEPT ![s] = "sendErr"]
        /\ Goto(s, "dial")
  /\ UNCHANGED <<bvars, lc, gen, fresh, attempt, sz, rerr, status, inb>>

(* Mutant: writeMu is not released. *)
SendReturnLocked(s) ==
  /\ pc[s] = "sendRet"
  /\ Goto(s, "idle")
  /\ UNCHANGED <<bvars, tvars, cvars>>

SendReturn(s) ==
  /\ pc[s] = "sendRet"
  /\ writeMu' = Nil
  /\ lc' = [lc EXCEPT ![s] = Nil]
  /\ gen' = [gen EXCEPT ![s] = 0]
  /\ sz' = [sz EXCEPT ![s] = 0]
  /\ attempt' = [attempt EXCEPT ![s] = 0]
  /\ Goto(s, "idle")
  /\ UNCHANGED <<open, conn, connGen, cont, fresh, rerr, cvars>>

SendOne(s) == SendLock(s) \/ SendTry(s) \/ SendWrite(s) \/ SendReturn(s)

-----------------------------------------------------------------------------
(***************************************************************************)
(* receive.                                                                *)
(***************************************************************************)

(* currentConn on entry; without a connection the next dial is dial(0). *)
Receive ==
  /\ pc[Rcv] = "call"
  /\ lc' = [lc EXCEPT ![Rcv] = conn]
  /\ gen' = [gen EXCEPT ![Rcv] = IF conn = Nil THEN 0 ELSE connGen]
  /\ \/ /\ ~open
        /\ rerr' = "closed"
        /\ Goto(Rcv, "recvRet")
        /\ UNCHANGED cont
     \/ /\ open /\ conn = Nil
        /\ cont' = [cont EXCEPT ![Rcv] = "recvNil"]
        /\ Goto(Rcv, "dial")
        /\ UNCHANGED rerr
     \/ /\ open /\ conn # Nil
        /\ Goto(Rcv, "hdr")
        /\ UNCHANGED <<rerr, cont>>
  /\ UNCHANGED <<bvars, fresh, attempt, sz, cvars>>

(* currentConn after dial(0): only b.open is looked at, not c. *)
ReceiveRecheck ==
  /\ pc[Rcv] = "recheck"
  /\ lc' = [lc EXCEPT ![Rcv] = conn]
  /\ gen' = [gen EXCEPT ![Rcv] = connGen]
  /\ \/ /\ ~open
        /\ rerr' = "closed"
        /\ Goto(Rcv, "recvRet")
     \/ /\ open
        /\ Goto(Rcv, "hdr")
        /\ UNCHANGED rerr
  /\ UNCHANGED <<bvars, cont, fresh, attempt, sz, cvars>>

(* A read of c can return data; a read of c fails, for good. *)
Readable(c) == status[c] = "open" /\ inb[c] # "dead"
Unreadable(c) == status[c] = "closed" \/ inb[c] = "dead"

(* The error of a failed read: one that errors.Is(err, net.ErrClosed) when *)
(* this side has closed the connection, a network error otherwise.         *)
ReadError(c) == IF status[c] = "closed" THEN "closed" ELSE "net"

(* ReadFull of the length prefix.  A prefix of 0 is an empty packet, one   *)
(* above the buffer's length goes to the draining branch.  Reading from a  *)
(* nil connection panics.                                                  *)
ReadHeader ==
  /\ pc[Rcv] = "hdr"
  /\ LET c == lc[Rcv] IN
     \/ /\ c = Nil
        /\ Goto(Rcv, "panic")
        /\ UNCHANGED <<inb, rerr>>
     \/ /\ c # Nil /\ Readable(c)
        /\ \/ Goto(Rcv, "call") /\ UNCHANGED inb
           \/ /\ \E l \in {"body", "drain"} : Goto(Rcv, l)
              /\ inb' = [inb EXCEPT ![c] = "mid"]
        /\ UNCHANGED rerr
     \/ /\ c # Nil /\ Unreadable(c)
        /\ rerr' = ReadError(c)
        /\ Goto(Rcv, "readErr")
        /\ UNCHANGED inb
  /\ UNCHANGED <<bvars, cont, lc, gen, fresh, attempt, sz, status, out>>

(* ReadFull of the payload; the packet is returned and the device calls    *)
(* receive again.                                                          *)
ReadBody ==
  /\ pc[Rcv] = "body"
  /\ LET c == lc[Rcv] IN
     \/ /\ Readable(c)
        /\ inb' = [inb EXCEPT ![c] = "boundary"]
        /\ Goto(Rcv, "call")
        /\ UNCHANGED rerr
     \/ /\ Unreadable(c)
        /\ rerr' = ReadError(c)
        /\ Goto(Rcv, "readErr")
        /\ UNCHANGED inb
  /\ UNCHANGED <<bvars, cont, lc, gen, fresh, attempt, sz, status, out>>

(* Mutant: the oversized frame is left in the stream. *)
DrainFrameSkipped ==
  /\ pc[Rcv] = "drain"
  /\ rerr' = "oversize"
  /\ Goto(Rcv, "recvRet")
  /\ UNCHANGED <<bvars, cont, lc, gen, fresh, attempt, sz, cvars>>

(* ReadFull of an oversized frame into discard, its error ignored. *)
DrainFrame ==
  /\ pc[Rcv] = "drain"
  /\ LET c == lc[Rcv] IN
     \/ Readable(c) /\ inb' = [inb EXCEPT ![c] = "boundary"]
     \/ Unreadable(c) /\ UNCHANGED inb
  /\ rerr' = "oversize"
  /\ Goto(Rcv, "recvRet")
  /\ UNCHANGED <<bvars, cont, lc, gen, fresh, attempt, sz, status, out>>

(* After a failed read: isOpen's critical section, then dial(gen). *)
ReadFailed ==
  /\ pc[Rcv] = "readErr"
  /\ \/ /\ ~open
        /\ rerr' = "closed"
        /\ Goto(Rcv, "recvRet")
        /\ UNCHANGED cont
     \/ /\ open
        /\ cont' = [cont EXCEPT ![Rcv] = "recvErr"]
        /\ Goto(Rcv, "dial")
        /\ UNCHANGED rerr
  /\ UNCHANGED <<bvars, lc, gen, fresh, attempt, sz, cvars>>

(* receive returns an error.  The device (external) ends the receive       *)
(* routine on net.ErrClosed and calls receive again on any other error.    *)
ReceiveReturn ==
  /\ pc[Rcv] = "recvRet"
  /\ Goto(Rcv, IF rerr = "closed" THEN "stopped" ELSE "call")
  /\ rerr' = "none"
  /\ lc' = [lc EXCEPT ![Rcv] = Nil]
  /\ gen' = [gen EXCEPT ![Rcv] = 0]
  /\ UNCHANGED <<bvars, cont, fresh, attempt, sz, cvars>>

ReceiveStep ==
  \/ Receive \/ ReceiveRecheck \/ ReadHeader \/ ReadBody \/ DrainFrame
  \/ ReadFailed \/ ReceiveReturn

-----------------------------------------------------------------------------
(* The peer or the network ends a connection: every later read fails. *)
PeerDrop(c) ==
  /\ status[c] = "open"
  /\ inb[c] # "dead"
  /\ inb' = [inb EXCEPT ![c] = "dead"]
  /\ UNCHANGED <<bvars, pc, tvars, status, out>>

Next ==
  \/ Open \/ OpenFailed \/ OpenReturns \/ Close
  \/ \E t \in Thread : Dial(t)
  \/ \E s \in Senders : SendOne(s) \/ \E n \in Sizes : Send(s, n)
  \/ ReceiveStep
  \/ \E c \in Conn : PeerDrop(c)

Spec == Init /\ [][Next]_vars

(***************************************************************************)
(* Fairness.  Go's scheduler runs every runnable goroutine and sync.Mutex  *)
(* is starvation-free, so a goroutine that can step does, and one that     *)
(* waits for writeMu gets it.  dialTimeout bounds DialContext.  TCP is     *)
(* taken to accept or refuse every Write in the end.  A read is only sure  *)
(* to end on a connection that is closed or dead: a silent peer may leave  *)
(* the receive routine blocked for ever.  Nothing makes the device call    *)
(* Open, Close or Send, or a connection drop.                              *)
(***************************************************************************)
ReceiveProgress ==
  \/ Receive \/ ReceiveRecheck \/ ReadFailed \/ ReceiveReturn
  \/ /\ lc[Rcv] # Nil => Unreadable(lc[Rcv])
     /\ ReadHeader \/ ReadBody \/ DrainFrame

Fairness ==
  /\ \A t \in Thread : WF_vars(Dial(t))
  /\ \A s \in Senders : /\ SF_vars(SendLock(s))
                        /\ WF_vars(SendTry(s) \/ SendWrite(s) \/ SendReturn(s))
  /\ WF_vars(OpenFailed \/ OpenReturns)
  /\ WF_vars(ReceiveProgress)

FairSpec == Spec /\ Fairness

-----------------------------------------------------------------------------
(***************************************************************************)
(* Properties the code has.                                                *)
(***************************************************************************)

(* No connection ever carries bytes the peer cannot parse: every frame     *)
(* sendOne writes starts where the previous whole frame ended and its      *)
(* 16-bit prefix is its length, so nothing is written after a frame that   *)
(* was cut short by an I/O error.                                          *)
FramingIntact == \A c \in Conn : out[c] # "garbled"

(* receive only starts to parse a length prefix at a frame boundary of a   *)
(* connection that can still deliver data: oversized frames are drained,   *)
(* and a connection left in the middle of a frame is never read again.     *)
ReadInSync ==
  pc[Rcv] = "hdr" /\ lc[Rcv] # Nil /\ status[lc[Rcv]] = "open"
    => inb[lc[Rcv]] # "mid"

(* A closed bind holds no connection: neither Close nor a failed Open, nor *)
(* a dial that was under way when Close ran, leaves one in b.conn.         *)
ClosedIsDown == ~open => conn = Nil

(* The dial a thread makes because its own read or write failed never      *)
(* closes a connection other than the one that failed: when somebody else  *)
(* has reconnected since, connGen differs from staleGen and dial does      *)
(* nothing.                                                                *)
StaleDialSparesNewer ==
  [][\A t \in Thread :
       /\ pc[t] = "dial" /\ pc'[t] = "dialing"
       /\ cont[t] \in {"sendErr", "recvErr"}
       /\ conn # Nil
       => conn = lc[t]]_vars

(* Every Send comes back: each path out of sendOne's three attempts        *)
(* releases writeMu, so no sender waits for ever behind another.           *)
SendReturns == \A s \in Senders : pc[s] = "lock" ~> pc[s] = "idle"

(* A connection that has been dialled and is neither in b.conn nor held by *)
(* the dial that made it will never be used again.                         *)
Spent == {c \in Conn : /\ status[c] # "none"
                       /\ c # conn
                       /\ \A t \in Thread : fresh[t] # c}

B == INSTANCE Bind WITH Transport <- Conn, None <- Nil, cur <- conn,
                        spent <- Spent

(* The bind keeps the contract of Bind, whoever dials, fails or closes in  *)
(* between: a connection is taken into use only while the bind is open, at *)
(* most once, and Close takes it away.                                     *)
ImplementsBind == B!Spec

-----------------------------------------------------------------------------
(***************************************************************************)
(* Properties the comments of tcpbind.go claim and the code does not have. *)
(***************************************************************************)

(* "reopened transparently on I/O failure as long as the bind is open":    *)
(* receive never reads from a nil connection.                              *)
NoNilRead == pc[Rcv] # "panic"

(* "Close() and then Open() - that lifecycle is supported": the device     *)
(* waits for the receive routine to end before it calls Open again, so     *)
(* once the bind is closed a read of the receive routine must fail.        *)
CloseUnblocksReceiver ==
  ~open /\ pc[Rcv] \in {"hdr", "body", "drain"} /\ lc[Rcv] # Nil
    => Unreadable(lc[Rcv])

=============================================================================
