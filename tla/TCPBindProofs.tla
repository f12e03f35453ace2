--------------------------- MODULE TCPBindProofs ---------------------------
(***************************************************************************)
(* Proofs about TCPBind, for any number of senders, connections and packet *)
(* lengths.                                                                *)
(*                                                                         *)
(* The inductive invariant IInv says who may hold what.  Its parts follow  *)
(* the code's reasons: a thread inside dial() got there from one of the    *)
(* calls of its own goroutine (DialCalls); nothing else runs while Open    *)
(* runs (OpenAlone); writeMu is held from the first attempt to the return  *)
(* (LockHeld); generations tell whether a thread's connection is still the *)
(* bind's (Generations); a connection DialContext has just returned is     *)
(* known to nobody else (FreshPrivate); and the bind's connection ends at  *)
(* a frame boundary unless the sender that tore it is about to drop it     *)
(* (ConnWhole).                                                            *)
(***************************************************************************)
EXTENDS TCPBind, TLAPS

(* A thread is inside dial() exactly when it has a call of dial() of its   *)
(* own kind to come back to.                                               *)
DialCalls ==
  /\ \A t \in Thread : pc[t] \in DialPC <=> cont[t] # "none"
  /\ cont[Dev] \in {"none", "open"}
  /\ cont[Rcv] \in {"none", "recvNil", "recvErr"}
  /\ \A s \in Senders : cont[s] \in {"none", "sendNil", "sendErr"}

(* While Open runs nobody else does, and until it has dialled the bind has *)
(* no connection.  The device never has a copy of a connection.            *)
OpenAlone ==
  /\ pc[Dev] # "idle" =>
       pc[Rcv] = "stopped" /\ \A s \in Senders : pc[s] = "idle"
  /\ pc[Dev] \in DialPC \cup {"openFailed"} => conn = Nil
  /\ lc[Dev] = Nil

(* The senders inside sendOne are the holder of writeMu. *)
LockHeld ==
  \A s \in Senders :
    writeMu = s <=> pc[s] \in {"try", "write", "sendRet"} \cup DialPC

(* A thread that writes, reads or redials has a connection. *)
HasConn ==
  /\ \A s \in Senders : pc[s] = "write" => lc[s] # Nil
  /\ pc[Rcv] \in {"body", "drain", "readErr"} => lc[Rcv] # Nil
  /\ \A t \in Thread : cont[t] \in {"sendErr", "recvErr"} => lc[t] # Nil

(* The generation a thread read with its connection is current exactly     *)
(* when the bind still has that connection.                                *)
Generations ==
  /\ conn # Nil => connGen > 0
  /\ \A t \in Thread : lc[t] # Nil =>
       /\ 0 < gen[t] /\ gen[t] <= connGen
       /\ conn # Nil => (conn = lc[t] <=> gen[t] = connGen)

(* A connection that has just been dialled is known to its dialler only. *)
FreshPrivate ==
  \A t \in Thread :
    /\ pc[t] = "install" <=> fresh[t] # Nil
    /\ fresh[t] # Nil =>
         /\ fresh[t] # conn
         /\ status[fresh[t]] # "none" /\ out[fresh[t]] = "boundary"
         /\ \A u \in Thread : /\ lc[u] # fresh[t]
                              /\ u # t => fresh[u] # fresh[t]

(* A connection that does not exist yet is nobody's and carries nothing. *)
UnusedConns ==
  \A c \in Conn : status[c] = "none" =>
    /\ out[c] = "boundary" /\ inb[c] = "boundary"
    /\ c # conn
    /\ \A t \in Thread : c # lc[t]

(* The bind's connection ends at a frame boundary, unless a sender whose   *)
(* Write failed on it is about to enter dial().                            *)
ConnWhole ==
  conn # Nil /\ out[conn] # "boundary" =>
    \E s \in Senders : pc[s] = "dial" /\ cont[s] = "sendErr" /\ lc[s] = conn

(* A sender writes a packet that fits the prefix at a frame boundary. *)
WriteWhole ==
  \A s \in Senders :
    /\ sz[s] <= MaxPacket
    /\ pc[s] = "write" => out[lc[s]] = "boundary"

(* A connection left in the middle of an incoming frame is closed, unless  *)
(* the receive routine is still reading that frame.                        *)
MidOwned ==
  \A c \in Conn : inb[c] = "mid" =>
    \/ status[c] = "closed"
    \/ pc[Rcv] \in {"body", "drain"} /\ lc[Rcv] = c

IInv ==
  /\ TypeOK /\ DialCalls /\ OpenAlone /\ ClosedIsDown /\ LockHeld /\ HasConn
  /\ Generations /\ FreshPrivate /\ UnusedConns /\ ConnWhole /\ WriteWhole
  /\ FramingIntact /\ MidOwned

-----------------------------------------------------------------------------
(***************************************************************************)
(* Every step preserves the inductive invariant, one lemma per action.     *)
(***************************************************************************)

(* Open marks the bind open and enters dial(). *)
LEMMA OpenPreserves ==
  ASSUME IInv, Open PROVE IInv'
<1> USE ThreadAssumption, NilAssumption, SizesAssumption
    DEF Thread, Goto, DialPC, bvars, tvars, cvars
<1>1. TypeOK' BY DEF Open, IInv, TypeOK, DialCall
<1>2. DialCalls' BY DEF Open, IInv, TypeOK, DialCalls
<1>3. OpenAlone' BY DEF Open, IInv, OpenAlone, ClosedIsDown
<1>4. ClosedIsDown' BY DEF Open, IInv, ClosedIsDown
<1>5. LockHeld' BY DEF Open, IInv, LockHeld
<1>6. HasConn' BY DEF Open, IInv, HasConn
<1>7. Generations' BY DEF Open, IInv, Generations, OpenAlone
<1>8. FreshPrivate' BY DEF Open, IInv, FreshPrivate
<1>9. ConnWhole' BY DEF Open, IInv, ConnWhole
<1>10. WriteWhole' BY DEF Open, IInv, WriteWhole
<1>11. MidOwned' BY DEF Open, IInv, MidOwned
<1>12. UnusedConns' /\ FramingIntact'
  BY DEF Open, IInv, UnusedConns, FramingIntact
<1> QED BY <1>1, <1>2, <1>3, <1>4, <1>5, <1>6, <1>7, <1>8, <1>9, <1>10,
      <1>11, <1>12 DEF IInv

(* A failed Open reverts open; no connection was installed meanwhile. *)
LEMMA OpenFailedPreserves ==
  ASSUME IInv, OpenFailed PROVE IInv'
<1> USE ThreadAssumption, NilAssumption, SizesAssumption
    DEF Thread, Goto, DialPC, bvars, tvars, cvars
<1>1. TypeOK' BY DEF OpenFailed, IInv, TypeOK, DevPC
<1>2. DialCalls' BY DEF OpenFailed, IInv, DialCalls
<1>3. OpenAlone' BY DEF OpenFailed, IInv, OpenAlone
<1>4. ClosedIsDown' BY DEF OpenFailed, IInv, ClosedIsDown, OpenAlone
<1>5. LockHeld' BY DEF OpenFailed, IInv, LockHeld
<1>6. HasConn' BY DEF OpenFailed, IInv, HasConn
<1>7. FreshPrivate' BY DEF OpenFailed, IInv, FreshPrivate
<1>8. ConnWhole' BY DEF OpenFailed, IInv, ConnWhole
<1>9. WriteWhole' BY DEF OpenFailed, IInv, WriteWhole
<1>10. MidOwned' BY DEF OpenFailed, IInv, MidOwned
<1>11. Generations' /\ UnusedConns' /\ FramingIntact'
  BY DEF OpenFailed, IInv, Generations, UnusedConns, FramingIntact
<1> QED BY <1>1, <1>2, <1>3, <1>4, <1>5, <1>6, <1>7, <1>8, <1>9, <1>10, <1>11
           DEF IInv

(* Open returns and the receive routine starts. *)
LEMMA OpenReturnsPreserves ==
  ASSUME IInv, OpenReturns PROVE IInv'
<1> USE ThreadAssumption, NilAssumption, SizesAssumption
    DEF Thread, Goto, DialPC, bvars, tvars, cvars
<1>1. TypeOK' BY DEF OpenReturns, IInv, TypeOK, DevPC, RecvPC
<1>2. DialCalls' BY DEF OpenReturns, IInv, TypeOK, DialCalls, OpenAlone
<1>3. OpenAlone' BY DEF OpenReturns, IInv, TypeOK, OpenAlone
<1>4. LockHeld' BY DEF OpenReturns, IInv, TypeOK, LockHeld
<1>5. HasConn' BY DEF OpenReturns, IInv, TypeOK, HasConn
<1>6. FreshPrivate' BY DEF OpenReturns, IInv, TypeOK, FreshPrivate, OpenAlone
<1>7. ConnWhole' BY DEF OpenReturns, IInv, TypeOK, ConnWhole
<1>8. WriteWhole' BY DEF OpenReturns, IInv, TypeOK, WriteWhole
<1>9. MidOwned' BY DEF OpenReturns, IInv, MidOwned, OpenAlone
<1>10. ClosedIsDown' /\ Generations' /\ UnusedConns' /\ FramingIntact'
  BY DEF OpenReturns, IInv, ClosedIsDown, Generations, UnusedConns,
         FramingIntact
<1> QED BY <1>1, <1>2, <1>3, <1>4, <1>5, <1>6, <1>7, <1>8, <1>9, <1>10 DEF
           IInv

(* Close drops the connection and marks the bind closed. *)
LEMMA ClosePreserves ==
  ASSUME IInv, Close PROVE IInv'
<1> USE ThreadAssumption, NilAssumption, SizesAssumption
    DEF Thread, Goto, DialPC, bvars, tvars, cvars
<1>1. TypeOK' BY DEF Close, CloseConn, IInv, TypeOK
<1>2. OpenAlone' BY DEF Close, IInv, OpenAlone
<1>3. ClosedIsDown' BY DEF Close, IInv, ClosedIsDown
<1>4. Generations' BY DEF Close, IInv, Generations
<1>5. FreshPrivate' BY DEF Close, CloseConn, IInv, TypeOK, FreshPrivate
<1>6. UnusedConns' BY DEF Close, CloseConn, IInv, UnusedConns
<1>7. ConnWhole' BY DEF Close, IInv, ConnWhole
<1>8. MidOwned' BY DEF Close, CloseConn, IInv, MidOwned
<1>9. DialCalls' /\ LockHeld' /\ HasConn' /\ WriteWhole' /\ FramingIntact'
  BY DEF Close, IInv, DialCalls, LockHeld, HasConn, WriteWhole, FramingIntact
<1> QED BY <1>1, <1>2, <1>3, <1>4, <1>5, <1>6, <1>7, <1>8, <1>9 DEF IInv

(* The first critical section of dial(). *)
LEMMA DialStartPreserves ==
  ASSUME NEW t \in Thread, IInv, DialStart(t) PROVE IInv'
<1> USE ThreadAssumption, NilAssumption, SizesAssumption
    DEF Thread, Goto, DialPC, bvars, tvars, cvars
<1>1. TypeOK'
  BY DEF DialStart, DialReturn, AfterDial, CloseConn, DialCall, IInv, TypeOK,
         DialCalls, DevPC, SendPC, RecvPC
<1>2. DialCalls'
  BY DEF DialStart, DialReturn, AfterDial, IInv, TypeOK, DialCalls
<1>3. OpenAlone' BY DEF DialStart, DialReturn, IInv, TypeOK, OpenAlone
<1>4. ClosedIsDown' BY DEF DialStart, IInv, ClosedIsDown
<1>5. LockHeld'
  BY DEF DialStart, DialReturn, AfterDial, IInv, TypeOK, LockHeld, DialCalls
<1>6. HasConn'
  BY DEF DialStart, DialReturn, AfterDial, IInv, TypeOK, HasConn, DialCalls
<1>7. Generations' BY DEF DialStart, DialReturn, IInv, TypeOK, Generations
<1>8. FreshPrivate'
  BY DEF DialStart, DialReturn, AfterDial, CloseConn, IInv, TypeOK,
         FreshPrivate, DialCalls
<1>9. UnusedConns'
  BY DEF DialStart, DialReturn, CloseConn, IInv, TypeOK, UnusedConns
<1>10. ConnWhole'
  BY DEF DialStart, DialReturn, Reconnected, IInv, TypeOK, ConnWhole,
         Generations, ClosedIsDown
<1>11. WriteWhole'
  BY DEF DialStart, DialReturn, AfterDial, IInv, TypeOK, WriteWhole,
         DialCalls
<1>12. MidOwned'
  BY DEF DialStart, DialReturn, CloseConn, IInv, TypeOK, MidOwned
<1>13. FramingIntact' BY DEF DialStart, IInv, FramingIntact
<1> QED BY <1>1, <1>2, <1>3, <1>4, <1>5, <1>6, <1>7, <1>8, <1>9, <1>10,
      <1>11, <1>12, <1>13 DEF IInv

(* DialContext returns a connection nobody knows yet. *)
LEMMA DialConnectedPreserves ==
  ASSUME NEW t \in Thread, NEW c \in Conn, IInv, DialConnected(t, c)
  PROVE IInv'
<1> USE ThreadAssumption, NilAssumption, SizesAssumption
    DEF Thread, Goto, DialPC, bvars, tvars, cvars
<1>1. TypeOK' BY DEF DialConnected, IInv, TypeOK
<1>2. DialCalls' BY DEF DialConnected, IInv, DialCalls
<1>3. OpenAlone' BY DEF DialConnected, IInv, OpenAlone
<1>4. LockHeld' BY DEF DialConnected, IInv, LockHeld
<1>5. HasConn' BY DEF DialConnected, IInv, HasConn
<1>6. FreshPrivate'
  BY DEF DialConnected, IInv, TypeOK, FreshPrivate, UnusedConns
<1>7. UnusedConns' BY DEF DialConnected, IInv, UnusedConns
<1>8. ConnWhole' BY DEF DialConnected, IInv, ConnWhole
<1>9. WriteWhole' BY DEF DialConnected, IInv, WriteWhole
<1>10. MidOwned' BY DEF DialConnected, IInv, MidOwned
<1>11. ClosedIsDown' /\ Generations' /\ FramingIntact'
  BY DEF DialConnected, IInv, ClosedIsDown, Generations, FramingIntact
<1> QED BY <1>1, <1>2, <1>3, <1>4, <1>5, <1>6, <1>7, <1>8, <1>9, <1>10, <1>11
           DEF IInv

(* DialContext fails. *)
LEMMA DialFailedPreserves ==
  ASSUME NEW t \in Thread, IInv, DialFailed(t) PROVE IInv'
<1> USE ThreadAssumption, NilAssumption, SizesAssumption
    DEF Thread, Goto, DialPC, bvars, tvars, cvars
<1>1. TypeOK'
  BY DEF DialFailed, DialReturn, AfterDial, DialCall, IInv, TypeOK,
         DialCalls, DevPC, SendPC, RecvPC
<1>2. DialCalls'
  BY DEF DialFailed, DialReturn, AfterDial, IInv, TypeOK, DialCalls
<1>3. OpenAlone' BY DEF DialFailed, DialReturn, IInv, OpenAlone
<1>4. LockHeld'
  BY DEF DialFailed, DialReturn, AfterDial, IInv, LockHeld, DialCalls
<1>5. HasConn'
  BY DEF DialFailed, DialReturn, AfterDial, IInv, TypeOK, HasConn, DialCalls
<1>6. Generations' BY DEF DialFailed, DialReturn, IInv, TypeOK, Generations
<1>7. FreshPrivate'
  BY DEF DialFailed, DialReturn, AfterDial, IInv, FreshPrivate, DialCalls
<1>8. UnusedConns' BY DEF DialFailed, DialReturn, IInv, UnusedConns
<1>9. ConnWhole' BY DEF DialFailed, DialReturn, IInv, ConnWhole
<1>10. WriteWhole'
  BY DEF DialFailed, DialReturn, AfterDial, IInv, WriteWhole, DialCalls
<1>11. MidOwned' BY DEF DialFailed, DialReturn, IInv, MidOwned
<1>12. ClosedIsDown' /\ FramingIntact'
  BY DEF DialFailed, IInv, ClosedIsDown, FramingIntact
<1> QED BY <1>1, <1>2, <1>3, <1>4, <1>5, <1>6, <1>7, <1>8, <1>9, <1>10,
      <1>11, <1>12 DEF IInv

(* The second critical section of dial(). *)
LEMMA DialInstallPreserves ==
  ASSUME NEW t \in Thread, IInv, DialInstall(t) PROVE IInv'
<1> USE ThreadAssumption, NilAssumption, SizesAssumption
    DEF Thread, Goto, DialPC, bvars, tvars, cvars
<1>1. TypeOK'
  BY DEF DialInstall, DialReturn, AfterDial, DialCall, IInv, TypeOK,
         DialCalls, DevPC, SendPC, RecvPC
<1>2. DialCalls'
  BY DEF DialInstall, DialReturn, AfterDial, IInv, TypeOK, DialCalls
<1>3. OpenAlone'
  BY DEF DialInstall, DialReturn, AfterDial, IInv, TypeOK, OpenAlone,
         DialCalls
<1>4. ClosedIsDown' BY DEF DialInstall, IInv, ClosedIsDown
<1>5. LockHeld'
  BY DEF DialInstall, DialReturn, AfterDial, IInv, TypeOK, LockHeld,
         DialCalls
<1>6. HasConn'
  BY DEF DialInstall, DialReturn, AfterDial, IInv, TypeOK, HasConn, DialCalls
<1>7. Generations'
  BY DEF DialInstall, DialReturn, IInv, TypeOK, Generations, FreshPrivate
<1>8. FreshPrivate'
  BY DEF DialInstall, DialReturn, AfterDial, IInv, TypeOK, FreshPrivate,
         DialCalls
<1>9. UnusedConns'
  BY DEF DialInstall, DialReturn, IInv, TypeOK, UnusedConns, FreshPrivate
<1>10. ConnWhole'
  BY DEF DialInstall, IInv, ConnWhole, ClosedIsDown, FreshPrivate
<1>11. WriteWhole'
  BY DEF DialInstall, DialReturn, AfterDial, IInv, TypeOK, WriteWhole,
         DialCalls
<1>12. MidOwned' BY DEF DialInstall, DialReturn, IInv, TypeOK, MidOwned
<1>13. FramingIntact' BY DEF DialInstall, IInv, FramingIntact
<1> QED BY <1>1, <1>2, <1>3, <1>4, <1>5, <1>6, <1>7, <1>8, <1>9, <1>10,
      <1>11, <1>12, <1>13 DEF IInv

(* Send accepts a packet. *)
LEMMA SendPreserves ==
  ASSUME NEW s \in Senders, NEW n \in Sizes, IInv, Send(s, n)
  PROVE IInv'
<1> USE ThreadAssumption, NilAssumption, SizesAssumption
    DEF Thread, Goto, DialPC, bvars, tvars, cvars
<1>1. TypeOK' BY DEF Send, IInv, TypeOK, SendPC
<1>2. DialCalls' BY DEF Send, IInv, DialCalls
<1>3. OpenAlone' BY DEF Send, IInv, OpenAlone
<1>4. LockHeld' BY DEF Send, IInv, LockHeld
<1>5. HasConn' BY DEF Send, IInv, HasConn
<1>6. FreshPrivate' BY DEF Send, IInv, FreshPrivate
<1>7. ConnWhole' BY DEF Send, IInv, ConnWhole
<1>8. WriteWhole' BY DEF Send, TooLarge, IInv, WriteWhole, MaxPacket
<1>9. MidOwned' BY DEF Send, IInv, MidOwned
<1>10. ClosedIsDown' /\ Generations' /\ UnusedConns' /\ FramingIntact'
  BY DEF Send, IInv, ClosedIsDown, Generations, UnusedConns, FramingIntact
<1> QED BY <1>1, <1>2, <1>3, <1>4, <1>5, <1>6, <1>7, <1>8, <1>9, <1>10 DEF
           IInv

(* sendOne takes writeMu. *)
LEMMA SendLockPreserves ==
  ASSUME NEW s \in Senders, IInv, SendLock(s) PROVE IInv'
<1> USE ThreadAssumption, NilAssumption, SizesAssumption
    DEF Thread, Goto, DialPC, bvars, tvars, cvars
<1>1. TypeOK' BY DEF SendLock, IInv, TypeOK, MaxAttempts, SendPC
<1>2. DialCalls' BY DEF SendLock, IInv, DialCalls
<1>3. OpenAlone' BY DEF SendLock, IInv, OpenAlone
<1>4. LockHeld' BY DEF SendLock, IInv, TypeOK, LockHeld
<1>5. HasConn' BY DEF SendLock, IInv, HasConn
<1>6. FreshPrivate' BY DEF SendLock, IInv, FreshPrivate
<1>7. ConnWhole' BY DEF SendLock, IInv, ConnWhole
<1>8. WriteWhole' BY DEF SendLock, IInv, WriteWhole
<1>9. MidOwned' BY DEF SendLock, IInv, MidOwned
<1>10. ClosedIsDown' /\ Generations' /\ UnusedConns' /\ FramingIntact'
  BY DEF SendLock, IInv, ClosedIsDown, Generations, UnusedConns,
         FramingIntact
<1> QED BY <1>1, <1>2, <1>3, <1>4, <1>5, <1>6, <1>7, <1>8, <1>9, <1>10 DEF
           IInv

(* One iteration of sendOne reads the current connection. *)
LEMMA SendTryPreserves ==
  ASSUME NEW s \in Senders, IInv, SendTry(s) PROVE IInv'
<1> USE ThreadAssumption, NilAssumption, SizesAssumption
    DEF Thread, Goto, DialPC, bvars, tvars, cvars
<1>1. TypeOK'
  BY DEF SendTry, SendLeft, IInv, TypeOK, MaxAttempts, DialCall, SendPC
<1>2. DialCalls' BY DEF SendTry, SendLeft, IInv, TypeOK, DialCalls
<1>3. OpenAlone' BY DEF SendTry, SendLeft, IInv, TypeOK, OpenAlone
<1>4. LockHeld' BY DEF SendTry, SendLeft, IInv, TypeOK, LockHeld
<1>5. HasConn' BY DEF SendTry, SendLeft, IInv, TypeOK, HasConn, DialCalls
<1>6. Generations' BY DEF SendTry, SendLeft, IInv, TypeOK, Generations
<1>7. FreshPrivate' BY DEF SendTry, SendLeft, IInv, TypeOK, FreshPrivate
<1>8. UnusedConns' BY DEF SendTry, SendLeft, IInv, TypeOK, UnusedConns
<1>9. ConnWhole' BY DEF SendTry, SendLeft, IInv, TypeOK, ConnWhole
<1>10. WriteWhole'
  BY DEF SendTry, SendLeft, IInv, TypeOK, WriteWhole, ConnWhole, LockHeld
<1>11. MidOwned' BY DEF SendTry, SendLeft, IInv, TypeOK, MidOwned
<1>12. ClosedIsDown' /\ FramingIntact'
  BY DEF SendTry, SendLeft, IInv, ClosedIsDown, FramingIntact
<1> QED BY <1>1, <1>2, <1>3, <1>4, <1>5, <1>6, <1>7, <1>8, <1>9, <1>10,
      <1>11, <1>12 DEF IInv

(* sendOne writes a frame, or a part of one. *)
LEMMA SendWritePreserves ==
  ASSUME NEW s \in Senders, IInv, SendWrite(s) PROVE IInv'
<1> USE ThreadAssumption, NilAssumption, SizesAssumption
    DEF Thread, Goto, DialPC, bvars, tvars, cvars
<1>1. TypeOK'
  BY DEF SendWrite, AddFrame, AddPart, IInv, TypeOK, DialCall, SendPC
<1>2. DialCalls' BY DEF SendWrite, IInv, TypeOK, DialCalls
<1>3. OpenAlone' BY DEF SendWrite, IInv, TypeOK, OpenAlone
<1>4. LockHeld' BY DEF SendWrite, IInv, TypeOK, LockHeld
<1>5. HasConn' BY DEF SendWrite, IInv, TypeOK, HasConn
<1>6. FreshPrivate' BY DEF SendWrite, IInv, TypeOK, FreshPrivate
<1>7. UnusedConns' BY DEF SendWrite, IInv, TypeOK, UnusedConns
<1>8. ConnWhole'
  <2>1. CASE out' = out
    <3>1. conn # Nil => out[conn] = "boundary"
      BY DEF SendWrite, IInv, LockHeld, ConnWhole
    <3> QED BY <2>1, <3>1 DEF SendWrite, ConnWhole, bvars
  <2>2. CASE out' # out
    <3>1. conn # Nil => out[conn] = "boundary"
      BY DEF SendWrite, IInv, LockHeld, ConnWhole
    <3>2. \A c \in Conn : c # lc[s] => out'[c] = out[c]
      BY DEF SendWrite, IInv, TypeOK
    <3>3. CASE conn = lc[s] /\ out'[conn] # "boundary"
      <4>1. pc'[s] = "dial" /\ cont'[s] = "sendErr" /\ lc'[s] = conn'
        BY <3>3 DEF SendWrite, IInv, TypeOK, WriteWhole, AddFrame, Prefix,
                    HasConn, MaxPacket, bvars
      <4> QED BY <4>1 DEF ConnWhole
    <3>4. CASE conn # lc[s] \/ out'[conn] = "boundary"
      BY <3>1, <3>2, <3>4 DEF SendWrite, IInv, TypeOK, ConnWhole, bvars
    <3> QED BY <3>3, <3>4
  <2> QED BY <2>1, <2>2
<1>9. WriteWhole' BY DEF SendWrite, IInv, TypeOK, WriteWhole, LockHeld
<1>10. FramingIntact'
  BY DEF SendWrite, AddFrame, AddPart, Prefix, IInv, TypeOK, FramingIntact,
         WriteWhole, MaxPacket
<1>11. MidOwned' BY DEF SendWrite, IInv, TypeOK, MidOwned
<1>12. ClosedIsDown' /\ Generations'
  BY DEF SendWrite, IInv, ClosedIsDown, Generations
<1> QED BY <1>1, <1>2, <1>3, <1>4, <1>5, <1>6, <1>7, <1>8, <1>9, <1>10,
      <1>11, <1>12 DEF IInv

(* sendOne returns and releases writeMu. *)
LEMMA SendReturnPreserves ==
  ASSUME NEW s \in Senders, IInv, SendReturn(s) PROVE IInv'
<1> USE ThreadAssumption, NilAssumption, SizesAssumption
    DEF Thread, Goto, DialPC, bvars, tvars, cvars
<1>1. TypeOK' BY DEF SendReturn, IInv, TypeOK, MaxAttempts, SendPC
<1>2. DialCalls' BY DEF SendReturn, IInv, DialCalls
<1>3. OpenAlone' BY DEF SendReturn, IInv, OpenAlone
<1>4. LockHeld' BY DEF SendReturn, IInv, TypeOK, LockHeld
<1>5. HasConn' BY DEF SendReturn, IInv, HasConn, DialCalls
<1>6. Generations' BY DEF SendReturn, IInv, TypeOK, Generations
<1>7. FreshPrivate' BY DEF SendReturn, IInv, FreshPrivate
<1>8. UnusedConns' BY DEF SendReturn, IInv, UnusedConns
<1>9. ConnWhole' BY DEF SendReturn, IInv, ConnWhole
<1>10. WriteWhole' BY DEF SendReturn, IInv, WriteWhole, MaxPacket
<1>11. MidOwned' BY DEF SendReturn, IInv, MidOwned
<1>12. ClosedIsDown' /\ FramingIntact'
  BY DEF SendReturn, IInv, ClosedIsDown, FramingIntact
<1> QED BY <1>1, <1>2, <1>3, <1>4, <1>5, <1>6, <1>7, <1>8, <1>9, <1>10,
      <1>11, <1>12 DEF IInv

(* receive reads the current connection. *)
LEMMA ReceivePreserves ==
  ASSUME IInv, Receive PROVE IInv'
<1> USE ThreadAssumption, NilAssumption, SizesAssumption
    DEF Thread, Goto, DialPC, bvars, tvars, cvars
<1>1. TypeOK' BY DEF Receive, IInv, TypeOK, DialCall, RecvPC
<1>2. DialCalls' BY DEF Receive, IInv, TypeOK, DialCalls
<1>3. OpenAlone' BY DEF Receive, IInv, TypeOK, OpenAlone
<1>4. LockHeld' BY DEF Receive, IInv, TypeOK, LockHeld
<1>5. HasConn' BY DEF Receive, IInv, TypeOK, HasConn, DialCalls
<1>6. Generations' BY DEF Receive, IInv, TypeOK, Generations
<1>7. FreshPrivate' BY DEF Receive, IInv, TypeOK, FreshPrivate
<1>8. UnusedConns' BY DEF Receive, IInv, UnusedConns
<1>9. ConnWhole' BY DEF Receive, IInv, TypeOK, ConnWhole
<1>10. WriteWhole' BY DEF Receive, IInv, TypeOK, WriteWhole
<1>11. MidOwned' BY DEF Receive, IInv, MidOwned
<1>12. ClosedIsDown' /\ FramingIntact'
  BY DEF Receive, IInv, ClosedIsDown, FramingIntact
<1> QED BY <1>1, <1>2, <1>3, <1>4, <1>5, <1>6, <1>7, <1>8, <1>9, <1>10,
      <1>11, <1>12 DEF IInv

(* receive reads it again after dial(0). *)
LEMMA ReceiveRecheckPreserves ==
  ASSUME IInv, ReceiveRecheck PROVE IInv'
<1> USE ThreadAssumption, NilAssumption, SizesAssumption
    DEF Thread, Goto, DialPC, bvars, tvars, cvars
<1>1. TypeOK' BY DEF ReceiveRecheck, IInv, TypeOK, RecvPC
<1>2. DialCalls' BY DEF ReceiveRecheck, IInv, TypeOK, DialCalls
<1>3. OpenAlone' BY DEF ReceiveRecheck, IInv, TypeOK, OpenAlone
<1>4. LockHeld' BY DEF ReceiveRecheck, IInv, TypeOK, LockHeld
<1>5. HasConn' BY DEF ReceiveRecheck, IInv, TypeOK, HasConn, DialCalls
<1>6. Generations' BY DEF ReceiveRecheck, IInv, TypeOK, Generations
<1>7. FreshPrivate' BY DEF ReceiveRecheck, IInv, TypeOK, FreshPrivate
<1>8. UnusedConns' BY DEF ReceiveRecheck, IInv, UnusedConns
<1>9. ConnWhole' BY DEF ReceiveRecheck, IInv, TypeOK, ConnWhole
<1>10. WriteWhole' BY DEF ReceiveRecheck, IInv, TypeOK, WriteWhole
<1>11. MidOwned' BY DEF ReceiveRecheck, IInv, MidOwned
<1>12. ClosedIsDown' /\ FramingIntact'
  BY DEF ReceiveRecheck, IInv, ClosedIsDown, FramingIntact
<1> QED BY <1>1, <1>2, <1>3, <1>4, <1>5, <1>6, <1>7, <1>8, <1>9, <1>10,
      <1>11, <1>12 DEF IInv

(* receive reads a length prefix. *)
LEMMA ReadHeaderPreserves ==
  ASSUME IInv, ReadHeader PROVE IInv'
<1> USE ThreadAssumption, NilAssumption, SizesAssumption
    DEF Thread, Goto, DialPC, bvars, tvars, cvars
<1>1. TypeOK' BY DEF ReadHeader, ReadError, IInv, TypeOK, RecvPC
<1>2. DialCalls' BY DEF ReadHeader, IInv, TypeOK, DialCalls
<1>3. OpenAlone' BY DEF ReadHeader, IInv, TypeOK, OpenAlone
<1>4. LockHeld' BY DEF ReadHeader, IInv, TypeOK, LockHeld
<1>5. HasConn' BY DEF ReadHeader, IInv, TypeOK, HasConn
<1>6. FreshPrivate' BY DEF ReadHeader, IInv, TypeOK, FreshPrivate
<1>7. UnusedConns' BY DEF ReadHeader, IInv, TypeOK, UnusedConns
<1>8. ConnWhole' BY DEF ReadHeader, IInv, TypeOK, ConnWhole
<1>9. WriteWhole' BY DEF ReadHeader, IInv, TypeOK, WriteWhole
<1>10. MidOwned' BY DEF ReadHeader, IInv, TypeOK, MidOwned
<1>11. ClosedIsDown' /\ Generations' /\ FramingIntact'
  BY DEF ReadHeader, IInv, ClosedIsDown, Generations, FramingIntact
<1> QED BY <1>1, <1>2, <1>3, <1>4, <1>5, <1>6, <1>7, <1>8, <1>9, <1>10, <1>11
           DEF IInv

(* receive reads a payload. *)
LEMMA ReadBodyPreserves ==
  ASSUME IInv, ReadBody PROVE IInv'
<1> USE ThreadAssumption, NilAssumption, SizesAssumption
    DEF Thread, Goto, DialPC, bvars, tvars, cvars
<1>1. TypeOK' BY DEF ReadBody, ReadError, IInv, TypeOK, RecvPC
<1>2. DialCalls' BY DEF ReadBody, IInv, TypeOK, DialCalls
<1>3. OpenAlone' BY DEF ReadBody, IInv, TypeOK, OpenAlone
<1>4. LockHeld' BY DEF ReadBody, IInv, TypeOK, LockHeld
<1>5. HasConn' BY DEF ReadBody, IInv, TypeOK, HasConn
<1>6. FreshPrivate' BY DEF ReadBody, IInv, TypeOK, FreshPrivate
<1>7. UnusedConns' BY DEF ReadBody, IInv, TypeOK, UnusedConns
<1>8. ConnWhole' BY DEF ReadBody, IInv, TypeOK, ConnWhole
<1>9. WriteWhole' BY DEF ReadBody, IInv, TypeOK, WriteWhole
<1>10. MidOwned' BY DEF ReadBody, Unreadable, IInv, TypeOK, MidOwned
<1>11. ClosedIsDown' /\ Generations' /\ FramingIntact'
  BY DEF ReadBody, IInv, ClosedIsDown, Generations, FramingIntact
<1> QED BY <1>1, <1>2, <1>3, <1>4, <1>5, <1>6, <1>7, <1>8, <1>9, <1>10, <1>11
           DEF IInv

(* receive drains an oversized frame. *)
LEMMA DrainFramePreserves ==
  ASSUME IInv, DrainFrame PROVE IInv'
<1> USE ThreadAssumption, NilAssumption, SizesAssumption
    DEF Thread, Goto, DialPC, bvars, tvars, cvars
<1>1. TypeOK' BY DEF DrainFrame, IInv, TypeOK, RecvPC
<1>2. DialCalls' BY DEF DrainFrame, IInv, DialCalls
<1>3. OpenAlone' BY DEF DrainFrame, IInv, OpenAlone
<1>4. LockHeld' BY DEF DrainFrame, IInv, LockHeld
<1>5. HasConn' BY DEF DrainFrame, IInv, HasConn
<1>6. FreshPrivate' BY DEF DrainFrame, IInv, FreshPrivate
<1>7. UnusedConns' BY DEF DrainFrame, IInv, TypeOK, UnusedConns
<1>8. ConnWhole' BY DEF DrainFrame, IInv, ConnWhole
<1>9. WriteWhole' BY DEF DrainFrame, IInv, WriteWhole
<1>10. MidOwned' BY DEF DrainFrame, Unreadable, IInv, TypeOK, MidOwned
<1>11. ClosedIsDown' /\ Generations' /\ FramingIntact'
  BY DEF DrainFrame, IInv, ClosedIsDown, Generations, FramingIntact
<1> QED BY <1>1, <1>2, <1>3, <1>4, <1>5, <1>6, <1>7, <1>8, <1>9, <1>10, <1>11
           DEF IInv

(* receive reacts to a failed read. *)
LEMMA ReadFailedPreserves ==
  ASSUME IInv, ReadFailed PROVE IInv'
<1> USE ThreadAssumption, NilAssumption, SizesAssumption
    DEF Thread, Goto, DialPC, bvars, tvars, cvars
<1>1. TypeOK' BY DEF ReadFailed, IInv, TypeOK, DialCall, RecvPC
<1>2. DialCalls' BY DEF ReadFailed, IInv, TypeOK, DialCalls
<1>3. OpenAlone' BY DEF ReadFailed, IInv, TypeOK, OpenAlone
<1>4. LockHeld' BY DEF ReadFailed, IInv, TypeOK, LockHeld
<1>5. HasConn' BY DEF ReadFailed, IInv, TypeOK, HasConn
<1>6. FreshPrivate' BY DEF ReadFailed, IInv, TypeOK, FreshPrivate
<1>7. ConnWhole' BY DEF ReadFailed, IInv, TypeOK, ConnWhole
<1>8. WriteWhole' BY DEF ReadFailed, IInv, TypeOK, WriteWhole
<1>9. MidOwned' BY DEF ReadFailed, IInv, MidOwned
<1>10. ClosedIsDown' /\ Generations' /\ UnusedConns' /\ FramingIntact'
  BY DEF ReadFailed, IInv, ClosedIsDown, Generations, UnusedConns,
         FramingIntact
<1> QED BY <1>1, <1>2, <1>3, <1>4, <1>5, <1>6, <1>7, <1>8, <1>9, <1>10 DEF
           IInv

(* receive returns an error. *)
LEMMA ReceiveReturnPreserves ==
  ASSUME IInv, ReceiveReturn PROVE IInv'
<1> USE ThreadAssumption, NilAssumption, SizesAssumption
    DEF Thread, Goto, DialPC, bvars, tvars, cvars
<1>1. TypeOK' BY DEF ReceiveReturn, IInv, TypeOK, RecvPC
<1>2. DialCalls' BY DEF ReceiveReturn, IInv, DialCalls
<1>3. OpenAlone' BY DEF ReceiveReturn, IInv, OpenAlone
<1>4. LockHeld' BY DEF ReceiveReturn, IInv, LockHeld
<1>5. HasConn' BY DEF ReceiveReturn, IInv, HasConn, DialCalls
<1>6. Generations' BY DEF ReceiveReturn, IInv, TypeOK, Generations
<1>7. FreshPrivate' BY DEF ReceiveReturn, IInv, FreshPrivate
<1>8. UnusedConns' BY DEF ReceiveReturn, IInv, UnusedConns
<1>9. ConnWhole' BY DEF ReceiveReturn, IInv, ConnWhole
<1>10. WriteWhole' BY DEF ReceiveReturn, IInv, WriteWhole
<1>11. MidOwned' BY DEF ReceiveReturn, IInv, MidOwned
<1>12. ClosedIsDown' /\ FramingIntact'
  BY DEF ReceiveReturn, IInv, ClosedIsDown, FramingIntact
<1> QED BY <1>1, <1>2, <1>3, <1>4, <1>5, <1>6, <1>7, <1>8, <1>9, <1>10,
      <1>11, <1>12 DEF IInv

(* The peer ends a connection. *)
LEMMA PeerDropPreserves ==
  ASSUME NEW c \in Conn, IInv, PeerDrop(c) PROVE IInv'
<1> USE ThreadAssumption, NilAssumption, SizesAssumption
    DEF Thread, Goto, DialPC, bvars, tvars, cvars
<1>1. TypeOK' BY DEF PeerDrop, IInv, TypeOK
<1>2. UnusedConns' BY DEF PeerDrop, IInv, UnusedConns
<1>3. MidOwned' BY DEF PeerDrop, IInv, MidOwned
<1>4. DialCalls' /\ OpenAlone' /\ ClosedIsDown' /\ LockHeld' /\ HasConn' /\
      Generations' /\ FreshPrivate' /\ ConnWhole' /\ WriteWhole' /\
      FramingIntact'
  BY DEF PeerDrop, IInv, DialCalls, OpenAlone, ClosedIsDown, LockHeld,
         HasConn, Generations, FreshPrivate, ConnWhole, WriteWhole,
         FramingIntact
<1> QED BY <1>1, <1>2, <1>3, <1>4 DEF IInv

LEMMA StutterPreserves ==
  ASSUME IInv, UNCHANGED vars PROVE IInv'
BY DEF IInv, TypeOK, DialCalls, OpenAlone, ClosedIsDown, LockHeld, HasConn,
       Generations, FreshPrivate, UnusedConns, ConnWhole, WriteWhole,
       FramingIntact, MidOwned, vars, bvars, tvars, cvars

LEMMA InitIInv == Init => IInv
<1> USE ThreadAssumption, NilAssumption DEF Thread, Init, DialPC, MaxPacket
<1> SUFFICES ASSUME Init PROVE IInv OBVIOUS
<1>1. /\ pc \in [Thread -> DialPC \cup DevPC \cup SendPC \cup RecvPC]
      /\ pc[Dev] \in DialPC \cup DevPC
      /\ pc[Rcv] \in DialPC \cup RecvPC
      /\ \A s \in Senders : pc[s] \in DialPC \cup SendPC
  BY DEF DevPC, SendPC, RecvPC
<1>2. TypeOK
  <2>1. cont \in [Thread -> DialCall] BY DEF DialCall
  <2>2. attempt \in [Senders -> 0 .. MaxAttempts] BY DEF MaxAttempts
  <2> QED BY <1>1, <2>1, <2>2 DEF TypeOK
<1>3. DialCalls BY DEF DialCalls
<1>4. OpenAlone /\ ClosedIsDown BY DEF OpenAlone, ClosedIsDown
<1>5. LockHeld /\ HasConn BY DEF LockHeld, HasConn
<1>6. Generations /\ FreshPrivate BY DEF Generations, FreshPrivate
<1>7. UnusedConns /\ ConnWhole BY DEF UnusedConns, ConnWhole
<1>8. WriteWhole /\ FramingIntact /\ MidOwned
  BY DEF WriteWhole, FramingIntact, MidOwned
<1> QED BY <1>2, <1>3, <1>4, <1>5, <1>6, <1>7, <1>8 DEF IInv

LEMMA NextPreserves == IInv /\ [Next]_vars => IInv'
<1> SUFFICES ASSUME IInv, [Next]_vars PROVE IInv' OBVIOUS
<1>1. CASE Open \/ OpenFailed \/ OpenReturns \/ Close
  BY <1>1, OpenPreserves, OpenFailedPreserves, OpenReturnsPreserves,
     ClosePreserves
<1>2. CASE \E t \in Thread : Dial(t)
  BY <1>2, DialStartPreserves, DialConnectedPreserves, DialFailedPreserves,
     DialInstallPreserves DEF Dial
<1>3. CASE \E s \in Senders : SendOne(s) \/ \E n \in Sizes : Send(s, n)
  BY <1>3, SendPreserves, SendLockPreserves, SendTryPreserves,
     SendWritePreserves, SendReturnPreserves DEF SendOne
<1>4. CASE ReceiveStep
  BY <1>4, ReceivePreserves, ReceiveRecheckPreserves, ReadHeaderPreserves,
     ReadBodyPreserves, DrainFramePreserves, ReadFailedPreserves,
     ReceiveReturnPreserves DEF ReceiveStep
<1>5. CASE \E c \in Conn : PeerDrop(c)
  BY <1>5, PeerDropPreserves
<1>6. CASE UNCHANGED vars
  BY <1>6, StutterPreserves
<1> QED BY <1>1, <1>2, <1>3, <1>4, <1>5, <1>6 DEF Next

(* The inductive invariant holds in every reachable state. *)
THEOREM Invariance == Spec => []IInv
BY InitIInv, NextPreserves, PTL DEF Spec

-----------------------------------------------------------------------------
(***************************************************************************)
(* The properties.                                                         *)
(***************************************************************************)

(* Every variable keeps its type; in particular dial() always returns to a *)
(* place of its own caller, and sendOne makes at most three attempts.      *)
THEOREM TypeCorrect == Spec => []TypeOK
<1>1. IInv => TypeOK BY DEF IInv
<1> QED BY Invariance, <1>1, PTL

(* Whatever senders, failed writes, dials and Close do to each other, no   *)
(* connection carries bytes the peer cannot parse.                         *)
THEOREM FramingTheorem == Spec => []FramingIntact
<1>1. IInv => FramingIntact BY DEF IInv
<1> QED BY Invariance, <1>1, PTL

(* receive parses a length prefix at a frame boundary only. *)
THEOREM ReadSyncTheorem == Spec => []ReadInSync
<1>1. IInv => ReadInSync
  BY NilAssumption DEF IInv, TypeOK, MidOwned, ReadInSync, Thread
<1> QED BY Invariance, <1>1, PTL

(* A closed bind holds no connection. *)
THEOREM ClosedTheorem == Spec => []ClosedIsDown
<1>1. IInv => ClosedIsDown BY DEF IInv
<1> QED BY Invariance, <1>1, PTL

(* A dial made because of a failure never closes a connection other than   *)
(* the one that failed.                                                    *)
THEOREM StaleDialTheorem == Spec => StaleDialSparesNewer
<1>1. ASSUME IInv, Next, NEW t \in Thread, pc[t] = "dial", pc'[t] = "dialing"
      PROVE  DialStart(t)
  <2> USE <1>1, ThreadAssumption DEF IInv, TypeOK, Goto, Thread
  <2>1. ~(Open \/ OpenFailed \/ OpenReturns \/ Close)
    BY DEF Open, OpenFailed, OpenReturns, Close
  <2>2. ASSUME NEW u \in Thread, Dial(u) PROVE DialStart(t)
    BY <2>2 DEF Dial, DialStart, DialConnected, DialFailed, DialInstall,
                DialReturn
  <2>3. ASSUME NEW s \in Senders PROVE ~SendOne(s)
    BY DEF SendOne, SendLock, SendTry, SendWrite, SendReturn
  <2>4. ASSUME NEW s \in Senders, NEW n \in Sizes PROVE ~Send(s, n)
    BY DEF Send
  <2>5. ~ReceiveStep
    BY DEF ReceiveStep, Receive, ReceiveRecheck, ReadHeader, ReadBody,
           DrainFrame, ReadFailed, ReceiveReturn
  <2>6. ASSUME NEW c \in Conn PROVE ~PeerDrop(c)
    BY DEF PeerDrop
  <2> QED BY <2>1, <2>2, <2>3, <2>4, <2>5, <2>6 DEF Next
<1>2. ASSUME IInv, NEW t \in Thread, DialStart(t), pc'[t] = "dialing",
             cont[t] \in {"sendErr", "recvErr"}, conn # Nil
      PROVE  conn = lc[t]
  <2>1. ~Reconnected(t)
    BY <1>2 DEF DialStart, DialReturn, AfterDial, Goto, IInv, TypeOK, DialCalls
  <2> QED BY <1>2, <2>1 DEF Reconnected, IInv, TypeOK, HasConn, Generations
<1>3. IInv /\ [Next]_vars =>
        [\A t \in Thread : /\ pc[t] = "dial" /\ pc'[t] = "dialing"
                           /\ cont[t] \in {"sendErr", "recvErr"}
                           /\ conn # Nil
                           => conn = lc[t]]_vars
  BY <1>1, <1>2
<1> QED BY Invariance, <1>3, PTL DEF Spec, StaleDialSparesNewer

-----------------------------------------------------------------------------
(***************************************************************************)
(* The bind implements Bind: every action is a step of it or changes       *)
(* nothing it sees.                                                        *)
(***************************************************************************)

(* What Bind sees depends on four variables only. *)
LEMMA BindStutters ==
  ASSUME UNCHANGED <<open, conn, status, fresh>> PROVE UNCHANGED B!vars
BY DEF B!vars, Spent

(* The bind's connection is not spent before it leaves b.conn. *)
LEMMA ConnRetires ==
  ASSUME IInv, conn \in Conn
  PROVE  status[conn] # "none" /\ \A t \in Thread : fresh[t] # conn
BY NilAssumption DEF IInv, UnusedConns, FreshPrivate

(* Close and a failed Open are Close. *)
LEMMA CloseImplements ==
  ASSUME IInv, Close \/ OpenFailed PROVE B!Close
<1>1. CASE OpenFailed
  <2>1. conn = Nil /\ open' = FALSE /\ UNCHANGED <<conn, status, fresh>>
    BY <1>1 DEF OpenFailed, IInv, OpenAlone, tvars, cvars
  <2>2. Spent' = Spent BY <2>1 DEF Spent
  <2> QED BY <2>1, <2>2 DEF B!Close, B!Retire
<1>2. CASE Close
  <2>1. /\ open' = FALSE /\ conn' = Nil /\ fresh' = fresh
        /\ status' = [c \in Conn |-> IF c = conn THEN "closed" ELSE status[c]]
    BY <1>2 DEF Close, CloseConn, tvars
  <2>2. Spent' = Spent \cup ({conn} \ {Nil})
    BY <2>1, ConnRetires, NilAssumption DEF Spent, IInv, TypeOK
  <2> QED BY <2>1, <2>2 DEF B!Close, B!Retire
<1> QED BY <1>1, <1>2

(* The first critical section of dial() is Detach, or does nothing. *)
LEMMA DialStartImplements ==
  ASSUME IInv, NEW t \in Thread, DialStart(t) PROVE B!Detach \/ UNCHANGED B!vars
<1>1. CASE UNCHANGED <<conn, status>>
  BY <1>1, BindStutters DEF DialStart
<1>2. CASE open /\ CloseConn /\ conn' = Nil
  <2>1. /\ open /\ open' = open /\ conn' = Nil /\ fresh' = fresh
        /\ status' = [c \in Conn |-> IF c = conn THEN "closed" ELSE status[c]]
    BY <1>2 DEF DialStart, CloseConn
  <2>2. Spent' = Spent \cup ({conn} \ {Nil})
    BY <2>1, ConnRetires, NilAssumption DEF Spent, IInv, TypeOK
  <2> QED BY <2>1, <2>2 DEF B!Detach, B!Retire
<1> QED BY <1>1, <1>2 DEF DialStart

(* A connection that has just been dialled is held by its dialler. *)
LEMMA DialConnectedImplements ==
  ASSUME IInv, NEW t \in Thread, NEW c \in Conn, DialConnected(t, c)
  PROVE  UNCHANGED B!vars
<1>1. /\ fresh[t] = Nil /\ status[c] = "none" /\ UNCHANGED <<open, conn>>
      /\ fresh' = [fresh EXCEPT ![t] = c]
      /\ status' = [status EXCEPT ![c] = "open"]
  BY DEF DialConnected, IInv, FreshPrivate, bvars
<1>2. Spent' = Spent
  BY <1>1, NilAssumption DEF Spent, IInv, TypeOK
<1> QED BY <1>1, <1>2 DEF B!vars

(* The second critical section of dial() is Attach, or Discard when the    *)
(* bind was closed meanwhile.                                              *)
LEMMA DialInstallImplements ==
  ASSUME IInv, NEW t \in Thread, DialInstall(t)
  PROVE  \E c \in Conn : B!Attach(c) \/ B!Discard(c)
<1> DEFINE c == fresh[t]
<1>1. /\ c \in Conn /\ c # conn /\ status[c] # "none"
      /\ \A u \in Thread : u # t => fresh[u] # c
  BY DEF DialInstall, IInv, TypeOK, FreshPrivate
<1>2. c \notin Spent \cup {conn} BY <1>1 DEF Spent
<1>3. fresh' = [fresh EXCEPT ![t] = Nil] /\ open' = open
  BY DEF DialInstall
<1>4. \A u \in Thread, d \in Conn :
        fresh'[u] # d <=> (u = t \/ fresh[u] # d)
  BY <1>3, NilAssumption DEF IInv, TypeOK
<1>5. CASE ~open
  <2>1. status' = [status EXCEPT ![c] = "closed"] /\ conn' = conn
    BY <1>5 DEF DialInstall
  <2>2. Spent' = Spent \cup {c}
    BY <1>1, <1>4, <2>1 DEF Spent, IInv, TypeOK
  <2>3. B!Discard(c) BY <1>2, <1>3, <2>1, <2>2 DEF B!Discard
  <2> QED BY <1>1, <2>3
<1>6. CASE open
  <2>1. conn' = c /\ status' = status
    BY <1>6 DEF DialInstall
  <2>2. Spent' = Spent \cup ({conn} \ {Nil})
    BY <1>1, <1>4, <2>1, ConnRetires, NilAssumption DEF Spent, IInv, TypeOK
  <2>3. B!Attach(c) BY <1>2, <1>3, <1>6, <2>1, <2>2 DEF B!Attach, B!Retire
  <2> QED BY <1>1, <2>3
<1> QED BY <1>5, <1>6

(* Every step of the bind is a step of Bind, or none. *)
LEMMA NextImplements == IInv /\ [Next]_vars => [B!Next]_(B!vars)
<1> SUFFICES ASSUME IInv, [Next]_vars PROVE B!Next \/ UNCHANGED B!vars
  OBVIOUS
<1>1. CASE Open
  <2>1. ~open /\ open' = TRUE /\ UNCHANGED <<conn, status, fresh>>
    BY <1>1 DEF Open, cvars
  <2>2. Spent' = Spent BY <2>1 DEF Spent
  <2> QED BY <2>1, <2>2 DEF B!Next, B!Open
<1>2. CASE OpenFailed \/ Close
  BY <1>2, CloseImplements DEF B!Next
<1>3. ASSUME NEW t \in Thread, Dial(t) PROVE B!Next \/ UNCHANGED B!vars
  <2>1. CASE DialStart(t)
    BY <2>1, DialStartImplements DEF B!Next
  <2>2. CASE \E c \in Conn : DialConnected(t, c)
    BY <2>2, DialConnectedImplements
  <2>3. CASE DialFailed(t)
    BY <2>3, BindStutters DEF DialFailed, bvars, cvars
  <2>4. CASE DialInstall(t)
    BY <2>4, DialInstallImplements DEF B!Next
  <2> QED BY <1>3, <2>1, <2>2, <2>3, <2>4 DEF Dial
<1>4. CASE OpenReturns
  BY <1>4, BindStutters DEF OpenReturns, bvars, tvars, cvars
<1>5. ASSUME NEW s \in Senders, SendOne(s) \/ \E n \in Sizes : Send(s, n)
      PROVE  UNCHANGED B!vars
  BY <1>5, BindStutters
     DEF SendOne, Send, SendLock, SendTry, SendWrite, SendReturn, bvars, cvars
<1>6. CASE ReceiveStep
  BY <1>6, BindStutters
     DEF ReceiveStep, Receive, ReceiveRecheck, ReadHeader, ReadBody,
         DrainFrame, ReadFailed, ReceiveReturn, bvars, cvars
<1>7. CASE \E c \in Conn : PeerDrop(c)
  BY <1>7, BindStutters DEF PeerDrop, bvars, tvars
<1>8. CASE UNCHANGED vars
  BY <1>8, BindStutters DEF vars, bvars, tvars, cvars
<1> QED BY <1>1, <1>2, <1>3, <1>4, <1>5, <1>6, <1>7, <1>8 DEF Next

(* The bind keeps the contract of Bind: only an open bind takes a          *)
(* connection into use, at most once, and Close takes it away, for any     *)
(* number of goroutines that dial at the same time.                        *)
THEOREM RefinesBind == Spec => ImplementsBind
<1>1. Init => B!Init
  BY NilAssumption DEF Init, B!Init, Spent
<1> QED BY <1>1, Invariance, NextImplements, PTL DEF Spec, ImplementsBind, B!Spec

-----------------------------------------------------------------------------
(***************************************************************************)
(* Where the nil connection that receive reads from comes from (NoNilRead  *)
(* does not hold).                                                         *)
(***************************************************************************)

(* A call of dial() without a connection is dial(0), which never takes     *)
(* another caller's reconnect for its own.                                 *)
DialZero ==
  \A t \in Thread : cont[t] \in {"sendNil", "recvNil"} => gen[t] = 0

LEMMA DialZeroHolds == Spec => []DialZero
<1>1. Init => DialZero
  BY DEF Init, DialZero
<1>2. ASSUME IInv, DialZero, [Next]_vars PROVE DialZero'
  <2> USE <1>2, ThreadAssumption DEF IInv, TypeOK, DialZero, Thread
  <2>1. CASE Open \/ OpenFailed \/ OpenReturns \/ Close
    BY <2>1 DEF Open, OpenFailed, OpenReturns, Close, DialCalls, tvars
  <2>2. ASSUME NEW t \in Thread, Dial(t) PROVE DialZero'
    BY <2>2 DEF Dial, DialStart, DialConnected, DialFailed, DialInstall,
                DialReturn
  <2>3. ASSUME NEW s \in Senders, SendOne(s) \/ \E n \in Sizes : Send(s, n)
        PROVE  DialZero'
    <3>1. CASE SendTry(s)
      BY <3>1 DEF SendTry, DialCalls, DialPC
    <3>2. CASE SendWrite(s)
      BY <3>2 DEF SendWrite
    <3>3. CASE SendLock(s) \/ SendReturn(s) \/ \E n \in Sizes : Send(s, n)
      BY <3>3 DEF SendLock, SendReturn, Send
    <3> QED BY <2>3, <3>1, <3>2, <3>3 DEF SendOne
  <2>4. CASE ReceiveStep
    <3>1. CASE Receive
      BY <3>1 DEF Receive, DialCalls, DialPC
    <3>2. CASE ReceiveRecheck
      BY <3>2 DEF ReceiveRecheck, DialCalls, DialPC
    <3>3. CASE ReadHeader \/ ReadBody \/ DrainFrame
      BY <3>3 DEF ReadHeader, ReadBody, DrainFrame
    <3>4. CASE ReadFailed
      BY <3>4 DEF ReadFailed
    <3>5. CASE ReceiveReturn
      BY <3>5 DEF ReceiveReturn, DialCalls, DialPC
    <3> QED BY <2>4, <3>1, <3>2, <3>3, <3>4, <3>5 DEF ReceiveStep
  <2>5. CASE (\E c \in Conn : PeerDrop(c)) \/ UNCHANGED vars
    BY <2>5 DEF PeerDrop, vars, tvars
  <2> QED BY <2>1, <2>2, <2>3, <2>4, <2>5 DEF Next
<1> QED BY <1>1, <1>2, Invariance, PTL DEF Spec

(* receive's dial(0), if it succeeds, leaves a connection in b.conn, and   *)
(* as long as the bind is open only the redial of a sender takes it away   *)
(* before receive looks again.                                             *)
NilReadNeedsSender ==
  [][/\ pc[Rcv] # "recheck" /\ pc'[Rcv] = "recheck" => conn' # Nil
     /\ pc[Rcv] = "recheck" /\ open' /\ conn # Nil /\ conn' = Nil =>
          \E s \in Senders : pc[s] = "dial" /\ pc'[s] = "dialing"]_vars

(* The nil read of receive needs a Send: without a sender that redials     *)
(* between dial(0) and currentConn the connection is there.                *)
THEOREM NilReadNeedsSenderTheorem == Spec => NilReadNeedsSender
<1> DEFINE P == /\ pc[Rcv] # "recheck" /\ pc'[Rcv] = "recheck" => conn' # Nil
                /\ pc[Rcv] = "recheck" /\ open' /\ conn # Nil /\ conn' = Nil =>
                     \E s \in Senders : pc[s] = "dial" /\ pc'[s] = "dialing"
<1>1. ASSUME IInv, DialZero, Next PROVE P
  <2> USE <1>1, ThreadAssumption, NilAssumption DEF IInv, TypeOK, Thread, Goto
  <2>1. CASE Open \/ OpenFailed \/ OpenReturns \/ Close
    <3>1. UNCHANGED conn \/ open' = FALSE
      BY <2>1 DEF Open, OpenFailed, OpenReturns, Close, bvars
    <3>2. pc'[Rcv] = "recheck" => pc[Rcv] = "recheck"
      BY <2>1 DEF Open, OpenFailed, OpenReturns, Close
    <3> QED BY <3>1, <3>2
  <2>2. ASSUME NEW t \in Thread, DialStart(t) PROVE P
    <3>1. CASE t = Rcv
      <4>1. pc[Rcv] = "dial" /\ cont[Rcv] \in {"recvNil", "recvErr"}
        BY <2>2, <3>1 DEF DialStart, DialCalls, DialPC
      <4>2. pc'[Rcv] # "recheck"
        <5>1. CASE ~open /\ DialReturn(t, "closed")
          BY <3>1, <4>1, <5>1 DEF DialReturn, AfterDial
        <5>2. CASE open /\ Reconnected(t) /\ DialReturn(t, "nil")
          <6>1. cont[Rcv] = "recvErr"
            BY <3>1, <4>1, <5>2 DEF Reconnected, DialZero
          <6> QED BY <3>1, <5>2, <6>1 DEF DialReturn, AfterDial
        <5>3. CASE pc' = [pc EXCEPT ![t] = "dialing"]
          BY <3>1, <5>3
        <5> QED BY <2>2, <5>1, <5>2, <5>3 DEF DialStart
      <4> QED BY <4>1, <4>2
    <3>2. CASE t = Dev
      <4>1. pc[Rcv] = "stopped" /\ pc'[Rcv] = pc[Rcv]
        BY <2>2, <3>2 DEF DialStart, DialReturn, OpenAlone
      <4> QED BY <4>1
    <3>3. CASE t \in Senders
      <4>1. pc'[Rcv] = pc[Rcv] /\ pc[t] = "dial"
        BY <2>2, <3>3 DEF DialStart, DialReturn
      <4>2. conn' # conn => pc'[t] = "dialing"
        BY <2>2 DEF DialStart
      <4> QED BY <3>3, <4>1, <4>2
    <3> QED BY <3>1, <3>2, <3>3
  <2>3. ASSUME NEW t \in Thread,
               DialFailed(t) \/ \E c \in Conn : DialConnected(t, c)
        PROVE  P
    <3>1. conn' = conn
      BY <2>3 DEF DialFailed, DialConnected, bvars
    <3>2. pc'[Rcv] = "recheck" => pc[Rcv] = "recheck"
      BY <2>3 DEF DialFailed, DialConnected, DialReturn, AfterDial, DialCalls,
                  DialPC
    <3> QED BY <3>1, <3>2
  <2>4. ASSUME NEW t \in Thread, DialInstall(t) PROVE P
    <3>1. CASE open
      <4>1. conn' # Nil
        BY <2>4, <3>1 DEF DialInstall, FreshPrivate
      <4> QED BY <4>1
    <3>2. CASE ~open
      <4>1. UNCHANGED <<open, conn>> /\ DialReturn(t, "closed")
        BY <2>4, <3>2 DEF DialInstall
      <4>2. pc'[Rcv] = "recheck" => pc[Rcv] = "recheck"
        BY <2>4, <4>1 DEF DialInstall, DialReturn, AfterDial, DialCalls, DialPC
      <4> QED BY <4>1, <4>2
    <3> QED BY <3>1, <3>2
  <2>5. ASSUME NEW s \in Senders, SendOne(s) \/ \E n \in Sizes : Send(s, n)
        PROVE  P
    BY <2>5 DEF SendOne, Send, SendLock, SendTry, SendWrite, SendReturn, bvars
  <2>6. CASE ReceiveStep
    BY <2>6 DEF ReceiveStep, Receive, ReceiveRecheck, ReadHeader, ReadBody,
                DrainFrame, ReadFailed, ReceiveReturn, bvars
  <2>7. CASE \E c \in Conn : PeerDrop(c)
    BY <2>7 DEF PeerDrop, bvars
  <2> HIDE DEF P
  <2> QED BY <2>1, <2>2, <2>3, <2>4, <2>5, <2>6, <2>7 DEF Next, Dial
<1>2. IInv /\ DialZero /\ [Next]_vars => [P]_vars
  BY <1>1
<1> QED BY <1>2, Invariance, DialZeroHolds, PTL DEF Spec, NilReadNeedsSender
=============================================================================
