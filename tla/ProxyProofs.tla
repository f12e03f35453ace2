---------------------------- MODULE ProxyProofs ----------------------------
(***************************************************************************)
(* Proofs about Proxy, for any number of handlers, addresses and           *)
(* descriptors.                                                            *)
(*                                                                         *)
(* The inductive invariant follows the thread that dials (ThreadIn), the   *)
(* life of a dial between its goroutine, the channel, the handler and the  *)
(* goroutine that waits for a late result (DialLife), the sockets in the   *)
(* descriptor table, each of which has exactly one holder (Sockets), and   *)
(* the two descriptors of the namespaces, which keep their numbers until   *)
(* Close has closed them, so that Close never closes a socket (NSFds).     *)
(***************************************************************************)
EXTENDS Proxy, WellFoundedInduction, TLAPS

(* The namespaces a dialling thread has entered. *)
ThreadIn ==
  \A h \in Handlers :
    /\ dp[h] \in {"none", "unshare", "mntRead", "mntSet", "end"} => thr[h] = {}
    /\ dp[h] \in {"netRead", "netSet"} => thr[h] = {"mnt"}
    /\ dp[h] \in {"resolve", "connect", "connecting", "pushConn"} =>
         thr[h] = {"net", "mnt"}

(* A dial that has not been answered has somebody waiting for it, a result *)
(* is put on the channel once, and only one goroutine takes it.            *)
DialLife ==
  \A h \in Handlers :
    /\ hp[h] \in {"none", "greet", "request"} => dp[h] = "none"
    /\ dp[h] = "none" => /\ hp[h] # "dial" /\ drain[h] = "none"
                         /\ res[h] = "empty" /\ ~own[h]
    /\ dp[h] \notin {"none", "end"} =>
         res[h] = "empty" /\ ~own[h] /\ (hp[h] = "dial" \/ drain[h] = "wait")
    /\ res[h] # "empty" => ~own[h] /\ (hp[h] = "dial" \/ drain[h] = "wait")
    /\ hp[h] = "dial" => drain[h] = "none" /\ ~own[h]
    /\ drain[h] # "none" => ~own[h]
    /\ own[h] => hp[h] \in {"reply", "pipe", "close"}

(* The upstream socket of h is with its dialling goroutine, on the channel *)
(* or with the handler.                                                    *)
Holds(h) ==
  dp[h] \in {"connecting", "pushConn"} \/ res[h] = "conn" \/ own[h]

(* Every socket of the table has one holder, and nobody holds a number     *)
(* that is no longer its socket.                                           *)
Sockets ==
  /\ \A h \in Handlers : sock[h] # 0 <=> Holds(h)
  /\ \A h \in Handlers : sock[h] # 0 => fdt[sock[h]] = "sock"
  /\ \A g, h \in Handlers : sock[g] # 0 /\ sock[g] = sock[h] => g = h
  /\ \A f \in Fds : fdt[f] = "sock" => \E h \in Handlers : sock[h] = f

(* The fields of the NetNS name its descriptors until they are closed. *)
NSFds ==
  /\ fdt[0] = "stdin"
  /\ mpc \in {"accept", "closeNet"} => fdt[netFD] = "net"
  /\ mpc \in {"accept", "closeNet", "zeroNet", "closeMnt"} =>
       fdt[mntFD] = "mnt"

IInv == TypeOK /\ ThreadIn /\ DialLife /\ Sockets /\ NSFds

USE MaxAddrsAssumption, MaxFdAssumption

-----------------------------------------------------------------------------
(* Facts about descriptors, used instead of the bound on their number. *)
LEMMA FdsHas == {0, 1, 2} \subseteq Fds /\ Fds \subseteq Nat
BY DEF Fds

(* What socket(2) returns is free. *)
LEMMA LowestFreeIsFree ==
  ASSUME Free # {}
  PROVE  LowestFree \in Free
<1>1. PICK f \in Free : \A g \in Free : ~(<<g, f>> \in OpToRel(<, Nat))
  <2>1. Free \subseteq Nat
    BY DEF Free, Fds
  <2> HIDE DEF Free
  <2>2. \E x \in Free : \A y \in Free : ~(<<y, x>> \in OpToRel(<, Nat))
    BY <2>1, NatLessThanWellFounded, WFMin, Zenon
  <2> QED BY <2>2
<1>2. \A g \in Free : f <= g
  <2> SUFFICES ASSUME NEW g \in Free, g < f PROVE FALSE
    BY DEF Free, Fds
  <2>1. <<g, f>> \in Nat \X Nat /\ <<g, f>>[1] < <<g, f>>[2]
    BY DEF Free, Fds
  <2>2. <<g, f>> \in OpToRel(<, Nat)
    BY <2>1, Zenon DEF OpToRel
  <2> QED BY <1>1, <2>2
<1> QED BY <1>2 DEF LowestFree

(* A step that moves no socket keeps Sockets as long as nobody becomes or  *)
(* ceases to be a holder.                                                  *)
LEMMA SocketsKept ==
  ASSUME Sockets, UNCHANGED <<fdt, sock>>,
         \A g \in Handlers : Holds(g)' <=> Holds(g)
  PROVE  Sockets'
BY DEF Sockets

(* Closing a socket: only its holder loses it, and the descriptors of the  *)
(* namespaces stay.                                                        *)
LEMMA SocketClosed ==
  ASSUME TypeOK, Sockets, NSFds, NEW h \in Handlers,
         Holds(h), CloseSock(h), ~Holds(h)',
         \A g \in Handlers \ {h} : Holds(g)' <=> Holds(g),
         UNCHANGED <<mpc, netFD, mntFD>>
  PROVE  Sockets' /\ NSFds'
<1> USE FdsHas DEF TypeOK, CloseSock, CloseFd
<1>1. sock[h] # 0 /\ fdt[sock[h]] = "sock"
  BY DEF Sockets
<1>2. \A g \in Handlers : sock'[g] # 0 <=> Holds(g)'
  BY DEF Sockets
<1>3. \A g \in Handlers : sock'[g] # 0 => fdt'[sock'[g]] = "sock"
  BY <1>1 DEF Sockets
<1>4. \A f, g \in Handlers : sock'[f] # 0 /\ sock'[f] = sock'[g] => f = g
  BY DEF Sockets
<1>5. \A f \in Fds : fdt'[f] = "sock" => \E g \in Handlers : sock'[g] = f
  BY <1>1 DEF Sockets
<1>6. Sockets'
  BY <1>2, <1>3, <1>4, <1>5 DEF Sockets
<1>7. NSFds'
  BY <1>1 DEF NSFds
<1> QED BY <1>6, <1>7

(* IInv holds initially. *)
LEMMA InitIInv == Init => IInv
<1> SUFFICES ASSUME Init PROVE IInv
  OBVIOUS
<1>1. fdt \in [Fds -> {"free", "stdin", "net", "mnt", "sock"}]
  BY DEF Init
<1>2. TypeOK
  <2>1. /\ ips \in [Handlers -> 0 .. MaxAddrs]
        /\ arg \in [Handlers -> Fds] /\ sock \in [Handlers -> Fds]
    BY FdsHas DEF Init
  <2> QED BY <1>1, <2>1, FdsHas DEF Init, TypeOK, MainPC, HandlerPC, DialPC
<1>3. ThreadIn /\ DialLife
  BY DEF Init, ThreadIn, DialLife
<1>4. Sockets
  BY DEF Init, Sockets, Holds, Fds
<1>5. NSFds
  BY DEF Init, NSFds, Fds
<1> QED BY <1>2, <1>3, <1>4, <1>5 DEF IInv

-----------------------------------------------------------------------------
(* The signal goroutine cancels the context. *)
LEMMA CancelPreserves ==
  ASSUME IInv, Cancel
  PROVE  IInv'
<1> USE DEF IInv, Cancel, mainvars, hvars, dvars
<1>1. TypeOK'
  BY FdsHas DEF TypeOK, MainPC, HandlerPC, DialPC
<1>2. ThreadIn'
  BY DEF TypeOK, ThreadIn
<1>3. DialLife'
  BY DEF TypeOK, DialLife
<1>4. Sockets' /\ NSFds'
  <2>1. \A g \in Handlers : Holds(g)' <=> Holds(g)
    BY DEF TypeOK, DialLife, Holds
  <2> QED BY <2>1, SocketsKept DEF NSFds
<1> QED BY <1>1, <1>2, <1>3, <1>4

(* RunProxy closes its listener. *)
LEMMA CloseListenerPreserves ==
  ASSUME IInv, CloseListener
  PROVE  IInv'
<1> USE DEF IInv, CloseListener, mainvars, hvars, dvars
<1>1. TypeOK'
  BY FdsHas DEF TypeOK, MainPC, HandlerPC, DialPC
<1>2. ThreadIn'
  BY DEF TypeOK, ThreadIn
<1>3. DialLife'
  BY DEF TypeOK, DialLife
<1>4. Sockets' /\ NSFds'
  <2>1. \A g \in Handlers : Holds(g)' <=> Holds(g)
    BY DEF TypeOK, DialLife, Holds
  <2> QED BY <2>1, SocketsKept DEF NSFds
<1> QED BY <1>1, <1>2, <1>3, <1>4

(* The accept loop ends. *)
LEMMA AcceptErrorPreserves ==
  ASSUME IInv, AcceptError
  PROVE  IInv'
<1> USE DEF IInv, AcceptError, mainvars, hvars, dvars
<1>1. TypeOK'
  BY FdsHas DEF TypeOK, MainPC, HandlerPC, DialPC
<1>2. ThreadIn'
  BY DEF TypeOK, ThreadIn
<1>3. DialLife'
  BY DEF TypeOK, DialLife
<1>4. Sockets' /\ NSFds'
  <2>1. \A g \in Handlers : Holds(g)' <=> Holds(g)
    BY DEF TypeOK, DialLife, Holds
  <2> QED BY <2>1, SocketsKept DEF NSFds
<1> QED BY <1>1, <1>2, <1>3, <1>4

(* NetNS.Close frees two numbers, neither of them a socket. *)
LEMMA NetNSClosePreserves ==
  ASSUME IInv, NetNSClose
  PROVE  IInv'
<1> USE DEF IInv, NetNSClose, CloseFd, mainvars, hvars, dvars
<1>1. TypeOK'
  BY FdsHas DEF TypeOK, MainPC, HandlerPC, DialPC
<1>2. ThreadIn'
  BY DEF TypeOK, ThreadIn
<1>3. DialLife'
  BY DEF TypeOK, DialLife
<1>4. Sockets'
  BY DEF TypeOK, DialLife, Sockets, Holds, NSFds, Fds
<1>5. NSFds'
  BY DEF TypeOK, NSFds, Fds
<1> QED BY <1>1, <1>2, <1>3, <1>4, <1>5

(* main returns. *)
LEMMA ExitPreserves ==
  ASSUME IInv, Exit
  PROVE  IInv'
<1> USE DEF IInv, Exit, mainvars, hvars, dvars
<1>1. TypeOK'
  BY FdsHas DEF TypeOK, MainPC, HandlerPC, DialPC
<1>2. ThreadIn'
  BY DEF TypeOK, ThreadIn
<1>3. DialLife'
  BY DEF TypeOK, DialLife
<1>4. Sockets' /\ NSFds'
  <2>1. \A g \in Handlers : Holds(g)' <=> Holds(g)
    BY DEF TypeOK, DialLife, Holds
  <2> QED BY <2>1, SocketsKept DEF NSFds
<1> QED BY <1>1, <1>2, <1>3, <1>4

(* A client is accepted. *)
LEMMA AcceptPreserves ==
  ASSUME IInv, NEW h \in Handlers, Accept(h)
  PROVE  IInv'
<1> USE DEF IInv, Accept, HGoto, mainvars, hvars, dvars
<1>1. TypeOK'
  BY FdsHas DEF TypeOK, MainPC, HandlerPC, DialPC
<1>2. ThreadIn'
  BY DEF TypeOK, ThreadIn
<1>3. DialLife'
  BY DEF TypeOK, DialLife
<1>4. Sockets' /\ NSFds'
  <2>1. \A g \in Handlers : Holds(g)' <=> Holds(g)
    BY DEF TypeOK, DialLife, Holds
  <2> QED BY <2>1, SocketsKept DEF NSFds
<1> QED BY <1>1, <1>2, <1>3, <1>4

(* The greeting. *)
LEMMA GreetPreserves ==
  ASSUME IInv, NEW h \in Handlers, Greet(h)
  PROVE  IInv'
<1> USE DEF IInv, Greet, HGoto, mainvars, hvars, dvars
<1>1. TypeOK'
  BY FdsHas DEF TypeOK, MainPC, HandlerPC, DialPC
<1>2. ThreadIn'
  BY DEF TypeOK, ThreadIn
<1>3. DialLife'
  BY DEF TypeOK, DialLife
<1>4. Sockets' /\ NSFds'
  <2>1. \A g \in Handlers : Holds(g)' <=> Holds(g)
    BY DEF TypeOK, DialLife, Holds
  <2> QED BY <2>1, SocketsKept DEF NSFds
<1> QED BY <1>1, <1>2, <1>3, <1>4

(* The request, which may start a dial. *)
LEMMA RequestPreserves ==
  ASSUME IInv, NEW h \in Handlers, Request(h)
  PROVE  IInv'
<1> USE DEF IInv, Request, HGoto, DGoto, mainvars, hvars, dvars
<1>1. TypeOK'
  BY FdsHas DEF TypeOK, MainPC, HandlerPC, DialPC
<1>2. ThreadIn'
  BY DEF TypeOK, ThreadIn, DialLife
<1>3. DialLife'
  BY DEF TypeOK, DialLife
<1>4. Sockets' /\ NSFds'
  <2>1. \A g \in Handlers : Holds(g)' <=> Holds(g)
    BY DEF TypeOK, DialLife, Holds
  <2> QED BY <2>1, SocketsKept DEF NSFds
<1> QED BY <1>1, <1>2, <1>3, <1>4

(* The timeout of a dial passes. *)
LEMMA DialTimeoutPreserves ==
  ASSUME IInv, NEW h \in Handlers, DialTimeout(h)
  PROVE  IInv'
<1> USE DEF IInv, DialTimeout, mainvars, hvars, dvars
<1>1. TypeOK'
  BY FdsHas DEF TypeOK, MainPC, HandlerPC, DialPC
<1>2. ThreadIn'
  BY DEF TypeOK, ThreadIn
<1>3. DialLife'
  BY DEF TypeOK, DialLife
<1>4. Sockets' /\ NSFds'
  <2>1. \A g \in Handlers : Holds(g)' <=> Holds(g)
    BY DEF TypeOK, DialLife, Holds
  <2> QED BY <2>1, SocketsKept DEF NSFds
<1> QED BY <1>1, <1>2, <1>3, <1>4

(* The select of dialInNS: the handler becomes the holder, or a waiter stays. *)
LEMMA DialSelectPreserves ==
  ASSUME IInv, NEW h \in Handlers, DialSelect(h)
  PROVE  IInv'
<1> USE DEF IInv, DialSelect, HGoto, TakeResult, mainvars, hvars, dvars
<1>1. TypeOK'
  <2>1. own' \in [Handlers -> BOOLEAN]
    BY DEF TypeOK
  <2> QED BY <2>1 DEF TypeOK, MainPC, HandlerPC, DialPC
<1>2. ThreadIn'
  BY DEF TypeOK, ThreadIn
<1>3. DialLife'
  BY DEF TypeOK, DialLife
<1>4. Sockets' /\ NSFds'
  <2>1. \A g \in Handlers : Holds(g)' <=> Holds(g)
    <3>1. CASE UNCHANGED <<res, own>>
      BY <3>1 DEF Holds
    <3>2. CASE res[h] # "empty" /\ TakeResult(h)
      <4>1. /\ own'[h] <=> res[h] = "conn"
            /\ res'[h] = "empty" /\ dp'[h] = dp[h]
        BY <3>2 DEF TypeOK
      <4>2. Holds(h)' <=> Holds(h)
        BY <3>2, <4>1 DEF TypeOK, DialLife, Holds
      <4>3. \A g \in Handlers \ {h} : Holds(g)' <=> Holds(g)
        BY <3>2 DEF TypeOK, Holds
      <4> QED BY <4>2, <4>3
    <3> QED BY <3>1, <3>2
  <2> QED BY <2>1, SocketsKept DEF NSFds
<1> QED BY <1>1, <1>2, <1>3, <1>4

(* A failure is reported. *)
LEMMA RefusePreserves ==
  ASSUME IInv, NEW h \in Handlers, Refuse(h)
  PROVE  IInv'
<1> USE DEF IInv, Refuse, HGoto, mainvars, hvars, dvars
<1>1. TypeOK'
  BY FdsHas DEF TypeOK, MainPC, HandlerPC, DialPC
<1>2. ThreadIn'
  BY DEF TypeOK, ThreadIn
<1>3. DialLife'
  BY DEF TypeOK, DialLife
<1>4. Sockets' /\ NSFds'
  <2>1. \A g \in Handlers : Holds(g)' <=> Holds(g)
    BY DEF TypeOK, DialLife, Holds
  <2> QED BY <2>1, SocketsKept DEF NSFds
<1> QED BY <1>1, <1>2, <1>3, <1>4

(* Success is reported. *)
LEMMA ReplyPreserves ==
  ASSUME IInv, NEW h \in Handlers, Reply(h)
  PROVE  IInv'
<1> USE DEF IInv, Reply, HGoto, mainvars, hvars, dvars
<1>1. TypeOK'
  BY FdsHas DEF TypeOK, MainPC, HandlerPC, DialPC
<1>2. ThreadIn'
  BY DEF TypeOK, ThreadIn
<1>3. DialLife'
  BY DEF TypeOK, DialLife
<1>4. Sockets' /\ NSFds'
  <2>1. \A g \in Handlers : Holds(g)' <=> Holds(g)
    BY DEF TypeOK, DialLife, Holds
  <2> QED BY <2>1, SocketsKept DEF NSFds
<1> QED BY <1>1, <1>2, <1>3, <1>4

(* A direction of pipe ends. *)
LEMMA PipePreserves ==
  ASSUME IInv, NEW h \in Handlers, Pipe(h)
  PROVE  IInv'
<1> USE DEF IInv, Pipe, HGoto, mainvars, hvars, dvars
<1>1. TypeOK'
  BY FdsHas DEF TypeOK, MainPC, HandlerPC, DialPC
<1>2. ThreadIn'
  BY DEF TypeOK, ThreadIn
<1>3. DialLife'
  BY DEF TypeOK, DialLife
<1>4. Sockets' /\ NSFds'
  <2>1. \A g \in Handlers : Holds(g)' <=> Holds(g)
    BY DEF TypeOK, DialLife, Holds
  <2> QED BY <2>1, SocketsKept DEF NSFds
<1> QED BY <1>1, <1>2, <1>3, <1>4

(* The handler closes what it holds. *)
LEMMA HandlerClosePreserves ==
  ASSUME IInv, NEW h \in Handlers, HandlerClose(h)
  PROVE  IInv'
<1> USE DEF IInv, HandlerClose, HGoto, mainvars, hvars, dvars
<1>1. TypeOK'
  BY FdsHas DEF TypeOK, MainPC, HandlerPC, DialPC, CloseSock, CloseFd
<1>2. ThreadIn'
  BY DEF TypeOK, ThreadIn
<1>3. DialLife'
  BY DEF TypeOK, DialLife
<1>4. Sockets' /\ NSFds'
  <2>1. CASE own[h]
    <3>1. /\ Holds(h) /\ ~Holds(h)'
          /\ \A g \in Handlers \ {h} : Holds(g)' <=> Holds(g)
      BY <2>1 DEF TypeOK, DialLife, Holds
    <3> QED BY <2>1, <3>1, SocketClosed
  <2>2. CASE ~own[h]
    <3>1. \A g \in Handlers : Holds(g)' <=> Holds(g)
      BY <2>2 DEF TypeOK, DialLife, Holds
    <3> QED BY <2>2, <3>1, SocketsKept DEF NSFds
  <2> QED BY <2>1, <2>2
<1> QED BY <1>1, <1>2, <1>3, <1>4

(* A late result is taken and closed. *)
LEMMA DrainPreserves ==
  ASSUME IInv, NEW h \in Handlers, Drain(h)
  PROVE  IInv'
<1> USE DEF IInv, Drain, mainvars, hvars, dvars
<1>1. TypeOK'
  BY FdsHas DEF TypeOK, MainPC, HandlerPC, DialPC, CloseSock, CloseFd
<1>2. ThreadIn'
  BY DEF TypeOK, ThreadIn
<1>3. DialLife'
  BY DEF TypeOK, DialLife
<1>4. Sockets' /\ NSFds'
  <2>1. CASE res[h] = "conn"
    <3>1. /\ Holds(h) /\ ~Holds(h)'
          /\ \A g \in Handlers \ {h} : Holds(g)' <=> Holds(g)
      BY <2>1 DEF TypeOK, DialLife, Holds
    <3> QED BY <2>1, <3>1, SocketClosed
  <2>2. CASE res[h] # "conn"
    <3>1. \A g \in Handlers : Holds(g)' <=> Holds(g)
      BY <2>2 DEF TypeOK, DialLife, Holds
    <3> QED BY <2>2, <3>1, SocketsKept DEF NSFds
  <2> QED BY <2>1, <2>2
<1> QED BY <1>1, <1>2, <1>3, <1>4

(* unshare(CLONE_FS). *)
LEMMA RunUnsharePreserves ==
  ASSUME IInv, NEW h \in Handlers, RunUnshare(h)
  PROVE  IInv'
<1> USE DEF IInv, RunUnshare, DGoto, mainvars, hvars, dvars
<1>1. TypeOK'
  BY FdsHas DEF TypeOK, MainPC, HandlerPC, DialPC
<1>2. ThreadIn'
  BY DEF TypeOK, ThreadIn
<1>3. DialLife'
  BY DEF TypeOK, DialLife
<1>4. Sockets' /\ NSFds'
  <2>1. \A g \in Handlers : Holds(g)' <=> Holds(g)
    BY DEF TypeOK, DialLife, Holds
  <2> QED BY <2>1, SocketsKept DEF NSFds
<1> QED BY <1>1, <1>2, <1>3, <1>4

(* A field of the NetNS is read. *)
LEMMA RunReadFdPreserves ==
  ASSUME IInv, NEW h \in Handlers, RunReadFd(h)
  PROVE  IInv'
<1> USE DEF IInv, RunReadFd, DGoto, mainvars, hvars, dvars
<1>1. TypeOK'
  BY FdsHas DEF TypeOK, MainPC, HandlerPC, DialPC
<1>2. ThreadIn'
  <2> SUFFICES ASSUME NEW g \in Handlers
               PROVE  /\ dp'[g] \in {"none", "unshare", "mntRead", "mntSet",
                                    "end"} => thr'[g] = {}
                      /\ dp'[g] \in {"netRead", "netSet"} =>
                           thr'[g] = {"mnt"}
                      /\ dp'[g] \in {"resolve", "connect", "connecting",
                                    "pushConn"} => thr'[g] = {"net", "mnt"}
    BY DEF ThreadIn
  <2>1. CASE g = h
    BY <2>1 DEF TypeOK, ThreadIn
  <2>2. CASE g # h
    BY <2>2 DEF TypeOK, ThreadIn
  <2> QED BY <2>1, <2>2
<1>3. DialLife'
  BY DEF TypeOK, DialLife
<1>4. Sockets' /\ NSFds'
  <2>1. \A g \in Handlers : Holds(g)' <=> Holds(g)
    BY DEF TypeOK, DialLife, Holds
  <2> QED BY <2>1, SocketsKept DEF NSFds
<1> QED BY <1>1, <1>2, <1>3, <1>4

(* setns, the only step that lets a thread into a namespace. *)
LEMMA RunSetnsPreserves ==
  ASSUME IInv, NEW h \in Handlers, RunSetns(h)
  PROVE  IInv'
<1> USE DEF IInv, RunSetns, DGoto, mainvars, hvars, dvars
<1>1. TypeOK'
  BY FdsHas DEF TypeOK, MainPC, HandlerPC, DialPC
<1>2. ThreadIn'
  BY DEF TypeOK, ThreadIn
<1>3. DialLife'
  BY DEF TypeOK, DialLife
<1>4. Sockets' /\ NSFds'
  <2>1. \A g \in Handlers : Holds(g)' <=> Holds(g)
    BY DEF TypeOK, DialLife, Holds
  <2> QED BY <2>1, SocketsKept DEF NSFds
<1> QED BY <1>1, <1>2, <1>3, <1>4

(* resolveInNS. *)
LEMMA ResolvePreserves ==
  ASSUME IInv, NEW h \in Handlers, Resolve(h)
  PROVE  IInv'
<1> USE DEF IInv, Resolve, DGoto, mainvars, hvars, dvars
<1>1. TypeOK'
  BY FdsHas DEF TypeOK, MainPC, HandlerPC, DialPC
<1>2. ThreadIn'
  BY DEF TypeOK, ThreadIn
<1>3. DialLife'
  BY DEF TypeOK, DialLife
<1>4. Sockets' /\ NSFds'
  <2>1. \A g \in Handlers : Holds(g)' <=> Holds(g)
    BY DEF TypeOK, DialLife, Holds
  <2> QED BY <2>1, SocketsKept DEF NSFds
<1> QED BY <1>1, <1>2, <1>3, <1>4

(* socket(2): a free number becomes the socket of this dial only. *)
LEMMA SocketPreserves ==
  ASSUME IInv, NEW h \in Handlers, Socket(h)
  PROVE  IInv'
<1> USE DEF IInv, Socket, DGoto, mainvars, hvars, dvars
<1>0. Free # {} => /\ LowestFree \in Fds /\ LowestFree # 0
                   /\ fdt[LowestFree] = "free"
  BY LowestFreeIsFree DEF Free, NSFds
<1>1. TypeOK'
  BY <1>0, FdsHas DEF TypeOK, MainPC, HandlerPC, DialPC
<1>2. ThreadIn'
  BY DEF TypeOK, ThreadIn
<1>3. DialLife'
  BY DEF TypeOK, DialLife
<1>4. Sockets' /\ NSFds'
  <2>1. CASE UNCHANGED <<fdt, sock>>
    <3>1. \A g \in Handlers : Holds(g)' <=> Holds(g)
      BY <1>0, <2>1 DEF TypeOK, DialLife, Holds
    <3> QED BY <2>1, <3>1, SocketsKept DEF NSFds
  <2>2. CASE /\ Free # {}
             /\ fdt' = [fdt EXCEPT ![LowestFree] = "sock"]
             /\ sock' = [sock EXCEPT ![h] = LowestFree]
             /\ DGoto(h, "connecting")
    <3> HIDE DEF Socket
    <3>1. /\ ~Holds(h) /\ Holds(h)'
          /\ \A g \in Handlers \ {h} : Holds(g)' <=> Holds(g)
      BY <2>2 DEF Socket, TypeOK, DialLife, Holds
    <3>2. \A g \in Handlers : sock'[g] # 0 <=> Holds(g)'
      BY <1>0, <2>2, <3>1 DEF TypeOK, Sockets
    <3>3. \A g \in Handlers : sock'[g] # 0 => fdt'[sock'[g]] = "sock"
      BY <1>0, <2>2 DEF TypeOK, Sockets
    <3>4. \A f, g \in Handlers : sock'[f] # 0 /\ sock'[f] = sock'[g] => f = g
      BY <1>0, <2>2 DEF TypeOK, Sockets
    <3>5. \A f \in Fds : fdt'[f] = "sock" => \E g \in Handlers : sock'[g] = f
      BY <1>0, <2>2, <3>1, FdsHas DEF TypeOK, Sockets, NSFds
    <3>6. NSFds'
      BY <1>0, <2>2, FdsHas DEF TypeOK, NSFds, Socket
    <3> QED BY <3>2, <3>3, <3>4, <3>5, <3>6 DEF Sockets
  <2> QED BY <2>1, <2>2
<1> QED BY <1>1, <1>2, <1>3, <1>4

(* connect(2) returns. *)
LEMMA ConnectPreserves ==
  ASSUME IInv, NEW h \in Handlers, Connect(h)
  PROVE  IInv'
<1> USE DEF IInv, Connect, DGoto, mainvars, hvars, dvars
<1>1. TypeOK'
  BY FdsHas DEF TypeOK, MainPC, HandlerPC, DialPC, CloseSock, CloseFd
<1>2. ThreadIn'
  BY DEF TypeOK, ThreadIn
<1>3. DialLife'
  BY DEF TypeOK, DialLife
<1>4. Sockets' /\ NSFds'
  <2>1. CASE DGoto(h, "connect") /\ CloseSock(h)
    <3>1. /\ Holds(h) /\ ~Holds(h)'
          /\ \A g \in Handlers \ {h} : Holds(g)' <=> Holds(g)
      BY <2>1 DEF TypeOK, DialLife, Holds
    <3> QED BY <2>1, <3>1, SocketClosed
  <2>2. CASE DGoto(h, "pushConn") /\ UNCHANGED <<fdt, sock>>
    <3>1. \A g \in Handlers : Holds(g)' <=> Holds(g)
      BY <2>2 DEF TypeOK, DialLife, Holds
    <3> QED BY <2>2, <3>1, SocketsKept DEF NSFds
  <2> QED BY <2>1, <2>2
<1> QED BY <1>1, <1>2, <1>3, <1>4

(* The result is put on the channel. *)
LEMMA PushPreserves ==
  ASSUME IInv, NEW h \in Handlers, Push(h)
  PROVE  IInv'
<1> USE DEF IInv, Push, mainvars, hvars, dvars
<1>1. TypeOK'
  BY FdsHas DEF TypeOK, MainPC, HandlerPC, DialPC
<1>2. ThreadIn'
  BY DEF TypeOK, ThreadIn
<1>3. DialLife'
  BY DEF TypeOK, DialLife
<1>4. Sockets' /\ NSFds'
  <2>1. \A g \in Handlers : Holds(g)' <=> Holds(g)
    BY DEF TypeOK, DialLife, Holds
  <2> QED BY <2>1, SocketsKept DEF NSFds
<1> QED BY <1>1, <1>2, <1>3, <1>4

-----------------------------------------------------------------------------
(* Every step preserves IInv. *)
LEMMA NextPreserves == IInv /\ [Next]_vars => IInv'
<1> SUFFICES ASSUME IInv, [Next]_vars PROVE IInv'
  OBVIOUS
<1>1. CASE Cancel \/ CloseListener \/ MainStep
  BY <1>1, CancelPreserves, CloseListenerPreserves, AcceptErrorPreserves,
     NetNSClosePreserves, ExitPreserves DEF MainStep
<1>2. ASSUME NEW h \in Handlers,
             \/ Accept(h) \/ HandlerStep(h) \/ Pipe(h) \/ DialTimeout(h)
             \/ DialStep(h) \/ Drain(h)
      PROVE  IInv'
  BY <1>2, AcceptPreserves, GreetPreserves, RequestPreserves,
     DialTimeoutPreserves, DialSelectPreserves, RefusePreserves,
     ReplyPreserves, PipePreserves, HandlerClosePreserves, DrainPreserves,
     RunUnsharePreserves, RunReadFdPreserves, RunSetnsPreserves,
     ResolvePreserves, SocketPreserves, ConnectPreserves, PushPreserves
     DEF HandlerStep, DialStep
<1>3. CASE UNCHANGED vars
  BY <1>3 DEF vars, mainvars, hvars, dvars, IInv, TypeOK, ThreadIn, DialLife,
              Sockets, Holds, NSFds
<1> QED BY <1>1, <1>2, <1>3 DEF Next

(* IInv is an invariant of the server. *)
THEOREM Invariance == Spec => []IInv
BY InitIInv, NextPreserves, PTL DEF Spec

(* Types: in particular the descriptors stay in the table, and the         *)
(* addresses left to try never run below zero.                             *)
THEOREM TypeCorrect == Spec => []TypeOK
<1>1. IInv => TypeOK
  BY DEF IInv
<1> QED BY Invariance, <1>1, PTL

(* Every upstream socket is opened on a thread that is in both of the      *)
(* egress namespaces, wherever NetNS.Close finds NetNS.Run.                *)
THEOREM DialsInsideTheorem == Spec => []DialsInside
<1>1. IInv => DialsInside
  BY DEF IInv, ThreadIn, DialsInside
<1> QED BY Invariance, <1>1, PTL

(* Every upstream socket has somebody who will close it, however a late    *)
(* dial meets its handler's timeout and the shutdown.                      *)
THEOREM UpstreamOwnedTheorem == Spec => []UpstreamOwned
<1>1. IInv => UpstreamOwned
  <2> SUFFICES ASSUME IInv, NEW f \in Fds, fdt[f] = "sock"
               PROVE  \E h \in Handlers :
                        /\ sock[h] = f
                        /\ \/ /\ \/ dp[h] \in {"connecting", "pushConn"}
                                 \/ res[h] = "conn"
                              /\ hp[h] = "dial" \/ drain[h] = "wait"
                           \/ own[h] /\ hp[h] \in {"reply", "pipe", "close"}
    BY DEF UpstreamOwned
  <2>1. PICK h \in Handlers : sock[h] = f
    BY DEF IInv, Sockets
  <2>2. Holds(h)
    BY <2>1 DEF IInv, Sockets, NSFds
  <2> QED BY <2>1, <2>2 DEF IInv, DialLife, Holds
<1> QED BY Invariance, <1>1, PTL

(* A connection has one holder: no two goroutines ever have the same       *)
(* descriptor, so nobody closes or uses another client's connection, also  *)
(* when its number has been closed and given out again.                    *)
SocketsUnshared ==
  \A g, h \in Handlers : sock[g] # 0 /\ sock[g] = sock[h] => g = h

(* The handlers of handleProxyConn never share an upstream descriptor. *)
THEOREM SocketsUnsharedTheorem == Spec => []SocketsUnshared
<1>1. IInv => SocketsUnshared
  BY DEF IInv, Sockets, SocketsUnshared
<1> QED BY Invariance, <1>1, PTL

(* NetNS.Close, which runs under the handlers, closes the two descriptors  *)
(* of the namespaces and never a number that has become a client's socket. *)
CloseSparesSockets ==
  [][NetNSClose => \A f \in Fds : fdt[f] = "sock" => fdt'[f] = "sock"]_vars

(* NetNS.Close never closes a client's socket, although it reads its       *)
(* fields and closes their numbers without a lock.                         *)
THEOREM CloseSparesSocketsTheorem == Spec => CloseSparesSockets
<1>1. IInv => [NetNSClose => \A f \in Fds :
                 fdt[f] = "sock" => fdt'[f] = "sock"]_vars
  BY DEF IInv, TypeOK, NSFds, NetNSClose, CloseFd
<1> QED BY Invariance, <1>1, PTL DEF CloseSparesSockets

-----------------------------------------------------------------------------
(* What the liveness properties of the runs rest on: nobody waits for      *)
(* something that will not come.                                           *)

(* The dialling goroutine sends on resCh once, and the one place of the    *)
(* channel is empty then, so the send never blocks the thread, given up or *)
(* not.  A connection that its handler has not taken when both have ended  *)
(* is on the channel, with a goroutine waiting that will close it.         *)
LateResultTaken ==
  \A h \in Handlers :
    /\ dp[h] \in {"pushErr", "pushConn"} => res[h] = "empty"
    /\ hp[h] = "done" /\ dp[h] = "end" /\ sock[h] # 0 =>
         res[h] = "conn" /\ drain[h] = "wait"

(* A late result of dialInNS blocks nobody and leaks no socket. *)
THEOREM LateResultTakenTheorem == Spec => []LateResultTaken
<1>1. IInv => LateResultTaken
  BY DEF IInv, DialLife, Sockets, Holds, LateResultTaken
<1> QED BY Invariance, <1>1, PTL

(* The client has no answer before handleProxyConn writes one, and a       *)
(* handler that answers yes, or pipes, has the upstream connection.        *)
Answers ==
  \A h \in Handlers :
    /\ hp[h] \notin {"pipe", "close", "done"} => reply[h] = "none"
    /\ hp[h] \in {"reply", "pipe"} => own[h]

LEMMA AnswersHold == Spec => []Answers
<1>1. Init => Answers
  BY DEF Init, Answers
<1>2. ASSUME IInv, Answers, [Next]_vars PROVE Answers'
  <2> USE <1>2 DEF IInv, TypeOK, Answers
  <2>1. CASE Cancel \/ CloseListener \/ MainStep
    BY <2>1 DEF Cancel, CloseListener, MainStep, AcceptError, NetNSClose, Exit,
                hvars
  <2>2. ASSUME NEW h \in Handlers, Accept(h) \/ DialTimeout(h) \/ Pipe(h)
        PROVE  Answers'
    BY <2>2 DEF Accept, DialTimeout, Pipe, HGoto
  <2>3. ASSUME NEW h \in Handlers, Greet(h) \/ Request(h) \/ Refuse(h)
        PROVE  Answers'
    BY <2>3 DEF Greet, Request, Refuse, HGoto
  <2>4. ASSUME NEW h \in Handlers, DialSelect(h) PROVE Answers'
    <3>1. CASE HGoto(h, "refuse") /\ UNCHANGED own
      BY <2>4, <3>1 DEF DialSelect, HGoto
    <3>2. CASE TakeResult(h) /\ res[h] = "conn"
      BY <2>4, <3>2 DEF DialSelect, TakeResult, HGoto
    <3>3. CASE TakeResult(h) /\ res[h] # "conn"
      <4>1. hp' = [hp EXCEPT ![h] = "refuse"]
        BY <3>3 DEF TakeResult, HGoto
      <4>2. \A g \in Handlers : g # h => (own'[g] <=> own[g])
        BY <3>3 DEF TakeResult
      <4>3. hp[h] = "dial" /\ UNCHANGED reply
        BY <2>4 DEF DialSelect
      <4> QED BY <4>1, <4>2, <4>3
    <3> QED BY <2>4, <3>1, <3>2, <3>3 DEF DialSelect
  <2>5. ASSUME NEW h \in Handlers, Reply(h) \/ HandlerClose(h) PROVE Answers'
    BY <2>5 DEF Reply, HandlerClose, HGoto
  <2>6. ASSUME NEW h \in Handlers, DialStep(h) \/ Drain(h) PROVE Answers'
    BY <2>6 DEF DialStep, RunUnshare, RunReadFd, RunSetns, Resolve, Socket,
                Connect, Push, Drain, hvars
  <2>7. CASE UNCHANGED vars
    BY <2>7 DEF vars, hvars
  <2> QED BY <2>1, <2>2, <2>3, <2>4, <2>5, <2>6, <2>7 DEF Next, HandlerStep
<1> QED BY <1>1, <1>2, Invariance, PTL DEF Spec

(* A handler that copies between the client and the upstream has an open   *)
(* socket of its own to copy to, whatever timeout, late result or shutdown *)
(* came before.                                                            *)
PipesOpenSocket ==
  \A h \in Handlers :
    hp[h] \in {"reply", "pipe"} => sock[h] # 0 /\ fdt[sock[h]] = "sock"

(* handleProxyConn answers yes, and pipes, only with an open upstream. *)
THEOREM PipesOpenSocketTheorem == Spec => []PipesOpenSocket
<1>1. IInv /\ Answers => PipesOpenSocket
  BY DEF IInv, Answers, Sockets, Holds, PipesOpenSocket
<1> QED BY Invariance, AnswersHold, <1>1, PTL

(* A client that has been answered keeps that answer. *)
OneReply ==
  [][\A h \in Handlers : reply[h] # "none" => reply'[h] = reply[h]]_vars

(* handleProxyConn writes at most one reply: a refusal after a success, or *)
(* the other way round, does not happen, whichever case dialInNS' select   *)
(* takes.                                                                  *)
THEOREM OneReplyTheorem == Spec => OneReply
<1>1. ASSUME IInv, Answers, [Next]_vars
      PROVE  [\A h \in Handlers : reply[h] # "none" => reply'[h] = reply[h]]_vars
  <2> USE <1>1 DEF IInv, TypeOK, Answers
  <2>1. CASE Cancel \/ CloseListener \/ MainStep
    BY <2>1 DEF Cancel, CloseListener, MainStep, AcceptError, NetNSClose, Exit,
                hvars
  <2>2. ASSUME NEW h \in Handlers, Refuse(h) \/ Reply(h)
        PROVE  \A g \in Handlers : reply[g] # "none" => reply'[g] = reply[g]
    BY <2>2 DEF Refuse, Reply
  <2>3. ASSUME NEW h \in Handlers,
               \/ Accept(h) \/ DialTimeout(h) \/ Pipe(h) \/ Greet(h)
               \/ Request(h) \/ DialSelect(h) \/ HandlerClose(h)
               \/ DialStep(h) \/ Drain(h)
        PROVE  UNCHANGED reply
    BY <2>3 DEF Accept, DialTimeout, Pipe, Greet, Request, DialSelect,
                HandlerClose, DialStep, RunUnshare, RunReadFd, RunSetns,
                Resolve, Socket, Connect, Push, Drain, hvars
  <2> QED BY <2>1, <2>2, <2>3 DEF Next, HandlerStep
<1> QED BY <1>1, Invariance, AnswersHold, PTL DEF Spec, OneReply
=============================================================================
