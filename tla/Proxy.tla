------------------------------- MODULE Proxy -------------------------------
(***************************************************************************)
(* The SOCKS5 server of proxy.go and the way it enters the egress          *)
(* namespace (NetNS.Run and NetNS.Close of netns.go), while it serves and  *)
(* while cmdProxy shuts down underneath it.                                *)
(*                                                                         *)
(* Every accepted client has a handler (handleProxyConn), the goroutine    *)
(* dialInNS starts, which dials on a thread of its own inside the egress   *)
(* namespace, and, if the dial is given up, a goroutine that waits for     *)
(* its late result.  The main goroutine accepts, and once the context is   *)
(* cancelled closes the namespace's descriptors and exits without waiting  *)
(* for any of them.                                                        *)
(*                                                                         *)
(* Descriptors are numbers: NetFD and MntFD are two fields of the NetNS    *)
(* that Close zeroes while Run reads them, and a number that has been      *)
(* closed is given to the next socket.                                     *)
(***************************************************************************)
EXTENDS Naturals

CONSTANTS
  Handlers,   \* accepted connections
  MaxAddrs    \* addresses a name resolves to, at most

(* A literal address is one. *)
ASSUME MaxAddrsAssumption == MaxAddrs \in Nat \ {0}

(* The descriptor table: 0 is stdin, 1 and 2 are the namespace's, the rest *)
(* is free for one socket per handler.                                     *)
CONSTANT MaxFd
ASSUME MaxFdAssumption == MaxFd \in Nat /\ MaxFd > 2
Fds == 0 .. MaxFd

VARIABLES
  mpc,        \* the main goroutine
  ln,         \* the listener is open
  ctxDone,    \* the context of RunProxy is cancelled
  netFD, mntFD,  \* fields of the NetNS
  fdt,        \* what each descriptor is
  hp,         \* handleProxyConn
  timer,      \* the 30 s timeout of dialCtx has passed
  reply,      \* the reply the client got
  half,       \* directions of pipe that have ended
  own,        \* dialInNS has returned the upstream connection to it
  dp,         \* the dialling goroutine
  arg,        \* the descriptor it passes to setns
  thr,        \* the namespaces its thread is in
  ips,        \* addresses it has not tried
  lookup,     \* the namespace its name was looked up in
  sock,       \* the descriptor of the upstream socket, 0 if none
  res,        \* what resCh holds
  drain       \* the goroutine that waits for a late result

mainvars == <<mpc, ln, ctxDone, netFD, mntFD>>
hvars    == <<hp, timer, reply, half, own>>
dvars    == <<dp, arg, thr, ips, lookup>>
vars     == <<mainvars, fdt, hvars, dvars, sock, res, drain>>

MainPC    == {"accept", "closeNet", "zeroNet", "closeMnt", "zeroMnt", "exit",
              "exited"}
HandlerPC == {"none", "greet", "request", "dial", "reply", "refuse", "pipe",
              "close", "done"}
DialPC    == {"none", "unshare", "mntRead", "mntSet", "netRead", "netSet",
              "resolve", "connect", "connecting", "pushErr", "pushConn", "end"}

TypeOK ==
  /\ mpc \in MainPC
  /\ ln \in BOOLEAN /\ ctxDone \in BOOLEAN
  /\ netFD \in Fds /\ mntFD \in Fds
  /\ fdt \in [Fds -> {"free", "stdin", "net", "mnt", "sock"}]
  /\ hp \in [Handlers -> HandlerPC]
  /\ timer \in [Handlers -> BOOLEAN]
  /\ reply \in [Handlers -> {"none", "ok", "fail"}]
  /\ half \in [Handlers -> SUBSET {"up", "down"}]
  /\ own \in [Handlers -> BOOLEAN]
  /\ dp \in [Handlers -> DialPC]
  /\ arg \in [Handlers -> Fds]
  /\ thr \in [Handlers -> SUBSET {"net", "mnt"}]
  /\ ips \in [Handlers -> 0 .. MaxAddrs]
  /\ lookup \in [Handlers -> {"none", "host", "egress"}]
  /\ sock \in [Handlers -> Fds]
  /\ res \in [Handlers -> {"empty", "err", "conn"}]
  /\ drain \in [Handlers -> {"none", "wait", "end"}]

Init ==
  /\ mpc = "accept"
  /\ ln = TRUE /\ ctxDone = FALSE
  /\ netFD = 1 /\ mntFD = 2
  /\ fdt = [f \in Fds |-> CASE f = 0 -> "stdin" [] f = 1 -> "net"
                            [] f = 2 -> "mnt" [] OTHER -> "free"]
  /\ hp = [h \in Handlers |-> "none"]
  /\ timer = [h \in Handlers |-> FALSE]
  /\ reply = [h \in Handlers |-> "none"]
  /\ half = [h \in Handlers |-> {}]
  /\ own = [h \in Handlers |-> FALSE]
  /\ dp = [h \in Handlers |-> "none"]
  /\ arg = [h \in Handlers |-> 0]
  /\ thr = [h \in Handlers |-> {}]
  /\ ips = [h \in Handlers |-> 0]
  /\ lookup = [h \in Handlers |-> "none"]
  /\ sock = [h \in Handlers |-> 0]
  /\ res = [h \in Handlers |-> "empty"]
  /\ drain = [h \in Handlers |-> "none"]

HGoto(h, l) == hp' = [hp EXCEPT ![h] = l]
DGoto(h, l) == dp' = [dp EXCEPT ![h] = l]

-----------------------------------------------------------------------------
(***************************************************************************)
(* RunProxy and the shutdown of cmdProxy.                                  *)
(***************************************************************************)

(* The signal goroutine cancels the context. *)
Cancel ==
  /\ ~ctxDone
  /\ ctxDone' = TRUE
  /\ UNCHANGED <<mpc, ln, netFD, mntFD, fdt, hvars, dvars, sock, res, drain>>

(* Mutant: no goroutine waits for the context. *)
CloseListenerNever == FALSE /\ UNCHANGED vars

(* The goroutine of RunProxy that waits for the context. *)
CloseListener ==
  /\ ctxDone /\ ln
  /\ ln' = FALSE
  /\ UNCHANGED <<mpc, ctxDone, netFD, mntFD, fdt, hvars, dvars, sock, res,
                 drain>>

Accept(h) ==
  /\ mpc = "accept" /\ ln
  /\ hp[h] = "none"
  /\ HGoto(h, "greet")
  /\ UNCHANGED <<mainvars, fdt, timer, reply, half, own, dvars, sock, res,
                 drain>>

(* An error of Accept makes RunProxy return once the context is cancelled, *)
(* which closes the listener if it is still open; before that it is        *)
(* retried, which changes nothing.                                         *)
AcceptError ==
  /\ mpc = "accept" /\ ctxDone
  /\ mpc' = "closeNet"
  /\ ln' = FALSE
  /\ UNCHANGED <<ctxDone, netFD, mntFD, fdt, hvars, dvars, sock, res, drain>>

(* Accept is sure to fail on a closed listener; on an open one it may (for *)
(* want of descriptors, say) and may as well wait for ever.                *)
AcceptFails == ~ln /\ AcceptError

(* State.Close reaches NetNS.Close: each descriptor is closed and its      *)
(* field zeroed, with the dialling goroutines still running.               *)
CloseFd(f) == fdt' = [fdt EXCEPT ![f] = "free"]

NetNSClose ==
  /\ \/ /\ mpc = "closeNet" /\ CloseFd(netFD) /\ mpc' = "zeroNet"
        /\ UNCHANGED <<netFD, mntFD>>
     \/ /\ mpc = "zeroNet" /\ netFD' = 0 /\ mpc' = "closeMnt"
        /\ UNCHANGED <<fdt, mntFD>>
     \/ /\ mpc = "closeMnt" /\ CloseFd(mntFD) /\ mpc' = "zeroMnt"
        /\ UNCHANGED <<netFD, mntFD>>
     \/ /\ mpc = "zeroMnt" /\ mntFD' = 0 /\ mpc' = "exit"
        /\ UNCHANGED <<fdt, netFD>>
  /\ UNCHANGED <<ln, ctxDone, hvars, dvars, sock, res, drain>>

(* main returns: every goroutine ends with the process. *)
Exit ==
  /\ mpc = "exit"
  /\ mpc' = "exited"
  /\ UNCHANGED <<ln, ctxDone, netFD, mntFD, fdt, hvars, dvars, sock, res,
                 drain>>

MainStep == AcceptError \/ NetNSClose \/ Exit

-----------------------------------------------------------------------------
(***************************************************************************)
(* handleProxyConn.                                                        *)
(***************************************************************************)

(* The greeting: any error, another version, or the 15 s deadline closes   *)
(* the connection without a reply.                                         *)
Greet(h) ==
  /\ hp[h] = "greet"
  /\ HGoto(h, "request") \/ HGoto(h, "close")
  /\ UNCHANGED <<mainvars, fdt, timer, reply, half, own, dvars, sock, res,
                 drain>>

(* The request: read errors close the connection, another command or an    *)
(* address that cannot be read is answered with a failure, and a CONNECT   *)
(* starts dialInNS and its goroutine.                                      *)
Request(h) ==
  /\ hp[h] = "request"
  /\ \/ HGoto(h, "close") /\ UNCHANGED dp
     \/ HGoto(h, "refuse") /\ UNCHANGED dp
     \/ HGoto(h, "dial") /\ DGoto(h, "unshare")
  /\ UNCHANGED <<mainvars, fdt, timer, reply, half, own, arg, thr, ips,
                 lookup, sock, res, drain>>

DialTimeout(h) ==
  /\ hp[h] = "dial" /\ ~timer[h]
  /\ timer' = [timer EXCEPT ![h] = TRUE]
  /\ UNCHANGED <<mainvars, fdt, hp, reply, half, own, dvars, sock, res, drain>>

(* dialInNS returns what resCh holds. *)
TakeResult(h) ==
  /\ res' = [res EXCEPT ![h] = "empty"]
  /\ own' = [own EXCEPT ![h] = res[h] = "conn"]
  /\ HGoto(h, IF res[h] = "conn" THEN "reply" ELSE "refuse")

(* Mutant: a dial that is given up leaves nobody to take its result. *)
DialSelectNoDrain(h) ==
  /\ hp[h] = "dial"
  /\ \/ /\ ctxDone \/ timer[h]
        /\ HGoto(h, "refuse")
        /\ UNCHANGED <<res, own>>
     \/ /\ res[h] # "empty"
        /\ TakeResult(h)
  /\ UNCHANGED <<mainvars, fdt, timer, reply, half, dvars, sock, drain>>

(* Mutant: dialInNS waits for the result only. *)
DialSelectNoCtx(h) ==
  /\ hp[h] = "dial"
  /\ res[h] # "empty"
  /\ TakeResult(h)
  /\ UNCHANGED <<mainvars, fdt, timer, reply, half, dvars, sock, drain>>

(* The select of dialInNS: the context has ended, and a goroutine is left  *)
(* to take the late result; or the result is there.  When both are, Go     *)
(* chooses.                                                                *)
DialSelect(h) ==
  /\ hp[h] = "dial"
  /\ \/ /\ ctxDone \/ timer[h]
        /\ drain' = [drain EXCEPT ![h] = "wait"]
        /\ HGoto(h, "refuse")
        /\ UNCHANGED <<res, own>>
     \/ /\ res[h] # "empty"
        /\ TakeResult(h)
        /\ UNCHANGED drain
  /\ UNCHANGED <<mainvars, fdt, timer, reply, half, dvars, sock>>

(* writeSocks5Reply with a failure code, its error ignored. *)
Refuse(h) ==
  /\ hp[h] = "refuse"
  /\ reply' = [reply EXCEPT ![h] = "fail"]
  /\ HGoto(h, "close")
  /\ UNCHANGED <<mainvars, fdt, timer, half, own, dvars, sock, res, drain>>

Reply(h) ==
  /\ hp[h] = "reply"
  /\ \/ reply' = [reply EXCEPT ![h] = "ok"] /\ HGoto(h, "pipe")
     \/ HGoto(h, "close") /\ UNCHANGED reply
  /\ UNCHANGED <<mainvars, fdt, timer, half, own, dvars, sock, res, drain>>

(* pipe returns when both directions have ended. *)
Pipe(h) ==
  /\ hp[h] = "pipe"
  /\ \/ \E d \in {"up", "down"} \ half[h] :
          half' = [half EXCEPT ![h] = @ \cup {d}] /\ UNCHANGED hp
     \/ half[h] = {"up", "down"} /\ HGoto(h, "close") /\ UNCHANGED half
  /\ UNCHANGED <<mainvars, fdt, timer, reply, own, dvars, sock, res, drain>>

(* The deferred Closes: the upstream, if dialInNS returned one, and the    *)
(* client.                                                                 *)
CloseSock(h) ==
  /\ CloseFd(sock[h])
  /\ sock' = [sock EXCEPT ![h] = 0]

HandlerClose(h) ==
  /\ hp[h] = "close"
  /\ HGoto(h, "done")
  /\ own' = [own EXCEPT ![h] = FALSE]
  /\ IF own[h] THEN CloseSock(h) ELSE UNCHANGED <<fdt, sock>>
  /\ UNCHANGED <<mainvars, timer, reply, half, dvars, res, drain>>

HandlerStep(h) ==
  \/ Greet(h) \/ Request(h) \/ DialSelect(h) \/ Refuse(h) \/ Reply(h)
  \/ HandlerClose(h)

(* The goroutine that closes a connection which lands late. *)
Drain(h) ==
  /\ drain[h] = "wait"
  /\ res[h] # "empty"
  /\ res' = [res EXCEPT ![h] = "empty"]
  /\ drain' = [drain EXCEPT ![h] = "end"]
  /\ IF res[h] = "conn" THEN CloseSock(h) ELSE UNCHANGED <<fdt, sock>>
  /\ UNCHANGED <<mainvars, hvars, dvars>>

-----------------------------------------------------------------------------
(***************************************************************************)
(* The goroutine of dialInNS: NetNS.Run, and inside it the resolution and  *)
(* the connects.                                                           *)
(***************************************************************************)

(* unshare(CLONE_FS). *)
RunUnshare(h) ==
  /\ dp[h] = "unshare"
  /\ DGoto(h, "mntRead") \/ DGoto(h, "pushErr")
  /\ UNCHANGED <<mainvars, fdt, hvars, arg, thr, ips, lookup, sock, res,
                 drain>>

(* The argument of setns is read before the call is made. *)
RunReadFd(h) ==
  /\ \/ /\ dp[h] = "mntRead"
        /\ arg' = [arg EXCEPT ![h] = mntFD]
        /\ DGoto(h, "mntSet")
     \/ /\ dp[h] = "netRead"
        /\ arg' = [arg EXCEPT ![h] = netFD]
        /\ DGoto(h, "netSet")
  /\ UNCHANGED <<mainvars, fdt, hvars, thr, ips, lookup, sock, res, drain>>

(* Mutant: an error of the second setns is ignored. *)
RunSetnsCareless(h) ==
  /\ \/ /\ dp[h] = "mntSet"
        /\ \/ /\ fdt[arg[h]] = "mnt"
              /\ thr' = [thr EXCEPT ![h] = @ \cup {"mnt"}]
              /\ DGoto(h, "netRead")
           \/ DGoto(h, "pushErr") /\ UNCHANGED thr
     \/ /\ dp[h] = "netSet"
        /\ thr' = [thr EXCEPT ![h] = @ \cup ({fdt[arg[h]]} \cap {"net"})]
        /\ DGoto(h, "resolve")
  /\ arg' = [arg EXCEPT ![h] = 0]
  /\ UNCHANGED <<mainvars, fdt, hvars, ips, lookup, sock, res, drain>>

(* setns: it enters the namespace if the descriptor still is one, and Run  *)
(* returns the error without calling fn otherwise.                         *)
RunSetns(h) ==
  /\ \/ /\ dp[h] = "mntSet"
        /\ \/ /\ fdt[arg[h]] = "mnt"
              /\ thr' = [thr EXCEPT ![h] = @ \cup {"mnt"}]
              /\ DGoto(h, "netRead")
           \/ DGoto(h, "pushErr") /\ UNCHANGED thr
     \/ /\ dp[h] = "netSet"
        /\ \/ /\ fdt[arg[h]] = "net"
              /\ thr' = [thr EXCEPT ![h] = @ \cup {"net"}]
              /\ DGoto(h, "resolve")
           \/ DGoto(h, "pushErr") /\ UNCHANGED thr
  /\ arg' = [arg EXCEPT ![h] = 0]
  /\ UNCHANGED <<mainvars, fdt, hvars, ips, lookup, sock, res, drain>>

(* resolveInNS: a literal address stands for itself.  A name is looked up  *)
(* by net.Resolver (external) in a goroutine of its own, which never runs  *)
(* on a thread that is locked to another goroutine, as the one in the      *)
(* namespace is; it yields an error, or some addresses, perhaps none.      *)
Resolve(h) ==
  /\ dp[h] = "resolve"
  /\ \/ /\ ips' = [ips EXCEPT ![h] = 1]
        /\ DGoto(h, "connect")
        /\ UNCHANGED lookup
     \/ /\ lookup' = [lookup EXCEPT ![h] = "host"]
        /\ \/ DGoto(h, "pushErr") /\ UNCHANGED ips
           \/ /\ \E n \in 0 .. MaxAddrs : ips' = [ips EXCEPT ![h] = n]
              /\ DGoto(h, "connect")
  /\ UNCHANGED <<mainvars, fdt, hvars, arg, thr, sock, res, drain>>

(* The lowest descriptor that is free, as POSIX allocates them. *)
Free == {f \in Fds : fdt[f] = "free"}
LowestFree == CHOOSE f \in Free : \A g \in Free : f <= g

(* Mutant: the loop runs past the last address. *)
SocketPastEnd(h) ==
  /\ dp[h] = "connect"
  /\ ips' = [ips EXCEPT ![h] = @ - 1]
  /\ UNCHANGED <<mainvars, dp, fdt, hvars, arg, thr, lookup, sock, res, drain>>

(* connectInNS up to connect(2), for the next address; the last address    *)
(* has failed when there is none.                                          *)
Socket(h) ==
  /\ dp[h] = "connect"
  /\ \/ /\ ips[h] = 0
        /\ DGoto(h, "pushErr")
        /\ UNCHANGED <<fdt, ips, sock>>
     \/ /\ ips[h] > 0
        /\ ips' = [ips EXCEPT ![h] = @ - 1]
        /\ \/ UNCHANGED <<dp, fdt, sock>>
           \/ /\ Free # {}
              /\ fdt' = [fdt EXCEPT ![LowestFree] = "sock"]
              /\ sock' = [sock EXCEPT ![h] = LowestFree]
              /\ DGoto(h, "connecting")
  /\ UNCHANGED <<mainvars, hvars, arg, thr, lookup, res, drain>>

(* Mutant: the socket of a failed connect is not closed. *)
ConnectLeaky(h) ==
  /\ dp[h] = "connecting"
  /\ DGoto(h, "pushConn") \/ DGoto(h, "connect")
  /\ UNCHANGED <<mainvars, fdt, hvars, arg, thr, ips, lookup, sock, res,
                 drain>>

(* connect(2) returns; the socket of a failed one is closed. *)
Connect(h) ==
  /\ dp[h] = "connecting"
  /\ \/ DGoto(h, "pushConn") /\ UNCHANGED <<fdt, sock>>
     \/ DGoto(h, "connect") /\ CloseSock(h)
  /\ UNCHANGED <<mainvars, hvars, arg, thr, ips, lookup, res, drain>>

(* The one send on resCh, which has room for one. *)
Push(h) ==
  /\ dp[h] \in {"pushErr", "pushConn"}
  /\ res[h] = "empty"
  /\ res' = [res EXCEPT ![h] = IF dp[h] = "pushConn" THEN "conn" ELSE "err"]
  /\ dp' = [dp EXCEPT ![h] = "end"]
  /\ thr' = [thr EXCEPT ![h] = {}]
  /\ ips' = [ips EXCEPT ![h] = 0]
  /\ lookup' = [lookup EXCEPT ![h] = "none"]
  /\ UNCHANGED <<mainvars, fdt, hvars, arg, sock, drain>>

DialStep(h) ==
  \/ RunUnshare(h) \/ RunReadFd(h) \/ RunSetns(h) \/ Resolve(h)
  \/ Socket(h) \/ Connect(h) \/ Push(h)

Next ==
  /\ mpc # "exited"
  /\ \/ Cancel \/ CloseListener \/ MainStep
     \/ \E h \in Handlers :
          \/ Accept(h) \/ HandlerStep(h) \/ Pipe(h) \/ DialTimeout(h)
          \/ DialStep(h) \/ Drain(h)

Spec == Init /\ [][Next]_vars

(***************************************************************************)
(* Fairness.  Goroutines that can run do; reads of the greeting and the    *)
(* request have a 15 s deadline and the dial context a 30 s one.  Accept   *)
(* fails once the listener is closed.  Nothing is assumed of the dialling  *)
(* goroutine, whose thread connect(2) blocks, of Pipe, which waits for two *)
(* peers, of whoever cancels the context, or of the shutdown after         *)
(* RunProxy, since State.Close waits for the WireGuard device before it    *)
(* reaches the namespace (Setup).                                          *)
(***************************************************************************)
RunStep(A) == mpc # "exited" /\ A

Fairness ==
  /\ WF_vars(RunStep(CloseListener)) /\ WF_vars(RunStep(AcceptFails))
  /\ \A h \in Handlers :
       /\ WF_vars(RunStep(HandlerStep(h)))
       /\ WF_vars(RunStep(DialTimeout(h)))
       /\ WF_vars(RunStep(Drain(h)))

FairSpec == Spec /\ Fairness

-----------------------------------------------------------------------------
(* The upstream sockets are opened inside the egress namespace, also when  *)
(* NetNS.Close runs between the two setns calls and its descriptors'       *)
(* numbers are in use again: fn is never called on a thread that is not in *)
(* both namespaces.                                                        *)
DialsInside ==
  \A h \in Handlers :
    dp[h] \in {"resolve", "connect", "connecting", "pushConn"} =>
      thr[h] = {"net", "mnt"}

(* An upstream connection always has somebody who will close it: the       *)
(* dialling goroutine, the channel with a reader to come, or the handler.  *)
UpstreamOwned ==
  \A f \in Fds : fdt[f] = "sock" =>
    \E h \in Handlers :
      /\ sock[h] = f
      /\ \/ /\ dp[h] \in {"connecting", "pushConn"} \/ res[h] = "conn"
            /\ hp[h] = "dial" \/ drain[h] = "wait"
         \/ own[h] /\ hp[h] \in {"reply", "pipe", "close"}

(* dialInNS gives up in time even if the thread in the namespace hangs, so *)
(* the client is always answered or disconnected.                          *)
ClientAnswered ==
  \A h \in Handlers :
    hp[h] = "dial" ~> hp[h] \in {"pipe", "done"} \/ mpc = "exited"

(* A connection that lands after its handler has gone is closed: once the  *)
(* handler and the dialling goroutine have ended there is no socket left.  *)
UpstreamClosed ==
  \A h \in Handlers :
    hp[h] = "done" /\ dp[h] = "end" ~> sock[h] = 0 \/ mpc = "exited"

(* Cancelling the context winds the proxy down: the listener is closed,    *)
(* RunProxy returns although Accept waits for a client, nobody is accepted *)
(* or dialled for any more, and what is left are the pipes; or the process *)
(* has exited before.                                                      *)
ProxyReturns ==
  ctxDone ~> \/ /\ mpc # "accept" /\ ~ln
                /\ \A h \in Handlers : hp[h] \in {"none", "pipe", "done"}
             \/ mpc = "exited"

-----------------------------------------------------------------------------
(* "Resolution is also done in the netns via the standard resolver (so it  *)
(* goes through the netns DNS / warp path)": no name is looked up outside  *)
(* the egress namespace.  The code does not have this property.            *)
ResolvesInside == \A h \in Handlers : lookup[h] # "host"

=============================================================================
