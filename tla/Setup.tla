------------------------------- MODULE Setup -------------------------------
(***************************************************************************)
(* The life of one mwarp process: setupAll, the workload it leads to (a    *)
(* child command or the SOCKS5 proxy), and the shutdown (main.go, run.go,  *)
(* warp.go, warpready.go, egress.go, the constructor of netns.go).         *)
(*                                                                         *)
(* The main goroutine is a sequence of steps, each of which may fail.      *)
(* Around it run the signal goroutine, which cancels the context on the    *)
(* first signal and exits the process on the second; the goroutine that    *)
(* forwards signals to the child; the child; and the warp daemon, which    *)
(* is external and is modelled by what setupAll expects of it.             *)
(*                                                                         *)
(* What a step creates is kept in `live`; State, the structure Close works *)
(* from, is `state`.  The network of the WARP namespace is reduced to      *)
(* whether it forwards, whether the forward guard is installed, and        *)
(* whether the egress side of the veth pair has its default route.         *)
(***************************************************************************)
EXTENDS Naturals

CONSTANTS
  Retries      \* --warp-connect-retries

ASSUME RetriesAssumption == Retries \in Nat

(* What the flags decide: WireGuard, warp-svc, warp-cli and the tunnel     *)
(* protocol may each be left out; WireGuard may run over the bind of       *)
(* TCPBind; run and proxy; whether stdin is a TTY.                         *)
Config == [wg : BOOLEAN, tcp : BOOLEAN, svc : BOOLEAN, cli : BOOLEAN,
           proto : BOOLEAN, mode : {"run", "proxy"}, tty : BOOLEAN]

(* SIGINT or SIGTERM arrives at most this often. *)
MaxSignals == 2

VARIABLES
  cfg,         \* the configuration, fixed
  pc,          \* where the main goroutine is
  ns,          \* the namespace CreateNetNS is working on
  live,        \* what exists: a set of <<owner, part>>
  state,       \* the fields of State that are set
  attempt,     \* failed attempts of the present warp-cli command
  daemon,      \* the warp daemon: what it has been told, and its route
  net,         \* parts of the path from the egress namespace that exist
  child,       \* the child of RunInNS
  code,        \* the exit code main is about to use
  signals,     \* signals that have arrived
  handled,     \* signals the signal goroutine has taken
  ctxDone,     \* the context is cancelled
  notify,      \* RunInNS forwards signals to the child
  queued       \* signals waiting in sigCh

mvars == <<ns, live, state, attempt>>
svars == <<signals, handled, ctxDone, queued>>
vars  == <<cfg, pc, mvars, daemon, net, child, code, svars, notify>>

Namespaces == {"warp", "egress"}
Parts(n) == {<<n, "staging">>, <<n, "anchor">>, <<n, "netfd">>, <<n, "mntfd">>}
Resources == Parts("warp") \cup Parts("egress")
               \cup {<<"wg", "netstack">>, <<"wg", "device">>, <<"tun", "fd">>,
                     <<"stack", "stack">>, <<"svc", "process">>}
Fields == {"WG", "WarpNS", "TUN", "Stack", "WarpSvc", "Egress"}

CreateNS == {"mkdir", "anchor", "netfd", "mntfd"}
CliPC    == {"register", "protocol", "connect"}
SetupPC  == {"root", "wg", "wgKeys", "wgUp", "binds", "tun", "move", "stack",
             "link", "svc", "head", "wait", "veth", "forward", "guard", "masq",
             "edge"} \cup CreateNS \cup CliPC
WorkPC   == {"listen", "serve", "start", "notify", "child"}
ClosePC  == {"close", "closeWG", "wgHangs", "closeNS"}
MainPC   == SetupPC \cup {"cliHangs"} \cup WorkPC \cup ClosePC \cup {"exited"}

TypeOK ==
  /\ cfg \in Config
  /\ pc \in MainPC
  /\ ns \in Namespaces
  /\ live \subseteq Resources
  /\ state \subseteq Fields
  /\ attempt \in 0 .. Retries
  /\ daemon \in [registered : BOOLEAN, protocol : BOOLEAN, connected : BOOLEAN,
                 route : {"none", "tun", "warp"}]
  /\ net \subseteq {"forward", "guard", "edge"}
  /\ child \in {"none", "running", "zero", "nonzero", "reaped"}
  /\ code \in {"none", "ok", "err", "child", "hard"}
  /\ signals \in 0 .. MaxSignals
  /\ handled \in 0 .. 2
  /\ ctxDone \in BOOLEAN
  /\ notify \in BOOLEAN
  /\ queued \in 0 .. MaxSignals

Init ==
  /\ cfg \in Config
  /\ pc = "root"
  /\ ns = "warp"
  /\ live = {}
  /\ state = {}
  /\ attempt = 0
  /\ \E r \in BOOLEAN :   \* --warp-state-dir may hold a registration
       daemon = [registered |-> r, protocol |-> FALSE, connected |-> FALSE,
                 route |-> "none"]
  /\ net = {}
  /\ child = "none"
  /\ code = "none"
  /\ signals = 0 /\ handled = 0 /\ ctxDone = FALSE
  /\ notify = FALSE /\ queued = 0

-----------------------------------------------------------------------------
(***************************************************************************)
(* setupAll.  Every error path calls state.Close() and makes cmdRun or     *)
(* cmdProxy return 1.                                                      *)
(***************************************************************************)
Fail == pc' = "close" /\ code' = "err"
Goto(l) == pc' = l /\ code' = code

(* A step that creates nothing, and may fail. *)
Plain(from, to) ==
  /\ pc = from
  /\ Goto(to) \/ Fail
  /\ UNCHANGED <<mvars, daemon, net, child, notify>>

(* A step that creates r and records it in field f, or fails. *)
Acquire(from, to, r, f) ==
  /\ pc = from
  /\ \/ /\ live' = live \cup {r}
        /\ state' = state \cup {f}
        /\ Goto(to)
     \/ Fail /\ UNCHANGED <<live, state>>
  /\ UNCHANGED <<ns, attempt, daemon, net, child, notify>>

CheckRoot == Plain("root", IF cfg.wg THEN "wg" ELSE "binds")

(* StartWireGuard: the netstack device first; then the keys and the        *)
(* endpoint, whose errors leave it behind; then the device, which is       *)
(* closed again, and its netstack with it, when IpcSet or Up fails.        *)
StartWireGuard ==
  /\ \/ /\ pc = "wg"
        /\ \/ live' = live \cup {<<"wg", "netstack">>} /\ Goto("wgKeys")
           \/ Fail /\ UNCHANGED live
        /\ UNCHANGED state
     \/ /\ pc = "wgKeys"
        /\ Goto("wgUp") \/ Fail
        /\ UNCHANGED <<live, state>>
     \/ /\ pc = "wgUp"
        /\ \/ /\ live' = live \cup {<<"wg", "device">>}
              /\ state' = state \cup {"WG"}
              /\ Goto("binds")
           \/ /\ live' = live \ {<<"wg", "netstack">>}
              /\ Fail /\ UNCHANGED state
  /\ UNCHANGED <<ns, attempt, daemon, net, child, notify>>

PrepareBinds == Plain("binds", "mkdir")

(* Mutant: the staging directory outlives a failed CreateNetNS. *)
CreateNetNSLeaky ==
  /\ pc \in CreateNS
  /\ \/ Fail /\ UNCHANGED <<live, state>>
     \/ /\ live' = live \cup
             (CASE pc = "mkdir"  -> {<<ns, "staging">>}
                [] pc = "anchor" -> {<<ns, "anchor">>}
                [] pc = "netfd"  -> {<<ns, "netfd">>}
                [] pc = "mntfd"  -> {<<ns, "mntfd">>})
        /\ Goto(CASE pc = "mkdir"  -> "anchor"
                  [] pc = "anchor" -> "netfd"
                  [] pc = "netfd"  -> "mntfd"
                  [] pc = "mntfd"  -> IF ns = "warp" THEN "tun" ELSE "veth")
        /\ state' = IF pc = "mntfd" /\ ns = "warp"
                    THEN state \cup {"WarpNS"} ELSE state
  /\ UNCHANGED <<ns, attempt, daemon, net, child, notify>>

(* CreateNetNS: a staging directory on the host, the anchor thread with    *)
(* its new namespaces, and the two namespace fds.  Each failure undoes the *)
(* steps before it.                                                        *)
CreateNetNS ==
  /\ pc \in CreateNS
  /\ \/ Fail /\ live' = live \ Parts(ns) /\ UNCHANGED state
     \/ /\ live' = live \cup
             (CASE pc = "mkdir"  -> {<<ns, "staging">>}
                [] pc = "anchor" -> {<<ns, "anchor">>}
                [] pc = "netfd"  -> {<<ns, "netfd">>}
                [] pc = "mntfd"  -> {<<ns, "mntfd">>})
        /\ Goto(CASE pc = "mkdir"  -> "anchor"
                  [] pc = "anchor" -> "netfd"
                  [] pc = "netfd"  -> "mntfd"
                  [] pc = "mntfd"  -> IF ns = "warp" THEN "tun" ELSE "veth")
        /\ state' = IF pc = "mntfd" /\ ns = "warp"
                    THEN state \cup {"WarpNS"} ELSE state
  /\ UNCHANGED <<ns, attempt, daemon, net, child, notify>>

CreateTUN == Acquire("tun", "move", <<"tun", "fd">>, "TUN")
MoveToNetNS == Plain("move", "stack")

(* NewNSStack: without fdbased.New there is no stack; an error after       *)
(* stack.New returns without closing it, and State does not know of it.    *)
NewNSStack ==
  /\ pc = "stack"
  /\ \/ /\ live' = live \cup {<<"stack", "stack">>}
        /\ state' = state \cup {"Stack"}
        /\ Goto("link")
     \/ /\ live' \in {live, live \cup {<<"stack", "stack">>}}
        /\ Fail /\ UNCHANGED state
  /\ UNCHANGED <<ns, attempt, daemon, net, child, notify>>

(* configureLinkInNS: the default route of the WARP namespace is the TUN. *)
ConfigureLink ==
  /\ pc = "link"
  /\ \/ Goto("svc") /\ daemon' = [daemon EXCEPT !.route = "tun"]
     \/ Fail /\ UNCHANGED daemon
  /\ UNCHANGED <<mvars, net, child, notify>>

(* StartWarpSvc, on the anchor thread; an empty command starts nothing. *)
StartWarpSvc ==
  \/ cfg.svc /\ Acquire("svc", "head", <<"svc", "process">>, "WarpSvc")
  \/ /\ ~cfg.svc /\ pc = "svc"
     /\ Goto("head")
     /\ UNCHANGED <<mvars, daemon, net, child, notify>>

(* The head start: half a second, or the end of the context. *)
HeadStart ==
  /\ pc = "head"
  /\ Goto("register") \/ (ctxDone /\ Fail)
  /\ UNCHANGED <<mvars, daemon, net, child, notify>>

DaemonUp == cfg.svc => <<"svc", "process">> \in live

(* Mutant: the protocol is left out. *)
CliNextHasty(c) == IF c = "connect" THEN "wait" ELSE "connect"

(* The three warp-cli commands: what follows each, and which of them are   *)
(* skipped.                                                                *)
CliNext(c) == CASE c = "register" -> "protocol"
                [] c = "protocol" -> "connect"
                [] c = "connect"  -> "wait"
CliSkipped(c) == ~cfg.cli \/ (c = "protocol" /\ ~cfg.proto)

(* What the daemon has done once it has accepted the command. *)
Accept(c) ==
  CASE c = "register" -> [daemon EXCEPT !.registered = TRUE]
    [] c = "protocol" -> [daemon EXCEPT !.protocol = TRUE]
    [] c = "connect"  -> [daemon EXCEPT !.connected = TRUE]

(* "already registered" is success, for the registration only. *)
Already(c) == c = "register" /\ daemon.registered

(* Mutants: one attempt too many; the count starts over before the limit. *)
AttemptLeftOneMore == attempt <= Retries
NextAttemptStartsOver == (attempt + 1) % Retries

(* for i := 0; i < retries; i++ *)
AttemptLeft == attempt < Retries
NextAttempt == attempt + 1

(* RegisterWarp, SetWarpTunnelProtocol and ConnectWarp: up to Retries      *)
(* attempts.  An attempt succeeds; or fails although the daemon may have   *)
(* carried the command out; or finds that it already was; or never ends:   *)
(* warp-cli is run without a timeout, and none of the three looks at the   *)
(* context.                                                                *)
WarpCli ==
  /\ pc \in CliPC
  /\ \/ /\ CliSkipped(pc)
        /\ Goto(CliNext(pc))
        /\ UNCHANGED <<attempt, daemon>>
     \/ /\ ~CliSkipped(pc) /\ AttemptLeft
        /\ DaemonUp /\ ~Already(pc)
        /\ daemon' = Accept(pc)
        /\ \/ Goto(CliNext(pc)) /\ attempt' = 0
           \/ UNCHANGED <<pc, code>> /\ attempt' = NextAttempt
           \/ Goto("cliHangs") /\ UNCHANGED attempt
     \/ /\ ~CliSkipped(pc) /\ AttemptLeft
        /\ UNCHANGED daemon
        /\ \/ DaemonUp /\ Already(pc) /\ Goto(CliNext(pc)) /\ attempt' = 0
           \/ UNCHANGED <<pc, code>> /\ attempt' = NextAttempt
           \/ Goto("cliHangs") /\ UNCHANGED attempt
     \/ /\ ~CliSkipped(pc) /\ ~AttemptLeft
        /\ Fail
        /\ attempt' = 0
        /\ UNCHANGED daemon
  /\ UNCHANGED <<ns, live, state, net, child, notify>>

(* WaitForWarpRoute: the route is looked at before the deadline and the    *)
(* context are, and a probe may fail whatever the route is.                *)
WaitForWarpRoute ==
  /\ pc = "wait"
  /\ \/ /\ daemon.route = "warp"
        /\ Goto("mkdir")
        /\ ns' = "egress"
     \/ /\ Fail                      \* the deadline, or the context
        /\ UNCHANGED ns
  /\ UNCHANGED <<live, state, attempt, daemon, net, child, notify>>

-----------------------------------------------------------------------------
(***************************************************************************)
(* CreateEgressNS, after CreateNetNS.  Each failure closes the new         *)
(* namespace again, and with it the egress side of the veth pair.          *)
(***************************************************************************)
EgressFail ==
  /\ Fail
  /\ live' = live \ Parts("egress")

(* A step that adds f to the path; when it fails it may have done so.      *)
EgressStep(from, to, f) ==
  /\ pc = from
  /\ \/ Goto(to) /\ net' = net \cup f /\ UNCHANGED live
     \/ EgressFail /\ net' \in {net, net \cup f}
  /\ UNCHANGED <<ns, state, attempt, daemon, child, notify>>

AddVeth == EgressStep("veth", "forward", {})
EnableForwarding == EgressStep("forward", "guard", {"forward"})

(* Mutant: the guard is taken for installed without being so. *)
InstallForwardGuardSkipped == EgressStep("guard", "masq", {})

(* installForwardGuard: one nftables batch, applied or not. *)
InstallForwardGuard == EgressStep("guard", "masq", {"guard"})
InstallMasquerade == EgressStep("masq", "edge", {})

(* The address, the link and the default routes of the egress side. *)
ConfigureEdge ==
  /\ pc = "edge"
  /\ \/ /\ Goto(IF cfg.mode = "run" THEN "start" ELSE "listen")
        /\ net' = net \cup {"edge"}
        /\ state' = state \cup {"Egress"}
        /\ UNCHANGED live
     \/ EgressFail /\ net' \in {net, net \cup {"edge"}} /\ UNCHANGED state
  /\ UNCHANGED <<ns, attempt, daemon, child, notify>>

-----------------------------------------------------------------------------
(***************************************************************************)
(* The workload: RunProxy, or RunInNS.                                     *)
(***************************************************************************)
Listen ==
  /\ pc = "listen"
  /\ Goto("serve") \/ Fail
  /\ UNCHANGED <<mvars, daemon, net, child, notify>>

(* The accept loop ends when the context does, and cmdProxy returns 0. *)
Serve ==
  /\ pc = "serve"
  /\ ctxDone
  /\ pc' = "close" /\ code' = "ok"
  /\ UNCHANGED <<mvars, daemon, net, child, notify>>

(* RunInNS: cmd.Start on the anchor thread.  When it fails RunInNS returns *)
(* the exit code 0 and an error, and cmdRun returns the code.              *)
StartChild ==
  /\ pc = "start"
  /\ \/ Goto("notify") /\ child' = "running"
     \/ pc' = "close" /\ code' = "ok" /\ UNCHANGED child
  /\ UNCHANGED <<mvars, daemon, net, notify>>

(* signal.Notify(sigCh), unless stdin is a TTY. *)
Notify ==
  /\ pc = "notify"
  /\ Goto("child")
  /\ notify' = ~cfg.tty
  /\ UNCHANGED <<mvars, daemon, net, child>>

(* cmd.Wait returns: the exit code is the child's. *)
WaitChild ==
  /\ pc = "child"
  /\ child \in {"zero", "nonzero"}
  /\ child' = "reaped"
  /\ notify' = FALSE
  /\ pc' = "close" /\ code' = IF child = "zero" THEN "ok" ELSE "child"
  /\ UNCHANGED <<mvars, daemon, net>>

(* What the Close of each field of State releases; an anchor that has been *)
(* told to stop counts as released (NetNS has what becomes of its thread). *)
FieldParts(f) ==
  CASE f = "WarpSvc" -> {<<"svc", "process">>}
    [] f = "Stack"   -> {<<"stack", "stack">>}
    [] f = "TUN"     -> {<<"tun", "fd">>}
    [] f = "WG"      -> {<<"wg", "device">>, <<"wg", "netstack">>}
    [] f = "Egress"  -> Parts("egress")
    [] f = "WarpNS"  -> Parts("warp")

Release(fs) ==
  /\ live' = live \ UNION {FieldParts(f) : f \in state \cap fs}
  /\ state' = state \ fs

(* State.Close: warp-svc is killed, the stack and the TUN device are       *)
(* closed; then the WireGuard device, which waits for the receive routine  *)
(* of its bind (TCPBind's may never end: CloseUnblocksReceiver); then the  *)
(* namespaces, after which main exits.                                     *)
Close ==
  /\ \/ /\ pc = "close"
        /\ Release({"WarpSvc", "Stack", "TUN"})
        /\ Goto("closeWG") /\ UNCHANGED net
     \/ /\ pc = "closeWG"
        /\ Release({"WG"})
        /\ Goto("closeNS") /\ UNCHANGED net
     \/ /\ pc = "closeWG" /\ "WG" \in state /\ cfg.tcp
        /\ Goto("wgHangs") /\ UNCHANGED <<live, state, net>>
     \/ /\ pc = "closeNS"
        /\ Release({"Egress", "WarpNS"})
        /\ net' = {}
        /\ Goto("exited")
  /\ UNCHANGED <<ns, attempt, daemon, child, notify>>

SetupStep ==
  \/ CheckRoot \/ StartWireGuard \/ PrepareBinds \/ CreateNetNS \/ CreateTUN
  \/ MoveToNetNS \/ NewNSStack \/ ConfigureLink \/ StartWarpSvc \/ HeadStart
  \/ WarpCli \/ WaitForWarpRoute
  \/ AddVeth \/ EnableForwarding \/ InstallForwardGuard \/ InstallMasquerade
  \/ ConfigureEdge

MainStep ==
  /\ SetupStep \/ Listen \/ Serve \/ StartChild \/ Notify \/ WaitChild \/ Close
  /\ UNCHANGED <<cfg, svars>>

-----------------------------------------------------------------------------
(***************************************************************************)
(* Signals.  os/signal delivers an arriving signal to the channel of       *)
(* signalContext and, once RunInNS has called Notify, to sigCh.            *)
(***************************************************************************)
Signal ==
  /\ pc # "exited"
  /\ signals < MaxSignals
  /\ signals' = signals + 1
  /\ queued' = queued + (IF notify THEN 1 ELSE 0)
  /\ UNCHANGED <<cfg, pc, mvars, daemon, net, child, code, handled, ctxDone,
                 notify>>

(* Mutant: the first signal is only logged. *)
SignalGoroutineNoCancel ==
  /\ pc # "exited"
  /\ handled < signals /\ handled = 0
  /\ handled' = 1
  /\ UNCHANGED <<cfg, pc, mvars, daemon, net, child, code, signals, ctxDone,
                 notify, queued>>

(* The signal goroutine: cancel on the first, os.Exit(130) on the second,  *)
(* which closes nothing; the child and warp-svc die with the process.      *)
SignalGoroutine ==
  /\ pc # "exited"
  /\ handled < signals
  /\ handled' = handled + 1
  /\ \/ /\ handled = 0
        /\ ctxDone' = TRUE
        /\ UNCHANGED <<pc, code, live, net, child>>
     \/ /\ handled = 1
        /\ pc' = "exited" /\ code' = "hard"
        /\ live' = {r \in live : r[2] = "staging"}
        /\ net' = {}
        /\ child' = IF child = "none" THEN "none" ELSE "reaped"
        /\ UNCHANGED ctxDone
  /\ UNCHANGED <<cfg, ns, state, attempt, daemon, signals, notify, queued>>

(* The forwarding goroutine; the child decides what a signal does to it. *)
ForwardSignal ==
  /\ pc = "child" /\ notify
  /\ queued > 0
  /\ queued' = queued - 1
  /\ child' \in IF child = "running" THEN {"running", "zero", "nonzero"}
                ELSE {child}
  /\ UNCHANGED <<cfg, pc, mvars, daemon, net, code, signals, handled, ctxDone,
                 notify>>

-----------------------------------------------------------------------------
(***************************************************************************)
(* External processes.                                                     *)
(***************************************************************************)
ChildExits ==
  /\ pc # "exited"
  /\ child = "running"
  /\ child' \in {"zero", "nonzero"}
  /\ UNCHANGED <<cfg, pc, mvars, daemon, net, code, svars, notify>>

(* The daemon brings its route up once it is registered (it may connect by *)
(* itself, and does when there is no warp-cli), may lose it again, and may *)
(* crash.                                                                  *)
DaemonRoute ==
  /\ pc # "exited"
  /\ daemon.route \in {"tun", "warp"}
  /\ \/ /\ DaemonUp /\ (daemon.registered \/ ~cfg.cli)
        /\ daemon' = [daemon EXCEPT !.route = "warp"]
     \/ daemon' = [daemon EXCEPT !.route = "tun"]
  /\ UNCHANGED <<cfg, pc, mvars, net, child, code, svars, notify>>

DaemonCrash ==
  /\ pc # "exited"
  /\ <<"svc", "process">> \in live
  /\ live' = live \ {<<"svc", "process">>}
  /\ daemon' = [daemon EXCEPT !.route = "tun"]
  /\ UNCHANGED <<cfg, pc, ns, state, attempt, net, child, code, svars, notify>>

Next ==
  \/ MainStep
  \/ Signal \/ SignalGoroutine \/ ForwardSignal
  \/ ChildExits \/ DaemonRoute \/ DaemonCrash

Spec == Init /\ [][Next]_vars

(***************************************************************************)
(* Fairness.  A step of the main goroutine that can be taken is: the       *)
(* netlink, mount and exec calls return, and WaitForWarpRoute has a        *)
(* deadline.  What may never return has an outcome of its own: a warp-cli  *)
(* command (cliHangs) and the wait for the bind's receive routine          *)
(* (wgHangs).  Serving and waiting for the child are not steps until the   *)
(* context ends or the child exits.  The two goroutines that take signals  *)
(* from a channel do so.  Nothing is assumed of the child, of the daemon   *)
(* or of whoever sends signals.                                            *)
(***************************************************************************)
Fairness ==
  /\ WF_vars(MainStep)
  /\ WF_vars(SignalGoroutine)
  /\ WF_vars(ForwardSignal)

FairSpec == Spec /\ Fairness

-----------------------------------------------------------------------------
(***************************************************************************)
(* Properties the code has.                                                *)
(***************************************************************************)

(* Whichever step fails and whenever a signal arrives, a process that      *)
(* leaves through return leaves nothing behind: no staging directory on    *)
(* the host, no namespace, TUN, WireGuard device, warp-svc or child.       *)
(* There are two exceptions, both in memory and both after a failed setup, *)
(* and never together: the netstack device that StartWireGuard drops when  *)
(* a key or the endpoint is bad, and the stack that NewNSStack drops when  *)
(* it cannot be given its NIC or its option.                               *)
NoResidue ==
  pc = "exited" /\ code # "hard" =>
    /\ live \in {{}, {<<"wg", "netstack">>}, {<<"stack", "stack">>}}
    /\ live # {} => code = "err"
    /\ child # "running"

(* There is no moment, during setup or after it, at which a packet of the  *)
(* egress namespace could be forwarded without the forward guard: the      *)
(* guard is in place before the egress side gets its route, although       *)
(* forwarding is enabled earlier.                                          *)
NoUnguardedPath == {"forward", "edge"} \subseteq net => "guard" \in net

(* The daemon is told to connect only once it is registered and has been   *)
(* given its protocol, whatever attempts failed, were repeated or took     *)
(* effect although they failed.                                            *)
ConnectAfterRegister ==
  daemon.connected => daemon.registered /\ (cfg.proto => daemon.protocol)

(* setupAll comes to an end, in a workload or in an error, or is stuck in  *)
(* a warp-cli that never exits: retries are bounded and so is the wait for *)
(* the route.                                                              *)
SetupEnds ==
  pc \in SetupPC ~> pc \in WorkPC \cup {"close", "exited", "cliHangs"}

(* A signal ends a proxy, wherever setup was when it arrived, unless a     *)
(* warp-cli never exits or, with the TCP bind, the receive routine that    *)
(* Close waits for never ends; a second signal ends the process even then. *)
ProxyStops ==
  /\ cfg.mode = "proxy" /\ signals > 0
       ~> pc \in {"exited", "cliHangs"} \/ (pc = "wgHangs" /\ cfg.tcp)
  /\ signals = MaxSignals ~> pc = "exited"

-----------------------------------------------------------------------------
(***************************************************************************)
(* A property the comments and the README claim, not held by the code.     *)
(***************************************************************************)

(* "returns the child process exit code": run exits with 0 only if there   *)
(* was a child.                                                            *)
ExitCodeIsChilds ==
  pc = "exited" /\ cfg.mode = "run" /\ code = "ok" => child = "reaped"

=============================================================================
