---------------------------- MODULE SetupProofs ----------------------------
(***************************************************************************)
(* Proofs about Setup, for any number of warp-cli attempts.                *)
(*                                                                         *)
(* NoResidue is not inductive: what Close will release is decided long     *)
(* before it runs.  Accounted says that everything that exists is either   *)
(* recorded in State, or belongs to what is under construction, or is the  *)
(* one object that the failed constructor dropped; InOrder says how far    *)
(* Close has come.  The network and the daemon need to know which steps    *)
(* are already behind the main goroutine (GuardFirst, CliOrder).           *)
(* What the workload may rely on (WorkloadSealed) needs all of what those  *)
(* steps have left in place (Built).                                       *)
(***************************************************************************)
EXTENDS Setup, TLAPS

(* The steps of CreateEgressNS after CreateNetNS. *)
EgressPC == {"veth", "forward", "guard", "masq", "edge"}

(* Everything that exists is recorded in State, or is part of what is      *)
(* under construction; or it was dropped by the step that failed, which    *)
(* happens to one of the netstack device and the stack at most.            *)
Accounted ==
  pc # "exited" =>
    /\ <<"svc", "process">> \in live => "WarpSvc" \in state
    /\ <<"stack", "stack">> \in live =>
         \/ "Stack" \in state
         \/ /\ pc \in ClosePC /\ code = "err"
            /\ <<"wg", "netstack">> \in live => "WG" \in state
    /\ <<"wg", "netstack">> \in live =>
         \/ "WG" \in state
         \/ pc \in {"wgKeys", "wgUp"}
         \/ pc \in ClosePC /\ code = "err"
    /\ pc \in {"root", "wg", "wgKeys", "wgUp"} =>
         <<"stack", "stack">> \notin live
    /\ <<"tun", "fd">> \in live => "TUN" \in state
    /\ <<"wg", "device">> \in live => "WG" \in state
    /\ live \cap Parts("warp") # {} =>
         "WarpNS" \in state \/ (ns = "warp" /\ pc \in CreateNS)
    /\ live \cap Parts("egress") # {} =>
         "Egress" \in state \/ (ns = "egress" /\ pc \in CreateNS \cup EgressPC)

(* The egress side of CreateEgressNS runs with ns = "egress"; Close has    *)
(* released the fields that come before the one it is at.                  *)
InOrder ==
  /\ pc \in EgressPC => ns = "egress"
  /\ pc \in {"closeWG", "wgHangs", "closeNS"} =>
       state \cap {"WarpSvc", "Stack", "TUN"} = {}
  /\ pc = "closeNS" => "WG" \notin state

(* A running child has the main goroutine waiting for it, and the exit     *)
(* code is chosen on the way into Close.                                   *)
ChildWaited ==
  /\ child = "running" => pc \in {"notify", "child"}
  /\ pc \notin ClosePC \cup {"exited"} => code = "none"

(* Every signal queued is one that arrived. *)
SignalCount == queued <= signals

(* The guard is there from the step after installForwardGuard on. *)
GuardFirst ==
  /\ pc \in {"masq", "edge"} => "guard" \in net
  /\ "edge" \in net => "guard" \in net

(* The daemon has accepted the commands that come before the present one. *)
CliOrder ==
  /\ cfg.cli /\ pc \in {"protocol", "connect"} => daemon.registered
  /\ cfg.cli /\ cfg.proto /\ pc = "connect" => daemon.protocol

IInv ==
  /\ TypeOK /\ Accounted /\ InOrder /\ ChildWaited /\ SignalCount
  /\ GuardFirst /\ CliOrder
  /\ NoResidue /\ ConnectAfterRegister

-----------------------------------------------------------------------------
(***************************************************************************)
(* Initial states.                                                         *)
(***************************************************************************)
(* Nothing exists and nothing has been asked of the daemon. *)
LEMMA InitIInv == ASSUME Init PROVE IInv
<1>1. TypeOK
  <2>1. daemon \in [registered : BOOLEAN, protocol : BOOLEAN,
                    connected : BOOLEAN, route : {"none", "tun", "warp"}]
    BY DEF Init
  <2>2. pc \in SetupPC BY DEF Init, SetupPC
  <2>3. attempt \in 0 .. Retries BY RetriesAssumption DEF Init
  <2>4. /\ signals \in 0 .. MaxSignals /\ queued \in 0 .. MaxSignals
        /\ handled \in 0 .. 2
    BY DEF Init, MaxSignals
  <2>5. live \subseteq Resources /\ state \subseteq Fields
    BY DEF Init
  <2>6. /\ ns \in Namespaces /\ cfg \in Config /\ net = {}
        /\ child = "none" /\ code = "none"
        /\ ctxDone = FALSE /\ notify = FALSE
    BY DEF Init, Namespaces
  <2> QED BY <2>1, <2>2, <2>3, <2>4, <2>5, <2>6 DEF TypeOK, MainPC
<1>2. Accounted BY DEF Init, Accounted, ClosePC
<1>3. InOrder BY DEF Init, InOrder, EgressPC
<1>4. ChildWaited BY DEF Init, ChildWaited, ClosePC
<1>5. SignalCount BY DEF Init, SignalCount
<1>6. GuardFirst BY DEF Init, GuardFirst
<1>7. CliOrder BY DEF Init, CliOrder
<1>8. NoResidue BY DEF Init, NoResidue
<1>9. ConnectAfterRegister BY DEF Init, ConnectAfterRegister
<1> QED
  BY <1>1, <1>2, <1>3, <1>4, <1>5, <1>6, <1>7, <1>8, <1>9 DEF IInv

-----------------------------------------------------------------------------
(***************************************************************************)
(* One lemma per action.                                                   *)
(***************************************************************************)
(* The check for root creates nothing. *)
LEMMA CheckRootPreserves ==
  ASSUME IInv, CheckRoot, UNCHANGED <<cfg, svars>> PROVE IInv'
<1>1. TypeOK'
  BY DEF CheckRoot, Plain, Goto, Fail, IInv, mvars, svars, TypeOK, SetupPC,
         WorkPC, CreateNS, CliPC, MainPC, ClosePC
<1>2. Accounted'
  BY DEF CheckRoot, Plain, Goto, Fail, IInv, mvars, Accounted, CreateNS,
         EgressPC, ClosePC
<1>3. InOrder'
  BY DEF CheckRoot, Plain, Goto, Fail, IInv, mvars, InOrder, EgressPC
<1>4. ChildWaited'
  BY DEF CheckRoot, Plain, Goto, Fail, IInv, ChildWaited, ClosePC
<1>5. GuardFirst' BY DEF CheckRoot, Plain, Goto, Fail, IInv, GuardFirst
<1>6. CliOrder' BY DEF CheckRoot, Plain, Goto, Fail, IInv, CliOrder
<1>7. NoResidue' BY DEF CheckRoot, Plain, Goto, Fail, IInv, mvars, NoResidue
<1>8. SignalCount' /\ ConnectAfterRegister'
  BY DEF CheckRoot, Plain, IInv, mvars, svars, SignalCount,
         ConnectAfterRegister
<1> QED BY <1>1, <1>2, <1>3, <1>4, <1>5, <1>6, <1>7, <1>8 DEF IInv

(* StartWireGuard records the device in State once it is up. *)
LEMMA StartWireGuardPreserves ==
  ASSUME IInv, StartWireGuard, UNCHANGED <<cfg, svars>> PROVE IInv'
<1>1. TypeOK'
  <2>1. live' \subseteq Resources
    BY DEF StartWireGuard, IInv, TypeOK, Resources, Parts
  <2>2. state' \subseteq Fields BY DEF StartWireGuard, IInv, TypeOK, Fields
  <2>3. pc' \in MainPC
    BY DEF StartWireGuard, Goto, Fail, IInv, TypeOK, SetupPC, WorkPC,
           CreateNS, CliPC, MainPC, ClosePC
  <2>4. code' \in {"none", "ok", "err", "child", "hard"}
    BY DEF StartWireGuard, Goto, Fail, IInv, TypeOK
  <2> QED BY <2>1, <2>2, <2>3, <2>4 DEF StartWireGuard, IInv, mvars, svars,
             TypeOK
<1>2. Accounted'
  BY DEF StartWireGuard, Goto, Fail, IInv, Accounted, CreateNS, EgressPC,
         Parts, ClosePC
<1>3. InOrder' BY DEF StartWireGuard, Goto, Fail, IInv, InOrder, EgressPC
<1>4. ChildWaited'
  BY DEF StartWireGuard, Goto, Fail, IInv, ChildWaited, ClosePC
<1>5. GuardFirst' BY DEF StartWireGuard, Goto, Fail, IInv, GuardFirst
<1>6. CliOrder' BY DEF StartWireGuard, Goto, Fail, IInv, CliOrder
<1>7. NoResidue' BY DEF StartWireGuard, Goto, Fail, IInv, NoResidue
<1>8. SignalCount' /\ ConnectAfterRegister'
  BY DEF StartWireGuard, IInv, svars, SignalCount, ConnectAfterRegister
<1> QED BY <1>1, <1>2, <1>3, <1>4, <1>5, <1>6, <1>7, <1>8 DEF IInv

(* prepareWarpCommandBinds creates nothing. *)
LEMMA PrepareBindsPreserves ==
  ASSUME IInv, PrepareBinds, UNCHANGED <<cfg, svars>> PROVE IInv'
<1>1. TypeOK'
  BY DEF PrepareBinds, Plain, Goto, Fail, IInv, mvars, svars, TypeOK,
         SetupPC, WorkPC, CreateNS, CliPC, MainPC, ClosePC
<1>2. Accounted'
  BY DEF PrepareBinds, Plain, Goto, Fail, IInv, mvars, Accounted, CreateNS,
         EgressPC, ClosePC
<1>3. InOrder'
  BY DEF PrepareBinds, Plain, Goto, Fail, IInv, mvars, InOrder, EgressPC
<1>4. ChildWaited'
  BY DEF PrepareBinds, Plain, Goto, Fail, IInv, ChildWaited, ClosePC
<1>5. GuardFirst' BY DEF PrepareBinds, Plain, Goto, Fail, IInv, GuardFirst
<1>6. CliOrder' BY DEF PrepareBinds, Plain, Goto, Fail, IInv, CliOrder
<1>7. NoResidue'
  BY DEF PrepareBinds, Plain, Goto, Fail, IInv, mvars, NoResidue
<1>8. SignalCount' /\ ConnectAfterRegister'
  BY DEF PrepareBinds, Plain, IInv, mvars, svars, SignalCount,
         ConnectAfterRegister
<1> QED BY <1>1, <1>2, <1>3, <1>4, <1>5, <1>6, <1>7, <1>8 DEF IInv

(* CreateNetNS undoes itself when one of its steps fails. *)
LEMMA CreateNetNSPreserves ==
  ASSUME IInv, CreateNetNS, UNCHANGED <<cfg, svars>> PROVE IInv'
<1>1. TypeOK'
  <2>1. live' \subseteq Resources
    BY DEF CreateNetNS, IInv, TypeOK, Resources, Parts, CreateNS, Namespaces
  <2>2. state' \subseteq Fields BY DEF CreateNetNS, IInv, TypeOK, Fields
  <2>3. pc' \in MainPC
    BY DEF CreateNetNS, Goto, Fail, IInv, TypeOK, SetupPC, WorkPC, CreateNS,
           CliPC, MainPC, ClosePC
  <2>4. code' \in {"none", "ok", "err", "child", "hard"}
    BY DEF CreateNetNS, Goto, Fail, IInv, TypeOK
  <2> QED BY <2>1, <2>2, <2>3, <2>4 DEF CreateNetNS, IInv, mvars, svars,
             TypeOK
<1>2. Accounted'
  BY DEF CreateNetNS, Goto, Fail, IInv, Accounted, CreateNS, EgressPC, Parts,
         TypeOK, Namespaces, ClosePC
<1>3. InOrder'
  BY DEF CreateNetNS, Goto, Fail, IInv, InOrder, EgressPC, TypeOK,
         Namespaces, CreateNS
<1>4. ChildWaited'
  BY DEF CreateNetNS, Goto, Fail, IInv, ChildWaited, CreateNS, ClosePC
<1>5. GuardFirst' BY DEF CreateNetNS, Goto, Fail, IInv, GuardFirst, CreateNS
<1>6. CliOrder' BY DEF CreateNetNS, Goto, Fail, IInv, CliOrder, CreateNS
<1>7. NoResidue' BY DEF CreateNetNS, Goto, Fail, IInv, NoResidue, CreateNS
<1>8. SignalCount' /\ ConnectAfterRegister'
  BY DEF CreateNetNS, IInv, svars, SignalCount, ConnectAfterRegister
<1> QED BY <1>1, <1>2, <1>3, <1>4, <1>5, <1>6, <1>7, <1>8 DEF IInv

(* CreateTUN records the device in State. *)
LEMMA CreateTUNPreserves ==
  ASSUME IInv, CreateTUN, UNCHANGED <<cfg, svars>> PROVE IInv'
<1>1. TypeOK'
  <2>1. live' \subseteq Resources
    BY DEF CreateTUN, Acquire, IInv, TypeOK, Resources, Parts
  <2>2. state' \subseteq Fields
    BY DEF CreateTUN, Acquire, IInv, TypeOK, Fields
  <2>3. pc' \in MainPC
    BY DEF CreateTUN, Acquire, Goto, Fail, IInv, TypeOK, SetupPC, WorkPC,
           CreateNS, CliPC, MainPC, ClosePC
  <2>4. code' \in {"none", "ok", "err", "child", "hard"}
    BY DEF CreateTUN, Acquire, Goto, Fail, IInv, TypeOK
  <2> QED BY <2>1, <2>2, <2>3, <2>4 DEF CreateTUN, Acquire, IInv, mvars,
             svars, TypeOK
<1>2. Accounted'
  BY DEF CreateTUN, Acquire, Goto, Fail, IInv, Accounted, CreateNS, EgressPC,
         Parts, ClosePC
<1>3. InOrder'
  BY DEF CreateTUN, Acquire, Goto, Fail, IInv, InOrder, EgressPC
<1>4. ChildWaited'
  BY DEF CreateTUN, Acquire, Goto, Fail, IInv, ChildWaited, ClosePC
<1>5. GuardFirst' BY DEF CreateTUN, Acquire, Goto, Fail, IInv, GuardFirst
<1>6. CliOrder' BY DEF CreateTUN, Acquire, Goto, Fail, IInv, CliOrder
<1>7. NoResidue' BY DEF CreateTUN, Acquire, Goto, Fail, IInv, NoResidue
<1>8. SignalCount' /\ ConnectAfterRegister'
  BY DEF CreateTUN, Acquire, IInv, svars, SignalCount, ConnectAfterRegister
<1> QED BY <1>1, <1>2, <1>3, <1>4, <1>5, <1>6, <1>7, <1>8 DEF IInv

(* MoveToNetNS creates nothing. *)
LEMMA MoveToNetNSPreserves ==
  ASSUME IInv, MoveToNetNS, UNCHANGED <<cfg, svars>> PROVE IInv'
<1>1. TypeOK'
  BY DEF MoveToNetNS, Plain, Goto, Fail, IInv, mvars, svars, TypeOK, SetupPC,
         WorkPC, CreateNS, CliPC, MainPC, ClosePC
<1>2. Accounted'
  BY DEF MoveToNetNS, Plain, Goto, Fail, IInv, mvars, Accounted, CreateNS,
         EgressPC, ClosePC
<1>3. InOrder'
  BY DEF MoveToNetNS, Plain, Goto, Fail, IInv, mvars, InOrder, EgressPC
<1>4. ChildWaited'
  BY DEF MoveToNetNS, Plain, Goto, Fail, IInv, ChildWaited, ClosePC
<1>5. GuardFirst' BY DEF MoveToNetNS, Plain, Goto, Fail, IInv, GuardFirst
<1>6. CliOrder' BY DEF MoveToNetNS, Plain, Goto, Fail, IInv, CliOrder
<1>7. NoResidue'
  BY DEF MoveToNetNS, Plain, Goto, Fail, IInv, mvars, NoResidue
<1>8. SignalCount' /\ ConnectAfterRegister'
  BY DEF MoveToNetNS, Plain, IInv, mvars, svars, SignalCount,
         ConnectAfterRegister
<1> QED BY <1>1, <1>2, <1>3, <1>4, <1>5, <1>6, <1>7, <1>8 DEF IInv

(* NewNSStack records the stack in State, or drops it when it fails. *)
LEMMA NewNSStackPreserves ==
  ASSUME IInv, NewNSStack, UNCHANGED <<cfg, svars>> PROVE IInv'
<1>1. TypeOK'
  <2>1. live' \subseteq Resources
    BY DEF NewNSStack, IInv, TypeOK, Resources, Parts
  <2>2. state' \subseteq Fields
    BY DEF NewNSStack, IInv, TypeOK, Fields
  <2>3. pc' \in MainPC
    BY DEF NewNSStack, Goto, Fail, IInv, TypeOK, SetupPC, WorkPC,
           CreateNS, CliPC, MainPC, ClosePC
  <2>4. code' \in {"none", "ok", "err", "child", "hard"}
    BY DEF NewNSStack, Goto, Fail, IInv, TypeOK
  <2> QED BY <2>1, <2>2, <2>3, <2>4 DEF NewNSStack, IInv, mvars,
             svars, TypeOK
<1>2. Accounted'
  BY DEF NewNSStack, Goto, Fail, IInv, Accounted, CreateNS,
         EgressPC, Parts, ClosePC
<1>3. InOrder'
  BY DEF NewNSStack, Goto, Fail, IInv, InOrder, EgressPC
<1>4. ChildWaited'
  BY DEF NewNSStack, Goto, Fail, IInv, ChildWaited, ClosePC
<1>5. GuardFirst' BY DEF NewNSStack, Goto, Fail, IInv, GuardFirst
<1>6. CliOrder' BY DEF NewNSStack, Goto, Fail, IInv, CliOrder
<1>7. NoResidue' BY DEF NewNSStack, Goto, Fail, IInv, NoResidue
<1>8. SignalCount' /\ ConnectAfterRegister'
  BY DEF NewNSStack, IInv, svars, SignalCount, ConnectAfterRegister
<1> QED BY <1>1, <1>2, <1>3, <1>4, <1>5, <1>6, <1>7, <1>8 DEF IInv

(* configureLinkInNS changes the route only. *)
LEMMA ConfigureLinkPreserves ==
  ASSUME IInv, ConfigureLink, UNCHANGED <<cfg, svars>> PROVE IInv'
<1>1. TypeOK'
  <2>1. daemon' \in [registered : BOOLEAN, protocol : BOOLEAN,
                     connected : BOOLEAN, route : {"none", "tun", "warp"}]
    BY DEF ConfigureLink, IInv, TypeOK, CliPC, Config
  <2>2. pc' \in MainPC
    BY DEF ConfigureLink, Goto, Fail, IInv, TypeOK, SetupPC, WorkPC,
           CreateNS, CliPC, MainPC, ClosePC
  <2>3. code' \in {"none", "ok", "err", "child", "hard"}
    BY DEF ConfigureLink, Goto, Fail, IInv, TypeOK
  <2> QED BY <2>1, <2>2, <2>3 DEF ConfigureLink, IInv, mvars, svars, TypeOK
<1>2. Accounted'
  BY DEF ConfigureLink, Goto, Fail, IInv, mvars, Accounted, CreateNS,
         EgressPC, ClosePC
<1>3. InOrder'
  BY DEF ConfigureLink, Goto, Fail, IInv, mvars, InOrder, EgressPC
<1>4. ChildWaited'
  BY DEF ConfigureLink, Goto, Fail, IInv, ChildWaited, ClosePC
<1>5. GuardFirst' BY DEF ConfigureLink, Goto, Fail, IInv, GuardFirst
<1>6. CliOrder' BY DEF ConfigureLink, Goto, Fail, IInv, CliOrder, TypeOK
<1>7. NoResidue' BY DEF ConfigureLink, Goto, Fail, IInv, mvars, NoResidue
<1>8. ConnectAfterRegister'
  BY DEF ConfigureLink, Goto, Fail, IInv, ConnectAfterRegister, TypeOK
<1>9. SignalCount' BY DEF ConfigureLink, IInv, mvars, svars, SignalCount
<1> QED BY <1>1, <1>2, <1>3, <1>4, <1>5, <1>6, <1>7, <1>8, <1>9 DEF IInv

(* StartWarpSvc records the process in State. *)
LEMMA StartWarpSvcPreserves ==
  ASSUME IInv, StartWarpSvc, UNCHANGED <<cfg, svars>> PROVE IInv'
<1>1. TypeOK'
  <2>1. live' \subseteq Resources
    BY DEF StartWarpSvc, Acquire, IInv, mvars, TypeOK, Resources, Parts
  <2>2. state' \subseteq Fields
    BY DEF StartWarpSvc, Acquire, IInv, mvars, TypeOK, Fields
  <2>3. pc' \in MainPC
    BY DEF StartWarpSvc, Acquire, Goto, Fail, IInv, mvars, TypeOK, SetupPC,
           WorkPC, CreateNS, CliPC, MainPC, ClosePC
  <2>4. code' \in {"none", "ok", "err", "child", "hard"}
    BY DEF StartWarpSvc, Acquire, Goto, Fail, IInv, mvars, TypeOK
  <2> QED BY <2>1, <2>2, <2>3, <2>4 DEF StartWarpSvc, Acquire, IInv, mvars,
             svars, TypeOK
<1>2. Accounted'
  BY DEF StartWarpSvc, Acquire, Goto, Fail, IInv, mvars, Accounted, CreateNS,
         EgressPC, Parts, ClosePC
<1>3. InOrder'
  BY DEF StartWarpSvc, Acquire, Goto, Fail, IInv, mvars, InOrder, EgressPC
<1>4. ChildWaited'
  BY DEF StartWarpSvc, Acquire, Goto, Fail, IInv, ChildWaited, ClosePC
<1>5. GuardFirst' BY DEF StartWarpSvc, Acquire, Goto, Fail, IInv, GuardFirst
<1>6. CliOrder' BY DEF StartWarpSvc, Acquire, Goto, Fail, IInv, CliOrder
<1>7. NoResidue'
  BY DEF StartWarpSvc, Acquire, Goto, Fail, IInv, mvars, NoResidue
<1>8. SignalCount' /\ ConnectAfterRegister'
  BY DEF StartWarpSvc, Acquire, IInv, mvars, svars, SignalCount,
         ConnectAfterRegister
<1> QED BY <1>1, <1>2, <1>3, <1>4, <1>5, <1>6, <1>7, <1>8 DEF IInv

(* The head start waits. *)
LEMMA HeadStartPreserves ==
  ASSUME IInv, HeadStart, UNCHANGED <<cfg, svars>> PROVE IInv'
<1>1. TypeOK'
  BY DEF HeadStart, Goto, Fail, IInv, mvars, svars, TypeOK, SetupPC, WorkPC,
         CreateNS, CliPC, MainPC, ClosePC
<1>2. Accounted'
  BY DEF HeadStart, Goto, Fail, IInv, mvars, Accounted, CreateNS, EgressPC,
         ClosePC
<1>3. InOrder' BY DEF HeadStart, Goto, Fail, IInv, mvars, InOrder, EgressPC
<1>4. ChildWaited' BY DEF HeadStart, Goto, Fail, IInv, ChildWaited, ClosePC
<1>5. GuardFirst' BY DEF HeadStart, Goto, Fail, IInv, GuardFirst
<1>6. CliOrder' BY DEF HeadStart, Goto, Fail, IInv, CliOrder
<1>7. NoResidue' BY DEF HeadStart, Goto, Fail, IInv, mvars, NoResidue
<1>8. SignalCount' /\ ConnectAfterRegister'
  BY DEF HeadStart, IInv, mvars, svars, SignalCount, ConnectAfterRegister
<1> QED BY <1>1, <1>2, <1>3, <1>4, <1>5, <1>6, <1>7, <1>8 DEF IInv

(* A command that is passed has been accepted by the daemon. *)
LEMMA WarpCliPreserves ==
  ASSUME IInv, WarpCli, UNCHANGED <<cfg, svars>> PROVE IInv'
<1>1. TypeOK'
  <2>1. daemon' \in [registered : BOOLEAN, protocol : BOOLEAN,
                     connected : BOOLEAN, route : {"none", "tun", "warp"}]
    BY DEF WarpCli, Accept, Already, DaemonUp, IInv, TypeOK, CliPC, Config
  <2>2. attempt' \in 0 .. Retries
    BY RetriesAssumption DEF WarpCli, AttemptLeft, NextAttempt, IInv, TypeOK
  <2>3. pc' \in MainPC
    BY DEF WarpCli, CliNext, Goto, Fail, IInv, TypeOK, SetupPC, WorkPC,
           CreateNS, CliPC, MainPC, ClosePC
  <2>4. code' \in {"none", "ok", "err", "child", "hard"}
    BY DEF WarpCli, Goto, Fail, IInv, TypeOK
  <2> QED BY <2>1, <2>2, <2>3, <2>4 DEF WarpCli, IInv, mvars, svars, TypeOK
<1>2. Accounted'
  BY DEF WarpCli, CliNext, Goto, Fail, IInv, Accounted, CreateNS, EgressPC,
         CliPC, ClosePC
<1>3. InOrder'
  BY DEF WarpCli, CliNext, Goto, Fail, IInv, InOrder, EgressPC, CliPC
<1>4. ChildWaited'
  BY DEF WarpCli, CliNext, Goto, Fail, IInv, ChildWaited, CliPC, ClosePC
<1>5. GuardFirst'
  BY DEF WarpCli, CliNext, Goto, Fail, IInv, GuardFirst, CliPC
<1>6. CliOrder'
  BY DEF WarpCli, CliNext, CliSkipped, Accept, Already, Goto, Fail, IInv,
         CliOrder, CliPC, TypeOK, ConnectAfterRegister, Config
<1>7. NoResidue' BY DEF WarpCli, CliNext, Goto, Fail, IInv, NoResidue, CliPC
<1>8. ConnectAfterRegister'
  BY DEF WarpCli, CliNext, CliSkipped, Accept, Already, Goto, Fail, IInv,
         ConnectAfterRegister, CliPC, TypeOK, CliOrder, Config
<1>9. SignalCount' BY DEF WarpCli, IInv, svars, SignalCount
<1> QED BY <1>1, <1>2, <1>3, <1>4, <1>5, <1>6, <1>7, <1>8, <1>9 DEF IInv

(* WaitForWarpRoute leads into CreateEgressNS. *)
LEMMA WaitForWarpRoutePreserves ==
  ASSUME IInv, WaitForWarpRoute, UNCHANGED <<cfg, svars>> PROVE IInv'
<1>1. TypeOK'
  BY DEF WaitForWarpRoute, Goto, Fail, IInv, mvars, svars, TypeOK, SetupPC,
         WorkPC, CreateNS, CliPC, Namespaces, MainPC, ClosePC
<1>2. Accounted'
  BY DEF WaitForWarpRoute, Goto, Fail, IInv, Accounted, CreateNS, EgressPC,
         ClosePC
<1>3. InOrder' BY DEF WaitForWarpRoute, Goto, Fail, IInv, InOrder, EgressPC
<1>4. ChildWaited'
  BY DEF WaitForWarpRoute, Goto, Fail, IInv, ChildWaited, ClosePC
<1>5. GuardFirst' BY DEF WaitForWarpRoute, Goto, Fail, IInv, GuardFirst
<1>6. CliOrder' BY DEF WaitForWarpRoute, Goto, Fail, IInv, CliOrder
<1>7. NoResidue' BY DEF WaitForWarpRoute, Goto, Fail, IInv, NoResidue
<1>8. SignalCount' /\ ConnectAfterRegister'
  BY DEF WaitForWarpRoute, IInv, svars, SignalCount, ConnectAfterRegister
<1> QED BY <1>1, <1>2, <1>3, <1>4, <1>5, <1>6, <1>7, <1>8 DEF IInv

(* The veth pair alone opens no path. *)
LEMMA AddVethPreserves ==
  ASSUME IInv, AddVeth, UNCHANGED <<cfg, svars>> PROVE IInv'
<1>1. TypeOK'
  <2>1. live' \subseteq Resources
    BY DEF AddVeth, EgressStep, EgressFail, IInv, TypeOK, Resources, Parts
  <2>2. net' \subseteq {"forward", "guard", "edge"}
    BY DEF AddVeth, EgressStep, EgressFail, IInv, TypeOK
  <2>3. pc' \in MainPC
    BY DEF AddVeth, EgressStep, EgressFail, Goto, Fail, IInv, TypeOK,
           SetupPC, WorkPC, CreateNS, CliPC, MainPC, ClosePC
  <2>4. code' \in {"none", "ok", "err", "child", "hard"}
    BY DEF AddVeth, EgressStep, EgressFail, Goto, Fail, IInv, TypeOK
  <2> QED BY <2>1, <2>2, <2>3, <2>4 DEF AddVeth, EgressStep, EgressFail,
             IInv, mvars, svars, TypeOK
<1>2. Accounted'
  BY DEF AddVeth, EgressStep, EgressFail, Goto, Fail, IInv, Accounted,
         CreateNS, EgressPC, Parts, InOrder, ClosePC
<1>3. InOrder'
  BY DEF AddVeth, EgressStep, EgressFail, Goto, Fail, IInv, InOrder,
         EgressPC
<1>4. ChildWaited'
  BY DEF AddVeth, EgressStep, EgressFail, Goto, Fail, IInv, ChildWaited,
         ClosePC
<1>5. GuardFirst'
  BY DEF AddVeth, EgressStep, EgressFail, Goto, Fail, IInv, GuardFirst
<1>6. CliOrder'
  BY DEF AddVeth, EgressStep, EgressFail, Goto, Fail, IInv, CliOrder
<1>7. NoResidue'
  BY DEF AddVeth, EgressStep, EgressFail, Goto, Fail, IInv, NoResidue
<1>8. SignalCount' /\ ConnectAfterRegister'
  BY DEF AddVeth, EgressStep, EgressFail, IInv, svars, SignalCount,
         ConnectAfterRegister
<1> QED BY <1>1, <1>2, <1>3, <1>4, <1>5, <1>6, <1>7, <1>8 DEF IInv

(* Forwarding is enabled while the egress side has no route. *)
LEMMA EnableForwardingPreserves ==
  ASSUME IInv, EnableForwarding, UNCHANGED <<cfg, svars>> PROVE IInv'
<1>1. TypeOK'
  <2>1. live' \subseteq Resources
    BY DEF EnableForwarding, EgressStep, EgressFail, IInv, TypeOK, Resources,
           Parts
  <2>2. net' \subseteq {"forward", "guard", "edge"}
    BY DEF EnableForwarding, EgressStep, EgressFail, IInv, TypeOK
  <2>3. pc' \in MainPC
    BY DEF EnableForwarding, EgressStep, EgressFail, Goto, Fail, IInv,
           TypeOK, SetupPC, WorkPC, CreateNS, CliPC, MainPC, ClosePC
  <2>4. code' \in {"none", "ok", "err", "child", "hard"}
    BY DEF EnableForwarding, EgressStep, EgressFail, Goto, Fail, IInv, TypeOK
  <2> QED BY <2>1, <2>2, <2>3, <2>4 DEF EnableForwarding, EgressStep,
             EgressFail, IInv, mvars, svars, TypeOK
<1>2. Accounted'
  BY DEF EnableForwarding, EgressStep, EgressFail, Goto, Fail, IInv,
         Accounted, CreateNS, EgressPC, Parts, InOrder, ClosePC
<1>3. InOrder'
  BY DEF EnableForwarding, EgressStep, EgressFail, Goto, Fail, IInv,
         InOrder, EgressPC
<1>4. ChildWaited'
  BY DEF EnableForwarding, EgressStep, EgressFail, Goto, Fail, IInv,
         ChildWaited, ClosePC
<1>5. GuardFirst'
  BY DEF EnableForwarding, EgressStep, EgressFail, Goto, Fail, IInv,
         GuardFirst
<1>6. CliOrder'
  BY DEF EnableForwarding, EgressStep, EgressFail, Goto, Fail, IInv, CliOrder
<1>7. NoResidue'
  BY DEF EnableForwarding, EgressStep, EgressFail, Goto, Fail, IInv,
         NoResidue
<1>8. SignalCount' /\ ConnectAfterRegister'
  BY DEF EnableForwarding, EgressStep, EgressFail, IInv, svars, SignalCount,
         ConnectAfterRegister
<1> QED BY <1>1, <1>2, <1>3, <1>4, <1>5, <1>6, <1>7, <1>8 DEF IInv

(* From here on the guard is there. *)
LEMMA InstallForwardGuardPreserves ==
  ASSUME IInv, InstallForwardGuard, UNCHANGED <<cfg, svars>> PROVE IInv'
<1>1. TypeOK'
  <2>1. live' \subseteq Resources
    BY DEF InstallForwardGuard, EgressStep, EgressFail, IInv, TypeOK,
           Resources, Parts
  <2>2. net' \subseteq {"forward", "guard", "edge"}
    BY DEF InstallForwardGuard, EgressStep, EgressFail, IInv, TypeOK
  <2>3. pc' \in MainPC
    BY DEF InstallForwardGuard, EgressStep, EgressFail, Goto, Fail, IInv,
           TypeOK, SetupPC, WorkPC, CreateNS, CliPC, MainPC, ClosePC
  <2>4. code' \in {"none", "ok", "err", "child", "hard"}
    BY DEF InstallForwardGuard, EgressStep, EgressFail, Goto, Fail, IInv,
           TypeOK
  <2> QED BY <2>1, <2>2, <2>3, <2>4 DEF InstallForwardGuard, EgressStep,
             EgressFail, IInv, mvars, svars, TypeOK
<1>2. Accounted'
  BY DEF InstallForwardGuard, EgressStep, EgressFail, Goto, Fail, IInv,
         Accounted, CreateNS, EgressPC, Parts, InOrder, ClosePC
<1>3. InOrder'
  BY DEF InstallForwardGuard, EgressStep, EgressFail, Goto, Fail, IInv,
         InOrder, EgressPC
<1>4. ChildWaited'
  BY DEF InstallForwardGuard, EgressStep, EgressFail, Goto, Fail, IInv,
         ChildWaited, ClosePC
<1>5. GuardFirst'
  BY DEF InstallForwardGuard, EgressStep, EgressFail, Goto, Fail, IInv,
         GuardFirst
<1>6. CliOrder'
  BY DEF InstallForwardGuard, EgressStep, EgressFail, Goto, Fail, IInv,
         CliOrder
<1>7. NoResidue'
  BY DEF InstallForwardGuard, EgressStep, EgressFail, Goto, Fail, IInv,
         NoResidue
<1>8. SignalCount' /\ ConnectAfterRegister'
  BY DEF InstallForwardGuard, EgressStep, EgressFail, IInv, svars,
         SignalCount, ConnectAfterRegister
<1> QED BY <1>1, <1>2, <1>3, <1>4, <1>5, <1>6, <1>7, <1>8 DEF IInv

(* installMasquerade leaves the guard in place. *)
LEMMA InstallMasqueradePreserves ==
  ASSUME IInv, InstallMasquerade, UNCHANGED <<cfg, svars>> PROVE IInv'
<1>1. TypeOK'
  <2>1. live' \subseteq Resources
    BY DEF InstallMasquerade, EgressStep, EgressFail, IInv, TypeOK,
           Resources, Parts
  <2>2. net' \subseteq {"forward", "guard", "edge"}
    BY DEF InstallMasquerade, EgressStep, EgressFail, IInv, TypeOK
  <2>3. pc' \in MainPC
    BY DEF InstallMasquerade, EgressStep, EgressFail, Goto, Fail, IInv,
           TypeOK, SetupPC, WorkPC, CreateNS, CliPC, MainPC, ClosePC
  <2>4. code' \in {"none", "ok", "err", "child", "hard"}
    BY DEF InstallMasquerade, EgressStep, EgressFail, Goto, Fail, IInv,
           TypeOK
  <2> QED BY <2>1, <2>2, <2>3, <2>4 DEF InstallMasquerade, EgressStep,
             EgressFail, IInv, mvars, svars, TypeOK
<1>2. Accounted'
  BY DEF InstallMasquerade, EgressStep, EgressFail, Goto, Fail, IInv,
         Accounted, CreateNS, EgressPC, Parts, InOrder, ClosePC
<1>3. InOrder'
  BY DEF InstallMasquerade, EgressStep, EgressFail, Goto, Fail, IInv,
         InOrder, EgressPC
<1>4. ChildWaited'
  BY DEF InstallMasquerade, EgressStep, EgressFail, Goto, Fail, IInv,
         ChildWaited, ClosePC
<1>5. GuardFirst'
  BY DEF InstallMasquerade, EgressStep, EgressFail, Goto, Fail, IInv,
         GuardFirst
<1>6. CliOrder'
  BY DEF InstallMasquerade, EgressStep, EgressFail, Goto, Fail, IInv,
         CliOrder
<1>7. NoResidue'
  BY DEF InstallMasquerade, EgressStep, EgressFail, Goto, Fail, IInv,
         NoResidue
<1>8. SignalCount' /\ ConnectAfterRegister'
  BY DEF InstallMasquerade, EgressStep, EgressFail, IInv, svars, SignalCount,
         ConnectAfterRegister
<1> QED BY <1>1, <1>2, <1>3, <1>4, <1>5, <1>6, <1>7, <1>8 DEF IInv

(* The route of the egress side comes after the guard. *)
LEMMA ConfigureEdgePreserves ==
  ASSUME IInv, ConfigureEdge, UNCHANGED <<cfg, svars>> PROVE IInv'
<1>1. TypeOK'
  <2>1. live' \subseteq Resources
    BY DEF ConfigureEdge, EgressFail, IInv, TypeOK, Resources, Parts
  <2>2. net' \subseteq {"forward", "guard", "edge"}
    BY DEF ConfigureEdge, EgressFail, IInv, TypeOK
  <2>3. state' \subseteq Fields
    BY DEF ConfigureEdge, EgressFail, IInv, TypeOK, Fields
  <2>4. pc' \in MainPC
    BY DEF ConfigureEdge, EgressFail, Goto, Fail, IInv, TypeOK, SetupPC,
           WorkPC, CreateNS, CliPC, MainPC, ClosePC
  <2>5. code' \in {"none", "ok", "err", "child", "hard"}
    BY DEF ConfigureEdge, EgressFail, Goto, Fail, IInv, TypeOK
  <2> QED BY <2>1, <2>2, <2>3, <2>4, <2>5 DEF ConfigureEdge, EgressFail,
             IInv, mvars, svars, TypeOK
<1>2. Accounted'
  BY DEF ConfigureEdge, EgressFail, Goto, Fail, IInv, Accounted, CreateNS,
         EgressPC, Parts, InOrder, ClosePC
<1>3. InOrder'
  BY DEF ConfigureEdge, EgressFail, Goto, Fail, IInv, InOrder, EgressPC
<1>4. ChildWaited'
  BY DEF ConfigureEdge, EgressFail, Goto, Fail, IInv, ChildWaited, ClosePC
<1>5. GuardFirst'
  BY DEF ConfigureEdge, EgressFail, Goto, Fail, IInv, GuardFirst
<1>6. CliOrder' BY DEF ConfigureEdge, EgressFail, Goto, Fail, IInv, CliOrder
<1>7. NoResidue'
  BY DEF ConfigureEdge, EgressFail, Goto, Fail, IInv, NoResidue
<1>8. SignalCount' /\ ConnectAfterRegister'
  BY DEF ConfigureEdge, EgressFail, IInv, svars, SignalCount,
         ConnectAfterRegister
<1> QED BY <1>1, <1>2, <1>3, <1>4, <1>5, <1>6, <1>7, <1>8 DEF IInv

(* Listening creates nothing State has to close. *)
LEMMA ListenPreserves ==
  ASSUME IInv, Listen, UNCHANGED <<cfg, svars>> PROVE IInv'
<1>1. TypeOK'
  BY DEF Listen, Goto, Fail, IInv, mvars, svars, TypeOK, SetupPC, WorkPC,
         CreateNS, CliPC, MainPC, ClosePC
<1>2. Accounted'
  BY DEF Listen, Goto, Fail, IInv, mvars, Accounted, CreateNS, EgressPC,
         ClosePC
<1>3. InOrder' BY DEF Listen, Goto, Fail, IInv, mvars, InOrder, EgressPC
<1>4. ChildWaited' BY DEF Listen, Goto, Fail, IInv, ChildWaited, ClosePC
<1>5. GuardFirst' BY DEF Listen, Goto, Fail, IInv, GuardFirst
<1>6. CliOrder' BY DEF Listen, Goto, Fail, IInv, CliOrder
<1>7. NoResidue' BY DEF Listen, Goto, Fail, IInv, mvars, NoResidue
<1>8. SignalCount' /\ ConnectAfterRegister'
  BY DEF Listen, IInv, mvars, svars, SignalCount, ConnectAfterRegister
<1> QED BY <1>1, <1>2, <1>3, <1>4, <1>5, <1>6, <1>7, <1>8 DEF IInv

(* The accept loop ends and Close is next. *)
LEMMA ServePreserves ==
  ASSUME IInv, Serve, UNCHANGED <<cfg, svars>> PROVE IInv'
<1>1. TypeOK'
  BY DEF Serve, IInv, mvars, svars, TypeOK, SetupPC, WorkPC, CreateNS, CliPC,
         MainPC, ClosePC
<1>2. Accounted'
  BY DEF Serve, IInv, mvars, Accounted, CreateNS, EgressPC, ClosePC
<1>3. InOrder' BY DEF Serve, IInv, mvars, InOrder, EgressPC
<1>4. ChildWaited' BY DEF Serve, IInv, ChildWaited, ClosePC
<1>5. GuardFirst' BY DEF Serve, IInv, GuardFirst
<1>6. CliOrder' BY DEF Serve, IInv, CliOrder
<1>7. NoResidue' BY DEF Serve, IInv, mvars, NoResidue
<1>8. SignalCount' /\ ConnectAfterRegister'
  BY DEF Serve, IInv, mvars, svars, SignalCount, ConnectAfterRegister
<1> QED BY <1>1, <1>2, <1>3, <1>4, <1>5, <1>6, <1>7, <1>8 DEF IInv

(* A child that is started is waited for. *)
LEMMA StartChildPreserves ==
  ASSUME IInv, StartChild, UNCHANGED <<cfg, svars>> PROVE IInv'
<1>1. TypeOK'
  BY DEF StartChild, Goto, IInv, mvars, svars, TypeOK, SetupPC, WorkPC,
         CreateNS, CliPC, MainPC, ClosePC
<1>2. Accounted'
  BY DEF StartChild, Goto, IInv, mvars, Accounted, CreateNS, EgressPC,
         ClosePC
<1>3. InOrder' BY DEF StartChild, Goto, IInv, mvars, InOrder, EgressPC
<1>4. ChildWaited' BY DEF StartChild, Goto, IInv, ChildWaited, ClosePC
<1>5. GuardFirst' BY DEF StartChild, Goto, IInv, GuardFirst
<1>6. CliOrder' BY DEF StartChild, Goto, IInv, CliOrder
<1>7. NoResidue' BY DEF StartChild, Goto, IInv, mvars, NoResidue
<1>8. SignalCount' /\ ConnectAfterRegister'
  BY DEF StartChild, IInv, mvars, svars, SignalCount, ConnectAfterRegister
<1> QED BY <1>1, <1>2, <1>3, <1>4, <1>5, <1>6, <1>7, <1>8 DEF IInv

(* signal.Notify turns forwarding on. *)
LEMMA NotifyPreserves ==
  ASSUME IInv, Notify, UNCHANGED <<cfg, svars>> PROVE IInv'
<1>1. TypeOK'
  BY DEF Notify, Goto, IInv, mvars, svars, TypeOK, SetupPC, WorkPC, CreateNS,
         CliPC, MainPC, ClosePC
<1>2. Accounted'
  BY DEF Notify, Goto, IInv, mvars, Accounted, CreateNS, EgressPC, ClosePC
<1>3. InOrder' BY DEF Notify, Goto, IInv, mvars, InOrder, EgressPC
<1>4. ChildWaited' BY DEF Notify, Goto, IInv, ChildWaited, ClosePC
<1>5. GuardFirst' BY DEF Notify, Goto, IInv, GuardFirst
<1>6. CliOrder' BY DEF Notify, Goto, IInv, CliOrder
<1>7. NoResidue' BY DEF Notify, Goto, IInv, mvars, NoResidue
<1>8. SignalCount' /\ ConnectAfterRegister'
  BY DEF Notify, IInv, mvars, svars, SignalCount, ConnectAfterRegister
<1> QED BY <1>1, <1>2, <1>3, <1>4, <1>5, <1>6, <1>7, <1>8 DEF IInv

(* cmd.Wait reaps the child before Close. *)
LEMMA WaitChildPreserves ==
  ASSUME IInv, WaitChild, UNCHANGED <<cfg, svars>> PROVE IInv'
<1>1. TypeOK'
  <2>1. code' \in {"none", "ok", "err", "child", "hard"}
    BY DEF WaitChild, IInv, TypeOK
  <2>2. pc' \in MainPC
    BY DEF WaitChild, IInv, TypeOK, SetupPC, WorkPC, CreateNS, CliPC, MainPC,
           ClosePC
  <2> QED BY <2>1, <2>2 DEF WaitChild, IInv, mvars, svars, TypeOK
<1>2. Accounted'
  BY DEF WaitChild, IInv, mvars, Accounted, CreateNS, EgressPC, ClosePC
<1>3. InOrder' BY DEF WaitChild, IInv, mvars, InOrder, EgressPC
<1>4. ChildWaited' BY DEF WaitChild, IInv, ChildWaited, ClosePC
<1>5. GuardFirst' BY DEF WaitChild, IInv, GuardFirst
<1>6. CliOrder' BY DEF WaitChild, IInv, CliOrder
<1>7. NoResidue' BY DEF WaitChild, IInv, mvars, NoResidue
<1>8. SignalCount' /\ ConnectAfterRegister'
  BY DEF WaitChild, IInv, mvars, svars, SignalCount, ConnectAfterRegister
<1> QED BY <1>1, <1>2, <1>3, <1>4, <1>5, <1>6, <1>7, <1>8 DEF IInv

(* A step of State.Close creates nothing, and forgets the fields it closes. *)
LEMMA ReleaseFacts ==
  ASSUME NEW fs, Release(fs)
  PROVE  live' \subseteq live /\ state' = state \ fs
BY DEF Release

(* State.Close releases everything that is recorded; what was dropped      *)
(* before is all that remains.                                             *)
LEMMA ClosePreserves ==
  ASSUME IInv, Close, UNCHANGED <<cfg, svars>> PROVE IInv'
<1>1. TypeOK'
  <2>1. live' \subseteq Resources /\ state' \subseteq Fields
    BY DEF Close, Release, IInv, TypeOK
  <2>2. pc' \in MainPC BY DEF Close, Goto, MainPC, ClosePC
  <2>3. code' = code BY DEF Close, Goto
  <2>4. net' \subseteq {"forward", "guard", "edge"}
    BY DEF Close, IInv, TypeOK
  <2> QED BY <2>1, <2>2, <2>3, <2>4 DEF Close, IInv, svars, TypeOK
<1>2. Accounted'
  <2>1. CASE pc = "close"
    <3>1. Release({"WarpSvc", "Stack", "TUN"}) /\ pc' = "closeWG"
      BY <2>1 DEF Close, Goto
    <3>2. /\ live' \subseteq live /\ code' = code
          /\ state' = state \ {"WarpSvc", "Stack", "TUN"}
      BY <2>1, <3>1, ReleaseFacts DEF Close, Goto
    <3>3. /\ "WarpSvc" \in state => <<"svc", "process">> \notin live'
          /\ "Stack" \in state => <<"stack", "stack">> \notin live'
          /\ "TUN" \in state => <<"tun", "fd">> \notin live'
      BY <3>1 DEF Release, FieldParts
    <3> QED BY <2>1, <3>1, <3>2, <3>3
            DEF IInv, Accounted, ClosePC, CreateNS, EgressPC
  <2>2. CASE pc = "closeWG" /\ pc' = "closeNS"
    <3>1. Release({"WG"}) BY <2>2 DEF Close, Goto
    <3>2. live' \subseteq live /\ state' = state \ {"WG"} /\ code' = code
      BY <2>2, <3>1, ReleaseFacts DEF Close, Goto
    <3>3. "WG" \in state => /\ <<"wg", "device">> \notin live'
                            /\ <<"wg", "netstack">> \notin live'
      BY <3>1 DEF Release, FieldParts
    <3> QED BY <2>2, <3>2, <3>3
            DEF IInv, Accounted, ClosePC, CreateNS, EgressPC
  <2>3. CASE pc' = "wgHangs"
    BY <2>3 DEF Close, Goto, IInv, Accounted, ClosePC, CreateNS, EgressPC
  <2>4. CASE pc' = "exited" BY <2>4 DEF Accounted
  <2> QED BY <2>1, <2>2, <2>3, <2>4 DEF Close, Goto
<1>3. InOrder' BY DEF Close, Release, Goto, IInv, InOrder, EgressPC
<1>4. ChildWaited' BY DEF Close, Goto, IInv, ChildWaited, ClosePC
<1>5. GuardFirst' BY DEF Close, Goto, IInv, GuardFirst
<1>6. CliOrder' BY DEF Close, Goto, IInv, CliOrder
<1>7. NoResidue'
  <2>1. SUFFICES ASSUME pc' = "exited" PROVE NoResidue' BY DEF NoResidue
  <2>2. pc = "closeNS" /\ Release({"Egress", "WarpNS"}) /\ code' = code
    BY <2>1 DEF Close, Goto
  <2>3. /\ "Egress" \in state => live' \cap Parts("egress") = {}
        /\ "WarpNS" \in state => live' \cap Parts("warp") = {}
        /\ live' \subseteq live
    BY <2>2 DEF Release, FieldParts
  <2>4. state \cap {"WarpSvc", "Stack", "TUN", "WG"} = {}
    BY <2>2 DEF IInv, InOrder
  <2>5. /\ live' \subseteq {<<"stack", "stack">>, <<"wg", "netstack">>}
        /\ live' # {} => code = "err"
        /\ ~({<<"stack", "stack">>, <<"wg", "netstack">>} \subseteq live')
    <3>1. live' \cap (Parts("egress") \cup Parts("warp")) = {}
      BY <2>2, <2>3 DEF IInv, Accounted, CreateNS, EgressPC
    <3>2. /\ <<"svc", "process">> \notin live' /\ <<"tun", "fd">> \notin live'
          /\ <<"wg", "device">> \notin live'
      BY <2>2, <2>3, <2>4 DEF IInv, Accounted
    <3>3. live' \subseteq {<<"stack", "stack">>, <<"wg", "netstack">>}
      BY <2>3, <3>1, <3>2 DEF IInv, TypeOK, Resources
    <3>4. /\ <<"stack", "stack">> \in live' =>
               code = "err" /\ <<"wg", "netstack">> \notin live'
          /\ <<"wg", "netstack">> \in live' => code = "err"
      BY <2>2, <2>3, <2>4 DEF IInv, Accounted
    <3> QED BY <3>3, <3>4
  <2>6. live' \in {{}, {<<"wg", "netstack">>}, {<<"stack", "stack">>}}
    BY <2>5
  <2>7. child' # "running" BY <2>2 DEF Close, IInv, ChildWaited
  <2> QED BY <2>2, <2>5, <2>6, <2>7 DEF NoResidue
<1>8. SignalCount' /\ ConnectAfterRegister'
  BY DEF Close, IInv, svars, SignalCount, ConnectAfterRegister
<1> QED BY <1>1, <1>2, <1>3, <1>4, <1>5, <1>6, <1>7, <1>8 DEF IInv

(* A signal is queued at most once. *)
LEMMA SignalPreserves ==
  ASSUME IInv, Signal PROVE IInv'
<1>1. TypeOK'
  <2>1. signals' \in 0 .. MaxSignals /\ handled' \in 0 .. 2
    BY DEF Signal, IInv, TypeOK, MaxSignals
  <2>2. queued' \in 0 .. MaxSignals
    BY DEF Signal, IInv, TypeOK, MaxSignals, SignalCount
  <2> QED BY <2>1, <2>2 DEF Signal, IInv, mvars, svars, TypeOK
<1>2. SignalCount' BY DEF Signal, IInv, SignalCount, TypeOK, MaxSignals
<1>3. /\ Accounted' /\ InOrder' /\ ChildWaited' /\ GuardFirst'
      /\ CliOrder' /\ NoResidue' /\ ConnectAfterRegister'
  BY DEF Signal, IInv, mvars, Accounted, InOrder, ChildWaited, GuardFirst,
         CliOrder, NoResidue, ConnectAfterRegister, ClosePC
<1> QED BY <1>1, <1>2, <1>3 DEF IInv

(* The second signal is the exit NoResidue excludes. *)
LEMMA SignalGoroutinePreserves ==
  ASSUME IInv, SignalGoroutine PROVE IInv'
<1>1. TypeOK'
  <2>1. signals' \in 0 .. MaxSignals /\ handled' \in 0 .. 2
    BY DEF SignalGoroutine, IInv, TypeOK, MaxSignals
  <2>2. queued' \in 0 .. MaxSignals
    BY DEF SignalGoroutine, IInv, TypeOK, MaxSignals, SignalCount
  <2>3. live' \subseteq Resources
    BY DEF SignalGoroutine, IInv, TypeOK, Resources, Parts
  <2>4. code' \in {"none", "ok", "err", "child", "hard"}
    BY DEF SignalGoroutine, IInv, TypeOK
  <2>5. pc' \in MainPC
    BY DEF SignalGoroutine, IInv, TypeOK, SetupPC, WorkPC, CreateNS, CliPC,
           MainPC, ClosePC
  <2> QED BY <2>1, <2>2, <2>3, <2>4, <2>5 DEF SignalGoroutine, IInv, mvars,
             svars, TypeOK
<1>2. Accounted'
  BY DEF SignalGoroutine, IInv, Accounted, CreateNS, EgressPC, Parts, ClosePC
<1>3. InOrder' BY DEF SignalGoroutine, IInv, InOrder, EgressPC
<1>4. ChildWaited' BY DEF SignalGoroutine, IInv, ChildWaited, ClosePC
<1>5. GuardFirst' BY DEF SignalGoroutine, IInv, GuardFirst
<1>6. CliOrder' BY DEF SignalGoroutine, IInv, CliOrder
<1>7. NoResidue'
  BY DEF SignalGoroutine, IInv, NoResidue, TypeOK, Accounted, ChildWaited,
         Resources, Parts, ClosePC
<1>8. SignalCount' /\ ConnectAfterRegister'
  BY DEF SignalGoroutine, IInv, svars, SignalCount, ConnectAfterRegister
<1> QED BY <1>1, <1>2, <1>3, <1>4, <1>5, <1>6, <1>7, <1>8 DEF IInv

(* A forwarded signal may end the child. *)
LEMMA ForwardSignalPreserves ==
  ASSUME IInv, ForwardSignal PROVE IInv'
<1>1. TypeOK' BY DEF ForwardSignal, IInv, mvars, svars, TypeOK, MaxSignals
<1>2. ChildWaited' BY DEF ForwardSignal, IInv, ChildWaited, ClosePC
<1>3. SignalCount'
  BY DEF ForwardSignal, IInv, SignalCount, TypeOK, MaxSignals
<1>4. NoResidue' BY DEF ForwardSignal, IInv, mvars, NoResidue
<1>5. /\ Accounted' /\ InOrder' /\ GuardFirst'
      /\ CliOrder' /\ ConnectAfterRegister'
  BY DEF ForwardSignal, IInv, mvars, Accounted, InOrder, GuardFirst,
         CliOrder, ConnectAfterRegister, ClosePC
<1> QED BY <1>1, <1>2, <1>3, <1>4, <1>5 DEF IInv

(* The child may exit at any time. *)
LEMMA ChildExitsPreserves ==
  ASSUME IInv, ChildExits PROVE IInv'
<1>1. TypeOK' BY DEF ChildExits, IInv, mvars, svars, TypeOK
<1>2. ChildWaited' BY DEF ChildExits, IInv, ChildWaited, ClosePC
<1>3. NoResidue' BY DEF ChildExits, IInv, mvars, NoResidue
<1>4. /\ Accounted' /\ InOrder' /\ SignalCount'
      /\ GuardFirst' /\ CliOrder' /\ ConnectAfterRegister'
  BY DEF ChildExits, IInv, mvars, svars, Accounted, InOrder, SignalCount,
         GuardFirst, CliOrder, ConnectAfterRegister, ClosePC
<1> QED BY <1>1, <1>2, <1>3, <1>4 DEF IInv

(* The route of the daemon concerns no invariant. *)
LEMMA DaemonRoutePreserves ==
  ASSUME IInv, DaemonRoute PROVE IInv'
<1>1. TypeOK'
  <2>1. daemon' \in [registered : BOOLEAN, protocol : BOOLEAN,
                     connected : BOOLEAN, route : {"none", "tun", "warp"}]
    BY DEF DaemonRoute, IInv, TypeOK, CliPC, Config
  <2> QED BY <2>1 DEF DaemonRoute, IInv, mvars, svars, TypeOK
<1>2. CliOrder' BY DEF DaemonRoute, IInv, CliOrder, TypeOK
<1>3. ConnectAfterRegister'
  BY DEF DaemonRoute, IInv, ConnectAfterRegister, TypeOK
<1>4. /\ Accounted' /\ InOrder' /\ ChildWaited'
      /\ SignalCount' /\ GuardFirst' /\ NoResidue'
  BY DEF DaemonRoute, IInv, mvars, svars, Accounted, InOrder, ChildWaited,
         SignalCount, GuardFirst, NoResidue, ClosePC
<1> QED BY <1>1, <1>2, <1>3, <1>4 DEF IInv

(* A daemon that has crashed is no longer there to be killed. *)
LEMMA DaemonCrashPreserves ==
  ASSUME IInv, DaemonCrash PROVE IInv'
<1>1. TypeOK'
  <2>1. daemon' \in [registered : BOOLEAN, protocol : BOOLEAN,
                     connected : BOOLEAN, route : {"none", "tun", "warp"}]
    BY DEF DaemonCrash, IInv, TypeOK, CliPC, Config
  <2> QED BY <2>1 DEF DaemonCrash, IInv, mvars, svars, TypeOK
<1>2. Accounted' BY DEF DaemonCrash, IInv, Accounted, Parts, ClosePC
<1>3. CliOrder' BY DEF DaemonCrash, IInv, CliOrder, TypeOK
<1>4. NoResidue' BY DEF DaemonCrash, IInv, NoResidue
<1>5. ConnectAfterRegister'
  BY DEF DaemonCrash, IInv, ConnectAfterRegister, TypeOK
<1>6. InOrder' /\ ChildWaited' /\ SignalCount' /\ GuardFirst'
  BY DEF DaemonCrash, IInv, svars, InOrder, ChildWaited, SignalCount,
         GuardFirst, ClosePC
<1> QED BY <1>1, <1>2, <1>3, <1>4, <1>5, <1>6 DEF IInv

(* Nothing changes. *)
LEMMA StutterPreserves == ASSUME IInv, UNCHANGED vars PROVE IInv'
BY DEF IInv, TypeOK, Accounted, InOrder, ChildWaited, SignalCount,
       GuardFirst, CliOrder, NoResidue, ConnectAfterRegister, vars, mvars,
       svars, ClosePC

-----------------------------------------------------------------------------
(***************************************************************************)
(* The theorems.                                                           *)
(***************************************************************************)
(* IInv is inductive. *)
LEMMA NextPreserves == ASSUME IInv, [Next]_vars PROVE IInv'
<1>1. CASE MainStep
  BY <1>1, CheckRootPreserves, StartWireGuardPreserves,
     PrepareBindsPreserves, CreateNetNSPreserves, CreateTUNPreserves,
     MoveToNetNSPreserves, NewNSStackPreserves, ConfigureLinkPreserves,
     StartWarpSvcPreserves, HeadStartPreserves, WarpCliPreserves,
     WaitForWarpRoutePreserves, AddVethPreserves, EnableForwardingPreserves,
     InstallForwardGuardPreserves, InstallMasqueradePreserves,
     ConfigureEdgePreserves, ListenPreserves, ServePreserves,
     StartChildPreserves, NotifyPreserves, WaitChildPreserves, ClosePreserves
     DEF MainStep, SetupStep
<1>2. CASE Signal BY <1>2, SignalPreserves
<1>3. CASE SignalGoroutine BY <1>3, SignalGoroutinePreserves
<1>4. CASE ForwardSignal BY <1>4, ForwardSignalPreserves
<1>5. CASE ChildExits BY <1>5, ChildExitsPreserves
<1>6. CASE DaemonRoute BY <1>6, DaemonRoutePreserves
<1>7. CASE DaemonCrash BY <1>7, DaemonCrashPreserves
<1>8. CASE UNCHANGED vars BY <1>8, StutterPreserves
<1> QED
  BY <1>1, <1>2, <1>3, <1>4, <1>5, <1>6, <1>7, <1>8 DEF Next

(* The inductive invariant holds throughout the life of the process. *)
THEOREM Invariance == Spec => []IInv
BY InitIInv, NextPreserves, PTL DEF Spec

(* Every variable of the process keeps its type; in particular no command  *)
(* of warp-cli is attempted more than --warp-connect-retries times.        *)
THEOREM TypeCorrect == Spec => []TypeOK
<1>1. IInv => TypeOK BY DEF IInv
<1> QED BY <1>1, Invariance, PTL

(* Whichever step of setupAll failed, State.Close leaves nothing behind    *)
(* but the one object that a failed StartWireGuard or NewNSStack dropped.  *)
THEOREM NoResidueTheorem == Spec => []NoResidue
<1>1. IInv => NoResidue BY DEF IInv
<1> QED BY <1>1, Invariance, PTL

(* CreateEgressNS never opens a path that the forward guard does not see.  *)
THEOREM NoUnguardedPathTheorem == Spec => []NoUnguardedPath
<1>1. IInv => NoUnguardedPath BY DEF IInv, GuardFirst, NoUnguardedPath
<1> QED BY <1>1, Invariance, PTL

(* ConnectWarp reaches the daemon only after RegisterWarp and              *)
(* SetWarpTunnelProtocol have, for any number of attempts.                 *)
THEOREM ConnectAfterRegisterTheorem == Spec => []ConnectAfterRegister
<1>1. IInv => ConnectAfterRegister BY DEF IInv
<1> QED BY <1>1, Invariance, PTL

-----------------------------------------------------------------------------
(***************************************************************************)
(* What the workload may rely on.  Built says what the steps behind the    *)
(* main goroutine have left in place; every error path leads to Close, so  *)
(* nothing of it is missing on the way to a workload.                      *)
(***************************************************************************)

(* Where the main goroutine is once the WARP namespace has its network. *)
ReadyPC == CliPC \cup {"wait"} \cup EgressPC \cup WorkPC

(* It has reached a step of S, or a later one. *)
Past(S) == pc \in S \cup ReadyPC \/ (pc \in CreateNS /\ ns = "egress")

WireGuardUp == {<<"wg", "netstack">>, <<"wg", "device">>} \subseteq live

(* The steps of setupAll up to the head start of warp-svc. *)
WarpBuilt ==
  /\ pc \in {"root", "wg", "wgKeys", "wgUp", "binds"} => ns = "warp"
  /\ pc \in {"wgKeys", "wgUp"} => <<"wg", "netstack">> \in live
  /\ cfg.wg /\ (pc \in CreateNS \/ Past({"binds", "tun", "move", "stack",
                                        "link", "svc", "head"})) => WireGuardUp
  /\ Past({"tun", "move", "stack", "link", "svc", "head"})
       => Parts("warp") \subseteq live
  /\ Past({"move", "stack", "link", "svc", "head"}) => <<"tun", "fd">> \in live
  /\ Past({"link", "svc", "head"}) => <<"stack", "stack">> \in live

(* The steps of CreateNetNS, for either namespace. *)
NSBuilt ==
  /\ pc \in {"anchor", "netfd", "mntfd"} => <<ns, "staging">> \in live
  /\ pc \in {"netfd", "mntfd"} => <<ns, "anchor">> \in live
  /\ pc = "mntfd" => <<ns, "netfd">> \in live
  /\ pc \in EgressPC \cup WorkPC => Parts("egress") \subseteq live

(* The steps of CreateEgressNS. *)
PathBuilt ==
  /\ pc \in {"guard", "masq", "edge"} \cup WorkPC => "forward" \in net
  /\ pc \in WorkPC => {"guard", "edge"} \subseteq net

(* The warp-cli commands. *)
CliDone ==
  cfg.cli /\ (pc \in {"wait"} \cup EgressPC \cup WorkPC
                 \/ (pc \in CreateNS /\ ns = "egress"))
    => daemon.connected

Built == WarpBuilt /\ NSBuilt /\ PathBuilt /\ CliDone

(* A workload, be it the proxy or a child that is still running, only ever *)
(* exists inside the finished construction: both namespaces, the TUN       *)
(* device, the gVisor stack and the WireGuard device (if configured) are   *)
(* there, the path out of the egress namespace forwards through the guard, *)
(* and the daemon has been registered, given its protocol and connected.   *)
WorkloadSealed ==
  pc \in WorkPC \/ child = "running" =>
    /\ Parts("warp") \cup Parts("egress") \subseteq live
    /\ {<<"tun", "fd">>, <<"stack", "stack">>} \subseteq live
    /\ cfg.wg => WireGuardUp
    /\ {"forward", "guard", "edge"} \subseteq net
    /\ cfg.cli => /\ daemon.connected /\ daemon.registered
                  /\ cfg.proto => daemon.protocol

(* Nothing is built yet. *)
LEMMA CheckRootBuilds ==
  ASSUME IInv, Built, CheckRoot, UNCHANGED <<cfg, svars>> PROVE Built'
<1>1. WarpBuilt'
  BY DEF CheckRoot, Plain, Goto, Fail, mvars, Built, WarpBuilt, WorkPC,
         CreateNS, CliPC, EgressPC, ReadyPC, Past
<1>2. NSBuilt'
  BY DEF CheckRoot, Plain, Goto, Fail, Built, NSBuilt, WorkPC, EgressPC
<1>3. PathBuilt' BY DEF CheckRoot, Plain, Goto, Fail, Built, PathBuilt, WorkPC
<1>4. CliDone'
  BY DEF CheckRoot, Plain, Goto, Fail, Built, CliDone, WorkPC, CreateNS,
         EgressPC
<1> QED BY <1>1, <1>2, <1>3, <1>4 DEF Built

(* The netstack device is there until the device is, or its start has      *)
(* failed.                                                                 *)
LEMMA StartWireGuardBuilds ==
  ASSUME IInv, Built, StartWireGuard, UNCHANGED <<cfg, svars>> PROVE Built'
<1>1. WarpBuilt'
  BY DEF StartWireGuard, Goto, Fail, Built, WarpBuilt, WireGuardUp, WorkPC,
         CreateNS, CliPC, EgressPC, ReadyPC, Past
<1>2. NSBuilt'
  BY DEF StartWireGuard, Goto, Fail, Built, NSBuilt, WorkPC, EgressPC
<1>3. PathBuilt' BY DEF StartWireGuard, Goto, Fail, Built, PathBuilt, WorkPC
<1>4. CliDone'
  BY DEF StartWireGuard, Goto, Fail, Built, CliDone, WorkPC, CreateNS,
         EgressPC
<1> QED BY <1>1, <1>2, <1>3, <1>4 DEF Built

(* The WARP namespace comes next. *)
LEMMA PrepareBindsBuilds ==
  ASSUME IInv, Built, PrepareBinds, UNCHANGED <<cfg, svars>> PROVE Built'
<1>1. WarpBuilt'
  BY DEF PrepareBinds, Plain, Goto, Fail, mvars, Built, WarpBuilt,
         WireGuardUp, WorkPC, CliPC, EgressPC, ReadyPC, Past
<1>2. NSBuilt'
  BY DEF PrepareBinds, Plain, Goto, Fail, Built, NSBuilt, WorkPC, EgressPC
<1>3. PathBuilt'
  BY DEF PrepareBinds, Plain, Goto, Fail, Built, PathBuilt, WorkPC
<1>4. CliDone'
  BY DEF PrepareBinds, Plain, Goto, Fail, mvars, Built, CliDone, WorkPC,
         EgressPC, WarpBuilt
<1> QED BY <1>1, <1>2, <1>3, <1>4 DEF Built

(* After its last step the namespace is complete, WARP's or the egress one. *)
LEMMA CreateNetNSBuilds ==
  ASSUME IInv, Built, CreateNetNS, UNCHANGED <<cfg, svars>> PROVE Built'
<1>1. WarpBuilt'
  BY DEF CreateNetNS, Goto, Fail, Built, WarpBuilt, WireGuardUp, Parts,
         TypeOK, Namespaces, IInv, WorkPC, CreateNS, CliPC, EgressPC,
         ReadyPC, Past, NSBuilt
<1>2. NSBuilt'
  BY DEF CreateNetNS, Goto, Fail, Built, NSBuilt, Parts, TypeOK, Namespaces,
         IInv, WorkPC, CreateNS, EgressPC
<1>3. PathBuilt'
  BY DEF CreateNetNS, Goto, Fail, Built, PathBuilt, WorkPC, CreateNS
<1>4. CliDone'
  BY DEF CreateNetNS, Goto, Fail, Built, CliDone, TypeOK, IInv, WorkPC,
         CreateNS, EgressPC, Namespaces
<1> QED BY <1>1, <1>2, <1>3, <1>4 DEF Built

(* The TUN device is there from here on. *)
LEMMA CreateTUNBuilds ==
  ASSUME IInv, Built, CreateTUN, UNCHANGED <<cfg, svars>> PROVE Built'
<1>1. WarpBuilt'
  BY DEF CreateTUN, Acquire, Goto, Fail, Built, WarpBuilt, WireGuardUp,
         WorkPC, CreateNS, CliPC, EgressPC, ReadyPC, Past
<1>2. NSBuilt'
  BY DEF CreateTUN, Acquire, Goto, Fail, Built, NSBuilt, WorkPC, EgressPC
<1>3. PathBuilt'
  BY DEF CreateTUN, Acquire, Goto, Fail, Built, PathBuilt, WorkPC
<1>4. CliDone'
  BY DEF CreateTUN, Acquire, Goto, Fail, Built, CliDone, WorkPC, CreateNS,
         EgressPC
<1> QED BY <1>1, <1>2, <1>3, <1>4 DEF Built

(* It keeps existing when it is moved. *)
LEMMA MoveToNetNSBuilds ==
  ASSUME IInv, Built, MoveToNetNS, UNCHANGED <<cfg, svars>> PROVE Built'
<1>1. WarpBuilt'
  BY DEF MoveToNetNS, Plain, Goto, Fail, mvars, Built, WarpBuilt,
         WireGuardUp, WorkPC, CreateNS, CliPC, EgressPC, ReadyPC, Past
<1>2. NSBuilt'
  BY DEF MoveToNetNS, Plain, Goto, Fail, Built, NSBuilt, WorkPC, EgressPC
<1>3. PathBuilt'
  BY DEF MoveToNetNS, Plain, Goto, Fail, Built, PathBuilt, WorkPC
<1>4. CliDone'
  BY DEF MoveToNetNS, Plain, Goto, Fail, Built, CliDone, WorkPC, CreateNS,
         EgressPC
<1> QED BY <1>1, <1>2, <1>3, <1>4 DEF Built

(* So does the stack. *)
LEMMA NewNSStackBuilds ==
  ASSUME IInv, Built, NewNSStack, UNCHANGED <<cfg, svars>> PROVE Built'
<1>1. WarpBuilt'
  BY DEF NewNSStack, Goto, Fail, Built, WarpBuilt, WireGuardUp,
         WorkPC, CreateNS, CliPC, EgressPC, ReadyPC, Past
<1>2. NSBuilt'
  BY DEF NewNSStack, Goto, Fail, Built, NSBuilt, WorkPC, EgressPC
<1>3. PathBuilt'
  BY DEF NewNSStack, Goto, Fail, Built, PathBuilt, WorkPC
<1>4. CliDone'
  BY DEF NewNSStack, Goto, Fail, Built, CliDone, WorkPC, CreateNS,
         EgressPC
<1> QED BY <1>1, <1>2, <1>3, <1>4 DEF Built

(* Routes create nothing. *)
LEMMA ConfigureLinkBuilds ==
  ASSUME IInv, Built, ConfigureLink, UNCHANGED <<cfg, svars>> PROVE Built'
<1>1. WarpBuilt'
  BY DEF ConfigureLink, Goto, Fail, mvars, Built, WarpBuilt, WireGuardUp,
         Past
<1>2. NSBuilt'
  BY DEF ConfigureLink, Goto, Fail, Built, NSBuilt, WorkPC, EgressPC
<1>3. PathBuilt' BY DEF ConfigureLink, Goto, Fail, Built, PathBuilt, WorkPC
<1>4. CliDone'
  BY DEF ConfigureLink, Goto, Fail, Built, CliDone, WorkPC, CreateNS,
         EgressPC
<1> QED BY <1>1, <1>2, <1>3, <1>4 DEF Built

(* warp-svc is no part of Built: it may crash at any time. *)
LEMMA StartWarpSvcBuilds ==
  ASSUME IInv, Built, StartWarpSvc, UNCHANGED <<cfg, svars>> PROVE Built'
<1>1. WarpBuilt'
  BY DEF StartWarpSvc, Acquire, Goto, Fail, mvars, Built, WarpBuilt,
         WireGuardUp, Past
<1>2. NSBuilt'
  BY DEF StartWarpSvc, Acquire, Goto, Fail, Built, NSBuilt, WorkPC, EgressPC
<1>3. PathBuilt'
  BY DEF StartWarpSvc, Acquire, Goto, Fail, Built, PathBuilt, WorkPC
<1>4. CliDone'
  BY DEF StartWarpSvc, Acquire, Goto, Fail, Built, CliDone, WorkPC, CreateNS,
         EgressPC
<1> QED BY <1>1, <1>2, <1>3, <1>4 DEF Built

(* The head start leads to warp-cli or to Close. *)
LEMMA HeadStartBuilds ==
  ASSUME IInv, Built, HeadStart, UNCHANGED <<cfg, svars>> PROVE Built'
<1>1. WarpBuilt'
  BY DEF HeadStart, Goto, Fail, mvars, Built, WarpBuilt, WireGuardUp, Past
<1>2. NSBuilt' BY DEF HeadStart, Goto, Fail, Built, NSBuilt, WorkPC, EgressPC
<1>3. PathBuilt' BY DEF HeadStart, Goto, Fail, Built, PathBuilt, WorkPC
<1>4. CliDone'
  BY DEF HeadStart, Goto, Fail, Built, CliDone, WorkPC, CreateNS, EgressPC
<1> QED BY <1>1, <1>2, <1>3, <1>4 DEF Built

(* The only way from ConnectWarp to the wait is a command that was         *)
(* accepted.                                                               *)
LEMMA WarpCliBuilds ==
  ASSUME IInv, Built, WarpCli, UNCHANGED <<cfg, svars>> PROVE Built'
<1>1. WarpBuilt'
  BY DEF WarpCli, CliSkipped, CliNext, Accept, Goto, Fail, Built, WarpBuilt,
         WireGuardUp, CliPC, ReadyPC, Past
<1>2. NSBuilt'
  BY DEF WarpCli, CliSkipped, CliNext, Accept, Goto, Fail, Built, NSBuilt,
         WorkPC, CliPC, EgressPC
<1>3. PathBuilt'
  BY DEF WarpCli, CliSkipped, CliNext, Accept, Goto, Fail, Built, PathBuilt,
         WorkPC, CliPC
<1>4. CliDone'
  BY DEF WarpCli, CliSkipped, CliNext, Accept, Goto, Fail, Built, CliDone,
         TypeOK, IInv, WorkPC, CreateNS, CliPC, EgressPC, Already, Config
<1> QED BY <1>1, <1>2, <1>3, <1>4 DEF Built

(* CreateNetNS starts again, for the egress namespace. *)
LEMMA WaitForWarpRouteBuilds ==
  ASSUME IInv, Built, WaitForWarpRoute, UNCHANGED <<cfg, svars>> PROVE Built'
<1>1. WarpBuilt'
  BY DEF WaitForWarpRoute, Goto, Fail, Built, WarpBuilt, WireGuardUp,
         ReadyPC, Past
<1>2. NSBuilt'
  BY DEF WaitForWarpRoute, Goto, Fail, Built, NSBuilt, WorkPC, EgressPC
<1>3. PathBuilt' BY DEF WaitForWarpRoute, Goto, Fail, Built, PathBuilt, WorkPC
<1>4. CliDone' BY DEF WaitForWarpRoute, Goto, Built, CliDone
<1> QED BY <1>1, <1>2, <1>3, <1>4 DEF Built

(* A failure in CreateEgressNS takes the egress namespace down, and leads  *)
(* to Close.                                                               *)
LEMMA AddVethBuilds ==
  ASSUME IInv, Built, AddVeth, UNCHANGED <<cfg, svars>> PROVE Built'
<1>1. WarpBuilt'
  BY DEF AddVeth, EgressStep, EgressFail, Goto, Fail, Built, WarpBuilt,
         WireGuardUp, Parts, EgressPC, ReadyPC, Past
<1>2. NSBuilt'
  BY DEF AddVeth, EgressStep, EgressFail, Goto, Fail, Built, NSBuilt, WorkPC,
         EgressPC
<1>3. PathBuilt'
  BY DEF AddVeth, EgressStep, EgressFail, Goto, Fail, Built, PathBuilt,
         WorkPC
<1>4. CliDone'
  BY DEF AddVeth, EgressStep, EgressFail, Goto, Built, CliDone, EgressPC
<1> QED BY <1>1, <1>2, <1>3, <1>4 DEF Built

(* Forwarding is on from here on. *)
LEMMA EnableForwardingBuilds ==
  ASSUME IInv, Built, EnableForwarding, UNCHANGED <<cfg, svars>> PROVE Built'
<1>1. WarpBuilt'
  BY DEF EnableForwarding, EgressStep, EgressFail, Goto, Fail, Built,
         WarpBuilt, WireGuardUp, Parts, EgressPC, ReadyPC, Past
<1>2. NSBuilt'
  BY DEF EnableForwarding, EgressStep, EgressFail, Goto, Fail, Built,
         NSBuilt, WorkPC, EgressPC
<1>3. PathBuilt'
  BY DEF EnableForwarding, EgressStep, EgressFail, Goto, Fail, Built,
         PathBuilt, WorkPC
<1>4. CliDone'
  BY DEF EnableForwarding, EgressStep, EgressFail, Goto, Built, CliDone,
         EgressPC
<1> QED BY <1>1, <1>2, <1>3, <1>4 DEF Built

(* The guard itself is in GuardFirst. *)
LEMMA InstallForwardGuardBuilds ==
  ASSUME IInv, Built, InstallForwardGuard, UNCHANGED <<cfg, svars>> PROVE Built'
<1>1. WarpBuilt'
  BY DEF InstallForwardGuard, EgressStep, EgressFail, Goto, Fail, Built,
         WarpBuilt, WireGuardUp, Parts, EgressPC, ReadyPC, Past
<1>2. NSBuilt'
  BY DEF InstallForwardGuard, EgressStep, EgressFail, Goto, Fail, Built,
         NSBuilt, WorkPC, EgressPC
<1>3. PathBuilt'
  BY DEF InstallForwardGuard, EgressStep, EgressFail, Goto, Fail, Built,
         PathBuilt, WorkPC
<1>4. CliDone'
  BY DEF InstallForwardGuard, EgressStep, EgressFail, Goto, Built, CliDone,
         EgressPC
<1> QED BY <1>1, <1>2, <1>3, <1>4 DEF Built

(* Masquerading concerns no part of Built. *)
LEMMA InstallMasqueradeBuilds ==
  ASSUME IInv, Built, InstallMasquerade, UNCHANGED <<cfg, svars>> PROVE Built'
<1>1. WarpBuilt'
  BY DEF InstallMasquerade, EgressStep, EgressFail, Goto, Fail, Built,
         WarpBuilt, WireGuardUp, Parts, EgressPC, ReadyPC, Past
<1>2. NSBuilt'
  BY DEF InstallMasquerade, EgressStep, EgressFail, Goto, Fail, Built,
         NSBuilt, WorkPC, EgressPC
<1>3. PathBuilt'
  BY DEF InstallMasquerade, EgressStep, EgressFail, Goto, Fail, Built,
         PathBuilt, WorkPC
<1>4. CliDone'
  BY DEF InstallMasquerade, EgressStep, EgressFail, Goto, Built, CliDone,
         EgressPC
<1> QED BY <1>1, <1>2, <1>3, <1>4 DEF Built

(* The workload begins: GuardFirst says that the guard is in place. *)
LEMMA ConfigureEdgeBuilds ==
  ASSUME IInv, Built, ConfigureEdge, UNCHANGED <<cfg, svars>> PROVE Built'
<1>1. WarpBuilt'
  BY DEF ConfigureEdge, EgressFail, Goto, Fail, Built, WarpBuilt,
         WireGuardUp, Parts, EgressPC, ReadyPC, Past
<1>2. NSBuilt'
  BY DEF ConfigureEdge, EgressFail, Goto, Fail, Built, NSBuilt, WorkPC,
         EgressPC
<1>3. PathBuilt'
  BY DEF ConfigureEdge, EgressFail, Goto, Fail, Built, PathBuilt, GuardFirst,
         IInv, WorkPC
<1>4. CliDone'
  BY DEF ConfigureEdge, EgressFail, Goto, Built, CliDone, EgressPC
<1> QED BY <1>1, <1>2, <1>3, <1>4 DEF Built

(* The workload takes nothing down. *)
LEMMA ListenBuilds ==
  ASSUME IInv, Built, Listen, UNCHANGED <<cfg, svars>> PROVE Built'
<1>1. WarpBuilt'
  BY DEF Listen, Goto, Fail, mvars, Built, WarpBuilt, WireGuardUp, WorkPC,
         ReadyPC, Past
<1>2. NSBuilt' BY DEF Listen, Goto, Fail, mvars, Built, NSBuilt, WorkPC
<1>3. PathBuilt' BY DEF Listen, Goto, Built, PathBuilt, WorkPC
<1>4. CliDone' BY DEF Listen, Goto, Built, CliDone, WorkPC
<1> QED BY <1>1, <1>2, <1>3, <1>4 DEF Built

(* Serve ends in Close. *)
LEMMA ServeBuilds ==
  ASSUME IInv, Built, Serve, UNCHANGED <<cfg, svars>> PROVE Built'
<1>1. WarpBuilt'
  BY DEF Serve, mvars, Built, WarpBuilt, WireGuardUp, WorkPC, ReadyPC, Past
<1>2. NSBuilt' BY DEF Serve, mvars, Built, NSBuilt, WorkPC
<1>3. PathBuilt' BY DEF Serve, Built, PathBuilt, WorkPC
<1>4. CliDone' BY DEF Serve, Built, CliDone, WorkPC
<1> QED BY <1>1, <1>2, <1>3, <1>4 DEF Built

(* The child starts, or there is nothing but Close. *)
LEMMA StartChildBuilds ==
  ASSUME IInv, Built, StartChild, UNCHANGED <<cfg, svars>> PROVE Built'
<1>1. WarpBuilt'
  BY DEF StartChild, Goto, mvars, Built, WarpBuilt, WireGuardUp, WorkPC,
         ReadyPC, Past
<1>2. NSBuilt' BY DEF StartChild, Goto, mvars, Built, NSBuilt, WorkPC
<1>3. PathBuilt' BY DEF StartChild, Goto, Built, PathBuilt, WorkPC
<1>4. CliDone' BY DEF StartChild, Goto, Built, CliDone, WorkPC
<1> QED BY <1>1, <1>2, <1>3, <1>4 DEF Built

(* Signals are forwarded. *)
LEMMA NotifyBuilds ==
  ASSUME IInv, Built, Notify, UNCHANGED <<cfg, svars>> PROVE Built'
<1>1. WarpBuilt'
  BY DEF Notify, Goto, mvars, Built, WarpBuilt, WireGuardUp, WorkPC, ReadyPC,
         Past
<1>2. NSBuilt' BY DEF Notify, Goto, mvars, Built, NSBuilt, WorkPC
<1>3. PathBuilt' BY DEF Notify, Goto, Built, PathBuilt, WorkPC
<1>4. CliDone' BY DEF Notify, Goto, Built, CliDone, WorkPC
<1> QED BY <1>1, <1>2, <1>3, <1>4 DEF Built

(* The child is gone before Close. *)
LEMMA WaitChildBuilds ==
  ASSUME IInv, Built, WaitChild, UNCHANGED <<cfg, svars>> PROVE Built'
<1>1. WarpBuilt'
  BY DEF WaitChild, mvars, Built, WarpBuilt, WireGuardUp, WorkPC, ReadyPC,
         Past
<1>2. NSBuilt' BY DEF WaitChild, mvars, Built, NSBuilt, WorkPC
<1>3. PathBuilt' BY DEF WaitChild, Built, PathBuilt, WorkPC
<1>4. CliDone' BY DEF WaitChild, Built, CliDone, WorkPC
<1> QED BY <1>1, <1>2, <1>3, <1>4 DEF Built

(* Close takes everything down, and no workload is left. *)
LEMMA CloseBuilds ==
  ASSUME IInv, Built, Close, UNCHANGED <<cfg, svars>> PROVE Built'
<1>1. WarpBuilt'
  BY DEF Close, Goto, Built, WarpBuilt, WorkPC, CreateNS, CliPC, EgressPC,
         ReadyPC, Past
<1>2. NSBuilt' BY DEF Close, Goto, Built, NSBuilt, WorkPC, EgressPC
<1>3. PathBuilt' BY DEF Close, Goto, Built, PathBuilt, WorkPC
<1>4. CliDone' BY DEF Close, Goto, Built, CliDone, WorkPC, CreateNS, EgressPC
<1> QED BY <1>1, <1>2, <1>3, <1>4 DEF Built

(* A signal by itself changes nothing. *)
LEMMA SignalBuilds == ASSUME IInv, Built, Signal PROVE Built'
<1>1. WarpBuilt' BY DEF Signal, mvars, Built, WarpBuilt, WireGuardUp, Past
<1>2. NSBuilt' BY DEF Signal, mvars, Built, NSBuilt
<1>3. PathBuilt' BY DEF Signal, Built, PathBuilt
<1>4. CliDone' BY DEF Signal, mvars, Built, CliDone
<1> QED BY <1>1, <1>2, <1>3, <1>4 DEF Built

(* The second signal ends the process and its workload at once. *)
LEMMA SignalGoroutineBuilds ==
  ASSUME IInv, Built, SignalGoroutine PROVE Built'
<1>1. WarpBuilt'
  BY DEF SignalGoroutine, Built, WarpBuilt, WireGuardUp, WorkPC, CreateNS,
         CliPC, EgressPC, ReadyPC, Past
<1>2. NSBuilt' BY DEF SignalGoroutine, Built, NSBuilt, WorkPC, EgressPC
<1>3. PathBuilt' BY DEF SignalGoroutine, Built, PathBuilt, WorkPC
<1>4. CliDone'
  BY DEF SignalGoroutine, Built, CliDone, WorkPC, CreateNS, EgressPC
<1> QED BY <1>1, <1>2, <1>3, <1>4 DEF Built

(* Forwarding a signal takes nothing down. *)
LEMMA ForwardSignalBuilds == ASSUME IInv, Built, ForwardSignal PROVE Built'
<1>1. WarpBuilt'
  BY DEF ForwardSignal, mvars, Built, WarpBuilt, WireGuardUp, Past
<1>2. NSBuilt' BY DEF ForwardSignal, mvars, Built, NSBuilt
<1>3. PathBuilt' BY DEF ForwardSignal, Built, PathBuilt
<1>4. CliDone' BY DEF ForwardSignal, mvars, Built, CliDone
<1> QED BY <1>1, <1>2, <1>3, <1>4 DEF Built

(* Nor does the end of the child. *)
LEMMA ChildExitsBuilds == ASSUME IInv, Built, ChildExits PROVE Built'
<1>1. WarpBuilt' BY DEF ChildExits, mvars, Built, WarpBuilt, WireGuardUp, Past
<1>2. NSBuilt' BY DEF ChildExits, mvars, Built, NSBuilt
<1>3. PathBuilt' BY DEF ChildExits, Built, PathBuilt
<1>4. CliDone' BY DEF ChildExits, mvars, Built, CliDone
<1> QED BY <1>1, <1>2, <1>3, <1>4 DEF Built

(* The route may go; the daemon stays connected. *)
LEMMA DaemonRouteBuilds == ASSUME IInv, Built, DaemonRoute PROVE Built'
<1>1. WarpBuilt'
  BY DEF DaemonRoute, mvars, Built, WarpBuilt, WireGuardUp, Past
<1>2. NSBuilt' BY DEF DaemonRoute, mvars, Built, NSBuilt
<1>3. PathBuilt' BY DEF DaemonRoute, Built, PathBuilt
<1>4. CliDone' BY DEF DaemonRoute, mvars, Built, CliDone, TypeOK, IInv
<1> QED BY <1>1, <1>2, <1>3, <1>4 DEF Built

(* A crash of warp-svc leaves the namespaces alone. *)
LEMMA DaemonCrashBuilds == ASSUME IInv, Built, DaemonCrash PROVE Built'
<1>1. WarpBuilt'
  BY DEF DaemonCrash, Built, WarpBuilt, WireGuardUp, Parts, Past
<1>2. NSBuilt' BY DEF DaemonCrash, Built, NSBuilt, Parts
<1>3. PathBuilt' BY DEF DaemonCrash, Built, PathBuilt
<1>4. CliDone' BY DEF DaemonCrash, Built, CliDone
<1> QED BY <1>1, <1>2, <1>3, <1>4 DEF Built

(* Built is preserved by every step. *)
LEMMA BuiltStep == ASSUME IInv, Built, [Next]_vars PROVE Built'
<1>1. CASE MainStep
  BY <1>1, CheckRootBuilds, StartWireGuardBuilds, PrepareBindsBuilds,
     CreateNetNSBuilds, CreateTUNBuilds, MoveToNetNSBuilds, NewNSStackBuilds,
     ConfigureLinkBuilds, StartWarpSvcBuilds, HeadStartBuilds, WarpCliBuilds,
     WaitForWarpRouteBuilds, AddVethBuilds, EnableForwardingBuilds,
     InstallForwardGuardBuilds, InstallMasqueradeBuilds, ConfigureEdgeBuilds,
     ListenBuilds, ServeBuilds, StartChildBuilds, NotifyBuilds,
     WaitChildBuilds, CloseBuilds
     DEF MainStep, SetupStep
<1>2. CASE Signal BY <1>2, SignalBuilds
<1>3. CASE SignalGoroutine BY <1>3, SignalGoroutineBuilds
<1>4. CASE ForwardSignal BY <1>4, ForwardSignalBuilds
<1>5. CASE ChildExits BY <1>5, ChildExitsBuilds
<1>6. CASE DaemonRoute BY <1>6, DaemonRouteBuilds
<1>7. CASE DaemonCrash BY <1>7, DaemonCrashBuilds
<1>8. CASE UNCHANGED vars
  BY <1>8 DEF Built, WarpBuilt, WireGuardUp, NSBuilt, PathBuilt, CliDone, Past,
              vars, mvars
<1> QED
  BY <1>1, <1>2, <1>3, <1>4, <1>5, <1>6, <1>7, <1>8 DEF Next

(* When setupAll begins nothing is behind the main goroutine. *)
LEMMA InitBuilt == ASSUME Init PROVE Built
<1>1. WarpBuilt
  BY DEF Init, WarpBuilt, Past, ReadyPC, CliPC, EgressPC, WorkPC, CreateNS
<1>2. NSBuilt /\ PathBuilt
  BY DEF Init, NSBuilt, PathBuilt, EgressPC, WorkPC
<1>3. CliDone BY DEF Init, CliDone, EgressPC, WorkPC, CreateNS
<1> QED BY <1>1, <1>2, <1>3 DEF Built

(* RunProxy and RunInNS run, and the child lives, only in the finished     *)
(* construction of setupAll, whichever of its steps fail or are repeated.  *)
THEOREM WorkloadSealedTheorem == Spec => []WorkloadSealed
<1>1. Init => Built BY InitBuilt
<1>2. IInv /\ Built /\ [Next]_vars => Built' BY BuiltStep
<1>3. IInv /\ Built => WorkloadSealed
  <2>1. SUFFICES ASSUME IInv, Built, pc \in WorkPC \/ child = "running"
                 PROVE  WorkloadSealed
    BY DEF WorkloadSealed
  <2>2. pc \in WorkPC BY <2>1 DEF IInv, ChildWaited, WorkPC, ClosePC
  <2>3. /\ Parts("warp") \cup Parts("egress") \subseteq live
        /\ {<<"tun", "fd">>, <<"stack", "stack">>} \subseteq live
        /\ cfg.wg => WireGuardUp
    BY <2>1, <2>2 DEF Built, WarpBuilt, NSBuilt, Past, ReadyPC
  <2>4. {"forward", "guard", "edge"} \subseteq net
    BY <2>1, <2>2 DEF Built, PathBuilt
  <2>5. cfg.cli => /\ daemon.connected /\ daemon.registered
                   /\ cfg.proto => daemon.protocol
    BY <2>1, <2>2 DEF Built, CliDone, IInv, ConnectAfterRegister
  <2> QED BY <2>3, <2>4, <2>5 DEF WorkloadSealed
<1> QED BY <1>1, <1>2, <1>3, Invariance, PTL DEF Spec

=============================================================================
