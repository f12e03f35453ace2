------------------------------- MODULE NetNS -------------------------------
(***************************************************************************)
(* One namespace of netns.go, from CreateNetNS to Close: the constructor,  *)
(* the anchor thread that enters new namespaces, builds their root and     *)
(* then serves tasks, and the callers of RunOnAnchor, which start          *)
(* processes there.  The root is the sandbox of the warp namespace or the  *)
(* host's of the egress namespace.                                         *)
(*                                                                         *)
(* A task of the sandbox is StartWarpSvc's, which first gives up the       *)
(* anchor's capabilities (caps.go); one of the host root is RunInNS's.     *)
(* mwarp calls RunOnAnchor once per namespace and never during Close; here *)
(* any number of callers overlap with each other and with Close, for which *)
(* the code provides.                                                      *)
(***************************************************************************)
EXTENDS Naturals, Sequences

CONSTANTS
  Callers,      \* goroutines that call RunOnAnchor
  LastCap,      \* the kernel's last capability
  FallbackCap,  \* the one assumed when the kernel cannot be asked
  Mask,         \* the capabilities warp-svc keeps
  SetPCap,      \* CAP_SETPCAP
  Nobody        \* no caller

Caps == 0 .. LastCap

ASSUME CapAssumption ==
  /\ LastCap \in Nat /\ FallbackCap \in Nat /\ LastCap <= FallbackCap
  /\ Mask \subseteq Caps /\ SetPCap \in Caps \ Mask
ASSUME NobodyAssumption == Nobody \notin Callers

VARIABLES
  mode,       \* opts.RootMode
  ctor,       \* where CreateNetNS is
  closer,     \* where Close is
  staging,    \* the host directory stagingDir
  fds,        \* which of NetFD and MntFD are open
  stop,       \* stopCh is closed
  anchor,     \* where the anchor is
  task,       \* the caller whose task the anchor runs
  todo,       \* what is left of the setup of the root
  mnt,        \* the anchor's mount namespace
  hostBinds,  \* bind mounts below stagingDir the host sees
  caller,     \* where each caller is
  child,      \* the process a caller's task has started
  caps,       \* the anchor's capabilities
  capAt,      \* loop variable of restrictCurrentThreadCaps
  childCaps   \* the capabilities a process was started with

ctorVars == <<mode, ctor, closer, staging, fds, stop>>
rootVars == <<todo, mnt, hostBinds>>
taskVars == <<task, caller, child, caps, capAt, childCaps>>
vars == <<ctorVars, anchor, rootVars, taskVars>>

-----------------------------------------------------------------------------
(***************************************************************************)
(* The setup of the root as a list of operations.  "files" stands for      *)
(* directories, devices, links and resolv.conf; a bind may be read-only,   *)
(* which takes a second mount call, and optional, which skips a source     *)
(* that the host does not have.                                            *)
(***************************************************************************)
BindOp(m, ro, opt) == [op |-> "bind", m |-> m, ro |-> ro, opt |-> opt]
RemountOp(m) == [op |-> "remount", m |-> m]
Op(o) == [op |-> o]

(* setupSandboxRoot. *)
SandboxRoot ==
  << Op("files"), BindOp("usr", TRUE, FALSE), Op("files"),
     BindOp("proc", FALSE, FALSE), BindOp("sys", TRUE, FALSE), Op("files"),
     BindOp("etc", TRUE, TRUE), BindOp("command", TRUE, TRUE),
     BindOp("state", FALSE, TRUE), Op("pivot"), Op("detach"), Op("files") >>

(* setupHostRootResolvOverlay. *)
HostRoot == << Op("files"), BindOp("resolv", TRUE, FALSE) >>

Root == IF mode = "sandbox" THEN SandboxRoot ELSE HostRoot
ReadOnly == {"usr", "sys", "etc", "command", "resolv"}
Mounts == ReadOnly \cup {"proc", "state"}

TypeOK ==
  /\ mode \in {"sandbox", "host"}
  /\ ctor \in {"start", "wait", "openNet", "openMnt", "up", "failed"}
  /\ closer \in {"idle", "remove", "done"}
  /\ staging \in {"none", "present", "removed"}
  /\ fds \subseteq {"net", "mnt"}
  /\ stop \in BOOLEAN
  /\ anchor \in {"none", "newnet", "newns", "private", "root", "failed",
                 "serve", "drop", "ambient", "capset", "exec", "parked",
                 "gone"}
  /\ task \in Callers \cup {Nobody}
  /\ Len(todo) <= 12
  /\ mnt.private \in BOOLEAN
  /\ mnt.binds \subseteq Mounts /\ mnt.ro \subseteq mnt.binds
  /\ mnt.root \in {"host", "both", "own"}
  /\ hostBinds \subseteq Mounts
  /\ caller \in [Callers -> {"idle", "select", "wait", "ok", "err"}]
  /\ child \in [Callers -> {"none", "running", "dead"}]
  /\ caps.bounding \subseteq Caps /\ caps.permitted \subseteq Caps
  /\ caps.inheritable \subseteq Caps
  /\ capAt \in 0 .. FallbackCap + 1
  /\ childCaps \in [Callers -> SUBSET Caps]

Init ==
  /\ mode \in {"sandbox", "host"}
  /\ ctor = "start" /\ closer = "idle"
  /\ staging = "none"
  /\ fds = {}
  /\ stop = FALSE
  /\ anchor = "none" /\ task = Nobody
  /\ todo = <<>>
  /\ mnt = [private |-> FALSE, binds |-> {}, ro |-> {}, root |-> "host"]
  /\ hostBinds = {}
  /\ caller = [c \in Callers |-> "idle"]
  /\ child = [c \in Callers |-> "none"]
  /\ caps = [bounding |-> Caps, permitted |-> Caps, inheritable |-> {}]
  /\ capAt = 0
  /\ childCaps = [c \in Callers |-> {}]

-----------------------------------------------------------------------------
(***************************************************************************)
(* CreateNetNS, on the caller's thread.                                    *)
(***************************************************************************)
MkdirTemp ==
  /\ ctor = "start"
  /\ \/ /\ staging' = "present" /\ ctor' = "wait" /\ anchor' = "newnet"
     \/ /\ ctor' = "failed" /\ UNCHANGED <<staging, anchor>>
  /\ UNCHANGED <<mode, closer, fds, stop, rootVars, taskVars>>

(* The anchor has reported: ready once it serves, or its error. *)
Ready ==
  /\ ctor = "wait"
  /\ \/ /\ anchor = "serve" /\ ctor' = "openNet"
        /\ UNCHANGED <<staging, anchor>>
     \/ /\ anchor = "failed" /\ ctor' = "failed"
        /\ staging' = "removed" /\ anchor' \in {"gone", "parked"}
  /\ UNCHANGED <<mode, closer, fds, stop, rootVars, taskVars>>

(* Mutant: the anchor is left running when a descriptor cannot be opened. *)
OpenFdsAbandon ==
  /\ \/ /\ ctor = "openNet"
        /\ \/ fds' = {"net"} /\ ctor' = "openMnt" /\ UNCHANGED staging
           \/ ctor' = "failed" /\ staging' = "removed" /\ UNCHANGED fds
     \/ /\ ctor = "openMnt"
        /\ \/ fds' = {"net", "mnt"} /\ ctor' = "up" /\ UNCHANGED staging
           \/ ctor' = "failed" /\ fds' = {} /\ staging' = "removed"
  /\ UNCHANGED <<mode, closer, stop, anchor, rootVars, taskVars>>

(* NetFD, then MntFD; a failure undoes what there is. *)
OpenFds ==
  /\ \/ /\ ctor = "openNet"
        /\ \/ /\ fds' = {"net"} /\ ctor' = "openMnt"
              /\ UNCHANGED <<stop, staging>>
           \/ /\ stop' = TRUE /\ staging' = "removed" /\ ctor' = "failed"
              /\ UNCHANGED fds
     \/ /\ ctor = "openMnt"
        /\ \/ /\ fds' = {"net", "mnt"} /\ ctor' = "up"
              /\ UNCHANGED <<stop, staging>>
           \/ /\ fds' = {} /\ stop' = TRUE /\ staging' = "removed"
              /\ ctor' = "failed"
  /\ UNCHANGED <<mode, closer, anchor, rootVars, taskVars>>

Construct == MkdirTemp \/ Ready \/ OpenFds

(* Close: the descriptors and stopCh, then the staging directory. *)
Close ==
  /\ ctor = "up"
  /\ \/ /\ closer = "idle"
        /\ fds' = {} /\ stop' = TRUE /\ closer' = "remove"
        /\ UNCHANGED staging
     \/ /\ closer = "remove"
        /\ staging' = "removed" /\ closer' = "done"
        /\ UNCHANGED <<fds, stop>>
  /\ UNCHANGED <<mode, ctor, anchor, rootVars, taskVars>>

-----------------------------------------------------------------------------
(***************************************************************************)
(* The anchor thread: new namespaces, a private mount tree, the root.      *)
(***************************************************************************)

(* Mutant: the mount tree is left shared with the host. *)
EnterShared ==
  /\ \/ /\ anchor = "newnet" /\ anchor' \in {"newns", "failed"}
        /\ UNCHANGED <<todo, mnt>>
     \/ /\ anchor = "newns" /\ anchor' \in {"private", "failed"}
        /\ UNCHANGED <<todo, mnt>>
     \/ /\ anchor = "private" /\ anchor' = "root" /\ todo' = Root
        /\ UNCHANGED mnt
  /\ UNCHANGED <<ctorVars, hostBinds, taskVars>>

Enter ==
  /\ \/ /\ anchor = "newnet" /\ anchor' \in {"newns", "failed"}
        /\ UNCHANGED <<todo, mnt>>
     \/ /\ anchor = "newns" /\ anchor' \in {"private", "failed"}
        /\ UNCHANGED <<todo, mnt>>
     \/ /\ anchor = "private" /\ anchor' = "root" /\ todo' = Root
        /\ mnt' = [mnt EXCEPT !.private = TRUE]
     \/ /\ anchor = "private" /\ anchor' = "failed"
        /\ UNCHANGED <<todo, mnt>>
  /\ UNCHANGED <<ctorVars, hostBinds, taskVars>>

(* Any operation may fail, which ends the setup. *)
RootFails ==
  /\ anchor = "root" /\ todo # <<>>
  /\ anchor' = "failed"
  /\ UNCHANGED <<ctorVars, rootVars, taskVars>>

(* Mutant: a bind is not remounted read-only. *)
BindStepWritable ==
  /\ anchor = "root" /\ todo # <<>> /\ Head(todo).op = "bind"
  /\ mnt' = [mnt EXCEPT !.binds = @ \cup {Head(todo).m}]
  /\ hostBinds' = IF mnt.private THEN hostBinds
                  ELSE hostBinds \cup {Head(todo).m}
  /\ todo' = Tail(todo)
  /\ UNCHANGED <<ctorVars, anchor, taskVars>>

(* A bind mount, visible to the host too while the tree is shared; a       *)
(* read-only one is remounted next.  An optional one whose source is       *)
(* missing is skipped.                                                     *)
BindStep ==
  /\ anchor = "root" /\ todo # <<>> /\ Head(todo).op = "bind"
  /\ \/ /\ mnt' = [mnt EXCEPT !.binds = @ \cup {Head(todo).m}]
        /\ hostBinds' = IF mnt.private THEN hostBinds
                        ELSE hostBinds \cup {Head(todo).m}
        /\ todo' = IF Head(todo).ro
                   THEN <<RemountOp(Head(todo).m)>> \o Tail(todo)
                   ELSE Tail(todo)
     \/ /\ Head(todo).opt
        /\ todo' = Tail(todo)
        /\ UNCHANGED <<mnt, hostBinds>>
  /\ UNCHANGED <<ctorVars, anchor, taskVars>>

(* The other operations: files, the remount, pivot_root and the unmount of *)
(* the old root.                                                           *)
RootStep ==
  /\ anchor = "root" /\ todo # <<>> /\ Head(todo).op # "bind"
  /\ LET o == Head(todo) IN
     mnt' = CASE o.op = "remount" -> [mnt EXCEPT !.ro = @ \cup {o.m}]
              [] o.op = "pivot"   -> [mnt EXCEPT !.root = "both"]
              [] o.op = "detach"  -> [mnt EXCEPT !.root = "own"]
              [] o.op = "files"   -> mnt
  /\ todo' = Tail(todo)
  /\ UNCHANGED <<ctorVars, anchor, hostBinds, taskVars>>

(* ready <- tid, and the loop over stopCh and taskCh. *)
RootDone ==
  /\ anchor = "root" /\ todo = <<>>
  /\ anchor' = "serve"
  /\ UNCHANGED <<ctorVars, rootVars, taskVars>>

SetUpRoot == Enter \/ RootFails \/ BindStep \/ RootStep \/ RootDone

(* The thread exits with its goroutine, which never unlocks it, and        *)
(* Pdeathsig kills the processes it has started.  The runtime (external)   *)
(* makes one exception: it does not end the process's first thread, if the *)
(* goroutine was locked to that one, but parks it until the process exits. *)
ThreadExits ==
  \/ /\ anchor' = "gone"
     /\ child' = [c \in Callers |-> IF child[c] = "running" THEN "dead"
                                    ELSE child[c]]
  \/ anchor' = "parked" /\ UNCHANGED child

AnchorStops ==
  /\ anchor = "serve" /\ stop
  /\ ThreadExits
  /\ UNCHANGED <<ctorVars, rootVars, task, caller, caps, capAt, childCaps>>

-----------------------------------------------------------------------------
(***************************************************************************)
(* RunOnAnchor.                                                            *)
(***************************************************************************)
RunOnAnchor(c) ==
  /\ ctor = "up" /\ caller[c] = "idle"
  /\ caller' = [caller EXCEPT ![c] = "select"]
  /\ UNCHANGED <<ctorVars, anchor, rootVars, task, child, caps, capAt, childCaps>>

(* Mutant: the caller waits for the anchor only. *)
RefusedNever(c) == FALSE /\ UNCHANGED vars

(* case <-n.stopCh *)
Refused(c) ==
  /\ caller[c] = "select" /\ stop
  /\ caller' = [caller EXCEPT ![c] = "err"]
  /\ UNCHANGED <<ctorVars, anchor, rootVars, task, child, caps, capAt, childCaps>>

(* case n.taskCh <- ...: both sides meet, taskCh is not buffered. *)
HandOver(c) ==
  /\ caller[c] = "select" /\ anchor = "serve"
  /\ caller' = [caller EXCEPT ![c] = "wait"]
  /\ task' = c
  /\ anchor' = IF mode = "sandbox" THEN "drop" ELSE "exec"
  /\ capAt' = 0
  /\ UNCHANGED <<ctorVars, rootVars, child, caps, childCaps>>

(* Mutant: the task's thread ends with the task, as in Run. *)
TaskReturnsAndExits(res, started) ==
  /\ caller' = [caller EXCEPT ![task] = res]
  /\ task' = Nobody
  /\ anchor' = "gone"
  /\ child' = [c \in Callers |-> IF child[c] = "running" \/ (c = task /\ started)
                                 THEN "dead" ELSE child[c]]

(* errCh <- fn(), which has room, and the caller's return. *)
TaskReturns(res, started) ==
  /\ caller' = [caller EXCEPT ![task] = res]
  /\ task' = Nobody
  /\ anchor' = "serve"
  /\ child' = IF started THEN [child EXCEPT ![task] = "running"] ELSE child

-----------------------------------------------------------------------------
(***************************************************************************)
(* restrictCurrentThreadCaps.                                              *)
(***************************************************************************)

(* Mutant: the loop makes one turn too many. *)
CapLoopEndsLate(last) == capAt > last + 1

(* for cap := 0; cap <= kernelLastCap(); cap++ *)
CapLoopEnds(last) == capAt > last

(* Mutant: the bounding set is left alone. *)
DropBoundingSkipped ==
  /\ anchor = "drop"
  /\ anchor' = "ambient"
  /\ UNCHANGED <<ctorVars, rootVars, taskVars>>

(* One turn of the loop over the bounding set.  kernelLastCap is asked on  *)
(* every turn.  Dropping needs CAP_SETPCAP and fails without it; EINVAL,   *)
(* for a capability the kernel does not know, is ignored.                  *)
DropBounding ==
  /\ anchor = "drop"
  /\ \E last \in {LastCap, FallbackCap} :
       \/ /\ CapLoopEnds(last)
          /\ anchor' = "ambient"
          /\ UNCHANGED <<task, caller, child, caps, capAt>>
       \/ /\ ~CapLoopEnds(last)
          /\ capAt \in Mask \/ capAt > LastCap
          /\ capAt' = capAt + 1
          /\ UNCHANGED <<anchor, task, caller, child, caps>>
       \/ /\ ~CapLoopEnds(last) /\ capAt \in Caps \ Mask
          /\ SetPCap \in caps.permitted
          /\ caps' = [caps EXCEPT !.bounding = @ \ {capAt}]
          /\ capAt' = capAt + 1
          /\ UNCHANGED <<anchor, task, caller, child>>
       \/ /\ ~CapLoopEnds(last) /\ capAt \in Caps \ Mask
          /\ TaskReturns("err", FALSE)
          /\ UNCHANGED <<caps, capAt>>
  /\ UNCHANGED <<ctorVars, rootVars, childCaps>>

(* PR_CAP_AMBIENT_CLEAR_ALL, then capset. *)
SetCaps ==
  /\ \/ /\ anchor = "ambient" /\ anchor' = "capset"
        /\ UNCHANGED <<task, caller, child, caps>>
     \/ /\ anchor = "capset"
        /\ caps' = [caps EXCEPT !.permitted = Mask, !.inheritable = Mask]
        /\ anchor' = "exec"
        /\ UNCHANGED <<task, caller, child>>
     \/ /\ anchor \in {"ambient", "capset"}
        /\ TaskReturns("err", FALSE)
        /\ UNCHANGED caps
  /\ UNCHANGED <<ctorVars, rootVars, capAt, childCaps>>

(* cmd.Start on the anchor.  execve (external) gives a process of root     *)
(* what is inheritable and what the bounding set leaves.                   *)
Start ==
  /\ anchor = "exec"
  /\ \/ /\ TaskReturns("ok", TRUE)
        /\ childCaps' = [childCaps EXCEPT
                           ![task] = caps.inheritable \cup caps.bounding]
     \/ TaskReturns("err", FALSE) /\ UNCHANGED childCaps
  /\ UNCHANGED <<ctorVars, rootVars, caps, capAt>>

ChildExits(c) ==
  /\ child[c] = "running"
  /\ child' = [child EXCEPT ![c] = "dead"]
  /\ UNCHANGED <<ctorVars, anchor, rootVars, task, caller, caps, capAt, childCaps>>

Serve == AnchorStops \/ DropBounding \/ SetCaps \/ Start

Next ==
  \/ Construct \/ Close \/ SetUpRoot \/ Serve
  \/ \E c \in Callers :
       RunOnAnchor(c) \/ Refused(c) \/ HandOver(c) \/ ChildExits(c)

Spec == Init /\ [][Next]_vars

(***************************************************************************)
(* Fairness: runnable goroutines run, and a select with a ready case is    *)
(* taken.  Nobody has to call RunOnAnchor or Close, a Close that has begun *)
(* ends, and a process may run for ever.                                   *)
(***************************************************************************)
Fairness ==
  /\ WF_vars(Construct)
  /\ WF_vars(Close /\ closer = "remove")
  /\ WF_vars(SetUpRoot)
  /\ WF_vars(Serve \/ \E c \in Callers : HandOver(c))
  /\ \A c \in Callers : WF_vars(Refused(c) \/ HandOver(c))

FairSpec == Spec /\ Fairness

-----------------------------------------------------------------------------
(* os.RemoveAll(stagingDir), which runs on the host's side on every        *)
(* failure and in Close, never finds a bind mount of a host directory      *)
(* below it, which it would empty: nothing is mounted while the tree is    *)
(* still shared with the host.                                             *)
RemoveAllSparesHost == [][staging' = "removed" => hostBinds' = {}]_vars

(* Nothing runs on the anchor, and no descriptor of the namespaces exists, *)
(* before the root is what NetNSOptions describes: the old root out of     *)
(* reach, and what is announced as read-only remounted so.  (Of each bind  *)
(* this is the top mount: a remount does not reach the mounts below it.)   *)
SealedBeforeUse ==
  fds # {} \/ anchor \in {"serve", "drop", "ambient", "capset", "exec"}
    => /\ mnt.private
       /\ mnt.binds \cap ReadOnly \subseteq mnt.ro
       /\ mnt.root = IF mode = "sandbox" THEN "own" ELSE "host"

(* warp-svc never has more than the capabilities of its mask, although it  *)
(* runs as root and its anchor started with all of them: whenever a step   *)
(* of restrictCurrentThreadCaps fails it is not started.                   *)
SvcConfined ==
  \A c \in Callers : mode = "sandbox" /\ child[c] # "none" => childCaps[c] \subseteq Mask

(* A process started on the anchor outlives the call that started it: only *)
(* Close makes the anchor exit, which kills it.                            *)
ChildSurvivesCall ==
  [][\A c \in Callers :
       anchor # "gone" /\ anchor' = "gone" /\ child'[c] = "dead"
         => stop \/ child[c] = "dead"]_vars

(* RunOnAnchor returns, however it meets Close: the caller is never left   *)
(* waiting for a task that the anchor has not taken or has not run.        *)
RunOnAnchorReturns ==
  \A c \in Callers : caller[c] = "select" ~> caller[c] \in {"ok", "err"}

(* After a constructor that fails, and after Close, the anchor's goroutine *)
(* returns, whatever task it was given meanwhile; the directory and the    *)
(* descriptors are gone, and so is every process the anchor has started,   *)
(* unless its thread is the one that the runtime parks instead.            *)
TakenDown ==
  ctor = "failed" \/ closer # "idle"
    ~> /\ anchor \in {"none", "gone", "parked"}
       /\ staging # "present" /\ fds = {}
       /\ anchor # "parked" => \A c \in Callers : child[c] # "running"
=============================================================================
