---------------------------- MODULE NetNSProofs ----------------------------
(***************************************************************************)
(* Proofs about NetNS, for any number of callers and any set of            *)
(* capabilities.                                                           *)
(*                                                                         *)
(* The inductive invariant has a part for the setup of the root, where     *)
(* todo stays a tail of the list except that a bind may have become its    *)
(* remount (Suffix), what has been mounted so far agrees with what is left *)
(* (Progress) and all of it is out of the host's sight (Unseen); for the   *)
(* constructor, which opens descriptors only of a finished root            *)
(* (Finished); for the callers, which wait for the task the anchor runs    *)
(* and for no other (TaskOwned); and for the capabilities the loop has     *)
(* dropped (Dropped).                                                      *)
(***************************************************************************)
EXTENDS NetNS, SequenceTheorems, TLAPS

(* The operations a root is made of, and the anchor's states. *)
Ops == {Root[i] : i \in 1 .. Len(Root)} \cup {RemountOp(m) : m \in Mounts}

Entering == {"none", "newnet", "newns", "private"}
Busy == {"drop", "ambient", "capset", "exec"}
Serving == Busy \cup {"serve"}
Ended == {"gone", "parked"}

(* The list, and the two records whose fields TypeOK describes. *)
MntType == [private : BOOLEAN, binds : SUBSET Mounts, ro : SUBSET Mounts,
            root : {"host", "both", "own"}]
CapType == [bounding : SUBSET Caps, permitted : SUBSET Caps,
            inheritable : SUBSET Caps]

RootTypes == todo \in Seq(Ops) /\ mnt \in MntType
CapTypes == caps \in CapType

(* What is left of the setup: the n-th operation from the end is the n-th  *)
(* from the end of the list, but the first may be the remount that follows *)
(* a bind which has been made.                                             *)
Remounting == todo # <<>> /\ Head(todo).op = "remount"
At(i) == Root[Len(Root) - Len(todo) + i]

Suffix ==
  /\ Len(todo) <= Len(Root)
  /\ \A i \in 2 .. Len(todo) : todo[i] = At(i)
  /\ todo # <<>> => \/ todo[1] = At(1)
                    \/ /\ At(1).op = "bind" /\ At(1).m \in mnt.binds
                       /\ todo[1] = RemountOp(At(1).m)

(* What there is of the root agrees with what is left to do: nothing       *)
(* before the setup, and in it every read-only bind has been remounted     *)
(* except the one whose remount is next.                                   *)
Progress ==
  /\ anchor \in Entering =>
       todo = <<>> /\ mnt.binds = {} /\ mnt.ro = {} /\ mnt.root = "host"
  /\ anchor = "root" =>
       /\ mnt.private
       /\ mnt.binds \cap ReadOnly
            \subseteq mnt.ro \cup
                        {m \in Mounts : Remounting /\ m = Head(todo).m}
       /\ mode = "host" => mnt.root = "host"
       /\ mode = "sandbox" => /\ Len(todo) \in {0, 1} => mnt.root = "own"
                              /\ Len(todo) = 2 => mnt.root = "both"
                              /\ Len(todo) > 2 => mnt.root = "host"

(* Nothing of it is mounted where the host can see it. *)
Unseen == hostBinds = {}

(* The root is what NetNSOptions describes. *)
Sealed ==
  /\ mnt.private
  /\ mnt.binds \cap ReadOnly \subseteq mnt.ro
  /\ mnt.root = IF mode = "sandbox" THEN "own" ELSE "host"

(* The anchor serves, and CreateNetNS goes on, with a finished root only. *)
Finished ==
  /\ ctor = "start" => anchor = "none"
  /\ ctor \in {"openNet", "openMnt", "up"} => anchor \in Serving \cup Ended
  /\ fds # {} => ctor \in {"openMnt", "up"}
  /\ anchor \in Serving \/ ctor \in {"openNet", "openMnt", "up"} => Sealed

(* The anchor runs a task exactly while its caller waits for it. *)
TaskOwned ==
  /\ anchor \in Busy <=> task # Nobody
  /\ \A c \in Callers : caller[c] = "wait" <=> task = c

(* The capabilities the loop has passed are gone from the bounding set. *)
Dropped ==
  mode = "sandbox" =>
    /\ caps.inheritable \subseteq Mask
    /\ anchor = "drop" => \A x \in caps.bounding : x < capAt => x \in Mask
    /\ anchor \in {"ambient", "capset", "exec"} => caps.bounding \subseteq Mask
    /\ \A c \in Callers : childCaps[c] \subseteq Mask

SetupInv == RootTypes /\ Suffix /\ Progress /\ Unseen
TaskInv == CapTypes /\ TaskOwned /\ Dropped

IInv == TypeOK /\ SetupInv /\ Finished /\ TaskInv

USE CapAssumption, NobodyAssumption DEF MntType, CapType

-----------------------------------------------------------------------------
(* The two lists: a bind of something read-only is a read-only bind, and   *)
(* the sandbox ends with the pivot, the detach and a step on files.        *)
LEMMA SandboxFacts ==
  /\ Len(SandboxRoot) = 12
  /\ SandboxRoot \in Seq({SandboxRoot[i] : i \in 1 .. 12})
  /\ \A i \in 1 .. 12 :
       /\ SandboxRoot[i].op = "bind" =>
            /\ SandboxRoot[i].m \in Mounts
            /\ SandboxRoot[i].m \in ReadOnly => SandboxRoot[i].ro
       /\ SandboxRoot[i].op \in {"bind", "files", "pivot", "detach"}
       /\ SandboxRoot[i].op = "pivot" <=> i = 10
       /\ SandboxRoot[i].op = "detach" <=> i = 11
       /\ i = 12 => SandboxRoot[i].op = "files"
<1>1. Len(SandboxRoot) = 12 /\ DOMAIN SandboxRoot = 1 .. 12
  BY DEF SandboxRoot
<1>2. SandboxRoot \in Seq({SandboxRoot[i] : i \in 1 .. 12})
  <2>1. SandboxRoot = [i \in 1 .. 12 |-> SandboxRoot[i]]
    BY DEF SandboxRoot
  <2> QED BY <2>1, SeqDef
<1>3. ASSUME NEW i \in 1 .. 12
      PROVE  /\ SandboxRoot[i].op = "bind" =>
                  /\ SandboxRoot[i].m \in Mounts
                  /\ SandboxRoot[i].m \in ReadOnly => SandboxRoot[i].ro
             /\ SandboxRoot[i].op \in {"bind", "files", "pivot", "detach"}
             /\ SandboxRoot[i].op = "pivot" <=> i = 10
             /\ SandboxRoot[i].op = "detach" <=> i = 11
             /\ i = 12 => SandboxRoot[i].op = "files"
  BY DEF SandboxRoot, Op, BindOp, ReadOnly, Mounts
<1> QED BY <1>1, <1>2, <1>3

(* The same for the root of the egress namespace. *)
LEMMA HostFacts ==
  /\ Len(HostRoot) = 2
  /\ HostRoot \in Seq({HostRoot[i] : i \in 1 .. 2})
  /\ \A i \in 1 .. 2 :
       /\ HostRoot[i].op = "bind" =>
            HostRoot[i].m \in Mounts /\ HostRoot[i].ro
       /\ HostRoot[i].op \in {"bind", "files"}
<1>1. Len(HostRoot) = 2 /\ HostRoot \in Seq({HostRoot[i] : i \in 1 .. 2})
  <2>1. HostRoot = [i \in 1 .. 2 |-> HostRoot[i]]
    BY DEF HostRoot
  <2>2. Len(HostRoot) = 2
    BY DEF HostRoot
  <2> QED BY <2>1, <2>2, SeqDef
<1>2. ASSUME NEW i \in 1 .. 2
      PROVE  /\ HostRoot[i].op = "bind" =>
                  HostRoot[i].m \in Mounts /\ HostRoot[i].ro
             /\ HostRoot[i].op \in {"bind", "files"}
  BY DEF HostRoot, Op, BindOp, ReadOnly, Mounts
<1> QED BY <1>1, <1>2

(* The list of either kind of root. *)
LEMMA RootFacts ==
  ASSUME mode \in {"sandbox", "host"}
  PROVE  /\ Root \in Seq(Ops)
         /\ Len(Root) = IF mode = "sandbox" THEN 12 ELSE 2
         /\ \A i \in 1 .. Len(Root) :
              /\ Root[i].op = "bind" =>
                   /\ Root[i].m \in Mounts
                   /\ Root[i].m \in ReadOnly => Root[i].ro
              /\ Root[i].op \in {"bind", "files", "pivot", "detach"}
              /\ Root[i].op = "pivot" <=> mode = "sandbox" /\ i = 10
              /\ Root[i].op = "detach" <=> mode = "sandbox" /\ i = 11
              /\ mode = "sandbox" /\ i = 12 => Root[i].op = "files"
<1>1. CASE mode = "sandbox"
  <2>1. Root = SandboxRoot
    BY <1>1 DEF Root
  <2> HIDE DEF Root
  <2> QED BY <1>1, <2>1, SandboxFacts DEF Ops
<1>2. CASE mode = "host"
  <2>1. Root = HostRoot
    BY <1>2 DEF Root
  <2> HIDE DEF Root
  <2> QED BY <1>2, <2>1, HostFacts DEF Ops
<1> QED BY <1>1, <1>2

-----------------------------------------------------------------------------
(* The setup is over, or it has not begun, or the step is no part of it. *)
LEMMA SetupKept ==
  ASSUME SetupInv, UNCHANGED <<mode, rootVars>>,
         \/ anchor' = anchor
         \/ anchor' \notin Entering \cup {"root"}
         \/ anchor \in Entering /\ anchor' \in Entering
  PROVE  SetupInv'
<1> USE DEF SetupInv, rootVars
<1>1. RootTypes' /\ Suffix' /\ Unseen'
  BY DEF RootTypes, Ops, Suffix, At, Root, Unseen
<1>2. Progress'
  BY DEF Progress, Remounting, Entering
<1> QED BY <1>1, <1>2

(* A step that leaves the tasks alone and does not let the anchor into or  *)
(* out of one.                                                             *)
LEMMA TaskKept ==
  ASSUME TaskInv, UNCHANGED <<mode, taskVars>>,
         anchor' = anchor \/ (anchor \notin Busy /\ anchor' \notin Busy)
  PROVE  TaskInv'
BY DEF TaskInv, taskVars, CapTypes, TaskOwned, Dropped, Busy

(* IInv holds initially. *)
LEMMA InitIInv == Init => IInv
<1> SUFFICES ASSUME Init PROVE IInv
  OBVIOUS
<1>1. TypeOK
  <2>1. capAt \in 0 .. FallbackCap + 1 /\ task \in Callers \cup {Nobody}
    BY DEF Init
  <2>2. mnt.ro \subseteq mnt.binds /\ mnt.binds \subseteq Mounts
    BY DEF Init
  <2>3. childCaps \in [Callers -> SUBSET Caps]
    BY DEF Init
  <2>4. /\ Len(todo) <= 12 /\ mnt.private \in BOOLEAN
        /\ mnt.root \in {"host", "both", "own"} /\ hostBinds \subseteq Mounts
    BY DEF Init
  <2>5. /\ caps.bounding \subseteq Caps /\ caps.permitted \subseteq Caps
        /\ caps.inheritable \subseteq Caps
    BY DEF Init
  <2> QED BY <2>1, <2>2, <2>3, <2>4, <2>5 DEF Init, TypeOK
<1>2. SetupInv
  <2>1. RootTypes /\ Suffix
    BY RootFacts DEF Init, RootTypes, Suffix
  <2>2. Progress /\ Unseen
    BY DEF Init, Progress, Unseen, Entering
  <2> QED BY <2>1, <2>2 DEF SetupInv
<1>3. Finished
  BY DEF Init, Finished, Serving, Ended, Busy
<1>4. TaskInv
  BY DEF Init, TaskInv, CapTypes, TaskOwned, Dropped, Busy
<1> QED BY <1>1, <1>2, <1>3, <1>4 DEF IInv

(* CreateNetNS makes the staging directory and starts the anchor. *)
LEMMA MkdirTempPreserves ==
  ASSUME IInv, MkdirTemp
  PROVE  IInv'
<1> USE DEF IInv, MkdirTemp, Entering, Busy, Serving, Ended
<1>1. TypeOK'
  BY DEF TypeOK, rootVars, taskVars, ctorVars
<1>2. SetupInv'
  BY SetupKept DEF ctorVars, Finished
<1>3. Finished'
  BY DEF Finished, Sealed, SetupInv, Progress, Remounting, TypeOK, rootVars,
         ctorVars
<1>4. TaskInv'
  BY TaskKept DEF ctorVars, Finished
<1> QED BY <1>1, <1>2, <1>3, <1>4

(* The anchor has reported. *)
LEMMA ReadyPreserves ==
  ASSUME IInv, Ready
  PROVE  IInv'
<1> USE DEF IInv, Ready, Entering, Busy, Serving, Ended
<1>1. TypeOK'
  BY DEF TypeOK, rootVars, taskVars, ctorVars
<1>2. SetupInv'
  BY SetupKept DEF ctorVars, Finished
<1>3. Finished'
  BY DEF Finished, Sealed, SetupInv, Progress, Remounting, TypeOK, rootVars,
         ctorVars
<1>4. TaskInv'
  BY TaskKept DEF ctorVars, Finished
<1> QED BY <1>1, <1>2, <1>3, <1>4

(* The descriptors are opened, or everything is undone. *)
LEMMA OpenFdsPreserves ==
  ASSUME IInv, OpenFds
  PROVE  IInv'
<1>1. UNCHANGED <<mode, anchor, rootVars, taskVars>>
  BY DEF OpenFds
<1>2. /\ fds' \subseteq {"net", "mnt"} /\ stop' \in BOOLEAN
      /\ staging' \in {"none", "present", "removed"}
      /\ closer' \in {"idle", "remove", "done"}
      /\ ctor' \in {"start", "wait", "openNet", "openMnt", "up", "failed"}
  BY DEF OpenFds, IInv, TypeOK
<1>3. TypeOK'
  BY <1>1, <1>2 DEF IInv, TypeOK, rootVars, taskVars
<1>4. SetupInv'
  BY <1>1, SetupKept DEF IInv
<1>5. TaskInv'
  BY <1>1, TaskKept DEF IInv
<1>6. Finished'
  BY <1>1 DEF IInv, OpenFds, Finished, Sealed, rootVars
<1> QED BY <1>3, <1>4, <1>5, <1>6 DEF IInv

(* Close. *)
LEMMA ClosePreserves ==
  ASSUME IInv, Close
  PROVE  IInv'
<1>1. UNCHANGED <<mode, anchor, rootVars, taskVars>>
  BY DEF Close
<1>2. /\ fds' \subseteq {"net", "mnt"} /\ stop' \in BOOLEAN
      /\ staging' \in {"none", "present", "removed"}
      /\ closer' \in {"idle", "remove", "done"}
      /\ ctor' \in {"start", "wait", "openNet", "openMnt", "up", "failed"}
  BY DEF Close, IInv, TypeOK
<1>3. TypeOK'
  BY <1>1, <1>2 DEF IInv, TypeOK, rootVars, taskVars
<1>4. SetupInv'
  BY <1>1, SetupKept DEF IInv
<1>5. TaskInv'
  BY <1>1, TaskKept DEF IInv
<1>6. Finished'
  BY <1>1 DEF IInv, Close, Finished, Sealed, rootVars
<1> QED BY <1>3, <1>4, <1>5, <1>6 DEF IInv

(* An operation of the setup fails. *)
LEMMA RootFailsPreserves ==
  ASSUME IInv, RootFails
  PROVE  IInv'
<1> USE DEF IInv, RootFails, Entering, Busy, Serving, Ended
<1>1. TypeOK'
  BY DEF TypeOK, rootVars, taskVars, ctorVars
<1>2. SetupInv'
  BY SetupKept DEF ctorVars, Finished
<1>3. Finished'
  BY DEF Finished, Sealed, SetupInv, Progress, Remounting, TypeOK, rootVars,
         ctorVars
<1>4. TaskInv'
  BY TaskKept DEF ctorVars, Finished
<1> QED BY <1>1, <1>2, <1>3, <1>4

(* The setup is complete: what Progress says of an empty list is Sealed. *)
LEMMA RootDonePreserves ==
  ASSUME IInv, RootDone
  PROVE  IInv'
<1> USE DEF IInv, RootDone, Entering, Busy, Serving, Ended
<1>1. TypeOK'
  BY DEF TypeOK, rootVars, taskVars, ctorVars
<1>2. SetupInv'
  BY SetupKept DEF ctorVars, Finished
<1>3. Finished'
  BY DEF Finished, Sealed, SetupInv, Progress, Remounting, TypeOK, rootVars,
         ctorVars
<1>4. TaskInv'
  BY TaskKept DEF ctorVars, Finished
<1> QED BY <1>1, <1>2, <1>3, <1>4


(* The anchor enters its namespaces; the last step makes the mount tree    *)
(* private before the setup of the root begins.                            *)
LEMMA EnterPreserves ==
  ASSUME IInv, Enter
  PROVE  IInv'
<1> USE DEF IInv
<1>1. /\ UNCHANGED <<mode, ctor, closer, staging, fds, stop, hostBinds>>
      /\ UNCHANGED taskVars
  BY DEF Enter, ctorVars
<1>2. /\ anchor \in {"newnet", "newns", "private"}
      /\ anchor' \in {"newns", "private", "root", "failed"}
  BY DEF Enter
<1>3. TaskInv' /\ Finished'
  BY <1>1, <1>2, TaskKept DEF Finished, Serving, Ended, Busy
<1>4. CASE anchor' # "root"
  <2>1. UNCHANGED <<todo, mnt>>
    BY <1>4 DEF Enter
  <2>2. SetupInv'
    BY <1>1, <1>2, <1>4, <2>1, SetupKept DEF Entering, rootVars
  <2>3. TypeOK'
    BY <1>1, <1>2, <2>1 DEF TypeOK, taskVars
  <2> QED BY <1>3, <2>2, <2>3
<1>5. CASE anchor' = "root"
  <2>1. anchor = "private" /\ todo' = Root
    BY <1>2, <1>5 DEF Enter
  <2>2. /\ mnt'.private = TRUE /\ mnt'.binds = {} /\ mnt'.ro = {}
        /\ mnt'.root = "host"
        /\ mnt' \in MntType
    <3>1. mnt' = [mnt EXCEPT !.private = TRUE]
      BY <1>2, <1>5 DEF Enter
    <3> QED BY <2>1, <3>1 DEF SetupInv, RootTypes, Progress, Entering
  <2>3. /\ Root' = Root /\ Ops' = Ops /\ Root \in Seq(Ops)
        /\ Len(Root) = IF mode = "sandbox" THEN 12 ELSE 2
    BY <1>1, RootFacts DEF Root, Ops, TypeOK
  <2>4. Suffix'
    <3>1. Len(todo') = Len(Root) /\ Len(Root) \in Nat
      BY <2>1, <2>3
    <3>2. \A i \in 1 .. Len(Root) : At(i)' = Root[i]
      BY <2>3, <3>1 DEF At
    <3> HIDE DEF IInv
    <3>3. \A i \in 2 .. Len(todo') : todo'[i] = At(i)'
      BY <2>1, <3>1, <3>2
    <3>4. todo' # <<>> => todo'[1] = At(1)'
      BY <2>1, <2>3, <3>1, <3>2
    <3> QED BY <2>3, <3>1, <3>3, <3>4 DEF Suffix
  <2>5. Progress'
    <3>1. mode' = "sandbox" => Len(todo') = 12
      BY <1>1, <2>1, <2>3
    <3> QED BY <1>5, <2>2, <3>1 DEF Progress, Entering
  <2>6. TypeOK'
    <3>1. Len(todo') <= 12
      BY <2>1, <2>3
    <3> QED BY <1>1, <1>5, <2>2, <3>1 DEF TypeOK, taskVars
  <2> QED BY <1>1, <1>3, <2>1, <2>2, <2>3, <2>4, <2>5, <2>6
          DEF SetupInv, RootTypes, Unseen
<1> QED BY <1>4, <1>5

(* The first operation has been done: the rest is a tail of the list too. *)
LEMMA TailSuffix ==
  ASSUME mode \in {"sandbox", "host"}, RootTypes, Suffix, todo # <<>>,
         todo' = Tail(todo), mode' = mode
  PROVE  todo' \in Seq(Ops)' /\ Suffix' /\ Len(todo') = Len(todo) - 1
<1>1. Root' = Root /\ Ops' = Ops
  BY DEF Root, Ops
<1>2. /\ todo \in Seq(Ops) /\ Len(todo) \in Nat \ {0}
      /\ Tail(todo) \in Seq(Ops) /\ Len(Tail(todo)) = Len(todo) - 1
      /\ \A i \in 1 .. Len(todo) - 1 : Tail(todo)[i] = todo[i + 1]
  BY DEF RootTypes
<1>3. Len(Root) \in Nat
  BY RootFacts
<1>4. \A i \in 1 .. Len(todo) - 1 : todo'[i] = todo[i + 1] /\ At(i)' = At(i + 1)
  BY <1>1, <1>2, <1>3 DEF At
<1>5. \A i \in 1 .. Len(todo') : todo'[i] = At(i)'
  BY <1>2, <1>4 DEF Suffix
<1>6. Len(todo') <= Len(Root)'
  BY <1>1, <1>2, <1>3 DEF Suffix
<1>7. todo' # <<>> => 1 \in 1 .. Len(todo')
  BY <1>2
<1> QED BY <1>1, <1>2, <1>5, <1>6, <1>7 DEF Suffix

(* The operation whose turn it is. *)
LEMMA NextOp ==
  ASSUME mode \in {"sandbox", "host"}, RootTypes, Suffix, todo # <<>>
  PROVE  /\ At(1).op \in {"bind", "files", "pivot", "detach"}
         /\ At(1).op = "bind" => /\ At(1).m \in Mounts
                                 /\ At(1).m \in ReadOnly => At(1).ro
         /\ At(1).op = "pivot" <=> mode = "sandbox" /\ Len(todo) = 3
         /\ At(1).op = "detach" <=> mode = "sandbox" /\ Len(todo) = 2
         /\ mode = "sandbox" /\ Len(todo) = 1 => At(1).op = "files"
<1> DEFINE n == Len(todo)
           k == Len(Root) - n + 1
<1>1. n \in Nat \ {0} /\ n <= Len(Root) /\ Len(Root) \in Nat
  BY RootFacts DEF RootTypes, Suffix
<1>2. mode = "sandbox" => Len(Root) = 12
  BY RootFacts
<1>3. At(1) = Root[k]
  BY DEF At
<1> HIDE DEF n
<1>4. k \in 1 .. Len(Root)
  BY <1>1
<1>5. ASSUME mode = "sandbox"
      PROVE  (k = 10 <=> n = 3) /\ (k = 11 <=> n = 2) /\ (k = 12 <=> n = 1)
  <2>1. k = 12 - n + 1
    BY <1>2, <1>5
  <2>2. n \in Nat
    BY <1>1
  <2> QED BY <2>1, <2>2
<1> HIDE DEF k
<1>6. /\ At(1).op \in {"bind", "files", "pivot", "detach"}
      /\ At(1).op = "bind" => /\ At(1).m \in Mounts
                              /\ At(1).m \in ReadOnly => At(1).ro
      /\ At(1).op = "pivot" <=> mode = "sandbox" /\ k = 10
      /\ At(1).op = "detach" <=> mode = "sandbox" /\ k = 11
      /\ mode = "sandbox" /\ k = 12 => At(1).op = "files"
  BY <1>3, <1>4, RootFacts
<1> QED BY <1>5, <1>6 DEF n

(* What a step of the setup has to keep of the mounts. *)
LEMMA SetupStep ==
  ASSUME IInv, UNCHANGED <<ctorVars, anchor, taskVars>>, anchor = "root",
         Suffix', todo' \in Seq(Ops)', Len(todo') <= Len(todo),
         Progress', hostBinds' = {},
         mnt' \in MntType, mnt'.ro \subseteq mnt'.binds
  PROVE  IInv'
<1>1. Len(todo') <= 12
  BY DEF IInv, TypeOK, SetupInv, RootTypes, Ops
<1>2. TypeOK'
  BY <1>1 DEF IInv, TypeOK, ctorVars, taskVars
<1>3. SetupInv'
  BY DEF SetupInv, RootTypes, Unseen
<1>4. Finished'
  BY DEF IInv, Finished, ctorVars, Serving, Ended, Busy
<1>5. TaskInv'
  BY TaskKept DEF IInv, ctorVars
<1> QED BY <1>2, <1>3, <1>4, <1>5 DEF IInv

(* A bind mount: nothing of it reaches the host, and a read-only one is    *)
(* followed by its remount.                                                *)
LEMMA BindStepPreserves ==
  ASSUME IInv, BindStep
  PROVE  IInv'
<1> DEFINE h == Head(todo)
<1>1. /\ UNCHANGED <<ctorVars, anchor, taskVars>> /\ mode' = mode
      /\ anchor = "root" /\ todo # <<>> /\ h.op = "bind"
      /\ mode \in {"sandbox", "host"}
  BY DEF BindStep, ctorVars, IInv, TypeOK
<1>2. /\ todo \in Seq(Ops) /\ Len(todo) \in Nat \ {0} /\ h = todo[1]
      /\ mnt \in MntType /\ mnt.private = TRUE /\ mnt.ro \subseteq mnt.binds
      /\ RootTypes /\ Suffix /\ Progress /\ hostBinds = {}
  BY <1>1 DEF IInv, TypeOK, SetupInv, RootTypes, Progress, Unseen
<1>3. h = At(1) /\ ~Remounting
  BY <1>1, <1>2 DEF Suffix, RemountOp, Remounting
<1>4. /\ h.m \in Mounts /\ (h.m \in ReadOnly => h.ro)
      /\ mode = "sandbox" => Len(todo) > 3
  <2>1. h.m \in Mounts /\ (h.m \in ReadOnly => h.ro)
    BY <1>1, <1>2, <1>3, NextOp
  <2>2. mode = "sandbox" => Len(todo) \notin {1, 2, 3}
    BY <1>1, <1>2, <1>3, NextOp
  <2>3. \A n \in Nat \ {0} : n \notin {1, 2, 3} => n > 3
    OBVIOUS
  <2> QED BY <1>2, <2>1, <2>2, <2>3
<1>5. CASE todo' = Tail(todo) /\ UNCHANGED <<mnt, hostBinds>>
  <2>1. todo' \in Seq(Ops)' /\ Suffix' /\ Len(todo') = Len(todo) - 1
    BY <1>1, <1>2, <1>5, TailSuffix
  <2>2. Progress'
    BY <1>1, <1>2, <1>3, <1>4, <1>5, <2>1 DEF Progress, Entering
  <2> QED BY <1>1, <1>2, <1>5, <2>1, <2>2, SetupStep
<1>6. CASE /\ mnt' = [mnt EXCEPT !.binds = @ \cup {h.m}]
           /\ hostBinds' = IF mnt.private THEN hostBinds
                           ELSE hostBinds \cup {h.m}
           /\ todo' = IF h.ro THEN <<RemountOp(h.m)>> \o Tail(todo)
                      ELSE Tail(todo)
  <2>1. /\ mnt' \in MntType /\ mnt'.binds = mnt.binds \cup {h.m}
        /\ mnt'.ro = mnt.ro /\ mnt'.private = TRUE /\ mnt'.root = mnt.root
    BY <1>2, <1>4, <1>6
  <2>2. hostBinds' = {}
    BY <1>2, <1>6
  <2> HIDE DEF h
  <2>3. CASE ~h.ro
    <3>1. todo' = Tail(todo)
      BY <1>6, <2>3
    <3>2. todo' \in Seq(Ops)' /\ Suffix' /\ Len(todo') = Len(todo) - 1
      BY <1>1, <1>2, <3>1, TailSuffix
    <3>3. mnt.binds \cap ReadOnly \subseteq mnt.ro
      BY <1>1, <1>2, <1>3 DEF Progress
    <3>4. mnt'.binds \cap ReadOnly \subseteq mnt'.ro
      BY <1>4, <2>1, <2>3, <3>3
    <3>5. Progress'
      BY <1>1, <1>2, <1>4, <2>1, <3>2, <3>4 DEF Progress, Entering
    <3> QED BY <1>1, <1>2, <2>1, <2>2, <3>2, <3>5, SetupStep
  <2>4. CASE h.ro
    <3>1. todo' = <<RemountOp(h.m)>> \o Tail(todo)
      BY <1>6, <2>4
    <3>2. Root' = Root /\ Ops' = Ops
      BY <1>1 DEF Root, Ops
    <3>3. RemountOp(h.m) \in Ops
      BY <1>4 DEF Ops
    <3>4. /\ todo' \in Seq(Ops) /\ Len(todo') = Len(todo)
          /\ todo'[1] = RemountOp(h.m)
          /\ \A i \in 2 .. Len(todo) : todo'[i] = todo[i]
      BY <1>2, <3>1, <3>3
    <3>5. \A i \in 1 .. Len(todo) : At(i)' = At(i)
      BY <3>2, <3>4 DEF At
    <3>6. Suffix'
      BY <1>1, <1>2, <1>3, <2>1, <3>2, <3>4, <3>5 DEF Suffix
    <3>7. Remounting' /\ Head(todo').m = h.m
      BY <1>2, <3>4 DEF Remounting, RemountOp
    <3>8. Progress'
      BY <1>1, <1>2, <1>3, <1>4, <2>1, <3>4, <3>7 DEF Progress, Entering
    <3> QED BY <1>1, <1>2, <2>1, <2>2, <3>2, <3>4, <3>6, <3>8, SetupStep
  <2> QED BY <2>3, <2>4
<1> QED BY <1>5, <1>6 DEF BindStep

(* The other operations: a remount is that of the bind just made, and the  *)
(* pivot and the detach come at the end.                                   *)
LEMMA RootStepPreserves ==
  ASSUME IInv, RootStep
  PROVE  IInv'
<1> DEFINE o == Head(todo)
<1>1. /\ UNCHANGED <<ctorVars, anchor, taskVars>> /\ mode' = mode
      /\ anchor = "root" /\ todo # <<>> /\ o.op # "bind"
      /\ mode \in {"sandbox", "host"} /\ todo' = Tail(todo)
  BY DEF RootStep, ctorVars, IInv, TypeOK
<1>2. /\ todo \in Seq(Ops) /\ Len(todo) \in Nat \ {0} /\ o = todo[1]
      /\ mnt \in MntType /\ mnt.private = TRUE /\ mnt.ro \subseteq mnt.binds
      /\ RootTypes /\ Suffix /\ Progress /\ hostBinds' = {}
  BY <1>1 DEF IInv, TypeOK, SetupInv, RootTypes, Progress, Unseen,
              RootStep
<1>3. todo' \in Seq(Ops)' /\ Suffix' /\ Len(todo') = Len(todo) - 1
  BY <1>1, <1>2, TailSuffix
<1>4. /\ o.op \in {"remount", "pivot", "detach", "files"}
      /\ o.op = "remount" =>
           /\ o.m \in mnt.binds
           /\ mode = "sandbox" => Len(todo) \notin {1, 2, 3}
      /\ o.op = "pivot" <=> mode = "sandbox" /\ Len(todo) = 3
      /\ o.op = "detach" <=> mode = "sandbox" /\ Len(todo) = 2
  <2>1. CASE o = At(1)
    BY <1>1, <1>2, <2>1, NextOp
  <2>2. CASE /\ At(1).op = "bind" /\ At(1).m \in mnt.binds
             /\ o = RemountOp(At(1).m)
    <3>1. o.op = "remount" /\ o.m = At(1).m
      BY <2>2 DEF RemountOp
    <3> QED BY <1>1, <1>2, <2>2, <3>1, NextOp
  <2> QED BY <1>1, <1>2, <2>1, <2>2 DEF Suffix
<1>5. mnt.binds \cap ReadOnly \subseteq
        mnt.ro \cup {m \in Mounts : o.op = "remount" /\ m = o.m}
  BY <1>1, <1>2 DEF Progress, Remounting
<1>6. /\ mnt' \in MntType /\ mnt'.private = TRUE /\ mnt'.binds = mnt.binds
      /\ mnt'.ro = IF o.op = "remount" THEN mnt.ro \cup {o.m} ELSE mnt.ro
      /\ mnt'.root = IF o.op = "pivot" THEN "both"
                     ELSE IF o.op = "detach" THEN "own" ELSE mnt.root
  <2>1. CASE o.op = "remount"
    <3>1. mnt' = [mnt EXCEPT !.ro = @ \cup {o.m}]
      BY <2>1, Zenon DEF RootStep
    <3> QED BY <1>2, <1>4, <2>1, <3>1
  <2>2. CASE o.op = "pivot"
    <3>1. mnt' = [mnt EXCEPT !.root = "both"]
      BY <2>2, Zenon DEF RootStep
    <3> QED BY <1>2, <2>2, <3>1
  <2>3. CASE o.op = "detach"
    <3>1. mnt' = [mnt EXCEPT !.root = "own"]
      BY <2>3, Zenon DEF RootStep
    <3> QED BY <1>2, <2>3, <3>1
  <2>4. CASE o.op = "files"
    <3>1. mnt' = mnt
      BY <2>4, Zenon DEF RootStep
    <3> QED BY <1>2, <2>4, <3>1
  <2> QED BY <1>4, <2>1, <2>2, <2>3, <2>4
<1>7. /\ mnt'.ro \subseteq mnt'.binds
      /\ mnt'.binds \cap ReadOnly \subseteq mnt'.ro
  BY <1>2, <1>4, <1>5, <1>6
<1>8. /\ mode = "host" => mnt'.root = "host"
      /\ mode = "sandbox" => /\ Len(todo') \in {0, 1} => mnt'.root = "own"
                             /\ Len(todo') = 2 => mnt'.root = "both"
                             /\ Len(todo') > 2 => mnt'.root = "host"
  BY <1>1, <1>2, <1>3, <1>4, <1>6 DEF Progress
<1> HIDE DEF o
<1>9. Progress'
  BY <1>1, <1>6, <1>7, <1>8 DEF Progress, Entering
<1> QED BY <1>1, <1>2, <1>3, <1>6, <1>7, <1>9, SetupStep

-----------------------------------------------------------------------------
CallerType == [Callers -> {"idle", "select", "wait", "ok", "err"}]
ChildType == [Callers -> {"none", "running", "dead"}]

(* A step of the serving anchor or of a caller leaves the root finished. *)
LEMMA ServeStep ==
  ASSUME IInv, UNCHANGED <<ctorVars, rootVars>>,
         \/ anchor' = anchor
         \/ anchor \in Serving /\ anchor' \in Serving \cup Ended,
         task' \in Callers \cup {Nobody},
         caller' \in CallerType, child' \in ChildType,
         capAt' \in 0 .. FallbackCap + 1,
         childCaps' \in [Callers -> SUBSET Caps], TaskInv'
  PROVE  IInv'
<1>1. UNCHANGED <<mode, ctor, closer, staging, fds, stop>>
  BY DEF ctorVars
<1>2. SetupInv'
  BY <1>1, SetupKept DEF IInv, Entering, Serving, Ended, Busy
<1>3. Finished'
  BY <1>1 DEF IInv, Finished, Sealed, Serving, Ended, Busy, rootVars
<1>4. /\ caps'.bounding \subseteq Caps /\ caps'.permitted \subseteq Caps
      /\ caps'.inheritable \subseteq Caps
  BY DEF TaskInv, CapTypes
<1>5. UNCHANGED <<todo, mnt, hostBinds>>
  BY DEF rootVars
<1>6. TypeOK'
  BY <1>1, <1>4, <1>5
     DEF IInv, TypeOK, Serving, Ended, Busy, CallerType, ChildType
<1> QED BY <1>2, <1>3, <1>6 DEF IInv

(* The task's caller gets its result, and the anchor is free again. *)
LEMMA TaskReturnsFrees ==
  ASSUME TypeOK, TaskOwned, anchor \in Busy,
         NEW r \in {"ok", "err"}, NEW started \in BOOLEAN,
         TaskReturns(r, started)
  PROVE  /\ TaskOwned' /\ anchor' = "serve"
         /\ task' \in Callers \cup {Nobody}
         /\ caller' \in CallerType /\ child' \in ChildType
<1>1. /\ caller' = [caller EXCEPT ![task] = r]
      /\ task' = Nobody /\ anchor' = "serve" /\ task \in Callers
  BY DEF TaskReturns, TypeOK, TaskOwned
<1>2. child' \in ChildType
  BY <1>1 DEF TaskReturns, TypeOK, ChildType
<1>3. caller' \in CallerType
  BY <1>1 DEF TypeOK, CallerType
<1>4. TaskOwned'
  BY <1>1 DEF TypeOK, TaskOwned, Busy
<1> QED BY <1>1, <1>2, <1>3, <1>4

(* stopCh is closed and the thread exits, which it does only between two   *)
(* tasks.                                                                  *)
LEMMA AnchorStopsPreserves ==
  ASSUME IInv, AnchorStops
  PROVE  IInv'
<1>1. /\ anchor = "serve" /\ anchor' \in Ended
      /\ UNCHANGED <<ctorVars, rootVars, task, caller, caps, capAt, childCaps>>
      /\ child' \in ChildType
  BY DEF AnchorStops, ThreadExits, IInv, TypeOK, ChildType, Ended
<1>2. TaskInv'
  BY <1>1 DEF IInv, TaskInv, CapTypes, TaskOwned, Dropped, Busy, Ended,
              ctorVars
<1> QED BY <1>1, <1>2, ServeStep DEF IInv, TypeOK, Serving, Ended, CallerType

(* A caller enters RunOnAnchor, or is refused. *)
LEMMA CallerPreserves ==
  ASSUME IInv, NEW c \in Callers, RunOnAnchor(c) \/ Refused(c)
  PROVE  IInv'
<1>1. /\ caller[c] \in {"idle", "select"}
      /\ \E r \in {"select", "err"} : caller' = [caller EXCEPT ![c] = r]
      /\ UNCHANGED <<ctorVars, anchor, rootVars, task, child, caps, capAt,
                     childCaps>>
  BY DEF RunOnAnchor, Refused
<1>2. caller' \in CallerType
  BY <1>1 DEF IInv, TypeOK, CallerType
<1>3. TaskInv'
  BY <1>1 DEF IInv, TypeOK, TaskInv, CapTypes, TaskOwned, Dropped, ctorVars
<1> QED BY <1>1, <1>2, <1>3, ServeStep DEF IInv, TypeOK, ChildType

(* A task is handed over: the loop over the capabilities starts afresh. *)
LEMMA HandOverPreserves ==
  ASSUME IInv, NEW c \in Callers, HandOver(c)
  PROVE  IInv'
<1>1. /\ caller[c] = "select" /\ caller' = [caller EXCEPT ![c] = "wait"]
      /\ anchor = "serve" /\ task' = c /\ capAt' = 0
      /\ anchor' = IF mode = "sandbox" THEN "drop" ELSE "exec"
      /\ UNCHANGED <<ctorVars, rootVars, child, caps, childCaps>>
  BY DEF HandOver
<1>2. caller' \in CallerType
  BY <1>1 DEF IInv, TypeOK, CallerType
<1>3. TaskOwned'
  BY <1>1 DEF IInv, TypeOK, TaskInv, TaskOwned, Busy
<1>4. CapTypes' /\ Dropped'
  BY <1>1 DEF IInv, TaskInv, CapTypes, Dropped, ctorVars, Caps
<1> QED BY <1>1, <1>2, <1>3, <1>4, ServeStep
        DEF IInv, TypeOK, TaskInv, ChildType, Serving, Ended, Busy

(* A process ends. *)
LEMMA ChildExitsPreserves ==
  ASSUME IInv, NEW c \in Callers, ChildExits(c)
  PROVE  IInv'
<1>1. /\ UNCHANGED <<ctorVars, anchor, rootVars, task, caller, caps, capAt,
                     childCaps>>
      /\ child' \in ChildType
  BY DEF ChildExits, IInv, TypeOK, ChildType
<1>2. TaskInv'
  BY <1>1 DEF IInv, TaskInv, CapTypes, TaskOwned, Dropped, ctorVars
<1> QED BY <1>1, <1>2, ServeStep DEF IInv, TypeOK, CallerType

(* One turn of the loop.  It ends past the kernel's last capability,       *)
(* whichever of the two bounds its last turn has read.                     *)
LEMMA DropBoundingPreserves ==
  ASSUME IInv, DropBounding
  PROVE  IInv'
<1>1. anchor = "drop" /\ UNCHANGED <<ctorVars, rootVars, childCaps>>
  BY DEF DropBounding
<1>2. /\ caps \in CapType
      /\ capAt \in 0 .. FallbackCap + 1 /\ TaskOwned /\ Dropped
  BY DEF IInv, TypeOK, TaskInv, CapTypes
<1>3. PICK last \in {LastCap, FallbackCap} :
       \/ /\ CapLoopEnds(last)
          /\ anchor' = "ambient"
          /\ UNCHANGED <<task, caller, child, caps, capAt>>
       \/ /\ ~CapLoopEnds(last)
          /\ capAt \in Mask \/ capAt > LastCap
          /\ capAt' = capAt + 1
          /\ UNCHANGED <<anchor, task, caller, child, caps>>
       \/ /\ ~CapLoopEnds(last) /\ capAt \in Caps \ Mask
          /\ SetPCap \in caps.permitted
          /\ caps' = [caps EXCEPT !.bounding = @ \ {capAt}]
          /\ capAt' = capAt + 1
          /\ UNCHANGED <<anchor, task, caller, child>>
       \/ /\ ~CapLoopEnds(last) /\ capAt \in Caps \ Mask
          /\ TaskReturns("err", FALSE)
          /\ UNCHANGED <<caps, capAt>>
  BY DEF DropBounding
<1>4. CASE CapLoopEnds(last) /\ anchor' = "ambient"
           /\ UNCHANGED <<task, caller, child, caps, capAt>>
  <2>1. capAt > LastCap
    BY <1>2, <1>4 DEF CapLoopEnds
  <2>2. mode = "sandbox" => caps.bounding \subseteq Mask
    BY <1>1, <1>2, <2>1 DEF Dropped, Caps
  <2>3. TaskInv'
    BY <1>1, <1>2, <1>4, <2>2
       DEF TaskInv, CapTypes, TaskOwned, Dropped, Busy, ctorVars
  <2> QED BY <1>1, <1>4, <2>3, ServeStep
          DEF IInv, TypeOK, Serving, Ended, Busy, CallerType, ChildType
<1>5. CASE ~CapLoopEnds(last) /\ (capAt \in Mask \/ capAt > LastCap)
           /\ capAt' = capAt + 1
           /\ UNCHANGED <<anchor, task, caller, child, caps>>
  <2>1. capAt' \in 0 .. FallbackCap + 1
    BY <1>2, <1>5 DEF CapLoopEnds
  <2>2. mode = "sandbox" =>
          \A x \in caps.bounding : x < capAt + 1 => x \in Mask
    BY <1>1, <1>2, <1>5 DEF Dropped, Caps
  <2>3. TaskInv'
    BY <1>1, <1>2, <1>5, <2>2
       DEF TaskInv, CapTypes, TaskOwned, Dropped, Busy, ctorVars
  <2> QED BY <1>1, <1>5, <2>1, <2>3, ServeStep
          DEF IInv, TypeOK, CallerType, ChildType
<1>6. CASE ~CapLoopEnds(last) /\ capAt' = capAt + 1
           /\ caps' = [caps EXCEPT !.bounding = @ \ {capAt}]
           /\ UNCHANGED <<anchor, task, caller, child>>
  <2>1. capAt' \in 0 .. FallbackCap + 1
    BY <1>2, <1>6 DEF CapLoopEnds
  <2>2. /\ caps' \in CapType
        /\ caps'.bounding = caps.bounding \ {capAt}
        /\ caps'.inheritable = caps.inheritable
    BY <1>2, <1>6
  <2>3. mode = "sandbox" =>
          \A x \in caps'.bounding : x < capAt + 1 => x \in Mask
    BY <1>1, <1>2, <2>2 DEF Dropped, Caps
  <2>4. Dropped'
    BY <1>1, <1>2, <1>6, <2>2, <2>3 DEF Dropped, ctorVars
  <2>5. CapTypes' /\ TaskOwned'
    BY <1>2, <1>6, <2>2 DEF CapTypes, TaskOwned
  <2> QED BY <1>1, <1>6, <2>1, <2>4, <2>5, ServeStep
          DEF IInv, TypeOK, TaskInv, CallerType, ChildType
<1>7. CASE TaskReturns("err", FALSE) /\ UNCHANGED <<caps, capAt>>
  <2>1. /\ TaskOwned' /\ anchor' = "serve"
        /\ task' \in Callers \cup {Nobody}
        /\ caller' \in CallerType /\ child' \in ChildType
    BY <1>1, <1>2, <1>7, TaskReturnsFrees DEF IInv, Busy
  <2>2. CapTypes' /\ Dropped'
    BY <1>1, <1>2, <1>7, <2>1 DEF CapTypes, Dropped, ctorVars
  <2> QED BY <1>1, <1>7, <2>1, <2>2, ServeStep
          DEF IInv, TypeOK, TaskInv, Serving, Ended, Busy
<1> QED BY <1>3, <1>4, <1>5, <1>6, <1>7

(* The ambient set, and capset. *)
LEMMA SetCapsPreserves ==
  ASSUME IInv, SetCaps
  PROVE  IInv'
<1>1. /\ anchor \in {"ambient", "capset"}
      /\ UNCHANGED <<ctorVars, rootVars, capAt, childCaps>>
  BY DEF SetCaps
<1>2. /\ caps \in CapType
      /\ TaskOwned /\ Dropped
  BY DEF IInv, TaskInv, CapTypes
<1>3. CASE TaskReturns("err", FALSE) /\ UNCHANGED caps
  <2>1. /\ TaskOwned' /\ anchor' = "serve"
        /\ task' \in Callers \cup {Nobody}
        /\ caller' \in CallerType /\ child' \in ChildType
    BY <1>1, <1>2, <1>3, TaskReturnsFrees DEF IInv, Busy
  <2>2. CapTypes' /\ Dropped'
    BY <1>1, <1>2, <1>3, <2>1 DEF CapTypes, Dropped, ctorVars
  <2> QED BY <1>1, <2>1, <2>2, ServeStep
          DEF IInv, TypeOK, TaskInv, Serving, Ended, Busy
<1>4. CASE anchor' = "capset" /\ UNCHANGED <<task, caller, child, caps>>
  <2>1. TaskInv'
    BY <1>1, <1>2, <1>4
       DEF TaskInv, CapTypes, TaskOwned, Dropped, Busy, ctorVars
  <2> QED BY <1>1, <1>4, <2>1, ServeStep
          DEF IInv, TypeOK, Serving, Ended, Busy, CallerType, ChildType
<1>5. CASE /\ caps' = [caps EXCEPT !.permitted = Mask, !.inheritable = Mask]
           /\ anchor' = "exec" /\ UNCHANGED <<task, caller, child>>
  <2>1. /\ caps' \in CapType
        /\ caps'.bounding = caps.bounding /\ caps'.inheritable = Mask
    BY <1>2, <1>5
  <2>2. CapTypes' /\ Dropped'
    BY <1>1, <1>2, <1>5, <2>1 DEF CapTypes, Dropped, ctorVars
  <2>3. TaskOwned'
    BY <1>1, <1>2, <1>5 DEF TaskOwned, Busy
  <2> QED BY <1>1, <1>5, <2>2, <2>3, ServeStep
          DEF IInv, TypeOK, TaskInv, Serving, Ended, Busy, CallerType, ChildType
<1> QED BY <1>3, <1>4, <1>5 DEF SetCaps

(* A process starts with what the thread has left of its capabilities. *)
LEMMA StartPreserves ==
  ASSUME IInv, Start
  PROVE  IInv'
<1>1. /\ anchor = "exec" /\ UNCHANGED <<ctorVars, rootVars, caps, capAt>>
      /\ \E r \in {"ok", "err"}, started \in BOOLEAN : TaskReturns(r, started)
  BY DEF Start
<1>2. /\ caps \in CapType
      /\ childCaps \in [Callers -> SUBSET Caps]
      /\ TaskOwned /\ Dropped
  BY DEF IInv, TypeOK, TaskInv, CapTypes
<1>3. /\ TaskOwned' /\ anchor' = "serve"
      /\ task' \in Callers \cup {Nobody}
      /\ caller' \in CallerType /\ child' \in ChildType
  BY <1>1, <1>2, TaskReturnsFrees DEF IInv, Busy
<1>4. \/ UNCHANGED childCaps
      \/ childCaps' = [childCaps EXCEPT
                         ![task] = caps.inheritable \cup caps.bounding]
  BY DEF Start
<1>5. childCaps' \in [Callers -> SUBSET Caps]
  BY <1>2, <1>4
<1>6. mode = "sandbox" => \A c \in Callers : childCaps'[c] \subseteq Mask
  BY <1>1, <1>2, <1>4 DEF Dropped
<1>7. CapTypes' /\ Dropped'
  BY <1>1, <1>2, <1>3, <1>6 DEF CapTypes, Dropped, ctorVars
<1> QED BY <1>1, <1>3, <1>5, <1>7, ServeStep
        DEF IInv, TypeOK, TaskInv, Serving, Ended, Busy

-----------------------------------------------------------------------------
(* Every step preserves IInv. *)
LEMMA NextPreserves == IInv /\ [Next]_vars => IInv'
<1> SUFFICES ASSUME IInv, [Next]_vars PROVE IInv'
  OBVIOUS
<1>1. CASE Construct \/ Close
  BY <1>1, MkdirTempPreserves, ReadyPreserves, OpenFdsPreserves,
     ClosePreserves DEF Construct
<1>2. CASE SetUpRoot
  BY <1>2, EnterPreserves, RootFailsPreserves, BindStepPreserves,
     RootStepPreserves, RootDonePreserves DEF SetUpRoot
<1>3. CASE Serve
  BY <1>3, AnchorStopsPreserves, DropBoundingPreserves, SetCapsPreserves,
     StartPreserves DEF Serve
<1>4. ASSUME NEW c \in Callers,
             RunOnAnchor(c) \/ Refused(c) \/ HandOver(c) \/ ChildExits(c)
      PROVE  IInv'
  BY <1>4, CallerPreserves, HandOverPreserves, ChildExitsPreserves
<1>5. CASE UNCHANGED vars
  <2>1. UNCHANGED <<mode, anchor, rootVars, taskVars, ctor, fds>>
    BY <1>5 DEF vars, ctorVars
  <2>2. SetupInv' /\ TaskInv'
    BY <2>1, SetupKept, TaskKept DEF IInv
  <2>3. Finished'
    BY <2>1 DEF IInv, Finished, Sealed, rootVars
  <2>4. TypeOK'
    BY <1>5 DEF IInv, TypeOK, vars, ctorVars, rootVars, taskVars
  <2> QED BY <2>2, <2>3, <2>4 DEF IInv
<1> QED BY <1>1, <1>2, <1>3, <1>4, <1>5 DEF Next

(* IInv is an invariant of a namespace. *)
THEOREM Invariance == Spec => []IInv
BY InitIInv, NextPreserves, PTL DEF Spec

(* Types: in particular the list of operations never outgrows the root's,  *)
(* and the loop over the capabilities stays within its bound.              *)
THEOREM TypeCorrect == Spec => []TypeOK
<1>1. IInv => TypeOK
  BY DEF IInv
<1> QED BY Invariance, <1>1, PTL

(* Nothing runs on the anchor and no descriptor exists before the root is  *)
(* private, pivoted away from the host's and read-only where it is said to *)
(* be, whichever of its operations fail or are skipped.                    *)
THEOREM SealedTheorem == Spec => []SealedBeforeUse
<1>1. IInv => SealedBeforeUse
  BY DEF IInv, Finished, Sealed, SealedBeforeUse, Serving, Ended, Busy
<1> QED BY Invariance, <1>1, PTL

(* warp-svc has no capability outside its mask, for any set of             *)
(* capabilities, any mask and any order of calls and failures, also when   *)
(* kernelLastCap answers differently from one turn to the next.            *)
THEOREM SvcConfinedTheorem == Spec => []SvcConfined
<1>1. IInv => SvcConfined
  BY DEF IInv, TaskInv, Dropped, SvcConfined
<1> QED BY Invariance, <1>1, PTL

(* A caller waits in RunOnAnchor exactly while the anchor runs its task:   *)
(* the anchor never stops with a caller waiting for it.                    *)
WaitsForTask ==
  /\ \A c \in Callers : caller[c] = "wait" <=> task = c
  /\ anchor \in {"serve", "gone"} => \A c \in Callers : caller[c] # "wait"

(* RunOnAnchor hands its task over exactly once, for any number of callers *)
(* that overlap with each other and with Close.                            *)
THEOREM WaitsForTaskTheorem == Spec => []WaitsForTask
<1>1. IInv => WaitsForTask
  BY DEF IInv, TaskInv, TaskOwned, WaitsForTask, Busy
<1> QED BY Invariance, <1>1, PTL

(* os.RemoveAll never finds a bind mount of a host directory: the host     *)
(* sees none at any time.                                                  *)
THEOREM RemoveAllTheorem == Spec => RemoveAllSparesHost
<1>1. IInv /\ IInv' => [staging' = "removed" => hostBinds' = {}]_vars
  BY DEF IInv, SetupInv, Unseen
<1> QED BY Invariance, <1>1, PTL DEF RemoveAllSparesHost

(* Only Close makes the thread exit that a process needs to live. *)
THEOREM ChildSurvivesTheorem == Spec => ChildSurvivesCall
<1>1. IInv /\ [Next]_vars =>
        [\A c \in Callers :
           anchor # "gone" /\ anchor' = "gone" /\ child'[c] = "dead"
             => stop \/ child[c] = "dead"]_vars
  <2> SUFFICES ASSUME IInv, Next, NEW c \in Callers,
                      anchor # "gone", anchor' = "gone", child'[c] = "dead"
               PROVE  stop \/ child[c] = "dead"
    OBVIOUS
  <2>1. CASE Construct
    BY <2>1 DEF Construct, MkdirTemp, Ready, OpenFds, taskVars
  <2>2. CASE Close \/ SetUpRoot
    BY <2>2 DEF Close, SetUpRoot, Enter, RootFails, BindStep, RootStep,
                RootDone, taskVars
  <2>3. CASE Serve
    <3>1. CASE AnchorStops
      BY <3>1 DEF AnchorStops
    <3>2. CASE DropBounding \/ SetCaps \/ Start
      BY <3>2 DEF DropBounding, SetCaps, Start, TaskReturns
    <3> QED BY <2>3, <3>1, <3>2 DEF Serve
  <2>4. ASSUME NEW d \in Callers,
               RunOnAnchor(d) \/ Refused(d) \/ HandOver(d) \/ ChildExits(d)
        PROVE  FALSE
    BY <2>4 DEF RunOnAnchor, Refused, HandOver, ChildExits
  <2> QED BY <2>1, <2>2, <2>3, <2>4 DEF Next
<1> QED BY Invariance, <1>1, PTL DEF Spec, ChildSurvivesCall
=============================================================================
