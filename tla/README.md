# A TLA+ development for mwarp

mwarp runs Cloudflare WARP in a network namespace of its own, forces the WARP
daemon's traffic through an inner SOCKS5 server (normally reached over userspace
WireGuard), and gives a command, or the clients of a SOCKS5 proxy, a second
namespace whose only way out is through WARP. This directory holds TLA+ models
of it, the TLC runs that check them and TLAPS proofs about all of them.

## The system

| Component | State | Operations | Hard because |
|---|---|---|---|
| `TCPBind` (`tcpbind.go`) | `open`, `conn`, `connGen` under `b.mu`; `writeMu` | `Open`, `Close`, `Send`, `receive`, `dial` | `dial` releases `b.mu` around the network; senders, the receive routine and the device all reconnect; frames can be torn |
| `Socks5Bind` (`socks5bind.go`) | session, `open` | the same Bind contract over UDP ASSOCIATE | `Close` against a blocked `receive` |
| setup and shutdown (`main.go`, `run.go`) | `State`: what has been created so far | `setupAll`, `State.Close`, `RunInNS`, `signalContext` | any of some twenty steps can fail; signals arrive at any time |
| WARP control (`warp.go`, `warpready.go`) | the external daemon's | start, register, set protocol, connect, wait for the route | retries of commands that may have worked; a daemon that crashes |
| egress namespace (`egress.go`) | links, routes, nftables rules | `CreateEgressNS` | the order in which a path and its guard come up |
| namespaces (`netns.go`) | anchor thread, two descriptors, a staging directory | `CreateNetNS`, `Run`, `RunOnAnchor`, `Close` | threads that enter namespaces; descriptors closed while in use |
| proxy (`proxy.go`) | listener, one handler and one dialling goroutine per client | `RunProxy`, `handleProxyConn`, `dialInNS` | a dial cannot be cancelled: late results, hanging threads, shutdown underneath |
| gVisor stack (`nsstack.go`) | flows | `handleTCP`, `handleUDP`, `pipe`, `udpPipe` | half-closes, idle timeouts |
| SOCKS5 client (`socks5.go`) | control and UDP connection | greet, request, reply, UDP encapsulation | parsing; lifetime of the association |
| WireGuard, TUN (`wg.go`, `tundev.go`) | device handles | start, configure, close | error paths |
| capabilities (`caps.go`) | the anchor thread's | `restrictCurrentThreadCaps` | several calls, each of which may fail; root regains what the bounding set leaves |
| commands (`warpcmd.go`) | none | split, replace, join, split again | quoting; two executables of one name |
| configuration, logging | none | pure validation, output | little |

`setupAll` calls the constructors in a fixed order and records each result in
`State`; `State.Close` undoes them. wireguard-go (external) drives the binds.
The flows of the gVisor stack and `Socks5Bind` call the SOCKS5 client, over the
WireGuard network and over the host's.
`RunInNS` and the proxy's dialling goroutines enter the egress namespace through
`NetNS.RunOnAnchor` and `NetNS.Run`. Signals reach two channels, one in
`signalContext` and one in `RunInNS`.

What makes each part correct, in short: the bind never sends what the peer
cannot parse and never loses a connection; setup releases what it created and
never opens an unguarded path; a namespace is sealed before anything runs in it
and can be taken down; a forwarded stream arrives whole and a flow ends; the
proxy opens its sockets inside the namespace, answers its clients and closes
what it dialled. The hazards, each at its line,
are listed in `PROJECT.json`.

## Modules

| Module | Models | Kind |
|---|---|---|
| `Bind` | what wireguard-go may rely on in either bind | abstract specification |
| `TCPBind` | `tcpbind.go` | specification and properties; implements `Bind` |
| `Socks5Client` | `DialContext`, `UDPAssociate` and the session of `socks5.go` | component, used by the next two |
| `Socks5Bind` | `socks5bind.go` over `Socks5Client` | specification and properties; implements `Bind` |
| `Flows` | the handlers and pipes of `nsstack.go` over `Socks5Client` | specification and properties |
| `Socks5Codec` | the UDP header and the request of `socks5.go` | pure functions, checked against the RFC's layout |
| `NetNS` | `netns.go`, `caps.go`, the tasks of `StartWarpSvc` and `RunInNS` | specification and properties |
| `WarpCmd` | `warpcmd.go`, `splitArgs` of `warp.go` | pure functions |
| `Setup` | `main.go`, `run.go`, `warp.go`, `warpready.go`, `egress.go`, the constructors of `netns.go`, `wg.go`, `tundev.go`, `nsstack.go` | specification and properties |
| `Proxy` | `proxy.go`, `NetNS.Run` and `NetNS.Close` | specification and properties |
| `TCPBindProofs`, `Socks5BindProofs`, `SetupProofs`, `NetNSProofs`, `FlowsProofs`, `ProxyProofs` | | inductive invariants and theorems |
| `WarpCmdProofs`, `CodecsProofs` | | theorems about the pure functions |
| `MC...` | | instances for TLC; `MCCodecs` applies the pure functions to every bounded input |

Definitions whose comment begins with "Mutant" are deliberately wrong variants
of the definition that follows them; no specification uses them. Substituted
for it, each makes TLC report the property it is paired with in `PROJECT.json`,
which shows that the property depends on that piece of code.

### TCPBind

`open`, `conn`, `connGen` and `writeMu` are the fields of the struct. Each thread
(the device, the receive routine, the senders) has a program counter and its
locals `c` (`lc`) and `gen`. One action is one critical section of `b.mu`, one
system call or one lock operation: `dial` is `DialStart`, then `DialConnected`
or `DialFailed`, then `DialInstall`, because `b.mu` is released around
`DialContext`; `sendOne` is `SendLock`, `SendTry`, `SendWrite`, `SendReturn`;
`receive` is `Receive`, `ReceiveRecheck`, `ReadHeader`, `ReadBody`,
`DrainFrame`, `ReadFailed`, `ReceiveReturn`. `cont` remembers which call of
`dial` a thread returns to.

A packet is its length. A connection is reduced to whether this side has closed
it, whether what was written ends at a frame boundary (`boundary`), in the
middle of a frame (`torn`) or is beyond repair (`garbled`), and whether what was
read ends at a boundary, in the middle of a frame, or the peer is gone.

The device is external. It calls `Open` only when the receive routine of the
previous `Open` has ended and no `Send` is under way, as `BindUpdate` arranges
by waiting; it may call `Close` at any time, which allows more than wireguard-go
does. It ends the receive routine on `net.ErrClosed` and calls `receive` again
after any other error (the number of consecutive errors wireguard-go tolerates
is not modelled). A read from a nil connection leaves the receive routine in
`panic`; in the program that ends the process, in the model the other threads go
on, so every property that holds, holds without relying on the panic.

### Bind, Socks5Client and Socks5Bind

`Bind` describes a bind by three variables: `open`, the transport in use (`cur`)
and the transports that are of no more use (`spent`). Only an open bind attaches
a transport, never one that is spent, and closing takes the transport away.
`TCPBind` implements it with `cur <- conn`; a connection is spent once it has
been dialled and is neither `b.conn` nor still held by the `dial` that made it.
`Socks5Bind` implements it with `cur <- session` and the same idea of `Spent`.

`Socks5Client` is the call `DialContext` or `UDPAssociate` as its steps: dial
(which sets the deadline), greet, write the request, read the reply (which
clears the deadline), and, for an association, dial the relay. Every step may
fail and then closes the control connection. The server answers, falls silent or
goes away; a read of a silent server returns only if the connection has a
deadline. The two uses differ in who makes the call: `Socks5Bind` makes
associations, `Flows` makes both kinds. What Setup says of either bind is only
whether it could be opened.

In `Socks5Bind` one action is one critical section of `b.mu`, or a step outside
it. The close of a late session happens under `b.mu` and is one step; the one of
`Close` happens outside and is two. The device is restricted as for `TCPBind`; a
`Close` during `Open` is allowed because the code provides for it, although
wireguard-go holds a lock that excludes it.

### Flows

A flow has a goroutine (`main`) and two loops, one per direction. Data is
counted in pieces, one per `Read`. Each end may send, end its direction, fall
silent or go away, at any time. A UDP flow has the idle deadline in ticks; a
tick is long compared with a turn of a loop, so time passes only while the loop
is blocked in `ReadFrom`. The datagram that created a UDP flow is already there
when its loop starts. A destination that has gone silent may block a `Write` for
ever. Flows share nothing, so one is checked.

### NetNS

The constructor, the anchor thread and the callers of `RunOnAnchor`. The setup
of the root is a list of operations, each of which may fail; a read-only bind
puts its remount in front of the rest of the list. `hostBinds` records what the
host would see if a mount were made while the tree is shared with it. A task of
the sandbox drops capabilities turn by turn; `execve` (external) gives a process
of root its inheritable and its bounding set. The unbuffered `taskCh` is a
rendezvous. mwarp calls `RunOnAnchor` once per namespace and never during
`Close`; the model lets any number of calls overlap, since the `select` in the
code is written for it.

When `stopCh` is closed the anchor's goroutine returns without unlocking its
thread. The Go runtime then ends the thread (`gone`), which fires `Pdeathsig`,
with one exception: it does not end the process's first thread but parks it
(`parked`), and the namespaces and the processes started from it stay until mwarp
exits. `ThreadExits` is the choice between the two. The comment at
`netns.go:430-433` says that the thread always stays; in the code only its first
thread can. `TakenDown` says what holds either way.

### Socks5Codec and WarpCmd

A datagram is its length and the three bytes the decoder looks at; the buffer
keeps what an earlier datagram left there. A slice past the end is a panic, a
result of its own. Command lines are sequences over the five classes of
characters the code distinguishes.

### Setup

The main goroutine's `pc` names the step it is about to take. What exists is the
set `live` of owner and part; `state` is the set of fields of `State` that are
set. A step succeeds, or fails and goes to `close` with the exit code 1. The
configuration (WireGuard or not, over TCP or not, warp-svc or not, warp-cli or
not, a protocol or not, run or proxy, a TTY or not) is chosen in `Init` and fixed; a registration
may be left over from a persistent state directory. The daemon is external: it
accepts commands while it runs, an attempt may fail although it was carried out,
its route comes and goes, it may crash. Up to two signals arrive at any time;
`signalContext` is `SignalGoroutine`, the forwarding goroutine `ForwardSignal`.
`net` is the egress path reduced to the three parts whose order matters.

Two constructors that fail half-way leave something `State` does not know:
`StartWireGuard` its netstack device, when a key or the endpoint is bad
(`wgKeys`), and `NewNSStack` the stack, when it returns at `nsstack.go:64` or
`:74` without closing what `stack.New` made. Both are in memory only; `NoResidue`
names them and says that nothing else remains, nor both of them.

Two waits have no bound in the code, and each has an outcome of its own. warp-cli
is run without a context or a timeout: an attempt may never end (`cliHangs`).
`State.Close` is three steps in its order (the daemon, the stack and the TUN
device; the WireGuard device; the namespaces), and the second waits for the
receive routine of the bind, which with the bind of `TCPBind` may never end
(`wgHangs`; the trace of `tcpbind_close_unblocks` shows how). With the SOCKS5
bind the wait ends (`ReceiverEnds`), and of wireguard-go's own bind, which is
external, the same is taken for granted. Only the second
signal leaves either. An anchor counts as released once it has been told to stop
(see `NetNS`).

### Proxy

One handler (`hp`), one dialling goroutine (`dp`) and one possible drain
goroutine per client. `NetNS.Run` is split where its argument is read and where
`setns` uses it, and `NetNS.Close` between closing a descriptor and zeroing its
field, since the two run concurrently without a lock. Closed numbers are given
to the next socket, lowest first. The duplicate descriptor `net.FileConn` makes
and the close of the original are one step that keeps the number.

An error of `Accept` ends `RunProxy` if the context is cancelled (`AcceptError`).
On an open listener it may happen or not; it is sure to happen only once the
goroutine that waits for the context has closed the listener (`AcceptFails`, which
is what fairness is about), so `ProxyReturns` rests on `CloseListener`.

`Resolve` models how `net.Resolver` (external) behaves when called there: the
lookup runs in a goroutine of the resolver's own, and the Go runtime runs no
goroutine on a thread that is locked to another one.

## Runs

| Run | Properties | Shows |
|---|---|---|
| `tcpbind` | `TypeOK` `FramingIntact` `ReadInSync` `StaleDialSparesNewer` `SendReturns` `ImplementsBind` | framing and generations in every interleaving, no sender is stuck behind `writeMu`, the bind implements `Bind` |
| `socks5bind` | `SessionsOwned` `ErrClosedMeansClosed` `ReceiverEnds` `OpenReturns` `ImplementsBind` | no association is leaked, `Close` ends the receive routine, `Open` returns from a silent server, the bind implements `Bind` |
| `flows` | `TypeOK` `EndMeansAll` `NothingLeaked` `HalfOpenDelivers` `FlowEnds` `CutOnlyWhenIdle` | streams arrive whole, also half-open; every flow ends and leaves nothing open; only idle UDP flows are cut |
| `netns` | `TypeOK` `SealedBeforeUse` `SvcConfined` `RemoveAllSparesHost` `ChildSurvivesCall` `RunOnAnchorReturns` `TakenDown` | the root is sealed before use, warp-svc is confined, no caller waits for ever, Close and a failed constructor end the anchor |
| `codecs` | `DatagramsRead` `DatagramsWritten` `ArgsSurvive` `BindsFaithful` | both directions of the UDP header, the round trip of the command line, the executables' paths |
| `setup_life` | `TypeOK` `NoResidue` `NoUnguardedPath` `ConnectAfterRegister` `SetupEnds` `ProxyStops` | clean-up that is complete but for one dropped object in memory, guard before path, command order; setup ends or hangs in warp-cli, one signal ends a proxy unless that or the WireGuard device holds it up, two always do |
| `proxy_safety` | `TypeOK` `DialsInside` `UpstreamOwned` | sockets inside, every connection owned |
| `proxy_live` | `ClientAnswered` `ProxyReturns` `UpstreamClosed` | with threads that may hang in the namespace, clients are answered, closing the listener winds a cancelled proxy down, and late connections are closed |

Four runs are expected to fail: each checks what a comment or the README says
and finds a behaviour of the code that contradicts it.

| Run | Claim | What the code does |
|---|---|---|
| `tcpbind_nil_read` | "reopened transparently on I/O failure as long as the bind is open" (`tcpbind.go:24-25`) | between `receive`'s `dial(0)` and its second `currentConn` a sender empties `b.conn`; `receive` checks `open` only and reads from nil |
| `tcpbind_close_unblocks` | "`Close()` and then `Open()` — that lifecycle is supported" (`tcpbind.go:25-26`) | of two `dial(0)` that run together the second overwrites the first's connection without closing it; the receive routine may be reading that one, which `Close` does not reach |
| `setup_exit_code` | "Returns the child's exit code." (`run.go:17`) | a command that cannot be started gives 0 |
| `proxy_resolve` | "Resolution is also done in the netns" (`proxy.go:147-149`) | the lookup leaves the thread that is in the namespace |

### Bounds

- `TCPBind`: two senders are the least that contend for `writeMu`; two
  connections allow a connection and the one that replaces or overwrites it.
  When all connections are used up every further dial fails, a behaviour the
  code has anyway; for more, the safety properties and the refinement are
  proved. The lengths 65535 and 65536 are the two sides of the limit.
- `Socks5Bind`: two associations, for a bind that is closed and opened again.
- `Flows`: up to three pieces per direction, so that a loop is in its first,
  a middle and its last turn; the idle deadline is two ticks, so that a datagram
  can come after part of it has passed.
- `NetNS`: two callers, one of which finds the anchor busy; four capabilities,
  of which one is kept, one is `CAP_SETPCAP`, and an assumed last capability
  one past the kernel's.
- `Codecs`: datagram lengths on both sides of every check, names of 0, 1, 4, 255
  and 256 bytes, a reader with room for 8 bytes; command lines of up to seven
  characters, which is two quoted arguments with an escape in each.
- `Setup`: `Retries` is 2: a failed attempt followed by another
  and the exhaustion of attempts both happen; the proofs are for any number,
  zero included. `MaxSignals` is 2 because the second one ends the process.
- `Proxy`: two handlers for safety, so that one handler's socket can take the
  number of a descriptor another is about to use; one for liveness, since
  handlers only share the namespace's descriptors. Names resolve to at most two
  addresses (none, one, and one left after a failure). `MaxFd` leaves one free
  descriptor per handler.

Deadlock is checked for `TCPBind` and `Socks5Bind`. The others come to an end (the
process exits, the flow or the namespace is taken down, a function returns), so
their configurations switch the deadlock check off.

### Fairness

- `TCPBind`: goroutines that can run do; `sync.Mutex` hands the lock over to
  waiters that starve, hence strong fairness of `SendLock`; `dialTimeout` bounds
  every dial; `Write` returns. Reads are fair only on connections that are
  closed or dead. Nothing forces the device to call anything.
- `Socks5Bind`, `Flows`: dials and the reads of a handshake end by their
  deadline, which is the connection's, not an assumption: without it a silent
  server blocks the step. A read of a relay is sure to end only when the socket
  is closed, a write to a silent destination never. Applications read.
- `NetNS`: runnable goroutines run, a `select` with a ready case is taken, a
  `Close` that has begun ends. Nobody has to call anything.
- `Setup`: the main goroutine's steps end; they are netlink, mount and exec
  calls, and `WaitForWarpRoute` has a deadline. Of warp-cli and of the WireGuard
  device nothing is assumed: `cliHangs` and `wgHangs` are where they leave the
  main goroutine for good, and `SetupEnds` and `ProxyStops` name them. Serving
  and waiting for the child are no steps until the context ends or the child
  exits. Child, daemon and signals are not fair.
- `Proxy`: reads of the request have a deadline, the dial context has one.
  `Accept` fails on a closed listener. The dialling thread may stop for ever at
  any point, pipes need not end, nobody has to cancel the context, and the
  shutdown after `RunProxy` need not go on, since `State.Close` may wait for the
  WireGuard device before it reaches the namespace.

## Proofs

Every invariant and every action property that a passing run checks is proved
as well, and so are both refinements of `Bind`. The theorems hold for any number
of threads, connections, callers, flows, clients and retries and for command
lines and datagrams of any length; each inductive invariant was checked by TLC on its
run's instance before it was proved.

Assumptions: the named `ASSUME`s of the modules, evaluated by TLC on every run.
They say that threads are distinct, that `Nil` is no thread, connection or
association and `Nobody` no caller, and that lengths, counts and `Retries` are
natural numbers. Four of them say more: `Proxy` allows a name at least one
address, since a literal is one, and has its first descriptors taken by standard
input and the namespaces; `Flows` allows an end at least one piece, since a UDP
flow starts with a datagram; `NetNS` takes the assumed last capability to be no
smaller than the kernel's (see below for when it is not); the mask of warp-svc
does not contain `CAP_SETPCAP`.

Only model-checked are:

- the liveness properties (`SendReturns`, `ReceiverEnds`, `OpenReturns`,
  `SetupEnds`, `ProxyStops`, `RunOnAnchorReturns`, `TakenDown`,
  `HalfOpenDelivers`, `FlowEnds`, `ClientAnswered`, `ProxyReturns`,
  `UpstreamClosed`), which need fairness and `ENABLED` (of the waits they
  depend on, `WaitsForTask` and `LateResultTaken` below are proved);
- the four claims that fail, for which a counterexample is the result.

`TCPBindProofs` proves, for any sets of senders, connections and lengths,
`[]TypeOK`, `[]FramingIntact`, `[]ReadInSync`, `[]ClosedIsDown` and
`StaleDialSparesNewer`. None of the invariants is inductive alone. That nothing
follows a torn frame needs `ConnWhole`: the bind's connection ends at a boundary
unless the sender that tore it holds `writeMu` and is about to drop it with a
`dial` whose generation is still current. That in turn needs `Generations` (a
thread's `gen` equals `connGen` exactly when its connection is still the
bind's), `LockHeld` (only the holder of `writeMu` writes), and `FreshPrivate`
(a connection that has just been dialled is known to its dialler only).
`MidOwned` is the counterpart for reading. `OpenAlone` states what the device
guarantees. `IInv` is their conjunction; one lemma per action shows that it is
preserved. `RefinesBind` shows from it that the bind implements `Bind`: the
critical sections of `dial` are `Detach` and then `Attach`, or `Discard` when
`Close` came in between; `Close` and a failed `Open` are `Close`; everything
else is a stutter. `NilReadNeedsSender` narrows down the counterexample of
`tcpbind_nil_read`: `receive`'s own `dial(0)`, if it succeeds, leaves a
connection in `b.conn`, and on an open bind only the redial of a sender takes it
away before `receive` looks again. It rests on `DialZero`: who found no connection
dials with generation 0, which never drops one.

`Socks5BindProofs` proves, for any number of associations and senders,
`[]TypeOK`, `[]SessionsOwned`, `[]ErrClosedMeansClosed` and that the bind
implements `Bind`. `CallShape` says which sockets a call has at each stage,
`CallsOwned` that a call under way is the device's, `Phases` that Open, the
session in use and Close are never about the same association (so a session is
in use only while `open`, and its relay is open), and `ReadSeesClose` that a
closed relay under the receive routine means a closed bind. `CurrentSession` is
proved on top of them: while the bind is open, `receive` and every `Send` work on
the installed session, although they use it outside of `b.mu`.

`WarpCmdProofs` proves that the command line of `warp-svc` survives (`ArgsSurviveJoin`)
for lines of any length. The library's induction theorems have an operator as a
parameter and cannot be cited; `WFMin` speaks of sets, and from it follow
`NatSetInduction` and `SeqSetInduction`, which say that a set with the empty
sequence that is closed under `Append` has every sequence. The loops of
`splitArgs`, `quoteArg` and `joinArgs` are recursive functions on positions; each
is an iterated step (`IsRun`), from which its value on the empty sequence and on
an `Append` follow. Two inductions then give `QuoteArgLoop` (the loop of
`splitArgs` reads a quoted argument back into `cur` and ends outside of quotes
and escapes) and `JoinArgsLoop` (a joined line leaves all arguments but the last
in `out` and that one in `cur`); `SplitJoin` follows. `CommandSurvives` adds that
`splitArgs` returns no empty argument, and that a joined line neither begins nor
ends with white space, so that `TrimSpace` leaves it alone; the exception is a last
argument that ends with a newline.

`CodecsProofs` proves `ReadsExactly` and `WritesExactly` for datagrams, names and
buffers of every size (`DecoderExact`, `EncoderExact`), and concludes
`[]DatagramsRead`, `[]DatagramsWritten` and, from `CommandSurvives`,
`[]ArgsSurvive` for any lengths. `BindsShowSources` proves `TargetsShowSources`
for any two executables, by cases on which of the two commands is empty or the
same as the other; `[]BindsFaithful` follows.

`SetupProofs` proves, for any number of attempts, `[]TypeOK`, `[]NoResidue`,
`[]NoUnguardedPath` and `[]ConnectAfterRegister`. `NoResidue` follows from
`Accounted`: everything that exists is recorded in `State` or belongs to what
is being built, or is the one object that the failed step dropped; a dropped
netstack device means that no stack was made yet, and a dropped stack that the
netstack device is recorded. `InOrder` says which fields `Close` has released by
the time it is at the next ones.
`GuardFirst` and `CliOrder` say which steps are behind the main goroutine,
`ChildWaited` that a running child is waited for, `SignalCount` bounds the
queued signals. `WorkloadSealed`, which no run states, says that the proxy or a
running child exists only in the finished construction: both namespaces, TUN,
stack and WireGuard, a path with its guard, a connected daemon. It needs
`Built`, what each step behind the main goroutine has left in place; warp-svc and
its route are no part of it, since the daemon may crash or lose its route at any
time.

`ProxyProofs` proves `[]TypeOK`, `[]DialsInside`, `[]UpstreamOwned` and facts no
run states: `SocketsUnshared` (no two handlers hold the same descriptor number),
`CloseSparesSockets` (`NetNS.Close` never closes a client's socket),
`LateResultTaken` (the send on `resCh` never blocks, and a connection that comes
too late has a goroutine that will close it: the safety half of
`UpstreamClosed`), `PipesOpenSocket` (success is answered, and data piped, only
with an open socket of one's own) and `OneReply` (a client is answered at most
once; `Answers` says which reply each step has behind it). `DialsInside` needs `ThreadIn`, which says what a thread has
entered at each step of `NetNS.Run`. `UpstreamOwned` needs `Sockets` (the
sockets in the table and the handlers that hold one correspond one to one, in
spite of numbers that are reused at once) and `DialLife` (a dial that is under
way has a handler or a drain goroutine waiting for it, and a result is taken
once). `NSFds` says that the fields of the `NetNS` keep naming its descriptors
until these are closed; without it `Close` could be closing a number that has
become a socket.

`NetNSProofs` proves `[]TypeOK`, `[]SealedBeforeUse`, `[]SvcConfined`,
`RemoveAllSparesHost`, `ChildSurvivesCall` and `[]WaitsForTask` (a caller waits
exactly while the anchor runs its task). That a finished root is sealed needs
the way there: `Suffix` says that what is left of the list of operations is a
tail of it, whose first operation may have become the remount of a bind;
`Progress` that every read-only bind has been remounted except the one whose
remount is next; `Unseen` that nothing is mounted while the host would see it.
`Finished` carries the result into the descriptors and the tasks. `SvcConfined`
needs `Dropped`: the capabilities the loop of `restrictCurrentThreadCaps` has
passed and the mask does not contain are gone, whatever `kernelLastCap`
answered on each turn.

`FlowsProofs` proves `[]TypeOK`, `[]EndMeansAll`, `[]NothingLeaked` and
`CutOnlyWhenIdle`. Flows share nothing, so the invariant is about one flow, and
`Frame` shows that a step of another one keeps it. `CallShape` says which
connections a call has at each stage and that the deadline of the handshake is
gone when it has succeeded; `Life` what is open at each step of the goroutine;
`Loops` that a TCP loop which is still copying has both connections open and
that both have ended before anything is closed. From these `Whole` is
inductive: a loop of a healthy flow that has stopped has passed on everything
and seen the end, and a source that has ended its direction sends no more.
`Idle` says that, while there is nothing to read, the silence so far and the
time to the deadline add up to at least the expiry.

## Not modelled

Contents of packets, addresses, rules and log lines; what a device node or a link
in the sandbox looks like; flags and `Config.finalize`, which run before there is
any state (Setup starts from every configuration they accept); `NetNS.RunNet`,
which nothing calls; the endpoint types of the binds; the netlink, ioctl and
nftables calls of `tundev.go` and `egress.go`, which are steps of `Setup` that
succeed or fail.

Things met while reading that no run covers:

- two `dial(0)` leave a connection open that nothing refers to, against the
  "single long-lived TCP connection" of `tcpbind.go:19`; and a sender's reconnect
  closes the connection under a blocked read, whose `net.ErrClosed` `receive`
  returns although the bind is open, against `tcpbind.go:201-202`;
- when the kernel cannot be asked, `kernelLastCap` falls back to a constant of the
  library, and a capability newer than it stays in the bounding set (`NetNS`
  assumes there is none);
- a signal between `cmd.Start` (`run.go:40`) and `signal.Notify` (`run.go:52`) is
  not forwarded;
- `finalize` returns early with `--no-wireguard` and then does not check the
  length of `--warp-iface`, on which `ifname` relies; `wg.go:73` uses
  `netip.MustParseAddr` on the configured nameserver;
- `WaitForWarpRoute` probes an IPv4 address only;
- "fresh procfs" (`netns.go:244`) is a bind mount of the host's; the `MS_REC` of a
  read-only remount has no effect, so mounts below `/usr` and `/sys` keep their
  flags;
- the comment in `NetNS.Close` (`netns.go:430-433`) says the anchor thread stays
  until the process exits; the anchor returns when `stopCh` is closed, and its
  thread ends unless it is the process's first;
- `NewNSStack` does not close the stack when `CreateNIC` or the TCP option fails
  (`nsstack.go:64`, `:74`); in the second case its NIC is attached to a TUN
  descriptor that `State.Close` then closes;
- `quoteArg` does not quote a newline, and `StartWarpSvc` trims one that ends the
  last argument; `splitArgs` drops an empty quoted argument;
- a reset of one end of a TCP flow reaches the other as an orderly end, and if the
  other end then stays silent the flow stays open; the loss of an association's
  control connection is not noticed.

## Possible further work

- `Built` at the level of the rules and routes of `egress.go`, if their contents
  were modelled.
- The liveness properties, with a prover that handles fairness and `ENABLED`.
