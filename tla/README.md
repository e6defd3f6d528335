# Verification of proxydroid

proxydroid is an Android SDK that routes the device's traffic through a local
proxy. This directory holds TLA+ specifications of its concurrent and
event-driven parts, the TLC configurations that check them on small instances,
and TLAPS proofs for every instance. Paths below are relative to the repository;
`badvpn/` stands for `src/vpn/src/main/jni/badvpn/`, `vpn/` for
`src/vpn/src/main/java/me/bwelco/proxy/`, `proxy/` for
`src/proxy/src/main/java/me/bwelco/proxy/`.

## The system

```
 app --TCP--> TUN device --> tun2socks (lwIP -> tcp_client -> BSocksClient)
                                 ^                     |
     VPN descriptor (sendFd)     |                     | SOCKS5, 127.0.0.1:1080
 ProxyService --GuardedProcessPool                     v
      |                                      ProxyServer (Netty): SocksServerHandler
      +--thread--------------------------->    -> UpstreamMatchHandler -> upstream
      +--ProtectWorker <--- protect() ---- CustomNioSocketChannel     -> RelayHandler
```

`ProxyService` establishes the VPN, starts the Netty proxy on a thread and
`tun2socks` as a guarded process, and sends the process the VPN's descriptor over
a local socket. `tun2socks` terminates every TCP connection of the device in lwIP
and relays it over a SOCKS5 connection to the Netty proxy, which connects upstream,
optionally decrypting TLS with generated certificates. The app drives all of it
through `VpnHelper`, whose calls are carried out by an invisible activity.

## Modules

| module | models | source |
|---|---|---|
| `TcpClient` | one `tcp_client` from accept to dealloc | `badvpn/tun2socks/tun2socks.c` |
| `Relay` | what one relayed connection promises; `TcpClient` implements it | abstract |
| `BSocksClient` | one SOCKS handshake and the ownership of its resources | `badvpn/socksclient/BSocksClient.c`, `badvpn/flow/PacketStreamSender.c` |
| `BConnection` | the connector and the connection under the SOCKS client | `badvpn/system/BConnection_unix.c` |
| `BReactor` | the event loop: jobs, timers, descriptors | `badvpn/system/BReactor_badvpn.c`, `badvpn/base/BPending.c` |
| `GuardedProcessPool` | the pool, its guards and processes | `vpn/GuardedProcessPool.kt` |
| `Tunnel` | start of tun2socks and `sendFd`; extends `GuardedProcessPool` | `vpn/ProxyService.kt`, `src/vpn/src/main/jni/jni-helper.cpp`, `main` of tun2socks |
| `ProxyService` | the service's main thread, `ProxyServer.startUp`/`shutdown` | `vpn/ProxyService.kt`, `proxy/ProxyServer.kt` |
| `LocalSocketListener` | the ProtectWorkers and the socket file they share | `vpn/LocalSocketListener.kt` |
| `SocksPipeline` | one connection through the Netty handlers | `proxy/downstream`, `proxy/upstream`, `proxy/http`, `proxy/action` |
| `CertCache` | `SSLFactory.newCert` and the lifetime of `CertUtil.genCert` | `proxy/tls` |
| `VpnHelper` | the SDK's three calls and the activity that serves them | `vpn/helper` |
| `MC*` | values of the constants for TLC | extend the module named |
| `*Proofs` | theorems | extend the module named; `GuardedProcessPoolProofs` also `Tunnel`, `ProxyServiceProofs` also `LocalSocketListener` and `VpnHelper`; `ProxyServerProofs` is about `SocksPipeline` and `CertCache` |
| `LinkedListLemmas` | lemmas on badvpn's lists | used by `BReactorProofs` and `BConnectionProofs` |

Definitions keep the source's names. Operators commented "Fault:" are variants of
the definition that follows them, with a bug such code might have; putting one in
place of its definition must make TLC report the property `PROJECT.json` pairs it
with. `PROJECT.json` also lists every part with its status, the hazards at their
lines, and which definition models which lines.

### TcpClient and Relay

tun2socks is single threaded, so an action is one lwIP callback or one reactor job.
A callback that ends in `SYNC_COMMIT` runs the jobs it scheduled before it
returns; it is split there and `cb` names the callback that has not returned.
`client` holds the fields of the struct plus what lwIP and the SOCKS interfaces
know: state of the pcb, callbacks installed, receive window, I/O in flight.
A stream is the numbers 1, 2, 3, ..., a buffer is an interval of it: its contents
are an offset and a length, so "the right bytes in the right order" is
arithmetic. `socks_recv_*` start with whatever `malloc` left (`Garbage`), as
`listener_accept_func` does not set them. `tcp_write` queues all that fits or, on
ERR_MEM, nothing; `tcp_close` may fail, which makes `client_free_client` abort.
A job that runs inside `SYNC_COMMIT` may free the struct under the callback, which
then looks only at a variable on its own stack: `dead_client` is NULL, points to that
variable ("entered"), or points to it after `DEAD_KILL` has set it ("killed").

`Relay` says the same with two ends and five counters: bytes go both ways in order,
at most a buffer of them is under way, and an end that goes away takes the other
with it only when nothing is left to hand over. `ImplementsRelay` of `TcpClient`
instantiates it: `AppEnd` and `SocksEnd` compute the abstract ends from the struct,
the counters are the stream positions.

### BSocksClient and BConnection

The SOCKS client is a record; initialisations minus frees of the connector, the
connection and both sets of interfaces are counted, the buffer is its size.
Messages and replies have their real lengths (hello 2 + methods, password
3 + lengths, request and reply 4 + 6 or 18) and move in pieces of every size. Each
`reserve_buffer` may fail. `report_error` includes the `BSocksClient_Free` that the
handler, `client_socks_handler`, performs. The server is external: it answers a
message when it has all of it and may append relayed bytes to its reply.

`BConnection` is what carries those pieces: connect in progress, one buffer handed
over in each direction, the wait events, the limits of sends and receives per turn
of the loop, EPOLLERR and EPOLLHUP, and the jobs of the two interfaces, which are
freed and created again between handshake and relay. Its handlers are functions on
one record, as in the code, composed in the order the code calls them.

### BReactor

The loop in the configuration the Android build compiles (epoll, NDEBUG). The job
list, the timer tree and the list of expired timers, the epoll results and the
pointers between results and descriptors are state. A handler may make any call of
the reactor's interface, `BReactor_Synchronize` included, so handlers nest and
`stack` is the stack of those running. `since` and `reg` are history: the jobs set
since a mark, and how often a descriptor object was added.

### GuardedProcessPool and Tunnel

A step is one access to shared state or one blocking call. Each HashSet the
AtomicReference ever held is a generation number. A blocking call of an
interrupted guard throws where Java's would: `put` even if there is room, `waitFor`
only if the process is alive. Exceptions thrown inside the catch or finally block
follow their own program counters (`finally_throw`, `uncaught`). `OneCaller`
restricts the callers to one thread; that is how `ProxyService` uses the pool, as
`startProxy` and `stopProxy` both run on the service's main thread.

`Tunnel` adds what the guarded process does (`phase`: boot, accept, loop), the
listener at `sock_path`, and the two callers of `sendFd`: the main thread after
`start()`, the guard's restart callback afterwards. `BSignal_Init` blocks SIGTERM before
`accept()`; `destroy()` is SIGTERM since API 24 and was SIGKILL before, so
`SDK_INT` is a variable. `main()` of tun2socks failing is an exit at any time.

### ProxyService and LocalSocketListener

The main thread takes `onStartCommand` and the stop broadcast one after the other;
each start spawns a thread in `ProxyServer.startUp` that nothing joins, and the app
may make its next call at any time. `ProxyServer` is a singleton with plain fields, so
each read or write of one is a step. `establish()`, creation of an event loop group,
`bind` (the port may be another app's) and the start of tun2socks may fail; an exception
nobody catches ends the app (`crashed`). `killAll()` may never return (`stuck`), for the
reason that `Tunnel` shows.

Each start also spawns a ProtectWorker. `LocalSocketListener` has one step for the
deletion of the socket file and one for `bind`, which fails if another worker has
taken the name in between; no worker is ever stopped.

### SocksPipeline

Both channels of a connection share an event loop, so a handler runs to its end. A
pipeline is the set of the project's handlers in it. The client's data is a sequence
of pieces; three numbers say which piece completes the three bytes
`ProtocolSelectHandler` needs, which the record or head that decides, and which the
first request. Every upstream kind, rule (no interception, no interceptor matches, an
interceptor matches) and protocol (TLS with and without a server name, HTTP, neither) is
an initial state. Interception is modelled for HTTP: the aggregator that keeps a
request until it is whole, `MitmHandler`, and a second request, for which `addAfter` throws.

### CertCache and VpnHelper

`newCert` is three steps (lookup, generation, put) on any number of threads; the
lifetime is the wrapped `Int` product of `CertUtil.kt:128`, computed with its width,
in days. `VpnHelper`: a call puts its callback into a static field and launches an
activity, which may open a dialog, be created anew when the device is turned (with a
second dialog), invoke the callback and clear the field. The callback is the app's code:
between its invocation and the clearing of the field it may call the API again, and it
may throw, in the try block, in the catch block, or in `onActivityResult` outside both.

## Runs

| run | result | distinct states | shows |
|---|---|---|---|
| `tcp_client` | pass | 30 942 | stream order both ways, window = free space, no lost wake-up, half-closed clients are freed and up bytes delivered once SOCKS is up (liveness), ERR_ABRT exactly when the pcb was given up (action property), no dangling `dead_client`, refinement of `Relay` |
| `client_abrt` | violation | | ERR_ABRT is returned after `tcp_close` too |
| `socks_client` | pass | 7 108 | ownership follows state, one transfer in the buffer, no relayed byte swallowed, handshake ends |
| `connection` | pass | 2 805 | a buffer handed over always has a job or an event that continues it, the descriptor is closed once, a send is not starved |
| `reactor` | pass | 87 379 | `BReactor_Synchronize` runs exactly the jobs since its mark, no timer early or starved, no result reaches another registration |
| `pool_concurrent` | pass | 44 766 | callers on their own threads: killed pool is quiet, start tells the truth, killAll returns, process comes back |
| `pool_fast_exit` | violation | | the guard says "stop guard" and goes on |
| `tunnel` | pass | 7 254 | no process forgotten, nothing uncaught, tunnel comes up, killAll returns unless it meets a process that waits for the descriptor on API 24+ |
| `tunnel_kill` | violation | | that exception is real: `waitFor()` does not "ensure the process is destroyed" |
| `service` | pass | 68 966 | `isStarted` follows the threads; a start that meets no other `startUp` serves; a stop closes the server that has the port |
| `service_stop` | violation | | a stop before `startUp` has created its groups leaves a server |
| `service_start` | violation | | the finally block of an ended `startUp` shuts down the next start's server |
| `listener` | pass | 474 | once the ProtectWorkers have settled, `protect_path` leads to one that accepts |
| `pipeline` | pass | 21 380 | what reaches the upstream is what the client sent, in order and without a gap; the reply fits; joined channels end together |
| `pipeline_not_http` | violation | | "not http, direct": none of the bytes arrives |
| `pipeline_no_name` | violation | | TLS without a server name is held for good |
| `cert_cache` | pass | 85 796 | no thread generates twice for a host |
| `cert_expired` | violation | | a certificate is served after its twelve days |
| `vpn_helper` | pass | 33 093 | fields and activities in step, each callback told the outcome of its own request, every call answered |

The violations are the findings of `PROJECT.json`, each with the line of the repository
it contradicts (see below). A type invariant is part of one invariant of each run, or,
for `TcpClient`, `VpnHelper` and `CertCache`, part of the inductive invariant that is
proved.

**Bounds.**
- `tcp_client`: window and send buffer 3, `socks_recv_buf` 2, 4 bytes up and 5 down; so
  the window closes and reopens, a read fills the send buffer in the middle of
  `socks_recv_buf`, and both directions hold data when a side closes.
- `socks_client`: real lengths; both values `auth_info` has in tun2socks, names
  of length 0 (refused) or 2, up to 2 bytes behind the reply.
- `connection`: both limits 2, as in `BConnection_unix.h`; a limit is reached, reset
  and reached again.
- `reactor`: two jobs with handlers four deep, two timers with delays that exceed
  `IntMax` (here 1) beside a descriptor that is always ready, two descriptors added
  twice each with an array of two results. Three programs instead of one that
  uses all: they meet only in the order in which `BReactor_Exec` serves them.
- Pool: two starts, one with and one without callback, against one `killAll`;
  processes exit and restart without bound. `tunnel`: one start, one kill, 3 attempts
  (10 in the code), API levels 23 and 24, the two sides of the version test.
- `service`: two starts, so a start follows a stop, a second start meets a running
  server, and a finally block meets the next start. `listener`: four workers, so that
  one fails to bind while two more delete. `pipeline`: 4 pieces up, 2 down: the
  longest wait of a decoder is 4 pieces, and after any shorter one another piece follows.
- `cert_cache`: two threads, a host with two spellings and one other, three calls, days
  on both sides of the twelfth. `vpn_helper`: three calls, two turns: two calls of a kind and
  one from a callback.

`MaxUp`, `MaxDown`, `MaxStarts`, `MaxCalls` and the like bound only the runs; where there
is a theorem it holds for all their values.

**Deadlock** is not an error in any run: a freed connection, a pool after its last
call, a finished handshake, an answered call and a reactor that has quit are ends.

**Fairness.** Only what the program or the system it runs on does by itself:
- `TcpClient`: a callback returns; a pending write is taken or fails; the app
  acknowledges or lwIP's retransmission timer reports an error. Not assumed: that anyone
  sends or closes, nor that a SOCKS connect ends, as the proxy does not answer one whose
  upstream fails and tun2socks has no timeout.
- `BSocksClient`: a connect ends, writable data is written, arrived data is read.
  That the server answers is a premise of the property `HandshakeEnds`, not of the
  specification: the code has no timeout there.
- `BConnection`: the loop turns; the peer reads, so that the socket has room again and
  again and a write after EPOLLOUT takes data or fails (strong, as the socket may
  be full in between).
- `BReactor`: the loop runs, the clock goes on, and a handler that could return again
  and again does (strong, since it may call the reactor any number of times).
- `GuardedProcessPool`: threads run, callbacks return, a process told to terminate
  does. Not assumed: that a process exits by itself, or that anybody calls. `Tunnel`
  replaces the assumption on processes by what the signal does (`DestroyTakesEffect`).
- `ProxyService`: every thread runs. `SocksPipeline`: a connect ends within its
  timeout, peers take what is written. `VpnHelper`: Android creates the activities
  it was asked for, the user answers dialogs and callbacks return or throw. `CertCache`
  and `LocalSocketListener` claim no liveness.

## Proofs

Everything below holds for every value of the constants, from the named assumption
of the module, which says that sizes and bounds are (positive) naturals and
that sets of inputs have their types. For the reactor it also says that the
program has finitely many timers and that a mark is not one of its jobs (both are
objects in memory, and `BReactor_Synchronize` marks the list with a BPending of its
own).

| module | theorem | statement |
|---|---|---|
| `TcpClientProofs` | `Invariance`, `TypeCorrect` | `[]IInv`, `[]TypeOK`: `client->buf` is not overrun |
| | `UpStreamCorrect`, `DownStreamCorrect` | `[]UpStreamInOrder`, `[]DownStreamInOrder` |
| | `WindowCorrect` | `[]WindowIsFreeSpace`: "no buffer for data !?!" is dead code |
| | `RelayNeverStalls` | `[]RelayIsArmed` |
| | `CallbacksTellLwip` | the action property `AbrtWhenGivenUp` |
| | `DeadVarNeverStale` | `[]DeadVarIsNotStale` |
| | `Refinement` | `Spec => ImplementsRelay` |
| `BSocksClientProofs` | `OwnershipAlwaysFollows`, `AlwaysOneTransfer`, `NothingSwallowed` | the three invariants of `socks_client` |
| `BConnectionProofs` | `BusyAlwaysServed`, `DescriptorClosedOnce` | `[]BusyIsServed`, `[]ClosedOnce`, for every limit |
| `BReactorProofs` | `PointersAlwaysFit`, `ResultsAlwaysFresh` | `[]PointersFit`, `[]ResultsFresh` |
| | `SyncAlwaysRunsSince` | `[]SyncRunsSince`, for any nesting of handlers |
| | `TimersAlwaysFit` | `[]TimersFit`, for any number of timers and any `INT_MAX` |
| `GuardedProcessPoolProofs` | `KilledPoolStaysQuiet`, `StartAlwaysTruthful` | the two invariants of `pool_concurrent`, for any number of callers |
| | `NothingEscapes` | `OneCaller => []NothingUncaught` |
| | `TunnelImplementsPool`, `TunnelIsSafe` | `TSpec => Spec`: what is proved of the pool holds of the tunnel |
| | `NoneForgotten` | `OneTunnel => []NoProcessForgotten` |
| `ProxyServiceProofs` | `FlagAlwaysFollows`, `PathAlwaysServed` | `[]FlagFollowsThreads`, for any number of starts and stops; `[]ProtectPathServed` (LocalSocketListener), for any number of workers |
| | `FieldAlwaysFollows`, `AnswersAlwaysFit` | `[]FieldFollowsActivity`, `[]AnswerFits` (VpnHelper) |
| `ProxyServerProofs` | `ReplyAlwaysFits`, `UpAlwaysIntact` | `[]ReplyFits`, `[]UpIntact`, for any number of pieces |
| | `AlwaysGeneratedOnce` | `[]GeneratedOnce` (CertCache) |

Two theorems have a hypothesis on how the component is used. `OneCaller`: `start()` and
`killAll()` are called from one thread, which is what `ProxyService` does. `OneTunnel`:
there is one command, with a restart callback, which is what one start of
`ProxyService` makes.

Few of the properties are inductive as they stand. The invariants that are, and why
they are needed:

- `IInv` (TcpClient): that a send fits needs the window, that the window is right needs
  that a send in flight is never larger than the buffer, that down bytes stay in
  order needs that a partly queued `socks_recv_buf` is waiting and no receive is in
  flight. `IInv` joins the properties and adds: a closed client has no pcb and no
  callbacks (`LiveInv`), nothing is in flight before SOCKS is up (`UpSide`),
  `socks_recv_tcp_pending` stays within the send buffer (`DownSide`), no down byte exists
  before SOCKS is up (`StreamInv`). One lemma per helper (`FreedClient`, `FreedSocks`,
  `SendOut`) says what is left of the struct, one lemma per action concludes `IInv'`.
- `DeadInv` (TcpClient): a client that is not closed has a dead variable that is entered
  exactly while a callback is in `SYNC_COMMIT`, and a pcb that is given up meanwhile
  kills it: what the callback reads there is what became of the pcb.
- `Refinement` uses `IInv` and shows, action by action, which step of `Relay` a callback or
  job is, or that it changes nothing `Relay` sees.
- `SocksInv` (BSocksClient): per state of a live object, which resources exist (`Counts`),
  which transfer is in flight with its length (`Transfer`), and how far the server is
  (`ServerInv`); the last makes "exactly the relayed bytes are left" provable. Every way
  to free the object goes through one lemma, `Freed`. The server is assumed to answer
  each message once, after the whole of it.
- `ConInv` (BConnection): in each state of the connector, who holds the descriptor
  and how often it was opened and closed (`LifeInv`); what the loop holds is of a
  registration that is not over (`EventInv`), so a handler is never called for a connection
  that hung up; an interface and its direction are busy together (`SendInv`, `RecvInv`).
  When EPOLLERR comes without EPOLLIN, `recv_job` is set while EPOLLIN is still waited
  for; the error is then pending on the socket, and the read of the job returns it
  (`RecvServed`).
- `FdInv` (BReactor): types, `PointersFit` and `ResultsFresh` together, and that
  `wait_for_events` starts with no results.
- `SyncInv` (BReactor): no job is linked twice; the list holds the marks of the running
  handlers and no other; an inner handler's mark is in front of an outer one's
  (`MarksNest`), so that what the inner call runs was set since the outer mark too.
  `LinkedListLemmas` says what linking and unlinking do to the members of a list and to
  what is in front of one of them.
- `TimerInv` (BReactor): the expired list is without repetition and holds the timers whose
  state says so; the time `wait_for_events` waits for is that of the first timer of the
  tree, which no handler changes meanwhile (`PollInv`).
- `PoolInv` (pool): a set is taken out by one `killAll()` only (`KillInv`); where a guard is
  determines whether it has a process (`ProcessInv`) and what it has told `start()`
  (`QueueInv`). The step that needs it most is the end of a guard: a second interrupt
  would break `waitFor()` and leave the process, and `InterruptInv` says that a guard
  which destroys a running process has used its one interrupt up. A `start()` that
  holds a set already taken out adds a guard that never launches (`QuietInv`).
- `CallerInv` (pool with one caller): the thread is in one call at a time, so a guard that
  `killAll()` interrupts has put its first result, and no `put()` in its catch or finally
  block is left for the interrupt to end.
- `TunnelInv` (Tunnel): a launch that is not the first one finds the callback set; `sendFd` of
  the main thread starts when `start()` has returned and ends with its last try. That
  every step of `Tunnel` is a step of the pool is shown action by action.
- `FlagInv` (ProxyService), `PathInv` (LocalSocketListener): who set `isStarted` is still
  before its last step; a name nobody serves has a worker about to bind it.
- `HelperInv` (VpnHelper): a field that is not empty holds the call of a busy activity of
  its kind, and the other way round (`FieldInv`), so an activity invokes its own callback;
  where the activity is tells what it has told it (`ToldInv`). `CacheInv` (CertCache): a thread that has
  generated for a key has put it or is about to; no put ever removes one.

- `PipeInv` (SocksPipeline): until SUCCESS nothing is relayed and whatever may settle the
  promise goes away with it (`ReplyInv`); a client that may send always finds a handler
  (`HandlerInv`); what is written and what is held are together what was sent
  (`DataInv`), and which handlers are installed tells who may still hold pieces
  (`HeldInv`), so the switch of handlers neither drops nor repeats one.

Each inductive invariant was model-checked before it was proved. Every
safety property of a passing run has a theorem. **Only model-checked:** liveness
(`HalfClosedIsFreed`, `UpDataDelivered`, `HandshakeEnds`, `SendFinishes`, `TimersFire`,
`KillAllReturns`, `ProcessComesBack`, `TunnelComesUp`, `KillAllReturnsOnceUp`,
`LoneStartServes`, `ShutdownEndsServer`, `EndTogether`, `EveryCallAnswered`), since fairness and ENABLED
are outside the proof system's reach.

## Findings

- **`FastExitStopsGuard`.** `GuardedProcessPool.kt:92` logs "process exit too fast, stop
  guard" and the loop goes on: a process that fails at once is launched without end.
- **`ProcessIsDestroyed`.** `GuardedProcessPool.kt:106`: on API 24+ SIGTERM is blocked in a
  tun2socks that waits for the descriptor, and `killAll()` waits with it.
- **`StopEndsServer`.** `ProxyServer.shutdown` shuts down the groups that exist when it runs.
  Between `isStarted = true` and the assignments of the groups, or before, there are none:
  the README's stop call is then without effect on the proxy.
- **`StartServes`.** The finally block of `startUp` reads the fields anew. After a stop and
  a quick start they hold the groups of the new server, which it shuts down.
- **`NotHttpIsDirect`.** With interception rules, `HttpInterceptorHandler.kt:49` means to relay
  what is not HTTP as it is. The `HttpRequestDecoder` in front stays in the pipeline.
- **`AllTrafficGoesOn`.** `SniHandler.kt:24` returns for an empty name, and for a missing one
  `exceptionCaught` leaves SniHandler where it is; the README promises to proxy all traffic.
- **`ServedIsValid`.** `CertUtil.kt:128` writes a year and gets twelve days, and `certCache` does
  not look at the validity of what it holds.
- **`AbrtOnlyAfterAbort`.** lwIP's `tcp.h:71` asks for ERR_ABRT only after `tcp_abort`;
  `client_free_client` uses `tcp_close` where it can. `AbrtWhenGivenUp` is what the code
  keeps to instead.

## What the properties leave out

Observed while modelling, where nothing in the repository states what should happen:

- The Koin context may be closed under a server that runs, and event loop groups that a
  second `startUp` overwrites in the fields are left running (`ProxyService`).
- Two starts without a stop between them run two tun2socks at one `sock_path`; `Tunnel`
  is checked with one start.
- `NothingUncaught` holds for calls from one thread. With callers on several, `killAll()`
  can interrupt a guard that has not reported its first launch; the guard then
  ends with an exception and its `start()` waits on.
- A failed upstream connect completes no promise, so the SOCKS client gets no answer
  (`ConnectFails`); that is why `HandshakeEnds` has its premise and `HalfClosedIsFreed`
  begins when SOCKS is up. What an upstream sends before the channels are joined is
  discarded. `ReplyFits` does not ask for the status a SOCKS5 upstream replied.
- A pbuf that arrives with the callback in which the client dies is not freed.
- Two event loops that miss the certificate cache at once each generate for the host.
- That Android removes an activity for good without a result is outside `VpnHelper`.

## Not modelled

- tun2socks' packet I/O and DNS (no state across packets) and its UDP gateway,
  which the command line of `ProxyService` does not enable.
- lwIP's protocol: only its interface to `tcp_client` is modelled, from how
  tun2socks uses it.
- The rest of the vendored badvpn tree (its VPN client and server, NCD, dhcp and so on), which the
  app does not build or start. It is by far the largest part of the source by
  lines, so the share of all lines these modules cover is under two per cent; of
  the Kotlin sources and of the C files on the TCP path it is most of what has
  state.
- The TLS handlers of an intercepted connection (`SniHandler.kt:31-44`) and the bytes `CorrectCRLFHander` adds:
  Netty's `SslHandler` and codecs do the work.
- `CustomNioSocketChannel`: Netty's channel with one blocking exchange added; its loops
  are Netty's. `Commandline`: quoting for a log line. Rules and proxies: stateless; in
  `SocksPipeline` a rule may choose any upstream.
- `BListener` and the reactor's branches for other systems, which this build does not
  use. Keys, encodings and signatures, logging, notifications, the demo app.
