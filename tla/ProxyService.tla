---------------------------- MODULE ProxyService ----------------------------
(***************************************************************************)
(* The life of the VPN service and of the proxy server inside it:          *)
(* ProxyService.kt and ProxyServer.kt.                                     *)
(*                                                                         *)
(* onStartCommand and the STOP_ACTION receiver run on Android's main       *)
(* thread, one after the other.  Every start also spawns two threads that  *)
(* nothing joins: one runs ProxyServer.startUp, and is numbered like its   *)
(* start; the other is a ProtectWorker, the subject of LocalSocketListener.*)
(* ProxyServer is an object with plain fields that all threads read and    *)
(* write.  Nothing keeps the app from starting or stopping the service     *)
(* while the thread of an earlier start still runs.  The processes of a    *)
(* service, and killAll in detail, are the subject of GuardedProcessPool   *)
(* and Tunnel.                                                             *)
(***************************************************************************)
EXTENDS Naturals

CONSTANT MaxStarts   \* bound: intents that reach onStartCommand

ASSUME ServiceAssumption == MaxStarts \in Nat \ {0}

VARIABLES
  main,         \* where the main thread is
  starts,       \* starts so far
  registered,   \* controlBroadcastReceiver is registered
  procs,        \* tun2socks processes in the service's GuardedProcessPool
  crashed,      \* an uncaught exception has ended the app
  isStarted, bossGroup, workerGroup,   \* the fields of ProxyServer
  koin,         \* startKoin was called and closeKoin was not
  alive,        \* event loop groups that are not shut down
  port,         \* the startUp thread whose channel is bound to port 1080
  up,           \* where each startUp thread is
  thrown,       \* startUp threads on their way out with an exception
  used          \* the groups each startUp thread gave to its ServerBootstrap

server == <<isStarted, bossGroup, workerGroup, koin, alive>>
threads == <<port, up, thrown, used>>
vars == <<main, starts, registered, procs, crashed, server, threads>>

Starts == 1..MaxStarts
None == 0

Init ==
  /\ main = "idle" /\ starts = 0 /\ registered = FALSE /\ procs = 0
  /\ crashed = FALSE
  /\ isStarted = FALSE /\ bossGroup = None /\ workerGroup = None
  /\ koin = FALSE /\ alive = {}
  /\ port = None
  /\ up = [n \in Starts |-> "none"] /\ thrown = {}
  /\ used = [n \in Starts |-> <<None, None>>]

-----------------------------------------------------------------------------
(* The main thread. *)

Main(from, to) == ~crashed /\ main = from /\ main' = to

(* onStartCommand and startProxy up to the two threads. *)
onStartCommand ==
  /\ Main("idle", "establish")
  /\ starts < MaxStarts
  /\ starts' = starts + 1
  /\ registered' = TRUE
  /\ up' = [up EXCEPT ![starts'] = "check"]
  /\ UNCHANGED <<procs, crashed, server, port, thrown, used>>

(* builder.establish() returns null when the user has withdrawn the VPN    *)
(* permission.                                                             *)
establish ==
  /\ \E next \in {"idle", "spawn"} : Main("establish", next)
  /\ UNCHANGED <<starts, registered, procs, crashed, server, threads>>

(* processes.start, which throws when tun2socks cannot be executed, and    *)
(* sendFd, which gives up after ten tries and whose result is ignored.     *)
StartTun2socks ==
  /\ Main("spawn", "idle")
  /\ \/ procs' = procs + 1 /\ crashed' = crashed
     \/ procs' = procs /\ crashed' = TRUE
  /\ UNCHANGED <<starts, registered, server, threads>>

(* onReceive calls stopProxy: unregisterReceiver, killAll, then shutdown. *)
stopProxy ==
  /\ Main("idle", "killAll")
  /\ registered /\ registered' = FALSE
  /\ UNCHANGED <<starts, procs, crashed, server, threads>>

(* killAll ends the processes.  One that does not end when it is destroyed *)
(* holds the main thread in Thread.join for ever (Tunnel).                 *)
killAll ==
  /\ \/ Main("killAll", "shutBoss") /\ procs' = 0
     \/ Main("killAll", "stuck") /\ procs > 0 /\ procs' = procs
  /\ UNCHANGED <<starts, registered, crashed, server, threads>>

(* Fault: shutdown leaves the boss group, which holds the port. *)
ShutNoBoss ==
  /\ Main("shutBoss", "shutWorker")
  /\ UNCHANGED <<starts, registered, procs, crashed, server, threads>>

ShutBoss ==
  /\ Main("shutBoss", "shutWorker")
  /\ alive' = alive \ {<<"boss", bossGroup>>}
  /\ UNCHANGED <<starts, registered, procs, crashed, isStarted, bossGroup, workerGroup,
                 koin, threads>>

ShutWorker ==
  /\ Main("shutWorker", "closeKoin")
  /\ alive' = alive \ {<<"worker", workerGroup>>}
  /\ UNCHANGED <<starts, registered, procs, crashed, isStarted, bossGroup, workerGroup,
                 koin, threads>>

CloseKoin ==
  /\ Main("closeKoin", "clear")
  /\ koin' = FALSE
  /\ UNCHANGED <<starts, registered, procs, crashed, isStarted, bossGroup, workerGroup,
                 alive, threads>>

(* The last line of shutdown, then stopSelf. *)
ClearStarted ==
  /\ Main("clear", "idle")
  /\ isStarted' = FALSE
  /\ UNCHANGED <<starts, registered, procs, crashed, bossGroup, workerGroup, koin, alive,
                 threads>>

MainThread ==
  \/ establish \/ StartTun2socks \/ killAll
  \/ ShutBoss \/ ShutWorker \/ CloseKoin \/ ClearStarted

-----------------------------------------------------------------------------
(* ProxyServer.startUp in the thread of start n. *)

Up(n, from, to) == ~crashed /\ up[n] = from /\ up' = [up EXCEPT ![n] = to]

service == <<main, starts, registered, procs>>

(* Fault: the groups of an earlier start count as a server that runs. *)
CheckGroups(n) ==
  /\ Up(n, "check", IF bossGroup # None THEN "done" ELSE "koin")
  /\ UNCHANGED <<service, crashed, server, port, thrown, used>>

CheckStarted(n) ==
  /\ Up(n, "check", IF isStarted THEN "done" ELSE "koin")
  /\ UNCHANGED <<service, crashed, server, port, thrown, used>>

(* An AlreadyStartedException of startKoin is ignored. *)
StartKoin(n) ==
  /\ Up(n, "koin", "mark")
  /\ koin' = TRUE
  /\ UNCHANGED <<service, crashed, isStarted, bossGroup, workerGroup, alive,
                 port, thrown, used>>

MarkStarted(n) ==
  /\ Up(n, "mark", "newBoss")
  /\ isStarted' = TRUE
  /\ UNCHANGED <<service, crashed, bossGroup, workerGroup, koin, alive,
                 port, thrown, used>>

NewBossGroup(n) ==
  /\ Up(n, "newBoss", "newWorker")
  /\ bossGroup' = n /\ alive' = alive \cup {<<"boss", n>>}
  /\ UNCHANGED <<service, crashed, isStarted, workerGroup, koin,
                 port, thrown, used>>

NewWorkerGroup(n) ==
  /\ Up(n, "newWorker", "group")
  /\ workerGroup' = n /\ alive' = alive \cup {<<"worker", n>>}
  /\ UNCHANGED <<service, crashed, isStarted, bossGroup, koin,
                 port, thrown, used>>

(* No selector can be opened: the constructor is called outside try.       *)
NewGroupFails(n) ==
  /\ Up(n, "newBoss", "done") \/ Up(n, "newWorker", "done")
  /\ crashed' = TRUE
  /\ UNCHANGED <<service, server, port, thrown, used>>

(* serverBootstrap.group(bossGroup, workerGroup) reads both fields. *)
UseGroups(n) ==
  /\ Up(n, "group", "bind")
  /\ used' = [used EXCEPT ![n] = <<bossGroup, workerGroup>>]
  /\ UNCHANGED <<service, crashed, server, port, thrown>>

(* bind(port).sync() fails on a port that is taken, by another app too,    *)
(* and on an event loop that is shut down.                                 *)
Bind(n) ==
  /\ \/ /\ Up(n, "bind", "serving") /\ port = None /\ <<"boss", used[n][1]>> \in alive
        /\ port' = n /\ thrown' = thrown
     \/ Up(n, "bind", "finBoss") /\ thrown' = thrown \cup {n} /\ port' = port
  /\ UNCHANGED <<service, crashed, server, used>>

(* An event loop that is shut down closes its channels, and closeFuture()  *)
(* lets startUp go on to its finally block.                                *)
ChannelCloses(n) ==
  /\ Up(n, "serving", "finBoss")
  /\ <<"boss", used[n][1]>> \notin alive
  /\ port' = None
  /\ UNCHANGED <<service, crashed, server, thrown, used>>

FinallyBoss(n) ==
  /\ Up(n, "finBoss", "finWorker")
  /\ alive' = alive \ {<<"boss", bossGroup>>}
  /\ UNCHANGED <<service, crashed, isStarted, bossGroup, workerGroup, koin,
                 port, thrown, used>>

FinallyWorker(n) ==
  /\ Up(n, "finWorker", "finKoin")
  /\ alive' = alive \ {<<"worker", workerGroup>>}
  /\ UNCHANGED <<service, crashed, isStarted, bossGroup, workerGroup, koin,
                 port, thrown, used>>

FinallyKoin(n) ==
  /\ Up(n, "finKoin", "finFlag")
  /\ koin' = FALSE
  /\ UNCHANGED <<service, crashed, isStarted, bossGroup, workerGroup, alive,
                 port, thrown, used>>

(* Fault: the finally block forgets the flag. *)
FinallyKeepsFlag(n) ==
  /\ Up(n, "finFlag", "done")
  /\ IF n \in thrown THEN crashed' = TRUE ELSE crashed' = crashed
  /\ UNCHANGED <<service, server, port, thrown, used>>

(* An exception then leaves the thread, which ends the app. *)
FinallyFlag(n) ==
  /\ Up(n, "finFlag", "done")
  /\ isStarted' = FALSE
  /\ IF n \in thrown THEN crashed' = TRUE ELSE crashed' = crashed
  /\ UNCHANGED <<service, bossGroup, workerGroup, koin, alive,
                 port, thrown, used>>

startUp(n) ==
  \/ CheckStarted(n) \/ StartKoin(n) \/ MarkStarted(n)
  \/ NewBossGroup(n) \/ NewWorkerGroup(n) \/ NewGroupFails(n)
  \/ UseGroups(n) \/ Bind(n) \/ ChannelCloses(n)
  \/ FinallyBoss(n) \/ FinallyWorker(n) \/ FinallyKoin(n) \/ FinallyFlag(n)

-----------------------------------------------------------------------------
Next ==
  \/ onStartCommand \/ stopProxy \/ MainThread
  \/ \E n \in Starts : startUp(n)

(* The main thread and the other threads run whenever they can. *)
Fairness ==
  /\ WF_vars(MainThread)
  /\ \A n \in Starts : WF_vars(startUp(n))

Spec == Init /\ [][Next]_vars /\ Fairness

-----------------------------------------------------------------------------
UpStates == {"none", "check", "koin", "mark", "newBoss", "newWorker", "group", "bind",
             "serving", "finBoss", "finWorker", "finKoin", "finFlag", "done"}

(* isStarted never outlives the call of startUp that set it, so no start   *)
(* is refused for good, however the finally blocks and shutdown interleave *)
(* with later starts.                                                      *)
FlagFollowsThreads ==
  isStarted /\ ~crashed =>
    \E n \in Starts : up[n] \notin {"none", "check", "koin", "mark", "done"}

Stopping == main \in {"killAll", "stuck", "shutBoss", "shutWorker", "closeKoin", "clear"}

(* A start that finds no other startUp running ends in a server on port    *)
(* 1080, unless the app ends or a stop comes: what earlier starts, stops   *)
(* and finally blocks left in the fields of ProxyServer does not keep it   *)
(* from serving.                                                           *)
LoneStartServes ==
  \A n \in Starts :
    /\ up[n] = "check" /\ ~Stopping
    /\ \A m \in Starts \ {n} : up[m] \in {"none", "done"}
    ~> (\E m \in Starts : up[m] = "serving") \/ crashed \/ Stopping

(* A stop whose killAll returns closes the server that has the port then,  *)
(* or the app ends, also when a start that was under way has put groups of *)
(* its own into the fields that shutdown reads.                            *)
ShutdownEndsServer ==
  \A n \in Starts : main = "shutBoss" /\ port = n ~> port # n \/ crashed

(* README: startProxy starts the service and stopProxy stops it.  One that *)
(* is started, and stays so, comes to serve on port 1080 when              *)
(* onStartCommand has returned; one that is stopped, and stays so, gives   *)
(* up the port and its processes when stopProxy has returned.              *)
ServiceFollowsCalls ==
  /\ <>[](registered /\ ~crashed /\ main = "idle") => <>[](port # None)
  /\ <>[](~registered /\ ~crashed /\ main = "idle") => <>[](port = None /\ procs = 0)
=============================================================================
