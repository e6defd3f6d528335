------------------------ MODULE LocalSocketListener ------------------------
(***************************************************************************)
(* LocalSocketListener.kt as ProxyService uses it: every start of the      *)
(* service spawns a ProtectWorker that listens on the socket file          *)
(* protect_path, where the proxy has its sockets protected.  Nothing stops *)
(* the worker of an earlier start, and all of them use the same name.      *)
(***************************************************************************)
EXTENDS Naturals

CONSTANT MaxWorkers   \* bound: starts, each with its ProtectWorker

ASSUME ListenerAssumption == MaxWorkers \in Nat \ {0}

VARIABLES
  spawned,   \* ProtectWorkers so far, numbered in the order of their starts
  worker,    \* where each one is
  path       \* the worker whose socket protect_path names, NoWorker if none

listenerVars == <<spawned, worker, path>>

Workers == 1..MaxWorkers
NoWorker == 0

ListenerInit ==
  /\ spawned = 0 /\ path = NoWorker
  /\ worker = [n \in Workers |-> "none"]

-----------------------------------------------------------------------------
(* startProxy: ProtectWorker().start() *)
Spawn ==
  /\ spawned < MaxWorkers /\ spawned' = spawned + 1
  /\ worker' = [worker EXCEPT ![spawned'] = "delete"]
  /\ path' = path

(* socketFile.delete() takes the name from an earlier listener, whose      *)
(* socket stays open.                                                      *)
DeleteSocketFile(n) ==
  /\ worker[n] = "delete"
  /\ worker' = [worker EXCEPT ![n] = "bind"]
  /\ path' = NoWorker
  /\ spawned' = spawned

(* Fault: a listener that cannot bind deletes the file. *)
BindCleansUp(n) ==
  /\ worker[n] = "bind"
  /\ \/ path = NoWorker /\ worker' = [worker EXCEPT ![n] = "accepting"] /\ path' = n
     \/ path # NoWorker /\ worker' = [worker EXCEPT ![n] = "done"] /\ path' = NoWorker
  /\ spawned' = spawned

(* localSocket.bind fails when another listener has taken the name, and    *)
(* run returns.                                                            *)
BindSocket(n) ==
  /\ worker[n] = "bind"
  /\ \/ path = NoWorker /\ worker' = [worker EXCEPT ![n] = "accepting"] /\ path' = n
     \/ path # NoWorker /\ worker' = [worker EXCEPT ![n] = "done"] /\ path' = path
  /\ spawned' = spawned

ListenerNext == Spawn \/ \E n \in Workers : DeleteSocketFile(n) \/ BindSocket(n)

ListenerSpec == ListenerInit /\ [][ListenerNext]_listenerVars

-----------------------------------------------------------------------------
(* When the ProtectWorkers have settled, protect_path leads to one that    *)
(* accepts, in whatever order several of them deleted and bound it: the    *)
(* sockets of the proxy can be protected.                                  *)
ProtectPathServed ==
  spawned > 0 /\ (\A n \in Workers : worker[n] \notin {"delete", "bind"}) =>
    path # NoWorker /\ worker[path] = "accepting"
=============================================================================
