----------------------------- MODULE VpnSystem -----------------------------
(***************************************************************************)
(* The calls of the API together with the ProtectWorkers they lead to:     *)
(* Android passes every start request that HelperActivity makes on to      *)
(* onStartCommand, on the main thread and while no callback runs there,    *)
(* and onStartCommand spawns a worker.  The workers end with the app.      *)
(***************************************************************************)
EXTENDS VpnHelper, LocalSocketListener

SystemVars == <<vpnVars, listenerVars>>

SystemInit == VpnInit /\ ListenerInit

StartDelivered ==
  /\ MainFree
  /\ spawned < Cardinality({n \in done : op[n] = "start"})
  /\ Spawn
  /\ UNCHANGED vpnVars

WorkerRuns(n) ==
  /\ ~died
  /\ DeleteSocketFile(n) \/ BindSocket(n)
  /\ UNCHANGED vpnVars

SystemNext ==
  \/ VpnNext /\ UNCHANGED listenerVars
  \/ StartDelivered
  \/ \E n \in Workers : WorkerRuns(n)

SystemSpec == SystemInit /\ [][SystemNext]_SystemVars /\ VpnFairness
=============================================================================
