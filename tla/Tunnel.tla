------------------------------- MODULE Tunnel -------------------------------
(***************************************************************************)
(* tun2socks as a guarded process, from its launch to the moment it owns   *)
(* the VPN's file descriptor: the guard of GuardedProcessPool, the start   *)
(* of tun2socks' main(), and ProxyService.sendFd, which the service's main *)
(* thread calls after start() and the guard thread after each restart.     *)
(*                                                                         *)
(* process[s] of the pool is refined by phase[s], what main() is doing.    *)
(***************************************************************************)
EXTENDS GuardedProcessPool

CONSTANTS
  MaxTries,      \* sendFd gives up after this many failures (10 in the code)
  SdkVersions    \* the values of Build.VERSION.SDK_INT to consider

ASSUME TriesAssumption == MaxTries \in Nat \ {0} /\ SdkVersions \subseteq Nat

VARIABLES
  SDK_INT,   \* the device's Android version
  phase,     \* of a live process: boot, accept (its signals are blocked), loop
  backlog,   \* file descriptors sent to its socket and not yet received
  path,      \* the process that listens at sock_path, if any
  sender,    \* sendFd on the main thread: idle, busy, sent or gave_up
  tries,     \* its failures so far
  cbTries    \* failures of sendFd in the guard's callback since the last launch

procVars == <<phase, backlog, path>>
sendVars == <<sender, tries, cbTries>>
tunnelVars == <<vars, SDK_INT, procVars, sendVars>>

NoProcess == "no process"

TInit ==
  /\ Init
  /\ SDK_INT \in SdkVersions
  /\ phase = [s \in Starts |-> "none"]
  /\ backlog = [s \in Starts |-> 0]
  /\ path = NoProcess
  /\ sender = [s \in Starts |-> "idle"]
  /\ tries = [s \in Starts |-> 0]
  /\ cbTries = [s \in Starts |-> 0]

-----------------------------------------------------------------------------
(* The main thread: start(), sendFd, and later killAll() *)

MainFree == \A s \in Starts : sender[s] # "busy"

TStart(s) ==
  /\ (StartGet(s) /\ MainFree) \/ StartThread(s)
  /\ UNCHANGED <<SDK_INT, procVars, sendVars>>

(* Fault: only restarted processes are sent the descriptor. *)
StartWithoutSendFd(s) == StartTake(s) /\ UNCHANGED <<SDK_INT, procVars, sendVars>>

(* start() returns and sendFd begins. *)
TStartTake(s) ==
  /\ StartTake(s)
  /\ sender' = [sender EXCEPT ![s] = IF spc'[s] = "returned" THEN "busy" ELSE @]
  /\ UNCHANGED <<SDK_INT, procVars, tries, cbTries>>

TKill(k) ==
  /\ (KillSwap(k) /\ MainFree) \/ KillInterrupt(k) \/ KillJoin(k)
  /\ UNCHANGED <<SDK_INT, procVars, sendVars>>

(* connect() and ancil_send_fd succeed if somebody listens at the path. *)
CanSend == path # NoProcess

Deliver == backlog' = [backlog EXCEPT ![path] = @ + 1]

(* One sleep and one attempt of the main thread's sendFd. *)
sendFd(s) ==
  /\ sender[s] = "busy"
  /\ IF CanSend
     THEN /\ Deliver
          /\ sender' = [sender EXCEPT ![s] = "sent"]
          /\ UNCHANGED tries
     ELSE /\ tries' = [tries EXCEPT ![s] = @ + 1]
          /\ sender' = [sender EXCEPT ![s] = IF tries'[s] < MaxTries THEN @ ELSE "gave_up"]
          /\ UNCHANGED backlog
  /\ UNCHANGED <<vars, SDK_INT, phase, path, cbTries>>

-----------------------------------------------------------------------------
(* The guard thread *)

TLaunch(s) ==
  /\ Launch(s)
  /\ phase' = [phase EXCEPT ![s] = "boot"]
  /\ cbTries' = [cbTries EXCEPT ![s] = 0]
  /\ UNCHANGED <<SDK_INT, backlog, path, sender, tries>>

(* Fault: the callback returns after its first attempt. *)
CallbackTriesOnce(s) ==
  /\ CallbackReturns(s)
  /\ IF CanSend THEN Deliver ELSE UNCHANGED backlog
  /\ UNCHANGED <<SDK_INT, phase, path, sendVars>>

(* The callback is sendFd: it returns after a success or MaxTries failures. *)
TCallback(s) ==
  /\ CanSend \/ cbTries[s] + 1 >= MaxTries
  /\ CallbackReturns(s)
  /\ IF CanSend THEN Deliver /\ UNCHANGED cbTries
     ELSE UNCHANGED backlog /\ cbTries' = [cbTries EXCEPT ![s] = MaxTries]
  /\ UNCHANGED <<SDK_INT, phase, path, sender, tries>>

(* A failure; the next sleep of an interrupted thread throws. *)
TCallbackRetry(s) ==
  /\ gpc[s] = "callback" /\ ~intr[s]
  /\ ~CanSend /\ cbTries[s] + 1 < MaxTries
  /\ cbTries' = [cbTries EXCEPT ![s] = @ + 1]
  /\ UNCHANGED <<vars, SDK_INT, procVars, sender, tries>>

OtherGuardStep(s) ==
  \/ While(s) \/ LaunchFails(s) \/ Interrupted(s) \/ Push(s) \/ ProcessExited(s)
  \/ Catch(s) \/ CatchInterrupted(s) \/ Destroy(s) \/ FinallyPush(s) \/ FinallyInterrupted(s)

TGuard(s) ==
  \/ TLaunch(s) \/ TCallback(s) \/ TCallbackRetry(s)
  \/ OtherGuardStep(s) /\ UNCHANGED <<SDK_INT, procVars, sendVars>>

-----------------------------------------------------------------------------
(* main() of tun2socks *)

Alive(s) == process[s] \in {"running", "destroyed"}

(* BSignal_Init blocks SIGTERM, then unlink, bind and listen. *)
Boot(s) ==
  /\ Alive(s) /\ phase[s] = "boot"
  /\ phase' = [phase EXCEPT ![s] = "accept"]
  /\ path' = s
  /\ UNCHANGED <<vars, SDK_INT, backlog, sendVars>>

(* accept(), ancil_recv_fd and close(sock); then on to the event loop. *)
AcceptFd(s) ==
  /\ Alive(s) /\ phase[s] = "accept" /\ backlog[s] > 0
  /\ phase' = [phase EXCEPT ![s] = "loop"]
  /\ backlog' = [backlog EXCEPT ![s] = 0]
  /\ path' = IF path = s THEN NoProcess ELSE path
  /\ UNCHANGED <<vars, SDK_INT, sendVars>>

(* The process ends: it failed, it was killed or it left the event loop. *)
TExit(s) ==
  /\ Exit(s)
  /\ phase' = [phase EXCEPT ![s] = "none"]
  /\ backlog' = [backlog EXCEPT ![s] = 0]
  /\ path' = IF path = s THEN NoProcess ELSE path
  /\ UNCHANGED <<SDK_INT, sendVars>>

(* Fault: the event loop does not watch the signalfd. *)
LoopIgnoresSigterm(s) ==
  /\ process[s] = "destroyed"
  /\ SDK_INT < 24 \/ phase[s] = "boot"

(* destroy() is SIGTERM since API 24 and was SIGKILL before.  SIGTERM ends *)
(* a process that does not block it yet, and the event loop, which reads   *)
(* it from its signalfd.                                                   *)
DestroyTakesEffect(s) ==
  /\ process[s] = "destroyed"
  /\ SDK_INT < 24 \/ phase[s] \in {"boot", "loop"}

-----------------------------------------------------------------------------
TNext ==
  \/ \E s \in Starts :
       TStart(s) \/ TStartTake(s) \/ sendFd(s) \/ TGuard(s) \/ Boot(s) \/ AcceptFd(s) \/ TExit(s)
  \/ \E k \in Kills : TKill(k)

TFairness ==
  /\ \A s \in Starts :
       /\ WF_tunnelVars(StartThread(s) /\ TStart(s)) /\ WF_tunnelVars(TStartTake(s))
       /\ WF_tunnelVars(sendFd(s)) /\ WF_tunnelVars(TGuard(s))
       /\ WF_tunnelVars(Boot(s)) /\ WF_tunnelVars(AcceptFd(s))
       /\ WF_tunnelVars(DestroyTakesEffect(s) /\ TExit(s))
  /\ \A k \in Kills : WF_tunnelVars((KillInterrupt(k) \/ KillJoin(k)) /\ TKill(k))

TSpec == TInit /\ [][TNext]_tunnelVars /\ TFairness

-----------------------------------------------------------------------------
(* Every variable has its type; in particular no sendFd tries more than    *)
(* MaxTries times.                                                         *)
TTypeOK ==
  /\ TypeOK
  /\ SDK_INT \in SdkVersions
  /\ phase \in [Starts -> {"none", "boot", "accept", "loop"}]
  /\ backlog \in [Starts -> Nat]
  /\ path \in Starts \cup {NoProcess}
  /\ sender \in [Starts -> {"idle", "busy", "sent", "gave_up"}]
  /\ tries \in [Starts -> 0..MaxTries] /\ cbTries \in [Starts -> 0..MaxTries]

(* No tun2socks is forgotten.  While one waits for the descriptor, the     *)
(* descriptor is on its way, somebody is still going to send it, all       *)
(* attempts were used up, or the guard is on its way to destroy it; so the *)
(* first process, which the callback leaves out, and every restarted one,  *)
(* which the main thread does not know of, are both served.                *)
NoProcessForgotten ==
  TTypeOK /\ \A s \in Starts : process[s] = "running" /\ phase[s] \in {"boot", "accept"} =>
    \/ backlog[s] > 0
    \/ spc[s] = "take" \/ sender[s] \in {"busy", "gave_up"}
    \/ gpc[s] \in {"callback", "finally", "finally_throw"} \/ cbTries[s] = MaxTries

(* A launched tun2socks reaches its event loop, unless it ends, the        *)
(* attempts to send it the descriptor are used up, or it is destroyed.     *)
TunnelComesUp ==
  \A s \in Starts : phase[s] = "boot" ~>
    \/ phase[s] \in {"loop", "none"} \/ process[s] = "destroyed"
    \/ sender[s] = "gave_up" \/ cbTries[s] = MaxTries

(* The promise of looper's last waitFor(): "ensure the process is          *)
(* destroyed".                                                             *)
ProcessIsDestroyed ==
  \A s \in Starts : process[s] = "destroyed" ~> process[s] = "exited"

(* killAll() returns, unless on API 24 and later it has to destroy a       *)
(* tun2socks that is still waiting for the descriptor.                     *)
KillAllReturnsOnceUp ==
  \A k \in Kills : kpc[k] # "idle" ~>
    \/ kpc[k] = "done"
    \/ \E s \in Starts : SDK_INT >= 24 /\ process[s] = "destroyed" /\ phase[s] = "accept"
=============================================================================
