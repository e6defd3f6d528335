------------------------- MODULE GuardedProcessPool -------------------------
(***************************************************************************)
(* GuardedProcessPool.kt: start() runs a command under a guard thread that *)
(* restarts it whenever it exits; killAll() stops every guard and process. *)
(*                                                                         *)
(* Threads: the callers of start(), one guard thread for each, and the     *)
(* callers of killAll().  The pool is an AtomicReference to a HashSet of   *)
(* threads; each set is a generation 0, 1, 2, ...  A step is one access to *)
(* shared state or one blocking call.                                      *)
(***************************************************************************)
EXTENDS Naturals

CONSTANTS
  Starts,        \* calls of start(); each has its Guard, named like the call
  Kills,         \* calls of killAll()
  WithCallback,  \* the calls whose onRestartCallback is not null
  OneCaller      \* all calls are made by one thread, as ProxyService does

ASSUME CallsAssumption ==
  /\ WithCallback \subseteq Starts
  /\ OneCaller \in BOOLEAN

VARIABLES
  guardThreads,  \* the generation the AtomicReference holds
  spc,           \* where a call of start() is
  host,          \* the generation it read from guardThreads
  kpc, victim,   \* where a call of killAll() is, the generation it took out
  gpc,           \* where a guard thread is
  callback,      \* looper's local: a later launch calls onRestartCallback
  pushed,        \* Guard.pushed
  excQueue,      \* Guard.excQueue, of capacity one
  intr,          \* the guard thread's interrupt flag
  process,       \* the last process of the guard
  tooFast        \* ghost: its previous process lived less than a second

guardVars == <<gpc, callback, pushed, excQueue, intr, process, tooFast>>
vars == <<guardThreads, spc, host, kpc, victim, guardVars>>

Init ==
  /\ guardThreads = 0
  /\ spc = [s \in Starts |-> "idle"]
  /\ host = [s \in Starts |-> 0]
  /\ kpc = [k \in Kills |-> "idle"]
  /\ victim = [k \in Kills |-> 0]
  /\ gpc = [s \in Starts |-> "unborn"]
  /\ callback = [s \in Starts |-> FALSE]
  /\ pushed = [s \in Starts |-> FALSE]
  /\ excQueue = [s \in Starts |-> "empty"]
  /\ intr = [s \in Starts |-> FALSE]
  /\ process = [s \in Starts |-> "none"]
  /\ tooFast = [s \in Starts |-> FALSE]

-----------------------------------------------------------------------------
(* start() *)

Busy == \/ \E s \in Starts : spc[s] \in {"synchronized", "take"}
        \/ \E k \in Kills : kpc[k] \in {"synchronized", "join"}

MayCall == OneCaller => ~Busy

StartGet(s) ==
  /\ spc[s] = "idle" /\ MayCall
  /\ host' = [host EXCEPT ![s] = guardThreads]
  /\ spc' = [spc EXCEPT ![s] = "synchronized"]
  /\ UNCHANGED <<guardThreads, kpc, victim, guardVars>>

(* killAll() holds the monitor of the set while it joins the threads. *)
MonitorFree(gen) == \A k \in Kills : kpc[k] = "join" => victim[k] # gen

(* The thread is started and added to the set. *)
StartThread(s) ==
  /\ spc[s] = "synchronized" /\ MonitorFree(host[s])
  /\ spc' = [spc EXCEPT ![s] = "take"]
  /\ gpc' = [gpc EXCEPT ![s] = "while"]
  /\ UNCHANGED <<guardThreads, host, kpc, victim, callback, pushed, excQueue, intr,
                 process, tooFast>>

(* Fault: start() does not wait for the outcome of the first launch. *)
StartDoesNotWait(s) ==
  /\ spc[s] = "take"
  /\ spc' = [spc EXCEPT ![s] = "returned"]
  /\ UNCHANGED <<guardThreads, host, kpc, victim, guardVars>>

StartTake(s) ==
  /\ spc[s] = "take" /\ excQueue[s] # "empty"
  /\ spc' = [spc EXCEPT ![s] = IF excQueue[s] = "dummy" THEN "returned" ELSE "threw"]
  /\ excQueue' = [excQueue EXCEPT ![s] = "empty"]
  /\ UNCHANGED <<guardThreads, host, kpc, victim, gpc, callback, pushed, intr, process,
                 tooFast>>

-----------------------------------------------------------------------------
(* killAll() *)

KillSwap(k) ==
  /\ kpc[k] = "idle" /\ MayCall
  /\ victim' = [victim EXCEPT ![k] = guardThreads]
  /\ guardThreads' = guardThreads + 1
  /\ kpc' = [kpc EXCEPT ![k] = "synchronized"]
  /\ UNCHANGED <<spc, host, guardVars>>

Terminated == {"dead", "uncaught"}

(* The threads in the set of a generation. *)
Members(gen) == {s \in Starts : gpc[s] # "unborn" /\ host[s] = gen}

(* Fault: the guards are not interrupted. *)
KillWithoutInterrupt(k) ==
  /\ kpc[k] = "synchronized" /\ MonitorFree(victim[k])
  /\ kpc' = [kpc EXCEPT ![k] = "join"]
  /\ UNCHANGED <<guardThreads, spc, host, victim, guardVars>>

(* interrupt() has no effect on a thread that has ended. *)
KillInterrupt(k) ==
  /\ kpc[k] = "synchronized" /\ MonitorFree(victim[k])
  /\ intr' = [s \in Starts |-> \/ intr[s]
                               \/ s \in Members(victim[k]) /\ gpc[s] \notin Terminated]
  /\ kpc' = [kpc EXCEPT ![k] = "join"]
  /\ UNCHANGED <<guardThreads, spc, host, victim, gpc, callback, pushed, excQueue, process,
                 tooFast>>

(* Fault: killAll() does not join the guards. *)
KillWithoutJoin(k) ==
  /\ kpc[k] = "join"
  /\ kpc' = [kpc EXCEPT ![k] = "done"]
  /\ UNCHANGED <<guardThreads, spc, host, victim, guardVars>>

KillJoin(k) ==
  /\ kpc[k] = "join"
  /\ \A s \in Members(victim[k]) : gpc[s] \in Terminated
  /\ kpc' = [kpc EXCEPT ![k] = "done"]
  /\ UNCHANGED <<guardThreads, spc, host, victim, guardVars>>

-----------------------------------------------------------------------------
(* Guard.looper *)

Goto(s, pc) == gpc' = [gpc EXCEPT ![s] = pc]

callerVars == <<guardThreads, spc, host, kpc, victim>>

(* Fault: "if" for "while", so a process that has exited is not run again. *)
WhileOnce(s) ==
  /\ gpc[s] = "while"
  /\ Goto(s, IF guardThreads = host[s] /\ process[s] = "none" THEN "launch" ELSE "finally")
  /\ UNCHANGED <<callerVars, callback, pushed, excQueue, intr, process, tooFast>>

While(s) ==
  /\ gpc[s] = "while"
  /\ Goto(s, IF guardThreads = host[s] THEN "launch" ELSE "finally")
  /\ UNCHANGED <<callerVars, callback, pushed, excQueue, intr, process, tooFast>>

(* ProcessBuilder.start(), then "if (callback == null) callback =          *)
(* onRestartCallback else callback()".                                     *)
Launch(s) ==
  /\ gpc[s] = "launch"
  /\ process' = [process EXCEPT ![s] = "running"]
  /\ callback' = [callback EXCEPT ![s] = s \in WithCallback]
  /\ Goto(s, IF callback[s] THEN "callback" ELSE "push")
  /\ UNCHANGED <<callerVars, pushed, excQueue, intr, tooFast>>

LaunchFails(s) ==
  /\ gpc[s] = "launch"
  /\ Goto(s, "catch")
  /\ UNCHANGED <<callerVars, callback, pushed, excQueue, intr, process, tooFast>>

CallbackReturns(s) ==
  /\ gpc[s] = "callback"
  /\ Goto(s, "push")
  /\ UNCHANGED <<callerVars, callback, pushed, excQueue, intr, process, tooFast>>

(* InterruptedException in the try block: from a sleep of the callback,    *)
(* from excQueue.put or from process.waitFor.                              *)
Interrupted(s) ==
  /\ intr[s]
  /\ gpc[s] \in {"callback", "wait"} \/ (gpc[s] = "push" /\ ~pushed[s])
  /\ intr' = [intr EXCEPT ![s] = FALSE]
  /\ Goto(s, "finally")
  /\ UNCHANGED <<callerVars, callback, pushed, excQueue, process, tooFast>>

(* pushException(e) with e = null or an IOException, and what follows it.  *)
(* put() of an interrupted thread throws even when there is room.          *)
pushException(s, e, next) ==
  /\ pushed[s] \/ ~intr[s]
  /\ pushed' = [pushed EXCEPT ![s] = TRUE]
  /\ excQueue' = [excQueue EXCEPT ![s] = IF pushed[s] THEN @ ELSE e]
  /\ Goto(s, next)
  /\ UNCHANGED <<callerVars, callback, intr, process, tooFast>>

Push(s) == gpc[s] = "push" /\ pushException(s, "dummy", "wait")

(* waitFor() of a process that has exited does not look at the flag. *)
ProcessExited(s) ==
  /\ gpc[s] = "wait" /\ process[s] = "exited"
  /\ \E b \in BOOLEAN : tooFast' = [tooFast EXCEPT ![s] = b]
  /\ Goto(s, "while")
  /\ UNCHANGED <<callerVars, callback, pushed, excQueue, intr, process>>

(* Fault: a launch that failed is reported like one that succeeded. *)
CatchHidesFailure(s) == gpc[s] = "catch" /\ pushException(s, "dummy", "finally")

Catch(s) == gpc[s] = "catch" /\ pushException(s, "IOException", "finally")

(* An InterruptedException in the catch block still runs the finally block *)
(* and then ends the thread.                                               *)
CatchInterrupted(s) ==
  /\ gpc[s] = "catch" /\ ~pushed[s] /\ intr[s]
  /\ intr' = [intr EXCEPT ![s] = FALSE]
  /\ Goto(s, "finally_throw")
  /\ UNCHANGED <<callerVars, callback, pushed, excQueue, process, tooFast>>

(* process.destroy() if there is a process *)
Destroy(s) ==
  /\ gpc[s] \in {"finally", "finally_throw"}
  /\ process' = [process EXCEPT ![s] = IF @ = "running" THEN "destroyed" ELSE @]
  /\ Goto(s, IF gpc[s] = "finally" THEN "waitFor" ELSE "waitFor_throw")
  /\ UNCHANGED <<callerVars, callback, pushed, excQueue, intr, tooFast>>

Ending == {"waitFor", "waitFor_throw"}

(* process.waitFor(), then pushException(null) *)
FinallyPush(s) ==
  /\ gpc[s] \in Ending /\ process[s] \in {"none", "exited"}
  /\ pushException(s, "dummy", IF gpc[s] = "waitFor" THEN "dead" ELSE "uncaught")

(* An InterruptedException in the finally block leaves it at once. *)
FinallyInterrupted(s) ==
  /\ gpc[s] \in Ending /\ intr[s]
  /\ process[s] = "destroyed" \/ ~pushed[s]
  /\ intr' = [intr EXCEPT ![s] = FALSE]
  /\ Goto(s, "uncaught")
  /\ UNCHANGED <<callerVars, callback, pushed, excQueue, process, tooFast>>

(* A process may end at any time. *)
Exit(s) ==
  /\ process[s] \in {"running", "destroyed"}
  /\ process' = [process EXCEPT ![s] = "exited"]
  /\ UNCHANGED <<callerVars, gpc, callback, pushed, excQueue, intr, tooFast>>

-----------------------------------------------------------------------------
StartStep(s) == StartGet(s) \/ StartThread(s) \/ StartTake(s)

KillStep(k) == KillSwap(k) \/ KillInterrupt(k) \/ KillJoin(k)

GuardStep(s) ==
  \/ While(s) \/ Launch(s) \/ LaunchFails(s) \/ CallbackReturns(s) \/ Interrupted(s)
  \/ Push(s) \/ ProcessExited(s) \/ Catch(s) \/ CatchInterrupted(s)
  \/ Destroy(s) \/ FinallyPush(s) \/ FinallyInterrupted(s)

Next ==
  \/ \E s \in Starts : StartStep(s) \/ GuardStep(s) \/ Exit(s)
  \/ \E k \in Kills : KillStep(k)

(* Every thread runs on, a callback returns, and a process that was told   *)
(* to terminate does.  Nobody has to call start() or killAll().            *)
Fairness ==
  /\ \A s \in Starts :
       /\ WF_vars(StartThread(s)) /\ WF_vars(StartTake(s))
       /\ WF_vars(GuardStep(s))
       /\ WF_vars(process[s] = "destroyed" /\ Exit(s))
  /\ \A k \in Kills : WF_vars(KillInterrupt(k)) /\ WF_vars(KillJoin(k))

Spec == Init /\ [][Next]_vars

FairSpec == Spec /\ Fairness

-----------------------------------------------------------------------------
(* Every variable has its type, and only a callback that is not null is    *)
(* ever to be called.                                                      *)
TypeOK ==
  /\ guardThreads \in Nat
  /\ spc \in [Starts -> {"idle", "synchronized", "take", "returned", "threw"}]
  /\ host \in [Starts -> Nat]
  /\ kpc \in [Kills -> {"idle", "synchronized", "join", "done"}]
  /\ victim \in [Kills -> Nat]
  /\ gpc \in [Starts -> {"unborn", "while", "launch", "callback", "push", "wait", "catch",
                         "finally", "finally_throw"} \cup Ending \cup Terminated]
  /\ callback \in [Starts -> BOOLEAN] /\ \A s \in Starts \ WithCallback : ~callback[s]
  /\ pushed \in [Starts -> BOOLEAN]
  /\ excQueue \in [Starts -> {"empty", "dummy", "IOException"}]
  /\ intr \in [Starts -> BOOLEAN]
  /\ process \in [Starts -> {"none", "running", "destroyed", "exited"}]
  /\ tooFast \in [Starts -> BOOLEAN]

(* Once killAll() has returned no process of the guards it took out runs,  *)
(* and none ever starts again: not from a guard that was between its test  *)
(* of guardThreads and ProcessBuilder.start(), and not from a start() that *)
(* read the old set before killAll() swapped it and adds to it afterwards. *)
KilledPoolIsQuiet ==
  TypeOK /\ \A k \in Kills : kpc[k] = "done" =>
    \A s \in Starts : spc[s] # "idle" /\ host[s] = victim[k] =>
      process[s] \in {"none", "exited"} /\ gpc[s] # "launch"

(* start() returns normally only if its command was run or killAll() got   *)
(* hold of its guard, and throws only if the command never ran: a failed   *)
(* restart is not reported to a caller who was told of success.            *)
StartTellsTheTruth ==
  \A s \in Starts :
    /\ spc[s] = "returned" => process[s] # "none" \/ guardThreads # host[s]
    /\ spc[s] = "threw" => process[s] = "none"

(* Nothing in the pool lets an exception escape a guard thread, which on   *)
(* Android ends the whole app, when its calls are made by one thread.      *)
NothingUncaught == \A s \in Starts : gpc[s] # "uncaught"

(* killAll() returns: no guard is left waiting for something only the      *)
(* caller of killAll() or of start() could do.                             *)
KillAllReturns == \A k \in Kills : kpc[k] # "idle" ~> kpc[k] = "done"

(* A process that lived for a second or more and exits on its own is run   *)
(* again, unless the pool is killed or it cannot be launched.  Of one that *)
(* exits sooner looper says otherwise: see FastExitStopsGuard.             *)
ProcessComesBack ==
  \A s \in Starts : gpc[s] = "while" /\ process[s] = "exited" /\ ~tooFast[s] ~>
    process[s] = "running" \/ gpc[s] = "catch" \/ guardThreads # host[s]

(* What looper logs: "process exit too fast, stop guard".                  *)
FastExitStopsGuard == \A s \in Starts : tooFast[s] => gpc[s] # "launch"
=============================================================================
