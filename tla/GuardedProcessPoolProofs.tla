---------------------- MODULE GuardedProcessPoolProofs ----------------------
(***************************************************************************)
(* Proofs about the pool for every number of calls of start() and of       *)
(* killAll(), on one thread or on many: after killAll() nothing of the     *)
(* guards it took out runs or starts again, and start() tells its caller   *)
(* the truth about the first launch; with one calling thread no exception  *)
(* escapes a guard.                                                        *)
(*                                                                         *)
(* Then about the tunnel, which is built on the pool: it implements the    *)
(* pool, so all of this holds of it; and the one tun2socks of the service  *)
(* is never forgotten, however often it is restarted.                      *)
(***************************************************************************)
EXTENDS Tunnel, TLAPS

Gone == {"none", "exited"}

\* Where a guard may be whose set was taken out before its thread was added,
\* or which has ended.
Quiet == {"unborn", "while", "finally", "finally_throw"} \cup Ending \cup Terminated

\* killAll() took the set of s out and has interrupted the threads in it.
Taken(s) == \E k \in Kills : kpc[k] \in {"join", "done"} /\ victim[k] = host[s]

\* A set is taken out once: by the call that swapped it.
KillInv ==
  /\ \A k \in Kills : kpc[k] # "idle" => victim[k] < guardThreads
  /\ \A k, l \in Kills :
       kpc[k] # "idle" /\ kpc[l] # "idle" /\ victim[k] = victim[l] => k = l

\* What the place of a guard says about its process.
ProcessInv(s) ==
  /\ gpc[s] = "unborn" => process[s] = "none"
  /\ gpc[s] \in {"while", "launch", "catch"} =>
       process[s] \in Gone /\ (~pushed[s] => process[s] = "none")
  /\ gpc[s] \in {"callback", "push", "wait"} => process[s] \in {"running", "exited"}
  /\ gpc[s] = "finally" => process[s] # "destroyed"
  /\ gpc[s] = "finally_throw" => process[s] \in Gone
  /\ gpc[s] \in Ending => process[s] # "running"
  /\ gpc[s] \in Terminated => process[s] \in Gone

\* A guard is interrupted once; if its process was running then, the flag is
\* used up before destroy(), so that waitFor() is not interrupted.
InterruptInv(s) ==
  /\ gpc[s] = "unborn" => ~intr[s]
  /\ intr[s] => Taken(s)
  /\ process[s] = "destroyed" \/ (process[s] = "running" /\ gpc[s] = "finally")
       => ~intr[s] /\ Taken(s)

\* What was, or will be, put into the queue of s.
QueueInv(s) ==
  /\ gpc[s] = "unborn" => ~pushed[s]
  /\ gpc[s] = "wait" => pushed[s]
  /\ gpc[s] \in {"finally", "finally_throw"} \cup Ending /\ ~pushed[s] => host[s] < guardThreads
  /\ ~pushed[s] => excQueue[s] = "empty" /\ spc[s] \notin {"returned", "threw"}
  /\ excQueue[s] = "dummy" \/ spc[s] = "returned" => process[s] # "none" \/ host[s] < guardThreads
  /\ excQueue[s] = "IOException" \/ spc[s] = "threw" =>
       process[s] = "none" /\ pushed[s] /\ gpc[s] \in {"finally", "waitFor", "dead"}

QuietInv(s) ==
  \A k \in Kills : kpc[k] = "done" /\ spc[s] # "idle" /\ host[s] = victim[k] =>
    gpc[s] \in Quiet /\ process[s] \in Gone

GuardInv(s) ==
  /\ host[s] <= guardThreads
  /\ spc[s] \in {"idle", "synchronized"} <=> gpc[s] = "unborn"
  /\ ProcessInv(s) /\ InterruptInv(s) /\ QueueInv(s) /\ QuietInv(s)

\* The inductive invariant.
PoolInv == TypeOK /\ KillInv /\ \A s \in Starts : GuardInv(s)

LEMMA PoolInit == Init => PoolInv
  BY DEF Init, PoolInv, TypeOK, KillInv, GuardInv, ProcessInv, InterruptInv, QueueInv, QuietInv,
         Ending, Terminated

LEMMA TakenIsOld == ASSUME KillInv, NEW s \in Starts, Taken(s) PROVE host[s] < guardThreads
  BY DEF KillInv, Taken

\* A step of one guard, or of its process, leaves the other guards alone.
LEMMA OneGuard ==
  ASSUME PoolInv, NEW s \in Starts, TypeOK', UNCHANGED callerVars, GuardInv(s)',
         \A t \in Starts \ {s} :
           /\ gpc'[t] = gpc[t] /\ process'[t] = process[t] /\ intr'[t] = intr[t]
           /\ pushed'[t] = pushed[t] /\ excQueue'[t] = excQueue[t]
  PROVE  PoolInv'
<1>1. KillInv'
  BY DEF PoolInv, KillInv, callerVars
<1>2. ASSUME NEW t \in Starts, t # s PROVE GuardInv(t)'
  BY <1>2 DEF PoolInv, GuardInv, ProcessInv, InterruptInv, QueueInv, QuietInv, Taken, callerVars
<1> QED BY <1>1, <1>2 DEF PoolInv

LEMMA WhileKeeps ==
  ASSUME PoolInv, NEW s \in Starts, While(s) PROVE PoolInv'
<1>1. TypeOK'
  BY DEF While, Goto, callerVars, PoolInv, TypeOK
<1>2. /\ UNCHANGED <<callerVars, process, intr, pushed, excQueue>>
      /\ gpc[s] = "while" /\ gpc'[s] = IF guardThreads = host[s] THEN "launch" ELSE "finally"
      /\ \A t \in Starts \ {s} : gpc'[t] = gpc[t]
  BY DEF While, Goto, PoolInv, TypeOK
<1>3. \A k \in Kills : kpc[k] = "done" /\ host[s] = victim[k] => guardThreads # host[s]
  BY DEF PoolInv, KillInv, TypeOK
<1>4. GuardInv(s)'
  BY <1>2, <1>3 DEF PoolInv, TypeOK, GuardInv, ProcessInv, InterruptInv, QueueInv, QuietInv, Taken,
     Gone, Quiet, Ending, Terminated, callerVars
<1> QED BY <1>1, <1>2, <1>4, OneGuard DEF callerVars

LEMMA LaunchKeeps ==
  ASSUME PoolInv, NEW s \in Starts, Launch(s) PROVE PoolInv'
<1>1. TypeOK'
  BY CallsAssumption DEF Launch, Goto, callerVars, PoolInv, TypeOK, Ending, Terminated
<1>2. /\ UNCHANGED <<callerVars, intr, pushed, excQueue>>
      /\ gpc[s] = "launch" /\ gpc'[s] \in {"callback", "push"} /\ process'[s] = "running"
      /\ \A t \in Starts \ {s} : gpc'[t] = gpc[t] /\ process'[t] = process[t]
  BY DEF Launch, Goto, PoolInv, TypeOK
<1>4. GuardInv(s)'
  BY <1>2 DEF PoolInv, TypeOK, GuardInv, ProcessInv, InterruptInv, QueueInv, QuietInv, Taken,
     Gone, Quiet, Ending, Terminated, callerVars
<1> QED BY <1>1, <1>2, <1>4, OneGuard DEF callerVars

LEMMA LaunchFailsKeeps ==
  ASSUME PoolInv, NEW s \in Starts, LaunchFails(s) PROVE PoolInv'
<1>1. TypeOK'
  BY CallsAssumption DEF LaunchFails, Goto, callerVars, PoolInv, TypeOK, Ending, Terminated
<1>2. /\ UNCHANGED <<callerVars, process, intr, pushed, excQueue>>
      /\ gpc[s] = "launch" /\ gpc'[s] = "catch"
      /\ \A t \in Starts \ {s} : gpc'[t] = gpc[t]
  BY DEF LaunchFails, Goto, PoolInv, TypeOK
<1>4. GuardInv(s)'
  BY <1>2 DEF PoolInv, TypeOK, GuardInv, ProcessInv, InterruptInv, QueueInv, QuietInv, Taken,
     Gone, Quiet, Ending, Terminated, callerVars
<1> QED BY <1>1, <1>2, <1>4, OneGuard DEF callerVars

LEMMA CallbackReturnsKeeps ==
  ASSUME PoolInv, NEW s \in Starts, CallbackReturns(s) PROVE PoolInv'
<1>1. TypeOK'
  BY CallsAssumption DEF CallbackReturns, Goto, callerVars, PoolInv, TypeOK, Ending, Terminated
<1>2. /\ UNCHANGED <<callerVars, process, intr, pushed, excQueue>>
      /\ gpc[s] = "callback" /\ gpc'[s] = "push"
      /\ \A t \in Starts \ {s} : gpc'[t] = gpc[t]
  BY DEF CallbackReturns, Goto, PoolInv, TypeOK
<1>4. GuardInv(s)'
  BY <1>2 DEF PoolInv, TypeOK, GuardInv, ProcessInv, InterruptInv, QueueInv, QuietInv, Taken,
     Gone, Quiet, Ending, Terminated, callerVars
<1> QED BY <1>1, <1>2, <1>4, OneGuard DEF callerVars

LEMMA InterruptedKeeps ==
  ASSUME PoolInv, NEW s \in Starts, Interrupted(s) PROVE PoolInv'
<1>1. TypeOK'
  BY CallsAssumption DEF Interrupted, Goto, callerVars, PoolInv, TypeOK, Ending, Terminated
<1>2. /\ UNCHANGED <<callerVars, process, pushed, excQueue>>
      /\ gpc[s] \in {"callback", "push", "wait"} /\ gpc'[s] = "finally"
      /\ intr[s] /\ ~intr'[s]
      /\ \A t \in Starts \ {s} : gpc'[t] = gpc[t] /\ intr'[t] = intr[t]
  BY DEF Interrupted, Goto, PoolInv, TypeOK
<1>3. host[s] < guardThreads
  BY <1>2, TakenIsOld DEF PoolInv, GuardInv, InterruptInv
<1>4. GuardInv(s)'
  BY <1>2, <1>3 DEF PoolInv, TypeOK, GuardInv, ProcessInv, InterruptInv, QueueInv, QuietInv, Taken,
     Gone, Quiet, Ending, Terminated, callerVars
<1> QED BY <1>1, <1>2, <1>4, OneGuard DEF callerVars

LEMMA ProcessExitedKeeps ==
  ASSUME PoolInv, NEW s \in Starts, ProcessExited(s) PROVE PoolInv'
<1>1. TypeOK'
  BY CallsAssumption DEF ProcessExited, Goto, callerVars, PoolInv, TypeOK, Ending, Terminated
<1>2. /\ UNCHANGED <<callerVars, process, intr, pushed, excQueue>>
      /\ gpc[s] = "wait" /\ process[s] = "exited" /\ gpc'[s] = "while"
      /\ \A t \in Starts \ {s} : gpc'[t] = gpc[t]
  BY DEF ProcessExited, Goto, PoolInv, TypeOK
<1>4. GuardInv(s)'
  BY <1>2 DEF PoolInv, TypeOK, GuardInv, ProcessInv, InterruptInv, QueueInv, QuietInv, Taken,
     Gone, Quiet, Ending, Terminated, callerVars
<1> QED BY <1>1, <1>2, <1>4, OneGuard DEF callerVars

LEMMA PushKeeps ==
  ASSUME PoolInv, NEW s \in Starts, Push(s) PROVE PoolInv'
<1>1. TypeOK'
  BY CallsAssumption DEF Push, Goto, pushException, callerVars, PoolInv, TypeOK, Ending, Terminated
<1>2. /\ UNCHANGED <<callerVars, process, intr>>
      /\ gpc[s] = "push" /\ gpc'[s] = "wait" /\ pushed'[s]
      /\ excQueue'[s] = IF pushed[s] THEN excQueue[s] ELSE "dummy"
      /\ \A t \in Starts \ {s} : gpc'[t] = gpc[t] /\ pushed'[t] = pushed[t] /\ excQueue'[t] = excQueue[t]
  BY DEF Push, Goto, pushException, PoolInv, TypeOK
<1>4. GuardInv(s)'
  BY <1>2 DEF PoolInv, TypeOK, GuardInv, ProcessInv, InterruptInv, QueueInv, QuietInv, Taken,
     Gone, Quiet, Ending, Terminated, callerVars
<1> QED BY <1>1, <1>2, <1>4, OneGuard DEF callerVars

LEMMA CatchKeeps ==
  ASSUME PoolInv, NEW s \in Starts, Catch(s) PROVE PoolInv'
<1>1. TypeOK'
  BY CallsAssumption DEF Catch, Goto, pushException, callerVars, PoolInv, TypeOK, Ending, Terminated
<1>2. /\ UNCHANGED <<callerVars, process, intr>>
      /\ gpc[s] = "catch" /\ gpc'[s] = "finally" /\ pushed'[s]
      /\ excQueue'[s] = IF pushed[s] THEN excQueue[s] ELSE "IOException"
      /\ \A t \in Starts \ {s} : gpc'[t] = gpc[t] /\ pushed'[t] = pushed[t] /\ excQueue'[t] = excQueue[t]
  BY DEF Catch, Goto, pushException, PoolInv, TypeOK
<1>4. GuardInv(s)'
  BY <1>2 DEF PoolInv, TypeOK, GuardInv, ProcessInv, InterruptInv, QueueInv, QuietInv, Taken,
     Gone, Quiet, Ending, Terminated, callerVars
<1> QED BY <1>1, <1>2, <1>4, OneGuard DEF callerVars

LEMMA CatchInterruptedKeeps ==
  ASSUME PoolInv, NEW s \in Starts, CatchInterrupted(s) PROVE PoolInv'
<1>1. TypeOK'
  BY CallsAssumption DEF CatchInterrupted, Goto, callerVars, PoolInv, TypeOK, Ending, Terminated
<1>2. /\ UNCHANGED <<callerVars, process, pushed, excQueue>>
      /\ gpc[s] = "catch" /\ gpc'[s] = "finally_throw"
      /\ intr[s] /\ ~intr'[s]
      /\ \A t \in Starts \ {s} : gpc'[t] = gpc[t] /\ intr'[t] = intr[t]
  BY DEF CatchInterrupted, Goto, PoolInv, TypeOK
<1>3. host[s] < guardThreads
  BY <1>2, TakenIsOld DEF PoolInv, GuardInv, InterruptInv
<1>4. GuardInv(s)'
  BY <1>2, <1>3 DEF PoolInv, TypeOK, GuardInv, ProcessInv, InterruptInv, QueueInv, QuietInv, Taken,
     Gone, Quiet, Ending, Terminated, callerVars
<1> QED BY <1>1, <1>2, <1>4, OneGuard DEF callerVars

LEMMA DestroyKeeps ==
  ASSUME PoolInv, NEW s \in Starts, Destroy(s) PROVE PoolInv'
<1>1. TypeOK'
  BY CallsAssumption DEF Destroy, Goto, callerVars, PoolInv, TypeOK, Ending, Terminated
<1>2. /\ UNCHANGED <<callerVars, intr, pushed, excQueue>>
      /\ \/ gpc[s] = "finally" /\ gpc'[s] = "waitFor"
         \/ gpc[s] = "finally_throw" /\ gpc'[s] = "waitFor_throw"
      /\ process'[s] = IF process[s] = "running" THEN "destroyed" ELSE process[s]
      /\ \A t \in Starts \ {s} : gpc'[t] = gpc[t] /\ process'[t] = process[t]
  BY DEF Destroy, Goto, PoolInv, TypeOK
<1>4. GuardInv(s)'
  BY <1>2 DEF PoolInv, TypeOK, GuardInv, ProcessInv, InterruptInv, QueueInv, QuietInv, Taken,
     Gone, Quiet, Ending, Terminated, callerVars
<1> QED BY <1>1, <1>2, <1>4, OneGuard DEF callerVars

LEMMA FinallyPushKeeps ==
  ASSUME PoolInv, NEW s \in Starts, FinallyPush(s) PROVE PoolInv'
<1>1. TypeOK'
  BY CallsAssumption DEF FinallyPush, Goto, pushException, Ending, Gone, callerVars, PoolInv, TypeOK, Ending, Terminated
<1>2. /\ UNCHANGED <<callerVars, process, intr>>
      /\ process[s] \in Gone /\ pushed'[s]
      /\ \/ gpc[s] = "waitFor" /\ gpc'[s] = "dead"
         \/ gpc[s] = "waitFor_throw" /\ gpc'[s] = "uncaught"
      /\ excQueue'[s] = IF pushed[s] THEN excQueue[s] ELSE "dummy"
      /\ \A t \in Starts \ {s} : gpc'[t] = gpc[t] /\ pushed'[t] = pushed[t] /\ excQueue'[t] = excQueue[t]
  BY DEF FinallyPush, Goto, pushException, Ending, Gone, PoolInv, TypeOK
<1>4. GuardInv(s)'
  BY <1>2 DEF PoolInv, TypeOK, GuardInv, ProcessInv, InterruptInv, QueueInv, QuietInv, Taken,
     Gone, Quiet, Ending, Terminated, callerVars
<1> QED BY <1>1, <1>2, <1>4, OneGuard DEF callerVars

\* An interrupt that ends waitFor() finds the process gone: had it been running,
\* the one interrupt of this guard would have been used up before.
LEMMA FinallyInterruptedKeeps ==
  ASSUME PoolInv, NEW s \in Starts, FinallyInterrupted(s) PROVE PoolInv'
<1>1. TypeOK'
  BY CallsAssumption DEF FinallyInterrupted, Goto, callerVars, PoolInv, TypeOK, Ending, Terminated
<1>2. /\ UNCHANGED <<callerVars, process, pushed, excQueue>>
      /\ gpc[s] \in Ending /\ gpc'[s] = "uncaught"
      /\ process[s] = "destroyed" \/ ~pushed[s]
      /\ intr[s] /\ ~intr'[s]
      /\ \A t \in Starts \ {s} : gpc'[t] = gpc[t] /\ intr'[t] = intr[t]
  BY DEF FinallyInterrupted, Goto, PoolInv, TypeOK
<1>4. GuardInv(s)'
  BY <1>2 DEF PoolInv, TypeOK, GuardInv, ProcessInv, InterruptInv, QueueInv, QuietInv, Taken,
     Gone, Quiet, Ending, Terminated, callerVars
<1> QED BY <1>1, <1>2, <1>4, OneGuard DEF callerVars

LEMMA ExitKeeps ==
  ASSUME PoolInv, NEW s \in Starts, Exit(s) PROVE PoolInv'
<1>1. TypeOK'
  BY CallsAssumption DEF Exit, Goto, callerVars, PoolInv, TypeOK, Ending, Terminated
<1>2. /\ UNCHANGED <<callerVars, intr, pushed, excQueue>>
      /\ process[s] \in {"running", "destroyed"} /\ process'[s] = "exited" /\ gpc' = gpc
      /\ \A t \in Starts \ {s} : gpc'[t] = gpc[t] /\ process'[t] = process[t]
  BY DEF Exit, Goto, PoolInv, TypeOK
<1>4. GuardInv(s)'
  BY <1>2 DEF PoolInv, TypeOK, GuardInv, ProcessInv, InterruptInv, QueueInv, QuietInv, Taken,
     Gone, Quiet, Ending, Terminated, callerVars
<1> QED BY <1>1, <1>2, <1>4, OneGuard DEF callerVars

\* What happens to one start() and its guard leaves the others alone.
LEMMA OtherGuard ==
  ASSUME PoolInv, NEW t \in Starts, UNCHANGED <<guardThreads, kpc, victim>>,
         spc'[t] = spc[t], host'[t] = host[t], gpc'[t] = gpc[t], process'[t] = process[t],
         intr'[t] = intr[t], pushed'[t] = pushed[t], excQueue'[t] = excQueue[t]
  PROVE  GuardInv(t)'
<1>1. GuardInv(t)
  BY DEF PoolInv
<1>2. ProcessInv(t)'
  BY <1>1 DEF GuardInv, ProcessInv
<1>3. InterruptInv(t)'
  BY <1>1 DEF GuardInv, InterruptInv, Taken
<1>4. QueueInv(t)'
  BY <1>1 DEF GuardInv, QueueInv
<1>5. QuietInv(t)'
  BY <1>1 DEF GuardInv, QuietInv
<1> QED BY <1>1, <1>2, <1>3, <1>4, <1>5 DEF GuardInv

\* start() reads the current set, which no killAll() has taken out.
LEMMA StartGetKeeps ==
  ASSUME PoolInv, NEW s \in Starts, StartGet(s) PROVE PoolInv'
<1>1. TypeOK'
  BY DEF StartGet, guardVars, PoolInv, TypeOK
<1>2. /\ UNCHANGED <<guardThreads, kpc, victim, gpc, process, intr, pushed, excQueue>>
      /\ spc[s] = "idle" /\ spc'[s] = "synchronized" /\ host'[s] = guardThreads
      /\ \A t \in Starts \ {s} : host'[t] = host[t] /\ spc'[t] = spc[t]
  BY DEF StartGet, guardVars, PoolInv, TypeOK
<1>3. KillInv'
  BY <1>2 DEF PoolInv, KillInv
<1>4. \A k \in Kills : kpc[k] = "done" => victim[k] # guardThreads
  BY DEF PoolInv, KillInv, TypeOK
<1>5. GuardInv(s)'
  BY <1>2, <1>4 DEF PoolInv, TypeOK, GuardInv, ProcessInv, InterruptInv, QueueInv, QuietInv, Taken,
     Gone, Quiet, Ending, Terminated
<1>6. ASSUME NEW t \in Starts, t # s PROVE GuardInv(t)'
  BY <1>2, <1>6, OtherGuard
<1> QED BY <1>1, <1>3, <1>5, <1>6 DEF PoolInv

LEMMA StartThreadKeeps ==
  ASSUME PoolInv, NEW s \in Starts, StartThread(s) PROVE PoolInv'
<1>1. TypeOK'
  BY DEF StartThread, PoolInv, TypeOK
<1>2. /\ UNCHANGED <<guardThreads, kpc, victim, host, process, intr, pushed, excQueue>>
      /\ spc[s] = "synchronized" /\ spc'[s] = "take" /\ gpc'[s] = "while"
      /\ \A t \in Starts \ {s} : gpc'[t] = gpc[t] /\ spc'[t] = spc[t]
  BY DEF StartThread, PoolInv, TypeOK
<1>3. KillInv'
  BY <1>2 DEF PoolInv, KillInv
<1>4. GuardInv(s)'
  BY <1>2 DEF PoolInv, TypeOK, GuardInv, ProcessInv, InterruptInv, QueueInv, QuietInv, Taken,
     Gone, Quiet, Ending, Terminated
<1>5. ASSUME NEW t \in Starts, t # s PROVE GuardInv(t)'
  BY <1>2, <1>5, OtherGuard
<1> QED BY <1>1, <1>3, <1>4, <1>5 DEF PoolInv

LEMMA StartTakeKeeps ==
  ASSUME PoolInv, NEW s \in Starts, StartTake(s) PROVE PoolInv'
<1>1. TypeOK'
  BY DEF StartTake, PoolInv, TypeOK
<1>2. /\ UNCHANGED <<guardThreads, kpc, victim, host, gpc, process, intr, pushed>>
      /\ spc[s] = "take" /\ excQueue[s] # "empty" /\ excQueue'[s] = "empty"
      /\ spc'[s] = IF excQueue[s] = "dummy" THEN "returned" ELSE "threw"
      /\ \A t \in Starts \ {s} : excQueue'[t] = excQueue[t] /\ spc'[t] = spc[t]
  BY DEF StartTake, PoolInv, TypeOK
<1>3. KillInv'
  BY <1>2 DEF PoolInv, KillInv
<1>4. excQueue[s] \in {"dummy", "IOException"}
  BY <1>2 DEF PoolInv, TypeOK
<1>5. GuardInv(s)'
  <2>1. GuardInv(s) /\ spc'[s] \in {"returned", "threw"}
    BY <1>2 DEF PoolInv
  <2>2. ProcessInv(s)'
    BY <1>2, <2>1 DEF GuardInv, ProcessInv
  <2>3. InterruptInv(s)'
    BY <1>2, <2>1 DEF GuardInv, InterruptInv, Taken
  <2>4. QueueInv(s)'
    BY <1>2, <1>4, <2>1 DEF GuardInv, QueueInv
  <2>5. QuietInv(s)'
    BY <1>2, <2>1 DEF GuardInv, QuietInv
  <2> QED BY <1>2, <2>1, <2>2, <2>3, <2>4, <2>5 DEF GuardInv
<1>6. ASSUME NEW t \in Starts, t # s PROVE GuardInv(t)'
  BY <1>2, <1>6, OtherGuard
<1> QED BY <1>1, <1>3, <1>5, <1>6 DEF PoolInv

\* killAll() takes out the current set and puts a new one in its place.
LEMMA KillSwapKeeps ==
  ASSUME PoolInv, NEW k \in Kills, KillSwap(k) PROVE PoolInv'
<1>1. TypeOK'
  BY DEF KillSwap, guardVars, PoolInv, TypeOK
<1>2. /\ UNCHANGED <<spc, host, gpc, process, intr, pushed, excQueue>>
      /\ kpc[k] = "idle" /\ kpc'[k] = "synchronized" /\ victim'[k] = guardThreads
      /\ guardThreads \in Nat /\ guardThreads' = guardThreads + 1
      /\ \A l \in Kills \ {k} : kpc'[l] = kpc[l] /\ victim'[l] = victim[l]
  BY DEF KillSwap, guardVars, PoolInv, TypeOK
<1>3. KillInv'
  BY <1>2 DEF PoolInv, KillInv, TypeOK
<1>4. ASSUME NEW s \in Starts PROVE GuardInv(s)'
  <2>1. GuardInv(s) /\ host[s] \in Nat /\ (Taken(s) => Taken(s)')
    BY <1>2 DEF PoolInv, TypeOK, Taken
  <2>2. ProcessInv(s)' /\ InterruptInv(s)'
    BY <1>2, <2>1 DEF GuardInv, ProcessInv, InterruptInv
  <2>3. QueueInv(s)'
    BY <1>2, <2>1 DEF GuardInv, QueueInv
  <2>4. QuietInv(s)'
    BY <1>2, <2>1 DEF GuardInv, QuietInv
  <2> QED BY <1>2, <2>1, <2>2, <2>3, <2>4 DEF GuardInv
<1> QED BY <1>1, <1>3, <1>4 DEF PoolInv

\* No guard of the set has been interrupted before.
LEMMA KillInterruptKeeps ==
  ASSUME PoolInv, NEW k \in Kills, KillInterrupt(k) PROVE PoolInv'
<1>1. TypeOK'
  BY DEF KillInterrupt, Members, Terminated, PoolInv, TypeOK
<1>2. /\ UNCHANGED <<guardThreads, victim, spc, host, gpc, process, pushed, excQueue>>
      /\ kpc[k] = "synchronized" /\ kpc'[k] = "join"
      /\ \A l \in Kills \ {k} : kpc'[l] = kpc[l]
      /\ \A s \in Starts : intr'[s] => intr[s] \/ (gpc[s] # "unborn" /\ host[s] = victim[k])
  BY DEF KillInterrupt, Members, PoolInv, TypeOK
<1>3. KillInv'
  BY <1>2 DEF PoolInv, KillInv
<1>4. \A s \in Starts : Taken(s) => host[s] # victim[k] /\ Taken(s)'
  BY <1>2 DEF PoolInv, KillInv, Taken
<1>5. \A s \in Starts : host[s] = victim[k] => Taken(s)'
  BY <1>2 DEF Taken
<1>6. ASSUME NEW s \in Starts PROVE GuardInv(s)'
  <2>1. InterruptInv(s)'
    BY <1>2, <1>4, <1>5 DEF PoolInv, GuardInv, InterruptInv
  <2> QED BY <1>2, <2>1 DEF PoolInv, GuardInv, ProcessInv, QueueInv, QuietInv
<1> QED BY <1>1, <1>3, <1>6 DEF PoolInv

\* The guards that are joined have ended; the others of the set are not born.
LEMMA KillJoinKeeps ==
  ASSUME PoolInv, NEW k \in Kills, KillJoin(k) PROVE PoolInv'
<1>1. TypeOK'
  BY DEF KillJoin, guardVars, PoolInv, TypeOK
<1>2. /\ UNCHANGED <<guardThreads, victim, spc, host, gpc, process, intr, pushed, excQueue>>
      /\ kpc[k] = "join" /\ kpc'[k] = "done"
      /\ \A l \in Kills \ {k} : kpc'[l] = kpc[l]
      /\ \A s \in Starts : host[s] = victim[k] => gpc[s] \in {"unborn"} \cup Terminated
  BY DEF KillJoin, guardVars, Members, PoolInv, TypeOK
<1>3. KillInv'
  BY <1>2 DEF PoolInv, KillInv
<1>4. \A s \in Starts : Taken(s) => Taken(s)'
  BY <1>2 DEF Taken
<1>5. ASSUME NEW s \in Starts PROVE GuardInv(s)'
  <2>1. InterruptInv(s)'
    BY <1>2, <1>4, Zenon DEF PoolInv, GuardInv, InterruptInv
  <2>2. host[s] = victim[k] => gpc[s] \in Quiet /\ process[s] \in Gone
    BY <1>2 DEF PoolInv, GuardInv, ProcessInv, Gone, Quiet, Terminated
  <2>3. ASSUME NEW l \in Kills, (kpc[l] = "done")', spc[s] # "idle", host[s] = victim[l]
        PROVE  gpc[s] \in Quiet /\ process[s] \in Gone
    BY <1>2, <2>2, <2>3 DEF PoolInv, GuardInv, QuietInv
  <2>4. QuietInv(s)'
    BY <1>2, <2>3 DEF QuietInv
  <2> QED BY <1>2, <2>1, <2>4 DEF PoolInv, GuardInv, ProcessInv, QueueInv
<1> QED BY <1>1, <1>3, <1>5 DEF PoolInv

LEMMA PoolStep == PoolInv /\ [Next]_vars => PoolInv'
<1> SUFFICES ASSUME PoolInv, [Next]_vars PROVE PoolInv'
  OBVIOUS
<1>1. ASSUME NEW s \in Starts, StartStep(s) PROVE PoolInv'
  BY <1>1, StartGetKeeps, StartThreadKeeps, StartTakeKeeps DEF StartStep
<1>2. ASSUME NEW s \in Starts, GuardStep(s) PROVE PoolInv'
  BY <1>2, WhileKeeps, LaunchKeeps, LaunchFailsKeeps, CallbackReturnsKeeps, InterruptedKeeps,
     PushKeeps, ProcessExitedKeeps, CatchKeeps, CatchInterruptedKeeps, DestroyKeeps,
     FinallyPushKeeps, FinallyInterruptedKeeps DEF GuardStep
<1>3. ASSUME NEW s \in Starts, Exit(s) PROVE PoolInv'
  BY <1>3, ExitKeeps
<1>4. ASSUME NEW k \in Kills, KillStep(k) PROVE PoolInv'
  BY <1>4, KillSwapKeeps, KillInterruptKeeps, KillJoinKeeps DEF KillStep
<1>5. CASE UNCHANGED vars
  <2>1. TypeOK' /\ KillInv'
    BY <1>5 DEF vars, guardVars, PoolInv, TypeOK, KillInv
  <2>2. \A t \in Starts : GuardInv(t)'
    BY <1>5, OtherGuard DEF vars, guardVars
  <2> QED BY <2>1, <2>2 DEF PoolInv
<1> QED BY <1>1, <1>2, <1>3, <1>4, <1>5 DEF Next

\* killAll(): when it has returned, no process of the guards it took out runs,
\* and none is started later, whatever start() calls and guards it overtook.
THEOREM KilledPoolStaysQuiet == Spec => []KilledPoolIsQuiet
<1>1. PoolInv => KilledPoolIsQuiet
  BY ZenonT(40) DEF PoolInv, GuardInv, QuietInv, KilledPoolIsQuiet, Quiet, Gone, Ending, Terminated
<1> QED BY PoolInit, PoolStep, <1>1, PTL DEF Spec

\* start() returns only for a command that was run, or whose guard killAll()
\* stopped, and throws only for one that never ran.
THEOREM StartAlwaysTruthful == Spec => []StartTellsTheTruth
<1>1. ASSUME PoolInv, NEW s \in Starts
      PROVE  /\ spc[s] = "returned" => process[s] # "none" \/ guardThreads # host[s]
             /\ spc[s] = "threw" => process[s] = "none"
  <2>1. host[s] \in Nat /\ guardThreads \in Nat /\ QueueInv(s)
    BY <1>1 DEF PoolInv, TypeOK, GuardInv
  <2>2. host[s] < guardThreads => guardThreads # host[s]
    BY <2>1
  <2> QED BY <2>1, <2>2, Zenon DEF QueueInv
<1>2. PoolInv => StartTellsTheTruth
  BY <1>1, Zenon DEF StartTellsTheTruth
<1> QED BY PoolInit, PoolStep, <1>2, PTL DEF Spec

-----------------------------------------------------------------------------
(* With one caller: nothing is uncaught *)

InCall == {"synchronized", "take"}
InKill == {"synchronized", "join"}

\* One thread makes the calls, so it is in one of them at a time; when killAll()
\* comes to interrupt a guard, its start() has returned, hence the guard has put
\* its first result into the queue and no put() is left for the interrupt to end.
CallerInv ==
  OneCaller =>
    /\ \A s \in Starts, k \in Kills : spc[s] \in InCall => kpc[k] \notin InKill
    /\ \A s \in Starts :
         /\ intr[s] => pushed[s]
         /\ gpc[s] \notin {"finally_throw", "waitFor_throw", "uncaught"}

LEMMA CallerInit == Init => CallerInv
  BY DEF Init, CallerInv, InCall, InKill

\* A step of a guard that sets no interrupt flag and throws nothing.
LEMMA CallerFrame ==
  ASSUME CallerInv, UNCHANGED <<spc, kpc>>,
         OneCaller => \A s \in Starts :
           /\ intr'[s] => intr[s]
           /\ intr'[s] /\ pushed[s] => pushed'[s]
           /\ gpc'[s] \in {gpc[s]} \cup {"while", "launch", "callback", "push", "wait", "catch",
                                         "finally", "waitFor", "dead"}
  PROVE  CallerInv'
  BY DEF CallerInv

LEMMA CallerGuard ==
  ASSUME PoolInv, CallerInv, NEW s \in Starts, GuardStep(s)
  PROVE  CallerInv'
<1>0. UNCHANGED <<spc, kpc>>
  BY DEF GuardStep, While, Launch, LaunchFails, CallbackReturns, Interrupted, Push, ProcessExited,
     Catch, CatchInterrupted, Destroy, FinallyPush, FinallyInterrupted, pushException, callerVars
<1>1. /\ gpc \in [Starts -> {"unborn", "while", "launch", "callback", "push", "wait", "catch",
                             "finally", "finally_throw"} \cup Ending \cup Terminated]
      /\ pushed \in [Starts -> BOOLEAN] /\ intr \in [Starts -> BOOLEAN]
  BY DEF PoolInv, TypeOK
<1>2. CASE While(s) \/ Launch(s) \/ LaunchFails(s) \/ CallbackReturns(s) \/ ProcessExited(s)
  BY <1>0, <1>1, <1>2, CallerFrame DEF While, Launch, LaunchFails, CallbackReturns, ProcessExited, Goto
<1>3. CASE Interrupted(s)
  BY <1>0, <1>1, <1>3, CallerFrame DEF Interrupted, Goto
<1>4. CASE Push(s) \/ Catch(s)
  BY <1>0, <1>1, <1>4, CallerFrame DEF Push, Catch, pushException, Goto
<1>5. CASE CatchInterrupted(s)
  BY <1>0, <1>1, <1>5, CallerFrame DEF CatchInterrupted, CallerInv
<1>6. CASE Destroy(s)
  BY <1>0, <1>1, <1>6, CallerFrame DEF Destroy, Goto, CallerInv
<1>7. CASE FinallyPush(s)
  BY <1>0, <1>1, <1>7, CallerFrame DEF FinallyPush, pushException, Goto, CallerInv, Ending
<1>8. CASE FinallyInterrupted(s)
  <2>1. ~intr[s] \/ (process[s] # "destroyed" /\ (OneCaller => pushed[s]))
    BY Zenon DEF PoolInv, GuardInv, InterruptInv, CallerInv
  <2> QED BY <1>0, <1>1, <1>8, <2>1, CallerFrame DEF FinallyInterrupted
<1> QED BY <1>2, <1>3, <1>4, <1>5, <1>6, <1>7, <1>8 DEF GuardStep

LEMMA CallerCalls ==
  ASSUME PoolInv, CallerInv, NEW s \in Starts, StartStep(s)
  PROVE  CallerInv'
<1>1. /\ spc \in [Starts -> {"idle", "synchronized", "take", "returned", "threw"}]
      /\ gpc \in [Starts -> {"unborn", "while", "launch", "callback", "push", "wait", "catch",
                             "finally", "finally_throw"} \cup Ending \cup Terminated]
  BY DEF PoolInv, TypeOK
<1>2. CASE StartGet(s)
  <2>1. UNCHANGED <<kpc, gpc, intr, pushed>> /\ (OneCaller => \A k \in Kills : kpc[k] \notin InKill)
    BY <1>2 DEF StartGet, guardVars, MayCall, Busy, InKill
  <2> QED BY <2>1 DEF CallerInv
<1>3. CASE StartThread(s)
  <2>1. /\ UNCHANGED <<kpc, intr, pushed>> /\ spc[s] \in InCall
        /\ \A t \in Starts : spc'[t] \in InCall => spc[t] \in InCall
        /\ \A t \in Starts : gpc'[t] = gpc[t] \/ gpc'[t] = "while"
    BY <1>1, <1>3 DEF StartThread, InCall
  <2> QED BY <2>1 DEF CallerInv
<1>4. CASE StartTake(s)
  <2>1. /\ UNCHANGED <<kpc, gpc, intr, pushed>>
        /\ \A t \in Starts : spc'[t] \in InCall => spc[t] \in InCall
    BY <1>1, <1>4 DEF StartTake, InCall
  <2> QED BY <2>1 DEF CallerInv
<1> QED BY <1>2, <1>3, <1>4 DEF StartStep

\* killAll() interrupts only guards whose start() has returned.
LEMMA CallerKills ==
  ASSUME PoolInv, CallerInv, NEW k \in Kills, KillStep(k)
  PROVE  CallerInv'
<1>1. kpc \in [Kills -> {"idle", "synchronized", "join", "done"}]
  BY DEF PoolInv, TypeOK
<1>2. CASE KillSwap(k)
  <2>1. UNCHANGED <<spc, gpc, intr, pushed>> /\ (OneCaller => \A s \in Starts : spc[s] \notin InCall)
    BY <1>2 DEF KillSwap, guardVars, MayCall, Busy, InCall
  <2> QED BY <2>1 DEF CallerInv
<1>3. CASE KillInterrupt(k)
  <2>1. /\ UNCHANGED <<spc, gpc, pushed>> /\ kpc[k] \in InKill
        /\ \A l \in Kills : kpc'[l] \in InKill => kpc[l] \in InKill
        /\ \A s \in Starts : intr'[s] => intr[s] \/ gpc[s] # "unborn"
    BY <1>1, <1>3 DEF KillInterrupt, Members, InKill
  <2>2. ASSUME NEW s \in Starts, OneCaller, intr'[s] PROVE pushed[s]
    <3>1. CASE intr[s]
      BY <2>2, <3>1 DEF CallerInv
    <3>2. CASE gpc[s] # "unborn"
      <4>1. spc[s] \notin {"idle", "synchronized"} /\ spc[s] # "take"
        BY <2>1, <2>2, <3>2 DEF PoolInv, GuardInv, CallerInv, InCall
      <4>2. spc[s] \in {"returned", "threw"}
        BY <4>1 DEF PoolInv, TypeOK
      <4> QED BY <4>2 DEF PoolInv, GuardInv, QueueInv
    <3> QED BY <2>1, <2>2, <3>1, <3>2
  <2> QED BY <2>1, <2>2 DEF CallerInv
<1>4. CASE KillJoin(k)
  <2>1. /\ UNCHANGED <<spc, gpc, intr, pushed>>
        /\ \A l \in Kills : kpc'[l] \in InKill => kpc[l] \in InKill
    BY <1>1, <1>4 DEF KillJoin, guardVars, InKill
  <2> QED BY <2>1 DEF CallerInv
<1> QED BY <1>2, <1>3, <1>4 DEF KillStep

LEMMA CallerStep == PoolInv /\ CallerInv /\ [Next]_vars => CallerInv'
<1> SUFFICES ASSUME PoolInv, CallerInv, [Next]_vars PROVE CallerInv'
  OBVIOUS
<1>1. ASSUME NEW s \in Starts, Exit(s) PROVE CallerInv'
  BY <1>1, CallerFrame DEF Exit, callerVars
<1>2. CASE UNCHANGED vars
  BY <1>2, CallerFrame DEF vars, guardVars
<1> QED BY <1>1, <1>2, CallerCalls, CallerGuard, CallerKills DEF Next

\* When start() and killAll() are called by one thread, as ProxyService calls
\* them, no InterruptedException leaves a guard's catch or finally block, which
\* would end the app: for any number of calls.
THEOREM NothingEscapes ==
  ASSUME OneCaller
  PROVE  Spec => []NothingUncaught
<1>1. CallerInv => NothingUncaught
  BY Zenon DEF CallerInv, NothingUncaught
<1> QED BY PoolInit, PoolStep, CallerInit, CallerStep, <1>1, PTL DEF Spec

-----------------------------------------------------------------------------
(* The tunnel *)

\* Every step of the tunnel is a step of the pool or leaves the pool alone.
LEMMA TunnelStepIsPoolStep == [TNext]_tunnelVars => [Next]_vars
<1> SUFFICES ASSUME [TNext]_tunnelVars PROVE [Next]_vars
  OBVIOUS
<1>1. ASSUME NEW s \in Starts, TStart(s) \/ TStartTake(s) PROVE Next
  BY <1>1 DEF TStart, TStartTake, Next, StartStep
<1>2. ASSUME NEW s \in Starts, TGuard(s) PROVE [Next]_vars
  <2>1. CASE TLaunch(s) \/ TCallback(s)
    BY <2>1 DEF TLaunch, TCallback, Next, GuardStep
  <2>2. CASE TCallbackRetry(s)
    BY <2>2 DEF TCallbackRetry
  <2>3. CASE OtherGuardStep(s)
    BY <2>3 DEF OtherGuardStep, Next, GuardStep
  <2> QED BY <1>2, <2>1, <2>2, <2>3 DEF TGuard
<1>3. ASSUME NEW s \in Starts, sendFd(s) \/ Boot(s) \/ AcceptFd(s) PROVE UNCHANGED vars
  BY <1>3 DEF sendFd, Boot, AcceptFd
<1>4. ASSUME NEW s \in Starts, TExit(s) PROVE Next
  BY <1>4 DEF TExit, Next
<1>5. ASSUME NEW k \in Kills, TKill(k) PROVE Next
  BY <1>5 DEF TKill, Next, KillStep
<1>6. CASE UNCHANGED tunnelVars
  BY <1>6 DEF tunnelVars
<1> QED BY <1>1, <1>2, <1>3, <1>4, <1>5, <1>6 DEF TNext

\* The tunnel implements the pool: what tun2socks, sendFd and the restart
\* callback do is something the pool allows its processes and callbacks, so
\* whatever is proved of the pool holds of the tunnel.
THEOREM TunnelImplementsPool == TSpec => Spec
<1>1. TInit => Init
  BY DEF TInit
<1> QED BY <1>1, TunnelStepIsPoolStep, PTL DEF TSpec, Spec

\* What the pool guarantees, the tunnel does: no exception escapes a guard of
\* the service, and killAll() leaves no tun2socks behind.
COROLLARY TunnelIsSafe ==
  ASSUME OneCaller
  PROVE  TSpec => [](NothingUncaught /\ KilledPoolIsQuiet)
  BY NothingEscapes, KilledPoolStaysQuiet, TunnelImplementsPool, PTL

-----------------------------------------------------------------------------
(* No tun2socks is forgotten *)

\* How ProxyService uses the pool: one command, with a restart callback.
OneTunnel == WithCallback = Starts /\ \A s, t \in Starts : s = t

\* A launch that is not the first one finds the callback set.
CallbackInv(s) ==
  \/ gpc[s] \in {"callback", "push", "wait"}
  \/ gpc[s] \in {"while", "launch"} /\ pushed[s]
  => callback[s]

\* The main thread's sendFd begins when start() has returned, and ends at its
\* last try.
SenderInv(s) ==
  /\ sender[s] # "idle" => spc[s] = "returned"
  /\ sender[s] \in {"idle", "busy"} => tries[s] < MaxTries

Served(s) ==
  process[s] = "running" /\ phase[s] \in {"boot", "accept"} =>
    \/ backlog[s] > 0
    \/ spc[s] = "take" \/ sender[s] \in {"busy", "gave_up"}
    \/ gpc[s] \in {"callback", "finally", "finally_throw"} \/ cbTries[s] = MaxTries

TunnelInv ==
  PoolInv /\ TTypeOK /\ \A s \in Starts : CallbackInv(s) /\ SenderInv(s) /\ Served(s)

LEMMA TunnelInit == TInit => TunnelInv
<1> SUFFICES ASSUME TInit PROVE TunnelInv
  OBVIOUS
<1>1. PoolInv
  BY PoolInit DEF TInit
<1>2. TTypeOK
  BY <1>1, TriesAssumption DEF TInit, TTypeOK, PoolInv
<1>3. \A s \in Starts : CallbackInv(s) /\ SenderInv(s) /\ Served(s)
  <2>1. \A s \in Starts : gpc[s] = "unborn" /\ process[s] = "none" /\ sender[s] = "idle"
                          /\ tries[s] = 0
    BY Zenon DEF TInit, Init
  <2>2. 0 < MaxTries
    BY TriesAssumption
  <2> QED BY <2>1, <2>2, Zenon DEF CallbackInv, SenderInv, Served
<1> QED BY <1>1, <1>2, <1>3 DEF TunnelInv

\* The calls of the main thread: sendFd begins as start() returns.
LEMMA TunnelCalls ==
  ASSUME TunnelInv, PoolInv', NEW s \in Starts, TStart(s) \/ TStartTake(s)
  PROVE  TunnelInv'
<1>1. UNCHANGED <<SDK_INT, procVars, tries, cbTries, process, callback, pushed>>
  BY DEF TStart, TStartTake, StartGet, StartThread, StartTake, guardVars, sendVars
<1>2. CASE TStart(s)
  <2>1. /\ sender' = sender
        /\ \A t \in Starts : /\ spc'[t] # spc[t] => spc[t] \in {"idle", "synchronized"}
                             /\ gpc'[t] # gpc[t] => gpc[t] = "unborn" /\ gpc'[t] = "while"
    <3>1. spc \in [Starts -> {"idle", "synchronized", "take", "returned", "threw"}]
          /\ gpc \in [Starts -> {"unborn", "while", "launch", "callback", "push", "wait", "catch",
                             "finally", "finally_throw"} \cup Ending \cup Terminated]
          /\ \A t \in Starts : spc[t] \in {"idle", "synchronized"} => gpc[t] = "unborn"
      BY DEF TunnelInv, PoolInv, TypeOK, GuardInv
    <3> QED BY <1>2, <3>1 DEF TStart, StartGet, StartThread, guardVars, sendVars
  <2>2. TTypeOK'
    BY <1>1, <2>1, ZenonT(40) DEF TunnelInv, PoolInv, TTypeOK, procVars
  <2>3. ASSUME NEW t \in Starts PROVE (CallbackInv(t) /\ SenderInv(t) /\ Served(t))'
    <3>1. gpc[t] = "unborn" => ~pushed[t] /\ process[t] = "none"
      BY Zenon DEF TunnelInv, PoolInv, GuardInv, ProcessInv, QueueInv
    <3> QED BY <1>1, <2>1, <3>1, ZenonT(40) DEF TunnelInv, CallbackInv, SenderInv, Served, procVars
  <2> QED BY <2>2, <2>3 DEF TunnelInv
<1>3. CASE TStartTake(s)
  <2>1. /\ gpc' = gpc /\ spc[s] = "take" /\ excQueue[s] # "empty"
        /\ spc'[s] = IF excQueue[s] = "dummy" THEN "returned" ELSE "threw"
        /\ sender'[s] = IF spc'[s] = "returned" THEN "busy" ELSE sender[s]
        /\ \A t \in Starts \ {s} : spc'[t] = spc[t] /\ sender'[t] = sender[t]
    <3>1. /\ spc \in [Starts -> {"idle", "synchronized", "take", "returned", "threw"}]
          /\ sender \in [Starts -> {"idle", "busy", "sent", "gave_up"}]
      BY DEF TunnelInv, PoolInv, TypeOK, TTypeOK
    <3> QED BY <1>3, <3>1 DEF TStartTake, StartTake
  <2>2. TTypeOK'
    <3>1. sender' \in [Starts -> {"idle", "busy", "sent", "gave_up"}]
      BY <1>3 DEF TStartTake, TunnelInv, TTypeOK
    <3> QED BY <1>1, <3>1 DEF TunnelInv, PoolInv, TTypeOK, procVars
  <2>3. ASSUME NEW t \in Starts \ {s} PROVE (CallbackInv(t) /\ SenderInv(t) /\ Served(t))'
    BY <1>1, <2>1, ZenonT(40) DEF TunnelInv, CallbackInv, SenderInv, Served, procVars
  <2>4. sender[s] = "idle" /\ tries[s] < MaxTries
    BY <2>1 DEF TunnelInv, SenderInv
  <2>5. spc'[s] = "threw" => process[s] = "none"
    BY <2>1, ZenonT(40) DEF TunnelInv, PoolInv, TypeOK, GuardInv, QueueInv
  <2>6. (CallbackInv(s) /\ SenderInv(s) /\ Served(s))'
    BY <1>1, <2>1, <2>4, <2>5, Zenon DEF TunnelInv, CallbackInv, SenderInv, Served, procVars
  <2> QED BY <2>2, <2>3, <2>6 DEF TunnelInv
<1> QED BY <1>2, <1>3

\* A try of the main thread: the descriptor goes to the one tun2socks there is.
LEMMA TunnelSends ==
  ASSUME OneTunnel, TunnelInv, PoolInv', NEW s \in Starts, sendFd(s)
  PROVE  TunnelInv'
<1>1. /\ UNCHANGED <<SDK_INT, phase, path, cbTries, process, callback, pushed, gpc, spc>>
      /\ sender[s] = "busy" /\ tries[s] < MaxTries /\ tries[s] \in 0..MaxTries
  BY DEF sendFd, vars, guardVars, TunnelInv, SenderInv, TTypeOK
<1>2. CASE CanSend
  <2>1. /\ path \in Starts /\ path = s /\ tries' = tries
        /\ backlog' = [backlog EXCEPT ![s] = @ + 1]
        /\ sender' = [sender EXCEPT ![s] = "sent"]
    BY <1>2 DEF sendFd, CanSend, Deliver, TunnelInv, TTypeOK, OneTunnel
  <2>2. TTypeOK'
    BY <1>1, <2>1 DEF TunnelInv, PoolInv, TTypeOK
  <2>3. backlog'[s] > 0 /\ sender'[s] = "sent"
    BY <2>1 DEF TunnelInv, TTypeOK
  <2>4. (CallbackInv(s) /\ SenderInv(s) /\ Served(s))'
    BY <1>1, <2>3, Zenon DEF TunnelInv, CallbackInv, SenderInv, Served
  <2> QED BY <2>2, <2>4 DEF TunnelInv, OneTunnel
<1>3. CASE ~CanSend
  <2>1. /\ tries' = [tries EXCEPT ![s] = tries[s] + 1] /\ backlog' = backlog
        /\ sender' = [sender EXCEPT ![s] = IF tries'[s] < MaxTries THEN @ ELSE "gave_up"]
    BY <1>3 DEF sendFd
  <2>2. tries'[s] = tries[s] + 1 /\ tries'[s] \in 0..MaxTries
    BY <1>1, <2>1, TriesAssumption DEF TunnelInv, TTypeOK
  <2>3. sender'[s] = IF tries'[s] < MaxTries THEN "busy" ELSE "gave_up"
    BY <1>1, <2>1 DEF TunnelInv, TTypeOK
  <2>4. TTypeOK'
    <3>1. sender' \in [Starts -> {"idle", "busy", "sent", "gave_up"}]
      BY <2>1 DEF TunnelInv, TTypeOK
    <3>2. tries' \in [Starts -> 0..MaxTries]
      BY <2>1, <2>2 DEF TunnelInv, TTypeOK
    <3> QED BY <1>1, <2>1, <3>1, <3>2 DEF TunnelInv, PoolInv, TTypeOK
  <2>5. (CallbackInv(s) /\ SenderInv(s) /\ Served(s))'
    BY <1>1, <2>1, <2>3 DEF TunnelInv, CallbackInv, SenderInv, Served
  <2> QED BY <2>4, <2>5 DEF TunnelInv, OneTunnel
<1> QED BY <1>2, <1>3

\* A launch: the first one is awaited by start(), a later one has its callback.
LEMMA TunnelLaunches ==
  ASSUME OneTunnel, TunnelInv, PoolInv', NEW s \in Starts, TLaunch(s)
  PROVE  TunnelInv'
<1>0. callback'[s]
  <2>1. callback' = [callback EXCEPT ![s] = s \in WithCallback] /\ (s \in WithCallback) = TRUE
        /\ callback \in [Starts -> BOOLEAN]
    BY DEF TLaunch, Launch, TunnelInv, PoolInv, TypeOK, OneTunnel
  <2> QED BY <2>1, ZenonT(40)
<1>1. /\ UNCHANGED <<SDK_INT, backlog, path, sender, tries, spc, pushed>>
      /\ gpc[s] = "launch" /\ gpc'[s] = IF callback[s] THEN "callback" ELSE "push"
      /\ callback'[s] /\ phase' = [phase EXCEPT ![s] = "boot"]
      /\ cbTries' = [cbTries EXCEPT ![s] = 0]
  <2>1. /\ UNCHANGED <<SDK_INT, backlog, path, sender, tries, spc, pushed>>
        /\ phase' = [phase EXCEPT ![s] = "boot"] /\ cbTries' = [cbTries EXCEPT ![s] = 0]
    BY Zenon DEF TLaunch, Launch, callerVars
  <2>2. s \in DOMAIN gpc
    BY DEF TunnelInv, PoolInv, TypeOK
  <2> QED BY <1>0, <2>1, <2>2 DEF TLaunch, Launch, Goto
<1>2. TTypeOK'
  <2>1. 0 \in 0..MaxTries
    BY TriesAssumption
  <2> QED BY <1>1, <2>1, Zenon DEF TunnelInv, PoolInv, TTypeOK
<1>3. ~callback[s] => spc[s] = "take"
  <2>1. ~callback[s] => ~pushed[s] /\ spc[s] \notin {"idle", "synchronized"}
    BY <1>1, ZenonT(40) DEF TunnelInv, CallbackInv, PoolInv, GuardInv
  <2>2. ~callback[s] => spc[s] \notin {"returned", "threw"}
    BY <2>1, ZenonT(40) DEF TunnelInv, PoolInv, GuardInv, QueueInv
  <2> QED BY <2>1, <2>2 DEF TunnelInv, PoolInv, TypeOK
<1>4. (CallbackInv(s) /\ SenderInv(s) /\ Served(s))'
  BY <1>1, <1>3, Zenon DEF TunnelInv, CallbackInv, SenderInv, Served
<1> QED BY <1>2, <1>4 DEF TunnelInv, OneTunnel

\* The restart callback ends with the descriptor sent or all tries used up.
LEMMA TunnelCallback ==
  ASSUME OneTunnel, TunnelInv, PoolInv', NEW s \in Starts, TCallback(s) \/ TCallbackRetry(s)
  PROVE  TunnelInv'
<1>0. MaxTries \in Nat /\ cbTries[s] \in 0..MaxTries /\ MaxTries \in 0..MaxTries
  BY TriesAssumption DEF TunnelInv, TTypeOK
<1>1. CASE TCallback(s)
  <2>1. /\ UNCHANGED <<SDK_INT, phase, path, sender, tries, spc, callback, pushed, process>>
        /\ gpc[s] = "callback" /\ gpc'[s] = "push"
    <3>1. gpc \in [Starts -> {"unborn", "while", "launch", "callback", "push", "wait", "catch",
                              "finally", "finally_throw"} \cup Ending \cup Terminated]
      BY DEF TunnelInv, PoolInv, TypeOK
    <3> QED BY <1>1, <3>1 DEF TCallback, CallbackReturns, Goto, callerVars
  <2>2. TTypeOK' /\ (backlog'[s] > 0 \/ cbTries'[s] = MaxTries)
    <3>1. CASE CanSend
      <4>1. path = s /\ backlog' = [backlog EXCEPT ![s] = @ + 1] /\ cbTries' = cbTries
        BY <1>1, <3>1 DEF TCallback, CanSend, Deliver, TunnelInv, TTypeOK, OneTunnel
      <4>2. backlog' \in [Starts -> Nat] /\ backlog'[s] > 0
        BY <4>1 DEF TunnelInv, TTypeOK
      <4> QED BY <2>1, <4>1, <4>2 DEF TunnelInv, PoolInv, TTypeOK
    <3>2. CASE ~CanSend
      <4>1. backlog' = backlog /\ cbTries' = [cbTries EXCEPT ![s] = MaxTries]
        BY <1>1, <3>2 DEF TCallback
      <4>2. cbTries' \in [Starts -> 0..MaxTries] /\ cbTries'[s] = MaxTries
        BY <1>0, <4>1 DEF TunnelInv, TTypeOK
      <4> QED BY <2>1, <4>1, <4>2, Zenon DEF TunnelInv, PoolInv, TTypeOK
    <3> QED BY <3>1, <3>2
  <2>3. (CallbackInv(s) /\ SenderInv(s) /\ Served(s))'
    BY <2>1, <2>2, Zenon DEF TunnelInv, CallbackInv, SenderInv, Served
  <2> QED BY <2>2, <2>3 DEF TunnelInv, OneTunnel
<1>2. CASE TCallbackRetry(s)
  <2>1. /\ UNCHANGED <<SDK_INT, procVars, sender, tries, spc, callback, pushed, process, gpc>>
        /\ gpc[s] = "callback" /\ cbTries' = [cbTries EXCEPT ![s] = cbTries[s] + 1]
        /\ cbTries[s] + 1 \in 0..MaxTries
    BY <1>0, <1>2 DEF TCallbackRetry, vars, guardVars
  <2>2. TTypeOK'
    BY <2>1 DEF TunnelInv, PoolInv, TTypeOK, procVars
  <2>3. (CallbackInv(s) /\ SenderInv(s) /\ Served(s))'
    BY <2>1, Zenon DEF TunnelInv, CallbackInv, SenderInv, Served, procVars
  <2> QED BY <2>2, <2>3 DEF TunnelInv, OneTunnel
<1> QED BY <1>1, <1>2

\* Any other step of the guard: one that leaves the loop is about to destroy.
LEMMA TunnelGuards ==
  ASSUME OneTunnel, TunnelInv, PoolInv', NEW s \in Starts, OtherGuardStep(s),
         UNCHANGED <<SDK_INT, procVars, sendVars>>
  PROVE  TunnelInv'
<1>1. spc' = spc /\ callback' = callback
  BY Zenon DEF OtherGuardStep, While, LaunchFails, Interrupted, Push, ProcessExited,
     Catch, CatchInterrupted, Destroy, FinallyPush, FinallyInterrupted, pushException, callerVars
<1>2. TTypeOK'
  BY <1>1 DEF TunnelInv, PoolInv, TTypeOK, procVars, sendVars
<1>3. SenderInv(s)'
  BY <1>1, ZenonT(40) DEF TunnelInv, SenderInv, sendVars
<1>4. (CallbackInv(s) /\ Served(s))'
  <2>1. /\ gpc \in [Starts -> {"unborn", "while", "launch", "callback", "push", "wait", "catch",
                               "finally", "finally_throw"} \cup Ending \cup Terminated]
        /\ process \in [Starts -> {"none", "running", "destroyed", "exited"}]
        /\ CallbackInv(s) /\ Served(s)
    BY DEF TunnelInv, PoolInv, TypeOK
  <2>2. CASE While(s)
    BY <1>1, <2>1, <2>2 DEF While, Goto, CallbackInv, Served, procVars, sendVars
  <2>3. CASE Push(s)
    BY <1>1, <2>1, <2>3 DEF Push, pushException, Goto, CallbackInv, Served, procVars, sendVars
  <2>4. CASE ProcessExited(s)
    BY <1>1, <2>1, <2>4 DEF ProcessExited, Goto, CallbackInv, Served, procVars, sendVars
  <2>5. CASE Interrupted(s) \/ Catch(s) \/ CatchInterrupted(s)
    BY <1>1, <2>1, <2>5 DEF Interrupted, Catch, CatchInterrupted, pushException, Goto, CallbackInv,
       Served, procVars, sendVars
  <2>6. CASE LaunchFails(s)
    <3>1. process[s] # "running"
      BY <2>6, ZenonT(40) DEF LaunchFails, TunnelInv, PoolInv, GuardInv, ProcessInv, Gone
    <3> QED BY <1>1, <2>1, <2>6, <3>1, ZenonT(40) DEF LaunchFails, Goto, CallbackInv, Served, procVars, sendVars
  <2>7. CASE Destroy(s)
    BY <1>1, <2>1, <2>7, Zenon DEF Destroy, Goto, CallbackInv, Served, procVars, sendVars
  <2>8. CASE FinallyPush(s) \/ FinallyInterrupted(s)
    <3>1. process[s] # "running" /\ process' = process /\ gpc'[s] \in Terminated
      BY <2>1, <2>8 DEF FinallyPush, FinallyInterrupted, pushException, Goto, Terminated, TunnelInv, PoolInv,
         GuardInv, ProcessInv
    <3> QED BY <1>1, <3>1 DEF CallbackInv, Served, Terminated
  <2> QED BY <2>2, <2>3, <2>4, <2>5, <2>6, <2>7, <2>8 DEF OtherGuardStep
<1> QED BY <1>2, <1>3, <1>4 DEF TunnelInv, OneTunnel

\* main() of tun2socks: it takes the descriptor, or ends.
LEMMA TunnelProcess ==
  ASSUME OneTunnel, TunnelInv, PoolInv', NEW s \in Starts, Boot(s) \/ AcceptFd(s) \/ TExit(s)
  PROVE  TunnelInv'
<1>1. /\ UNCHANGED <<SDK_INT, sender, tries, cbTries, spc, gpc, callback, pushed>>
      /\ path' \in {s, path, NoProcess}
  BY DEF Boot, AcceptFd, TExit, Exit, sendVars, vars, guardVars, callerVars
<1>2. /\ phase' \in [Starts -> {"none", "boot", "accept", "loop"}]
      /\ backlog' \in [Starts -> Nat]
  BY SMTT(60) DEF Boot, AcceptFd, TExit, TunnelInv, TTypeOK
<1>3. TTypeOK'
  BY <1>1, <1>2 DEF TunnelInv, PoolInv, TTypeOK
<1>4. Served(s)'
  <2>1. CASE Boot(s)
    BY <1>1, <2>1, ZenonT(40) DEF Boot, vars, guardVars, TunnelInv, Served
  <2>2. CASE AcceptFd(s)
    BY <2>2, ZenonT(40) DEF AcceptFd, TunnelInv, TTypeOK, Served
  <2>3. CASE TExit(s)
    BY <2>3, ZenonT(40) DEF TExit, TunnelInv, TTypeOK, Served
  <2> QED BY <2>1, <2>2, <2>3
<1>5. (CallbackInv(s) /\ SenderInv(s))'
  BY <1>1, Zenon DEF TunnelInv, CallbackInv, SenderInv
<1> QED BY <1>3, <1>4, <1>5 DEF TunnelInv, OneTunnel

\* killAll() only sets interrupt flags.
LEMMA TunnelKills ==
  ASSUME TunnelInv, PoolInv', NEW k \in Kills, TKill(k)
  PROVE  TunnelInv'
<1>1. UNCHANGED <<SDK_INT, procVars, sendVars, spc, gpc, callback, pushed, process>>
  BY DEF TKill, KillSwap, KillInterrupt, KillJoin, guardVars
<1>2. TTypeOK'
  BY <1>1 DEF TunnelInv, PoolInv, TTypeOK, procVars, sendVars
<1>3. \A s \in Starts : (CallbackInv(s) /\ SenderInv(s) /\ Served(s))'
  BY <1>1, ZenonT(40) DEF TunnelInv, CallbackInv, SenderInv, Served, procVars, sendVars
<1> QED BY <1>2, <1>3 DEF TunnelInv

LEMMA TunnelStep == OneTunnel /\ TunnelInv /\ [TNext]_tunnelVars => TunnelInv'
<1> SUFFICES ASSUME OneTunnel, TunnelInv, [TNext]_tunnelVars PROVE TunnelInv'
  OBVIOUS
<1>1. PoolInv'
  BY TunnelStepIsPoolStep, PoolStep DEF TunnelInv
<1>2. CASE UNCHANGED tunnelVars
  <2>1. TTypeOK'
    BY <1>1, <1>2 DEF tunnelVars, procVars, sendVars, TunnelInv, PoolInv, TTypeOK
  <2> QED BY <1>1, <1>2, <2>1, ZenonT(40) DEF tunnelVars, vars, guardVars, procVars, sendVars, TunnelInv, CallbackInv,
          SenderInv, Served
<1>3. ASSUME NEW s \in Starts, TGuard(s) PROVE TunnelInv'
  BY <1>1, <1>3, TunnelLaunches, TunnelCallback, TunnelGuards DEF TGuard
<1> QED BY <1>1, <1>2, <1>3, TunnelCalls, TunnelSends, TunnelProcess, TunnelKills DEF TNext

\* sendFd and its callers: with one command and its restart callback, as
\* ProxyService starts tun2socks, a tun2socks that waits for the VPN's file
\* descriptor has it underway, or somebody who is going to send it or has tried
\* ten times, or a guard about to destroy it; for any number of restarts, of
\* killAll() calls and of tries.
THEOREM NoneForgotten ==
  ASSUME OneTunnel
  PROVE  TSpec => []NoProcessForgotten
<1>1. TunnelInv => NoProcessForgotten
  BY Zenon DEF TunnelInv, NoProcessForgotten, Served
<1> QED BY TunnelInit, TunnelStep, <1>1, PTL DEF TSpec
=============================================================================
