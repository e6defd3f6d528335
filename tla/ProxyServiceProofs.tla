------------------------- MODULE ProxyServiceProofs -------------------------
(***************************************************************************)
(* Proofs about the service and the SDK's API in front of it.              *)
(*                                                                         *)
(* The service (ProxyService), for every number of starts, however they    *)
(* follow each other and the stops: isStarted does not outlive the startUp *)
(* that set it.  Its listeners (LocalSocketListener), for every number of  *)
(* them: protect_path is served once they have settled.                    *)
(*                                                                         *)
(* The API (VpnHelper), for every number of calls and of turns of the      *)
(* device, and whatever the callbacks do: the static fields and the        *)
(* activities stay in step, and each callback is told the outcome of its   *)
(* own call, a second time only if it throws.                              *)
(***************************************************************************)
EXTENDS ProxyService, LocalSocketListener, VpnHelper, SequenceTheorems, TLAPS

\* The startUp calls that have set isStarted and have not cleared it.
Holding == UpStates \ {"none", "check", "koin", "mark", "done"}

FlagInv ==
  /\ isStarted \in BOOLEAN /\ crashed \in BOOLEAN
  /\ starts \in 0..MaxStarts
  /\ up \in [Starts -> UpStates]
  /\ \A n \in Starts : n > starts => up[n] = "none"
  /\ FlagFollowsThreads

\* The invariant holds initially.
LEMMA ServiceInit == ServiceAssumption /\ Init => FlagInv
<1> SUFFICES ASSUME ServiceAssumption, Init PROVE FlagInv
  OBVIOUS
<1>1. isStarted = FALSE /\ crashed = FALSE
  BY DEF Init
<1>2. starts \in 0..MaxStarts /\ up \in [Starts -> UpStates]
      /\ \A n \in Starts : up[n] = "none"
  BY DEF Init, ServiceAssumption, UpStates
<1> QED BY <1>1, <1>2, Zenon DEF FlagInv, FlagFollowsThreads

\* A thread that holds the flag and goes on holding it is its witness.
LEMMA FlagMove ==
  ASSUME FlagInv, NEW n \in Starts, NEW to \in Holding, up[n] # "none",
         up' = [up EXCEPT ![n] = to],
         isStarted' \in BOOLEAN, crashed' \in BOOLEAN, starts' = starts
  PROVE  FlagInv'
<1>1. up' \in [Starts -> UpStates] /\ up'[n] = to
  BY DEF FlagInv, Holding
<1>2. FlagFollowsThreads'
  BY <1>1 DEF FlagFollowsThreads, Holding
<1> QED BY <1>1, <1>2 DEF FlagInv

\* A thread that does not hold the flag and will not hold it changes nothing.
LEMMA FlagOther ==
  ASSUME FlagInv, NEW n \in Starts, NEW to \in UpStates, up[n] \notin Holding \cup {"none"},
         up' = [up EXCEPT ![n] = to], UNCHANGED <<isStarted, crashed, starts>>
  PROVE  FlagInv'
<1>1. up' \in [Starts -> UpStates] /\ \A k \in Starts : k # n => up'[k] = up[k]
  BY DEF FlagInv
<1>2. FlagFollowsThreads'
  BY <1>1 DEF FlagInv, FlagFollowsThreads, Holding
<1> QED BY <1>1, <1>2 DEF FlagInv

\* A step that ends with the flag down, or the app ended, keeps the invariant.
LEMMA FlagDown ==
  ASSUME FlagInv, NEW n \in Starts, NEW to \in UpStates, up[n] # "none",
         up' = [up EXCEPT ![n] = to], starts' = starts, isStarted' \in BOOLEAN, crashed' \in BOOLEAN, crashed' \/ ~isStarted'
  PROVE  FlagInv'
<1>1. up' \in [Starts -> UpStates] /\ \A k \in Starts : k > starts => up'[k] = "none"
  BY DEF FlagInv
<1>2. FlagFollowsThreads'
  BY DEF FlagFollowsThreads
<1> QED BY <1>1, <1>2 DEF FlagInv

\* Every step of a startUp keeps FlagInv.
LEMMA FlagStartUp ==
  ASSUME FlagInv, NEW n \in Starts, startUp(n)
  PROVE  FlagInv'
<1>0. /\ isStarted \in BOOLEAN /\ crashed \in BOOLEAN /\ up \in [Starts -> UpStates]
      /\ starts \in 0..MaxStarts
      /\ starts' = starts
  BY DEF FlagInv, startUp, CheckStarted, StartKoin, MarkStarted, NewBossGroup, NewWorkerGroup,
     NewGroupFails, UseGroups, Bind, ChannelCloses, FinallyBoss, FinallyWorker, FinallyKoin,
     FinallyFlag, service
<1>1. CASE CheckStarted(n) \/ StartKoin(n)
  <2>1. PICK to \in {"done", "koin", "mark"} : up[n] \in {"check", "koin"}
                 /\ up' = [up EXCEPT ![n] = to] /\ UNCHANGED <<isStarted, crashed>>
    BY <1>1 DEF CheckStarted, StartKoin, Up, server
  <2> QED BY <1>0, <2>1, FlagOther, Zenon DEF Holding, UpStates
<1>2. CASE MarkStarted(n)
  <2>1. /\ up[n] = "mark" /\ up' = [up EXCEPT ![n] = "newBoss"] /\ isStarted' = TRUE /\ crashed' = crashed
    BY <1>2 DEF MarkStarted, Up
  <2> QED BY <1>0, <2>1, FlagMove, Zenon DEF Holding, UpStates
<1>3. CASE NewBossGroup(n) \/ NewWorkerGroup(n) \/ UseGroups(n) \/ Bind(n) \/ ChannelCloses(n)
           \/ FinallyBoss(n) \/ FinallyWorker(n) \/ FinallyKoin(n)
  <2>1. PICK to \in Holding : /\ up[n] # "none" /\ up' = [up EXCEPT ![n] = to]
                              /\ UNCHANGED <<isStarted, crashed>>
    BY <1>3 DEF NewBossGroup, NewWorkerGroup, UseGroups, Bind, ChannelCloses, FinallyBoss,
       FinallyWorker, FinallyKoin, Up, server, Holding, UpStates
  <2> QED BY <1>0, <2>1, FlagMove, ZenonT(40)
<1>4. CASE NewGroupFails(n)
  <2>1. up[n] # "none" /\ up' = [up EXCEPT ![n] = "done"]
    BY <1>4 DEF NewGroupFails, Up
  <2>2. isStarted' = isStarted /\ crashed' = TRUE
    BY <1>4 DEF NewGroupFails, server
  <2> QED BY <1>0, <2>1, <2>2, FlagDown, Zenon DEF UpStates
<1>5. CASE FinallyFlag(n)
  <2>1. up[n] # "none" /\ up' = [up EXCEPT ![n] = "done"]
    BY <1>5 DEF FinallyFlag, Up
  <2>2. isStarted' = FALSE /\ (crashed' = TRUE \/ crashed' = crashed)
    BY <1>5 DEF FinallyFlag
  <2>3. isStarted' \in BOOLEAN /\ crashed' \in BOOLEAN /\ (crashed' \/ ~isStarted')
    <3>1. CASE crashed' = TRUE
      BY <2>2, <3>1, Zenon
    <3>2. CASE crashed' = crashed
      BY <1>0, <2>2, <3>2, Zenon
    <3> QED BY <2>2, <3>1, <3>2, Zenon
  <2> QED BY <1>0, <2>1, <2>3, FlagDown, Zenon DEF UpStates
<1> QED BY <1>1, <1>2, <1>3, <1>4, <1>5 DEF startUp

\* Every step keeps the invariant.
LEMMA ServiceStep == ServiceAssumption /\ FlagInv /\ [Next]_vars => FlagInv'
<1> SUFFICES ASSUME ServiceAssumption, FlagInv, [Next]_vars PROVE FlagInv'
  OBVIOUS
<1>0. MaxStarts \in Nat /\ Starts = 1..MaxStarts /\ starts \in 0..MaxStarts
  BY DEF ServiceAssumption, Starts, FlagInv
<1>1. CASE UNCHANGED vars
  BY <1>1 DEF vars, server, threads, FlagInv, FlagFollowsThreads
<1>2. CASE onStartCommand
  <2>1. /\ starts' = starts + 1 /\ starts' \in Starts /\ starts' \in 0..MaxStarts
        /\ up' = [up EXCEPT ![starts'] = "check"]
        /\ UNCHANGED <<isStarted, crashed>>
    BY <1>0, <1>2 DEF onStartCommand, server
  <2>2. up' \in [Starts -> UpStates] /\ \A k \in Starts : k # starts' => up'[k] = up[k]
    BY <2>1 DEF FlagInv, UpStates
  <2>3. up[starts'] = "none"
    BY <1>0, <2>1 DEF FlagInv
  <2>4. FlagFollowsThreads'
    BY <2>1, <2>2, <2>3 DEF FlagInv, FlagFollowsThreads
  <2>5. \A k \in Starts : k > starts' => up'[k] = "none"
    BY <1>0, <2>1, <2>2 DEF FlagInv
  <2> QED BY <2>1, <2>2, <2>4, <2>5 DEF FlagInv
<1>3. CASE stopProxy \/ MainThread
  <2>1. UNCHANGED <<starts, up>>
    BY <1>3 DEF stopProxy, MainThread, establish, StartTun2socks, killAll, ShutBoss, ShutWorker,
       CloseKoin, ClearStarted, threads
  <2>2. /\ isStarted' = isStarted \/ isStarted' = FALSE
        /\ crashed' = crashed \/ crashed' = TRUE
    <3>1. CASE stopProxy \/ establish \/ killAll \/ ShutBoss \/ ShutWorker \/ CloseKoin
      <4>1. isStarted' = isStarted /\ crashed' = crashed
        BY <3>1 DEF stopProxy, establish, killAll, ShutBoss, ShutWorker, CloseKoin, server
      <4> QED BY <4>1
    <3>2. CASE StartTun2socks
      <4>1. isStarted' = isStarted
        BY <3>2 DEF StartTun2socks, server
      <4>2. crashed' = crashed \/ crashed' = TRUE
        BY <3>2, Zenon DEF StartTun2socks
      <4> QED BY <4>1, <4>2
    <3>3. CASE ClearStarted
      <4>1. isStarted' = FALSE /\ crashed' = crashed
        BY <3>3 DEF ClearStarted
      <4> QED BY <4>1
    <3> QED BY <1>3, <3>1, <3>2, <3>3, Zenon DEF MainThread
  <2>3. isStarted' \in BOOLEAN /\ crashed' \in BOOLEAN
    BY <2>2, Zenon DEF FlagInv
  <2>4. FlagFollowsThreads'
    <3> SUFFICES ASSUME isStarted', ~crashed'
                 PROVE  \E n \in Starts : up'[n] \notin {"none", "check", "koin", "mark", "done"}
      BY DEF FlagFollowsThreads
    <3>1. isStarted' = isStarted /\ crashed' = crashed
      BY <2>2, <2>3, Zenon
    <3>2. isStarted /\ ~crashed
      BY <3>1
    <3>3. \E n \in Starts : up[n] \notin {"none", "check", "koin", "mark", "done"}
      BY <3>2, Zenon DEF FlagInv, FlagFollowsThreads
    <3> QED BY <2>1, <3>3
  <2> QED BY <2>1, <2>3, <2>4 DEF FlagInv
<1>4. ASSUME NEW n \in Starts, startUp(n) PROVE FlagInv'
  BY <1>4, FlagStartUp
<1> QED BY <1>1, <1>2, <1>3, <1>4 DEF Next

\* isStarted never outlives the startUp that set it, for any number of starts
\* and any interleaving of their finally blocks with shutdown: no start is
\* refused for good.
THEOREM FlagAlwaysFollows == Spec => []FlagFollowsThreads
<1>1. FlagInv => FlagFollowsThreads
  BY DEF FlagInv
<1> QED BY ServiceInit, ServiceStep, ServiceAssumption, <1>1, PTL DEF Spec

-----------------------------------------------------------------------------
(* The listeners *)

\* The name belongs to a listener that accepts; while nobody has it, some
\* worker is still to bind; the worker of a later start does not exist yet.
PathInv ==
  /\ spawned \in 0..MaxWorkers
  /\ worker \in [Workers -> {"none", "delete", "bind", "accepting", "done"}]
  /\ path \in 0..MaxWorkers
  /\ path # 0 => worker[path] = "accepting"
  /\ (path = 0 /\ spawned > 0) => \E n \in Workers : worker[n] \in {"delete", "bind"}
  /\ \A n \in Workers : n > spawned => worker[n] = "none"

\* Every step keeps it.
LEMMA PathStep == ListenerAssumption /\ PathInv /\ [ListenerNext]_listenerVars => PathInv'
<1> SUFFICES ASSUME ListenerAssumption, PathInv, [ListenerNext]_listenerVars PROVE PathInv'
  OBVIOUS
<1> USE DEF PathInv
<1>0. MaxWorkers \in Nat /\ Workers = 1..MaxWorkers
  BY DEF ListenerAssumption, Workers
<1>1. CASE Spawn
  <2>1. /\ spawned' = spawned + 1 /\ spawned' \in Workers /\ path' = path
        /\ worker' = [worker EXCEPT ![spawned'] = "delete"]
    BY <1>0, <1>1 DEF Spawn
  <2> QED BY <1>0, <2>1
<1>2. ASSUME NEW n \in Workers, DeleteSocketFile(n) PROVE PathInv'
  <2>1. /\ worker[n] = "delete" /\ worker' = [worker EXCEPT ![n] = "bind"] /\ path' = 0
        /\ spawned' = spawned
    BY <1>2 DEF DeleteSocketFile, NoWorker
  <2> QED BY <1>0, <2>1
<1>3. ASSUME NEW n \in Workers, BindSocket(n) PROVE PathInv'
  <2>0. worker[n] = "bind" /\ spawned' = spawned
    BY <1>3 DEF BindSocket
  <2>1. CASE path = 0 /\ worker' = [worker EXCEPT ![n] = "accepting"] /\ path' = n
    BY <1>0, <2>0, <2>1
  <2>2. CASE path # 0 /\ worker' = [worker EXCEPT ![n] = "done"] /\ path' = path
    BY <1>0, <2>0, <2>2
  <2> QED BY <1>3, <2>1, <2>2 DEF BindSocket, NoWorker
<1>4. CASE UNCHANGED listenerVars
  BY <1>4 DEF listenerVars
<1> QED BY <1>1, <1>2, <1>3, <1>4 DEF ListenerNext

\* Whenever every ProtectWorker has settled, protect_path leads to one that
\* accepts, for any number of starts and any order of their deletes and binds.
THEOREM PathAlwaysServed == ListenerSpec => []ProtectPathServed
<1>1. ListenerAssumption /\ ListenerInit => PathInv
  BY DEF ListenerAssumption, ListenerInit, PathInv, Workers, NoWorker
<1>2. PathInv => ProtectPathServed
  BY DEF PathInv, ProtectPathServed, NoWorker
<1> QED BY ListenerAssumption, PathStep, <1>1, <1>2, PTL DEF ListenerSpec

-----------------------------------------------------------------------------
(* The API *)


\* The inductive invariant: a field that is not empty holds the call of a busy
\* activity of its kind; a busy activity's call is in the field of its kind;
\* nothing has happened to calls that have not been made; and a callback that
\* runs in the try block has been told true of a request that was carried out.
Active == {"launched", "waiting"} \cup Telling

HelperTypes ==
  /\ MaxCalls \in Nat /\ Len(op) \in Nat /\ Len(op) <= MaxCalls /\ op \in Seq(Ops)
  /\ callback \in [Ops -> Nat] /\ DOMAIN answers = Calls
  /\ activity \in [Calls -> Active \cup {"none", "finished"}]

FieldInv ==
  /\ \A o \in Ops : callback[o] # 0 =>
       callback[o] \in 1..Len(op) /\ activity[callback[o]] \in Active /\ op[callback[o]] = o
  /\ \A n \in Calls : activity[n] \in Active => n <= Len(op) /\ callback[op[n]] = n

Fits(n) ==
  \/ Waiting(n) /\ answers[n] = <<>> /\ n \notin done
  \/ ~Waiting(n) /\ answers[n] = <<FALSE>> /\ n \notin done
  \/ ~Waiting(n) /\ answers[n] = <<TRUE>> /\ n \in done
  \/ ~Waiting(n) /\ answers[n] = <<TRUE, FALSE>> /\ n \in done /\ n \in threw

ToldInv ==
  \A n \in Calls :
    /\ n <= Len(op) => Fits(n)
    /\ n > Len(op) => answers[n] = <<>> /\ n \notin done
    /\ activity[n] = "try" => answers[n] = <<TRUE>> /\ n \in done

HelperInv == HelperTypes /\ FieldInv /\ ToldInv

LEMMA HelperInit == HelperAssumption /\ VpnInit => HelperInv
<1> SUFFICES ASSUME HelperAssumption, VpnInit PROVE HelperInv
  OBVIOUS
<1>1. HelperTypes
  BY DEF HelperAssumption, VpnInit, HelperTypes, Calls, Ops, Active
<1>2. FieldInv
  BY DEF VpnInit, FieldInv, Active, Telling
<1>3. ToldInv
  BY DEF HelperAssumption, VpnInit, ToldInv, Calls
<1> QED BY <1>1, <1>2, <1>3 DEF HelperInv

\* A busy activity and its call.
LEMMA BusyCall ==
  ASSUME HelperTypes, FieldInv, NEW n \in Calls, activity[n] \in Active
  PROVE  n \in 1..Len(op) /\ n # 0 /\ op[n] \in Ops /\ callback[op[n]] = n
  BY DEF HelperTypes, FieldInv, Calls

\* startProxy, stopProxy, installCA: the new call is refused or launched.
LEMMA CallKeeps ==
  ASSUME HelperInv, NEW o \in Ops, Call(o)
  PROVE  HelperInv'
<1> DEFINE n == Len(op) + 1
<1>0. /\ n \in Calls /\ n <= MaxCalls /\ op' = Append(op, o) /\ done' = done /\ threw' = threw
      /\ Len(op) \in Nat /\ MaxCalls \in Nat /\ Calls = 1..MaxCalls
  BY DEF HelperInv, HelperTypes, Calls, Call
<1>1. /\ op' \in Seq(Ops) /\ Len(op') = n /\ op'[n] = o
      /\ \A i \in 1..Len(op) : op'[i] = op[i]
  BY <1>0 DEF HelperInv, HelperTypes
<1>2. activity[n] \notin Active /\ answers[n] = <<>> /\ n \notin done
  <2>1. ~(n <= Len(op)) /\ n > Len(op)
    BY <1>0
  <2>2. activity[n] \notin Active
    BY <1>0, <2>1, Zenon DEF HelperInv, FieldInv
  <2>3. answers[n] = <<>> /\ n \notin done
    BY <1>0, <2>1, Zenon DEF HelperInv, ToldInv
  <2> QED BY <2>2, <2>3
<1>3. CASE callback[o] # 0
  <2>1. /\ answers' = [answers EXCEPT ![n] = <<FALSE>>]
        /\ callback' = callback /\ activity' = activity
    BY <1>3, Zenon DEF Call
  <2>2. HelperTypes'
    BY <1>0, <1>1, <2>1 DEF HelperInv, HelperTypes
  <2>3. FieldInv'
    <3>1. \A k \in Ops : callback[k] # 0 =>
            callback[k] \in 1..n /\ activity[callback[k]] \in Active /\ op'[callback[k]] = k
      BY <1>0, <1>1 DEF HelperInv, FieldInv
    <3>2. \A m \in Calls : activity[m] \in Active => m <= n /\ callback[op'[m]] = m
      BY <1>0, <1>1 DEF HelperInv, FieldInv
    <3> QED BY <1>1, <2>1, <3>1, <3>2 DEF FieldInv, Active, Telling
  <2>4. ToldInv'
    <3> SUFFICES ASSUME NEW m \in Calls
                 PROVE  /\ m <= n => Fits(m)'
                        /\ m > n => answers'[m] = <<>> /\ m \notin done
                        /\ activity[m] = "try" => answers'[m] = <<TRUE>> /\ m \in done
      BY <1>0, <1>1, <2>1, Zenon DEF ToldInv, Calls
    <3>1. CASE m = n
      <4>1. ~Waiting(n) /\ activity[n] # "try" /\ answers'[n] = <<FALSE>>
        BY <1>0, <1>2, <2>1 DEF HelperInv, HelperTypes, Waiting, Active, Telling
      <4> QED BY <3>1, <4>1, <1>0, <1>2, <2>1 DEF Fits, Waiting
    <3>2. CASE m # n
      <4>1. answers'[m] = answers[m]
        BY <3>2, <2>1 DEF HelperInv, HelperTypes
      <4>2. m <= n => m <= Len(op)
        BY <3>2, <1>0
      <4>3. m > n => m > Len(op)
        BY <1>0
      <4> QED BY <4>1, <4>2, <4>3, <1>0, <2>1 DEF HelperInv, ToldInv, Fits, Waiting
    <3> QED BY <3>1, <3>2
  <2> QED BY <2>2, <2>3, <2>4 DEF HelperInv
<1>4. CASE callback[o] = 0
  <2>1. /\ answers' = answers
        /\ callback' = [callback EXCEPT ![o] = n]
        /\ activity' = [activity EXCEPT ![n] = "launched"]
    BY <1>4 DEF Call
  <2>2. /\ callback'[o] = n /\ activity'[n] = "launched" /\ "launched" \in Active
        /\ \A m \in Calls : m # n => activity'[m] = activity[m]
        /\ \A k \in Ops : k # o => callback'[k] = callback[k]
    BY <1>0, <2>1 DEF HelperInv, HelperTypes, Active
  <2>3. HelperTypes'
    BY <1>0, <1>1, <2>1, <2>2 DEF HelperInv, HelperTypes
  <2>4. FieldInv'
    <3>1. ASSUME NEW k \in Ops, callback'[k] # 0
          PROVE  /\ callback'[k] \in 1..n /\ op'[callback'[k]] = k
                 /\ activity'[callback'[k]] \in Active
      <4>1. CASE k = o
        BY <4>1, <1>0, <1>1, <2>2
      <4>2. CASE k # o
        <5>1. /\ callback'[k] = callback[k] /\ callback[k] \in 1..Len(op)
              /\ activity[callback[k]] \in Active /\ op[callback[k]] = k
          BY <4>2, <2>2, <3>1 DEF HelperInv, FieldInv
        <5>2. callback[k] \in Calls /\ callback[k] # n /\ callback[k] \in 1..n
          <6>1. 1..Len(op) \subseteq 1..n /\ 1..n \subseteq Calls /\ n \notin 1..Len(op)
            BY <1>0
          <6> QED BY <5>1, <6>1, Zenon
        <5>3. activity'[callback[k]] = activity[callback[k]]
          BY <5>2, <2>2, Zenon
        <5>4. op'[callback[k]] = k
          BY <5>1, <1>1, Zenon
        <5> QED BY <5>1, <5>2, <5>3, <5>4, Zenon
      <4> QED BY <4>1, <4>2
    <3>2. ASSUME NEW m \in Calls, activity'[m] \in Active
          PROVE  m <= n /\ callback'[op'[m]] = m
      <4>1. CASE m = n
        BY <4>1, <1>0, <1>1, <2>2
      <4>2. CASE m # n
        <5>1. m \in 1..Len(op) /\ m # 0 /\ op[m] \in Ops /\ callback[op[m]] = m
          BY <4>2, <3>2, <2>2, BusyCall DEF HelperInv
        <5>2. op[m] # o /\ op'[m] = op[m]
          BY <5>1, <1>1, <1>4
        <5> QED BY <5>1, <5>2, <2>2, <1>0
      <4> QED BY <4>1, <4>2
    <3> QED BY <1>1, <3>1, <3>2, Zenon DEF FieldInv, Active, Telling, Calls
  <2>5. ToldInv'
    <3> SUFFICES ASSUME NEW m \in Calls
                 PROVE  /\ m <= n => Fits(m)'
                        /\ m > n => answers[m] = <<>> /\ m \notin done
                        /\ activity'[m] = "try" => answers[m] = <<TRUE>> /\ m \in done
      BY <1>0, <1>1, <2>1, Zenon DEF ToldInv, Calls
    <3>1. CASE m = n
      BY <3>1, <1>0, <1>2, <2>1, <2>2 DEF Fits, Waiting
    <3>2. CASE m # n
      <4>1. activity'[m] = activity[m]
        BY <3>2, <2>2
      <4>2. m <= n => m <= Len(op)
        BY <3>2, <1>0
      <4>3. m > n => m > Len(op)
        BY <1>0
      <4> QED BY <4>1, <4>2, <4>3, <1>0, <2>1 DEF HelperInv, ToldInv, Fits, Waiting
    <3> QED BY <3>1, <3>2
  <2> QED BY <2>3, <2>4, <2>5 DEF HelperInv
<1> QED BY <1>3, <1>4

\* An activity that stays busy keeps its call in the field.
LEMMA FieldStays ==
  ASSUME HelperTypes, FieldInv, NEW n \in Calls, activity[n] \in Active, NEW w \in Active,
         op' = op, callback' = callback, activity' = [activity EXCEPT ![n] = w],
         DOMAIN answers' = Calls
  PROVE  HelperTypes' /\ FieldInv'
<1>1. \A m \in Calls : activity'[m] \in Active <=> activity[m] \in Active
  BY DEF HelperTypes
<1>2. HelperTypes'
  BY DEF HelperTypes, Active, Telling, Calls
<1>3. \A o \in Ops : callback[o] # 0 => callback[o] \in Calls
  BY DEF HelperTypes, FieldInv, Calls
<1> QED BY <1>1, <1>2, <1>3 DEF FieldInv, Active, Telling, Calls

\* One that finishes leaves the field of its kind empty.
LEMMA FieldCleared ==
  ASSUME HelperTypes, FieldInv, NEW n \in Calls, activity[n] \in Active,
         ClearAndFinish(n), op' = op, answers' = answers
  PROVE  HelperTypes' /\ FieldInv'
<1>0. n \in 1..Len(op) /\ n # 0 /\ op[n] \in Ops /\ callback[op[n]] = n
  BY BusyCall
<1>1. /\ callback'[op[n]] = 0 /\ activity'[n] = "finished" /\ "finished" \notin Active
      /\ \A m \in Calls : m # n => activity'[m] = activity[m]
      /\ \A k \in Ops : k # op[n] => callback'[k] = callback[k]
  BY <1>0 DEF ClearAndFinish, HelperTypes, Active, Telling
<1>2. HelperTypes'
  BY <1>0 DEF HelperTypes, ClearAndFinish, Active, Telling, Calls
<1>3. ASSUME NEW k \in Ops, callback'[k] # 0
      PROVE  /\ callback'[k] \in 1..Len(op) /\ op[callback'[k]] = k
             /\ activity'[callback'[k]] \in Active
  <2>1. k # op[n] /\ callback'[k] = callback[k]
    BY <1>1, <1>3
  <2>2. callback[k] \in 1..Len(op) /\ op[callback[k]] = k /\ activity[callback[k]] \in Active
    BY <2>1, <1>3 DEF FieldInv
  <2>3. callback[k] # n /\ callback[k] \in Calls
    BY <2>1, <2>2 DEF HelperTypes, Calls
  <2> QED BY <2>1, <2>2, <2>3, <1>1, Zenon
<1>4. ASSUME NEW m \in Calls, activity'[m] \in Active
      PROVE  m <= Len(op) /\ callback'[op[m]] = m
  <2>1. m # n /\ activity[m] \in Active
    BY <1>1, <1>4, Zenon
  <2>2. m \in 1..Len(op) /\ callback[op[m]] = m /\ op[m] \in Ops
    BY <2>1, BusyCall, Zenon
  <2>3. op[m] # op[n]
    BY <2>1, <2>2, <1>0, Zenon
  <2>4. m <= Len(op)
    BY <2>2 DEF HelperTypes
  <2> QED BY <2>2, <2>3, <2>4, <1>1, Zenon
<1> QED BY <1>2, <1>3, <1>4, Zenon DEF FieldInv, Active, Telling, Calls

\* What a step does not touch keeps fitting.
LEMMA ToldElsewhere ==
  ASSUME HelperTypes, ToldInv, NEW n \in Calls, n <= Len(op), op' = op,
         \A m \in Calls : m # n =>
           /\ activity'[m] = activity[m] /\ answers'[m] = answers[m]
           /\ (m \in done' <=> m \in done) /\ (m \in threw => m \in threw'),
         Fits(n)', activity'[n] = "try" => answers'[n] = <<TRUE>> /\ n \in done'
  PROVE  ToldInv'
<1> SUFFICES ASSUME NEW m \in Calls
             PROVE  /\ m <= Len(op) => Fits(m)'
                    /\ m > Len(op) => answers'[m] = <<>> /\ m \notin done'
                    /\ activity'[m] = "try" => answers'[m] = <<TRUE>> /\ m \in done'
  BY Zenon DEF ToldInv, Calls
<1>1. CASE m = n
  <2>1. ~(n > Len(op))
    BY DEF HelperTypes, Calls
  <2> QED BY <1>1, <2>1, Zenon
<1>2. CASE m # n
  BY <1>2, Zenon DEF ToldInv, Fits, Waiting
<1> QED BY <1>1, <1>2

\* The first invocation of a callback tells it what became of its request.
LEMMA FirstInvoke ==
  ASSUME HelperInv, NEW n \in Calls, Waiting(n), NEW r \in BOOLEAN, NEW w \in Telling,
         Invoke(n, r, w), w = "try" => r, done' = IF r THEN done \cup {n} ELSE done,
         op' = op, threw' = threw
  PROVE  HelperInv'
<1>0. /\ activity[n] \in Active /\ w \in Active /\ w \notin {"launched", "waiting"}
      /\ HelperTypes /\ FieldInv /\ ToldInv
  BY DEF HelperInv, Waiting, Active, Telling
<1>1. n \in 1..Len(op) /\ n # 0 /\ op[n] \in Ops /\ callback[op[n]] = n /\ n <= Len(op)
  BY <1>0, BusyCall DEF HelperTypes
<1>2. answers[n] = <<>> /\ n \notin done
  BY <1>0, <1>1, Zenon DEF ToldInv, Fits
<1>3. /\ answers' = [answers EXCEPT ![n] = <<r>>] /\ callback' = callback
      /\ activity' = [activity EXCEPT ![n] = w]
  <2>1. answers' = [answers EXCEPT ![n] = Append(answers[n], r)]
    BY <1>1 DEF Invoke
  <2>2. Append(<<>>, r) = <<r>>
    OBVIOUS
  <2> QED BY <1>2, <2>1, <2>2, Zenon DEF Invoke
<1>4. HelperTypes' /\ FieldInv'
  <2>1. DOMAIN answers' = Calls
    BY <1>0, <1>3 DEF HelperTypes
  <2> QED BY <1>0, <1>3, <2>1, FieldStays
<1>5. /\ answers'[n] = <<r>> /\ activity'[n] = w
      /\ \A m \in Calls : m # n => activity'[m] = activity[m] /\ answers'[m] = answers[m]
  BY <1>0, <1>3 DEF HelperTypes
<1>6. \A m \in Calls : m # n => (m \in done' <=> m \in done)
  OBVIOUS
<1>7. Fits(n)' /\ (w = "try" => answers'[n] = <<TRUE>> /\ n \in done')
  <2>1. ~Waiting(n)'
    BY <1>0, <1>5 DEF Waiting
  <2>2. CASE r = TRUE
    BY <2>1, <2>2, <1>5, Zenon DEF Fits
  <2>3. CASE r = FALSE
    BY <2>1, <2>3, <1>2, <1>5, Zenon DEF Fits
  <2> QED BY <2>2, <2>3
<1>8. ToldInv'
  BY <1>0, <1>1, <1>5, <1>6, <1>7, ToldElsewhere, Zenon
<1> QED BY <1>4, <1>8 DEF HelperInv

\* A dialog keeps the activity waiting.
LEMMA DialogKeeps ==
  ASSUME HelperInv, NEW n \in Calls, Waiting(n), startActivityForResult(n), op' = op,
         threw' = threw
  PROVE  HelperInv'
<1>0. /\ activity[n] \in Active /\ "waiting" \in Active
      /\ HelperTypes /\ FieldInv /\ ToldInv
  BY DEF HelperInv, Waiting, Active
<1>1. n \in 1..Len(op) /\ n <= Len(op)
  BY <1>0, BusyCall DEF HelperTypes
<1>2. /\ answers' = answers /\ callback' = callback /\ done' = done
      /\ activity' = [activity EXCEPT ![n] = "waiting"]
  BY DEF startActivityForResult
<1>3. HelperTypes' /\ FieldInv'
  <2>1. DOMAIN answers' = Calls
    BY <1>0, <1>2 DEF HelperTypes
  <2> QED BY <1>0, <1>2, <2>1, FieldStays
<1>4. activity'[n] = "waiting" /\ \A m \in Calls : m # n => activity'[m] = activity[m]
  BY <1>0, <1>2 DEF HelperTypes
<1>5. Fits(n)'
  BY <1>0, <1>1, <1>2, <1>4 DEF ToldInv, Fits, Waiting
<1>6. ToldInv'
  BY <1>0, <1>1, <1>2, <1>4, <1>5, ToldElsewhere
<1> QED BY <1>3, <1>6 DEF HelperInv

LEMMA PerformKeeps ==
  ASSUME HelperInv, NEW n \in Calls, Waiting(n), Perform(n), op' = op, threw' = threw
  PROVE  HelperInv'
<1>1. "try" \in Telling /\ "catch" \in Telling /\ "catch" # "try"
  BY DEF Telling
<1>2. CASE done' = done \cup {n} /\ Invoke(n, TRUE, "try")
  BY <1>1, <1>2, FirstInvoke, Zenon
<1>3. CASE done' = done /\ Invoke(n, FALSE, "catch")
  BY <1>1, <1>3, FirstInvoke, Zenon
<1> QED BY <1>2, <1>3, Zenon DEF Perform

\* A callback that returns, or whose throw ends the app after the finally
\* block, leaves what it was told as it is.
LEMMA ClearKeeps ==
  ASSUME HelperInv, NEW n \in Calls, activity[n] \in Telling, ClearAndFinish(n),
         op' = op, answers' = answers, done' = done, threw' = threw \/ threw' = threw \cup {n}
  PROVE  HelperInv'
<1>0. activity[n] \in Active /\ ~Waiting(n) /\ HelperTypes /\ FieldInv /\ ToldInv
  BY DEF HelperInv, Waiting, Active, Telling
<1>1. n <= Len(op)
  BY <1>0, BusyCall DEF HelperTypes
<1>2. HelperTypes' /\ FieldInv'
  BY <1>0, FieldCleared
<1>3. activity'[n] = "finished" /\ \A m \in Calls : m # n => activity'[m] = activity[m]
  BY <1>0 DEF ClearAndFinish, HelperTypes
<1>4. \A m : m \in threw => m \in threw'
  OBVIOUS
<1>5. Fits(n)
  BY <1>0, <1>1 DEF ToldInv
<1>6. Fits(n)'
  <2>1. ~Waiting(n)'
    BY <1>3 DEF Waiting
  <2> QED BY <1>0, <1>4, <1>5, <2>1, Zenon DEF Fits
<1>7. ToldInv'
  <2>1. activity'[n] # "try"
    BY <1>3
  <2> QED BY <1>0, <1>1, <1>3, <1>4, <1>6, <2>1, ToldElsewhere, Zenon
<1> QED BY <1>2, <1>7 DEF HelperInv

LEMMA AppendSecond ==
  ASSUME NEW S, NEW a \in S, NEW b \in S
  PROVE  Append(<<a>>, b) = <<a, b>>
<1>1. <<a>> \in Seq(S) /\ Len(<<a>>) = 1
  OBVIOUS
<1>2. /\ Append(<<a>>, b) \in Seq(S) /\ Len(Append(<<a>>, b)) = 2
      /\ Append(<<a>>, b)[1] = a /\ Append(<<a>>, b)[2] = b
  BY <1>1
<1>3. <<a, b>> \in Seq(S) /\ Len(<<a, b>>) = 2 /\ <<a, b>>[1] = a /\ <<a, b>>[2] = b
  OBVIOUS
<1>4. \A i \in 1..2 : Append(<<a>>, b)[i] = <<a, b>>[i]
  BY <1>2, <1>3
<1> QED BY <1>2, <1>3, <1>4, SeqEqual

\* A callback that throws in the try block is invoked a second time.
LEMMA SecondInvoke ==
  ASSUME HelperInv, NEW n \in Calls, activity[n] = "try", Invoke(n, FALSE, "catch"),
         op' = op, done' = done, threw' = threw \cup {n}
  PROVE  HelperInv'
<1>0. /\ activity[n] \in Active /\ "catch" \in Active
      /\ HelperTypes /\ FieldInv /\ ToldInv
  BY DEF HelperInv, Active, Telling
<1>1. n # 0 /\ op[n] \in Ops /\ callback[op[n]] = n /\ n <= Len(op)
  BY <1>0, BusyCall DEF HelperTypes
<1>2. answers[n] = <<TRUE>> /\ n \in done
  BY <1>0 DEF ToldInv
<1>3. /\ answers' = [answers EXCEPT ![n] = <<TRUE, FALSE>>] /\ callback' = callback
      /\ activity' = [activity EXCEPT ![n] = "catch"]
  <2>1. answers' = [answers EXCEPT ![n] = Append(answers[n], FALSE)]
    BY <1>1 DEF Invoke
  <2>2. Append(<<TRUE>>, FALSE) = <<TRUE, FALSE>>
    <3>1. TRUE \in BOOLEAN /\ FALSE \in BOOLEAN
      OBVIOUS
    <3> QED BY <3>1, AppendSecond, Zenon
  <2> QED BY <1>2, <2>1, <2>2, Zenon DEF Invoke
<1>4. HelperTypes' /\ FieldInv'
  <2>1. DOMAIN answers' = Calls
    BY <1>0, <1>3 DEF HelperTypes
  <2> QED BY <1>0, <1>3, <2>1, FieldStays
<1>5. /\ answers'[n] = <<TRUE, FALSE>> /\ activity'[n] = "catch"
      /\ \A m \in Calls : m # n => activity'[m] = activity[m] /\ answers'[m] = answers[m]
  BY <1>0, <1>3 DEF HelperTypes
<1>6. Fits(n)' /\ activity'[n] # "try"
  <2>1. ~Waiting(n)' /\ activity'[n] # "try"
    BY <1>5 DEF Waiting
  <2> QED BY <1>2, <1>5, <2>1 DEF Fits
<1>7. ToldInv'
  BY <1>0, <1>1, <1>5, <1>6, ToldElsewhere, Zenon
<1> QED BY <1>4, <1>7 DEF HelperInv

\* What the invariant does not mention may change.
LEMMA QuietKeepsHelper ==
  ASSUME HelperInv, UNCHANGED <<op, callback, answers, activity, done>>,
         \A m : m \in threw => m \in threw'
  PROVE  HelperInv'
<1>1. HelperTypes'
  BY DEF HelperInv, HelperTypes, Active, Telling, Calls
<1>2. FieldInv'
  BY DEF HelperInv, FieldInv, Active, Telling, Calls
<1>3. ToldInv'
  BY Zenon DEF HelperInv, ToldInv, Fits, Waiting, Calls
<1> QED BY <1>1, <1>2, <1>3 DEF HelperInv

LEMMA HelperStep == HelperInv /\ [VpnNext]_vpnVars => HelperInv'
<1> SUFFICES ASSUME HelperInv, [VpnNext]_vpnVars PROVE HelperInv'
  OBVIOUS
<1>1. ASSUME NEW o \in Ops, Call(o) PROVE HelperInv'
  BY <1>1, CallKeeps
<1>2. ASSUME NEW n \in Calls, onCreate(n) \/ TurnDevice(n) PROVE HelperInv'
  <2>1. Waiting(n) /\ op' = op /\ threw' = threw /\ Body(n)
    BY <1>2 DEF onCreate, TurnDevice, Waiting
  <2> QED BY <2>1, PerformKeeps, DialogKeeps DEF Body
<1>3. ASSUME NEW n \in Calls, onActivityResult(n) PROVE HelperInv'
  <2>1. Waiting(n) /\ op' = op /\ threw' = threw /\ "outside" \in Telling /\ "outside" # "try"
    BY <1>3 DEF onActivityResult, Waiting, Telling
  <2>2. CASE Perform(n)
    BY <2>1, <2>2, PerformKeeps
  <2>3. CASE done' = done \cup {n} /\ Invoke(n, TRUE, "outside")
    BY <2>1, <2>3, FirstInvoke, Zenon
  <2>4. CASE done' = done /\ Invoke(n, FALSE, "outside")
    BY <2>1, <2>4, FirstInvoke, Zenon
  <2> QED BY <1>3, <2>2, <2>3, <2>4, Zenon DEF onActivityResult
<1>4. ASSUME NEW n \in Calls, CallbackReturns(n) PROVE HelperInv'
  BY <1>4, ClearKeeps DEF CallbackReturns
<1>5. ASSUME NEW n \in Calls, CallbackThrows(n) PROVE HelperInv'
  <2>1. activity[n] \in Telling /\ op' = op /\ done' = done /\ threw' = threw \cup {n}
    BY <1>5 DEF CallbackThrows
  <2>2. CASE activity[n] = "try" /\ Invoke(n, FALSE, "catch")
    BY <2>1, <2>2, SecondInvoke
  <2>3. CASE ClearAndFinish(n) /\ answers' = answers
    BY <2>1, <2>3, ClearKeeps
  <2>4. CASE UNCHANGED <<callback, answers, activity>>
    BY <2>1, <2>4, QuietKeepsHelper
  <2> QED BY <1>5, <2>2, <2>3, <2>4, Zenon DEF CallbackThrows
<1>6. CASE UNCHANGED vpnVars
  BY <1>6, QuietKeepsHelper DEF vpnVars
<1> QED BY <1>1, <1>2, <1>3, <1>4, <1>5, <1>6 DEF VpnNext

\* VpnHelper's static fields and the activities stay in step: a field holds a
\* call exactly as long as an activity of its kind is under way for it.
THEOREM FieldAlwaysFollows == VpnSpec => []FieldFollowsActivity
<1>1. HelperInv => FieldFollowsActivity
  <2> SUFFICES ASSUME HelperInv, NEW o \in Ops
               PROVE  {n \in Calls : activity[n] \in Active /\ op[n] = o} =
                        IF callback[o] = 0 THEN {} ELSE {callback[o]}
    BY Zenon DEF FieldFollowsActivity, Busy, Waiting, Active
  <2>1. \A n \in Calls : activity[n] \in Active /\ op[n] = o => callback[o] = n /\ n # 0
    BY BusyCall DEF HelperInv
  <2>2. callback[o] # 0 =>
          callback[o] \in Calls /\ activity[callback[o]] \in Active /\ op[callback[o]] = o
    BY DEF HelperInv, HelperTypes, FieldInv, Calls
  <2> QED BY <2>1, <2>2
<1> QED BY HelperAssumption, HelperInit, HelperStep, <1>1, PTL DEF VpnSpec

\* Whatever the calls, the dialogs, the turns of the device and the behaviour
\* of the callbacks, a callback is first told whether its own request was
\* carried out, and only one that threw in HelperActivity's try block is
\* invoked again, with false.
THEOREM AnswersAlwaysFit == VpnSpec => []AnswerFits
<1>1. HelperInv => AnswerFits
  <2> SUFFICES ASSUME HelperInv, NEW n \in 1..Len(op) PROVE Fits(n)
    BY DEF AnswerFits, Fits
  <2>1. n \in Calls /\ n <= Len(op)
    BY DEF HelperInv, HelperTypes, Calls
  <2> QED BY <2>1 DEF HelperInv, ToldInv
<1> QED BY HelperAssumption, HelperInit, HelperStep, <1>1, PTL DEF VpnSpec
=============================================================================
