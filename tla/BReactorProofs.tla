--------------------------- MODULE BReactorProofs ---------------------------
(***************************************************************************)
(* Proofs about the reactor, for every program, every nesting of handlers  *)
(* and every number of descriptors, timers and results.                    *)
(*                                                                         *)
(* Descriptors: the results that are still to be dispatched and the        *)
(* pointers of the active descriptors name one another (PointersFit), and  *)
(* no result outlives its registration (ResultsFresh).  FdInv adds types   *)
(* and that wait_for_events starts with no results.                        *)
(*                                                                         *)
(* Jobs: BReactor_Synchronize runs the jobs set since its mark and no      *)
(* other (SyncRunsSince).  SyncInv adds that the list holds no job twice,  *)
(* that it holds no mark but those of the handlers that set one, and that  *)
(* an inner handler's mark is in front of an outer one's.                  *)
(*                                                                         *)
(* Timers: the expired list holds the expired timers and none is early     *)
(* (TimersFit).  TimerInv adds that the wait is for the first timer of     *)
(* the tree, which no handler changes meanwhile.                           *)
(***************************************************************************)
EXTENDS BReactor, LinkedListLemmas, FiniteSetTheorems

Result == [fd : Fds \cup {None}, ev : SUBSET (Kinds \cup {"err"}), reg : Nat]

FdInv ==
  /\ prog \in Programs
  /\ active \subseteq Fds /\ ptr \in [Fds -> Nat] /\ reg \in [Fds -> Nat]
  /\ results \in Seq(Result) /\ pos \in 0..Len(results)
  /\ ctl = "poll" => results = <<>> /\ pos = 0
  /\ PointersFit
  /\ ResultsFresh

\* A step that leaves the descriptors alone and does not enter wait_for_events
\* keeps the invariant.
LEMMA FdFrame ==
  ASSUME FdInv, UNCHANGED <<prog, fdVars>>, ctl' = "poll" => ctl = "poll"
  PROVE  FdInv'
  BY DEF FdInv, fdVars, PointersFit, ResultsFresh

\* Initially nothing is registered and nothing has been returned.
LEMMA FdInit == Init => FdInv
  BY DEF Init, FdInv, PointersFit, ResultsFresh, Result

\* BReactor_AddFileDescriptor gives the new registration no result.
LEMMA AddKeeps ==
  ASSUME ReactorAssumption, FdInv, NEW f \in Fds, BReactor_AddFileDescriptor(f), prog' = prog
  PROVE  FdInv'
<1> USE DEF BReactor_AddFileDescriptor, FdInv, loopVars
<1>1. active' \subseteq Fds /\ ptr' \in [Fds -> Nat] /\ reg' \in [Fds -> Nat]
  OBVIOUS
<1>2. results' \in Seq(Result) /\ pos' \in 0..Len(results')
  OBVIOUS
<1>3. ctl' = "poll" => results' = <<>> /\ pos' = 0
  OBVIOUS
<1>4. \A i \in (pos + 1)..Len(results) : results[i].fd # f
  BY Zenon DEF ResultsFresh, ReactorAssumption, Result
<1>5. PointersFit'
  <2> SUFFICES ASSUME NEW g \in active'
               PROVE  /\ ptr'[g] # 0 => ptr'[g] \in (pos' + 1)..Len(results') /\ results'[ptr'[g]].fd = g
                      /\ \A i \in (pos' + 1)..Len(results') : results'[i].fd = g => ptr'[g] = i
    BY DEF PointersFit
  <2>1. CASE g = f
    BY <2>1, <1>4
  <2>2. CASE g # f
    BY <2>2 DEF PointersFit
  <2> QED BY <2>1, <2>2
<1>6. ResultsFresh'
  BY <1>4 DEF ResultsFresh
<1> QED BY <1>1, <1>2, <1>3, <1>5, <1>6

\* BReactor_RemoveFileDescriptor clears the descriptor's own result only.
LEMMA RemoveKeeps ==
  ASSUME ReactorAssumption, FdInv, NEW f \in Fds, BReactor_RemoveFileDescriptor(f), prog' = prog
  PROVE  FdInv'
<1> USE DEF BReactor_RemoveFileDescriptor, FdInv, loopVars
<1>1. active' \subseteq Fds /\ ptr' \in [Fds -> Nat] /\ reg' \in [Fds -> Nat]
  OBVIOUS
<1>2. /\ DOMAIN results = 1..Len(results) /\ Len(results) \in Nat
      /\ \A i \in 1..Len(results) : results[i] \in Result
  OBVIOUS
<1>3. \A i \in DOMAIN results : results'[i] \in Result
  <2>1. ASSUME NEW r \in Result PROVE [r EXCEPT !.fd = None] \in Result
    BY Zenon DEF Result
  <2> QED BY <1>2, <2>1
<1>4. results' \in Seq(Result) /\ Len(results') = Len(results) /\ DOMAIN results' = DOMAIN results
  BY <1>2, <1>3
<1>5. \A i \in 1..Len(results) :
        /\ i = ptr[f] => results'[i].fd = None
        /\ i # ptr[f] => results'[i] = results[i]
  BY <1>2 DEF Result
<1>6. \A i \in (pos + 1)..Len(results) : i \in 1..Len(results)
  BY <1>2
<1>7. \A i \in (pos + 1)..Len(results) : results'[i].fd # f
  BY <1>2, <1>5, <1>6 DEF PointersFit, ReactorAssumption
<1>8. ctl' = "poll" => results' = <<>> /\ pos' = 0
  BY <1>2, <1>4
<1>9. PointersFit'
  <2>0. ptr' = ptr /\ pos' = pos
    OBVIOUS
  <2> SUFFICES ASSUME NEW g \in active'
               PROVE  /\ ptr'[g] # 0 => ptr'[g] \in (pos' + 1)..Len(results') /\ results'[ptr'[g]].fd = g
                      /\ \A i \in (pos' + 1)..Len(results') : results'[i].fd = g => ptr'[g] = i
    BY Zenon DEF PointersFit
  <2>1. g \in active /\ g # f /\ g # None
    BY DEF ReactorAssumption
  <2>2. ASSUME ptr[g] # 0
        PROVE  ptr[g] \in (pos + 1)..Len(results) /\ results'[ptr[g]].fd = g
    <3>1. ptr[g] \in (pos + 1)..Len(results) /\ results[ptr[g]].fd = g
      BY <2>1, <2>2 DEF PointersFit
    <3>2. ptr[g] # ptr[f]
      BY <2>1, <2>2, <3>1 DEF PointersFit
    <3> QED BY <3>1, <3>2, <1>5, <1>6
  <2>3. ASSUME NEW i \in (pos + 1)..Len(results), results'[i].fd = g
        PROVE  ptr[g] = i
    BY <2>1, <2>3, <1>5, <1>6 DEF PointersFit
  <2> QED BY <1>4, <2>0, <2>2, <2>3, Zenon
<1>10. ResultsFresh'
  <2> SUFFICES ASSUME NEW i \in (pos + 1)..Len(results), results'[i].fd # None
               PROVE  results'[i].fd \in active' /\ results'[i].reg = reg[results'[i].fd]
    BY <1>4, Zenon DEF ResultsFresh
  <2>1. results'[i] = results[i]
    BY <1>5, <1>6
  <2>2. results[i].fd \in active /\ results[i].reg = reg[results[i].fd]
    BY <2>1 DEF ResultsFresh
  <2>3. results[i].fd # f
    BY <2>1, <1>7, Zenon
  <2> QED BY <2>1, <2>2, <2>3
<1> QED BY <1>1, <1>4, <1>8, <1>9, <1>10

\* BReactor_Exec dispatches the next result and clears its pointer.
LEMMA DispatchKeeps ==
  ASSUME ReactorAssumption, FdInv, DispatchFd, prog' = prog
  PROVE  FdInv'
<1> USE DEF DispatchFd, FdInv, InLoop
<1>1. Len(results) \in Nat /\ pos + 1 \in 1..Len(results) /\ results[pos + 1] \in Result
  OBVIOUS
<1> DEFINE r == results[pos + 1]
<1>2. r.fd \in Fds \cup {None}
  BY <1>1 DEF Result
<1>3. pos' = pos + 1 /\ pos' \in 0..Len(results) /\ ctl' # "poll"
  BY <1>1
<1>4. ptr' \in [Fds -> Nat]
  BY <1>2
<1>5. \A f \in active : ptr'[f] = IF f = r.fd THEN 0 ELSE ptr[f]
  BY <1>2, SMTT(40) DEF ReactorAssumption
<1>6. \A i \in (pos' + 1)..Len(results) : i \in (pos + 1)..Len(results) /\ i # pos + 1
  BY <1>1, <1>3
<1>7. PointersFit'
  <2> SUFFICES ASSUME NEW f \in active
               PROVE  /\ ptr'[f] # 0 => ptr'[f] \in (pos' + 1)..Len(results) /\ results[ptr'[f]].fd = f
                      /\ \A i \in (pos' + 1)..Len(results) : results[i].fd = f => ptr'[f] = i
    BY DEF PointersFit
  <2>1. CASE f = r.fd
    <3>1. ptr[f] = pos + 1
      BY <2>1, <1>1 DEF PointersFit
    <3>2. ptr'[f] = 0
      BY <2>1, <1>5
    <3>3. \A i \in (pos' + 1)..Len(results) : results[i].fd # f
      <4>1. \A i \in (pos + 1)..Len(results) : results[i].fd = f => ptr[f] = i
        BY DEF PointersFit
      <4> QED BY <3>1, <4>1, <1>6
    <3> QED BY <3>2, <3>3
  <2>2. CASE f # r.fd
    <3>1. ptr'[f] = ptr[f]
      BY <2>2, <1>5
    <3>2. ptr[f] # 0 => ptr[f] # pos + 1
      BY <2>2 DEF PointersFit
    <3>3. ptr[f] # 0 => ptr[f] \in (pos' + 1)..Len(results) /\ results[ptr[f]].fd = f
      BY <3>2, <1>1, <1>3 DEF PointersFit
    <3> QED BY <3>1, <3>3, <1>6 DEF PointersFit
  <2> QED BY <2>1, <2>2
<1>8. ResultsFresh'
  BY <1>6 DEF ResultsFresh
<1> QED BY <1>3, <1>4, <1>7, <1>8

\* set_epoll_fd_pointers: each descriptor returned gets the index of its result.
LEMMA PollKeeps ==
  ASSUME ReactorAssumption, FdInv, PollReturns, prog' = prog
  PROVE  FdInv'
<1>0. PICK n \in 1..MaxResults :
        \E order \in [1..n -> active], ev \in [1..n -> SUBSET (Kinds \cup {"err"})] :
          /\ \A i, k \in 1..n : order[i] = order[k] => i = k
          /\ \A i \in 1..n : ev[i] # {} /\ ev[i] \subseteq wait[order[i]] \cup {"err"}
          /\ results' = [i \in 1..n |-> [fd |-> order[i], ev |-> ev[i], reg |-> reg[order[i]]]]
          /\ ptr' = [f \in Fds |-> IF \E i \in 1..n : order[i] = f
                                   THEN CHOOSE i \in 1..n : order[i] = f ELSE ptr[f]]
  BY Zenon DEF PollReturns
<1>1. PICK order \in [1..n -> active], ev \in [1..n -> SUBSET (Kinds \cup {"err"})] :
        /\ \A i, k \in 1..n : order[i] = order[k] => i = k
        /\ \A i \in 1..n : ev[i] # {} /\ ev[i] \subseteq wait[order[i]] \cup {"err"}
        /\ results' = [i \in 1..n |-> [fd |-> order[i], ev |-> ev[i], reg |-> reg[order[i]]]]
        /\ ptr' = [f \in Fds |-> IF \E i \in 1..n : order[i] = f
                                 THEN CHOOSE i \in 1..n : order[i] = f ELSE ptr[f]]
  BY <1>0, Zenon
<1>2. /\ active' = active /\ reg' = reg /\ pos' = pos
      /\ ctl = "poll" /\ ctl' = "exec" /\ n \in Nat
  BY DEF PollReturns, LeavePoll, ReactorAssumption
<1>3. results = <<>> /\ pos = 0 /\ active \subseteq Fds
      /\ reg \in [Fds -> Nat] /\ ptr \in [Fds -> Nat]
  BY <1>2 DEF FdInv
<1>4. \A i \in 1..n : order[i] \in Fds /\ ev[i] \in SUBSET (Kinds \cup {"err"})
                      /\ reg[order[i]] \in Nat
  BY <1>3
<1>5. \A i \in 1..n : results'[i] \in Result /\ results'[i].fd = order[i]
                      /\ results'[i].reg = reg[order[i]]
  BY <1>1, <1>4 DEF Result
<1>6. results' \in Seq(Result) /\ Len(results') = n
  BY <1>1, <1>2, <1>5
<1>7. \A f \in active : ptr[f] = 0
  BY <1>3, <1>2 DEF FdInv, PointersFit
<1>8. \A f \in Fds : \/ \E i \in 1..n : order[i] = f /\ ptr'[f] = i
                     \/ (\A i \in 1..n : order[i] # f) /\ ptr'[f] = ptr[f]
  BY <1>1
<1>9. ptr' \in [Fds -> Nat]
  <2>1. \A f \in Fds : ptr'[f] \in Nat
    <3> SUFFICES ASSUME NEW f \in Fds PROVE ptr'[f] \in Nat
      OBVIOUS
    <3>1. CASE \E i \in 1..n : order[i] = f /\ ptr'[f] = i
      BY <3>1, <1>2
    <3>2. CASE (\A i \in 1..n : order[i] # f) /\ ptr'[f] = ptr[f]
      BY <3>2, <1>3
    <3> QED BY <1>8, <3>1, <3>2
  <2>2. ptr' = [f \in Fds |-> ptr'[f]]
    BY <1>1
  <2> QED BY <2>1, <2>2
<1>10. PointersFit'
  <2>1. (pos' + 1)..Len(results') = 1..n
    BY <1>2, <1>3, <1>6
  <2> SUFFICES ASSUME NEW f \in active
               PROVE  /\ ptr'[f] # 0 => ptr'[f] \in 1..n /\ results'[ptr'[f]].fd = f
                      /\ \A i \in 1..n : results'[i].fd = f => ptr'[f] = i
    BY <1>2, <2>1, Zenon DEF PointersFit
  <2>2. f \in Fds /\ ptr[f] = 0
    BY <1>3, <1>7
  <2>3. CASE \E i \in 1..n : order[i] = f /\ ptr'[f] = i
    BY <2>3, <1>1, <1>5
  <2>4. CASE (\A i \in 1..n : order[i] # f) /\ ptr'[f] = ptr[f]
    BY <2>2, <2>4, <1>5
  <2> QED BY <2>2, <2>3, <2>4, <1>8
<1>11. ResultsFresh'
  <2>1. \A i \in 1..n : results'[i].fd \in active' /\ results'[i].reg = reg'[results'[i].fd]
    BY <1>2, <1>5
  <2>2. (pos' + 1)..Len(results') = 1..n
    BY <1>2, <1>3, <1>6
  <2> QED BY <2>1, <2>2, ZenonT(40) DEF ResultsFresh
<1> QED BY <1>2, <1>3, <1>6, <1>9, <1>10, <1>11 DEF FdInv

\* wait_for_events starts when every result has been dispatched, and with none.
LEMMA WaitKeeps ==
  ASSUME ReactorAssumption, FdInv, wait_for_events, prog' = prog
  PROVE  FdInv'
<1>1. /\ results' = <<>> /\ pos' = 0 /\ pos = Len(results)
      /\ active' = active /\ ptr' = ptr /\ reg' = reg
  BY DEF wait_for_events
<1>2. \A f \in active : ptr[f] = 0
  BY <1>1 DEF FdInv, PointersFit
<1> QED BY <1>1, <1>2 DEF FdInv, PointersFit, ResultsFresh

\* Every step keeps the invariant.
LEMMA FdStep == ReactorAssumption /\ FdInv /\ [Next]_vars => FdInv'
<1> SUFFICES ASSUME ReactorAssumption, FdInv, [Next]_vars PROVE FdInv'
  OBVIOUS
<1>1. CASE UNCHANGED vars
  BY <1>1, FdFrame DEF vars, loopVars
<1> SUFFICES ASSUME Next PROVE FdInv'
  BY <1>1
<1>0. prog' = prog
  BY DEF Next
<1>2. CASE Handler
  <2>0. prog.jobs \subseteq Jobs /\ prog.timers \subseteq Timers /\ prog.fds \subseteq Fds
    BY DEF FdInv, ReactorAssumption
  <2>1. CASE \E f \in Fds : BReactor_AddFileDescriptor(f)
    BY <1>0, <2>1, AddKeeps
  <2>2. CASE \E f \in Fds : BReactor_RemoveFileDescriptor(f)
    BY <1>0, <2>2, RemoveKeeps
  <2>3. ASSUME NEW f \in Fds, NEW events, BReactor_SetFileDescriptorEvents(f, events)
        PROVE  FdInv'
    BY <1>0, <2>3 DEF BReactor_SetFileDescriptorEvents, loopVars, FdInv, PointersFit, ResultsFresh
  <2>4. ASSUME \/ \E j \in Jobs : BPending_Set(j) \/ BPending_Unset(j)
               \/ \E t \in Timers : \E time \in 0..MaxDelay : BReactor_SetSmallTimer(t, time)
               \/ \E t \in Timers : BReactor_RemoveSmallTimer(t)
               \/ BReactor_Quit \/ SYNC_FROMHERE
        PROVE  FdInv'
    <3>1. UNCHANGED fdVars /\ ctl' = ctl
      BY <2>4 DEF BPending_Set, BPending_Unset, BReactor_SetSmallTimer,
           BReactor_RemoveSmallTimer, BReactor_Quit, SYNC_FROMHERE, loopVars
    <3> QED BY <1>0, <3>1, FdFrame
  <2> QED BY <1>2, <2>0, <2>1, <2>2, <2>3, <2>4, Zenon DEF Handler
<1>3. CASE DispatchFd
  BY <1>0, <1>3, DispatchKeeps
<1>4. CASE wait_for_events
  BY <1>0, <1>4, WaitKeeps
<1>5. CASE PollReturns
  BY <1>0, <1>5, PollKeeps
<1>6. ASSUME \/ Exit \/ DispatchJob \/ DispatchTimer \/ BReactor_Synchronize
             \/ PollTimesOut \/ PollInterrupted \/ EndSync \/ Return \/ Tick
      PROVE  FdInv'
  <2>1. UNCHANGED fdVars /\ (ctl' = "poll" => ctl = "poll")
    BY <1>6 DEF Exit, DispatchJob, DispatchTimer, BReactor_Synchronize, FreeMark, PollTimesOut,
         PollInterrupted, TryAgain, LeavePoll, EndSync, SYNC_BREAK, SYNC_COMMIT, Return, Tick, loopVars
  <2> QED BY <1>0, <2>1, FdFrame
<1> QED BY <1>2, <1>3, <1>4, <1>5, <1>6 DEF Next, Loop

\* The results that are still to be dispatched and the pointers of the active
\* descriptors name one another in every state of the reactor: the ASSERTs of
\* set_epoll_fd_pointers and BReactor_Exec, which the build leaves out, hold.
THEOREM PointersAlwaysFit == Spec => []PointersFit
<1>1. FdInv => PointersFit
  BY DEF FdInv
<1> QED BY FdInit, FdStep, ReactorAssumption, <1>1, PTL DEF Spec

\* No handler is called for a registration that is over: every result waiting
\* in the array is for the current registration of an active descriptor.
THEOREM ResultsAlwaysFresh == Spec => []ResultsFresh
<1>1. FdInv => ResultsFresh
  BY DEF FdInv
<1> QED BY FdInit, FdStep, ReactorAssumption, <1>1, PTL DEF Spec

-----------------------------------------------------------------------------
(* The jobs, the handlers that nest and their marks *)

\* The mark of an inner handler is in front of the marks of outer ones.
MarksNest ==
  \A d, e \in 1..depth :
    d < e /\ stack[d] # "plain" /\ stack[e] # "plain" => Mark(e) \in InFront(Mark(d))

SyncInv ==
  /\ prog \in Programs
  /\ ctl \in {"exec", "poll", "done"} /\ exiting \in BOOLEAN
  /\ stack \in Seq({"plain", "marked", "sync"}) /\ depth <= MaxDepth
  /\ ctl # "exec" => stack = <<>>
  /\ jobs \in Seq(Pending) /\ IsInjective(jobs)
  /\ since \in [1..MaxDepth -> SUBSET Jobs]
  /\ SyncRunsSince
  /\ MarksNest

\* The handlers that have a mark.
Marked(d) == d \in 1..depth /\ stack[d] # "plain"

\* What the invariant says of a mark.
LEMMA MarkFacts ==
  ASSUME ReactorAssumption, SyncInv, NEW d, Marked(d)
  PROVE  /\ d \in 1..MaxDepth /\ Mark(d) \notin Jobs /\ Mark(d) \in Pending
         /\ Mark(d) \in Range(jobs) /\ FrontOf(jobs, Mark(d)) \cap Jobs = since[d]
         /\ \A e : Marked(e) /\ d < e => Mark(e) \in FrontOf(jobs, Mark(d))
<1>1. d \in 1..MaxDepth
  BY DEF SyncInv, Marked, depth, ReactorAssumption
<1>2. \A x : InFront(x) = FrontOf(jobs, x)
  BY DEF InFront, FrontOf
<1> QED BY <1>1, <1>2 DEF SyncInv, SyncRunsSince, MarksNest, Marked, Mark, Pending, ReactorAssumption

\* What has to be shown of a step.
LEMMA SyncKept ==
  ASSUME ReactorAssumption,
         prog' \in Programs, ctl' \in {"exec", "poll", "done"}, exiting' \in BOOLEAN,
         stack' \in Seq({"plain", "marked", "sync"}), Len(stack') <= MaxDepth,
         ctl' # "exec" => stack' = <<>>,
         jobs' \in Seq(Pending), IsInjective(jobs'), since' \in [1..MaxDepth -> SUBSET Jobs],
         \A d \in 1..Len(stack') : stack'[d] # "plain" =>
           Mark(d) \in Range(jobs') /\ FrontOf(jobs', Mark(d)) \cap Jobs = since'[d],
         \A d, e \in 1..Len(stack') : d < e /\ stack'[d] # "plain" /\ stack'[e] # "plain" =>
           Mark(e) \in FrontOf(jobs', Mark(d))
  PROVE  SyncInv'
<1>1. \A x : InFront(x)' = FrontOf(jobs', x)
  BY DEF InFront, FrontOf
<1>2. SyncRunsSince'
  BY <1>1, Zenon DEF SyncRunsSince, depth, Range, Mark
<1>3. MarksNest'
  BY <1>1 DEF MarksNest, depth, Mark
<1> QED BY <1>2, <1>3 DEF SyncInv, depth, Pending, Mark

LEMMA MarksDiffer == \A d, e : Mark(d) = Mark(e) => d = e
BY DEF Mark

\* BPending_Set: j is the first, and in front of every other.
LEMMA ListSetPuts ==
  ASSUME SyncInv, NEW j \in Pending, NEW r, r = ListSet(j)
  PROVE  /\ r \in Seq(Pending) /\ IsInjective(r)
         /\ Range(r) = Range(jobs) \cup {j}
         /\ FrontOf(r, j) = {}
         /\ \A x \in Range(jobs) : x # j => FrontOf(r, x) = FrontOf(jobs, x) \cup {j}
<1>0. jobs \in Seq(Pending) /\ IsInjective(jobs)
  BY DEF SyncInv
<1>1. PICK s : s = RemoveFirst(jobs, j)
  OBVIOUS
<1>2. s \in Seq(Pending) /\ IsInjective(s)
  BY <1>0, <1>1, RemoveOne
<1>3. Range(s) = Range(jobs) \ {j}
  BY <1>0, <1>1, RemoveOne
<1>4. \A x : x # j => FrontOf(s, x) = FrontOf(jobs, x) \ {j}
  BY <1>0, <1>1, RemoveOne
<1>5. r = Cons(j, s) /\ j \notin Range(s)
  BY <1>1, <1>3 DEF ListSet, Without
<1>6. j \in Pending
  OBVIOUS
<1>7. /\ r \in Seq(Pending) /\ IsInjective(r)
      /\ Range(r) = Range(s) \cup {j}
      /\ FrontOf(r, j) = {}
      /\ \A x \in Range(s) : FrontOf(r, x) = FrontOf(s, x) \cup {j}
  BY <1>2, <1>5, <1>6, PutFirst
<1>10. ASSUME NEW x \in Range(jobs), x # j PROVE FrontOf(r, x) = FrontOf(jobs, x) \cup {j}
  <2>1. FrontOf(r, x) = FrontOf(s, x) \cup {j} /\ FrontOf(s, x) = FrontOf(jobs, x) \ {j}
    BY <1>3, <1>4, <1>7, <1>10
  <2> QED BY <2>1
<1>11. Range(r) = Range(jobs) \cup {j}
  BY <1>3, <1>7
<1> QED BY <1>7, <1>10, <1>11

\* BPending_Unset: j is gone, the order of the others is as it was.
LEMMA WithoutTakes ==
  ASSUME SyncInv, NEW j, NEW r, r = Without(j)
  PROVE  /\ r \in Seq(Pending) /\ IsInjective(r)
         /\ Range(r) = Range(jobs) \ {j}
         /\ \A x : x # j => FrontOf(r, x) = FrontOf(jobs, x) \ {j}
<1>1. jobs \in Seq(Pending) /\ IsInjective(jobs) /\ r = RemoveFirst(jobs, j)
  BY DEF SyncInv, Without
<1>2. r \in Seq(Pending) /\ IsInjective(r)
  BY <1>1, RemoveOne
<1>3. Range(r) = Range(jobs) \ {j}
  BY <1>1, RemoveOne
<1>4. \A x : x # j => FrontOf(r, x) = FrontOf(jobs, x) \ {j}
  BY <1>1, RemoveOne
<1> QED BY <1>2, <1>3, <1>4

\* A job that the program sets or unsets.
LEMMA PendingStep ==
  ASSUME ReactorAssumption, SyncInv, prog' = prog, NEW j \in Jobs,
         BPending_Set(j) \/ BPending_Unset(j)
  PROVE  SyncInv'
<1>0. /\ UNCHANGED <<ctl, stack, exiting>> /\ j \in Pending
      /\ since \in [1..MaxDepth -> SUBSET Jobs]
      /\ MaxDepth \in Nat /\ depth \in Nat /\ depth <= MaxDepth
  BY DEF BPending_Set, BPending_Unset, loopVars, Pending, SyncInv, depth, ReactorAssumption
<1>1. CASE BPending_Set(j)
  <2>1. jobs' = ListSet(j) /\ since' = Noted(j)
    BY <1>1 DEF BPending_Set
  <2>2. jobs' \in Seq(Pending) /\ IsInjective(jobs') /\ Range(jobs') = Range(jobs) \cup {j}
    BY <1>0, <2>1, ListSetPuts
  <2>3. \A x \in Range(jobs) : x # j => FrontOf(jobs', x) = FrontOf(jobs, x) \cup {j}
    BY <1>0, <2>1, ListSetPuts
  <2>4. since' \in [1..MaxDepth -> SUBSET Jobs]
    BY <1>0, <2>1 DEF Noted
  <2>5. ASSUME NEW d, Marked(d)
        PROVE  /\ Mark(d) \in Range(jobs') /\ FrontOf(jobs', Mark(d)) \cap Jobs = since'[d]
               /\ \A e : Marked(e) /\ d < e => Mark(e) \in FrontOf(jobs', Mark(d))
    <3>1. /\ Mark(d) \in Range(jobs) /\ Mark(d) # j /\ d \in 1..MaxDepth
          /\ FrontOf(jobs, Mark(d)) \cap Jobs = since[d]
          /\ \A e : Marked(e) /\ d < e => Mark(e) \in FrontOf(jobs, Mark(d))
      BY <2>5, MarkFacts
    <3>2. since'[d] = since[d] \cup {j}
      BY <1>0, <2>1, <2>5, <3>1 DEF Noted, Marked
    <3> QED BY <2>2, <2>3, <3>1, <3>2
  <2> QED BY <1>0, <2>2, <2>4, <2>5, SyncKept, Zenon DEF SyncInv, Marked, depth
<1>2. CASE BPending_Unset(j)
  <2>1. jobs' = Without(j) /\ since' = Forgotten(j)
    BY <1>2 DEF BPending_Unset
  <2>2. jobs' \in Seq(Pending) /\ IsInjective(jobs') /\ Range(jobs') = Range(jobs) \ {j}
    BY <2>1, WithoutTakes
  <2>3. \A x : x # j => FrontOf(jobs', x) = FrontOf(jobs, x) \ {j}
    BY <2>1, WithoutTakes
  <2>4. since' \in [1..MaxDepth -> SUBSET Jobs]
    BY <1>0, <2>1 DEF Forgotten
  <2>5. ASSUME NEW d, Marked(d)
        PROVE  /\ Mark(d) \in Range(jobs') /\ FrontOf(jobs', Mark(d)) \cap Jobs = since'[d]
               /\ \A e : Marked(e) /\ d < e => Mark(e) \in FrontOf(jobs', Mark(d))
    <3>1. /\ Mark(d) \in Range(jobs) /\ Mark(d) # j /\ d \in 1..MaxDepth
          /\ FrontOf(jobs, Mark(d)) \cap Jobs = since[d]
          /\ \A e : Marked(e) /\ d < e => Mark(e) \in FrontOf(jobs, Mark(d)) /\ Mark(e) # j
      BY <2>5, MarkFacts
    <3>2. since'[d] = since[d] \ {j}
      BY <2>1, <3>1 DEF Forgotten
    <3> QED BY <2>2, <2>3, <3>1, <3>2
  <2> QED BY <1>0, <2>2, <2>4, <2>5, SyncKept, Zenon DEF SyncInv, Marked, depth
<1> QED BY <1>1, <1>2

\* SYNC_FROMHERE puts the mark of the running handler in front of everything.
LEMMA FromHereStep ==
  ASSUME ReactorAssumption, SyncInv, prog' = prog, stack # <<>>, SYNC_FROMHERE
  PROVE  SyncInv'
<1>0. /\ UNCHANGED <<ctl, exiting>> /\ stack' = [stack EXCEPT ![depth] = "marked"]
      /\ jobs' = ListSet(Mark(depth)) /\ since' = [since EXCEPT ![depth] = {}]
      /\ stack[depth] = "plain"
  BY DEF SYNC_FROMHERE, Top
<1>1. /\ stack \in Seq({"plain", "marked", "sync"}) /\ ctl = "exec"
      /\ depth = Len(stack) /\ depth \in 1..MaxDepth /\ depth \in Nat
      /\ since \in [1..MaxDepth -> SUBSET Jobs]
  BY DEF SyncInv, depth, ReactorAssumption
<1>2. /\ stack' \in Seq({"plain", "marked", "sync"}) /\ Len(stack') = depth
      /\ stack'[depth] = "marked" /\ \A d \in 1..depth : d # depth => stack'[d] = stack[d]
      /\ since' \in [1..MaxDepth -> SUBSET Jobs]
      /\ since'[depth] = {} /\ \A d \in 1..MaxDepth : d # depth => since'[d] = since[d]
  BY <1>0, <1>1
<1>3. Mark(depth) \in Pending /\ Mark(depth) \notin Jobs
  BY <1>1 DEF Pending, Mark, ReactorAssumption
<1>4. jobs' \in Seq(Pending) /\ IsInjective(jobs') /\ Range(jobs') = Range(jobs) \cup {Mark(depth)}
      /\ FrontOf(jobs', Mark(depth)) = {}
  BY <1>0, <1>3, ListSetPuts
<1>5. \A x \in Range(jobs) : x # Mark(depth) => FrontOf(jobs', x) = FrontOf(jobs, x) \cup {Mark(depth)}
  BY <1>0, <1>3, ListSetPuts
<1>6. ASSUME NEW d \in 1..depth, stack'[d] # "plain"
      PROVE  /\ Mark(d) \in Range(jobs') /\ FrontOf(jobs', Mark(d)) \cap Jobs = since'[d]
             /\ \A e \in 1..depth : d < e /\ stack'[e] # "plain" => Mark(e) \in FrontOf(jobs', Mark(d))
  <2>1. CASE d = depth
    BY <1>1, <1>2, <1>4, <2>1
  <2>2. CASE d # depth
    <3>1. Marked(d) /\ d \in 1..MaxDepth /\ Mark(d) # Mark(depth)
      BY <1>1, <1>2, <1>6, <2>2, MarksDiffer DEF Marked
    <3>2. /\ Mark(d) \in Range(jobs) /\ FrontOf(jobs, Mark(d)) \cap Jobs = since[d]
          /\ \A e : Marked(e) /\ d < e => Mark(e) \in FrontOf(jobs, Mark(d))
      BY <3>1, MarkFacts
    <3>3. FrontOf(jobs', Mark(d)) = FrontOf(jobs, Mark(d)) \cup {Mark(depth)} /\ since'[d] = since[d]
      BY <1>2, <1>5, <2>2, <3>1, <3>2
    <3>4. ASSUME NEW e \in 1..depth, d < e, stack'[e] # "plain"
          PROVE  Mark(e) \in FrontOf(jobs', Mark(d))
      <4>1. CASE e = depth
        BY <3>3, <4>1
      <4>2. CASE e # depth
        BY <1>2, <3>2, <3>3, <3>4, <4>2 DEF Marked
      <4> QED BY <4>1, <4>2
    <3> QED BY <1>3, <1>4, <3>2, <3>3, <3>4
  <2> QED BY <2>1, <2>2
<1> QED BY <1>0, <1>1, <1>2, <1>4, <1>6, SyncKept DEF SyncInv

\* BPending_Free of the mark of the running handler.
LEMMA FreeMarkStep ==
  ASSUME ReactorAssumption, SyncInv, prog' = prog, stack # <<>>, FreeMark
  PROVE  SyncInv'
<1>0. /\ UNCHANGED <<ctl, exiting>> /\ stack' = [stack EXCEPT ![depth] = "plain"]
      /\ jobs' = Without(Mark(depth)) /\ since' = [since EXCEPT ![depth] = {}]
  BY DEF FreeMark
<1>1. /\ stack \in Seq({"plain", "marked", "sync"}) /\ ctl = "exec"
      /\ depth = Len(stack) /\ depth \in 1..MaxDepth /\ depth \in Nat
      /\ since \in [1..MaxDepth -> SUBSET Jobs]
  BY DEF SyncInv, depth, ReactorAssumption
<1>2. /\ stack' \in Seq({"plain", "marked", "sync"}) /\ Len(stack') = depth
      /\ stack'[depth] = "plain" /\ \A d \in 1..depth : d # depth => stack'[d] = stack[d]
      /\ since' \in [1..MaxDepth -> SUBSET Jobs]
      /\ \A d \in 1..MaxDepth : d # depth => since'[d] = since[d]
  BY <1>0, <1>1
<1>3. Mark(depth) \notin Jobs
  BY <1>1 DEF Mark, ReactorAssumption
<1>4. jobs' \in Seq(Pending) /\ IsInjective(jobs') /\ Range(jobs') = Range(jobs) \ {Mark(depth)}
  BY <1>0, WithoutTakes
<1>5. \A x : x # Mark(depth) => FrontOf(jobs', x) = FrontOf(jobs, x) \ {Mark(depth)}
  BY <1>0, WithoutTakes
<1>6. ASSUME NEW d \in 1..depth, stack'[d] # "plain"
      PROVE  /\ Mark(d) \in Range(jobs') /\ FrontOf(jobs', Mark(d)) \cap Jobs = since'[d]
             /\ \A e \in 1..depth : d < e /\ stack'[e] # "plain" => Mark(e) \in FrontOf(jobs', Mark(d))
  <2>1. d # depth
    BY <1>2, <1>6
  <2>2. Marked(d) /\ d \in 1..MaxDepth /\ Mark(d) # Mark(depth)
    BY <1>1, <1>2, <1>6, <2>1, MarksDiffer DEF Marked
  <2>3. /\ Mark(d) \in Range(jobs) /\ FrontOf(jobs, Mark(d)) \cap Jobs = since[d]
        /\ \A e : Marked(e) /\ d < e => Mark(e) \in FrontOf(jobs, Mark(d))
    BY <2>2, MarkFacts
  <2>4. FrontOf(jobs', Mark(d)) = FrontOf(jobs, Mark(d)) \ {Mark(depth)} /\ since'[d] = since[d]
    BY <1>2, <1>5, <2>1, <2>2
  <2>5. ASSUME NEW e \in 1..depth, d < e, stack'[e] # "plain"
        PROVE  Mark(e) \in FrontOf(jobs', Mark(d))
    <3>1. e # depth /\ Marked(e) /\ Mark(e) # Mark(depth)
      BY <1>2, <2>5, MarksDiffer DEF Marked
    <3> QED BY <2>3, <2>4, <2>5, <3>1
  <2> QED BY <1>3, <1>4, <2>2, <2>3, <2>4, <2>5
<1> QED BY <1>0, <1>1, <1>2, <1>4, <1>6, SyncKept DEF SyncInv

\* BPendingGroup_ExecuteJob in BReactor_Exec and in BReactor_Synchronize: the
\* first job is no handler's mark.
LEMMA ExecuteStep ==
  ASSUME ReactorAssumption, SyncInv, prog' = prog, UNCHANGED <<ctl, exiting>>, ctl = "exec",
         BPendingGroup_ExecuteJob, jobs # <<>>, \A d : Marked(d) => Mark(d) # Head(jobs)
  PROVE  SyncInv'
<1>0. /\ depth < MaxDepth /\ jobs' = Tail(jobs) /\ since' = Forgotten(Head(jobs))
      /\ stack' = Append(stack, "plain")
  BY DEF BPendingGroup_ExecuteJob
<1>1. /\ stack \in Seq({"plain", "marked", "sync"}) /\ depth = Len(stack) /\ MaxDepth \in Nat
      /\ jobs \in Seq(Pending) /\ IsInjective(jobs)
      /\ since \in [1..MaxDepth -> SUBSET Jobs]
  BY DEF SyncInv, depth, ReactorAssumption
<1>2. /\ stack' \in Seq({"plain", "marked", "sync"}) /\ Len(stack') = depth + 1
      /\ stack'[depth + 1] = "plain" /\ \A d \in 1..depth : stack'[d] = stack[d]
      /\ Len(stack') <= MaxDepth /\ depth \in Nat
  BY <1>0, <1>1
<1>3. /\ since' \in [1..MaxDepth -> SUBSET Jobs]
      /\ \A d \in 1..MaxDepth : since'[d] = since[d] \ {Head(jobs)}
  BY <1>0, <1>1 DEF Forgotten
<1>4. jobs' \in Seq(Pending) /\ IsInjective(jobs') /\ Range(jobs') = Range(jobs) \ {Head(jobs)}
  BY <1>0, <1>1, TakeFirst
<1>5. \A x : x # Head(jobs) => FrontOf(jobs', x) = FrontOf(jobs, x) \ {Head(jobs)}
  BY <1>0, <1>1, TakeFirst
<1>6. \A d \in 1..Len(stack') : stack'[d] # "plain" => Marked(d)
  BY <1>2 DEF Marked
<1>7. ASSUME NEW d, Marked(d)
      PROVE  /\ Mark(d) \in Range(jobs') /\ FrontOf(jobs', Mark(d)) \cap Jobs = since'[d]
             /\ \A e : Marked(e) /\ d < e => Mark(e) \in FrontOf(jobs', Mark(d))
  <2>1. /\ Mark(d) \in Range(jobs) /\ FrontOf(jobs, Mark(d)) \cap Jobs = since[d]
        /\ d \in 1..MaxDepth
        /\ \A e : Marked(e) /\ d < e => Mark(e) \in FrontOf(jobs, Mark(d))
    BY <1>7, MarkFacts
  <2>2. /\ Mark(d) # Head(jobs) /\ \A e : Marked(e) => Mark(e) # Head(jobs)
    BY <1>7
  <2> QED BY <1>3, <1>4, <1>5, <2>1, <2>2
<1> QED BY <1>1, <1>2, <1>3, <1>4, <1>6, <1>7, SyncKept, Zenon DEF SyncInv

\* A step that leaves the list alone and makes no new mark.
LEMMA ListFrame ==
  ASSUME ReactorAssumption, SyncInv, prog' = prog, UNCHANGED jobVars,
         ctl' \in {"exec", "poll", "done"}, exiting' \in BOOLEAN,
         stack' \in Seq({"plain", "marked", "sync"}), Len(stack') <= MaxDepth,
         ctl' # "exec" => stack' = <<>>,
         \A d \in 1..Len(stack') : stack'[d] # "plain" => Marked(d)
  PROVE  SyncInv'
<1>1. UNCHANGED <<jobs, since>> /\ prog' \in Programs
      /\ jobs \in Seq(Pending) /\ IsInjective(jobs) /\ since \in [1..MaxDepth -> SUBSET Jobs]
  BY DEF jobVars, SyncInv
<1>2. \A d : Marked(d) =>
        /\ Mark(d) \in Range(jobs) /\ FrontOf(jobs, Mark(d)) \cap Jobs = since[d]
        /\ \A e : Marked(e) /\ d < e => Mark(e) \in FrontOf(jobs, Mark(d))
  BY MarkFacts
<1> QED BY <1>1, <1>2, SyncKept

\* The jobs of BReactor_Synchronize are all in front of the mark of the handler
\* that called it, and so in front of every mark.
LEMMA SynchronizeStep ==
  ASSUME ReactorAssumption, SyncInv, prog' = prog, stack # <<>>, BReactor_Synchronize
  PROVE  SyncInv'
<1>1. CASE FreeMark
  BY <1>1, FreeMarkStep
<1>2. CASE /\ Head(jobs) # Mark(depth) /\ BPendingGroup_ExecuteJob
           /\ UNCHANGED <<ctl, exiting>>
  <2>1. Marked(depth) /\ ctl = "exec"
    BY DEF BReactor_Synchronize, Top, Marked, SyncInv, depth
  <2>2. Mark(depth) \in Range(jobs) /\ \A d : Marked(d) => d \in 1..depth
    BY <2>1, MarkFacts DEF Marked
  <2>3. jobs # <<>> /\ jobs \in Seq(Pending) /\ IsInjective(jobs)
    BY <2>2 DEF Range, SyncInv
  <2>4. FrontOf(jobs, Head(jobs)) = {}
    BY <2>3, TakeFirst, Zenon
  <2>5. ASSUME NEW d, Marked(d) PROVE Mark(d) # Head(jobs)
    <3>1. CASE d = depth
      BY <1>2, <3>1
    <3>2. CASE d # depth
      <4>1. d < depth
        BY <2>2, <2>5, <3>2 DEF SyncInv, depth
      <4>2. Mark(depth) \in FrontOf(jobs, Mark(d))
        BY <2>1, <2>5, <4>1, MarkFacts
      <4> QED BY <2>4, <4>2
    <3> QED BY <3>1, <3>2
  <2> QED BY <1>2, <2>1, <2>3, <2>5, ExecuteStep
<1> QED BY <1>1, <1>2 DEF BReactor_Synchronize

LEMMA SyncInit == ReactorAssumption /\ Init => SyncInv
<1> SUFFICES ASSUME ReactorAssumption, Init PROVE SyncInv
  OBVIOUS
<1>1. /\ stack = <<"plain">> /\ depth = 1 /\ stack[1] = "plain" /\ 1 <= MaxDepth /\ MaxDepth \in Nat
  BY DEF Init, depth, ReactorAssumption
<1>2. SyncRunsSince /\ MarksNest
  BY <1>1 DEF SyncRunsSince, MarksNest
<1>3. jobs \in Seq(Pending) /\ IsInjective(jobs)
  BY DEF Init, IsInjective
<1>4. since \in [1..MaxDepth -> SUBSET Jobs]
  BY <1>1 DEF Init
<1>5. prog \in Programs /\ ctl = "exec" /\ exiting \in BOOLEAN
  BY ZenonT(40) DEF Init
<1>6. stack \in Seq({"plain", "marked", "sync"}) /\ depth <= MaxDepth
  BY <1>1
<1> QED BY <1>2, <1>3, <1>4, <1>5, <1>6 DEF SyncInv

LEMMA SyncStep == ReactorAssumption /\ SyncInv /\ [Next]_vars => SyncInv'
<1> SUFFICES ASSUME ReactorAssumption, SyncInv, [Next]_vars PROVE SyncInv'
  OBVIOUS
<1>0. /\ prog' = prog /\ prog.jobs \subseteq Jobs
      /\ ctl \in {"exec", "poll", "done"} /\ exiting \in BOOLEAN
      /\ stack \in Seq({"plain", "marked", "sync"}) /\ depth = Len(stack)
      /\ depth \in Nat /\ depth <= MaxDepth /\ MaxDepth \in Nat \ {0}
      /\ ctl # "exec" => stack = <<>>
  BY DEF Next, vars, SyncInv, ReactorAssumption, depth
<1>1. ASSUME UNCHANGED <<jobVars, stack>>, ctl' \in {"exec", "poll", "done"}, exiting' \in BOOLEAN,
             ctl' # "exec" => stack = <<>>
      PROVE  SyncInv'
  BY <1>0, <1>1, ListFrame DEF Marked
<1>2. CASE UNCHANGED vars
  BY <1>0, <1>1, <1>2 DEF vars, loopVars
<1>3. CASE Handler
  <2>1. stack # <<>>
    BY <1>3 DEF Handler
  <2>2. CASE \E j \in prog.jobs : BPending_Set(j) \/ BPending_Unset(j)
    BY <1>0, <2>2, PendingStep
  <2>3. CASE SYNC_FROMHERE
    BY <1>0, <2>1, <2>3, FromHereStep
  <2>4. CASE BReactor_Quit
    BY <1>0, <1>1, <2>4 DEF BReactor_Quit
  <2>5. ASSUME \/ \E t \in prog.timers :
                    \/ \E time \in 0..MaxDelay : BReactor_SetSmallTimer(t, time)
                    \/ BReactor_RemoveSmallTimer(t)
               \/ \E f \in prog.fds :
                    \/ BReactor_AddFileDescriptor(f) \/ BReactor_RemoveFileDescriptor(f)
                    \/ \E events \in SUBSET prog.kinds : BReactor_SetFileDescriptorEvents(f, events)
        PROVE  SyncInv'
    <3>1. UNCHANGED <<loopVars, jobVars>>
      BY <2>5 DEF BReactor_SetSmallTimer, BReactor_RemoveSmallTimer, BReactor_AddFileDescriptor,
         BReactor_RemoveFileDescriptor, BReactor_SetFileDescriptorEvents
    <3> QED BY <1>0, <1>1, <3>1 DEF loopVars
  <2> QED BY <1>3, <2>2, <2>3, <2>4, <2>5 DEF Handler
<1>4. CASE EndSync
  <2>1. CASE SYNC_BREAK
    BY <1>0, <1>4, <2>1, FreeMarkStep DEF EndSync, SYNC_BREAK
  <2>2. CASE SYNC_COMMIT
    <3>1. /\ UNCHANGED <<ctl, exiting, jobVars>> /\ stack' = [stack EXCEPT ![depth] = "sync"]
          /\ stack[depth] = "marked" /\ stack # <<>> /\ depth \in 1..depth
      BY <1>0, <1>4, <2>2 DEF EndSync, SYNC_COMMIT, Top
    <3>2. /\ stack' \in Seq({"plain", "marked", "sync"}) /\ Len(stack') = depth
          /\ \A d \in 1..depth : stack'[d] # "plain" => stack[d] # "plain"
      BY <1>0, <3>1
    <3> QED BY <1>0, <3>1, <3>2, ListFrame DEF Marked
  <2> QED BY <1>4, <2>1, <2>2 DEF EndSync
<1>5. CASE stack # <<>> /\ BReactor_Synchronize
  BY <1>0, <1>5, SynchronizeStep
<1>6. CASE DispatchJob
  <2>1. /\ UNCHANGED <<ctl, exiting>> /\ ctl = "exec" /\ stack = <<>> /\ jobs # <<>>
        /\ BPendingGroup_ExecuteJob
    BY <1>6 DEF DispatchJob, InLoop
  <2>2. \A d : ~Marked(d)
    BY <1>0, <2>1 DEF Marked
  <2> QED BY <1>0, <2>1, <2>2, ExecuteStep
<1>7. CASE Return
  <2>1. /\ UNCHANGED <<ctl, exiting, jobVars>> /\ stack' = SubSeq(stack, 1, depth - 1)
        /\ stack # <<>> /\ depth - 1 \in Nat
    BY <1>0, <1>7 DEF Return, Front
  <2>2. /\ stack' \in Seq({"plain", "marked", "sync"}) /\ Len(stack') = depth - 1
        /\ \A d \in 1..(depth - 1) : stack'[d] = stack[d]
    BY <1>0, <2>1
  <2> QED BY <1>0, <2>1, <2>2, ListFrame DEF Marked
<1>8. CASE DispatchTimer \/ DispatchFd
  <2>1. /\ UNCHANGED <<ctl, exiting, jobVars>> /\ ctl = "exec"
        /\ stack' = <<"plain">> \/ stack' = <<>>
    BY <1>8 DEF DispatchTimer, DispatchFd, InLoop
  <2>2. /\ stack' \in Seq({"plain", "marked", "sync"}) /\ Len(stack') <= MaxDepth
        /\ \A d \in 1..Len(stack') : stack'[d] = "plain"
    <3>1. CASE stack' = <<>>
      BY <1>0, <3>1
    <3>2. CASE stack' = <<"plain">>
      <4>1. Len(<<"plain">>) = 1 /\ <<"plain">>[1] = "plain" /\ 1 <= MaxDepth
        BY <1>0
      <4>2. stack' \in Seq({"plain", "marked", "sync"})
        BY <3>2
      <4>3. \A d \in 1..1 : d = 1
        OBVIOUS
      <4> QED BY <3>2, <4>1, <4>2, <4>3
    <3> QED BY <2>1, <3>1, <3>2
  <2> QED BY <1>0, <2>1, <2>2, ListFrame
<1>9. CASE Exit \/ wait_for_events \/ PollTimesOut \/ PollInterrupted \/ PollReturns \/ Tick
  <2>1. /\ UNCHANGED <<jobVars, stack, exiting>> /\ ctl' \in {ctl, "exec", "poll", "done"}
        /\ ctl' # "exec" => ctl # "exec" \/ stack = <<>>
    BY <1>9 DEF Exit, wait_for_events, PollTimesOut, PollInterrupted, PollReturns, TryAgain,
       LeavePoll, Tick, loopVars, InLoop
  <2> QED BY <1>0, <1>1, <2>1
<1> QED BY <1>2, <1>3, <1>4, <1>5, <1>6, <1>7, <1>8, <1>9 DEF Next, Loop

\* BReactor_Synchronize runs the jobs that were set since SYNC_FROMHERE and no
\* older one, however deep the handlers nest: they are the jobs in front of the
\* mark, which no inner handler can take from the list.
THEOREM SyncAlwaysRunsSince == Spec => []SyncRunsSince
<1>1. SyncInv => SyncRunsSince
  BY DEF SyncInv
<1> QED BY SyncInit, SyncStep, ReactorAssumption, <1>1, PTL DEF Spec

-----------------------------------------------------------------------------
(* The timers *)

\* The expired list holds the timers that say so, and none is early.
TimerLists ==
  /\ now \in 0..MaxTime /\ abs \in [Timers -> 0..MaxTime]
  /\ tstate \in [Timers -> {"inactive", "running", "expired"}]
  /\ expired \in Seq(Timers) /\ IsInjective(expired)
  /\ Range(expired) = {t \in Timers : tstate[t] = "expired"}
  /\ \A t \in Range(expired) : abs[t] <= now

\* wait_for_events holds the time of the first timer; it calls no handler, so
\* nobody changes the timers while it waits.
PollInv ==
  /\ poll \in [now : Nat, have : BOOLEAN, until : Nat]
  /\ ctl = "poll" /\ poll.have => \E t \in Timers : First(t) /\ poll.until = abs[t]

TimerInv == TimerLists /\ PollInv

\* Due timers that are moved in the order of the tree are each moved once.
LEMMA ExpireKeeps ==
  ASSUME ReactorAssumption, TimerLists, NEW S \in SUBSET Running,
         \A t \in S : abs[t] <= now, Expire(S)
  PROVE  TimerLists' /\ UNCHANGED <<now, abs>>
<1>0. /\ S \subseteq Timers /\ \A t \in S : tstate[t] = "running"
      /\ Timers \subseteq Nat /\ MaxTime \in Nat
      /\ UNCHANGED <<now, abs>>
      /\ tstate' = [t \in Timers |-> IF t \in S THEN "expired" ELSE tstate[t]]
  BY DEF Running, Expire, ReactorAssumption
<1>1. /\ now \in 0..MaxTime /\ abs \in [Timers -> 0..MaxTime]
      /\ tstate \in [Timers -> {"inactive", "running", "expired"}]
      /\ expired \in Seq(Timers) /\ IsInjective(expired)
      /\ Range(expired) = {t \in Timers : tstate[t] = "expired"}
      /\ \A t \in Range(expired) : abs[t] <= now
  BY DEF TimerLists
<1>2. PICK q \in InOrder(S) : expired' = expired \o q
  BY DEF Expire
<1>3. PICK n : n = Cardinality(S)
  OBVIOUS
<1>4. n \in Nat
  BY <1>0, <1>3, FS_Subset, FS_CardinalityType, Zenon DEF ReactorAssumption
<1>5. /\ q \in [1..n -> S] /\ DOMAIN q = 1..n
      /\ \A t \in S : \E i \in DOMAIN q : q[i] = t
      /\ \A i, k \in DOMAIN q : i < k => Before(q[i], q[k])
  BY <1>2, <1>3 DEF InOrder
<1>6. q \in Seq(Timers) /\ \A i \in 1..n : q[i] \in S
  <2>1. q \in [1..n -> S]
    BY <1>5
  <2>2. q \in [1..n -> Timers]
    BY <1>0, <2>1, ZenonT(40)
  <2> QED BY <1>4, <2>1, <2>2
<1>7. IsInjective(q)
  <2> SUFFICES ASSUME NEW i \in 1..n, NEW k \in 1..n, q[i] = q[k] PROVE i = k
    BY <1>5 DEF IsInjective
  <2>1. q[i] \in Timers /\ q[i] \in Nat /\ abs[q[i]] \in Nat
    <3>1. q[i] \in Timers
      BY <1>0, <1>6, Zenon
    <3>2. q[i] \in Nat /\ abs[q[i]] \in 0..MaxTime
      BY <1>0, <1>1, <3>1, Zenon
    <3>3. \A x \in 0..MaxTime : x \in Nat
      OBVIOUS
    <3> QED BY <3>1, <3>2, <3>3
  <2>2. ~Before(q[i], q[i])
    BY <2>1 DEF Before
  <2>3. ~(i < k) /\ ~(k < i)
    BY <1>5, <2>2
  <2> QED BY <1>4, <2>3
<1>8. Range(q) = S
  BY <1>5, <1>6 DEF Range
<1>9. Range(expired) \cap Range(q) = {}
  BY <1>0, <1>1, <1>8
<1>10. expired' \in Seq(Timers) /\ IsInjective(expired')
  BY <1>1, <1>2, <1>6, <1>7, <1>9, JoinLists
<1>11. Range(expired') = Range(expired) \cup S
  <2>1. Range(expired \o q) = Range(expired) \cup Range(q)
    BY <1>1, <1>6, <1>7, <1>9, JoinLists
  <2> QED BY <1>2, <1>8, <2>1
<1>12. tstate' \in [Timers -> {"inactive", "running", "expired"}]
  BY <1>0, <1>1
<1>13. Range(expired') = {t \in Timers : tstate'[t] = "expired"}
  BY <1>0, <1>1, <1>11, Zenon
<1>14. \A t \in Range(expired') : abs'[t] <= now'
  BY <1>0, <1>1, <1>11, Zenon
<1>15. Range(expired)' = Range(expired')
  BY DEF Range
<1> QED BY <1>0, <1>1, <1>10, <1>12, <1>13, <1>14, <1>15 DEF TimerLists

\* A timer that is set or removed is unlinked from the expired list.
LEMMA UnlinkKeeps ==
  ASSUME ReactorAssumption, TimerLists, NEW t \in Timers,
         BReactor_RemoveSmallTimer(t) \/ \E time \in 0..MaxDelay : BReactor_SetSmallTimer(t, time)
  PROVE  TimerLists'
<1>1. /\ now \in 0..MaxTime /\ abs \in [Timers -> 0..MaxTime] /\ MaxTime \in Nat
      /\ tstate \in [Timers -> {"inactive", "running", "expired"}]
      /\ expired \in Seq(Timers) /\ IsInjective(expired)
      /\ Range(expired) = {u \in Timers : tstate[u] = "expired"}
      /\ \A u \in Range(expired) : abs[u] <= now
  BY DEF TimerLists, ReactorAssumption
<1>2. now' = now /\ expired' = RemoveFirst(expired, t)
  BY DEF BReactor_RemoveSmallTimer, BReactor_SetSmallTimer, Unlinked
<1>3. /\ abs' \in [Timers -> 0..MaxTime]
      /\ \A u \in Timers : u # t => abs'[u] = abs[u]
  <2>1. CASE BReactor_RemoveSmallTimer(t)
    BY <1>1, <2>1 DEF BReactor_RemoveSmallTimer
  <2>2. ASSUME NEW time \in 0..MaxDelay, BReactor_SetSmallTimer(t, time)
        PROVE  /\ abs' \in [Timers -> 0..MaxTime]
               /\ \A u \in Timers : u # t => abs'[u] = abs[u]
    <3>1. now + time \in 0..MaxTime /\ abs' = [abs EXCEPT ![t] = now + time]
      BY <1>1, <2>2 DEF BReactor_SetSmallTimer, ReactorAssumption
    <3> QED BY <1>1, <3>1
  <2> QED BY <2>1, <2>2
<1>4. PICK state \in {"inactive", "running"} : tstate' = [tstate EXCEPT ![t] = state]
  BY DEF BReactor_RemoveSmallTimer, BReactor_SetSmallTimer
<1>5. /\ tstate' \in [Timers -> {"inactive", "running", "expired"}]
      /\ tstate'[t] # "expired" /\ \A u \in Timers : u # t => tstate'[u] = tstate[u]
  BY <1>1, <1>4
<1>6. expired' \in Seq(Timers) /\ IsInjective(expired') /\ Range(expired') = Range(expired) \ {t}
  BY <1>1, <1>2, RemoveOne
<1>7. Range(expired') = {u \in Timers : tstate'[u] = "expired"}
  BY <1>1, <1>5, <1>6, Zenon
<1>8. \A u \in Range(expired') : abs'[u] <= now'
  BY <1>1, <1>2, <1>3, <1>6, Zenon
<1>9. Range(expired)' = Range(expired')
  BY DEF Range
<1> QED BY <1>1, <1>2, <1>3, <1>5, <1>6, <1>7, <1>8, <1>9 DEF TimerLists

\* move_first_timers, when the time that wait_for_events holds has come.
LEMMA FirstKeeps ==
  ASSUME ReactorAssumption, TimerInv, ctl = "poll", poll.have, now >= poll.until, move_first_timers
  PROVE  TimerLists'
<1>1. PICK t \in Timers : First(t) /\ poll.until = abs[t]
  BY DEF TimerInv, PollInv
<1>2. PICK f \in Timers : First(f) /\ Expire({u \in Running : abs[u] = abs[f]})
  BY DEF move_first_timers
<1>3. t \in Nat /\ f \in Nat /\ abs[t] \in Nat /\ abs[f] \in Nat /\ now \in Nat
  BY DEF TimerInv, TimerLists, ReactorAssumption
<1>4. t = f \/ (Before(t, f) /\ Before(f, t))
  BY <1>1, <1>2 DEF First
<1>5. abs[f] <= now
  BY <1>1, <1>3, <1>4 DEF Before
<1> QED BY <1>2, <1>5, ExpireKeeps DEF TimerInv

\* A step that leaves the timers alone.
LEMMA TimerFrame ==
  ASSUME TimerInv, UNCHANGED <<now, tstate, abs, expired>>,
         \/ poll' = poll /\ (ctl' = "poll" => ctl = "poll")
         \/ ctl' # "poll" /\ poll' \in [now : Nat, have : BOOLEAN, until : Nat]
  PROVE  TimerInv'
<1>1. TimerLists'
  BY DEF TimerInv, TimerLists, Range
<1>2. \A t : First(t)' = First(t)
  BY DEF First, Running, Before
<1>3. PollInv'
  BY <1>2 DEF TimerInv, PollInv
<1> QED BY <1>1, <1>3 DEF TimerInv

LEMMA NoTimeoutType == NoTimeout \in [now : Nat, have : BOOLEAN, until : Nat]
BY DEF NoTimeout

LEMMA TimerInit == ReactorAssumption /\ Init => TimerInv
<1> SUFFICES ASSUME ReactorAssumption, Init PROVE TimerInv
  OBVIOUS
<1>1. 0 \in 0..MaxTime
  BY DEF ReactorAssumption
<1>2. /\ now = 0 /\ abs = [t \in Timers |-> 0] /\ tstate = [t \in Timers |-> "inactive"]
      /\ expired = <<>> /\ poll = NoTimeout /\ ctl = "exec"
  BY DEF Init
<1>3. now \in 0..MaxTime /\ abs \in [Timers -> 0..MaxTime]
      /\ tstate \in [Timers -> {"inactive", "running", "expired"}]
  BY <1>1, <1>2
<1>4. expired \in Seq(Timers) /\ IsInjective(expired) /\ Range(expired) = {}
  BY <1>2 DEF IsInjective, Range
<1>5. {t \in Timers : tstate[t] = "expired"} = {}
  BY <1>2
<1>6. TimerLists
  BY <1>3, <1>4, <1>5 DEF TimerLists
<1> QED BY <1>2, <1>6, NoTimeoutType DEF TimerInv, PollInv

\* DispatchTimer takes the first expired timer, which is inactive then.
LEMMA DispatchTimerKeeps ==
  ASSUME ReactorAssumption, TimerInv, DispatchTimer
  PROVE  TimerInv'
<1>0. /\ expired # <<>> /\ expired' = Tail(expired) /\ UNCHANGED <<now, abs, poll, ctl>>
      /\ tstate' = [tstate EXCEPT ![Head(expired)] = "inactive"] /\ ctl = "exec"
  BY DEF DispatchTimer, InLoop
<1>1. /\ now \in 0..MaxTime /\ abs \in [Timers -> 0..MaxTime]
      /\ tstate \in [Timers -> {"inactive", "running", "expired"}]
      /\ expired \in Seq(Timers) /\ IsInjective(expired)
      /\ Range(expired) = {u \in Timers : tstate[u] = "expired"}
      /\ \A u \in Range(expired) : abs[u] <= now
  BY DEF TimerInv, TimerLists
<1>2. PICK t : t = Head(expired)
  OBVIOUS
<1>3. t \in Timers /\ expired' \in Seq(Timers) /\ IsInjective(expired')
  BY <1>0, <1>1, <1>2, TakeFirst
<1>4. Range(Tail(expired)) = Range(expired) \ {Head(expired)}
  BY <1>0, <1>1, TakeFirst
<1>5. Range(expired)' = Range(expired) \ {t}
  BY <1>0, <1>2, <1>4, ZenonT(40) DEF Range
<1>6. /\ tstate' \in [Timers -> {"inactive", "running", "expired"}]
      /\ tstate'[t] = "inactive" /\ \A u \in Timers : u # t => tstate'[u] = tstate[u]
  BY <1>0, <1>1, <1>2, <1>3
<1>7. Range(expired)' = {u \in Timers : tstate'[u] = "expired"}
  BY <1>1, <1>5, <1>6, Zenon
<1>8. TimerLists'
  BY <1>0, <1>1, <1>3, <1>5, <1>6, <1>7 DEF TimerLists
<1> QED BY <1>0, <1>8 DEF TimerInv, PollInv

\* wait_for_events moves what is due, or waits for the first timer.
LEMMA WaitTimers ==
  ASSUME ReactorAssumption, TimerInv, wait_for_events
  PROVE  TimerInv'
<1>1. CASE Due(now) # {} /\ Expire(Due(now)) /\ UNCHANGED <<ctl, poll>>
  <2>1. Due(now) \in SUBSET Running /\ \A t \in Due(now) : abs[t] <= now
    BY DEF Due
  <2>2. TimerLists'
    BY <1>1, <2>1, ExpireKeeps DEF TimerInv
  <2>3. ctl' # "poll"
    BY <1>1 DEF wait_for_events, InLoop
  <2> QED BY <1>1, <2>2, <2>3 DEF TimerInv, PollInv
<1>2. CASE SetTimeout /\ UNCHANGED <<now, tstate, abs, expired>>
  <2>0. Range(expired)' = Range(expired)
    BY <1>2 DEF Range
  <2>1. TimerLists'
    BY <1>2, <2>0 DEF TimerInv, TimerLists
  <2>2. \A t : First(t)' = First(t)
    BY <1>2 DEF First, Running, Before
  <2>3. CASE poll' = NoTimeout
    BY <2>1, <2>3, NoTimeoutType, SMTT(40) DEF TimerInv, PollInv, NoTimeout
  <2>4. ASSUME NEW t \in Timers, First(t), poll' = [now |-> now, have |-> TRUE, until |-> abs[t]]
        PROVE  TimerInv'
    <3>1. now \in Nat /\ abs[t] \in Nat
      BY DEF TimerInv, TimerLists, ReactorAssumption
    <3>2. poll' \in [now : Nat, have : BOOLEAN, until : Nat] /\ poll'.until = abs[t]
      BY <2>4, <3>1
    <3> QED BY <1>2, <2>1, <2>2, <2>4, <3>2 DEF TimerInv, PollInv
  <2> QED BY <1>2, <2>3, <2>4 DEF SetTimeout
<1> QED BY <1>1, <1>2 DEF wait_for_events

\* Leaving epoll_wait: move_first_timers runs only when its time has come,
\* whether the wait was whole, was cut to INT_MAX or was interrupted.
LEMMA PollTimers ==
  ASSUME ReactorAssumption, TimerInv, PollTimesOut \/ PollInterrupted
  PROVE  TimerInv'
<1>0. /\ ctl = "poll" /\ now \in Nat /\ MaxTime \in Nat /\ IntMax \in Nat
      /\ poll \in [now : Nat, have : BOOLEAN, until : Nat]
  BY DEF PollTimesOut, PollInterrupted, TimerInv, TimerLists, PollInv, ReactorAssumption
<1>1. ASSUME poll.have, now >= poll.until, move_first_timers, LeavePoll
      PROVE  TimerInv'
  <2>1. TimerLists'
    BY <1>0, <1>1, FirstKeeps
  <2> QED BY <1>1, <2>1, NoTimeoutType DEF LeavePoll, TimerInv, PollInv
<1>2. ASSUME UNCHANGED <<ctl, now, tstate, abs, expired>>,
             poll' = IF poll.have THEN [poll EXCEPT !.now = now] ELSE poll
      PROVE  TimerInv'
  <2>1. poll' \in [now : Nat, have : BOOLEAN, until : Nat]
        /\ poll'.have = poll.have /\ poll'.until = poll.until
    BY <1>0, <1>2
  <2>2. TimerLists'
    BY <1>2 DEF TimerInv, TimerLists, Range
  <2>3. \A t : First(t)' = First(t)
    BY <1>2 DEF First, Running, Before
  <2> QED BY <1>0, <1>2, <2>1, <2>2, <2>3 DEF TimerInv, PollInv
<1>3. CASE TryAgain
  BY <1>1, <1>2, <1>3 DEF TryAgain
<1>4. CASE PollTimesOut /\ ~TryAgain
  <2>1. /\ poll.have /\ now >= poll.now + TimeoutTrunc /\ TimeoutTrunc = TimeoutRel
        /\ move_first_timers /\ LeavePoll
    BY <1>4 DEF PollTimesOut
  <2>2. now >= poll.until
    BY <1>0, <2>1 DEF TimeoutRel
  <2> QED BY <1>1, <2>1, <2>2
<1> QED BY <1>3, <1>4 DEF PollInterrupted

\* Every step keeps the invariant.  Handlers run while the loop is in
\* BReactor_Exec only, which SyncInv says.
LEMMA TimerStep == ReactorAssumption /\ SyncInv /\ TimerInv /\ [Next]_vars => TimerInv'
<1> SUFFICES ASSUME ReactorAssumption, SyncInv, TimerInv, [Next]_vars PROVE TimerInv'
  OBVIOUS
<1>0. prog.timers \subseteq Timers /\ (stack # <<>> => ctl = "exec")
  BY DEF SyncInv, ReactorAssumption
<1>1. ASSUME UNCHANGED timerVars, ctl' = "poll" => ctl = "poll"
      PROVE  TimerInv'
  BY <1>1, TimerFrame DEF timerVars
<1>2. CASE UNCHANGED vars
  BY <1>1, <1>2 DEF vars, loopVars
<1>3. CASE Handler
  <2>1. ASSUME NEW t \in Timers,
               BReactor_RemoveSmallTimer(t) \/ \E time \in 0..MaxDelay : BReactor_SetSmallTimer(t, time)
        PROVE  TimerInv'
    <3>1. UNCHANGED <<ctl, poll>> /\ ctl = "exec"
      BY <1>0, <1>3, <2>1, ZenonT(40) DEF Handler, BReactor_RemoveSmallTimer, BReactor_SetSmallTimer, loopVars
    <3>2. TimerLists'
      BY <2>1, UnlinkKeeps DEF TimerInv
    <3> QED BY <3>1, <3>2 DEF TimerInv, PollInv
  <2>2. ASSUME \/ \E j \in prog.jobs : BPending_Set(j) \/ BPending_Unset(j)
               \/ \E f \in prog.fds :
                    \/ BReactor_AddFileDescriptor(f) \/ BReactor_RemoveFileDescriptor(f)
                    \/ \E events \in SUBSET prog.kinds : BReactor_SetFileDescriptorEvents(f, events)
               \/ BReactor_Quit \/ SYNC_FROMHERE
        PROVE  TimerInv'
    <3>1. UNCHANGED timerVars /\ ctl' = ctl
      BY <2>2 DEF BPending_Set, BPending_Unset, BReactor_AddFileDescriptor,
           BReactor_RemoveFileDescriptor, BReactor_SetFileDescriptorEvents,
           BReactor_Quit, SYNC_FROMHERE, loopVars
    <3> QED BY <1>1, <3>1
  <2> QED BY <1>0, <1>3, <2>1, <2>2, ZenonT(40) DEF Handler
<1>4. CASE DispatchTimer
  BY <1>4, DispatchTimerKeeps
<1>5. CASE wait_for_events
  BY <1>5, WaitTimers
<1>6. CASE PollTimesOut \/ PollInterrupted
  BY <1>6, PollTimers
<1>7. CASE PollReturns
  <2>1. UNCHANGED <<now, tstate, abs, expired>> /\ ctl' # "poll" /\ poll' = NoTimeout
    BY <1>7 DEF PollReturns, LeavePoll
  <2> QED BY <2>1, NoTimeoutType, TimerFrame, SMTT(40)
<1>8. CASE Tick
  <2>1. /\ UNCHANGED <<tstate, abs, expired, poll, ctl>> /\ now' = now + 1 /\ now < MaxTime
        /\ MaxTime \in Nat
    BY <1>8 DEF Tick, loopVars, ReactorAssumption
  <2>2. now \in 0..MaxTime /\ now' \in 0..MaxTime /\ \A t \in Timers : abs[t] <= now => abs[t] <= now'
    BY <2>1 DEF TimerInv, TimerLists
  <2>3. Range(expired)' = Range(expired) /\ Range(expired) \subseteq Timers
    BY <2>1 DEF Range, TimerInv, TimerLists
  <2>4. TimerLists'
    BY <2>1, <2>2, <2>3, ZenonT(40) DEF TimerInv, TimerLists
  <2>5. \A t : First(t)' = First(t)
    BY <2>1 DEF First, Running, Before
  <2> QED BY <2>1, <2>4, <2>5 DEF TimerInv, PollInv
<1>9. ASSUME \/ Exit \/ DispatchJob \/ DispatchFd \/ BReactor_Synchronize \/ EndSync \/ Return
      PROVE  TimerInv'
  <2>1. UNCHANGED timerVars /\ (ctl' = "poll" => ctl = "poll")
    BY <1>9 DEF Exit, DispatchJob, DispatchFd, BReactor_Synchronize, FreeMark, EndSync,
         SYNC_BREAK, SYNC_COMMIT, Return
  <2> QED BY <1>1, <2>1
<1> QED BY <1>2, <1>3, <1>4, <1>5, <1>6, <1>7, <1>8, <1>9 DEF Next, Loop

\* The bounds of the descriptors' state that FdInv leaves out.
FdTypes ==
  /\ wait \in [Fds -> SUBSET Kinds]
  /\ ptr \in [Fds -> 0..MaxResults] /\ reg \in [Fds -> 0..MaxAdds]
  /\ Len(results) <= MaxResults

LEMMA FdTypesInit == ReactorAssumption /\ Init => FdTypes
BY DEF ReactorAssumption, Init, FdTypes

LEMMA FdTypesStep == ReactorAssumption /\ FdInv /\ FdTypes /\ [Next]_vars => FdTypes'
<1> SUFFICES ASSUME ReactorAssumption, FdInv, FdTypes, [Next]_vars PROVE FdTypes'
  OBVIOUS
<1>0. /\ prog.fds \subseteq Fds /\ prog.kinds \subseteq Kinds /\ MaxAdds \in Nat /\ MaxResults \in Nat \ {0}
      /\ None \notin Fds /\ results \in Seq(Result) /\ pos \in 0..Len(results) /\ active \subseteq Fds
  BY DEF FdInv, ReactorAssumption
<1>1. ASSUME UNCHANGED fdVars
      PROVE  FdTypes'
  BY <1>1 DEF fdVars, FdTypes
<1>2. ASSUME NEW f \in Fds, BReactor_AddFileDescriptor(f)
      PROVE  FdTypes'
  <2>0. reg[f] \in 0..MaxAdds /\ reg[f] < MaxAdds
    BY <1>2 DEF BReactor_AddFileDescriptor, FdTypes
  <2>1. reg[f] + 1 \in 0..MaxAdds /\ 0 \in 0..MaxResults
    BY <1>0, <2>0
  <2> QED BY <1>2, <2>1 DEF BReactor_AddFileDescriptor, FdTypes
<1>3. ASSUME NEW f \in Fds, BReactor_RemoveFileDescriptor(f)
      PROVE  FdTypes'
  <2>1. Len(results') = Len(results)
    BY <1>0, <1>3 DEF BReactor_RemoveFileDescriptor
  <2> QED BY <1>3, <2>1 DEF BReactor_RemoveFileDescriptor, FdTypes
<1>4. ASSUME NEW f \in Fds, NEW events \in SUBSET Kinds, BReactor_SetFileDescriptorEvents(f, events)
      PROVE  FdTypes'
  BY <1>4 DEF BReactor_SetFileDescriptorEvents, FdTypes
<1>5. CASE DispatchFd
  <2>1. PICK r : ptr' = IF r.fd = None THEN ptr ELSE [ptr EXCEPT ![r.fd] = 0]
    BY <1>5, Zenon DEF DispatchFd
  <2>2. 0 \in 0..MaxResults
    BY <1>0
  <2>3. ptr' \in [Fds -> 0..MaxResults]
    BY <2>1, <2>2, ZenonT(40) DEF FdTypes
  <2> QED BY <1>5, <2>3 DEF DispatchFd, FdTypes
<1>6. CASE wait_for_events
  <2>1. results' = <<>> /\ UNCHANGED <<wait, ptr, reg>>
    BY <1>6 DEF wait_for_events
  <2>2. Len(results') <= MaxResults
    BY <1>0, <2>1, SMTT(40)
  <2> QED BY <2>1, <2>2 DEF FdTypes
<1>7. CASE PollReturns
  <2>1. PICK n \in 1..MaxResults :
          \E order \in [1..n -> active], ev \in [1..n -> SUBSET (Kinds \cup {"err"})] :
            /\ \A i, k \in 1..n : order[i] = order[k] => i = k
            /\ \A i \in 1..n : ev[i] # {} /\ ev[i] \subseteq wait[order[i]] \cup {"err"}
            /\ results' = [i \in 1..n |-> [fd |-> order[i], ev |-> ev[i], reg |-> reg[order[i]]]]
            /\ ptr' = [f \in Fds |-> IF \E i \in 1..n : order[i] = f
                                     THEN CHOOSE i \in 1..n : order[i] = f ELSE ptr[f]]
    BY <1>7, Zenon DEF PollReturns
  <2>2. PICK order \in [1..n -> active], ev \in [1..n -> SUBSET (Kinds \cup {"err"})] :
          /\ \A i, k \in 1..n : order[i] = order[k] => i = k
          /\ \A i \in 1..n : ev[i] # {} /\ ev[i] \subseteq wait[order[i]] \cup {"err"}
          /\ results' = [i \in 1..n |-> [fd |-> order[i], ev |-> ev[i], reg |-> reg[order[i]]]]
          /\ ptr' = [f \in Fds |-> IF \E i \in 1..n : order[i] = f
                                   THEN CHOOSE i \in 1..n : order[i] = f ELSE ptr[f]]
    BY <2>1, Zenon
  <2>3. n \in Nat /\ n <= MaxResults /\ \A i \in 1..n : i \in 0..MaxResults
    BY <1>0, SMTT(40)
  <2>4. DOMAIN results' = 1..n /\ results' \in Seq(Result)
    <3>1. FdInv'
      BY FdStep
    <3> QED BY <2>2, <3>1, ZenonT(40) DEF FdInv
  <2>5. Len(results') <= MaxResults
    BY <2>3, <2>4, SMTT(40)
  <2>6. ptr' \in [Fds -> 0..MaxResults]
    BY <2>2, <2>3, ZenonT(40) DEF FdTypes
  <2> QED BY <1>7, <2>5, <2>6 DEF PollReturns, FdTypes
<1>8. CASE Handler
  <2>1. ASSUME \/ \E j \in prog.jobs : BPending_Set(j) \/ BPending_Unset(j)
               \/ \E t \in prog.timers :
                    \/ \E time \in 0..MaxDelay : BReactor_SetSmallTimer(t, time)
                    \/ BReactor_RemoveSmallTimer(t)
               \/ BReactor_Quit \/ SYNC_FROMHERE
        PROVE  FdTypes'
    BY <1>1, <2>1 DEF BPending_Set, BPending_Unset, BReactor_SetSmallTimer,
         BReactor_RemoveSmallTimer, BReactor_Quit, SYNC_FROMHERE
  <2> QED BY <1>0, <1>2, <1>3, <1>4, <1>8, <2>1, Zenon DEF Handler
<1>9. ASSUME \/ UNCHANGED vars \/ Exit \/ DispatchJob \/ DispatchTimer \/ BReactor_Synchronize
             \/ PollTimesOut \/ PollInterrupted \/ EndSync \/ Return \/ Tick
      PROVE  FdTypes'
  <2>1. UNCHANGED fdVars
    BY <1>9 DEF Exit, DispatchJob, DispatchTimer, BReactor_Synchronize, FreeMark, PollTimesOut,
         PollInterrupted, TryAgain, EndSync, SYNC_BREAK, SYNC_COMMIT, Return, Tick, vars
  <2> QED BY <1>1, <2>1
<1> QED BY <1>5, <1>6, <1>7, <1>8, <1>9 DEF Next, Loop

ReactorInv == FdInv /\ FdTypes /\ SyncInv /\ TimerInv

\* The state of the reactor keeps its types, the expired list holds exactly
\* the timers that expired, each once, and no timer is on it before its time:
\* wait_for_events calls move_first_timers no sooner than the first timer is
\* due, however often the wait is cut to INT_MAX or interrupted.
THEOREM TimersAlwaysFit == Spec => []TimersFit
<1>1. Init => ReactorInv
  BY ReactorAssumption, FdInit, FdTypesInit, SyncInit, TimerInit DEF ReactorInv
<1>2. ReactorInv /\ [Next]_vars => ReactorInv'
  BY ReactorAssumption, FdStep, FdTypesStep, SyncStep, TimerStep DEF ReactorInv
<1>3. ReactorInv => TimersFit
  BY DEF ReactorInv, FdInv, FdTypes, SyncInv, TimerInv, TimerLists, TimersFit, TypeOK
<1> QED BY <1>1, <1>2, <1>3, PTL DEF Spec
=============================================================================
