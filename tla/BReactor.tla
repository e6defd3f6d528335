------------------------------ MODULE BReactor ------------------------------
(***************************************************************************)
(* The event loop of tun2socks, as the Android build compiles it (epoll,   *)
(* NDEBUG): the job list of BPending.c, the timers, the file descriptors   *)
(* and the loop of BReactor_badvpn.c.  All of tun2socks runs in handlers   *)
(* that this loop calls one at a time.  A handler is any sequence of       *)
(* calls to the reactor; it may run other jobs itself, inside              *)
(* BReactor_Synchronize (the SYNC_ macros of tun2socks.c), so handlers     *)
(* nest.  The build compiles the ASSERTs of these files out: the           *)
(* properties below say why they would hold.                               *)
(***************************************************************************)
EXTENDS Integers, Sequences, SequencesExt

CONSTANTS
  Jobs,       \* the BPending objects of the program
  Timers,     \* the BSmallTimer objects, numbers that stand for their addresses
  Fds,        \* the BFileDescriptor objects
  Kinds,      \* the events a descriptor can wait for (BREACTOR_READ, BREACTOR_WRITE)
  Programs,   \* the programs to consider: what each of them uses
  None,       \* a NULL pointer
  MaxDepth,   \* bound: handlers that run inside one another
  MaxDelay,   \* bound: the longest time a timer is set for
  MaxTime,    \* bound: the clock
  MaxAdds,    \* bound: calls of BReactor_AddFileDescriptor for one object
  IntMax,     \* INT_MAX, the longest timeout epoll_wait takes
  MaxResults  \* BSYSTEM_MAX_RESULTS, the size of the results array

ASSUME ReactorAssumption ==
  /\ Timers \subseteq Nat /\ IsFiniteSet(Timers)
  /\ Programs \subseteq [jobs : SUBSET Jobs, timers : SUBSET Timers,
                          fds : SUBSET Fds, kinds : SUBSET Kinds]
  /\ None \notin Fds /\ "err" \notin Kinds
  /\ {MaxDelay, MaxTime, MaxAdds} \subseteq Nat
  /\ {MaxDepth, IntMax, MaxResults} \subseteq Nat \ {0}
  /\ \A d \in 1..MaxDepth : <<"mark", d>> \notin Jobs

VARIABLES
  prog,     \* the program that runs, which does not change
  ctl,      \* "exec" in BReactor_Exec, "poll" in wait_for_events, "done"
  stack,    \* the handlers that are running, the innermost last
  jobs,     \* pending_jobs.jobs, the first to run first
  since,    \* history: the pending jobs set after the mark of each handler
  now,      \* the clock btime_gettime reads
  tstate,   \* state of each timer
  abs,      \* absTime of each timer
  expired,  \* timers_expired_list
  poll,     \* the locals now and timeout_abs of wait_for_events
  active,   \* the file descriptors whose active is 1
  wait,     \* waitEvents of each file descriptor
  ptr,      \* epoll_returned_ptr of each: an index of results, 0 for NULL
  reg,      \* history: how often each file descriptor has been added
  results,  \* epoll_results
  pos,      \* epoll_results_pos
  exiting

loopVars  == <<ctl, stack, exiting>>
jobVars   == <<jobs, since>>
timerVars == <<now, tstate, abs, expired, poll>>
fdVars    == <<active, wait, ptr, reg, results, pos>>
vars      == <<prog, loopVars, jobVars, timerVars, fdVars>>

\* The sync_mark local of the handler at depth d.
Mark(d) == <<"mark", d>>

NoTimeout == [now |-> 0, have |-> FALSE, until |-> 0]

\* main sets the program up before it calls BReactor_Exec: a first handler.
Init ==
  /\ prog \in Programs
  /\ ctl = "exec" /\ stack = <<"plain">> /\ exiting = FALSE
  /\ jobs = <<>> /\ since = [d \in 1..MaxDepth |-> {}]
  /\ now = 0 /\ tstate = [t \in Timers |-> "inactive"]
  /\ abs = [t \in Timers |-> 0] /\ expired = <<>>
  /\ poll = NoTimeout
  /\ active = {} /\ wait = [f \in Fds |-> {}]
  /\ ptr = [f \in Fds |-> 0] /\ reg = [f \in Fds |-> 0]
  /\ results = <<>> /\ pos = 0

depth == Len(stack)
Top(s) == stack[depth] = s

-----------------------------------------------------------------------------
(* BPending.c: the jobs *)

Without(j) == RemoveFirst(jobs, j)

(* Fault: a job that is set goes to the end of the list. *)
ListSetLast(j) == Append(Without(j), j)

\* A job that is pending already moves to the front.
ListSet(j) == Cons(j, Without(j))

\* What every mark's handler may rely on: j is pending since its mark.
Noted(j) ==
  [d \in 1..MaxDepth |->
     IF d <= depth /\ stack[d] # "plain" THEN since[d] \cup {j} ELSE since[d]]
Forgotten(j) == [d \in 1..MaxDepth |-> since[d] \ {j}]

BPending_Set(j) ==
  /\ jobs' = ListSet(j) /\ since' = Noted(j)
  /\ UNCHANGED <<loopVars, timerVars, fdVars>>

BPending_Unset(j) ==
  /\ jobs' = Without(j) /\ since' = Forgotten(j)
  /\ UNCHANGED <<loopVars, timerVars, fdVars>>

\* The first job leaves the list and its handler starts.
BPendingGroup_ExecuteJob ==
  /\ depth < MaxDepth
  /\ jobs' = Tail(jobs) /\ since' = Forgotten(Head(jobs))
  /\ stack' = Append(stack, "plain")

-----------------------------------------------------------------------------
(* The SYNC_ macros of tun2socks.c and BReactor_Synchronize *)

SYNC_FROMHERE ==
  /\ Top("plain")
  /\ stack' = [stack EXCEPT ![depth] = "marked"]
  /\ jobs' = ListSet(Mark(depth)) /\ since' = [since EXCEPT ![depth] = {}]
  /\ UNCHANGED <<ctl, exiting, timerVars, fdVars>>

\* BPending_Free of the mark, after which the handler is as before.
FreeMark ==
  /\ stack' = [stack EXCEPT ![depth] = "plain"]
  /\ jobs' = Without(Mark(depth)) /\ since' = [since EXCEPT ![depth] = {}]
  /\ UNCHANGED <<ctl, exiting, timerVars, fdVars>>

SYNC_BREAK == Top("marked") /\ FreeMark

SYNC_COMMIT ==
  /\ Top("marked")
  /\ stack' = [stack EXCEPT ![depth] = "sync"]
  /\ UNCHANGED <<ctl, exiting, jobVars, timerVars, fdVars>>

\* One turn of BReactor_Synchronize's loop; it returns to SYNC_COMMIT, which
\* frees the mark, when the reactor is exiting or the mark comes first.
BReactor_Synchronize ==
  /\ Top("sync")
  /\ \/ /\ exiting \/ Head(jobs) = Mark(depth)
        /\ FreeMark
     \/ /\ ~exiting /\ Head(jobs) # Mark(depth)
        /\ BPendingGroup_ExecuteJob
        /\ UNCHANGED <<ctl, exiting, timerVars, fdVars>>

-----------------------------------------------------------------------------
(* The timers *)

Running == {t \in Timers : tstate[t] = "running"}

\* compare_timers: by time, then by address.
Before(t, u) == abs[t] < abs[u] \/ (abs[t] = abs[u] /\ t < u)

\* Running timers move, in the tree's order, to the end of the expired list.
InOrder(S) ==
  {q \in [1..Cardinality(S) -> S] :
     /\ \A t \in S : \E i \in DOMAIN q : q[i] = t
     /\ \A i, k \in DOMAIN q : i < k => Before(q[i], q[k])}

Expire(S) ==
  /\ \E q \in InOrder(S) : expired' = expired \o q
  /\ tstate' = [t \in Timers |-> IF t \in S THEN "expired" ELSE tstate[t]]
  /\ UNCHANGED <<now, abs>>

Due(time) == {t \in Running : abs[t] <= time}
First(t) == t \in Running /\ \A u \in Running \ {t} : Before(t, u)

move_first_timers ==
  \E first \in Timers : First(first) /\ Expire({t \in Running : abs[t] = abs[first]})

Unlinked(t) == RemoveFirst(expired, t)

\* BReactor_SetSmallTimer in its relative mode, the only one in use here.
BReactor_SetSmallTimer(t, time) ==
  /\ now + time <= MaxTime
  /\ expired' = Unlinked(t)
  /\ abs' = [abs EXCEPT ![t] = now + time]
  /\ tstate' = [tstate EXCEPT ![t] = "running"]
  /\ UNCHANGED <<now, poll, loopVars, jobVars, fdVars>>

BReactor_RemoveSmallTimer(t) ==
  /\ expired' = Unlinked(t)
  /\ tstate' = [tstate EXCEPT ![t] = "inactive"]
  /\ UNCHANGED <<now, abs, poll, loopVars, jobVars, fdVars>>

\* The clock, which matters to a program with timers only.
Tick ==
  /\ now < MaxTime /\ prog.timers # {}
  /\ now' = now + 1
  /\ UNCHANGED <<tstate, abs, expired, poll, loopVars, jobVars, fdVars>>

-----------------------------------------------------------------------------
(* The file descriptors *)

\* epoll_ctl may also fail: then nothing changes.
BReactor_AddFileDescriptor(f) ==
  /\ f \notin active /\ reg[f] < MaxAdds
  /\ active' = active \cup {f}
  /\ wait' = [wait EXCEPT ![f] = {}]
  /\ ptr' = [ptr EXCEPT ![f] = 0]
  /\ reg' = [reg EXCEPT ![f] = @ + 1]
  /\ UNCHANGED <<results, pos, loopVars, jobVars, timerVars>>

(* Fault: the result that waits for the descriptor is left in the array. *)
RemoveLeavesResult(f) ==
  /\ f \in active
  /\ active' = active \ {f}
  /\ UNCHANGED <<wait, ptr, reg, results, pos, loopVars, jobVars, timerVars>>

\* The pointer that was written through keeps its value.
BReactor_RemoveFileDescriptor(f) ==
  /\ f \in active
  /\ active' = active \ {f}
  /\ results' = [i \in DOMAIN results |->
                   IF i = ptr[f] THEN [results[i] EXCEPT !.fd = None] ELSE results[i]]
  /\ UNCHANGED <<wait, ptr, reg, pos, loopVars, jobVars, timerVars>>

BReactor_SetFileDescriptorEvents(f, events) ==
  /\ f \in active /\ wait[f] # events
  /\ wait' = [wait EXCEPT ![f] = events]
  /\ UNCHANGED <<active, ptr, reg, results, pos, loopVars, jobVars, timerVars>>

BReactor_Quit ==
  /\ exiting' = TRUE
  /\ UNCHANGED <<ctl, stack, jobVars, timerVars, fdVars>>

-----------------------------------------------------------------------------
(* BReactor_Exec: jobs first, then expired timers, then the results of the *)
(* last epoll_wait, then a new wait                                        *)

InLoop == ctl = "exec" /\ stack = <<>>

Exit ==
  /\ InLoop /\ exiting
  /\ ctl' = "done"
  /\ UNCHANGED <<stack, exiting, jobVars, timerVars, fdVars>>

DispatchJob ==
  /\ InLoop /\ ~exiting /\ jobs # <<>>
  /\ BPendingGroup_ExecuteJob
  /\ UNCHANGED <<ctl, exiting, timerVars, fdVars>>

DispatchTimer ==
  /\ InLoop /\ ~exiting /\ jobs = <<>> /\ expired # <<>>
  /\ expired' = Tail(expired)
  /\ tstate' = [tstate EXCEPT ![Head(expired)] = "inactive"]
  /\ stack' = <<"plain">>
  /\ UNCHANGED <<ctl, exiting, now, abs, poll, jobVars, fdVars>>

\* The events a handler is told of: errors always, others while waited for.
Events(r) == {e \in r.ev : e \in wait[r.fd] \/ e = "err"}

DispatchFd ==
  /\ InLoop /\ ~exiting /\ jobs = <<>> /\ expired = <<>>
  /\ pos < Len(results)
  /\ pos' = pos + 1
  /\ LET r == results[pos + 1] IN
       /\ ptr' = IF r.fd = None THEN ptr ELSE [ptr EXCEPT ![r.fd] = 0]
       /\ stack' = IF r.fd = None \/ Events(r) = {} THEN stack ELSE <<"plain">>
  /\ UNCHANGED <<ctl, exiting, active, wait, reg, results, jobVars, timerVars>>

\* epoll_wait waits for the first timer, if there is one.
SetTimeout ==
  \/ Running = {} /\ poll' = NoTimeout
  \/ \E t \in Timers :
       First(t) /\ poll' = [now |-> now, have |-> TRUE, until |-> abs[t]]

(* Fault: wait_for_events goes straight to epoll_wait. *)
WaitAtOnce ==
  /\ InLoop /\ ~exiting /\ jobs = <<>> /\ expired = <<>> /\ pos = Len(results)
  /\ results' = <<>> /\ pos' = 0
  /\ ctl' = "poll" /\ SetTimeout
  /\ UNCHANGED <<stack, exiting, jobVars, now, tstate, abs, expired,
                 active, wait, ptr, reg>>

\* wait_for_events up to its loop: timers that are due go first.
wait_for_events ==
  /\ InLoop /\ ~exiting /\ jobs = <<>> /\ expired = <<>> /\ pos = Len(results)
  /\ results' = <<>> /\ pos' = 0
  /\ \/ /\ Due(now) # {}
        /\ Expire(Due(now))
        /\ UNCHANGED <<ctl, poll>>
     \/ /\ Due(now) = {}
        /\ ctl' = "poll" /\ SetTimeout
        /\ UNCHANGED <<now, tstate, abs, expired>>
  /\ UNCHANGED <<stack, exiting, jobVars, active, wait, ptr, reg>>

LeavePoll == ctl' = "exec" /\ poll' = NoTimeout
TimeoutRel == poll.until - poll.now
TimeoutTrunc == IF TimeoutRel > IntMax THEN IntMax ELSE TimeoutRel

\* epoll_wait returns some ready descriptors; set_epoll_fd_pointers.
PollReturns ==
  /\ ctl = "poll"
  /\ \E n \in 1..MaxResults :
     \E order \in [1..n -> active], ev \in [1..n -> SUBSET (Kinds \cup {"err"})] :
       /\ \A i, k \in 1..n : order[i] = order[k] => i = k
       /\ \A i \in 1..n : ev[i] # {} /\ ev[i] \subseteq wait[order[i]] \cup {"err"}
       /\ results' = [i \in 1..n |->
                        [fd |-> order[i], ev |-> ev[i], reg |-> reg[order[i]]]]
       /\ ptr' = [f \in Fds |-> IF \E i \in 1..n : order[i] = f
                                THEN CHOOSE i \in 1..n : order[i] = f ELSE ptr[f]]
  /\ LeavePoll
  /\ UNCHANGED <<stack, exiting, jobVars, now, tstate, abs, expired,
                 active, wait, reg, pos>>

\* try_again: the time is read again, and the wait goes on if it is early.
TryAgain ==
  /\ \/ /\ poll.have /\ now >= poll.until
        /\ move_first_timers /\ LeavePoll
     \/ /\ ~(poll.have /\ now >= poll.until)
        /\ poll' = IF poll.have THEN [poll EXCEPT !.now = now] ELSE poll
        /\ UNCHANGED <<ctl, now, tstate, abs, expired>>
  /\ UNCHANGED <<stack, exiting, jobVars, fdVars>>

PollInterrupted == ctl = "poll" /\ TryAgain

(* Fault: a wait that was cut to INT_MAX counts as the whole wait. *)
PollTimesOutShort ==
  /\ ctl = "poll" /\ poll.have /\ now >= poll.now + TimeoutTrunc
  /\ move_first_timers /\ LeavePoll
  /\ UNCHANGED <<stack, exiting, jobVars, fdVars>>

PollTimesOut ==
  /\ ctl = "poll" /\ poll.have /\ now >= poll.now + TimeoutTrunc
  /\ \/ /\ TimeoutTrunc = TimeoutRel
        /\ move_first_timers /\ LeavePoll
        /\ UNCHANGED <<stack, exiting, jobVars, fdVars>>
     \/ /\ TimeoutTrunc # TimeoutRel
        /\ TryAgain

-----------------------------------------------------------------------------
Return ==
  /\ stack # <<>> /\ Top("plain")
  /\ stack' = Front(stack)
  /\ UNCHANGED <<ctl, exiting, jobVars, timerVars, fdVars>>

\* What the handler that runs may do.
Handler ==
  /\ stack # <<>> /\ ~Top("sync")
  /\ \/ \E j \in prog.jobs : BPending_Set(j) \/ BPending_Unset(j)
     \/ \E t \in prog.timers :
          \/ \E time \in 0..MaxDelay : BReactor_SetSmallTimer(t, time)
          \/ BReactor_RemoveSmallTimer(t)
     \/ \E f \in prog.fds :
          \/ BReactor_AddFileDescriptor(f) \/ BReactor_RemoveFileDescriptor(f)
          \/ \E events \in SUBSET prog.kinds : BReactor_SetFileDescriptorEvents(f, events)
     \/ BReactor_Quit
     \/ SYNC_FROMHERE

EndSync == stack # <<>> /\ (SYNC_BREAK \/ SYNC_COMMIT)

\* What the reactor does between the calls of handlers.
Loop ==
  \/ Exit \/ DispatchJob \/ DispatchTimer \/ DispatchFd \/ wait_for_events
  \/ (stack # <<>> /\ BReactor_Synchronize)
  \/ PollTimesOut

Next ==
  /\ Loop \/ PollReturns \/ PollInterrupted \/ Handler \/ EndSync \/ Return \/ Tick
  /\ UNCHANGED prog

\* The process runs, handlers return, the clock goes on.
Fairness ==
  /\ WF_vars(Loop /\ UNCHANGED prog) /\ WF_vars(EndSync /\ UNCHANGED prog)
  /\ SF_vars(Return /\ UNCHANGED prog) /\ WF_vars(Tick /\ UNCHANGED prog)

Spec == Init /\ [][Next]_vars
FairSpec == Spec /\ Fairness

-----------------------------------------------------------------------------
Pending == Jobs \cup {Mark(d) : d \in 1..MaxDepth}
InFront(j) == {jobs[i] : i \in {k \in DOMAIN jobs : \E l \in DOMAIN jobs : k < l /\ jobs[l] = j}}

\* The state is of the declared types; a job or a timer is linked once.
TypeOK ==
  /\ ctl \in {"exec", "poll", "done"} /\ exiting \in BOOLEAN
  /\ stack \in Seq({"plain", "marked", "sync"}) /\ depth <= MaxDepth
  /\ jobs \in Seq(Pending) /\ IsInjective(jobs)
  /\ since \in [1..MaxDepth -> SUBSET Jobs]
  /\ now \in 0..MaxTime /\ abs \in [Timers -> 0..MaxTime]
  /\ tstate \in [Timers -> {"inactive", "running", "expired"}]
  /\ expired \in Seq(Timers) /\ IsInjective(expired)
  /\ active \subseteq Fds /\ wait \in [Fds -> SUBSET Kinds]
  /\ ptr \in [Fds -> 0..MaxResults] /\ reg \in [Fds -> 0..MaxAdds]
  /\ Len(results) <= MaxResults /\ pos \in 0..Len(results)

\* The ASSERTs of set_epoll_fd_pointers, BReactor_Exec (837-838) and
\* BReactor_RemoveFileDescriptor: among the results that are still to be
\* dispatched, those that are not NULL and the pointers of active descriptors
\* name one another, so removing a descriptor clears its own result only.
PointersFit ==
  \A f \in active :
    /\ ptr[f] # 0 => ptr[f] \in (pos + 1)..Len(results) /\ results[ptr[f]].fd = f
    /\ \A i \in (pos + 1)..Len(results) : results[i].fd = f => ptr[f] = i

\* A result reaches a handler only for the registration epoll_wait saw: not
\* after the descriptor is removed, nor when the same object was added again
\* (with another fd in it) by a handler that ran before.
ResultsFresh ==
  \A i \in (pos + 1)..Len(results) :
    results[i].fd # None =>
      results[i].fd \in active /\ results[i].reg = reg[results[i].fd]

\* The expired list holds exactly the expired timers, and none is early: a
\* wait cut to INT_MAX or interrupted by a signal goes on.
TimersFit ==
  /\ TypeOK
  /\ Range(expired) = {t \in Timers : tstate[t] = "expired"}
  /\ \A t \in Range(expired) : abs[t] <= now

\* BReactor_Synchronize runs the jobs set since SYNC_FROMHERE and no older
\* one: they are the jobs in front of the mark.
SyncRunsSince ==
  \A d \in 1..depth :
    stack[d] # "plain" =>
      Mark(d) \in Range(jobs) /\ InFront(Mark(d)) \cap Jobs = since[d]

\* A timer that runs expires or is removed, and one that has expired fires or
\* is set again, unless the loop ends: descriptors that are always ready do not
\* keep wait_for_events from the timers.
TimersFire ==
  \A t \in Timers, s \in {"running", "expired"} :
    (tstate[t] = s) ~> (tstate[t] # s \/ exiting)
=============================================================================
