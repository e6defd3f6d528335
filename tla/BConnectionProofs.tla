-------------------------- MODULE BConnectionProofs --------------------------
(***************************************************************************)
(* Proofs about the connection to the SOCKS server, for every order of its *)
(* events, jobs and calls, every result of the system calls and every      *)
(* limit: a direction is busy exactly while it will be served              *)
(* (BusyIsServed), and the descriptor is closed once (ClosedOnce).         *)
(*                                                                         *)
(* The inductive invariant, ConInv, adds who holds the descriptor in each  *)
(* state of the connector, that what the loop still holds is of a          *)
(* registration that is not over, and that recv_job and the wait for       *)
(* EPOLLIN go together only after an error, which read then returns.       *)
(***************************************************************************)
EXTENDS BConnection, LinkedListLemmas

Con ==
  [con : {"none", "wait", "job", "called", "freed"}, cfd : BOOLEAN, live : BOOLEAN,
   send : {"off", "ready", "busy"}, recv : {"off", "ready", "busy", "closed"},
   sif : {"none", "op", "busy", "done"}, rif : {"none", "op", "busy", "done"},
   wait : SUBSET {"in", "out"}, hupd : BOOLEAN, slim : 0..Limit, rlim : 0..Limit,
   jobs : Seq(JobNames), ev : SUBSET {"in", "out", "err", "hup"},
   err : BOOLEAN, failed : BOOLEAN, opens : Nat, closes : Nat]


\* The jobs that are pending.
Linked(c) == Range(c.jobs)

\* Who holds the descriptor.
LifeInv(c) ==
  /\ c.con = "none" => c.opens = 0 /\ c.closes = 0
  /\ c.con \in {"wait", "job"} => c.cfd /\ c.opens = 1 /\ c.closes = 0
  /\ c.con = "called" =>
       /\ c.opens = 1 /\ (c.live \/ c.failed)
       /\ c.closes = IF c.live \/ c.cfd THEN 0 ELSE 1
  /\ c.con = "freed" => c.closes = c.opens
  /\ c.live => ~c.cfd /\ c.con = "called"
  /\ c.con \in {"none", "freed"} => ~c.cfd
  /\ c.con \in {"none", "wait", "job"} => c.wait = {} /\ ~c.hupd
  /\ c.con = "job" => Linked(c) = {"con_job"}
  /\ c.con # "job" => "con_job" \notin Linked(c)
  /\ ~c.live => c.send = "off" /\ c.recv = "off" /\ c.sif = "none" /\ c.rif = "none"
                /\ Linked(c) \subseteq {"con_job"}

\* What the loop holds is of a registration that is not over.
EventInv(c) ==
  /\ c.ev # {} => Registered(c)
  /\ "err" \in c.ev => c.err

SendInv(c) ==
  /\ ("send_op" \in Linked(c)) <=> (c.sif = "op")
  /\ ("send_done" \in Linked(c)) <=> (c.sif = "done")
  /\ (c.send = "busy") <=> (c.sif = "busy")

RecvInv(c) ==
  /\ ("recv_op" \in Linked(c)) <=> (c.rif = "op")
  /\ ("recv_done" \in Linked(c)) <=> (c.rif = "done")
  /\ (c.recv \in {"busy", "closed"}) <=> (c.rif = "busy")

SendServed(c) ==
  c.live /\ ~c.failed => ((c.send = "busy") <=> (~c.hupd /\ "out" \in c.wait))

\* While the job is set the event may be waited for too, if there was an error.
RecvServed(c) ==
  c.live /\ ~c.failed =>
    /\ (c.recv = "busy") <=> ((~c.hupd /\ "in" \in c.wait) \/ "recv_job" \in Linked(c))
    /\ "recv_job" \in Linked(c) /\ ~c.hupd /\ "in" \in c.wait => c.err

Frame(c) == c \in Con /\ IsInjective(c.jobs) /\ LifeInv(c) /\ EventInv(c)
ConInv(c) == Frame(c) /\ SendInv(c) /\ RecvInv(c) /\ SendServed(c) /\ RecvServed(c)

-----------------------------------------------------------------------------
\* BPending_Unset takes a job that may be pending out of the list.
LEMMA UnsetLinks ==
  ASSUME NEW s \in Seq(JobNames), IsInjective(s), NEW j
  PROVE  /\ Unset(s, j) \in Seq(JobNames) /\ IsInjective(Unset(s, j))
         /\ Range(Unset(s, j)) = Range(s) \ {j}
<1>1. PICK r : r = RemoveFirst(s, j)
  OBVIOUS
<1>2. r \in Seq(JobNames) /\ IsInjective(r) /\ Range(r) = Range(s) \ {j}
  BY <1>1, RemoveOne
<1> QED BY <1>1, <1>2 DEF Unset

\* BPending_Set moves it to the front.
LEMMA SetLinks ==
  ASSUME NEW s \in Seq(JobNames), IsInjective(s), NEW j \in JobNames
  PROVE  /\ Set(s, j) \in Seq(JobNames) /\ IsInjective(Set(s, j))
         /\ Range(Set(s, j)) = Range(s) \cup {j}
<1>1. PICK u, r : u = Unset(s, j) /\ r = Cons(j, u)
  OBVIOUS
<1>2. u \in Seq(JobNames) /\ IsInjective(u) /\ Range(u) = Range(s) \ {j}
  BY <1>1, UnsetLinks
<1>3. j \notin Range(u)
  BY <1>2
<1>4. r \in Seq(JobNames) /\ IsInjective(r) /\ Range(r) = Range(u) \cup {j}
  BY <1>1, <1>2, <1>3, PutFirst
<1> QED BY <1>1, <1>2, <1>4 DEF Set

\* The fields that sending and receiving leave alone.
SameLife(c, d) ==
  /\ d.con = c.con /\ d.cfd = c.cfd /\ d.live = c.live /\ d.hupd = c.hupd
  /\ d.ev = c.ev /\ d.err = c.err /\ d.opens = c.opens /\ d.closes = c.closes

LEMMA FrameKept ==
  ASSUME NEW c, Frame(c), c.live, NEW d \in Con, SameLife(c, d), IsInjective(d.jobs),
         "con_job" \notin Linked(d)
  PROVE  Frame(d)
<1>1. LifeInv(d)
  BY DEF Frame, LifeInv, SameLife
<1>2. EventInv(d)
  BY DEF Frame, EventInv, SameLife, Registered
<1> QED BY <1>1, <1>2 DEF Frame

\* connection_send, called for a buffer that is handed over.  It is not waited
\* for at this point, or there was an error, which write returns then.
LEMMA SendKeeps ==
  ASSUME NEW c, Frame(c), c.live, ~c.failed, SendInv(c), RecvInv(c), RecvServed(c),
         c.send = "busy", ~c.hupd /\ "out" \in c.wait => c.err,
         NEW res \in WriteResults(c)
  PROVE  ConInv(connection_send(c, res))
<1> DEFINE n == IF c.hupd THEN c.slim ELSE c.slim + 1
<1>0. /\ c \in Con /\ IsInjective(c.jobs) /\ c.jobs \in Seq(JobNames) /\ c.sif = "busy"
      /\ c.wait \cup {"out"} \in SUBSET {"in", "out"} /\ c.slim \in 0..Limit
      /\ "con_job" \notin Linked(c) /\ {"send_op", "send_done"} \cap Linked(c) = {}
      /\ Limit \in Nat /\ res \in {"done", "again", "error"} /\ (c.err => res = "error")
  BY LimitAssumption DEF Frame, Con, SendInv, LifeInv, WriteResults
<1>1. ASSUME NEW d \in Con, SameLife(c, d), d.recv = c.recv, d.rif = c.rif, d.jobs = c.jobs,
             d.send = c.send, d.sif = c.sif, "in" \in d.wait <=> "in" \in c.wait,
             d.failed \/ (~c.hupd /\ "out" \in d.wait)
      PROVE  ConInv(d)
  <2>1. Frame(d)
    BY <1>0, <1>1, FrameKept DEF Linked
  <2>2. SendInv(d) /\ RecvInv(d)
    BY <1>1 DEF SendInv, RecvInv, Linked
  <2>3. SendServed(d)
    BY <1>1 DEF SendServed, SameLife
  <2>4. RecvServed(d)
    BY <1>1 DEF RecvServed, SameLife, Linked
  <2> QED BY <2>1, <2>2, <2>3, <2>4 DEF ConInv
<1>2. CASE ~c.hupd /\ c.slim >= Limit
  <2>1. PICK e : e = [c EXCEPT !.wait = @ \cup {"out"}]
    BY Zenon
  <2>2. connection_send(c, res) = e
    BY <1>2, <2>1 DEF connection_send
  <2>3. e \in Con
    BY <1>0, <2>1, Zenon DEF Con
  <2>4. /\ SameLife(c, e) /\ e.recv = c.recv /\ e.rif = c.rif /\ e.jobs = c.jobs
        /\ e.send = c.send /\ e.sif = c.sif /\ e.wait = c.wait \cup {"out"}
    BY <1>0, <2>1, Zenon DEF Con, SameLife
  <2> QED BY <1>1, <1>2, <2>2, <2>3, <2>4
<1>3. CASE ~(~c.hupd /\ c.slim >= Limit)
  <2>0. n \in 0..Limit
    BY <1>0, <1>3
  <2>3. CASE res = "done"
    <3>1. PICK s : s = Set(c.jobs, "send_done")
      OBVIOUS
    <3>2. s \in Seq(JobNames) /\ IsInjective(s) /\ Range(s) = Linked(c) \cup {"send_done"}
      BY <1>0, <3>1, SetLinks DEF JobNames, Linked
    <3>3. PICK e : e = [c EXCEPT !.slim = n, !.send = "ready", !.sif = "done", !.jobs = s]
      OBVIOUS
    <3>4. connection_send(c, res) = e
      BY <1>0, <1>3, <2>3, <3>1, <3>3, ZenonT(40) DEF connection_send, Con
    <3>5. e \in Con
      BY <1>0, <2>0, <3>2, <3>3, ZenonT(40) DEF Con
    <3>6. /\ SameLife(c, e) /\ e.recv = c.recv /\ e.rif = c.rif /\ e.wait = c.wait
          /\ e.failed = c.failed /\ e.send = "ready" /\ e.sif = "done" /\ e.jobs = s
      BY <1>0, <3>3, ZenonT(40) DEF Con, SameLife
    <3>7. Linked(e) = Linked(c) \cup {"send_done"}
      BY <3>2, <3>6 DEF Linked
    <3>8. Frame(e)
      BY <1>0, <3>2, <3>5, <3>6, <3>7, FrameKept
    <3>9. SendInv(e) /\ RecvInv(e)
      BY <1>0, <3>6, <3>7 DEF SendInv, RecvInv
    <3>10. SendServed(e)
      BY <1>0, <2>3, <3>6 DEF SendServed, SameLife
    <3>11. RecvServed(e)
      BY <3>6, <3>7 DEF RecvServed, SameLife
    <3> QED BY <3>4, <3>8, <3>9, <3>10, <3>11 DEF ConInv
  <2>4. CASE res = "again" /\ ~c.hupd
    <3>1. PICK e : e = [c EXCEPT !.slim = n, !.wait = @ \cup {"out"}]
      OBVIOUS
    <3>2. connection_send(c, res) = e
      BY <1>0, <1>3, <2>4, <3>1 DEF connection_send, Con
    <3>3. e \in Con
      BY <1>0, <2>0, <3>1, Zenon DEF Con
    <3>4. /\ SameLife(c, e) /\ e.recv = c.recv /\ e.rif = c.rif /\ e.jobs = c.jobs
          /\ e.send = c.send /\ e.sif = c.sif /\ e.wait = c.wait \cup {"out"}
      BY <1>0, <3>1, Zenon DEF Con, SameLife
    <3> QED BY <1>1, <2>4, <3>2, <3>3, <3>4
  <2>5. CASE res # "done" /\ ~(res = "again" /\ ~c.hupd)
    <3>1. PICK e : e = [c EXCEPT !.slim = n, !.failed = TRUE]
      OBVIOUS
    <3>2. connection_send(c, res) = e
      BY <1>0, <1>3, <2>5, <3>1, Zenon DEF connection_send, Con, report_error
    <3>3. e \in Con
      BY <1>0, <2>0, <3>1, Zenon DEF Con
    <3>4. /\ SameLife(c, e) /\ e.recv = c.recv /\ e.rif = c.rif /\ e.jobs = c.jobs
          /\ e.send = c.send /\ e.sif = c.sif /\ e.wait = c.wait /\ e.failed
      BY <1>0, <3>1, ZenonT(40) DEF Con, SameLife
    <3> QED BY <1>1, <3>2, <3>3, <3>4
  <2> QED BY <2>3, <2>4, <2>5
<1> QED BY <1>2, <1>3

\* connection_recv, likewise, when its job is not set any more.
LEMMA RecvKeeps ==
  ASSUME NEW c, Frame(c), c.live, ~c.failed, SendInv(c), RecvInv(c), SendServed(c),
         c.recv = "busy", "recv_job" \notin Linked(c), ~c.hupd /\ "in" \in c.wait => c.err,
         NEW res \in ReadResults(c)
  PROVE  ConInv(connection_recv(c, res))
<1> DEFINE n == IF c.hupd THEN c.rlim ELSE c.rlim + 1
<1>0. /\ c \in Con /\ IsInjective(c.jobs) /\ c.jobs \in Seq(JobNames) /\ c.rif = "busy"
      /\ c.wait \cup {"in"} \in SUBSET {"in", "out"} /\ c.rlim \in 0..Limit
      /\ "con_job" \notin Linked(c) /\ {"recv_op", "recv_done"} \cap Linked(c) = {}
      /\ Limit \in Nat /\ res \in {"done", "again", "error", "eof"} /\ (c.err => res = "error")
  BY LimitAssumption DEF Frame, Con, RecvInv, LifeInv, ReadResults, WriteResults
<1>1. ASSUME NEW d \in Con, SameLife(c, d), d.send = c.send, d.sif = c.sif, d.jobs = c.jobs,
             d.recv \in {"busy", "closed"}, d.rif = c.rif, "out" \in d.wait <=> "out" \in c.wait,
             \/ d.failed
             \/ d.recv = "busy" /\ ~c.hupd /\ "in" \in d.wait
             \/ d.recv = "closed" /\ (c.hupd \/ "in" \notin d.wait)
      PROVE  ConInv(d)
  <2>1. Frame(d)
    BY <1>0, <1>1, FrameKept DEF Linked
  <2>2. SendInv(d) /\ RecvInv(d)
    BY <1>0, <1>1 DEF SendInv, RecvInv, Linked
  <2>3. SendServed(d)
    BY <1>1 DEF SendServed, SameLife
  <2>4. RecvServed(d)
    BY <1>1 DEF RecvServed, SameLife, Linked
  <2> QED BY <2>1, <2>2, <2>3, <2>4 DEF ConInv
<1>2. CASE ~c.hupd /\ c.rlim >= Limit
  <2>1. PICK e : e = [c EXCEPT !.wait = @ \cup {"in"}]
    BY Zenon
  <2>2. connection_recv(c, res) = e
    BY <1>2, <2>1 DEF connection_recv
  <2>3. e \in Con
    BY <1>0, <2>1 DEF Con
  <2>4. /\ SameLife(c, e) /\ e.recv = c.recv /\ e.rif = c.rif /\ e.jobs = c.jobs
        /\ e.send = c.send /\ e.sif = c.sif /\ e.wait = c.wait \cup {"in"}
    BY <1>0, <2>1, Zenon DEF Con, SameLife
  <2> QED BY <1>1, <1>2, <2>2, <2>3, <2>4
<1>3. CASE ~(~c.hupd /\ c.rlim >= Limit)
  <2>1. n \in 0..Limit
    BY <1>0, <1>3
  <2>2. CASE res = "done"
    <3>1. PICK s : s = Set(c.jobs, "recv_done")
      OBVIOUS
    <3>2. s \in Seq(JobNames) /\ IsInjective(s) /\ Range(s) = Linked(c) \cup {"recv_done"}
      BY <1>0, <3>1, SetLinks DEF JobNames, Linked
    <3>3. PICK e : e = [c EXCEPT !.rlim = n, !.recv = "ready", !.rif = "done", !.jobs = s]
      OBVIOUS
    <3>4. connection_recv(c, res) = e
      BY <1>0, <1>3, <2>2, <3>1, <3>3, ZenonT(40) DEF connection_recv, Con
    <3>5. e \in Con
      BY <1>0, <2>1, <3>2, <3>3, ZenonT(40) DEF Con
    <3>6. /\ SameLife(c, e) /\ e.send = c.send /\ e.sif = c.sif /\ e.wait = c.wait
          /\ e.failed = c.failed /\ e.recv = "ready" /\ e.rif = "done" /\ e.jobs = s
      BY <1>0, <3>3, ZenonT(40) DEF Con, SameLife
    <3>7. Linked(e) = Linked(c) \cup {"recv_done"}
      BY <3>2, <3>6 DEF Linked
    <3>8. Frame(e)
      BY <1>0, <3>2, <3>5, <3>6, <3>7, FrameKept
    <3>9. SendInv(e) /\ RecvInv(e)
      BY <1>0, <3>6, <3>7 DEF SendInv, RecvInv
    <3>10. SendServed(e)
      BY <3>6 DEF SendServed, SameLife
    <3>11. RecvServed(e)
      BY <1>0, <2>2, <3>6, <3>7 DEF RecvServed, SameLife
    <3> QED BY <3>4, <3>8, <3>9, <3>10, <3>11 DEF ConInv
  <2>3. CASE res = "eof"
    <3>1. PICK e : e = [c EXCEPT !.rlim = n, !.recv = "closed"]
      OBVIOUS
    <3>2. connection_recv(c, res) = e
      BY <1>0, <1>3, <2>3, <3>1, ZenonT(40) DEF connection_recv, Con
    <3>3. e \in Con
      BY <1>0, <2>1, <3>1, Zenon DEF Con
    <3>4. /\ SameLife(c, e) /\ e.recv = "closed" /\ e.rif = c.rif /\ e.jobs = c.jobs
          /\ e.send = c.send /\ e.sif = c.sif /\ e.wait = c.wait
      BY <1>0, <3>1, Zenon DEF Con, SameLife
    <3> QED BY <1>0, <1>1, <2>3, <3>2, <3>3, <3>4
  <2>4. CASE res = "again" /\ ~c.hupd
    <3>1. PICK e : e = [c EXCEPT !.rlim = n, !.wait = @ \cup {"in"}]
      OBVIOUS
    <3>2. connection_recv(c, res) = e
      BY <1>0, <1>3, <2>4, <3>1 DEF connection_recv, Con
    <3>3. e \in Con
      BY <1>0, <2>1, <3>1, Zenon DEF Con
    <3>4. /\ SameLife(c, e) /\ e.recv = c.recv /\ e.rif = c.rif /\ e.jobs = c.jobs
          /\ e.send = c.send /\ e.sif = c.sif /\ e.wait = c.wait \cup {"in"}
      BY <1>0, <3>1, Zenon DEF Con, SameLife
    <3> QED BY <1>1, <2>4, <3>2, <3>3, <3>4
  <2>5. CASE res \notin {"done", "eof"} /\ ~(res = "again" /\ ~c.hupd)
    <3>1. PICK e : e = [c EXCEPT !.rlim = n, !.failed = TRUE]
      OBVIOUS
    <3>2. connection_recv(c, res) = e
      BY <1>0, <1>3, <2>5, <3>1, ZenonT(40) DEF connection_recv, Con, report_error
    <3>3. e \in Con
      BY <1>0, <2>1, <3>1, ZenonT(40) DEF Con
    <3>4. /\ SameLife(c, e) /\ e.recv = c.recv /\ e.rif = c.rif /\ e.jobs = c.jobs
          /\ e.send = c.send /\ e.sif = c.sif /\ e.wait = c.wait /\ e.failed
      BY <1>0, <3>1, Zenon DEF Con, SameLife
    <3> QED BY <1>1, <3>2, <3>3, <3>4
  <2> QED BY <2>2, <2>3, <2>4, <2>5
<1> QED BY <1>2, <1>3

\* connection_fd_handler, for events the connection waits for, an error or a
\* hangup.  A direction that has to be served and is not the one served at
\* once has its job set; after a hangup nothing is waited for.
LEMMA FdHandlerKeeps ==
  ASSUME NEW c, ConInv(c), c.live, ~c.failed, ~c.hupd, c.jobs = <<>>, c.ev = {},
         NEW events, events # {}, events \subseteq c.wait \cup {"err", "hup"}, "err" \in events => c.err,
         NEW w \in WriteResults(c), NEW r \in ReadResults(c)
  PROVE  ConInv(connection_fd_handler(c, events, w, r))
<1> DEFINE hup == "hup" \in events
           bad == events \cap {"err", "hup"} # {}
           haveSend == "out" \in events \/ (bad /\ c.send = "busy")
           haveRecv == "in" \in events \/ (bad /\ c.recv = "busy")
           d == [c EXCEPT !.wait = @ \ events, !.hupd = hup]
<1>0. /\ c \in Con /\ Frame(c) /\ c.jobs \in Seq(JobNames) /\ Linked(c) = {}
      /\ c.send = "busy" <=> "out" \in c.wait
      /\ c.recv = "busy" <=> "in" \in c.wait
      /\ c.wait \subseteq {"in", "out"} /\ hup \in BOOLEAN
  BY DEF ConInv, Frame, Con, Linked, Range, SendServed, RecvServed
<1>9. connection_fd_handler(c, events, w, r) =
        IF haveSend
        THEN connection_send(IF haveRecv THEN [d EXCEPT !.jobs = Set(@, "recv_job")] ELSE d, w)
        ELSE IF haveRecv THEN connection_recv(d, r)
             ELSE IF ~hup THEN report_error(d) ELSE d
  BY DEF connection_fd_handler
<1> HIDE DEF hup
<1>1. /\ d \in Con /\ d.con = c.con /\ d.cfd = c.cfd /\ d.live /\ d.ev = {} /\ d.err = c.err
      /\ d.opens = c.opens /\ d.closes = c.closes /\ d.send = c.send /\ d.recv = c.recv
      /\ d.sif = c.sif /\ d.rif = c.rif /\ d.jobs = <<>> /\ ~d.failed
      /\ d.wait = c.wait \ events /\ d.hupd = hup
  <2>1. d \in Con
    BY <1>0, Zenon DEF Con
  <2> QED BY <1>0, <2>1 DEF Con
<1> HIDE DEF d
<1>2. Frame(d)
  <2>1. LifeInv(d)
    BY <1>0, <1>1 DEF Frame, LifeInv, Linked
  <2>2. EventInv(d) /\ IsInjective(d.jobs)
    BY <1>1 DEF EventInv, IsInjective
  <2> QED BY <1>1, <2>1, <2>2 DEF Frame
<1>3. SendInv(d) /\ RecvInv(d) /\ Linked(d) = {}
  BY <1>0, <1>1 DEF ConInv, SendInv, RecvInv, Linked
<1>4. WriteResults(d) = WriteResults(c) /\ ReadResults(d) = ReadResults(c)
  BY <1>1 DEF WriteResults, ReadResults
<1>10. /\ haveSend /\ ~d.hupd /\ "out" \in d.wait => d.err
       /\ haveRecv /\ ~d.hupd /\ "in" \in d.wait => d.err
  <2>1. ~hup /\ bad => c.err
    BY DEF hup
  <2>2. "out" \in d.wait => "out" \notin events
    BY <1>1
  <2>3. "in" \in d.wait => "in" \notin events
    BY <1>1
  <2> QED BY <1>1, <2>1, <2>2, <2>3
<1>11. /\ haveSend => d.send = "busy"
       /\ haveRecv => d.recv = "busy"
  BY <1>0, <1>1
<1>5. CASE haveSend /\ haveRecv
  <2>1. PICK s : s = Set(d.jobs, "recv_job")
    OBVIOUS
  <2>2. s \in Seq(JobNames) /\ IsInjective(s) /\ Range(s) = {"recv_job"}
    <3>1. <<>> \in Seq(JobNames) /\ IsInjective(<<>>) /\ Range(<<>>) = {} /\ "recv_job" \in JobNames
      BY DEF IsInjective, Range, JobNames
    <3> QED BY <1>1, <2>1, <3>1, SetLinks, Zenon
  <2>3. PICK e : e = [d EXCEPT !.jobs = s]
    BY Zenon
  <2>4. e \in Con
    BY <1>1, <2>2, <2>3, Zenon DEF Con
  <2>5. /\ SameLife(d, e) /\ e.send = d.send /\ e.recv = d.recv /\ e.sif = d.sif /\ e.rif = d.rif
        /\ e.wait = d.wait /\ ~e.failed /\ e.jobs = s
    BY <1>1, <2>3, Zenon DEF Con, SameLife
  <2>6. Linked(e) = {"recv_job"}
    BY <2>2, <2>5 DEF Linked
  <2>7. Frame(e)
    BY <1>1, <1>2, <2>2, <2>4, <2>5, <2>6, FrameKept
  <2>8. SendInv(e) /\ RecvInv(e)
    BY <1>3, <2>5, <2>6 DEF SendInv, RecvInv
  <2>9. e.recv = "busy" /\ e.send = "busy"
    BY <1>5, <1>11, <2>5
  <2>10. RecvServed(e)
    BY <1>5, <1>10, <2>5, <2>6, <2>9 DEF RecvServed, SameLife
  <2>11. ~e.hupd /\ "out" \in e.wait => e.err
    BY <1>5, <1>10, <2>5 DEF SameLife
  <2>12. w \in WriteResults(e)
    BY <1>1, <2>5 DEF WriteResults, SameLife
  <2>13. connection_fd_handler(c, events, w, r) = connection_send(e, w)
    <3>1. [d EXCEPT !.jobs = Set(@, "recv_job")] = e
      BY <1>1, <2>1, <2>3 DEF Con
    <3> HIDE DEF haveSend, haveRecv
    <3> QED BY <1>5, <1>9, <3>1
  <2>14. e.live
    BY <1>1, <2>5 DEF SameLife
  <2> QED BY <2>5, <2>7, <2>8, <2>9, <2>10, <2>11, <2>12, <2>13, <2>14, SendKeeps
<1>6. CASE haveSend /\ ~haveRecv
  <2>1. connection_fd_handler(c, events, w, r) = connection_send(d, w)
    <3> HIDE DEF haveSend, haveRecv
    <3> QED BY <1>6, <1>9
  <2>2. d.send = "busy" /\ (~d.hupd /\ "out" \in d.wait => d.err)
    BY <1>6, <1>10, <1>11
  <2>3. RecvServed(d)
    BY <1>0, <1>1, <1>3, <1>6, ZenonT(40) DEF RecvServed, hup
  <2> QED BY <1>1, <1>2, <1>3, <1>4, <2>1, <2>2, <2>3, SendKeeps
<1>7. CASE ~haveSend /\ haveRecv
  <2>1. connection_fd_handler(c, events, w, r) = connection_recv(d, r)
    <3> HIDE DEF haveSend, haveRecv
    <3> QED BY <1>7, <1>9
  <2>2. d.recv = "busy" /\ (~d.hupd /\ "in" \in d.wait => d.err) /\ "recv_job" \notin Linked(d)
    BY <1>3, <1>7, <1>10, <1>11
  <2>3. SendServed(d)
    BY <1>0, <1>1, <1>7, Zenon DEF SendServed, hup
  <2> QED BY <1>1, <1>2, <1>3, <1>4, <2>1, <2>2, <2>3, RecvKeeps
<1>8. CASE ~haveSend /\ ~haveRecv
  <2>1. bad /\ d.send # "busy" /\ d.recv # "busy"
    BY <1>0, <1>1, <1>8
  <2>2. CASE hup
    <3>1. connection_fd_handler(c, events, w, r) = d
      <4> HIDE DEF haveSend, haveRecv
      <4> QED BY <1>8, <1>9, <2>2
    <3>2. SendServed(d) /\ RecvServed(d)
      BY <1>1, <1>3, <2>1, <2>2 DEF SendServed, RecvServed
    <3> QED BY <1>2, <1>3, <3>1, <3>2 DEF ConInv
  <2>3. CASE ~hup
    <3>1. PICK e : e = [d EXCEPT !.failed = TRUE]
      BY Zenon
    <3>2. connection_fd_handler(c, events, w, r) = e
      <4> HIDE DEF haveSend, haveRecv
      <4> QED BY <1>8, <1>9, <2>3, <3>1 DEF report_error
    <3>3. e \in Con
      BY <1>1, <3>1, Zenon DEF Con
    <3>4. SameLife(d, e) /\ e.send = d.send /\ e.recv = d.recv /\ e.sif = d.sif /\ e.rif = d.rif
          /\ e.jobs = d.jobs /\ e.failed
      BY <1>1, <3>1, Zenon DEF Con, SameLife
    <3>5. Frame(e)
      BY <1>1, <1>2, <1>3, <3>3, <3>4, FrameKept DEF Linked, Frame
    <3>6. SendInv(e) /\ RecvInv(e) /\ SendServed(e) /\ RecvServed(e)
      BY <1>3, <3>4 DEF SendInv, RecvInv, SendServed, RecvServed, Linked
    <3> QED BY <3>2, <3>5, <3>6 DEF ConInv
  <2> QED BY <2>2, <2>3
<1> QED BY <1>5, <1>6, <1>7, <1>8

\* The connection when the handler of the connector is called.
Opened(c) ==
  /\ c.cfd /\ ~c.live /\ c.opens = 1 /\ c.closes = 0 /\ c.wait = {} /\ ~c.hupd
  /\ c.send = "off" /\ c.recv = "off" /\ c.sif = "none" /\ c.rif = "none" /\ c.ev = {}

\* That handler: whoever holds the descriptor after it, it is only one.
LEMMA ConnectorKeeps ==
  ASSUME NEW c \in Con, Opened(c), IsInjective(c.jobs), Linked(c) = {},
         NEW ok \in BOOLEAN, NEW added \in BOOLEAN
  PROVE  ConInv(connector_handler(c, ok, added))
<1>0. /\ c.cfd /\ ~c.live /\ c.opens = 1 /\ c.closes = 0 /\ c.wait = {} /\ ~c.hupd
      /\ c.send = "off" /\ c.recv = "off" /\ c.sif = "none" /\ c.rif = "none" /\ c.ev = {}
  BY DEF Opened
<1>1. ASSUME NEW e \in Con,
             e.con = "called", e.jobs = c.jobs, e.ev = {}, e.wait = {}, ~e.hupd, e.opens = 1,
             e.sif = "none", e.rif = "none",
             \/ ~e.cfd /\ e.live /\ e.send = "ready" /\ e.recv = "ready" /\ e.closes = 0
             \/ ~e.live /\ e.failed /\ e.send = "off" /\ e.recv = "off"
                /\ e.closes = IF e.cfd THEN 0 ELSE 1
      PROVE  ConInv(e)
  <2>1. Linked(e) = {} /\ IsInjective(e.jobs)
    BY <1>1 DEF Linked
  <2>2. LifeInv(e) /\ EventInv(e)
    BY <1>1, <2>1 DEF LifeInv, EventInv
  <2>3. SendInv(e) /\ RecvInv(e) /\ SendServed(e) /\ RecvServed(e)
    BY <1>1, <2>1 DEF SendInv, RecvInv, SendServed, RecvServed
  <2> QED BY <2>1, <2>2, <2>3 DEF ConInv, Frame
<1>2. CASE ok /\ added
  <2>1. PICK e : e = [c EXCEPT !.con = "called", !.cfd = FALSE, !.live = TRUE, !.send = "ready", !.recv = "ready"]
    OBVIOUS
  <2>2. e \in Con
    BY <2>1, ZenonT(40) DEF Con
  <2>3. connector_handler(c, ok, added) = e
    BY <1>2, <2>1 DEF connector_handler, BConnection_Init, Con
  <2>4. /\ e.con = "called" /\ e.jobs = c.jobs /\ e.ev = {} /\ e.wait = {} /\ ~e.hupd /\ e.opens = 1
        /\ e.sif = "none" /\ e.rif = "none"
        /\ ~e.cfd /\ e.live /\ e.send = "ready" /\ e.recv = "ready" /\ e.closes = 0
    BY <1>0, <2>1 DEF Con
  <2> QED BY <1>1, <2>2, <2>3, <2>4
<1>3. CASE ok /\ ~added
  <2>0. c.closes + 1 = 1
    BY <1>0
  <2>1. PICK e : e = [c EXCEPT !.con = "called", !.cfd = FALSE, !.closes = 1, !.failed = TRUE]
    OBVIOUS
  <2>2. e \in Con
    BY <2>1, ZenonT(40) DEF Con
  <2>3. connector_handler(c, ok, added) = e
    <3>1. PICK d : d = [c EXCEPT !.con = "called", !.cfd = FALSE]
      OBVIOUS
    <3>2. connector_handler(c, ok, added) = [[d EXCEPT !.closes = @ + 1] EXCEPT !.failed = TRUE]
      BY <1>3, <3>1 DEF connector_handler, BConnection_Init, report_error, Con
    <3> QED BY <2>0, <2>1, <3>1, <3>2, Zenon DEF Con
  <2>4. /\ e.con = "called" /\ e.jobs = c.jobs /\ e.ev = {} /\ e.wait = {} /\ ~e.hupd /\ e.opens = 1
        /\ e.sif = "none" /\ e.rif = "none"
        /\ ~e.live /\ e.failed /\ e.send = "off" /\ e.recv = "off" /\ ~e.cfd /\ e.closes = 1
    BY <1>0, <2>1 DEF Con
  <2> QED BY <1>1, <2>2, <2>3, <2>4
<1>4. CASE ~ok
  <2>1. PICK e : e = [c EXCEPT !.con = "called", !.failed = TRUE]
    OBVIOUS
  <2>2. e \in Con
    BY <2>1, ZenonT(40) DEF Con
  <2>3. connector_handler(c, ok, added) = e
    BY <1>4, <2>1 DEF connector_handler, report_error, Con
  <2>4. /\ e.con = "called" /\ e.jobs = c.jobs /\ e.ev = {} /\ e.wait = {} /\ ~e.hupd /\ e.opens = 1
        /\ e.sif = "none" /\ e.rif = "none"
        /\ ~e.live /\ e.failed /\ e.send = "off" /\ e.recv = "off" /\ e.cfd /\ e.closes = 0
    BY <1>0, <2>1 DEF Con
  <2> QED BY <1>1, <2>2, <2>3, <2>4
<1> QED BY <1>2, <1>3, <1>4

\* BPendingGroup_ExecuteJob takes the first job out of the list.
LEMMA TakenKeeps ==
  ASSUME ConInv(o), NEW j, Job(j)
  PROVE  /\ Taken \in Con /\ IsInjective(Taken.jobs) /\ j \in Linked(o)
         /\ Linked(Taken) = Linked(o) \ {j} /\ SameLife(o, Taken) /\ ~Taken.failed
         /\ Taken.send = o.send /\ Taken.recv = o.recv /\ Taken.sif = o.sif /\ Taken.rif = o.rif
         /\ Taken.wait = o.wait /\ Taken.slim = o.slim /\ Taken.rlim = o.rlim
<1>0. o \in Con /\ o.jobs \in Seq(JobNames) /\ IsInjective(o.jobs) /\ o.jobs # <<>> /\ Head(o.jobs) = j
      /\ ~o.failed
  BY DEF ConInv, Frame, Con, Job
<1>1. PICK s : s = Tail(o.jobs)
  BY Zenon
<1>2. /\ j \in Range(o.jobs) /\ s \in Seq(JobNames) /\ IsInjective(s)
      /\ Range(s) = Range(o.jobs) \ {j}
  BY <1>0, <1>1, TakeFirst
<1>3. Taken = [o EXCEPT !.jobs = s]
  BY <1>1 DEF Taken
<1>4. Taken \in Con /\ Taken.jobs = s
  BY <1>0, <1>2, <1>3 DEF Con
<1>5. /\ SameLife(o, Taken) /\ ~Taken.failed
      /\ Taken.send = o.send /\ Taken.recv = o.recv /\ Taken.sif = o.sif /\ Taken.rif = o.rif
      /\ Taken.wait = o.wait /\ Taken.slim = o.slim /\ Taken.rlim = o.rlim
  BY <1>0, <1>3 DEF Con, SameLife
<1> QED BY <1>2, <1>4, <1>5 DEF Linked

\* The jobs.
LEMMA JobsKeep ==
  ASSUME ConInv(o), ConJobs
  PROVE  ConInv(o')
<1>0. /\ Frame(o) /\ LifeInv(o) /\ EventInv(o) /\ SendInv(o) /\ RecvInv(o)
      /\ SendServed(o) /\ RecvServed(o)
  BY DEF ConInv, Frame
<1>1. CASE connector_job_handler
  <2>1. PICK added \in BOOLEAN : o' = connector_handler(Taken, TRUE, added)
    BY <1>1, Zenon DEF connector_job_handler
  <2>2. Job("con_job")
    BY <1>1 DEF connector_job_handler
  <2>3. /\ Taken \in Con /\ IsInjective(Taken.jobs) /\ "con_job" \in Linked(o)
        /\ Linked(Taken) = Linked(o) \ {"con_job"} /\ SameLife(o, Taken) /\ ~Taken.failed
        /\ Taken.send = o.send /\ Taken.recv = o.recv /\ Taken.sif = o.sif /\ Taken.rif = o.rif
        /\ Taken.wait = o.wait
    BY <2>2, TakenKeeps
  <2>4. o.con = "job" /\ Linked(Taken) = {}
    BY <1>0, <2>3 DEF LifeInv
  <2>5. Opened(Taken)
    BY <1>0, <2>3, <2>4 DEF LifeInv, EventInv, Registered, Opened, SameLife
  <2> QED BY <2>1, <2>3, <2>4, <2>5, ConnectorKeeps, Zenon
<1>2. CASE connection_recv_job_handler
  <2>1. Job("recv_job") /\ \E r \in ReadResults(o) : o' = connection_recv(Taken, r)
    BY <1>2 DEF connection_recv_job_handler
  <2>2. /\ Taken \in Con /\ IsInjective(Taken.jobs) /\ "recv_job" \in Linked(o)
        /\ Linked(Taken) = Linked(o) \ {"recv_job"} /\ SameLife(o, Taken) /\ ~Taken.failed
        /\ Taken.send = o.send /\ Taken.recv = o.recv /\ Taken.sif = o.sif /\ Taken.rif = o.rif
        /\ Taken.wait = o.wait
    BY <2>1, TakenKeeps
  <2>3. o.live /\ o.con = "called" /\ "con_job" \notin Linked(o)
    BY <1>0, <2>2 DEF LifeInv
  <2>4. Frame(Taken)
    BY <1>0, <2>2, <2>3, FrameKept
  <2>5. SendInv(Taken) /\ RecvInv(Taken) /\ SendServed(Taken)
    <3>1. SendInv(Taken) /\ RecvInv(Taken)
      BY <1>0, <2>2 DEF SendInv, RecvInv
    <3>2. SendServed(Taken)
      BY <1>0, <2>1, <2>2 DEF SendServed, SameLife, Job
    <3> QED BY <3>1, <3>2
  <2>6. Taken.recv = "busy" /\ (~Taken.hupd /\ "in" \in Taken.wait => Taken.err) /\ Taken.live
    BY <1>0, <2>1, <2>2, <2>3 DEF RecvServed, SameLife, Job
  <2>7. ReadResults(Taken) = ReadResults(o)
    BY <2>2 DEF ReadResults, WriteResults, SameLife
  <2>8. "recv_job" \notin Linked(Taken)
    BY <2>2
  <2> QED BY <2>1, <2>2, <2>4, <2>5, <2>6, <2>7, <2>8, RecvKeeps
<1>3. CASE connection_send_if_handler_send
  <2>0. PICK c : c = [Taken EXCEPT !.sif = "busy", !.send = "busy"]
    OBVIOUS
  <2>1. Job("send_op") /\ \E w \in WriteResults(o) : o' = connection_send(c, w)
    BY <1>3, <2>0 DEF connection_send_if_handler_send
  <2>2. /\ Taken \in Con /\ IsInjective(Taken.jobs) /\ "send_op" \in Linked(o)
        /\ Linked(Taken) = Linked(o) \ {"send_op"} /\ SameLife(o, Taken) /\ ~Taken.failed
        /\ Taken.recv = o.recv /\ Taken.rif = o.rif /\ Taken.wait = o.wait
    BY <2>1, TakenKeeps
  <2>3. /\ c \in Con /\ c.jobs = Taken.jobs /\ SameLife(Taken, c) /\ ~c.failed
        /\ c.send = "busy" /\ c.sif = "busy" /\ c.recv = o.recv /\ c.rif = o.rif /\ c.wait = o.wait
    <3>1. c \in Con
      BY <2>0, <2>2, ZenonT(40) DEF Con
    <3> QED BY <2>0, <2>2, <3>1 DEF Con, SameLife
  <2>4. /\ o.live /\ "con_job" \notin Linked(o) /\ o.sif = "op" /\ o.send # "busy" /\ ~o.failed
        /\ "send_done" \notin Linked(o)
    BY <1>0, <2>1, <2>2 DEF LifeInv, SendInv, Job
  <2>5. Linked(c) = Linked(o) \ {"send_op"} /\ SameLife(o, c)
    BY <2>2, <2>3 DEF Linked, SameLife
  <2>6. Frame(c)
    BY <1>0, <2>2, <2>3, <2>4, <2>5, FrameKept
  <2>7. SendInv(c) /\ RecvInv(c) /\ RecvServed(c)
    BY <1>0, <2>3, <2>4, <2>5, SMTT(40) DEF SendInv, RecvInv, RecvServed, SameLife
  <2>8. (~c.hupd /\ "out" \in c.wait => c.err) /\ c.live
    BY <1>0, <2>3, <2>4, <2>5 DEF SendServed, SameLife
  <2>9. WriteResults(c) = WriteResults(o)
    BY <2>5 DEF WriteResults, SameLife
  <2> QED BY <2>1, <2>3, <2>6, <2>7, <2>8, <2>9, SendKeeps, SMTT(40)
<1>4. CASE connection_recv_if_handler_recv
  <2>0. PICK c : c = [Taken EXCEPT !.rif = "busy", !.recv = "busy"]
    OBVIOUS
  <2>1. Job("recv_op") /\ \E r \in ReadResults(o) : o' = connection_recv(c, r)
    BY <1>4, <2>0 DEF connection_recv_if_handler_recv
  <2>2. /\ Taken \in Con /\ IsInjective(Taken.jobs) /\ "recv_op" \in Linked(o)
        /\ Linked(Taken) = Linked(o) \ {"recv_op"} /\ SameLife(o, Taken) /\ ~Taken.failed
        /\ Taken.send = o.send /\ Taken.sif = o.sif /\ Taken.wait = o.wait
    BY <2>1, TakenKeeps
  <2>3. /\ c \in Con /\ c.jobs = Taken.jobs /\ SameLife(Taken, c) /\ ~c.failed
        /\ c.recv = "busy" /\ c.rif = "busy" /\ c.send = o.send /\ c.sif = o.sif /\ c.wait = o.wait
    <3>1. c \in Con
      BY <2>0, <2>2, ZenonT(40) DEF Con
    <3> QED BY <2>0, <2>2, <3>1 DEF Con, SameLife
  <2>4. /\ o.live /\ "con_job" \notin Linked(o) /\ o.rif = "op" /\ o.recv # "busy" /\ ~o.failed
        /\ "recv_done" \notin Linked(o)
    BY <1>0, <2>1, <2>2 DEF LifeInv, RecvInv, Job
  <2>5. Linked(c) = Linked(o) \ {"recv_op"} /\ SameLife(o, c)
    BY <2>2, <2>3 DEF Linked, SameLife
  <2>6. Frame(c)
    BY <1>0, <2>2, <2>3, <2>4, <2>5, FrameKept
  <2>7. SendInv(c) /\ RecvInv(c) /\ SendServed(c)
    BY <1>0, <2>3, <2>4, <2>5, SMTT(40) DEF SendInv, RecvInv, SendServed, SameLife
  <2>8. (~c.hupd /\ "in" \in c.wait => c.err) /\ c.live /\ "recv_job" \notin Linked(c)
    BY <1>0, <2>3, <2>4, <2>5, SMTT(40) DEF RecvServed, SameLife
  <2>9. ReadResults(c) = ReadResults(o)
    BY <2>5 DEF ReadResults, WriteResults, SameLife
  <2> QED BY <2>1, <2>3, <2>6, <2>7, <2>8, <2>9, RecvKeeps
<1>5. CASE job_done
  <2>1. ASSUME Job("send_done"), o' = [Taken EXCEPT !.sif = "none"]
        PROVE  ConInv(o')
    <3>1. /\ Taken \in Con /\ IsInjective(Taken.jobs) /\ "send_done" \in Linked(o)
          /\ Linked(Taken) = Linked(o) \ {"send_done"} /\ SameLife(o, Taken) /\ ~Taken.failed
          /\ Taken.send = o.send /\ Taken.recv = o.recv /\ Taken.rif = o.rif /\ Taken.wait = o.wait
      BY <2>1, TakenKeeps
    <3>2. PICK e : e = o'
      OBVIOUS
    <3>3. e \in Con
      BY <2>1, <3>1, <3>2, Zenon DEF Con
    <3>4. /\ e.jobs = Taken.jobs /\ SameLife(Taken, e) /\ ~e.failed /\ e.sif = "none"
          /\ e.send = o.send /\ e.recv = o.recv /\ e.rif = o.rif /\ e.wait = o.wait
      BY <2>1, <3>1, <3>2 DEF Con, SameLife
    <3>5. Linked(e) = Linked(o) \ {"send_done"} /\ SameLife(o, e)
      BY <3>1, <3>4 DEF Linked, SameLife
    <3>6. o.live /\ "con_job" \notin Linked(o) /\ o.sif = "done" /\ ~o.failed /\ "send_op" \notin Linked(o)
      BY <1>0, <2>1, <3>1 DEF LifeInv, SendInv, Job
    <3>7. Frame(e)
      BY <1>0, <3>1, <3>3, <3>4, <3>5, <3>6, FrameKept
    <3>8. SendInv(e) /\ RecvInv(e)
      BY <1>0, <3>4, <3>5, <3>6, SMTT(40) DEF SendInv, RecvInv
    <3>9. SendServed(e) /\ RecvServed(e)
      BY <1>0, <3>4, <3>5, <3>6 DEF SendServed, RecvServed, SameLife
    <3> QED BY <3>2, <3>7, <3>8, <3>9 DEF ConInv
  <2>2. ASSUME Job("recv_done"), o' = [Taken EXCEPT !.rif = "none"]
        PROVE  ConInv(o')
    <3>1. /\ Taken \in Con /\ IsInjective(Taken.jobs) /\ "recv_done" \in Linked(o)
          /\ Linked(Taken) = Linked(o) \ {"recv_done"} /\ SameLife(o, Taken) /\ ~Taken.failed
          /\ Taken.send = o.send /\ Taken.recv = o.recv /\ Taken.sif = o.sif /\ Taken.wait = o.wait
      BY <2>2, TakenKeeps
    <3>2. PICK e : e = o'
      OBVIOUS
    <3>3. e \in Con
      BY <2>2, <3>1, <3>2 DEF Con
    <3>4. /\ e.jobs = Taken.jobs /\ SameLife(Taken, e) /\ ~e.failed /\ e.rif = "none"
          /\ e.send = o.send /\ e.recv = o.recv /\ e.sif = o.sif /\ e.wait = o.wait
      BY <2>2, <3>1, <3>2 DEF Con, SameLife
    <3>5. Linked(e) = Linked(o) \ {"recv_done"} /\ SameLife(o, e)
      BY <3>1, <3>4 DEF Linked, SameLife
    <3>6. o.live /\ "con_job" \notin Linked(o) /\ o.rif = "done" /\ ~o.failed /\ "recv_op" \notin Linked(o)
      BY <1>0, <2>2, <3>1 DEF LifeInv, RecvInv, Job
    <3>7. Frame(e)
      BY <1>0, <3>1, <3>3, <3>4, <3>5, <3>6, FrameKept, SMTT(40)
    <3>8. SendInv(e) /\ RecvInv(e)
      BY <1>0, <3>4, <3>5, <3>6, SMTT(40) DEF SendInv, RecvInv
    <3>9. SendServed(e) /\ RecvServed(e)
      BY <1>0, <3>4, <3>5, <3>6, SMTT(40) DEF SendServed, RecvServed, SameLife
    <3> QED BY <3>2, <3>7, <3>8, <3>9 DEF ConInv
  <2> QED BY <1>5, <2>1, <2>2 DEF job_done
<1> QED BY <1>1, <1>2, <1>3, <1>4, <1>5 DEF ConJobs

\* BConnection_SendAsync_Free and BConnection_RecvAsync_Free leave no job.
LEMMA FreeIoKeeps ==
  ASSUME NEW c \in Con, IsInjective(c.jobs)
  PROVE  /\ FreeIo(c) \in Con /\ SameLife(c, FreeIo(c)) /\ FreeIo(c).failed = c.failed
         /\ FreeIo(c).send = "off" /\ FreeIo(c).recv = "off"
         /\ FreeIo(c).sif = "none" /\ FreeIo(c).rif = "none"
         /\ (c.hupd \/ FreeIo(c).wait = {})
         /\ IsInjective(FreeIo(c).jobs)
         /\ "con_job" \notin Linked(c) => Linked(FreeIo(c)) = {}
<1>0. c.jobs \in Seq(JobNames) /\ Range(c.jobs) \subseteq JobNames
  BY DEF Con, Range
<1>1. PICK s1, s2, s3, s4, s5 :
        /\ s1 = Unset(c.jobs, "send_done") /\ s2 = Unset(s1, "send_op") /\ s3 = Unset(s2, "recv_job")
        /\ s4 = Unset(s3, "recv_done") /\ s5 = Unset(s4, "recv_op")
  OBVIOUS
<1>2. s1 \in Seq(JobNames) /\ IsInjective(s1) /\ Range(s1) = Range(c.jobs) \ {"send_done"}
  BY <1>0, <1>1, UnsetLinks, SMTT(40)
<1>3. s2 \in Seq(JobNames) /\ IsInjective(s2) /\ Range(s2) = Range(s1) \ {"send_op"}
  BY <1>1, <1>2, UnsetLinks
<1>4. s3 \in Seq(JobNames) /\ IsInjective(s3) /\ Range(s3) = Range(s2) \ {"recv_job"}
  BY <1>1, <1>3, UnsetLinks
<1>5. s4 \in Seq(JobNames) /\ IsInjective(s4) /\ Range(s4) = Range(s3) \ {"recv_done"}
  BY <1>1, <1>4, UnsetLinks
<1>6. s5 \in Seq(JobNames) /\ IsInjective(s5) /\ Range(s5) = Range(s4) \ {"recv_op"}
  BY <1>1, <1>5, UnsetLinks
<1>7. "con_job" \notin Linked(c) => Range(s5) = {}
  BY <1>0, <1>2, <1>3, <1>4, <1>5, <1>6 DEF JobNames, Linked
<1>8. PICK w : w = IF c.hupd THEN c.wait ELSE {}
  BY Zenon
<1>9. FreeIo(c) = [c EXCEPT !.send = "off", !.recv = "off", !.sif = "none", !.rif = "none",
                            !.wait = w, !.jobs = s5]
  BY <1>1, <1>8 DEF FreeIo, Con
<1>10. w \in SUBSET {"in", "out"} /\ (c.hupd \/ w = {})
  BY <1>8 DEF Con
<1>11. PICK e : e = FreeIo(c)
  OBVIOUS
<1>12. e \in Con
  <2>1. PICK d : d = [c EXCEPT !.send = "off", !.recv = "off", !.sif = "none", !.rif = "none"]
    OBVIOUS
  <2>2. d \in Con
    BY <2>1, ZenonT(40) DEF Con
  <2>3. e = [d EXCEPT !.wait = w, !.jobs = s5]
    BY <1>9, <1>11, <2>1 DEF Con
  <2> QED BY <1>6, <1>10, <2>2, <2>3, Zenon DEF Con
<1>13. /\ SameLife(c, e) /\ e.failed = c.failed /\ e.send = "off" /\ e.recv = "off"
       /\ e.sif = "none" /\ e.rif = "none" /\ e.wait = w /\ e.jobs = s5
  BY <1>9, <1>11 DEF Con, SameLife
<1> QED BY <1>6, <1>7, <1>10, <1>11, <1>12, <1>13, SMTT(40) DEF Linked

\* What the user calls.
LEMMA UserKeeps ==
  ASSUME ConInv(o), User
  PROVE  ConInv(o')
<1>0. /\ o \in Con /\ o.jobs \in Seq(JobNames) /\ IsInjective(o.jobs)
      /\ Frame(o) /\ LifeInv(o) /\ EventInv(o) /\ SendInv(o) /\ RecvInv(o)
      /\ SendServed(o) /\ RecvServed(o)
  BY DEF ConInv, Frame, Con
<1>1. CASE BConnector_InitFrom
  <2>0. /\ o.con = "none" /\ o.opens = 0 /\ o.closes = 0 /\ ~o.live /\ ~o.cfd /\ o.wait = {} /\ ~o.hupd
        /\ o.send = "off" /\ o.recv = "off" /\ o.sif = "none" /\ o.rif = "none" /\ o.ev = {}
        /\ Linked(o) = {}
    BY <1>0, <1>1 DEF BConnector_InitFrom, LifeInv, EventInv, Registered
  <2>1. ASSUME NEW e \in Con, e.live = o.live, e.wait = o.wait, e.hupd = o.hupd, e.send = o.send,
               e.recv = o.recv, e.sif = o.sif, e.rif = o.rif, e.ev = o.ev, IsInjective(e.jobs),
               \/ e.con = "freed" /\ ~e.cfd /\ e.opens = e.closes /\ Linked(e) = {}
               \/ e.con = "wait" /\ e.cfd /\ e.opens = 1 /\ e.closes = 0 /\ Linked(e) = {}
               \/ e.con = "job" /\ e.cfd /\ e.opens = 1 /\ e.closes = 0 /\ Linked(e) = {"con_job"}
        PROVE  ConInv(e)
    <3>1. LifeInv(e) /\ EventInv(e)
      BY <2>0, <2>1 DEF LifeInv, EventInv
    <3>2. SendInv(e) /\ RecvInv(e) /\ SendServed(e) /\ RecvServed(e)
      BY <2>0, <2>1 DEF SendInv, RecvInv, SendServed, RecvServed
    <3> QED BY <2>1, <3>1, <3>2, SMTT(40) DEF ConInv, Frame
  <2>2. PICK e : e = o'
    OBVIOUS
  <2>3. CASE e = [o EXCEPT !.con = "freed"]
    <3>1. e \in Con
      BY <1>0, <2>3 DEF Con
    <3>2. /\ e.live = o.live /\ e.wait = o.wait /\ e.hupd = o.hupd /\ e.send = o.send
          /\ e.recv = o.recv /\ e.sif = o.sif /\ e.rif = o.rif /\ e.ev = o.ev /\ e.jobs = o.jobs
          /\ e.con = "freed" /\ e.cfd = o.cfd /\ e.opens = o.opens /\ e.closes = o.closes
      BY <1>0, <2>3 DEF Con
    <3> QED BY <1>0, <2>0, <2>1, <2>2, <3>1, <3>2 DEF Linked
  <2>4. CASE e = [o EXCEPT !.con = "freed", !.opens = 1, !.closes = @ + 1]
    <3>0. o.closes + 1 = 1
      BY <2>0
    <3>1. e \in Con
      <4>1. PICK n : n = o.closes + 1
        OBVIOUS
      <4>2. n \in Nat /\ e = [o EXCEPT !.con = "freed", !.opens = 1, !.closes = n]
        BY <2>4, <3>0, <4>1
      <4>3. 1 \in Nat
        OBVIOUS
      <4> QED BY <1>0, <4>2, <4>3, Zenon DEF Con
    <3>2. /\ e.live = o.live /\ e.wait = o.wait /\ e.hupd = o.hupd /\ e.send = o.send
          /\ e.recv = o.recv /\ e.sif = o.sif /\ e.rif = o.rif /\ e.ev = o.ev /\ e.jobs = o.jobs
          /\ e.con = "freed" /\ e.cfd = o.cfd /\ e.opens = 1 /\ e.closes = 1
      BY <1>0, <2>4, <3>0, SMTT(40) DEF Con
    <3> QED BY <1>0, <2>0, <2>1, <2>2, <3>1, <3>2, SMTT(40) DEF Linked
  <2>5. CASE e = [o EXCEPT !.con = "wait", !.cfd = TRUE, !.opens = 1]
    <3>1. e \in Con
      BY <1>0, <2>5, ZenonT(40) DEF Con
    <3>2. /\ e.live = o.live /\ e.wait = o.wait /\ e.hupd = o.hupd /\ e.send = o.send
          /\ e.recv = o.recv /\ e.sif = o.sif /\ e.rif = o.rif /\ e.ev = o.ev /\ e.jobs = o.jobs
          /\ e.con = "wait" /\ e.cfd /\ e.opens = 1 /\ e.closes = o.closes
      BY <1>0, <2>5 DEF Con
    <3> QED BY <1>0, <2>0, <2>1, <2>2, <3>1, <3>2 DEF Linked
  <2>6. CASE e = [o EXCEPT !.con = "job", !.cfd = TRUE, !.opens = 1, !.jobs = Set(@, "con_job")]
    <3>0. PICK s : s = Set(o.jobs, "con_job")
      OBVIOUS
    <3>1. s \in Seq(JobNames) /\ IsInjective(s) /\ Range(s) = Linked(o) \cup {"con_job"}
      BY <1>0, <3>0, SetLinks DEF JobNames, Linked
    <3>2. e = [o EXCEPT !.con = "job", !.cfd = TRUE, !.opens = 1, !.jobs = s]
      BY <2>6, <3>0
    <3>3. e \in Con
      BY <1>0, <3>1, <3>2, ZenonT(40) DEF Con
    <3>4. /\ e.live = o.live /\ e.wait = o.wait /\ e.hupd = o.hupd /\ e.send = o.send
          /\ e.recv = o.recv /\ e.sif = o.sif /\ e.rif = o.rif /\ e.ev = o.ev /\ e.jobs = s
          /\ e.con = "job" /\ e.cfd /\ e.opens = 1 /\ e.closes = o.closes
      BY <1>0, <3>2 DEF Con
    <3>5. Linked(e) = {"con_job"}
      BY <2>0, <3>1, <3>4 DEF Linked
    <3> QED BY <2>0, <2>1, <2>2, <3>1, <3>3, <3>4, <3>5
  <2> QED BY <1>1, <2>2, <2>3, <2>4, <2>5, <2>6 DEF BConnector_InitFrom
<1>2. CASE SwitchIo
  <2>1. o.live /\ ~o.failed /\ o' = [FreeIo(o) EXCEPT !.send = "ready", !.recv = "ready"]
    BY <1>2 DEF SwitchIo
  <2>2. "con_job" \notin Linked(o)
    BY <1>0, <2>1 DEF LifeInv
  <2>3. PICK d, e : d = FreeIo(o) /\ e = o'
    OBVIOUS
  <2>4. /\ d \in Con /\ SameLife(o, d) /\ d.failed = o.failed
        /\ d.sif = "none" /\ d.rif = "none" /\ (o.hupd \/ d.wait = {})
        /\ IsInjective(d.jobs) /\ Linked(d) = {}
    BY <1>0, <2>2, <2>3, FreeIoKeeps
  <2>5. e \in Con
    BY <2>1, <2>3, <2>4, ZenonT(40) DEF Con
  <2>6. /\ SameLife(d, e) /\ e.failed = d.failed /\ e.send = "ready" /\ e.recv = "ready"
        /\ e.sif = "none" /\ e.rif = "none" /\ e.wait = d.wait /\ e.jobs = d.jobs
    BY <2>1, <2>3, <2>4, ZenonT(40) DEF Con, SameLife
  <2>7. SameLife(o, e) /\ Linked(e) = {} /\ IsInjective(e.jobs)
    BY <2>4, <2>6 DEF SameLife, Linked
  <2>8. Frame(e)
    BY <1>0, <2>1, <2>5, <2>7, FrameKept
  <2>9. SendInv(e) /\ RecvInv(e)
    BY <2>6, <2>7 DEF SendInv, RecvInv
  <2>10. SendServed(e) /\ RecvServed(e)
    BY <2>4, <2>6, <2>7 DEF SendServed, RecvServed, SameLife
  <2> QED BY <2>3, <2>8, <2>9, <2>10 DEF ConInv
<1>3. CASE ConFree
  <2>0. PICK n : n = o.closes + (IF o.live THEN 1 ELSE 0) + (IF o.cfd THEN 1 ELSE 0)
    OBVIOUS
  <2>1. o.con \in {"wait", "job", "called"} /\ n \in Nat /\ n = o.opens
    <3>1. o.con \in {"wait", "job", "called"}
      BY <1>0, <1>3 DEF ConFree, Con
    <3>2. o.opens = 1 /\ (o.live => ~o.cfd /\ o.con = "called")
      BY <1>0, <3>1 DEF LifeInv
    <3>3. o.closes = IF o.live \/ o.cfd THEN 0 ELSE 1
      BY <1>0, <3>1 DEF LifeInv
    <3>4. o.live \in BOOLEAN /\ o.cfd \in BOOLEAN
      BY <1>0 DEF Con
    <3>5. n = 1
      <4>1. CASE o.live
        BY <2>0, <3>2, <3>3, <4>1
      <4>2. CASE ~o.live
        BY <2>0, <3>3, <3>4, <4>2, SMTT(40)
      <4> QED BY <4>1, <4>2
    <3> QED BY <3>1, <3>2, <3>5
  <2>2. PICK d, f, e :
          /\ d = FreeIo(o) /\ f = [d EXCEPT !.con = "freed", !.live = FALSE, !.cfd = FALSE, !.ev = {}]
          /\ e = o'
    BY Zenon
  <2>3. /\ d \in Con /\ SameLife(o, d)
        /\ d.send = "off" /\ d.recv = "off" /\ d.sif = "none" /\ d.rif = "none"
    BY <1>0, <2>2, FreeIoKeeps
  <2>4. /\ f \in Con /\ f.con = "freed" /\ ~f.live /\ ~f.cfd /\ f.ev = {}
        /\ f.send = "off" /\ f.recv = "off" /\ f.sif = "none" /\ f.rif = "none" /\ f.opens = o.opens
    <3>1. f \in Con
      BY <2>2, <2>3, ZenonT(40) DEF Con
    <3> QED BY <2>2, <2>3, <3>1 DEF Con, SameLife
  <2>5. <<>> \in Seq(JobNames) /\ Range(<<>>) = {} /\ IsInjective(<<>>)
    BY DEF Range, IsInjective
  <2>6. e = [f EXCEPT !.jobs = <<>>, !.slim = 0, !.rlim = 0, !.closes = n]
    <3>1. d.closes = o.closes
      BY <2>3 DEF SameLife
    <3>2. e = [d EXCEPT !.con = "freed", !.live = FALSE, !.cfd = FALSE, !.ev = {},
                 !.jobs = <<>>, !.slim = 0, !.rlim = 0, !.closes = n]
      BY <1>3, <2>0, <2>2, <2>3, <3>1 DEF ConFree, Con
    <3> QED BY <2>2, <2>3, <3>2 DEF Con
  <2>7. /\ e \in Con
        /\ e.send = "off" /\ e.recv = "off" /\ e.sif = "none" /\ e.rif = "none" /\ e.con = "freed"
        /\ ~e.live /\ ~e.cfd /\ e.ev = {} /\ e.jobs = <<>> /\ e.closes = n /\ e.opens = o.opens
    <3>1. 0 \in 0..Limit
      BY LimitAssumption
    <3>2. e \in Con
      BY <2>1, <2>4, <2>5, <2>6, <3>1, Zenon DEF Con
    <3> QED BY <2>4, <2>6, <3>2 DEF Con
  <2>8. Linked(e) = {}
    BY <2>5, <2>7 DEF Linked
  <2>9. LifeInv(e) /\ EventInv(e)
    BY <2>1, <2>7, <2>8 DEF LifeInv, EventInv
  <2>10. SendInv(e) /\ RecvInv(e) /\ SendServed(e) /\ RecvServed(e)
    BY <2>7, <2>8 DEF SendInv, RecvInv, SendServed, RecvServed
  <2> QED BY <2>2, <2>5, <2>7, <2>9, <2>10 DEF ConInv, Frame
<1>4. CASE StreamPassInterface_Sender_Send
  <2>1. /\ o.live /\ ~o.failed /\ o.sif = "none"
        /\ o' = [o EXCEPT !.sif = "op", !.jobs = Set(@, "send_op")]
    BY <1>4 DEF StreamPassInterface_Sender_Send
  <2>2. PICK s, e : s = Set(o.jobs, "send_op") /\ e = o'
    OBVIOUS
  <2>3. s \in Seq(JobNames) /\ IsInjective(s) /\ Range(s) = Linked(o) \cup {"send_op"}
    BY <1>0, <2>2, SetLinks DEF JobNames, Linked
  <2>4. e = [o EXCEPT !.sif = "op", !.jobs = s]
    BY <2>1, <2>2
  <2>5. e \in Con
    BY <1>0, <2>3, <2>4, ZenonT(40) DEF Con
  <2>6. /\ SameLife(o, e) /\ e.failed = o.failed /\ e.send = o.send /\ e.recv = o.recv
        /\ e.sif = "op" /\ e.rif = o.rif /\ e.wait = o.wait /\ e.jobs = s
    BY <1>0, <2>4 DEF Con, SameLife
  <2>7. Linked(e) = Linked(o) \cup {"send_op"} /\ "con_job" \notin Linked(o)
    BY <1>0, <2>1, <2>3, <2>6 DEF Linked, LifeInv
  <2>8. Frame(e)
    BY <1>0, <2>1, <2>3, <2>5, <2>6, <2>7, FrameKept, SMTT(40)
  <2>9. SendInv(e) /\ RecvInv(e)
    BY <1>0, <2>1, <2>6, <2>7, SMTT(40) DEF SendInv, RecvInv
  <2>10. SendServed(e) /\ RecvServed(e)
    BY <1>0, <2>6, <2>7 DEF SendServed, RecvServed, SameLife
  <2> QED BY <2>2, <2>8, <2>9, <2>10 DEF ConInv
<1>5. CASE StreamRecvInterface_Receiver_Recv
  <2>1. /\ o.live /\ ~o.failed /\ o.rif = "none"
        /\ o' = [o EXCEPT !.rif = "op", !.jobs = Set(@, "recv_op")]
    BY <1>5 DEF StreamRecvInterface_Receiver_Recv
  <2>2. PICK s, e : s = Set(o.jobs, "recv_op") /\ e = o'
    OBVIOUS
  <2>3. s \in Seq(JobNames) /\ IsInjective(s) /\ Range(s) = Linked(o) \cup {"recv_op"}
    BY <1>0, <2>2, SetLinks DEF JobNames, Linked
  <2>4. e = [o EXCEPT !.rif = "op", !.jobs = s]
    BY <2>1, <2>2
  <2>5. e \in Con
    BY <1>0, <2>3, <2>4, ZenonT(40) DEF Con
  <2>6. /\ SameLife(o, e) /\ e.failed = o.failed /\ e.send = o.send /\ e.recv = o.recv
        /\ e.rif = "op" /\ e.sif = o.sif /\ e.wait = o.wait /\ e.jobs = s
    BY <1>0, <2>4 DEF Con, SameLife
  <2>7. Linked(e) = Linked(o) \cup {"recv_op"} /\ "con_job" \notin Linked(o)
    BY <1>0, <2>1, <2>3, <2>6 DEF Linked, LifeInv
  <2>8. Frame(e)
    BY <1>0, <2>1, <2>3, <2>5, <2>6, <2>7, FrameKept
  <2>9. SendInv(e) /\ RecvInv(e)
    BY <1>0, <2>1, <2>6, <2>7, SMTT(40) DEF SendInv, RecvInv
  <2>10. SendServed(e) /\ RecvServed(e)
    BY <1>0, <2>6, <2>7 DEF SendServed, RecvServed, SameLife
  <2> QED BY <2>2, <2>8, <2>9, <2>10, SMTT(40) DEF ConInv
<1> QED BY <1>1, <1>2, <1>3, <1>4, <1>5 DEF User

\* Before the connector is opened.
LEMMA ConInitOk == ConInit => ConInv(o)
<1> SUFFICES ASSUME ConInit PROVE ConInv(o)
  OBVIOUS
<1>1. o \in Con
  BY LimitAssumption DEF ConInit, Con
<1>2. IsInjective(o.jobs) /\ Linked(o) = {}
  BY DEF ConInit, IsInjective, Linked, Range
<1>3. LifeInv(o) /\ EventInv(o)
  BY <1>2 DEF ConInit, LifeInv, EventInv
<1>4. SendInv(o) /\ RecvInv(o) /\ SendServed(o) /\ RecvServed(o)
  BY <1>2 DEF ConInit, SendInv, RecvInv, SendServed, RecvServed
<1> QED BY <1>1, <1>2, <1>3, <1>4 DEF ConInv, Frame

\* A connection that differs in what the loop holds for it and in the limits.
LEMMA HeldKept ==
  ASSUME ConInv(o), NEW c \in Con, EventInv(c),
         c.con = o.con, c.cfd = o.cfd, c.live = o.live, c.send = o.send, c.recv = o.recv,
         c.sif = o.sif, c.rif = o.rif, c.wait = o.wait, c.hupd = o.hupd, c.jobs = o.jobs,
         o.err => c.err, c.failed = o.failed, c.opens = o.opens, c.closes = o.closes
  PROVE  ConInv(c)
<1>1. LifeInv(c)
  BY DEF ConInv, Frame, LifeInv, Linked
<1>2. SendInv(c) /\ RecvInv(c) /\ SendServed(c) /\ RecvServed(c)
  BY DEF ConInv, SendInv, RecvInv, SendServed, RecvServed, Linked
<1> QED BY <1>1, <1>2 DEF ConInv, Frame

\* epoll_wait returns.
LEMMA ConPolls ==
  ASSUME ConInv(o), Poll
  PROVE  ConInv(o')
<1>0. o \in Con
  BY SMTT(40) DEF ConInv, Frame
<1>1. PICK ev \in SUBSET ((IF o.con = "wait" THEN {"out"} ELSE o.wait) \cup {"err", "hup"}) :
        /\ ev # {} => Registered(o)
        /\ o' = [o EXCEPT !.ev = ev, !.err = @ \/ "err" \in ev, !.slim = 0, !.rlim = 0]
  BY Zenon DEF Poll
<1>2. PICK b, c : b = (o.err \/ "err" \in ev) /\ c = o'
  OBVIOUS
<1>3. b \in BOOLEAN
  BY <1>2
<1>4. ev \in SUBSET {"in", "out", "err", "hup"}
  BY <1>0, <1>1 DEF Con
<1>5. c = [o EXCEPT !.ev = ev, !.err = b, !.slim = 0, !.rlim = 0]
  BY <1>1, <1>2
<1>6. c \in Con
  <2>1. 0 \in 0..Limit
    BY LimitAssumption
  <2> QED BY <1>0, <1>3, <1>4, <1>5, <2>1, Zenon DEF Con
<1>7. /\ c.con = o.con /\ c.cfd = o.cfd /\ c.live = o.live /\ c.send = o.send /\ c.recv = o.recv
      /\ c.sif = o.sif /\ c.rif = o.rif /\ c.wait = o.wait /\ c.hupd = o.hupd /\ c.jobs = o.jobs
      /\ c.err = b /\ c.ev = ev /\ c.failed = o.failed /\ c.opens = o.opens /\ c.closes = o.closes
  BY <1>0, <1>5 DEF Con
<1>8. EventInv(c)
  BY <1>1, <1>2, <1>7, Zenon DEF EventInv, Registered
<1>9. o.err => c.err
  BY <1>2, <1>7, Zenon
<1> QED BY <1>2, <1>6, <1>7, <1>8, <1>9, HeldKept

\* The handlers of the descriptor.
LEMMA ConDispatches ==
  ASSUME ConInv(o), Dispatch
  PROVE  ConInv(o')
<1>0. o \in Con /\ o.jobs = <<>> /\ ~o.failed /\ o.ev # {} /\ Registered(o) /\ LifeInv(o)
      /\ ("err" \in o.ev => o.err)
  BY DEF ConInv, Frame, Dispatch, EventInv
<1>1. PICK c : c = [o EXCEPT !.ev = {}]
  BY ZenonT(40)
<1>2. c \in Con
  BY <1>0, <1>1 DEF Con
<1>3. /\ c.con = o.con /\ c.cfd = o.cfd /\ c.live = o.live /\ c.send = o.send /\ c.recv = o.recv
      /\ c.sif = o.sif /\ c.rif = o.rif /\ c.wait = o.wait /\ c.hupd = o.hupd /\ c.jobs = o.jobs
      /\ c.err = o.err /\ c.ev = {} /\ c.failed = o.failed /\ c.opens = o.opens /\ c.closes = o.closes
  BY <1>0, <1>1 DEF Con
<1>4. ConInv(c)
  <2>1. EventInv(c)
    BY <1>3 DEF EventInv
  <2> QED BY <1>2, <1>3, <2>1, HeldKept
<1>5. PICK events : events = {e \in o.ev : e \in o.wait \cup {"err", "hup"}}
  BY Zenon
<1>6. \/ /\ o.con = "wait"
         /\ \E ok, added \in BOOLEAN : o' = connector_handler(c, ok, added)
      \/ o' = c
      \/ /\ o.con # "wait" /\ events # {}
         /\ \E w \in WriteResults(o), r \in ReadResults(o) :
              o' = connection_fd_handler(c, events, w, r)
  BY <1>1, <1>5, Zenon DEF Dispatch
<1>7. Linked(c) = {}
  BY <1>0, <1>3 DEF Linked, Range
<1>8. CASE o.con = "wait" /\ \E ok, added \in BOOLEAN : o' = connector_handler(c, ok, added)
  <2>1. Opened(c)
    BY <1>0, <1>3, <1>8 DEF LifeInv, Opened
  <2>2. IsInjective(c.jobs)
    BY <1>4 DEF ConInv, Frame
  <2> QED BY <1>2, <1>7, <1>8, <2>1, <2>2, ConnectorKeeps
<1>9. CASE o.con # "wait" /\ events # {}
           /\ \E w \in WriteResults(o), r \in ReadResults(o) :
                o' = connection_fd_handler(c, events, w, r)
  <2>1. PICK w \in WriteResults(o), r \in ReadResults(o) :
          o' = connection_fd_handler(c, events, w, r)
    BY <1>9
  <2>2. w \in WriteResults(c) /\ r \in ReadResults(c)
    BY <1>3, <2>1 DEF WriteResults, ReadResults
  <2>3. c.live /\ ~c.failed /\ ~c.hupd /\ c.jobs = <<>> /\ c.ev = {}
    BY <1>0, <1>3, <1>9 DEF Registered
  <2>4. events # {} /\ events \subseteq c.wait \cup {"err", "hup"} /\ ("err" \in events => c.err)
    BY <1>0, <1>3, <1>5, <1>9
  <2> QED BY <1>4, <2>1, <2>2, <2>3, <2>4, FdHandlerKeeps
<1> QED BY <1>4, <1>6, <1>8, <1>9

\* The inductive invariant.
ConOk == ConInv(o)

LEMMA ConStep == ConOk /\ [ConNext]_o => ConOk'
<1> SUFFICES ASSUME ConInv(o), [ConNext]_o PROVE ConInv(o')
  BY DEF ConOk
<1>1. CASE UNCHANGED o
  <2>1. o' = o
    BY <1>1
  <2> QED BY <2>1
<1> QED BY <1>1, UserKeeps, JobsKeep, ConPolls, ConDispatches DEF ConNext

\* What the invariant is for.
LEMMA ConInvMeans == ConOk => BusyIsServed /\ ClosedOnce
<1> SUFFICES ASSUME ConInv(o) PROVE BusyIsServed /\ ClosedOnce
  BY DEF ConOk
<1>0. /\ o \in Con /\ IsInjective(o.jobs) /\ LifeInv(o)
      /\ SendInv(o) /\ RecvInv(o) /\ SendServed(o) /\ RecvServed(o)
  BY DEF ConInv, Frame
<1>1. \A j : ConPending(j) <=> j \in Linked(o)
  BY DEF ConPending, Linked, Range
<1>2. DOMAIN o = {"con", "cfd", "live", "send", "recv", "sif", "rif", "wait", "hupd",
                  "slim", "rlim", "jobs", "ev", "err", "failed", "opens", "closes"}
  BY <1>0 DEF Con
<1>3. /\ o.con \in {"none", "wait", "job", "called", "freed"}
      /\ {o.cfd, o.live, o.hupd, o.err, o.failed} \subseteq BOOLEAN
      /\ o.send \in {"off", "ready", "busy"} /\ o.recv \in {"off", "ready", "busy", "closed"}
      /\ {o.sif, o.rif} \subseteq {"none", "op", "busy", "done"}
      /\ o.wait \subseteq {"in", "out"} /\ o.ev \subseteq {"in", "out", "err", "hup"}
      /\ o.slim \in 0..Limit /\ o.rlim \in 0..Limit /\ o.jobs \in Seq(JobNames)
  BY <1>0 DEF Con
<1>4. \A i, k \in DOMAIN o.jobs : o.jobs[i] = o.jobs[k] => i = k
  BY <1>0 DEF IsInjective
<1>5. ConTypeOK
  BY <1>0, <1>1, <1>2, <1>3, <1>4 DEF ConTypeOK, SendInv, RecvInv
<1>6. BusyIsServed
  BY <1>0, <1>1, <1>5 DEF BusyIsServed, SendInv, RecvInv, SendServed, RecvServed
<1>7. ClosedOnce
  <2>1. o.opens \in Nat /\ o.closes \in Nat /\ o.con \in {"none", "wait", "job", "called", "freed"}
    BY <1>0 DEF Con
  <2>2. o.closes = 0 \/ o.closes = o.opens
    BY <1>0, <2>1 DEF LifeInv
  <2>3. o.closes <= o.opens
    BY <2>1, <2>2
  <2> QED BY <1>0, <2>3 DEF ClosedOnce, LifeInv
<1> QED BY <1>6, <1>7

\* What the ASSERTs of BConnection_unix.c say of the connection, for every
\* order of events, jobs and calls and every limit: a direction is busy exactly
\* while its interface is, and exactly while it will be served again.
THEOREM BusyAlwaysServed == ConSpec => []BusyIsServed
<1>1. ConInit => ConOk
  BY ConInitOk DEF ConOk
<1> QED BY <1>1, ConStep, ConInvMeans, PTL DEF ConSpec

\* BConnector_InitFrom, BConnection_Init, BConnector_Free and BConnection_Free
\* never close the descriptor twice, and between them they close it.
THEOREM DescriptorClosedOnce == ConSpec => []ClosedOnce
<1>1. ConInit => ConOk
  BY ConInitOk DEF ConOk
<1> QED BY <1>1, ConStep, ConInvMeans, PTL DEF ConSpec
=============================================================================
