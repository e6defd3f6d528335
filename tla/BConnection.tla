---------------------------- MODULE BConnection ----------------------------
(***************************************************************************)
(* The TCP connection of tun2socks to the SOCKS server: the BConnector     *)
(* that opens it and the BConnection that sends and receives on it         *)
(* (BConnection_unix.c), with the StreamPassInterface and the              *)
(* StreamRecvInterface through which its user, BSocksClient, hands it one  *)
(* buffer to send and one buffer to fill at a time.                        *)
(*                                                                         *)
(* The whole is one record, o; handlers are functions from records to      *)
(* records, called by the reactor (module BReactor): jobs first, the last  *)
(* one set before the others, then the events of the file descriptor that  *)
(* the last epoll_wait returned.  The build has NDEBUG, so the ASSERTs of  *)
(* the code are not there to stop it; the properties state them.           *)
(***************************************************************************)
EXTENDS Naturals, Sequences, SequencesExt

CONSTANTS Limit   \* BCONNECTION_SEND_LIMIT and BCONNECTION_RECV_LIMIT

ASSUME LimitAssumption == Limit \in Nat \ {0}

VARIABLE o

ConInit ==
  o = [con |-> "none",     \* the connector: none, wait (have_bfd), job, called, freed
       cfd |-> FALSE,      \* connector->fd is not -1
       live |-> FALSE,     \* BConnection_Init has succeeded
       send |-> "off", recv |-> "off",   \* send.state, recv.state
       sif |-> "none", rif |-> "none",   \* the states of the two interfaces
       wait |-> {},        \* wait_events
       hupd |-> FALSE,     \* is_hupd
       slim |-> 0, rlim |-> 0,           \* the counts of the two limits
       jobs |-> <<>>,      \* the pending jobs of the connection, first to run first
       ev |-> {},          \* the events epoll_wait returned and the loop still holds
       err |-> FALSE,      \* kernel: an error is pending on the socket
       failed |-> FALSE,   \* the user has been told of an error and has to free
       opens |-> 0, closes |-> 0]        \* descriptors opened and closed so far

\* BPending_Unset, which BPending_Free calls, and BPending_Set.
Unset(jobs, j) == RemoveFirst(jobs, j)
Set(jobs, j) == Cons(j, Unset(jobs, j))
Registered(c) == c.con = "wait" \/ (c.live /\ ~c.hupd)

\* What write and read may return.  An error pending on the socket, which
\* EPOLLERR tells of, is returned by the next call.
WriteResults(c) == IF c.err THEN {"error"} ELSE {"done", "again", "error"}
ReadResults(c)  == WriteResults(c) \cup IF c.err THEN {} ELSE {"eof"}

report_error(c) == [c EXCEPT !.failed = TRUE]

-----------------------------------------------------------------------------
(* Sending and receiving *)

connection_send(c, res) ==
  IF ~c.hupd /\ c.slim >= Limit THEN [c EXCEPT !.wait = @ \cup {"out"}]
  ELSE LET d == IF c.hupd THEN c ELSE [c EXCEPT !.slim = @ + 1] IN
       IF res = "done"
       THEN [d EXCEPT !.send = "ready", !.sif = "done", !.jobs = Set(@, "send_done")]
       ELSE IF res = "again" /\ ~c.hupd THEN [d EXCEPT !.wait = @ \cup {"out"}]
            ELSE report_error(d)

connection_recv(c, res) ==
  IF ~c.hupd /\ c.rlim >= Limit THEN [c EXCEPT !.wait = @ \cup {"in"}]
  ELSE LET d == IF c.hupd THEN c ELSE [c EXCEPT !.rlim = @ + 1] IN
       IF res = "done"
       THEN [d EXCEPT !.recv = "ready", !.rif = "done", !.jobs = Set(@, "recv_done")]
       ELSE IF res = "eof" THEN [d EXCEPT !.recv = "closed"]
            ELSE IF res = "again" /\ ~c.hupd THEN [d EXCEPT !.wait = @ \cup {"in"}]
                 ELSE report_error(d)

(* Fault: when there is something to send, what is to be received waits. *)
FdHandlerSendsOnly(c, events, w, r) ==
  LET hup == "hup" \in events
      bad == events \cap {"err", "hup"} # {}
      haveSend == "out" \in events \/ (bad /\ c.send = "busy")
      haveRecv == "in" \in events \/ (bad /\ c.recv = "busy")
      d == [c EXCEPT !.wait = @ \ events, !.hupd = hup]
  IN IF haveSend THEN connection_send(d, w)
     ELSE IF haveRecv THEN connection_recv(d, r)
          ELSE IF ~hup THEN report_error(d) ELSE d

\* w and r are what write and read return, if they are called.
connection_fd_handler(c, events, w, r) ==
  LET hup == "hup" \in events
      bad == events \cap {"err", "hup"} # {}
      haveSend == "out" \in events \/ (bad /\ c.send = "busy")
      haveRecv == "in" \in events \/ (bad /\ c.recv = "busy")
      d == [c EXCEPT !.wait = @ \ events, !.hupd = hup]
  IN IF haveSend
     THEN connection_send(IF haveRecv THEN [d EXCEPT !.jobs = Set(@, "recv_job")] ELSE d, w)
     ELSE IF haveRecv THEN connection_recv(d, r)
          ELSE IF ~hup THEN report_error(d) ELSE d

-----------------------------------------------------------------------------
(* The connector and the life of the two objects *)

\* It may fail before there is a descriptor or after (then it closes it);
\* connect may succeed at once or be in progress.
BConnector_InitFrom ==
  /\ o.con = "none"
  /\ \/ o' = [o EXCEPT !.con = "freed"]
     \/ o' = [o EXCEPT !.con = "freed", !.opens = 1, !.closes = @ + 1]
     \/ o' = [o EXCEPT !.con = "wait", !.cfd = TRUE, !.opens = 1]
     \/ o' = [o EXCEPT !.con = "job", !.cfd = TRUE, !.opens = 1, !.jobs = Set(@, "con_job")]

(* Fault: the connector keeps the descriptor it has given away. *)
InitKeepsConnectorFd(c, added) ==
  IF added THEN [c EXCEPT !.live = TRUE, !.send = "ready", !.recv = "ready"]
  ELSE report_error([c EXCEPT !.closes = @ + 1])

\* BConnection_Init takes the connector's descriptor; if the reactor does not
\* take it, it is closed here.  The user then starts both directions.
BConnection_Init(c, added) ==
  LET d == [c EXCEPT !.cfd = FALSE] IN
  IF added THEN [d EXCEPT !.live = TRUE, !.send = "ready", !.recv = "ready"]
  ELSE report_error([d EXCEPT !.closes = @ + 1])

\* The handler of the connector, in BSocksClient, with is_error or not.
connector_handler(c, ok, added) ==
  LET d == [c EXCEPT !.con = "called"] IN
  IF ok THEN BConnection_Init(d, added) ELSE report_error(d)

\* BConnection_SendAsync_Free and RecvAsync_Free, in any state of the two.
FreeIo(c) ==
  [c EXCEPT !.send = "off", !.recv = "off", !.sif = "none", !.rif = "none",
            !.wait = IF c.hupd THEN @ ELSE {},
            !.jobs = Unset(Unset(Unset(Unset(Unset(@, "send_done"), "send_op"),
                                       "recv_job"), "recv_done"), "recv_op")]

\* free_control_io and init_up_io of BSocksClient: the handshake is over.
SwitchIo ==
  /\ o.live /\ ~o.failed /\ o.recv # "closed"
  /\ o' = [FreeIo(o) EXCEPT !.send = "ready", !.recv = "ready"]

\* BConnection_Free, if there is a connection, and BConnector_Free.
ConFree ==
  /\ o.con \notin {"none", "freed"}
  /\ o' = [FreeIo(o) EXCEPT !.con = "freed", !.live = FALSE, !.cfd = FALSE, !.ev = {},
             !.jobs = <<>>, !.slim = 0, !.rlim = 0,
             !.closes = @ + (IF o.live THEN 1 ELSE 0) + (IF o.cfd THEN 1 ELSE 0)]

StreamPassInterface_Sender_Send ==
  /\ o.live /\ ~o.failed /\ o.sif = "none"
  /\ o' = [o EXCEPT !.sif = "op", !.jobs = Set(@, "send_op")]

StreamRecvInterface_Receiver_Recv ==
  /\ o.live /\ ~o.failed /\ o.rif = "none"
  /\ o' = [o EXCEPT !.rif = "op", !.jobs = Set(@, "recv_op")]

User ==
  \/ BConnector_InitFrom \/ SwitchIo \/ ConFree
  \/ StreamPassInterface_Sender_Send \/ StreamRecvInterface_Receiver_Recv

-----------------------------------------------------------------------------
(* What the reactor calls *)

Job(j) == ~o.failed /\ o.jobs # <<>> /\ Head(o.jobs) = j
Taken == [o EXCEPT !.jobs = Tail(@)]

connector_job_handler ==
  /\ Job("con_job")
  /\ \E added \in BOOLEAN : o' = connector_handler(Taken, TRUE, added)

connection_recv_job_handler ==
  /\ Job("recv_job")
  /\ \E r \in ReadResults(o) : o' = connection_recv(Taken, r)

connection_send_if_handler_send ==
  /\ Job("send_op")
  /\ \E w \in WriteResults(o) :
       o' = connection_send([Taken EXCEPT !.sif = "busy", !.send = "busy"], w)

connection_recv_if_handler_recv ==
  /\ Job("recv_op")
  /\ \E r \in ReadResults(o) :
       o' = connection_recv([Taken EXCEPT !.rif = "busy", !.recv = "busy"], r)

job_done ==
  \/ Job("send_done") /\ o' = [Taken EXCEPT !.sif = "none"]
  \/ Job("recv_done") /\ o' = [Taken EXCEPT !.rif = "none"]

(* Fault: the limits are not reset. *)
PollKeepsLimits ==
  /\ ~o.failed /\ o.jobs = <<>> /\ o.ev = {}
  /\ \E ev \in SUBSET ((IF o.con = "wait" THEN {"out"} ELSE o.wait) \cup {"err", "hup"}) :
       /\ ev # {} => Registered(o)
       /\ o' = [o EXCEPT !.ev = ev, !.err = @ \/ "err" \in ev]

\* wait_for_events, when the jobs are done and the last events dispatched: the
\* limits start again from 0.  A connector waits for EPOLLOUT.
Poll ==
  /\ ~o.failed /\ o.jobs = <<>> /\ o.ev = {}
  /\ \E ev \in SUBSET ((IF o.con = "wait" THEN {"out"} ELSE o.wait) \cup {"err", "hup"}) :
       /\ ev # {} => Registered(o)
       /\ o' = [o EXCEPT !.ev = ev, !.err = @ \/ "err" \in ev, !.slim = 0, !.rlim = 0]

\* The loop dispatches what it holds for the descriptor, in case it is still
\* waited for (handlers of other objects have run since).
Dispatch ==
  /\ ~o.failed /\ o.jobs = <<>> /\ o.ev # {}
  /\ LET c == [o EXCEPT !.ev = {}]
         events == {e \in o.ev : e \in o.wait \cup {"err", "hup"}}
     IN \/ /\ o.con = "wait"
           /\ \E ok, added \in BOOLEAN : o' = connector_handler(c, ok, added)
        \/ /\ o.con # "wait" /\ events = {}
           /\ o' = c
        \/ /\ o.con # "wait" /\ events # {}
           /\ \E w \in WriteResults(o), r \in ReadResults(o) :
                o' = connection_fd_handler(c, events, w, r)

ConJobs ==
  \/ connector_job_handler \/ connection_recv_job_handler
  \/ connection_send_if_handler_send \/ connection_recv_if_handler_recv \/ job_done

ConNext == User \/ ConJobs \/ Poll \/ Dispatch

\* The loop turns; and the SOCKS server reads and the socket is no longer full
\* infinitely often, so that epoll_wait returns EPOLLOUT and a write after it
\* takes data (or fails).
ConFairness ==
  /\ WF_o(ConJobs) /\ WF_o(Dispatch)
  /\ SF_o(Poll /\ "out" \in o'.ev)
  /\ SF_o(Dispatch /\ (o'.send # "busy" \/ o'.failed))

ConSpec == ConInit /\ [][ConNext]_o
ConFairSpec == ConSpec /\ ConFairness

-----------------------------------------------------------------------------
JobNames == {"con_job", "recv_job", "send_op", "send_done", "recv_op", "recv_done"}

ConPending(j) == \E i \in DOMAIN o.jobs : o.jobs[i] = j

\* The connection is of its type, no job is linked twice, and a job of an
\* interface is set exactly while the state of the interface says so.
ConTypeOK ==
  /\ DOMAIN o = {"con", "cfd", "live", "send", "recv", "sif", "rif", "wait", "hupd",
                 "slim", "rlim", "jobs", "ev", "err", "failed", "opens", "closes"}
  /\ o.con \in {"none", "wait", "job", "called", "freed"}
  /\ {o.cfd, o.live, o.hupd, o.err, o.failed} \subseteq BOOLEAN
  /\ o.send \in {"off", "ready", "busy"} /\ o.recv \in {"off", "ready", "busy", "closed"}
  /\ {o.sif, o.rif} \subseteq {"none", "op", "busy", "done"}
  /\ o.wait \subseteq {"in", "out"} /\ o.ev \subseteq {"in", "out", "err", "hup"}
  /\ o.slim \in 0..Limit /\ o.rlim \in 0..Limit
  /\ o.jobs \in Seq(JobNames)
  /\ \A i, k \in DOMAIN o.jobs : o.jobs[i] = o.jobs[k] => i = k
  /\ ConPending("send_op") <=> (o.sif = "op")
  /\ ConPending("send_done") <=> (o.sif = "done")
  /\ ConPending("recv_op") <=> (o.rif = "op")
  /\ ConPending("recv_done") <=> (o.rif = "done")

\* The ASSERTs of connection_fd_handler, connection_send and connection_recv
\* and of the two interfaces: a direction is busy exactly while its interface
\* is, and exactly while it is waited for or its job is set, whatever events
\* came together, whatever the limit held back, and after a hangup, when the
\* descriptor is not watched any more.  Otherwise a buffer is forgotten, or
\* the handler writes the last one a second time, or reads into one that its
\* owner has taken back.
BusyIsServed ==
  /\ ConTypeOK
  /\ (o.send = "busy") <=> (o.sif = "busy")
  /\ (o.recv \in {"busy", "closed"}) <=> (o.rif = "busy")
  /\ (o.live /\ ~o.failed) =>
       /\ (o.send = "busy") <=> (~o.hupd /\ "out" \in o.wait)
       /\ (o.recv = "busy") <=> ((~o.hupd /\ "in" \in o.wait) \/ ConPending("recv_job"))

\* A descriptor that was opened is closed once: by the call that fails, or by
\* whichever of the connector and the connection holds it when they are freed.
ClosedOnce ==
  /\ o.closes <= o.opens
  /\ o.con = "freed" => o.closes = o.opens

\* A buffer handed over for sending is sent, or an error is reported, or the
\* user frees the connection: the limit only delays it to the next turn.
SendFinishes == (o.send = "busy") ~> (o.send # "busy" \/ o.failed)
=============================================================================
