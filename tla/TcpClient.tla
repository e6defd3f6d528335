----------------------------- MODULE TcpClient -----------------------------
(***************************************************************************)
(* One TCP connection of the VPN as tun2socks relays it: a tcp_client of   *)
(* tun2socks.c between the lwIP connection of an app ("the client") and a  *)
(* SOCKS connection to the local proxy ("SOCKS").                          *)
(*                                                                         *)
(* The data of a direction is a stream of bytes 1, 2, 3, ...; a buffer     *)
(* holds an interval of it, so its contents are the offset of its first    *)
(* byte and a length.  "Up" is app to SOCKS, "down" is SOCKS to app.       *)
(*                                                                         *)
(* tun2socks is single threaded: an action is one callback of lwIP or one  *)
(* job of the reactor.  A callback that ends in SYNC_COMMIT runs the jobs  *)
(* it scheduled before it returns; it is split at that point, with cb      *)
(* naming the callback that has not returned yet.                          *)
(***************************************************************************)
EXTENDS Integers

CONSTANTS
  TCP_WND,                     \* receive window of lwIP, and size of client->buf
  TCP_SND_BUF,                 \* send buffer of lwIP
  CLIENT_SOCKS_RECV_BUF_SIZE,  \* size of client->socks_recv_buf
  MaxUp, MaxDown,              \* bounds: bytes the app sends, bytes SOCKS sends
  Garbage                      \* what memory fresh from malloc() may hold

ASSUME SizesAssumption ==
  /\ TCP_WND \in Nat \ {0}
  /\ TCP_SND_BUF \in Nat \ {0}
  /\ CLIENT_SOCKS_RECV_BUF_SIZE \in Nat \ {0}
  /\ MaxUp \in Nat /\ MaxDown \in Nat
  /\ Garbage \subseteq Int

VARIABLES
  client,   \* struct tcp_client, the state of its pcb and of its SOCKS I/O
  cb,       \* the lwIP callback that is inside SYNC_COMMIT, or "none"
  pbuf,     \* the pbuf last passed to client_recv_func
  ret,      \* what the last lwIP callback returned
  fin,      \* the app has sent its FIN
  up_rx,    \* up bytes put into client->buf
  up_tx,    \* offset of the last up byte written to SOCKS
  dn_rx,    \* down bytes read from SOCKS
  dn_q,     \* offset of the last down byte queued by tcp_write
  dn_ack    \* down bytes the app has acknowledged

vars == <<client, cb, pbuf, ret, fin, up_rx, up_tx, dn_rx, dn_q, dn_ack>>

Min2(a, b) == IF a < b THEN a ELSE b

-----------------------------------------------------------------------------
(* The struct.  Fields of the source keep their names; the others are      *)
(*   entry         the struct is unallocated, in tcp_clients, or freed     *)
(*   pcb           open, or how it was given up: by tcp_close, by          *)
(*                 tcp_abort, or by lwIP itself before it calls tcp_err    *)
(*   recv_cb, sent_cb   client_recv_func, client_sent_func are installed   *)
(*   rcv_wnd       lwIP's receive window                                   *)
(*   buf_off, socks_recv_off   offset of the byte before buf[0] and        *)
(*                 socks_recv_buf[0] in their streams                      *)
(*   sending       length of the StreamPassInterface send in flight, or 0  *)
(*   receiving     a StreamRecvInterface receive is in flight              *)
(* dead_client is NULL or points to a variable of the callback that set it, *)
(* which is 0 ("entered") or 1 ("killed").                                 *)

Client == [entry : {"none", "live", "freed"},
           pcb : {"open", "closed", "aborted", "gone"},
           recv_cb : BOOLEAN, sent_cb : BOOLEAN, rcv_wnd : 0..TCP_WND,
           client_closed : BOOLEAN, buf_off : Nat, buf_used : 0..TCP_WND,
           socks_up : BOOLEAN, socks_closed : BOOLEAN,
           sending : 0..TCP_WND, receiving : BOOLEAN,
           socks_recv_off : Nat, socks_recv_buf_used : Int,
           socks_recv_buf_sent : Int, socks_recv_waiting : BOOLEAN,
           socks_recv_tcp_pending : Int,
           dead_client : {"null", "entered", "killed"}]

(* listener_accept_func: buf_used, socks_up and socks_closed are set, the  *)
(* socks_recv fields are what malloc() left there.                         *)
NewClient(entry, g, b) ==
  [entry |-> entry, pcb |-> "open",
   recv_cb |-> TRUE, sent_cb |-> FALSE, rcv_wnd |-> TCP_WND,
   client_closed |-> FALSE, buf_off |-> 0, buf_used |-> 0,
   socks_up |-> FALSE, socks_closed |-> FALSE,
   sending |-> 0, receiving |-> FALSE,
   socks_recv_off |-> 0, socks_recv_buf_used |-> g,
   socks_recv_buf_sent |-> g, socks_recv_waiting |-> b,
   socks_recv_tcp_pending |-> g, dead_client |-> "null"]

-----------------------------------------------------------------------------
(* The helpers of the handlers, as functions of the struct.                *)

client_dealloc(c) == [c EXCEPT !.entry = "freed"]

(* BSocksClient_Free cancels the SOCKS I/O in flight. *)
BSocksClient_Free(c) ==
  [c EXCEPT !.sending = 0, !.receiving = FALSE, !.socks_closed = TRUE]

DEAD_ENTER(c) == [c EXCEPT !.dead_client = "entered"]

DEAD_KILL(c) == [c EXCEPT !.dead_client = IF @ = "null" THEN "null" ELSE "killed"]

(* Fault: a callback that is waiting in SYNC_COMMIT is not told. *)
FreedUntold(c) ==
  LET d == [c EXCEPT !.client_closed = TRUE] IN
  IF d.buf_used > 0 /\ ~d.socks_closed THEN d
  ELSE client_dealloc(BSocksClient_Free(d))

(* client_free_socks of a closed client goes straight to client_dealloc. *)
client_handle_freed_client(c) ==
  LET d == [DEAD_KILL(c) EXCEPT !.client_closed = TRUE] IN
  IF d.buf_used > 0 /\ ~d.socks_closed THEN d
  ELSE client_dealloc(BSocksClient_Free(d))

(* Remove the callbacks and give up the pcb. *)
DropPcb(c, how) ==
  [c EXCEPT !.pcb = how, !.recv_cb = FALSE, !.sent_cb = FALSE]

(* how is "closed", or "aborted" when tcp_close fails. *)
client_free_client(c, how) == client_handle_freed_client(DropPcb(c, how))

client_abort_client(c) == client_handle_freed_client(DropPcb(c, "aborted"))

(* Fault: bytes the app has not acknowledged do not keep the client open. *)
FreeSocksDropsPending(c, how) ==
  LET d == BSocksClient_Free(
             [c EXCEPT !.recv_cb = @ /\ ~(c.socks_up /\ ~c.client_closed)]) IN
  IF d.socks_up /\ d.socks_recv_buf_used >= 0 /\ ~d.client_closed THEN d
  ELSE IF ~d.client_closed THEN client_free_client(d, how)
  ELSE client_dealloc(d)

client_free_socks(c, how) ==
  LET d == BSocksClient_Free(
             [c EXCEPT !.recv_cb = @ /\ ~(c.socks_up /\ ~c.client_closed)]) IN
  IF /\ d.socks_up
     /\ d.socks_recv_buf_used >= 0 \/ d.socks_recv_tcp_pending > 0
     /\ ~d.client_closed
  THEN d
  ELSE IF ~d.client_closed THEN client_free_client(d, how)
  ELSE client_dealloc(d)

client_send_to_socks(c) == [c EXCEPT !.sending = c.buf_used]

client_socks_recv_initiate(c) == [c EXCEPT !.receiving = TRUE]

(* Fault: the window is not opened again. *)
NotRecved(c, n) == c

tcp_recved(c, n) == [c EXCEPT !.rcv_wnd = Min2(@ + n, TCP_WND)]

(* What one round of tcp_write can queue: all that fits or, when lwIP is   *)
(* out of segments or memory (ERR_MEM), nothing.  A second round finds the *)
(* send buffer full.                                                       *)
Writable(c) ==
  {0, Min2(c.socks_recv_buf_used - c.socks_recv_buf_sent,
           TCP_SND_BUF - c.socks_recv_tcp_pending)}

(* Fault: ERR_MEM with nothing unacknowledged waits for an acknowledgement. *)
SendOutWaitsForNothing(c, w, ok) ==
  LET d == [c EXCEPT !.socks_recv_buf_sent = @ + w,
                     !.socks_recv_tcp_pending = @ + w] IN
  IF ~ok THEN client_abort_client(d)
  ELSE IF d.socks_recv_buf_sent >= d.socks_recv_buf_used
       THEN [d EXCEPT !.socks_recv_buf_used = -1]
  ELSE [d EXCEPT !.socks_recv_waiting = TRUE]

(* w bytes were queued; ok is FALSE when tcp_write failed otherwise or     *)
(* tcp_output failed.                                                      *)
client_socks_recv_send_out(c, w, ok) ==
  LET d == [c EXCEPT !.socks_recv_buf_sent = @ + w,
                     !.socks_recv_tcp_pending = @ + w] IN
  IF ~ok THEN client_abort_client(d)
  ELSE IF d.socks_recv_buf_sent >= d.socks_recv_buf_used
       THEN [d EXCEPT !.socks_recv_buf_used = -1]
  ELSE IF d.socks_recv_tcp_pending = 0 THEN client_abort_client(d)
  ELSE [d EXCEPT !.socks_recv_waiting = TRUE]

(* Fault: tcp_write starts again at the front of socks_recv_buf. *)
QueuedFromFront(c, w) == IF w = 0 THEN dn_q ELSE c.socks_recv_off + w

(* The offset of the last byte tcp_write queued when it queued w bytes. *)
Queued(c, w) == IF w = 0 THEN dn_q
                ELSE c.socks_recv_off + c.socks_recv_buf_sent + w

-----------------------------------------------------------------------------
Init ==
  /\ client = NewClient("none", 0, FALSE)
  /\ cb = "none" /\ pbuf = "none" /\ ret = "none" /\ fin = FALSE
  /\ up_rx = 0 /\ up_tx = 0
  /\ dn_rx = 0 /\ dn_q = 0 /\ dn_ack = 0

Live == client.entry = "live"

(* lwIP calls back from its input or timer code, never inside SYNC_COMMIT. *)
LwipMayCall == Live /\ cb = "none" /\ client.pcb = "open"

How == {"closed", "aborted"}

(* listener_accept_func up to SYNC_COMMIT, which may run the connect job. *)
Accept ==
  /\ client.entry = "none"
  /\ \E g \in Garbage, b \in BOOLEAN : client' = DEAD_ENTER(NewClient("live", g, b))
  /\ cb' = "accept"
  /\ UNCHANGED <<pbuf, ret, fin, up_rx, up_tx, dn_rx, dn_q, dn_ack>>

(* malloc() or BSocksClient_Init fails: ERR_MEM, and lwIP aborts the pcb. *)
AcceptFails ==
  /\ client.entry = "none"
  /\ client' = [NewClient("freed", 0, FALSE) EXCEPT
                  !.pcb = "gone", !.recv_cb = FALSE,
                  !.client_closed = TRUE, !.socks_closed = TRUE]
  /\ ret' = "ERR_MEM"
  /\ UNCHANGED <<cb, pbuf, fin, up_rx, up_tx, dn_rx, dn_q, dn_ack>>

(* client_recv_func with n bytes.  When it starts a send it goes on in     *)
(* SyncReturn.                                                             *)
RecvData(n) ==
  /\ LwipMayCall /\ client.recv_cb /\ ~fin
  /\ n <= client.rcv_wnd /\ up_rx + n <= MaxUp
  /\ LET fits == n <= TCP_WND - client.buf_used
         c    == [client EXCEPT !.rcv_wnd = @ - n,
                                !.buf_used = IF fits THEN @ + n ELSE @]
         send == fits /\ c.buf_used = n /\ c.socks_up
     IN /\ client' = IF send THEN DEAD_ENTER(client_send_to_socks(c)) ELSE c
        /\ cb' = IF send THEN "recv" ELSE "none"
        /\ pbuf' = IF send THEN "held" ELSE IF fits THEN "none" ELSE "refused"
        /\ ret' = IF send THEN ret ELSE IF fits THEN "ERR_OK" ELSE "ERR_MEM"
        /\ up_rx' = IF fits THEN up_rx + n ELSE up_rx
  /\ UNCHANGED <<fin, up_tx, dn_rx, dn_q, dn_ack>>

(* client_recv_func with a NULL pbuf: the app has closed. *)
RecvFin ==
  /\ LwipMayCall /\ client.recv_cb /\ ~fin
  /\ \E how \in How : client' = client_free_client(client, how)
  /\ fin' = TRUE
  /\ ret' = "ERR_ABRT"
  /\ UNCHANGED <<cb, pbuf, up_rx, up_tx, dn_rx, dn_q, dn_ack>>

(* The app closes once client_recv_func is removed: lwIP only notes it.    *)
(* (Data that arrives then is acknowledged and dropped by tcp_recv_null    *)
(* and changes nothing here.)                                              *)
FinUnseen ==
  /\ LwipMayCall /\ ~client.recv_cb /\ ~fin
  /\ fin' = TRUE
  /\ UNCHANGED <<client, cb, pbuf, ret, up_rx, up_tx, dn_rx, dn_q, dn_ack>>

(* client_err_func: a reset, a timeout or lack of memory; lwIP frees the pcb. *)
client_err_func ==
  /\ LwipMayCall
  /\ client' = client_handle_freed_client(DropPcb(client, "gone"))
  /\ UNCHANGED <<cb, pbuf, ret, fin, up_rx, up_tx, dn_rx, dn_q, dn_ack>>

(* client_sent_func: the app acknowledged n bytes. *)
SentMore(n) ==
  LET c == [client EXCEPT !.socks_recv_tcp_pending = @ - n,
                          !.socks_recv_waiting = FALSE] IN
  \E w \in Writable(c), ok \in BOOLEAN :
    LET d    == client_socks_recv_send_out(c, w, ok)
        more == ~d.client_closed /\ d.socks_recv_buf_used = -1 /\ ~d.socks_closed
    IN /\ client' = IF more THEN DEAD_ENTER(client_socks_recv_initiate(d)) ELSE d
       /\ cb' = IF more THEN "sent" ELSE "none"
       /\ ret' = IF d.client_closed THEN "ERR_ABRT" ELSE IF more THEN ret ELSE "ERR_OK"
       /\ dn_q' = Queued(c, w)

(* Fault: the last acknowledgement does not free a client without SOCKS. *)
SentAllKeepsClient(n) ==
  /\ client' = [client EXCEPT !.socks_recv_tcp_pending = @ - n]
  /\ ret' = "ERR_OK"
  /\ UNCHANGED <<cb, dn_q>>

SentAll(n) ==
  LET c == [client EXCEPT !.socks_recv_tcp_pending = @ - n] IN
  IF c.socks_closed /\ c.socks_recv_tcp_pending = 0
  THEN /\ \E how \in How : client' = client_free_client(c, how)
       /\ ret' = "ERR_ABRT"
       /\ UNCHANGED <<cb, dn_q>>
  ELSE /\ client' = c
       /\ ret' = "ERR_OK"
       /\ UNCHANGED <<cb, dn_q>>

client_sent_func(n) ==
  /\ LwipMayCall /\ client.sent_cb
  /\ n <= dn_q - dn_ack
  /\ dn_ack' = dn_ack + n
  /\ IF client.socks_recv_buf_used > 0 THEN SentMore(n) ELSE SentAll(n)
  /\ UNCHANGED <<pbuf, fin, up_rx, up_tx, dn_rx>>

-----------------------------------------------------------------------------
(* Reactor jobs of the SOCKS side.  Inside SYNC_COMMIT only the jobs the   *)
(* callback scheduled can run: its send, its receive, or the connect.      *)
SendJobMayRun == Live /\ ~client.socks_closed /\ client.sending > 0
                 /\ cb \in {"none", "recv"}

RecvJobMayRun == Live /\ ~client.socks_closed /\ client.receiving
                 /\ cb \in {"none", "sent", "accept"}

(* Fault: what the app sent before SOCKS came up is not sent on. *)
SocksUpForgetsBuf ==
  /\ Live /\ ~client.socks_closed /\ ~client.socks_up
  /\ cb \in {"none", "accept"}
  /\ LET c == [client EXCEPT !.socks_recv_buf_used = -1,
                             !.socks_recv_tcp_pending = 0,
                             !.sent_cb = ~client.client_closed,
                             !.socks_up = TRUE]
     IN client' = IF ~c.client_closed THEN client_socks_recv_initiate(c) ELSE c
  /\ UNCHANGED <<cb, pbuf, ret, fin, up_rx, up_tx, dn_rx, dn_q, dn_ack>>

(* client_socks_handler, BSOCKSCLIENT_EVENT_UP *)
SocksUp ==
  /\ Live /\ ~client.socks_closed /\ ~client.socks_up
  /\ cb \in {"none", "accept"}
  /\ LET c == [client EXCEPT !.socks_recv_buf_used = -1,
                             !.socks_recv_tcp_pending = 0,
                             !.sent_cb = ~client.client_closed,
                             !.socks_up = TRUE]
         d == IF c.buf_used > 0 THEN client_send_to_socks(c) ELSE c
     IN client' = IF ~d.client_closed THEN client_socks_recv_initiate(d) ELSE d
  /\ UNCHANGED <<cb, pbuf, ret, fin, up_rx, up_tx, dn_rx, dn_q, dn_ack>>

(* client_socks_handler, BSOCKSCLIENT_EVENT_ERROR: connecting, the SOCKS   *)
(* handshake, a write or a read failed.                                    *)
SocksError ==
  /\ Live /\ ~client.socks_closed
  /\ cb = "recv" => client.sending > 0
  /\ cb = "sent" => client.receiving
  /\ \E how \in How : client' = client_free_socks(client, how)
  /\ UNCHANGED <<cb, pbuf, ret, fin, up_rx, up_tx, dn_rx, dn_q, dn_ack>>

(* client_socks_handler, BSOCKSCLIENT_EVENT_ERROR_CLOSED: a read found EOF. *)
SocksClosed ==
  /\ RecvJobMayRun
  /\ \E how \in How : client' = client_free_socks(client, how)
  /\ UNCHANGED <<cb, pbuf, ret, fin, up_rx, up_tx, dn_rx, dn_q, dn_ack>>

(* Fault: the rest of client->buf is not moved to the front. *)
SendDoneNoMemmove(n) ==
  /\ SendJobMayRun
  /\ n <= client.sending
  /\ up_tx' = client.buf_off + n
  /\ LET c == [client EXCEPT !.sending = 0, !.buf_used = @ - n]
         d == IF ~c.client_closed THEN tcp_recved(c, n) ELSE c
     IN IF d.buf_used > 0 THEN client' = client_send_to_socks(d)
        ELSE IF d.client_closed
        THEN \E how \in How : client' = client_free_socks(d, how)
        ELSE client' = [d EXCEPT !.buf_off = @ + n]
  /\ UNCHANGED <<cb, pbuf, ret, fin, up_rx, dn_rx, dn_q, dn_ack>>

(* n bytes were written, then client_socks_send_handler_done. *)
client_socks_send_handler_done(n) ==
  /\ SendJobMayRun
  /\ n <= client.sending
  /\ up_tx' = client.buf_off + n
  /\ LET c == [client EXCEPT !.sending = 0, !.buf_off = @ + n, !.buf_used = @ - n]
         d == IF ~c.client_closed THEN tcp_recved(c, n) ELSE c
     IN IF d.buf_used > 0 THEN client' = client_send_to_socks(d)
        ELSE IF d.client_closed
        THEN \E how \in How : client' = client_free_socks(d, how)
        ELSE client' = d
  /\ UNCHANGED <<cb, pbuf, ret, fin, up_rx, dn_rx, dn_q, dn_ack>>

(* n bytes were read, then client_socks_recv_handler_done. *)
client_socks_recv_handler_done(n) ==
  /\ RecvJobMayRun
  /\ n <= CLIENT_SOCKS_RECV_BUF_SIZE /\ dn_rx + n <= MaxDown
  /\ dn_rx' = dn_rx + n
  /\ IF client.client_closed
     THEN client' = [client EXCEPT !.receiving = FALSE] /\ dn_q' = dn_q
     ELSE LET c == [client EXCEPT !.receiving = FALSE, !.socks_recv_off = dn_rx,
                                  !.socks_recv_buf_used = n,
                                  !.socks_recv_buf_sent = 0,
                                  !.socks_recv_waiting = FALSE] IN
          \E w \in Writable(c), ok \in BOOLEAN :
            LET d == client_socks_recv_send_out(c, w, ok) IN
            /\ client' = IF ~d.client_closed /\ d.socks_recv_buf_used = -1
                         THEN client_socks_recv_initiate(d) ELSE d
            /\ dn_q' = Queued(c, w)
  /\ UNCHANGED <<cb, pbuf, ret, fin, up_rx, up_tx, dn_ack>>

(* Fault: dead_client goes on pointing into the callback that returns. *)
SyncReturnLeavesVar ==
  /\ cb # "none"
  /\ cb' = "none"
  /\ ret' = IF client.dead_client = "killed" THEN "ERR_ABRT" ELSE "ERR_OK"
  /\ pbuf' = IF cb = "recv" THEN IF ret' = "ERR_ABRT" THEN "lost" ELSE "none" ELSE pbuf
  /\ UNCHANGED <<client, fin, up_rx, up_tx, dn_rx, dn_q, dn_ack>>

(* The jobs above the mark are done: the callback returns.  DEAD_LEAVE2    *)
(* clears dead_client unless it was killed meanwhile, when the struct may  *)
(* be gone; DEAD_KILLED decides what is returned, and a pbuf is then left. *)
SyncReturn ==
  LET killed == client.dead_client = "killed" IN
  /\ cb # "none"
  /\ cb' = "none"
  /\ ret' = IF killed THEN "ERR_ABRT" ELSE "ERR_OK"
  /\ client' = IF killed THEN client ELSE [client EXCEPT !.dead_client = "null"]
  /\ pbuf' = IF cb = "recv" THEN IF killed THEN "lost" ELSE "none" ELSE pbuf
  /\ UNCHANGED <<fin, up_rx, up_tx, dn_rx, dn_q, dn_ack>>

(* main() after the event loop: every client still listed is removed. *)
client_murder ==
  /\ Live /\ cb = "none"
  /\ LET c == IF client.client_closed THEN client
              ELSE [DEAD_KILL(DropPcb(client, "aborted")) EXCEPT !.client_closed = TRUE]
         d == IF c.socks_closed THEN c ELSE BSocksClient_Free(c)
     IN client' = client_dealloc(d)
  /\ UNCHANGED <<cb, pbuf, ret, fin, up_rx, up_tx, dn_rx, dn_q, dn_ack>>

-----------------------------------------------------------------------------
ClientEvent ==
  \/ \E n \in 1..TCP_WND : RecvData(n)
  \/ RecvFin
  \/ FinUnseen
  \/ client_err_func
  \/ \E n \in 1..TCP_SND_BUF : client_sent_func(n)

SocksEvent ==
  \/ SocksUp
  \/ SocksError
  \/ SocksClosed
  \/ \E n \in 1..TCP_WND : client_socks_send_handler_done(n)
  \/ \E n \in 1..CLIENT_SOCKS_RECV_BUF_SIZE : client_socks_recv_handler_done(n)

Next == Accept \/ AcceptFails \/ ClientEvent \/ SocksEvent \/ SyncReturn \/ client_murder

(* A callback returns; the local proxy, once connected, takes what is      *)
(* written to it or the write fails; the app acknowledges what it is sent  *)
(* or lwIP's retransmission timer reports an error.  Nothing is assumed of *)
(* a SOCKS connect: the local proxy does not answer one whose upstream     *)
(* cannot be reached, and tun2socks has no timeout for it.                 *)
Fairness ==
  /\ WF_vars(SyncReturn)
  /\ WF_vars(\E n \in 1..TCP_WND : client_socks_send_handler_done(n))
  /\ WF_vars(\E n \in 1..TCP_SND_BUF : client_sent_func(n))

Spec == Init /\ [][Next]_vars

FairSpec == Spec /\ Fairness

-----------------------------------------------------------------------------
(* Every variable has its type: buf_used stays inside client->buf and      *)
(* rcv_wnd inside the window lwIP was configured with.                     *)
TypeOK ==
  /\ client \in Client
  /\ cb \in {"none", "accept", "recv", "sent"}
  /\ pbuf \in {"none", "held", "refused", "lost"}
  /\ ret \in {"none", "ERR_OK", "ERR_MEM", "ERR_ABRT"}
  /\ fin \in BOOLEAN
  /\ up_rx \in Nat /\ up_tx \in Nat
  /\ dn_rx \in Nat /\ dn_q \in Nat /\ dn_ack \in Nat

(* Up bytes reach SOCKS in order, none lost and none twice: what is in     *)
(* client->buf is exactly what SOCKS has not been given yet, whatever      *)
(* client_recv_func appended while client_socks_send_handler_done was      *)
(* moving the rest to the front.                                           *)
UpStreamInOrder ==
  Live => up_tx = client.buf_off /\ up_rx = up_tx + client.buf_used

(* Down bytes are queued to the app in order, none lost and none twice,    *)
(* however tcp_write fills up and client_sent_func resumes in the middle   *)
(* of socks_recv_buf; socks_recv_tcp_pending is what lwIP has not had      *)
(* acknowledged, so client_sent_func never takes more from it than is      *)
(* there.                                                                  *)
DownStreamInOrder ==
  Live /\ client.socks_up /\ ~client.client_closed =>
    /\ dn_q = dn_ack + client.socks_recv_tcp_pending
    /\ IF client.socks_recv_buf_used = -1 THEN dn_rx = dn_q
       ELSE /\ dn_q = client.socks_recv_off + client.socks_recv_buf_sent
            /\ dn_rx = client.socks_recv_off + client.socks_recv_buf_used

(* The window lwIP offers the app is the free space of client->buf, so the *)
(* "no buffer for data !?!" branch of client_recv_func cannot be reached   *)
(* and no space is ever lost to the app.                                   *)
WindowIsFreeSpace ==
  /\ Live /\ ~client.client_closed => client.rcv_wnd + client.buf_used = TCP_WND
  /\ pbuf # "refused"

(* No lost wake-up.  Whoever holds data, or room for data, also holds the  *)
(* event that continues the relay: data in client->buf has a send in       *)
(* flight; an empty socks_recv_buf has a receive in flight; a partly       *)
(* queued one waits for an acknowledgement that is due; and a half-closed  *)
(* connection is only kept while there is something left to hand over.     *)
RelayIsArmed ==
  Live =>
    /\ client.socks_up /\ ~client.socks_closed =>
         (client.buf_used > 0 <=> client.sending > 0)
    /\ client.socks_up /\ ~client.client_closed =>
         /\ client.sent_cb
         /\ IF client.socks_recv_buf_used = -1
            THEN client.receiving <=> ~client.socks_closed
            ELSE /\ client.socks_recv_waiting /\ ~client.receiving
                 /\ client.socks_recv_buf_sent < client.socks_recv_buf_used
                 /\ client.socks_recv_tcp_pending > 0
    /\ client.client_closed => ~client.socks_closed /\ client.buf_used > 0
    /\ client.socks_closed =>
         client.socks_up /\ ~client.client_closed /\ client.socks_recv_tcp_pending > 0

(* Once SOCKS is up and one side is gone, the other is drained and the     *)
(* struct freed.  (A client that closes while SOCKS connects is kept, with *)
(* the data that it sent, for as long as the connect is not answered.)     *)
HalfClosedIsFreed ==
  Live /\ client.socks_up /\ (client.client_closed \/ client.socks_closed) ~>
    client.entry = "freed"

(* Once SOCKS is up, every byte taken from the app, before or after it     *)
(* came up, is written to SOCKS, unless SOCKS ends first.                  *)
UpDataDelivered ==
  \A k \in 1..MaxUp :
    up_rx >= k /\ client.socks_up ~> up_tx >= k \/ client.socks_closed

(* The ends as Relay sees them. *)
AppEnd(c) == IF c.entry = "none" THEN "idle" ELSE c.pcb

SocksEnd(c) ==
  IF c.entry = "none" THEN "idle"
  ELSE IF c.socks_closed THEN "over"
  ELSE IF c.socks_up THEN "up" ELSE "connecting"

R == INSTANCE Relay WITH
       UpRoom <- TCP_WND, DownRoom <- TCP_SND_BUF,
       Chunk <- CLIENT_SOCKS_RECV_BUF_SIZE,
       app <- AppEnd(client), socks <- SocksEnd(client),
       upIn <- up_rx, upOut <- up_tx, dnIn <- dn_rx, dnOut <- dn_q, dnAck <- dn_ack

(* A tcp_client implements Relay: whatever the order of the callbacks of   *)
(* lwIP and the jobs of the reactor, both streams are bounded pipes and    *)
(* neither end is given up while it is owed bytes that can be delivered.   *)
ImplementsRelay == R!Spec

(* The callbacks of lwIP that return a value. *)
LwipCallback ==
  \/ \E n \in 1..TCP_WND : RecvData(n)
  \/ RecvFin
  \/ \E n \in 1..TCP_SND_BUF : client_sent_func(n)
  \/ SyncReturn

(* A callback returns ERR_ABRT exactly when tun2socks has given the pcb    *)
(* up, be it in the jobs that SYNC_COMMIT ran: lwIP neither goes on with a *)
(* pcb that may be freed nor forgets one that is relayed.  The callback    *)
(* learns it from its dead variable alone, as the struct may be freed.     *)
AbrtWhenGivenUp ==
  [][LwipCallback /\ cb' = "none" => (ret' = "ERR_ABRT" <=> client'.pcb # "open")]_vars

(* dead_client of a client whose pcb can still be given up points into the *)
(* callback that is running and to nothing when none is: DEAD_KILL never   *)
(* writes to the stack frame of a callback that has returned.              *)
DeadVarIsNotStale ==
  Live /\ ~client.client_closed =>
    client.dead_client = IF cb = "none" THEN "null" ELSE "entered"
=============================================================================
