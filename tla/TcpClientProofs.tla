-------------------------- MODULE TcpClientProofs --------------------------
(* Theorems about TcpClient, for every window, buffer size and bound.      *)
EXTENDS TcpClient, TLAPS

(* What makes the safety properties inductive.  First the half of the      *)
(* struct that relays up bytes, which client_handle_freed_client keeps ... *)
UpSide(c) ==
  /\ c.sending <= c.buf_used
  /\ ~c.socks_up => c.sending = 0 /\ ~c.receiving /\ ~c.sent_cb
  /\ c.socks_up /\ ~c.socks_closed => (c.buf_used > 0 <=> c.sending > 0)

(* ... and the half that relays down bytes while the client is open. *)
DownSide(c) ==
  /\ c.sent_cb
  /\ c.socks_recv_tcp_pending \in 0..TCP_SND_BUF
  /\ IF c.socks_recv_buf_used = -1
     THEN c.receiving <=> ~c.socks_closed
     ELSE /\ c.socks_recv_waiting /\ ~c.receiving
          /\ c.socks_recv_buf_sent >= 0
          /\ c.socks_recv_buf_sent < c.socks_recv_buf_used
          /\ c.socks_recv_tcp_pending > 0

LiveInv(c) ==
  /\ c.client_closed <=> c.pcb # "open"
  /\ c.recv_cb => ~c.client_closed /\ ~c.socks_closed
  /\ ~c.client_closed => c.rcv_wnd + c.buf_used = TCP_WND
  /\ c.client_closed => ~c.socks_closed /\ c.buf_used > 0
  /\ c.socks_closed => c.socks_up /\ c.socks_recv_tcp_pending > 0
  /\ UpSide(c)
  /\ c.socks_up /\ ~c.client_closed => DownSide(c)

StreamInv ==
  /\ UpStreamInOrder
  /\ DownStreamInOrder
  /\ client.entry = "none" => up_rx = 0 /\ up_tx = 0
  /\ client.entry = "none" \/ (Live /\ ~client.socks_up) =>
       dn_rx = 0 /\ dn_q = 0 /\ dn_ack = 0

IInv ==
  /\ TypeOK
  /\ Live => LiveInv(client)
  /\ StreamInv
  /\ pbuf # "refused"

-----------------------------------------------------------------------------
(* Giving up the client: d is what is left of c.  Either it is freed, or   *)
(* it is kept with its up bytes untouched.                                 *)
Released(c, d) ==
  /\ d \in Client
  /\ d.entry \in {"live", "freed"} /\ d.client_closed
  /\ d.entry = "live" => /\ LiveInv(d)
                         /\ d.buf_off = c.buf_off /\ d.buf_used = c.buf_used
                         /\ d.socks_up = c.socks_up

(* Before listener_accept_func the invariant holds. *)
LEMMA InitIInv == Init => IInv
<1> SUFFICES ASSUME Init PROVE IInv
  OBVIOUS
<1>1. client \in Client /\ client.entry = "none"
  BY SizesAssumption DEF Init, Client, NewClient
<1> QED
  BY <1>1, Zenon DEF Init, IInv, TypeOK, Live, StreamInv, UpStreamInOrder, DownStreamInOrder

(* DEAD_ENTER, DEAD_KILL and DEAD_LEAVE2 change nothing but dead_client. *)
SameButDead(c, d) ==
  /\ d \in Client /\ d.entry = c.entry /\ d.pcb = c.pcb
  /\ d.recv_cb = c.recv_cb /\ d.sent_cb = c.sent_cb /\ d.rcv_wnd = c.rcv_wnd
  /\ d.client_closed = c.client_closed /\ d.buf_off = c.buf_off /\ d.buf_used = c.buf_used
  /\ d.socks_up = c.socks_up /\ d.socks_closed = c.socks_closed
  /\ d.sending = c.sending /\ d.receiving = c.receiving
  /\ d.socks_recv_off = c.socks_recv_off
  /\ d.socks_recv_buf_used = c.socks_recv_buf_used
  /\ d.socks_recv_buf_sent = c.socks_recv_buf_sent
  /\ d.socks_recv_waiting = c.socks_recv_waiting
  /\ d.socks_recv_tcp_pending = c.socks_recv_tcp_pending

LEMMA DeadOnly ==
  ASSUME NEW c \in Client, NEW v \in {"null", "entered", "killed"}
  PROVE  /\ SameButDead(c, [c EXCEPT !.dead_client = v])
         /\ [c EXCEPT !.dead_client = v].dead_client = v
<1>1. [c EXCEPT !.dead_client = v] \in Client
  BY Zenon DEF Client
<1> QED BY <1>1, Zenon DEF SameButDead, Client

LEMMA KillOnly ==
  ASSUME NEW c \in Client
  PROVE  /\ SameButDead(c, DEAD_KILL(c))
         /\ DEAD_KILL(c).dead_client = IF c.dead_client = "null" THEN "null" ELSE "killed"
<1>1. PICK v : v = IF c.dead_client = "null" THEN "null" ELSE "killed"
  OBVIOUS
<1>2. v \in {"null", "entered", "killed"}
  BY <1>1
<1>3. DEAD_KILL(c) = [c EXCEPT !.dead_client = v]
  BY <1>1 DEF DEAD_KILL
<1> QED BY <1>1, <1>2, <1>3, DeadOnly

LEMMA SameLives ==
  ASSUME NEW c, NEW d, SameButDead(c, d)
  PROVE  UpSide(d) = UpSide(c) /\ (LiveInv(c) => LiveInv(d))
<1>1. UpSide(d) = UpSide(c)
  BY DEF SameButDead, UpSide
<1>2. DownSide(c) => DownSide(d)
  BY DEF SameButDead, DownSide
<1> QED BY <1>1, <1>2 DEF SameButDead, LiveInv

(* BSocksClient_Free and client_dealloc change only the SOCKS side and *)
(* entry.                                                              *)
LEMMA SocksFreed ==
  ASSUME NEW c \in Client
  PROVE  /\ BSocksClient_Free(c) \in Client
         /\ client_dealloc(c) \in Client
         /\ client_dealloc(c).entry = "freed"
         /\ client_dealloc(c).client_closed = c.client_closed
         /\ BSocksClient_Free(c).client_closed = c.client_closed
<1>1. 0 \in 0..TCP_WND
  BY SizesAssumption
<1> QED BY <1>1, Zenon DEF BSocksClient_Free, client_dealloc, Client

(* client_handle_freed_client after the pcb is dropped, however that was. *)
LEMMA FreedClient ==
  ASSUME NEW c \in Client, c.entry = "live", UpSide(c),
         NEW how \in How \cup {"gone"}
  PROVE  Released(c, client_handle_freed_client(DropPcb(c, how)))
<1>0. PICK k \in {"null", "killed"} : k = IF c.dead_client = "null" THEN "null" ELSE "killed"
  BY Zenon
<1>1. PICK d : d = [DEAD_KILL(DropPcb(c, how)) EXCEPT !.client_closed = TRUE]
  BY Zenon
<1>2. d = [c EXCEPT !.pcb = how, !.recv_cb = FALSE, !.sent_cb = FALSE,
                    !.dead_client = k, !.client_closed = TRUE]
  <2>1. DropPcb(c, how).dead_client = c.dead_client
    BY DEF DropPcb, Client
  <2>2. DEAD_KILL(DropPcb(c, how)) = [DropPcb(c, how) EXCEPT !.dead_client = k]
    BY <1>0, <2>1 DEF DEAD_KILL
  <2> QED BY <1>1, <2>2 DEF DropPcb
<1>3. how \in {"closed", "aborted", "gone"}
  BY DEF How
<1>4. d \in Client /\ d.entry = "live" /\ d.client_closed
  BY <1>2, <1>3, ZenonT(40) DEF Client
<1>5. CASE d.buf_used > 0 /\ ~d.socks_closed
  <2>1. client_handle_freed_client(DropPcb(c, how)) = d
    BY <1>1, <1>5 DEF client_handle_freed_client
  <2>2. LiveInv(d)
    BY <1>2, <1>3, <1>4, <1>5 DEF LiveInv, UpSide, Client
  <2>3. d.buf_off = c.buf_off /\ d.buf_used = c.buf_used /\ d.socks_up = c.socks_up
    BY <1>2 DEF Client
  <2> QED BY <2>1, <2>2, <2>3, <1>4 DEF Released
<1>6. CASE ~(d.buf_used > 0 /\ ~d.socks_closed)
  <2>1. client_handle_freed_client(DropPcb(c, how)) = client_dealloc(BSocksClient_Free(d))
    BY <1>1, <1>6 DEF client_handle_freed_client
  <2> QED BY <2>1, <1>4, SocksFreed DEF Released
<1> QED BY <1>5, <1>6

(* A step that gives up the client and leaves the up stream alone. *)
LEMMA ReleasedIInv ==
  ASSUME IInv, Live, Released(client, client'), TypeOK',
         UNCHANGED <<up_rx, up_tx>>, pbuf' # "refused",
         ~client.socks_up => UNCHANGED <<dn_rx, dn_q, dn_ack>>
  PROVE  IInv'
<1>1. StreamInv'
  BY DEF IInv, StreamInv, UpStreamInOrder, DownStreamInOrder, Released, Live
<1> QED BY <1>1 DEF IInv, Live, Released

(* client_free_socks: the client is given up too, or kept to be drained. *)
Drained(c, d) ==
  /\ d \in Client /\ d.entry = "live" /\ LiveInv(d)
  /\ d.buf_off = c.buf_off /\ d.buf_used = c.buf_used
  /\ d.socks_up = c.socks_up /\ d.client_closed = c.client_closed
  /\ d.socks_recv_off = c.socks_recv_off
  /\ d.socks_recv_buf_used = c.socks_recv_buf_used
  /\ d.socks_recv_buf_sent = c.socks_recv_buf_sent
  /\ d.socks_recv_tcp_pending = c.socks_recv_tcp_pending

(* client_free_socks leaves a client that is given up, or one kept for *)
(* its down bytes.                                                     *)
LEMMA FreedSocks ==
  ASSUME NEW c \in Client, c.entry = "live", LiveInv(c), ~c.socks_closed,
         NEW how \in How
  PROVE  \/ Released(c, client_free_socks(c, how))
         \/ Drained(c, client_free_socks(c, how))
<1>1. PICK d : d = BSocksClient_Free(
                     [c EXCEPT !.recv_cb = c.recv_cb /\ ~(c.socks_up /\ ~c.client_closed)])
  OBVIOUS
<1>2. d = [c EXCEPT !.recv_cb = c.recv_cb /\ ~(c.socks_up /\ ~c.client_closed),
                    !.sending = 0, !.receiving = FALSE, !.socks_closed = TRUE]
  BY <1>1 DEF BSocksClient_Free
<1>3. 0 \in 0..TCP_WND
  BY SizesAssumption
<1>4. d \in Client
  BY <1>2, <1>3, ZenonT(40) DEF Client
<1>5. /\ d.entry = "live" /\ d.buf_off = c.buf_off /\ d.buf_used = c.buf_used
      /\ d.socks_up = c.socks_up /\ d.client_closed = c.client_closed
      /\ d.socks_recv_off = c.socks_recv_off
      /\ d.socks_recv_buf_used = c.socks_recv_buf_used
      /\ d.socks_recv_buf_sent = c.socks_recv_buf_sent
      /\ d.socks_recv_tcp_pending = c.socks_recv_tcp_pending
      /\ d.socks_recv_waiting = c.socks_recv_waiting
      /\ d.sent_cb = c.sent_cb /\ d.pcb = c.pcb /\ d.rcv_wnd = c.rcv_wnd
      /\ d.sending = 0 /\ ~d.receiving /\ d.socks_closed
      /\ d.recv_cb => ~d.socks_up
      /\ d.recv_cb => ~d.client_closed
  BY <1>2, <1>4 DEF Client, LiveInv
<1>6. UpSide(d)
  BY <1>4, <1>5, SizesAssumption DEF UpSide, Client, LiveInv
<1>7. CASE /\ d.socks_up
           /\ d.socks_recv_buf_used >= 0 \/ d.socks_recv_tcp_pending > 0
           /\ ~d.client_closed
  <2>1. client_free_socks(c, how) = d
    BY <1>1, <1>7 DEF client_free_socks
  <2>2. LiveInv(d)
    BY <1>4, <1>5, <1>6, <1>7 DEF LiveInv, DownSide, Client
  <2> QED BY <1>4, <1>5, <2>1, <2>2 DEF Drained
<1>8. CASE /\ ~(/\ d.socks_up
                /\ d.socks_recv_buf_used >= 0 \/ d.socks_recv_tcp_pending > 0
                /\ ~d.client_closed)
           /\ ~d.client_closed
  <2>1. client_free_socks(c, how) = client_handle_freed_client(DropPcb(d, how))
    BY <1>1, <1>8 DEF client_free_socks, client_free_client
  <2>2. Released(d, client_free_socks(c, how))
    BY <1>4, <1>5, <1>6, <2>1, FreedClient
  <2> QED BY <1>5, <2>2 DEF Released
<1>9. CASE d.client_closed
  <2>1. client_free_socks(c, how) = client_dealloc(d)
    BY <1>1, <1>9 DEF client_free_socks
  <2> QED BY <1>4, <1>9, <2>1, SocksFreed DEF Released
<1> QED BY <1>7, <1>8, <1>9

(* client_socks_recv_send_out: the client is aborted, everything is queued *)
(* or it waits for an acknowledgement.                                     *)
SendOutPre(c) ==
  /\ c.entry = "live" /\ c.socks_up /\ ~c.client_closed
  /\ UpSide(c)
  /\ c.socks_recv_tcp_pending \in 0..TCP_SND_BUF
  /\ c.socks_recv_buf_sent >= 0 /\ c.socks_recv_buf_sent < c.socks_recv_buf_used

(* tcp_write never queues more than socks_recv_buf or the send buffer *)
(* holds.                                                             *)
LEMMA WritableRange ==
  ASSUME NEW c \in Client, SendOutPre(c), NEW w \in Writable(c)
  PROVE  /\ w \in Nat
         /\ c.socks_recv_buf_sent + w <= c.socks_recv_buf_used
         /\ c.socks_recv_tcp_pending + w \in 0..TCP_SND_BUF
  BY SizesAssumption DEF SendOutPre, Writable, Min2, Client

(* The three ways client_socks_recv_send_out ends: abort, all queued, *)
(* waiting.                                                           *)
LEMMA SendOut ==
  ASSUME NEW c \in Client, SendOutPre(c), NEW w \in Writable(c), NEW ok \in BOOLEAN
  PROVE  LET d == client_socks_recv_send_out(c, w, ok)
         IN  \/ Released(c, d)
             \/ /\ d = [c EXCEPT !.socks_recv_buf_sent = c.socks_recv_buf_sent + w,
                                 !.socks_recv_tcp_pending = c.socks_recv_tcp_pending + w,
                                 !.socks_recv_buf_used = -1]
                /\ c.socks_recv_buf_sent + w = c.socks_recv_buf_used
             \/ /\ d = [c EXCEPT !.socks_recv_buf_sent = c.socks_recv_buf_sent + w,
                                 !.socks_recv_tcp_pending = c.socks_recv_tcp_pending + w,
                                 !.socks_recv_waiting = TRUE]
                /\ c.socks_recv_buf_sent + w < c.socks_recv_buf_used
                /\ c.socks_recv_tcp_pending + w > 0
<1>1. PICK q : q = [c EXCEPT !.socks_recv_buf_sent = c.socks_recv_buf_sent + w,
                             !.socks_recv_tcp_pending = c.socks_recv_tcp_pending + w]
  OBVIOUS
<1>2. w \in Nat /\ c.socks_recv_buf_sent + w <= c.socks_recv_buf_used
      /\ c.socks_recv_tcp_pending + w \in 0..TCP_SND_BUF
  BY WritableRange
<1>3. /\ q \in Client /\ q.entry = "live"
      /\ q.socks_recv_buf_used = c.socks_recv_buf_used
      /\ q.socks_recv_buf_sent = c.socks_recv_buf_sent + w
      /\ q.socks_recv_tcp_pending = c.socks_recv_tcp_pending + w
      /\ q.buf_off = c.buf_off /\ q.buf_used = c.buf_used /\ q.socks_up = c.socks_up
  <2>1. c.socks_recv_buf_sent + w \in Int /\ c.socks_recv_tcp_pending + w \in Int
    BY <1>2 DEF Client
  <2> QED BY <1>1, <2>1, Zenon DEF Client, SendOutPre
<1>4. UpSide(q)
  BY <1>1 DEF SendOutPre, UpSide, Client
<1>5. Released(c, client_abort_client(q))
  <2>1. Released(q, client_abort_client(q))
    BY <1>3, <1>4, FreedClient DEF client_abort_client, How
  <2> QED BY <2>1, <1>3 DEF Released
<1>6. CASE ~ok
  BY <1>1, <1>5, <1>6 DEF client_socks_recv_send_out
<1>7. CASE ok /\ q.socks_recv_buf_sent >= q.socks_recv_buf_used
  <2>1. client_socks_recv_send_out(c, w, ok) = [q EXCEPT !.socks_recv_buf_used = -1]
    BY <1>1, <1>7 DEF client_socks_recv_send_out
  <2>2. c.socks_recv_buf_sent + w = c.socks_recv_buf_used
    BY <1>2, <1>3, <1>7, SizesAssumption DEF Client
  <2> QED BY <1>1, <2>1, <2>2
<1>8. CASE ok /\ q.socks_recv_buf_sent < q.socks_recv_buf_used
  <2>0. ~(q.socks_recv_buf_sent >= q.socks_recv_buf_used)
    BY <1>3, <1>8 DEF Client
  <2>1. CASE q.socks_recv_tcp_pending = 0
    BY <1>1, <1>5, <1>8, <2>0, <2>1 DEF client_socks_recv_send_out
  <2>2. CASE q.socks_recv_tcp_pending # 0
    <3>1. client_socks_recv_send_out(c, w, ok) = [q EXCEPT !.socks_recv_waiting = TRUE]
      BY <1>1, <1>8, <2>0, <2>2 DEF client_socks_recv_send_out
    <3>2. c.socks_recv_tcp_pending + w > 0
      BY <1>2, <1>3, <2>2
    <3> QED BY <1>1, <1>3, <1>8, <3>1, <3>2, Zenon
  <2> QED BY <2>1, <2>2
<1> QED BY <1>3, <1>6, <1>7, <1>8 DEF Client
-----------------------------------------------------------------------------
(* Each action preserves IInv. *)

(* listener_accept_func keeps the invariant, whatever malloc() left. *)
LEMMA AcceptIInv == ASSUME IInv, Accept PROVE IInv'
<1>1. PICK g \in Garbage, b \in BOOLEAN :
        client' = [NewClient("live", g, b) EXCEPT !.dead_client = "entered"]
  BY DEF Accept, DEAD_ENTER
<1>2. g \in Int /\ 0 \in 0..TCP_WND /\ TCP_WND \in 0..TCP_WND
  BY SizesAssumption
<1>c. PICK c : c = NewClient("live", g, b)
  OBVIOUS
<1>d. c \in Client /\ LiveInv(c) /\ c.buf_off = 0 /\ c.buf_used = 0 /\ ~c.socks_up
  BY <1>c, <1>2, SizesAssumption DEF Client, NewClient, LiveInv, UpSide
<1>e. SameButDead(c, client')
  BY <1>1, <1>c, <1>d, DeadOnly
<1>3. client' \in Client /\ LiveInv(client')
  BY <1>d, <1>e, SameLives DEF SameButDead
<1>4. StreamInv'
  BY <1>d, <1>e DEF SameButDead, Accept, IInv, StreamInv, UpStreamInOrder, DownStreamInOrder, Live
<1> QED BY <1>3, <1>4 DEF Accept, IInv, TypeOK

(* A failed listener_accept_func leaves nothing behind. *)
LEMMA AcceptFailsIInv == ASSUME IInv, AcceptFails PROVE IInv'
<1>1. PICK c : c = NewClient("freed", 0, FALSE)
  BY Zenon
<1>2. c \in Client /\ c.entry = "freed"
  BY <1>1, SizesAssumption DEF NewClient, Client
<1>3. client' \in Client /\ client'.entry = "freed"
  BY <1>1, <1>2, ZenonT(40) DEF AcceptFails, Client
<1> QED
  BY <1>3, Zenon DEF AcceptFails, IInv, TypeOK, StreamInv, UpStreamInOrder, DownStreamInOrder, Live

(* What every lwIP callback may rely on. *)
LEMMA LwipPre ==
  ASSUME IInv, LwipMayCall
  PROVE  /\ client \in Client /\ client.entry = "live" /\ ~client.client_closed
         /\ LiveInv(client) /\ UpSide(client)
  BY DEF IInv, TypeOK, LwipMayCall, Live, LiveInv

(* client_recv_func with data keeps the invariant. *)
LEMMA RecvDataIInv == ASSUME NEW n \in 1..TCP_WND, IInv, RecvData(n) PROVE IInv'
<1>0. /\ client \in Client /\ Live /\ LiveInv(client) /\ ~client.client_closed
      /\ client.rcv_wnd + client.buf_used = TCP_WND /\ n <= client.rcv_wnd
      /\ client.recv_cb /\ ~client.socks_closed
  BY DEF IInv, TypeOK, RecvData, LwipMayCall, LiveInv
<1>1. n <= TCP_WND - client.buf_used
  BY <1>0, SizesAssumption DEF Client
<1>2. client.rcv_wnd - n \in 0..TCP_WND /\ client.buf_used + n \in 0..TCP_WND
  BY <1>0, <1>1, SizesAssumption DEF Client
<1>3. PICK c : c = [client EXCEPT !.rcv_wnd = client.rcv_wnd - n,
                                  !.buf_used = client.buf_used + n]
  OBVIOUS
<1>4. c \in Client /\ [c EXCEPT !.sending = c.buf_used] \in Client
  BY <1>0, <1>2, <1>3, ZenonT(40) DEF Client
<1>e. PICK e : e = IF c.buf_used = n /\ c.socks_up
                   THEN [c EXCEPT !.sending = c.buf_used] ELSE c
  OBVIOUS
<1>f. e \in Client
  BY <1>4, <1>e
<1>5. /\ client' = e \/ client' = [e EXCEPT !.dead_client = "entered"]
      /\ up_rx' = up_rx + n /\ pbuf' \in {"held", "none"}
      /\ TypeOK'
  <2>1. /\ client' = IF c.buf_used = n /\ c.socks_up
                     THEN DEAD_ENTER([c EXCEPT !.sending = c.buf_used]) ELSE c
        /\ up_rx' = up_rx + n /\ pbuf' \in {"held", "none"}
        /\ cb' \in {"none", "recv"} /\ ret' \in {ret, "ERR_OK"}
    BY <1>1, <1>3 DEF RecvData, client_send_to_socks
  <2>2. client' = e \/ client' = [e EXCEPT !.dead_client = "entered"]
    BY <1>e, <2>1 DEF DEAD_ENTER
  <2>3. client' \in Client
    BY <1>f, <2>2, DeadOnly DEF SameButDead
  <2>4. TypeOK'
    BY <2>1, <2>3 DEF IInv, TypeOK, RecvData
  <2> QED BY <2>1, <2>2, <2>4
<1>g. LiveInv(e)
  BY <1>0, <1>2, <1>3, <1>4, <1>e, SizesAssumption
     DEF Client, LiveInv, UpSide, DownSide
<1>h. client' = e \/ SameButDead(e, client')
  BY <1>5, <1>f, DeadOnly
<1>6. LiveInv(client')
  BY <1>g, <1>h, SameLives
<1>7. StreamInv'
  <2>1. /\ client'.entry = "live" /\ client'.buf_off = client.buf_off
        /\ client'.buf_used = client.buf_used + n
        /\ client'.socks_up = client.socks_up
        /\ client'.client_closed = client.client_closed
        /\ client'.socks_recv_off = client.socks_recv_off
        /\ client'.socks_recv_buf_used = client.socks_recv_buf_used
        /\ client'.socks_recv_buf_sent = client.socks_recv_buf_sent
        /\ client'.socks_recv_tcp_pending = client.socks_recv_tcp_pending
    <3>1. /\ e.entry = "live" /\ e.buf_off = client.buf_off
          /\ e.buf_used = client.buf_used + n
          /\ e.socks_up = client.socks_up
          /\ e.client_closed = client.client_closed
          /\ e.socks_recv_off = client.socks_recv_off
          /\ e.socks_recv_buf_used = client.socks_recv_buf_used
          /\ e.socks_recv_buf_sent = client.socks_recv_buf_sent
          /\ e.socks_recv_tcp_pending = client.socks_recv_tcp_pending
      BY <1>0, <1>3, <1>e DEF Client, Live
    <3> QED BY <1>h, <3>1, Zenon DEF SameButDead
  <2>2. client.buf_off \in Nat /\ client.buf_used \in Nat /\ up_rx \in Nat /\ up_tx \in Nat
    BY <1>0, SizesAssumption DEF IInv, TypeOK, Client
  <2>3. UpStreamInOrder'
    BY <1>0, <1>5, <2>1, <2>2 DEF IInv, RecvData, StreamInv, UpStreamInOrder, Live
  <2> QED
    BY <1>0, <2>1, <2>3 DEF IInv, RecvData, StreamInv, DownStreamInOrder, Live
<1> QED BY <1>5, <1>6, <1>7 DEF IInv

(* client_recv_func at the FIN keeps the invariant. *)
LEMMA RecvFinIInv == ASSUME IInv, RecvFin PROVE IInv'
<1>1. Released(client, client') /\ Live
  BY LwipPre, FreedClient DEF RecvFin, LwipMayCall, Live, client_free_client
<1> QED
  BY <1>1, ReleasedIInv DEF RecvFin, IInv, TypeOK, Released

(* client_err_func keeps the invariant. *)
LEMMA ErrIInv == ASSUME IInv, client_err_func PROVE IInv'
<1>1. Released(client, client') /\ Live
  BY LwipPre, FreedClient DEF client_err_func, LwipMayCall, Live
<1> QED
  BY <1>1, ReleasedIInv DEF client_err_func, IInv, TypeOK, Released

(* A FIN nobody is told of changes nothing. *)
LEMMA FinUnseenIInv == ASSUME IInv, FinUnseen PROVE IInv'
  BY DEF FinUnseen, IInv, TypeOK, Live, StreamInv, UpStreamInOrder, DownStreamInOrder

(* Returning from SYNC_COMMIT changes nothing of the struct but dead_client. *)
LEMMA SyncSame == ASSUME IInv, SyncReturn PROVE SameButDead(client, client')
<1>1. client \in Client
  BY DEF IInv, TypeOK
<1>2. CASE client.dead_client = "killed"
  <2>1. client' = client
    BY <1>2 DEF SyncReturn
  <2> QED BY <1>1, <2>1, Zenon DEF SameButDead
<1>3. CASE client.dead_client # "killed"
  <2>1. client' = [client EXCEPT !.dead_client = "null"]
    BY <1>3 DEF SyncReturn
  <2> QED BY <1>1, <2>1, DeadOnly
<1> QED BY <1>2, <1>3

LEMMA SyncReturnIInv == ASSUME IInv, SyncReturn PROVE IInv'
<1>1. SameButDead(client, client')
  BY SyncSame
<1>2. TypeOK' /\ pbuf' # "refused"
  BY <1>1 DEF SyncReturn, IInv, TypeOK, SameButDead
<1>3. StreamInv'
  BY <1>1 DEF SyncReturn, SameButDead, IInv, Live, StreamInv, UpStreamInOrder, DownStreamInOrder
<1>4. Live' => LiveInv(client')
  BY <1>1, SameLives DEF IInv, Live, SameButDead
<1> QED BY <1>2, <1>3, <1>4 DEF IInv

(* client_murder keeps the invariant: the struct is gone. *)
LEMMA MurderIInv == ASSUME IInv, client_murder PROVE IInv'
<1>1. client \in Client
  BY DEF IInv, TypeOK
<1>2. PICK c \in Client : client' = client_dealloc(c)
  <2>0. DropPcb(client, "aborted") \in Client
    BY <1>1, Zenon DEF DropPcb, Client
  <2>k. DEAD_KILL(DropPcb(client, "aborted")) \in Client
    BY <2>0, KillOnly DEF SameButDead
  <2>1. [DEAD_KILL(DropPcb(client, "aborted")) EXCEPT !.client_closed = TRUE] \in Client
    BY <2>k, Zenon DEF Client
  <2> QED BY <1>1, <2>1, SocksFreed DEF client_murder
<1>3. client' \in Client /\ client'.entry = "freed"
  BY <1>2, SocksFreed
<1> QED
  BY <1>3 DEF client_murder, IInv, TypeOK, StreamInv, UpStreamInOrder, DownStreamInOrder, Live

(* client_free_socks of an open SOCKS connection keeps the invariant. *)
LEMMA SocksDownIInv ==
  ASSUME IInv, Live, ~client.socks_closed, NEW how \in How,
         client' = client_free_socks(client, how),
         UNCHANGED <<cb, pbuf, ret, fin, up_rx, up_tx, dn_rx, dn_q, dn_ack>>
  PROVE  IInv'
<1>1. Released(client, client') \/ Drained(client, client')
  BY FreedSocks DEF IInv, TypeOK, Live
<1>2. TypeOK'
  BY <1>1 DEF IInv, TypeOK, Released, Drained
<1>3. CASE Released(client, client')
  BY <1>2, <1>3, ReleasedIInv DEF IInv
<1>4. CASE Drained(client, client')
  BY <1>2, <1>4 DEF IInv, Drained, Live, StreamInv, UpStreamInOrder, DownStreamInOrder
<1> QED BY <1>1, <1>3, <1>4

(* client_socks_handler at an error or at EOF keeps the invariant. *)
LEMMA SocksErrorIInv == ASSUME IInv, SocksError \/ SocksClosed PROVE IInv'
  BY SocksDownIInv DEF SocksError, SocksClosed, RecvJobMayRun

(* client_socks_handler at BSOCKSCLIENT_EVENT_UP keeps the invariant. *)
LEMMA SocksUpIInv == ASSUME IInv, SocksUp PROVE IInv'
<1>0. /\ client \in Client /\ client.entry = "live" /\ LiveInv(client)
      /\ ~client.socks_closed /\ ~client.socks_up
  BY DEF IInv, TypeOK, SocksUp, Live
<1>1. PICK c : c = [client EXCEPT !.socks_recv_buf_used = -1,
                                  !.socks_recv_tcp_pending = 0,
                                  !.sent_cb = ~client.client_closed,
                                  !.socks_up = TRUE]
  OBVIOUS
<1>2. PICK d : d = IF c.buf_used > 0 THEN [c EXCEPT !.sending = c.buf_used] ELSE c
  BY Zenon
<1>3. client' = IF ~d.client_closed THEN [d EXCEPT !.receiving = TRUE] ELSE d
  BY <1>1, <1>2 DEF SocksUp, client_send_to_socks, client_socks_recv_initiate
<1>4. /\ c \in Client /\ c.entry = "live" /\ c.socks_up
      /\ c.socks_recv_buf_used = -1 /\ c.socks_recv_tcp_pending = 0
      /\ c.sent_cb = ~c.client_closed
      /\ c.pcb = client.pcb /\ c.recv_cb = client.recv_cb
      /\ c.rcv_wnd = client.rcv_wnd /\ c.client_closed = client.client_closed
      /\ c.buf_off = client.buf_off /\ c.buf_used = client.buf_used
      /\ c.socks_closed = client.socks_closed
      /\ c.sending = 0 /\ ~c.receiving
  <2>1. -1 \in Int /\ 0 \in Int /\ (~client.client_closed) \in BOOLEAN
    OBVIOUS
  <2> QED BY <1>0, <1>1, <2>1, ZenonT(40) DEF Client, LiveInv, UpSide
<1>5. /\ d \in Client /\ d.entry = "live" /\ d.socks_up
      /\ d.socks_recv_buf_used = -1 /\ d.socks_recv_tcp_pending = 0
      /\ d.sent_cb = ~d.client_closed
      /\ d.pcb = client.pcb /\ d.recv_cb = client.recv_cb
      /\ d.rcv_wnd = client.rcv_wnd /\ d.client_closed = client.client_closed
      /\ d.buf_off = client.buf_off /\ d.buf_used = client.buf_used
      /\ d.socks_closed = client.socks_closed
      /\ d.sending = d.buf_used /\ ~d.receiving
  BY <1>2, <1>4, SizesAssumption DEF Client
<1>6. /\ client' \in Client /\ client'.entry = "live" /\ client'.socks_up
      /\ client'.socks_recv_buf_used = -1 /\ client'.socks_recv_tcp_pending = 0
      /\ client'.sent_cb = ~client'.client_closed
      /\ client'.pcb = client.pcb /\ client'.recv_cb = client.recv_cb
      /\ client'.rcv_wnd = client.rcv_wnd
      /\ client'.client_closed = client.client_closed
      /\ client'.buf_off = client.buf_off /\ client'.buf_used = client.buf_used
      /\ client'.socks_closed = client.socks_closed
      /\ client'.sending = client'.buf_used
      /\ client'.receiving = ~client'.client_closed
  BY <1>3, <1>5, ZenonT(40) DEF Client
<1>7. LiveInv(client')
  BY <1>0, <1>6, SizesAssumption DEF Client, LiveInv, UpSide, DownSide
<1>8. StreamInv'
  <2>1. UNCHANGED <<up_rx, up_tx, dn_rx, dn_q, dn_ack>>
    BY DEF SocksUp
  <2>2. /\ up_tx = client.buf_off /\ up_rx = up_tx + client.buf_used
        /\ dn_rx = 0 /\ dn_q = 0 /\ dn_ack = 0
    BY <1>0 DEF IInv, StreamInv, UpStreamInOrder, Live
  <2>3. UpStreamInOrder'
    BY <1>6, <2>1, <2>2 DEF UpStreamInOrder
  <2>4. DownStreamInOrder'
    BY <1>6, <2>1, <2>2 DEF DownStreamInOrder
  <2> QED BY <1>6, <2>1, <2>2, <2>3, <2>4 DEF StreamInv, Live
<1> QED BY <1>6, <1>7, <1>8 DEF SocksUp, IInv, TypeOK

(* client_socks_send_handler_done keeps the invariant. *)
LEMMA SendDoneIInv ==
  ASSUME NEW n \in 1..TCP_WND, IInv, client_socks_send_handler_done(n) PROVE IInv'
<1>0. /\ client \in Client /\ client.entry = "live" /\ LiveInv(client)
      /\ ~client.socks_closed /\ n <= client.sending
      /\ client.socks_up /\ client.sending <= client.buf_used
      /\ client.buf_used \in Nat /\ client.sending \in Nat /\ client.rcv_wnd \in Nat
  BY SizesAssumption
     DEF IInv, TypeOK, client_socks_send_handler_done, SendJobMayRun, Live, LiveInv, UpSide, Client
<1>1. PICK c : c = [client EXCEPT !.sending = 0, !.buf_off = client.buf_off + n,
                                  !.buf_used = client.buf_used - n]
  OBVIOUS
<1>2. PICK d : d = IF ~c.client_closed
                   THEN [c EXCEPT !.rcv_wnd = Min2(c.rcv_wnd + n, TCP_WND)] ELSE c
  BY Zenon
<1>3. /\ 0 \in 0..TCP_WND /\ client.buf_off + n \in Nat
      /\ client.buf_used - n \in 0..TCP_WND
      /\ Min2(client.rcv_wnd + n, TCP_WND) \in 0..TCP_WND
      /\ ~client.client_closed => Min2(client.rcv_wnd + n, TCP_WND) = client.rcv_wnd + n
  BY <1>0, SizesAssumption DEF Client, Min2, LiveInv
<1>4. /\ c \in Client /\ c.entry = "live" /\ c.sending = 0
      /\ c.buf_off = client.buf_off + n /\ c.buf_used = client.buf_used - n
      /\ c.rcv_wnd = client.rcv_wnd /\ c.client_closed = client.client_closed
      /\ c.pcb = client.pcb /\ c.recv_cb = client.recv_cb /\ c.sent_cb = client.sent_cb
      /\ c.socks_up /\ ~c.socks_closed /\ c.receiving = client.receiving
      /\ c.socks_recv_off = client.socks_recv_off
      /\ c.socks_recv_buf_used = client.socks_recv_buf_used
      /\ c.socks_recv_buf_sent = client.socks_recv_buf_sent
      /\ c.socks_recv_tcp_pending = client.socks_recv_tcp_pending
      /\ c.socks_recv_waiting = client.socks_recv_waiting
  BY <1>0, <1>1, <1>3, Zenon DEF Client
<1>5. /\ d \in Client /\ d.entry = "live" /\ d.sending = 0
      /\ d.buf_off = client.buf_off + n /\ d.buf_used = client.buf_used - n
      /\ d.client_closed = client.client_closed
      /\ ~d.client_closed => d.rcv_wnd = client.rcv_wnd + n
      /\ d.pcb = client.pcb /\ d.recv_cb = client.recv_cb /\ d.sent_cb = client.sent_cb
      /\ d.socks_up /\ ~d.socks_closed /\ d.receiving = client.receiving
      /\ d.socks_recv_off = client.socks_recv_off
      /\ d.socks_recv_buf_used = client.socks_recv_buf_used
      /\ d.socks_recv_buf_sent = client.socks_recv_buf_sent
      /\ d.socks_recv_tcp_pending = client.socks_recv_tcp_pending
      /\ d.socks_recv_waiting = client.socks_recv_waiting
  BY <1>2, <1>3, <1>4 DEF Client
<1>6. /\ IF d.buf_used > 0 THEN client' = client_send_to_socks(d)
         ELSE IF d.client_closed
         THEN \E how \in How : client' = client_free_socks(d, how)
         ELSE client' = d
      /\ up_tx' = client.buf_off + n
      /\ UNCHANGED <<cb, pbuf, ret, fin, up_rx, dn_rx, dn_q, dn_ack>>
  BY <1>1, <1>2 DEF client_socks_send_handler_done, tcp_recved
<1>7. CASE d.buf_used > 0 \/ ~d.client_closed
  <2>1. client' = [d EXCEPT !.sending = d.buf_used]
    BY <1>5, <1>6, <1>7 DEF client_send_to_socks, Client
  <2>2. /\ client' \in Client /\ client'.entry = "live" /\ client'.sending = client'.buf_used
        /\ client'.buf_off = client.buf_off + n /\ client'.buf_used = client.buf_used - n
        /\ client'.client_closed = client.client_closed
        /\ ~client'.client_closed => client'.rcv_wnd = client.rcv_wnd + n
        /\ client'.pcb = client.pcb /\ client'.recv_cb = client.recv_cb
        /\ client'.sent_cb = client.sent_cb
        /\ client'.socks_up /\ ~client'.socks_closed
        /\ client'.receiving = client.receiving
        /\ client'.socks_recv_off = client.socks_recv_off
        /\ client'.socks_recv_buf_used = client.socks_recv_buf_used
        /\ client'.socks_recv_buf_sent = client.socks_recv_buf_sent
        /\ client'.socks_recv_tcp_pending = client.socks_recv_tcp_pending
        /\ client'.socks_recv_waiting = client.socks_recv_waiting
    BY <1>5, <2>1 DEF Client
  <2>3. LiveInv(client')
    <3>1. client'.client_closed => client'.buf_used > 0
      BY <1>5, <1>7, <2>2
    <3> QED BY <1>0, <1>3, <2>2, <3>1 DEF LiveInv, UpSide, DownSide, Client
  <2>4. UpStreamInOrder'
    BY <1>0, <1>6, <2>2 DEF IInv, TypeOK, StreamInv, UpStreamInOrder, Live, Client
  <2>5. StreamInv'
    BY <1>0, <1>6, <2>2, <2>4 DEF IInv, StreamInv, DownStreamInOrder, Live
  <2>6. TypeOK'
    BY <1>3, <1>6, <2>2 DEF IInv, TypeOK
  <2> QED BY <1>6, <2>3, <2>5, <2>6 DEF IInv
<1>8. CASE ~(d.buf_used > 0) /\ d.client_closed
  <2>1. PICK how \in How : client' = client_free_socks(d, how)
    BY <1>6, <1>8
  <2>2. PICK e : e = [d EXCEPT !.recv_cb = d.recv_cb /\ ~(d.socks_up /\ ~d.client_closed)]
    BY Zenon
  <2>3. e \in Client /\ e.client_closed
    BY <1>5, <1>8, <2>2 DEF Client
  <2>4. client' = client_dealloc(BSocksClient_Free(e))
    BY <1>8, <2>1, <2>2, <2>3, SocksFreed, ZenonT(40) DEF client_free_socks
  <2>5. client' \in Client /\ client'.entry = "freed"
    BY <2>3, <2>4, SocksFreed
  <2> QED
    BY <1>3, <1>6, <2>5
       DEF IInv, TypeOK, StreamInv, UpStreamInOrder, DownStreamInOrder, Live
<1> QED BY <1>7, <1>8
(* The two handlers that push socks_recv_buf out and then go on receiving. *)
Relayed(c, w, e) ==
  /\ e \in Client /\ e.entry = "live" /\ LiveInv(e)
  /\ ~e.client_closed /\ e.socks_up
  /\ e.buf_off = c.buf_off /\ e.buf_used = c.buf_used
  /\ e.socks_recv_tcp_pending = c.socks_recv_tcp_pending + w
  /\ e.socks_recv_off = c.socks_recv_off
  /\ e.socks_recv_buf_sent = c.socks_recv_buf_sent + w
  /\ \/ e.socks_recv_buf_used = -1 /\ c.socks_recv_buf_sent + w = c.socks_recv_buf_used
     \/ e.socks_recv_buf_used = c.socks_recv_buf_used /\ e.socks_recv_buf_used # -1

(* client_socks_recv_send_out followed by the next receive: the client is *)
(* given up, or the relay goes on from w bytes further.                   *)
LEMMA RelayOut ==
  ASSUME NEW c \in Client, SendOutPre(c), NEW w \in Writable(c), NEW ok \in BOOLEAN,
         c.pcb = "open", c.sent_cb, ~c.receiving, c.recv_cb => ~c.socks_closed,
         c.rcv_wnd + c.buf_used = TCP_WND,
         NEW d, d = client_socks_recv_send_out(c, w, ok),
         NEW e, e = IF ~d.client_closed /\ d.socks_recv_buf_used = -1 /\ ~d.socks_closed
                    THEN client_socks_recv_initiate(d) ELSE d
  PROVE  \/ d.client_closed /\ e = d /\ Released(c, e)
         \/ ~d.client_closed /\ d.socks_closed = c.socks_closed /\ Relayed(c, w, e)
<1>0. /\ w \in Nat /\ c.socks_recv_buf_sent + w <= c.socks_recv_buf_used
      /\ c.socks_recv_tcp_pending + w \in 0..TCP_SND_BUF
      /\ c.socks_recv_buf_sent + w \in Int /\ c.socks_recv_tcp_pending + w \in Int
  BY WritableRange DEF Client
<1>1. CASE Released(c, d)
  BY <1>1 DEF Released
<1>2. CASE /\ d = [c EXCEPT !.socks_recv_buf_sent = c.socks_recv_buf_sent + w,
                            !.socks_recv_tcp_pending = c.socks_recv_tcp_pending + w,
                            !.socks_recv_buf_used = -1]
           /\ c.socks_recv_buf_sent + w = c.socks_recv_buf_used
  <2>1. -1 \in Int
    OBVIOUS
  <2>2. /\ d \in Client /\ d.entry = "live" /\ ~d.client_closed
        /\ d.buf_off = c.buf_off /\ d.buf_used = c.buf_used
        /\ d.socks_recv_buf_used = -1 /\ d.socks_recv_off = c.socks_recv_off
        /\ d.socks_recv_buf_sent = c.socks_recv_buf_sent + w
        /\ d.socks_recv_tcp_pending = c.socks_recv_tcp_pending + w
        /\ d.pcb = c.pcb /\ d.sent_cb = c.sent_cb /\ d.recv_cb = c.recv_cb
        /\ d.receiving = c.receiving /\ d.rcv_wnd = c.rcv_wnd /\ d.sending = c.sending
        /\ d.socks_up /\ d.socks_closed = c.socks_closed
    <3>1. c.socks_recv_buf_sent + w \in Int /\ c.socks_recv_tcp_pending + w \in Int
      BY <1>0 DEF Client
    <3>2. d \in Client
      BY <1>2, <2>1, <3>1, ZenonT(30) DEF Client
    <3>3. /\ d.entry = c.entry /\ d.client_closed = c.client_closed
          /\ d.buf_off = c.buf_off /\ d.buf_used = c.buf_used
          /\ d.socks_recv_buf_used = -1 /\ d.socks_recv_off = c.socks_recv_off
          /\ d.socks_recv_buf_sent = c.socks_recv_buf_sent + w
          /\ d.socks_recv_tcp_pending = c.socks_recv_tcp_pending + w
          /\ d.pcb = c.pcb /\ d.sent_cb = c.sent_cb /\ d.recv_cb = c.recv_cb
          /\ d.receiving = c.receiving /\ d.rcv_wnd = c.rcv_wnd /\ d.sending = c.sending
          /\ d.socks_up = c.socks_up /\ d.socks_closed = c.socks_closed
      BY <1>2, <2>1, <3>1, ZenonT(40) DEF Client
    <3> QED BY <3>2, <3>3 DEF SendOutPre
  <2>3. c.socks_recv_tcp_pending + w > 0
    BY <1>0, <1>2 DEF SendOutPre, Client
  <2>4. CASE d.socks_closed
    <3>1. e = d
      BY <2>4
    <3>2. LiveInv(d)
      BY <1>0, <2>2, <2>3, <2>4 DEF LiveInv, UpSide, DownSide, SendOutPre, Client
    <3> QED BY <1>2, <2>2, <3>1, <3>2, ZenonT(40) DEF Relayed
  <2>5. CASE ~d.socks_closed
    <3>1. e = [d EXCEPT !.receiving = TRUE]
      BY <2>2, <2>5 DEF client_socks_recv_initiate
    <3>2. /\ e \in Client /\ e.entry = "live" /\ ~e.client_closed
          /\ e.buf_off = c.buf_off /\ e.buf_used = c.buf_used
          /\ e.socks_recv_buf_used = -1 /\ e.socks_recv_off = c.socks_recv_off
          /\ e.socks_recv_buf_sent = c.socks_recv_buf_sent + w
          /\ e.socks_recv_tcp_pending = c.socks_recv_tcp_pending + w
          /\ e.pcb = c.pcb /\ e.sent_cb = c.sent_cb /\ e.recv_cb = c.recv_cb
          /\ e.receiving /\ e.rcv_wnd = c.rcv_wnd /\ e.sending = c.sending
          /\ e.socks_up /\ ~e.socks_closed
      <4>1. d \in Client
        BY <2>2
      <4>2. e \in Client /\ e.receiving
        BY <3>1, <4>1, ZenonT(30) DEF Client
      <4>3. /\ e.entry = d.entry /\ e.client_closed = d.client_closed
            /\ e.buf_off = d.buf_off /\ e.buf_used = d.buf_used
            /\ e.socks_recv_buf_used = d.socks_recv_buf_used
            /\ e.socks_recv_off = d.socks_recv_off
            /\ e.socks_recv_buf_sent = d.socks_recv_buf_sent
            /\ e.socks_recv_tcp_pending = d.socks_recv_tcp_pending
            /\ e.pcb = d.pcb /\ e.sent_cb = d.sent_cb /\ e.recv_cb = d.recv_cb
            /\ e.rcv_wnd = d.rcv_wnd /\ e.sending = d.sending
            /\ e.socks_up = d.socks_up /\ e.socks_closed = d.socks_closed
        BY <3>1, <4>1 DEF Client
      <4> QED BY <2>2, <2>5, <4>2, <4>3, ZenonT(30)
    <3>3. UpSide(e)
      BY <2>2, <2>5, <3>2 DEF UpSide, SendOutPre
    <3>4. DownSide(e)
      BY <1>0, <3>2, Zenon DEF DownSide
    <3>5. LiveInv(e)
      BY <3>2, <3>3, <3>4 DEF LiveInv
    <3> QED BY <1>2, <3>2, <3>5 DEF Relayed
  <2> QED BY <2>4, <2>5
<1>3. CASE /\ d = [c EXCEPT !.socks_recv_buf_sent = c.socks_recv_buf_sent + w,
                            !.socks_recv_tcp_pending = c.socks_recv_tcp_pending + w,
                            !.socks_recv_waiting = TRUE]
           /\ c.socks_recv_buf_sent + w < c.socks_recv_buf_used
           /\ c.socks_recv_tcp_pending + w > 0
  <2>1. c.socks_recv_buf_used # -1 /\ c.socks_recv_buf_sent + w >= 0
    BY <1>0, <1>3 DEF SendOutPre, Client
  <2>2. /\ d \in Client /\ d.entry = "live" /\ ~d.client_closed
        /\ d.buf_off = c.buf_off /\ d.buf_used = c.buf_used
        /\ d.socks_recv_buf_used = c.socks_recv_buf_used
        /\ d.socks_recv_off = c.socks_recv_off
        /\ d.socks_recv_buf_sent = c.socks_recv_buf_sent + w
        /\ d.socks_recv_tcp_pending = c.socks_recv_tcp_pending + w
        /\ d.pcb = c.pcb /\ d.sent_cb = c.sent_cb /\ d.recv_cb = c.recv_cb
        /\ ~d.receiving /\ d.rcv_wnd = c.rcv_wnd /\ d.sending = c.sending
        /\ d.socks_up /\ d.socks_closed = c.socks_closed /\ d.socks_recv_waiting
    <3>1. c.socks_recv_buf_sent + w \in Int /\ c.socks_recv_tcp_pending + w \in Int
      BY <1>0 DEF Client
    <3>2. d \in Client
      BY <1>3, <3>1, ZenonT(90) DEF Client
    <3>3. /\ d.entry = c.entry /\ d.client_closed = c.client_closed
          /\ d.buf_off = c.buf_off /\ d.buf_used = c.buf_used
          /\ d.socks_recv_buf_used = c.socks_recv_buf_used
          /\ d.socks_recv_off = c.socks_recv_off
          /\ d.socks_recv_buf_sent = c.socks_recv_buf_sent + w
          /\ d.socks_recv_tcp_pending = c.socks_recv_tcp_pending + w
          /\ d.pcb = c.pcb /\ d.sent_cb = c.sent_cb /\ d.recv_cb = c.recv_cb
          /\ d.receiving = c.receiving /\ d.rcv_wnd = c.rcv_wnd /\ d.sending = c.sending
          /\ d.socks_up = c.socks_up /\ d.socks_closed = c.socks_closed
          /\ d.socks_recv_waiting
      BY <1>3, <3>1, ZenonT(40) DEF Client
    <3> QED BY <3>2, <3>3 DEF SendOutPre
  <2>3. e = d
    BY <2>1, <2>2
  <2>4. LiveInv(d)
    BY <1>0, <1>3, <2>1, <2>2 DEF LiveInv, UpSide, DownSide, SendOutPre, Client
  <2> QED BY <2>1, <2>2, <2>3, <2>4 DEF Relayed
<1> QED BY <1>1, <1>2, <1>3, SendOut, Zenon

(* client_socks_recv_handler_done keeps the invariant. *)
LEMMA RecvDoneIInv ==
  ASSUME NEW n \in 1..CLIENT_SOCKS_RECV_BUF_SIZE, IInv, client_socks_recv_handler_done(n)
  PROVE  IInv'
<1>0. /\ client \in Client /\ client.entry = "live" /\ LiveInv(client)
      /\ ~client.socks_closed /\ client.receiving /\ client.socks_up
      /\ n \in Nat /\ n > 0 /\ dn_rx \in Nat /\ dn_q \in Nat /\ dn_ack \in Nat
  BY SizesAssumption
     DEF IInv, TypeOK, client_socks_recv_handler_done, RecvJobMayRun, Live, LiveInv, UpSide
<1>1. dn_rx' = dn_rx + n /\ UNCHANGED <<cb, pbuf, ret, fin, up_rx, up_tx, dn_ack>>
  BY DEF client_socks_recv_handler_done
<1>2. CASE client.client_closed
  <2>1. client' = [client EXCEPT !.receiving = FALSE] /\ dn_q' = dn_q
    BY <1>2 DEF client_socks_recv_handler_done
  <2>2. /\ client' \in Client /\ client'.entry = "live" /\ client'.client_closed
        /\ client'.buf_off = client.buf_off /\ client'.buf_used = client.buf_used
        /\ client'.pcb = client.pcb /\ client'.recv_cb = client.recv_cb
        /\ client'.socks_closed = client.socks_closed /\ client'.socks_up
        /\ client'.sending = client.sending
    BY <1>0, <1>2, <2>1, Zenon DEF Client
  <2>3. LiveInv(client')
    BY <1>0, <1>2, <2>2 DEF LiveInv, UpSide
  <2>4. StreamInv'
    BY <1>0, <1>1, <1>2, <2>2
       DEF IInv, StreamInv, UpStreamInOrder, DownStreamInOrder, Live
  <2> QED BY <1>0, <1>1, <2>1, <2>2, <2>3, <2>4 DEF IInv, TypeOK
<1>3. CASE ~client.client_closed
  <2>1. PICK c : c = [client EXCEPT !.receiving = FALSE, !.socks_recv_off = dn_rx,
                                    !.socks_recv_buf_used = n,
                                    !.socks_recv_buf_sent = 0,
                                    !.socks_recv_waiting = FALSE]
    OBVIOUS
  <2>2. PICK w \in Writable(c), ok \in BOOLEAN :
          LET d == client_socks_recv_send_out(c, w, ok) IN
          /\ client' = IF ~d.client_closed /\ d.socks_recv_buf_used = -1
                       THEN client_socks_recv_initiate(d) ELSE d
          /\ dn_q' = Queued(c, w)
    BY <1>3, <2>1 DEF client_socks_recv_handler_done
  <2>3. /\ c \in Client /\ c.entry = "live" /\ ~c.client_closed /\ c.socks_up
        /\ c.buf_off = client.buf_off /\ c.buf_used = client.buf_used
        /\ c.sending = client.sending /\ c.pcb = "open" /\ c.sent_cb
        /\ ~c.receiving /\ ~c.socks_closed /\ c.rcv_wnd = client.rcv_wnd
        /\ c.socks_recv_tcp_pending = client.socks_recv_tcp_pending
        /\ c.socks_recv_buf_used = n /\ c.socks_recv_buf_sent = 0
        /\ c.socks_recv_off = dn_rx
    <3>1. n \in Int /\ 0 \in Int
      BY <1>0
    <3> QED BY <1>0, <1>3, <2>1, <3>1, ZenonT(40) DEF Client, LiveInv, DownSide
  <2>4. SendOutPre(c) /\ c.rcv_wnd + c.buf_used = TCP_WND
    BY <1>0, <1>3, <2>3 DEF SendOutPre, LiveInv, UpSide, DownSide
  <2>5. w \in Nat /\ w <= n
    BY <1>0, <2>2, <2>3, <2>4, WritableRange
  <2>6. PICK d : d = client_socks_recv_send_out(c, w, ok)
    OBVIOUS
  <2>7. PICK e : e = IF ~d.client_closed /\ d.socks_recv_buf_used = -1 /\ ~d.socks_closed
                     THEN client_socks_recv_initiate(d) ELSE d
    OBVIOUS
  <2>8. \/ d.client_closed /\ e = d /\ Released(c, e)
        \/ ~d.client_closed /\ d.socks_closed = c.socks_closed /\ Relayed(c, w, e)
    BY <2>2, <2>3, <2>4, <2>6, <2>7, RelayOut
  <2>9. client' = e
    BY <2>2, <2>3, <2>6, <2>7, <2>8
  <2>11. /\ dn_q' \in Nat
         /\ dn_rx = dn_q /\ dn_q = dn_ack + client.socks_recv_tcp_pending
         /\ dn_q' = dn_rx + w
    <3>1. dn_rx = dn_q /\ dn_q = dn_ack + client.socks_recv_tcp_pending
      BY <1>0, <1>3 DEF IInv, StreamInv, DownStreamInOrder, Live, LiveInv, DownSide
    <3> QED BY <1>0, <2>2, <2>3, <2>5, <3>1 DEF Queued
  <2>12. TypeOK'
    BY <1>0, <1>1, <2>9, <2>8, <2>11 DEF IInv, TypeOK, Released, Relayed
  <2>13. CASE Released(c, e)
    <3>1. Released(client, client')
      BY <1>0, <2>3, <2>9, <2>13, Zenon DEF Released
    <3> QED BY <1>0, <1>1, <2>12, <3>1, ReleasedIInv DEF IInv, Live
  <2>14. CASE Relayed(c, w, e)
    <3>1. UpStreamInOrder'
      BY <1>0, <1>1, <2>3, <2>9, <2>14
         DEF Relayed, IInv, StreamInv, UpStreamInOrder, Live
    <3>2. dn_q' = dn_ack' + client'.socks_recv_tcp_pending
      BY <1>0, <1>1, <2>3, <2>5, <2>9, <2>11, <2>14 DEF Relayed, Client
    <3>3. DownStreamInOrder'
      BY <1>0, <1>1, <2>3, <2>5, <2>9, <2>11, <2>14, <3>2 DEF Relayed, DownStreamInOrder
    <3>4. StreamInv'
      BY <2>9, <2>14, <3>1, <3>3 DEF StreamInv, Relayed, Live
    <3> QED BY <1>1, <2>9, <2>12, <2>14, <3>4 DEF IInv, Relayed
  <2> QED BY <2>8, <2>13, <2>14
<1> QED BY <1>2, <1>3

(* What client_sent_func may rely on: no more is acknowledged than is *)
(* pending.                                                           *)
LEMMA SentPre ==
  ASSUME NEW n \in 1..TCP_SND_BUF, IInv, client_sent_func(n)
  PROVE  /\ client \in Client /\ client.entry = "live" /\ LiveInv(client)
         /\ client.pcb = "open" /\ ~client.client_closed /\ client.socks_up
         /\ UpSide(client) /\ DownSide(client)
         /\ client.rcv_wnd + client.buf_used = TCP_WND
         /\ client.recv_cb => ~client.socks_closed
         /\ n \in Nat /\ n > 0
         /\ dn_rx \in Nat /\ dn_q \in Nat /\ dn_ack \in Nat
         /\ dn_q = dn_ack + client.socks_recv_tcp_pending
         /\ client.socks_recv_tcp_pending - n \in 0..TCP_SND_BUF
         /\ dn_ack' = dn_ack + n
         /\ UNCHANGED <<pbuf, fin, up_rx, up_tx, dn_rx>>
<1>1. /\ client \in Client /\ client.entry = "live" /\ LiveInv(client)
      /\ client.pcb = "open" /\ client.sent_cb
      /\ dn_rx \in Nat /\ dn_q \in Nat /\ dn_ack \in Nat
      /\ n <= dn_q - dn_ack /\ dn_ack' = dn_ack + n
      /\ UNCHANGED <<pbuf, fin, up_rx, up_tx, dn_rx>>
  BY DEF IInv, TypeOK, client_sent_func, LwipMayCall, Live
<1>2. /\ ~client.client_closed /\ client.socks_up /\ UpSide(client) /\ DownSide(client)
      /\ client.rcv_wnd + client.buf_used = TCP_WND
      /\ client.recv_cb => ~client.socks_closed
  BY <1>1 DEF LiveInv, UpSide, Client
<1>3. dn_q = dn_ack + client.socks_recv_tcp_pending
  BY <1>1, <1>2 DEF IInv, StreamInv, DownStreamInOrder, Live
<1>4. n \in Nat /\ n > 0 /\ client.socks_recv_tcp_pending - n \in 0..TCP_SND_BUF
  <2>1. n \in Nat /\ n > 0 /\ TCP_SND_BUF \in Nat
    BY SizesAssumption
  <2>2. client.socks_recv_tcp_pending \in 0..TCP_SND_BUF
    BY <1>2 DEF DownSide
  <2> QED BY <1>1, <1>3, <2>1, <2>2
<1> QED BY <1>1, <1>2, <1>3, <1>4

(* client_sent_func that resumes in the middle of socks_recv_buf. *)
LEMMA SentMoreIInv ==
  ASSUME NEW n \in 1..TCP_SND_BUF, IInv, client_sent_func(n),
         client.socks_recv_buf_used > 0
  PROVE  IInv'
<1>1. PICK p : p = client.socks_recv_tcp_pending - n
  OBVIOUS
<1>2. p \in Int /\ p \in 0..TCP_SND_BUF /\ dn_q = dn_ack' + p
  BY <1>1, SentPre DEF Client
<1>3. PICK c : c = [client EXCEPT !.socks_recv_tcp_pending = p, !.socks_recv_waiting = FALSE]
  OBVIOUS
<1>4. PICK w \in Writable(c), ok \in BOOLEAN :
        LET d    == client_socks_recv_send_out(c, w, ok)
            more == ~d.client_closed /\ d.socks_recv_buf_used = -1 /\ ~d.socks_closed
        IN /\ client' = IF more THEN DEAD_ENTER(client_socks_recv_initiate(d)) ELSE d
           /\ cb' = IF more THEN "sent" ELSE "none"
           /\ ret' = IF d.client_closed THEN "ERR_ABRT" ELSE IF more THEN ret ELSE "ERR_OK"
           /\ dn_q' = Queued(c, w)
  BY <1>1, <1>3 DEF client_sent_func, SentMore
<1>5. /\ c \in Client /\ c.entry = "live" /\ ~c.client_closed /\ c.socks_up
      /\ c.buf_off = client.buf_off /\ c.buf_used = client.buf_used
      /\ c.sending = client.sending /\ c.receiving = client.receiving
      /\ c.pcb = "open" /\ c.sent_cb = client.sent_cb /\ c.recv_cb = client.recv_cb
      /\ c.socks_closed = client.socks_closed /\ c.rcv_wnd = client.rcv_wnd
      /\ c.socks_recv_tcp_pending = p
      /\ c.socks_recv_buf_used = client.socks_recv_buf_used
      /\ c.socks_recv_buf_sent = client.socks_recv_buf_sent
      /\ c.socks_recv_off = client.socks_recv_off
  BY <1>2, <1>3, SentPre, ZenonT(40) DEF Client
<1>6. UpSide(c)
  BY <1>5, SentPre DEF UpSide
<1>7. c.sent_cb /\ ~c.receiving /\ c.socks_recv_buf_sent >= 0
      /\ c.socks_recv_buf_sent < c.socks_recv_buf_used
  BY <1>5, SentPre DEF DownSide, Client
<1>8. SendOutPre(c)
  BY <1>2, <1>5, <1>6, <1>7 DEF SendOutPre
<1>9. (c.recv_cb => ~c.socks_closed) /\ c.rcv_wnd + c.buf_used = TCP_WND
  BY <1>5, SentPre
<1>10. /\ w \in Nat /\ c.socks_recv_buf_sent + w <= c.socks_recv_buf_used
       /\ p + w \in Nat
  BY <1>4, <1>5, <1>8, WritableRange
<1>11. PICK d : d = client_socks_recv_send_out(c, w, ok)
  OBVIOUS
<1>12. PICK e : e = IF ~d.client_closed /\ d.socks_recv_buf_used = -1 /\ ~d.socks_closed
                    THEN client_socks_recv_initiate(d) ELSE d
  OBVIOUS
<1>13. client' = e \/ (~d.client_closed /\ client' = [e EXCEPT !.dead_client = "entered"])
  BY <1>4, <1>11, <1>12 DEF DEAD_ENTER
<1>14. Released(c, client') \/ Relayed(c, w, client')
  <2>1. w \in Writable(c) /\ ok \in BOOLEAN
    BY <1>4
  <2>2. c \in Client /\ c.pcb = "open" /\ c.sent_cb /\ ~c.receiving
    BY <1>5, <1>7
  <2>3. \/ d.client_closed /\ e = d /\ Released(c, e)
        \/ ~d.client_closed /\ d.socks_closed = c.socks_closed /\ Relayed(c, w, e)
    BY <2>1, <2>2, <1>8, <1>9, <1>11, <1>12, RelayOut
  <2>4. ASSUME Relayed(c, w, e), client' = [e EXCEPT !.dead_client = "entered"]
        PROVE  Relayed(c, w, client')
    <3>1. SameButDead(e, client')
      BY <2>4, DeadOnly DEF Relayed
    <3> QED BY <2>4, <3>1, SameLives DEF Relayed, SameButDead
  <2> QED BY <1>13, <2>3, <2>4
<1>15. /\ dn_q = c.socks_recv_off + c.socks_recv_buf_sent
       /\ dn_rx = c.socks_recv_off + c.socks_recv_buf_used
  <2>1. client.socks_recv_buf_used # -1 /\ Live
    BY SentPre DEF Client, Live
  <2> QED BY <1>5, <2>1, SentPre DEF IInv, StreamInv, DownStreamInOrder
<1>16. dn_q' = dn_q + w /\ dn_q' \in Nat
  BY <1>4, <1>10, <1>15, SentPre DEF Queued
<1>17. cb' \in {"none", "sent"} /\ ret' \in {ret, "ERR_OK", "ERR_ABRT"}
  BY <1>4
<1>18. client' \in Client
  BY <1>14 DEF Released, Relayed
<1>19. TypeOK' /\ pbuf' # "refused" /\ dn_ack' \in Nat
  BY <1>16, <1>17, <1>18, SentPre DEF IInv, TypeOK
<1>20. CASE Released(c, client')
  <2>1. Released(client, client')
    BY <1>5, <1>20, SentPre, ZenonT(40) DEF Released
  <2> QED BY <1>19, <2>1, SentPre, ReleasedIInv DEF IInv, Live
<1>21. CASE Relayed(c, w, client')
  <2>1. UpStreamInOrder'
    BY <1>5, <1>21, SentPre DEF Relayed, IInv, StreamInv, UpStreamInOrder, Live
  <2>2. dn_q' = dn_ack' + client'.socks_recv_tcp_pending
    BY <1>2, <1>5, <1>10, <1>16, <1>19, <1>21, SentPre DEF Relayed
  <2>3. dn_q' = client'.socks_recv_off + client'.socks_recv_buf_sent
    BY <1>5, <1>10, <1>15, <1>16, <1>21 DEF Relayed, Client
  <2>4. IF client'.socks_recv_buf_used = -1 THEN dn_rx' = dn_q'
        ELSE dn_rx' = client'.socks_recv_off + client'.socks_recv_buf_used
    BY <1>5, <1>10, <1>15, <1>16, <1>21, SentPre DEF Relayed, Client
  <2>5. DownStreamInOrder'
    BY <2>2, <2>3, <2>4 DEF DownStreamInOrder
  <2>6. StreamInv'
    BY <1>21, <2>1, <2>5 DEF StreamInv, Relayed, Live
  <2> QED BY <1>19, <1>21, <2>6 DEF IInv, Relayed
<1> QED BY <1>14, <1>20, <1>21

(* client_sent_func with nothing left to queue. *)
LEMMA SentAllIInv ==
  ASSUME NEW n \in 1..TCP_SND_BUF, IInv, client_sent_func(n),
         ~(client.socks_recv_buf_used > 0)
  PROVE  IInv'
<1>1. PICK p : p = client.socks_recv_tcp_pending - n
  OBVIOUS
<1>2. p \in Int /\ p \in 0..TCP_SND_BUF /\ dn_q = dn_ack' + p
  BY <1>1, SentPre DEF Client
<1>3. PICK c : c = [client EXCEPT !.socks_recv_tcp_pending = p]
  BY Zenon
<1>4. IF c.socks_closed /\ c.socks_recv_tcp_pending = 0
      THEN /\ \E how \in How : client' = client_free_client(c, how)
           /\ ret' = "ERR_ABRT"
           /\ UNCHANGED <<cb, dn_q>>
      ELSE /\ client' = c
           /\ ret' = "ERR_OK"
           /\ UNCHANGED <<cb, dn_q>>
  BY <1>1, <1>3 DEF client_sent_func, SentAll
<1>5. /\ c \in Client /\ c.entry = "live" /\ ~c.client_closed /\ c.socks_up
      /\ c.buf_off = client.buf_off /\ c.buf_used = client.buf_used
      /\ c.sending = client.sending /\ c.receiving = client.receiving
      /\ c.pcb = "open" /\ c.sent_cb = client.sent_cb /\ c.recv_cb = client.recv_cb
      /\ c.socks_closed = client.socks_closed /\ c.rcv_wnd = client.rcv_wnd
      /\ c.socks_recv_tcp_pending = p
      /\ c.socks_recv_buf_used = client.socks_recv_buf_used
      /\ c.socks_recv_buf_sent = client.socks_recv_buf_sent
      /\ c.socks_recv_off = client.socks_recv_off
  BY <1>2, <1>3, SentPre DEF Client
<1>6. UpSide(c)
  BY <1>5, SentPre DEF UpSide
<1>7. client.socks_recv_buf_used = -1
  BY SentPre DEF DownSide, Client
<1>8. dn_rx = dn_q
  BY <1>7, SentPre DEF IInv, StreamInv, DownStreamInOrder, Live
<1>9. TypeOK' /\ pbuf' # "refused" /\ dn_ack' \in Nat <=> client' \in Client
  BY <1>4, SentPre DEF IInv, TypeOK
<1>10. CASE c.socks_closed /\ p = 0
  <2>1. PICK how \in How : client' = client_free_client(c, how)
    BY <1>4, <1>5, <1>10
  <2>2. Released(c, client')
    BY <1>5, <1>6, <2>1, FreedClient DEF How, client_free_client
  <2>3. Released(client, client')
    BY <1>5, <2>2, SentPre, ZenonT(40) DEF Released
  <2> QED BY <1>9, <2>3, SentPre, ReleasedIInv DEF IInv, Live, Released
<1>11. CASE ~(c.socks_closed /\ p = 0)
  <2>1. client' = c /\ dn_q' = dn_q
    BY <1>4, <1>5, <1>11
  <2>2. DownSide(c)
    BY <1>2, <1>5, <1>7, SentPre DEF DownSide
  <2>3. LiveInv(c)
    BY <1>2, <1>5, <1>6, <1>11, <2>2, SentPre DEF LiveInv, Client
  <2>4. UpStreamInOrder'
    BY <1>5, <2>1, SentPre DEF IInv, StreamInv, UpStreamInOrder, Live
  <2>5. DownStreamInOrder'
    BY <1>2, <1>5, <1>7, <1>8, <2>1, SentPre DEF DownStreamInOrder
  <2>6. StreamInv'
    BY <1>5, <2>1, <2>4, <2>5 DEF StreamInv, Live
  <2> QED BY <1>5, <1>9, <2>1, <2>3, <2>6 DEF IInv
<1> QED BY <1>10, <1>11

(* client_sent_func keeps the invariant, whichever of its branches it takes. *)
LEMMA SentIInv == ASSUME NEW n \in 1..TCP_SND_BUF, IInv, client_sent_func(n) PROVE IInv'
  BY SentMoreIInv, SentAllIInv

(* Nothing changes in a stuttering step. *)
LEMMA StutterIInv == ASSUME IInv, UNCHANGED vars PROVE IInv'
  BY DEF vars, IInv, TypeOK, Live, StreamInv, UpStreamInOrder, DownStreamInOrder

(* Every callback, job and the final murder keep the invariant. *)
LEMMA NextIInv == IInv /\ [Next]_vars => IInv'
<1> SUFFICES ASSUME IInv, [Next]_vars PROVE IInv'
  OBVIOUS
<1>1. CASE Accept
  BY <1>1, AcceptIInv
<1>2. CASE AcceptFails
  BY <1>2, AcceptFailsIInv
<1>3. CASE ClientEvent
  BY <1>3, RecvDataIInv, RecvFinIInv, FinUnseenIInv, ErrIInv, SentIInv DEF ClientEvent
<1>4. CASE SocksEvent
  BY <1>4, SocksUpIInv, SocksErrorIInv, SendDoneIInv, RecvDoneIInv DEF SocksEvent
<1>5. CASE SyncReturn
  BY <1>5, SyncReturnIInv
<1>6. CASE client_murder
  BY <1>6, MurderIInv
<1>7. CASE UNCHANGED vars
  BY <1>7, StutterIInv
<1> QED BY <1>1, <1>2, <1>3, <1>4, <1>5, <1>6, <1>7 DEF Next

-----------------------------------------------------------------------------
(* The inductive invariant holds in every reachable state of a tcp_client. *)
THEOREM Invariance == Spec => []IInv
  BY InitIInv, NextIInv, PTL DEF Spec

(* buf_used never leaves client->buf and the receive window never leaves   *)
(* 0..TCP_WND, whatever lwIP and SOCKS do.                                 *)
THEOREM TypeCorrect == Spec => []TypeOK
<1>1. IInv => TypeOK
  BY DEF IInv
<1> QED BY <1>1, Invariance, PTL

(* client_recv_func and client_socks_send_handler_done hand every byte of  *)
(* the app to SOCKS once and in order.                                     *)
THEOREM UpStreamCorrect == Spec => []UpStreamInOrder
<1>1. IInv => UpStreamInOrder
  BY DEF IInv, StreamInv
<1> QED BY <1>1, Invariance, PTL

(* client_socks_recv_handler_done, client_socks_recv_send_out and          *)
(* client_sent_func hand every byte of SOCKS to the app once and in order, *)
(* and socks_recv_tcp_pending counts what is unacknowledged.               *)
THEOREM DownStreamCorrect == Spec => []DownStreamInOrder
<1>1. IInv => DownStreamInOrder
  BY DEF IInv, StreamInv
<1> QED BY <1>1, Invariance, PTL

(* The "no buffer for data !?!" branch of client_recv_func is dead code.   *)
THEOREM WindowCorrect == Spec => []WindowIsFreeSpace
<1>1. IInv => WindowIsFreeSpace
  BY DEF IInv, LiveInv, WindowIsFreeSpace
<1> QED BY <1>1, Invariance, PTL

(* No handler of a tcp_client ends with data or room for data and nothing  *)
(* in flight that will continue the relay.                                 *)
THEOREM RelayNeverStalls == Spec => []RelayIsArmed
<1>1. IInv => RelayIsArmed
  BY DEF IInv, LiveInv, UpSide, DownSide, RelayIsArmed
<1> QED BY <1>1, Invariance, PTL

-----------------------------------------------------------------------------
(* dead_client, client_closed and the pcb.  DEAD_KILL writes to the variable *)
(* of the callback that waits in SYNC_COMMIT, and only the end of the pcb    *)
(* does it.                                                                  *)
DeadInv ==
  /\ client.entry = "none" => cb = "none"
  /\ client.client_closed <=> client.pcb # "open"
  /\ client.pcb = "open" => client.dead_client = IF cb = "none" THEN "null" ELSE "entered"
  /\ client.pcb # "open" /\ cb # "none" => client.dead_client = "killed"

Kept(c, d) ==
  /\ d.entry = "none" => c.entry = "none"
  /\ d.pcb = c.pcb /\ d.client_closed = c.client_closed /\ d.dead_client = c.dead_client

GaveUp(c, d) ==
  /\ d.entry = "none" => c.entry = "none"
  /\ d.pcb # "open" /\ d.client_closed
  /\ d.dead_client = IF c.dead_client = "null" THEN "null" ELSE "killed"

(* Every pcb that is given up goes through DEAD_KILL. *)
LEMMA FreedClientDead ==
  ASSUME NEW c \in Client, NEW how \in {"closed", "aborted", "gone"}
  PROVE  GaveUp(c, client_handle_freed_client(DropPcb(c, how)))
<1>1. PICK p : p = DropPcb(c, how)
  BY Zenon
<1>2. p \in Client /\ p.entry = c.entry /\ p.pcb = how /\ p.dead_client = c.dead_client
  BY <1>1, Zenon DEF DropPcb, Client
<1>3. PICK k : k = DEAD_KILL(p)
  BY Zenon
<1>4. /\ k \in Client /\ k.entry = c.entry /\ k.pcb = how
      /\ k.dead_client = IF c.dead_client = "null" THEN "null" ELSE "killed"
  BY <1>2, <1>3, KillOnly DEF SameButDead
<1>5. PICK d : d = [k EXCEPT !.client_closed = TRUE]
  BY Zenon
<1>6. d \in Client /\ d.entry = k.entry /\ d.pcb = how /\ d.client_closed /\ d.dead_client = k.dead_client
  BY <1>4, <1>5, Zenon DEF Client
<1>7. GaveUp(c, d)
  BY <1>4, <1>6 DEF GaveUp
<1>8. Kept(d, client_dealloc(BSocksClient_Free(d)))
  BY <1>6, Zenon DEF Kept, client_dealloc, BSocksClient_Free, Client
<1>9. client_handle_freed_client(p) \in {d, client_dealloc(BSocksClient_Free(d))}
  BY <1>3, <1>5 DEF client_handle_freed_client
<1> QED BY <1>1, <1>7, <1>8, <1>9 DEF GaveUp, Kept

(* The end of SOCKS keeps the pcb, or gives it up the same way. *)
LEMMA FreedSocksDead ==
  ASSUME NEW c \in Client, NEW how \in How
  PROVE  Kept(c, client_free_socks(c, how)) \/ GaveUp(c, client_free_socks(c, how))
<1>1. PICK r \in BOOLEAN : r = (c.recv_cb /\ ~(c.socks_up /\ ~c.client_closed))
  BY DEF Client
<1>2. PICK d : d = BSocksClient_Free([c EXCEPT !.recv_cb = r])
  BY Zenon
<1>3. d \in Client /\ Kept(c, d)
  BY <1>2, SizesAssumption, 0 \in 0..TCP_WND, Zenon DEF BSocksClient_Free, Client, Kept
<1>4. client_free_socks(c, how) \in {d, client_free_client(d, how), client_dealloc(d)}
  BY <1>1, <1>2 DEF client_free_socks
<1>5. GaveUp(d, client_free_client(d, how))
  BY <1>3, FreedClientDead DEF How, client_free_client
<1>6. Kept(d, client_dealloc(d))
  BY <1>3, Zenon DEF Kept, client_dealloc, Client
<1> QED BY <1>3, <1>4, <1>5, <1>6 DEF Kept, GaveUp

(* So does the relay of a buffer to lwIP. *)
LEMMA SendOutDead ==
  ASSUME NEW c \in Client, NEW w \in Writable(c), NEW ok \in BOOLEAN,
         NEW d, d = client_socks_recv_send_out(c, w, ok)
  PROVE  (d \in Client /\ Kept(c, d)) \/ GaveUp(c, d)
<1>1. PICK e : e = [c EXCEPT !.socks_recv_buf_sent = c.socks_recv_buf_sent + w,
                             !.socks_recv_tcp_pending = c.socks_recv_tcp_pending + w]
  BY Zenon
<1>2. c.socks_recv_buf_sent + w \in Int /\ c.socks_recv_tcp_pending + w \in Int
  BY SizesAssumption DEF Client, Writable, Min2
<1>3. e \in Client /\ Kept(c, e)
  BY <1>1, <1>2, Zenon DEF Client, Kept
<1>4. d \in {client_abort_client(e), [e EXCEPT !.socks_recv_buf_used = -1],
             [e EXCEPT !.socks_recv_waiting = TRUE]}
  BY <1>1 DEF client_socks_recv_send_out
<1>5. GaveUp(e, client_abort_client(e))
  BY <1>3, FreedClientDead DEF client_abort_client
<1>6. /\ Kept(e, [e EXCEPT !.socks_recv_buf_used = -1])
      /\ Kept(e, [e EXCEPT !.socks_recv_waiting = TRUE])
  BY <1>3, Zenon DEF Kept, Client
<1>7. -1 \in Int
  OBVIOUS
<1>8. /\ [e EXCEPT !.socks_recv_buf_used = -1] \in Client
      /\ [e EXCEPT !.socks_recv_waiting = TRUE] \in Client
  BY <1>3, <1>7, Zenon DEF Client
<1> QED BY <1>3, <1>4, <1>5, <1>6, <1>8 DEF Kept, GaveUp

(* A job that keeps the pcb, or that gives it up through DEAD_KILL. *)
LEMMA DeadStep ==
  ASSUME DeadInv, cb' = cb, Kept(client, client') \/ GaveUp(client, client')
  PROVE  DeadInv'
<1>1. CASE Kept(client, client')
  BY <1>1 DEF DeadInv, Kept
<1>2. CASE GaveUp(client, client')
  BY <1>2 DEF DeadInv, GaveUp
<1> QED BY <1>1, <1>2

(* A callback that enters SYNC_COMMIT. *)
LEMMA DeadEntered ==
  ASSUME cb' # "none", client'.entry # "none", client'.pcb = "open", ~client'.client_closed,
         client'.dead_client = "entered"
  PROVE  DeadInv'
  BY DEF DeadInv

LEMMA AcceptDead == ASSUME DeadInv, Accept \/ AcceptFails PROVE DeadInv'
<1>1. CASE Accept
  BY <1>1, DeadEntered DEF Accept, DEAD_ENTER, NewClient
<1>2. CASE AcceptFails
  BY <1>2 DEF AcceptFails, DeadInv, NewClient
<1> QED BY <1>1, <1>2

LEMMA RecvDataDead ==
  ASSUME NEW n \in 1..TCP_WND, IInv, DeadInv, RecvData(n)
  PROVE  DeadInv'
<1>1. client \in Client /\ ~client.client_closed
  BY LwipPre DEF RecvData
<1>2. PICK u : u = IF n <= TCP_WND - client.buf_used THEN client.buf_used + n
                   ELSE client.buf_used
  OBVIOUS
<1>3. PICK c : c = [client EXCEPT !.rcv_wnd = client.rcv_wnd - n, !.buf_used = u]
  BY Zenon
<1>4. /\ c.entry = client.entry /\ c.pcb = client.pcb
      /\ c.client_closed = client.client_closed /\ c.dead_client = client.dead_client
  BY <1>1, <1>3, Zenon DEF Client
<1>5. \/ client' = [c EXCEPT !.sending = c.buf_used, !.dead_client = "entered"] /\ cb' = "recv"
      \/ client' = c /\ cb' = cb
  BY <1>1, <1>2, <1>3 DEF RecvData, LwipMayCall, client_send_to_socks, DEAD_ENTER
<1>6. CASE client' = c /\ cb' = cb
  BY <1>4, <1>6, DeadStep DEF Kept
<1>7. CASE client' = [c EXCEPT !.sending = c.buf_used, !.dead_client = "entered"] /\ cb' = "recv"
  <2>1. /\ client'.entry = c.entry /\ client'.pcb = c.pcb
        /\ client'.client_closed = c.client_closed /\ client'.dead_client = "entered"
    BY <1>1, <1>3, <1>7, Zenon DEF Client
  <2> QED BY <1>1, <1>4, <1>7, <2>1, DeadEntered DEF RecvData, LwipMayCall, Live
<1> QED BY <1>5, <1>6, <1>7

LEMMA SentAllDead ==
  ASSUME NEW n \in 1..TCP_SND_BUF, IInv, DeadInv, SentAll(n)
  PROVE  DeadInv'
<1>1. client \in Client
  BY DEF IInv, TypeOK
<1>2. PICK c : c = [client EXCEPT !.socks_recv_tcp_pending = client.socks_recv_tcp_pending - n]
  BY Zenon
<1>3. client.socks_recv_tcp_pending - n \in Int
  BY <1>1 DEF Client
<1>4. c \in Client /\ Kept(client, c)
  BY <1>1, <1>2, <1>3, Zenon DEF Client, Kept
<1>5. cb' = cb /\ (client' = c \/ \E how \in How : client' = client_free_client(c, how))
  BY <1>2 DEF SentAll
<1>6. client' = c \/ GaveUp(c, client')
  BY <1>4, <1>5, FreedClientDead DEF How, client_free_client
<1> QED BY <1>4, <1>5, <1>6, DeadStep DEF Kept, GaveUp

LEMMA SentMoreDead ==
  ASSUME NEW n \in 1..TCP_SND_BUF, IInv, DeadInv, LwipMayCall, SentMore(n),
         client.socks_recv_buf_used > 0
  PROVE  DeadInv'
<1>1. client \in Client
  BY DEF IInv, TypeOK
<1>2. PICK c : c = [client EXCEPT !.socks_recv_tcp_pending = client.socks_recv_tcp_pending - n,
                                  !.socks_recv_waiting = FALSE]
  BY Zenon
<1>3. client.socks_recv_tcp_pending - n \in Int
  BY <1>1 DEF Client
<1>4. c \in Client /\ Kept(client, c)
  BY <1>1, <1>2, <1>3, Zenon DEF Client, Kept
<1>5. PICK w \in Writable(c), ok \in BOOLEAN :
        LET d    == client_socks_recv_send_out(c, w, ok)
            more == ~d.client_closed /\ d.socks_recv_buf_used = -1 /\ ~d.socks_closed
        IN /\ client' = IF more THEN DEAD_ENTER(client_socks_recv_initiate(d)) ELSE d
           /\ cb' = IF more THEN "sent" ELSE "none"
  <2>1. c = [client EXCEPT !.socks_recv_tcp_pending = @ - n, !.socks_recv_waiting = FALSE]
    BY <1>2
  <2> QED BY <2>1, Zenon DEF SentMore
<1>6. PICK d : d = client_socks_recv_send_out(c, w, ok)
  BY Zenon
<1>7. \/ client' = d /\ cb' = "none"
      \/ ~d.client_closed /\ client' = DEAD_ENTER(client_socks_recv_initiate(d)) /\ cb' = "sent"
  BY <1>5, <1>6
<1>8. (d \in Client /\ Kept(client, d)) \/ GaveUp(client, d)
  BY <1>4, <1>5, <1>6, SendOutDead DEF Kept, GaveUp
<1>9. CASE client' = d /\ cb' = "none"
  BY <1>8, <1>9, DeadStep DEF LwipMayCall
<1>10. CASE /\ ~d.client_closed /\ cb' = "sent"
            /\ client' = DEAD_ENTER(client_socks_recv_initiate(d))
  <2>1. d \in Client /\ Kept(client, d)
    BY <1>8, <1>10 DEF GaveUp
  <2>2. /\ client'.entry = d.entry /\ client'.pcb = d.pcb
        /\ client'.client_closed = d.client_closed /\ client'.dead_client = "entered"
    BY <1>10, <2>1, Zenon DEF DEAD_ENTER, client_socks_recv_initiate, Client
  <2> QED BY <1>10, <2>1, <2>2, DeadEntered DEF Kept, LwipMayCall, Live
<1> QED BY <1>7, <1>9, <1>10

LEMMA SocksEndDead == ASSUME IInv, DeadInv, SocksError \/ SocksClosed PROVE DeadInv'
<1>1. cb' = cb /\ \E how \in How : client' = client_free_socks(client, how)
  BY DEF SocksError, SocksClosed
<1>2. client \in Client
  BY DEF IInv, TypeOK
<1> QED BY <1>1, <1>2, FreedSocksDead, DeadStep

LEMMA SocksUpDead == ASSUME IInv, DeadInv, SocksUp PROVE DeadInv'
<1>1. client \in Client
  BY DEF IInv, TypeOK
<1>2. PICK s \in BOOLEAN : s = ~client.client_closed
  BY Zenon
<1>3. PICK c : c = [client EXCEPT !.socks_recv_buf_used = -1, !.socks_recv_tcp_pending = 0,
                                  !.sent_cb = s, !.socks_up = TRUE]
  BY Zenon
<1>4. -1 \in Int /\ 0 \in Int
  OBVIOUS
<1>5. c \in Client /\ Kept(client, c)
  BY <1>1, <1>3, <1>4, Zenon DEF Client, Kept
<1>6. PICK d : d = IF c.buf_used > 0 THEN client_send_to_socks(c) ELSE c
  BY Zenon
<1>7. d \in Client /\ Kept(c, d)
  <2>1. client_send_to_socks(c) \in Client /\ Kept(c, client_send_to_socks(c))
    BY <1>5, Zenon DEF client_send_to_socks, Client, Kept
  <2> QED BY <1>5, <1>6, <2>1 DEF Kept
<1>8. Kept(d, client_socks_recv_initiate(d))
  BY <1>7, Zenon DEF client_socks_recv_initiate, Client, Kept
<1>9. cb' = cb /\ client' \in {d, client_socks_recv_initiate(d)}
  BY <1>2, <1>3, <1>6 DEF SocksUp
<1>10. Kept(client, client')
  BY <1>5, <1>7, <1>8, <1>9 DEF Kept
<1> QED BY <1>9, <1>10, DeadStep

LEMMA SendDoneDead ==
  ASSUME NEW n \in 1..TCP_WND, IInv, DeadInv, client_socks_send_handler_done(n)
  PROVE  DeadInv'
<1>1. /\ client \in Client /\ LiveInv(client) /\ n <= client.sending
      /\ client.sending <= client.buf_used
  BY SizesAssumption
     DEF IInv, TypeOK, client_socks_send_handler_done, SendJobMayRun, Live, LiveInv, UpSide, Client
<1>2. /\ 0 \in 0..TCP_WND /\ client.buf_off + n \in Nat /\ client.buf_used - n \in 0..TCP_WND
      /\ Min2(client.rcv_wnd + n, TCP_WND) \in 0..TCP_WND
  BY <1>1, SizesAssumption DEF Client, Min2
<1>3. PICK c : c = [client EXCEPT !.sending = 0, !.buf_off = client.buf_off + n,
                                  !.buf_used = client.buf_used - n]
  BY Zenon
<1>4. c \in Client /\ Kept(client, c) /\ c.rcv_wnd = client.rcv_wnd
  BY <1>1, <1>2, <1>3, Zenon DEF Client, Kept
<1>5. PICK d : d = IF ~c.client_closed THEN tcp_recved(c, n) ELSE c
  BY Zenon
<1>6. d \in Client /\ Kept(c, d)
  <2>1. tcp_recved(c, n) = [c EXCEPT !.rcv_wnd = Min2(client.rcv_wnd + n, TCP_WND)]
    BY <1>4 DEF tcp_recved
  <2>2. tcp_recved(c, n) \in Client /\ Kept(c, tcp_recved(c, n))
    BY <1>2, <1>4, <2>1, Zenon DEF Client, Kept
  <2> QED BY <1>4, <1>5, <2>2 DEF Kept
<1>7. /\ cb' = cb
      /\ \/ client' \in {client_send_to_socks(d), d}
         \/ \E how \in How : client' = client_free_socks(d, how)
  BY <1>3, <1>5 DEF client_socks_send_handler_done
<1>8. Kept(d, client_send_to_socks(d)) /\ Kept(d, d)
  BY <1>6, Zenon DEF client_send_to_socks, Client, Kept
<1>9. Kept(d, client') \/ GaveUp(d, client')
  BY <1>6, <1>7, <1>8, FreedSocksDead
<1>10. Kept(client, client') \/ GaveUp(client, client')
  BY <1>4, <1>6, <1>9 DEF Kept, GaveUp
<1> QED BY <1>7, <1>10, DeadStep

LEMMA RecvDoneDead ==
  ASSUME NEW n \in 1..CLIENT_SOCKS_RECV_BUF_SIZE, IInv, DeadInv,
         client_socks_recv_handler_done(n)
  PROVE  DeadInv'
<1>1. client \in Client /\ dn_rx \in Nat /\ n \in Int /\ 0 \in Int /\ cb' = cb
  BY SizesAssumption DEF IInv, TypeOK, client_socks_recv_handler_done
<1>2. CASE client.client_closed
  <2>1. client' = [client EXCEPT !.receiving = FALSE]
    BY <1>2 DEF client_socks_recv_handler_done
  <2>2. Kept(client, client')
    BY <1>1, <2>1, Zenon DEF Kept, Client
  <2> QED BY <1>1, <2>2, DeadStep
<1>3. CASE ~client.client_closed
  <2>1. PICK c : c = [client EXCEPT !.receiving = FALSE, !.socks_recv_off = dn_rx,
                                    !.socks_recv_buf_used = n,
                                    !.socks_recv_buf_sent = 0,
                                    !.socks_recv_waiting = FALSE]
    BY Zenon
  <2>2. c \in Client /\ Kept(client, c)
    BY <1>1, <2>1, Zenon DEF Kept, Client
  <2>3. PICK w \in Writable(c), ok \in BOOLEAN :
          client' \in {client_socks_recv_send_out(c, w, ok),
                       client_socks_recv_initiate(client_socks_recv_send_out(c, w, ok))}
          /\ (client_socks_recv_send_out(c, w, ok).client_closed =>
                client' = client_socks_recv_send_out(c, w, ok))
    BY <1>3, <2>1 DEF client_socks_recv_handler_done
  <2>4. PICK d : d = client_socks_recv_send_out(c, w, ok)
    BY Zenon
  <2>5. (d \in Client /\ Kept(c, d)) \/ GaveUp(c, d)
    BY <2>2, <2>3, <2>4, SendOutDead
  <2>6. d \in Client => Kept(d, client_socks_recv_initiate(d))
    BY Zenon DEF client_socks_recv_initiate, Client, Kept
  <2>7. Kept(client, client') \/ GaveUp(client, client')
    BY <2>2, <2>3, <2>4, <2>5, <2>6 DEF Kept, GaveUp
  <2> QED BY <1>1, <2>7, DeadStep
<1> QED BY <1>2, <1>3

LEMMA ClientEndDead == ASSUME IInv, DeadInv, RecvFin \/ client_err_func PROVE DeadInv'
<1>1. client \in Client
  BY DEF IInv, TypeOK
<1>2. cb' = cb /\ \E how \in {"closed", "aborted", "gone"} :
        client' = client_handle_freed_client(DropPcb(client, how))
  BY DEF RecvFin, client_err_func, client_free_client, How
<1> QED BY <1>1, <1>2, FreedClientDead, DeadStep

(* DEAD_LEAVE2 resets dead_client of a client whose pcb is still open. *)
LEMMA SyncReturnDead == ASSUME IInv, DeadInv, SyncReturn PROVE DeadInv'
<1>1. /\ client'.pcb = client.pcb /\ client'.client_closed = client.client_closed
      /\ cb # "none" /\ cb' = "none"
  BY SyncSame DEF SameButDead, SyncReturn
<1>2. ASSUME client.pcb = "open" PROVE client'.dead_client = "null"
  <2>1. client.dead_client = "entered" /\ client \in Client
    BY <1>1, <1>2 DEF DeadInv, IInv, TypeOK
  <2>2. client' = [client EXCEPT !.dead_client = "null"]
    BY <2>1 DEF SyncReturn
  <2> QED BY <2>1, <2>2, DeadOnly
<1> QED BY <1>1, <1>2 DEF DeadInv

LEMMA MurderDead == ASSUME IInv, DeadInv, client_murder PROVE DeadInv'
<1>1. client \in Client /\ cb = "none" /\ cb' = "none"
  BY DEF IInv, TypeOK, client_murder
<1>2. PICK k : k = [DEAD_KILL(DropPcb(client, "aborted")) EXCEPT !.client_closed = TRUE]
  BY Zenon
<1>3. k \in Client /\ k.pcb = "aborted" /\ k.client_closed
  <2>1. DropPcb(client, "aborted") \in Client /\ DropPcb(client, "aborted").pcb = "aborted"
    BY <1>1, Zenon DEF DropPcb, Client
  <2>2. /\ DEAD_KILL(DropPcb(client, "aborted")) \in Client
        /\ DEAD_KILL(DropPcb(client, "aborted")).pcb = "aborted"
    BY <2>1, KillOnly DEF SameButDead
  <2> QED BY <1>2, <2>2, Zenon DEF Client
<1>4. PICK c : c = IF client.client_closed THEN client ELSE k
  BY Zenon
<1>5. c \in Client /\ c.pcb # "open" /\ c.client_closed
  BY <1>1, <1>3, <1>4 DEF DeadInv
<1>6. client' \in {client_dealloc(c), client_dealloc(BSocksClient_Free(c))}
  BY <1>2, <1>4 DEF client_murder
<1>7. client'.entry = "freed" /\ client'.pcb = c.pcb /\ client'.client_closed = c.client_closed
  <2>1. /\ client_dealloc(c).entry = "freed" /\ client_dealloc(c).pcb = c.pcb
        /\ client_dealloc(c).client_closed = c.client_closed
    BY <1>5, Zenon DEF client_dealloc, Client
  <2>2. /\ client_dealloc(BSocksClient_Free(c)).entry = "freed"
        /\ client_dealloc(BSocksClient_Free(c)).pcb = c.pcb
        /\ client_dealloc(BSocksClient_Free(c)).client_closed = c.client_closed
    BY <1>5, Zenon DEF client_dealloc, BSocksClient_Free, Client
  <2> QED BY <1>6, <2>1, <2>2
<1> QED BY <1>1, <1>5, <1>7 DEF DeadInv

LEMMA NextDead == IInv /\ DeadInv /\ [Next]_vars => DeadInv'
<1> SUFFICES ASSUME IInv, DeadInv, [Next]_vars PROVE DeadInv'
  OBVIOUS
<1>1. CASE Accept \/ AcceptFails
  BY <1>1, AcceptDead
<1>2. CASE ClientEvent
  <2>1. CASE \E n \in 1..TCP_WND : RecvData(n)
    BY <2>1, RecvDataDead
  <2>2. CASE RecvFin \/ client_err_func
    BY <2>2, ClientEndDead
  <2>3. CASE FinUnseen
    BY <2>3 DEF FinUnseen, DeadInv
  <2>4. ASSUME NEW n \in 1..TCP_SND_BUF, client_sent_func(n) PROVE DeadInv'
    <3>1. LwipMayCall /\ IF client.socks_recv_buf_used > 0 THEN SentMore(n) ELSE SentAll(n)
      BY <2>4 DEF client_sent_func
    <3> QED BY <3>1, SentMoreDead, SentAllDead
  <2> QED BY <1>2, <2>1, <2>2, <2>3, <2>4 DEF ClientEvent
<1>3. CASE SocksEvent
  BY <1>3, SocksUpDead, SocksEndDead, SendDoneDead, RecvDoneDead DEF SocksEvent
<1>4. CASE SyncReturn
  BY <1>4, SyncReturnDead
<1>5. CASE client_murder
  BY <1>5, MurderDead
<1>6. CASE UNCHANGED vars
  BY <1>6 DEF vars, DeadInv
<1> QED BY <1>1, <1>2, <1>3, <1>4, <1>5, <1>6 DEF Next

(* At every moment the dead variable tells the waiting callback what became *)
(* of its pcb.                                                              *)
THEOREM DeadInvariance == Spec => []DeadInv
<1>1. Init => DeadInv
  BY DEF Init, NewClient, DeadInv
<1> QED BY <1>1, NextDead, Invariance, PTL DEF Spec

(* dead_client never dangles: while a pcb can still be given up it points   *)
(* to the variable of the callback in SYNC_COMMIT, or is NULL.              *)
THEOREM DeadVarNeverStale == Spec => []DeadVarIsNotStale
<1>1. DeadInv => DeadVarIsNotStale
  BY DEF DeadInv, DeadVarIsNotStale
<1> QED BY <1>1, DeadInvariance, PTL

-----------------------------------------------------------------------------
(* What a callback answers when it returns. *)
Told == ret' = "ERR_ABRT" <=> client'.pcb # "open"

(* client_recv_func that starts no send keeps the pcb and returns no ERR_ABRT. *)
LEMMA RecvTold ==
  ASSUME NEW n \in 1..TCP_WND, IInv, RecvData(n), cb' = "none"
  PROVE  Told
<1>1. client \in Client /\ client.pcb = "open"
  BY LwipPre DEF RecvData, LwipMayCall
<1>2. PICK u : client' = [client EXCEPT !.rcv_wnd = client.rcv_wnd - n, !.buf_used = u]
  BY <1>1 DEF RecvData
<1>3. ret' \in {"ERR_OK", "ERR_MEM"}
  BY DEF RecvData
<1>4. client'.pcb = client.pcb
  BY <1>1, <1>2, Zenon DEF Client
<1> QED BY <1>1, <1>3, <1>4 DEF Told

(* client_sent_func that resumes answers by what became of the client. *)
LEMMA SentMoreTold ==
  ASSUME NEW n \in 1..TCP_SND_BUF, DeadInv', SentMore(n), cb' = "none"
  PROVE  Told
<1>1. PICK d : /\ client' = d
               /\ ret' = IF d.client_closed THEN "ERR_ABRT" ELSE "ERR_OK"
  BY DEF SentMore
<1> QED BY <1>1 DEF Told, DeadInv

(* client_sent_func after the last acknowledgement gives up the pcb, or    *)
(* keeps it.                                                               *)
LEMMA SentAllTold ==
  ASSUME NEW n \in 1..TCP_SND_BUF, client \in Client, client.pcb = "open", SentAll(n)
  PROVE  Told
<1>1. PICK c : c = [client EXCEPT !.socks_recv_tcp_pending = client.socks_recv_tcp_pending - n]
  BY Zenon
<1>2. client.socks_recv_tcp_pending - n \in Int
  BY DEF Client
<1>3. c \in Client /\ c.pcb = "open"
  BY <1>1, <1>2, Zenon DEF Client
<1>4. \/ (\E how \in How : client' = client_free_client(c, how)) /\ ret' = "ERR_ABRT"
      \/ client' = c /\ ret' = "ERR_OK"
  BY <1>1 DEF SentAll
<1>5. ASSUME NEW how \in How, client' = client_free_client(c, how) PROVE client'.pcb # "open"
  BY <1>3, <1>5, FreedClientDead DEF How, client_free_client, GaveUp
<1> QED BY <1>3, <1>4, <1>5 DEF Told

(* A callback that waited in SYNC_COMMIT knows it from its dead variable. *)
LEMMA SyncTold == ASSUME IInv, DeadInv, SyncReturn PROVE Told
<1>1. client'.pcb = client.pcb
  BY SyncSame DEF SameButDead
<1>2. /\ cb # "none"
      /\ ret' = IF client.dead_client = "killed" THEN "ERR_ABRT" ELSE "ERR_OK"
  BY DEF SyncReturn
<1> QED BY <1>1, <1>2 DEF Told, DeadInv

(* Every callback that returns has told lwIP what became of the pcb. *)
LEMMA CallbackTold ==
  ASSUME IInv, DeadInv, DeadInv', LwipCallback, cb' = "none"
  PROVE  Told
<1>1. CASE \E n \in 1..TCP_WND : RecvData(n)
  BY <1>1, RecvTold
<1>2. CASE RecvFin
  <2>1. client \in Client /\ ret' = "ERR_ABRT"
    BY <1>2 DEF IInv, TypeOK, RecvFin
  <2>2. PICK how \in How : client' = client_free_client(client, how)
    BY <1>2 DEF RecvFin
  <2> QED BY <2>1, <2>2, FreedClientDead DEF How, client_free_client, GaveUp, Told
<1>3. ASSUME NEW n \in 1..TCP_SND_BUF, client_sent_func(n)
      PROVE  Told
  <2>1. /\ client \in Client /\ client.pcb = "open"
        /\ SentMore(n) \/ SentAll(n)
    BY <1>3, SentPre DEF client_sent_func
  <2> QED BY <2>1, SentMoreTold, SentAllTold
<1>4. CASE SyncReturn
  BY <1>4, SyncTold
<1> QED BY <1>1, <1>2, <1>3, <1>4 DEF LwipCallback

(* No callback of a tcp_client lets lwIP go on with a pcb that was given   *)
(* up in the jobs it ran, or forget one that is still relayed, although    *)
(* the callback looks at its dead variable only.                           *)
THEOREM CallbacksTellLwip == Spec => AbrtWhenGivenUp
<1>1. IInv /\ DeadInv /\ DeadInv' => [LwipCallback /\ cb' = "none" => Told]_vars
  BY CallbackTold
<1> QED BY <1>1, Invariance, DeadInvariance, PTL DEF AbrtWhenGivenUp, Told

-----------------------------------------------------------------------------
(* TcpClient implements Relay, for every window, buffer size and bound.    *)

(* The two ends after the client was given up as how. *)
AppGivenUp(c, d, how) ==
  /\ AppEnd(d) = how
  /\ SocksEnd(d) = IF c.buf_used = 0 \/ c.socks_closed THEN "over" ELSE SocksEnd(c)

(* client_handle_freed_client leaves SOCKS alone exactly when up bytes are *)
(* still to be sent.                                                       *)
LEMMA FreedClientEnds ==
  ASSUME NEW c \in Client, c.entry = "live", NEW how \in How \cup {"gone"}
  PROVE  AppGivenUp(c, client_handle_freed_client(DropPcb(c, how)), how)
<1>0. PICK k \in {"null", "killed"} : k = IF c.dead_client = "null" THEN "null" ELSE "killed"
  BY Zenon
<1>1. PICK d : d = [DEAD_KILL(DropPcb(c, how)) EXCEPT !.client_closed = TRUE]
  BY Zenon
<1>2. d = [c EXCEPT !.pcb = how, !.recv_cb = FALSE, !.sent_cb = FALSE,
                    !.dead_client = k, !.client_closed = TRUE]
  <2>1. DropPcb(c, how).dead_client = c.dead_client
    BY DEF DropPcb, Client
  <2>2. DEAD_KILL(DropPcb(c, how)) = [DropPcb(c, how) EXCEPT !.dead_client = k]
    BY <1>0, <2>1 DEF DEAD_KILL
  <2> QED BY <1>1, <2>2 DEF DropPcb
<1>3. how \in {"closed", "aborted", "gone"} /\ c.buf_used \in Nat
  BY SizesAssumption DEF How, Client
<1>4. /\ d \in Client /\ d.entry = "live" /\ d.pcb = how
      /\ d.buf_used = c.buf_used /\ d.socks_closed = c.socks_closed
      /\ d.socks_up = c.socks_up
  BY <1>2, <1>3, ZenonT(40) DEF Client
<1>5. CASE d.buf_used > 0 /\ ~d.socks_closed
  <2>1. client_handle_freed_client(DropPcb(c, how)) = d
    BY <1>1, <1>5 DEF client_handle_freed_client
  <2> QED BY <1>3, <1>4, <1>5, <2>1 DEF AppGivenUp, AppEnd, SocksEnd
<1>6. CASE ~(d.buf_used > 0 /\ ~d.socks_closed)
  <2>1. PICK e : e = client_dealloc(BSocksClient_Free(d))
    OBVIOUS
  <2>2. client_handle_freed_client(DropPcb(c, how)) = e
    BY <1>1, <1>6, <2>1 DEF client_handle_freed_client
  <2>3. e.entry = "freed" /\ e.pcb = how /\ e.socks_closed
    BY <1>4, <2>1 DEF client_dealloc, BSocksClient_Free, Client
  <2> QED BY <1>3, <1>4, <1>6, <2>2, <2>3 DEF AppGivenUp, AppEnd, SocksEnd
<1> QED BY <1>5, <1>6

(* client_free_socks ends SOCKS, and keeps the client exactly while it has *)
(* down bytes to take or to acknowledge.                                   *)
LEMMA FreedSocksEnds ==
  ASSUME NEW c \in Client, c.entry = "live", NEW how \in How,
         c.client_closed <=> c.pcb # "open"
  PROVE  LET d == client_free_socks(c, how)
             owed == /\ c.socks_up
                     /\ c.socks_recv_buf_used >= 0 \/ c.socks_recv_tcp_pending > 0
         IN /\ SocksEnd(d) = "over"
            /\ AppEnd(d) = IF c.pcb = "open" /\ ~owed THEN how ELSE c.pcb
<1>1. PICK d : d = BSocksClient_Free(
                     [c EXCEPT !.recv_cb = c.recv_cb /\ ~(c.socks_up /\ ~c.client_closed)])
  OBVIOUS
<1>2. d = [c EXCEPT !.recv_cb = c.recv_cb /\ ~(c.socks_up /\ ~c.client_closed),
                    !.sending = 0, !.receiving = FALSE, !.socks_closed = TRUE]
  BY <1>1 DEF BSocksClient_Free
<1>3. 0 \in 0..TCP_WND
  BY SizesAssumption
<1>4. d \in Client
  BY <1>2, <1>3, ZenonT(30) DEF Client
<1>5. /\ d.entry = "live" /\ d.pcb = c.pcb /\ d.socks_closed
      /\ d.socks_up = c.socks_up /\ d.client_closed = c.client_closed
      /\ d.socks_recv_buf_used = c.socks_recv_buf_used
      /\ d.socks_recv_tcp_pending = c.socks_recv_tcp_pending
  BY <1>2, <1>4 DEF Client
<1>6. CASE /\ d.socks_up
           /\ d.socks_recv_buf_used >= 0 \/ d.socks_recv_tcp_pending > 0
           /\ ~d.client_closed
  <2>1. client_free_socks(c, how) = d
    BY <1>1, <1>6 DEF client_free_socks
  <2> QED BY <1>5, <1>6, <2>1 DEF AppEnd, SocksEnd
<1>7. CASE /\ ~(/\ d.socks_up
                /\ d.socks_recv_buf_used >= 0 \/ d.socks_recv_tcp_pending > 0
                /\ ~d.client_closed)
           /\ ~d.client_closed
  <2>1. client_free_socks(c, how) = client_handle_freed_client(DropPcb(d, how))
    BY <1>1, <1>7 DEF client_free_socks, client_free_client
  <2>2. AppGivenUp(d, client_free_socks(c, how), how)
    BY <1>4, <1>5, <2>1, FreedClientEnds
  <2> QED BY <1>5, <1>7, <2>2 DEF AppGivenUp
<1>8. CASE d.client_closed
  <2>1. client_free_socks(c, how) = client_dealloc(d)
    BY <1>1, <1>8 DEF client_free_socks
  <2>2. client_dealloc(d).entry = "freed" /\ client_dealloc(d).pcb = d.pcb
        /\ client_dealloc(d).socks_closed
    BY <1>4, <1>5 DEF client_dealloc, Client
  <2> QED BY <1>5, <1>8, <2>1, <2>2 DEF AppEnd, SocksEnd
<1> QED BY <1>6, <1>7, <1>8

(* client_socks_recv_send_out touches the ends only when it aborts. *)
LEMMA SendOutEnds ==
  ASSUME NEW c \in Client, SendOutPre(c), c.pcb = "open",
         NEW w \in Writable(c), NEW ok \in BOOLEAN
  PROVE  LET d == client_socks_recv_send_out(c, w, ok)
         IN \/ AppGivenUp(c, d, "aborted") /\ d.client_closed
            \/ /\ AppEnd(d) = "open" /\ SocksEnd(d) = SocksEnd(c)
               /\ d.entry = "live" /\ d \in Client
<1>1. PICK q : q = [c EXCEPT !.socks_recv_buf_sent = c.socks_recv_buf_sent + w,
                             !.socks_recv_tcp_pending = c.socks_recv_tcp_pending + w]
  OBVIOUS
<1>2. c.socks_recv_buf_sent + w \in Int /\ c.socks_recv_tcp_pending + w \in Int /\ -1 \in Int
  BY WritableRange DEF Client
<1>3. /\ q \in Client /\ q.entry = "live" /\ q.pcb = "open"
      /\ q.buf_used = c.buf_used /\ q.socks_closed = c.socks_closed
      /\ q.socks_up = c.socks_up
  BY <1>1, <1>2, Zenon DEF Client, SendOutPre
<1>4. AppGivenUp(c, client_abort_client(q), "aborted") /\ client_abort_client(q).client_closed
  <2>1. AppGivenUp(q, client_abort_client(q), "aborted")
    BY <1>3, FreedClientEnds DEF client_abort_client, How
  <2>2. Released(q, client_abort_client(q))
    BY <1>1, <1>3, FreedClient, ZenonT(40) DEF client_abort_client, How, SendOutPre, UpSide, Client
  <2> QED BY <1>3, <2>1, <2>2 DEF AppGivenUp, SocksEnd, SendOutPre, Released
<1>5. LET d == [q EXCEPT !.socks_recv_buf_used = -1]
      IN AppEnd(d) = "open" /\ SocksEnd(d) = SocksEnd(c) /\ d.entry = "live" /\ d \in Client
  BY <1>2, <1>3, Zenon DEF AppEnd, SocksEnd, Client, SendOutPre
<1>6. LET d == [q EXCEPT !.socks_recv_waiting = TRUE]
      IN AppEnd(d) = "open" /\ SocksEnd(d) = SocksEnd(c) /\ d.entry = "live" /\ d \in Client
  <2>1. PICK d : d = [q EXCEPT !.socks_recv_waiting = TRUE]
    BY Zenon
  <2>2. /\ d \in Client /\ d.entry = q.entry /\ d.pcb = q.pcb
        /\ d.socks_closed = q.socks_closed /\ d.socks_up = q.socks_up
    BY <1>3, <2>1, Zenon DEF Client
  <2> QED BY <1>3, <2>1, <2>2 DEF AppEnd, SocksEnd, SendOutPre
<1> QED BY <1>1, <1>4, <1>5, <1>6 DEF client_socks_recv_send_out


-----------------------------------------------------------------------------
(* Each action is a step of Relay or leaves it unchanged. *)
RelayStep == R!Next \/ UNCHANGED R!vars

(* The state before listener_accept_func is Relay's initial state. *)
LEMMA InitRelay == Init => R!Init
  BY DEF Init, R!Init, NewClient, AppEnd, SocksEnd

(* listener_accept_func opens the relay, or fails and opens nothing. *)
LEMMA AcceptRelay == ASSUME Accept \/ AcceptFails PROVE RelayStep
<1>1. AppEnd(client) = "idle"
  BY DEF Accept, AcceptFails, AppEnd
<1>2. CASE Accept
  <2>1. AppEnd(client') = "open" /\ SocksEnd(client') = "connecting"
    BY <1>2 DEF Accept, DEAD_ENTER, NewClient, AppEnd, SocksEnd
  <2> QED BY <1>1, <1>2, <2>1 DEF Accept, RelayStep, R!Next, R!Open
<1>3. CASE AcceptFails
  <2>1. AppEnd(client') = "gone" /\ SocksEnd(client') = "over"
    BY <1>3 DEF AcceptFails, NewClient, AppEnd, SocksEnd
  <2> QED BY <1>1, <1>3, <2>1 DEF AcceptFails, RelayStep, R!Next, R!Open
<1> QED BY <1>2, <1>3

(* client_recv_func takes no more than client->buf has room for, and only  *)
(* while SOCKS can still be given it.                                      *)
LEMMA RecvDataRelay == ASSUME NEW n \in 1..TCP_WND, IInv, RecvData(n) PROVE RelayStep
<1>0. /\ client \in Client /\ client.entry = "live" /\ LiveInv(client)
      /\ client.pcb = "open" /\ ~client.client_closed
      /\ client.rcv_wnd + client.buf_used = TCP_WND /\ n <= client.rcv_wnd
      /\ client.recv_cb /\ ~client.socks_closed
  BY DEF IInv, TypeOK, RecvData, LwipMayCall, LiveInv, Live
<1>1. n <= TCP_WND - client.buf_used
  BY <1>0, SizesAssumption DEF Client
<1>2. PICK c : c = [client EXCEPT !.rcv_wnd = client.rcv_wnd - n,
                                  !.buf_used = client.buf_used + n]
  OBVIOUS
<1>3. /\ client' = IF c.buf_used = n /\ c.socks_up
                   THEN [c EXCEPT !.sending = c.buf_used, !.dead_client = "entered"] ELSE c
      /\ up_rx' = up_rx + n /\ UNCHANGED <<up_tx, dn_rx, dn_q, dn_ack>>
  BY <1>1, <1>2 DEF RecvData, client_send_to_socks, DEAD_ENTER
<1>4. /\ client'.entry = "live" /\ client'.pcb = "open"
      /\ client'.socks_closed = client.socks_closed /\ client'.socks_up = client.socks_up
  BY <1>0, <1>2, <1>3 DEF Client
<1>5. up_rx = up_tx + client.buf_used /\ up_rx \in Nat /\ up_tx \in Nat
  BY <1>0 DEF IInv, TypeOK, StreamInv, UpStreamInOrder, Live
<1>6. up_rx' > up_rx /\ up_rx' - up_tx <= TCP_WND
  BY <1>0, <1>1, <1>3, <1>5, SizesAssumption DEF Client
<1>7. R!Take
  BY <1>0, <1>3, <1>4, <1>6 DEF R!Take, AppEnd, SocksEnd
<1> QED BY <1>7 DEF RelayStep, R!Next

(* What an end of the app's connection is to Relay. *)
LEMMA AppEndsRelay ==
  ASSUME IInv, LwipMayCall, NEW how \in How \cup {"gone"},
         client' = client_handle_freed_client(DropPcb(client, how)),
         UNCHANGED <<up_rx, up_tx, dn_rx, dn_q, dn_ack>>
  PROVE  RelayStep
<1>1. /\ client \in Client /\ client.entry = "live" /\ client.pcb = "open"
      /\ up_rx = up_tx + client.buf_used /\ up_rx \in Nat /\ up_tx \in Nat
      /\ client.buf_used \in Nat
  BY SizesAssumption
     DEF IInv, TypeOK, StreamInv, UpStreamInOrder, LwipMayCall, Live, Client
<1>2. AppGivenUp(client, client', how)
  BY <1>1, FreedClientEnds
<1>3. SocksEnd(client') = IF up_rx = up_tx THEN "over" ELSE SocksEnd(client)
  BY <1>1, <1>2 DEF AppGivenUp, SocksEnd
<1>4. R!AppEnds
  BY <1>1, <1>2, <1>3 DEF R!AppEnds, R!SocksFollows, R!Ended, AppGivenUp, AppEnd, How
<1> QED BY <1>4 DEF RelayStep, R!Next

(* The events that lwIP reports, apart from data and acknowledgements. *)
LEMMA ClientEndRelay ==
  ASSUME IInv, RecvFin \/ FinUnseen \/ client_err_func
  PROVE  RelayStep
<1>1. CASE RecvFin
  BY <1>1, AppEndsRelay DEF RecvFin, client_free_client
<1>2. CASE FinUnseen
  BY <1>2 DEF FinUnseen, RelayStep, R!vars
<1>3. CASE client_err_func
  BY <1>3, AppEndsRelay DEF client_err_func
<1> QED BY <1>1, <1>2, <1>3

(* The end of SOCKS: bytes owed to the app are exactly those that          *)
(* client_free_socks keeps it for.                                         *)
LEMMA SocksEndsRelay ==
  ASSUME IInv, SocksError \/ SocksClosed PROVE RelayStep
<1>1. /\ client \in Client /\ client.entry = "live" /\ LiveInv(client)
      /\ ~client.socks_closed
      /\ UNCHANGED <<up_rx, up_tx, dn_rx, dn_q, dn_ack>>
      /\ dn_rx \in Nat /\ dn_q \in Nat /\ dn_ack \in Nat
  BY DEF IInv, TypeOK, SocksError, SocksClosed, RecvJobMayRun, Live
<1>2. PICK how \in How : client' = client_free_socks(client, how)
  BY DEF SocksError, SocksClosed
<1>3. client.client_closed <=> client.pcb # "open"
  BY <1>1 DEF LiveInv
<1>4. client.pcb = "open" =>
        ((/\ client.socks_up
          /\ client.socks_recv_buf_used >= 0 \/ client.socks_recv_tcp_pending > 0)
         <=> dn_ack # dn_rx)
  <2>1. CASE client.pcb = "open" /\ client.socks_up
    <3>1. DownSide(client) /\ DownStreamInOrder
      BY <1>1, <1>3, <2>1 DEF LiveInv, IInv, StreamInv
    <3>2. dn_q = dn_ack + client.socks_recv_tcp_pending /\ client.socks_recv_tcp_pending \in Nat
      BY <1>1, <1>3, <2>1, <3>1, SizesAssumption DEF DownSide, DownStreamInOrder, Live
    <3>3. CASE client.socks_recv_buf_used = -1
      BY <1>1, <1>3, <2>1, <3>1, <3>2, <3>3 DEF DownStreamInOrder, Live
    <3>4. CASE client.socks_recv_buf_used # -1
      <4>1. /\ dn_q = client.socks_recv_off + client.socks_recv_buf_sent
            /\ dn_rx = client.socks_recv_off + client.socks_recv_buf_used
            /\ client.socks_recv_buf_sent >= 0
            /\ client.socks_recv_buf_sent < client.socks_recv_buf_used
            /\ client.socks_recv_off \in Nat /\ client.socks_recv_buf_sent \in Int
            /\ client.socks_recv_buf_used \in Int
        BY <1>1, <1>3, <2>1, <3>1, <3>4 DEF DownSide, DownStreamInOrder, Live, Client
      <4> QED BY <1>1, <2>1, <3>2, <4>1
    <3> QED BY <3>3, <3>4
  <2>2. CASE ~client.socks_up
    BY <1>1, <2>2 DEF IInv, StreamInv, Live
  <2> QED BY <2>1, <2>2
<1>5. /\ SocksEnd(client') = "over"
      /\ AppEnd(client') = IF client.pcb = "open" /\ dn_ack = dn_rx THEN how ELSE client.pcb
  BY <1>1, <1>2, <1>3, <1>4, FreedSocksEnds
<1>6. R!SocksEnds
  BY <1>1, <1>5 DEF R!SocksEnds, AppEnd, SocksEnd, How
<1> QED BY <1>6 DEF RelayStep, R!Next


(* BSOCKSCLIENT_EVENT_UP *)
LEMMA SocksUpRelay == ASSUME IInv, SocksUp PROVE RelayStep
<1>1. /\ client \in Client /\ client.entry = "live"
      /\ ~client.socks_closed /\ ~client.socks_up
  BY DEF IInv, TypeOK, SocksUp, Live
<1>2. PICK c : c = [client EXCEPT !.socks_recv_buf_used = -1,
                                  !.socks_recv_tcp_pending = 0,
                                  !.sent_cb = ~client.client_closed,
                                  !.socks_up = TRUE]
  OBVIOUS
<1>3. /\ c \in Client /\ c.entry = "live" /\ c.pcb = client.pcb
      /\ ~c.socks_closed /\ c.socks_up
  <2>1. -1 \in Int /\ 0 \in Int /\ (~client.client_closed) \in BOOLEAN
    OBVIOUS
  <2> QED BY <1>1, <1>2, <2>1, ZenonT(40) DEF Client
<1>4. PICK d : d = IF c.buf_used > 0 THEN client_send_to_socks(c) ELSE c
  OBVIOUS
<1>5. client' = IF ~d.client_closed THEN client_socks_recv_initiate(d) ELSE d
  BY <1>2, <1>4 DEF SocksUp
<1>6. /\ d \in Client /\ d.entry = "live" /\ d.pcb = client.pcb
      /\ ~d.socks_closed /\ d.socks_up
  BY <1>3, <1>4 DEF client_send_to_socks, Client
<1>7. /\ client'.entry = "live" /\ client'.pcb = client.pcb
      /\ ~client'.socks_closed /\ client'.socks_up
  BY <1>5, <1>6 DEF client_socks_recv_initiate, Client
<1>8. R!Connected
  BY <1>1, <1>7 DEF R!Connected, AppEnd, SocksEnd, SocksUp
<1> QED BY <1>8 DEF RelayStep, R!Next

(* client_socks_send_handler_done: SOCKS is freed with the last byte of a  *)
(* client that is closed.                                                  *)
LEMMA SendDoneRelay ==
  ASSUME NEW n \in 1..TCP_WND, IInv, client_socks_send_handler_done(n)
  PROVE  RelayStep
<1>1. /\ client \in Client /\ client.entry = "live" /\ LiveInv(client)
      /\ ~client.socks_closed /\ n <= client.sending /\ client.sending <= client.buf_used
      /\ up_tx' = client.buf_off + n /\ UNCHANGED <<up_rx, dn_rx, dn_q, dn_ack>>
      /\ up_tx = client.buf_off /\ up_rx = up_tx + client.buf_used
      /\ up_rx \in Nat /\ up_tx \in Nat
  BY DEF IInv, TypeOK, client_socks_send_handler_done, SendJobMayRun, Live, LiveInv,
         UpSide, StreamInv, UpStreamInOrder
<1>2. /\ n \in Nat /\ n > 0 /\ client.sending \in Nat /\ client.buf_used \in Nat
      /\ client.buf_off \in Nat /\ TCP_WND \in Nat /\ client.buf_used <= TCP_WND
      /\ client.rcv_wnd \in 0..TCP_WND
  BY <1>1, SizesAssumption DEF Client
<1>3. client.socks_up /\ (client.client_closed <=> client.pcb # "open")
  BY <1>1, <1>2 DEF LiveInv, UpSide, Client
<1>4. PICK c : c = [client EXCEPT !.sending = 0, !.buf_off = client.buf_off + n,
                                  !.buf_used = client.buf_used - n]
  OBVIOUS
<1>5. /\ client.buf_used - n \in 0..TCP_WND /\ 0 \in 0..TCP_WND
      /\ client.buf_off + n \in Nat
  BY <1>1, <1>2
<1>6. /\ c \in Client /\ c.entry = "live" /\ c.pcb = client.pcb
      /\ c.client_closed = client.client_closed /\ c.socks_up /\ ~c.socks_closed
      /\ c.buf_used = client.buf_used - n /\ c.rcv_wnd = client.rcv_wnd
  BY <1>1, <1>3, <1>4, <1>5, ZenonT(40) DEF Client
<1>7. PICK d : d = IF ~c.client_closed THEN tcp_recved(c, n) ELSE c
  OBVIOUS
<1>8. /\ d \in Client /\ d.entry = "live" /\ d.pcb = client.pcb
      /\ d.client_closed = client.client_closed /\ d.socks_up /\ ~d.socks_closed
      /\ d.buf_used = client.buf_used - n
  <2>1. Min2(c.rcv_wnd + n, TCP_WND) \in 0..TCP_WND
    BY <1>2, <1>6 DEF Min2
  <2> QED BY <1>6, <1>7, <2>1 DEF tcp_recved, Client
<1>9. IF d.buf_used > 0 THEN client' = client_send_to_socks(d)
      ELSE IF d.client_closed THEN \E how \in How : client' = client_free_socks(d, how)
      ELSE client' = d
  BY <1>4, <1>7 DEF client_socks_send_handler_done
<1>10. up_tx' > up_tx /\ up_tx' <= up_rx /\ (up_tx' = up_rx <=> d.buf_used = 0)
  BY <1>1, <1>2, <1>8
<1>11. /\ AppEnd(client') = client.pcb
       /\ SocksEnd(client') = IF client.pcb # "open" /\ up_tx' = up_rx THEN "over" ELSE "up"
  <2>1. CASE d.buf_used > 0
    BY <1>8, <1>9, <1>10, <2>1 DEF client_send_to_socks, AppEnd, SocksEnd, Client
  <2>2. CASE d.buf_used = 0 /\ d.client_closed
    <3>1. PICK how \in How : client' = client_free_socks(d, how)
      BY <1>9, <2>2
    <3> QED BY <1>3, <1>8, <1>10, <2>2, <3>1, FreedSocksEnds
  <2>3. CASE d.buf_used = 0 /\ ~d.client_closed
    BY <1>3, <1>8, <1>9, <1>10, <2>3 DEF AppEnd, SocksEnd
  <2> QED BY <1>2, <1>5, <1>8, <2>1, <2>2, <2>3
<1>12. R!Give
  BY <1>1, <1>3, <1>10, <1>11 DEF R!Give, AppEnd, SocksEnd
<1> QED BY <1>12 DEF RelayStep, R!Next

(* The end of an lwIP callback and the end of the process. *)
LEMMA ReturnRelay == ASSUME IInv, SyncReturn \/ client_murder PROVE RelayStep
<1>1. CASE SyncReturn
  <2>3. SameButDead(client, client')
    BY <1>1, SyncSame
  <2>4. AppEnd(client') = AppEnd(client) /\ SocksEnd(client') = SocksEnd(client)
    BY <2>3 DEF SameButDead, AppEnd, SocksEnd
  <2> QED BY <1>1, <2>4 DEF SyncReturn, RelayStep, R!vars
<1>2. CASE client_murder
  <2>1. client \in Client /\ client.entry = "live" /\ LiveInv(client)
    BY <1>2 DEF IInv, TypeOK, client_murder, Live
  <2>2. PICK c : c = IF client.client_closed THEN client
                     ELSE [DEAD_KILL(DropPcb(client, "aborted")) EXCEPT !.client_closed = TRUE]
    BY Zenon
  <2>3. /\ c \in Client
        /\ c.pcb = IF client.pcb = "open" THEN "aborted" ELSE client.pcb
    <3>2. DropPcb(client, "aborted") \in Client /\ DropPcb(client, "aborted").pcb = "aborted"
      BY <2>1, Zenon DEF DropPcb, Client
    <3>3. SameButDead(DropPcb(client, "aborted"), DEAD_KILL(DropPcb(client, "aborted")))
      BY <3>2, KillOnly
    <3>4. /\ DEAD_KILL(DropPcb(client, "aborted")) \in Client
          /\ DEAD_KILL(DropPcb(client, "aborted")).pcb = "aborted"
      BY <3>2, <3>3 DEF SameButDead
    <3> QED BY <2>1, <2>2, <3>4, ZenonT(40) DEF Client, LiveInv
  <2>4. PICK d : d = IF c.socks_closed THEN c ELSE BSocksClient_Free(c)
    OBVIOUS
  <2>5. d \in Client /\ d.pcb = c.pcb /\ d.socks_closed
    <3>1. 0 \in 0..TCP_WND
      BY SizesAssumption
    <3> QED BY <2>3, <2>4, <3>1, ZenonT(40) DEF BSocksClient_Free, Client
  <2>6. client' = client_dealloc(d)
    BY <1>2, <2>2, <2>4 DEF client_murder
  <2>7. client'.entry = "freed" /\ client'.pcb = d.pcb /\ client'.socks_closed
    BY <2>5, <2>6 DEF client_dealloc, Client
  <2>8. R!Quit
    BY <1>2, <2>1, <2>3, <2>5, <2>7 DEF R!Quit, AppEnd, SocksEnd, client_murder, Client
  <2> QED BY <2>8 DEF RelayStep, R!Next
<1> QED BY <1>1, <1>2


(* Bytes are sent on to the app: w of them, after dn_rx and dn_ack have    *)
(* been brought up to date.                                                *)
LEMMA SendOnRelay ==
  ASSUME IInv, client.entry = "live",
         NEW c \in Client, SendOutPre(c), c.pcb = "open",
         client.pcb = "open" /\ c.socks_closed = client.socks_closed,
         client.socks_up /\ c.buf_used = client.buf_used,
         NEW w \in Writable(c), NEW ok \in BOOLEAN,
         NEW d, d = client_socks_recv_send_out(c, w, ok),
         \/ client' = d
         \/ ~d.client_closed /\ client' = client_socks_recv_initiate(d)
         \/ ~d.client_closed /\ client' = DEAD_ENTER(client_socks_recv_initiate(d)),
         UNCHANGED <<up_rx, up_tx>>,
         dn_q \in Nat, dn_ack' \in Nat,
         dn_q' = dn_q + w, dn_q = dn_ack' + c.socks_recv_tcp_pending,
         dn_rx' = dn_q + (c.socks_recv_buf_used - c.socks_recv_buf_sent)
  PROVE  R!SendOn
<1>1. /\ w \in Nat /\ c.socks_recv_buf_sent + w <= c.socks_recv_buf_used
      /\ c.socks_recv_tcp_pending + w \in 0..TCP_SND_BUF
  BY WritableRange
<1>2. dn_q' >= dn_q /\ dn_q' <= dn_rx' /\ dn_q' - dn_ack' <= TCP_SND_BUF
  BY <1>1, SizesAssumption DEF Client
<1>3. /\ up_rx = up_tx + client.buf_used /\ up_rx \in Nat /\ up_tx \in Nat
      /\ client.buf_used \in Nat
  BY SizesAssumption DEF IInv, TypeOK, StreamInv, UpStreamInOrder, Live, Client
<1>4. SocksEnd(c) = SocksEnd(client) /\ AppEnd(client) = "open"
  BY DEF SocksEnd, AppEnd, SendOutPre
<1>5. CASE AppGivenUp(c, d, "aborted") /\ d.client_closed
  <2>1. client' = d
    BY <1>5
  <2>2. SocksEnd(client') = IF up_rx = up_tx THEN "over" ELSE SocksEnd(client)
    BY <1>3, <1>4, <1>5, <2>1 DEF AppGivenUp, SocksEnd
  <2> QED BY <1>2, <1>5, <2>1, <2>2 DEF R!SendOn, R!SocksFollows, AppGivenUp
<1>6. CASE /\ AppEnd(d) = "open" /\ SocksEnd(d) = SocksEnd(c)
           /\ d.entry = "live" /\ d \in Client
  <2>1. AppEnd(client') = AppEnd(d) /\ SocksEnd(client') = SocksEnd(d)
    <3>1. /\ d.entry = client'.entry /\ d.pcb = client'.pcb
          /\ d.socks_closed = client'.socks_closed /\ d.socks_up = client'.socks_up
      <4>1. PICK e : e = client_socks_recv_initiate(d)
        BY Zenon
      <4>2. /\ e \in Client /\ d.entry = e.entry /\ d.pcb = e.pcb
            /\ d.socks_closed = e.socks_closed /\ d.socks_up = e.socks_up
        BY <1>6, <4>1, Zenon DEF client_socks_recv_initiate, Client
      <4>3. SameButDead(e, DEAD_ENTER(e))
        BY <4>2, DeadOnly DEF DEAD_ENTER
      <4>4. client' \in {d, e, DEAD_ENTER(e)}
        BY <4>1
      <4> QED BY <4>2, <4>3, <4>4 DEF SameButDead
    <3> QED BY <3>1 DEF AppEnd, SocksEnd
  <2> QED BY <1>2, <1>4, <1>6, <2>1 DEF R!SendOn
<1> QED BY <1>5, <1>6, SendOutEnds

(* client_socks_recv_handler_done *)
LEMMA RecvDoneRelay ==
  ASSUME NEW n \in 1..CLIENT_SOCKS_RECV_BUF_SIZE, IInv, client_socks_recv_handler_done(n)
  PROVE  RelayStep
<1>0. /\ client \in Client /\ client.entry = "live" /\ LiveInv(client)
      /\ ~client.socks_closed /\ client.receiving /\ client.socks_up
      /\ n \in Nat /\ n > 0 /\ dn_rx \in Nat /\ dn_q \in Nat /\ dn_ack \in Nat
      /\ n <= CLIENT_SOCKS_RECV_BUF_SIZE /\ CLIENT_SOCKS_RECV_BUF_SIZE \in Nat
  BY SizesAssumption
     DEF IInv, TypeOK, client_socks_recv_handler_done, RecvJobMayRun, Live, LiveInv, UpSide
<1>1. dn_rx' = dn_rx + n /\ UNCHANGED <<up_rx, up_tx, dn_ack>>
  BY DEF client_socks_recv_handler_done
<1>2. dn_rx' > dn_rx /\ dn_rx' - dn_rx <= CLIENT_SOCKS_RECV_BUF_SIZE
  BY <1>0, <1>1
<1>3. CASE client.client_closed
  <2>1. client' = [client EXCEPT !.receiving = FALSE] /\ dn_q' = dn_q
    BY <1>3 DEF client_socks_recv_handler_done
  <2>2. AppEnd(client') = AppEnd(client) /\ SocksEnd(client') = SocksEnd(client)
    BY <1>0, <2>1 DEF AppEnd, SocksEnd, Client
  <2>3. client.pcb \in {"closed", "aborted", "gone"}
    BY <1>0, <1>3 DEF LiveInv, Client
  <2>4. R!FetchInVain
    BY <1>0, <1>1, <1>2, <2>1, <2>2, <2>3 DEF R!FetchInVain, R!Ended, AppEnd, SocksEnd
  <2> QED BY <2>4 DEF RelayStep, R!Next
<1>4. CASE ~client.client_closed
  <2>1. PICK c : c = [client EXCEPT !.receiving = FALSE, !.socks_recv_off = dn_rx,
                                    !.socks_recv_buf_used = n,
                                    !.socks_recv_buf_sent = 0,
                                    !.socks_recv_waiting = FALSE]
    OBVIOUS
  <2>2. PICK w \in Writable(c), ok \in BOOLEAN :
          LET d == client_socks_recv_send_out(c, w, ok) IN
          /\ client' = IF ~d.client_closed /\ d.socks_recv_buf_used = -1
                       THEN client_socks_recv_initiate(d) ELSE d
          /\ dn_q' = Queued(c, w)
    BY <1>4, <2>1, Zenon DEF client_socks_recv_handler_done
  <2>3. /\ c \in Client /\ c.entry = "live" /\ ~c.client_closed /\ c.socks_up
        /\ c.buf_used = client.buf_used /\ c.sending = client.sending
        /\ c.pcb = "open" /\ client.pcb = "open" /\ ~c.receiving
        /\ c.socks_closed = client.socks_closed /\ c.sent_cb /\ c.socks_recv_tcp_pending = client.socks_recv_tcp_pending
        /\ c.socks_recv_buf_used = n /\ c.socks_recv_buf_sent = 0
        /\ c.socks_recv_off = dn_rx
    <3>1. n \in Int /\ 0 \in Int
      BY <1>0
    <3> QED BY <1>0, <1>4, <2>1, <3>1, ZenonT(90) DEF Client, LiveInv, DownSide
  <2>4. SendOutPre(c)
    BY <1>0, <1>4, <2>3 DEF SendOutPre, LiveInv, UpSide, DownSide
  <2>5. w \in Nat
    BY <2>2, <2>3, <2>4, WritableRange
  <2>6. dn_rx = dn_q /\ dn_q = dn_ack + client.socks_recv_tcp_pending
    BY <1>0, <1>4 DEF IInv, StreamInv, DownStreamInOrder, Live, LiveInv, DownSide
  <2>7. dn_q' = dn_q + w
    BY <1>0, <2>2, <2>3, <2>5, <2>6 DEF Queued
  <2>8. PICK d : d = client_socks_recv_send_out(c, w, ok)
    OBVIOUS
  <2>9. client' = d \/ (~d.client_closed /\ client' = client_socks_recv_initiate(d))
    BY <2>2, <2>8
  <2>10. R!SendOn
    <3>1. /\ dn_ack' \in Nat /\ dn_q = dn_ack' + c.socks_recv_tcp_pending
          /\ dn_rx' = dn_q + (c.socks_recv_buf_used - c.socks_recv_buf_sent)
      BY <1>0, <1>1, <2>3, <2>6
    <3> QED BY <1>0, <1>1, <2>2, <2>3, <2>4, <2>7, <2>8, <2>9, <3>1, SendOnRelay
  <2>11. R!Fetch
    BY <1>0, <1>1, <1>2, <2>3, <2>6, <2>10 DEF R!Fetch, AppEnd, SocksEnd
  <2> QED BY <2>11 DEF RelayStep, R!Next
<1> QED BY <1>3, <1>4

(* client_sent_func that resumes in the middle of socks_recv_buf. *)
LEMMA SentMoreRelay ==
  ASSUME NEW n \in 1..TCP_SND_BUF, IInv, client_sent_func(n),
         client.socks_recv_buf_used > 0
  PROVE  RelayStep
<1>1. PICK p : p = client.socks_recv_tcp_pending - n
  OBVIOUS
<1>2. p \in Int /\ p \in 0..TCP_SND_BUF /\ dn_q = dn_ack' + p /\ dn_ack' \in Nat
  BY <1>1, SentPre DEF Client
<1>3. PICK c : c = [client EXCEPT !.socks_recv_tcp_pending = p, !.socks_recv_waiting = FALSE]
  OBVIOUS
<1>4. PICK w \in Writable(c), ok \in BOOLEAN :
        LET d    == client_socks_recv_send_out(c, w, ok)
            more == ~d.client_closed /\ d.socks_recv_buf_used = -1 /\ ~d.socks_closed
        IN /\ client' = IF more THEN DEAD_ENTER(client_socks_recv_initiate(d)) ELSE d
           /\ dn_q' = Queued(c, w)
  BY <1>1, <1>3 DEF client_sent_func, SentMore
<1>5. /\ c \in Client /\ c.entry = "live" /\ ~c.client_closed /\ c.socks_up
      /\ c.buf_used = client.buf_used /\ c.sending = client.sending
      /\ c.receiving = client.receiving /\ c.sent_cb = client.sent_cb
      /\ c.pcb = "open" /\ c.socks_closed = client.socks_closed
      /\ c.socks_recv_tcp_pending = p
      /\ c.socks_recv_buf_used = client.socks_recv_buf_used
      /\ c.socks_recv_buf_sent = client.socks_recv_buf_sent
      /\ c.socks_recv_off = client.socks_recv_off
  BY <1>2, <1>3, SentPre, ZenonT(40) DEF Client
<1>6. UpSide(c)
  BY <1>5, SentPre DEF UpSide
<1>7. c.sent_cb /\ ~c.receiving /\ c.socks_recv_buf_sent >= 0
      /\ c.socks_recv_buf_sent < c.socks_recv_buf_used
      /\ c.socks_recv_buf_sent \in Int /\ c.socks_recv_buf_used \in Int
      /\ c.socks_recv_off \in Nat
  BY <1>5, SentPre DEF DownSide, Client
<1>8. SendOutPre(c)
  BY <1>2, <1>5, <1>6, <1>7, ZenonT(40) DEF SendOutPre
<1>9. w \in Nat
  BY <1>4, <1>5, <1>8, WritableRange
<1>10. /\ dn_q = c.socks_recv_off + c.socks_recv_buf_sent
       /\ dn_rx = c.socks_recv_off + c.socks_recv_buf_used
  <2>1. client.socks_recv_buf_used # -1 /\ Live
    BY SentPre DEF Client, Live
  <2> QED BY <1>5, <2>1, SentPre DEF IInv, StreamInv, DownStreamInOrder
<1>11. dn_q' = dn_q + w /\ dn_rx' = dn_q + (c.socks_recv_buf_used - c.socks_recv_buf_sent)
  BY <1>4, <1>7, <1>9, <1>10, SentPre DEF Queued
<1>12. PICK d : d = client_socks_recv_send_out(c, w, ok)
  OBVIOUS
<1>13. client' = d \/ (~d.client_closed /\ client' = DEAD_ENTER(client_socks_recv_initiate(d)))
  BY <1>4, <1>12
<1>14. R!SendOn
  BY <1>2, <1>4, <1>5, <1>8, <1>11, <1>12, <1>13, SentPre, SendOnRelay, ZenonT(40)
<1>15. dn_ack' > dn_ack /\ dn_ack' <= dn_q /\ dn_ack' # dn_rx
  <2>0. n \in Nat /\ n > 0 /\ dn_ack \in Nat /\ dn_q \in Nat /\ dn_ack' = dn_ack + n
    BY SentPre
  <2>1. p \in Nat /\ p <= TCP_SND_BUF /\ TCP_SND_BUF \in Nat
    BY <1>2, SizesAssumption
  <2> QED BY <1>2, <1>7, <1>10, <2>0, <2>1
<1>16. R!Acknowledge
  BY <1>14, <1>15, SentPre DEF R!Acknowledge, AppEnd
<1> QED BY <1>16 DEF RelayStep, R!Next

(* client_sent_func with nothing left to queue: the last acknowledgement   *)
(* after SOCKS went down closes the client.                                *)
LEMMA SentAllRelay ==
  ASSUME NEW n \in 1..TCP_SND_BUF, IInv, client_sent_func(n),
         ~(client.socks_recv_buf_used > 0)
  PROVE  RelayStep
<1>1. PICK p : p = client.socks_recv_tcp_pending - n
  OBVIOUS
<1>2. p \in Int /\ p \in 0..TCP_SND_BUF /\ dn_q = dn_ack' + p /\ dn_ack' \in Nat
  BY <1>1, SentPre DEF Client
<1>3. PICK c : c = [client EXCEPT !.socks_recv_tcp_pending = p]
  BY Zenon
<1>4. /\ dn_q' = dn_q
      /\ IF c.socks_closed /\ c.socks_recv_tcp_pending = 0
         THEN \E how \in How : client' = client_free_client(c, how)
         ELSE client' = c
  BY <1>1, <1>3 DEF client_sent_func, SentAll
<1>5. /\ c \in Client /\ c.entry = "live" /\ c.pcb = "open"
      /\ c.socks_closed = client.socks_closed /\ c.socks_up = client.socks_up
      /\ c.socks_recv_tcp_pending = p
  BY <1>2, <1>3, SentPre DEF Client
<1>6. dn_rx = dn_q
  <2>1. client.socks_recv_buf_used = -1
    BY SentPre DEF DownSide, Client
  <2> QED BY <2>1, SentPre DEF IInv, StreamInv, DownStreamInOrder, Live
<1>7. dn_ack' > dn_ack /\ dn_ack' <= dn_q /\ (dn_ack' = dn_rx <=> p = 0)
  <2>0. n \in Nat /\ n > 0 /\ dn_ack \in Nat /\ dn_q \in Nat /\ dn_ack' = dn_ack + n
    BY SentPre
  <2>1. p \in Nat /\ p <= TCP_SND_BUF /\ TCP_SND_BUF \in Nat
    BY <1>2, SizesAssumption
  <2> QED BY <1>2, <1>6, <2>0, <2>1
<1>8. dn_q - dn_ack' <= TCP_SND_BUF /\ dn_q <= dn_rx
  <2>0. n \in Nat /\ n > 0 /\ dn_ack \in Nat /\ dn_q \in Nat /\ dn_ack' = dn_ack + n
    BY SentPre
  <2>1. p \in Nat /\ p <= TCP_SND_BUF /\ TCP_SND_BUF \in Nat
    BY <1>2, SizesAssumption
  <2> QED BY <1>2, <1>6, <2>0, <2>1
<1>9. CASE c.socks_closed /\ p = 0
  <2>1. PICK how \in How : client' = client_free_client(c, how)
    BY <1>4, <1>5, <1>9
  <2>2. AppGivenUp(c, client', how)
    BY <1>5, <2>1, FreedClientEnds DEF client_free_client
  <2>3. /\ AppEnd(client') \in {"closed", "aborted"} /\ SocksEnd(client') = "over"
        /\ SocksEnd(client) = "over"
    BY <1>5, <1>9, <2>2, SentPre DEF AppGivenUp, How, SocksEnd
  <2> QED
    BY <1>4, <1>7, <1>9, <2>3, SentPre DEF RelayStep, R!Next, R!Acknowledge, AppEnd
<1>10. CASE ~(c.socks_closed /\ p = 0)
  <2>1. client' = c
    BY <1>4, <1>5, <1>10
  <2>2. AppEnd(client') = "open" /\ AppEnd(client) = "open" /\ SocksEnd(client') = SocksEnd(client)
    BY <1>5, <2>1, SentPre DEF AppEnd, SocksEnd
  <2>3. R!SendOn
    BY <1>4, <1>7, <1>8, <2>2, SentPre DEF R!SendOn
  <2>4. ~(SocksEnd(client) = "over" /\ dn_ack' = dn_rx)
    BY <1>5, <1>7, <1>10, SentPre DEF SocksEnd
  <2> QED
    BY <1>7, <2>2, <2>3, <2>4, SentPre DEF RelayStep, R!Next, R!Acknowledge
<1> QED BY <1>9, <1>10

-----------------------------------------------------------------------------
(* Every callback and job of tun2socks is a step of Relay or invisible. *)
LEMMA NextRelay == IInv /\ [Next]_vars => [R!Next]_(R!vars)
<1> SUFFICES ASSUME IInv, [Next]_vars PROVE RelayStep
  BY DEF RelayStep
<1>1. CASE Accept \/ AcceptFails
  BY <1>1, AcceptRelay
<1>2. CASE ClientEvent
  BY <1>2, RecvDataRelay, ClientEndRelay, SentMoreRelay, SentAllRelay DEF ClientEvent
<1>3. CASE SocksEvent
  BY <1>3, SocksUpRelay, SocksEndsRelay, SendDoneRelay, RecvDoneRelay DEF SocksEvent
<1>4. CASE SyncReturn \/ client_murder
  BY <1>4, ReturnRelay
<1>5. CASE UNCHANGED vars
  BY <1>5 DEF vars, RelayStep, R!vars
<1> QED BY <1>1, <1>2, <1>3, <1>4, <1>5 DEF Next

(* A tcp_client implements Relay: the handlers of tun2socks.c never lose,  *)
(* reorder or repeat a byte, never exceed their buffers, and give up an    *)
(* end that is owed bytes only when the other end failed.                  *)
THEOREM Refinement == Spec => ImplementsRelay
<1>1. Init /\ [][Next]_vars => R!Init /\ [][R!Next]_(R!vars)
  BY Invariance, InitRelay, NextRelay, PTL DEF Spec
<1> QED BY <1>1 DEF Spec, ImplementsRelay, R!Spec
=============================================================================
