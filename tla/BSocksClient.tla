---------------------------- MODULE BSocksClient ----------------------------
(***************************************************************************)
(* BSocksClient.c: the SOCKS5 handshake of one connection to the local     *)
(* proxy, from the connect to BSOCKSCLIENT_EVENT_UP, and the ownership of  *)
(* its connector, connection, I/O interfaces and buffer.                   *)
(*                                                                         *)
(* One buffer holds in turn each message that is sent and each reply that  *)
(* is received; messages and replies have their real lengths and are moved *)
(* in pieces of any size.  Their contents are what the code looks at: the  *)
(* method, the verdict and the address type.                               *)
(***************************************************************************)
EXTENDS Integers

CONSTANTS
  AuthInfos,    \* values of auth_info, as sets of methods: "none", "password"
  NameLens,     \* lengths of the username and of the password
  MaxData       \* bound: bytes the server sends right behind its reply

ASSUME HandshakeAssumption ==
  /\ AuthInfos \subseteq SUBSET {"none", "password"}
  /\ NameLens \subseteq Nat /\ MaxData \in Nat

VARIABLES
  o,       \* the BSocksClient
  server   \* the peer: what it got, what it answered, what is on the wire

vars == <<o, server>>

AddrTypes == {"IPV4", "IPV6"}

AddrLen(type) == IF type = "IPV4" THEN 6 ELSE 18

States == {"CONNECTING", "SENDING_HELLO", "SENT_HELLO", "SENDING_PASSWORD", "SENT_PASSWORD",
           "SENDING_REQUEST", "SENT_REQUEST", "RECEIVED_REPLY_HEADER", "UP"}

(* connector, con, control and up count initialisations minus frees; buffer *)
(* is its size, 0 for NULL; in_len and in_used are PacketStreamSender's, -1 *)
(* when it has no packet; recv_busy: a receive is in flight.                *)
Object == [d_obj : {"live", "freed"}, state : States,
           auth_info : SUBSET {"none", "password"}, username_len : Nat, password_len : Nat,
           dest_addr : AddrTypes,
           connector : 0..1, con : 0..1, control : 0..1, up : 0..1, buffer : Nat,
           in_len : Nat \cup {-1}, in_used : Nat,
           recv_busy : BOOLEAN, recv_dest : Nat, recv_len : Nat, recv_total : Nat]

(* got: bytes of the message it is receiving; owes: the reply it gives     *)
(* next; method, pass, rep, atyp: what it answered; wire: bytes of it not  *)
(* yet read; data: those of them that follow the reply.                    *)
Server == [got : Nat, owes : {"hello", "password", "reply", "none"},
           method : {"none", "password", "other"}, pass : BOOLEAN,
           rep : BOOLEAN, atyp : AddrTypes \cup {"other"}, wire : Nat, data : Nat]

(* BSocksClient_Init, when BConnector_Init succeeds *)
Init ==
  /\ \E a \in AuthInfos, u, p \in NameLens, t \in AddrTypes :
       o = [d_obj |-> "live", state |-> "CONNECTING", auth_info |-> a,
            username_len |-> u, password_len |-> p, dest_addr |-> t,
            connector |-> 1, con |-> 0, control |-> 0, up |-> 0, buffer |-> 0,
            in_len |-> -1, in_used |-> 0,
            recv_busy |-> FALSE, recv_dest |-> 0, recv_len |-> 0, recv_total |-> 0]
  /\ server = [got |-> 0, owes |-> "hello", method |-> "other", pass |-> FALSE,
               rep |-> FALSE, atyp |-> "other", wire |-> 0, data |-> 0]

-----------------------------------------------------------------------------
(* Helpers, as functions of the object *)

init_control_io(c) == [c EXCEPT !.control = @ + 1]

free_control_io(c) == [c EXCEPT !.control = @ - 1, !.in_len = -1, !.recv_busy = FALSE]

init_up_io(c) == [c EXCEPT !.up = @ + 1]

free_up_io(c) == [c EXCEPT !.up = @ - 1]

BSocksClient_Free(c) ==
  LET d == IF c.state = "CONNECTING" THEN c
           ELSE [(IF c.state = "UP" THEN free_up_io(c) ELSE free_control_io(c))
                   EXCEPT !.con = @ - 1]
  IN [d EXCEPT !.connector = @ - 1, !.buffer = 0, !.d_obj = "freed"]

(* The handler, client_socks_handler, frees the object at once. *)
report_error(c) == BSocksClient_Free(c)

(* reserve_buffer(size), whose BRealloc may fail, and a send of it all *)
SendMessage(c, size, state, ok) ==
  IF ok THEN [c EXCEPT !.buffer = size, !.in_len = size, !.in_used = 0, !.state = state]
  ELSE report_error(c)

start_receive(c, dest, total, state) ==
  [c EXCEPT !.recv_busy = TRUE, !.recv_dest = dest, !.recv_len = 0, !.recv_total = total,
            !.state = state]

HelloLen(c) == 2 + (IF "none" \in c.auth_info THEN 1 ELSE 0)
                 + (IF "password" \in c.auth_info THEN 1 ELSE 0)

PasswordLen(c) == 3 + c.username_len + c.password_len

RequestLen(c) == 4 + AddrLen(c.dest_addr)

auth_finished(c, ok) == SendMessage(c, RequestLen(c), "SENDING_REQUEST", ok)

-----------------------------------------------------------------------------
Live == o.d_obj = "live"

(* Fault: the I/O is not freed when the hello cannot be allocated. *)
ConnectorLeaks(is_error, ok) ==
  /\ Live /\ o.state = "CONNECTING"
  /\ o' = IF is_error THEN report_error(o)
          ELSE SendMessage([init_control_io(o) EXCEPT !.con = @ + 1], HelloLen(o),
                           "SENDING_HELLO", ok)
  /\ UNCHANGED server

(* is_error stands also for a BConnection_Init that fails.  On a failure   *)
(* after it the interfaces are freed here, as the state is CONNECTING.     *)
connector_handler(is_error, ok) ==
  /\ Live /\ o.state = "CONNECTING"
  /\ LET c == [init_control_io(o) EXCEPT !.con = @ + 1]
     IN o' = IF is_error THEN report_error(o)
             ELSE IF ok /\ c.auth_info # {}
             THEN SendMessage(c, HelloLen(c), "SENDING_HELLO", TRUE)
             ELSE report_error([free_control_io(c) EXCEPT !.con = @ - 1])
  /\ UNCHANGED server

(* The connection failed or was closed; BCONNECTION_EVENT_RECVCLOSED of a  *)
(* connection that is up is BSOCKSCLIENT_EVENT_ERROR_CLOSED, which is      *)
(* freed likewise.                                                         *)
connection_handler ==
  /\ Live /\ o.state # "CONNECTING"
  /\ o' = report_error(o)
  /\ UNCHANGED server

(* The switch of recv_handler_done *)
ReceivedHello(c, ok) ==
  IF server.method \notin c.auth_info THEN report_error(c)
  ELSE IF server.method = "none" THEN auth_finished(c, ok)
  ELSE IF c.username_len \notin 1..255 \/ c.password_len \notin 1..255 THEN report_error(c)
  ELSE SendMessage(c, PasswordLen(c), "SENDING_PASSWORD", ok)

ReceivedPasswordReply(c, ok) ==
  IF server.pass THEN auth_finished(c, ok) ELSE report_error(c)

(* Fault: the rest of the reply is read as if it had an IPv4 address. *)
ReplyIsIpv4(c) ==
  IF server.rep /\ server.atyp \in AddrTypes
  THEN start_receive(c, 4, AddrLen("IPV4"), "RECEIVED_REPLY_HEADER")
  ELSE report_error(c)

ReceivedReplyHeader(c) ==
  IF server.rep /\ server.atyp \in AddrTypes
  THEN start_receive(c, 4, AddrLen(server.atyp), "RECEIVED_REPLY_HEADER")
  ELSE report_error(c)

ReceivedReply(c) ==
  [init_up_io(free_control_io([c EXCEPT !.buffer = 0])) EXCEPT !.state = "UP"]

(* Fault: a reply that arrives in pieces is not read on. *)
ReadOnce(n, ok) ==
  /\ Live /\ o.recv_busy
  /\ n <= server.wire /\ n < o.recv_total - o.recv_len
  /\ o' = [o EXCEPT !.recv_len = @ + n, !.recv_busy = FALSE]
  /\ server' = [server EXCEPT !.wire = @ - n]

(* n bytes were read, then recv_handler_done *)
recv_handler_done(n, ok) ==
  /\ Live /\ o.recv_busy
  /\ n <= server.wire /\ n <= o.recv_total - o.recv_len
  /\ LET c == [o EXCEPT !.recv_len = @ + n, !.recv_busy = FALSE] IN
     o' = CASE c.recv_len < c.recv_total -> [c EXCEPT !.recv_busy = TRUE]
            [] c.recv_len = c.recv_total /\ c.state = "SENT_HELLO" -> ReceivedHello(c, ok)
            [] c.recv_len = c.recv_total /\ c.state = "SENT_PASSWORD" -> ReceivedPasswordReply(c, ok)
            [] c.recv_len = c.recv_total /\ c.state = "SENT_REQUEST" -> ReceivedReplyHeader(c)
            [] c.recv_len = c.recv_total /\ c.state = "RECEIVED_REPLY_HEADER" -> ReceivedReply(c)
  /\ server' = [server EXCEPT !.wire = @ - n]

(* Fault: the buffer of the reply has room for an IPv4 address only. *)
SmallReplyBuffer(c, ok) ==
  CASE ~ok -> report_error(c)
    [] ok /\ c.state = "SENDING_HELLO" ->
         start_receive([c EXCEPT !.buffer = 2], 0, 2, "SENT_HELLO")
    [] ok /\ c.state = "SENDING_PASSWORD" ->
         start_receive([c EXCEPT !.buffer = 2], 0, 2, "SENT_PASSWORD")
    [] ok /\ c.state = "SENDING_REQUEST" ->
         start_receive([c EXCEPT !.buffer = 4 + AddrLen("IPV4")], 0, 4, "SENT_REQUEST")

(* A message was sent: make room for its reply and receive it. *)
send_handler_done(c, ok) ==
  CASE ~ok -> report_error(c)
    [] ok /\ c.state = "SENDING_HELLO" ->
         start_receive([c EXCEPT !.buffer = 2], 0, 2, "SENT_HELLO")
    [] ok /\ c.state = "SENDING_PASSWORD" ->
         start_receive([c EXCEPT !.buffer = 2], 0, 2, "SENT_PASSWORD")
    [] ok /\ c.state = "SENDING_REQUEST" ->
         start_receive([c EXCEPT !.buffer = 4 + AddrLen("IPV6")], 0, 4, "SENT_REQUEST")

(* n bytes were written, then PacketStreamSender's output_handler_done *)
output_handler_done(n, ok) ==
  /\ Live /\ o.in_len # -1
  /\ n <= o.in_len - o.in_used
  /\ LET c == [o EXCEPT !.in_used = @ + n] IN
     o' = IF c.in_used < c.in_len THEN c
          ELSE send_handler_done([c EXCEPT !.in_len = -1], ok)
  /\ server' = [server EXCEPT !.got = @ + n]

(* client_free_socks: the user gives the connection up, in any state. *)
UserFree ==
  /\ Live
  /\ o' = BSocksClient_Free(o)
  /\ UNCHANGED server

-----------------------------------------------------------------------------
(* The server.  It answers a message once it has all of it. *)

Expected == CASE server.owes = "hello" -> HelloLen(o)
              [] server.owes = "password" -> PasswordLen(o)
              [] server.owes = "reply" -> RequestLen(o)
              [] server.owes = "none" -> -1

AnswerHello ==
  /\ server.owes = "hello"
  /\ \E m \in {"none", "password", "other"} :
       server' = [server EXCEPT !.got = 0, !.wire = 2, !.method = m,
                                !.owes = CASE m = "none" -> "reply"
                                           [] m = "password" -> "password"
                                           [] m = "other" -> "none"]

AnswerPassword ==
  /\ server.owes = "password"
  /\ \E b \in BOOLEAN :
       server' = [server EXCEPT !.got = 0, !.wire = 2, !.pass = b,
                                !.owes = IF b THEN "reply" ELSE "none"]

(* Its reply may have the first bytes of the relayed stream right behind. *)
AnswerRequest ==
  /\ server.owes = "reply"
  /\ \E b \in BOOLEAN, t \in AddrTypes \cup {"other"}, d \in 0..MaxData :
       server' = [server EXCEPT !.got = 0, !.owes = "none", !.rep = b, !.atyp = t,
                                !.data = d, !.wire = 4 + AddrLen(t) + d]

Answer ==
  /\ server.got = Expected
  /\ AnswerHello \/ AnswerPassword \/ AnswerRequest
  /\ UNCHANGED o

-----------------------------------------------------------------------------
Write == \E n \in 1..o.in_len, ok \in BOOLEAN : output_handler_done(n, ok)

Read == \E n \in 1..o.recv_total, ok \in BOOLEAN : recv_handler_done(n, ok)

Connected == \E is_error, ok \in BOOLEAN : connector_handler(is_error, ok)

Next == Connected \/ connection_handler \/ Write \/ Read \/ UserFree \/ Answer

(* A connect ends, what can be written is written, what arrived is read. *)
Fairness == WF_vars(Connected) /\ WF_vars(Write) /\ WF_vars(Read)

Spec == Init /\ [][Next]_vars

FairSpec == Spec /\ Fairness

-----------------------------------------------------------------------------
(* Both records have their types; in particular BSocksClient_Free never    *)
(* frees an interface that was not initialised.                            *)
TypeOK == o \in Object /\ server \in Server

(* Every resource is released exactly once, whenever and from wherever the *)
(* object is freed: what BSocksClient_Free concludes from state is what    *)
(* was really initialised.  The type goes with it: no count is negative.   *)
OwnershipFollowsState ==
  /\ TypeOK
  /\ IF Live
     THEN /\ o.connector = 1
          /\ o.con = (IF o.state = "CONNECTING" THEN 0 ELSE 1)
          /\ o.up = (IF o.state = "UP" THEN 1 ELSE 0)
          /\ o.control = o.con - o.up
          /\ o.buffer > 0 <=> o.control = 1
     ELSE o.connector = 0 /\ o.con = 0 /\ o.up = 0 /\ o.control = 0 /\ o.buffer = 0

(* The one buffer is used by one transfer at a time, there always is one   *)
(* until the handshake is over, and it stays inside the buffer, whatever   *)
(* address type the request had and whatever type the reply has.           *)
OneTransferInBuffer ==
  Live /\ o.control = 1 =>
    /\ (o.in_len # -1) # o.recv_busy
    /\ o.in_len # -1 => o.in_len = o.buffer /\ o.in_used < o.in_len
    /\ o.recv_busy => o.recv_len < o.recv_total /\ o.recv_dest + o.recv_total <= o.buffer

(* The handshake reads its replies to the last byte and nothing of what    *)
(* follows: when the connection comes up, exactly the relayed bytes are    *)
(* left to read.                                                           *)
NoRelayedByteSwallowed == Live /\ o.state = "UP" => server.wire = server.data

(* A server that answers brings the handshake to its end: up, or freed.    *)
HandshakeEnds ==
  WF_vars(Answer) => (o.state = "CONNECTING" ~> o.state = "UP" \/ ~Live)
=============================================================================
