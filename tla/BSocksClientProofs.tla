------------------------ MODULE BSocksClientProofs ------------------------
(***************************************************************************)
(* Proofs about the SOCKS handshake for every name and password, every way *)
(* its messages are cut into pieces and every number of relayed bytes that *)
(* follow the reply: resources are released once, transfers stay inside    *)
(* the buffer, and no relayed byte is read as part of the reply.           *)
(***************************************************************************)
EXTENDS BSocksClient, TLAPS

Sending == {"SENDING_HELLO", "SENDING_PASSWORD", "SENDING_REQUEST"}

Receiving == {"SENT_HELLO", "SENT_PASSWORD", "SENT_REQUEST", "RECEIVED_REPLY_HEADER"}

\* What BSocksClient_Free relies on.
Counts(c) ==
  /\ c.d_obj = "live" /\ c.connector = 1
  /\ c.con = (IF c.state = "CONNECTING" THEN 0 ELSE 1)
  /\ c.up = (IF c.state = "UP" THEN 1 ELSE 0)
  /\ c.control = (IF c.state \in {"CONNECTING", "UP"} THEN 0 ELSE 1)

Dead(c) == /\ c.d_obj = "freed" /\ c.connector = 0 /\ c.con = 0 /\ c.up = 0 /\ c.control = 0
           /\ c.buffer = 0

MessageLen(c) == CASE c.state = "SENDING_HELLO" -> HelloLen(c)
                   [] c.state = "SENDING_PASSWORD" -> PasswordLen(c)
                   [] c.state = "SENDING_REQUEST" -> RequestLen(c)

\* The transfer in flight, in each state of a live object.
Transfer(c) ==
  /\ c.state \in {"CONNECTING", "UP"} => c.in_len = -1 /\ ~c.recv_busy /\ c.buffer = 0
  /\ c.state \in Sending => /\ c.in_len = MessageLen(c) /\ c.buffer = c.in_len
                            /\ c.in_used < c.in_len /\ ~c.recv_busy
  /\ c.state \in Receiving => c.in_len = -1 /\ c.recv_busy /\ c.recv_len < c.recv_total
  /\ c.state \in {"SENT_HELLO", "SENT_PASSWORD"} =>
       c.recv_dest = 0 /\ c.recv_total = 2 /\ c.buffer = 2
  /\ c.state = "SENT_REQUEST" => c.recv_dest = 0 /\ c.recv_total = 4 /\ c.buffer = 22
  /\ c.state = "RECEIVED_REPLY_HEADER" =>
       c.recv_dest = 4 /\ c.recv_total \in {6, 18} /\ c.buffer = 22

ObjectInv == IF Live THEN Counts(o) /\ Transfer(o) ELSE Dead(o)

\* How far the server is, in each state: a reply is on the wire, or the message
\* it answers is not complete yet.
Waiting(next, got) == server.owes = next /\ server.got = got /\ server.wire = 0

Chosen == CASE server.method = "none" -> "reply"
            [] server.method = "password" -> "password"
            [] server.method = "other" -> "none"

ServerInv ==
  /\ o.state = "CONNECTING" => Waiting("hello", 0)
  /\ o.state = "SENDING_HELLO" => Waiting("hello", o.in_used)
  /\ o.state = "SENT_HELLO" =>
       \/ Waiting("hello", HelloLen(o)) /\ o.recv_len = 0
       \/ server.owes = Chosen /\ server.got = 0 /\ server.wire = 2 - o.recv_len
  /\ o.state = "SENDING_PASSWORD" => Waiting("password", o.in_used)
  /\ o.state = "SENT_PASSWORD" =>
       \/ Waiting("password", PasswordLen(o)) /\ o.recv_len = 0
       \/ /\ server.owes = (IF server.pass THEN "reply" ELSE "none")
          /\ server.got = 0 /\ server.wire = 2 - o.recv_len
  /\ o.state = "SENDING_REQUEST" => Waiting("reply", o.in_used)
  /\ o.state = "SENT_REQUEST" =>
       \/ Waiting("reply", RequestLen(o)) /\ o.recv_len = 0
       \/ /\ server.owes = "none"
          /\ server.wire = 4 - o.recv_len + AddrLen(server.atyp) + server.data
  /\ o.state = "RECEIVED_REPLY_HEADER" =>
       /\ server.owes = "none" /\ o.recv_total = AddrLen(server.atyp)
       /\ server.wire = o.recv_total - o.recv_len + server.data
  /\ o.state = "UP" => server.owes = "none" /\ server.wire = server.data

\* The inductive invariant.
SocksInv == TypeOK /\ ObjectInv /\ (Live => ServerInv)

-----------------------------------------------------------------------------
\* The helpers, field by field.

LEMMA FreeControl ==
  ASSUME NEW c \in Object, c.control = 1
  PROVE  LET d == free_control_io(c) IN
         /\ d \in Object
         /\ d.d_obj = c.d_obj /\ d.state = c.state /\ d.connector = c.connector
         /\ d.con = c.con /\ d.control = 0 /\ d.up = c.up /\ d.buffer = c.buffer
         /\ d.in_len = -1 /\ d.recv_busy = FALSE
<1> DEFINE d == free_control_io(c)
<1>1. c.control - 1 \in 0..1 /\ c.control - 1 = 0 /\ -1 \in Nat \cup {-1}
  OBVIOUS
<1>2. d \in Object
  BY <1>1, ZenonT(30) DEF free_control_io, Object
<1> QED BY <1>1, <1>2 DEF free_control_io, Object

\* BSocksClient_Free releases what was initialised, in every state.
LEMMA Freed ==
  ASSUME NEW c \in Object, Counts(c)
  PROVE  BSocksClient_Free(c) \in Object /\ Dead(BSocksClient_Free(c))
<1> DEFINE e == IF c.state = "UP" THEN free_up_io(c) ELSE free_control_io(c)
           d == IF c.state = "CONNECTING" THEN c ELSE [e EXCEPT !.con = @ - 1]
           f == [d EXCEPT !.connector = @ - 1, !.buffer = 0, !.d_obj = "freed"]
<1>1. /\ c.connector - 1 = 0 /\ c.connector - 1 \in 0..1
      /\ c.state # "CONNECTING" => c.con - 1 = 0 /\ c.con - 1 \in 0..1
      /\ c.state = "UP" => c.up - 1 = 0 /\ c.up - 1 \in 0..1
      /\ 0 \in Nat
  BY DEF Counts
<1>2. c.state # "CONNECTING" =>
        /\ e \in Object /\ e.control = 0 /\ e.up = 0
        /\ e.con = c.con /\ e.connector = c.connector
  <2>1. CASE c.state = "UP"
    <3>1. e = [c EXCEPT !.up = @ - 1]
      BY <2>1 DEF free_up_io
    <3>2. [c EXCEPT !.up = @ - 1] \in Object
      BY <1>1, <2>1, ZenonT(30) DEF Object
    <3> QED BY <1>1, <2>1, <3>1, <3>2 DEF Object, Counts
  <2>2. CASE c.state \notin {"UP", "CONNECTING"}
    BY <2>2, FreeControl, Zenon DEF Counts
  <2> QED BY <2>1, <2>2
<1>3. /\ d \in Object /\ d.control = 0 /\ d.up = 0 /\ d.con = 0 /\ d.connector = c.connector
  <2>1. CASE c.state = "CONNECTING"
    BY <2>1 DEF Counts
  <2>2. CASE c.state # "CONNECTING"
    <3>1. d = [e EXCEPT !.con = @ - 1]
      BY <2>2
    <3> HIDE DEF e
    <3>2. [e EXCEPT !.con = @ - 1] \in Object
      BY <1>1, <1>2, <2>2, ZenonT(30) DEF Object
    <3> QED BY <1>1, <1>2, <2>2, <3>1, <3>2 DEF Object
  <2> QED BY <2>1, <2>2
<1>4. BSocksClient_Free(c) = f
  BY DEF BSocksClient_Free
<1> HIDE DEF d
<1>5. f \in Object
  BY <1>1, <1>3, ZenonT(30) DEF Object
<1>6. Dead(f)
  BY <1>1, <1>3 DEF Object, Dead
<1> QED BY <1>4, <1>5, <1>6

\* Whoever frees the object leaves the invariant true.
LEMMA FreedKeeps ==
  ASSUME NEW c \in Object, Counts(c), o' = BSocksClient_Free(c), server' \in Server
  PROVE  SocksInv'
  BY Freed DEF SocksInv, TypeOK, ObjectInv, Live, Dead

LEMMA MessageLens ==
  ASSUME NEW c \in Object
  PROVE  /\ HelloLen(c) \in Nat /\ HelloLen(c) > 0
         /\ PasswordLen(c) \in Nat /\ PasswordLen(c) > 0
         /\ RequestLen(c) \in Nat /\ RequestLen(c) > 0
  BY DEF Object, HelloLen, PasswordLen, RequestLen, AddrLen

\* The fields no step of the handshake writes.
Same(c, d) ==
  /\ d.auth_info = c.auth_info /\ d.username_len = c.username_len
  /\ d.password_len = c.password_len /\ d.dest_addr = c.dest_addr

LEMMA SameLens ==
  ASSUME NEW c, NEW d, Same(c, d)
  PROVE  /\ HelloLen(d) = HelloLen(c) /\ PasswordLen(d) = PasswordLen(c)
         /\ RequestLen(d) = RequestLen(c)
  BY DEF Same, HelloLen, PasswordLen, RequestLen

\* A message that was allocated, in the state that sends it.
LEMMA Sent ==
  ASSUME NEW c \in Object, NEW st \in Sending, NEW size \in Nat, size > 0,
         c.d_obj = "live", c.connector = 1, c.con = 1, c.control = 1, c.up = 0, ~c.recv_busy,
         st = "SENDING_HELLO" => size = HelloLen(c),
         st = "SENDING_PASSWORD" => size = PasswordLen(c),
         st = "SENDING_REQUEST" => size = RequestLen(c)
  PROVE  LET d == SendMessage(c, size, st, TRUE) IN
         /\ d \in Object /\ Counts(d) /\ Transfer(d)
         /\ d.state = st /\ d.in_used = 0
<1> DEFINE d == [c EXCEPT !.buffer = size, !.in_len = size, !.in_used = 0, !.state = st]
<1>1. SendMessage(c, size, st, TRUE) = d
  BY DEF SendMessage
<1>2. d \in Object
  <2>1. st \in States /\ size \in Nat \cup {-1} /\ 0 \in Nat
    BY DEF Sending, States
  <2> QED BY <2>1, ZenonT(30) DEF Object
<1>3. /\ d.d_obj = "live" /\ d.state = st /\ d.connector = 1 /\ d.con = 1 /\ d.control = 1
      /\ d.up = 0 /\ d.buffer = size /\ d.in_len = size /\ d.in_used = 0 /\ ~d.recv_busy
      /\ Same(c, d)
  BY DEF Object, Same
<1> HIDE DEF d
<1>4. MessageLen(d) = size
  BY <1>3, SameLens DEF MessageLen, Sending
<1>5. Counts(d)
  BY <1>3 DEF Counts, Sending
<1>6. Transfer(d)
  BY <1>3, <1>4 DEF Transfer, Sending, Receiving
<1> QED BY <1>1, <1>2, <1>3, <1>5, <1>6, Zenon

LEMMA StartTyped ==
  ASSUME NEW c \in Object, NEW st \in States, NEW dest \in Nat, NEW total \in Nat
  PROVE  start_receive(c, dest, total, st) \in Object
<1>1. 0 \in Nat
  OBVIOUS
<1> QED BY <1>1, ZenonT(60) DEF start_receive, Object

\* A reply that is awaited, in the state that receives it.
LEMMA Started ==
  ASSUME NEW c \in Object, NEW st \in Receiving, NEW dest \in Nat, NEW total \in Nat,
         NEW size \in Nat, total > 0,
         c.d_obj = "live", c.connector = 1, c.con = 1, c.control = 1, c.up = 0, c.in_len = -1,
         st \in {"SENT_HELLO", "SENT_PASSWORD"} => dest = 0 /\ total = 2 /\ size = 2,
         st = "SENT_REQUEST" => dest = 0 /\ total = 4 /\ size = 22,
         st = "RECEIVED_REPLY_HEADER" => dest = 4 /\ total \in {6, 18} /\ size = 22
  PROVE  LET d == start_receive([c EXCEPT !.buffer = size], dest, total, st) IN
         /\ d \in Object /\ Counts(d) /\ Transfer(d)
         /\ d.state = st /\ d.recv_len = 0 /\ d.recv_total = total /\ Same(c, d)
<1> DEFINE b == [c EXCEPT !.buffer = size]
           d == [b EXCEPT !.recv_busy = TRUE, !.recv_dest = dest, !.recv_len = 0,
                          !.recv_total = total, !.state = st]
<1>1. start_receive(b, dest, total, st) = d
  BY DEF start_receive
<1>2. b \in Object
  BY ZenonT(30) DEF Object
<1>3. /\ b.d_obj = "live" /\ b.connector = 1 /\ b.con = 1 /\ b.control = 1
      /\ b.up = 0 /\ b.in_len = -1 /\ b.buffer = size /\ Same(c, b)
  BY DEF Object, Same
<1> HIDE DEF b
<1>4. d \in Object
  <2>1. st \in States
    BY DEF Receiving, States
  <2> QED BY <1>1, <1>2, <2>1, StartTyped
<1>5. /\ d.d_obj = "live" /\ d.state = st /\ d.connector = 1 /\ d.con = 1 /\ d.control = 1
      /\ d.up = 0 /\ d.buffer = size /\ d.in_len = -1 /\ d.recv_busy /\ d.recv_dest = dest
      /\ d.recv_len = 0 /\ d.recv_total = total /\ Same(c, d)
  BY <1>2, <1>3 DEF Object, Same
<1> HIDE DEF d
<1>6. Counts(d)
  BY <1>5 DEF Counts, Receiving
<1>7. Transfer(d)
  BY <1>5 DEF Transfer, Sending, Receiving
<1> QED BY <1>1, <1>4, <1>5, <1>6, <1>7 DEF b

-----------------------------------------------------------------------------
\* One lemma per step.

LEMMA SocksInit == Init => SocksInv
<1> SUFFICES ASSUME Init PROVE SocksInv
  OBVIOUS
<1>1. PICK a \in AuthInfos, u \in NameLens, p \in NameLens, t \in AddrTypes :
       o = [d_obj |-> "live", state |-> "CONNECTING", auth_info |-> a,
            username_len |-> u, password_len |-> p, dest_addr |-> t,
            connector |-> 1, con |-> 0, control |-> 0, up |-> 0, buffer |-> 0,
            in_len |-> -1, in_used |-> 0,
            recv_busy |-> FALSE, recv_dest |-> 0, recv_len |-> 0, recv_total |-> 0]
  BY Zenon DEF Init
<1>2. TypeOK
  <2>1. a \in SUBSET {"none", "password"} /\ u \in Nat /\ p \in Nat
    BY HandshakeAssumption
  <2>2. o \in Object
    BY <1>1, <2>1 DEF Object, States
  <2>3. server \in Server
    BY DEF Init, Server
  <2> QED BY <2>2, <2>3 DEF TypeOK
<1>3. ObjectInv
  BY <1>1 DEF ObjectInv, Live, Counts, Transfer, Sending, Receiving
<1>4. ServerInv
  BY <1>1 DEF Init, ServerInv, Waiting
<1> QED BY <1>2, <1>3, <1>4 DEF SocksInv

\* What the steps start from.
LEMMA LiveFacts ==
  ASSUME SocksInv, Live
  PROVE  /\ o \in Object /\ server \in Server /\ Counts(o) /\ Transfer(o) /\ ServerInv
         /\ o.state \in States
  BY DEF SocksInv, TypeOK, ObjectInv, Object

LEMMA GivenUpKeeps ==
  ASSUME SocksInv, UserFree \/ connection_handler PROVE SocksInv'
<1>1. Live /\ o' = BSocksClient_Free(o) /\ server' = server
  BY DEF UserFree, connection_handler, report_error
<1> QED BY <1>1, LiveFacts, FreedKeeps

LEMMA ConnectorKeeps ==
  ASSUME SocksInv, NEW is_error \in BOOLEAN, NEW ok \in BOOLEAN, connector_handler(is_error, ok)
  PROVE  SocksInv'
<1> DEFINE b == [o EXCEPT !.control = @ + 1]
           c == [b EXCEPT !.con = @ + 1]
           g == free_control_io(c)
           e == [g EXCEPT !.con = @ - 1]
<1>1. Live /\ o.state = "CONNECTING" /\ server' = server
  BY DEF connector_handler
<1>2. /\ o \in Object /\ Counts(o) /\ Transfer(o) /\ server \in Server /\ server' \in Server
      /\ Waiting("hello", 0)
  BY <1>1, LiveFacts DEF ServerInv
<1>3. /\ o.d_obj = "live" /\ o.connector = 1 /\ o.con = 0 /\ o.control = 0 /\ o.up = 0
      /\ o.in_len = -1 /\ ~o.recv_busy /\ o.buffer = 0
  BY <1>1, <1>2 DEF Counts, Transfer
<1>4. b \in Object
  <2>1. o.control + 1 \in 0..1
    BY <1>3
  <2> QED BY <1>2, <2>1, ZenonT(30) DEF Object
<1>5. /\ b.d_obj = "live" /\ b.state = "CONNECTING" /\ b.connector = 1 /\ b.con = 0
      /\ b.control = 1 /\ b.up = 0 /\ b.in_len = -1 /\ ~b.recv_busy
  BY <1>1, <1>2, <1>3 DEF Object
<1>6. init_control_io(o) = b
  BY DEF init_control_io
<1>7. o' = IF is_error THEN BSocksClient_Free(o)
           ELSE IF ok /\ c.auth_info # {} THEN SendMessage(c, HelloLen(c), "SENDING_HELLO", TRUE)
           ELSE BSocksClient_Free(e)
  BY <1>6 DEF connector_handler, report_error
<1> HIDE DEF b
<1>8. c \in Object
  <2>1. b.con + 1 \in 0..1
    BY <1>5
  <2> QED BY <1>4, <2>1, ZenonT(30) DEF Object
<1>9. /\ c.d_obj = "live" /\ c.state = "CONNECTING" /\ c.connector = 1 /\ c.con = 1
      /\ c.control = 1 /\ c.up = 0 /\ c.in_len = -1 /\ ~c.recv_busy
  BY <1>4, <1>5 DEF Object
<1> HIDE DEF c
<1>10. CASE is_error
  BY <1>2, <1>7, <1>10, FreedKeeps
<1>11. CASE ~is_error /\ ok /\ c.auth_info # {}
  <2> DEFINE d == SendMessage(c, HelloLen(c), "SENDING_HELLO", TRUE)
  <2>1. d \in Object /\ Counts(d) /\ Transfer(d) /\ d.state = "SENDING_HELLO" /\ d.in_used = 0
    BY <1>8, <1>9, MessageLens, Sent, ZenonT(40) DEF Sending
  <2>2. o' = d
    BY <1>7, <1>11, ZenonT(30)
  <2> HIDE DEF d
  <2>3. ServerInv'
    BY <1>1, <1>2, <2>1, <2>2 DEF ServerInv, Waiting
  <2> QED BY <1>2, <2>1, <2>2, <2>3 DEF SocksInv, TypeOK, ObjectInv, Live, Counts
<1>12. CASE ~is_error /\ ~(ok /\ c.auth_info # {})
  <2>1. /\ g \in Object /\ g.d_obj = "live" /\ g.state = "CONNECTING" /\ g.connector = 1
        /\ g.con = 1 /\ g.control = 0 /\ g.up = 0
    BY <1>8, <1>9, FreeControl, Zenon
  <2>2. o' = BSocksClient_Free(e)
    BY <1>7, <1>12, Zenon
  <2> HIDE DEF g
  <2>3. e \in Object
    <3>1. g.con - 1 \in 0..1
      BY <2>1
    <3> QED BY <2>1, <3>1, ZenonT(30) DEF Object
  <2>4. Counts(e)
    BY <2>1 DEF Object, Counts
  <2> QED BY <1>2, <2>2, <2>3, <2>4, FreedKeeps
<1> QED BY <1>10, <1>11, <1>12

LEMMA SendingFacts ==
  ASSUME SocksInv, Live, o.in_len # -1
  PROVE  o.state \in Sending /\ o.in_used < o.in_len /\ o.in_len \in Nat
<1>1. o \in Object /\ Transfer(o) /\ o.state \in States /\ o.in_len \in Nat \cup {-1}
  BY LiveFacts DEF Object
<1>2. o.state \in Sending
  BY <1>1 DEF Transfer, States, Sending, Receiving
<1> QED BY <1>1, <1>2 DEF Transfer

LEMMA GotMore ==
  ASSUME server \in Server, NEW n \in Nat, server' = [server EXCEPT !.got = @ + n]
  PROVE  /\ server' \in Server /\ server'.got = server.got + n
         /\ server'.owes = server.owes /\ server'.wire = server.wire
<1>1. server.got + n \in Nat
  BY DEF Server
<1>2. server' \in Server
  BY <1>1, ZenonT(30) DEF Server
<1> QED BY <1>2 DEF Server

\* A message is written piece by piece, then its reply is awaited.
LEMMA OutputKeeps ==
  ASSUME SocksInv, NEW n \in Nat, n > 0, NEW ok \in BOOLEAN, output_handler_done(n, ok)
  PROVE  SocksInv'
<1> DEFINE c == [o EXCEPT !.in_used = @ + n]
           d == [c EXCEPT !.in_len = -1]
<1>1. /\ Live /\ o.in_len # -1 /\ n <= o.in_len - o.in_used
      /\ o' = (IF c.in_used < c.in_len THEN c ELSE send_handler_done(d, ok))
      /\ server' = [server EXCEPT !.got = @ + n]
  BY DEF output_handler_done
<1>2. /\ o \in Object /\ Counts(o) /\ Transfer(o) /\ ServerInv /\ server \in Server
      /\ o.state \in Sending /\ o.in_len \in Nat /\ o.in_used < o.in_len
      /\ o.in_used \in Nat /\ o.in_len = MessageLen(o) /\ o.buffer = o.in_len /\ ~o.recv_busy
      /\ o.d_obj = "live" /\ o.connector = 1 /\ o.con = 1 /\ o.control = 1 /\ o.up = 0
  <2>1. o \in Object /\ Counts(o) /\ Transfer(o) /\ ServerInv /\ server \in Server
    BY <1>1, LiveFacts
  <2>2. o.state \in Sending /\ o.in_len \in Nat /\ o.in_used < o.in_len
    BY <1>1, SendingFacts
  <2>3. o.in_used \in Nat
    BY <2>1 DEF Object
  <2> QED BY <2>1, <2>2, <2>3 DEF Transfer, Counts, Sending
<1>3. /\ server' \in Server /\ server'.got = server.got + n
      /\ server'.owes = server.owes /\ server'.wire = server.wire
  BY <1>1, <1>2, GotMore
<1>4. c \in Object
  <2>1. o.in_used + n \in Nat
    BY <1>2
  <2> QED BY <1>2, <2>1, ZenonT(30) DEF Object
<1>5. /\ c.d_obj = "live" /\ c.state = o.state /\ c.connector = 1 /\ c.con = 1
      /\ c.control = 1 /\ c.up = 0 /\ c.buffer = o.buffer /\ c.in_len = o.in_len
      /\ c.in_used = o.in_used + n /\ ~c.recv_busy /\ Same(o, c)
  BY <1>2 DEF Object, Same
<1> HIDE DEF c
<1>6. d \in Object
  <2>1. -1 \in Nat \cup {-1}
    OBVIOUS
  <2> QED BY <1>4, <2>1, ZenonT(30) DEF Object
<1>7. /\ d.d_obj = "live" /\ d.state = o.state /\ d.connector = 1 /\ d.con = 1
      /\ d.control = 1 /\ d.up = 0 /\ d.in_len = -1 /\ Same(o, d)
  BY <1>4, <1>5 DEF Object, Same
<1> HIDE DEF d
<1>8. CASE c.in_used < c.in_len
  <2>1. o' = c
    BY <1>1, <1>8
  <2>2. MessageLen(c) = MessageLen(o)
    BY <1>5, <1>2, SameLens DEF MessageLen, Sending
  <2>3. Counts(c) /\ Transfer(c)
    BY <1>2, <1>5, <1>8, <2>2 DEF Counts, Transfer, Sending, Receiving
  <2>4. ServerInv'
    BY <1>2, <1>3, <1>5, <2>1 DEF ServerInv, Waiting, Sending
  <2> QED BY <1>3, <1>4, <1>5, <2>1, <2>3, <2>4 DEF SocksInv, TypeOK, ObjectInv, Live
<1>9. CASE ~(c.in_used < c.in_len) /\ ~ok
  <2>1. o' = BSocksClient_Free(d)
    BY <1>1, <1>9 DEF send_handler_done, report_error
  <2>2. Counts(d)
    BY <1>2, <1>7 DEF Counts, Sending
  <2> QED BY <1>3, <1>6, <2>1, <2>2, FreedKeeps
<1>10. CASE ~(c.in_used < c.in_len) /\ ok
  <2>1. c.in_used = o.in_len
    BY <1>1, <1>2, <1>5, <1>10
  <2>2. CASE o.state = "SENDING_HELLO"
    <3> DEFINE e == start_receive([d EXCEPT !.buffer = 2], 0, 2, "SENT_HELLO")
    <3>1. /\ e \in Object /\ Counts(e) /\ Transfer(e) /\ e.state = "SENT_HELLO"
          /\ e.recv_len = 0 /\ Same(d, e)
      BY <1>6, <1>7, Started DEF Receiving
    <3>2. o' = e
      BY <1>1, <1>7, <1>10, <2>2 DEF send_handler_done
    <3> HIDE DEF e
    <3>3. HelloLen(e) = HelloLen(o) /\ o.in_len = HelloLen(o)
      BY <1>2, <1>7, <2>2, <3>1, SameLens DEF MessageLen
    <3>4. ServerInv'
      BY <1>2, <1>3, <1>5, <2>1, <2>2, <3>1, <3>2, <3>3 DEF ServerInv, Waiting
    <3> QED BY <1>3, <3>1, <3>2, <3>4 DEF SocksInv, TypeOK, ObjectInv, Live, Counts
  <2>3. CASE o.state = "SENDING_PASSWORD"
    <3> DEFINE e == start_receive([d EXCEPT !.buffer = 2], 0, 2, "SENT_PASSWORD")
    <3>1. /\ e \in Object /\ Counts(e) /\ Transfer(e) /\ e.state = "SENT_PASSWORD"
          /\ e.recv_len = 0 /\ Same(d, e)
      BY <1>6, <1>7, Started DEF Receiving
    <3>2. o' = e
      BY <1>1, <1>7, <1>10, <2>3 DEF send_handler_done
    <3> HIDE DEF e
    <3>3. PasswordLen(e) = PasswordLen(o) /\ o.in_len = PasswordLen(o)
      BY <1>2, <1>7, <2>3, <3>1, SameLens DEF MessageLen
    <3>4. ServerInv'
      BY <1>2, <1>3, <1>5, <2>1, <2>3, <3>1, <3>2, <3>3 DEF ServerInv, Waiting
    <3> QED BY <1>3, <3>1, <3>2, <3>4 DEF SocksInv, TypeOK, ObjectInv, Live, Counts
  <2>4. CASE o.state = "SENDING_REQUEST"
    <3> DEFINE e == start_receive([d EXCEPT !.buffer = 22], 0, 4, "SENT_REQUEST")
    <3>1. /\ e \in Object /\ Counts(e) /\ Transfer(e) /\ e.state = "SENT_REQUEST"
          /\ e.recv_len = 0 /\ Same(d, e)
      BY <1>6, <1>7, Started DEF Receiving
    <3>2. o' = e
      <4>1. 4 + AddrLen("IPV6") = 22
        BY DEF AddrLen
      <4> QED BY <1>1, <1>7, <1>10, <2>4, <4>1 DEF send_handler_done
    <3> HIDE DEF e
    <3>3. RequestLen(e) = RequestLen(o) /\ o.in_len = RequestLen(o)
      BY <1>2, <1>7, <2>4, <3>1, SameLens DEF MessageLen
    <3>4. ServerInv'
      BY <1>2, <1>3, <1>5, <2>1, <2>4, <3>1, <3>2, <3>3 DEF ServerInv, Waiting
    <3> QED BY <1>3, <3>1, <3>2, <3>4 DEF SocksInv, TypeOK, ObjectInv, Live, Counts
  <2> QED BY <1>2, <2>2, <2>3, <2>4 DEF Sending
<1> QED BY <1>8, <1>9, <1>10

\* A request is sent once the server is ready for it.
LEMMA AuthFinishedKeeps ==
  ASSUME NEW c \in Object, Counts(c), c.state \in Receiving, c.in_len = -1, ~c.recv_busy,
         NEW ok \in BOOLEAN, o' = auth_finished(c, ok),
         server' \in Server, server'.owes = "reply", server'.got = 0, server'.wire = 0
  PROVE  SocksInv'
<1>1. CASE ~ok
  BY <1>1, FreedKeeps DEF auth_finished, SendMessage, report_error
<1>2. CASE ok
  <2> DEFINE d == SendMessage(c, RequestLen(c), "SENDING_REQUEST", TRUE)
  <2>1. d \in Object /\ Counts(d) /\ Transfer(d) /\ d.state = "SENDING_REQUEST" /\ d.in_used = 0
    <3>1. c.d_obj = "live" /\ c.connector = 1 /\ c.con = 1 /\ c.control = 1 /\ c.up = 0
      BY DEF Counts, Receiving
    <3> QED BY <3>1, MessageLens, Sent, ZenonT(40) DEF Sending
  <2>2. o' = d
    BY <1>2 DEF auth_finished
  <2> HIDE DEF d
  <2>3. ServerInv'
    BY <2>1, <2>2 DEF ServerInv, Waiting
  <2> QED BY <2>1, <2>2, <2>3 DEF SocksInv, TypeOK, ObjectInv, Live, Counts
<1> QED BY <1>1, <1>2

\* A reply is read piece by piece, to its end and no further.
LEMMA RecvKeeps ==
  ASSUME SocksInv, NEW n \in Nat, n > 0, NEW ok \in BOOLEAN, recv_handler_done(n, ok)
  PROVE  SocksInv'
<1> DEFINE b == [o EXCEPT !.recv_len = @ + n]
           c == [b EXCEPT !.recv_busy = FALSE]
           p == [c EXCEPT !.recv_busy = TRUE]
<1>1. /\ Live /\ o.recv_busy /\ n <= server.wire /\ n <= o.recv_total - o.recv_len
      /\ server' = [server EXCEPT !.wire = @ - n]
  BY DEF recv_handler_done
<1>2. /\ o \in Object /\ Counts(o) /\ Transfer(o) /\ ServerInv /\ server \in Server
      /\ o.recv_len \in Nat /\ o.recv_total \in Nat /\ server.wire \in Nat /\ server.data \in Nat
  BY <1>1, LiveFacts DEF Object, Server
<1>3. /\ o.state \in Receiving /\ o.recv_len < o.recv_total /\ o.in_len = -1
      /\ o.d_obj = "live" /\ o.connector = 1 /\ o.con = 1 /\ o.control = 1 /\ o.up = 0
  <2>1. o.state \in Receiving
    BY <1>1, <1>2, LiveFacts DEF Transfer, States, Sending, Receiving
  <2> QED BY <1>2, <2>1 DEF Transfer, Counts, Receiving
<1>4. /\ server' \in Server /\ server'.wire = server.wire - n
      /\ server'.owes = server.owes /\ server'.got = server.got /\ server'.atyp = server.atyp
      /\ server'.method = server.method /\ server'.pass = server.pass
      /\ server'.data = server.data
  <2>1. server.wire - n \in Nat
    BY <1>1, <1>2
  <2>2. server' \in Server
    BY <1>1, <1>2, <2>1, ZenonT(30) DEF Server
  <2> QED BY <1>1, <1>2, <2>2 DEF Server
<1>5. b \in Object
  <2>1. o.recv_len + n \in Nat
    BY <1>2
  <2> QED BY <1>2, <2>1, ZenonT(30) DEF Object
<1>6. c \in Object
  BY <1>5, ZenonT(30) DEF Object
<1>7. /\ c.d_obj = "live" /\ c.state = o.state /\ c.connector = 1 /\ c.con = 1
      /\ c.control = 1 /\ c.up = 0 /\ c.buffer = o.buffer /\ c.in_len = -1
      /\ c.recv_len = o.recv_len + n /\ c.recv_dest = o.recv_dest
      /\ c.recv_total = o.recv_total /\ ~c.recv_busy /\ Same(o, c)
  BY <1>2, <1>3 DEF Object, Same
<1>8. o' = CASE c.recv_len < c.recv_total -> p
            [] c.recv_len = c.recv_total /\ c.state = "SENT_HELLO" -> ReceivedHello(c, ok)
            [] c.recv_len = c.recv_total /\ c.state = "SENT_PASSWORD" -> ReceivedPasswordReply(c, ok)
            [] c.recv_len = c.recv_total /\ c.state = "SENT_REQUEST" -> ReceivedReplyHeader(c)
            [] c.recv_len = c.recv_total /\ c.state = "RECEIVED_REPLY_HEADER" -> ReceivedReply(c)
  <2>1. [o EXCEPT !.recv_len = @ + n, !.recv_busy = FALSE] = c
    BY <1>2 DEF Object
  <2> QED BY <2>1 DEF recv_handler_done
<1> HIDE DEF c
<1>9. Counts(c)
  BY <1>3, <1>7 DEF Counts, Receiving
<1>10. CASE c.recv_len < c.recv_total
  <2>1. o' = p
    <3>1. c.recv_len # c.recv_total
      BY <1>2, <1>7, <1>10
    <3> QED BY <1>8, <1>10, <3>1
  <2>2. p \in Object
    BY <1>6, ZenonT(30) DEF Object
  <2>3. /\ p.d_obj = "live" /\ p.state = o.state /\ p.connector = 1 /\ p.con = 1
        /\ p.control = 1 /\ p.up = 0 /\ p.buffer = o.buffer /\ p.in_len = -1
        /\ p.recv_len = o.recv_len + n /\ p.recv_dest = o.recv_dest
        /\ p.recv_total = o.recv_total /\ p.recv_busy /\ Same(o, p)
    BY <1>6, <1>7 DEF Object, Same
  <2> HIDE DEF p
  <2>4. Counts(p) /\ Transfer(p)
    BY <1>2, <1>3, <1>7, <1>10, <2>3 DEF Counts, Transfer, Sending, Receiving
  <2>5. Chosen' = Chosen
    BY <1>4 DEF Chosen
  <2>6. ServerInv'
    <3>1. CASE o.state \in {"SENT_HELLO", "SENT_PASSWORD"}
      BY <1>1, <1>2, <1>4, <2>1, <2>3, <2>5, <3>1 DEF ServerInv, Waiting
    <3>2. CASE o.state \in {"SENT_REQUEST", "RECEIVED_REPLY_HEADER"}
      <4>1. AddrLen(server.atyp) \in Nat /\ AddrLen(server'.atyp) = AddrLen(server.atyp)
        BY <1>4 DEF AddrLen
      <4> QED BY <1>1, <1>2, <1>4, <2>1, <2>3, <3>2, <4>1 DEF ServerInv, Waiting
    <3> QED BY <1>3, <3>1, <3>2 DEF Receiving
  <2> QED BY <1>4, <2>1, <2>2, <2>3, <2>4, <2>6 DEF SocksInv, TypeOK, ObjectInv, Live
<1>11. CASE ~(c.recv_len < c.recv_total)
  <2>1. c.recv_len = c.recv_total /\ n = o.recv_total - o.recv_len
    BY <1>1, <1>2, <1>7, <1>11
  <2>2. CASE o.state = "SENT_HELLO"
    <3>1. o' = ReceivedHello(c, ok)
      BY <1>7, <1>8, <1>11, <2>1, <2>2
    <3>2. server.owes = Chosen /\ server'.got = 0 /\ server'.wire = 0
      BY <1>1, <1>2, <1>4, <2>1, <2>2 DEF ServerInv, Waiting, Transfer
    <3>3. CASE \/ server.method \notin c.auth_info
               \/ /\ server.method # "none"
                  /\ c.username_len \notin 1..255 \/ c.password_len \notin 1..255
      <4>1. o' = BSocksClient_Free(c)
        BY <3>1, <3>3 DEF ReceivedHello, report_error
      <4> QED BY <1>4, <1>6, <1>9, <4>1, FreedKeeps
    <3>4. CASE server.method \in c.auth_info /\ server.method = "none"
      <4>1. o' = auth_finished(c, ok)
        BY <3>1, <3>4 DEF ReceivedHello
      <4>2. server'.owes = "reply"
        BY <1>4, <3>2, <3>4 DEF Chosen
      <4> QED BY <1>3, <1>4, <1>6, <1>7, <1>9, <3>2, <4>1, <4>2, AuthFinishedKeeps
    <3>5. CASE /\ server.method \in c.auth_info /\ server.method # "none"
               /\ c.username_len \in 1..255 /\ c.password_len \in 1..255
      <4>1. o' = SendMessage(c, PasswordLen(c), "SENDING_PASSWORD", ok)
        BY <3>1, <3>5 DEF ReceivedHello
      <4>2. server.method = "password" /\ server'.owes = "password"
        <5>1. server.method = "password"
          BY <1>6, <3>5 DEF Object
        <5> QED BY <1>4, <3>2, <5>1 DEF Chosen
      <4>3. CASE ~ok
        BY <1>4, <1>6, <1>9, <4>1, <4>3, FreedKeeps DEF SendMessage, report_error
      <4>4. CASE ok
        <5> DEFINE d == SendMessage(c, PasswordLen(c), "SENDING_PASSWORD", TRUE)
        <5>1. /\ d \in Object /\ Counts(d) /\ Transfer(d) /\ d.state = "SENDING_PASSWORD"
              /\ d.in_used = 0
          BY <1>6, <1>7, MessageLens, Sent, ZenonT(40) DEF Sending
        <5>2. o' = d
          BY <4>1, <4>4
        <5> HIDE DEF d
        <5>3. ServerInv'
          BY <3>2, <4>2, <5>1, <5>2 DEF ServerInv, Waiting
        <5> QED BY <1>4, <5>1, <5>2, <5>3 DEF SocksInv, TypeOK, ObjectInv, Live, Counts
      <4> QED BY <4>3, <4>4
    <3> QED BY <3>3, <3>4, <3>5
  <2>3. CASE o.state = "SENT_PASSWORD"
    <3>1. o' = ReceivedPasswordReply(c, ok)
      BY <1>7, <1>8, <1>11, <2>1, <2>3
    <3>2. /\ server.owes = (IF server.pass THEN "reply" ELSE "none")
          /\ server'.got = 0 /\ server'.wire = 0
      BY <1>1, <1>2, <1>4, <2>1, <2>3 DEF ServerInv, Waiting, Transfer
    <3>3. CASE server.pass
      <4>1. o' = auth_finished(c, ok)
        BY <3>1, <3>3 DEF ReceivedPasswordReply
      <4> QED BY <1>3, <1>4, <1>6, <1>7, <1>9, <3>2, <3>3, <4>1, AuthFinishedKeeps
    <3>4. CASE ~server.pass
      <4>1. o' = BSocksClient_Free(c)
        BY <3>1, <3>4 DEF ReceivedPasswordReply, report_error
      <4> QED BY <1>4, <1>6, <1>9, <4>1, FreedKeeps
    <3> QED BY <3>3, <3>4
  <2>4. CASE o.state = "SENT_REQUEST"
    <3>1. o' = ReceivedReplyHeader(c)
      BY <1>7, <1>8, <1>11, <2>1, <2>4
    <3>2. /\ server.owes = "none" /\ server'.wire = AddrLen(server.atyp) + server.data
      BY <1>1, <1>2, <1>4, <2>1, <2>4 DEF ServerInv, Waiting, Transfer, AddrLen
    <3>3. CASE server.rep /\ server.atyp \in AddrTypes
      <4> DEFINE t == AddrLen(server.atyp)
                 d == start_receive([c EXCEPT !.buffer = 22], 4, t, "RECEIVED_REPLY_HEADER")
      <4>1. t \in Nat /\ t \in {6, 18} /\ t > 0
        BY DEF AddrLen
      <4>2. [c EXCEPT !.buffer = 22] = c
        BY <1>2, <1>6, <1>7, <2>4 DEF Object, Transfer
      <4>3. o' = d
        BY <3>1, <3>3, <4>2 DEF ReceivedReplyHeader
      <4> HIDE DEF t
      <4>4. /\ d \in Object /\ Counts(d) /\ Transfer(d) /\ d.state = "RECEIVED_REPLY_HEADER"
            /\ d.recv_len = 0 /\ d.recv_total = t
        <5>1. "RECEIVED_REPLY_HEADER" \in Receiving /\ 4 \in Nat /\ 22 \in Nat
          BY DEF Receiving
        <5> QED BY <1>6, <1>7, <4>1, <5>1, Started, SMTT(30)
      <4> HIDE DEF d
      <4>5. ServerInv'
        BY <1>2, <1>4, <3>2, <4>1, <4>3, <4>4 DEF ServerInv, t
      <4> QED BY <1>4, <4>3, <4>4, <4>5 DEF SocksInv, TypeOK, ObjectInv, Live, Counts
    <3>4. CASE ~(server.rep /\ server.atyp \in AddrTypes)
      <4>1. o' = BSocksClient_Free(c)
        BY <3>1, <3>4 DEF ReceivedReplyHeader, report_error
      <4> QED BY <1>4, <1>6, <1>9, <4>1, FreedKeeps
    <3> QED BY <3>3, <3>4
  <2>5. CASE o.state = "RECEIVED_REPLY_HEADER"
    <3> DEFINE e == [c EXCEPT !.buffer = 0]
               g == free_control_io(e)
               h == [g EXCEPT !.up = @ + 1]
               d == [h EXCEPT !.state = "UP"]
    <3>1. o' = d
      BY <1>7, <1>8, <1>11, <2>1, <2>5 DEF ReceivedReply, init_up_io
    <3>2. server'.owes = "none" /\ server'.wire = server'.data
      BY <1>1, <1>2, <1>4, <2>1, <2>5 DEF ServerInv
    <3>3. e \in Object
      <4>1. 0 \in Nat
        OBVIOUS
      <4> QED BY <1>6, <4>1, ZenonT(30) DEF Object
    <3>4. /\ e.d_obj = "live" /\ e.connector = 1 /\ e.con = 1 /\ e.control = 1 /\ e.up = 0
          /\ e.buffer = 0
      BY <1>6, <1>7 DEF Object
    <3> HIDE DEF e
    <3>5. /\ g \in Object /\ g.d_obj = "live" /\ g.connector = 1 /\ g.con = 1
          /\ g.control = 0 /\ g.up = 0 /\ g.buffer = 0 /\ g.in_len = -1 /\ g.recv_busy = FALSE
      BY <3>3, <3>4, FreeControl, Zenon
    <3> HIDE DEF g
    <3>6. h \in Object
      <4>1. g.up + 1 \in 0..1
        BY <3>5
      <4> QED BY <3>5, <4>1, ZenonT(30) DEF Object
    <3>7. /\ h.d_obj = "live" /\ h.connector = 1 /\ h.con = 1 /\ h.control = 0
          /\ h.up = 1 /\ h.buffer = 0 /\ h.in_len = -1 /\ h.recv_busy = FALSE
      BY <3>5 DEF Object
    <3> HIDE DEF h
    <3>8. d \in Object
      <4>1. "UP" \in States
        BY DEF States
      <4> QED BY <3>6, <4>1, ZenonT(30) DEF Object
    <3>9. /\ d.d_obj = "live" /\ d.state = "UP" /\ d.connector = 1 /\ d.con = 1
          /\ d.control = 0 /\ d.up = 1 /\ d.buffer = 0 /\ d.in_len = -1 /\ ~d.recv_busy
      BY <3>6, <3>7 DEF Object
    <3> HIDE DEF d
    <3>10. Counts(d) /\ Transfer(d)
      BY <3>9 DEF Counts, Transfer, Sending, Receiving
    <3>11. ServerInv'
      BY <3>1, <3>2, <3>9 DEF ServerInv
    <3> QED BY <1>4, <3>1, <3>8, <3>9, <3>10, <3>11 DEF SocksInv, TypeOK, ObjectInv, Live
  <2> QED BY <1>3, <2>2, <2>3, <2>4, <2>5 DEF Receiving
<1> QED BY <1>10, <1>11

\* A server that answers has the whole message, so the client awaits the reply.
LEMMA AwaitedAnswer ==
  ASSUME SocksInv, Live, server.got = Expected
  PROVE  /\ server.owes = "hello" => o.state = "SENT_HELLO" /\ o.recv_len = 0
         /\ server.owes = "password" => o.state = "SENT_PASSWORD" /\ o.recv_len = 0
         /\ server.owes = "reply" => o.state = "SENT_REQUEST" /\ o.recv_len = 0
<1>1. /\ o \in Object /\ server \in Server /\ Transfer(o) /\ ServerInv /\ o.state \in States
      /\ o.in_used \in Nat
  BY LiveFacts DEF Object
<1>2. /\ HelloLen(o) \in Nat /\ HelloLen(o) > 0 /\ PasswordLen(o) \in Nat /\ PasswordLen(o) > 0
      /\ RequestLen(o) \in Nat /\ RequestLen(o) > 0
  BY <1>1, MessageLens
<1>3. /\ o.state = "SENDING_HELLO" => o.in_used # HelloLen(o)
      /\ o.state = "SENDING_PASSWORD" => o.in_used # PasswordLen(o)
      /\ o.state = "SENDING_REQUEST" => o.in_used # RequestLen(o)
  BY <1>1, <1>2 DEF Transfer, Sending, MessageLen
<1>4. Chosen # "hello"
  BY <1>1 DEF Chosen, Server
<1>5. CASE server.owes = "hello"
  <2>1. server.got = HelloLen(o) /\ server.got # 0
    BY <1>2, <1>5 DEF Expected
  <2> QED BY <1>1, <1>3, <1>4, <1>5, <2>1 DEF ServerInv, Waiting, States
<1>6. CASE server.owes = "password"
  <2>1. server.got = PasswordLen(o) /\ server.got # 0
    BY <1>2, <1>6 DEF Expected
  <2> QED BY <1>1, <1>3, <1>6, <2>1 DEF ServerInv, Waiting, States
<1>7. CASE server.owes = "reply"
  <2>1. server.got = RequestLen(o) /\ server.got # 0
    BY <1>2, <1>7 DEF Expected
  <2> QED BY <1>1, <1>3, <1>7, <2>1 DEF ServerInv, Waiting, States
<1> QED BY <1>5, <1>6, <1>7

LEMMA AnswerKeeps == ASSUME SocksInv, Answer PROVE SocksInv'
<1>1. o' = o /\ server.got = Expected /\ server \in Server /\ ObjectInv'
  BY Zenon DEF Answer, SocksInv, TypeOK, ObjectInv, Live, Counts, Transfer, Dead, MessageLen,
         HelloLen, PasswordLen, RequestLen
<1>2. Live \in BOOLEAN /\ Live' = Live
  BY <1>1 DEF Live
<1>3. o \in Object
  BY DEF SocksInv, TypeOK
<1>4. CASE AnswerHello
  <2>1. PICK m \in {"none", "password", "other"} :
          server' = [server EXCEPT !.got = 0, !.wire = 2, !.method = m,
                                   !.owes = CASE m = "none" -> "reply"
                                              [] m = "password" -> "password"
                                              [] m = "other" -> "none"]
    BY <1>4, Zenon DEF AnswerHello
  <2> DEFINE next == CASE m = "none" -> "reply"
                       [] m = "password" -> "password"
                       [] m = "other" -> "none"
  <2>2. next \in {"hello", "password", "reply", "none"} /\ 0 \in Nat /\ 2 \in Nat
    OBVIOUS
  <2>3. server' = [server EXCEPT !.got = 0, !.wire = 2, !.method = m, !.owes = next]
    BY <2>1
  <2> HIDE DEF next
  <2>4. server' \in Server
    BY <1>1, <2>2, <2>3, ZenonT(30) DEF Server
  <2>5. server'.got = 0 /\ server'.wire = 2 /\ server'.method = m /\ server'.owes = next
    BY <1>1, <2>3 DEF Server
  <2>6. Chosen' = next
    BY <2>5 DEF Chosen, next
  <2>7. Live => ServerInv'
    <3>1. Live => o.state = "SENT_HELLO" /\ o.recv_len = 0
      BY <1>1, <1>4, AwaitedAnswer DEF AnswerHello
    <3> QED BY <1>1, <2>5, <2>6, <3>1 DEF ServerInv
  <2> QED BY <1>1, <1>2, <1>3, <2>4, <2>7 DEF SocksInv, TypeOK
<1>5. CASE AnswerPassword
  <2>1. PICK b \in BOOLEAN :
          server' = [server EXCEPT !.got = 0, !.wire = 2, !.pass = b,
                                   !.owes = IF b THEN "reply" ELSE "none"]
    BY <1>5, Zenon DEF AnswerPassword
  <2> DEFINE next == IF b THEN "reply" ELSE "none"
  <2>2. next \in {"hello", "password", "reply", "none"} /\ 0 \in Nat /\ 2 \in Nat
    OBVIOUS
  <2>3. server' = [server EXCEPT !.got = 0, !.wire = 2, !.pass = b, !.owes = next]
    BY <2>1
  <2> HIDE DEF next
  <2>4. server' \in Server
    BY <1>1, <2>2, <2>3, ZenonT(30) DEF Server
  <2>5. server'.got = 0 /\ server'.wire = 2 /\ server'.pass = b /\ server'.owes = next
    BY <1>1, <2>3 DEF Server
  <2>6. Live => ServerInv'
    <3>1. Live => o.state = "SENT_PASSWORD" /\ o.recv_len = 0
      BY <1>1, <1>5, AwaitedAnswer DEF AnswerPassword
    <3> QED BY <1>1, <2>5, <3>1 DEF ServerInv, next
  <2> QED BY <1>1, <1>2, <1>3, <2>4, <2>6 DEF SocksInv, TypeOK
<1>6. CASE AnswerRequest
  <2>1. PICK b \in BOOLEAN, t \in AddrTypes \cup {"other"}, n \in 0..MaxData :
          server' = [server EXCEPT !.got = 0, !.owes = "none", !.rep = b, !.atyp = t,
                                   !.data = n, !.wire = 4 + AddrLen(t) + n]
    BY <1>6, Zenon DEF AnswerRequest
  <2> DEFINE w == 4 + AddrLen(t) + n
  <2>2. w \in Nat /\ n \in Nat /\ 0 \in Nat /\ AddrLen(t) \in Nat
    BY HandshakeAssumption DEF AddrLen
  <2>3. w = 4 - 0 + AddrLen(t) + n
    BY <2>2
  <2>4. server' = [server EXCEPT !.got = 0, !.owes = "none", !.rep = b, !.atyp = t,
                                 !.data = n, !.wire = w]
    BY <2>1
  <2> HIDE DEF w
  <2>5. server' \in Server
    BY <1>1, <2>2, <2>4, ZenonT(30) DEF Server
  <2>6. server'.owes = "none" /\ server'.atyp = t /\ server'.data = n /\ server'.wire = w
    BY <1>1, <2>4 DEF Server
  <2>7. Live => ServerInv'
    <3>1. Live => o.state = "SENT_REQUEST" /\ o.recv_len = 0
      BY <1>1, <1>6, AwaitedAnswer DEF AnswerRequest
    <3> QED BY <1>1, <2>3, <2>6, <3>1 DEF ServerInv
  <2> QED BY <1>1, <1>2, <1>3, <2>5, <2>7 DEF SocksInv, TypeOK
<1> QED BY <1>4, <1>5, <1>6 DEF Answer

LEMMA SocksStep == SocksInv /\ [Next]_vars => SocksInv'
<1> SUFFICES ASSUME SocksInv, [Next]_vars PROVE SocksInv'
  OBVIOUS
<1>1. CASE Connected
  BY <1>1, ConnectorKeeps DEF Connected
<1>2. CASE connection_handler \/ UserFree
  BY <1>2, GivenUpKeeps
<1>3. CASE Write
  <2>1. PICK n \in 1..o.in_len, ok \in BOOLEAN : output_handler_done(n, ok)
    BY <1>3 DEF Write
  <2>2. o.in_len \in Int
    BY DEF SocksInv, TypeOK, Object
  <2>3. n \in Nat /\ n > 0
    BY <2>2
  <2> QED BY <2>1, <2>3, OutputKeeps
<1>4. CASE Read
  <2>1. PICK n \in 1..o.recv_total, ok \in BOOLEAN : recv_handler_done(n, ok)
    BY <1>4 DEF Read
  <2>2. o.recv_total \in Nat
    BY DEF SocksInv, TypeOK, Object
  <2>3. n \in Nat /\ n > 0
    BY <2>2
  <2> QED BY <2>1, <2>3, RecvKeeps
<1>5. CASE Answer
  BY <1>5, AnswerKeeps
<1>6. CASE UNCHANGED vars
  BY <1>6, ZenonT(40) DEF vars, SocksInv, TypeOK, ObjectInv, Live, Counts, Transfer, Dead, MessageLen,
     HelloLen, PasswordLen, RequestLen, ServerInv, Waiting, Chosen
<1> QED BY <1>1, <1>2, <1>3, <1>4, <1>5, <1>6 DEF Next

\* BSocksClient_Free, called in any state and by whomever, releases what was
\* initialised and nothing else.
THEOREM OwnershipAlwaysFollows == Spec => []OwnershipFollowsState
<1>1. SocksInv => OwnershipFollowsState
  <2> SUFFICES ASSUME SocksInv PROVE OwnershipFollowsState
    OBVIOUS
  <2>1. CASE Live
    <3>1. o \in Object /\ Counts(o) /\ Transfer(o) /\ o.state \in States
      BY <2>1, LiveFacts
    <3>2. o.control = o.con - o.up
      BY <3>1 DEF Counts
    <3>3. o.buffer > 0 <=> o.control = 1
      <4>1. MessageLen(o) > 0 \/ o.state \notin Sending
        BY <3>1, MessageLens DEF MessageLen, Sending
      <4> QED BY <3>1, <4>1 DEF Counts, Transfer, States, Sending, Receiving
    <3> QED BY <2>1, <3>1, <3>2, <3>3 DEF SocksInv, OwnershipFollowsState, Counts
  <2>2. CASE ~Live
    BY <2>2 DEF SocksInv, ObjectInv, Dead, OwnershipFollowsState
  <2> QED BY <2>1, <2>2
<1> QED BY SocksInit, SocksStep, <1>1, PTL DEF Spec

\* The handlers use one buffer for every message and reply: one transfer at a
\* time, inside the buffer, for names of any length and both address types.
THEOREM AlwaysOneTransfer == Spec => []OneTransferInBuffer
<1>1. SocksInv => OneTransferInBuffer
  <2> SUFFICES ASSUME SocksInv, Live, o.control = 1 PROVE OneTransferInBuffer
    BY DEF OneTransferInBuffer
  <2>1. o \in Object /\ Counts(o) /\ Transfer(o) /\ o.state \in States
    BY LiveFacts
  <2>2. o.state \in Sending \cup Receiving
    BY <2>1 DEF Counts, States, Sending, Receiving
  <2>3. CASE o.state \in Sending
    <3>1. MessageLen(o) \in Nat
      BY <2>1, <2>3, MessageLens DEF MessageLen, Sending
    <3>2. /\ o.in_len # -1 /\ o.recv_busy = FALSE
          /\ o.in_len = o.buffer /\ o.in_used < o.in_len
      BY <2>1, <2>3, <3>1 DEF Transfer, Object
    <3> QED BY <3>2, Zenon DEF OneTransferInBuffer
  <2>4. CASE o.state \in Receiving
    <3>1. /\ o.in_len = -1 /\ o.recv_busy = TRUE
          /\ o.recv_len < o.recv_total /\ o.recv_dest + o.recv_total <= o.buffer
      BY <2>1, <2>4 DEF Transfer, Receiving, Object
    <3> QED BY <3>1, Zenon DEF OneTransferInBuffer
  <2> QED BY <2>2, <2>3, <2>4
<1> QED BY SocksInit, SocksStep, <1>1, PTL DEF Spec

\* recv_handler_done reads the reply to its last byte and no further: what the
\* server sends behind it is left to the relay.
THEOREM NothingSwallowed == Spec => []NoRelayedByteSwallowed
<1>1. SocksInv => NoRelayedByteSwallowed
  BY DEF SocksInv, ServerInv, NoRelayedByteSwallowed
<1> QED BY SocksInit, SocksStep, <1>1, PTL DEF Spec
=============================================================================
