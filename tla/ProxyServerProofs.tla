-------------------------- MODULE ProxyServerProofs --------------------------
(***************************************************************************)
(* Proofs about the proxy server.                                          *)
(*                                                                         *)
(* One connection through its handlers (SocksPipeline), for every number   *)
(* of pieces in both directions: what the client is told fits what it got, *)
(* and what it sends reaches the upstream in order and without a gap.      *)
(*                                                                         *)
(* The certificates that all connections share (CertCache), for every set  *)
(* of threads and of names, every spelling of them, and every number of    *)
(* calls: none is made twice by a thread.                                  *)
(***************************************************************************)
EXTENDS SocksPipeline, CertCache, SequenceTheorems, TLAPS

Handshake == {"InitialResponse", "PasswordResponse", "CommandResponse"}
Deciding == {"ProtocolSelect", "Sniffing"}
Following == {"BadMessage", "Aggregator", "Mitm", "Relay"}

\* The pipelines that a client's channel has once its protocol is decided.
Plain == {"Relay"}
Bad == {"Relay", "BadMessage"}
Waiting == {"Aggregator", "Relay"}
Intercepting == {"Aggregator", "Mitm", "Relay"}

\* Until the client is told SUCCESS, nothing is relayed; the promise is
\* settled once, since whatever settles it goes away with it.
ReplyInv ==
  /\ reply # "success" =>
       /\ sent = 0 /\ held = <<>> /\ got = <<>> /\ downGot = 0
       /\ "Relay" \notin rp /\ cp \cap Following = {}
  /\ reply = "success" => remote \in {"open", "closing", "closed"}
  /\ reply = "failure" => client # "open"
  /\ remote = "connecting" \/ rp \cap Handshake # {} => reply = "none"
  /\ "SocksServer" \in cp => reply = "none" /\ remote = "none" /\ rp = {}

\* A client that may send finds a handler for its pieces, and each handler
\* is there for the connections that it is for.
HandlerInv ==
  /\ Active(client) /\ reply = "success" => cp \cap (Deciding \cup Following) # {}
  /\ cp \cap Following # {} => cp \in {Plain, Bad, Waiting, Intercepting}
  /\ cp = Plain => ~Skipped /\ conn.mitm # "match"
  /\ cp = Bad => Skipped
  /\ cp \in {Waiting, Intercepting} => conn.mitm = "match"

\* Which decoder holds how many pieces.
HandedOn ==
  /\ conn.mitm # "match" /\ sent >= DecideAt /\ ~Nameless => held = <<>>
  /\ conn.mitm = "match" /\ sent = conn.full => held = <<>>

HeldInv ==
  /\ HandedOn
  /\ cp \cap Deciding # {} => Nameless \/ sent < DecideAt
  /\ cp = Waiting => sent < conn.full
  /\ cp = Intercepting => sent >= conn.full
  /\ cp \in {Plain, Bad} => held = <<>>

\* The upstream has the first pieces, and while it can be written it lacks
\* those that are held.
Writable == remote = "open" \/ (Active(remote) /\ Active(client))
DataInv ==
  /\ got = Pieces(Len(got))
  /\ Writable /\ ~Skipped => got \o held = Pieces(sent)

PipeInv == TypeOK /\ ReplyInv /\ HandlerInv /\ HeldInv /\ DataInv

-----------------------------------------------------------------------------
(* Sequences of pieces *)

LEMMA PiecesType ==
  ASSUME NEW n \in Nat
  PROVE  /\ Pieces(n) \in Seq(1..n) /\ Len(Pieces(n)) = n
         /\ \A i \in 1..n : Pieces(n)[i] = i
BY DEF Pieces

LEMMA NoPieces == Pieces(0) = <<>>
BY PiecesType, EmptySeq DEF Pieces

LEMMA PiecesGrow ==
  ASSUME NEW n \in Nat
  PROVE  Pieces(n) \o <<n + 1>> = Pieces(n + 1)
<1>1. Pieces(n) \in Seq(Nat) /\ Len(Pieces(n)) = n /\ Pieces(n + 1) \in Seq(Nat)
      /\ Len(Pieces(n + 1)) = n + 1 /\ <<n + 1>> \in Seq(Nat) /\ Len(<<n + 1>>) = 1
  BY PiecesType DEF Pieces
<1>2. /\ Pieces(n) \o <<n + 1>> \in Seq(Nat)
      /\ Len(Pieces(n) \o <<n + 1>>) = n + 1
      /\ \A i \in 1..(n + 1) : (Pieces(n) \o <<n + 1>>)[i] = IF i <= n THEN Pieces(n)[i] ELSE <<n + 1>>[i - n]
  BY <1>1
<1>3. \A i \in 1..(n + 1) : (Pieces(n) \o <<n + 1>>)[i] = Pieces(n + 1)[i]
  BY <1>2 DEF Pieces
<1> QED BY <1>1, <1>2, <1>3, SeqEqual, ZenonT(40)

-----------------------------------------------------------------------------
(* The steps *)

\* Which handlers the pipelines have, and that they are four.
LEMMA Pipelines ==
  /\ Plain # Bad /\ Plain # Waiting /\ Plain # Intercepting
  /\ Bad # Waiting /\ Bad # Intercepting /\ Waiting # Intercepting
  /\ \A p \in {Plain, Bad, Waiting, Intercepting} :
       /\ p # {} /\ p \cap Deciding = {} /\ p \cap Following # {}
       /\ ("BadMessage" \in p) = (p = Bad) /\ ("Mitm" \in p) = (p = Intercepting)
BY DEF Plain, Bad, Waiting, Intercepting, Deciding, Following

LEMMA GivenIs ==
  ASSUME conn \in Given
  PROVE  /\ DecideAt \in Nat /\ 0 < DecideAt /\ conn.full \in Nat
         /\ conn.mitm = "match" => DecideAt <= conn.full /\ conn.protocol = "http"
BY DEF Given, DecideAt

\* Before the client sends there is nothing to hold or to hand on.
LEMMA NothingSent ==
  ASSUME conn \in Given, sent = 0, held = <<>>, got = <<>>, cp \cap Following = {}
  PROVE  HeldInv /\ DataInv
<1>1. HandedOn
  BY DEF HandedOn
<1>2. HeldInv
  BY <1>1, GivenIs DEF HeldInv, Following, Plain, Bad, Waiting, Intercepting
<1>3. Len(got) = 0 /\ got = Pieces(0)
  BY NoPieces, EmptySeq
<1>4. got \o held = Pieces(sent)
  BY <1>3, ConcatEmptySeq, EmptySeq
<1> QED BY <1>2, <1>3, <1>4 DEF DataInv

LEMMA PipeInit == PipelineAssumption /\ Init => PipeInv
<1> SUFFICES ASSUME PipelineAssumption, Init PROVE PipeInv
  OBVIOUS
<1>1. TypeOK
  BY DEF TypeOK, Init, PipelineAssumption
<1>2. ReplyInv /\ HandlerInv
  BY DEF Init, ReplyInv, HandlerInv, Handshake, Deciding, Following, Plain, Bad, Waiting,
         Intercepting
<1>3. HeldInv /\ DataInv
  BY NothingSent DEF Init, Following
<1> QED BY <1>1, <1>2, <1>3 DEF PipeInv

\* No piece is lost in a step that moves none.
LEMMA QuietData ==
  ASSUME PipeInv, UNCHANGED <<conn, sent, held, got>>,
         cp' = cp \/ cp' = {}, Writable' => Writable
  PROVE  HeldInv' /\ DataInv'
<1>1. HandedOn'
  BY DEF PipeInv, HeldInv, HandedOn, DecideAt, Nameless
<1>2. HeldInv'
  BY <1>1 DEF PipeInv, HeldInv, DecideAt, Nameless, Plain, Bad, Waiting, Intercepting
<1>3. DataInv'
  BY DEF PipeInv, DataInv, Skipped, Pieces
<1> QED BY <1>2, <1>3

\* The handlers stay right when none is added and no client is newly served.
LEMMA QuietHandlers ==
  ASSUME PipeInv, UNCHANGED conn, cp' = cp \/ cp' = {},
         Active(client)' /\ reply' = "success" =>
           Active(client) /\ reply = "success" /\ cp' = cp
  PROVE  HandlerInv'
<1>1. Skipped' = Skipped
  BY DEF Skipped
<1>2. CASE cp' = cp
  BY <1>1, <1>2 DEF PipeInv, HandlerInv, Deciding, Following, Plain, Bad, Waiting, Intercepting
<1>3. CASE cp' = {} /\ cp' # cp
  <2>1. ~(Active(client)' /\ reply' = "success")
    BY <1>3
  <2> QED BY <1>3, <2>1, Zenon DEF HandlerInv, Plain, Bad, Waiting, Intercepting
<1> QED BY <1>2, <1>3

\* Before the client is told SUCCESS there is no piece.
LEMMA EarlyData ==
  ASSUME PipeInv, reply # "success", UNCHANGED <<conn, sent, held, got>>, cp' \cap Following = {}
  PROVE  HeldInv' /\ DataInv'
<1>1. conn' \in Given /\ sent' = 0 /\ held' = <<>> /\ got' = <<>>
  BY DEF PipeInv, TypeOK, ReplyInv
<1>2. DecideAt' \in Nat /\ 0 < DecideAt' /\ conn'.full \in Nat
  BY <1>1 DEF Given, DecideAt
<1>3. HandedOn' /\ HeldInv'
  BY <1>1, <1>2 DEF HandedOn, HeldInv, Following, Plain, Bad, Waiting, Intercepting
<1>4. Len(got') = 0 /\ got' = Pieces(0)
  BY <1>1, NoPieces, EmptySeq
<1>5. got' \o held' = Pieces(0)
  BY <1>1, <1>4, ConcatEmptySeq, EmptySeq
<1> QED BY <1>1, <1>3, <1>4, <1>5 DEF DataInv, Pieces

\* What the promise does when it is settled, which happens when the client
\* has not been told anything.
LEMMA SettleStep ==
  ASSUME PipeInv, reply = "none", NEW pipeline, pipeline \subseteq cp \cup {"Upstream"},
         "SocksServer" \notin pipeline,
         SetSuccess(pipeline) \/ SetFailure(pipeline), UNCHANGED <<conn, up, down>>,
         remote' \in {"none", "connecting", "failed", "open", "closing", "closed"},
         rp' = {}, SetSuccess(pipeline) => remote' = "open", remote' # "connecting"
  PROVE  PipeInv'
<1>1. /\ client' \in {"open", "closing", "closed"} /\ (Active(client)' => Active(client))
      /\ client' = client \/ client' # "open"
  BY DEF PipeInv, TypeOK, SetSuccess, SetFailure, closeOnFlush, Active
<1>2. /\ cp' \subseteq cp \cup {"Upstream", "ProtocolSelect"} /\ "SocksServer" \notin cp'
      /\ SetSuccess(pipeline) => "ProtocolSelect" \in cp'
  BY DEF SetSuccess, SetFailure
<1>3. /\ promise' \in {"success", "failure"} /\ reply' \in {"none", "success", "failure"}
      /\ reply' = "success" => SetSuccess(pipeline)
      /\ reply' = "failure" => client' # "open"
  BY <1>1 DEF SetSuccess, SetFailure, closeOnFlush, Active
<1>4. TypeOK'
  BY <1>1, <1>2, <1>3 DEF PipeInv, TypeOK, up, down
<1>5. cp \cap Following = {} /\ cp' \cap Following = {} /\ UNCHANGED <<sent, held, got, downGot>>
  BY <1>2 DEF PipeInv, ReplyInv, Following, up, down
<1>6. ReplyInv'
  BY <1>2, <1>3, <1>5 DEF PipeInv, ReplyInv, Handshake
<1>7. HandlerInv'
  BY <1>2, <1>3, <1>5 DEF HandlerInv, Deciding, Following, Plain, Bad, Waiting, Intercepting
<1>8. HeldInv' /\ DataInv'
  BY <1>5, EarlyData
<1> QED BY <1>4, <1>6, <1>7, <1>8 DEF PipeInv

\* The same for a step of the handshake that leaves the promise alone.
LEMMA WaitStep ==
  ASSUME PipeInv, reply = "none", UNCHANGED <<conn, up, down, reply>>,
         client' \in {client, "closed"}, promise' \in {promise, "pending"},
         cp' \subseteq cp \cup {"CommandDecoder", "Upstream"},
         remote' \in {"none", "connecting", "failed", "open", "closing", "closed"},
         rp' \subseteq Handshake \cup {"Connect"},
         "SocksServer" \in cp' => remote' = "none" /\ rp' = {}
  PROVE  PipeInv'
<1>1. TypeOK'
  BY DEF PipeInv, TypeOK, up, down, Handshake
<1>2. cp' \cap Following = {} /\ UNCHANGED <<sent, held, got, downGot>>
  BY DEF PipeInv, ReplyInv, Following, up, down
<1>3. ReplyInv'
  BY <1>2 DEF PipeInv, ReplyInv, Handshake
<1>4. HandlerInv'
  BY <1>2 DEF HandlerInv, Following, Plain, Bad, Waiting, Intercepting
<1> QED BY <1>1, <1>2, <1>3, <1>4, EarlyData DEF PipeInv

LEMMA EarlyStep ==
  ASSUME PipeInv,
         \/ InitialRequest \/ OtherRequest \/ ConnectRequest
         \/ Connected \/ ConnectFails \/ UpstreamAnswers
  PROVE  PipeInv'
<1>0. /\ "SocksServer" \in cp => reply = "none" /\ remote = "none" /\ rp = {}
      /\ remote = "connecting" => reply = "none"
      /\ rp \cap Handshake # {} => reply = "none" /\ "SocksServer" \notin cp
  BY DEF PipeInv, ReplyInv
<1>1. CASE InitialRequest
  BY <1>0, <1>1, WaitStep DEF InitialRequest, PipeInv, TypeOK
<1>2. CASE OtherRequest
  BY <1>0, <1>2, WaitStep DEF OtherRequest, PipeInv, TypeOK
<1>3. CASE ConnectRequest
  <2>1. CASE conn.kind = "reject"
    <3>1. SetFailure({"Upstream"}) /\ UNCHANGED <<remote, rp, conn, up, down>> /\ "SocksServer" \in cp
      BY <1>3, <2>1 DEF ConnectRequest
    <3>2. ~SetSuccess({"Upstream"})
      BY <3>1 DEF SetFailure, SetSuccess
    <3> QED BY <1>0, <3>1, <3>2, SettleStep
  <2>2. CASE conn.kind # "reject"
    BY <1>0, <1>3, <2>2, WaitStep DEF ConnectRequest
  <2> QED BY <2>1, <2>2
<1>4. CASE Connected
  <2>0. reply = "none" /\ "SocksServer" \notin cp /\ remote' = "open" /\ UNCHANGED <<conn, up, down>>
    BY <1>0, <1>4 DEF Connected
  <2>1. CASE conn.kind = "socks5"
    BY <2>0, <1>4, <2>1, WaitStep DEF Connected, Handshake
  <2>2. CASE conn.kind # "socks5"
    BY <2>0, <1>4, <2>2, SettleStep DEF Connected
  <2> QED BY <2>1, <2>2
<1>5. CASE ConnectFails
  BY <1>0, <1>5, WaitStep DEF ConnectFails
<1>6. ASSUME remote = "open", rp \cap Handshake # {}, UNCHANGED <<conn, remote, up, down>>,
             \/ rp' \subseteq Handshake /\ UNCHANGED <<client, cp, promise, reply>>
             \/ rp' = {} /\ (SetSuccess(cp) \/ SetFailure(cp))
      PROVE  PipeInv'
  <2>1. CASE rp' \subseteq Handshake /\ UNCHANGED <<client, cp, promise, reply>>
    BY <1>0, <1>6, <2>1, WaitStep
  <2>2. CASE rp' = {} /\ (SetSuccess(cp) \/ SetFailure(cp))
    BY <1>0, <1>6, <2>2, SettleStep
  <2> QED BY <1>6, <2>1, <2>2
<1>7. ASSUME NEW m \in {"noAuth", "password", "unknown", "malformed"}, InitialResponse(m)
      PROVE  PipeInv'
  BY <1>6, <1>7 DEF InitialResponse, Handshake
<1>8. ASSUME NEW ok \in BOOLEAN, PasswordResponse(ok) \/ CommandResponse(ok)
      PROVE  PipeInv'
  BY <1>6, <1>8 DEF PasswordResponse, CommandResponse, Handshake
<1> QED BY <1>1, <1>2, <1>3, <1>4, <1>5, <1>7, <1>8 DEF UpstreamAnswers

\* A piece that goes to whatever holds, writes or skips it changes the
\* handlers to those that are to come.
LEMMA ReadFrame ==
  ASSUME PipelineAssumption, PipeInv, Active(client), reply = "success", sent < MaxUp,
         sent' = sent + 1, UNCHANGED <<conn, promise, reply, downSent, downGot>>,
         held' \in Seq(1..MaxUp), got' \in Seq(1..MaxUp),
         remote' = remote \/ remote' = closeOnFlush(remote),
         client' \in {client, "closed"}, rp' \in {rp, rp \cup {"Relay"}},
         \/ cp' = {} /\ client' = "closed"
         \/ cp' \in {cp, {"Sniffing"}, {"Sniffing", "HttpCheck"}} /\ cp' \cap Deciding # {}
              /\ cp' \cap Following = {}
         \/ cp' = Plain /\ ~Skipped /\ conn.mitm # "match"
         \/ cp' = Bad /\ Skipped
         \/ cp' \in {Waiting, Intercepting} /\ conn.mitm = "match"
  PROVE  TypeOK' /\ ReplyInv' /\ HandlerInv'
<1>1. /\ MaxUp \in Nat /\ sent' \in 0..MaxUp /\ remote \in {"open", "closing", "closed"}
      /\ remote' \in {"open", "closing", "closed"}
  BY DEF PipelineAssumption, PipeInv, TypeOK, ReplyInv, closeOnFlush
<1>2. cp' \subseteq cp \cup {"Sniffing", "HttpCheck"} \cup Following
  BY DEF Following, Plain, Bad, Waiting, Intercepting
<1>3. TypeOK'
  BY <1>1, <1>2 DEF PipeInv, TypeOK, Following
<1>4. "SocksServer" \notin cp' /\ rp' \cap Handshake \subseteq rp
  BY <1>2 DEF PipeInv, ReplyInv, Following, Handshake
<1>5. ReplyInv'
  BY <1>1, <1>4 DEF PipeInv, ReplyInv
<1>6. Skipped' = Skipped /\ conn' = conn
  BY DEF Skipped
<1>7. HandlerInv'
  <2>1. CASE cp' = {} /\ client' = "closed"
    BY <2>1 DEF HandlerInv, Active, Plain, Bad, Waiting, Intercepting
  <2>2. CASE cp' \cap Deciding # {} /\ cp' \cap Following = {}
    BY <2>2 DEF HandlerInv, Following, Plain, Bad, Waiting, Intercepting
  <2>3. CASE cp' = Plain /\ ~Skipped /\ conn.mitm # "match"
    <3>1. cp' \cap (Deciding \cup Following) # {} /\ cp' # Bad /\ cp' \notin {Waiting, Intercepting}
      BY <2>3, Pipelines
    <3> QED BY <1>6, <2>3, <3>1 DEF HandlerInv
  <2>4. CASE cp' = Bad /\ Skipped
    <3>1. cp' \cap (Deciding \cup Following) # {} /\ cp' # Plain /\ cp' \notin {Waiting, Intercepting}
      BY <2>4, Pipelines
    <3> QED BY <1>6, <2>4, <3>1 DEF HandlerInv
  <2>5. CASE cp' \in {Waiting, Intercepting} /\ conn.mitm = "match"
    <3>1. cp' \cap (Deciding \cup Following) # {} /\ cp' # Plain /\ cp' # Bad
      BY <2>5, Pipelines
    <3> QED BY <1>6, <2>5, <3>1 DEF HandlerInv
  <2> QED BY <2>1, <2>2, <2>3, <2>4, <2>5
<1> QED BY <1>3, <1>5, <1>7

\* What becomes of the pieces when one more is held, when all are written,
\* and when the upstream cannot be written any more.
LEMMA ReadData ==
  ASSUME PipelineAssumption, PipeInv, Active(client), reply = "success", sent < MaxUp,
         sent' = sent + 1, UNCHANGED conn,
         \/ held' = held \o <<sent'>> /\ got' = got /\ remote' = remote
         \/ ~Skipped /\ held' = <<>> /\ Write(held \o <<sent'>>) /\ remote' = remote
         \/ held' = <<>> /\ got' = got /\ (Skipped \/ ~Writable')
  PROVE  DataInv' /\ held' \in Seq(1..MaxUp) /\ got' \in Seq(1..MaxUp)
<1>1. /\ MaxUp \in Nat /\ sent \in Nat /\ sent' \in 1..MaxUp /\ <<sent'>> \in Seq(1..MaxUp)
      /\ held \in Seq(1..MaxUp) /\ got \in Seq(1..MaxUp) /\ <<>> \in Seq(1..MaxUp)
  BY EmptySeq DEF PipelineAssumption, PipeInv, TypeOK
<1>2. /\ got = Pieces(Len(got)) /\ Len(got) \in Nat
      /\ Writable /\ ~Skipped => got \o held = Pieces(sent)
  BY <1>1 DEF PipeInv, DataInv
<1>3. /\ held \o <<sent'>> \in Seq(1..MaxUp) /\ got \o (held \o <<sent'>>) \in Seq(1..MaxUp)
      /\ got \o (held \o <<sent'>>) = (got \o held) \o <<sent'>>
  <2>1. held \o <<sent'>> \in Seq(1..MaxUp)
    BY <1>1, ConcatProperties
  <2>2. got \o (held \o <<sent'>>) \in Seq(1..MaxUp)
    BY <1>1, <2>1, ConcatProperties
  <2>3. got \o (held \o <<sent'>>) = (got \o held) \o <<sent'>>
    BY <1>1, ConcatAssociative
  <2> QED BY <2>1, <2>2, <2>3
<1>4. Writable /\ ~Skipped => got \o (held \o <<sent'>>) = Pieces(sent')
  BY <1>1, <1>2, <1>3, PiecesGrow
<1>5. Skipped' = Skipped /\ (remote' = remote /\ Writable' => Writable)
      /\ (Active(remote) => Writable)
  BY DEF Skipped, Writable, Active
<1>7. CASE held' = held \o <<sent'>> /\ got' = got /\ remote' = remote
  <2>1. Len(got)' = Len(got) /\ Pieces(Len(got))' = Pieces(Len(got)) /\ Pieces(sent)' = Pieces(sent')
    BY <1>7 DEF Pieces
  <2>2. DataInv'
    BY <1>2, <1>4, <1>5, <1>7, <2>1, Zenon DEF DataInv
  <2> QED BY <1>1, <1>3, <1>7, <2>2
<1>8. CASE ~Skipped /\ held' = <<>> /\ Write(held \o <<sent'>>) /\ remote' = remote
  <2>1. CASE Active(remote)
    <3>1. got' = Pieces(sent') /\ got' \in Seq(1..MaxUp) /\ Len(got') = sent'
      <4>1. got' = got \o (held \o <<sent'>>)
        BY <1>8, <2>1 DEF Write
      <4>2. got' = Pieces(sent')
        BY <1>4, <1>5, <1>8, <2>1, <4>1
      <4>3. Len(Pieces(sent')) = sent'
        BY <1>1, PiecesType
      <4> QED BY <1>3, <4>1, <4>2, <4>3, Zenon
    <3>2. got' \o held' = got'
      BY <1>8, <3>1, ConcatEmptySeq
    <3>3. DataInv'
      BY <3>1, <3>2 DEF DataInv, Pieces
    <3> QED BY <1>1, <1>8, <3>1, <3>3
  <2>2. CASE ~Active(remote)
    <3>1. got' = got /\ ~Writable'
      BY <1>8, <2>2 DEF Write, Writable, Active
    <3>2. DataInv'
      BY <1>2, <3>1 DEF DataInv, Pieces
    <3> QED BY <1>1, <1>8, <3>1, <3>2
  <2> QED BY <2>1, <2>2
<1>9. CASE held' = <<>> /\ got' = got /\ (Skipped \/ ~Writable')
  <2>1. DataInv'
    BY <1>2, <1>5, <1>9 DEF DataInv, Pieces
  <2> QED BY <1>1, <1>9, <2>1
<1> QED BY <1>7, <1>8, <1>9

\* A request that an interceptor matches: it is kept until it is whole.
LEMMA FirstKeeps ==
  ASSUME PipelineAssumption, PipeInv, Active(client), reply = "success", sent < MaxUp,
         sent' = sent + 1, UNCHANGED <<conn, promise, reply, downSent, downGot>>,
         conn.mitm = "match", FirstRequest(held \o <<sent'>>), rp' \in {rp, rp \cup {"Relay"}}
  PROVE  PipeInv'
<1>1. /\ sent' \in Nat /\ conn.full \in Nat /\ conn.full' = conn.full /\ conn' = conn
      /\ ~Skipped
  BY GivenIs DEF PipeInv, TypeOK, Skipped
<1>2. CASE sent' < conn.full
  <2>1. cp' = Waiting /\ held' = held \o <<sent'>> /\ UNCHANGED <<client, remote, got>>
    BY <1>2 DEF FirstRequest, Waiting
  <2>2. DataInv' /\ held' \in Seq(1..MaxUp) /\ got' \in Seq(1..MaxUp)
    BY <2>1, ReadData
  <2>3. TypeOK' /\ ReplyInv' /\ HandlerInv'
    BY <2>1, <2>2, ReadFrame
  <2>4. HandedOn'
    BY <1>1, <1>2 DEF HandedOn
  <2>5. cp' \cap Deciding = {} /\ cp' # Intercepting /\ cp' # Plain /\ cp' # Bad
    BY <2>1, Pipelines
  <2>6. HeldInv'
    BY <1>1, <1>2, <2>4, <2>5 DEF HeldInv
  <2> QED BY <2>2, <2>3, <2>6 DEF PipeInv
<1>3. CASE ~(sent' < conn.full)
  <2>1. /\ cp' = Intercepting /\ held' = <<>> /\ Write(held \o <<sent'>>)
        /\ UNCHANGED <<client, remote>>
    BY <1>3 DEF FirstRequest, Intercepting
  <2>2. DataInv' /\ held' \in Seq(1..MaxUp) /\ got' \in Seq(1..MaxUp)
    BY <1>1, <2>1, ReadData
  <2>3. TypeOK' /\ ReplyInv' /\ HandlerInv'
    BY <2>1, <2>2, ReadFrame
  <2>4. HandedOn'
    BY <2>1 DEF HandedOn
  <2>5. cp' \cap Deciding = {} /\ cp' # Waiting
    BY <2>1, Pipelines
  <2>6. HeldInv'
    BY <1>1, <1>3, <2>1, <2>4, <2>5 DEF HeldInv
  <2> QED BY <2>2, <2>3, <2>6 DEF PipeInv
<1> QED BY <1>2, <1>3

\* A piece that the client sends.
LEMMA ReadStep ==
  ASSUME PipelineAssumption, PipeInv, ClientReads
  PROVE  PipeInv'
<1> DEFINE pieces == held \o <<sent'>>
<1>0. /\ Active(client) /\ reply = "success" /\ sent < MaxUp /\ sent' = sent + 1
      /\ UNCHANGED <<conn, promise, reply, downSent, downGot>>
  BY DEF ClientReads, down
<1>1. /\ sent \in Nat /\ conn \in Given
      /\ DecideAt' = DecideAt /\ Nameless' = Nameless /\ Skipped' = Skipped
  BY <1>0 DEF PipeInv, TypeOK, DecideAt, Nameless, Skipped
<1>2. /\ DecideAt \in Nat /\ conn.full \in Nat
      /\ conn.mitm = "match" => DecideAt <= conn.full /\ conn.protocol = "http"
  BY <1>1, GivenIs
<1>3. CASE cp \cap Deciding # {}
  <2>0. cp \cap Following = {}
    BY <1>3 DEF PipeInv, HandlerInv, Deciding, Following, Plain, Bad, Waiting, Intercepting
  <2>1. IF sent' < DecideAt THEN Hold(pieces) ELSE Decide(pieces)
    BY <1>3, <2>0, ZenonT(40) DEF ClientReads, Deciding, Following
  <2>2. ASSUME cp' \in {cp, {"Sniffing"}, {"Sniffing", "HttpCheck"}}, cp' \cap Deciding # {},
               held' = pieces, UNCHANGED <<client, remote, rp, got>>, sent' < DecideAt \/ Nameless
        PROVE  PipeInv'
    <3>1. cp' \cap Following = {}
      BY <2>0, <2>2 DEF Following
    <3>2. DataInv' /\ held' \in Seq(1..MaxUp) /\ got' \in Seq(1..MaxUp)
      BY <1>0, <2>2, ReadData
    <3>3. TypeOK' /\ ReplyInv' /\ HandlerInv'
      BY <1>0, <2>2, <3>1, <3>2, ReadFrame
    <3>4. Nameless => conn.mitm # "match"
      BY <1>2 DEF Nameless
    <3>5. HandedOn'
      BY <1>0, <1>1, <1>2, <2>2, <3>4 DEF HandedOn
    <3>6. HeldInv'
      BY <1>1, <2>2, <3>1, <3>5 DEF HeldInv, Following, Plain, Bad, Waiting, Intercepting
    <3> QED BY <3>2, <3>3, <3>6 DEF PipeInv
  <2>3. CASE sent' < DecideAt
    <3>1. Hold(pieces)
      BY <2>1, <2>3
    <3>2. cp' \in {cp, {"Sniffing"}} /\ cp' \cap Deciding # {}
      BY <1>3, <3>1 DEF Hold, Deciding
    <3> QED BY <2>2, <2>3, <3>1, <3>2 DEF Hold
  <2>4. CASE ~(sent' < DecideAt)
    <3>0. Decide(pieces)
      BY <2>1, <2>4
    <3>1. CASE conn.mitm = "match"
      <4>1. FirstRequest(pieces) /\ rp' = rp \cup {"Relay"}
        BY <3>0, <3>1, Zenon DEF Decide
      <4> QED BY <1>0, <1>1, <1>2, <3>1, <4>1, FirstKeeps
    <3>2. CASE conn.mitm = "pass" /\ conn.protocol = "other"
      <4>1. NotHttp
        BY <3>0, <3>2, Zenon DEF Decide
      <4>2. /\ cp' = Bad /\ Skipped /\ rp' = rp \cup {"Relay"} /\ held' = <<>>
            /\ UNCHANGED <<client, remote, got>>
        BY <3>2, <4>1 DEF NotHttp, Bad, Skipped
      <4>3. DataInv' /\ held' \in Seq(1..MaxUp) /\ got' \in Seq(1..MaxUp)
        BY <1>0, <4>2, ReadData
      <4>4. TypeOK' /\ ReplyInv' /\ HandlerInv'
        BY <1>0, <4>2, <4>3, ReadFrame
      <4>5. HeldInv'
        BY <4>2 DEF HeldInv, HandedOn, Deciding, Bad, Waiting, Intercepting
      <4> QED BY <4>3, <4>4, <4>5 DEF PipeInv
    <3>3. CASE conn.mitm = "pass" /\ conn.protocol = "tlsNoName"
      <4>1. NoServerName(pieces) /\ Nameless
        BY <3>0, <3>3, Zenon DEF Decide, Nameless
      <4>2. cp' \in {{"Sniffing"}, {"Sniffing", "HttpCheck"}} /\ cp' \cap Deciding # {}
        BY <4>1 DEF NoServerName, Deciding
      <4> QED BY <2>2, <4>1, <4>2 DEF NoServerName
    <3>4. CASE /\ conn.mitm # "match" /\ ~(conn.mitm = "pass" /\ conn.protocol = "other")
               /\ ~(conn.mitm = "pass" /\ conn.protocol = "tlsNoName")
      <4>1. Follow(pieces)
        BY <3>0, <3>4, Zenon DEF Decide
      <4>2. ~Skipped
        BY <1>1, <3>4 DEF Skipped, Given
      <4>3. /\ cp' = Plain /\ rp' = rp \cup {"Relay"} /\ held' = <<>> /\ Write(pieces)
            /\ UNCHANGED <<client, remote>>
        BY <4>1 DEF Follow, doFollowUp, Plain
      <4>4. DataInv' /\ held' \in Seq(1..MaxUp) /\ got' \in Seq(1..MaxUp)
        BY <1>0, <4>2, <4>3, ReadData
      <4>5. TypeOK' /\ ReplyInv' /\ HandlerInv'
        BY <1>0, <3>4, <4>2, <4>3, <4>4, ReadFrame
      <4>6. HeldInv'
        <5>1. cp' = Plain /\ cp' \cap Deciding = {} /\ cp' # Waiting /\ cp' # Intercepting
          BY <4>3, Pipelines
        <5>2. HandedOn'
          BY <4>3 DEF HandedOn
        <5> QED BY <4>3, <5>1, <5>2 DEF HeldInv
      <4> QED BY <4>4, <4>5, <4>6 DEF PipeInv
    <3> QED BY <3>1, <3>2, <3>3, <3>4
  <2> QED BY <2>3, <2>4
<1>4. CASE cp \cap Deciding = {}
  <2>0. cp \in {Plain, Bad, Waiting, Intercepting}
    BY <1>0, <1>4 DEF PipeInv, HandlerInv
  <2>1. CASE cp = Bad
    <3>0. /\ ~(cp \cap {"ProtocolSelect", "Sniffing"} # {})
          /\ "BadMessage" \in cp /\ cp # {"Aggregator", "Relay"}
          /\ "Mitm" \notin cp /\ cp # {"Relay"}
      BY <2>1, Pipelines DEF Deciding, Bad, Plain, Waiting
    <3>1. UNCHANGED <<client, cp, remote, rp, held, got>>
      BY <3>0, ZenonT(40) DEF ClientReads
    <3>5. Skipped /\ held = <<>>
      BY <2>1 DEF PipeInv, HandlerInv, HeldInv
    <3>2. DataInv' /\ held' \in Seq(1..MaxUp) /\ got' \in Seq(1..MaxUp)
      BY <1>0, <3>1, <3>5, ReadData
    <3>3. TypeOK' /\ ReplyInv' /\ HandlerInv'
      BY <1>0, <2>1, <3>1, <3>2, <3>5, ReadFrame
    <3>4. HeldInv'
      BY <2>1, <3>1, <3>5 DEF HeldInv, HandedOn, Deciding, Bad, Waiting, Intercepting
    <3> QED BY <3>2, <3>3, <3>4 DEF PipeInv
  <2>2. CASE cp = Waiting
    <3>0. /\ ~(cp \cap {"ProtocolSelect", "Sniffing"} # {})
          /\ "BadMessage" \notin cp /\ cp = {"Aggregator", "Relay"}
          /\ "Mitm" \notin cp /\ cp # {"Relay"}
      BY <2>2, Pipelines DEF Deciding, Waiting, Plain
    <3>1. FirstRequest(pieces) /\ rp' = rp
      BY <3>0, ZenonT(40) DEF ClientReads
    <3>2. conn.mitm = "match" /\ sent < conn.full
      BY <2>2 DEF PipeInv, HandlerInv, HeldInv
    <3> QED BY <1>0, <1>1, <1>2, <3>1, <3>2, FirstKeeps
  <2>3. CASE cp = Intercepting
    <3>0. /\ ~(cp \cap {"ProtocolSelect", "Sniffing"} # {})
          /\ "BadMessage" \notin cp /\ cp # {"Aggregator", "Relay"}
          /\ "Mitm" \in cp /\ cp # {"Relay"}
      BY <2>3, Pipelines DEF Deciding, Intercepting, Plain, Waiting
    <3>1. SecondRequest(pieces)
      BY <3>0, ZenonT(40) DEF ClientReads
    <3>2. conn.mitm = "match" /\ sent >= conn.full /\ sent' > conn.full
      BY <1>0, <1>1, <1>2, <2>3 DEF PipeInv, HandlerInv, HeldInv
    <3>3. HandedOn'
      BY <1>0, <1>1, <1>2, <3>2 DEF HandedOn
    <3>4. CASE held' = pieces /\ UNCHANGED <<client, cp, remote, rp, got>>
      <4>1. DataInv' /\ held' \in Seq(1..MaxUp) /\ got' \in Seq(1..MaxUp)
        BY <1>0, <3>4, ReadData
      <4>2. TypeOK' /\ ReplyInv' /\ HandlerInv'
        BY <1>0, <2>3, <3>2, <3>4, <4>1, ReadFrame
      <4>3. HeldInv'
        <5>1. cp' \cap Deciding = {} /\ cp' # Waiting /\ cp' # Plain /\ cp' # Bad
          BY <2>3, <3>4, Pipelines
        <5> QED BY <1>0, <1>1, <1>2, <3>2, <3>3, <5>1 DEF HeldInv
      <4> QED BY <4>1, <4>2, <4>3 DEF PipeInv
    <3>5. CASE ~UNCHANGED cp
      <4>1. /\ client' = "closed" /\ cp' = {} /\ remote' = closeOnFlush(remote)
            /\ held' = <<>> /\ UNCHANGED <<rp, got>>
        BY <3>1, <3>5 DEF SecondRequest
      <4>2. ~Writable'
        BY <4>1 DEF Writable, closeOnFlush, Active
      <4>3. DataInv' /\ held' \in Seq(1..MaxUp) /\ got' \in Seq(1..MaxUp)
        BY <1>0, <4>1, <4>2, ReadData
      <4>4. TypeOK' /\ ReplyInv' /\ HandlerInv'
        BY <1>0, <4>1, <4>3, ReadFrame
      <4>5. HeldInv'
        BY <3>3, <4>1 DEF HeldInv, Deciding, Plain, Bad, Waiting, Intercepting
      <4> QED BY <4>3, <4>4, <4>5 DEF PipeInv
    <3>6. cp' = {} => ~UNCHANGED cp
      BY <2>3 DEF Intercepting
    <3> QED BY <3>1, <3>4, <3>5, <3>6 DEF SecondRequest
  <2>4. CASE cp = Plain
    <3>0. /\ ~(cp \cap {"ProtocolSelect", "Sniffing"} # {})
          /\ "BadMessage" \notin cp /\ cp # {"Aggregator", "Relay"}
          /\ "Mitm" \notin cp /\ cp = {"Relay"}
      BY <2>4, Pipelines DEF Deciding, Plain, Waiting
    <3>1. Write(<<sent'>>) /\ UNCHANGED <<client, cp, remote, rp, held>>
      BY <3>0, ZenonT(40) DEF ClientReads
    <3>2. ~Skipped /\ conn.mitm # "match" /\ held = <<>>
      BY <2>4 DEF PipeInv, HandlerInv, HeldInv
    <3>3. pieces = <<sent'>>
      BY <1>0, <1>1, <3>2, ConcatEmptySeq
    <3>4. held' = <<>> /\ Write(pieces)
      BY <3>1, <3>2, <3>3
    <3>5. DataInv' /\ held' \in Seq(1..MaxUp) /\ got' \in Seq(1..MaxUp)
      BY <1>0, <3>1, <3>2, <3>4, ReadData
    <3>6. TypeOK' /\ ReplyInv' /\ HandlerInv'
      BY <1>0, <2>4, <3>1, <3>2, <3>5, ReadFrame
    <3>7. HeldInv'
      <4>1. cp' = Plain /\ cp' \cap Deciding = {} /\ cp' # Waiting /\ cp' # Intercepting
        BY <2>4, <3>1, Pipelines
      <4>2. HandedOn'
        BY <3>4 DEF HandedOn
      <4> QED BY <3>4, <4>1, <4>2 DEF HeldInv
    <3> QED BY <3>5, <3>6, <3>7 DEF PipeInv
  <2> QED BY <2>0, <2>1, <2>2, <2>3, <2>4
<1> QED BY <1>3, <1>4

\* The upstream's pieces and the end of a channel move no piece of the client's.
LEMMA LateStep ==
  ASSUME PipelineAssumption, PipeInv, RemoteReads \/ ClientEnds \/ RemoteEnds \/ Flushed
  PROVE  PipeInv'
<1>1. CASE RemoteReads
  <2>1. /\ UNCHANGED <<conn, cp, remote, rp, promise, reply, sent, held, got>>
        /\ client' \in {"open", "closing", "closed"} /\ (Active(client)' => Active(client))
        /\ client' = "open" => client = "open"
    BY <1>1 DEF RemoteReads, up, closeOnFlush, Active, PipeInv, TypeOK
  <2>2. /\ downSent' = downSent + 1 /\ downSent < MaxDown
        /\ downGot' = downGot \/ (downGot' \in {downGot + 1, downSent'} /\ "Relay" \in rp)
    BY <1>1 DEF RemoteReads
  <2>3. TypeOK'
    BY <2>1, <2>2 DEF PipelineAssumption, PipeInv, TypeOK
  <2>4. ReplyInv' /\ HandlerInv'
    BY <2>1, <2>2, QuietHandlers DEF PipeInv, ReplyInv
  <2>5. HeldInv' /\ DataInv'
    BY <2>1, QuietData DEF Writable
  <2> QED BY <2>3, <2>4, <2>5 DEF PipeInv
<1>2. CASE CloseClient
  <2>1. /\ UNCHANGED <<conn, rp, promise, reply, sent, held, got, downSent, downGot>>
        /\ client' = "closed" /\ cp' = {}
        /\ remote' = remote \/ (remote = "open" /\ remote' = "closing")
    BY <1>2 DEF CloseClient, up, down, closeOnFlush
  <2>2. TypeOK'
    BY <2>1 DEF PipeInv, TypeOK
  <2>3. ReplyInv' /\ HandlerInv'
    BY <2>1, QuietHandlers DEF PipeInv, ReplyInv, Active
  <2>4. HeldInv' /\ DataInv'
    BY <2>1, QuietData DEF Writable, Active
  <2> QED BY <2>2, <2>3, <2>4 DEF PipeInv
<1>3. CASE CloseRemote /\ Active(remote)
  <2>1. /\ UNCHANGED <<conn, cp, promise, reply, sent, held, got, downSent, downGot>>
        /\ remote' = "closed" /\ rp' = {}
        /\ client' = client \/ (client = "open" /\ client' = "closing")
    BY <1>3 DEF CloseRemote, up, down, closeOnFlush
  <2>2. TypeOK'
    BY <2>1 DEF PipeInv, TypeOK
  <2>3. ReplyInv' /\ HandlerInv'
    BY <1>3, <2>1, QuietHandlers DEF PipeInv, ReplyInv, Active
  <2>4. HeldInv' /\ DataInv'
    BY <2>1, QuietData DEF Writable, Active
  <2> QED BY <2>2, <2>3, <2>4 DEF PipeInv
<1> QED BY <1>1, <1>2, <1>3 DEF ClientEnds, RemoteEnds, Flushed, Active

LEMMA PipeStep == PipelineAssumption /\ PipeInv /\ [Next]_vars => PipeInv'
<1> SUFFICES ASSUME PipelineAssumption, PipeInv, [Next]_vars PROVE PipeInv'
  OBVIOUS
<1>1. CASE UNCHANGED vars
  <2>1. TypeOK' /\ ReplyInv'
    BY <1>1 DEF vars, up, down, PipeInv, TypeOK, ReplyInv
  <2>3. HandlerInv'
    BY <1>1, QuietHandlers DEF vars, Active
  <2>2. HeldInv' /\ DataInv'
    BY <1>1, QuietData DEF vars, up, Writable, Active
  <2> QED BY <2>1, <2>2, <2>3 DEF PipeInv
<1> QED BY <1>1, EarlyStep, ReadStep, LateStep DEF Next

\* The client is told SUCCESS only over a channel that was connected, and after
\* FAILURE it is neither kept nor relayed, whichever upstream the rules name
\* and however its handshake ends.
THEOREM ReplyAlwaysFits == Spec => []ReplyFits
<1>1. PipeInv => ReplyFits
  BY DEF PipeInv, ReplyInv, ReplyFits
<1> QED BY PipeInit, PipeStep, PipelineAssumption, <1>1, PTL DEF Spec

\* What RelayHandler has written to the upstream is what the client sent, in
\* order and without a gap, for any number of pieces and wherever the protocol
\* is decided; the decoders hold what is missing, and only until they decide,
\* for every connection but those with rules for interception whose data is
\* neither TLS nor HTTP or whose ClientHello names no server.
THEOREM UpAlwaysIntact == Spec => []UpIntact
<1>1. PipeInv => UpIntact
  BY DEF PipeInv, HeldInv, HandedOn, DataInv, Writable, UpIntact
<1> QED BY PipeInit, PipeStep, PipelineAssumption, <1>1, PTL DEF Spec

-----------------------------------------------------------------------------
(* The certificates *)


Made(c, k) == c.host = k /\ c.day \in Nat

CacheTypes ==
  /\ now \in Nat
  /\ DOMAIN cache = Keys
  /\ pc \in [Threads -> {"idle", "generate", "put", "use"}]
  /\ DOMAIN key = Threads /\ DOMAIN cert = Threads
  /\ generated \in [Threads -> [Keys -> Nat]]

EntriesMade == \A k \in Keys : cache[k] # NoCert => Made(cache[k], k)
KeysKnown == \A t \in Threads : pc[t] # "idle" => key[t] \in Keys
NotYetMade == \A t \in Threads : pc[t] = "generate" => generated[t][key[t]] = 0
CertsMade == \A t \in Threads : pc[t] \in {"put", "use"} => Made(cert[t], key[t])

MadeIsKept ==
  \A t \in Threads, k \in Keys : generated[t][k] > 0 =>
    \/ generated[t][k] = 1 /\ cache[k] # NoCert
    \/ generated[t][k] = 1 /\ pc[t] = "put" /\ key[t] = k

\* The inductive invariant: what is in the cache was made for its key; and a
\* thread that has generated for a key has put it there or is about to, so the
\* one that is to generate has not done so before.
CacheInv ==
  CacheTypes /\ EntriesMade /\ KeysKnown /\ NotYetMade /\ CertsMade /\ MadeIsKept

LEMMA MadeIsThere == \A c, k : Made(c, k) => c # NoCert
<1>1. NoCert.day = -1 /\ -1 \notin Nat
  BY DEF NoCert
<1> QED BY <1>1 DEF Made

LEMMA CacheInit == CacheAssumption /\ CertInit => CacheInv
<1> SUFFICES ASSUME CertInit PROVE CacheInv
  OBVIOUS
<1>1. /\ now = 0 /\ DOMAIN cache = Keys /\ DOMAIN key = Threads /\ DOMAIN cert = Threads
      /\ \A k \in Keys : cache[k] = NoCert
  BY Zenon DEF CertInit
<1>2. /\ pc \in [Threads -> {"idle", "generate", "put", "use"}]
      /\ \A t \in Threads : pc[t] = "idle"
  BY ZenonT(40) DEF CertInit
<1>3. /\ generated \in [Threads -> [Keys -> Nat]]
      /\ \A t \in Threads, k \in Keys : generated[t][k] = 0
  BY ZenonT(40) DEF CertInit
<1>4. CacheTypes
  BY <1>1, <1>2, <1>3 DEF CacheTypes
<1>5. EntriesMade /\ KeysKnown /\ NotYetMade /\ CertsMade
  BY <1>1, <1>2 DEF EntriesMade, KeysKnown, NotYetMade, CertsMade
<1>6. MadeIsKept
  BY <1>3 DEF MadeIsKept
<1> QED BY <1>4, <1>5, <1>6, Zenon DEF CacheInv

\* A step that generates nothing and drops nothing.
LEMMA MadeStays ==
  ASSUME MadeIsKept, generated' = generated,
         \A k \in Keys : cache[k] # NoCert => cache'[k] # NoCert,
         \A u \in Threads : pc[u] = "put" =>
           (pc'[u] = "put" /\ key'[u] = key[u]) \/ cache'[key[u]] # NoCert
  PROVE  MadeIsKept'
<1> SUFFICES ASSUME NEW u \in Threads, NEW k \in Keys, generated'[u][k] > 0
             PROVE  /\ generated'[u][k] = 1
                    /\ cache'[k] # NoCert \/ (pc'[u] = "put" /\ key'[u] = k)
  BY DEF MadeIsKept
<1>1. /\ generated[u][k] = 1 /\ generated'[u][k] = 1
      /\ cache[k] # NoCert \/ (pc[u] = "put" /\ key[u] = k)
  BY DEF MadeIsKept
<1> QED BY <1>1, Zenon

LEMMA LookupKeeps ==
  ASSUME CacheAssumption, CacheInv, NEW t \in Threads, Lookup(t)
  PROVE  CacheInv'
<1>0. CacheTypes /\ EntriesMade /\ KeysKnown /\ NotYetMade /\ CertsMade /\ MadeIsKept
  BY Zenon DEF CacheInv
<1>1. PICK n \in Names :
        /\ key' = [key EXCEPT ![t] = Key(n)]
        /\ cert' = [cert EXCEPT ![t] = cache[Key(n)]]
        /\ pc' = [pc EXCEPT ![t] = IF cache[Key(n)] = NoCert THEN "generate" ELSE "use"]
  BY Zenon DEF Lookup
<1>2. now' = now /\ cache' = cache /\ generated' = generated /\ pc[t] = "idle"
  BY Zenon DEF Lookup
<1>3. Key(n) \in Keys
  BY Zenon DEF Keys
<1>4. cache[Key(n)] = NoCert => generated[t][Key(n)] = 0
  <2>1. generated[t][Key(n)] \in Nat
    BY <1>0, <1>3 DEF CacheTypes
  <2> QED BY <2>1, <1>0, <1>2, <1>3 DEF MadeIsKept
<1>5. /\ pc' \in [Threads -> {"idle", "generate", "put", "use"}]
      /\ DOMAIN key' = Threads /\ DOMAIN cert' = Threads
      /\ key'[t] = Key(n) /\ cert'[t] = cache[Key(n)] /\ pc'[t] # "put" /\ pc'[t] # "idle"
      /\ pc'[t] = "generate" <=> cache[Key(n)] = NoCert
      /\ \A u \in Threads : u # t => key'[u] = key[u] /\ cert'[u] = cert[u] /\ pc'[u] = pc[u]
  BY <1>0, <1>1 DEF CacheTypes
<1>6. CacheTypes'
  BY <1>0, <1>2, <1>5 DEF CacheTypes
<1>7. EntriesMade'
  BY <1>0, <1>2 DEF EntriesMade
<1>8. KeysKnown'
  BY <1>0, <1>3, <1>5 DEF KeysKnown
<1>9. NotYetMade'
  BY <1>0, <1>2, <1>4, <1>5 DEF NotYetMade
<1>10. CertsMade'
  <2>1. pc'[t] = "use" => Made(cert'[t], key'[t])
    BY <1>0, <1>3, <1>5 DEF EntriesMade
  <2>2. ASSUME NEW u \in Threads, u # t, pc'[u] \in {"put", "use"}
        PROVE  Made(cert'[u], key'[u])
    BY <2>2, <1>0, <1>5 DEF CertsMade
  <2> QED BY <2>1, <2>2, <1>5 DEF CertsMade
<1>11. MadeIsKept'
  <2>1. \A u \in Threads : pc[u] = "put" => pc'[u] = "put" /\ key'[u] = key[u]
    BY <1>2, <1>5
  <2> QED BY <2>1, <1>0, <1>2, MadeStays, Zenon
<1> QED BY <1>6, <1>7, <1>8, <1>9, <1>10, <1>11, Zenon DEF CacheInv

LEMMA GenCertKeeps ==
  ASSUME CacheInv, NEW t \in Threads, genCert(t)
  PROVE  CacheInv'
<1>0. CacheTypes /\ EntriesMade /\ KeysKnown /\ NotYetMade /\ CertsMade /\ MadeIsKept
  BY Zenon DEF CacheInv
<1>1. /\ now' = now /\ cache' = cache /\ key' = key /\ pc[t] = "generate"
      /\ pc' = [pc EXCEPT ![t] = "put"]
      /\ cert' = [cert EXCEPT ![t] = [host |-> key[t], day |-> now]]
      /\ generated' = [generated EXCEPT ![t][key[t]] = @ + 1]
  BY DEF genCert
<1>2. key[t] \in Keys /\ generated[t][key[t]] = 0
  BY <1>0, <1>1 DEF KeysKnown, NotYetMade
<1>3. /\ generated' \in [Threads -> [Keys -> Nat]] /\ generated'[t][key[t]] = 1
      /\ \A u \in Threads, k \in Keys :
           u # t \/ k # key[t] => generated'[u][k] = generated[u][k]
  <2>1. generated \in [Threads -> [Keys -> Nat]]
    BY <1>0 DEF CacheTypes
  <2> QED BY <2>1, <1>1, <1>2
<1>4. /\ pc' \in [Threads -> {"idle", "generate", "put", "use"}] /\ pc'[t] = "put"
      /\ DOMAIN cert' = Threads /\ cert'[t] = [host |-> key[t], day |-> now]
      /\ \A u \in Threads : u # t => cert'[u] = cert[u] /\ pc'[u] = pc[u]
  BY <1>0, <1>1 DEF CacheTypes
<1>5. CacheTypes'
  BY <1>0, <1>1, <1>3, <1>4 DEF CacheTypes
<1>6. EntriesMade'
  BY <1>0, <1>1 DEF EntriesMade
<1>7. KeysKnown'
  BY <1>0, <1>1, <1>2, <1>4 DEF KeysKnown
<1>8. NotYetMade'
  <2> SUFFICES ASSUME NEW u \in Threads, pc'[u] = "generate"
               PROVE  generated'[u][key'[u]] = 0
    BY DEF NotYetMade
  <2>1. u # t /\ pc[u] = "generate"
    BY <1>4
  <2>2. key[u] \in Keys /\ generated[u][key[u]] = 0
    BY <2>1, <1>0 DEF KeysKnown, NotYetMade
  <2> QED BY <2>1, <2>2, <1>1, <1>3
<1>9. CertsMade'
  <2>1. Made(cert'[t], key'[t])
    BY <1>0, <1>1, <1>4 DEF Made, CacheTypes
  <2> QED BY <2>1, <1>0, <1>1, <1>4 DEF CertsMade
<1>10. MadeIsKept'
  <2> SUFFICES ASSUME NEW u \in Threads, NEW k \in Keys, generated'[u][k] > 0
               PROVE  \/ generated'[u][k] = 1 /\ cache'[k] # NoCert
                      \/ generated'[u][k] = 1 /\ pc'[u] = "put" /\ key'[u] = k
    BY DEF MadeIsKept
  <2>1. CASE u = t /\ k = key[t]
    BY <2>1, <1>1, <1>3, <1>4
  <2>2. CASE u = t /\ k # key[t]
    BY <2>2, <1>0, <1>1, <1>3 DEF MadeIsKept
  <2>3. CASE u # t
    <3>1. generated'[u][k] = generated[u][k] /\ pc'[u] = pc[u] /\ key'[u] = key[u]
      BY <2>3, <1>1, <1>3, <1>4
    <3> QED BY <3>1, <1>0, <1>1 DEF MadeIsKept
  <2> QED BY <2>1, <2>2, <2>3, Zenon
<1> QED BY <1>5, <1>6, <1>7, <1>8, <1>9, <1>10, Zenon DEF CacheInv

LEMMA PutKeeps ==
  ASSUME CacheInv, NEW t \in Threads, Put(t)
  PROVE  CacheInv'
<1>0. CacheTypes /\ EntriesMade /\ KeysKnown /\ NotYetMade /\ CertsMade /\ MadeIsKept
  BY Zenon DEF CacheInv
<1>1. /\ now' = now /\ key' = key /\ cert' = cert /\ generated' = generated
      /\ pc[t] = "put" /\ pc' = [pc EXCEPT ![t] = "use"]
      /\ cache' = [cache EXCEPT ![key[t]] = cert[t]]
  BY Zenon DEF Put
<1>2. key[t] \in Keys /\ Made(cert[t], key[t]) /\ cert[t] # NoCert
  BY <1>0, <1>1, MadeIsThere DEF KeysKnown, CertsMade
<1>3. /\ pc' \in [Threads -> {"idle", "generate", "put", "use"}] /\ pc'[t] = "use"
      /\ DOMAIN cache' = Keys /\ cache'[key[t]] = cert[t]
      /\ \A u \in Threads : u # t => pc'[u] = pc[u]
      /\ \A k \in Keys : k # key[t] => cache'[k] = cache[k]
  BY <1>0, <1>1, <1>2 DEF CacheTypes
<1>4. CacheTypes'
  BY <1>0, <1>1, <1>3 DEF CacheTypes
<1>5. EntriesMade'
  BY <1>0, <1>2, <1>3 DEF EntriesMade
<1>6. KeysKnown'
  BY <1>0, <1>1, <1>2, <1>3 DEF KeysKnown
<1>7. NotYetMade'
  BY <1>0, <1>1, <1>3 DEF NotYetMade
<1>8. CertsMade'
  BY <1>0, <1>1, <1>2, <1>3 DEF CertsMade
<1>9. MadeIsKept'
  <2>1. \A k \in Keys : cache[k] # NoCert => cache'[k] # NoCert
    BY <1>2, <1>3
  <2>2. \A u \in Threads : pc[u] = "put" =>
          (pc'[u] = "put" /\ key'[u] = key[u]) \/ cache'[key[u]] # NoCert
    BY <1>1, <1>2, <1>3
  <2> QED BY <2>1, <2>2, <1>0, <1>1, MadeStays, Zenon
<1> QED BY <1>4, <1>5, <1>6, <1>7, <1>8, <1>9, Zenon DEF CacheInv

LEMMA UseKeeps ==
  ASSUME CacheInv, NEW t \in Threads, Use(t)
  PROVE  CacheInv'
<1>0. CacheTypes /\ EntriesMade /\ KeysKnown /\ NotYetMade /\ CertsMade /\ MadeIsKept
  BY Zenon DEF CacheInv
<1>1. /\ UNCHANGED <<now, cache, key, cert, generated>>
      /\ pc[t] = "use" /\ pc' = [pc EXCEPT ![t] = "idle"]
  BY Zenon DEF Use
<1>2. /\ pc' \in [Threads -> {"idle", "generate", "put", "use"}] /\ pc'[t] = "idle"
      /\ \A u \in Threads : u # t => pc'[u] = pc[u]
  BY <1>0, <1>1 DEF CacheTypes
<1>3. CacheTypes' /\ EntriesMade'
  BY <1>0, <1>1, <1>2 DEF CacheTypes, EntriesMade
<1>4. KeysKnown' /\ NotYetMade'
  BY <1>0, <1>1, <1>2 DEF KeysKnown, NotYetMade
<1>5. CertsMade'
  BY <1>0, <1>1, <1>2 DEF CertsMade
<1>6. MadeIsKept'
  <2>1. \A u \in Threads : pc[u] = "put" => pc'[u] = "put" /\ key'[u] = key[u]
    BY <1>1, <1>2
  <2> QED BY <2>1, <1>0, <1>1, MadeStays, Zenon
<1> QED BY <1>3, <1>4, <1>5, <1>6, Zenon DEF CacheInv

LEMMA QuietKeeps ==
  ASSUME CacheInv, now' \in Nat, UNCHANGED <<cache, pc, key, cert, generated>>
  PROVE  CacheInv'
<1>1. CacheTypes'
  BY DEF CacheInv, CacheTypes
<1>2. EntriesMade' /\ KeysKnown' /\ NotYetMade'
  BY DEF CacheInv, EntriesMade, KeysKnown, NotYetMade
<1>3. CertsMade' /\ MadeIsKept'
  BY DEF CacheInv, CertsMade, MadeIsKept
<1> QED BY <1>1, <1>2, <1>3, Zenon DEF CacheInv

LEMMA CacheStep == CacheAssumption /\ CacheInv /\ [CertNext]_certVars => CacheInv'
<1> SUFFICES ASSUME CacheAssumption, CacheInv, [CertNext]_certVars PROVE CacheInv'
  OBVIOUS
<1>1. ASSUME NEW t \in Threads, Lookup(t) PROVE CacheInv'
  BY <1>1, LookupKeeps
<1>2. ASSUME NEW t \in Threads, genCert(t) PROVE CacheInv'
  BY <1>2, GenCertKeeps
<1>3. ASSUME NEW t \in Threads, Put(t) PROVE CacheInv'
  BY <1>3, PutKeeps
<1>4. ASSUME NEW t \in Threads, Use(t) PROVE CacheInv'
  BY <1>4, UseKeeps
<1>5. CASE DaysPass
  BY <1>5, QuietKeeps DEF DaysPass, CacheAssumption
<1>6. CASE UNCHANGED certVars
  BY <1>6, QuietKeeps DEF certVars, CacheInv, CacheTypes
<1> QED BY <1>1, <1>2, <1>3, <1>4, <1>5, <1>6 DEF CertNext

\* SSLFactory.newCert: no thread generates a second certificate for a host,
\* however the three steps of the calls interleave.
THEOREM AlwaysGeneratedOnce == CertSpec => []GeneratedOnce
<1>1. CacheInv => GeneratedOnce
  BY DEF CacheInv, CacheTypes, MadeIsKept, GeneratedOnce
<1> QED BY CacheAssumption, CacheInit, CacheStep, <1>1, PTL DEF CertSpec
=============================================================================
