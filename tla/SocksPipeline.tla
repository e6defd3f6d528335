--------------------------- MODULE SocksPipeline ---------------------------
(***************************************************************************)
(* One connection through the proxy server: the Netty handlers of          *)
(* downstream/, upstream/, http/ and action/.                              *)
(*                                                                         *)
(* A connection has two channels, the one a client of port 1080 opened and *)
(* the one to the upstream.  Both belong to the same event loop, so every  *)
(* handler runs to its end before the next one starts.  A pipeline is the  *)
(* set of the project's handlers installed in it; Netty's codecs are part  *)
(* of the handler that installs them.  A channel that closes tells its     *)
(* handlers and then drops them all; data that no handler takes is         *)
(* discarded at the end of the pipeline.                                   *)
(*                                                                         *)
(* The client's data is a sequence of pieces 1, 2, ... as they are read.   *)
(* Interception of TLS (the matched branch of SniHandler) is not modelled. *)
(***************************************************************************)
EXTENDS Naturals, Sequences

CONSTANTS
  Kinds,       \* the upstreams that proxyMatcher may name
  Protocols,   \* what the client may speak; "tlsNoName" is a ClientHello
               \* that names no server
  MaxUp,       \* bound: pieces the client sends
  MaxDown      \* bound: pieces the upstream sends

ASSUME PipelineAssumption ==
  /\ Kinds \subseteq {"direct", "http", "socks5", "reject"}
  /\ Protocols \subseteq {"tls", "tlsNoName", "http", "other"}
  /\ MaxUp \in Nat /\ MaxDown \in Nat

VARIABLES
  conn,       \* what is given: upstream, protocol, rules, and the pieces
              \* that complete 3 bytes, the first record or head, and the
              \* first request
  client,     \* the client's channel: "open", "closing" or "closed"
  cp,         \* its pipeline
  remote,     \* the upstream's channel
  rp,         \* its pipeline
  promise,    \* commandResponsePromise
  reply,      \* the command response that the client was sent
  sent,       \* pieces read from the client
  held,       \* those a decoder still keeps
  got,        \* those written to the upstream
  downSent,   \* pieces read from the upstream
  downGot     \* those written to the client

up == <<sent, held, got>>
down == <<downSent, downGot>>
vars == <<conn, client, cp, remote, rp, promise, reply, up, down>>

Pieces(n) == [i \in 1..n |-> i]

Given ==
  {c \in [kind : Kinds, protocol : Protocols, mitm : {"off", "pass", "match"},
          select : 1..2, decide : 1..3, full : 1..4] :
     /\ c.select <= c.decide /\ c.decide <= c.select + 1
     /\ c.decide <= c.full /\ c.full <= c.decide + 1
     /\ IF c.mitm = "match" THEN c.protocol = "http" ELSE c.full = c.decide}

(* SocksServerInitializer has run; the upstream is not known yet. *)
Init ==
  /\ conn \in Given
  /\ client = "open" /\ cp = {"SocksServer"}
  /\ remote = "none" /\ rp = {}
  /\ promise = "none" /\ reply = "none"
  /\ sent = 0 /\ held = <<>> /\ got = <<>>
  /\ downSent = 0 /\ downGot = 0

Active(channel) == channel \in {"open", "closing"}

(* The channel after closeOnFlush: it closes once its writes are flushed. *)
closeOnFlush(channel) == IF channel = "open" THEN "closing" ELSE channel

-----------------------------------------------------------------------------
(* The two listeners of commandResponsePromise. *)

SetSuccess(pipeline) ==
  /\ promise' = "success"
  /\ reply' = IF Active(client) THEN "success" ELSE reply
  /\ cp' = pipeline \cup {"ProtocolSelect"}
  /\ client' = client

(* Fault: the client is told and then kept. *)
SetFailureKeeps(pipeline) ==
  /\ promise' = "failure"
  /\ reply' = IF Active(client) THEN "failure" ELSE reply
  /\ cp' = pipeline
  /\ client' = client

SetFailure(pipeline) ==
  /\ promise' = "failure"
  /\ reply' = IF Active(client) THEN "failure" ELSE reply
  /\ cp' = pipeline
  /\ client' = closeOnFlush(client)

-----------------------------------------------------------------------------
(* SocksServerHandler.channelRead0. *)

InitialRequest ==
  /\ client = "open" /\ cp = {"SocksServer"}
  /\ cp' = cp \cup {"CommandDecoder"}
  /\ UNCHANGED <<conn, client, remote, rp, promise, reply, up, down>>

(* SOCKS4, or a command that is not CONNECT. *)
OtherRequest ==
  /\ client = "open" /\ "SocksServer" \in cp
  /\ client' = "closed" /\ cp' = {}
  /\ UNCHANGED <<conn, remote, rp, promise, reply, up, down>>

(* CONNECT passes through UpstreamMatchHandler, which starts the upstream's *)
(* handler: it refuses, or it connects.                                    *)
ConnectRequest ==
  /\ client = "open" /\ cp = {"SocksServer", "CommandDecoder"}
  /\ IF conn.kind = "reject"
     THEN SetFailure({"Upstream"}) /\ UNCHANGED <<remote, rp>>
     ELSE /\ promise' = "pending" /\ cp' = {"Upstream"}
          /\ remote' = "connecting" /\ rp' = {"Connect"}
          /\ UNCHANGED <<client, reply>>
  /\ UNCHANGED <<conn, up, down>>

(* The connect future removes the upstream's handler from the client's     *)
(* pipeline, then ConnectHandler.channelActive runs.                       *)
Connected ==
  /\ remote = "connecting" /\ remote' = "open"
  /\ IF conn.kind = "socks5"
     THEN /\ cp' = cp \ {"Upstream"} /\ rp' = {"InitialResponse"}
          /\ UNCHANGED <<client, promise, reply>>
     ELSE SetSuccess(cp \ {"Upstream"}) /\ rp' = {}
  /\ UNCHANGED <<conn, up, down>>

(* Refused, unreachable, unresolved or no answer in ten seconds: the       *)
(* listener of the connect future does nothing.                            *)
ConnectFails ==
  /\ remote = "connecting" /\ remote' = "failed" /\ rp' = {}
  /\ UNCHANGED <<conn, client, cp, promise, reply, up, down>>

-----------------------------------------------------------------------------
(* Socks5UpstreamHandler's handshake.  A decoder that has decoded its      *)
(* message passes on what follows, which its handler does not take.        *)

InitialResponse(method) ==
  /\ remote = "open" /\ "InitialResponse" \in rp
  /\ rp' = CASE method = "noAuth" -> {"CommandResponse"}
             [] method = "password" -> {"PasswordResponse"}
             [] OTHER -> {}
  /\ IF method = "malformed" THEN SetFailure(cp)
     ELSE UNCHANGED <<client, cp, promise, reply>>
  /\ UNCHANGED <<conn, remote, up, down>>

PasswordResponse(ok) ==
  /\ remote = "open" /\ "PasswordResponse" \in rp
  /\ IF ok THEN rp' = {"CommandResponse"} /\ UNCHANGED <<client, cp, promise, reply>>
     ELSE rp' = {} /\ SetFailure(cp)
  /\ UNCHANGED <<conn, remote, up, down>>

(* The status of the response is not looked at. *)
CommandResponse(wellFormed) ==
  /\ remote = "open" /\ "CommandResponse" \in rp
  /\ rp' = {}
  /\ IF wellFormed THEN SetSuccess(cp) ELSE UNCHANGED <<client, cp, promise, reply>>
  /\ UNCHANGED <<conn, remote, up, down>>

UpstreamAnswers ==
  \/ \E m \in {"noAuth", "password", "unknown", "malformed"} : InitialResponse(m)
  \/ \E ok \in BOOLEAN : PasswordResponse(ok) \/ CommandResponse(ok)

-----------------------------------------------------------------------------
(* What a client's piece does on its way through the pipeline. *)

(* RelayHandler.channelRead *)
Write(pieces) == got' = IF Active(remote) THEN got \o pieces ELSE got

(* DirectAction.doFollowUp *)
doFollowUp == cp' = {"Relay"} /\ rp' = rp \cup {"Relay"}

(* Fault: the bytes that were read while deciding are dropped. *)
DecideForgets(pieces) ==
  /\ doFollowUp
  /\ held' = <<>> /\ got' = got
  /\ UNCHANGED <<client, remote>>

(* Without interception, and when no interceptor matches the name, the     *)
(* decoder hands on what it has; a request is encoded again by the         *)
(* HttpRequestEncoder of the upstream's pipeline.                          *)
Follow(pieces) ==
  /\ doFollowUp
  /\ held' = <<>> /\ Write(pieces)
  /\ UNCHANGED <<client, remote>>

(* What is not HTTP has no such encoder: the decoder's invalid request     *)
(* cannot be written, and the decoder skips all that follows.              *)
NotHttp ==
  /\ cp' = {"Relay", "BadMessage"} /\ rp' = rp \cup {"Relay"}
  /\ held' = <<>>
  /\ UNCHANGED <<client, remote, got>>

(* onLookupComplete returns for an empty name.  For a missing one lookup   *)
(* throws, and exceptionCaught adds the HTTP handlers behind SniHandler,   *)
(* which keeps the bytes and fails again with every piece that follows.    *)
NoServerName(pieces) ==
  /\ \E added \in {{}, {"HttpCheck"}} : cp' = {"Sniffing"} \cup added
  /\ held' = pieces
  /\ UNCHANGED <<client, remote, rp, got>>

(* HttpObjectAggregator keeps a request until it is whole.  The first one  *)
(* makes HttpMessageHandler add MitmHandler, and goes on to RelayHandler.  *)
FirstRequest(pieces) ==
  /\ IF sent' < conn.full
     THEN cp' = {"Aggregator", "Relay"} /\ held' = pieces /\ got' = got
     ELSE cp' = {"Aggregator", "Mitm", "Relay"} /\ held' = <<>> /\ Write(pieces)
  /\ UNCHANGED <<client, remote>>

(* The protocol, and the name if there is one, are known. *)
Decide(pieces) ==
  CASE conn.mitm = "match" -> FirstRequest(pieces) /\ rp' = rp \cup {"Relay"}
    [] conn.mitm = "pass" /\ conn.protocol = "other" -> NotHttp
    [] conn.mitm = "pass" /\ conn.protocol = "tlsNoName" -> NoServerName(pieces)
    [] OTHER -> Follow(pieces)

(* ProtocolSelectHandler waits for 3 bytes; with rules for interception it *)
(* installs SniHandler or HttpInterceptorHandler, which wait for a whole   *)
(* ClientHello or request head.                                            *)
DecideAt == IF conn.mitm = "off" THEN conn.select ELSE conn.decide

Hold(pieces) ==
  /\ held' = pieces
  /\ cp' = IF sent' >= conn.select THEN {"Sniffing"} ELSE cp
  /\ UNCHANGED <<client, remote, rp, got>>

(* A second whole request finds MitmHandler there: addAfter throws, and    *)
(* RelayHandler.exceptionCaught closes the channel.                        *)
SecondRequest(pieces) ==
  \/ held' = pieces /\ UNCHANGED <<client, cp, remote, rp, got>>
  \/ /\ client' = "closed" /\ cp' = {}
     /\ remote' = closeOnFlush(remote)
     /\ held' = <<>>
     /\ UNCHANGED <<rp, got>>

(* A client sends data when it has the reply that it may. *)
ClientReads ==
  /\ Active(client) /\ reply = "success" /\ sent < MaxUp
  /\ sent' = sent + 1
  /\ LET pieces == held \o <<sent'>> IN
     CASE cp \cap {"ProtocolSelect", "Sniffing"} # {} ->
            IF sent' < DecideAt THEN Hold(pieces) ELSE Decide(pieces)
       [] "BadMessage" \in cp -> UNCHANGED <<client, cp, remote, rp, held, got>>
       [] cp = {"Aggregator", "Relay"} -> FirstRequest(pieces) /\ rp' = rp
       [] "Mitm" \in cp -> SecondRequest(pieces)
       [] cp = {"Relay"} -> Write(<<sent'>>) /\ UNCHANGED <<client, cp, remote, rp, held>>
  /\ UNCHANGED <<conn, promise, reply, down>>

(* RelayHandler.channelRead at the upstream; without it the piece is       *)
(* discarded.  An intercepted response is kept until it is whole, and      *)
(* closes the client's channel when MitmHandler.write has written it.      *)
RemoteReads ==
  /\ Active(remote) /\ downSent < MaxDown
  /\ rp \cap {"InitialResponse", "PasswordResponse", "CommandResponse"} = {}
  /\ downSent' = downSent + 1
  /\ \/ /\ "Relay" \in rp /\ Active(client)
        /\ downGot' = IF "Aggregator" \in cp THEN downSent' ELSE downGot + 1
        /\ client' = IF "Mitm" \in cp THEN closeOnFlush(client) ELSE client
     \/ /\ ~("Relay" \in rp /\ Active(client)) \/ "Aggregator" \in cp
        /\ UNCHANGED <<downGot, client>>
  /\ UNCHANGED <<conn, cp, remote, rp, promise, reply, up>>

-----------------------------------------------------------------------------
(* A channel closes; RelayHandler.channelInactive closes the other one. *)

(* Fault: channelInactive does nothing. *)
CloseClientOnly ==
  /\ client' = "closed" /\ cp' = {}
  /\ UNCHANGED <<conn, remote, rp, promise, reply, up, down>>

CloseClient ==
  /\ client' = "closed" /\ cp' = {}
  /\ remote' = IF "Relay" \in cp THEN closeOnFlush(remote) ELSE remote
  /\ UNCHANGED <<conn, rp, promise, reply, up, down>>

CloseRemote ==
  /\ remote' = "closed" /\ rp' = {}
  /\ client' = IF "Relay" \in rp THEN closeOnFlush(client) ELSE client
  /\ UNCHANGED <<conn, cp, promise, reply, up, down>>

(* The other side ends or breaks the connection. *)
ClientEnds == Active(client) /\ CloseClient
RemoteEnds == Active(remote) /\ CloseRemote

(* The writes before closeOnFlush are done. *)
Flushed ==
  \/ client = "closing" /\ CloseClient
  \/ remote = "closing" /\ CloseRemote

-----------------------------------------------------------------------------
Next ==
  \/ InitialRequest \/ OtherRequest \/ ConnectRequest
  \/ Connected \/ ConnectFails \/ UpstreamAnswers
  \/ ClientReads \/ RemoteReads
  \/ ClientEnds \/ RemoteEnds \/ Flushed

(* A connect ends within its timeout, and peers take what is written. *)
Fairness == WF_vars(Connected \/ ConnectFails) /\ WF_vars(Flushed)

Spec == Init /\ [][Next]_vars /\ Fairness

-----------------------------------------------------------------------------
(* Every variable has its type. *)
TypeOK ==
  /\ conn \in Given
  /\ client \in {"open", "closing", "closed"}
  /\ cp \subseteq {"SocksServer", "CommandDecoder", "Upstream", "ProtocolSelect",
                   "Sniffing", "HttpCheck", "BadMessage", "Aggregator", "Mitm", "Relay"}
  /\ remote \in {"none", "connecting", "failed", "open", "closing", "closed"}
  /\ rp \subseteq {"Connect", "InitialResponse", "PasswordResponse", "CommandResponse",
                   "Relay"}
  /\ promise \in {"none", "pending", "success", "failure"}
  /\ reply \in {"none", "success", "failure"}
  /\ sent \in 0..MaxUp /\ held \in Seq(1..MaxUp) /\ got \in Seq(1..MaxUp)
  /\ downSent \in 0..MaxDown /\ downGot \in 0..downSent

(* With rules for interception, two kinds of data are not relayed: what    *)
(* ProtocolSelectHandler takes for HTTP and is not, and TLS without a name. *)
Skipped == conn.mitm # "off" /\ conn.protocol = "other"
Nameless == conn.mitm # "off" /\ conn.protocol = "tlsNoName"

(* What is written to the upstream is what the client sent, in order and   *)
(* without a gap, for every connection.  While the upstream's channel is   *)
(* open it lacks only what a decoder holds, unless the decoder skips the   *)
(* connection's data.  And no decoder holds on to the bytes: once the      *)
(* protocol is decided (SniHandler, HttpCheckHandler) or the first request *)
(* is whole (HttpObjectAggregator) they have been handed on, unless TLS    *)
(* names no server.                                                        *)
UpIntact ==
  /\ got = Pieces(Len(got))
  /\ remote = "open" /\ ~Skipped => got \o held = Pieces(sent)
  /\ conn.mitm # "match" /\ sent >= DecideAt /\ ~Nameless => held = <<>>
  /\ conn.mitm = "match" /\ sent = conn.full => held = <<>>

(* "not http, direct" (HttpCheckHandler): what is not HTTP is relayed as it *)
(* is.  The code does not do so: the upstream gets none of it.             *)
NotHttpIsDirect ==
  conn.protocol = "other" /\ remote = "open" => got \o held = Pieces(sent)

(* The client is told SUCCESS only over an upstream channel that was       *)
(* connected, and after FAILURE it is neither kept nor relayed.            *)
ReplyFits ==
  /\ TypeOK
  /\ reply = "success" => remote \in {"open", "closing", "closed"}
  /\ reply = "failure" => client # "open" /\ got = <<>> /\ downGot = 0

Joined == /\ client = "open" /\ "Relay" \in cp
          /\ remote = "open" /\ "Relay" \in rp

Over == client = "closed" /\ remote = "closed"

(* Two channels that were joined end together, whichever ends first. *)
EndTogether ==
  [](Joined => [](client = "closed" \/ remote = "closed" => <>Over))
=============================================================================
