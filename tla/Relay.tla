------------------------------- MODULE Relay --------------------------------
(***************************************************************************)
(* What tun2socks promises about one TCP connection of an app, with no     *)
(* word on buffers, callbacks or jobs: bytes go both ways in order, a      *)
(* bounded number of them is under way, and an end that goes away takes    *)
(* the other one with it only when nothing is left to hand over.           *)
(* TcpClient is shown to implement it.                                     *)
(***************************************************************************)
EXTENDS Integers

CONSTANTS
  UpRoom,     \* up bytes that may be under way
  DownRoom,   \* down bytes that may be sent to the app and not acknowledged
  Chunk       \* down bytes that may be fetched ahead

VARIABLES
  app,        \* the app's end: "idle", "open", or how it ended
  socks,      \* the SOCKS end: "idle", "connecting", "up" or "over"
  upIn,       \* up bytes taken from the app
  upOut,      \* up bytes given to SOCKS
  dnIn,       \* down bytes fetched from SOCKS
  dnOut,      \* down bytes sent to the app
  dnAck       \* down bytes the app has acknowledged

vars == <<app, socks, upIn, upOut, dnIn, dnOut, dnAck>>

Ended == {"closed", "aborted", "gone"}

Init ==
  /\ app = "idle" /\ socks = "idle"
  /\ upIn = 0 /\ upOut = 0
  /\ dnIn = 0 /\ dnOut = 0 /\ dnAck = 0

(* An end of the app's side ends SOCKS too unless up bytes are under way. *)
SocksFollows == socks' = IF upIn = upOut THEN "over" ELSE socks

Open ==
  /\ app = "idle"
  /\ \/ app' = "open" /\ socks' = "connecting"
     \/ app' = "gone" /\ socks' = "over"
  /\ UNCHANGED <<upIn, upOut, dnIn, dnOut, dnAck>>

Connected ==
  /\ socks = "connecting"
  /\ socks' = "up"
  /\ UNCHANGED <<app, upIn, upOut, dnIn, dnOut, dnAck>>

(* Nothing is taken from the app that could not be given to SOCKS. *)
Take ==
  /\ app = "open" /\ socks # "over"
  /\ upIn' > upIn /\ upIn' - upOut <= UpRoom
  /\ UNCHANGED <<app, socks, upOut, dnIn, dnOut, dnAck>>

(* SOCKS ends with the last byte of an app that has ended. *)
Give ==
  /\ socks = "up"
  /\ upOut' > upOut /\ upOut' <= upIn
  /\ socks' = IF app # "open" /\ upOut' = upIn THEN "over" ELSE "up"
  /\ UNCHANGED <<app, upIn, dnIn, dnOut, dnAck>>

(* What was fetched is sent on as far as there is room; with memory or the *)
(* network against it the app is aborted.                                  *)
SendOn ==
  /\ dnOut' >= dnOut /\ dnOut' <= dnIn' /\ dnOut' - dnAck' <= DownRoom
  /\ \/ UNCHANGED <<app, socks>>
     \/ app' = "aborted" /\ SocksFollows

(* Nothing more is fetched before the last fetch has been sent on. *)
Fetch ==
  /\ app = "open" /\ socks = "up" /\ dnIn = dnOut
  /\ dnIn' > dnIn /\ dnIn' - dnIn <= Chunk
  /\ dnAck' = dnAck
  /\ SendOn
  /\ UNCHANGED <<upIn, upOut>>

(* A fetch that was under way when the app ended. *)
FetchInVain ==
  /\ app \in Ended /\ socks = "up"
  /\ dnIn' > dnIn /\ dnIn' - dnIn <= Chunk
  /\ UNCHANGED <<app, socks, upIn, upOut, dnOut, dnAck>>

(* The app's end is closed with the last acknowledgement after SOCKS has   *)
(* ended, or aborted when closing fails.                                   *)
Acknowledge ==
  /\ app = "open"
  /\ dnAck' > dnAck /\ dnAck' <= dnOut
  /\ dnIn' = dnIn
  /\ IF socks = "over" /\ dnAck' = dnIn
     THEN app' \in {"closed", "aborted"} /\ UNCHANGED <<socks, dnOut>>
     ELSE SendOn
  /\ UNCHANGED <<upIn, upOut>>

AppEnds ==
  /\ app = "open"
  /\ app' \in Ended /\ SocksFollows
  /\ UNCHANGED <<upIn, upOut, dnIn, dnOut, dnAck>>

(* SOCKS fails or ends: the app is kept while it has bytes to acknowledge. *)
SocksEnds ==
  /\ socks \in {"connecting", "up"}
  /\ socks' = "over"
  /\ IF app = "open" /\ dnAck = dnIn THEN app' \in {"closed", "aborted"}
     ELSE app' = app
  /\ UNCHANGED <<upIn, upOut, dnIn, dnOut, dnAck>>

Quit ==
  /\ app # "idle"
  /\ app' = IF app = "open" THEN "aborted" ELSE app
  /\ socks' = "over"
  /\ UNCHANGED <<upIn, upOut, dnIn, dnOut, dnAck>>

Next ==
  \/ Open \/ Connected \/ AppEnds \/ SocksEnds \/ Quit
  \/ Take \/ Give \/ Fetch \/ FetchInVain \/ Acknowledge

Spec == Init /\ [][Next]_vars
=============================================================================
