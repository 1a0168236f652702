------------------------------- MODULE Relay --------------------------------
(***************************************************************************)
(* The picture of a streamed application: ws_rfb and pump of src/rfb.rs.   *)
(*                                                                         *)
(* The socket of the application is opened before the websocket is, so an  *)
(* application that does not run is an answer and not a window.  Then one  *)
(* task writes what the browser sends and another sends what the server    *)
(* draws; the first of them to end takes the other with it.                *)
(*                                                                         *)
(* Bytes are numbered in order.  Each of the browser's messages carries    *)
(* one byte, or is a ping, or text, which no RFB client sends; a read of   *)
(* the socket returns any part of what is there.  Both sockets have room   *)
(* for so much, and a write waits for it.                                  *)
(***************************************************************************)
EXTENDS Naturals, SequencesExt

CONSTANTS
    Bytes,      \* how much either end sends, at most
    SocketRoom  \* what a socket holds of it, in one direction

ASSUME RelayAssumption == Bytes \in Nat /\ SocketRoom \in Nat

VARIABLES
    viewer,     \* the browser's end of the websocket
    sent,       \* bytes the browser has sent
    upward,     \* messages to the relay
    downward,   \* frames to the browser
    seen,       \* bytes the browser has received
    toApp,      \* the task that writes to the server
    toBrowser,  \* the task that reads from it
    frame,      \* what the latter is sending
    server,     \* the RFB server
    keyed,      \* bytes in its socket
    obeyed,     \* bytes it has read
    drawn,      \* bytes it has written
    picture,    \* those that are in the socket
    goodbye     \* the browser has been told that the picture has ended

viewerVars == <<viewer, sent, seen>>
taskVars == <<toApp, toBrowser, frame>>
serverVars == <<server, obeyed, drawn>>
relayVars == <<viewerVars, upward, downward, taskVars, serverVars, keyed, picture, goodbye>>

Ping == [kind |-> "ping", byte |-> 0]
Text == [kind |-> "text", byte |-> 0]

Binary(b) == [kind |-> "binary", byte |-> b]

RelayInit ==
    /\ viewer = "unopened" /\ sent = 0 /\ seen = <<>>
    /\ upward = <<>> /\ downward = <<>>
    /\ toApp = "none" /\ toBrowser = "none" /\ frame = <<>>
    /\ server = "serving"
    /\ keyed = <<>> /\ obeyed = <<>> /\ drawn = 0 /\ picture = <<>>
    /\ goodbye = FALSE

\* The socket is connected to, and only then the websocket accepted.
OpenRelay ==
    /\ viewer = "unopened"
    /\ IF server = "serving"
       THEN viewer' = "open" /\ toApp' = "reading" /\ toBrowser' = "reading"
       ELSE viewer' = "refused" /\ UNCHANGED <<toApp, toBrowser>>
    /\ UNCHANGED <<sent, seen, upward, downward, frame, serverVars, keyed, picture, goodbye>>

-----------------------------------------------------------------------------
(* The browser. *)

Send ==
    /\ viewer = "open" /\ Len(upward) < SocketRoom
    /\ \/ sent < Bytes /\ sent' = sent + 1 /\ upward' = Append(upward, Binary(sent'))
       \/ UNCHANGED sent /\ \E m \in {Ping, Text} : upward' = Append(upward, m)
    /\ UNCHANGED <<viewer, seen, downward, taskVars, serverVars, keyed, picture, goodbye>>

See ==
    /\ viewer = "open" /\ downward # <<>>
    /\ seen' = seen \o Head(downward)
    /\ downward' = Tail(downward)
    /\ UNCHANGED <<viewer, sent, upward, taskVars, serverVars, keyed, picture, goodbye>>

\* The window is closed, or the connection is lost.
LeaveRelay ==
    /\ viewer = "open"
    /\ viewer' = "left"
    /\ UNCHANGED <<sent, seen, upward, downward, taskVars, serverVars, keyed, picture, goodbye>>

-----------------------------------------------------------------------------
(* The task to_app. *)

\* Mutant: a ping is written on as if it were the browser's.
RelayPing ==
    /\ toApp = "reading" /\ upward # <<>>
    /\ toApp' = IF Head(upward) = Text THEN "ended" ELSE "writing"
    /\ UNCHANGED <<viewerVars, upward, downward, toBrowser, frame, serverVars, keyed, picture, goodbye>>

TakeMessage ==
    /\ toApp = "reading" /\ upward # <<>>
    /\ CASE Head(upward) = Text -> toApp' = "ended" /\ UNCHANGED upward
         [] Head(upward) = Ping -> upward' = Tail(upward) /\ UNCHANGED toApp
         [] OTHER -> toApp' = "writing" /\ UNCHANGED upward
    /\ UNCHANGED <<viewerVars, downward, toBrowser, frame, serverVars, keyed, picture, goodbye>>

\* A close frame, or the end of the connection.
SeeViewerGone ==
    /\ toApp = "reading" /\ upward = <<>> /\ viewer = "left"
    /\ toApp' = "ended"
    /\ UNCHANGED <<viewerVars, upward, downward, toBrowser, frame, serverVars, keyed, picture,
                   goodbye>>

WriteOn ==
    /\ toApp = "writing"
    /\ \/ /\ server = "serving" /\ Len(keyed) < SocketRoom
          /\ keyed' = Append(keyed, Head(upward).byte)
          /\ toApp' = "reading"
       \/ /\ server = "gone"
          /\ toApp' = "ended" /\ UNCHANGED keyed
    /\ upward' = Tail(upward)
    /\ UNCHANGED <<viewerVars, downward, toBrowser, frame, serverVars, picture, goodbye>>

-----------------------------------------------------------------------------
(* The task to_browser. *)

ReadPicture ==
    /\ toBrowser = "reading"
    /\ \E n \in 1..Len(picture) :
          /\ frame' = SubSeq(picture, 1, n)
          /\ picture' = SubSeq(picture, n + 1, Len(picture))
    /\ toBrowser' = "sending"
    /\ UNCHANGED <<viewerVars, upward, downward, toApp, serverVars, keyed, goodbye>>

SeeServerGone ==
    /\ toBrowser = "reading" /\ picture = <<>> /\ server = "gone"
    /\ toBrowser' = "closing"
    /\ UNCHANGED <<viewerVars, upward, downward, toApp, frame, serverVars, keyed, picture, goodbye>>

SendOn ==
    /\ toBrowser = "sending"
    /\ \/ /\ viewer = "open" /\ Len(downward) < SocketRoom
          /\ downward' = Append(downward, frame)
          /\ toBrowser' = "reading"
       \/ /\ viewer = "left"
          /\ toBrowser' = "closing" /\ UNCHANGED downward
    /\ frame' = <<>>
    /\ UNCHANGED <<viewerVars, upward, toApp, serverVars, keyed, picture, goodbye>>

\* Mutant: the socket is dropped without a word.
HangUp ==
    /\ toBrowser = "closing"
    /\ toBrowser' = "ended"
    /\ UNCHANGED <<viewerVars, upward, downward, toApp, frame, serverVars, keyed, picture, goodbye>>

SayGoodbye ==
    /\ toBrowser = "closing"
    /\ toBrowser' = "ended"
    /\ goodbye' = TRUE
    /\ UNCHANGED <<viewerVars, upward, downward, toApp, frame, serverVars, keyed, picture>>

-----------------------------------------------------------------------------
(* select!, and what is dropped with the tasks. *)

Over == toApp = "dropped" /\ toBrowser = "dropped"

\* Mutant: only the end of the picture ends the window.
WaitForPicture ==
    /\ toBrowser = "ended"
    /\ toApp' = "dropped" /\ toBrowser' = "dropped"
    /\ frame' = <<>> /\ picture' = <<>>
    /\ UNCHANGED <<viewerVars, upward, downward, serverVars, keyed, goodbye>>

\* The survivor is aborted wherever it is, and both sockets are closed.
Select ==
    /\ toApp = "ended" \/ toBrowser = "ended"
    /\ toApp' = "dropped" /\ toBrowser' = "dropped"
    /\ frame' = <<>> /\ picture' = <<>>
    /\ UNCHANGED <<viewerVars, upward, downward, serverVars, keyed, goodbye>>

-----------------------------------------------------------------------------
(* The server. *)

Obey ==
    /\ server = "serving" /\ keyed # <<>>
    /\ obeyed' = Append(obeyed, Head(keyed))
    /\ keyed' = Tail(keyed)
    /\ UNCHANGED <<viewerVars, upward, downward, taskVars, server, drawn, picture, goodbye>>

Draw ==
    /\ server = "serving" /\ drawn < Bytes /\ Len(picture) < SocketRoom
    /\ viewer \in {"open", "left"} /\ ~Over
    /\ drawn' = drawn + 1
    /\ picture' = Append(picture, drawn')
    /\ UNCHANGED <<viewerVars, upward, downward, taskVars, server, keyed, obeyed, goodbye>>

\* The application quits, or the session ends.
ServerGoes ==
    /\ server = "serving"
    /\ server' = "gone"
    /\ UNCHANGED <<viewerVars, upward, downward, taskVars, keyed, obeyed, drawn, picture, goodbye>>

-----------------------------------------------------------------------------
ToApp == TakeMessage \/ SeeViewerGone \/ WriteOn
ToBrowser == ReadPicture \/ SeeServerGone \/ SendOn \/ SayGoodbye

RelayNext ==
    \/ OpenRelay \/ Send \/ See \/ LeaveRelay
    \/ ToApp \/ ToBrowser \/ Select
    \/ Obey \/ Draw \/ ServerGoes

\* Tasks are run, and whoever is at an end of the relay reads what arrives.
RelayFairness ==
    /\ WF_relayVars(ToApp) /\ WF_relayVars(ToBrowser) /\ WF_relayVars(Select)
    /\ WF_relayVars(See) /\ WF_relayVars(Obey)

RelaySpec == RelayInit /\ [][RelayNext]_relayVars /\ RelayFairness

-----------------------------------------------------------------------------
UpTo(n) == [i \in 1..n |-> i]

RelayTypeOK ==
    /\ viewer \in {"unopened", "refused", "open", "left"}
    /\ sent \in Nat /\ drawn \in Nat
    /\ upward \in Seq([kind : {"ping", "text", "binary"}, byte : Nat]) /\ downward \in Seq(Seq(Nat))
    /\ seen \in Seq(Nat) /\ frame \in Seq(Nat)
    /\ keyed \in Seq(Nat) /\ obeyed \in Seq(Nat) /\ picture \in Seq(Nat)
    /\ toApp \in {"none", "reading", "writing", "ended", "dropped"}
    /\ toBrowser \in {"none", "reading", "sending", "closing", "ended", "dropped"}
    /\ server \in {"serving", "gone"}
    /\ goodbye \in BOOLEAN

\* The server reads what the browser sent, in order, and nothing of the
\* websocket's own (rfb.rs:244-249): a protocol without framing would never
\* get back into step.
KeysInOrder == obeyed \o keyed = UpTo(Len(obeyed \o keyed))

\* While the picture is relayed, what the server drew is seen or on its way, in
\* order and without a gap, however it was cut into reads and frames.
PictureInOrder ==
    toBrowser \in {"reading", "sending"} =>
        seen \o FlattenSeq(downward) \o frame \o picture = UpTo(drawn)

\* The relay is transparent in both directions.
InOrder == KeysInOrder /\ PictureInOrder

\* Whichever end goes, both tasks end: no half of a window is left behind for
\* the life of the daemon (rfb.rs:276-279).
RelayEnds ==
    [](viewer = "left" \/ (viewer = "open" /\ server = "gone") => <>Over)

\* A window whose picture ends is told so (rfb.rs:267-269), if it is not sending
\* at the time: a write that fails first takes the goodbye with it.
Told ==
    [](viewer = "open" /\ server = "gone" /\ toApp = "reading" =>
          <>(goodbye \/ viewer = "left" \/ upward # <<>>))
=============================================================================
