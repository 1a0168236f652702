------------------------------ MODULE Terminal ------------------------------
(***************************************************************************)
(* A terminal window: src/pty.rs.                                          *)
(*                                                                         *)
(* Between the browser's websocket and the pty there are a loop that       *)
(* writes what is typed (the handler), a thread that reads what the shell  *)
(* prints, a bounded queue and a task that sends it on (the pump).  The    *)
(* handler ends when the browser has gone; it then kills and reaps the     *)
(* shell and aborts the pump.  When the shell ends first, the reader meets *)
(* the end of the pty, the queue closes behind it, the pump closes the     *)
(* websocket, and the browser's answer to that ends the handler.           *)
(*                                                                         *)
(* What is typed and what is printed are chunks, numbered in order.  The   *)
(* kernel's buffers are bounded: a write to a program that does not read   *)
(* blocks.  A job the shell leaves in the background keeps the pty open    *)
(* when the shell has gone.  Left out are resizes, which change nothing    *)
(* modelled here, and a setup that fails before there is anything to run.  *)
(***************************************************************************)
EXTENDS Naturals, Sequences

CONSTANTS
    Chunks,     \* how much is typed, and how much is printed, at most
    PtyRoom,    \* chunks a direction of the pty holds
    QueueRoom   \* chunks the queue holds

ASSUME TerminalAssumption == Chunks \in Nat /\ PtyRoom \in Nat /\ QueueRoom \in Nat

VARIABLES
    window,     \* the browser's end
    typed,      \* chunks typed so far
    inbox,      \* typed and not yet taken by the handler
    handler,    \* run's loop over the browser's messages
    keys,       \* chunks the shell has not read yet
    shell,
    background, \* a job in the background has the pty open
    printed,    \* chunks printed so far
    output,     \* printed and not yet read
    reader,     \* the thread, and the chunk in its hand
    queue,
    pump,
    screen,     \* chunks the browser has received
    farewell    \* the pump has closed the websocket

browserVars == <<window, typed, inbox, screen>>
shellVars == <<keys, shell, background, printed, output>>
readVars == <<reader, queue, pump, farewell>>
terminalVars == <<browserVars, handler, shellVars, readVars>>

Nothing == 0
Reading == [at |-> "reading", chunk |-> Nothing]
Finished == [at |-> "ended", chunk |-> Nothing]

TerminalInit ==
    /\ window = "unopened"
    /\ typed = 0 /\ inbox = <<>> /\ screen = <<>>
    /\ handler = "none"
    /\ keys = <<>> /\ shell = "none" /\ background = FALSE /\ printed = 0 /\ output = <<>>
    /\ reader = Finished /\ queue = <<>> /\ pump = "none" /\ farewell = FALSE

\* The websocket is accepted and everything is started.
OpenTerminal ==
    /\ window = "unopened" /\ window' = "open"
    /\ handler' = "waiting" /\ shell' = "running"
    /\ reader' = Reading /\ pump' = "running"
    /\ UNCHANGED <<typed, inbox, screen, keys, background, printed, output, queue, farewell>>

\* Somebody is at the other side of the pty.
Held == shell = "running" \/ background

-----------------------------------------------------------------------------
(* The browser. *)

Type ==
    /\ window = "open" /\ typed < Chunks
    /\ typed' = typed + 1
    /\ inbox' = Append(inbox, typed')
    /\ UNCHANGED <<window, screen, handler, shellVars, readVars>>

\* The window is closed, or the connection is lost with what was in flight.
LeaveTerminal ==
    /\ window = "open"
    /\ window' = "left"
    /\ \E n \in (IF handler = "writing" THEN 1 ELSE 0)..Len(inbox) :
          inbox' = SubSeq(inbox, 1, n)
    /\ UNCHANGED <<typed, screen, handler, shellVars, readVars>>

\* The browser answers a close.
AnswerFarewell ==
    /\ window = "open" /\ farewell
    /\ window' = "left"
    /\ UNCHANGED <<typed, inbox, screen, handler, shellVars, readVars>>

-----------------------------------------------------------------------------
(* The handler. *)

Take ==
    /\ handler = "waiting" /\ inbox # <<>>
    /\ handler' = "writing"
    /\ UNCHANGED <<browserVars, shellVars, readVars>>

\* write_all on a blocking thread, which the handler waits for.  What cannot
\* be written to a pty that nobody has open is dropped.
Write ==
    /\ handler = "writing"
    /\ Held => Len(keys) < PtyRoom
    /\ keys' = IF Held THEN Append(keys, Head(inbox)) ELSE keys
    /\ inbox' = Tail(inbox)
    /\ handler' = "waiting"
    /\ UNCHANGED <<window, typed, screen, shell, background, printed, output, readVars>>

\* The stream of messages ends: a close frame, or an error.
SeeGone ==
    /\ handler = "waiting" /\ inbox = <<>> /\ window = "left"
    /\ handler' = "killing"
    /\ UNCHANGED <<browserVars, shellVars, readVars>>

\* child.kill and child.wait
KillShell ==
    /\ handler = "killing"
    /\ shell' = "reaped"
    /\ handler' = "aborting"
    /\ UNCHANGED <<browserVars, keys, background, printed, output, readVars>>

\* Mutant: the pump is not aborted.
NoAbort ==
    /\ handler = "aborting"
    /\ handler' = "ended"
    /\ UNCHANGED <<browserVars, shellVars, readVars>>

\* pump.abort: the queue has no receiver any more.
AbortPump ==
    /\ handler = "aborting"
    /\ handler' = "ended"
    /\ pump' = "ended" /\ queue' = <<>>
    /\ UNCHANGED <<browserVars, shellVars, reader, farewell>>

-----------------------------------------------------------------------------
(* The shell and its job, which read and print when they like. *)

ShellReads ==
    /\ Held /\ keys # <<>>
    /\ keys' = Tail(keys)
    /\ UNCHANGED <<browserVars, handler, shell, background, printed, output, readVars>>

ShellPrints ==
    /\ Held /\ printed < Chunks /\ Len(output) < PtyRoom
    /\ printed' = printed + 1
    /\ output' = Append(output, printed')
    /\ UNCHANGED <<browserVars, handler, keys, shell, background, readVars>>

ShellExits ==
    /\ shell = "running"
    /\ shell' = "exited"
    /\ UNCHANGED <<browserVars, handler, keys, background, printed, output, readVars>>

JobStarts ==
    /\ shell = "running" /\ ~background
    /\ background' = TRUE
    /\ UNCHANGED <<browserVars, handler, keys, shell, printed, output, readVars>>

JobEnds ==
    /\ background
    /\ background' = FALSE
    /\ UNCHANGED <<browserVars, handler, keys, shell, printed, output, readVars>>

-----------------------------------------------------------------------------
(* The way of the output. *)

ReadChunk ==
    /\ reader.at = "reading" /\ output # <<>>
    /\ reader' = [at |-> "sending", chunk |-> Head(output)]
    /\ output' = Tail(output)
    /\ UNCHANGED <<browserVars, handler, keys, shell, background, printed, queue, pump, farewell>>

\* blocking_send waits for room.
SendChunk ==
    /\ reader.at = "sending" /\ pump = "running" /\ Len(queue) < QueueRoom
    /\ queue' = Append(queue, reader.chunk)
    /\ reader' = Reading
    /\ UNCHANGED <<browserVars, handler, shellVars, pump, farewell>>

\* Mutant: the shell's end is the end of what it printed.
EndWithShell ==
    /\ \/ reader.at = "reading" /\ ~Held
       \/ reader.at = "sending" /\ pump = "ended"
    /\ reader' = Finished
    /\ UNCHANGED <<browserVars, handler, shellVars, queue, pump, farewell>>

\* The pty has ended, or there is nobody to send to.
EndReader ==
    /\ \/ reader.at = "reading" /\ output = <<>> /\ ~Held
       \/ reader.at = "sending" /\ pump = "ended"
    /\ reader' = Finished
    /\ UNCHANGED <<browserVars, handler, shellVars, queue, pump, farewell>>

ForwardChunk ==
    /\ pump = "running" /\ queue # <<>> /\ window = "open"
    /\ screen' = Append(screen, Head(queue))
    /\ queue' = Tail(queue)
    /\ UNCHANGED <<window, typed, inbox, handler, shellVars, reader, pump, farewell>>

\* A send to a browser that has gone fails, sooner or later or never.
ForwardFails ==
    /\ pump = "running" /\ queue # <<>> /\ window = "left"
    /\ pump' = "ended" /\ queue' = <<>>
    /\ UNCHANGED <<browserVars, handler, shellVars, reader, farewell>>

\* Mutant: the pump ends without a word.
NoClose ==
    /\ pump = "running" /\ queue = <<>> /\ reader.at = "ended"
    /\ pump' = "ended"
    /\ UNCHANGED <<browserVars, handler, shellVars, reader, queue, farewell>>

\* The queue is closed and empty: the pump says goodbye.
Farewell ==
    /\ pump = "running" /\ queue = <<>> /\ reader.at = "ended"
    /\ pump' = "ended" /\ farewell' = TRUE
    /\ UNCHANGED <<browserVars, handler, shellVars, reader, queue>>

-----------------------------------------------------------------------------
HandlerStep == Take \/ Write \/ SeeGone \/ KillShell \/ AbortPump
ReaderStep == ReadChunk \/ SendChunk \/ EndReader
PumpStep == ForwardChunk \/ Farewell

TerminalNext ==
    \/ OpenTerminal \/ Type \/ LeaveTerminal \/ AnswerFarewell
    \/ HandlerStep \/ ReaderStep \/ PumpStep \/ ForwardFails
    \/ ShellReads \/ ShellPrints \/ ShellExits \/ JobStarts \/ JobEnds

\* Tasks and threads are run, and a browser answers a close.  Nothing is asked
\* of the shell.
TerminalFairness ==
    /\ WF_terminalVars(HandlerStep)
    /\ WF_terminalVars(ReaderStep)
    /\ WF_terminalVars(PumpStep)
    /\ WF_terminalVars(AnswerFarewell)

TerminalSpec == TerminalInit /\ [][TerminalNext]_terminalVars /\ TerminalFairness

-----------------------------------------------------------------------------
Count(n) == [i \in 1..n |-> i]

\* What the reader has in its hand.
InHand == IF reader.at = "sending" THEN <<reader.chunk>> ELSE <<>>

TerminalTypeOK ==
    /\ window \in {"unopened", "open", "left"}
    /\ typed \in Nat /\ printed \in Nat
    /\ inbox \in Seq(Nat) /\ keys \in Seq(Nat)
    /\ output \in Seq(Nat) /\ queue \in Seq(Nat) /\ screen \in Seq(Nat)
    /\ handler \in {"none", "waiting", "writing", "killing", "aborting", "ended"}
    /\ shell \in {"none", "running", "exited", "reaped"} /\ background \in BOOLEAN
    /\ reader \in [at : {"reading", "sending", "ended"}, chunk : Nat]
    /\ pump \in {"none", "running", "ended"}
    /\ farewell \in BOOLEAN

\* While the pump runs, what was printed is on the screen or on its way, once
\* and in order: the queue is bounded and nothing is dropped at its limit.
NothingLost ==
    pump = "running" => screen \o queue \o InHand \o output = Count(printed)

\* A websocket that is closed because the shell has ended has carried all the
\* shell printed, the last words before its exit included.
LastWords == farewell => screen = Count(printed)

\* What a shell prints arrives whole, and is whole when the window is closed.
OutputKept == NothingLost /\ LastWords

\* A browser that leaves is noticed and its shell is killed and reaped, unless
\* the handler is stuck for good in a write to a program that does not read.
LeaverReaped ==
    [](window = "left" => <>(shell = "reaped" \/ [](handler = "writing")))

\* A shell that ends by itself ends the window and is reaped, unless it has left
\* a job behind that keeps the pty.
ExitReaped == [](shell = "exited" => <>(shell = "reaped" \/ []background))

\* Whoever goes first, the browser or the shell, no process is left behind.
ShellReaped == LeaverReaped /\ ExitReaped

\* No thread outlives its terminal, not even one blocked on a full queue, unless
\* a job in the background keeps the pty.
ThreadEnds == [](handler = "ended" => <>(reader.at = "ended" \/ []background))
=============================================================================
