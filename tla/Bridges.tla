------------------------------ MODULE Bridges ------------------------------
(***************************************************************************)
(* The host panels' cockpit-bridge processes: src/cockpit.rs, with_bridge, *)
(* bridge_for, evict and the client half of the bridge protocol.           *)
(*                                                                         *)
(* There is a table from session tokens to bridges, behind one mutex, and  *)
(* a mutex on each bridge.  A request looks its session up under the first *)
(* (opening a bridge while it holds it), waits for the second, and makes   *)
(* one or more calls, each on a channel of its own.  A bridge process      *)
(* lives as long as something refers to it: Drop kills it.                 *)
(*                                                                         *)
(* What is read from a bridge has a deadline.  What is written to it has   *)
(* none: its stdin is a pipe with room for so much, and a request that     *)
(* writes into a full one waits, with the bridge's mutex, until the bridge *)
(* reads or dies.                                                          *)
(*                                                                         *)
(* Every request is asked once.  The two kinds of frames a reader passes   *)
(* over, those of other channels and signals on its own, are one kind      *)
(* here, and the decoder of frames, the merging of metric rows and the     *)
(* checks of units and verbs are left out: they touch no shared state.     *)
(* The opening of a channel and the question on it are one message, and    *)
(* the greeting goes into an empty pipe and is not kept.                   *)
(***************************************************************************)
EXTENDS Naturals, Sequences, FiniteSets

CONSTANTS
    Key,       \* session tokens
    Request,
    Bridge,    \* places for bridge processes
    NoOne,
    Asked,     \* what may be asked: the session and the number of calls (one,
               \* two or three) of each request
    Room,      \* messages the pipe to a bridge holds
    Faults     \* subset of {"die", "deaf", "refuse", "idle"}

ASSUME BridgeAssumption ==
    /\ NoOne \notin Key \cup Request \cup Bridge
    /\ Asked \subseteq [Request -> [key : Key, calls : Nat \ {0}]]
    /\ Room \in Nat \ {0}

Question == Request \X Nat
Frame == [channel : Nat, about : Question]

\* What is written to a bridge: a question on a new channel, or the close of
\* one, which asks nothing.
Message == [channel : Nat, about : Question \cup {NoOne}]

VARIABLES
    table,       \* BRIDGES: the bridge of each session, or NoOne
    stale,       \* sessions whose entry nobody has touched for IDLE_MAX
    tableLock,   \* the request that holds the table's mutex
    bridge,      \* each bridge: its process, channel counter and both streams
    bridgeLock,  \* the request that holds each bridge's mutex
    request      \* each request: how far it is, what it holds and has read

vars == <<table, stale, tableLock, bridge, bridgeLock, request>>

\* The place of a bridge that is not there: no struct, and no process.
Vacant == [process |-> "none", next |-> 0, pipe |-> <<>>, asked |-> {},
           frames |-> <<>>]

\* A bridge as Bridge::open leaves it.
Opened == [Vacant EXCEPT !.process = "up"]

Init ==
    /\ table = [k \in Key |-> NoOne]
    /\ stale = {}
    /\ tableLock = NoOne
    /\ bridge = [b \in Bridge |-> Vacant]
    /\ bridgeLock = [b \in Bridge |-> NoOne]
    /\ \E asked \in Asked :
          request = [r \in Request |->
                        [pc |-> "new", key |-> asked[r].key, bridge |-> NoOne,
                         channel |-> 0, left |-> asked[r].calls, got |-> NoOne]]

-----------------------------------------------------------------------------
\* The bridges something refers to.  The rest are dropped, and Drop kills and
\* reaps the process: here, the place is vacant again.
Referred(tab, req) ==
    {tab[k] : k \in Key} \cup {req[r].bridge : r \in Request}

Drop(br, tab, req) ==
    [b \in Bridge |-> IF b \in Referred(tab, req) THEN br[b] ELSE Vacant]

\* The step to this table and these requests, with what it does to bridges.
Become(tab, req, br) ==
    /\ table' = tab
    /\ request' = req
    /\ bridge' = Drop(br, tab, req)

\* A bridge that runs, whether it still reads what is written to it or not.
Alive(b) == bridge[b].process \in {"up", "deaf"}

\* A bridge another request is busy with is taken to be alive.
Usable(b) == bridgeLock[b] # NoOne \/ Alive(b)

\* The sweep every lookup begins with.
Kept == {k \in Key : table[k] # NoOne /\ k \notin stale /\ Usable(table[k])}
Swept == [k \in Key |-> IF k \in Kept THEN table[k] ELSE NoOne]

Ask(r) ==
    /\ request[r].pc = "new"
    /\ request' = [request EXCEPT ![r].pc = "table"]
    /\ UNCHANGED <<table, stale, tableLock, bridge, bridgeLock>>

\* bridge_for, with a usable bridge in the table ...
Reuse(r) ==
    LET k == request[r].key
    IN  /\ request[r].pc = "table" /\ tableLock = NoOne
        /\ k \in Kept
        /\ Become(Swept,
                  [request EXCEPT ![r].pc = "lock", ![r].bridge = table[k]],
                  bridge)
        /\ stale' = {}
        /\ UNCHANGED <<tableLock, bridgeLock>>

\* The places that are vacant once the sweep is over, any of which will do.
Free == {b \in Bridge : Drop(bridge, Swept, request)[b].process = "none"}

\* ... and without one.  The table stays locked while the bridge is opened.
OpenFor(r) ==
    LET b == CHOOSE b \in Free : TRUE
    IN  /\ request[r].pc = "table" /\ tableLock = NoOne
        /\ request[r].key \notin Kept
        /\ Free # {}
        /\ Become(Swept,
                  [request EXCEPT ![r].pc = "opening", ![r].bridge = b],
                  [bridge EXCEPT ![b] = Opened])
        /\ stale' = {}
        /\ UNCHANGED bridgeLock

\* Mutant: the table is free while the bridge is opened.
SpawnUnlocked(r) == OpenFor(r) /\ UNCHANGED tableLock

Spawn(r) == OpenFor(r) /\ tableLock' = r

Greeted(r) ==
    /\ request[r].pc = "opening"
    /\ Alive(request[r].bridge)
    /\ Become([table EXCEPT ![request[r].key] = request[r].bridge],
              [request EXCEPT ![r].pc = "lock"], bridge)
    /\ tableLock' = NoOne
    /\ UNCHANGED <<stale, bridgeLock>>

\* The bridge refuses the session, or dies, or says nothing in time: the first
\* frame is waited for with a deadline.
OpenFails(r) ==
    /\ request[r].pc = "opening"
    /\ "refuse" \in Faults \/ bridge[request[r].bridge].process # "up"
    /\ Become(table, [request EXCEPT ![r].pc = "failed", ![r].bridge = NoOne],
              bridge)
    /\ tableLock' = NoOne
    /\ UNCHANGED <<stale, bridgeLock>>

-----------------------------------------------------------------------------
\* One request at a time on a bridge, for all of its calls.
Lock(r) ==
    LET b == request[r].bridge
    IN  /\ request[r].pc = "lock" /\ bridgeLock[b] = NoOne
        /\ bridgeLock' = [bridgeLock EXCEPT ![b] = r]
        /\ request' = [request EXCEPT ![r].pc = "calling"]
        /\ UNCHANGED <<table, stale, tableLock, bridge>>

\* Mutant: every call has the same channel.
SameChannel(b) == 1

\* alloc_channel
NextChannel(b) == bridge[b].next + 1

\* send, into a pipe with room.  Without room the caller waits: a write has no
\* deadline, and the caller keeps the bridge's lock.
HasRoom(b) == Len(bridge[b].pipe) < Room

\* open_channel and the question after it, in one stream.
Call(r) ==
    LET b == request[r].bridge
        frame == [channel |-> NextChannel(b), about |-> <<r, request[r].left>>]
    IN  /\ request[r].pc = "calling"
        /\ Alive(b) /\ HasRoom(b)
        /\ bridge' = [bridge EXCEPT ![b].next = NextChannel(b),
                                    ![b].pipe = Append(@, frame)]
        /\ request' = [request EXCEPT ![r].pc = "reading",
                                      ![r].channel = NextChannel(b)]
        /\ UNCHANGED <<table, stale, tableLock, bridgeLock>>

\* The bridge reads a message.  On a channel that is closed it owes nothing.
Take(b) ==
    /\ bridge[b].process = "up" /\ bridge[b].pipe # <<>>
    /\ LET message == Head(bridge[b].pipe)
       IN  bridge' = [bridge EXCEPT
               ![b].pipe = Tail(@),
               ![b].asked = IF message.about = NoOne
                            THEN {frame \in @ : frame.channel # message.channel}
                            ELSE @ \cup {message}]
    /\ UNCHANGED <<table, stale, tableLock, bridgeLock, request>>

\* The bridge answers what it was asked in any order, and late.
Answer(b) ==
    /\ Alive(b)
    /\ \E frame \in bridge[b].asked :
          bridge' = [bridge EXCEPT ![b].asked = @ \ {frame},
                                   ![b].frames = Append(@, frame)]
    /\ UNCHANGED <<table, stale, tableLock, bridgeLock, request>>

\* A frame of a channel that is not the one being read.
Skip(r) ==
    LET b == request[r].bridge
    IN  /\ request[r].pc = "reading"
        /\ bridge[b].frames # <<>>
        /\ Head(bridge[b].frames).channel # request[r].channel
        /\ bridge' = [bridge EXCEPT ![b].frames = Tail(@)]
        /\ UNCHANGED <<table, stale, tableLock, bridgeLock, request>>

\* The reply.  The channel is closed next, and then the next call is made or
\* the request is answered.
Receive(r) ==
    LET b == request[r].bridge
    IN  /\ request[r].pc = "reading"
        /\ bridge[b].frames # <<>>
        /\ Head(bridge[b].frames).channel = request[r].channel
        /\ request' = [request EXCEPT ![r].pc = "closing",
                                      ![r].left = @ - 1,
                                      ![r].got = Head(bridge[b].frames).about]
        /\ bridge' = [bridge EXCEPT ![b].frames = Tail(@)]
        /\ UNCHANGED <<table, stale, tableLock, bridgeLock>>

\* Mutant: a reply is waited for as long as the bridge lives.
CanFailOnlyDead(r) ==
    request[r].pc = "reading" /\ bridge[request[r].bridge].process = "dead"

\* A reply is not waited for any longer: the stream ends, the channel is
\* refused or the deadline passes.
CanFail(r) == request[r].pc = "reading"

GiveUp(r) ==
    /\ CanFail(r)
    /\ request' = [request EXCEPT ![r].pc = "giving up"]
    /\ UNCHANGED <<table, stale, tableLock, bridge, bridgeLock>>

\* How a request goes on after a call that failed.  It looks whether the bridge
\* is dead, lets go of its lock, and only then goes to the table to evict it.
Failed(r) ==
    LET given == [request EXCEPT ![r].channel = 0]
    IN  IF bridge[request[r].bridge].process = "dead"
        THEN [given EXCEPT ![r].pc = "evicting"]
        ELSE [given EXCEPT ![r].pc = "failed", ![r].bridge = NoOne]

\* And after one that was answered: with the next call, or it is done.
Heard(r) ==
    LET heard == [request EXCEPT ![r].channel = 0]
    IN  IF request[r].left > 0
        THEN [heard EXCEPT ![r].pc = "calling"]
        ELSE [heard EXCEPT ![r].pc = "answered", ![r].bridge = NoOne]

\* close_channel, whose own failure is ignored, and what comes after it.
Close(r) ==
    LET b == request[r].bridge
        closed == [channel |-> request[r].channel, about |-> NoOne]
        after == IF request[r].pc = "closing" THEN Heard(r) ELSE Failed(r)
    IN  /\ request[r].pc \in {"closing", "giving up"}
        /\ \/ /\ bridge[b].process = "dead"
              /\ Become(table, after, bridge)
           \/ /\ Alive(b) /\ HasRoom(b)
              /\ Become(table, after, [bridge EXCEPT ![b].pipe = Append(@, closed)])
        /\ bridgeLock' = [bridgeLock EXCEPT ![b] =
                             IF after[r].pc = "calling" THEN r ELSE NoOne]
        /\ UNCHANGED <<stale, tableLock>>

\* The question cannot be written: nothing reads that stream any more.
CallFails(r) ==
    LET b == request[r].bridge
    IN  /\ request[r].pc = "calling" /\ bridge[b].process = "dead"
        /\ Become(table, Failed(r), bridge)
        /\ bridgeLock' = [bridgeLock EXCEPT ![b] = NoOne]
        /\ UNCHANGED <<stale, tableLock>>

Evict(r) ==
    /\ request[r].pc = "evicting" /\ tableLock = NoOne
    /\ Become([table EXCEPT ![request[r].key] = NoOne],
              [request EXCEPT ![r].pc = "failed", ![r].bridge = NoOne],
              bridge)
    /\ stale' = stale \ {request[r].key}
    /\ UNCHANGED <<tableLock, bridgeLock>>

-----------------------------------------------------------------------------
\* A bridge dies: it is killed, its session ends, or it writes to a stream that
\* nobody reads any more because it was out of step.
Die(b) ==
    /\ "die" \in Faults
    /\ Alive(b)
    /\ bridge' = [bridge EXCEPT ![b].process = "dead", ![b].pipe = <<>>,
                                ![b].asked = {}]
    /\ UNCHANGED <<table, stale, tableLock, bridgeLock, request>>

\* A bridge lives on and no longer reads what is written to it.
GoDeaf(b) ==
    /\ "deaf" \in Faults
    /\ bridge[b].process = "up"
    /\ bridge' = [bridge EXCEPT ![b].process = "deaf"]
    /\ UNCHANGED <<table, stale, tableLock, bridgeLock, request>>

\* The request with the bridge's lock waits to write to a bridge that does not
\* read, and so does, for the lock, everybody else who has that bridge.
Blocked(b) ==
    /\ bridge[b].process = "deaf" /\ ~HasRoom(b)
    /\ \E r \in Request :
          /\ bridgeLock[b] = r
          /\ request[r].pc \in {"calling", "closing", "giving up"}

Waits(r) == request[r].bridge # NoOne /\ Blocked(request[r].bridge)

\* Half an hour passes without a new request of this session: those it has wait
\* for a bridge that does not read, the rest end within a minute.
Idle(k) ==
    /\ "idle" \in Faults
    /\ table[k] # NoOne /\ k \notin stale
    /\ \A r \in Request :
          request[r].key = k =>
              request[r].pc \in {"new", "answered", "failed"} \/ Waits(r)
    /\ stale' = stale \cup {k}
    /\ UNCHANGED <<table, tableLock, bridge, bridgeLock, request>>

\* The panels are not asked again, and whoever waits for such a bridge waits on.
Rest ==
    /\ \A r \in Request : request[r].pc \in {"answered", "failed"} \/ Waits(r)
    /\ UNCHANGED vars

Work(r) ==
    \/ Reuse(r) \/ Spawn(r) \/ Greeted(r) \/ OpenFails(r)
    \/ Lock(r) \/ Call(r) \/ Skip(r) \/ Receive(r) \/ GiveUp(r)
    \/ Close(r) \/ CallFails(r) \/ Evict(r)

Next ==
    \/ \E r \in Request : Ask(r) \/ Work(r)
    \/ \E b \in Bridge : Take(b) \/ Answer(b) \/ Die(b) \/ GoDeaf(b)
    \/ \E k \in Key : Idle(k)
    \/ Rest

Spec == Init /\ [][Next]_vars

\* Blocking tasks are run, locks are let go of, and deadlines pass.  A bridge
\* that is not deaf reads what is written to it.
FairSpec ==
    /\ Spec
    /\ \A r \in Request : WF_vars(Work(r))
    /\ \A b \in Bridge : WF_vars(Take(b))

-----------------------------------------------------------------------------
TypeOK ==
    /\ table \in [Key -> Bridge \cup {NoOne}]
    /\ stale \subseteq Key
    /\ tableLock \in Request \cup {NoOne}
    /\ bridge \in [Bridge -> [process : {"none", "up", "deaf", "dead"}, next : Nat,
                              pipe : Seq(Message), asked : SUBSET Frame,
                              frames : Seq(Frame)]]
    /\ bridgeLock \in [Bridge -> Request \cup {NoOne}]
    /\ request \in [Request -> [pc : {"new", "table", "opening", "lock", "calling",
                                      "reading", "closing", "giving up", "evicting",
                                      "answered", "failed"},
                                key : Key, bridge : Bridge \cup {NoOne},
                                channel : Nat, left : Nat,
                                got : Question \cup {NoOne}]]

\* What a request reads as its answer is the answer to its own question, even
\* on a bridge that still owes answers to requests that gave up on it.
OwnAnswer ==
    \A r \in Request :
        request[r].got # NoOne => request[r].got = <<r, request[r].left + 1>>

\* The bridges at work that requests of a session are on, or will find.
LiveBridges(k) ==
    {b \in Bridge :
        /\ bridge[b].process = "up"
        /\ \/ table[k] = b
           \/ \E r \in Request : request[r].key = k /\ request[r].bridge = b}

\* A session has one bridge: "the only thing stopping two requests from one
\* session racing into two bridges" is the table's lock (cockpit.rs:576-578).
OneBridge == \A k \in Key : Cardinality(LiveBridges(k)) <= 1

\* A bridge that died is evicted by a request that no longer holds its lock, and
\* what it evicts may be the bridge another request has opened since.  Until a
\* request of the session has come that far, it has one bridge at work.
OneUntilEvicted ==
    \A k \in Key :
        (\A r \in Request :
            request[r].key = k => request[r].pc \notin {"evicting", "failed"})
        => Cardinality(LiveBridges(k)) <= 1

\* Every request ends, whatever other bridges and other requests do, save one:
\* a request whose own bridge lives, has a full stdin and does not read it waits
\* for as long as that lasts, and so do those behind it (cockpit.rs:427-433).
Answered ==
    \A r \in Request :
        request[r].pc = "table" ~>
            (request[r].pc \in {"answered", "failed"} \/ []Waits(r))
=============================================================================
