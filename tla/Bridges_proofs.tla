--------------------------- MODULE Bridges_proofs ---------------------------
(***************************************************************************)
(* Proofs about Bridges, for any number of sessions, requests and bridges, *)
(* any number of calls to a request and any room in a pipe: every answer   *)
(* is the answer to its own question, and a session has one bridge at work *)
(* until a request of it evicts one that died, and for good if bridges do  *)
(* not die.                                                                *)
(*                                                                         *)
(* The first rests on BridgeInv: channels are numbered upwards, so what    *)
(* carries the number a request is reading is about its question, however  *)
(* many late answers to others are on the bridge.  The second rests on     *)
(* Settled: a bridge that a request holds is the one in the table, or no   *)
(* longer works, or is being opened with the table locked.                 *)
(***************************************************************************)
EXTENDS Bridges, FiniteSetTheorems, TLAPS

BridgeState == [process : {"none", "up", "deaf", "dead"}, next : Nat,
                pipe : Seq(Message), asked : SUBSET Frame, frames : Seq(Frame)]

RequestState == [pc : {"new", "table", "opening", "lock", "calling", "reading",
                       "closing", "giving up", "evicting", "answered", "failed"},
                 key : Key, bridge : Bridge \cup {NoOne}, channel : Nat,
                 left : Nat, got : Question \cup {NoOne}]

Using == {"lock", "calling", "reading", "closing", "giving up"}
Busy == {"opening", "evicting"} \cup Using

(* A request that has a bridge is at work with it, and the bridge is there. *)
Holding ==
    \A r \in Request : request[r].bridge # NoOne <=> request[r].pc \in Busy

There ==
    \A b \in Bridge : b \in Referred(table, request) => bridge[b].process # "none"

(* A request that has no answer to its last call has a call to make. *)
Counting ==
    \A r \in Request :
        request[r].pc \notin {"answered", "closing"} => request[r].left >= 1

(* The questions on a bridge: written, asked, or in a frame not read yet.   *)
Written(st) == {st.pipe[i] : i \in {j \in 1..Len(st.pipe) : st.pipe[j].about # NoOne}}
Read(st) == {st.frames[i] : i \in 1..Len(st.frames)}
Talk(st) == Written(st) \cup st.asked \cup Read(st)

(* None is numbered higher than the bridge has counted. *)
Upto(st) == \A m \in Talk(st) : m.channel <= st.next

(* Those numbered c are about q. *)
About(st, c, q) == c <= st.next /\ \A m \in Talk(st) : m.channel = c => m.about = q

(* A bridge after a step: what is new on it has a new number. *)
Grown(st, new) ==
    /\ new.next >= st.next
    /\ \A m \in Talk(new) : m \in Talk(st) \/ m.channel > st.next

Numbered == \A b \in Bridge : Upto(bridge[b])

Reading ==
    \A r \in Request :
        request[r].pc = "reading" =>
            About(bridge[request[r].bridge], request[r].channel, <<r, request[r].left>>)

BridgeInv ==
    TypeOK /\ There /\ Holding /\ Counting /\ Numbered /\ Reading /\ OwnAnswer

LEMMA InvTyped ==
    ASSUME BridgeInv
    PROVE  bridge \in [Bridge -> BridgeState] /\ request \in [Request -> RequestState]
  BY DEF BridgeInv, TypeOK, BridgeState, RequestState

LEMMA VacantIsClean ==
    /\ Vacant \in BridgeState /\ Opened \in BridgeState
    /\ Upto(Vacant) /\ Upto(Opened)
    /\ Vacant.process = "none" /\ Opened.process = "up"
<1>1. Vacant \in BridgeState /\ Opened \in BridgeState
  <2>1. Opened = [process |-> "up", next |-> 0, pipe |-> <<>>, asked |-> {},
                  frames |-> <<>>]
    BY DEF Vacant, Opened
  <2>2. /\ {} \in SUBSET Frame /\ <<>> \in Seq(Frame) /\ <<>> \in Seq(Message)
        /\ 0 \in Nat
    OBVIOUS
  <2> QED BY <2>1, <2>2 DEF Vacant, BridgeState
<1>2. /\ Vacant.asked = {} /\ Opened.asked = {}
      /\ Vacant.frames = <<>> /\ Opened.frames = <<>>
      /\ Vacant.pipe = <<>> /\ Opened.pipe = <<>>
  BY DEF Vacant, Opened
<1>3. Upto(Vacant) /\ Upto(Opened)
  BY <1>2 DEF Upto, Talk, Written, Read
<1> QED BY <1>1, <1>3 DEF Vacant, Opened

(* What the streams of a bridge are made of. *)
LEMMA TalkTyped ==
    ASSUME NEW st \in BridgeState
    PROVE  /\ st.pipe \in Seq(Message) /\ st.frames \in Seq(Frame)
           /\ st.asked \in SUBSET Frame /\ st.next \in Nat
           /\ Talk(st) \subseteq Frame
           /\ \A m \in Talk(st) : m.channel \in Nat
<1>1. /\ st.pipe \in Seq(Message) /\ st.frames \in Seq(Frame)
      /\ st.asked \in SUBSET Frame /\ st.next \in Nat
  BY DEF BridgeState
<1>2. \A m \in Message : m.about # NoOne => m \in Frame
  BY DEF Message, Frame
<1>3. /\ \A i \in 1..Len(st.pipe) : st.pipe[i] \in Message
      /\ \A i \in 1..Len(st.frames) : st.frames[i] \in Frame
  BY <1>1
<1>4. Talk(st) \subseteq Frame
  BY <1>1, <1>2, <1>3 DEF Talk, Written, Read
<1>5. \A m \in Frame : m.channel \in Nat
  BY DEF Frame
<1> QED BY <1>1, <1>4, <1>5

(* A message that is written, and one that is read: nothing is lost or made. *)
LEMMA PipeLonger ==
    ASSUME NEW st \in BridgeState, NEW m \in Message, NEW new \in BridgeState,
           new.pipe = Append(st.pipe, m), new.asked = st.asked, new.frames = st.frames
    PROVE  \A t \in Talk(new) : t \in Talk(st) \/ (t = m /\ m.about # NoOne)
<1>1. st.pipe \in Seq(Message)
  BY TalkTyped
<1>2. \A i \in 1..Len(new.pipe) :
        \/ i \in 1..Len(st.pipe) /\ new.pipe[i] = st.pipe[i]
        \/ new.pipe[i] = m
  BY <1>1
<1>3. \A t \in Written(new) : t \in Written(st) \/ (t = m /\ m.about # NoOne)
  BY <1>2 DEF Written
<1> QED BY <1>3 DEF Talk, Read

LEMMA PipeShorter ==
    ASSUME NEW st \in BridgeState, NEW new \in BridgeState, st.pipe # <<>>,
           new.pipe = Tail(st.pipe), new.frames = st.frames,
           \A f \in new.asked :
               f \in st.asked \/ (f = Head(st.pipe) /\ Head(st.pipe).about # NoOne)
    PROVE  Talk(new) \subseteq Talk(st)
<1>1. st.pipe \in Seq(Message)
  BY TalkTyped
<1>2. \A i \in 1..Len(new.pipe) :
        i + 1 \in 1..Len(st.pipe) /\ new.pipe[i] = st.pipe[i + 1]
  BY <1>1
<1>3. Written(new) \subseteq Written(st)
  BY <1>2 DEF Written
<1>4. 1 \in 1..Len(st.pipe) /\ Head(st.pipe) = st.pipe[1]
  BY <1>1
<1>5. new.asked \subseteq st.asked \cup Written(st)
  BY <1>4 DEF Written
<1> QED BY <1>3, <1>5 DEF Talk, Read

(* Answers, and frames that are taken. *)
LEMMA FramesMoved ==
    ASSUME NEW st \in BridgeState, NEW new \in BridgeState, new.pipe = st.pipe,
           new.asked \subseteq st.asked,
           \/ new.frames = st.frames
           \/ st.frames # <<>> /\ new.frames = Tail(st.frames)
           \/ \E f \in st.asked : new.frames = Append(st.frames, f)
    PROVE  Talk(new) \subseteq Talk(st)
<1>1. st.frames \in Seq(Frame)
  BY TalkTyped
<1>2. Read(new) \subseteq Read(st) \cup st.asked
  <2>1. CASE new.frames = st.frames
    BY <2>1 DEF Read
  <2>2. CASE st.frames # <<>> /\ new.frames = Tail(st.frames)
    <3>1. \A i \in 1..Len(new.frames) :
            i + 1 \in 1..Len(st.frames) /\ new.frames[i] = st.frames[i + 1]
      BY <1>1, <2>2
    <3> QED BY <3>1 DEF Read
  <2>3. CASE \E f \in st.asked : new.frames = Append(st.frames, f)
    <3>1. PICK f \in st.asked : new.frames = Append(st.frames, f)
      BY <2>3
    <3>2. \A i \in 1..Len(new.frames) :
            \/ new.frames[i] = f
            \/ i \in 1..Len(st.frames) /\ new.frames[i] = st.frames[i]
      BY <1>1, <3>1
    <3> QED BY <3>2 DEF Read
  <2> QED BY <2>1, <2>2, <2>3
<1>3. Written(new) = Written(st)
  BY DEF Written
<1> QED BY <1>2, <1>3 DEF Talk

LEMMA AboutKept ==
    ASSUME NEW st \in BridgeState, NEW new \in BridgeState, Grown(st, new),
           NEW c \in Nat, NEW q, About(st, c, q)
    PROVE  About(new, c, q)
<1>1. st.next \in Nat /\ new.next \in Nat /\ c <= st.next /\ new.next >= st.next
  BY TalkTyped DEF About, Grown
<1>2. \A m \in Talk(new) : m.channel \in Nat
  BY TalkTyped
<1> QED BY <1>1, <1>2 DEF About, Grown

LEMMA UptoKept ==
    ASSUME NEW st \in BridgeState, NEW new \in BridgeState, Upto(st),
           new.next >= st.next, Talk(new) \subseteq Talk(st)
    PROVE  Upto(new) /\ Grown(st, new)
<1>1. /\ st.next \in Nat /\ new.next \in Nat
      /\ \A m \in Talk(new) : m.channel \in Nat
  BY TalkTyped
<1> QED BY <1>1 DEF Upto, Grown

(* A request's bridge is one that is there. *)
LEMMA Mine ==
    ASSUME BridgeInv, NEW r \in Request, request[r].pc \in Busy
    PROVE  /\ request[r].bridge \in Bridge
           /\ bridge[request[r].bridge].process # "none"
           /\ bridge[request[r].bridge] \in BridgeState
<1>1. request[r].bridge # NoOne /\ request[r].bridge \in Bridge
  BY DEF BridgeInv, Holding, TypeOK
<1>2. request[r].bridge \in Referred(table, request)
  BY DEF Referred
<1>3. bridge[request[r].bridge].process # "none"
  BY <1>1, <1>2 DEF BridgeInv, There
<1> QED BY <1>1, <1>3, InvTyped

(* The part of the invariant that is about the bridges survives Become when  *)
(* what is referred to is there, nobody starts to read, and nothing is said  *)
(* on the bridges that are read from.                                        *)
LEMMA QuietStep ==
    ASSUME BridgeInv, NEW tab, NEW req, NEW br \in [Bridge -> BridgeState],
           Become(tab, req, br),
           tab \in [Key -> Bridge \cup {NoOne}],
           \A b \in Bridge : b \in Referred(tab, req) => br[b].process # "none",
           \A b \in Bridge : Upto(br[b]),
           \A r \in Request : req[r].pc = "reading" =>
               /\ req[r] = request[r]
               /\ Grown(bridge[request[r].bridge], br[request[r].bridge])
    PROVE  /\ bridge' \in [Bridge -> BridgeState]
           /\ table' = tab /\ request' = req
           /\ There' /\ Numbered' /\ Reading'
<1>1. table' = tab /\ request' = req /\ bridge' = Drop(br, tab, req)
  BY DEF Become
<1>2. Referred(table, request)' = Referred(tab, req)
  BY <1>1 DEF Referred
<1>3. \A b \in Bridge :
        bridge'[b] = IF b \in Referred(tab, req) THEN br[b] ELSE Vacant
  BY <1>1 DEF Drop
<1>4. bridge' \in [Bridge -> BridgeState]
  BY <1>1, VacantIsClean DEF Drop
<1>5. There'
  BY <1>2, <1>3 DEF There
<1>6. Numbered'
  <2> SUFFICES ASSUME NEW b \in Bridge PROVE Upto(bridge'[b])
    BY DEF Numbered, Upto, Talk, Written, Read
  <2>1. CASE b \in Referred(tab, req)
    BY <1>3, <2>1
  <2>2. CASE b \notin Referred(tab, req)
    BY <1>3, <2>2, VacantIsClean
  <2> QED BY <2>1, <2>2
<1>7. Reading'
  <2> SUFFICES ASSUME NEW r \in Request, request'[r].pc = "reading"
               PROVE  About(bridge'[request'[r].bridge], request'[r].channel,
                            <<r, request'[r].left>>)
    BY DEF Reading, About, Talk, Written, Read
  <2>1. /\ request'[r] = request[r] /\ request[r].pc \in Busy
        /\ Grown(bridge[request[r].bridge], br[request[r].bridge])
    BY <1>1 DEF Busy, Using
  <2>2. request[r].bridge \in Bridge /\ bridge[request[r].bridge] \in BridgeState
    BY <2>1, Mine
  <2>3. bridge'[request[r].bridge] = br[request[r].bridge]
    <3>1. request[r].bridge \in Referred(tab, req)
      BY <1>1, <2>1 DEF Referred
    <3> QED BY <1>3, <2>2, <3>1
  <2>4. About(bridge[request[r].bridge], request[r].channel, <<r, request[r].left>>)
    BY <2>1 DEF BridgeInv, Reading
  <2>5. request[r].channel \in Nat /\ br[request[r].bridge] \in BridgeState
    BY <2>2, InvTyped DEF RequestState
  <2>6. About(br[request[r].bridge], request[r].channel, <<r, request[r].left>>)
    BY <2>1, <2>2, <2>4, <2>5, AboutKept
  <2> QED BY <2>1, <2>3, <2>6
<1> QED BY <1>1, <1>4, <1>5, <1>6, <1>7

(* A bridge that does not change says nothing. *)
LEMMA Silent ==
    ASSUME BridgeInv, NEW b \in Bridge
    PROVE  Upto(bridge[b]) /\ Grown(bridge[b], bridge[b])
<1>1. bridge[b] \in BridgeState /\ Upto(bridge[b])
  BY InvTyped DEF BridgeInv, Numbered
<1>2. bridge[b].next >= bridge[b].next
  BY <1>1, TalkTyped
<1> QED BY <1>1, <1>2, UptoKept

LEMMA InitInv == Init => BridgeInv
<1> SUFFICES ASSUME Init PROVE BridgeInv
  OBVIOUS
<1>1. PICK asked \in Asked :
        request = [r \in Request |->
                      [pc |-> "new", key |-> asked[r].key, bridge |-> NoOne,
                       channel |-> 0, left |-> asked[r].calls, got |-> NoOne]]
  BY DEF Init
<1>2. asked \in [Request -> [key : Key, calls : Nat \ {0}]]
  BY BridgeAssumption
<1>3. \A r \in Request : /\ asked[r].key \in Key /\ asked[r].calls \in Nat
                         /\ asked[r].calls >= 1
  BY <1>2
<1>4. request \in [Request -> RequestState]
  BY <1>1, <1>3 DEF RequestState
<1>5. TypeOK
  <2>1. /\ bridge \in [Bridge -> BridgeState] /\ tableLock = NoOne /\ stale = {}
        /\ table \in [Key -> Bridge \cup {NoOne}]
        /\ bridgeLock \in [Bridge -> Request \cup {NoOne}]
    BY VacantIsClean DEF Init
  <2> QED BY <1>4, <2>1 DEF TypeOK, BridgeState, RequestState
<1>6. Holding /\ Counting /\ OwnAnswer
  <2>1. \A r \in Request : /\ request[r].pc = "new" /\ request[r].bridge = NoOne
                           /\ request[r].left >= 1 /\ request[r].got = NoOne
    BY <1>1, <1>3
  <2>2. \A r \in Request : request[r].pc \notin Busy
    BY <2>1 DEF Busy, Using
  <2>4. Holding
    BY <2>1, <2>2 DEF Holding
  <2>3. Counting /\ OwnAnswer
    BY <2>1 DEF Counting, OwnAnswer
  <2> QED BY <2>3, <2>4
<1>7. There
  BY <1>1, BridgeAssumption DEF Init, There, Referred
<1>8. Numbered /\ Reading
  BY <1>1, VacantIsClean DEF Init, Numbered, Reading
<1> QED BY <1>5, <1>6, <1>7, <1>8 DEF BridgeInv

LEMMA ReuseStep ==
    ASSUME BridgeInv, NEW r \in Request, Reuse(r)
    PROVE  BridgeInv'
<1> DEFINE req == [request EXCEPT ![r].pc = "lock", ![r].bridge = table[request[r].key]]
<1>1. request[r].key \in Key /\ table[request[r].key] \in Bridge
  BY DEF BridgeInv, TypeOK, Reuse, Kept
<1>2. Swept \in [Key -> Bridge \cup {NoOne}]
  BY DEF BridgeInv, TypeOK, Swept
<1>3. \A b \in Bridge : b \in Referred(Swept, req) => b \in Referred(table, request)
  BY <1>1, BridgeAssumption DEF Referred, Swept, BridgeInv, TypeOK
<1>4. /\ bridge' \in [Bridge -> BridgeState]
      /\ table' = Swept /\ request' = req
      /\ There' /\ Numbered' /\ Reading'
  <2>1. \A q \in Request : req[q].pc = "reading" =>
          /\ req[q] = request[q]
          /\ Grown(bridge[request[q].bridge], bridge[request[q].bridge])
    <3> TAKE q \in Request
    <3> HAVE req[q].pc = "reading"
    <3>1. req[q] = request[q]
      BY InvTyped DEF RequestState
    <3>2. request[q].bridge \in Bridge
      BY <3>1, Mine DEF Busy, Using
    <3> QED BY <3>1, <3>2, Silent
  <2>2. \A b \in Bridge : Upto(bridge[b])
    BY Silent
  <2>3. Become(Swept, req, bridge)
    BY DEF Reuse
  <2>4. \A b \in Bridge : b \in Referred(Swept, req) => bridge[b].process # "none"
    BY <1>3 DEF BridgeInv, There
  <2> HIDE DEF req
  <2> QED BY <1>2, <2>1, <2>2, <2>3, <2>4, InvTyped, QuietStep
<1>5. TypeOK'
  BY <1>1, <1>2, <1>4 DEF BridgeInv, TypeOK, Reuse, BridgeState
<1>6. Holding' /\ Counting' /\ OwnAnswer'
  <2>1. /\ request'[r].pc = "lock" /\ request'[r].bridge # NoOne
        /\ request'[r].left = request[r].left /\ request'[r].got = request[r].got
        /\ request[r].pc = "table"
        /\ \A q \in Request : q # r => request'[q] = request[q]
    BY <1>1, <1>4, InvTyped, BridgeAssumption DEF RequestState, Reuse
  <2> QED BY <2>1 DEF BridgeInv, Holding, Counting, OwnAnswer, Busy, Using
<1> QED BY <1>4, <1>5, <1>6 DEF BridgeInv

(* A place that is free belongs to no request and to nobody in the table.   *)
LEMMA FreeIsNobodys ==
    ASSUME BridgeInv, NEW b \in Free
    PROVE  /\ b \in Bridge
           /\ \A q \in Request : request[q].bridge # b
           /\ \A k \in Key : Swept[k] # b
<1>1. b \in Bridge /\ Drop(bridge, Swept, request)[b].process = "none"
  BY DEF Free
<1>2. b \in Referred(Swept, request) => bridge[b].process = "none"
  BY <1>1 DEF Drop
<1>3. b \in Referred(Swept, request) => b \in Referred(table, request)
  BY <1>1, BridgeAssumption DEF Referred, Swept
<1>4. b \notin Referred(Swept, request)
  BY <1>1, <1>2, <1>3 DEF BridgeInv, There
<1> QED BY <1>1, <1>4 DEF Referred

LEMMA SpawnStep ==
    ASSUME BridgeInv, NEW r \in Request, Spawn(r)
    PROVE  BridgeInv'
<1> DEFINE b == CHOOSE c \in Free : TRUE
           req == [request EXCEPT ![r].pc = "opening", ![r].bridge = b]
           br == [bridge EXCEPT ![b] = Opened]
<1>1. Become(Swept, req, br) /\ b \in Free
  BY DEF Spawn, OpenFor
<1> HIDE DEF b
<1>2. Swept \in [Key -> Bridge \cup {NoOne}]
  BY DEF BridgeInv, TypeOK, Swept
<1>3. /\ b \in Bridge
      /\ \A q \in Request : request[q].bridge # b
      /\ \A k \in Key : Swept[k] # b
  BY <1>1, FreeIsNobodys
<1>4. br \in [Bridge -> BridgeState] /\ br[b] = Opened
      /\ \A c \in Bridge \ {b} : br[c] = bridge[c]
  BY <1>3, InvTyped, VacantIsClean
<1>5. \A c \in Bridge : c \in Referred(Swept, req) => c = b \/ c \in Referred(table, request)
  BY BridgeAssumption DEF Referred, Swept, BridgeInv, TypeOK
<1>6. /\ bridge' \in [Bridge -> BridgeState]
      /\ table' = Swept /\ request' = req
      /\ There' /\ Numbered' /\ Reading'
  <2>1. \A q \in Request : req[q].pc = "reading" =>
          /\ req[q] = request[q]
          /\ Grown(bridge[request[q].bridge], br[request[q].bridge])
    <3> TAKE q \in Request
    <3> HAVE req[q].pc = "reading"
    <3>1. req[q] = request[q]
      BY InvTyped DEF RequestState
    <3>2. request[q].bridge \in Bridge
      BY <3>1, Mine DEF Busy, Using
    <3>3. br[request[q].bridge] = bridge[request[q].bridge]
      BY <1>3, <1>4, <3>2
    <3> QED BY <3>1, <3>2, <3>3, Silent
  <2>2. \A c \in Bridge : Upto(br[c])
    BY <1>4, VacantIsClean, Silent
  <2>3. \A c \in Bridge : c \in Referred(Swept, req) => br[c].process # "none"
    BY <1>4, <1>5, VacantIsClean DEF BridgeInv, There
  <2> HIDE DEF req, br
  <2> QED BY <1>1, <1>2, <1>4, <2>1, <2>2, <2>3, QuietStep
<1>7. TypeOK'
  <2>1. req \in [Request -> RequestState]
    BY <1>3, InvTyped DEF RequestState
  <2>2. tableLock' = r /\ stale' = {} /\ bridgeLock' = bridgeLock
    BY DEF Spawn, OpenFor
  <2> HIDE DEF req, br
  <2> QED BY <1>2, <1>6, <2>1, <2>2 DEF BridgeInv, TypeOK, BridgeState, RequestState
<1>8. request[r].pc = "table"
  BY DEF Spawn, OpenFor
<1>9. Holding' /\ Counting' /\ OwnAnswer'
  BY <1>3, <1>6, <1>8, BridgeAssumption
  DEF BridgeInv, TypeOK, Holding, Counting, OwnAnswer, Busy, Using
<1> QED BY <1>6, <1>7, <1>9 DEF BridgeInv

LEMMA GreetedStep ==
    ASSUME BridgeInv, NEW r \in Request, Greeted(r)
    PROVE  BridgeInv'
<1> DEFINE tab == [table EXCEPT ![request[r].key] = request[r].bridge]
           req == [request EXCEPT ![r].pc = "lock"]
<1>1. request[r].key \in Key /\ request[r].bridge \in Bridge
  BY Mine DEF BridgeInv, TypeOK, Greeted, Busy
<1>2. tab \in [Key -> Bridge \cup {NoOne}]
  BY <1>1 DEF BridgeInv, TypeOK
<1>3. \A b \in Bridge : b \in Referred(tab, req) => b \in Referred(table, request)
  BY <1>1 DEF Referred, BridgeInv, TypeOK
<1>4. /\ bridge' \in [Bridge -> BridgeState]
      /\ table' = tab /\ request' = req
      /\ There' /\ Numbered' /\ Reading'
  <2>1. \A q \in Request : req[q].pc = "reading" =>
          /\ req[q] = request[q]
          /\ Grown(bridge[request[q].bridge], bridge[request[q].bridge])
    <3> TAKE q \in Request
    <3> HAVE req[q].pc = "reading"
    <3>1. req[q] = request[q]
      BY InvTyped DEF RequestState
    <3>2. request[q].bridge \in Bridge
      BY <3>1, Mine DEF Busy, Using
    <3> QED BY <3>1, <3>2, Silent
  <2>2. \A b \in Bridge : Upto(bridge[b])
    BY Silent
  <2>3. Become(tab, req, bridge)
    BY DEF Greeted
  <2>4. \A b \in Bridge : b \in Referred(tab, req) => bridge[b].process # "none"
    BY <1>3 DEF BridgeInv, There
  <2> HIDE DEF tab, req
  <2> QED BY <1>2, <2>1, <2>2, <2>3, <2>4, InvTyped, QuietStep
<1>5. TypeOK'
  <2>1. request' \in [Request -> RequestState]
    BY <1>4 DEF BridgeInv, TypeOK, RequestState
  <2>2. tableLock' = NoOne /\ stale' = stale /\ bridgeLock' = bridgeLock
    BY DEF Greeted
  <2> QED BY <1>2, <1>4, <2>1, <2>2 DEF BridgeInv, TypeOK, BridgeState, RequestState
<1>6. request[r].pc = "opening"
  BY DEF Greeted
<1>7. Holding' /\ Counting' /\ OwnAnswer'
  BY <1>1, <1>4, <1>6
  DEF BridgeInv, TypeOK, Holding, Counting, OwnAnswer, Busy, Using
<1> QED BY <1>4, <1>5, <1>7 DEF BridgeInv

(* A request that leaves its bridge, goes on with it or is about to evict    *)
(* it.  What it has written last, if anything, asks nothing.                 *)
LEMMA LeavingStep ==
    ASSUME BridgeInv, NEW r \in Request, request[r].pc \in Busy,
           NEW tab \in {table, [table EXCEPT ![request[r].key] = NoOne]},
           NEW req \in [Request -> RequestState],
           NEW br \in [Bridge -> BridgeState],
           Become(tab, req, br),
           \A q \in Request : q # r => req[q] = request[q],
           /\ req[r].left = request[r].left /\ req[r].got = request[r].got
           /\ req[r].key = request[r].key
           /\ req[r].left >= 1 \/ req[r].pc = "answered"
           /\ \/ req[r].pc \in {"failed", "answered"} /\ req[r].bridge = NoOne
              \/ req[r].pc \in {"calling", "evicting"}
                 /\ req[r].bridge = request[r].bridge,
           \A b \in Bridge :
               /\ br[b].process = bridge[b].process /\ br[b].next = bridge[b].next
               /\ Talk(br[b]) \subseteq Talk(bridge[b]),
           stale' \in SUBSET Key, tableLock' \in Request \cup {NoOne},
           bridgeLock' \in [Bridge -> Request \cup {NoOne}]
    PROVE  BridgeInv'
<1>1. request[r].key \in Key /\ request[r].bridge # NoOne
  BY DEF BridgeInv, TypeOK, Holding
<1>2. tab \in [Key -> Bridge \cup {NoOne}]
  BY <1>1 DEF BridgeInv, TypeOK
<1>3. \A b \in Bridge : Upto(br[b]) /\ Grown(bridge[b], br[b])
  <2> TAKE b \in Bridge
  <2>1. /\ bridge[b] \in BridgeState /\ br[b] \in BridgeState /\ Upto(bridge[b])
        /\ bridge[b].next \in Nat /\ br[b].next = bridge[b].next
        /\ Talk(br[b]) \subseteq Talk(bridge[b])
    BY Silent, InvTyped, TalkTyped
  <2>2. br[b].next >= bridge[b].next
    BY <2>1
  <2> QED BY <2>1, <2>2, UptoKept
<1>4. \A b \in Bridge : b \in Referred(tab, req) => b \in Referred(table, request)
  <2> SUFFICES ASSUME NEW b \in Bridge, b \in Referred(tab, req)
               PROVE  b \in Referred(table, request)
    OBVIOUS
  <2>1. CASE \E k \in Key : b = tab[k]
    <3>1. PICK k \in Key : b = tab[k]
      BY <2>1
    <3>2. tab[k] = table[k] \/ tab[k] = NoOne
      BY <1>1 DEF BridgeInv, TypeOK
    <3> QED BY <3>1, <3>2, BridgeAssumption DEF Referred
  <2>2. CASE \E q \in Request : b = req[q].bridge
    BY <2>2, BridgeAssumption DEF Referred
  <2> QED BY <2>1, <2>2 DEF Referred
<1>5. /\ bridge' \in [Bridge -> BridgeState]
      /\ table' = tab /\ request' = req
      /\ There' /\ Numbered' /\ Reading'
  <2>1. \A q \in Request : req[q].pc = "reading" =>
          /\ req[q] = request[q]
          /\ Grown(bridge[request[q].bridge], br[request[q].bridge])
    <3> TAKE q \in Request
    <3> HAVE req[q].pc = "reading"
    <3>1. req[q] = request[q]
      OBVIOUS
    <3>2. request[q].bridge \in Bridge
      BY <3>1, Mine DEF Busy, Using
    <3> QED BY <1>3, <3>1, <3>2
  <2>2. \A b \in Bridge : b \in Referred(tab, req) => br[b].process # "none"
    BY <1>4 DEF BridgeInv, There
  <2> QED BY <1>2, <1>3, <2>1, <2>2, QuietStep
<1>6. TypeOK'
  BY <1>2, <1>5 DEF TypeOK, BridgeState, RequestState
<1>7. Holding'
  <2>1. \A q \in Request : q # r =>
          request'[q].bridge # NoOne <=> request'[q].pc \in Busy
    BY <1>5 DEF BridgeInv, Holding
  <2>2. request'[r].bridge # NoOne <=> request'[r].pc \in Busy
    <3>1. CASE request'[r].pc \in {"failed", "answered"} /\ request'[r].bridge = NoOne
      BY <3>1 DEF Busy, Using
    <3>2. CASE request'[r].pc \in {"calling", "evicting"}
               /\ request'[r].bridge = request[r].bridge
      BY <1>1, <3>2 DEF Busy, Using
    <3> QED BY <1>5, <3>1, <3>2
  <2> QED BY <2>1, <2>2 DEF Holding
<1>8. Counting'
  BY <1>5 DEF BridgeInv, Counting
<1>9. OwnAnswer'
  BY <1>5 DEF BridgeInv, OwnAnswer
<1> QED BY <1>5, <1>6, <1>7, <1>8, <1>9 DEF BridgeInv

LEMMA Unchanged ==
    ASSUME BridgeInv
    PROVE  \A b \in Bridge :
               /\ bridge[b].process = bridge[b].process /\ bridge[b].next = bridge[b].next
               /\ Talk(bridge[b]) \subseteq Talk(bridge[b])
  OBVIOUS

LEMMA OpenFailsStep ==
    ASSUME BridgeInv, NEW r \in Request, OpenFails(r)
    PROVE  BridgeInv'
<1> DEFINE req == [request EXCEPT ![r].pc = "failed", ![r].bridge = NoOne]
<1>1. /\ Become(table, req, bridge) /\ request[r].pc = "opening"
      /\ stale' = stale /\ tableLock' = NoOne /\ bridgeLock' = bridgeLock
  BY DEF OpenFails
<1>2. request[r].left >= 1
  BY <1>1 DEF BridgeInv, Counting
<1>3. /\ req \in [Request -> RequestState]
      /\ \A q \in Request : q # r => req[q] = request[q]
      /\ req[r].left = request[r].left /\ req[r].got = request[r].got
      /\ req[r].key = request[r].key
      /\ req[r].pc = "failed" /\ req[r].bridge = NoOne
  BY InvTyped DEF RequestState
<1>4. /\ stale' \in SUBSET Key /\ tableLock' \in Request \cup {NoOne}
      /\ bridgeLock' \in [Bridge -> Request \cup {NoOne}]
  BY <1>1 DEF BridgeInv, TypeOK
<1> HIDE DEF req
<1> QED BY <1>1, <1>2, <1>3, <1>4, InvTyped, LeavingStep DEF Busy

LEMMA EvictStep ==
    ASSUME BridgeInv, NEW r \in Request, Evict(r)
    PROVE  BridgeInv'
<1> DEFINE tab == [table EXCEPT ![request[r].key] = NoOne]
           req == [request EXCEPT ![r].pc = "failed", ![r].bridge = NoOne]
<1>1. /\ Become(tab, req, bridge) /\ request[r].pc = "evicting"
      /\ stale' = stale \ {request[r].key}
      /\ tableLock' = tableLock /\ bridgeLock' = bridgeLock
  BY DEF Evict
<1>2. request[r].left >= 1
  BY <1>1 DEF BridgeInv, Counting
<1>3. /\ req \in [Request -> RequestState]
      /\ \A q \in Request : q # r => req[q] = request[q]
      /\ req[r].left = request[r].left /\ req[r].got = request[r].got
      /\ req[r].key = request[r].key
      /\ req[r].pc = "failed" /\ req[r].bridge = NoOne
  BY InvTyped DEF RequestState
<1>4. /\ stale' \in SUBSET Key /\ tableLock' \in Request \cup {NoOne}
      /\ bridgeLock' \in [Bridge -> Request \cup {NoOne}]
  BY <1>1 DEF BridgeInv, TypeOK
<1> HIDE DEF req
<1> QED BY <1>1, <1>2, <1>3, <1>4, InvTyped, LeavingStep DEF Busy

(* What becomes of a request whose call failed, and of one that was heard.   *)
LEMMA FailedIs ==
    ASSUME BridgeInv, NEW r \in Request, request[r].pc \in {"calling", "giving up"}
    PROVE  /\ Failed(r) \in [Request -> RequestState]
           /\ \A q \in Request : q # r => Failed(r)[q] = request[q]
           /\ Failed(r)[r].left = request[r].left /\ Failed(r)[r].got = request[r].got
           /\ Failed(r)[r].key = request[r].key /\ request[r].left >= 1
           /\ \/ Failed(r)[r].pc = "failed" /\ Failed(r)[r].bridge = NoOne
              \/ /\ Failed(r)[r].pc = "evicting"
                 /\ Failed(r)[r].bridge = request[r].bridge
                 /\ bridge[request[r].bridge].process = "dead"
<1>1. request \in [Request -> RequestState] /\ request[r].left >= 1
  BY InvTyped DEF BridgeInv, Counting
<1>2. CASE bridge[request[r].bridge].process = "dead"
  BY <1>1, <1>2 DEF Failed, RequestState
<1>3. CASE bridge[request[r].bridge].process # "dead"
  BY <1>1, <1>3 DEF Failed, RequestState
<1> QED BY <1>2, <1>3

LEMMA HeardIs ==
    ASSUME BridgeInv, NEW r \in Request
    PROVE  /\ Heard(r) \in [Request -> RequestState]
           /\ \A q \in Request : q # r => Heard(r)[q] = request[q]
           /\ Heard(r)[r].left = request[r].left /\ Heard(r)[r].got = request[r].got
           /\ Heard(r)[r].key = request[r].key
           /\ \/ Heard(r)[r].pc = "answered" /\ Heard(r)[r].bridge = NoOne
              \/ /\ Heard(r)[r].pc = "calling" /\ request[r].left >= 1
                 /\ Heard(r)[r].bridge = request[r].bridge
<1>1. request \in [Request -> RequestState] /\ request[r].left \in Nat
  BY InvTyped DEF RequestState
<1>2. CASE request[r].left > 0
  <2>1. Heard(r) = [request EXCEPT ![r].channel = 0, ![r].pc = "calling"]
    BY <1>2 DEF Heard
  <2>2. request[r].left >= 1
    BY <1>1, <1>2
  <2>3. /\ Heard(r) \in [Request -> RequestState]
        /\ \A q \in Request : q # r => Heard(r)[q] = request[q]
    BY <1>1, <1>2 DEF Heard, RequestState
  <2>4. Heard(r)[r] = [request[r] EXCEPT !.channel = 0, !.pc = "calling"]
    BY <1>1, <2>1
  <2>5. request[r] \in RequestState
    BY <1>1
  <2>6. /\ Heard(r)[r].left = request[r].left /\ Heard(r)[r].got = request[r].got
        /\ Heard(r)[r].key = request[r].key /\ Heard(r)[r].pc = "calling"
        /\ Heard(r)[r].bridge = request[r].bridge
    BY <2>4, <2>5 DEF RequestState
  <2> QED BY <2>2, <2>3, <2>6
<1>3. CASE ~(request[r].left > 0)
  <2>1. Heard(r) = [request EXCEPT ![r].channel = 0, ![r].pc = "answered",
                                   ![r].bridge = NoOne]
    BY <1>3 DEF Heard
  <2>2. /\ Heard(r) \in [Request -> RequestState]
        /\ \A q \in Request : q # r => Heard(r)[q] = request[q]
    BY <1>1, <1>3 DEF Heard, RequestState
  <2>3. Heard(r)[r] = [request[r] EXCEPT !.channel = 0, !.pc = "answered",
                                         !.bridge = NoOne]
    BY <1>1, <2>1
  <2>4. request[r] \in RequestState
    BY <1>1
  <2>5. /\ Heard(r)[r].left = request[r].left /\ Heard(r)[r].got = request[r].got
        /\ Heard(r)[r].key = request[r].key /\ Heard(r)[r].pc = "answered"
        /\ Heard(r)[r].bridge = NoOne
    BY <2>3, <2>4 DEF RequestState
  <2> QED BY <2>2, <2>5
<1> QED BY <1>2, <1>3

LEMMA CallFailsStep ==
    ASSUME BridgeInv, NEW r \in Request, CallFails(r)
    PROVE  BridgeInv'
<1>1. /\ Become(table, Failed(r), bridge) /\ request[r].pc = "calling"
      /\ UNCHANGED <<stale, tableLock>>
  BY DEF CallFails
<1>2. bridgeLock' \in [Bridge -> Request \cup {NoOne}]
  BY DEF CallFails, BridgeInv, TypeOK
<1>3. stale' \in SUBSET Key /\ tableLock' \in Request \cup {NoOne}
  BY <1>1 DEF BridgeInv, TypeOK
<1> QED BY <1>1, <1>2, <1>3, FailedIs, InvTyped, LeavingStep DEF Busy, Using

(* The close of a channel: it takes room in the pipe, and asks nothing.      *)
LEMMA CloseWritten ==
    ASSUME BridgeInv, NEW b \in Bridge, NEW c \in Nat, NEW br,
           br = [bridge EXCEPT ![b].pipe =
                    Append(@, [channel |-> c, about |-> NoOne])]
    PROVE  /\ br \in [Bridge -> BridgeState]
           /\ \A d \in Bridge :
               /\ br[d].process = bridge[d].process /\ br[d].next = bridge[d].next
               /\ Talk(br[d]) \subseteq Talk(bridge[d])
<1> DEFINE m == [channel |-> c, about |-> NoOne]
           longer == Append(bridge[b].pipe, m)
           new == [bridge[b] EXCEPT !.pipe = longer]
<1>1. bridge[b] \in BridgeState /\ bridge \in [Bridge -> BridgeState]
  BY InvTyped
<1>2. m \in Message
  BY DEF Message
<1>3. longer \in Seq(Message)
  BY <1>1, <1>2, TalkTyped
<1>4. br = [bridge EXCEPT ![b] = new]
  BY <1>1
<1> HIDE DEF longer
<1>5. /\ new \in BridgeState
      /\ new.pipe = longer /\ new.asked = bridge[b].asked
      /\ new.frames = bridge[b].frames /\ new.next = bridge[b].next
      /\ new.process = bridge[b].process
  BY <1>1, <1>3 DEF BridgeState
<1>6. m.about = NoOne
  OBVIOUS
<1> HIDE DEF m, new
<1>7. \A t \in Talk(new) : t \in Talk(bridge[b])
  BY <1>1, <1>2, <1>5, <1>6, PipeLonger DEF longer
<1>8. br[b] = new /\ \A d \in Bridge : d # b => br[d] = bridge[d]
  BY <1>1, <1>4
<1>9. br \in [Bridge -> BridgeState]
  BY <1>1, <1>4, <1>5
<1> QED BY <1>5, <1>7, <1>8, <1>9

(* What Close does, in the terms of LeavingStep. *)
LEMMA CloseIs ==
    ASSUME BridgeInv, NEW r \in Request, Close(r)
    PROVE  \E req, br :
               /\ Become(table, req, br)
               /\ req \in [Request -> RequestState]
               /\ br \in [Bridge -> BridgeState]
               /\ \A q \in Request : q # r => req[q] = request[q]
               /\ req[r].left = request[r].left /\ req[r].got = request[r].got
               /\ req[r].key = request[r].key
               /\ req[r].left >= 1 \/ req[r].pc = "answered"
               /\ \/ req[r].pc \in {"failed", "answered"} /\ req[r].bridge = NoOne
                  \/ req[r].pc = "calling" /\ req[r].bridge = request[r].bridge
                  \/ /\ req[r].pc = "evicting" /\ req[r].bridge = request[r].bridge
                     /\ bridge[request[r].bridge].process = "dead"
               /\ \A b \in Bridge :
                      /\ br[b].process = bridge[b].process
                      /\ br[b].next = bridge[b].next
                      /\ Talk(br[b]) \subseteq Talk(bridge[b])
<1> DEFINE after == IF request[r].pc = "closing" THEN Heard(r) ELSE Failed(r)
           b == request[r].bridge
           br == [bridge EXCEPT ![b].pipe =
                     Append(@, [channel |-> request[r].channel, about |-> NoOne])]
<1>1. request[r].pc \in {"closing", "giving up"}
  BY DEF Close
<1>2. /\ after \in [Request -> RequestState]
      /\ \A q \in Request : q # r => after[q] = request[q]
      /\ after[r].left = request[r].left /\ after[r].got = request[r].got
      /\ after[r].key = request[r].key
      /\ after[r].left >= 1 \/ after[r].pc = "answered"
      /\ \/ after[r].pc \in {"failed", "answered"} /\ after[r].bridge = NoOne
         \/ after[r].pc = "calling" /\ after[r].bridge = request[r].bridge
         \/ /\ after[r].pc = "evicting" /\ after[r].bridge = request[r].bridge
            /\ bridge[request[r].bridge].process = "dead"
  <2>1. CASE request[r].pc = "closing"
    BY <2>1, HeardIs
  <2>2. CASE request[r].pc = "giving up"
    BY <2>2, FailedIs
  <2> QED BY <1>1, <2>1, <2>2
<1>3. Become(table, after, bridge) \/ Become(table, after, br)
  BY DEF Close
<1> HIDE DEF after
<1>4. CASE Become(table, after, bridge)
  BY <1>2, <1>4, Unchanged, InvTyped
<1>5. CASE Become(table, after, br)
  <2>1. b \in Bridge /\ request[r].channel \in Nat
    BY <1>1, Mine, InvTyped DEF Busy, Using, RequestState
  <2>2. /\ br \in [Bridge -> BridgeState]
        /\ \A d \in Bridge :
               /\ br[d].process = bridge[d].process /\ br[d].next = bridge[d].next
               /\ Talk(br[d]) \subseteq Talk(bridge[d])
    BY <2>1, CloseWritten
  <2> HIDE DEF br
  <2> QED BY <1>2, <1>5, <2>2
<1> QED BY <1>3, <1>4, <1>5

LEMMA CloseStep ==
    ASSUME BridgeInv, NEW r \in Request, Close(r)
    PROVE  BridgeInv'
<1>1. /\ request[r].pc \in Busy
      /\ stale' \in SUBSET Key /\ tableLock' \in Request \cup {NoOne}
      /\ bridgeLock' \in [Bridge -> Request \cup {NoOne}]
  BY DEF Close, BridgeInv, TypeOK, Busy, Using
<1>2. PICK req, br :
        /\ Become(table, req, br)
        /\ req \in [Request -> RequestState]
        /\ br \in [Bridge -> BridgeState]
        /\ \A q \in Request : q # r => req[q] = request[q]
        /\ req[r].left = request[r].left /\ req[r].got = request[r].got
        /\ req[r].key = request[r].key
        /\ req[r].left >= 1 \/ req[r].pc = "answered"
        /\ \/ req[r].pc \in {"failed", "answered"} /\ req[r].bridge = NoOne
           \/ req[r].pc = "calling" /\ req[r].bridge = request[r].bridge
           \/ /\ req[r].pc = "evicting" /\ req[r].bridge = request[r].bridge
              /\ bridge[request[r].bridge].process = "dead"
        /\ \A b \in Bridge :
               /\ br[b].process = bridge[b].process
               /\ br[b].next = bridge[b].next
               /\ Talk(br[b]) \subseteq Talk(bridge[b])
  BY CloseIs
<1> QED BY <1>1, <1>2, LeavingStep

(* A step that leaves the table and what requests hold as it was, and adds   *)
(* to a bridge only what has a new number.                                   *)
LEMMA BridgeStep ==
    ASSUME BridgeInv, table' = table, bridge' \in [Bridge -> BridgeState],
           request' \in [Request -> RequestState],
           \A r \in Request : request'[r].bridge = request[r].bridge,
           \A b \in Bridge :
               /\ (bridge'[b].process = "none") = (bridge[b].process = "none")
               /\ Upto(bridge'[b]) /\ Grown(bridge[b], bridge'[b]),
           \A r \in Request : request'[r].pc = "reading" =>
               \/ request'[r] = request[r]
               \/ About(bridge'[request'[r].bridge], request'[r].channel,
                        <<r, request'[r].left>>)
    PROVE  There' /\ Numbered' /\ Reading'
<1>1. There'
  BY DEF There, Referred, BridgeInv
<1>2. Numbered'
  BY DEF Numbered, Upto, Talk, Written, Read
<1>3. ASSUME NEW r \in Request, request'[r].pc = "reading", request'[r] = request[r]
      PROVE  About(bridge'[request'[r].bridge], request'[r].channel, <<r, request'[r].left>>)
  <2>1. request[r].bridge \in Bridge
    BY <1>3, Mine DEF Busy, Using
  <2>2. About(bridge[request[r].bridge], request[r].channel, <<r, request[r].left>>)
    BY <1>3 DEF BridgeInv, Reading
  <2>3. request[r].channel \in Nat
    BY DEF BridgeInv, TypeOK
  <2> QED BY <1>3, <2>1, <2>2, <2>3, InvTyped, AboutKept
<1>4. Reading'
  BY <1>3 DEF Reading, About, Talk, Written, Read
<1> QED BY <1>1, <1>2, <1>4

LEMMA AskStep ==
    ASSUME BridgeInv, NEW r \in Request, Ask(r) \/ Lock(r) \/ GiveUp(r)
    PROVE  BridgeInv'
<1>1. /\ request' \in [Request -> RequestState]
      /\ \A q \in Request : q # r => request'[q] = request[q]
      /\ request'[r].bridge = request[r].bridge /\ request'[r].left = request[r].left
      /\ request'[r].got = request[r].got
      /\ \/ request'[r].pc = "table" /\ request[r].pc = "new"
         \/ request'[r].pc = "calling" /\ request[r].pc = "lock"
         \/ request'[r].pc = "giving up" /\ request[r].pc = "reading"
  <2>1. request \in [Request -> RequestState]
    BY InvTyped
  <2>2. CASE Ask(r)
    BY <2>1, <2>2 DEF Ask, RequestState
  <2>3. CASE Lock(r)
    <3>1. request' = [request EXCEPT ![r].pc = "calling"] /\ request[r].pc = "lock"
      BY <2>3 DEF Lock
    <3> QED BY <2>1, <3>1 DEF RequestState
  <2>4. CASE GiveUp(r)
    BY <2>1, <2>4 DEF GiveUp, CanFail, RequestState
  <2> QED BY <2>2, <2>3, <2>4
<1>2. /\ bridge' = bridge /\ table' = table
      /\ bridgeLock' \in [Bridge -> Request \cup {NoOne}]
      /\ stale' = stale /\ tableLock' = tableLock
  BY DEF BridgeInv, TypeOK, Ask, Lock, GiveUp
<1>3. TypeOK'
  BY <1>1, <1>2 DEF BridgeInv, TypeOK, RequestState
<1>4. There' /\ Numbered' /\ Reading'
  BY <1>1, <1>2, Silent, InvTyped, BridgeStep
<1>5. Holding' /\ Counting'
  <2>1. request'[r].pc \in Busy <=> request[r].pc \in Busy
    <3>1. CASE request'[r].pc = "table" /\ request[r].pc = "new"
      BY <3>1 DEF Busy, Using
    <3>2. CASE request'[r].pc = "calling" /\ request[r].pc = "lock"
      BY <3>2 DEF Busy, Using
    <3>3. CASE request'[r].pc = "giving up" /\ request[r].pc = "reading"
      BY <3>3 DEF Busy, Using
    <3> QED BY <1>1, <3>1, <3>2, <3>3
  <2>2. Holding'
    BY <1>1, <2>1 DEF BridgeInv, Holding
  <2>3. Counting'
    BY <1>1 DEF BridgeInv, Counting
  <2> QED BY <2>2, <2>3
<1>6. OwnAnswer'
  BY <1>1 DEF BridgeInv, OwnAnswer
<1> QED BY <1>3, <1>4, <1>5, <1>6 DEF BridgeInv

(* A step that changes one bridge, in terms of BridgeStep. *)
LEMMA OneBridgeStep ==
    ASSUME BridgeInv, NEW b \in Bridge, NEW new \in BridgeState,
           table' = table, bridge' = [bridge EXCEPT ![b] = new],
           request' \in [Request -> RequestState],
           \A r \in Request : request'[r].bridge = request[r].bridge,
           new.process = "none" <=> bridge[b].process = "none",
           Upto(new), Grown(bridge[b], new),
           \A r \in Request : request'[r].pc = "reading" =>
               \/ request'[r] = request[r]
               \/ request'[r].bridge = b
                  /\ About(new, request'[r].channel, <<r, request'[r].left>>)
    PROVE  bridge' \in [Bridge -> BridgeState] /\ There' /\ Numbered' /\ Reading'
<1>1. /\ bridge' \in [Bridge -> BridgeState] /\ bridge'[b] = new
      /\ \A c \in Bridge : c # b => bridge'[c] = bridge[c]
  BY InvTyped
<1>2. \A c \in Bridge :
        /\ (bridge'[c].process = "none") = (bridge[c].process = "none")
        /\ Upto(bridge'[c]) /\ Grown(bridge[c], bridge'[c])
  <2> TAKE c \in Bridge
  <2>1. CASE c = b
    BY <1>1, <2>1
  <2>2. CASE c # b
    BY <1>1, <2>2, Silent
  <2> QED BY <2>1, <2>2
<1>3. \A r \in Request : request'[r].pc = "reading" =>
        \/ request'[r] = request[r]
        \/ About(bridge'[request'[r].bridge], request'[r].channel,
                 <<r, request'[r].left>>)
  BY <1>1
<1> QED BY <1>1, <1>2, <1>3, BridgeStep

LEMMA CallStep ==
    ASSUME BridgeInv, NEW r \in Request, Call(r)
    PROVE  BridgeInv'
<1> DEFINE b == request[r].bridge
           st == bridge[b]
           n == st.next + 1
           frame == [channel |-> n, about |-> <<r, request[r].left>>]
           longer == Append(st.pipe, frame)
           new == [st EXCEPT !.next = n, !.pipe = longer]
<1>1. b \in Bridge /\ st \in BridgeState /\ st.process # "none"
  BY Mine DEF Call, Busy, Using
<1>2. /\ n \in Nat /\ st.next \in Nat /\ n > st.next
      /\ frame \in Frame /\ frame \in Message
  <2>1. request[r].left \in Nat /\ st.next \in Nat
    BY <1>1, InvTyped DEF RequestState, BridgeState
  <2> QED BY <2>1 DEF Frame, Message, Question
<1>3. longer \in Seq(Message)
  <2> HIDE DEF st, frame
  <2> QED BY <1>1, <1>2, TalkTyped
<1>4. /\ bridge' = [bridge EXCEPT ![b] = new]
      /\ request' = [request EXCEPT ![r].pc = "reading", ![r].channel = n]
      /\ request[r].pc = "calling"
      /\ UNCHANGED <<table, stale, tableLock, bridgeLock>>
  <2>1. /\ bridge' = [bridge EXCEPT ![b].next = n, ![b].pipe = Append(@, frame)]
        /\ request' = [request EXCEPT ![r].pc = "reading", ![r].channel = n]
        /\ request[r].pc = "calling"
        /\ UNCHANGED <<table, stale, tableLock, bridgeLock>>
    BY DEF Call, NextChannel
  <2> HIDE DEF n, frame
  <2>2. bridge' = [bridge EXCEPT ![b] = new]
    BY <1>1, <2>1, InvTyped DEF BridgeState
  <2> QED BY <2>1, <2>2
<1> HIDE DEF longer
<1>5. /\ new \in BridgeState
      /\ new.next = n /\ new.pipe = longer /\ new.asked = st.asked
      /\ new.frames = st.frames /\ new.process = st.process
  <2> HIDE DEF n
  <2> QED BY <1>1, <1>2, <1>3 DEF BridgeState
<1>6. frame.channel = n /\ frame.about = <<r, request[r].left>>
  OBVIOUS
<1>7. /\ request' \in [Request -> RequestState]
      /\ \A q \in Request : q # r => request'[q] = request[q]
      /\ request'[r].bridge = b /\ request'[r].left = request[r].left
      /\ request'[r].got = request[r].got /\ request'[r].pc = "reading"
      /\ request'[r].channel = n
  <2> HIDE DEF n
  <2> QED BY <1>2, <1>4, InvTyped DEF RequestState
<1> HIDE DEF st, n, frame, new
<1>8. \A t \in Talk(new) : t \in Talk(st) \/ t = frame
  BY <1>1, <1>2, <1>5, PipeLonger DEF longer
<1>9. /\ \A t \in Talk(st) : t.channel <= st.next /\ t.channel \in Nat
      /\ Upto(st)
  BY <1>1, TalkTyped, Silent DEF Upto, st
<1>10. Upto(new) /\ Grown(st, new)
  BY <1>2, <1>5, <1>6, <1>8, <1>9 DEF Upto, Grown
<1>11. About(new, n, <<r, request[r].left>>)
  <2>1. \A t \in Talk(new) : t.channel = n => t = frame
    BY <1>2, <1>8, <1>9
  <2> QED BY <1>2, <1>5, <1>6, <2>1 DEF About
<1>12. bridge' \in [Bridge -> BridgeState] /\ There' /\ Numbered' /\ Reading'
  <2>1. \A q \in Request : request'[q].bridge = request[q].bridge
    BY <1>7
  <2>2. \A q \in Request : request'[q].pc = "reading" =>
          \/ request'[q] = request[q]
          \/ /\ request'[q].bridge = b
             /\ About(new, request'[q].channel, <<q, request'[q].left>>)
    BY <1>7, <1>11
  <2>3. table' = table
    BY <1>4
  <2>4. Grown(bridge[b], new) /\ new.process = bridge[b].process
    BY <1>5, <1>10 DEF st
  <2> HIDE DEF b
  <2> QED BY <1>1, <1>4, <1>5, <1>7, <1>10, <2>1, <2>2, <2>3, <2>4, OneBridgeStep
<1>13. TypeOK'
  BY <1>4, <1>7, <1>12 DEF BridgeInv, TypeOK, RequestState, BridgeState
<1>14. Holding'
  <2>1. request[r].pc \in Busy /\ request'[r].pc \in Busy
    BY <1>4, <1>7 DEF Busy, Using
  <2>2. request'[r].bridge = request[r].bridge
    BY <1>7
  <2> QED BY <1>7, <2>1, <2>2 DEF BridgeInv, Holding
<1>15. Counting' /\ OwnAnswer'
  BY <1>4, <1>7 DEF BridgeInv, Counting, OwnAnswer
<1> QED BY <1>12, <1>13, <1>14, <1>15 DEF BridgeInv

(* What a bridge and its reader do with what is there already.               *)
LEMMA WireChange ==
    ASSUME BridgeInv, NEW b \in Bridge,
           Take(b) \/ Answer(b) \/ Die(b) \/ GoDeaf(b)
           \/ \E r \in Request : (Skip(r) \/ Receive(r)) /\ b = request[r].bridge
    PROVE  \E new \in BridgeState :
               /\ bridge' = [bridge EXCEPT ![b] = new]
               /\ new.process = "none" <=> bridge[b].process = "none"
               /\ new.process = bridge[b].process
                  \/ (new.process = "dead" /\ "die" \in Faults)
                  \/ new.process = "deaf"
               /\ new.next = bridge[b].next
               /\ Talk(new) \subseteq Talk(bridge[b])
<1> DEFINE st == bridge[b]
<1>1. /\ st \in BridgeState /\ bridge \in [Bridge -> BridgeState]
      /\ st.frames \in Seq(Frame) /\ st.asked \in SUBSET Frame /\ st.next \in Nat
      /\ st.pipe \in Seq(Message)
  BY InvTyped, TalkTyped
<1>2. CASE Take(b)
  <2> DEFINE m == Head(st.pipe)
             asked == IF m.about = NoOne
                      THEN {frame \in st.asked : frame.channel # m.channel}
                      ELSE st.asked \cup {m}
             less == Tail(st.pipe)
             new == [st EXCEPT !.pipe = less, !.asked = asked]
  <2>1. st.pipe # <<>> /\ bridge' = [bridge EXCEPT ![b] = new]
    BY <1>1, <1>2 DEF Take, BridgeState
  <2>2. less \in Seq(Message) /\ m \in Message
    <3> HIDE DEF st
    <3> QED BY <1>1, <2>1
  <2>3. m.about # NoOne => m \in Frame
    BY <2>2 DEF Message, Frame
  <2>4. asked \in SUBSET Frame
    BY <1>1, <2>3
  <2>5. \A f \in asked : f \in st.asked \/ (f = m /\ m.about # NoOne)
    OBVIOUS
  <2> HIDE DEF asked, less
  <2>6. /\ new \in BridgeState
        /\ new.pipe = less /\ new.asked = asked /\ new.frames = st.frames
        /\ new.next = st.next /\ new.process = st.process
    BY <1>1, <2>2, <2>4 DEF BridgeState
  <2> HIDE DEF new, st
  <2>7. Talk(new) \subseteq Talk(st)
    BY <1>1, <2>1, <2>5, <2>6, PipeShorter DEF less
  <2> QED BY <2>1, <2>6, <2>7 DEF st
<1>3. CASE Answer(b)
  <2>1. PICK frame \in st.asked :
          bridge' = [bridge EXCEPT ![b].asked = @ \ {frame},
                                   ![b].frames = Append(@, frame)]
    BY <1>3 DEF Answer
  <2> DEFINE more == Append(st.frames, frame)
             new == [st EXCEPT !.asked = @ \ {frame}, !.frames = more]
  <2>2. bridge' = [bridge EXCEPT ![b] = new]
    BY <1>1, <2>1 DEF BridgeState
  <2>3. more \in Seq(Frame)
    <3> HIDE DEF st
    <3> QED BY <1>1, <2>1
  <2> HIDE DEF more
  <2>4. /\ new \in BridgeState
        /\ new.pipe = st.pipe /\ new.asked \subseteq st.asked /\ new.frames = more
        /\ new.next = st.next /\ new.process = st.process
    BY <1>1, <2>3 DEF BridgeState
  <2> HIDE DEF new, st
  <2>5. Talk(new) \subseteq Talk(st)
    BY <1>1, <2>1, <2>4, FramesMoved DEF more
  <2> QED BY <2>2, <2>4, <2>5 DEF st
<1>4. CASE Die(b)
  <2> DEFINE new == [st EXCEPT !.process = "dead", !.pipe = <<>>, !.asked = {}]
  <2>1. /\ bridge' = [bridge EXCEPT ![b] = new] /\ "die" \in Faults
        /\ st.process \in {"up", "deaf"}
    BY <1>1, <1>4 DEF Die, Alive, BridgeState
  <2>2. <<>> \in Seq(Message)
    OBVIOUS
  <2>3. /\ new \in BridgeState
        /\ new.pipe = <<>> /\ new.asked = {} /\ new.frames = st.frames
        /\ new.next = st.next /\ new.process = "dead"
    BY <1>1, <2>2 DEF BridgeState
  <2> HIDE DEF new
  <2>4. Talk(new) \subseteq Talk(st)
    BY <2>3 DEF Talk, Written, Read
  <2> QED BY <2>1, <2>3, <2>4
<1>5. CASE GoDeaf(b)
  <2> DEFINE new == [st EXCEPT !.process = "deaf"]
  <2>1. bridge' = [bridge EXCEPT ![b] = new] /\ st.process = "up"
    BY <1>1, <1>5 DEF GoDeaf, BridgeState
  <2>2. /\ new \in BridgeState
        /\ new.pipe = st.pipe /\ new.asked = st.asked /\ new.frames = st.frames
        /\ new.next = st.next /\ new.process = "deaf"
    BY <1>1 DEF BridgeState
  <2> HIDE DEF new
  <2>3. Talk(new) \subseteq Talk(st)
    BY <2>2 DEF Talk, Written, Read
  <2> QED BY <2>1, <2>2, <2>3
<1>6. CASE \E r \in Request : (Skip(r) \/ Receive(r)) /\ b = request[r].bridge
  <2> DEFINE less == Tail(st.frames)
             new == [st EXCEPT !.frames = less]
  <2>1. st.frames # <<>> /\ bridge' = [bridge EXCEPT ![b] = new]
    BY <1>1, <1>6 DEF Skip, Receive, BridgeState
  <2>2. less \in Seq(Frame)
    <3> HIDE DEF st
    <3> QED BY <1>1, <2>1
  <2> HIDE DEF less
  <2>3. /\ new \in BridgeState
        /\ new.pipe = st.pipe /\ new.asked = st.asked /\ new.frames = less
        /\ new.next = st.next /\ new.process = st.process
    BY <1>1, <2>2 DEF BridgeState
  <2> HIDE DEF new, st
  <2>4. Talk(new) \subseteq Talk(st)
    BY <1>1, <2>1, <2>3, FramesMoved DEF less
  <2> QED BY <2>1, <2>3, <2>4 DEF st
<1> QED BY <1>2, <1>3, <1>4, <1>5, <1>6

LEMMA WireStep ==
    ASSUME BridgeInv, NEW b \in Bridge,
           Take(b) \/ Answer(b) \/ Die(b) \/ GoDeaf(b)
           \/ \E r \in Request : Skip(r) /\ b = request[r].bridge
    PROVE  BridgeInv'
<1>1. UNCHANGED <<table, stale, tableLock, bridgeLock, request>>
  BY DEF Take, Answer, Die, GoDeaf, Skip
<1>2. PICK new \in BridgeState :
        /\ bridge' = [bridge EXCEPT ![b] = new]
        /\ new.process = "none" <=> bridge[b].process = "none"
        /\ new.next = bridge[b].next
        /\ Talk(new) \subseteq Talk(bridge[b])
  BY WireChange
<1>3. Upto(new) /\ Grown(bridge[b], new)
  <2>1. bridge[b] \in BridgeState /\ Upto(bridge[b]) /\ new.next >= bridge[b].next
    BY <1>2, InvTyped, TalkTyped, Silent
  <2> QED BY <1>2, <2>1, UptoKept
<1>4. bridge' \in [Bridge -> BridgeState] /\ There' /\ Numbered' /\ Reading'
  BY <1>1, <1>2, <1>3, InvTyped, OneBridgeStep
<1>5. TypeOK'
  BY <1>1, <1>4 DEF BridgeInv, TypeOK, BridgeState
<1>6. Holding' /\ Counting' /\ OwnAnswer'
  BY <1>1 DEF BridgeInv, Holding, Counting, OwnAnswer
<1> QED BY <1>4, <1>5, <1>6 DEF BridgeInv

LEMMA SkipStep ==
    ASSUME BridgeInv, NEW r \in Request, Skip(r)
    PROVE  BridgeInv'
<1>1. request[r].bridge \in Bridge
  BY Mine DEF Skip, Busy, Using
<1> QED BY <1>1, WireStep

LEMMA ReceiveStep ==
    ASSUME BridgeInv, NEW r \in Request, Receive(r)
    PROVE  BridgeInv'
<1> DEFINE b == request[r].bridge
           st == bridge[b]
           q == <<r, request[r].left>>
<1>1. /\ b \in Bridge /\ st \in BridgeState
      /\ st.frames \in Seq(Frame) /\ st.frames # <<>>
      /\ request[r].pc = "reading" /\ request[r].left \in Nat /\ request[r].left >= 1
      /\ Head(st.frames).channel = request[r].channel
      /\ UNCHANGED <<table, stale, tableLock, bridgeLock>>
  <2>1. b \in Bridge /\ st \in BridgeState
    BY Mine DEF Receive, Busy, Using
  <2>2. request[r].left \in Nat /\ request[r].left >= 1
    BY InvTyped DEF BridgeInv, Counting, Receive, RequestState
  <2> QED BY <2>1, <2>2, TalkTyped DEF Receive
<1>2. Head(st.frames).about = q
  <2>1. About(st, request[r].channel, q)
    BY <1>1 DEF BridgeInv, Reading
  <2>2. 1 \in 1..Len(st.frames) /\ Head(st.frames) = st.frames[1]
    <3> HIDE DEF st
    <3> QED BY <1>1
  <2>3. Head(st.frames) \in Talk(st)
    BY <2>2 DEF Talk, Read
  <2> HIDE DEF st, q
  <2> QED BY <1>1, <2>1, <2>3 DEF About
<1>3. request' = [request EXCEPT ![r].pc = "closing", ![r].left = @ - 1, ![r].got = q]
  BY <1>2 DEF Receive
<1>4. PICK new \in BridgeState :
        /\ bridge' = [bridge EXCEPT ![b] = new]
        /\ new.process = "none" <=> bridge[b].process = "none"
        /\ new.next = bridge[b].next
        /\ Talk(new) \subseteq Talk(bridge[b])
  BY <1>1, WireChange
<1>5. /\ request' \in [Request -> RequestState]
      /\ \A p \in Request : p # r => request'[p] = request[p]
      /\ request'[r].left = request[r].left - 1 /\ request'[r].got = q
      /\ request'[r].pc = "closing" /\ request'[r].bridge = request[r].bridge
  <2>1. q \in Question /\ request[r].left - 1 \in Nat
    BY <1>1 DEF Question
  <2> HIDE DEF q
  <2> QED BY <1>3, <2>1, InvTyped DEF RequestState
<1>6. Upto(new) /\ Grown(bridge[b], new)
  <2>1. bridge[b] \in BridgeState /\ Upto(bridge[b]) /\ new.next >= bridge[b].next
    BY <1>1, <1>4, TalkTyped, Silent
  <2> QED BY <1>4, <2>1, UptoKept
<1>7. bridge' \in [Bridge -> BridgeState] /\ There' /\ Numbered' /\ Reading'
  <2>1. \A p \in Request : request'[p].bridge = request[p].bridge
    BY <1>5
  <2>2. \A p \in Request : request'[p].pc = "reading" => request'[p] = request[p]
    BY <1>5
  <2> HIDE DEF b
  <2> QED BY <1>1, <1>4, <1>5, <1>6, <2>1, <2>2, OneBridgeStep
<1>8. TypeOK'
  BY <1>1, <1>5, <1>7 DEF BridgeInv, TypeOK, BridgeState, RequestState
<1>9. Holding'
  <2>1. request[r].pc \in Busy /\ request'[r].pc \in Busy
    BY <1>1, <1>5 DEF Busy, Using
  <2> QED BY <1>5, <2>1 DEF BridgeInv, Holding
<1>10. Counting'
  BY <1>5 DEF BridgeInv, Counting
<1>11. OwnAnswer'
  <2>1. request[r].left = (request[r].left - 1) + 1
    BY <1>1
  <2> QED BY <1>5, <2>1 DEF BridgeInv, OwnAnswer
<1> QED BY <1>7, <1>8, <1>9, <1>10, <1>11 DEF BridgeInv

LEMMA IdleStep ==
    ASSUME BridgeInv, NEW k \in Key, Idle(k)
    PROVE  BridgeInv'
<1>1. UNCHANGED <<table, tableLock, bridge, bridgeLock, request>> /\ stale' \subseteq Key
  BY DEF Idle, BridgeInv, TypeOK
<1>2. TypeOK'
  BY <1>1 DEF BridgeInv, TypeOK
<1>3. There' /\ Numbered'
  BY <1>1 DEF BridgeInv, There, Referred, Numbered, Upto, Talk, Written, Read
<1>4. Reading' /\ Holding' /\ Counting' /\ OwnAnswer'
  BY <1>1 DEF BridgeInv, Reading, About, Talk, Written, Read, Holding, Counting, OwnAnswer
<1> QED BY <1>2, <1>3, <1>4 DEF BridgeInv

LEMMA InvStutters == ASSUME BridgeInv, UNCHANGED vars PROVE BridgeInv'
<1>1. TypeOK' /\ There' /\ Holding' /\ Counting' /\ OwnAnswer'
  BY DEF vars, BridgeInv, TypeOK, There, Referred, Holding, Counting, OwnAnswer
<1>2. Numbered' /\ Reading'
  BY DEF vars, BridgeInv, Numbered, Reading, Upto, About, Talk, Written, Read
<1> QED BY <1>1, <1>2 DEF BridgeInv

LEMMA BridgeInductive == BridgeInv /\ [Next]_vars => BridgeInv'
<1> SUFFICES ASSUME BridgeInv, [Next]_vars PROVE BridgeInv'
  OBVIOUS
<1>1. ASSUME NEW r \in Request, Ask(r) \/ Work(r) PROVE BridgeInv'
  <2>1. CASE Ask(r) \/ Lock(r) \/ GiveUp(r)
    BY <2>1, AskStep
  <2>2. CASE Reuse(r) \/ Spawn(r) \/ Greeted(r) \/ OpenFails(r)
    BY <2>2, ReuseStep, SpawnStep, GreetedStep, OpenFailsStep
  <2>3. CASE Call(r) \/ Skip(r) \/ Receive(r)
    BY <2>3, CallStep, SkipStep, ReceiveStep
  <2>4. CASE Close(r) \/ CallFails(r) \/ Evict(r)
    BY <2>4, CloseStep, CallFailsStep, EvictStep
  <2> QED BY <1>1, <2>1, <2>2, <2>3, <2>4 DEF Work
<1>2. ASSUME NEW b \in Bridge, Take(b) \/ Answer(b) \/ Die(b) \/ GoDeaf(b)
      PROVE  BridgeInv'
  BY <1>2, WireStep
<1>3. ASSUME NEW k \in Key, Idle(k) PROVE BridgeInv'
  BY <1>3, IdleStep
<1>4. CASE Rest \/ UNCHANGED vars
  BY <1>4, InvStutters DEF Rest
<1> QED BY <1>1, <1>2, <1>3, <1>4 DEF Next

(* Every reachable state has the types the code gives it. *)
THEOREM BridgeTypes == Spec => []TypeOK
<1>1. BridgeInv => TypeOK
  BY DEF BridgeInv
<1> QED BY InitInv, BridgeInductive, <1>1, PTL DEF Spec

(* A request reads the answer to its own question (cockpit.rs:419-425): late *)
(* answers to requests that gave up are passed over.                         *)
THEOREM AnswersAreOwn == Spec => []OwnAnswer
<1>1. BridgeInv => OwnAnswer
  BY DEF BridgeInv
<1> QED BY InitInv, BridgeInductive, <1>1, PTL DEF Spec

-----------------------------------------------------------------------------
(* One bridge to a session.  A request that opens a bridge has the table     *)
(* locked and nothing in it; a request that has one has the one in the       *)
(* table, or one that is deaf or dead by now; and where an entry is stale    *)
(* the requests that are still at work have such a one.  The second holds    *)
(* until a request of the session has come as far as to evict, which it does *)
(* not if bridges do not die.                                                *)
Dead(b) == bridge[b].process = "dead"
Down(b) == bridge[b].process # "up"

Done == {"evicting", "failed"}

Spared(k) ==
    \/ "die" \notin Faults
    \/ \A r \in Request : request[r].key = k => request[r].pc \notin Done

NoneDead ==
    "die" \notin Faults =>
        /\ \A b \in Bridge : ~Dead(b)
        /\ \A r \in Request : request[r].pc # "evicting"

Placed(r) ==
    /\ request[r].pc = "opening" => tableLock = r /\ table[request[r].key] = NoOne
    /\ request[r].pc \in Using /\ Spared(request[r].key) =>
          table[request[r].key] = request[r].bridge \/ Down(request[r].bridge)
    /\ request[r].pc \in Busy /\ request[r].key \in stale => Down(request[r].bridge)

Settled == NoneDead /\ \A r \in Request : Placed(r)

LEMMA InitSettled == Init => Settled
<1> SUFFICES ASSUME Init PROVE Settled
  OBVIOUS
<1>1. \A r \in Request : request[r].pc = "new"
  BY DEF Init
<1>2. \A b \in Bridge : ~Dead(b)
  BY VacantIsClean DEF Init, Dead
<1> QED BY <1>1, <1>2 DEF Settled, NoneDead, Placed, Using, Busy

(* The same of the state after a step, for what was named before it.         *)
StillDown(b) == bridge'[b].process # "up"

StillSpared(k) ==
    \/ "die" \notin Faults
    \/ \A r \in Request : request'[r].key = k => request'[r].pc \notin Done

LEMMA PlacedThen ==
    ASSUME NEW r \in Request,
           request'[r].pc = "opening" => tableLock' = r /\ table'[request'[r].key] = NoOne,
           request'[r].pc \in Using /\ StillSpared(request'[r].key) =>
               table'[request'[r].key] = request'[r].bridge \/ StillDown(request'[r].bridge),
           request'[r].pc \in Busy /\ request'[r].key \in stale' =>
               StillDown(request'[r].bridge)
    PROVE  Placed(r)'
  BY DEF Placed, Spared, Down, StillSpared, StillDown

(* Of a step of r: the other requests stay as they are, r keeps its session, *)
(* and one that has failed has failed.                                       *)
StepOf(r) ==
    /\ \A q \in Request : q # r => request'[q] = request[q]
    /\ request'[r].key = request[r].key
    /\ request[r].pc \in Done => request'[r].pc \in Done

(* A bridge that is down stays so for as long as a request has it. *)
DownStay ==
    \A q \in Request :
        /\ request[q].pc \in Busy /\ request'[q].bridge = request[q].bridge
        /\ Down(request[q].bridge)
        => StillDown(request[q].bridge)

LEMMA SparedBefore ==
    ASSUME NEW r \in Request, StepOf(r), NEW k, StillSpared(k)
    PROVE  Spared(k)
  BY DEF StepOf, Spared, StillSpared

LEMMA OthersStay ==
    ASSUME Settled, NEW r \in Request, StepOf(r), DownStay, stale' \subseteq stale,
           \A q \in Request : q # r /\ request[q].pc = "opening" =>
               tableLock' = tableLock /\ table'[request[q].key] = table[request[q].key],
           \A q \in Request :
               q # r /\ request[q].pc \in Using /\ StillSpared(request[q].key) =>
                   \/ table'[request[q].key] = table[request[q].key]
                   \/ Down(request[q].bridge)
    PROVE  \A q \in Request : q # r => Placed(q)'
<1> SUFFICES ASSUME NEW q \in Request, q # r PROVE Placed(q)'
  OBVIOUS
<1>1. request'[q] = request[q] /\ Placed(q)
  BY DEF StepOf, Settled
<1>2. request'[q].pc = "opening" => tableLock' = q /\ table'[request'[q].key] = NoOne
  BY <1>1 DEF Placed
<1>3. request[q].pc \in Busy /\ Down(request[q].bridge) => StillDown(request'[q].bridge)
  BY <1>1 DEF DownStay
<1>4. ASSUME request'[q].pc \in Using, StillSpared(request'[q].key)
      PROVE  table'[request'[q].key] = request'[q].bridge \/ StillDown(request'[q].bridge)
  <2>1. Spared(request[q].key) /\ StillSpared(request[q].key) /\ request[q].pc \in Using
    BY <1>1, <1>4, SparedBefore
  <2>2. table[request[q].key] = request[q].bridge \/ Down(request[q].bridge)
    BY <1>1, <2>1 DEF Placed
  <2>3. table'[request[q].key] = table[request[q].key] \/ Down(request[q].bridge)
    BY <2>1
  <2>4. request[q].pc \in Busy
    BY <2>1 DEF Busy
  <2>5. CASE Down(request[q].bridge)
    BY <1>3, <2>4, <2>5
  <2>6. CASE ~Down(request[q].bridge)
    BY <1>1, <2>2, <2>3, <2>6
  <2> QED BY <2>5, <2>6
<1>5. request'[q].pc \in Busy /\ request'[q].key \in stale' => StillDown(request'[q].bridge)
  BY <1>1, <1>3 DEF Placed
<1> QED BY <1>2, <1>4, <1>5, PlacedThen

(* The sweep takes what is stale and what has died.                          *)
LEMMA SweptKeeps ==
    ASSUME BridgeInv, NEW k \in Key, k \notin stale
    PROVE  Swept[k] = table[k] \/ Down(table[k])
<1>1. CASE table[k] = NoOne
  BY <1>1 DEF Swept
<1>2. CASE table[k] # NoOne
  <2>1. bridge[table[k]].process = "up" => k \in Kept
    BY <1>2 DEF Kept, Usable, Alive
  <2> QED BY <2>1 DEF Swept, Down
<1> QED BY <1>1, <1>2

(* What the sweep leaves a request with: the bridge it had, or one that is   *)
(* down and was so.                                                          *)
LEMMA SweptLeaves ==
    ASSUME BridgeInv, Settled, NEW q \in Request, request[q].pc \in Using,
           Spared(request[q].key)
    PROVE  Swept[request[q].key] = table[request[q].key] \/ Down(request[q].bridge)
<1>1. request[q].pc \in Busy /\ request[q].key \in Key
  BY InvTyped DEF Busy, RequestState
<1>2. CASE request[q].key \in stale
  BY <1>1, <1>2 DEF Settled, Placed
<1>3. CASE request[q].key \notin stale
  <2>1. table[request[q].key] = request[q].bridge \/ Down(request[q].bridge)
    BY DEF Settled, Placed
  <2>2. Swept[request[q].key] = table[request[q].key] \/ Down(table[request[q].key])
    BY <1>1, <1>3, SweptKeeps
  <2> QED BY <2>1, <2>2
<1> QED BY <1>2, <1>3

LEMMA BecomeDown ==
    ASSUME BridgeInv, NoneDead, NEW tab, NEW req, NEW br, Become(tab, req, br),
           \A q \in Request : request[q].pc \in Busy =>
               br[request[q].bridge].process = bridge[request[q].bridge].process,
           \A b \in Bridge : br[b].process = "dead" => bridge[b].process = "dead"
    PROVE  DownStay /\ ("die" \notin Faults => \A b \in Bridge : ~Dead(b)')
<1>1. /\ request' = req /\ table' = tab
      /\ \A b \in Bridge : bridge'[b] = IF b \in Referred(tab, req) THEN br[b] ELSE Vacant
  BY DEF Become, Drop
<1>2. ASSUME NEW q \in Request, request[q].pc \in Busy,
             request'[q].bridge = request[q].bridge, Down(request[q].bridge)
      PROVE  StillDown(request[q].bridge)
  <2>1. request[q].bridge \in Bridge
    BY <1>2, Mine
  <2>2. request[q].bridge \in Referred(tab, req)
    BY <1>1, <1>2 DEF Referred
  <2>3. bridge'[request[q].bridge].process # "up"
    BY <1>1, <1>2, <2>1, <2>2 DEF Down
  <2> QED BY <2>3 DEF StillDown
<1>3. "die" \notin Faults => \A b \in Bridge : ~Dead(b)'
  BY <1>1, VacantIsClean DEF NoneDead, Dead
<1> QED BY <1>2, <1>3 DEF DownStay

LEMMA SettledReuse ==
    ASSUME BridgeInv, Settled, NEW r \in Request, Reuse(r)
    PROVE  Settled'
<1>1. /\ table' = Swept /\ stale' = {} /\ tableLock' = tableLock /\ tableLock = NoOne
      /\ request' = [request EXCEPT ![r].pc = "lock", ![r].bridge = table[request[r].key]]
      /\ request[r].key \in Kept /\ request[r].pc = "table"
  BY DEF Reuse, Become
<1>2. /\ \A q \in Request : q # r => request'[q] = request[q]
      /\ request'[r].pc = "lock" /\ request'[r].key = request[r].key
      /\ request'[r].bridge = table[request[r].key]
      /\ \A q \in Request : request[q].key \in Key
  BY <1>1, InvTyped DEF RequestState
<1>3. StepOf(r)
  BY <1>1, <1>2 DEF StepOf, Done
<1>4. DownStay /\ ("die" \notin Faults => \A b \in Bridge : ~Dead(b)')
  <2>1. Become(Swept,
               [request EXCEPT ![r].pc = "lock", ![r].bridge = table[request[r].key]],
               bridge)
    BY DEF Reuse
  <2> QED BY <2>1, BecomeDown DEF Settled
<1>5. \A q \in Request : q # r => Placed(q)'
  <2>1. \A q \in Request : request[q].pc # "opening"
    BY <1>1, BridgeAssumption DEF Settled, Placed
  <2>2. ASSUME NEW q \in Request, request[q].pc \in Using, StillSpared(request[q].key)
        PROVE  table'[request[q].key] = table[request[q].key] \/ Down(request[q].bridge)
    BY <1>1, <1>3, <2>2, SparedBefore, SweptLeaves
  <2>3. stale' \subseteq stale
    BY <1>1
  <2> QED BY <1>3, <1>4, <2>1, <2>2, <2>3, OthersStay
<1>6. Placed(r)'
  <2>1. table'[request'[r].key] = request'[r].bridge
    BY <1>1, <1>2 DEF Swept
  <2>2. request'[r].key \notin stale' /\ request'[r].pc # "opening"
    BY <1>1, <1>2
  <2> QED BY <2>1, <2>2, PlacedThen
<1>7. NoneDead'
  BY <1>2, <1>4 DEF Settled, NoneDead
<1> QED BY <1>5, <1>6, <1>7 DEF Settled

LEMMA SettledSpawn ==
    ASSUME BridgeInv, Settled, NEW r \in Request, Spawn(r)
    PROVE  Settled'
<1> DEFINE b == CHOOSE c \in Free : TRUE
<1>1. /\ b \in Free
      /\ Become(Swept,
                [request EXCEPT ![r].pc = "opening", ![r].bridge = b],
                [bridge EXCEPT ![b] = Opened])
  BY DEF Spawn, OpenFor
<1>2. /\ table' = Swept /\ stale' = {} /\ tableLock' = r /\ tableLock = NoOne
      /\ request' = [request EXCEPT ![r].pc = "opening", ![r].bridge = b]
      /\ request[r].key \notin Kept /\ request[r].pc = "table"
  BY <1>1 DEF Spawn, OpenFor, Become
<1> HIDE DEF b
<1>3. /\ \A q \in Request : q # r => request'[q] = request[q]
      /\ request'[r].pc = "opening" /\ request'[r].key = request[r].key
      /\ \A q \in Request : request[q].key \in Key
  BY <1>2, InvTyped DEF RequestState
<1>4. StepOf(r)
  BY <1>2, <1>3 DEF StepOf, Done
<1>5. DownStay /\ ("die" \notin Faults => \A c \in Bridge : ~Dead(c)')
  <2> DEFINE br == [bridge EXCEPT ![b] = Opened]
  <2>1. /\ \A q \in Request : request[q].pc \in Busy =>
              br[request[q].bridge].process = bridge[request[q].bridge].process
        /\ \A c \in Bridge : br[c].process = "dead" => bridge[c].process = "dead"
    BY <1>1, FreeIsNobodys, Mine, InvTyped, VacantIsClean
  <2> HIDE DEF br
  <2> QED BY <1>1, <2>1, BecomeDown DEF Settled, br
<1>6. \A q \in Request : q # r => Placed(q)'
  <2>1. \A q \in Request : request[q].pc # "opening"
    BY <1>2, BridgeAssumption DEF Settled, Placed
  <2>2. ASSUME NEW q \in Request, request[q].pc \in Using, StillSpared(request[q].key)
        PROVE  table'[request[q].key] = table[request[q].key] \/ Down(request[q].bridge)
    BY <1>2, <1>4, <2>2, SparedBefore, SweptLeaves
  <2>3. stale' \subseteq stale
    BY <1>2
  <2> QED BY <1>4, <1>5, <2>1, <2>2, <2>3, OthersStay
<1>7. Placed(r)'
  <2>1. table'[request'[r].key] = NoOne
    BY <1>2, <1>3 DEF Swept
  <2>2. request'[r].key \notin stale' /\ request'[r].pc \notin Using /\ tableLock' = r
    <3>1. request'[r].pc = "opening" /\ "opening" \notin Using
      BY <1>3 DEF Using
    <3> QED BY <1>2, <3>1
  <2> QED BY <2>1, <2>2, PlacedThen
<1>8. NoneDead'
  BY <1>3, <1>5 DEF Settled, NoneDead
<1> QED BY <1>6, <1>7, <1>8 DEF Settled

(* The bridge that has greeted goes where there was nothing: whatever other  *)
(* requests of the session have is down.                                     *)
LEMMA SettledGreeted ==
    ASSUME BridgeInv, Settled, NEW r \in Request, Greeted(r)
    PROVE  Settled'
<1>1. /\ table' = [table EXCEPT ![request[r].key] = request[r].bridge]
      /\ request' = [request EXCEPT ![r].pc = "lock"]
      /\ stale' = stale /\ request[r].pc = "opening"
  BY DEF Greeted, Become
<1>2. /\ \A q \in Request : q # r => request'[q] = request[q]
      /\ request'[r].pc = "lock" /\ request'[r].key = request[r].key
      /\ request'[r].bridge = request[r].bridge
      /\ \A q \in Request : request[q].key \in Key
      /\ table \in [Key -> Bridge \cup {NoOne}]
  BY <1>1, InvTyped DEF BridgeInv, TypeOK, RequestState
<1>3. StepOf(r)
  BY <1>1, <1>2 DEF StepOf, Done
<1>4. DownStay /\ ("die" \notin Faults => \A b \in Bridge : ~Dead(b)')
  <2>1. Become([table EXCEPT ![request[r].key] = request[r].bridge],
               [request EXCEPT ![r].pc = "lock"], bridge)
    BY DEF Greeted
  <2> QED BY <2>1, BecomeDown DEF Settled
<1>5. tableLock = r /\ table[request[r].key] = NoOne
  BY <1>1 DEF Settled, Placed
<1>6. \A q \in Request : q # r => Placed(q)'
  <2>1. \A q \in Request : q # r => request[q].pc # "opening"
    BY <1>5 DEF Settled, Placed
  <2>2. ASSUME NEW q \in Request, request[q].pc \in Using, StillSpared(request[q].key)
        PROVE  table'[request[q].key] = table[request[q].key] \/ Down(request[q].bridge)
    <3>1. table[request[q].key] = request[q].bridge \/ Down(request[q].bridge)
      BY <1>3, <2>2, SparedBefore DEF Settled, Placed
    <3>2. request[q].bridge # NoOne
      BY <2>2, BridgeAssumption, Mine DEF Busy
    <3> QED BY <1>1, <1>2, <1>5, <3>1, <3>2
  <2>3. stale' \subseteq stale
    BY <1>1
  <2> QED BY <1>3, <1>4, <2>1, <2>2, <2>3, OthersStay
<1>7. Placed(r)'
  <2>1. table'[request'[r].key] = request'[r].bridge
    BY <1>1, <1>2
  <2>2. request'[r].key \in stale' => StillDown(request'[r].bridge)
    BY <1>1, <1>2, <1>4 DEF Settled, Placed, DownStay, Busy
  <2> QED BY <1>2, <2>1, <2>2, PlacedThen
<1>8. NoneDead'
  BY <1>2, <1>4 DEF Settled, NoneDead
<1> QED BY <1>6, <1>7, <1>8 DEF Settled

(* A request that leaves its bridge, or goes on with it, the table alone. *)
LEMMA SettledLeaves ==
    ASSUME BridgeInv, Settled, NEW r \in Request, OpenFails(r) \/ Close(r) \/ CallFails(r)
    PROVE  Settled'
<1>1. PICK req, br :
        /\ Become(table, req, br)
        /\ \A b \in Bridge : br[b].process = bridge[b].process
        /\ \A q \in Request : q # r => req[q] = request[q]
        /\ req[r].key = request[r].key
        /\ request[r].pc \in {"opening", "calling", "closing", "giving up"}
        /\ \/ req[r].pc \in {"failed", "answered"}
           \/ /\ request[r].pc # "opening" /\ req[r].pc = "calling"
              /\ req[r].bridge = request[r].bridge
           \/ /\ req[r].pc = "evicting" /\ Dead(request[r].bridge)
              /\ req[r].bridge = request[r].bridge
        /\ \/ UNCHANGED tableLock
           \/ request[r].pc = "opening" /\ tableLock' = NoOne
  <2>1. CASE OpenFails(r)
    <3> DEFINE req == [request EXCEPT ![r].pc = "failed", ![r].bridge = NoOne]
    <3>1. Become(table, req, bridge)
      BY <2>1 DEF OpenFails
    <3>2. request[r].pc = "opening" /\ tableLock' = NoOne
      BY <2>1 DEF OpenFails
    <3>3. /\ \A q \in Request : q # r => req[q] = request[q]
          /\ req[r].pc = "failed" /\ req[r].key = request[r].key
      BY InvTyped DEF RequestState
    <3> HIDE DEF req
    <3> QED BY <3>1, <3>2, <3>3
  <2>2. CASE Close(r)
    <3>1. UNCHANGED tableLock /\ request[r].pc \in {"closing", "giving up"}
      BY <2>2 DEF Close
    <3>2. PICK req, br :
            /\ Become(table, req, br)
            /\ \A q \in Request : q # r => req[q] = request[q]
            /\ req[r].key = request[r].key
            /\ \/ req[r].pc \in {"failed", "answered"} /\ req[r].bridge = NoOne
               \/ req[r].pc = "calling" /\ req[r].bridge = request[r].bridge
               \/ /\ req[r].pc = "evicting" /\ req[r].bridge = request[r].bridge
                  /\ bridge[request[r].bridge].process = "dead"
            /\ \A b \in Bridge : br[b].process = bridge[b].process
      BY <2>2, CloseIs
    <3>3. request[r].pc \in {"opening", "calling", "closing", "giving up"}
      BY <3>1
    <3>4. \/ req[r].pc \in {"failed", "answered"}
          \/ /\ request[r].pc # "opening" /\ req[r].pc = "calling"
             /\ req[r].bridge = request[r].bridge
          \/ /\ req[r].pc = "evicting" /\ Dead(request[r].bridge)
             /\ req[r].bridge = request[r].bridge
      BY <3>1, <3>2 DEF Dead
    <3>5. \/ UNCHANGED tableLock
          \/ request[r].pc = "opening" /\ tableLock' = NoOne
      BY <3>1
    <3>6. /\ Become(table, req, br)
          /\ \A b \in Bridge : br[b].process = bridge[b].process
          /\ \A q \in Request : q # r => req[q] = request[q]
          /\ req[r].key = request[r].key
      BY <3>2
    <3> QED BY <3>3, <3>4, <3>5, <3>6, Zenon
  <2>3. CASE CallFails(r)
    <3>1. Become(table, Failed(r), bridge) /\ request[r].pc = "calling"
      BY <2>3 DEF CallFails
    <3>2. UNCHANGED tableLock
      BY <2>3 DEF CallFails
    <3>3. /\ \A q \in Request : q # r => Failed(r)[q] = request[q]
          /\ Failed(r)[r].key = request[r].key
          /\ \/ Failed(r)[r].pc = "failed"
             \/ /\ Failed(r)[r].pc = "evicting" /\ Dead(request[r].bridge)
                /\ Failed(r)[r].bridge = request[r].bridge
      BY <3>1, FailedIs DEF Dead
    <3> QED BY <3>1, <3>2, <3>3
  <2> QED BY <2>1, <2>2, <2>3
<1>2. table' = table /\ request' = req /\ stale' = stale
  BY <1>1 DEF Become, OpenFails, Close, CallFails
<1>3. StepOf(r)
  BY <1>1, <1>2 DEF StepOf, Done
<1>4. DownStay /\ ("die" \notin Faults => \A b \in Bridge : ~Dead(b)')
  <2>1. /\ \A q \in Request : request[q].pc \in Busy =>
              br[request[q].bridge].process = bridge[request[q].bridge].process
        /\ \A b \in Bridge : br[b].process = "dead" => bridge[b].process = "dead"
    BY <1>1, Mine
  <2>2. Become(table, req, br) /\ NoneDead
    BY <1>1 DEF Settled
  <2> QED BY <2>1, <2>2, BecomeDown
<1>5. \A q \in Request : q # r => Placed(q)'
  <2>1. \A q \in Request : q # r /\ request[q].pc = "opening" => tableLock' = tableLock
    BY <1>1 DEF Settled, Placed
  <2> QED BY <1>2, <1>3, <1>4, <2>1, OthersStay
<1>6. Placed(r)'
  <2>1. Placed(r) /\ request[r].pc \in Busy
    BY <1>1 DEF Settled, Busy, Using
  <2>2. CASE req[r].pc \in {"failed", "answered"}
    BY <1>2, <2>2, PlacedThen DEF Using, Busy
  <2>3. CASE req[r].pc = "evicting" /\ Dead(request[r].bridge)
             /\ req[r].bridge = request[r].bridge
    <3>1. StillDown(request[r].bridge)
      BY <1>2, <1>4, <2>1, <2>3 DEF DownStay, Dead, Down
    <3> QED BY <1>2, <2>3, <3>1, PlacedThen DEF Using
  <2>4. CASE request[r].pc # "opening" /\ req[r].pc = "calling"
             /\ req[r].bridge = request[r].bridge
    <3>1. request[r].pc \in Using
      BY <1>1, <2>4 DEF Using
    <3>2. StillSpared(request[r].key) =>
            table[request[r].key] = request[r].bridge \/ Down(request[r].bridge)
      BY <1>3, <2>1, <3>1, SparedBefore DEF Placed
    <3>3. Down(request[r].bridge) => StillDown(request[r].bridge)
      BY <1>2, <1>4, <2>1, <2>4 DEF DownStay
    <3>4. request[r].key \in stale => Down(request[r].bridge)
      BY <2>1 DEF Placed
    <3> QED BY <1>1, <1>2, <2>4, <3>2, <3>3, <3>4, PlacedThen
  <2> QED BY <1>1, <2>2, <2>3, <2>4
<1>7. NoneDead'
  <2>1. "die" \notin Faults => ~Dead(request[r].bridge)
    BY <1>1, Mine DEF Settled, NoneDead, Busy, Using
  <2> QED BY <1>1, <1>2, <1>4, <2>1 DEF Settled, NoneDead
<1> QED BY <1>5, <1>6, <1>7 DEF Settled

(* The entry that goes may be of a bridge that lives and is used: from here  *)
(* on nothing is said of the session.                                        *)
LEMMA SettledEvict ==
    ASSUME BridgeInv, Settled, NEW r \in Request, Evict(r)
    PROVE  Settled'
<1>1. /\ table' = [table EXCEPT ![request[r].key] = NoOne]
      /\ request' = [request EXCEPT ![r].pc = "failed", ![r].bridge = NoOne]
      /\ stale' \subseteq stale /\ tableLock' = tableLock /\ tableLock = NoOne
      /\ request[r].pc = "evicting"
  BY DEF Evict, Become
<1>2. /\ \A q \in Request : q # r => request'[q] = request[q]
      /\ request'[r].pc = "failed" /\ request'[r].key = request[r].key
      /\ \A q \in Request : request[q].key \in Key
      /\ table \in [Key -> Bridge \cup {NoOne}]
  BY <1>1, InvTyped DEF BridgeInv, TypeOK, RequestState
<1>3. StepOf(r)
  BY <1>2 DEF StepOf, Done
<1>4. DownStay /\ ("die" \notin Faults => \A b \in Bridge : ~Dead(b)')
  <2>1. Become([table EXCEPT ![request[r].key] = NoOne],
               [request EXCEPT ![r].pc = "failed", ![r].bridge = NoOne], bridge)
    BY DEF Evict
  <2> QED BY <2>1, BecomeDown DEF Settled
<1>5. \A q \in Request : q # r => Placed(q)'
  <2>1. \A q \in Request : request[q].pc # "opening"
    BY <1>1, BridgeAssumption DEF Settled, Placed
  <2>2. ASSUME NEW q \in Request, StillSpared(request[q].key)
        PROVE  table'[request[q].key] = table[request[q].key]
    <3>1. "die" \in Faults
      BY <1>1 DEF Settled, NoneDead
    <3>2. request[q].key # request[r].key
      BY <1>2, <2>2, <3>1 DEF StillSpared, Done
    <3> QED BY <1>1, <1>2, <3>2
  <2> QED BY <1>1, <1>3, <1>4, <2>1, <2>2, OthersStay
<1>6. Placed(r)'
  BY <1>2, PlacedThen DEF Using, Busy
<1>7. NoneDead'
  BY <1>2, <1>4 DEF Settled, NoneDead
<1> QED BY <1>5, <1>6, <1>7 DEF Settled

(* The steps that leave the table, its lock and every reference alone. *)
Quiet(r) == Ask(r) \/ Lock(r) \/ GiveUp(r) \/ Call(r) \/ Skip(r) \/ Receive(r)
Wire(b) == Take(b) \/ Answer(b) \/ Die(b) \/ GoDeaf(b)

LEMMA QuietProcess ==
    ASSUME BridgeInv, (\E r \in Request : Quiet(r)) \/ \E b \in Bridge : Wire(b)
    PROVE  \A b \in Bridge :
               \/ bridge'[b].process = bridge[b].process
               \/ "die" \in Faults /\ bridge'[b].process = "dead"
               \/ bridge'[b].process = "deaf"
<1>1. ASSUME NEW r \in Request, Ask(r) \/ Lock(r) \/ GiveUp(r)
      PROVE  bridge' = bridge
  BY <1>1 DEF Ask, Lock, GiveUp
<1>2. ASSUME NEW r \in Request, Call(r)
      PROVE  \A b \in Bridge : bridge'[b].process = bridge[b].process
  <2> DEFINE c == request[r].bridge
  <2>1. PICK n, p : bridge' = [bridge EXCEPT ![c].next = n, ![c].pipe = p]
    BY <1>2 DEF Call
  <2> HIDE DEF c
  <2> QED BY <2>1, InvTyped DEF BridgeState
<1>3. ASSUME NEW c \in Bridge,
             Wire(c) \/ \E r \in Request : (Skip(r) \/ Receive(r)) /\ c = request[r].bridge
      PROVE  \A b \in Bridge :
                 \/ bridge'[b].process = bridge[b].process
                 \/ "die" \in Faults /\ bridge'[b].process = "dead"
                 \/ bridge'[b].process = "deaf"
  <2>1. PICK new \in BridgeState :
          /\ bridge' = [bridge EXCEPT ![c] = new]
          /\ new.process = bridge[c].process
             \/ (new.process = "dead" /\ "die" \in Faults)
             \/ new.process = "deaf"
    BY <1>3, WireChange DEF Wire
  <2> QED BY <2>1, InvTyped
<1>4. ASSUME NEW r \in Request, Skip(r) \/ Receive(r)
      PROVE  request[r].bridge \in Bridge
  BY <1>4, Mine DEF Skip, Receive, Busy, Using
<1> QED BY <1>1, <1>2, <1>3, <1>4 DEF Quiet

LEMMA QuietRequest ==
    ASSUME BridgeInv, (\E r \in Request : Quiet(r)) \/ \E b \in Bridge : Wire(b),
           NEW q \in Request
    PROVE  /\ request'[q].key = request[q].key
           /\ request'[q].bridge = request[q].bridge
           /\ \/ request'[q].pc = request[q].pc
              \/ request[q].pc = "new" /\ request'[q].pc = "table"
              \/ request[q].pc \in Using /\ request'[q].pc \in Using
<1>1. CASE \E b \in Bridge : Wire(b)
  BY <1>1 DEF Wire, Take, Answer, Die, GoDeaf
<1>2. ASSUME NEW r \in Request, Quiet(r)
      PROVE  \/ request' = request
             \/ \E c, l, g, p :
                   /\ \/ request[r].pc = "new" /\ p = "table"
                      \/ request[r].pc \in Using /\ p \in Using
                   /\ request' = [request EXCEPT ![r].pc = p, ![r].channel = c,
                                                 ![r].left = l, ![r].got = g]
  <2>1. CASE Ask(r)
    <3>1. /\ request[r].pc = "new"
          /\ request' = [request EXCEPT ![r].pc = "table",
                            ![r].channel = request[r].channel,
                            ![r].left = request[r].left, ![r].got = request[r].got]
      BY <2>1, InvTyped DEF Ask, RequestState
    <3> QED BY <3>1
  <2>2. CASE Lock(r)
    <3>1. /\ request[r].pc = "lock"
          /\ request' = [request EXCEPT ![r].pc = "calling",
                            ![r].channel = request[r].channel,
                            ![r].left = request[r].left, ![r].got = request[r].got]
      BY <2>2, InvTyped DEF Lock, RequestState
    <3> QED BY <3>1 DEF Using
  <2>3. CASE GiveUp(r)
    <3>1. /\ request[r].pc = "reading"
          /\ request' = [request EXCEPT ![r].pc = "giving up",
                            ![r].channel = request[r].channel,
                            ![r].left = request[r].left, ![r].got = request[r].got]
      BY <2>3, InvTyped DEF GiveUp, CanFail, RequestState
    <3> QED BY <3>1 DEF Using
  <2>4. CASE Call(r)
    <3>1. PICK n : request' = [request EXCEPT ![r].pc = "reading", ![r].channel = n]
      BY <2>4 DEF Call
    <3>2. /\ request[r].pc = "calling"
          /\ request' = [request EXCEPT ![r].pc = "reading", ![r].channel = n,
                            ![r].left = request[r].left, ![r].got = request[r].got]
      BY <2>4, <3>1, InvTyped DEF Call, RequestState
    <3> QED BY <3>2 DEF Using
  <2>5. CASE Skip(r)
    BY <2>5 DEF Skip
  <2>6. CASE Receive(r)
    <3>1. PICK g : request' = [request EXCEPT ![r].pc = "closing", ![r].left = @ - 1,
                                             ![r].got = g]
      BY <2>6 DEF Receive
    <3>2. /\ request[r].pc = "reading"
          /\ request' = [request EXCEPT ![r].pc = "closing",
                            ![r].channel = request[r].channel,
                            ![r].left = request[r].left - 1, ![r].got = g]
      BY <2>6, <3>1, InvTyped DEF Receive, RequestState
    <3> QED BY <3>2 DEF Using
  <2> QED BY <1>2, <2>1, <2>2, <2>3, <2>4, <2>5, <2>6 DEF Quiet
<1>3. CASE \E r \in Request : Quiet(r)
  <2>1. PICK r \in Request : Quiet(r)
    BY <1>3
  <2>2. CASE request' = request
    BY <2>2
  <2>3. CASE \E c, l, g, p :
                   /\ \/ request[r].pc = "new" /\ p = "table"
                      \/ request[r].pc \in Using /\ p \in Using
                   /\ request' = [request EXCEPT ![r].pc = p, ![r].channel = c,
                                                 ![r].left = l, ![r].got = g]
    <3>1. PICK c, l, g, p :
            /\ \/ request[r].pc = "new" /\ p = "table"
               \/ request[r].pc \in Using /\ p \in Using
            /\ request' = [request EXCEPT ![r].pc = p, ![r].channel = c,
                                          ![r].left = l, ![r].got = g]
      BY <2>3
    <3>2. CASE q = r
      <4>1. /\ request'[q].pc = p /\ request'[q].key = request[q].key
            /\ request'[q].bridge = request[q].bridge
        BY <3>1, <3>2, InvTyped DEF RequestState
      <4> QED BY <3>1, <3>2, <4>1
    <3>3. CASE q # r
      <4>1. request'[q] = request[q]
        BY <3>1, <3>3, InvTyped
      <4> QED BY <4>1
    <3> QED BY <3>2, <3>3
  <2> QED BY <1>2, <2>1, <2>2, <2>3
<1> QED BY <1>1, <1>3

LEMMA SettledStays ==
    ASSUME BridgeInv, Settled,
           (\E r \in Request : Quiet(r)) \/ \E b \in Bridge : Wire(b)
    PROVE  Settled'
<1>1. UNCHANGED <<table, stale, tableLock>>
  BY DEF Quiet, Wire, Ask, Lock, GiveUp, Call, Skip, Receive, Take, Answer, Die, GoDeaf
<1>2. \A b \in Bridge : Down(b) => StillDown(b)
  BY QuietProcess DEF Down, StillDown
<1>3. ASSUME NEW q \in Request PROVE Placed(q)'
  <2>1. /\ Placed(q)
        /\ request'[q].key = request[q].key /\ request'[q].bridge = request[q].bridge
        /\ \/ request'[q].pc = request[q].pc
           \/ request[q].pc = "new" /\ request'[q].pc = "table"
           \/ request[q].pc \in Using /\ request'[q].pc \in Using
    BY QuietRequest DEF Settled
  <2>2. request'[q].pc = "opening" => request[q].pc = "opening"
    BY <2>1 DEF Using
  <2>3. request'[q].pc \in Using => request[q].pc \in Using
    BY <2>1 DEF Using
  <2>4. request'[q].pc \in Busy => request[q].pc \in Busy
    BY <2>1 DEF Using, Busy
  <2>5. StillSpared(request[q].key) => Spared(request[q].key)
    <3>1. \A p \in Request : request'[p].key = request[p].key
                            /\ (request[p].pc \in Done => request'[p].pc \in Done)
      BY QuietRequest DEF Done, Using
    <3> QED BY <3>1 DEF Spared, StillSpared
  <2>6. request[q].pc \in Busy => request[q].bridge \in Bridge
    BY Mine
  <2>7. request[q].pc \in Using => request[q].pc \in Busy
    BY DEF Busy
  <2> QED BY <1>1, <1>2, <2>1, <2>2, <2>3, <2>4, <2>5, <2>6, <2>7, PlacedThen DEF Placed
<1>4. NoneDead'
  <2>1. "die" \notin Faults => \A b \in Bridge : ~Dead(b)'
    BY QuietProcess DEF Settled, NoneDead, Dead
  <2>2. "die" \notin Faults => \A q \in Request : request'[q].pc # "evicting"
    BY QuietRequest DEF Settled, NoneDead, Using
  <2> QED BY <2>1, <2>2 DEF NoneDead
<1> QED BY <1>3, <1>4 DEF Settled

(* Half an hour passes only over requests that wait for a deaf bridge. *)
LEMMA SettledIdle ==
    ASSUME BridgeInv, Settled, NEW k \in Key, Idle(k)
    PROVE  Settled'
<1>1. /\ UNCHANGED <<table, tableLock, bridge, bridgeLock, request>>
      /\ stale' = stale \cup {k}
  BY DEF Idle
<1>2. ASSUME NEW r \in Request, request[r].pc \in Busy, request[r].key \in stale'
      PROVE  Down(request[r].bridge)
  <2>1. CASE request[r].key \in stale
    BY <1>2, <2>1 DEF Settled, Placed
  <2>2. CASE request[r].key = k
    <3>1. request[r].pc \notin {"new", "answered", "failed"}
      BY <1>2 DEF Busy, Using
    <3>2. Waits(r)
      BY <2>2, <3>1 DEF Idle
    <3> QED BY <3>2 DEF Waits, Blocked, Down
  <2> QED BY <1>1, <1>2, <2>1, <2>2
<1>3. ASSUME NEW r \in Request PROVE Placed(r)'
  BY <1>1, <1>2 DEF Settled, Placed, Spared, Down
<1> QED BY <1>1, <1>3 DEF Settled, NoneDead, Dead

LEMMA SettledInductive ==
    ASSUME BridgeInv, Settled, [Next]_vars
    PROVE  Settled'
<1>1. ASSUME NEW r \in Request, Ask(r) \/ Work(r) PROVE Settled'
  <2>1. CASE Quiet(r)
    BY <2>1, SettledStays
  <2>2. CASE Reuse(r) \/ Spawn(r) \/ Greeted(r)
    BY <2>2, SettledReuse, SettledSpawn, SettledGreeted
  <2>3. CASE OpenFails(r) \/ Close(r) \/ CallFails(r)
    BY <2>3, SettledLeaves
  <2>4. CASE Evict(r)
    BY <2>4, SettledEvict
  <2> QED BY <1>1, <2>1, <2>2, <2>3, <2>4 DEF Work, Quiet
<1>2. ASSUME NEW b \in Bridge, Take(b) \/ Answer(b) \/ Die(b) \/ GoDeaf(b)
      PROVE  Settled'
  BY <1>2, SettledStays DEF Wire
<1>3. ASSUME NEW k \in Key, Idle(k) PROVE Settled'
  BY <1>3, SettledIdle
<1>4. CASE Rest \/ UNCHANGED vars
  BY <1>4 DEF Rest, vars, Settled, NoneDead, Placed, Spared, Dead, Down
<1> QED BY <1>1, <1>2, <1>3, <1>4 DEF Next

LEMMA SettledAlways == Spec => [](BridgeInv /\ Settled)
<1>1. Init => BridgeInv /\ Settled
  BY InitInv, InitSettled
<1>2. BridgeInv /\ Settled /\ [Next]_vars => (BridgeInv /\ Settled)'
  BY BridgeInductive, SettledInductive
<1> QED BY <1>1, <1>2, PTL DEF Spec

LEMMA AtMostOne ==
    ASSUME NEW S, NEW x, S \subseteq {x}
    PROVE  Cardinality(S) <= 1
<1>1. Cardinality({x}) = 1 /\ IsFiniteSet({x})
  BY FS_Singleton
<1> QED BY <1>1, FS_Subset, FS_CardinalityType

LEMMA SettledIsOne ==
    ASSUME BridgeInv, Settled, NEW k \in Key, Spared(k)
    PROVE  Cardinality(LiveBridges(k)) <= 1
<1> DEFINE S == LiveBridges(k)
<1> USE DEF LiveBridges
<1>1. \A r \in Request :
        request[r].key = k /\ request[r].bridge \in Bridge =>
            request[r].pc \in Using \cup {"opening"}
  BY BridgeAssumption DEF BridgeInv, Holding, Settled, NoneDead, Spared, Busy, Done
<1>2. CASE table[k] # NoOne
  <2>1. S \subseteq {table[k]}
    BY <1>1, <1>2 DEF Settled, Placed, Down
  <2> QED BY <2>1, AtMostOne
<1>3. CASE table[k] = NoOne
  <2>1. \A r \in Request :
          /\ request[r].key = k /\ request[r].bridge \in Bridge
          /\ bridge[request[r].bridge].process = "up"
          => r = tableLock
    BY <1>1, <1>3, BridgeAssumption DEF Settled, Placed, Down
  <2>2. S \subseteq {request[tableLock].bridge}
    BY <1>3, <2>1, BridgeAssumption
  <2> QED BY <2>2, AtMostOne
<1> QED BY <1>2, <1>3

(* Whatever fails, until a request of the session has come as far as to      *)
(* evict a bridge that died on it, the session has one bridge at work.       *)
THEOREM OneBridgeUntilEvicted == Spec => []OneUntilEvicted
<1>1. BridgeInv /\ Settled => OneUntilEvicted
  BY SettledIsOne DEF OneUntilEvicted, Spared, Done
<1> QED BY <1>1, SettledAlways, PTL

(* While bridges do not die a session has one bridge at work, as the comment *)
(* at cockpit.rs:576-578 says: no request comes to evict.                    *)
THEOREM SessionsHaveOneBridge ==
    ASSUME "die" \notin Faults
    PROVE  Spec => []OneBridge
<1>1. BridgeInv /\ Settled => OneBridge
  BY SettledIsOne DEF OneBridge, Spared
<1> QED BY <1>1, SettledAlways, PTL
=============================================================================
