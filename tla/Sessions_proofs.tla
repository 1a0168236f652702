--------------------------- MODULE Sessions_proofs ---------------------------
(***************************************************************************)
(* Theorems about Sessions, for any number of sessions, requests and files *)
(* and every choice of faults.                                             *)
(***************************************************************************)
EXTENDS Sessions, TLAPS

(* Next as one action at a time. *)
LEMMA NextCases ==
    ASSUME Next
    PROVE  \/ \E t \in Tokens : Login(t) \/ Logout(t) \/ Take(t) \/ Dispatch(t) \/ HelperDies(t)
           \/ \E r \in Reqs :
                Call(r) \/ Lock(r) \/ Send(r) \/ Receive(r) \/ Reply(r) \/ Hangup(r)
           \/ Crash
  BY DEF Next, Job, Serve

LEMMA JobParts ==
    ASSUME NEW j \in Jobs
    PROVE  /\ j.token \in Tokens /\ j.path \in Files
           /\ j.op \in {"read", "remove", "write"}
           /\ j.op = "write" => j.payload \in Values
<1>1. CASE j \in [token : Tokens, op : {"read", "remove"}, path : Files]
  BY <1>1
<1>2. CASE j \in [token : Tokens, op : {"write"}, path : Files, payload : Values]
  BY <1>2
<1> QED BY <1>1, <1>2 DEF Jobs

-----------------------------------------------------------------------------
(* The conversation of a session.  Whoever has sent holds the lock, and at  *)
(* any time its message is in one place: on the way, at work, or answered.  *)
(* Nobody else's is anywhere, so what comes back is the answer to it.       *)

Asked == \A r \in Reqs : pc[r] # "idle" => job[r] \in Jobs

LockInv == \A r \in Reqs : pc[r] \in {"locked", "sent"} => lock[Token(r)] = r

Quiet(t) == toHelper[t] = <<>> /\ work[t] = NoJob /\ fromHelper[t] = <<>>

OneIn(t, j) ==
    \/ toHelper[t] = <<j>> /\ work[t] = NoJob /\ fromHelper[t] = <<>>
    \/ toHelper[t] = <<>> /\ work[t] = j /\ fromHelper[t] = <<>>
    \/ /\ toHelper[t] = <<>> /\ work[t] = NoJob
       /\ \E c \in Contents : fromHelper[t] = <<[to |-> j, data |-> c]>>

Conversation ==
    \A t \in Tokens :
        \/ Quiet(t)
        \/ \E r \in Reqs : pc[r] = "sent" /\ Token(r) = t /\ OneIn(t, job[r])

DeadIsStill ==
    \A t \in Tokens : helper[t] = "dead" => toHelper[t] = <<>> /\ work[t] = NoJob

SessionInv ==
    TypeOK /\ Asked /\ LockInv /\ Conversation /\ DeadIsStill /\ OwnAnswer

(* An action that leaves a session's channel alone, and whoever has sent in  *)
(* it, leaves its conversation alone.                                       *)
LEMMA SameTalk ==
    ASSUME NEW t \in Tokens,
           Quiet(t) \/ \E r \in Reqs : pc[r] = "sent" /\ Token(r) = t /\ OneIn(t, job[r]),
           toHelper'[t] = toHelper[t], work'[t] = work[t], fromHelper'[t] = fromHelper[t],
           \A r \in Reqs : pc[r] = "sent" /\ Token(r) = t => pc'[r] = "sent" /\ job'[r] = job[r]
    PROVE  Quiet(t)' \/ \E r \in Reqs : (pc[r] = "sent" /\ Token(r) = t /\ OneIn(t, job[r]))'
  BY DEF Quiet, OneIn, Token

LEMMA InitInv == Init => SessionInv
  BY SessionAssumption
  DEF Init, SessionInv, TypeOK, Asked, LockInv, Conversation, Quiet, OwnAnswer,
      DeadIsStill, AtMostOne, Contents

LEMMA LoginStep ==
    ASSUME SessionInv, NEW t \in Tokens, Login(t)
    PROVE  SessionInv'
<1> USE DEF SessionInv
<1>1. TypeOK'
  BY DEF Login, TypeOK, AtMostOne, request
<1>2. Asked' /\ LockInv' /\ DeadIsStill' /\ OwnAnswer'
  BY DEF Login, TypeOK, Asked, LockInv, DeadIsStill, OwnAnswer, Token, request
<1>3. ASSUME NEW u \in Tokens
      PROVE  (Quiet(u) \/ \E r \in Reqs : pc[r] = "sent" /\ Token(r) = u /\ OneIn(u, job[r]))'
  <2>1. CASE u = t
    <3>1. ~ \E r \in Reqs : pc[r] = "sent" /\ Token(r) = t
      BY DEF Login, Held
    <3>2. Quiet(t)
      BY <3>1 DEF Conversation
    <3>3. Quiet(t)'
      BY <3>2 DEF Login, Quiet, TypeOK
    <3> QED BY <2>1, <3>3
  <2>2. CASE u # t
    BY <2>2, SameTalk DEF Login, Conversation, TypeOK, request
  <2> QED BY <2>1, <2>2
<1> QED BY <1>1, <1>2, <1>3 DEF Conversation

(* Killing helpers: what is left of a conversation is what was answered. *)
LEMMA KillStep ==
    ASSUME SessionInv, NEW T \in SUBSET Tokens, Kill(T), sessions' \in SUBSET Tokens,
           UNCHANGED <<fromHelper, lock, fs, request>>
    PROVE  SessionInv'
<1> USE DEF SessionInv
<1>1. TypeOK'
  BY DEF Kill, TypeOK, AtMostOne, request
<1>2. Asked' /\ LockInv' /\ DeadIsStill' /\ OwnAnswer'
  BY DEF Kill, TypeOK, Asked, LockInv, DeadIsStill, OwnAnswer, Token, request
<1>3. ASSUME NEW u \in Tokens
      PROVE  (Quiet(u) \/ \E r \in Reqs : pc[r] = "sent" /\ Token(r) = u /\ OneIn(u, job[r]))'
  <2>1. CASE u \in T
    <3>1. toHelper'[u] = <<>> /\ work'[u] = NoJob /\ fromHelper'[u] = fromHelper[u]
      BY <2>1 DEF Kill
    <3>2. CASE fromHelper[u] = <<>>
      BY <3>1, <3>2 DEF Quiet
    <3>3. ASSUME NEW r \in Reqs, pc[r] = "sent", Token(r) = u,
                 NEW c \in Contents, fromHelper[u] = <<[to |-> job[r], data |-> c]>>
          PROVE  (pc[r] = "sent" /\ Token(r) = u /\ OneIn(u, job[r]))'
      BY <3>1, <3>3 DEF OneIn, request, Token
    <3> QED BY <3>2, <3>3 DEF Conversation, Quiet, OneIn
  <2>2. CASE u \notin T
    BY <2>2, SameTalk DEF Kill, Conversation, TypeOK, request
  <2> QED BY <2>1, <2>2
<1> QED BY <1>1, <1>2, <1>3 DEF Conversation

(* The lock goes and the answer comes: the same for Send and Receive. *)
LEMMA LetGoStep ==
    ASSUME SessionInv, NEW r \in Reqs, pc[r] \in {"locked", "sent"},
           NEW a \in Answers \cup {Failed}, LetGo(r, a),
           a # Failed => a.to = job[r],
           Quiet(Token(r)) \/ pc[r] = "sent",
           fromHelper' = [fromHelper EXCEPT ![Token(r)] = <<>>],
           toHelper[Token(r)] = <<>>, work[Token(r)] = NoJob,
           UNCHANGED <<sessions, fs, job, left>>
    PROVE  SessionInv'
<1> USE DEF SessionInv
<1> DEFINE t == Token(r)
<1>1. job[r] \in Jobs /\ t \in Tokens /\ lock[t] = r
  BY JobParts DEF Asked, LockInv, Token
<1>2. /\ toHelper' \in [Tokens -> AtMostOne(Jobs)]
      /\ work' \in [Tokens -> Jobs \cup {NoJob}]
      /\ helper' \in [Tokens -> {"up", "dead"}]
      /\ toHelper'[t] = <<>> /\ work'[t] = NoJob
      /\ \A u \in Tokens \ {t} : toHelper'[u] = toHelper[u] /\ work'[u] = work[u]
  BY <1>1 DEF LetGo, Kill, TypeOK, AtMostOne
<1>3. TypeOK'
  BY <1>1, <1>2 DEF LetGo, TypeOK, AtMostOne
<1>4. Asked'
  BY DEF LetGo, TypeOK, Asked
<1>5. LockInv'
  <2> SUFFICES ASSUME NEW q \in Reqs, pc'[q] \in {"locked", "sent"} PROVE lock'[Token(q)'] = q
    BY DEF LockInv
  <2>1. q # r /\ pc'[q] = pc[q]
    BY DEF LetGo, TypeOK
  <2>2. lock[Token(q)] = q /\ Token(q)' = Token(q)
    BY <2>1 DEF LockInv, Token
  <2> QED BY <1>1, <2>1, <2>2 DEF LetGo, TypeOK
<1>6. OwnAnswer' /\ DeadIsStill'
  BY <1>1 DEF LetGo, Kill, TypeOK, OwnAnswer, DeadIsStill
<1>7. ASSUME NEW u \in Tokens
      PROVE  (Quiet(u) \/ \E q \in Reqs : pc[q] = "sent" /\ Token(q) = u /\ OneIn(u, job[q]))'
  <2>1. CASE u = t
    BY <1>1, <1>2, <2>1 DEF Quiet, TypeOK
  <2>2. CASE u # t
    <3>1. \A q \in Reqs : pc[q] = "sent" /\ Token(q) = u => pc'[q] = "sent" /\ job'[q] = job[q]
      BY <2>2 DEF LetGo, TypeOK
    <3> QED BY <1>1, <1>2, <2>2, <3>1, SameTalk DEF Conversation, TypeOK
  <2> QED BY <2>1, <2>2
<1> QED BY <1>3, <1>4, <1>5, <1>6, <1>7 DEF Conversation

(* Whoever holds the lock and has not sent finds the channel empty; whoever  *)
(* has sent finds nothing but its own.                                       *)
LEMMA Alone ==
    ASSUME SessionInv, NEW r \in Reqs, pc[r] \in {"locked", "sent"}
    PROVE  /\ job[r] \in Jobs /\ Token(r) \in Tokens
           /\ lock[Token(r)] = r
           /\ pc[r] = "locked" => Quiet(Token(r))
           /\ pc[r] = "sent" => Quiet(Token(r)) \/ OneIn(Token(r), job[r])
<1>1. job[r] \in Jobs /\ Token(r) \in Tokens /\ lock[Token(r)] = r
  BY JobParts DEF SessionInv, Asked, LockInv, Token
<1>2. ASSUME NEW q \in Reqs, pc[q] = "sent", Token(q) = Token(r)
      PROVE  q = r
  BY <1>1, <1>2 DEF SessionInv, LockInv
<1> QED BY <1>1, <1>2 DEF SessionInv, Conversation

LEMMA SendStep ==
    ASSUME SessionInv, NEW r \in Reqs, Send(r)
    PROVE  SessionInv'
<1> DEFINE t == Token(r)
<1>1. job[r] \in Jobs /\ t \in Tokens /\ lock[t] = r /\ Quiet(t)
  BY Alone DEF Send
<1>2. CASE LetGo(r, Failed)
  <2>1. fromHelper' = [fromHelper EXCEPT ![t] = <<>>]
    BY <1>1 DEF Send, Quiet, SessionInv, TypeOK
  <2> QED BY <1>1, <1>2, <2>1, LetGoStep DEF Send, Quiet
<1>3. CASE /\ helper[t] = "up"
           /\ toHelper' = [toHelper EXCEPT ![t] = Append(@, job[r])]
           /\ pc' = [pc EXCEPT ![r] = "sent"]
           /\ UNCHANGED <<helper, work, lock, answer>>
  <2> USE DEF SessionInv
  <2>1. toHelper'[t] = <<job[r]>> /\ \A u \in Tokens \ {t} : toHelper'[u] = toHelper[u]
    BY <1>1, <1>3 DEF Quiet, TypeOK
  <2>2. TypeOK'
    <3>1. toHelper' \in [Tokens -> AtMostOne(Jobs)]
      BY <1>1, <1>3, <2>1 DEF TypeOK, AtMostOne
    <3> QED BY <1>3, <3>1 DEF Send, TypeOK
  <2>3. Asked' /\ LockInv' /\ OwnAnswer'
    BY <1>3 DEF Send, TypeOK, Asked, LockInv, OwnAnswer, Token
  <2>4. DeadIsStill'
    BY <1>1, <1>3, <2>1 DEF TypeOK, DeadIsStill
  <2>5. ASSUME NEW u \in Tokens
        PROVE  (Quiet(u) \/ \E q \in Reqs : pc[q] = "sent" /\ Token(q) = u /\ OneIn(u, job[q]))'
    <3>1. CASE u = t
      <4>1. pc'[r] = "sent" /\ Token(r)' = u /\ OneIn(u, job[r])'
        BY <1>1, <1>3, <2>1, <3>1 DEF Send, Quiet, OneIn, Token, TypeOK
      <4> QED BY <4>1
    <3>2. CASE u # t
      BY <1>3, <2>1, <3>2, SameTalk DEF Send, Conversation, TypeOK
    <3> QED BY <3>1, <3>2
  <2> QED BY <2>2, <2>3, <2>4, <2>5 DEF Conversation
<1> QED BY <1>2, <1>3 DEF Send

LEMMA ReceiveStep ==
    ASSUME SessionInv, NEW r \in Reqs, Receive(r)
    PROVE  SessionInv'
<1> DEFINE t == Token(r)
<1>1. /\ job[r] \in Jobs /\ t \in Tokens /\ lock[t] = r
      /\ Quiet(t) \/ OneIn(t, job[r])
  BY Alone DEF Receive
<1>2. CASE /\ fromHelper[t] # <<>>
           /\ LetGo(r, Head(fromHelper[t]))
           /\ fromHelper' = [fromHelper EXCEPT ![t] = Tail(@)]
  <2>1. PICK c \in Contents : fromHelper[t] = <<[to |-> job[r], data |-> c]>>
    BY <1>1, <1>2 DEF Quiet, OneIn
  <2>2. Head(fromHelper[t]) = [to |-> job[r], data |-> c] /\ Tail(fromHelper[t]) = <<>>
    BY <2>1
  <2>3. Head(fromHelper[t]) \in Answers /\ Head(fromHelper[t]).to = job[r]
    BY <1>1, <2>2 DEF Answers
  <2>4. toHelper[t] = <<>> /\ work[t] = NoJob
    BY <1>1, <1>2 DEF Quiet, OneIn
  <2>5. fromHelper' = [fromHelper EXCEPT ![t] = <<>>]
    BY <1>1, <1>2, <2>2
  <2> QED BY <1>2, <2>3, <2>4, <2>5, LetGoStep DEF Receive
<1>3. CASE fromHelper[t] = <<>> /\ helper[t] = "dead" /\ LetGo(r, Failed) /\ UNCHANGED fromHelper
  <2>1. toHelper[t] = <<>> /\ work[t] = NoJob
    BY <1>1, <1>3 DEF SessionInv, DeadIsStill
  <2> QED BY <1>1, <1>3, <2>1, LetGoStep DEF Receive, SessionInv, TypeOK
<1> QED BY <1>2, <1>3 DEF Receive

LEMMA TakeStep ==
    ASSUME SessionInv, NEW t \in Tokens, Take(t)
    PROVE  SessionInv'
<1> USE DEF SessionInv
<1>1. PICK r \in Reqs : /\ pc[r] = "sent" /\ Token(r) = t
                       /\ toHelper[t] = <<job[r]>> /\ work[t] = NoJob /\ fromHelper[t] = <<>>
  BY DEF Take, Conversation, Quiet, OneIn
<1>2. job[r] \in Jobs /\ Head(toHelper[t]) = job[r] /\ Tail(toHelper[t]) = <<>>
  BY <1>1, Alone
<1>3. /\ work' = [work EXCEPT ![t] = job[r]]
      /\ toHelper' = [toHelper EXCEPT ![t] = <<>>]
  BY <1>2 DEF Take
<1>4. fs' \in [Files -> Contents]
  BY <1>2, JobParts DEF Take, TypeOK, Contents
<1>5. TypeOK'
  BY <1>2, <1>3, <1>4 DEF Take, TypeOK, AtMostOne, request
<1>6. Asked' /\ LockInv' /\ DeadIsStill' /\ OwnAnswer'
  BY <1>3 DEF Take, TypeOK, Asked, LockInv, DeadIsStill, OwnAnswer, Token, request
<1>7. ASSUME NEW u \in Tokens
      PROVE  (Quiet(u) \/ \E q \in Reqs : pc[q] = "sent" /\ Token(q) = u /\ OneIn(u, job[q]))'
  <2>1. CASE u = t
    <3>1. (pc[r] = "sent" /\ Token(r) = u /\ OneIn(u, job[r]))'
      BY <1>1, <1>3, <2>1 DEF Take, OneIn, Token, TypeOK, request
    <3> QED BY <3>1
  <2>2. CASE u # t
    BY <1>3, <2>2, SameTalk DEF Take, Conversation, TypeOK, request
  <2> QED BY <2>1, <2>2
<1> QED BY <1>5, <1>6, <1>7 DEF Conversation

LEMMA OutcomeTypes ==
    ASSUME TypeOK, NEW t \in Tokens, work[t] \in Jobs, NEW c \in Outcomes(t)
    PROVE  c \in Contents
<1>1. work[t].path \in Files /\ work[t].op \in {"read", "remove", "write"}
  BY JobParts
<1>2. fs[work[t].path] \in Contents /\ Gone \in Contents /\ Mixed \in Contents
  BY <1>1 DEF TypeOK, Contents
<1>3. CASE work[t].op = "read"
  BY <1>2, <1>3 DEF Outcomes
<1>4. CASE work[t].op = "remove"
  BY <1>2, <1>4 DEF Outcomes
<1>5. CASE work[t].op = "write"
  <2>1. work[t].payload \in Contents
    BY <1>5, JobParts DEF Contents
  <2> QED BY <1>2, <1>5, <2>1 DEF Outcomes
<1> QED BY <1>1, <1>3, <1>4, <1>5

LEMMA DispatchStep ==
    ASSUME SessionInv, NEW t \in Tokens, Dispatch(t)
    PROVE  SessionInv'
<1> USE DEF SessionInv
<1>1. PICK r \in Reqs : /\ pc[r] = "sent" /\ Token(r) = t
                       /\ toHelper[t] = <<>> /\ work[t] = job[r] /\ fromHelper[t] = <<>>
  BY DEF Dispatch, Conversation, Quiet, OneIn
<1>2. job[r] \in Jobs /\ job[r].path \in Files
  BY <1>1, Alone, JobParts
<1> DEFINE a == [to |-> job[r], data |-> fs[job[r].path]]
<1>3. fs[job[r].path] \in Contents /\ a \in Answers
  BY <1>2 DEF TypeOK, Answers
<1>4. fromHelper' = [fromHelper EXCEPT ![t] = <<a>>]
  BY <1>1 DEF Dispatch
<1>5. fs' \in [Files -> Contents]
  BY <1>1, <1>2, OutcomeTypes DEF Dispatch, TypeOK
<1>6. TypeOK'
  <2>1. fromHelper' \in [Tokens -> AtMostOne(Answers)]
    BY <1>3, <1>4 DEF TypeOK, AtMostOne
  <2>2. work' = [work EXCEPT ![t] = NoJob]
        /\ UNCHANGED <<sessions, helper, toHelper, lock, pc, job, answer, left>>
    BY DEF Dispatch, request
  <2> QED BY <1>5, <2>1, <2>2 DEF TypeOK
<1>7. Asked' /\ LockInv' /\ DeadIsStill' /\ OwnAnswer'
  BY DEF Dispatch, TypeOK, Asked, LockInv, DeadIsStill, OwnAnswer, Token, request
<1>8. ASSUME NEW u \in Tokens
      PROVE  (Quiet(u) \/ \E q \in Reqs : pc[q] = "sent" /\ Token(q) = u /\ OneIn(u, job[q]))'
  <2>1. CASE u = t
    <3>1. /\ toHelper'[u] = <<>> /\ work'[u] = NoJob /\ fromHelper'[u] = <<a>>
          /\ pc'[r] = "sent" /\ Token(r)' = u /\ job'[r] = job[r]
      BY <1>1, <1>4, <2>1 DEF Dispatch, Token, TypeOK, request
    <3>2. OneIn(u, job[r])'
      BY <1>3, <3>1 DEF OneIn
    <3> QED BY <3>1, <3>2
  <2>2. CASE u # t
    BY <1>4, <2>2, SameTalk DEF Dispatch, Conversation, TypeOK, request
  <2> QED BY <2>1, <2>2
<1> QED BY <1>6, <1>7, <1>8 DEF Conversation

(* The actions of a request that touch no channel. *)
LEMMA OtherSteps ==
    ASSUME SessionInv, NEW r \in Reqs, Call(r) \/ Lock(r) \/ Reply(r) \/ Hangup(r)
    PROVE  SessionInv'
<1> USE DEF SessionInv
<1>1. TypeOK'
  <2>1. CASE Call(r)
    BY <2>1 DEF Call, TypeOK, channel
  <2>2. CASE Lock(r)
    <3>1. job[r] \in Jobs
      BY <2>2 DEF Lock, Asked
    <3> QED BY <2>2, <3>1 DEF Lock, TypeOK, channel
  <2>3. CASE Reply(r)
    BY <2>3 DEF Reply, TypeOK, channel
  <2>4. CASE Hangup(r)
    BY <2>4 DEF Hangup, TypeOK, channel
  <2> QED BY <2>1, <2>2, <2>3, <2>4
<1>2. Asked' /\ DeadIsStill' /\ OwnAnswer'
  BY DEF Call, Lock, Reply, Hangup, TypeOK, Asked, DeadIsStill, OwnAnswer, channel
<1>3. LockInv'
  <2> SUFFICES ASSUME NEW q \in Reqs, pc'[q] \in {"locked", "sent"}
               PROVE  lock'[Token(q)'] = q
    BY DEF LockInv
  <2>1. CASE Lock(r)
    <3>1. Token(r) \in Tokens /\ Token(q)' = Token(q)
      BY <2>1, JobParts DEF Lock, Asked, Token
    <3>2. CASE q = r
      BY <2>1, <3>1, <3>2 DEF Lock, TypeOK
    <3>3. CASE q # r
      <4>1. lock[Token(q)] = q
        BY <2>1, <3>3 DEF Lock, TypeOK, LockInv
      <4> QED BY <2>1, <3>1, <3>3, <4>1, SessionAssumption DEF Lock, TypeOK
    <3> QED BY <3>2, <3>3
  <2>2. CASE Call(r) \/ Reply(r) \/ Hangup(r)
    BY <2>2 DEF Call, Reply, Hangup, TypeOK, LockInv, Token
  <2> QED BY <2>1, <2>2
<1>4. ASSUME NEW u \in Tokens
      PROVE  (Quiet(u) \/ \E q \in Reqs : pc[q] = "sent" /\ Token(q) = u /\ OneIn(u, job[q]))'
  BY SameTalk DEF Call, Lock, Reply, Hangup, Conversation, TypeOK, channel
<1> QED BY <1>1, <1>2, <1>3, <1>4 DEF Conversation

LEMMA CrashStep ==
    ASSUME SessionInv, Crash
    PROVE  SessionInv'
<1> USE DEF SessionInv
<1>1. \A t \in Tokens : toHelper'[t] = <<>> /\ work'[t] = NoJob /\ fromHelper'[t] = <<>>
  BY DEF Crash, Kill, DeadIsStill, TypeOK
<1>2. TypeOK'
  BY DEF Crash, Kill, TypeOK, AtMostOne
<1>3. Conversation'
  BY <1>1 DEF Conversation, Quiet
<1> QED BY <1>1, <1>2, <1>3 DEF Crash, Asked, LockInv, DeadIsStill, OwnAnswer

LEMMA SessionStep == SessionInv /\ [Next]_vars => SessionInv'
<1> SUFFICES ASSUME SessionInv, [Next]_vars PROVE SessionInv'
  OBVIOUS
<1>1. CASE UNCHANGED vars
  BY <1>1 DEF vars, channel, request, SessionInv, TypeOK, Asked, LockInv, Conversation,
              Quiet, OneIn, DeadIsStill, OwnAnswer, Token
<1>2. ASSUME NEW t \in Tokens, Logout(t)
      PROVE  SessionInv'
  <2>1. sessions' \in SUBSET Tokens
    BY <1>2 DEF Logout, SessionInv, TypeOK
  <2>2. CASE Kill({t})
    BY <1>2, <2>1, <2>2, KillStep DEF Logout
  <2>3. CASE UNCHANGED <<helper, work, toHelper>>
    <3>1. Kill({})
      BY <2>3 DEF Kill, SessionInv, TypeOK
    <3> QED BY <1>2, <2>1, <3>1, KillStep DEF Logout
  <2> QED BY <1>2, <2>2, <2>3 DEF Logout
<1>3. ASSUME NEW t \in Tokens, HelperDies(t)
      PROVE  SessionInv'
  <2>1. sessions' \in SUBSET Tokens
    BY <1>3 DEF HelperDies, SessionInv, TypeOK
  <2> QED BY <1>3, <2>1, KillStep DEF HelperDies
<1> QED
  BY <1>1, <1>2, <1>3, LoginStep, TakeStep, DispatchStep, SendStep, ReceiveStep,
     OtherSteps, CrashStep, NextCases

LEMMA SessionAlways == Spec => []SessionInv
  BY InitInv, SessionStep, PTL DEF Spec

(* Every reachable state of the sessions has the types the code gives it,   *)
(* and there is never a second message in a channel.                        *)
THEOREM SessionTypes == Spec => []TypeOK
<1>1. SessionInv => TypeOK
  BY DEF SessionInv
<1> QED BY <1>1, SessionAlways, PTL

(* No request is given the answer to another one, whatever clients leave,   *)
(* helpers die or daemons crash (main.rs:241-255).                          *)
THEOREM AnswersAreOwn == Spec => []OwnAnswer
<1>1. SessionInv => OwnAnswer
  BY DEF SessionInv
<1> QED BY <1>1, SessionAlways, PTL

-----------------------------------------------------------------------------
(* Helpers.  A helper is kept by its session's entry in the map or by a      *)
(* request that holds a reference, and the last of them to go kills it.      *)

LEMMA StrayStep == SessionInv /\ NoStrayHelper /\ [Next]_vars => NoStrayHelper'
<1> SUFFICES ASSUME SessionInv, NoStrayHelper, [Next]_vars,
                    NEW t \in Tokens, helper'[t] = "up"
             PROVE  t \in sessions' \/ Held(t)' # {}
  BY DEF NoStrayHelper
<1> USE DEF SessionInv
<1>1. ASSUME helper[t] = "up", t \in sessions => t \in sessions',
             \A r \in Held(t) : pc'[r] \in {"waiting", "locked", "sent"} /\ job'[r] = job[r]
      PROVE  t \in sessions' \/ Held(t)' # {}
  BY <1>1 DEF NoStrayHelper, Held, Token
<1>2. CASE UNCHANGED vars
  BY <1>1, <1>2 DEF vars, request, Held
<1>3. ASSUME NEW u \in Tokens, Login(u) \/ Take(u) \/ Dispatch(u) \/ HelperDies(u)
      PROVE  t \in sessions' \/ Held(t)' # {}
  BY <1>1, <1>3 DEF Login, Take, Dispatch, HelperDies, Kill, TypeOK, request, Held
<1>4. ASSUME NEW u \in Tokens, Logout(u)
      PROVE  t \in sessions' \/ Held(t)' # {}
  <2>1. CASE u = t
    <3>1. Held(t) # {}
      BY <1>4, <2>1 DEF Logout, Kill
    <3> QED BY <1>4, <3>1 DEF Logout, Held, Token, request
  <2>2. CASE u # t
    BY <1>1, <1>4, <2>2 DEF Logout, Kill, TypeOK, request, Held
  <2> QED BY <2>1, <2>2
<1>5. ASSUME NEW r \in Reqs, Call(r) \/ Lock(r) \/ Reply(r) \/ Hangup(r)
      PROVE  t \in sessions' \/ Held(t)' # {}
  BY <1>1, <1>5 DEF Call, Lock, Reply, Hangup, TypeOK, Held
<1>6. ASSUME NEW r \in Reqs, NEW a, LetGo(r, a), pc[r] \in {"locked", "sent"},
             UNCHANGED <<sessions, job>>
      PROVE  t \in sessions' \/ Held(t)' # {}
  <2>1. helper[t] = "up" /\ \A q \in Reqs \ {r} : pc'[q] = pc[q] /\ job'[q] = job[q]
    BY <1>6 DEF LetGo, Kill, TypeOK
  <2>2. CASE Token(r) = t
    <3>1. t \in sessions \/ Held(t) # {r}
      BY <1>6, <2>2 DEF LetGo, Kill
    <3>2. r \in Held(t)
      BY <1>6, <2>2 DEF Held
    <3>3. CASE t \in sessions
      BY <1>6, <3>3
    <3>4. CASE Held(t) # {r}
      <4>1. PICK q \in Held(t) : q # r
        BY <3>2, <3>4
      <4> QED BY <2>1, <4>1 DEF Held, Token
    <3> QED BY <3>1, <3>3, <3>4
  <2>3. CASE Token(r) # t
    <3>1. r \notin Held(t)
      BY <2>3 DEF Held
    <3> QED BY <1>1, <1>6, <2>1, <3>1 DEF Held
  <2> QED BY <2>2, <2>3
<1>7. ASSUME NEW r \in Reqs, Send(r) \/ Receive(r)
      PROVE  t \in sessions' \/ Held(t)' # {}
  <2>1. CASE \E a : LetGo(r, a)
    BY <1>6, <1>7, <2>1 DEF Send, Receive
  <2>2. CASE pc' = [pc EXCEPT ![r] = "sent"] /\ UNCHANGED <<helper, sessions, job>>
    BY <1>1, <2>2 DEF TypeOK, Held
  <2> QED BY <1>7, <2>1, <2>2 DEF Send, Receive
<1>8. CASE Crash
  BY <1>8 DEF Crash, Kill, TypeOK
<1> QED BY <1>2, <1>3, <1>4, <1>5, <1>7, <1>8, NextCases

(* There is never a helper that nothing will kill: not after signing out,   *)
(* not after a client has left, not after a crash (main.rs:317,             *)
(* helper.rs:194-199).                                                      *)
THEOREM NoHelperStrays == Spec => []NoStrayHelper
<1>1. Init => NoStrayHelper
  BY DEF Init, NoStrayHelper
<1> QED BY <1>1, StrayStep, SessionAlways, PTL DEF Spec
=============================================================================
