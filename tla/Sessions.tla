------------------------------ MODULE Sessions ------------------------------
(***************************************************************************)
(* Signing in and out, and the file operations of a session: src/main.rs,  *)
(* src/helper.rs and src/proto.rs.                                         *)
(*                                                                         *)
(* A session is an entry of the daemon's map and a helper process that     *)
(* runs as the user.  A request finds its session in the map and from then *)
(* on holds a reference to it; a blocking job takes the session's lock,    *)
(* sends one message, waits for one answer and lets go.  Signing out takes *)
(* the entry out of the map; the helper is killed when the last reference  *)
(* to the session is dropped.                                              *)
(*                                                                         *)
(* Messages are whole here: each end of a channel has one writer and one   *)
(* reader, and a frame cut short by the death of a process is an error to  *)
(* its reader, exactly as a frame that never came.  The files are those of *)
(* one user, shared by all of that user's sessions.  Of the operations,    *)
(* list is a read here, mkdir a write that cannot be cut short, and rename *)
(* is left out.                                                            *)
(***************************************************************************)
EXTENDS Sequences, Integers

CONSTANTS
    Tokens,      \* sessions there can be at once
    Reqs,        \* requests that can be in flight at once
    Files, Values,
    Gone, Torn,  \* a file that is not there, and one that is half-written
    Mixed,       \* and one that two helpers wrote at once
    NoReq, NoJob, NoAnswer, Failed,
    Faults       \* subset of {"hangup", "killed", "crash", "disk"}

Jobs == [token : Tokens, op : {"read", "remove"}, path : Files]
        \cup [token : Tokens, op : {"write"}, path : Files, payload : Values]
Contents == Values \cup {Gone, Torn, Mixed}
Answers == [to : Jobs, data : Contents]

ASSUME SessionAssumption ==
    /\ {Gone, Torn, Mixed} \cap Values = {}
    /\ Gone # Torn /\ Torn # Mixed /\ Mixed # Gone
    /\ NoReq \notin Reqs
    /\ NoJob \notin Jobs
    /\ {NoAnswer, Failed} \cap Answers = {} /\ NoAnswer # Failed

VARIABLES
    sessions,    \* tokens in the daemon's map
    helper,      \* the helper process of each token
    work,        \* the message each helper is carrying out
    toHelper,    \* messages sent and not yet read
    fromHelper,  \* answers sent and not yet read
    lock,        \* who holds the lock of each session's helper
    fs,          \* the user's files
    pc,          \* how far each request has got
    job,         \* what each request asked for
    answer,      \* what its job came back with
    left         \* requests whose client has gone away

vars == <<sessions, helper, work, toHelper, fromHelper, lock, fs, pc, job, answer, left>>
channel == <<work, toHelper, fromHelper>>
request == <<pc, job, answer, left>>

\* With the lock held for a whole round trip there is never a second message
\* in a channel.
AtMostOne(S) == {<<>>} \cup {<<x>> : x \in S}

\* The types of the state.
TypeOK ==
    /\ sessions \subseteq Tokens
    /\ helper \in [Tokens -> {"up", "dead"}]
    /\ work \in [Tokens -> Jobs \cup {NoJob}]
    /\ toHelper \in [Tokens -> AtMostOne(Jobs)]
    /\ fromHelper \in [Tokens -> AtMostOne(Answers)]
    /\ lock \in [Tokens -> Reqs \cup {NoReq}]
    /\ fs \in [Files -> Contents]
    /\ pc \in [Reqs -> {"idle", "waiting", "locked", "sent", "answered"}]
    /\ job \in [Reqs -> Jobs \cup {NoJob}]
    /\ answer \in [Reqs -> Answers \cup {NoAnswer, Failed}]
    /\ left \subseteq Reqs

Init ==
    /\ sessions = {}
    /\ helper = [t \in Tokens |-> "dead"]
    /\ work = [t \in Tokens |-> NoJob]
    /\ toHelper = [t \in Tokens |-> <<>>]
    /\ fromHelper = [t \in Tokens |-> <<>>]
    /\ lock = [t \in Tokens |-> NoReq]
    /\ fs = [f \in Files |-> Gone]
    /\ pc = [r \in Reqs |-> "idle"]
    /\ job = [r \in Reqs |-> NoJob]
    /\ answer = [r \in Reqs |-> NoAnswer]
    /\ left = {}

Token(r) == job[r].token
Held(t) == {r \in Reqs : pc[r] \in {"waiting", "locked", "sent"} /\ Token(r) = t}

\* A helper is gone for good, with what it was doing and had yet to read.
\* What it has already answered can still be read.
Kill(T) ==
    /\ helper' = [t \in Tokens |-> IF t \in T THEN "dead" ELSE helper[t]]
    /\ work' = [t \in Tokens |-> IF t \in T THEN NoJob ELSE work[t]]
    /\ toHelper' = [t \in Tokens |-> IF t \in T THEN <<>> ELSE toHelper[t]]

-----------------------------------------------------------------------------
(* The daemon. *)

\* PAM, then the helper, then the map; nothing in between can be cut short.
\* The token is 32 random bytes: one that nothing refers to any more stands
\* for a new one, with a helper and a channel of its own.
Login(t) ==
    /\ t \notin sessions /\ helper[t] = "dead" /\ Held(t) = {}
    /\ sessions' = sessions \cup {t}
    /\ helper' = [helper EXCEPT ![t] = "up"]
    /\ fromHelper' = [fromHelper EXCEPT ![t] = <<>>]
    /\ UNCHANGED <<work, toHelper, lock, fs, request>>

\* Mutant: signing out kills the helper, whoever is using it.
LogoutKills(t) ==
    /\ t \in sessions
    /\ sessions' = sessions \ {t}
    /\ Kill({t})
    /\ UNCHANGED <<fromHelper, lock, fs, request>>

\* The map's reference to the session is dropped; that kills the helper only
\* if no request holds another.
Logout(t) ==
    /\ t \in sessions
    /\ sessions' = sessions \ {t}
    /\ IF Held(t) = {} THEN Kill({t}) ELSE UNCHANGED <<helper, work, toHelper>>
    /\ UNCHANGED <<fromHelper, lock, fs, request>>

\* A request with a good cookie: session_of, then a blocking job.
Call(r) ==
    /\ pc[r] = "idle"
    /\ \E j \in Jobs : /\ j.token \in sessions
                       /\ job' = [job EXCEPT ![r] = j]
    /\ pc' = [pc EXCEPT ![r] = "waiting"]
    /\ UNCHANGED <<sessions, helper, channel, lock, fs, answer, left>>

Lock(r) ==
    /\ pc[r] = "waiting"
    /\ lock[Token(r)] = NoReq
    /\ lock' = [lock EXCEPT ![Token(r)] = r]
    /\ pc' = [pc EXCEPT ![r] = "locked"]
    /\ UNCHANGED <<sessions, helper, channel, fs, job, answer, left>>

\* Mutant: the last request to let go leaves the helper running.
LetGoOnly(r, a) ==
    /\ answer' = [answer EXCEPT ![r] = a]
    /\ pc' = [pc EXCEPT ![r] = "answered"]
    /\ lock' = [lock EXCEPT ![Token(r)] = NoReq]
    /\ UNCHANGED <<helper, work, toHelper>>

\* The job ends: the lock goes, then its reference to the session, and with
\* the last reference the helper.
LetGo(r, a) ==
    LET t == Token(r) IN
    /\ answer' = [answer EXCEPT ![r] = a]
    /\ pc' = [pc EXCEPT ![r] = "answered"]
    /\ lock' = [lock EXCEPT ![t] = NoReq]
    /\ IF t \notin sessions /\ Held(t) = {r}
       THEN Kill({t}) ELSE UNCHANGED <<helper, work, toHelper>>

Send(r) ==
    LET t == Token(r) IN
    /\ pc[r] = "locked"
    /\ \/ /\ helper[t] = "up"
          /\ toHelper' = [toHelper EXCEPT ![t] = Append(@, job[r])]
          /\ pc' = [pc EXCEPT ![r] = "sent"]
          /\ UNCHANGED <<helper, work, lock, answer>>
       \/ helper[t] = "dead" /\ LetGo(r, Failed)
    /\ UNCHANGED <<sessions, fromHelper, fs, job, left>>

\* Mutant: the end of the channel is waited for like any other message.
ReceiveForever(r) ==
    LET t == Token(r) IN
    /\ pc[r] = "sent"
    /\ fromHelper[t] # <<>>
    /\ LetGo(r, Head(fromHelper[t]))
    /\ fromHelper' = [fromHelper EXCEPT ![t] = Tail(@)]
    /\ UNCHANGED <<sessions, fs, job, left>>

Receive(r) ==
    LET t == Token(r) IN
    /\ pc[r] = "sent"
    /\ \/ /\ fromHelper[t] # <<>>
          /\ LetGo(r, Head(fromHelper[t]))
          /\ fromHelper' = [fromHelper EXCEPT ![t] = Tail(@)]
       \/ /\ fromHelper[t] = <<>>
          /\ helper[t] = "dead"
          /\ LetGo(r, Failed)
          /\ UNCHANGED fromHelper
    /\ UNCHANGED <<sessions, fs, job, left>>

\* The handler answers the client, if it is still there to be answered.
Reply(r) ==
    /\ pc[r] = "answered"
    /\ pc' = [pc EXCEPT ![r] = "idle"]
    /\ job' = [job EXCEPT ![r] = NoJob]
    /\ answer' = [answer EXCEPT ![r] = NoAnswer]
    /\ left' = left \ {r}
    /\ UNCHANGED <<sessions, helper, channel, lock, fs>>

\* Mutant: the round trip is dropped with the handler, and with it the lock.
HangupDrops(r) ==
    /\ "hangup" \in Faults
    /\ pc[r] \in {"waiting", "locked", "sent"}
    /\ pc' = [pc EXCEPT ![r] = "answered"]
    /\ answer' = [answer EXCEPT ![r] = Failed]
    /\ lock' = IF pc[r] = "waiting" THEN lock ELSE [lock EXCEPT ![Token(r)] = NoReq]
    /\ left' = left \cup {r}
    /\ UNCHANGED <<sessions, helper, channel, fs, job>>

\* The client goes away: its handler is dropped, the blocking job is not.
Hangup(r) ==
    /\ "hangup" \in Faults
    /\ pc[r] \in {"waiting", "locked", "sent"}
    /\ r \notin left
    /\ left' = left \cup {r}
    /\ UNCHANGED <<sessions, helper, channel, lock, fs, pc, job, answer>>

-----------------------------------------------------------------------------
(* The helper: one message at a time.  Writing empties the file first. *)

Take(t) ==
    /\ helper[t] = "up"
    /\ work[t] = NoJob
    /\ toHelper[t] # <<>>
    /\ LET j == Head(toHelper[t]) IN
          /\ work' = [work EXCEPT ![t] = j]
          /\ fs' = IF j.op = "write" THEN [fs EXCEPT ![j.path] = Torn] ELSE fs
    /\ toHelper' = [toHelper EXCEPT ![t] = Tail(@)]
    /\ UNCHANGED <<sessions, helper, fromHelper, lock, request>>

Writing(t, f) == work[t] # NoJob /\ work[t].op = "write" /\ work[t].path = f

\* What a file can be once helper t has done its job.  A file that another
\* helper is writing, or has written or removed since t emptied it, can end up
\* as t's, as both's, or as it is.
Outcomes(t) ==
    LET j == work[t]
        clash == fs[j.path] # Torn \/ \E u \in Tokens \ {t} : Writing(u, j.path) IN
    CASE j.op = "read"   -> {fs[j.path]}
      [] j.op = "remove" -> {Gone}
      [] j.op = "write"  -> {j.payload}
                            \cup (IF clash THEN {Mixed, fs[j.path]} ELSE {})
                            \cup (IF "disk" \in Faults THEN {fs[j.path]} ELSE {})

\* The answer carries what was read; to names the message it answers.
Dispatch(t) ==
    LET j == work[t] IN
    /\ helper[t] = "up"
    /\ j # NoJob
    /\ \E c \in Outcomes(t) : fs' = [fs EXCEPT ![j.path] = c]
    /\ fromHelper' = [fromHelper EXCEPT ![t] = Append(@, [to |-> j, data |-> fs[j.path]])]
    /\ work' = [work EXCEPT ![t] = NoJob]
    /\ UNCHANGED <<sessions, helper, toHelper, lock, request>>

\* Something else kills the helper: the user, or the kernel for memory.
HelperDies(t) ==
    /\ "killed" \in Faults
    /\ helper[t] = "up"
    /\ Kill({t})
    /\ UNCHANGED <<sessions, fromHelper, lock, fs, request>>

\* The daemon dies.  Its unit's control group goes with it, helpers included,
\* and the daemon that is started in its place knows no session.
Crash ==
    /\ "crash" \in Faults
    /\ sessions # {}
    /\ sessions' = {}
    /\ Kill({t \in Tokens : helper[t] = "up"})
    /\ fromHelper' = [t \in Tokens |-> <<>>]
    /\ lock' = [t \in Tokens |-> NoReq]
    /\ pc' = [r \in Reqs |-> "idle"]
    /\ job' = [r \in Reqs |-> NoJob]
    /\ answer' = [r \in Reqs |-> NoAnswer]
    /\ left' = {}
    /\ UNCHANGED fs

Job(r) == Lock(r) \/ Send(r) \/ Receive(r) \/ Reply(r)
Serve(t) == Take(t) \/ Dispatch(t)

Next ==
    \/ \E t \in Tokens : Login(t) \/ Logout(t) \/ Serve(t) \/ HelperDies(t)
    \/ \E r \in Reqs : Call(r) \/ Job(r) \/ Hangup(r)
    \/ Crash

Spec == Init /\ [][Next]_vars

\* Blocking jobs are run by the runtime, helpers by the kernel, and a file
\* operation of the kernel comes to an end.
FairSpec ==
    /\ Spec
    /\ \A r \in Reqs : WF_vars(Job(r))
    /\ \A t \in Tokens : WF_vars(Serve(t))

-----------------------------------------------------------------------------
\* An answer is the answer to the question: however clients leave and
\* helpers die, no request is given what another one asked for.
OwnAnswer ==
    \A r \in Reqs :
        pc[r] = "answered" /\ answer[r] # Failed => answer[r].to = job[r]

\* A write is cut short only by what kills a helper from outside or by the
\* end of the daemon: no sign-out and no client that leaves, in whatever
\* order they come, leaves half a file behind (main.rs:244-255, 317).
WritesEnd ==
    [][\A f \in Files :
          /\ \E t \in Tokens : Writing(t, f)
          /\ fs'[f] = Torn
          /\ ~ \E t \in Tokens : Writing(t, f)'
          => Crash \/ \E t \in Tokens : HelperDies(t)]_vars

\* No helper outlives its session by more than the requests in flight: there
\* is never one that nothing will kill.
NoStrayHelper ==
    \A t \in Tokens : helper[t] = "up" => t \in sessions \/ Held(t) # {}

\* Whoever takes the lock of a session lets go of it, even if the helper dies
\* meanwhile: one request cannot block the session's others for good.
LockLetGo == \A t \in Tokens : lock[t] # NoReq ~> lock[t] = NoReq

\* The helper of a session that has been signed out goes in the end.
SignedOutHelperGoes ==
    \A t \in Tokens : (helper[t] = "up" /\ t \notin sessions) ~> helper[t] = "dead"
=============================================================================
