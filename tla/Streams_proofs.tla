---------------------------- MODULE Streams_proofs ----------------------------
(***************************************************************************)
(* Theorems about Streams, for all users, requests and faults.             *)
(***************************************************************************)
EXTENDS Streams, TLAPS

-----------------------------------------------------------------------------
(* Types.  A request that is under way is some user's.                     *)

OfSomeone == \A r \in Request : request[r].pc # "idle" => request[r].user \in User

Pcs == {"idle", "template", "write", "reload", "start", "stop", "stopping", "uninstall",
        "forget", "connect", "answer"}

Requests == [pc : Pcs, op : {"none", "open", "close", "remove", "resize"},
             user : User \cup {NoOne}]

RequestsOK == request \in [Request -> Requests] /\ OfSomeone

DiskOK ==
    /\ listed \in BOOLEAN /\ installed \in BOOLEAN
    /\ template \subseteq User /\ loaded \subseteq User
    /\ untold \subseteq User /\ dir \subseteq User

Paths == [Socket -> {"absent", "live", "dead"}]
Stages == {"none", "prepare", "clear", "settle", "compose", "run", "drawing", "cleanup",
           "exit"}
States == {"inactive", "active", "kill", "unlink", "sigterm"}

ProcessesOK ==
    /\ unit \in [User -> States]
    /\ stage \in [User -> Stages]
    /\ vnc \in [User -> {"none", "starting", "serving"}]
    /\ file \in [User -> Paths]
    /\ app \in [User -> {"none", "here", "elsewhere", "left", "ending"}]
    /\ size \in [User -> Size]

TypeInv == RequestsOK /\ DiskOK /\ ProcessesOK

LEMMA TypeInvIsTypeOK == TypeInv => TypeOK
  BY DEF TypeInv, RequestsOK, DiskOK, ProcessesOK, Requests, Pcs, Paths, Stages, States,
         TypeOK

LEMMA TypeInit == Init => TypeInv
  BY DEF Init, TypeInv, RequestsOK, OfSomeone, DiskOK, ProcessesOK, Requests, Pcs, Idle,
         Paths, Stages, States, Size

(* A request that goes on stays whose it is, until it is answered.         *)
LEMMA AtTyped ==
    ASSUME RequestsOK, NEW r \in Request, NEW p \in Pcs,
           request[r].pc # "idle" \/ p = "idle"
    PROVE  At(r, p) \in Requests /\ (At(r, p).pc # "idle" => At(r, p).user \in User)
<1>1. request[r] \in Requests
  BY DEF RequestsOK
<1> QED
  BY <1>1 DEF At, Idle, RequestsOK, OfSomeone, Requests, Pcs

LEMMA GoesOn ==
    ASSUME RequestsOK, NEW r \in Request, request[r].pc # "idle",
           NEW p \in Pcs, GoesTo(r, p)
    PROVE  RequestsOK'
  BY AtTyped DEF GoesTo, RequestsOK, OfSomeone

LEMMA SameRequests == RequestsOK /\ UNCHANGED request => RequestsOK'
  BY DEF RequestsOK, OfSomeone

LEMMA SameDisk == DiskOK /\ UNCHANGED disk => DiskOK'
  BY DEF DiskOK, disk

LEMMA SameProcesses == ProcessesOK /\ UNCHANGED <<unit, processes>> => ProcessesOK'
  BY DEF ProcessesOK, processes

LEMMA AfterStopTyped == \A r \in Request : AfterStop(r) \in Pcs
  BY DEF AfterStop, Pcs

(* What processes that were killed leave is of the types.                  *)
LEMMA LeftTyped ==
    ASSUME ProcessesOK, NEW u \in User
    PROVE  Abandoned(u) \subseteq Paths /\ Undrawn(u) \subseteq
           {"none", "here", "elsewhere", "left", "ending"}
  BY DEF ProcessesOK, Abandoned, Undrawn, Paths

-----------------------------------------------------------------------------
(* The steps that keep the types, group by group.                          *)

LEMMA RequestsStep ==
    ASSUME RequestsOK, Next
    PROVE  RequestsOK'
<1>1. ASSUME NEW r \in Request, Handle(r)
      PROVE  RequestsOK'
  <2>1. CASE FindTemplate(r)
    BY <2>1, GoesOn DEF FindTemplate, Pcs
  <2>2. CASE WriteTemplate(r)
    BY <2>2, GoesOn DEF WriteTemplate, Pcs
  <2>3. CASE Reload(r)
    BY <2>3, GoesOn DEF Reload, Pcs
  <2>4. CASE Start(r)
    BY <2>4, GoesOn DEF Start, Pcs
  <2>5. CASE Stop(r)
    <3> DEFINE u == request[r].user
               p == IF u \notin loaded \/ unit[u] = "inactive" THEN AfterStop(r)
                    ELSE "stopping"
    <3>1. GoesTo(r, p) /\ request[r].pc # "idle"
      BY <2>5 DEF Stop
    <3>2. p \in Pcs
      BY AfterStopTyped DEF Pcs
    <3> HIDE DEF p
    <3> QED
      BY <3>1, <3>2, GoesOn
  <2>6. CASE Uninstall(r)
    BY <2>6, GoesOn DEF Uninstall, Pcs
  <2>7. CASE Forget(r)
    BY <2>7, GoesOn DEF Forget, Pcs
  <2>8. CASE Connect(r)
    BY <2>8, GoesOn DEF Connect, Pcs
  <2>9. CASE NoAnswer(r)
    BY <2>9, GoesOn DEF NoAnswer, Pcs
  <2> QED
    BY <1>1, <2>1, <2>2, <2>3, <2>4, <2>5, <2>6, <2>7, <2>8, <2>9 DEF Handle
<1>2. ASSUME NEW r \in Request, Resize(r) \/ ReloadFails(r)
      PROVE  RequestsOK'
  BY <1>2, GoesOn DEF Resize, ReloadFails, Pcs
<1>4. ASSUME NEW r \in Request, NEW u \in User,
             NEW op \in {"open", "close", "remove", "resize"}, Ask(r, u, op)
      PROVE  RequestsOK'
  BY <1>4 DEF Ask, RequestsOK, OfSomeone, Requests, Pcs
<1>5. ASSUME NEW u \in User, Session(u)
      PROVE  RequestsOK'
  <2>1. UNCHANGED request
    BY <1>5 DEF Session, Prepare, ClearRunning, Settle, StartVnc, BindVnc, BindControl,
                RunApp, Returned, Cleanup, Exit
  <2> QED
    BY <2>1, SameRequests
<1>6. ASSUME NEW u \in User, EndRest(u)
      PROVE  RequestsOK'
  <2> DEFINE next(r) == IF request[r].pc = "stopping" /\ request[r].user = u
                        THEN At(r, AfterStop(r)) ELSE request[r]
  <2>1. request' = [r \in Request |-> next(r)]
    BY <1>6 DEF EndRest
  <2>2. ASSUME NEW r \in Request
        PROVE  /\ next(r) \in Requests
               /\ next(r).pc # "idle" => next(r).user \in User
    BY AfterStopTyped, AtTyped DEF RequestsOK, OfSomeone
  <2> HIDE DEF next
  <2> QED
    BY <2>1, <2>2 DEF RequestsOK, OfSomeone
<1>7. ASSUME NEW u \in User,
             \/ StopApp(u) \/ StopUnlink(u) \/ Wedged(u) \/ Quit(u) \/ Ended(u)
             \/ Elsewhere(u) \/ Killed(u) \/ VncDies(u)
      PROVE  RequestsOK'
  <2>1. UNCHANGED request
    BY <1>7 DEF StopApp, StopUnlink, Wedged, Quit, Ended, Elsewhere, Killed, VncDies
  <2> QED
    BY <2>1, SameRequests
<1>8. CASE DaemonDies \/ Reboot
  BY <1>8 DEF DaemonDies, Reboot, RequestsOK, OfSomeone, Requests, Idle, Pcs
<1> QED
  BY <1>1, <1>2, <1>4, <1>5, <1>6, <1>7, <1>8 DEF Next, System

LEMMA DiskStep ==
    ASSUME RequestsOK, DiskOK, Next
    PROVE  DiskOK'
<1>1. ASSUME NEW r \in Request, Handle(r) \/ ReloadFails(r) \/ Resize(r)
      PROVE  DiskOK'
  <2>1. request[r].pc # "idle" => request[r].user \in User
    BY DEF RequestsOK, OfSomeone
  <2> QED
    BY <1>1, <2>1
    DEF Handle, FindTemplate, WriteTemplate, Reload, Start, Stop, Uninstall, Forget,
        Connect, NoAnswer, Resize, ReloadFails, DiskOK, disk
<1>2. ASSUME NEW r \in Request, NEW u \in User, NEW op \in {"open", "close", "remove", "resize"},
             Ask(r, u, op)
      PROVE  DiskOK'
  BY <1>2, SameDisk DEF Ask
<1>3. ASSUME NEW u \in User,
             \/ Session(u) \/ System(u) \/ Wedged(u) \/ Quit(u) \/ Ended(u)
             \/ Elsewhere(u) \/ Killed(u) \/ VncDies(u)
      PROVE  DiskOK'
  <2>1. UNCHANGED disk
    BY <1>3
    DEF Session, Prepare, ClearRunning, Settle, StartVnc, BindVnc, BindControl, RunApp,
        Returned, Cleanup, Exit, System, StopApp, StopUnlink, EndRest, Wedged, Quit,
        Ended, Elsewhere, Killed, VncDies
  <2> QED
    BY <2>1, SameDisk
<1>4. CASE DaemonDies
  <2>1. \A r \in Request : request[r].pc = "reload" => request[r].user \in User
    BY DEF RequestsOK, OfSomeone
  <2> QED
    BY <1>4, <2>1 DEF DaemonDies, DiskOK
<1>5. CASE Reboot
  BY <1>5 DEF Reboot, DiskOK
<1> QED
  BY <1>1, <1>2, <1>3, <1>4, <1>5 DEF Next

LEMMA ProcessesStep ==
    ASSUME RequestsOK, ProcessesOK, Next
    PROVE  ProcessesOK'
<1>1. ASSUME NEW r \in Request, Handle(r) \/ ReloadFails(r) \/ Resize(r)
      PROVE  ProcessesOK'
  <2>1. CASE Start(r)
    BY <2>1 DEF Start, To, ProcessesOK, States, Stages
  <2>2. CASE Stop(r)
    <3>1. unit' \in [User -> States]
      BY <2>2 DEF Stop, ProcessesOK, States
    <3>2. UNCHANGED processes
      BY <2>2 DEF Stop
    <3> QED
      BY <3>1, <3>2 DEF ProcessesOK, processes
  <2>3. CASE Uninstall(r)
    BY <2>3 DEF Uninstall, ProcessesOK
  <2>4. CASE Resize(r)
    <3>1. size' \in [User -> Size]
      BY <2>4 DEF Resize, ProcessesOK, Size
    <3>2. UNCHANGED <<unit, stage, vnc, file, app>>
      BY <2>4 DEF Resize
    <3> QED
      BY <3>1, <3>2 DEF ProcessesOK
  <2>5. CASE \/ FindTemplate(r) \/ WriteTemplate(r) \/ Reload(r) \/ Forget(r)
             \/ Connect(r) \/ NoAnswer(r) \/ ReloadFails(r)
    <3>1. UNCHANGED <<unit, processes>>
      BY <2>5 DEF FindTemplate, WriteTemplate, Reload, Forget, Connect, NoAnswer,
         ReloadFails
    <3> QED
      BY <3>1, SameProcesses
  <2> QED
    BY <1>1, <2>1, <2>2, <2>3, <2>4, <2>5 DEF Handle
<1>2. ASSUME NEW r \in Request, NEW u \in User, NEW op \in {"open", "close", "remove", "resize"},
             Ask(r, u, op)
      PROVE  ProcessesOK'
  BY <1>2, SameProcesses DEF Ask
<1>3. ASSUME NEW u \in User, Session(u)
      PROVE  ProcessesOK'
  <2> USE DEF ProcessesOK, Paths, Stages, States, To, Socket
  <2>1. CASE Prepare(u)
    <3>1. CASE u \in dir
      BY <2>1, <3>1 DEF Prepare
    <3>2. CASE u \notin dir
      BY <2>1, <3>2 DEF Prepare
    <3> QED
      BY <3>1, <3>2
  <2>2. CASE ClearRunning(u)
    BY <2>2 DEF ClearRunning
  <2>3. CASE Settle(u)
    BY <2>3 DEF Settle
  <2>4. CASE StartVnc(u)
    BY <2>4 DEF StartVnc, Size
  <2>5. CASE BindVnc(u)
    <3>1. CASE file[u]["rfb"] = "absent"
      <4>1. file' \in [User -> Paths]
        BY <2>5, <3>1 DEF BindVnc
      <4> QED
        BY <2>5, <3>1, <4>1 DEF BindVnc
    <3>2. CASE file[u]["rfb"] # "absent"
      BY <2>5, <3>2 DEF BindVnc
    <3> QED
      BY <3>1, <3>2
  <2>6. CASE BindControl(u)
    BY <2>6 DEF BindControl
  <2>7. CASE RunApp(u)
    BY <2>7 DEF RunApp
  <2>8. CASE Returned(u)
    BY <2>8 DEF Returned
  <2>9. CASE Cleanup(u)
    BY <2>9 DEF Cleanup
  <2>10. CASE Exit(u)
    BY <2>10 DEF Exit, Gone, Size
  <2> QED
    BY <1>3, <2>1, <2>2, <2>3, <2>4, <2>5, <2>6, <2>7, <2>8, <2>9, <2>10 DEF Session
<1>4. ASSUME NEW u \in User, EndRest(u) \/ Killed(u) \/ VncDies(u)
      PROVE  ProcessesOK'
  <2>1. CASE EndRest(u)
    BY <2>1, LeftTyped DEF EndRest, Gone, ProcessesOK, States, Stages, Size
  <2>2. CASE Killed(u)
    BY <2>2, LeftTyped DEF Killed, Gone, ProcessesOK, States, Stages, Size
  <2>3. CASE VncDies(u)
    <3>1. PICK left \in Abandoned(u) :
              file' = [file EXCEPT ![u]["rfb"] = left["rfb"], ![u]["wctl"] = left["wctl"]]
      BY <2>3 DEF VncDies
    <3>2. left \in Paths
      BY LeftTyped
    <3>3. file' \in [User -> Paths]
      BY <3>1, <3>2 DEF ProcessesOK, Paths, Socket
    <3> QED
      BY <2>3, <3>3 DEF VncDies, ProcessesOK
  <2> QED
    BY <1>4, <2>1, <2>2, <2>3
<1>5. ASSUME NEW u \in User,
             \/ StopApp(u) \/ StopUnlink(u) \/ Wedged(u) \/ Quit(u) \/ Ended(u)
             \/ Elsewhere(u)
      PROVE  ProcessesOK'
  <2> USE DEF ProcessesOK, Paths, States, Socket
  <2>1. CASE StopApp(u)
    BY <2>1 DEF StopApp
  <2>2. CASE StopUnlink(u)
    BY <2>2 DEF StopUnlink
  <2>3. CASE Wedged(u)
    BY <2>3 DEF Wedged, processes
  <2>4. CASE Quit(u) \/ Ended(u) \/ Elsewhere(u)
    BY <2>4 DEF Quit, Ended, Elsewhere
  <2> QED
    BY <1>5, <2>1, <2>2, <2>3, <2>4
<1>6. CASE DaemonDies
  BY <1>6, SameProcesses DEF DaemonDies
<1>7. CASE Reboot
  BY <1>7 DEF Reboot, ProcessesOK, Paths, Stages, States, Size
<1> QED
  BY <1>1, <1>2, <1>3, <1>4, <1>5, <1>6, <1>7 DEF Next, System

LEMMA TypeInvStep == TypeInv /\ [Next]_vars => TypeInv'
<1>1. ASSUME TypeInv, Next
      PROVE  TypeInv'
  BY <1>1, RequestsStep, DiskStep, ProcessesStep DEF TypeInv
<1>2. ASSUME TypeInv, UNCHANGED vars
      PROVE  TypeInv'
  BY <1>2, SameRequests, SameDisk, SameProcesses DEF TypeInv, vars
<1> QED
  BY <1>1, <1>2

\* The types of every state: of what is on the disk, of each session's
\* processes and sockets, and of the requests, for all users and faults.
THEOREM StreamsTypes == Spec => []TypeOK
<1> QED
  BY TypeInit, TypeInvStep, TypeInvIsTypeOK, PTL DEF Spec

-----------------------------------------------------------------------------
(* The template.  A request that has written it stays where it is until it *)
(* has told the manager, or the machine starts anew.                       *)

LEMMA ToldOrTelling ==
    ASSUME RequestsOK, Next, NEW q \in Request, request[q].pc = "reload"
    PROVE  \/ request'[q] = request[q]
           \/ request[q].user \in loaded' \cup untold'
           \/ loaded' = template'
<1>1. CASE \E r \in Request : Handle(r) \/ ReloadFails(r) \/ Resize(r)
  <2>1. PICK r \in Request : Handle(r) \/ ReloadFails(r) \/ Resize(r)
    BY <1>1
  <2>2. CASE r = q
    <3>1. Reload(r) \/ ReloadFails(r)
      BY <2>1, <2>2
      DEF Handle, FindTemplate, WriteTemplate, Start, Stop, Uninstall, Forget, Connect,
          NoAnswer, Resize
    <3> QED
      BY <2>2, <3>1 DEF Reload, ReloadFails
  <2>3. CASE r # q
    BY <2>1, <2>3
    DEF Handle, FindTemplate, WriteTemplate, Reload, Start, Stop, Uninstall, Forget,
        Connect, NoAnswer, Resize, ReloadFails, GoesTo, RequestsOK
  <2> QED
    BY <2>2, <2>3
<1>2. CASE \E r \in Request, u \in User, op \in {"open", "close", "remove", "resize"} :
              Ask(r, u, op)
  BY <1>2 DEF Ask, RequestsOK
<1>3. ASSUME NEW u \in User,
             \/ Session(u) \/ System(u) \/ Wedged(u) \/ Quit(u) \/ Ended(u)
             \/ Elsewhere(u) \/ Killed(u) \/ VncDies(u)
      PROVE  request'[q] = request[q]
  <2>1. CASE EndRest(u)
    BY <2>1 DEF EndRest
  <2>2. CASE ~EndRest(u)
    BY <1>3, <2>2
    DEF Session, Prepare, ClearRunning, Settle, StartVnc, BindVnc, BindControl, RunApp,
        Returned, Cleanup, Exit, System, StopApp, StopUnlink, Wedged, Quit, Ended,
        Elsewhere, Killed, VncDies
  <2> QED
    BY <2>1, <2>2
<1>4. CASE DaemonDies \/ Reboot
  BY <1>4 DEF DaemonDies, Reboot
<1> QED
  BY <1>1, <1>2, <1>3, <1>4 DEF Next

LEMMA TemplateGrows ==
    ASSUME RequestsOK, Next, NEW u \in template', u \notin template
    PROVE  \E r \in Request : request'[r].pc = "reload" /\ request'[r].user = u
<1>1. PICK r \in Request : WriteTemplate(r)
  BY DEF Next, Handle, FindTemplate, WriteTemplate, Reload, Start, Stop, Uninstall, Forget,
         Connect, NoAnswer, Resize, ReloadFails, Ask, Session, Prepare, ClearRunning, Settle,
         StartVnc, BindVnc, BindControl, RunApp, Returned, Cleanup, Exit, System, StopApp,
         StopUnlink, EndRest, Wedged, Quit, Ended, Elsewhere, Killed, VncDies, DaemonDies,
         Reboot, disk
<1>2. u = request[r].user
  BY <1>1 DEF WriteTemplate
<1>3. request'[r] = [request[r] EXCEPT !.pc = "reload"]
  BY <1>1 DEF WriteTemplate, GoesTo, At, RequestsOK
<1>4. request[r] \in Requests
  BY DEF RequestsOK
<1> QED
  BY <1>2, <1>3, <1>4 DEF Requests

LEMMA KnownStays ==
    ASSUME Next
    PROVE  \/ loaded \subseteq loaded' /\ untold \subseteq untold' \cup loaded'
           \/ loaded' = template'
  BY DEF Next, Handle, FindTemplate, WriteTemplate, Reload, Start, Stop, Uninstall, Forget,
         Connect, NoAnswer, Resize, ReloadFails, Ask, Session, Prepare, ClearRunning, Settle,
         StartVnc, BindVnc, BindControl, RunApp, Returned, Cleanup, Exit, System, StopApp,
         StopUnlink, EndRest, Wedged, Quit, Ended, Elsewhere, Killed, VncDies, DaemonDies,
         Reboot, disk

\* An open that finds the template of an earlier open in place need not tell
\* the manager of it: whoever wrote it has, or is about to, however many
\* requests run at once and whenever the machine is started anew, unless the
\* manager could not be told or the daemon died first.
THEOREM TemplateIsKnown == Spec => []WrittenIsLoaded
<1>1. Init => WrittenIsLoaded
  BY DEF Init, WrittenIsLoaded
<1>2. TypeInv /\ WrittenIsLoaded /\ [Next]_vars => WrittenIsLoaded'
  <2>1. ASSUME TypeInv, WrittenIsLoaded, Next, NEW u \in template',
               u \notin loaded' \cup untold'
        PROVE  \E r \in Request : request'[r].pc = "reload" /\ request'[r].user = u
    <3>1. RequestsOK
      BY <2>1 DEF TypeInv
    <3>2. CASE u \notin template
      BY <2>1, <3>1, <3>2, TemplateGrows
    <3>3. CASE u \in template
      <4>1. u \notin loaded \cup untold
        BY <2>1, KnownStays
      <4>2. PICK r \in Request : request[r].pc = "reload" /\ request[r].user = u
        BY <2>1, <3>3, <4>1 DEF WrittenIsLoaded
      <4>3. request'[r] = request[r]
        BY <2>1, <3>1, <4>2, ToldOrTelling
      <4> QED
        BY <4>2, <4>3
    <3> QED
      BY <3>2, <3>3
  <2>2. ASSUME WrittenIsLoaded, UNCHANGED vars
        PROVE  WrittenIsLoaded'
    BY <2>2 DEF WrittenIsLoaded, vars, disk
  <2> QED
    BY <2>1, <2>2 DEF WrittenIsLoaded
<1> QED
  BY <1>1, <1>2, TypeInit, TypeInvStep, PTL DEF Spec

-----------------------------------------------------------------------------
(* A session.  A unit that is not active has no processes; there is an RFB *)
(* server only from its start to the cleanup; the copy that an earlier     *)
(* session left is gone, or going, once the ground has been cleared; and   *)
(* sizes are taken, and differ from the first, only while it is drawn.     *)

Early == {"none", "prepare", "clear", "settle", "compose", "exit"}
Cleared == {"settle", "compose", "run"}
Drawn == {"run", "drawing", "cleanup"}

InOrderOf(u) ==
    /\ unit[u] = "inactive" => stage[u] = "none"
    /\ stage[u] \in Early => vnc[u] = "none"
    /\ stage[u] \in Cleared => app[u] \notin {"here", "left"}
    /\ unit[u] = "active" /\ vnc[u] = "serving" => file[u]["rfb"] = "live"
    /\ file[u]["ctl"] = "live" => stage[u] \in Drawn
    /\ stage[u] \notin Drawn \cup {"exit"} => size[u] = "entry"

SessionInv == \A u \in User : InOrderOf(u)

(* A step of one user's session leaves the sessions of the others alone.   *)
LEMMA OthersInOrder ==
    ASSUME SessionInv, NEW u \in User, NEW v \in User, v # u,
           unit'[v] = unit[v], stage'[v] = stage[v], vnc'[v] = vnc[v],
           file'[v] = file[v], app'[v] = app[v], size'[v] = size[v]
    PROVE  InOrderOf(v)'
  BY DEF SessionInv, InOrderOf

LEMMA SameOrder == SessionInv /\ UNCHANGED <<unit, processes>> => SessionInv'
  BY DEF SessionInv, InOrderOf, processes

LEMMA SessionInit == Init => SessionInv
<1> SUFFICES ASSUME Init, NEW u \in User
             PROVE  InOrderOf(u)
  BY DEF SessionInv
<1>1. file[u]["ctl"] = "absent"
  BY DEF Init, Socket
<1> QED
  BY <1>1 DEF Init, InOrderOf, Early, Cleared, Drawn

LEMMA SessionStep ==
    ASSUME ProcessesOK, RequestsOK, SessionInv, Next
    PROVE  SessionInv'
<1>1. ASSUME NEW r \in Request, Handle(r) \/ ReloadFails(r) \/ Resize(r)
      PROVE  SessionInv'
  <2> USE DEF ProcessesOK, SessionInv, InOrderOf, Early, Cleared, Drawn, Stages
  <2>1. CASE Start(r)
    BY <2>1 DEF Start, To
  <2>2. CASE Stop(r)
    BY <2>2 DEF Stop, processes, States
  <2>3. CASE Uninstall(r)
    <3>1. \A u \in User : app'[u] \in {app[u], "ending"}
      BY <2>3 DEF Uninstall
    <3>2. UNCHANGED <<unit, stage, vnc, file, size>>
      BY <2>3 DEF Uninstall
    <3> QED
      BY <3>1, <3>2
  <2>4. CASE Resize(r)
    <3>1. PICK u : u = request[r].user
      OBVIOUS
    <3>2. \A v \in User : v # u => size'[v] = size[v]
      BY <2>4, <3>1 DEF Resize
    <3>3. file[u]["ctl"] = "live"
      BY <2>4, <3>1 DEF Resize
    <3>4. UNCHANGED <<unit, stage, vnc, file, app>>
      BY <2>4 DEF Resize
    <3> QED
      BY <3>2, <3>3, <3>4
  <2>5. CASE \/ FindTemplate(r) \/ WriteTemplate(r) \/ Reload(r) \/ Forget(r)
             \/ Connect(r) \/ NoAnswer(r) \/ ReloadFails(r)
    <3>1. UNCHANGED <<unit, processes>>
      BY <2>5 DEF FindTemplate, WriteTemplate, Reload, Forget, Connect, NoAnswer,
         ReloadFails
    <3> QED
      BY <3>1, SameOrder
  <2> QED
    BY <1>1, <2>1, <2>2, <2>3, <2>4, <2>5 DEF Handle
<1>2. ASSUME NEW r \in Request, NEW u \in User, NEW op \in {"open", "close", "remove", "resize"},
             Ask(r, u, op)
      PROVE  SessionInv'
  BY <1>2, SameOrder DEF Ask
<1>3. ASSUME NEW u \in User,
             \/ Session(u) \/ System(u) \/ Wedged(u) \/ Quit(u) \/ Ended(u)
             \/ Elsewhere(u) \/ Killed(u) \/ VncDies(u)
      PROVE  SessionInv'
  <2>1. ASSUME NEW v \in User, v # u
        PROVE  InOrderOf(v)'
    <3>1. /\ unit'[v] = unit[v] /\ stage'[v] = stage[v] /\ vnc'[v] = vnc[v]
          /\ file'[v] = file[v] /\ app'[v] = app[v] /\ size'[v] = size[v]
      BY <1>3, <2>1
      DEF Session, Prepare, ClearRunning, Settle, StartVnc, BindVnc, BindControl, RunApp,
          Returned, Cleanup, Exit, System, StopApp, StopUnlink, EndRest, Wedged, Quit,
          Ended, Elsewhere, Killed, VncDies, Gone, To, ProcessesOK, processes
    <3> QED
      BY <2>1, <3>1, OthersInOrder
  <2>2. InOrderOf(u)'
    <3>0. InOrderOf(u)
      BY DEF SessionInv
    <3> USE <3>0 DEF ProcessesOK, InOrderOf, Early, Cleared, Drawn, Paths, Socket
    <3>1. CASE Prepare(u)
      BY <3>1 DEF Prepare, To
    <3>2. CASE ClearRunning(u) \/ Settle(u)
      BY <3>2 DEF ClearRunning, Settle, To
    <3>3. CASE StartVnc(u)
      BY <3>3 DEF StartVnc, To
    <3>4. CASE BindVnc(u)
      BY <3>4 DEF BindVnc
    <3>5. CASE BindControl(u)
      BY <3>5 DEF BindControl
    <3>6. CASE RunApp(u) \/ Returned(u)
      BY <3>6 DEF RunApp, Returned, To
    <3>7. CASE Cleanup(u)
      BY <3>7 DEF Cleanup, To
    <3>8. CASE Exit(u)
      BY <3>8 DEF Exit, Gone
    <3>9. CASE StopApp(u) \/ StopUnlink(u) \/ Wedged(u)
      BY <3>9 DEF StopApp, StopUnlink, Wedged, processes
    <3>10. CASE EndRest(u) \/ Killed(u)
      <4>1. PICK left \in Abandoned(u) : file' = [file EXCEPT ![u] = left]
        BY <3>10 DEF EndRest, Killed
      <4>2. file'[u]["ctl"] # "live"
        BY <4>1 DEF Abandoned
      <4> QED
        BY <3>10, <4>2 DEF EndRest, Killed, Gone
    <3>11. CASE Quit(u) \/ Ended(u) \/ Elsewhere(u)
      BY <3>11 DEF Quit, Ended, Elsewhere
    <3>12. CASE VncDies(u)
      <4>1. file'[u]["ctl"] = file[u]["ctl"]
        BY <3>12 DEF VncDies
      <4> QED
        BY <3>12, <4>1 DEF VncDies
    <3> QED
      BY <1>3, <3>1, <3>2, <3>3, <3>4, <3>5, <3>6, <3>7, <3>8, <3>9, <3>10, <3>11, <3>12
      DEF Session, System
  <2> QED
    BY <2>1, <2>2 DEF SessionInv
<1>4. CASE DaemonDies
  BY <1>4, SameOrder DEF DaemonDies
<1>5. CASE Reboot
  BY <1>5 DEF Reboot, SessionInv, InOrderOf, Cleared, Drawn, Socket
<1> QED
  BY <1>1, <1>2, <1>3, <1>4, <1>5 DEF Next

THEOREM SessionsInOrder == Spec => []SessionInv
<1>1. TypeInv /\ SessionInv /\ [Next]_vars => SessionInv'
  BY SessionStep, SameOrder DEF TypeInv, vars
<1> QED
  BY <1>1, TypeInit, TypeInvStep, SessionInit, PTL DEF Spec

\* The path of the RFB server of a session that is up is there: an open that
\* finds the session, a close that came too late for an earlier one and the
\* cleanup of that one all leave it alone.
THEOREM ServerIsReachable == Spec => []Reachable
<1>1. SessionInv => Reachable
  BY DEF SessionInv, InOrderOf, Reachable
<1> QED
  BY <1>1, SessionsInOrder, PTL

\* No copy of the application that draws elsewhere, or on a display that is
\* gone, is there to take the window of a session that is about to draw.
THEOREM GroundIsClear == Spec => []ClearGround
<1>1. SessionInv => ClearGround
  BY DEF SessionInv, InOrderOf, ClearGround, Cleared
<1> QED
  BY <1>1, SessionsInOrder, PTL

\* The size a browser asked for stays for as long as its session does.
THEOREM SizeIsKept == Spec => SizeStays
<1>1. ASSUME TypeInv, SessionInv, Next, NEW u \in User,
             size[u] = "asked", size'[u] = "entry"
      PROVE  stage'[u] = "none"
  <2> USE <1>1 DEF TypeInv, ProcessesOK
  <2>1. CASE \E r \in Request : Handle(r) \/ ReloadFails(r) \/ Resize(r)
    BY <2>1
    DEF Handle, FindTemplate, WriteTemplate, Reload, Start, Stop, Uninstall, Forget,
        Connect, NoAnswer, Resize, ReloadFails, processes
  <2>2. CASE \/ \E r \in Request, v \in User, op \in {"open", "close", "remove", "resize"} :
                    Ask(r, v, op)
             \/ DaemonDies \/ Reboot
    BY <2>2 DEF Ask, DaemonDies, Reboot, processes
  <2>3. ASSUME NEW v \in User,
               \/ Session(v) \/ System(v) \/ Wedged(v) \/ Quit(v) \/ Ended(v)
               \/ Elsewhere(v) \/ Killed(v) \/ VncDies(v)
        PROVE  stage'[u] = "none"
    <3>1. CASE StartVnc(v)
      <4>1. size[v] = "entry"
        BY <3>1 DEF StartVnc, SessionInv, InOrderOf, Drawn
      <4> QED
        BY <3>1, <4>1 DEF StartVnc
    <3>2. CASE Exit(v) \/ EndRest(v) \/ Killed(v)
      BY <3>2 DEF Exit, EndRest, Killed, Gone
    <3> QED
      BY <2>3, <3>1, <3>2
      DEF Session, Prepare, ClearRunning, Settle, BindVnc, BindControl, RunApp, Returned,
          Cleanup, System, StopApp, StopUnlink, Wedged, Quit, Ended, Elsewhere, VncDies,
          processes
  <2> QED
    BY <2>1, <2>2, <2>3 DEF Next
<1>2. TypeInv /\ SessionInv /\ [Next]_vars
      => [\A u \in User :
             (size[u] = "asked" /\ size'[u] = "entry") => stage'[u] = "none"]_vars
  BY <1>1
<1>3. Spec => []TypeInv
  BY TypeInit, TypeInvStep, PTL DEF Spec
<1> QED
  BY <1>2, <1>3, SessionsInOrder, PTL DEF Spec, SizeStays
=============================================================================
