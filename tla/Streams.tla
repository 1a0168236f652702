------------------------------ MODULE Streams ------------------------------
(***************************************************************************)
(* One streamed application in the sessions of the users who open it:      *)
(* src/session.rs (the unit's processes), the user half of src/systemd.rs  *)
(* and the open, close, resize and remove handlers of src/apps.rs.         *)
(*                                                                         *)
(* Per user there is one unit.  Its ExecStart prepares the ground and      *)
(* becomes a compositor; inside that, a second copy of the binary starts   *)
(* the RFB server, a thread for sizes and the application; its ExecStop    *)
(* kills the application, which lives in a scope the unit does not reach.  *)
(* The handlers run on blocking threads, several at a time.                *)
(*                                                                         *)
(* systemd is modelled by what the handlers rely on: a manager knows the   *)
(* template it last read, starting an active unit does nothing, a job on a *)
(* stopping unit waits for the stop, and a unit becomes inactive when the  *)
(* last of its processes is gone.  Left out: choosing the compositor (one  *)
(* that resizes is there), modes and owners of what is created, and the    *)
(* texts of the template and of the compositor's configuration.            *)
(***************************************************************************)
EXTENDS Naturals

CONSTANTS
    User,
    Admin,     \* the user who may remove the application
    Request,   \* slots for requests
    NoOne,
    Faults     \* subset of {"kill", "reboot", "slow", "elsewhere", "wedge", "vnc",
               \*            "reload", "crash"}

ASSUME StreamsAssumption == Admin \in User /\ NoOne \notin User

Socket == {"rfb", "ctl", "wctl"}
Size == {"entry", "asked"}

VARIABLES
    listed,     \* the book lists the application
    installed,  \* its Flatpak is on the host
    template,   \* users whose unit directory holds the template
    loaded,     \* users whose manager has read it
    untold,     \* users whose manager a request wrote for and could not tell
    dir,        \* users whose socket directory is there, until a reboot
    unit,       \* each user's unit; "kill", "unlink" and "sigterm" stop it
    stage,      \* how far the unit's processes are
    vnc,        \* the RFB server of the session
    file,       \* each socket's path: absent, served, or left over
    app,        \* the application, where it runs, if it does
    size,       \* the size of the session's output
    request     \* each request: its operation, its user and how far it is

disk == <<listed, installed, template, loaded, untold, dir>>
processes == <<stage, vnc, file, app, size>>
vars == <<disk, unit, processes, request>>

Idle == [pc |-> "idle", op |-> "none", user |-> NoOne]

Init ==
    /\ listed = TRUE /\ installed = TRUE
    /\ template = {} /\ loaded = {} /\ untold = {} /\ dir = {}
    /\ unit = [u \in User |-> "inactive"]
    /\ stage = [u \in User |-> "none"]
    /\ vnc = [u \in User |-> "none"]
    /\ file = [u \in User |-> [s \in Socket |-> "absent"]]
    /\ app = [u \in User |-> "none"]
    /\ size = [u \in User |-> "entry"]
    /\ request = [r \in Request |-> Idle]

Stopping(u) == unit[u] \in {"kill", "unlink", "sigterm"}

\* The processes of the unit have gone to this stage.
To(u, s) == stage' = [stage EXCEPT ![u] = s]

\* The request goes on at this point, or has been answered, one way or another,
\* and its slot is free.
At(r, p) == IF p = "idle" THEN Idle ELSE [request[r] EXCEPT !.pc = p]
GoesTo(r, p) == request' = [request EXCEPT ![r] = At(r, p)]

-----------------------------------------------------------------------------
(* The handlers. *)

\* The check all of them begin with: openable for open and close, the book's
\* entry for remove, the catalog alone for resize.  Who is refused is answered.
Ask(r, u, op) ==
    /\ request[r].pc = "idle"
    /\ op = "remove" => u = Admin
    /\ op # "resize" => listed
    /\ request' = [request EXCEPT ![r] =
          [pc |-> CASE op = "resize" -> "connect"
                    [] op = "open" -> "template"
                    [] OTHER -> "stop",
           op |-> op, user |-> u]]
    /\ UNCHANGED <<disk, unit, processes>>

\* Mutant: an open removes the socket it takes to be left over.
ClearOnOpen(r) ==
    LET u == request[r].user
    IN  /\ request[r].pc = "template"
        /\ dir' = dir \cup {u}
        /\ file' = [file EXCEPT ![u]["rfb"] = "absent"]
        /\ GoesTo(r, IF u \in template THEN "start" ELSE "write")
        /\ UNCHANGED <<listed, installed, template, loaded, untold, unit, stage, vnc, app,
                       size>>

\* install_app_template: the directory for the sockets, then the template,
\* which is left alone when it is there ...
FindTemplate(r) ==
    LET u == request[r].user
    IN  /\ request[r].pc = "template"
        /\ dir' = dir \cup {u}
        /\ GoesTo(r, IF u \in template THEN "start" ELSE "write")
        /\ UNCHANGED <<listed, installed, template, loaded, untold, unit, processes>>

WriteTemplate(r) ==
    /\ request[r].pc = "write"
    /\ template' = template \cup {request[r].user}
    /\ GoesTo(r, "reload")
    /\ UNCHANGED <<listed, installed, loaded, untold, dir, unit, processes>>

\* Mutant: the manager is not told of the new file.
NoReload(r) ==
    /\ request[r].pc = "reload"
    /\ GoesTo(r, "start")
    /\ UNCHANGED <<disk, unit, processes>>

\* ... and else read by the manager.
Reload(r) ==
    /\ request[r].pc = "reload"
    /\ loaded' = loaded \cup {request[r].user}
    /\ untold' = untold \ {request[r].user}
    /\ GoesTo(r, "start")
    /\ UNCHANGED <<listed, installed, template, dir, unit, processes>>

\* chown or the reload fails, and the request with it.
ReloadFails(r) ==
    /\ "reload" \in Faults
    /\ request[r].pc = "reload"
    /\ untold' = untold \cup {request[r].user}
    /\ GoesTo(r, "idle")
    /\ UNCHANGED <<listed, installed, template, loaded, dir, unit, processes>>

\* systemctl start.  A unit the manager has not read cannot be started.
Start(r) ==
    LET u == request[r].user
    IN  /\ request[r].pc = "start" /\ ~Stopping(u)
        /\ IF u \in loaded /\ unit[u] = "inactive"
           THEN unit' = [unit EXCEPT ![u] = "active"] /\ To(u, "prepare")
           ELSE UNCHANGED <<unit, stage>>
        /\ GoesTo(r, "idle")
        /\ UNCHANGED <<disk, vnc, file, app, size>>

\* What a request to stop the unit does next: close is answered, and remove
\* goes on whatever became of it.
AfterStop(r) == IF request[r].op = "remove" THEN "uninstall" ELSE "idle"

\* systemctl stop, which waits for the stop it begins or finds.
Stop(r) ==
    LET u == request[r].user
    IN  /\ request[r].pc = "stop"
        /\ unit' = [unit EXCEPT ![u] = IF @ = "active" THEN "kill" ELSE @]
        /\ GoesTo(r, IF u \notin loaded \/ unit[u] = "inactive" THEN AfterStop(r)
                     ELSE "stopping")
        /\ UNCHANGED <<disk, processes>>

\* flatpak uninstall, which may fail and may end the copies that run; a
\* Flatpak that was found on the host is left there.
Uninstall(r) ==
    /\ request[r].pc = "uninstall"
    /\ installed' \in {installed, FALSE}
    /\ \E U \in SUBSET {u \in User : app[u] # "none"} :
          app' = [u \in User |-> IF u \in U /\ ~installed' THEN "ending" ELSE app[u]]
    /\ GoesTo(r, "forget")
    /\ UNCHANGED <<listed, template, loaded, untold, dir, unit, stage, vnc, file, size>>

Forget(r) ==
    /\ request[r].pc = "forget"
    /\ listed' = FALSE
    /\ GoesTo(r, "idle")
    /\ UNCHANGED <<installed, template, loaded, untold, dir, unit, processes>>

\* resize: the session's control socket is asked, and waited for no longer
\* than five seconds.
Connect(r) ==
    /\ request[r].pc = "connect"
    /\ GoesTo(r, IF file[request[r].user]["ctl"] = "live" THEN "answer" ELSE "idle")
    /\ UNCHANGED <<disk, unit, processes>>

\* serve_control: the size is parsed, checked and set, or refused.
Resize(r) ==
    LET u == request[r].user
    IN  /\ request[r].pc = "answer" /\ file[u]["ctl"] = "live"
        /\ size' \in {size, [size EXCEPT ![u] = "asked"]}
        /\ GoesTo(r, "idle")
        /\ UNCHANGED <<disk, unit, stage, vnc, file, app>>

NoAnswer(r) ==
    /\ request[r].pc = "answer"
    /\ GoesTo(r, "idle")
    /\ UNCHANGED <<disk, unit, processes>>

-----------------------------------------------------------------------------
(* The unit's processes. *)

\* Every process of the unit is gone, with what it had in hand and the output it
\* drew on.
Gone(u) ==
    /\ size' = [size EXCEPT ![u] = "entry"]
    /\ stage' = [stage EXCEPT ![u] = "none"]
    /\ vnc' = [vnc EXCEPT ![u] = "none"]

\* Mutant: what an earlier session left is not removed.
TrustLeftovers(u) ==
    /\ stage[u] = "prepare"
    /\ To(u, "clear")
    /\ UNCHANGED <<disk, unit, vnc, file, app, size, request>>

\* prepare_socket.  Without the directory the session dies.
Prepare(u) ==
    /\ stage[u] = "prepare"
    /\ IF u \in dir
       THEN To(u, "clear") /\ file' = [file EXCEPT ![u]["rfb"] = "absent"]
       ELSE To(u, "exit") /\ UNCHANGED file
    /\ UNCHANGED <<disk, unit, vnc, app, size, request>>

\* Mutant: a copy that runs already is left alone.
LeaveRunning(u) ==
    /\ stage[u] = "clear"
    /\ To(u, "compose")
    /\ UNCHANGED <<disk, unit, vnc, file, app, size, request>>

\* clear_running: the copy that runs is killed, and if there was one its end
\* is waited for by the clock ...
ClearRunning(u) ==
    /\ stage[u] = "clear"
    /\ IF app[u] = "none"
       THEN To(u, "compose") /\ UNCHANGED app
       ELSE To(u, "settle") /\ app' = [app EXCEPT ![u] = "ending"]
    /\ UNCHANGED <<disk, unit, vnc, file, size, request>>

\* ... which runs out before a copy that is slow to end has ended.
Settle(u) ==
    /\ stage[u] = "settle"
    /\ app[u] # "ending" \/ "slow" \in Faults
    /\ To(u, "compose")
    /\ UNCHANGED <<disk, unit, vnc, file, app, size, request>>

\* inside_cage, as far as the RFB server and the first size.
StartVnc(u) ==
    /\ stage[u] = "compose"
    /\ file' = [file EXCEPT ![u]["wctl"] = "absent"]
    /\ vnc' = [vnc EXCEPT ![u] = "starting"]
    /\ size' = [size EXCEPT ![u] = "entry"]
    /\ To(u, "run")
    /\ UNCHANGED <<disk, unit, app, request>>

\* The server will not bind a path that exists.
BindVnc(u) ==
    /\ vnc[u] = "starting"
    /\ IF file[u]["rfb"] = "absent"
       THEN /\ vnc' = [vnc EXCEPT ![u] = "serving"]
            /\ file' = [file EXCEPT ![u]["rfb"] = "live", ![u]["wctl"] = "live"]
       ELSE /\ vnc' = [vnc EXCEPT ![u] = "none"]
            /\ UNCHANGED file
    /\ UNCHANGED <<disk, unit, stage, app, size, request>>

\* serve_control, on its thread: whatever is at the path is removed first.
BindControl(u) ==
    /\ stage[u] \in {"run", "drawing", "cleanup"}
    /\ file[u]["ctl"] # "live"
    /\ file' = [file EXCEPT ![u]["ctl"] = "live"]
    /\ UNCHANGED <<disk, unit, stage, vnc, app, size, request>>

\* flatpak run: an application that runs already, if only just, is handed the
\* request, and the command returns at once.
RunApp(u) ==
    /\ stage[u] = "run"
    /\ IF installed /\ app[u] = "none"
       THEN To(u, "drawing") /\ app' = [app EXCEPT ![u] = "here"]
       ELSE To(u, "cleanup") /\ UNCHANGED app
    /\ UNCHANGED <<disk, unit, vnc, file, size, request>>

\* flatpak run returns when the application has gone.
Returned(u) ==
    /\ stage[u] = "drawing" /\ app[u] # "here"
    /\ To(u, "cleanup")
    /\ UNCHANGED <<disk, unit, vnc, file, app, size, request>>

\* The server is ended and waited for, and the three paths are removed.
Cleanup(u) ==
    /\ stage[u] = "cleanup"
    /\ vnc' = [vnc EXCEPT ![u] = "none"]
    /\ file' = [file EXCEPT ![u] = [s \in Socket |-> "absent"]]
    /\ To(u, "exit")
    /\ UNCHANGED <<disk, unit, app, size, request>>

\* The compositor goes with its only client, and the unit with it.
Exit(u) ==
    /\ stage[u] = "exit"
    /\ Gone(u)
    /\ unit' = [unit EXCEPT ![u] = IF @ = "active" THEN "inactive" ELSE @]
    /\ UNCHANGED <<disk, file, app, request>>

Session(u) ==
    \/ Prepare(u) \/ ClearRunning(u) \/ Settle(u) \/ StartVnc(u) \/ BindVnc(u)
    \/ BindControl(u) \/ RunApp(u) \/ Returned(u) \/ Cleanup(u) \/ Exit(u)

-----------------------------------------------------------------------------
(* Stopping the unit: ExecStop, and then the end of what is left. *)

StopApp(u) ==
    /\ unit[u] = "kill"
    /\ unit' = [unit EXCEPT ![u] = "unlink"]
    /\ app' = [app EXCEPT ![u] = IF @ = "none" THEN @ ELSE "ending"]
    /\ UNCHANGED <<disk, stage, vnc, file, size, request>>

StopUnlink(u) ==
    /\ unit[u] = "unlink"
    /\ unit' = [unit EXCEPT ![u] = "sigterm"]
    /\ file' = [file EXCEPT ![u]["rfb"] = "absent"]
    /\ UNCHANGED <<disk, stage, vnc, app, size, request>>

\* ExecStop does not end in time.
Wedged(u) ==
    /\ "wedge" \in Faults
    /\ unit[u] \in {"kill", "unlink"}
    /\ unit' = [unit EXCEPT ![u] = "sigterm"]
    /\ UNCHANGED <<disk, processes, request>>

\* The sockets of processes that were killed: the RFB server may have had the
\* time to unlink its own.
Abandoned(u) ==
    {[s \in Socket |-> IF file[u][s] # "live" THEN file[u][s]
                       ELSE IF s = "ctl" THEN "dead" ELSE end] :
     end \in {"absent", "dead"}}

\* An application whose display is gone ends, or does not.
Undrawn(u) == IF app[u] = "here" THEN {"ending", "left"} ELSE {app[u]}

\* systemd ends the processes of the unit, whatever they were doing, and
\* answers those who wait for it.
EndRest(u) ==
    /\ unit[u] = "sigterm"
    /\ unit' = [unit EXCEPT ![u] = "inactive"]
    /\ Gone(u)
    /\ \E left \in Abandoned(u), end \in Undrawn(u) :
          file' = [file EXCEPT ![u] = left] /\ app' = [app EXCEPT ![u] = end]
    /\ request' = [r \in Request |->
          IF request[r].pc = "stopping" /\ request[r].user = u
          THEN At(r, AfterStop(r)) ELSE request[r]]
    /\ UNCHANGED disk

System(u) == StopApp(u) \/ StopUnlink(u) \/ EndRest(u)

-----------------------------------------------------------------------------
(* The application, the person and the machine. *)

\* The application is closed from inside, or crashes.
Quit(u) ==
    /\ app[u] \in {"here", "elsewhere", "left"}
    /\ app' = [app EXCEPT ![u] = "none"]
    /\ UNCHANGED <<disk, unit, stage, vnc, file, size, request>>

Ended(u) ==
    /\ app[u] = "ending"
    /\ app' = [app EXCEPT ![u] = "none"]
    /\ UNCHANGED <<disk, unit, stage, vnc, file, size, request>>

\* It is started at the machine's own screen.
Elsewhere(u) ==
    /\ "elsewhere" \in Faults /\ installed
    /\ app[u] = "none"
    /\ app' = [app EXCEPT ![u] = "elsewhere"]
    /\ UNCHANGED <<disk, unit, stage, vnc, file, size, request>>

\* The compositor is killed or crashes.  No ExecStop is run for that.
Killed(u) ==
    /\ "kill" \in Faults
    /\ unit[u] = "active"
    /\ Gone(u)
    /\ unit' = [unit EXCEPT ![u] = "inactive"]
    /\ \E left \in Abandoned(u), end \in Undrawn(u) :
          file' = [file EXCEPT ![u] = left] /\ app' = [app EXCEPT ![u] = end]
    /\ UNCHANGED <<disk, request>>

\* The RFB server dies under a session.  Nobody starts it again.
VncDies(u) ==
    /\ "vnc" \in Faults
    /\ vnc[u] = "serving"
    /\ vnc' = [vnc EXCEPT ![u] = "none"]
    /\ \E left \in Abandoned(u) :
          file' = [file EXCEPT ![u]["rfb"] = left["rfb"], ![u]["wctl"] = left["wctl"]]
    /\ UNCHANGED <<disk, unit, stage, app, size, request>>

\* The daemon dies, or is restarted by an update of itself, and forgets what it
\* was asked.  The sessions are the managers' and go on.
DaemonDies ==
    /\ "crash" \in Faults
    /\ \E r \in Request : request[r].pc # "idle"
    /\ request' = [r \in Request |-> Idle]
    /\ untold' = untold \cup
          {request[r].user : r \in {q \in Request : request[q].pc = "reload"}}
    /\ UNCHANGED <<listed, installed, template, loaded, dir, unit, processes>>

\* /run is emptied, managers read what is on the disk, and requests are lost.
Reboot ==
    /\ "reboot" \in Faults
    /\ dir' = {}
    /\ loaded' = template /\ untold' = {}
    /\ unit' = [u \in User |-> "inactive"]
    /\ stage' = [u \in User |-> "none"]
    /\ vnc' = [u \in User |-> "none"]
    /\ file' = [u \in User |-> [s \in Socket |-> "absent"]]
    /\ app' = [u \in User |-> "none"]
    /\ size' = [u \in User |-> "entry"]
    /\ request' = [r \in Request |-> Idle]
    /\ UNCHANGED <<listed, installed, template>>

Handle(r) ==
    \/ FindTemplate(r) \/ WriteTemplate(r) \/ Reload(r) \/ Start(r)
    \/ Stop(r) \/ Uninstall(r) \/ Forget(r) \/ Connect(r) \/ NoAnswer(r)

Next ==
    \/ \E r \in Request :
          \/ Handle(r) \/ ReloadFails(r) \/ Resize(r)
          \/ \E u \in User, op \in {"open", "close", "remove", "resize"} : Ask(r, u, op)
    \/ \E u \in User :
          \/ Session(u) \/ System(u) \/ Wedged(u)
          \/ Quit(u) \/ Ended(u) \/ Elsewhere(u) \/ Killed(u) \/ VncDies(u)
    \/ DaemonDies \/ Reboot

Spec == Init /\ [][Next]_vars

\* Blocking threads, processes and the managers are scheduled, a job that waits
\* for a stop has its turn after it, and a copy that was killed ends.
FairSpec ==
    /\ Spec
    /\ \A r \in Request : WF_vars(Handle(r)) /\ SF_vars(Start(r))
    /\ \A u \in User : /\ WF_vars(Session(u)) /\ WF_vars(BindVnc(u))
                       /\ WF_vars(System(u)) /\ WF_vars(Ended(u))

-----------------------------------------------------------------------------
TypeOK ==
    /\ listed \in BOOLEAN /\ installed \in BOOLEAN
    /\ template \subseteq User /\ loaded \subseteq User
    /\ untold \subseteq User /\ dir \subseteq User
    /\ unit \in [User -> {"inactive", "active", "kill", "unlink", "sigterm"}]
    /\ stage \in [User -> {"none", "prepare", "clear", "settle", "compose", "run",
                           "drawing", "cleanup", "exit"}]
    /\ vnc \in [User -> {"none", "starting", "serving"}]
    /\ file \in [User -> [Socket -> {"absent", "live", "dead"}]]
    /\ app \in [User -> {"none", "here", "elsewhere", "left", "ending"}]
    /\ size \in [User -> Size]
    /\ request \in [Request -> [pc : {"idle", "template", "write", "reload", "start",
                                      "stop", "stopping", "uninstall", "forget",
                                      "connect", "answer"},
                                op : {"none", "open", "close", "remove", "resize"},
                                user : User \cup {NoOne}]]

\* The template that is on the disk is the one the manager knows, unless the
\* request that wrote it is about to say so or could not: an open that finds the
\* text in place reloads nothing (systemd.rs:385) and can start the unit, however
\* many opens overlap.
WrittenIsLoaded ==
    \A u \in template \ (loaded \cup untold) :
        \E r \in Request : request[r].pc = "reload" /\ request[r].user = u

\* While a session is up, its RFB server can be reached where ws_rfb looks:
\* nobody removes the path of a session that is not being stopped, neither an
\* open that finds it running nor what is left to do of an earlier session.
Reachable ==
    \A u \in User :
        unit[u] = "active" /\ vnc[u] = "serving" => file[u]["rfb"] = "live"

\* A session that is about to draw has taken the ground from every copy that
\* outlived an earlier session: what is left of a stop that came too early, or
\* of a compositor that died, never swallows the new window.
ClearGround ==
    \A u \in User : stage[u] \in {"compose", "run"} => app[u] \notin {"here", "left"}

\* A size the browser was told is set is kept until the session ends: the
\* first size of the entry is set before anyone can ask for another.
SizeStays ==
    [][\A u \in User :
          (size[u] = "asked" /\ size'[u] = "entry") => stage'[u] = "none"]_vars

\* Whatever an earlier session left behind, one that begins is served or ends:
\* a hard kill does not make the application impossible to open.
Served ==
    \A u \in User :
        stage[u] = "prepare" ~> (file[u]["rfb"] = "live" \/ unit[u] # "active")

\* Every request is answered, whatever becomes of the session it is about.
Answered == \A r \in Request : request[r].pc # "idle" ~> request[r].pc = "idle"

\* Nothing that was begun hangs, neither sessions nor the requests about them.
Ends == Served /\ Answered
=============================================================================
