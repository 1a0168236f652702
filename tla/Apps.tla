-------------------------------- MODULE Apps --------------------------------
(***************************************************************************)
(* The app manager of the daemon (src/apps.rs, with the host dependency    *)
(* jobs of src/deps.rs): the book of installed apps, the one host-wide     *)
(* install flag, and what installing and removing does to the container    *)
(* engine, to systemd and to Flatpak.                                      *)
(*                                                                         *)
(* The book (apps.json) and the flag (apps.status) are files.  Nothing     *)
(* locks either of them: a handler reads, decides, and later writes, and   *)
(* any other handler or background task may run in between.  Each of those *)
(* file accesses, and each command handed to the engine, systemd or        *)
(* Flatpak, is therefore a step of its own here.                           *)
(*                                                                         *)
(* What the code promises when requests do get between each other's reads  *)
(* and writes is said in AppsHistory.                                      *)
(*                                                                         *)
(* Faults says what may fail: "crash" the daemon dies and is restarted;    *)
(* "hangup" a browser disconnects and its handler is dropped at an await;  *)
(* "disk" a write in the state directory fails; "engine" the engine, or    *)
(* Flatpak, fails to delete what it is asked to delete.                    *)
(***************************************************************************)
EXTENDS Integers

CONSTANTS
    Containers,   \* catalog entries run by the container engine
    Hosts,        \* catalog entries that are a systemd service on the host
    Streamed,     \* catalog entries that are a Flatpak drawn on the host
    Found,        \* the Hosts and Streamed that were there before WebDesk
    Ports,        \* PORT_LOW..PORT_HIGH, the ports containers are given
    HostPort,     \* the fixed loopback port of each entry of Hosts
    Reqs,         \* requests that can be in flight at once
    NoSlug, NoRecord, NoContainer, NoReq,
    Faults        \* subset of {"crash", "hangup", "disk", "engine"}

Slugs == Containers \cup Hosts \cup Streamed
HostPorts == {HostPort[h] : h \in Hosts}
AllPorts == Ports \cup HostPorts \cup {0}

ASSUME CatalogAssumption ==
    /\ Containers \cap Hosts = {}
    /\ Containers \cap Streamed = {}
    /\ Hosts \cap Streamed = {}
    /\ Found \subseteq Hosts \cup Streamed

\* apps.rs:1001 tests that the two allocators never meet.
ASSUME PortAssumption ==
    /\ Ports \subseteq Nat \ {0}
    /\ HostPort \in [Hosts -> Nat \ {0}]
    /\ HostPorts \cap Ports = {}
    /\ \A g, h \in Hosts : HostPort[g] = HostPort[h] => g = h

\* What the book keeps of an app that this model needs: the loopback port
\* that serves it (0 for a streamed app) and whether its Flatpak was found.
Record == [port : AllPorts, adopted : BOOLEAN]
Book == [Slugs -> Record \cup {NoRecord}]
Container == [port : Ports, up : BOOLEAN]

ASSUME NullAssumption ==
    /\ NoSlug \notin Slugs
    /\ NoReq \notin Reqs
    /\ NoRecord \notin Record
    /\ NoContainer \notin Container

Ops == {"none", "install", "adopt", "remove", "deps", "podman"}
PCs == {"idle", "asked", "half", "checked", "working", "creating", "starting",
        "commit", "committing", "recorded", "undo", "failing",
        "taking", "taken", "purging", "dropped"}

\* Where the task of a request is between its claim and its last word.
TaskPCs == {"working", "creating", "starting", "commit", "committing",
            "recorded", "undo", "failing"}

VARIABLES
    book,        \* apps.json
    status,      \* apps.status: the install flag; by is who wrote it last
    containers,  \* what the engine holds under webdesk-<slug>
    onHost,      \* units systemd knows and Flatpaks that are installed
    appdata,     \* slugs with a directory under appdata/
    pc,          \* how far each request has got
    job,         \* what each request asked for
    plan,        \* the record a request means to write
    snap         \* the book a request has read and will write back

vars == <<book, status, containers, onHost, appdata, pc, job, plan, snap>>
files == <<book, status>>
host == <<containers, onHost, appdata>>
locals == <<job, plan, snap>>

NoJob == [op |-> "none", slug |-> NoSlug]
NoPlan == [port |-> 0, adopted |-> FALSE]
EmptyBook == [s \in Slugs |-> NoRecord]
Jobs == [op : Ops, slug : Slugs \cup {NoSlug}]
Statuses == [state : {"idle", "running", "done", "failed"}, by : Reqs \cup {NoReq}]

TypeOK ==
    /\ book \in Book
    /\ status \in Statuses
    /\ containers \in [Containers -> Container \cup {NoContainer}]
    /\ onHost \subseteq Hosts \cup Streamed
    /\ appdata \subseteq Containers
    /\ pc \in [Reqs -> PCs]
    /\ job \in [Reqs -> Jobs]
    /\ plan \in [Reqs -> Record]
    /\ snap \in [Reqs -> Book]

Init ==
    /\ book = EmptyBook
    /\ status = [state |-> "idle", by |-> NoReq]
    /\ containers = [s \in Containers |-> NoContainer]
    /\ onHost = Found
    /\ appdata = {}
    /\ pc = [r \in Reqs |-> "idle"]
    /\ job = [r \in Reqs |-> NoJob]
    /\ plan = [r \in Reqs |-> NoPlan]
    /\ snap = [r \in Reqs |-> EmptyBook]

-----------------------------------------------------------------------------
Installed == {s \in Slugs : book[s] # NoRecord}
Slug(r) == job[r].slug
Op(r) == job[r].op

\* The port of a container that is up is taken: the engine cannot publish it
\* a second time.
PortBusy(p) == \E s \in Containers : /\ containers[s] # NoContainer
                                     /\ containers[s].up
                                     /\ containers[s].port = p

\* Mutant: a port is free when nothing listens on it.
UnboundPorts(b) == {p \in Ports : ~PortBusy(p)}

\* A container is given the lowest port of the range that no record holds.
FreePorts(b) == Ports \ {b[s].port : s \in {t \in Slugs : b[t] # NoRecord}}
IsFreePort(b, p) == p \in FreePorts(b) /\ \A q \in FreePorts(b) : p <= q

PortFor(s, p) ==
    \/ s \in Containers /\ IsFreePort(book, p)
    \/ s \in Hosts /\ p = HostPort[s]
    \/ s \in Streamed /\ p = 0

\* What an install is refused for once the book has been read: installed
\* already, no port left, or the fixed port of a host service taken.
NoPortLeft(s) ==
    \/ s \in Containers /\ FreePorts(book) = {}
    \/ s \in Hosts /\ \E t \in Installed : book[t].port = HostPort[s]

\* Mutant: installing again is not refused.
RefusesPortOnly(s) == NoPortLeft(s)

BookRefuses(s) == s \in Installed \/ NoPortLeft(s)

Goto(r, l) == pc' = [pc EXCEPT ![r] = l]

\* The request is answered, or its task ends: nothing of it remains.
Leave(r) ==
    /\ pc' = [pc EXCEPT ![r] = "idle"]
    /\ job' = [job EXCEPT ![r] = NoJob]
    /\ plan' = [plan EXCEPT ![r] = NoPlan]
    /\ snap' = [snap EXCEPT ![r] = EmptyBook]

\* write_status: every caller ignores its error, so a failed write leaves
\* whatever the file said before.
WriteStatus(r, st) ==
    \/ status' = [state |-> st, by |-> r]
    \/ "disk" \in Faults /\ UNCHANGED status

-----------------------------------------------------------------------------
(* A request arrives, and what it is refused for before it changes a thing. *)

Ask(r) ==
    /\ pc[r] = "idle"
    /\ \E o \in {"install", "remove"}, s \in Slugs :
          job' = [job EXCEPT ![r] = [op |-> o, slug |-> s]]
    /\ Goto(r, "asked")
    /\ UNCHANGED <<files, host, plan, snap>>

\* POST /api/deps/install and /api/deps/podman/remove.
AskDeps(r) ==
    /\ pc[r] = "idle"
    /\ \E o \in {"deps", "podman"} :
          job' = [job EXCEPT ![r] = [op |-> o, slug |-> NoSlug]]
    /\ Goto(r, "asked")
    /\ UNCHANGED <<files, host, plan, snap>>

\* Every early return that depends on nothing this model keeps: not an
\* administrator, no engine, a bad answer, packages or an uninstall not yet
\* accepted, dependencies absent.
Refuse(r) ==
    /\ pc[r] \in {"asked", "half", "checked"}
    /\ Op(r) # "adopt"
    /\ Leave(r)
    /\ UNCHANGED <<files, host>>

\* A container install looks at the flag and then at the book; the host and
\* streamed paths look at the book first.  The dependency jobs have no book.
FlagLabel(r) ==
    IF Op(r) = "install" /\ Slug(r) \notin Containers THEN "half" ELSE "asked"
BookLabel(r) == IF Slug(r) \in Containers THEN "half" ELSE "asked"

\* Mutant: the flag is set but never looked at.
CheckNoFlag(r) ==
    /\ Op(r) \in {"install", "deps", "podman"}
    /\ pc[r] = FlagLabel(r)
    /\ Goto(r, IF Slug(r) \in Containers THEN "half" ELSE "checked")
    /\ UNCHANGED <<files, host, locals>>

CheckFlag(r) ==
    /\ Op(r) \in {"install", "deps", "podman"}
    /\ pc[r] = FlagLabel(r)
    /\ IF status.state = "running"
       THEN Leave(r)
       ELSE /\ Goto(r, IF Slug(r) \in Containers THEN "half" ELSE "checked")
            /\ UNCHANGED locals
    /\ UNCHANGED <<files, host>>

CheckBook(r) ==
    LET s == Slug(r) IN
    /\ Op(r) = "install"
    /\ pc[r] = BookLabel(r)
    /\ IF BookRefuses(s)
       THEN Leave(r) /\ UNCHANGED appdata
       ELSE /\ \E p \in AllPorts :
                 /\ PortFor(s, p)
                 /\ plan' = [plan EXCEPT ![r] = [port |-> p, adopted |-> FALSE]]
            /\ appdata' = IF s \in Containers THEN appdata \cup {s} ELSE appdata
            /\ Goto(r, IF s \in Containers THEN "checked" ELSE "half")
            /\ UNCHANGED <<job, snap>>
    /\ UNCHANGED <<files, containers, onHost>>

\* The request takes the install flag and hands the slow part to a task.
\* Whether a Flatpak is already here is settled now, before it is provided.
Claim(r) ==
    /\ pc[r] = "checked"
    /\ Op(r) \in {"install", "deps", "podman"}
    /\ ~(Slug(r) \in Hosts /\ Slug(r) \in onHost)
    /\ WriteStatus(r, "running")
    /\ plan' = [plan EXCEPT ![r].adopted =
                    Slug(r) \in Streamed /\ Slug(r) \in onHost]
    /\ Goto(r, "working")
    /\ UNCHANGED <<book, host, job, snap>>

\* The unit is already on the host: record it at once, claiming nothing.
Adopt(r) ==
    /\ pc[r] = "checked"
    /\ Op(r) = "install"
    /\ Slug(r) \in Hosts
    /\ Slug(r) \in onHost
    /\ job' = [job EXCEPT ![r].op = "adopt"]
    /\ Goto(r, "commit")
    /\ UNCHANGED <<files, host, plan, snap>>

-----------------------------------------------------------------------------
(* The background task of an install. *)

\* The pull, the package manager, the download or `flatpak install` failed.
WorkFailed(r) ==
    /\ pc[r] = "working"
    /\ Goto(r, IF Slug(r) \in Containers THEN "undo" ELSE "failing")
    /\ UNCHANGED <<files, host, locals>>

Pulled(r) ==
    /\ pc[r] = "working"
    /\ Slug(r) \in Containers
    /\ WriteStatus(r, "running")
    /\ Goto(r, "creating")
    /\ UNCHANGED <<book, host, locals>>

\* engine::create.  The name may be taken, the port may be published, or the
\* run may fail after the container was made.
Created(r) ==
    LET s == Slug(r)
        c == [port |-> plan[r].port, up |-> TRUE] IN
    /\ pc[r] = "creating"
    /\ containers[s] = NoContainer
    /\ ~PortBusy(plan[r].port)
    /\ containers' = [containers EXCEPT ![s] = c]
    /\ Goto(r, "commit")
    /\ UNCHANGED <<files, onHost, appdata, locals>>

CreateFailed(r) ==
    LET s == Slug(r)
        half == [port |-> plan[r].port, up |-> FALSE] IN
    /\ pc[r] = "creating"
    /\ \/ UNCHANGED containers
       \/ /\ containers[s] = NoContainer
          /\ containers' = [containers EXCEPT ![s] = half]
    /\ Goto(r, "undo")
    /\ UNCHANGED <<files, onHost, appdata, locals>>

\* Flatpak, packages and the unit file of a host service.  write_unit can
\* fail after the file was written, when systemd will not reload.
UnitWritten(r) ==
    LET s == Slug(r) IN
    /\ pc[r] = "working"
    /\ s \in Hosts
    /\ WriteStatus(r, "running")
    /\ \/ s \notin onHost /\ onHost' = onHost \cup {s} /\ Goto(r, "starting")
       \/ onHost' \in {onHost, onHost \cup {s}} /\ Goto(r, "failing")
    /\ UNCHANGED <<book, containers, appdata, locals>>

UnitStarted(r) ==
    LET s == Slug(r) IN
    /\ pc[r] = "starting"
    /\ WriteStatus(r, "running")
    /\ \/ UNCHANGED onHost /\ Goto(r, "commit")
       \/ onHost' = onHost \ {s} /\ Goto(r, "failing")
    /\ UNCHANGED <<book, containers, appdata, locals>>

\* flatpak::provide, which is satisfied by an application that is there.
Provided(r) ==
    LET s == Slug(r) IN
    /\ pc[r] = "working"
    /\ s \in Streamed
    /\ onHost' = onHost \cup {s}
    /\ Goto(r, "commit")
    /\ UNCHANGED <<files, containers, appdata, locals>>

\* The package manager of a dependency job, or of the podman removal.
DepsWorked(r) ==
    /\ pc[r] = "working"
    /\ Op(r) \in {"deps", "podman"}
    /\ Goto(r, "recorded")
    /\ UNCHANGED <<files, host, locals>>

\* Read the book again, insert the record, write it back.
CommitRead(r) ==
    /\ pc[r] = "commit"
    /\ snap' = [snap EXCEPT ![r] = book]
    /\ Goto(r, "committing")
    /\ UNCHANGED <<files, host, job, plan>>

CommitWrite(r) ==
    /\ pc[r] = "committing"
    /\ book' = [snap[r] EXCEPT ![Slug(r)] = plan[r]]
    /\ Goto(r, "recorded")
    /\ UNCHANGED <<status, host, locals>>

\* Mutant: a container that cannot be recorded is left running.
CommitFailedKeeps(r) ==
    /\ "disk" \in Faults
    /\ pc[r] = "committing"
    /\ Goto(r, "failing")
    /\ UNCHANGED <<files, host, locals>>

CommitFailed(r) ==
    /\ "disk" \in Faults
    /\ pc[r] = "committing"
    /\ CASE Op(r) = "adopt"         -> Leave(r)
         [] Slug(r) \in Containers -> Goto(r, "undo") /\ UNCHANGED locals
         [] OTHER                  -> Goto(r, "failing") /\ UNCHANGED locals
    /\ UNCHANGED <<files, host>>

\* engine::remove, whose error is ignored.
Undo(r) ==
    /\ pc[r] = "undo"
    /\ \/ containers' = [containers EXCEPT ![Slug(r)] = NoContainer]
       \/ "engine" \in Faults /\ UNCHANGED containers
    /\ Goto(r, "failing")
    /\ UNCHANGED <<files, onHost, appdata, locals>>

Finish(r) ==
    /\ pc[r] = "recorded"
    /\ WriteStatus(r, "done")
    /\ Leave(r)
    /\ UNCHANGED <<book, host>>

\* Mutant: a failed install says nothing.
FailSilently(r) ==
    /\ pc[r] = "failing"
    /\ Leave(r)
    /\ UNCHANGED <<files, host>>

Fail(r) ==
    /\ pc[r] = "failing"
    /\ WriteStatus(r, "failed")
    /\ Leave(r)
    /\ UNCHANGED <<book, host>>

-----------------------------------------------------------------------------
(* remove.  It looks at no flag, and it writes back the book it read first. *)

RemoveRead(r) ==
    /\ pc[r] = "asked"
    /\ Op(r) = "remove"
    /\ IF Slug(r) \notin Installed
       THEN Leave(r)
       ELSE /\ snap' = [snap EXCEPT ![r] = book]
            /\ Goto(r, "taking")
            /\ UNCHANGED <<job, plan>>
    /\ UNCHANGED <<files, host>>

\* Mutant: every Flatpak is uninstalled, found or not.
TakeAnyFlatpak(r) ==
    LET s == Slug(r) IN
    /\ containers' = IF s \in Containers
                     THEN [containers EXCEPT ![s] = NoContainer] ELSE containers
    /\ onHost' = onHost \ (Streamed \cap {s})

\* A container is deleted, a Flatpak WebDesk installed is uninstalled, and a
\* host service or a Flatpak that was found is left where it is.  Failing to
\* delete is reported and not fatal.
TakeAway(r) ==
    LET s == Slug(r) IN
    \/ /\ s \in Containers
       /\ containers' = [containers EXCEPT ![s] = NoContainer]
       /\ UNCHANGED onHost
    \/ /\ s \in Streamed
       /\ ~snap[r][s].adopted
       /\ onHost' = onHost \ {s}
       /\ UNCHANGED containers
    \/ /\ s \in Hosts \/ (s \in Streamed /\ snap[r][s].adopted)
                      \/ "engine" \in Faults
       /\ UNCHANGED <<containers, onHost>>

\* Mutant: the directory goes with the container, before the record.
TakeWithData(r) ==
    /\ pc[r] = "taking"
    /\ TakeAway(r)
    /\ appdata' = appdata \ {Slug(r)}
    /\ Goto(r, "taken")
    /\ UNCHANGED <<files, locals>>

Take(r) ==
    /\ pc[r] = "taking"
    /\ TakeAway(r)
    /\ Goto(r, "taken")
    /\ UNCHANGED <<files, appdata, locals>>

Forget(r) ==
    /\ pc[r] = "taken"
    /\ \/ /\ book' = [snap[r] EXCEPT ![Slug(r)] = NoRecord]
          /\ \/ Leave(r)
             \/ /\ Slug(r) \in Containers
                /\ Goto(r, "purging")
                /\ UNCHANGED locals
       \/ "disk" \in Faults /\ Leave(r) /\ UNCHANGED book
    /\ UNCHANGED <<status, host>>

\* The request asked for the app's directory to go too.
Purge(r) ==
    /\ pc[r] = "purging"
    /\ appdata' = appdata \ {Slug(r)}
    /\ Leave(r)
    /\ UNCHANGED <<files, containers, onHost>>

\* The browser goes away while the handler awaits a blocking job.  The
\* handler is dropped; the job it started runs on with nobody to report to.
\* Of the awaits of a streamed removal the first is the user's own session
\* being stopped, so nothing at all may have been uninstalled.
Hangup(r) ==
    /\ "hangup" \in Faults
    /\ \/ pc[r] = "taking" /\ Slug(r) \notin Hosts
       \/ pc[r] = "working" /\ Op(r) = "podman"
    /\ \/ Goto(r, "dropped") /\ UNCHANGED locals
       \/ Slug(r) \in Streamed /\ Leave(r)
    /\ UNCHANGED <<files, host>>

Dropped(r) ==
    /\ pc[r] = "dropped"
    /\ IF Op(r) = "remove" THEN TakeAway(r) ELSE UNCHANGED <<containers, onHost>>
    /\ Leave(r)
    /\ UNCHANGED <<files, appdata>>

-----------------------------------------------------------------------------
\* start and stop of a container app.  The record must be there; a container
\* that is gone, or whose port is taken, is the engine's refusal.
Start(s) ==
    /\ s \in Installed
    /\ containers[s] # NoContainer
    /\ ~containers[s].up
    /\ ~PortBusy(containers[s].port)
    /\ containers' = [containers EXCEPT ![s].up = TRUE]
    /\ UNCHANGED <<files, onHost, appdata, pc, locals>>

Stop(s) ==
    /\ s \in Installed
    /\ containers[s] # NoContainer
    /\ containers[s].up
    /\ containers' = [containers EXCEPT ![s].up = FALSE]
    /\ UNCHANGED <<files, onHost, appdata, pc, locals>>

\* The daemon dies and systemd starts it again.  Requests and tasks are gone;
\* the files, the engine and the host keep what they had.
Crash ==
    /\ "crash" \in Faults
    /\ \E r \in Reqs : pc[r] # "idle"
    /\ pc' = [r \in Reqs |-> "idle"]
    /\ job' = [r \in Reqs |-> NoJob]
    /\ plan' = [r \in Reqs |-> NoPlan]
    /\ snap' = [r \in Reqs |-> EmptyBook]
    /\ UNCHANGED <<files, host>>

\* What the daemon does on its own once a request is in.
Task(r) ==
    \/ WorkFailed(r) \/ Pulled(r) \/ Created(r) \/ CreateFailed(r)
    \/ UnitWritten(r) \/ UnitStarted(r) \/ Provided(r) \/ DepsWorked(r)
    \/ CommitRead(r) \/ CommitWrite(r) \/ CommitFailed(r)
    \/ Undo(r) \/ Finish(r) \/ Fail(r)

Handler(r) ==
    \/ Refuse(r) \/ CheckFlag(r) \/ CheckBook(r) \/ Claim(r) \/ Adopt(r)
    \/ RemoveRead(r) \/ Take(r) \/ Forget(r) \/ Purge(r) \/ Dropped(r)

Next ==
    \/ \E r \in Reqs : Ask(r) \/ AskDeps(r) \/ Handler(r) \/ Task(r) \/ Hangup(r)
    \/ \E s \in Containers : Start(s) \/ Stop(s)
    \/ Crash

Spec == Init /\ [][Next]_vars

\* A handler that was polled and a blocking task that was spawned are run to
\* their end by the runtime.
FairSpec == Spec /\ \A r \in Reqs : WF_vars(Handler(r) \/ Task(r))

-----------------------------------------------------------------------------
(* What the manager promises. *)

\* A request that has claimed the flag and still owes it a last word.
Holds(r) ==
    /\ r \in Reqs
    /\ Op(r) \in {"install", "deps", "podman"}
    /\ pc[r] \in TaskPCs

\* README.md:1286 "Installs are one at a time, host-wide.  A second one is
\* refused while the first is running": no two requests are past their claim.
OneInstall == \A q, r \in Reqs : Holds(q) /\ Holds(r) => q = r

\* Whenever the flag says an install is running, the request that said so
\* still is: "another install is already running" (apps.rs:1715) is never
\* told about nothing.
FlagIsHonest == status.state = "running" => Holds(status.by)

\* What the host had before WebDesk stays on it: no install that fails and
\* no removal, however stale the record it read, takes a unit or a Flatpak
\* away that somebody else put there (apps.rs:2257-2262).
FoundStays == Found \subseteq onHost

\* The flag does not stay up: whatever fails, every claim is followed by a
\* last word, so installing is possible again.
FlagLowered == status.state = "running" ~> status.state # "running"

=============================================================================
