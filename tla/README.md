# A TLA+ model of WebDesk

WebDesk is a daemon, written in Rust, that shows a desktop of a Linux host in a
browser: files, terminals, a panel of the host's services, and apps that are
installed as containers, as services of the host, or as Flatpaks whose window
is streamed.  This directory models the parts of it in which several actors
share state, model-checks them with TLC and proves theorems about them with
TLAPS.  Paths below are relative to the repository.

Contents: [the system](#the-system) · [plan](#the-plan) ·
[modules](#the-modules-and-the-code) · [runs](#the-runs) ·
[proofs](#the-proofs) · [findings](#what-the-code-does-not-promise) ·
[limits](#what-is-not-modelled)

## The system

The daemon (`src/main.rs`) is one process with a multi-threaded async runtime.
Handlers of HTTP requests run on it; work that blocks is handed to blocking
threads, long work to tasks that outlive the request that started them.  Three
consequences run through all of the code:

* a handler is *dropped* at an `await` when its browser disconnects, and what it
  had handed to a blocking thread runs on without it;
* two handlers run on two threads, so whatever is read first and written later
  without a lock can change in between;
* the daemon can die, or be restarted by its own update, at any point: what was
  in memory is gone, what was in files, in systemd or in the container engine
  stays.

| Component | State | Operations | Interacts with | What is hard | What makes it correct |
|---|---|---|---|---|---|
| session table and file API, `main.rs` | map from token to session; each session's helper behind a mutex | login, logout, list, read, write, mkdir, remove | helper, by messages over a socket | a client that leaves while the helper works; sign-out meanwhile; last reference kills the helper | answers match questions; no stray helper; locks are let go; no half-written file |
| helper, `helper.rs`, `proto.rs` | what it is working on; the user's files | read one request, do it, answer | the daemon's channel | no request numbers: order is all there is | as above |
| app manager, `apps.rs` | `apps.json` (the book), `apps.status` (the install flag), `appdata/` | install (three kinds), adopt, remove, purge, start, stop, open, close, resize | engine, systemd, Flatpak, deps | every file is read, decided on and written back without a lock; tasks outlive requests; cleaning up after failures | installs work alone; distinct ports; nothing found on the host is taken away; no orphan container; the flag is always lowered |
| state files, `apps.rs`, `update.rs`, `webdesk-update` | a file, its temporary name, inodes | write aside and rename; read | each other | the temporary name is fixed, writers are many | a read is never torn |
| host dependencies, `deps.rs` | the install flag; what is installed | dependency job; removal of Podman | app manager's flag | the flag is raised in a handler and lowered after an await | the same flag rules |
| container engine, `engine.rs` | containers by name, ports they publish | pull, create, start, stop, remove | called by apps | failing half-way; names and ports taken | see app manager |
| systemd units, `systemd.rs` | unit files, what systemd has loaded | write, enable, start, stop, remove; user units | called by apps and sessions | file and reload are two steps | a unit somebody else wrote is left alone |
| Flatpak, `flatpak.rs` | installed applications | provide, remove | called by apps | found or downloaded is decided early and used late | what was found stays |
| catalog, `catalog.rs` | none (a table) | lookup | apps | – | fixed ports outside the range handed out |
| self-update, `update.rs`, `webdesk-update` | `update.status`, `update.lock`, the unit's name | apply; the script's phases, trap and end; by hand | installer, systemd | a check then a claim; a script that dies before its trap; refused launches; two ways to start | one installer at a time; "running" is never left behind; every update settles |
| installer, `install.sh`, `bootstrap.sh`, `deploy.sh` | source tree, binary, service | fetch, build, replace, restart, provision | self-update | a failure after the restart | see self-update |
| host panels, `cockpit.rs` | table of bridges (mutex), each bridge (mutex), channels, frames | look up or open, lock, call, receive, evict, sweep | `cockpit-bridge` processes | late answers in one stream; dead bridges replaced under a request's feet; the table is locked while one is opened; writes that have no deadline | answers match questions; one bridge per session; all requests are answered, but those whose own bridge does not read |
| streamed sessions, `session.rs`, `apps.rs`, `systemd.rs` | user units, sockets, the compositor | open, close, resize, remove | systemd, RFB relay | fixed waits instead of acknowledgements; stale sockets | an open after a close works; a removal stops every user's session |
| origin listeners, `origin.rs` | a listener per app | start, stop | TLS | no entry of the catalog asks for one in this build | – |
| terminal, `pty.rs` | a shell, a queue of 64 chunks | input, output, resize, close | browser | a reader thread, a pump and a loop that end in any order; a writer that blocks | the shell is killed when the browser goes; its last output arrives |
| RFB relay, `rfb.rs` | two directions of bytes | pump | compositor | either side ends first | both directions end |
| app proxy, `proxy.rs` | none | relay, rewrite | origins | – | what it rewrites |
| authentication, `auth.rs` | none | PAM, group lookup | main | – | – |
| TLS, `tls.rs` | certificate, accept loop | accept, redirect | origins | – | – |
| browser desktop, `ui/app.js` | windows, polls | poll an update, show | all endpoints | polling across a restart | it notices how an update ended |
| tools, `scripts/`, CI | none | – | – | – | – |

`PROJECT.json` lists the same components with what is modelled of each, and
every hazard at its line with the properties that would notice it.

## The plan

In the order in which the behaviour matters and in which it is built:

1. **Apps** – the book, the flag and the three kinds of install against each
   other, and **AppsHistory**, which adds who got in whose way.  *Done*, with
   theorems for all but the lowering of the flag.
2. **Publish / AtomicFile** – how every state file is replaced, by any number of
   writers; the abstract file changes in one step, the detailed one implements
   it.  *Done*, refinement checked and proved.
3. **Sessions** – the daemon and its helpers.  *Done* without rename.
4. **SelfUpdate** – browser, script, lock, trap.  *Done* up to the inside of the
   installer, with theorems.
5. **Bridges** – the host panels' processes, table and replies.  *Done*; with
   **Frames** (encoder and decoder), **Sample** (metrics) and **Units** (the
   services panel) for what is read from them.  *Done* without the journal, with
   theorems.
6. **Streams** – open, close, resize and removal of a streamed app, the unit,
   what runs in it and what it leaves behind.  *Done*, with theorems.
7. **Terminal** and **Relay** – two pumps: threads, bounded queues, either end
   first; both sides end, output in order and complete.  *Done*, with theorems for
   the order.
8. **Proxy** – doors, cookies, redirects and a browser.  *Done*, with theorems.
9. **Certificate** – the self-signed pair and a disk that fails.  *Done*, with
   theorems.
10. **Provision** – the rules on what a host lacks, what can be put there and
    when Podman may go.  *Done*, with theorems.
11. *Left:* the tree that `bootstrap.sh` and an update replace, and the browser's
    poll across the restart, as a refinement of SelfUpdate; the update of an
    installed app; a Dock that Apps implements, in which an app is absent, being
    installed or there.
12. *Left to prove:* a Dock (11) that Apps implements; that a relay and a terminal
    each implement a pair of queues; and, if the prover learns `ENABLED`, the
    properties with fairness, which stay with TLC.

## The modules and the code

An action is one step of the code between two points where another actor can
come in: an access of a shared file, a command handed to another program, a lock
taken or let go, an await.  What a handler does to memory of its own in between
is part of the step.  Definitions keep the names of the source where they have
one, and `PROJECT.json` gives the lines of each.  Operators marked *Mutant* are
not part of a specification: they are plausible mistakes, each of which breaks
the property it is listed with.

### Apps

`book` is `apps.json`, `status` the install flag `apps.status`, `containers`
what the engine has under `webdesk-<slug>`, `onHost` the units and Flatpaks that
are there, `appdata` the directories.  A request has `pc`, `job`, the `plan` it
will record and, while it rewrites the book, the `snap` it read.

| Action | Code |
|---|---|
| `Ask`, `AskDeps`, `Refuse` | a request, and every early return that depends on nothing kept here |
| `CheckFlag`, `CheckBook` | the looks at flag and book; containers look at the flag first (apps.rs:1714), the other kinds at the book first (2018, 2235) |
| `Claim`, `Adopt` | "running" is written and the task is spawned; or a unit that is there is recorded at once |
| `Pulled`, `Created`, `CreateFailed`, `UnitWritten`, `UnitStarted`, `Provided`, `DepsWorked`, `WorkFailed` | the task, each failure included |
| `CommitRead`, `CommitWrite`, `CommitFailed`, `Undo`, `Finish`, `Fail` | the record and the last word of the task |
| `RemoveRead`, `Take`, `Forget`, `Purge` | `remove`, which writes back the book it read before it waited |
| `Hangup`, `Dropped` | a handler dropped at an await, and the job it had started |
| `Start`, `Stop`, `Crash` | containers started and stopped; the daemon's end |

The flag keeps who wrote it last (`by`), which the file does not: a ghost of the
model that only properties read.  The slug and the phase in it are left out: no
code decides by them.

Every request may fall between any two steps of another: the code holds nothing
across the look at the flag and its claim, a read of the book and its writing
back, or a removal's record and its directory.  `Faults`: `"crash"`, `"hangup"`,
`"disk"` (a write in the state directory fails), `"engine"` (a deletion fails).

What the manager promises can therefore not be "one install at a time": two that
cross do both work.  `AppsHistory` adds three variables that no action of Apps
reads, computed by `Recall` in every step (`HistoryNext` is the next-state
relation of Apps, each action with its history), and states the promises with
them:

| History | Says |
|---|---|
| `crossed` | since the manager was last at rest, two requests have been between look and claim together, or a claim could not be written |
| `overtaken` | the requests that go by a book they have read, into which somebody else has put a record since |
| `doubtful` | the container apps whose record was last written, or lost, by a request that had been overtaken, or by one about another app |

| Property | Says, of requests that may always overlap |
|---|---|
| `WorksAlone` | no two requests are past their claim together, unless `crossed`; when the last of those is over the promise is whole again |
| `PortsDistinct` | no two container records share a port, unless one of them is `doubtful` |
| `NoOrphan` | a container nobody is working on is in the book, unless its record is `doubtful` |
| `OnlyRemovalDeletes` | the container of an app in the book is deleted by a removal of that app, or by the clean-up of an install of it that was `overtaken` |
| `PurgeSparesInstalled` | the directory of an app in the book is deleted only by a purge during which the app came back |

None of the exceptions is given away by an assumption: the race is in the model,
the exception names the one thing that must have happened, and everything else
that installs, removals, disconnects and crashes do to each other is forbidden.

### AtomicFile and Publish

`AtomicFile` is what a caller hopes for: a file that changes from one whole text
to another in one step, and a call that is answered.  `Publish` is what the code
does: a temporary name and a file name that point at inodes, writers that open
(truncating), write, rename, and may fail or die at each step, readers that open
and then read.  Several writers may be at it together, since no lock in the code
keeps them apart.
`met` has the calls that have been between their open and their rename together
with another, `spoiled` the inodes such calls have had in hand.  `ReadsWhole` is
about all other inodes.  `ImplementsAtomicFile` is the refinement, with the
contents of the file's inode for the abstract file: a call that met nobody
replaces the file in one step or changes nothing, and is told which; one that
met another may leave anything, until it has answered (`Mangle`, `Muddle`), and
the next call that meets nobody is owed the whole promise again.

### Sessions

`sessions` is the map, `helper` each token's process, `toHelper` and
`fromHelper` the two directions of its socket, `work` what it is doing, `lock`
the mutex of `ask`.  `Login`, `Logout`, `Call`, `Lock`, `Send`, `Receive`,
`Reply` and `Hangup` are the daemon; `Take` and `Dispatch` the helper, for which
a write is two steps because it truncates first.  `Held` is who has a reference:
`LetGo` and `Logout` kill the helper with the last one, as dropping the last
`Arc` does.  A crash takes the helpers along, which live in the service's
control group.

### SelfUpdate

`status`, `lock` and `unit` are the status file, the file lock and the name of
the transient unit; `hpc` the handlers of apply, `spc` runs of the script.
`Check`, `Claim`, `Launch`, `Refused` are the handler; `Enter` (flock),
`Begin` (the trap is set), `Prepared`, `Installed`, `Provisioned`, `Finish`,
`Fail`, `Leave` the script; `Collect` systemd noticing that the unit has ended;
`ByHand` the script in a shell.  Installing restarts the daemon and so ends its
handlers.  `HasFlock` and `HasSystemd` are the two fallbacks of the code.

### Bridges

`table` with `tableLock` is `BRIDGES`, `bridge` the struct and process of each
bridge (channel counter, the pipe to its stdin, questions it has read, frames to
be read), `bridgeLock` its mutex.  `Reuse`, `Spawn`, `Greeted` and `OpenFails` are
`bridge_for`, whose sweep is part of the step; `Lock`, `Call`, `Skip`, `Receive`,
`GiveUp`, `Close`, `CallFails` and `Evict` are `with_bridge` and the client of the
protocol; `Take`, `Answer`, `Die` and `GoDeaf` are the other program.  The pipe
holds `Room` messages: a call, and the close of a channel, which fails silently on
a bridge that is dead, wait for room with the bridge's lock held and without a
deadline (cockpit.rs:427-433).  A bridge that lives and does not read is `"deaf"`;
`Waits` is who is stuck with it, and the exception of `Answered`.  Every change of a
reference goes through `Become`, which kills the bridges nobody refers to any more,
as `Drop` does.

### Streams

Per user: `unit` (inactive, active, or how far its stop is), `stage` (how far
the processes inside it are), `vnc`, `app`, the `file` of each of the three
sockets (absent, served, left over) and `size`.  Requests have a `pc` of their
own and may overlap as blocking threads do.

| Action | Code |
|---|---|
| `Ask` | the handlers' first check |
| `FindTemplate`, `WriteTemplate`, `Reload`, `ReloadFails`, `Start` | `open_app`: `install_app_template` and `systemctl start` |
| `Stop`, `Uninstall`, `Forget` | `close_app`, and the removal of a streamed app, which stops the remover's unit only |
| `Connect`, `Resize`, `NoAnswer` | `resize` and `serve_control` |
| `Prepare`, `ClearRunning`, `Settle` | `run`: `prepare_socket` and `clear_running`, with its wait by the clock |
| `StartVnc`, `BindVnc`, `BindControl`, `RunApp`, `Returned`, `Cleanup`, `Exit` | `inside_cage` in its processes and threads, and what the compositor does after it |
| `StopApp`, `StopUnlink`, `EndRest`, `Wedged` | `stop_app` as ExecStop, and systemd's end of what is left |
| `Quit`, `Ended`, `Elsewhere`, `Killed`, `VncDies`, `DaemonDies`, `Reboot` | the person, and what goes wrong |

`untold` has no counterpart in the code: it remembers for whom a template was
written whose reload failed or never came, the exception of `WrittenIsLoaded`.

### Terminal and Relay

`Terminal` is `pty.rs`: the handler (`Take`, `Write`, `SeeGone`, `KillShell`,
`AbortPump`), the reader thread (`ReadChunk`, `SendChunk`, `EndReader`), the pump
(`ForwardChunk`, `ForwardFails`, `Farewell`), the shell and a background job that
keeps the pty open.  `Relay` is `ws_rfb` and `pump` of `rfb.rs`: a task in each
direction and `Select`, which takes the survivor down with the first that ends.
What is carried is numbered, so that order and gaps can be told.

### Proxy

`Handle` is the proxy's decision (no session, not installed, redirect to the
slash, redirect to the app's own port, forward), `Forward` the connection to the
app, `Relay` what becomes of its answer: `RewrittenCookie`, `RewrittenLocation`.
The browser is modelled by what the proxy relies on: one jar for all ports of a
host, cookies sent by path, redirects followed.  `Manage` and `SignOut` come in
between any two of these steps.

### Certificate

`Start` is `config`; `MakeDirectory`, `EmptyCert`, `WriteCert`, `EmptyKey` and
`WriteKey` are `store`, each of which may fail (the pair is then served from
memory); `KillDaemon` is the daemon killed between two of them.

### Frames, Sample, Units

Three things that are read from a bridge.  `Frames` is the codec at the level of
bytes, with reads of any length: `next_frame` is the operators from `Scanned` to
`OutOfStep`.  Lengths are written in base two so that small frames have lengths
of several digits; `Digits` writes one and `NumberOf` reads it.  That the bridge
writes nothing its reader has no room for (`MAX_LENGTH_LINE` and `MAX_FRAME`,
cockpit.rs:87-92) is `FramesAssumption`.  `Sample` is the metrics channel and
`merge_row`: rows in which what has not changed is null, against the levels of
the host that the row stood for (`merged`, a ghost).  `Units` is the services
panel: two calls to systemd between which the host moves, and the verbs, which
act only on what was just listed.

### Provision

`Row` is the table of `deps.rs`; `ProvidesHere`, `AbsentFor`, `PanelRows` and
`Planned` are its pure rules, over a host of any kind (`SetUp`); `Look`, `Press`,
`PlanAgain` and `InstallPackages` the requests and the job.  The removal of Podman
is four steps, between which the operator may change the host: `CheckEngine`,
`CountContainers`, `RemovePodman` (the flag), `RemovePackage`.  `InUse` is
`engine::detect` with its override: `machine.forced` is what `WD_CONTAINER_ENGINE`
says, and with it Podman may go from a host that has nothing else, which
`EngineLeft` says.  `Packaged` is what the repositories of that host really have.

### How the parts meet

Apps, Sessions, Bridges and Streams have instances of their own.  `MCUpdate` has
updates from the browser and, side by side with them, the file such a status is
kept in: SelfUpdate takes a write of the status to be one step, which is what
Publish is about.  The other parts that share no state with one another (updates
by hand, terminal, relay, proxy, certificate, frames, sample, units, provision)
are in one instance, `MCParts`, with one of them on `stage` in each behaviour:
what a step of one does cannot depend on another, so nothing is lost, and what
each promises is checked under the fairness it states.  That a behaviour of this
instance is one of every part's own specification is a theorem
(`EachPartIsItself`).  `MCParts` lists the alternatives of every next-state
relation one at a time, for TLC to count the steps of each: all of them occur.
`MCApps`, `MCUpdate` and `MCSelfUpdate` likewise leave out the steps that their
constants give no occasion.

Where components interact through a result only, the module of the caller has the
outcomes as alternatives: an install of Apps gets any outcome the engine, systemd
or Flatpak may give; the dependency job of Apps is the job of Provision; a removal
in Streams is the removal of Apps seen by the users' sessions; the requests of
Bridges read frames that Frames decodes.

## The runs

| Run | Shows | Bounds |
|---|---|---|
| `Apps_containers` | with every overlap, crashes and disconnects: two records share a port, a clean-up hits an installed app, or a purge its directory, only where a request went by a book that somebody had added to since | two containers, two requests, two ports |
| `Apps_kinds` | installs work alone unless two crossed or a claim was lost; no orphan container but for a stale book; with a disk that fails and browsers that leave | a container and a host service that may be adopted, two requests |
| `Apps_raced` | a raised flag is held by somebody and is lowered, found Flatpaks stay; with engine failures | one app of each kind, the Flatpak found, two requests |
| `Apps_two_installs` | *violation*: two requests that look at the flag before either claims it both install | one container, two requests, no faults |
| `Sessions_served` | own answers, no stray helper, writes are not cut short, locks are let go, helpers of ended sessions go | two sessions, two requests, one file |
| `Update_web` | without flock: an honest status, and updates settle; beside it the status file: reads are whole, and it implements one that is replaced in a single step, for all that met nobody at the temporary name; with a failing disk and a crash at every step | two handlers, three runs of the script; two writers, one reader, three inodes |
| `Bridges_shared` | own answers, one bridge until somebody evicts, every request answered but those whose own bridge does not read; with refused, idle, dying and deaf bridges and late answers | two sessions, three requests, three bridges, a pipe with room for one message, one or two calls |
| `Streams_drawn` | what is written is loaded unless its reload failed, a session that is up is reachable, an old copy never takes the new window, every beginning is served or ends, every request is answered; with every fault | one user, two requests |
| `Parts_apart` | one update at a time and its status its own; output, pictures and keys complete and in order; shells reaped, threads and relays ended, viewers told; cookies their owner's, visits that arrive; frames decoded; samples and panel true to the host; the certificate kept; dependencies served | see below |
| `SelfUpdate_stuck` | *violation*: a lost lock leaves "running" behind | as `Update_web`, by hand as well |
| `Certificate_full` | *violation*: a disk that fills up between the two files makes a daemon that cannot start | three pairs |
| `Provision_el10` | *violation*: on Enterprise Linux 10 the compositor that is offered cannot be installed | every set of programs, no change by hand |

Several properties are conjunctions of named parts, each with a comment of its
own, that are about one promise: `OutputKept` (`NothingLost`, `LastWords`),
`InOrder` (`KeysInOrder`, `PictureInOrder`), `ShellReaped`, `Decodes`
(`InStep`, `NothingWithheld`, `NoiseIsNoFrame`), `SampleRight`, `PanelTrue`,
`HostServed`, `Ends`.  `PartsTypeOK` joins the type invariants of the parts.

**Why these bounds are enough.**  The hazards are between *two* parties (two
  requests, two handlers, two writers, a request and a sign-out), so each run
  has two of the party that races; where a third is needed to see the damage (a
  third request for the second bridge, a third run of the script that finds the
  lock taken by one that is leaving) there are three.  Two ports for two
  containers make the range run out and be reused; a third request would only be
  a second one that overtakes, and the theorems cover any number.  Two writers,
  one reader and the file refer to so many inodes that with three all sharing of
  inodes occurs; when none is free a write waits for the reader.  A request slot
  is used again and again, so histories are not bounded by the number of slots,
  except in Bridges, where each request is asked once: with three requests in
  all orders every sequence of three lookups of a session occurs.  A pipe with
  room for one message is full as soon as a deaf bridge has been asked, so that
  the close, the next call and the next request each meet it full.  Sessions of
  different keys meet only in the table and its lock, which the theorems of
  Bridges cover for all keys.  A streamed app's users share the book and the
  Flatpak and nothing else; a user's unit, sockets and processes are their own,
  which the theorems of Streams cover for all users, and both a request that
  opens and one that closes or removes fit in two slots.

In `Parts_apart`: two handlers and three scripts with every overlap and fault;
three chunks in each direction of a terminal through a pty and a queue with room
for one, so that each of the three blocks; two bytes in each direction of a
relay, with pings and text between them; two apps, one with a port of its own,
that set cookies of one name; three certificate pairs; two frames with two bytes
of data, a length line and a frame of at most four; four messages of a bridge
about two file systems (a description, two rows and one thing that interferes);
a service and another unit with two changes of the host; Fedora, EL 9 and
EL 10 and a host with apt, every set of programs, one change by hand.

**Deadlock** is checked in every run but those of the parts, each of which has an
end: a terminal that is closed, a sample that is answered, frames that are all
written.  In Bridges the step `Rest` stands for panels that are not asked any
more.

**Symmetry** is used between interchangeable model values in runs that check
safety only; runs with liveness have none.

**Fairness.**  `FairSpec` of Apps: a handler that is polled and a task that is
  spawned are run to their end by the runtime; nothing is assumed about new
  requests, about disconnects or about which outcome a step has.  Sessions: the
  same for blocking jobs, and a helper that is alive reads and answers, which
  takes it that a file operation comes to an end (a FIFO would not; see the
  hazards).  SelfUpdate: a running thread and a running process go on; every
  download in the script has a limit and a build ends.  Bridges: a blocking task
  goes on, and a read gives up at its deadline, which is why `CanFail` is
  enabled whenever a request is reading; a write has no deadline, and waits as
  long as the pipe is full.  A bridge that is not deaf reads what is written to
  it (`Take`); nothing else is assumed of `cockpit-bridge`, which may go deaf at
  any time.  Streams: threads, processes and systemd go on, and a copy that was
  killed ends.  Its one strong fairness is on `Start`: systemd queues a start
  behind the stop of the same unit and runs it when that is over, so it is not
  overtaken by stops for ever. Terminal: handler, reader and pump are run and
  the browser answers a close; nothing is asked of the shell, which may never
  read or print or exit.  Relay: the tasks are run and both ends read.  Proxy:
  the handler goes on, an app that listens answers, a browser shows what it
  gets.  All others are weak fairness on the disjunction of an actor's steps: no
  actor needs a particular branch to be taken.

## The proofs

Each theorem is `Spec => []Inv`, or `Spec => [][A]_vars`, for every value of the
constants that satisfies the named assumptions of the modules, by an invariant
that is inductive: it holds initially, every action preserves it, and it implies
the property.  Every safety invariant and every action property that a passing
run checks has its theorem, and so has the refinement of `AtomicFile`.

| Module | About |
|---|---|
| `Apps_proofs`, `Publish_proofs`, `Sessions_proofs`, `Bridges_proofs`, `Streams_proofs` | the module of that name |
| `Web_proofs` | what the daemon passes on: Terminal, Relay, Proxy, Frames |
| `Host_proofs` | the host: Certificate, Units, Provision, Sample, SelfUpdate |
| `Parts_proofs` | `MCParts`, the instance of all the parts that `Web_proofs` and `Host_proofs` are about |

| Theorem | Under | Strengthening and why it is needed |
|---|---|---|
| `Apps_proofs!TypeCorrect` | – | `PlansAPort`: a container is made with the port its request planned, so plans must hold ports of the range |
| `FoundAlwaysStays` | – | `RecordsKnow`, `PlansKnow`: every record of a found Flatpak, in the book, in a stale copy or planned, says adopted; `TakesWhatItRead`: a removal acts on a record that was there; `StartsOwnUnit`: only a unit that was not found is rolled back |
| `FlagAlwaysHonest` | no crash, disconnect or failing disk | `WorksForFlag`: a request at work is one that owes the flag a word |
| `InstallsWorkAlone` | – | `TasksHold`, `Uncrossed`: who is past the claim is a holder, and unless two crossed, one request at a time looks or holds, with the flag up while one holds |
| `PortsAlwaysDistinct` | – | `PlansAreNew`: what an install has planned is not in the book, and has a port no record has, unless the install was overtaken; `RemovalsTake`, `PurgesAbsent`: what a removal is about to write back is what it read, and a purge is of an app that is not in the book, unless it was overtaken.  Without them a stale copy brings a freed port back beside its new owner |
| `OnlyRemovalsDelete`, `PurgesSpareInstalled` | – | the same |
| `NeverOrphaned` | `EngineHeeds`: no crash, and an engine that deletes what it is told to | `ContainersAnsweredFor`: every container is in the book or doubtful, or about to be recorded or undone by the request that made it; `TakenAnsweredFor`: so is one whose record a removal is about to take.  Neither races nor a failing disk nor a browser that leaves matters |
| `Publish_proofs!ReadersSeeWholeFiles` | – | `Alone`: a call that has met nobody has an inode in hand that is the temporary one and nobody else's; `Together`: the others have met, and what they have in hand is spoiled; `TempApart`: nobody reads the temporary file |
| `PublishImplementsAtomicFile` | – | the same invariant; each step is a step of `AtomicFile` or a stutter |
| `Sessions_proofs!SessionTypes`, `AnswersAreOwn` | – | `Conversation`: of a session, the message of whoever holds the lock is in exactly one place, on the way, at work or answered, and no other message is anywhere |
| `NoHelperStrays` | – | the same |
| `Host_proofs!UpdateTypes` | – | – |
| `OneUpdateWithFlock` | `HasFlock` | a script past the lock has it |
| `OneUpdateFromTheWeb` | `HasSystemd`, none by hand | a script that is there has the unit's name |
| `StatusAlwaysHonest` | the same, nothing is killed and none dies early | the two above, and the lock is held by somebody who is past it |
| `NoRunSpeaksOver` | `HasFlock`, or the conditions of `OneUpdateFromTheWeb` | `AloneThere`: one script at a time is past the lock, for either reason, and only there does one write the status |
| `Bridges_proofs!BridgeTypes`, `AnswersAreOwn` | – | `Numbered`: no message in the pipe, question or frame bears a number the counter has not given out; `Reading`: the channel that is being read is the question's own |
| `OneBridgeUntilEvicted` | – | `Settled`: what a request uses is in the table or has died since, as long as no request of its session has come to evict; a bridge is opened while the table is locked and has no entry for it; nobody at work has a stale session |
| `SessionsHaveOneBridge` | bridges do not die | the same: then nothing is evicted |
| `Streams_proofs!StreamsTypes` | – | `OfSomeone`: a request under way is some user's |
| `TemplateIsKnown` | – | none: inductive once a request that has written stays until it has reloaded (a person whose reload failed is in `untold`) |
| `ServerIsReachable`, `GroundIsClear` | – | `SessionInv`: a unit that is inactive has no processes, an RFB server is there only between its start and the cleanup, and from the clearing on no old copy draws; without the first two a removed socket could be that of a running server |
| `SizeIsKept` | – | `SessionInv`: before the application runs the output has the size of the entry, as the control socket is served only from then on, so the first size is never set over one that was asked for |
| `Web_proofs!ProxyTypes` | – | a visit is for an app, and at a port only for one that has it |
| `CookiesAreOwn` | – | `JarIsOwn`: a cookie in the jar is the session's, or at the path of the app that set it, or set by an app at a port of its own; `CarriesOwn`: so is what a visit carries |
| `SessionAlwaysKept` | – | no cookie an app sets survives under the session's name |
| `TerminalHasTypes`, `OutputAlwaysKept` | – | `OutputInv`: while the pump runs, screen, queue, the reader's hand and the pty make one line, which is what was printed; `Drained`, `SaidFarewell`: a goodbye is said only when reader and pty have ended and the queue is empty |
| `RelayHasTypes`, `RelayAlwaysInOrder` | – | `KeysComing`: as long as the task that passes bytes on runs, the messages on the way carry exactly the bytes after those handed over, in that order, with pings and text anywhere between |
| `FramesHaveTypes`, `AlwaysDecodes` | – | `FramesComing`: what was written is what was decoded and a rest, and buffer and pipe together hold the encoding of that rest and nothing else; a thread that reads has less than a frame of it.  `NoiseStays`: what a profile printed stays at the head of the buffer |
| `Host_proofs!CertificateTypes`, `SavedPairIsKept` | – | `CertificateInv`: there is no key on the disk without a certificate, and none beside a certificate that is being saved but the broken one its own write will replace, so a save never begins over a pair |
| `StartsUnlessCutShort` | neither a full disk nor a kill | `WholeOrAbsent`: outside a save the files are both absent or a pair.  The run `Certificate_full` shows what is lost without the condition |
| `PanelAlwaysTrue` | – | `LoadedTrue`, `FilesTrue`: each half of the listing is true of the units that have stood still since; `AllMet`, `AskedFirst`: a listing names only units that were on the host, and who may act is settled before anything is listed |
| `HostAlwaysServed` | – | `ViewHolds`: a view is of the host as it is, and what is installed is what was planned of it, unless somebody changed the host; `EngineChecked`, `NoneHeld`: what was checked for a removal of Podman still holds, unless it was touched since.  Under it, facts about the seven rows of the table, for every host |
| `SampleHasTypes`, `SampleAlwaysRight` | – | `RowsOnTheWay`: the messages on their way take the request, one by one, from where it is to where the bridge is; `RowRight`: the merged row is the levels it stands for, in the order of the description |
| `Parts_proofs!EachPartIsItself` | – | none: a step of the instance is one of the part on stage and none of the others |
| `PartsHaveTypes` | – | the parts' own theorems, by the one above |

The disk, crashes and races are in the constants, so a theorem without a
condition holds for all of them together.  A theorem with one says which faults
it leaves out.  No theorem assumes that two requests, two writers or two
administrators keep apart, for the code does not keep them apart; where they get
in each other's way the property says what is left of the promise, and what
happens then is said [below](#what-the-code-does-not-promise).  Assumptions on
constants are the named `ASSUME`s of the modules (null values are none of the
values, catalogs are disjoint, host ports lie outside the range, the decoder has
room for what the bridge writes); TLC evaluates them in every run.

Lengths, orders and positions are data, and what a decoder reads from them is an
induction.  The induction theorems of the library have an operator for a
parameter, which the provers cannot instantiate, so `Web_proofs` states induction
of the first order, over sets (`SetInduction`: a set that has 0 and with each
number the next has all), and proves by it what the recursive functions compute:
that `NumberOf(Digits[n]) = n` (`DigitsRead`), that each is defined, and how the
stream of a sequence of frames falls into its first frame and the rest.  No module
uses a `RECURSIVE` operator.

Only model-checked: the properties that need fairness (`FlagLowered`,
`LockLetGo`, `SignedOutHelperGoes`, `WritesEnd`, `UpdateSettles`, `Answered`,
`Ends`, `ShellReaped`, `ThreadEnds`, `RelayEnds`, `Told`, `Arrives`), since
fairness rests on `ENABLED`, which is out of the prover's reach; the absence of
deadlock; and the properties of the four runs that TLC refutes.

## What the code does not promise

Four disagreements between the code and its own words are runs (`findings` in
`PROJECT.json`): two installs that look at the flag before either claims it both
work, where README.md:1286 says that installs are one at a time and a comment
(deps.rs:832-835) admits the window (`Apps_two_installs`); an update by hand that is
just leaving makes one from the browser end before its trap, and "running" stays for
good (`SelfUpdate_stuck`);
a disk that fills up between the certificate and its key leaves a daemon that no
longer starts, where the comment promises a warning in the browser
(`Certificate_full`); Sway is proposed on Enterprise Linux 10, which has none,
before cage, which it has (`Provision_el10`).

Others are reachable in the modules, and have no run of their own; setting the
constants as said shows them:

* two installs that go by the book together may be given one port, and one that
  fails takes the other's container (`doubtful`, `overtaken`); a removal writes back
  the book it read before it waited, and forgets what was recorded meanwhile;
* an app that is installed again while the purge of its removal is still to come
  loses its directory (`PurgeSparesInstalled` excepts it);
* with `"crash"` a daemon that dies during an install leaves the flag up, and
  nothing resets it (`FlagIsHonest`); so does a browser that leaves during the
  removal of Podman, with `"hangup"`;
* two writers share the temporary file and one publishes what the other has begun
  (`spoiled`; apps.rs:278-279);
* with `"disk"` or `"hangup"` a removal can end with the container gone and the
  record there, and a failed install can leave a Flatpak that the retry takes
  for a found one (apps.rs:2263);
* signing out does not kill a helper that is answering: it goes with that
  request (`SignedOutHelperGoes` is the promise that holds; README.md:1174 is
  stronger);
* a bridge that lives and does not read its stdin stops every request of its
  session, with no deadline (`Waits`; cockpit.rs:427-433);
* where `WD_CONTAINER_ENGINE` says docker, or nothing that is an engine, Podman
  can be removed from a host that has no other engine, and containers that are
  run after they were counted go with it (`EngineLeft`; engine.rs:60-69);
* a request that met a dead bridge evicts whatever is in the table, its living
  replacement included, so that a session has two bridges for a while
  (`OneUntilEvicted` is what holds; cockpit.rs:576-578 is stronger);
* with `"check"` in `Overlaps` a refused handler writes "failed" over a working
  update (update.rs:290), which is why `RunningShown` excepts handlers;
* a reload that fails after the template was written, or a daemon that dies
  between the two, leaves a file the manager does not know; every later open finds
  the text in place, reloads nothing and cannot start the unit until the manager
  reads it for another reason (systemd.rs:385-398, `untold` in Streams);
* an RFB server that dies under a session is not started again and does not end
  the session: `Served` promises a beginning, and nothing after it;
* a removal stops the unit of whoever removes; in other users' sessions the app
  ends when the uninstall ends it, or when it is closed;
* a terminal whose handler is stuck in a write to a program that does not read
  does not notice that its browser has gone (`ShellReaped` says so), and a job in
  the background keeps the reader thread for as long as it has the pty
  (`ThreadEnds`);
* a relay whose write to the server fails first is closed without the goodbye
  (`Told`);
* two apps that are at the root of a port each get the other's cookies, as all
  ports of a host share a jar (`OwnCookies`; origin.rs:26-34 says so);
* a short line of digits that a login profile prints is taken for the length of a
  frame (`NoiseIsNoFrame` excepts it);
* a failure of `install.sh` after the restart is shown as an update that changed
  nothing (app.js:2274).

## What is not modelled

The tree of `bootstrap.sh` and the poll of the browser are planned (above).  Left
out for good: PAM and the handshake of TLS, calls into libraries with no state of
the program's; starting and stopping listeners for origins, which no entry of the
catalog asks for in this build; a pair of certificates the operator supplies;
headers and upgrades in the proxy, which no state depends on; detection of
hardware, mounts and package names, which read the host and change nothing;
listings, icons, the journal and the layout of the desktop; development tools.
`cockpit-bridge`, systemd, the container engine, Flatpak, package managers,
browsers, compositors and the file system are modelled from how the code uses
them.
