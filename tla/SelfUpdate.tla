----------------------------- MODULE SelfUpdate -----------------------------
(***************************************************************************)
(* Updating WebDesk from the browser: the apply handler of src/update.rs   *)
(* and the script it launches, libexec/webdesk-update, with the steps of   *)
(* bootstrap.sh and install.sh that replace the binary and restart the     *)
(* service.                                                                *)
(*                                                                         *)
(* A handler reads the status, claims it by writing "running" and launches *)
(* the script as a transient systemd unit of a fixed name.  The script     *)
(* takes a file lock, sets a trap and from then on owns the status: it     *)
(* writes "running" at each phase and, from the trap, how it all ended.    *)
(* It can be started by hand as well.  The status file is replaced in one  *)
(* step (module Publish), so a read of it is one here.                     *)
(***************************************************************************)
EXTENDS Naturals

CONSTANTS
    Handlers,    \* apply requests that can be in flight at once
    Scripts,     \* runs of the script that can be alive at once
    NoScript,
    HasSystemd,  \* systemd-run is there; without it the script is detached
    HasFlock,    \* flock is there; without it the script takes no lock
    Overlaps,    \* subset of {"check", "hand"}, see Check and ByHand
    Faults       \* subset of {"launch", "early", "kill", "crash", "power"}

ASSUME UpdateAssumption ==
    /\ HasSystemd \in BOOLEAN /\ HasFlock \in BOOLEAN
    /\ NoScript \notin Scripts
    /\ Scripts \cap Handlers = {}

VARIABLES
    status,      \* what update.status says, and who wrote it
    hpc,         \* how far each handler has got
    spc,         \* how far each run of the script has got
    unit,        \* the run that systemd has under the unit's name
    lock         \* the run that holds update.lock

vars == <<status, hpc, spc, unit, lock>>

Writers == Handlers \cup Scripts \cup {NoScript}
States == {"idle", "running", "ok", "failed"}

\* The trap is set and the last status has not been written.
Working == {"preparing", "building", "installed", "recording"}
Alive == {"booting", "locked", "over"} \cup Working

\* The types of the state.
TypeOK ==
    /\ status \in [state : States, by : Writers]
    /\ hpc \in [Handlers -> {"idle", "checked", "claimed", "refused"}]
    /\ spc \in [Scripts -> {"none", "ended"} \cup Alive]
    /\ unit \in Scripts \cup {NoScript}
    /\ lock \in Scripts \cup {NoScript}

Init ==
    /\ status = [state |-> "idle", by |-> NoScript]
    /\ hpc = [h \in Handlers |-> "idle"]
    /\ spc = [s \in Scripts |-> "none"]
    /\ unit = NoScript
    /\ lock = NoScript

WriteStatus(state, who) == status' = [state |-> state, by |-> who]

-----------------------------------------------------------------------------
(* The apply handler.  It never waits, so nothing but the end of the daemon *)
(* can cut it short; two of them run on two threads of the runtime.         *)

\* Nothing is held between the look and the claim.  Without the overlap
\* "check" no other handler looks in between.
Check(h) ==
    /\ hpc[h] = "idle"
    /\ status.state # "running"
    /\ "check" \notin Overlaps => \A g \in Handlers : hpc[g] # "checked"
    /\ hpc' = [hpc EXCEPT ![h] = "checked"]
    /\ UNCHANGED <<status, spc, unit, lock>>

Claim(h) ==
    /\ hpc[h] = "checked"
    /\ WriteStatus("running", h)
    /\ hpc' = [hpc EXCEPT ![h] = "claimed"]
    /\ UNCHANGED <<spc, unit, lock>>

\* A new run: it has done nothing yet.
Boot(s) ==
    /\ spc[s] = "none"
    /\ spc' = [spc EXCEPT ![s] = "booting"]
    /\ UNCHANGED lock

\* systemd refuses a name that is taken; a process of its own is never
\* refused.  The handler does not wait for the script.
Launch(h) ==
    /\ hpc[h] = "claimed"
    /\ \/ /\ HasSystemd => unit = NoScript
          /\ \E s \in Scripts :
                /\ Boot(s)
                /\ unit' = IF HasSystemd THEN s ELSE unit
          /\ hpc' = [hpc EXCEPT ![h] = "idle"]
       \/ /\ (HasSystemd /\ unit # NoScript) \/ "launch" \in Faults
          /\ hpc' = [hpc EXCEPT ![h] = "refused"]
          /\ UNCHANGED <<spc, unit, lock>>
    /\ UNCHANGED status

\* Mutant: only the browser is told.
RefusedSilently(h) ==
    /\ hpc[h] = "refused"
    /\ hpc' = [hpc EXCEPT ![h] = "idle"]
    /\ UNCHANGED <<status, spc, unit, lock>>

\* Written over whatever is there.
Refused(h) ==
    /\ hpc[h] = "refused"
    /\ WriteStatus("failed", h)
    /\ hpc' = [hpc EXCEPT ![h] = "idle"]
    /\ UNCHANGED <<spc, unit, lock>>

-----------------------------------------------------------------------------
(* The script. *)

\* "sudo webdesk-update" in a shell: no look at the status, no unit.
ByHand(s) ==
    /\ "hand" \in Overlaps
    /\ Boot(s)
    /\ UNCHANGED <<status, hpc, unit>>

\* The process is gone and its lock with it.  A unit stays for as long as
\* systemd takes to notice.
End(s) ==
    /\ spc' = [spc EXCEPT ![s] = IF unit = s THEN "ended" ELSE "none"]
    /\ lock' = IF lock = s THEN NoScript ELSE lock

Collect(s) ==
    /\ spc[s] = "ended"
    /\ spc' = [spc EXCEPT ![s] = "none"]
    /\ unit' = IF unit = s THEN NoScript ELSE unit
    /\ UNCHANGED <<status, hpc, lock>>

\* Mutant: the answer of flock is not looked at.
EnterAnyway(s) ==
    /\ spc[s] = "booting"
    /\ lock' = IF lock = NoScript THEN s ELSE lock
    /\ spc' = [spc EXCEPT ![s] = "locked"]
    /\ UNCHANGED <<status, hpc, unit>>

\* Mutant: the trap is set before the lock is asked for.
EnterTrapped(s) ==
    /\ spc[s] = "booting"
    /\ \/ /\ HasFlock => lock = NoScript
          /\ lock' = IF HasFlock THEN s ELSE lock
          /\ spc' = [spc EXCEPT ![s] = "locked"]
          /\ UNCHANGED status
       \/ HasFlock /\ lock # NoScript /\ End(s) /\ WriteStatus("failed", s)
    /\ UNCHANGED <<hpc, unit>>

\* A run that finds the lock taken goes at once, and its status is not
\* written: the trap comes later.
Enter(s) ==
    /\ spc[s] = "booting"
    /\ \/ /\ HasFlock => lock = NoScript
          /\ lock' = IF HasFlock THEN s ELSE lock
          /\ spc' = [spc EXCEPT ![s] = "locked"]
       \/ HasFlock /\ lock # NoScript /\ End(s)
    /\ UNCHANGED <<status, hpc, unit>>

\* Not root, no state directory, no log: the script ends before its trap.
DieEarly(s) ==
    /\ "early" \in Faults
    /\ spc[s] \in {"booting", "locked"}
    /\ End(s)
    /\ UNCHANGED <<status, hpc, unit>>

\* The trap is set, and the phases "starting" and "preparing" are written.
Begin(s) ==
    /\ spc[s] = "locked"
    /\ WriteStatus("running", s)
    /\ spc' = [spc EXCEPT ![s] = "preparing"]
    /\ UNCHANGED <<hpc, unit, lock>>

\* An installer is at hand.
Prepared(s) ==
    /\ spc[s] = "preparing"
    /\ WriteStatus("running", s)
    /\ spc' = [spc EXCEPT ![s] = "building"]
    /\ UNCHANGED <<hpc, unit, lock>>

\* bootstrap.sh and install.sh up to the restart of the service, which ends
\* every handler.
Installed(s) ==
    /\ spc[s] = "building"
    /\ spc' = [spc EXCEPT ![s] = "installed"]
    /\ hpc' = [h \in Handlers |-> "idle"]
    /\ UNCHANGED <<status, unit, lock>>

\* The rest of install.sh: the firewall and the app runtimes.
Provisioned(s) ==
    /\ spc[s] = "installed"
    /\ WriteStatus("running", s)
    /\ spc' = [spc EXCEPT ![s] = "recording"]
    /\ UNCHANGED <<hpc, unit, lock>>

Finish(s) ==
    /\ spc[s] = "recording"
    /\ WriteStatus("ok", s)
    /\ spc' = [spc EXCEPT ![s] = "over"]
    /\ UNCHANGED <<hpc, unit, lock>>

\* Mutant: the trap is not told of failures.
FailSilently(s) ==
    /\ spc[s] \in Working
    /\ spc' = [spc EXCEPT ![s] = "over"]
    /\ UNCHANGED <<status, hpc, unit, lock>>

\* set -e: whatever fails ends the script by way of its trap.
Fail(s) ==
    /\ spc[s] \in Working
    /\ WriteStatus("failed", s)
    /\ spc' = [spc EXCEPT ![s] = "over"]
    /\ UNCHANGED <<hpc, unit, lock>>

Leave(s) ==
    /\ spc[s] = "over"
    /\ End(s)
    /\ UNCHANGED <<status, hpc, unit>>

-----------------------------------------------------------------------------
(* What can go wrong around them. *)

\* No trap runs.
Kill(s) ==
    /\ "kill" \in Faults
    /\ spc[s] \in Alive
    /\ End(s)
    /\ UNCHANGED <<status, hpc, unit>>

\* The daemon dies and is started again.
Crash ==
    /\ "crash" \in Faults
    /\ \E h \in Handlers : hpc[h] # "idle"
    /\ hpc' = [h \in Handlers |-> "idle"]
    /\ UNCHANGED <<status, spc, unit, lock>>

\* The host does.
Power ==
    /\ "power" \in Faults
    /\ \E s \in Scripts : spc[s] # "none"
    /\ hpc' = [h \in Handlers |-> "idle"]
    /\ spc' = [s \in Scripts |-> "none"]
    /\ unit' = NoScript
    /\ lock' = NoScript
    /\ UNCHANGED status

Apply(h) == Claim(h) \/ Launch(h) \/ Refused(h)
Run(s) ==
    \/ Enter(s) \/ Begin(s) \/ Prepared(s) \/ Installed(s) \/ Provisioned(s)
    \/ Finish(s) \/ Fail(s) \/ Leave(s) \/ Collect(s)

Next ==
    \/ \E h \in Handlers : Check(h) \/ Apply(h)
    \/ \E s \in Scripts : ByHand(s) \/ Run(s) \/ DieEarly(s) \/ Kill(s)
    \/ Crash \/ Power

Spec == Init /\ [][Next]_vars

\* A thread that runs goes on, and so does a process: every download has a
\* time limit and a build ends.
FairSpec ==
    /\ Spec
    /\ \A h \in Handlers : WF_vars(Apply(h))
    /\ \A s \in Scripts : WF_vars(Run(s))

-----------------------------------------------------------------------------
\* "running" is never left behind: while the status says so there is a
\* handler or a script that has yet to say otherwise.  A status that stays
\* "running" has every later update refused (update.rs:265).
StatusHonest ==
    status.state = "running" =>
        \/ \E h \in Handlers : hpc[h] \in {"claimed", "refused"}
        \/ \E s \in Scripts : spc[s] \in Working \cup {"booting", "locked"}

\* Two installers never run at once: they share the source tree, the build
\* directory and the binary (bootstrap.sh:100, install.sh:175).
OneUpdate ==
    \A s, t \in Scripts : spc[s] \in Working /\ spc[t] \in Working => s = t

\* While an update works the status is its own, and says "running": no other
\* run of the script, dying or losing the lock, speaks over it.  Handlers can:
\* one that passed its look too early claims the status, and one that systemd
\* refuses writes "failed" (update.rs:290, app.js:2270).
RunningShown ==
    \A s \in Scripts :
        spc[s] \in Working =>
            status.by \in Handlers \/ status = [state |-> "running", by |-> s]

\* Every update is over in the end, and another can be asked for.
UpdateSettles == status.state = "running" ~> status.state # "running"
=============================================================================
