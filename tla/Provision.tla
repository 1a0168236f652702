------------------------------ MODULE Provision -----------------------------
(***************************************************************************)
(* What a host lacks and what WebDesk puts there: src/deps.rs, with the    *)
(* package managers of src/flatpak.rs.                                     *)
(*                                                                         *)
(* The table of dependencies, the rules that tell which of them this host  *)
(* can install, and the two ways they are asked for: the refusal of a      *)
(* streamed application, which offers what is absent, and the panel of     *)
(* everything that is missing.  Either is a view that is out of date when  *)
(* the button is pressed, for the operator has a shell.  The claim of the  *)
(* one installation there may be is in module Apps.                        *)
(*                                                                         *)
(* apt stands for pacman and zypper too, which have a name for the same    *)
(* rows.                                                                   *)
(***************************************************************************)
EXTENDS Naturals

CONSTANTS
    Releases,   \* subset of {"fedora", "el9", "el10"}: what a dnf may belong to
    MaxByHand   \* changes by hand, at most

ASSUME ProvisionAssumption ==
    Releases \subseteq {"fedora", "el9", "el10"} /\ MaxByHand \in Nat

VARIABLES
    machine,    \* what the host is: its manager, release, repositories and settings
    present,    \* the programs on its PATH
    holding,    \* podman holds containers of somebody's
    view,       \* what the browser was told
    work,       \* the installation or removal that runs, or has run
    byHand,     \* changes by hand so far
    touched     \* what of the host has changed since the view, or since it was checked

provisionVars == <<machine, present, holding, view, work, byHand, touched>>

-----------------------------------------------------------------------------
(* RUNTIME and EL.  A row is needed for one part of the catalog; rows of a *)
(* group are alternatives, in order of preference.                         *)

Row == <<[key |-> "docker",  need |-> "containers", offered |-> TRUE,  group |-> "engine"],
         [key |-> "podman",  need |-> "containers", offered |-> FALSE, group |-> "engine"],
         [key |-> "flatpak", need |-> "streamed",   offered |-> TRUE,  group |-> "none"],
         [key |-> "sway",    need |-> "streamed",   offered |-> TRUE,  group |-> "compositor"],
         [key |-> "cage",    need |-> "streamed",   offered |-> TRUE,  group |-> "compositor"],
         [key |-> "wayvnc",  need |-> "streamed",   offered |-> TRUE,  group |-> "none"],
         [key |-> "cockpit-bridge", need |-> "host", offered |-> TRUE, group |-> "none"]>>

Rows == DOMAIN Row
Key(R) == {Row[i].key : i \in R}
Keys == Key(Rows)
Need == {"containers", "streamed", "host"}

\* The prerequisite has a name for this manager.
Named(i, manager) ==
    /\ Row[i].key # "podman"
    /\ manager = "dnf" => Row[i].key # "docker"

\* Rows for which dnf is not the whole story, and the first release that has one.
FromEpel == {"wayvnc", "cage"}
Since(key) == IF key = "cage" THEN 10 ELSE 0

\* dnf_host_from: what os-release says, or nothing that is recognised.
Generation(release) == CASE release = "el9" -> 9 [] release = "el10" -> 10

Resolvable(key) ==
    CASE ~machine.recognised -> FALSE
      [] machine.release = "fedora" -> TRUE
      [] OTHER -> machine.epel /\ Generation(machine.release) >= Since(key)

\* provides_here
ProvidesHere(i) ==
    /\ Named(i, machine.manager) /\ machine.manager # "none"
    /\ machine.manager = "dnf" /\ Row[i].key \in FromEpel => Resolvable(Row[i].key)

\* What the repositories of the host really have, of what may be asked for.
Packaged(key) ==
    \/ machine.manager = "apt"
    \/ machine.release = "fedora"
    \/ key \in {"flatpak", "cockpit-bridge"}
    \/ key = "wayvnc" /\ machine.epel
    \/ key = "cage" /\ machine.epel /\ machine.release = "el10"

-----------------------------------------------------------------------------
(* absent_for *)

Here(i) == Row[i].key \in present
Peers(i) == {j \in Rows : Row[j].need = Row[i].need /\ Row[j].group = Row[i].group}

Satisfied(i) == \E j \in Peers(i) : Here(j)

\* The first alternative this host can install, if there is one.
Installable(i) == {j \in Peers(i) : Row[j].offered /\ ProvidesHere(j)}

Proposed(i) == Installable(i) = {} \/ (i \in Installable(i) /\ \A j \in Installable(i) : i <= j)

AbsentFor(need) ==
    {i \in Rows : /\ Row[i].need = need /\ Row[i].offered
                  /\ IF Row[i].group = "none" THEN ~Here(i) ELSE ~Satisfied(i) /\ Proposed(i)}

\* What the panel has a button for: what is missing, row by row.
PanelRows == {i \in Rows : ~Here(i) /\ Row[i].offered /\ ProvidesHere(i)}

-----------------------------------------------------------------------------
NoView == [kind |-> "none", keys |-> {}]
NoJob == [step |-> "none", packages |-> {}]

ProvisionInit ==
    /\ machine = [manager |-> "unknown"]
    /\ present = {} /\ holding = FALSE
    /\ view = NoView /\ work = NoJob
    /\ byHand = 0 /\ touched = {}

\* What WD_CONTAINER_ENGINE may say: an engine, nothing that is one, or it is unset.
Forced == {"unset", "docker", "podman", "unknown"}

\* A host of any kind, with anything on it.  A dnf may belong to a release that
\* os-release does not tell.
SetUp ==
    /\ machine = [manager |-> "unknown"]
    /\ machine' \in
          [manager : {"apt", "none"}, release : {"other"}, recognised : {TRUE},
           epel : {FALSE}, forced : Forced]
          \cup [manager : {"dnf"}, release : Releases, recognised : BOOLEAN,
                epel : BOOLEAN, forced : Forced]
    /\ present' \in SUBSET Keys
    /\ UNCHANGED <<holding, view, work, byHand, touched>>

Known == machine.manager # "unknown"

\* The operator installs or removes something, or runs a container.
ChangeByHand ==
    /\ Known /\ byHand < MaxByHand
    /\ byHand' = byHand + 1
    /\ \/ \E k \in Keys :
             /\ present' = (present \ {k}) \cup ({k} \ present) /\ touched' = touched \cup {k}
             /\ UNCHANGED holding
       \/ /\ "podman" \in present
          /\ holding' = ~holding /\ touched' = touched \cup {"containers"}
          /\ UNCHANGED present
    /\ UNCHANGED <<machine, view, work>>

\* The refusal of a streamed application, or the panel.
Look ==
    /\ Known /\ work.step = "none"
    /\ \/ view' = [kind |-> "offer", keys |-> Key(AbsentFor("streamed"))]
       \/ view' = [kind |-> "panel", keys |-> Key(PanelRows)]
    /\ touched' = {}
    /\ UNCHANGED <<machine, present, holding, work, byHand>>

-----------------------------------------------------------------------------
(* deps_install and install *)

\* plan: the rows that are asked for, offered, and not there.
Planned(keys) == {i \in Rows : Row[i].key \in keys /\ Row[i].offered /\ ~Here(i)}

PlanRefused(keys) ==
    machine.manager = "none" \/ \E i \in Planned(keys) : ~ProvidesHere(i)

\* The button is pressed.  What cannot be planned is refused at once; with
\* nothing to do nothing is started.
Press ==
    /\ view.keys # {} /\ work.step = "none"
    /\ work' = IF PlanRefused(view.keys) THEN [NoJob EXCEPT !.step = "refused"]
              ELSE IF Planned(view.keys) = {} THEN [NoJob EXCEPT !.step = "nothing"]
              ELSE [NoJob EXCEPT !.step = "claimed"]
    /\ UNCHANGED <<machine, present, holding, view, byHand, touched>>

\* The worker plans again.
PlanAgain ==
    /\ work.step = "claimed"
    /\ work' = IF PlanRefused(view.keys) THEN [NoJob EXCEPT !.step = "failed"]
              ELSE [step |-> "installing", packages |-> Planned(view.keys)]
    /\ UNCHANGED <<machine, present, holding, view, byHand, touched>>

\* The manager installs all it is asked for or nothing.
InstallPackages ==
    /\ work.step = "installing"
    /\ \/ /\ \A i \in work.packages : Packaged(Row[i].key)
          /\ present' = present \cup Key(work.packages)
          /\ work' = [work EXCEPT !.step = "done"]
       \/ work' = [work EXCEPT !.step = "failed"] /\ UNCHANGED present
    /\ UNCHANGED <<machine, holding, view, byHand, touched>>

-----------------------------------------------------------------------------
(* deps_remove_podman *)

\* Mutant: the engine that is found, whatever the operator says.
InUseFound == IF "docker" \in present THEN "docker"
              ELSE IF "podman" \in present THEN "podman" ELSE "none"

\* engine::detect: what the operator says, there or not; else Docker, else Podman.
InUse ==
    CASE machine.forced \in {"docker", "podman"} -> machine.forced
      [] machine.forced = "unknown" -> "none"
      [] machine.forced = "unset" /\ "docker" \in present -> "docker"
      [] machine.forced = "unset" /\ "docker" \notin present ->
            IF "podman" \in present THEN "podman" ELSE "none"

\* There is a Podman, and it is not the engine in use.
CheckEngine ==
    /\ Known /\ work.step = "none"
    /\ "podman" \in present /\ InUse # "podman"
    /\ work' = [NoJob EXCEPT !.step = "checked"]
    /\ touched' = {}
    /\ UNCHANGED <<machine, present, holding, view, byHand>>

\* podman_removal, and the manager there must be.
MayRemovePodman == "podman" \in present /\ ~holding /\ machine.manager # "none"

CountContainers ==
    /\ work.step = "checked"
    /\ work' = [NoJob EXCEPT !.step = IF MayRemovePodman THEN "counted" ELSE "refused"]
    /\ touched' = touched \ {"containers"}
    /\ UNCHANGED <<machine, present, holding, view, byHand>>

\* The look at the flag, which something else may have raised, and the claim.
RemovePodman ==
    /\ work.step = "counted"
    /\ work' \in {[NoJob EXCEPT !.step = s] : s \in {"removing", "refused"}}
    /\ UNCHANGED <<machine, present, holding, view, byHand, touched>>

RemovePackage ==
    /\ work.step = "removing"
    /\ \/ present' = present \ {"podman"} /\ work' = [work EXCEPT !.step = "removed"]
       \/ work' = [work EXCEPT !.step = "failed"] /\ UNCHANGED present
    /\ UNCHANGED <<machine, holding, view, byHand, touched>>

ProvisionNext ==
    \/ SetUp \/ ChangeByHand \/ Look
    \/ Press \/ PlanAgain \/ InstallPackages
    \/ CheckEngine \/ CountContainers \/ RemovePodman \/ RemovePackage

ProvisionSpec == ProvisionInit /\ [][ProvisionNext]_provisionVars

-----------------------------------------------------------------------------
\* What a part of the catalog needs: all that has no alternative, and one of
\* those that have.
Met(need) ==
    \A i \in Rows :
        Row[i].need = need =>
            IF Row[i].group = "none" THEN Here(i) ELSE \E j \in Peers(i) : Here(j)

\* Something is proposed for a need if and only if it is not met: a host with
\* Podman is not told that it has no engine (deps.rs:580-583).
ProposedIfUnmet == Known => \A need \in Need : AbsentFor(need) = {} <=> Met(need)

\* Nobody is made to install two compositors for one application
\* (deps.rs:606-608), unless neither can be had and both refusals are shown.
OneOfAGroup ==
    Known => \A need \in Need : \A i, j \in AbsentFor(need) :
        i # j /\ Row[i].group = Row[j].group /\ Row[i].group # "none"
            => ~ProvidesHere(i) /\ ~ProvidesHere(j)

\* The offer that goes with a refusal is kept (apps.rs:692): once it is
\* installed, and the host is otherwise as it was, the application installs.
OfferMeets ==
    work.step = "done" /\ view.kind = "offer" /\ touched = {} => Met("streamed")

\* Podman goes only if it is not what WebDesk runs (deps.rs:1395-1397) and holds
\* nothing of anybody's (deps.rs:694-697).  So an engine is left, unless Docker
\* was taken away since the check, or the operator told WebDesk not to look: with
\* WD_CONTAINER_ENGINE it goes also from a host that has no other.  And nothing
\* is destroyed but what was run since the containers were counted.
EngineLeft ==
    work.step = "removed" =>
        /\ machine.forced # "podman"
        /\ machine.forced = "unset" /\ "docker" \notin touched => "docker" \in present
        /\ "containers" \notin touched => ~holding

\* On a host of any kind what is asked for is what is missing, it is enough,
\* and nothing that is needed is taken away.
HostServed == ProposedIfUnmet /\ OneOfAGroup /\ OfferMeets /\ EngineLeft

\* What is proposed, on a host that is recognised, is something this host
\* can install (deps.rs:604-607).
ProposedCanBeInstalled ==
    Known /\ machine.recognised =>
        \A i \in AbsentFor("streamed") : ProvidesHere(i) => Packaged(Row[i].key)
=============================================================================
