-------------------------------- MODULE Units -------------------------------
(***************************************************************************)
(* The services of the host: services, listed_units and                    *)
(* host_service_action of src/cockpit.rs, over calls to systemd.           *)
(*                                                                         *)
(* ListUnits has what is loaded and its state; ListUnitFiles has what is   *)
(* on disk and whether it is enabled.  Nothing holds the host still        *)
(* between them.  One request is modelled: it lists the services, and      *)
(* starts, stops or restarts one of them or does not.                      *)
(***************************************************************************)
EXTENDS Naturals, Functions

CONSTANTS
    Service,     \* units named *.service
    OtherUnit,   \* units named otherwise
    MaxMoves     \* changes of the host during a request, at most

ASSUME UnitsAssumption == Service \cap OtherUnit = {} /\ MaxMoves \in Nat

VARIABLES
    hostUnit,    \* each unit of the host: its state and its file
    request,     \* its step, what it asks for, and what systemd told it
    carried,     \* the units systemd was told to act on for it
    moves,       \* changes of the host so far
    still,       \* units that have not changed since the request began
    met          \* units that were on the host at some time since

unitsVars == <<hostUnit, request, carried, moves, still, met>>

Unit == Service \cup OtherUnit
State == {"unloaded", "dead", "running"}
File == {"none", "disabled", "enabled"}

\* A unit is on the host if systemd has loaded it or its file is there.
OnHost(host) == {u \in Unit : host[u].state # "unloaded" \/ host[u].file # "none"}

NoRows == [u \in {} |-> ""]
NoRequest == [step |-> "none", target |-> {}, admin |-> FALSE,
              loaded |-> NoRows, files |-> NoRows]

UnitsInit ==
    /\ hostUnit = [u \in Unit |-> [state |-> "unloaded", file |-> "none"]]
    /\ request = NoRequest /\ carried = {}
    /\ moves = 0 /\ still = {} /\ met = {}

\* The host is as it may be.  A request for the list has no target; one for an
\* action names a unit of the host or one that is not there.
AskUnits ==
    /\ request.step = "none"
    /\ hostUnit' \in [Unit -> [state : State, file : File]]
    /\ \E t \in {{}} \cup {{u} : u \in Unit}, admin \in BOOLEAN :
          request' = [NoRequest EXCEPT
                        !.step = IF t # {} /\ ~admin THEN "forbidden" ELSE "asked",
                        !.target = t, !.admin = admin]
    /\ still' = Unit /\ met' = OnHost(hostUnit')
    /\ UNCHANGED <<carried, moves>>

\* Anybody starts, stops, enables, installs or removes a unit.
HostMoves ==
    /\ request.step \in {"asked", "half", "listed"} /\ moves < MaxMoves
    /\ moves' = moves + 1
    /\ \E u \in Unit, s \in State, f \in File :
          /\ hostUnit' = [hostUnit EXCEPT ![u] = [state |-> s, file |-> f]]
          /\ still' = still \ {u}
    /\ met' = met \cup OnHost(hostUnit')
    /\ UNCHANGED <<request, carried>>

-----------------------------------------------------------------------------
(* services *)

ListUnits ==
    /\ request.step = "asked"
    /\ request' = [request EXCEPT !.step = "half",
                     !.loaded = [u \in {v \in Unit : hostUnit[v].state # "unloaded"} |->
                                   hostUnit[u].state]]
    /\ UNCHANGED <<hostUnit, carried, moves, still, met>>

ListUnitFiles ==
    /\ request.step = "half"
    /\ request' = [request EXCEPT !.step = "listed",
                     !.files = [u \in {v \in Unit : hostUnit[v].file # "none"} |->
                                  hostUnit[u].file]]
    /\ UNCHANGED <<hostUnit, carried, moves, still, met>>

\* Mutant: what was never started is not listed.
OnlyLoaded == DOMAIN request.loaded \cap Service

\* The services of either list, merged on the name.
Shown == (DOMAIN request.loaded \cup DOMAIN request.files) \cap Service

ShownState(u) ==
    [active |-> IF u \in DOMAIN request.loaded THEN request.loaded[u] ELSE "dead",
     enabled |-> u \in DOMAIN request.files /\ request.files[u] = "enabled"]

-----------------------------------------------------------------------------
(* host_service_action, from the list on *)

\* What may be acted on is what was just listed.
Listed == request.target \cap Shown

\* systemd does what it is told, or refuses.
Act ==
    /\ request.step = "listed" /\ request.target # {}
    /\ request' = [request EXCEPT !.step = "answered"]
    /\ carried' = Listed
    /\ \/ \E u \in Listed, s \in {"dead", "running"} :
             hostUnit' = [hostUnit EXCEPT ![u].state = s] /\ still' = still \ {u}
       \/ UNCHANGED <<hostUnit, still>>
    /\ UNCHANGED <<moves, met>>

UnitsNext == AskUnits \/ HostMoves \/ ListUnits \/ ListUnitFiles \/ Act

UnitsSpec == UnitsInit /\ [][UnitsNext]_unitsVars

-----------------------------------------------------------------------------
\* A service that did not change while it was listed is listed as it is, and
\* one that is not on the host is not, whatever other services did between
\* the two calls (cockpit.rs:741-746).
ShownTrue ==
    request.step = "listed" =>
        \A u \in still \cap Service :
            /\ u \in Shown <=> u \in OnHost(hostUnit)
            /\ u \in Shown =>
                 /\ ShownState(u).active = "running" <=> hostUnit[u].state = "running"
                 /\ ShownState(u).enabled <=> hostUnit[u].file = "enabled"

\* systemd is told to act only for an administrator, and only on a service that
\* was on the host during the request (cockpit.rs:1330-1332).
ActsOnListed == carried # {} => request.admin /\ carried \subseteq Service \cap met

\* The services panel shows what is there and acts on nothing else, though it
\* asks the host twice and the host does not wait.
PanelTrue == ShownTrue /\ ActsOnListed
=============================================================================
