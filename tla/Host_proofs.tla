----------------------------- MODULE Host_proofs ----------------------------
(***************************************************************************)
(* Proofs about the host: the certificate the daemon keeps, the services   *)
(* and the metrics its panels show, what it installs, and how it is        *)
(* brought up to date.                                                     *)
(***************************************************************************)
EXTENDS Certificate, Units, Provision, Sample, SelfUpdate, SequenceTheorems, TLAPS

-----------------------------------------------------------------------------
(* Certificate.                                                             *)

\* The stages of store, before and after the certificate is emptied and filled.
Storing == {"directory", "cert", "cert text", "key", "key text"}

(* store writes the certificate first, so a key is on the disk only beside *)
(* one, and the pair is whole only when store has ended.                   *)
CertificateInv ==
    /\ CertificateTypeOK
    /\ daemon \in Storing => pair \in 1..MaxPairs
    /\ key # Absent => cert # Absent
    /\ daemon \in Storing \ {"key text"} => key = Absent
    /\ daemon \in {"key", "key text"} => cert = pair
    /\ daemon = "key text" => key = Broken

LEMMA BrokenIsNoPair ==
    /\ Broken \in Nat /\ Broken # Absent
    /\ \A n \in 1..MaxPairs : n \in Half /\ n # Absent /\ n # Broken
    /\ Absent \in Half /\ Broken \in Half
  BY CertificateAssumption DEF Broken, Absent, Half

LEMMA CertificateInvInit == CertificateInit => CertificateInv
  BY CertificateAssumption, BrokenIsNoPair
  DEF CertificateInit, CertificateInv, CertificateTypeOK, Storing

LEMMA CertificateInvStep ==
    CertificateInv /\ [CertificateNext]_certificateVars => CertificateInv'
<1> SUFFICES ASSUME CertificateInv, [CertificateNext]_certificateVars
             PROVE  CertificateInv'
  OBVIOUS
<1> USE BrokenIsNoPair DEF CertificateInv, CertificateTypeOK, Storing
<1>1. CASE Start
  <2>1. CASE OnDisk
    BY <1>1, <2>1 DEF Start
  <2>2. CASE ~OnDisk
    <3>1. key = Absent
      BY <2>2 DEF OnDisk
    <3>2. minted' \in 1..MaxPairs /\ pair' = minted' /\ daemon' = "directory"
      BY <1>1, <2>2, CertificateAssumption DEF Start
    <3> QED
      BY <1>1, <3>1, <3>2, CertificateAssumption DEF Start
  <2> QED
    BY <2>1, <2>2
<1>2. CASE MakeDirectory
  BY <1>2 DEF MakeDirectory, Saving
<1>3. CASE EmptyCert
  BY <1>3 DEF EmptyCert, Saving
<1>4. CASE WriteCert
  BY <1>4 DEF WriteCert, Saving
<1>5. CASE EmptyKey
  BY <1>5 DEF EmptyKey, Saving
<1>6. CASE WriteKey
  BY <1>6 DEF WriteKey, Saving
<1>7. CASE Stop \/ KillDaemon
  BY <1>7 DEF Stop, KillDaemon
<1>8. CASE UNCHANGED certificateVars
  BY <1>8 DEF certificateVars
<1> QED
  BY <1>1, <1>2, <1>3, <1>4, <1>5, <1>6, <1>7, <1>8 DEF CertificateNext

LEMMA CertificateInvariant == CertificateSpec => []CertificateInv
  BY CertificateInvInit, CertificateInvStep, PTL DEF CertificateSpec

\* Every reachable state has its types: files hold a half of a pair that was
\* minted, or something broken.
THEOREM CertificateTypes == CertificateSpec => []CertificateTypeOK
<1>1. CertificateInv => CertificateTypeOK
  BY DEF CertificateInv
<1> QED
  BY <1>1, CertificateInvariant, PTL

-----------------------------------------------------------------------------
\* A pair that is whole on the disk is the one that is served from then on,
\* whatever disks do and whenever the daemon is killed: no start, and no
\* failure of another start to save, replaces it.
THEOREM SavedPairIsKept == CertificateSpec => PairKept
<1>1. CertificateInv /\ [CertificateNext]_certificateVars =>
        (Builds(cert, key) /\ daemon' = "serving" /\ ~UNCHANGED certificateVars => pair' = cert)
  <2> SUFFICES ASSUME CertificateInv, CertificateNext, Builds(cert, key),
                      daemon' = "serving"
               PROVE  pair' = cert
    BY DEF certificateVars
  <2> USE DEF CertificateInv, Storing
  <2>1. cert # Absent /\ key # Absent /\ key # Broken
    BY DEF Builds
  <2>2. daemon \notin Storing
    BY <2>1
  <2>3. CASE Start
    BY <2>1, <2>3 DEF Start, OnDisk
  <2>4. ~(MakeDirectory \/ EmptyCert \/ WriteCert \/ EmptyKey \/ WriteKey)
    BY <2>2 DEF MakeDirectory, EmptyCert, WriteCert, EmptyKey, WriteKey, Saving
  <2>5. ~(Stop \/ KillDaemon)
    BY DEF Stop, KillDaemon
  <2> QED
    BY <2>3, <2>4, <2>5 DEF CertificateNext
<1>2. CertificateInv /\ [CertificateNext]_certificateVars =>
        [Builds(cert, key) /\ daemon' = "serving" => pair' = cert]_certificateVars
  BY <1>1
<1> QED
  BY <1>2, CertificateInvariant, PTL DEF CertificateSpec, PairKept

-----------------------------------------------------------------------------
(* A start.  If no write is cut short, by a full disk or a kill, the files *)
(* are both absent or a pair whenever nothing is being saved.              *)

NotCutShort == CertificateFaults \cap {"full", "kill"} = {}

WholeOrAbsent ==
    /\ daemon \notin Storing => (cert = Absent /\ key = Absent) \/ Builds(cert, key)
    /\ daemon \in {"directory", "cert"} => cert = Absent

\* As long as no write is cut short every start serves, also on a disk that
\* nothing can be saved on: the comment at tls.rs:244-246 is right then.
THEOREM StartsUnlessCutShort ==
    ASSUME NotCutShort
    PROVE  CertificateSpec => []Starts
<1> DEFINE Inv == CertificateInv /\ WholeOrAbsent /\ Starts
<1>1. CertificateInit => Inv
  BY CertificateInvInit DEF CertificateInit, WholeOrAbsent, Starts, Storing
<1>2. Inv /\ [CertificateNext]_certificateVars => Inv'
  <2> SUFFICES ASSUME Inv, [CertificateNext]_certificateVars
               PROVE  WholeOrAbsent' /\ Starts'
    BY CertificateInvStep
  <2> USE BrokenIsNoPair
      DEF CertificateInv, CertificateTypeOK, WholeOrAbsent, Starts, Storing, NotCutShort
  <2>1. CASE Start
    <3>1. CASE OnDisk
      <4>1. Builds(cert, key)
        BY <2>1, <3>1 DEF Start, OnDisk
      <4> QED
        BY <2>1, <3>1, <4>1 DEF Start, Builds
    <3>2. CASE ~OnDisk
      <4>1. cert = Absent /\ key = Absent
        BY <2>1, <3>2 DEF Start, OnDisk, Builds
      <4> QED
        BY <2>1, <3>2, <4>1 DEF Start
    <3> QED
      BY <3>1, <3>2
  <2>2. CASE MakeDirectory
    BY <2>2 DEF MakeDirectory, Saving
  <2>3. CASE EmptyCert
    BY <2>3 DEF EmptyCert, Saving
  <2>4. CASE WriteCert
    BY <2>4 DEF WriteCert, Saving
  <2>5. CASE EmptyKey
    BY <2>5 DEF EmptyKey, Saving
  <2>6. CASE WriteKey
    BY <2>6 DEF WriteKey, Saving, Builds
  <2>7. CASE Stop
    BY <2>7 DEF Stop, Builds
  <2>8. CASE KillDaemon
    BY <2>8 DEF KillDaemon
  <2>9. CASE UNCHANGED certificateVars
    BY <2>9 DEF certificateVars, Builds
  <2> QED
    BY <2>1, <2>2, <2>3, <2>4, <2>5, <2>6, <2>7, <2>8, <2>9 DEF CertificateNext
<1>3. Inv => Starts
  OBVIOUS
<1> QED
  BY <1>1, <1>2, <1>3, PTL DEF CertificateSpec

-----------------------------------------------------------------------------
(* Units: the panel of services.                                            *)

(* What systemd lists: a value for some of the units. *)
Listing(S) == UNION {[D -> S] : D \in SUBSET Unit}

UnitsTypes ==
    /\ hostUnit \in [Unit -> [state : State, file : File]]
    /\ request \in [step : {"none", "asked", "forbidden", "half", "listed", "answered"},
                    target : SUBSET Unit, admin : BOOLEAN,
                    loaded : Listing(State), files : Listing(File)]
    /\ carried \subseteq Unit /\ moves \in Nat
    /\ still \subseteq Unit /\ met \subseteq Unit

LEMMA NothingListed == NoRows \in Listing(State) /\ NoRows \in Listing(File)
<1>1. ASSUME NEW S PROVE NoRows \in Listing(S)
  <2>1. NoRows \in [{} -> S]
    BY DEF NoRows
  <2> QED BY <2>1 DEF Listing
<1> QED BY <1>1

LEMMA Listings ==
    ASSUME hostUnit \in [Unit -> [state : State, file : File]]
    PROVE  /\ [u \in {v \in Unit : hostUnit[v].state # "unloaded"} |-> hostUnit[u].state]
                 \in Listing(State)
           /\ [u \in {v \in Unit : hostUnit[v].file # "none"} |-> hostUnit[u].file]
                 \in Listing(File)
<1>1. ASSUME NEW D \in SUBSET Unit
      PROVE  /\ [u \in D |-> hostUnit[u].state] \in [D -> State]
             /\ [u \in D |-> hostUnit[u].file] \in [D -> File]
  OBVIOUS
<1>2. ASSUME NEW S, NEW D \in SUBSET Unit PROVE [D -> S] \subseteq Listing(S)
  BY DEF Listing
<1>3. /\ {v \in Unit : hostUnit[v].state # "unloaded"} \in SUBSET Unit
      /\ {v \in Unit : hostUnit[v].file # "none"} \in SUBSET Unit
  OBVIOUS
<1> QED BY <1>1, <1>2, <1>3

(* What has been listed is what the units that stood still are. *)
LoadedTrue ==
    request.step \in {"half", "listed"} =>
        \A u \in still :
            /\ u \in DOMAIN request.loaded <=> hostUnit[u].state # "unloaded"
            /\ u \in DOMAIN request.loaded => request.loaded[u] = hostUnit[u].state

FilesTrue ==
    request.step = "listed" =>
        \A u \in still :
            /\ u \in DOMAIN request.files <=> hostUnit[u].file # "none"
            /\ u \in DOMAIN request.files => request.files[u] = hostUnit[u].file

(* What is on the host, and what has been listed, has been met. *)
AllMet ==
    /\ request.step \in {"asked", "half", "listed"} => OnHost(hostUnit) \subseteq met
    /\ request.step \in {"half", "listed"} => DOMAIN request.loaded \subseteq met
    /\ request.step = "listed" => DOMAIN request.files \subseteq met

(* Who may act was settled before anything was listed. *)
AskedFirst ==
    /\ request.step \in {"asked", "half", "listed"} => request.target = {} \/ request.admin
    /\ request.step # "answered" => carried = {}

UnitsInv == LoadedTrue /\ FilesTrue /\ AllMet /\ AskedFirst /\ ActsOnListed

LEMMA UnitsInitially == UnitsInit => UnitsTypes /\ UnitsInv
<1> SUFFICES ASSUME UnitsInit PROVE UnitsTypes /\ UnitsInv
  OBVIOUS
<1>1. NoRequest \in [step : {"none", "asked", "forbidden", "half", "listed", "answered"},
                     target : SUBSET Unit, admin : BOOLEAN,
                     loaded : Listing(State), files : Listing(File)]
  BY NothingListed DEF NoRequest
<1>2. hostUnit \in [Unit -> [state : State, file : File]]
  BY DEF UnitsInit, State, File
<1> QED BY <1>1, <1>2
        DEF UnitsInit, NoRequest, UnitsTypes, UnitsInv, LoadedTrue, FilesTrue, AllMet, AskedFirst,
            ActsOnListed

LEMMA UnitsTypesStep == UnitsTypes /\ [UnitsNext]_unitsVars => UnitsTypes'
<1> SUFFICES ASSUME UnitsTypes, [UnitsNext]_unitsVars PROVE UnitsTypes'
  OBVIOUS
<1> USE DEF UnitsTypes
<1>1. CASE UNCHANGED unitsVars
  BY <1>1 DEF unitsVars
<1>2. CASE AskUnits
  <2>1. PICK t \in {{}} \cup {{u} : u \in Unit}, admin \in BOOLEAN :
          request' = [NoRequest EXCEPT
                        !.step = IF t # {} /\ ~admin THEN "forbidden" ELSE "asked",
                        !.target = t, !.admin = admin]
    BY <1>2 DEF AskUnits
  <2>2. t \in SUBSET Unit
    OBVIOUS
  <2>3. request' = [step |-> IF t # {} /\ ~admin THEN "forbidden" ELSE "asked",
                    target |-> t, admin |-> admin, loaded |-> NoRows, files |-> NoRows]
    BY <2>1 DEF NoRequest
  <2>4. request' \in [step : {"none", "asked", "forbidden", "half", "listed", "answered"},
                      target : SUBSET Unit, admin : BOOLEAN,
                      loaded : Listing(State), files : Listing(File)]
    BY <2>2, <2>3, NothingListed
  <2> QED BY <1>2, <2>4 DEF AskUnits, OnHost
<1>3. CASE HostMoves
  <2>1. hostUnit' \in [Unit -> [state : State, file : File]]
    BY <1>3 DEF HostMoves
  <2> QED BY <1>3, <2>1 DEF HostMoves, OnHost
<1>4. CASE ListUnits
  BY <1>4, Listings DEF ListUnits
<1>5. CASE ListUnitFiles
  BY <1>5, Listings DEF ListUnitFiles
<1>6. CASE Act
  <2>1. hostUnit' \in [Unit -> [state : State, file : File]]
    BY <1>6 DEF Act, State, Listed, Shown
  <2>2. carried' \subseteq Unit
    BY <1>6 DEF Act, Listed, Shown
  <2> QED BY <1>6, <2>1, <2>2 DEF Act
<1> QED BY <1>1, <1>2, <1>3, <1>4, <1>5, <1>6 DEF UnitsNext

LEMMA UnitsInvStep == UnitsTypes /\ UnitsInv /\ [UnitsNext]_unitsVars => UnitsInv'
<1> SUFFICES ASSUME UnitsTypes, UnitsInv, [UnitsNext]_unitsVars PROVE UnitsInv'
  OBVIOUS
<1> USE DEF UnitsTypes, UnitsInv, LoadedTrue, FilesTrue, AllMet, AskedFirst, ActsOnListed
<1>1. CASE UNCHANGED unitsVars
  BY <1>1 DEF unitsVars
<1>2. CASE AskUnits
  <2>1. PICK t \in {{}} \cup {{u} : u \in Unit}, admin \in BOOLEAN :
          request' = [NoRequest EXCEPT
                        !.step = IF t # {} /\ ~admin THEN "forbidden" ELSE "asked",
                        !.target = t, !.admin = admin]
    BY <1>2 DEF AskUnits
  <2>2. /\ request'.step = (IF t # {} /\ ~admin THEN "forbidden" ELSE "asked")
        /\ request'.target = t /\ request'.admin = admin
    BY <2>1 DEF NoRequest
  <2>3. carried' = {} /\ met' = OnHost(hostUnit')
    BY <1>2 DEF AskUnits
  <2> QED BY <2>2, <2>3
<1>3. CASE HostMoves
  <2>1. /\ request' = request /\ carried' = carried /\ met' = met \cup OnHost(hostUnit')
        /\ \A u \in still' : u \in still /\ hostUnit'[u] = hostUnit[u]
    BY <1>3 DEF HostMoves
  <2> QED BY <2>1
<1>4. CASE ListUnits
  <2> DEFINE D == {v \in Unit : hostUnit[v].state # "unloaded"}
  <2>1. /\ request'.step = "half" /\ request'.loaded = [u \in D |-> hostUnit[u].state]
        /\ request'.target = request.target /\ request'.admin = request.admin
        /\ UNCHANGED <<hostUnit, carried, moves, still, met>> /\ request.step = "asked"
    BY <1>4 DEF ListUnits
  <2>2. D \subseteq OnHost(hostUnit)
    BY DEF OnHost
  <2> QED BY <2>1, <2>2
<1>5. CASE ListUnitFiles
  <2> DEFINE D == {v \in Unit : hostUnit[v].file # "none"}
  <2>1. /\ request'.step = "listed" /\ request'.files = [u \in D |-> hostUnit[u].file]
        /\ request'.loaded = request.loaded
        /\ request'.target = request.target /\ request'.admin = request.admin
        /\ UNCHANGED <<hostUnit, carried, moves, still, met>> /\ request.step = "half"
    BY <1>5 DEF ListUnitFiles
  <2>2. D \subseteq OnHost(hostUnit)
    BY DEF OnHost
  <2> QED BY <2>1, <2>2
<1>6. CASE Act
  <2>1. /\ request'.step = "answered" /\ request'.admin = request.admin /\ met' = met
        /\ carried' = Listed /\ request.step = "listed" /\ request.target # {}
    BY <1>6 DEF Act
  <2>2. Listed \subseteq Service \cap met
    BY <2>1 DEF Listed, Shown
  <2> QED BY <2>1, <2>2
<1> QED BY <1>1, <1>2, <1>3, <1>4, <1>5, <1>6 DEF UnitsNext

LEMMA ListsAreTrue == UnitsTypes /\ UnitsInv => PanelTrue
<1> SUFFICES ASSUME UnitsTypes, UnitsInv, request.step = "listed",
                    NEW u \in still \cap Service
             PROVE  /\ u \in Shown <=> u \in OnHost(hostUnit)
                    /\ u \in Shown =>
                         /\ ShownState(u).active = "running" <=> hostUnit[u].state = "running"
                         /\ ShownState(u).enabled <=> hostUnit[u].file = "enabled"
  BY DEF UnitsInv, PanelTrue, ShownTrue
<1>1. /\ u \in Unit
      /\ u \in DOMAIN request.loaded <=> hostUnit[u].state # "unloaded"
      /\ u \in DOMAIN request.loaded => request.loaded[u] = hostUnit[u].state
      /\ u \in DOMAIN request.files <=> hostUnit[u].file # "none"
      /\ u \in DOMAIN request.files => request.files[u] = hostUnit[u].file
  BY DEF UnitsTypes, UnitsInv, LoadedTrue, FilesTrue
<1>2. u \in Shown <=> u \in OnHost(hostUnit)
  BY <1>1 DEF Shown, OnHost
<1>3. ShownState(u).active = "running" <=> hostUnit[u].state = "running"
  BY <1>1 DEF ShownState
<1>4. ShownState(u).enabled <=> hostUnit[u].file = "enabled"
  BY <1>1 DEF ShownState
<1> QED BY <1>2, <1>3, <1>4

(* Whatever services there are and however many of them change meanwhile, the *)
(* panel shows what stood still as it is, and acts on nothing it did not list *)
(* (cockpit.rs).                                                              *)
THEOREM PanelAlwaysTrue == UnitsSpec => []PanelTrue
<1>1. UnitsTypes /\ UnitsInv /\ [UnitsNext]_unitsVars => (UnitsTypes /\ UnitsInv)'
  BY UnitsTypesStep, UnitsInvStep
<1> QED BY <1>1, UnitsInitially, ListsAreTrue, PTL DEF UnitsSpec

-----------------------------------------------------------------------------
(* Provision: the table.                                                    *)

LEMMA TheTable ==
    /\ Rows = 1..7
    /\ \A i \in Rows : Row[i].group \in {"none", "engine", "compositor"}
    /\ \A i \in Rows : Row[i].group = "none" => Row[i].offered
    /\ \A i, j \in Rows : Row[i].key = Row[j].key => i = j
    /\ \A i \in Rows : Row[i].group # "none" =>
          \E j \in Rows : Row[j].need = Row[i].need /\ Row[j].group = Row[i].group /\ Row[j].offered
<1>1. Rows = 1..7
  BY DEF Rows, Row
<1>2. \A i \in 1..7 : Row[i].group \in {"none", "engine", "compositor"}
  BY DEF Row
<1>3. \A i \in 1..7 : Row[i].group = "none" => Row[i].offered
  BY DEF Row
<1>4. \A i, j \in 1..7 : Row[i].key = Row[j].key => i = j
  BY DEF Row
<1>5. ASSUME NEW i \in 1..7, Row[i].group # "none"
      PROVE  \E j \in 1..7 : Row[j].need = Row[i].need /\ Row[j].group = Row[i].group /\ Row[j].offered
  <2>1. CASE i \in {1, 2}
    <3>1. Row[1].need = Row[i].need /\ Row[1].group = Row[i].group /\ Row[1].offered
      BY <2>1 DEF Row
    <3> QED BY <3>1
  <2>2. CASE i \in {4, 5}
    <3>1. Row[4].need = Row[i].need /\ Row[4].group = Row[i].group /\ Row[4].offered
      BY <2>2 DEF Row
    <3> QED BY <3>1
  <2>3. i \in {1, 2, 4, 5}
    BY <1>5 DEF Row
  <2> QED BY <2>1, <2>2, <2>3
<1> QED BY <1>1, <1>2, <1>3, <1>4, <1>5

(* A set of rows has a first one. *)
LEMMA FirstRow ==
    ASSUME NEW R \in SUBSET Rows, R # {}
    PROVE  \E i \in R : \A j \in R : i <= j
<1> DEFINE Least(i) == i \in R /\ \A j \in R : i <= j
<1>1. \A j \in R : j \in {1, 2, 3, 4, 5, 6, 7}
  BY TheTable
<1>2. 1 \in R => Least(1)
  BY <1>1
<1>3. 1 \notin R /\ 2 \in R => Least(2)
  BY <1>1
<1>4. R \cap {1, 2} = {} /\ 3 \in R => Least(3)
  BY <1>1
<1>5. R \cap {1, 2, 3} = {} /\ 4 \in R => Least(4)
  BY <1>1
<1>6. R \cap {1, 2, 3, 4} = {} /\ 5 \in R => Least(5)
  BY <1>1
<1>7. R \cap {1, 2, 3, 4, 5} = {} /\ 6 \in R => Least(6)
  BY <1>1
<1>8. R \cap {1, 2, 3, 4, 5, 6} = {} => Least(7)
  BY <1>1
<1>9. \E i : Least(i)
  BY <1>2, <1>3, <1>4, <1>5, <1>6, <1>7, <1>8
<1> QED BY <1>9

(* What is proposed of a group that is not there is something, and one of the *)
(* alternatives.                                                              *)
LEMMA GroupProposed ==
    ASSUME NEW i \in Rows, Row[i].group # "none", ~Satisfied(i)
    PROVE  \E j \in AbsentFor(Row[i].need) : j \in Peers(i)
<1>1. ASSUME NEW j \in Peers(i)
      PROVE  /\ j \in Rows /\ Row[j].need = Row[i].need /\ Row[j].group = Row[i].group
             /\ Peers(j) = Peers(i) /\ ~Satisfied(j) /\ Installable(j) = Installable(i)
  BY <1>1 DEF Peers, Satisfied, Installable
<1>2. CASE Installable(i) = {}
  <2>1. PICK j \in Peers(i) : Row[j].offered
    BY TheTable DEF Peers
  <2>2. Proposed(j)
    BY <1>1, <1>2, <2>1 DEF Proposed
  <2> QED BY <1>1, <2>1, <2>2 DEF AbsentFor
<1>3. CASE Installable(i) # {}
  <2>1. Installable(i) \subseteq Peers(i) /\ Installable(i) \in SUBSET Rows
    BY DEF Installable, Peers
  <2>2. PICK j \in Installable(i) : \A k \in Installable(i) : j <= k
    BY <1>3, <2>1, FirstRow
  <2>3. Proposed(j) /\ Row[j].offered
    BY <1>1, <2>1, <2>2 DEF Proposed, Installable
  <2> QED BY <1>1, <2>1, <2>2, <2>3 DEF AbsentFor
<1> QED BY <1>2, <1>3

(* Something is proposed for a need exactly when it is not met. *)
LEMMA OnlyWhatIsMissing ==
    ASSUME NEW need
    PROVE  AbsentFor(need) = {} <=> Met(need)
<1>1. ASSUME AbsentFor(need) = {}, NEW i \in Rows, Row[i].need = need
      PROVE  IF Row[i].group = "none" THEN Here(i) ELSE Satisfied(i)
  <2>1. CASE Row[i].group = "none"
    BY <1>1, <2>1, TheTable DEF AbsentFor
  <2>2. CASE Row[i].group # "none"
    BY <1>1, <2>2, GroupProposed
  <2> QED BY <2>1, <2>2
<1>2. ASSUME Met(need), NEW i \in AbsentFor(need) PROVE FALSE
  BY <1>2 DEF Met, AbsentFor, Satisfied
<1> QED BY <1>1, <1>2 DEF Met, Satisfied

(* And never two alternatives of one group, if one of them can be had. *)
LEMMA OneAlternative ==
    ASSUME NEW need, NEW i \in AbsentFor(need), NEW j \in AbsentFor(need),
           i # j, Row[i].group = Row[j].group, Row[i].group # "none"
    PROVE  ~ProvidesHere(i) /\ ~ProvidesHere(j)
<1>1. /\ i \in Rows /\ j \in Rows /\ Row[i].offered /\ Row[j].offered
      /\ Row[i].need = need /\ Row[j].need = need
      /\ Proposed(i) /\ Proposed(j)
  BY DEF AbsentFor
<1>2. Installable(i) = Installable(j) /\ i \in Peers(i) /\ j \in Peers(j)
  BY <1>1 DEF Installable, Peers
<1>3. CASE Installable(i) = {}
  BY <1>1, <1>2, <1>3 DEF Installable
<1>4. CASE Installable(i) # {}
  <2>1. i <= j /\ j <= i
    BY <1>1, <1>2, <1>4 DEF Proposed
  <2> QED BY <1>1, <2>1, TheTable
<1> QED BY <1>3, <1>4

(* What is planned of an offer is all of it. *)
LEMMA PlannedWhole ==
    ASSUME NEW need
    PROVE  Planned(Key(AbsentFor(need))) = AbsentFor(need)
<1>1. ASSUME NEW i \in AbsentFor(need) PROVE i \in Planned(Key(AbsentFor(need)))
  <2>1. i \in Rows /\ Row[i].offered /\ Row[i].key \in Key(AbsentFor(need))
    BY DEF AbsentFor, Key
  <2>2. ~Here(i)
    BY DEF AbsentFor, Satisfied, Peers
  <2> QED BY <2>1, <2>2 DEF Planned
<1>2. ASSUME NEW i \in Planned(Key(AbsentFor(need))) PROVE i \in AbsentFor(need)
  <2>1. PICK j \in AbsentFor(need) : Row[j].key = Row[i].key
    BY DEF Planned, Key
  <2>2. i \in Rows /\ j \in Rows
    BY DEF Planned, AbsentFor
  <2> QED BY <2>1, <2>2, TheTable
<1> QED BY <1>1, <1>2

(* And once it is there, nothing is missing. *)
LEMMA OfferIsEnough ==
    ASSUME NEW need, present' = present \cup Key(AbsentFor(need))
    PROVE  Met(need)'
<1>1. \A i \in Rows : (Here(i) => Here(i)') /\ (i \in AbsentFor(need) => Here(i)')
  BY DEF Here, Key
<1> SUFFICES ASSUME NEW i \in Rows, Row[i].need = need
             PROVE  IF Row[i].group = "none" THEN Here(i)' ELSE \E j \in Peers(i) : Here(j)'
  BY DEF Met
<1>2. CASE Row[i].group = "none"
  BY <1>1, <1>2, TheTable DEF AbsentFor
<1>3. CASE Row[i].group # "none" /\ Satisfied(i)
  BY <1>1, <1>3 DEF Satisfied, Peers
<1>4. CASE Row[i].group # "none" /\ ~Satisfied(i)
  <2>1. PICK j \in AbsentFor(need) : j \in Peers(i)
    BY <1>4, GroupProposed
  <2> QED BY <1>1, <1>4, <2>1 DEF Peers
<1> QED BY <1>2, <1>3, <1>4

-----------------------------------------------------------------------------
(* Provision: the two views and what becomes of them.                       *)

ProvisionTypes ==
    /\ view \in [kind : {"none", "offer", "panel"}, keys : SUBSET Keys]
    /\ work \in [step : {"none", "refused", "nothing", "claimed", "installing", "failed", "done",
                         "checked", "counted", "removing", "removed"},
                 packages : SUBSET Rows]

(* A view is of what the host still is, unless it was touched; and what is *)
(* installed is what was planned of it.                                    *)
ViewHolds ==
    view.kind = "offer" /\ touched = {} =>
        /\ work.step \in {"none", "claimed", "installing"} =>
             view.keys = Key(AbsentFor("streamed"))
        /\ work.step = "installing" => work.packages = AbsentFor("streamed")

NotLookedAt == ~Known => view = NoView /\ work = NoJob

(* What the checks of a removal found is still so, but for what was touched. *)
EngineChecked ==
    work.step \in {"checked", "counted", "removing"} =>
        /\ machine.forced # "podman"
        /\ machine.forced = "unset" /\ "docker" \notin touched => "docker" \in present

NoneHeld ==
    work.step \in {"counted", "removing"} /\ "containers" \notin touched => ~holding


ProvisionInv ==
    ProvisionTypes /\ ViewHolds /\ NotLookedAt /\ EngineChecked /\ NoneHeld /\ OfferMeets
    /\ EngineLeft

LEMMA ProvisionTypesInit == ProvisionInit => ProvisionTypes
  BY DEF ProvisionInit, ProvisionTypes, NoView, NoJob

LEMMA ProvisionInvInit == ProvisionInit => ProvisionInv
  BY ProvisionTypesInit
  DEF ProvisionInit, ProvisionInv, ViewHolds, NotLookedAt, EngineChecked, NoneHeld,
      OfferMeets, EngineLeft, NoView, NoJob

LEMMA ProvisionTypesStep == ProvisionTypes /\ [ProvisionNext]_provisionVars => ProvisionTypes'
<1> SUFFICES ASSUME ProvisionTypes, [ProvisionNext]_provisionVars PROVE ProvisionTypes'
  OBVIOUS
<1> USE DEF ProvisionTypes, NoJob
<1>1. CASE Look
  <2>1. Key(AbsentFor("streamed")) \subseteq Keys /\ Key(PanelRows) \subseteq Keys
    BY DEF Key, Keys, AbsentFor, PanelRows
  <2> QED BY <1>1, <2>1 DEF Look
<1>2. CASE Press
  BY <1>2 DEF Press
<1>3. CASE PlanAgain
  <2>1. Planned(view.keys) \subseteq Rows
    BY DEF Planned
  <2> QED BY <1>3, <2>1 DEF PlanAgain
<1>4. CASE InstallPackages \/ CheckEngine \/ CountContainers \/ RemovePodman \/ RemovePackage
  BY <1>4 DEF InstallPackages, CheckEngine, CountContainers, RemovePodman, RemovePackage
<1>5. CASE SetUp \/ ChangeByHand \/ UNCHANGED provisionVars
  BY <1>5 DEF SetUp, ChangeByHand, provisionVars
<1> QED BY <1>1, <1>2, <1>3, <1>4, <1>5 DEF ProvisionNext

LEMMA SameHost ==
    ASSUME UNCHANGED <<machine, present>>, NEW need
    PROVE  Known' = Known /\ AbsentFor(need)' = AbsentFor(need) /\ Met(need)' = Met(need)
<1>1. Known' = Known
  BY DEF Known
<1>2. \A i : Here(i)' = Here(i) /\ ProvidesHere(i)' = ProvidesHere(i)
  BY DEF Here, ProvidesHere, Resolvable
<1>3. Met(need)' = Met(need)
  BY DEF Met, Here
<1>4. AbsentFor(need)' = AbsentFor(need)
  BY DEF AbsentFor, Here, Satisfied, Proposed, Installable, ProvidesHere, Resolvable
<1> QED BY <1>1, <1>3, <1>4

LEMMA ProvisionInvStep == ProvisionInv /\ [ProvisionNext]_provisionVars => ProvisionInv'
<1> SUFFICES ASSUME ProvisionInv, [ProvisionNext]_provisionVars
             PROVE  (ViewHolds /\ NotLookedAt /\ EngineChecked /\ NoneHeld /\ OfferMeets
                      /\ EngineLeft)'
  BY ProvisionTypesStep DEF ProvisionInv
<1>0. ASSUME UNCHANGED <<machine, present>>
      PROVE  /\ Known' = Known /\ AbsentFor("streamed")' = AbsentFor("streamed")
             /\ Met("streamed")' = Met("streamed")
  BY <1>0, SameHost
<1> USE DEF ProvisionInv, ProvisionTypes, ViewHolds, NotLookedAt, EngineChecked, NoneHeld,
            OfferMeets, EngineLeft, NoView, NoJob
<1>1. CASE UNCHANGED provisionVars
  BY <1>0, <1>1 DEF provisionVars
<1>2. CASE SetUp
  BY <1>2 DEF SetUp, Known
<1>3. CASE ChangeByHand
  BY <1>3 DEF ChangeByHand, Known
<1>4. CASE Look
  BY <1>0, <1>4 DEF Look
<1>5. CASE Press
  <2>1. UNCHANGED <<machine, present, holding, view, touched>> /\ Known
    BY <1>5 DEF Press
  <2>2. work.step = "none" /\ work'.step \in {"refused", "nothing", "claimed"}
    BY <1>5 DEF Press
  <2> QED BY <1>0, <2>1, <2>2
<1>6. CASE PlanAgain
  <2>1. UNCHANGED <<machine, present, holding, view, touched>> /\ Known /\ work.step = "claimed"
    BY <1>6 DEF PlanAgain
  <2>2. work'.step = "failed" \/ (work'.step = "installing" /\ work'.packages = Planned(view.keys))
    BY <1>6 DEF PlanAgain
  <2>3. view.kind = "offer" /\ touched = {} => Planned(view.keys) = AbsentFor("streamed")
    BY <2>1, PlannedWhole
  <2> QED BY <1>0, <2>1, <2>2, <2>3
<1>7. CASE InstallPackages
  <2>0. UNCHANGED <<machine, holding, view, touched>> /\ Known /\ work.step = "installing"
    BY <1>7 DEF InstallPackages
  <2>1. CASE present' = present \cup Key(work.packages) /\ work'.step = "done"
    <3>1. view.kind = "offer" /\ touched = {} => Met("streamed")'
      BY <2>0, <2>1, OfferIsEnough
    <3>2. Known'
      BY <2>0 DEF Known
    <3> QED BY <2>0, <2>1, <3>1, <3>2
  <2>2. CASE work'.step = "failed" /\ UNCHANGED present
    BY <1>0, <2>0, <2>2
  <2> QED BY <1>7, <2>1, <2>2 DEF InstallPackages
<1>8. CASE RemovePodman
  BY <1>0, <1>8 DEF RemovePodman
<1>9. CASE RemovePackage
  <2>1. UNCHANGED <<machine, holding, touched>> /\ Known /\ work.step = "removing"
    BY <1>9 DEF RemovePackage
  <2>2. /\ work'.step \in {"removed", "failed"}
        /\ "docker" \in present => "docker" \in present'
    BY <1>9 DEF RemovePackage
  <2>3. Known'
    BY <2>1 DEF Known
  <2> QED BY <2>1, <2>2, <2>3
<1>10. CASE CheckEngine
  <2>1. UNCHANGED <<machine, present, holding, view>> /\ Known /\ work'.step = "checked"
    BY <1>10 DEF CheckEngine
  <2>2. machine.forced # "podman" /\ (machine.forced = "unset" => "docker" \in present)
    BY <1>10 DEF CheckEngine, InUse
  <2>3. view.kind = "offer" => work'.step = "checked"
    BY <2>1
  <2> QED BY <1>0, <2>1, <2>2
<1>11. CASE CountContainers
  <2>1. UNCHANGED <<machine, present, holding, view>> /\ Known /\ work.step = "checked"
    BY <1>11 DEF CountContainers
  <2>2. work'.step \in {"counted", "refused"} /\ (work'.step = "counted" => ~holding)
    BY <1>11 DEF CountContainers, MayRemovePodman
  <2>3. "docker" \notin touched' => "docker" \notin touched
    BY <1>11 DEF CountContainers
  <2> QED BY <1>0, <2>1, <2>2, <2>3
<1> QED
  BY <1>1, <1>2, <1>3, <1>4, <1>5, <1>6, <1>7, <1>8, <1>9, <1>10, <1>11 DEF ProvisionNext

(* On a host of any kind, of any release, with anything on it: what is asked *)
(* for is what is missing, it is enough, and nothing that is needed is taken *)
(* away (deps.rs).                                                           *)
THEOREM HostAlwaysServed == ProvisionSpec => []HostServed
<1>1. ProvisionInv => HostServed
  BY OnlyWhatIsMissing, OneAlternative
  DEF ProvisionInv, HostServed, ProposedIfUnmet, OneOfAGroup
<1> QED BY <1>1, ProvisionInvInit, ProvisionInvStep, PTL DEF ProvisionSpec

-----------------------------------------------------------------------------
(* Sample: what the messages on their way say.                              *)

Maybe == Level \cup {Null}
SomeLevels == [plain : Maybe, disk : [Mount -> Maybe]]

LEMMA LevelsAre ==
    /\ Levels \subseteq SomeLevels /\ NoLevels \in SomeLevels
    /\ \A l \in Levels : l.plain \in Level /\ \A m \in Mount : l.disk[m] \in Level
    /\ NoLevels.plain = Null /\ \A m \in Mount : NoLevels.disk[m] = Null
  BY DEF Levels, SomeLevels, NoLevels, Maybe

LEMMA OrdersAre == Orders \subseteq Seq(Mount) /\ NoMounts \notin Orders
<1>1. ASSUME NEW s \in Orders PROVE s \in Seq(Mount)
  <2>1. \E m \in 0..Cardinality(Mount) : s \in [1..m -> Mount]
    BY DEF Orders, BoundedSeq, SeqOf
  <2>2. PICK m \in Nat : s \in [1..m -> Mount]
    BY <2>1
  <2> QED BY <2>2
<1> QED BY <1>1, SampleAssumption DEF NoMounts

(* A list has an entry for every file system that was described. *)
LEMMA ListOf ==
    ASSUME NEW M \in Seq(Mount), NEW S, NEW f \in [DOMAIN M -> S]
    PROVE  f \in Seq(S) /\ Len(f) = Len(M) /\ DOMAIN f = DOMAIN M
<1>1. DOMAIN M = 1..Len(M) /\ Len(M) \in Nat
  BY LenProperties
<1>2. \A n \in Nat : \A g \in [1..n -> S] : g \in Seq(S) /\ Len(g) = n
  OBVIOUS
<1> QED BY <1>1, <1>2

(* Where the stream is after a message: the file systems it has described, *)
(* the levels of its last row and how many rows since.                     *)
Points == [mounts : Orders \cup {NoMounts}, levels : SomeLevels, nth : Nat]

Elided(now, before, M) == [i \in DOMAIN M |-> Elide(now[M[i]], before[M[i]])]

Described(m, q) == m.mounts \in Orders /\ q = [mounts |-> m.mounts, levels |-> NoLevels, nth |-> 0]

RowSaid(p, m, q) ==
    /\ p.mounts \in Orders /\ m.levels \in Levels /\ m.nth = p.nth + 1
    /\ q = [mounts |-> p.mounts, levels |-> m.levels, nth |-> m.nth]
    /\ m.row.plain = Elide(m.levels.plain, p.levels.plain)
    /\ \/ m.row.disk = Elided(m.levels.disk, p.levels.disk, p.mounts)
       \/ /\ m.row.disk = Null /\ p.nth > 0
          /\ \A i \in DOMAIN p.mounts : m.levels.disk[p.mounts[i]] = p.levels.disk[p.mounts[i]]

(* The message m takes the stream from p to q. *)
Leads(p, m, q) ==
    /\ m.kind = "meta" => Described(m, q)
    /\ m.kind = "row" => RowSaid(p, m, q)
    /\ m.kind \notin {"meta", "row"} => q = p

LeadsTo(c, a, b) ==
    \E k \in [0..Len(c) -> Points] :
        k[0] = a /\ k[Len(c)] = b /\ \A i \in 1..Len(c) : Leads(k[i - 1], c[i], k[i])

LEMMA StreamEmpty == ASSUME NEW a \in Points PROVE LeadsTo(<<>>, a, a)
<1> DEFINE k == [i \in 0..0 |-> a]
<1>1. k \in [0..0 -> Points] /\ k[0] = a
  OBVIOUS
<1>2. Len(<<>>) = 0
  BY EmptySeq
<1> HIDE DEF k
<1> QED BY <1>1, <1>2 DEF LeadsTo

LEMMA StreamGrows ==
    ASSUME NEW S, NEW c \in Seq(S), NEW m \in S, NEW a, NEW b, NEW d \in Points,
           LeadsTo(c, a, b), Leads(b, m, d)
    PROVE  LeadsTo(Append(c, m), a, d)
<1>1. PICK k \in [0..Len(c) -> Points] :
         k[0] = a /\ k[Len(c)] = b /\ \A i \in 1..Len(c) : Leads(k[i - 1], c[i], k[i])
  BY DEF LeadsTo
<1> DEFINE w == Append(c, m)
           g == [i \in 0..(Len(c) + 1) |-> IF i <= Len(c) THEN k[i] ELSE d]
<1>2. /\ Len(w) = Len(c) + 1 /\ Len(c) \in Nat /\ w[Len(c) + 1] = m
      /\ \A i \in 1..Len(c) : w[i] = c[i]
  BY AppendProperties, LenProperties
<1>3. /\ g \in [0..(Len(c) + 1) -> Points]
      /\ g[Len(c) + 1] = d
      /\ \A i \in 0..Len(c) : g[i] = k[i]
  BY <1>2
<1> HIDE DEF w, g
<1>4. g[0] = a
  BY <1>1, <1>2, <1>3
<1>5. ASSUME NEW i \in 1..Len(w) PROVE Leads(g[i - 1], w[i], g[i])
  <2>1. CASE i \in 1..Len(c)
    <3>1. g[i] = k[i] /\ g[i - 1] = k[i - 1] /\ w[i] = c[i]
      BY <1>2, <1>3, <2>1
    <3> QED BY <1>1, <2>1, <3>1
  <2>2. CASE i = Len(c) + 1
    <3>1. g[i] = d /\ i - 1 = Len(c) /\ g[Len(c)] = b /\ w[i] = m
      BY <1>1, <1>2, <1>3, <2>2
    <3> QED BY <3>1
  <2> QED BY <1>2, <2>1, <2>2
<1>6. LeadsTo(w, a, d)
  BY <1>2, <1>3, <1>4, <1>5 DEF LeadsTo
<1> QED BY <1>6 DEF w

LEMMA StreamTaken ==
    ASSUME NEW S, NEW c \in Seq(S), c # <<>>, NEW a, NEW b, LeadsTo(c, a, b)
    PROVE  \E d \in Points : Leads(a, Head(c), d) /\ LeadsTo(Tail(c), d, b)
<1>1. PICK k \in [0..Len(c) -> Points] :
         k[0] = a /\ k[Len(c)] = b /\ \A i \in 1..Len(c) : Leads(k[i - 1], c[i], k[i])
  BY DEF LeadsTo
<1> DEFINE w == Tail(c)
           g == [i \in 0..(Len(c) - 1) |-> k[i + 1]]
<1>2. /\ Len(w) = Len(c) - 1 /\ Len(c) \in Nat \ {0} /\ Head(c) = c[1]
      /\ \A i \in 1..Len(w) : w[i] = c[i + 1]
  BY HeadTailProperties, EmptySeq
<1>3. /\ g \in [0..(Len(c) - 1) -> Points]
      /\ \A i \in 0..(Len(c) - 1) : g[i] = k[i + 1]
  BY <1>2
<1> HIDE DEF w, g
<1>4. Leads(a, Head(c), k[1]) /\ k[1] \in Points /\ g[0] = k[1]
  <2>1. 1 \in 1..Len(c) /\ 1 - 1 = 0
    BY <1>2
  <2>2. Leads(k[1 - 1], c[1], k[1])
    BY <1>1, <2>1
  <2> QED BY <1>1, <1>2, <1>3, <2>1, <2>2
<1>5. g[Len(w)] = b
  BY <1>1, <1>2, <1>3
<1>6. ASSUME NEW i \in 1..Len(w) PROVE Leads(g[i - 1], w[i], g[i])
  <2>1. i + 1 \in 1..Len(c) /\ (i + 1) - 1 = i
    BY <1>2
  <2>2. g[i] = k[i + 1] /\ g[i - 1] = k[i] /\ w[i] = c[i + 1]
    BY <1>2, <1>3
  <2>3. Leads(k[(i + 1) - 1], c[i + 1], k[i + 1])
    BY <1>1, <2>1
  <2> QED BY <2>1, <2>2, <2>3
<1>7. LeadsTo(w, g[0], b)
  BY <1>2, <1>3, <1>5, <1>6 DEF LeadsTo
<1> QED BY <1>4, <1>7 DEF w

-----------------------------------------------------------------------------
(* Sample: a row is merged into the one before it.                          *)

Current(l, M) == [i \in DOMAIN M |-> l.disk[M[i]]]

LEMMA MergeRight ==
    ASSUME NEW p \in Points, NEW m, NEW q, RowSaid(p, m, q), NEW into,
           IF p.nth = 0 THEN p.levels = NoLevels
           ELSE into.plain = p.levels.plain /\ into.disk = Current(p.levels, p.mounts)
    PROVE  /\ MergedPlain(into.plain, m.row.plain) = m.levels.plain
           /\ MergedDisk(into.disk, m.row.disk) = Current(m.levels, p.mounts)
<1> DEFINE M == p.mounts
           l == m.levels
           before == p.levels
           disk == m.row.disk
<1>1. /\ M \in Seq(Mount) /\ l \in Levels /\ before \in SomeLevels /\ p.nth \in Nat
      /\ m.row.plain = Elide(l.plain, before.plain)
      /\ \/ disk = Elided(l.disk, before.disk, M)
         \/ /\ disk = Null /\ p.nth > 0
            /\ \A i \in DOMAIN M : l.disk[M[i]] = before.disk[M[i]]
  BY OrdersAre DEF RowSaid, Points
<1>2. \A i \in DOMAIN M : M[i] \in Mount
  BY <1>1, ElementOfSeq, LenProperties
<1>3. /\ l.plain \in Level /\ \A i \in DOMAIN M : l.disk[M[i]] \in Level
      /\ before.plain \in Maybe /\ \A i \in DOMAIN M : before.disk[M[i]] \in Maybe
  BY <1>1, <1>2, LevelsAre DEF SomeLevels
<1>4. Null \notin Level /\ Null \notin Seq(Maybe)
  BY SampleAssumption DEF Maybe
<1>5. MergedPlain(into.plain, m.row.plain) = l.plain
  BY <1>1, <1>3, <1>4, LevelsAre DEF MergedPlain, Elide
<1>6. CASE disk = Elided(l.disk, before.disk, M)
  <2>1. disk \in [DOMAIN M -> Maybe]
    BY <1>3, <1>6 DEF Elided, Elide, Maybe
  <2>2. disk \in Seq(Maybe) /\ Len(disk) = Len(M) /\ DOMAIN disk = DOMAIN M /\ disk # Null
    BY <1>1, <1>4, <2>1, ListOf
  <2>3. \A i \in DOMAIN M : disk[i] = Elide(l.disk[M[i]], before.disk[M[i]])
    BY <1>6 DEF Elided
  <2>4. CASE p.nth = 0
    <3>1. \A i \in DOMAIN M : disk[i] = l.disk[M[i]] /\ disk[i] # Null
      BY <1>2, <1>3, <1>4, <2>3, <2>4, LevelsAre DEF Elide
    <3>2. disk = [i \in DOMAIN disk |-> disk[i]]
      BY <2>1
    <3>3. disk = Current(l, M)
      BY <2>2, <3>1, <3>2 DEF Current
    <3>4. [i \in DOMAIN disk |-> IF disk[i] = Null THEN into.disk[i] ELSE disk[i]] = Current(l, M)
      BY <2>2, <3>1 DEF Current
    <3>5. MergedDisk(into.disk, disk) = Current(l, M)
      BY <2>2, <3>3, <3>4 DEF MergedDisk
    <3> QED BY <1>5, <3>5
  <2>5. CASE p.nth # 0
    <3>1. into.disk \in [DOMAIN M -> Maybe] /\ \A i \in DOMAIN M : into.disk[i] = before.disk[M[i]]
      BY <1>3, <2>5 DEF Current
    <3>2. into.disk \in Seq(Maybe) /\ Len(into.disk) = Len(M) /\ into.disk # Null
      BY <1>1, <1>4, <3>1, ListOf
    <3>3. \A i \in DOMAIN M : (IF disk[i] = Null THEN into.disk[i] ELSE disk[i]) = l.disk[M[i]]
      BY <1>3, <1>4, <2>3, <3>1 DEF Elide
    <3>4. [i \in DOMAIN disk |-> IF disk[i] = Null THEN into.disk[i] ELSE disk[i]] = Current(l, M)
      BY <2>2, <3>3 DEF Current
    <3>5. MergedDisk(into.disk, disk) = Current(l, M)
      BY <2>2, <3>2, <3>4 DEF MergedDisk
    <3> QED BY <1>5, <3>5
  <2> QED BY <2>4, <2>5
<1>7. CASE /\ disk = Null /\ p.nth > 0
           /\ \A i \in DOMAIN M : l.disk[M[i]] = before.disk[M[i]]
  <2>1. into.disk = Current(before, M)
    BY <1>1, <1>7
  <2>2. Current(before, M) = Current(l, M)
    BY <1>7 DEF Current
  <2>3. MergedDisk(into.disk, disk) = Current(l, M)
    BY <1>7, <2>1, <2>2 DEF MergedDisk
  <2> QED BY <1>5, <2>3
<1> QED BY <1>1, <1>6, <1>7

-----------------------------------------------------------------------------
(* Sample: the invariant.                                                   *)

Said ==
    [kind : {"meta"}, mounts : Orders]
    \cup [kind : {"row"}, levels : Levels, nth : Nat,
          row : [plain : Maybe, disk : Seq(Maybe) \cup {Null}]]
    \cup [kind : {"close", "stray"}]

SampleTypes ==
    /\ SampleTypeOK
    /\ bridge \in [mounts : Orders \cup {NoMounts}, last : SomeLevels, rows : Nat]
    /\ sample \in [mounts : Orders \cup {NoMounts},
                   row : [plain : Maybe, disk : Seq(Maybe) \cup {Null}], rows : 0..2]
    /\ merged \in [levels : SomeLevels, nth : Nat]
    /\ channel \in Seq(Said)

AtBridge == [mounts |-> bridge.mounts, levels |-> bridge.last, nth |-> bridge.rows]

AtSample == [mounts |-> sample.mounts,
             levels |-> IF sample.rows = 0 THEN NoLevels ELSE merged.levels,
             nth |-> sample.rows]

(* What is on its way takes the request from where it is to where the bridge *)
(* is.                                                                       *)
RowsOnTheWay == Unanswered => LeadsTo(channel, AtSample, AtBridge)

RowRight ==
    sample.rows > 0 =>
        /\ sample.mounts # NoMounts /\ merged.nth = sample.rows
        /\ sample.row.plain = merged.levels.plain
        /\ sample.row.disk = Current(merged.levels, sample.mounts)

AnsweredRight ==
    /\ Unanswered => sample.rows < Wanted
    /\ reply = "sample" => sample.rows = Wanted
    /\ reply = "partial" => sample.rows > 0

SampleInv == SampleTypes /\ RowsOnTheWay /\ RowRight /\ AnsweredRight

LEMMA PointsTyped == SampleTypes => AtBridge \in Points /\ AtSample \in Points
<1> SUFFICES ASSUME SampleTypes PROVE AtBridge \in Points /\ AtSample \in Points
  OBVIOUS
<1>1. (IF sample.rows = 0 THEN NoLevels ELSE merged.levels) \in SomeLevels
  BY LevelsAre DEF SampleTypes
<1>2. sample.rows \in Nat
  BY DEF SampleTypes
<1> QED BY <1>1, <1>2 DEF SampleTypes, AtBridge, AtSample, Points

LEMMA SampleInvInit == SampleInit => SampleInv
<1> SUFFICES ASSUME SampleInit PROVE SampleInv
  OBVIOUS
<1>1. channel = <<>> /\ channel \in Seq(Said)
  BY EmptySeq DEF SampleInit
<1>2. NullRow \in [plain : Maybe, disk : Seq(Maybe) \cup {Null}]
  BY DEF NullRow, Maybe
<1>3. SampleTypes
  BY <1>1, <1>2, LevelsAre, SampleAssumption
  DEF SampleInit, SampleTypes, SampleTypeOK, NullRow
<1>4. AtSample = AtBridge
  BY DEF SampleInit, AtSample, AtBridge
<1>5. RowsOnTheWay
  BY <1>1, <1>3, <1>4, PointsTyped, StreamEmpty DEF RowsOnTheWay
<1> QED BY <1>3, <1>5 DEF SampleInit, SampleInv, RowRight, AnsweredRight, Wanted

(* What the bridge says next. *)
LEMMA TellStep ==
    ASSUME SampleInv, NEW m \in Said, Tell(m), Leads(AtBridge, m, AtBridge'),
           bridge' \in [mounts : Orders \cup {NoMounts}, last : SomeLevels, rows : Nat]
    PROVE  SampleInv'
<1>1. /\ channel' = Append(channel, m) /\ told' = told + 1 /\ told < MaxMessages /\ Unanswered
      /\ UNCHANGED <<sample, reply, merged>>
  BY DEF Tell
<1>2. channel \in Seq(Said) /\ channel' \in Seq(Said)
  BY <1>1, AppendProperties DEF SampleInv, SampleTypes
<1>3. told' \in 0..MaxMessages
  BY <1>1, SampleAssumption DEF SampleInv, SampleTypes, SampleTypeOK
<1>4. SampleTypes'
  BY <1>1, <1>2, <1>3 DEF SampleInv, SampleTypes, SampleTypeOK
<1>5. AtSample' = AtSample /\ Unanswered' = Unanswered
  BY <1>1 DEF AtSample, Unanswered
<1>6. AtBridge' \in Points
  BY <1>4, PointsTyped DEF SampleTypes, AtBridge, Points
<1>7. LeadsTo(Append(channel, m), AtSample, AtBridge')
  BY <1>1, <1>2, <1>6, StreamGrows DEF SampleInv, RowsOnTheWay
<1>8. RowsOnTheWay'
  BY <1>1, <1>5, <1>7 DEF RowsOnTheWay
<1>9. RowRight' /\ AnsweredRight'
  BY <1>1 DEF SampleInv, RowRight, AnsweredRight, Unanswered, Current
<1> QED BY <1>4, <1>8, <1>9 DEF SampleInv

LEMMA DescribeStep == ASSUME SampleInv, Describe PROVE SampleInv'
<1>1. PICK o \in Orders : /\ Tell([kind |-> "meta", mounts |-> o])
                          /\ bridge' = [mounts |-> o, last |-> NoLevels, rows |-> 0]
  BY DEF Describe
<1> DEFINE m == [kind |-> "meta", mounts |-> o]
<1>2. m \in Said /\ m.kind = "meta" /\ m.mounts = o
  BY DEF Said
<1>3. AtBridge' = [mounts |-> o, levels |-> NoLevels, nth |-> 0]
  BY <1>1 DEF AtBridge
<1>4. Leads(AtBridge, m, AtBridge')
  BY <1>2, <1>3 DEF Leads, Described
<1>5. bridge' \in [mounts : Orders \cup {NoMounts}, last : SomeLevels, rows : Nat]
  BY <1>1, LevelsAre
<1> QED BY <1>1, <1>2, <1>4, <1>5, TellStep

LEMMA SendOtherStep == ASSUME SampleInv, SendOther PROVE SampleInv'
<1>1. PICK k \in {"close", "stray"} : Tell([kind |-> k])
  BY DEF SendOther
<1> DEFINE m == [kind |-> k]
<1>2. m \in Said /\ m.kind \notin {"meta", "row"}
  BY DEF Said
<1>3. AtBridge' = AtBridge /\ bridge' = bridge
  BY DEF SendOther, AtBridge
<1>4. Leads(AtBridge, m, AtBridge')
  BY <1>2, <1>3 DEF Leads
<1>5. bridge' \in [mounts : Orders \cup {NoMounts}, last : SomeLevels, rows : Nat]
  BY <1>3 DEF SampleInv, SampleTypes
<1> QED BY <1>1, <1>2, <1>4, <1>5, TellStep

LEMMA SendRowStep == ASSUME SampleInv, SendRow PROVE SampleInv'
<1>1. bridge \in [mounts : Orders \cup {NoMounts}, last : SomeLevels, rows : Nat]
  BY DEF SampleInv, SampleTypes
<1>2. bridge.mounts \in Orders /\ bridge.mounts \in Seq(Mount)
  BY <1>1, OrdersAre DEF SendRow
<1>0. PICK l \in Levels :
        /\ \E d \in DiskElided(l.disk) :
              Tell([kind |-> "row", levels |-> l, nth |-> bridge.rows + 1,
                    row |-> [plain |-> Elide(l.plain, bridge.last.plain), disk |-> d]])
        /\ bridge' = [bridge EXCEPT !.last = l, !.rows = @ + 1]
  BY DEF SendRow
<1>3. PICK d \in DiskElided(l.disk) :
        Tell([kind |-> "row", levels |-> l, nth |-> bridge.rows + 1,
              row |-> [plain |-> Elide(l.plain, bridge.last.plain), disk |-> d]])
  BY <1>0
<1> DEFINE e == Elided(l.disk, bridge.last.disk, bridge.mounts)
           r == [plain |-> Elide(l.plain, bridge.last.plain), disk |-> d]
           m == [kind |-> "row", levels |-> l, nth |-> bridge.rows + 1, row |-> r]
<1>4. /\ \A i \in DOMAIN bridge.mounts : bridge.mounts[i] \in Mount
      /\ l \in SomeLevels /\ l.plain \in Level /\ \A x \in Mount : l.disk[x] \in Level
  BY <1>2, ElementOfSeq, LenProperties, LevelsAre
<1>5. /\ e \in [DOMAIN bridge.mounts -> Maybe] /\ DOMAIN e = DOMAIN bridge.mounts
      /\ \A i \in DOMAIN e :
            e[i] = Elide(l.disk[bridge.mounts[i]], bridge.last.disk[bridge.mounts[i]])
  BY <1>1, <1>4 DEF Elided, Elide, Maybe, SomeLevels
<1>6. e \in Seq(Maybe)
  BY <1>2, <1>5, ListOf
<1>7. d = e \/ (d = Null /\ bridge.rows > 0 /\ \A i \in DOMAIN e : e[i] = Null)
  BY <1>3 DEF DiskElided, Elided
<1>8. r \in [plain : Maybe, disk : Seq(Maybe) \cup {Null}]
  BY <1>1, <1>4, <1>6, <1>7 DEF Elide, Maybe
<1>9. m \in Said
  BY <1>1, <1>8 DEF Said
<1>10. \A i \in DOMAIN bridge.mounts :
          e[i] = Null => l.disk[bridge.mounts[i]] = bridge.last.disk[bridge.mounts[i]]
  BY <1>4, <1>5, SampleAssumption DEF Elide
<1>11. AtBridge' = [mounts |-> bridge.mounts, levels |-> l, nth |-> bridge.rows + 1]
  BY <1>0, <1>1 DEF AtBridge
<1>12. /\ AtBridge.mounts = bridge.mounts /\ AtBridge.levels = bridge.last
       /\ AtBridge.nth = bridge.rows
  BY DEF AtBridge
<1>13. /\ m.kind = "row" /\ m.levels = l /\ m.nth = bridge.rows + 1 /\ m.row = r
       /\ r.plain = Elide(l.plain, bridge.last.plain) /\ r.disk = d
  OBVIOUS
<1> HIDE DEF m, r
<1>14. RowSaid(AtBridge, m, AtBridge')
  <2>1. \/ m.row.disk = Elided(m.levels.disk, AtBridge.levels.disk, AtBridge.mounts)
        \/ /\ m.row.disk = Null /\ AtBridge.nth > 0
           /\ \A i \in DOMAIN AtBridge.mounts :
                 m.levels.disk[AtBridge.mounts[i]] = AtBridge.levels.disk[AtBridge.mounts[i]]
    BY <1>5, <1>7, <1>10, <1>12, <1>13
  <2> QED BY <1>2, <1>11, <1>12, <1>13, <2>1 DEF RowSaid
<1>15. Leads(AtBridge, m, AtBridge')
  BY <1>13, <1>14 DEF Leads
<1>16. bridge' \in [mounts : Orders \cup {NoMounts}, last : SomeLevels, rows : Nat]
  <2>1. bridge' = [mounts |-> bridge.mounts, last |-> l, rows |-> bridge.rows + 1]
    BY <1>0, <1>1
  <2>2. bridge.rows + 1 \in Nat
    BY <1>1
  <2> QED BY <1>1, <1>4, <2>1, <2>2
<1>17. Tell(m)
  BY <1>3 DEF m, r
<1> QED BY <1>9, <1>15, <1>16, <1>17, TellStep

(* What the request reads next. *)
LEMMA TakenStep ==
    ASSUME SampleInv, Unanswered, channel # <<>>, Taken
    PROVE  /\ channel' \in Seq(Said) /\ Head(channel) \in Said
           /\ bridge' = bridge /\ told' = told /\ AtBridge' = AtBridge
           /\ \E d \in Points : Leads(AtSample, Head(channel), d) /\ LeadsTo(channel', d, AtBridge')
<1>1. channel \in Seq(Said)
  BY DEF SampleInv, SampleTypes
<1>2. channel' = Tail(channel) /\ bridge' = bridge /\ told' = told /\ AtBridge' = AtBridge
  BY DEF Taken, AtBridge
<1>3. LeadsTo(channel, AtSample, AtBridge)
  BY DEF SampleInv, RowsOnTheWay
<1>4. \E d \in Points : Leads(AtSample, Head(channel), d) /\ LeadsTo(Tail(channel), d, AtBridge)
  BY <1>1, <1>3, StreamTaken
<1> QED BY <1>1, <1>2, <1>4, HeadTailProperties

LEMMA TakeStrayStep == ASSUME SampleInv, TakeStray PROVE SampleInv'
<1>1. /\ Unanswered /\ channel # <<>> /\ Taken /\ Head(channel).kind = "stray"
      /\ UNCHANGED <<sample, reply, merged>>
  BY DEF TakeStray, Received
<1>2. AtSample' = AtSample
  BY <1>1 DEF AtSample
<1>3. LeadsTo(channel', AtSample', AtBridge')
  BY <1>1, <1>2, TakenStep DEF Leads
<1>4. SampleTypes'
  BY <1>1, TakenStep DEF SampleInv, SampleTypes, SampleTypeOK
<1> QED BY <1>1, <1>3, <1>4
        DEF SampleInv, RowsOnTheWay, RowRight, AnsweredRight, Unanswered, Current

LEMMA TakeMetaStep == ASSUME SampleInv, TakeMeta PROVE SampleInv'
<1>1. /\ Unanswered /\ channel # <<>> /\ Taken /\ Head(channel).kind = "meta"
      /\ sample' = [mounts |-> Head(channel).mounts, row |-> NullRow, rows |-> 0]
      /\ UNCHANGED <<reply, merged>>
  BY DEF TakeMeta, Received
<1>2. PICK d \in Points : Leads(AtSample, Head(channel), d) /\ LeadsTo(channel', d, AtBridge')
  BY <1>1, TakenStep
<1>3. /\ Head(channel).mounts \in Orders
      /\ d = [mounts |-> Head(channel).mounts, levels |-> NoLevels, nth |-> 0]
  BY <1>1, <1>2 DEF Leads, Described
<1>4. AtSample' = d
  BY <1>1, <1>3 DEF AtSample
<1>5. NullRow \in [plain : Maybe, disk : Seq(Maybe) \cup {Null}] /\ NullRow.plain = Null
  BY DEF NullRow, Maybe
<1>6. sample' \in [mounts : Orders \cup {NoMounts},
                   row : [plain : Maybe, disk : Seq(Maybe) \cup {Null}], rows : 0..2]
  BY <1>1, <1>3, <1>5
<1>7. SampleTypes'
  BY <1>1, <1>6, TakenStep DEF SampleInv, SampleTypes, SampleTypeOK, Maybe
<1> QED BY <1>1, <1>2, <1>4, <1>7
        DEF SampleInv, RowsOnTheWay, RowRight, AnsweredRight, Unanswered, Wanted

LEMMA TakeRowStep == ASSUME SampleInv, TakeRow PROVE SampleInv'
<1> DEFINE m == Head(channel)
<1>1. Unanswered /\ channel # <<>> /\ Taken /\ m.kind = "row"
  BY DEF TakeRow, Received
<1>2. PICK d \in Points : Leads(AtSample, m, d) /\ LeadsTo(channel', d, AtBridge')
  BY <1>1, TakenStep
<1>3. RowSaid(AtSample, m, d) /\ AtSample \in Points
  BY <1>1, <1>2, PointsTyped DEF Leads, SampleInv
<1>4. /\ AtSample.mounts = sample.mounts /\ AtSample.nth = sample.rows
      /\ AtSample.levels = IF sample.rows = 0 THEN NoLevels ELSE merged.levels
  BY DEF AtSample
<1>5. /\ sample.mounts \in Orders /\ sample.mounts # NoMounts /\ m.levels \in Levels
      /\ m.nth = sample.rows + 1 /\ sample.rows < 2 /\ sample.rows \in 0..2
      /\ d = [mounts |-> sample.mounts, levels |-> m.levels, nth |-> m.nth]
  BY <1>1, <1>3, <1>4, OrdersAre DEF RowSaid, SampleInv, SampleTypes, AnsweredRight, Wanted
<1>6. /\ MergedPlain(sample.row.plain, m.row.plain) = m.levels.plain
      /\ MergedDisk(sample.row.disk, m.row.disk) = Current(m.levels, sample.mounts)
  <2>1. IF AtSample.nth = 0 THEN AtSample.levels = NoLevels
        ELSE /\ sample.row.plain = AtSample.levels.plain
             /\ sample.row.disk = Current(AtSample.levels, AtSample.mounts)
    BY <1>4, <1>5 DEF SampleInv, RowRight
  <2> HIDE DEF m
  <2> QED BY <1>3, <1>4, <2>1, MergeRight
<1>7. /\ sample' = [sample EXCEPT !.row = [plain |-> MergedPlain(@.plain, m.row.plain),
                                           disk |-> MergedDisk(@.disk, m.row.disk)],
                                  !.rows = @ + 1]
      /\ merged' = [levels |-> m.levels, nth |-> m.nth]
      /\ reply' = IF sample.rows + 1 >= Wanted THEN "sample" ELSE "none"
  BY <1>5 DEF TakeRow
<1> HIDE DEF m
<1>8. sample \in [mounts : Orders \cup {NoMounts},
                  row : [plain : Maybe, disk : Seq(Maybe) \cup {Null}], rows : 0..2]
  BY DEF SampleInv, SampleTypes
<1>9. /\ sample'.mounts = sample.mounts /\ sample'.rows = sample.rows + 1
      /\ sample'.row = [plain |-> m.levels.plain, disk |-> Current(m.levels, sample.mounts)]
  BY <1>6, <1>7, <1>8
<1>10. [plain |-> m.levels.plain, disk |-> Current(m.levels, sample.mounts)]
          \in [plain : Maybe, disk : Seq(Maybe) \cup {Null}]
  <2>1. m.levels.plain \in Maybe
    BY <1>5, LevelsAre DEF Maybe
  <2>2. sample.mounts \in Seq(Mount) /\ \A i \in DOMAIN sample.mounts : sample.mounts[i] \in Mount
    BY <1>5, OrdersAre, ElementOfSeq, LenProperties
  <2>3. Current(m.levels, sample.mounts) \in [DOMAIN sample.mounts -> Maybe]
    BY <1>5, <2>2, LevelsAre DEF Current, Maybe
  <2> QED BY <2>1, <2>2, <2>3, ListOf
<1>11. sample' \in [mounts : Orders \cup {NoMounts},
                    row : [plain : Maybe, disk : Seq(Maybe) \cup {Null}], rows : 0..2]
  <2>1. sample' = [mounts |-> sample.mounts,
                   row |-> [plain |-> m.levels.plain, disk |-> Current(m.levels, sample.mounts)],
                   rows |-> sample.rows + 1]
    BY <1>6, <1>7, <1>8
  <2>2. sample.rows + 1 \in 0..2
    BY <1>5
  <2> QED BY <1>5, <1>10, <2>1, <2>2
<1>12. merged' \in [levels : SomeLevels, nth : Nat]
  BY <1>5, <1>7, LevelsAre
<1>13. SampleTypes'
  <2>1. sample'.row.plain \in Level \cup {Null} /\ sample'.rows \in 0..2
        /\ sample'.mounts \in Orders \cup {NoMounts}
    BY <1>11 DEF Maybe
  <2>2. reply' \in {"none", "sample"}
    BY <1>7
  <2> QED BY <1>1, <1>11, <1>12, <2>1, <2>2, TakenStep DEF SampleInv, SampleTypes, SampleTypeOK
<1>14. AtSample' = d
  BY <1>5, <1>7, <1>9 DEF AtSample
<1>15. RowsOnTheWay'
  BY <1>2, <1>14 DEF RowsOnTheWay
<1>16. RowRight'
  BY <1>5, <1>7, <1>9 DEF RowRight
<1>17. AnsweredRight'
  BY <1>5, <1>7, <1>9 DEF AnsweredRight, Unanswered, Wanted
<1> QED BY <1>13, <1>15, <1>16, <1>17 DEF SampleInv

LEMMA SampleEndsStep == ASSUME SampleInv, TakeClose \/ Deadline PROVE SampleInv'
<1>1. CASE TakeClose
  <2>1. /\ Unanswered /\ channel # <<>> /\ Taken
        /\ reply' = IF sample.rows > 0 THEN "partial" ELSE "refused"
        /\ UNCHANGED <<sample, merged>>
    BY <1>1 DEF TakeClose, Received
  <2>2. SampleTypes'
    BY <2>1, TakenStep DEF SampleInv, SampleTypes, SampleTypeOK
  <2> QED BY <2>1, <2>2
          DEF SampleInv, RowsOnTheWay, RowRight, AnsweredRight, Unanswered, Current
<1>2. CASE Deadline
  BY <1>2
  DEF Deadline, SampleInv, SampleTypes, SampleTypeOK, RowsOnTheWay, RowRight, AnsweredRight,
      Unanswered, Current
<1> QED BY <1>1, <1>2

LEMMA SampleInvStep == SampleInv /\ [SampleNext]_sampleVars => SampleInv'
<1> SUFFICES ASSUME SampleInv, [SampleNext]_sampleVars PROVE SampleInv'
  OBVIOUS
<1>1. CASE UNCHANGED sampleVars
  BY <1>1
  DEF sampleVars, SampleInv, SampleTypes, SampleTypeOK, RowsOnTheWay, AtSample, AtBridge, RowRight,
      AnsweredRight, Unanswered, Current
<1> QED BY <1>1, DescribeStep, SendRowStep, SendOtherStep, TakeStrayStep, TakeMetaStep,
           TakeRowStep, SampleEndsStep DEF SampleNext

LEMMA SampleIsRight == SampleInv => SampleRight
<1> SUFFICES ASSUME SampleInv PROVE SampleRight
  OBVIOUS
<1>1. SampleTrue
  BY DEF SampleInv, AnsweredRight, RowRight, SampleTrue, Current, Wanted
<1>2. RatesHaveTwo
  BY DEF SampleInv, AnsweredRight, RowRight, RatesHaveTwo, Wanted
<1>3. DiskIsRoot
  <2> SUFFICES ASSUME reply \in {"sample", "partial"}, RootMount \in ToSet(sample.mounts)
               PROVE  sample.row.disk[DiskIndex] = merged.levels.disk[RootMount]
    BY DEF DiskIsRoot
  <2>1. \E i \in DOMAIN sample.mounts : sample.mounts[i] = RootMount
    BY DEF ToSet
  <2>2. DiskIndex \in DOMAIN sample.mounts /\ sample.mounts[DiskIndex] = RootMount
    BY <2>1 DEF DiskIndex
  <2>3. sample.row.disk = [i \in DOMAIN sample.mounts |-> merged.levels.disk[sample.mounts[i]]]
    BY <1>1 DEF SampleTrue
  <2> QED BY <2>2, <2>3
<1> QED BY <1>1, <1>2, <1>3 DEF SampleRight

(* Every reachable state of a sample has the types the code gives it.       *)
THEOREM SampleHasTypes == SampleSpec => []SampleTypeOK
<1>1. SampleInv => SampleTypeOK
  BY DEF SampleInv, SampleTypes
<1> QED BY <1>1, SampleInvInit, SampleInvStep, PTL DEF SampleSpec

(* However many file systems and messages there are, in whatever order they *)
(* are described and whatever a row leaves out: the metrics that are shown  *)
(* are the host's at one moment, and the disk is the root (cockpit.rs).     *)
THEOREM SampleAlwaysRight == SampleSpec => []SampleRight
  BY SampleInvInit, SampleInvStep, SampleIsRight, PTL DEF SampleSpec

-----------------------------------------------------------------------------
(* The update: types.                                                       *)

(* Next as one action at a time. *)
LEMMA NextCases ==
    ASSUME Next
    PROVE  \/ \E h \in Handlers : Check(h) \/ Claim(h) \/ Launch(h) \/ Refused(h)
           \/ \E s \in Scripts :
                \/ ByHand(s) \/ Enter(s) \/ Begin(s) \/ Prepared(s) \/ Installed(s)
                \/ Provisioned(s) \/ Finish(s) \/ Fail(s) \/ Leave(s) \/ Collect(s)
                \/ DieEarly(s) \/ Kill(s)
           \/ Crash \/ Power
  BY DEF Next, Apply, Run

LEMMA StatusTypes ==
    ASSUME NEW state \in States, NEW who \in Writers, WriteStatus(state, who)
    PROVE  status' \in [state : States, by : Writers]
  BY DEF WriteStatus

LEMMA UpdateTypesStep == TypeOK /\ [Next]_vars => TypeOK'
<1> SUFFICES ASSUME TypeOK, [Next]_vars PROVE TypeOK'
  OBVIOUS
<1> USE DEF TypeOK, Working, Alive
<1> DEFINE PCs == {"none", "ended"} \cup Alive
<1>1. CASE UNCHANGED vars
  BY <1>1 DEF vars
<1>2. ASSUME NEW h \in Handlers, Check(h) \/ Claim(h) \/ Launch(h) \/ Refused(h)
      PROVE  TypeOK'
  <2>1. CASE Check(h)
    BY <2>1 DEF Check
  <2>2. CASE Claim(h)
    <3>1. status' \in [state : States, by : Writers]
      BY <2>2, StatusTypes DEF Claim, States, Writers
    <3> QED BY <2>2, <3>1 DEF Claim
  <2>3. CASE Launch(h)
    <3>1. CASE UNCHANGED <<spc, unit, lock>>
      BY <2>3, <3>1 DEF Launch
    <3>2. CASE \E s \in Scripts : Boot(s) /\ unit' = IF HasSystemd THEN s ELSE unit
      BY <2>3, <3>2 DEF Launch, Boot
    <3> QED BY <2>3, <3>1, <3>2 DEF Launch
  <2>4. CASE Refused(h)
    <3>1. status' \in [state : States, by : Writers]
      BY <2>4, StatusTypes DEF Refused, States, Writers
    <3> QED BY <2>4, <3>1 DEF Refused
  <2> QED BY <1>2, <2>1, <2>2, <2>3, <2>4
<1>3. ASSUME NEW s \in Scripts,
             ByHand(s) \/ Enter(s) \/ Leave(s) \/ Collect(s) \/ DieEarly(s) \/ Kill(s)
      PROVE  TypeOK'
  BY <1>3 DEF ByHand, Boot, Enter, Leave, Collect, DieEarly, Kill, End
<1>4. ASSUME NEW s \in Scripts,
             Begin(s) \/ Prepared(s) \/ Provisioned(s) \/ Finish(s) \/ Fail(s)
      PROVE  TypeOK'
  <2>1. status' \in [state : States, by : Writers]
    BY <1>4, StatusTypes DEF Begin, Prepared, Provisioned, Finish, Fail, States, Writers
  <2> QED BY <1>4, <2>1 DEF Begin, Prepared, Provisioned, Finish, Fail
<1>5. ASSUME NEW s \in Scripts, Installed(s)
      PROVE  TypeOK'
  BY <1>5 DEF Installed
<1>6. CASE Crash \/ Power
  BY <1>6 DEF Crash, Power
<1> QED BY <1>1, <1>2, <1>3, <1>4, <1>5, <1>6, NextCases

(* Every reachable state of the update has the types the code gives it. *)
THEOREM UpdateTypes == Spec => []TypeOK
<1>1. Init => TypeOK
  BY DEF Init, TypeOK, States, Writers, Alive, Working
<1> QED BY <1>1, UpdateTypesStep, PTL DEF Spec

-----------------------------------------------------------------------------
(* The update: exclusion.  A run past the lock holds it, whatever kills     *)
(* what.                                                                    *)

PastLock == Working \cup {"locked", "over"}

LockInv == \A s \in Scripts : spc[s] \in PastLock => lock = s

LEMMA LockStep == TypeOK /\ LockInv /\ HasFlock /\ [Next]_vars => LockInv'
<1> SUFFICES ASSUME TypeOK, LockInv, HasFlock, [Next]_vars,
                    NEW t \in Scripts, spc'[t] \in PastLock
             PROVE  lock' = t
  BY DEF LockInv
<1> USE UpdateAssumption DEF TypeOK, LockInv, PastLock, Working, Alive
<1>1. CASE UNCHANGED vars
  BY <1>1 DEF vars
<1>2. ASSUME NEW h \in Handlers, Check(h) \/ Claim(h) \/ Launch(h) \/ Refused(h)
      PROVE  lock' = t
  BY <1>2 DEF Check, Claim, Launch, Refused, Boot
<1>3. ASSUME NEW s \in Scripts, ByHand(s) \/ Collect(s)
      PROVE  lock' = t
  BY <1>3 DEF ByHand, Boot, Collect
<1>4. ASSUME NEW s \in Scripts, Enter(s) \/ Leave(s) \/ DieEarly(s) \/ Kill(s)
      PROVE  lock' = t
  BY <1>4 DEF Enter, Leave, DieEarly, Kill, End
<1>5. ASSUME NEW s \in Scripts,
             Begin(s) \/ Prepared(s) \/ Installed(s) \/ Provisioned(s) \/ Finish(s) \/ Fail(s)
      PROVE  lock' = t
  BY <1>5 DEF Begin, Prepared, Installed, Provisioned, Finish, Fail
<1>6. CASE Crash \/ Power
  BY <1>6 DEF Crash, Power
<1> QED BY <1>1, <1>2, <1>3, <1>4, <1>5, <1>6, NextCases

(* With flock on the host two updates never work at once, however they were *)
(* started and whatever kills the script, the daemon or the host.           *)
THEOREM OneUpdateWithFlock ==
    ASSUME HasFlock PROVE Spec => []OneUpdate
<1>1. Init => LockInv
  BY DEF Init, LockInv, PastLock, Working
<1>2. TypeOK /\ LockInv /\ [Next]_vars => LockInv'
  BY LockStep
<1>3. LockInv => OneUpdate
  BY DEF LockInv, OneUpdate, PastLock
<1> QED BY <1>1, <1>2, <1>3, UpdateTypes, PTL DEF Spec

-----------------------------------------------------------------------------
(* The unit's name.  Without runs by hand every run is the unit, and so     *)
(* there is one at a time with or without flock.                            *)

FromTheWeb == HasSystemd /\ "hand" \notin Overlaps

UnitInv == \A s \in Scripts : spc[s] # "none" => unit = s

LEMMA UnitStep == TypeOK /\ UnitInv /\ FromTheWeb /\ [Next]_vars => UnitInv'
<1> SUFFICES ASSUME TypeOK, UnitInv, FromTheWeb, [Next]_vars,
                    NEW t \in Scripts, spc'[t] # "none"
             PROVE  unit' = t
  BY DEF UnitInv
<1> USE UpdateAssumption DEF TypeOK, UnitInv, FromTheWeb, Working, Alive
<1>1. CASE UNCHANGED vars
  BY <1>1 DEF vars
<1>2. ASSUME NEW h \in Handlers, Check(h) \/ Claim(h) \/ Launch(h) \/ Refused(h)
      PROVE  unit' = t
  <2>1. CASE Launch(h)
    BY <2>1 DEF Launch, Boot
  <2> QED BY <1>2, <2>1 DEF Check, Claim, Refused
<1>3. ASSUME NEW s \in Scripts, ByHand(s) \/ Collect(s)
      PROVE  unit' = t
  BY <1>3 DEF ByHand, Collect
<1>4. ASSUME NEW s \in Scripts, Enter(s) \/ Leave(s) \/ DieEarly(s) \/ Kill(s)
      PROVE  unit' = t
  BY <1>4 DEF Enter, Leave, DieEarly, Kill, End
<1>5. ASSUME NEW s \in Scripts,
             Begin(s) \/ Prepared(s) \/ Installed(s) \/ Provisioned(s) \/ Finish(s) \/ Fail(s)
      PROVE  unit' = t
  BY <1>5 DEF Begin, Prepared, Installed, Provisioned, Finish, Fail
<1>6. CASE Crash \/ Power
  BY <1>6 DEF Crash, Power
<1> QED BY <1>1, <1>2, <1>3, <1>4, <1>5, <1>6, NextCases

LEMMA UnitAlways == ASSUME FromTheWeb PROVE Spec => []UnitInv
<1>1. Init => UnitInv
  BY DEF Init, UnitInv
<1>2. TypeOK /\ UnitInv /\ [Next]_vars => UnitInv'
  BY UnitStep
<1> QED BY <1>1, <1>2, UpdateTypes, PTL DEF Spec

(* Updates started from the browser never work at once: systemd refuses the *)
(* name, whoever looked at the status when (update.rs:41-43).               *)
THEOREM OneUpdateFromTheWeb ==
    ASSUME FromTheWeb PROVE Spec => []OneUpdate
<1>1. TypeOK /\ UnitInv => OneUpdate
  BY DEF UnitInv, OneUpdate, Working
<1> QED BY <1>1, UnitAlways, UpdateTypes, PTL

-----------------------------------------------------------------------------
(* The status.  If nothing is started by hand and nothing is killed, a run  *)
(* finds the lock free, because whoever holds it is still the unit.         *)

Unkilled == {"early", "kill", "crash", "power"} \cap Faults = {}

HeldInv == lock # NoScript => spc[lock] \in PastLock

StatusInv == HeldInv /\ StatusHonest

LEMMA StatusStep ==
    TypeOK /\ UnitInv /\ StatusInv /\ FromTheWeb /\ Unkilled /\ [Next]_vars => StatusInv'
<1> SUFFICES ASSUME TypeOK, UnitInv, StatusInv, FromTheWeb, Unkilled, [Next]_vars
             PROVE  StatusInv'
  OBVIOUS
<1> USE UpdateAssumption
    DEF TypeOK, UnitInv, FromTheWeb, Unkilled, StatusInv, HeldInv, StatusHonest,
        PastLock, Working, Alive
<1>1. CASE UNCHANGED vars
  BY <1>1 DEF vars
<1>2. ASSUME NEW h \in Handlers, Check(h)
      PROVE  StatusInv'
  BY <1>2 DEF Check
<1>3. ASSUME NEW h \in Handlers, Claim(h)
      PROVE  StatusInv'
  <2>1. hpc'[h] = "claimed"
    BY <1>3 DEF Claim
  <2> QED BY <1>3, <2>1 DEF Claim
<1>4. ASSUME NEW h \in Handlers, Launch(h)
      PROVE  StatusInv'
  <2>1. ASSUME NEW s \in Scripts, Boot(s)
        PROVE  spc'[s] = "booting" /\ HeldInv'
    BY <2>1 DEF Boot
  <2>2. CASE hpc' = [hpc EXCEPT ![h] = "refused"] /\ UNCHANGED <<spc, unit, lock>>
    BY <2>2, hpc'[h] = "refused"
  <2> QED BY <1>4, <2>1, <2>2 DEF Launch
<1>5. ASSUME NEW h \in Handlers, Refused(h)
      PROVE  StatusInv'
  BY <1>5 DEF Refused, WriteStatus
<1>6. ASSUME NEW s \in Scripts, Enter(s)
      PROVE  StatusInv'
  <2>1. HasFlock => lock = NoScript
    BY <1>6 DEF Enter
  <2>2. spc' = [spc EXCEPT ![s] = "locked"] /\ lock' = IF HasFlock THEN s ELSE lock
    BY <1>6, <2>1 DEF Enter
  <2>3. spc'[s] = "locked"
    BY <2>2
  <2> QED BY <1>6, <2>2, <2>3 DEF Enter
<1>7. ASSUME NEW s \in Scripts, Begin(s) \/ Prepared(s) \/ Installed(s) \/ Provisioned(s)
      PROVE  StatusInv'
  <2>1. spc'[s] \in Working
    BY <1>7 DEF Begin, Prepared, Installed, Provisioned
  <2>2. HeldInv'
    BY <1>7 DEF Begin, Prepared, Installed, Provisioned
  <2> QED BY <2>1, <2>2
<1>8. ASSUME NEW s \in Scripts, Finish(s) \/ Fail(s)
      PROVE  StatusInv'
  <2>1. status'.state # "running"
    BY <1>8 DEF Finish, Fail, WriteStatus
  <2>2. HeldInv'
    BY <1>8 DEF Finish, Fail
  <2> QED BY <2>1, <2>2
<1>9. ASSUME NEW s \in Scripts, Leave(s)
      PROVE  StatusInv'
  BY <1>9 DEF Leave, End
<1>10. ASSUME NEW s \in Scripts, Collect(s)
       PROVE  StatusInv'
  BY <1>10 DEF Collect
<1>11. ASSUME NEW s \in Scripts, ByHand(s) \/ DieEarly(s) \/ Kill(s)
       PROVE  FALSE
  BY <1>11 DEF ByHand, DieEarly, Kill
<1>12. ~Crash /\ ~Power
  BY DEF Crash, Power
<1> QED
  BY <1>1, <1>2, <1>3, <1>4, <1>5, <1>6, <1>7, <1>8, <1>9, <1>10, <1>11, <1>12, NextCases

(* Started from the browser and killed by nobody, an update never leaves    *)
(* "running" behind, even if two handlers claim the status at once.         *)
THEOREM StatusAlwaysHonest ==
    ASSUME FromTheWeb, Unkilled PROVE Spec => []StatusHonest
<1>1. Init => StatusInv
  BY DEF Init, StatusInv, HeldInv, StatusHonest
<1>2. TypeOK /\ UnitInv /\ StatusInv /\ [Next]_vars => StatusInv'
  BY StatusStep
<1>3. StatusInv => StatusHonest
  BY DEF StatusInv
<1> QED BY <1>1, <1>2, <1>3, UnitAlways, UpdateTypes, PTL DEF Spec
-----------------------------------------------------------------------------
(* What an update says of itself.  Only a run past the lock writes the      *)
(* status, and there is one, for whichever reason; the handlers write over  *)
(* it and are the exception.                                                *)

AloneThere == \A s, t \in Scripts : {spc[s], spc[t]} \subseteq PastLock => s = t

Speaks(s) == status.by \in Handlers \/ status = [state |-> "running", by |-> s]

LEMMA ShownStep ==
    TypeOK /\ AloneThere /\ RunningShown /\ [Next]_vars => RunningShown'
<1> SUFFICES ASSUME TypeOK, AloneThere, RunningShown, [Next]_vars,
                    NEW t \in Scripts, spc'[t] \in Working
             PROVE  Speaks(t)'
  BY DEF RunningShown, Speaks
<1> USE UpdateAssumption
    DEF TypeOK, AloneThere, RunningShown, Speaks, PastLock, Working, Alive
<1>1. CASE UNCHANGED vars
  BY <1>1 DEF vars
<1>2. ASSUME NEW h \in Handlers, Check(h) \/ Claim(h) \/ Launch(h) \/ Refused(h)
      PROVE  Speaks(t)'
  <2>1. CASE Claim(h) \/ Refused(h)
    BY <2>1 DEF Claim, Refused, WriteStatus
  <2>2. CASE Check(h)
    BY <2>2 DEF Check
  <2>3. CASE Launch(h)
    BY <2>3 DEF Launch, Boot
  <2> QED BY <1>2, <2>1, <2>2, <2>3
<1>3. ASSUME NEW s \in Scripts, ByHand(s) \/ Collect(s)
      PROVE  Speaks(t)'
  BY <1>3 DEF ByHand, Boot, Collect
<1>4. ASSUME NEW s \in Scripts, Enter(s) \/ Leave(s) \/ DieEarly(s) \/ Kill(s)
      PROVE  Speaks(t)'
  BY <1>4 DEF Enter, Leave, DieEarly, Kill, End
<1>5. ASSUME NEW s \in Scripts, Installed(s)
      PROVE  Speaks(t)'
  BY <1>5 DEF Installed
<1>6. ASSUME NEW s \in Scripts,
             Begin(s) \/ Prepared(s) \/ Provisioned(s) \/ Finish(s) \/ Fail(s)
      PROVE  Speaks(t)'
  <2>1. s = t
    BY <1>6 DEF Begin, Prepared, Provisioned, Finish, Fail
  <2>2. status' = [state |-> "running", by |-> s]
    BY <1>6, <2>1 DEF Begin, Prepared, Provisioned, Finish, Fail, WriteStatus
  <2> QED BY <2>1, <2>2
<1>7. CASE Crash \/ Power
  BY <1>7 DEF Crash, Power
<1> QED BY <1>1, <1>2, <1>3, <1>4, <1>5, <1>6, <1>7, NextCases

(* While an update works, no other run of the script speaks over it: with   *)
(* flock there, however the runs were started, since one that finds the     *)
(* lock taken goes before it sets its trap; and without flock when all of   *)
(* them are started from the browser.  Whatever is killed.                  *)
THEOREM NoRunSpeaksOver ==
    ASSUME HasFlock \/ FromTheWeb PROVE Spec => []RunningShown
<1>1. Init => LockInv /\ RunningShown
  BY DEF Init, LockInv, RunningShown, PastLock, Working
<1>2. TypeOK /\ AloneThere /\ RunningShown /\ [Next]_vars => RunningShown'
  BY ShownStep
<1>3. CASE HasFlock
  <2>1. TypeOK /\ LockInv /\ [Next]_vars => LockInv'
    BY <1>3, LockStep
  <2>2. LockInv => AloneThere
    BY DEF LockInv, AloneThere
  <2> QED BY <1>1, <1>2, <2>1, <2>2, UpdateTypes, PTL DEF Spec
<1>4. CASE FromTheWeb
  <2>1. Spec => []UnitInv
    BY <1>4, UnitAlways
  <2>2. UnitInv => AloneThere
    BY DEF UnitInv, AloneThere, PastLock, Working
  <2> QED BY <1>1, <1>2, <2>1, <2>2, UpdateTypes, PTL DEF Spec
<1> QED BY <1>3, <1>4
=============================================================================
