------------------------------- MODULE Sample -------------------------------
(***************************************************************************)
(* One sample of the host's metrics: metrics, read_sample, merge_row and   *)
(* disk_of of src/cockpit.rs, and the metrics1 channel they read.          *)
(*                                                                         *)
(* The bridge describes what it will send and then sends rows.  A row has  *)
(* a plain metric, which stands for CPU and memory, and one that has an    *)
(* instance for every file system; what has not changed since the row      *)
(* before is sent as null, an instance at a time or all at once.  When a   *)
(* file system is mounted everything is described anew.  The request reads *)
(* until it has two rows, for rates need two, or until the channel is      *)
(* closed, or until its deadline.                                          *)
(***************************************************************************)
EXTENDS Naturals, SequencesExt

CONSTANTS
    Mount,        \* file systems that may be mounted
    RootMount,    \* "/", which need not be listed
    Level,        \* values of a metric
    Null,
    MaxMessages   \* messages the bridge sends, at most

ASSUME SampleAssumption ==
    /\ RootMount \in Mount /\ MaxMessages \in Nat
    /\ Null \notin Level /\ Null \notin Seq(Level \cup {Null}) /\ Null \notin Seq(Mount)

VARIABLES
    bridge,    \* the mounts it has described, the levels it sent last, rows since
    channel,   \* messages on their way to the request
    told,      \* how many there have been
    sample,    \* the request: the mounts it was told of, its row, rows merged
    reply,     \* how it ended
    merged     \* the row merged last: the levels of the host at that time, and
               \* its number since the mounts were described

sampleVars == <<bridge, channel, told, sample, reply, merged>>

Orders == {s \in BoundedSeq(Mount, Cardinality(Mount)) : IsInjective(s)}
Levels == [plain : Level, disk : [Mount -> Level]]
NoLevels == [plain |-> Null, disk |-> [m \in Mount |-> Null]]

NullRow == [plain |-> Null, disk |-> Null]

\* Nothing has been described.
NoMounts == Null

SampleInit ==
    /\ bridge = [mounts |-> NoMounts, last |-> NoLevels, rows |-> 0]
    /\ channel = <<>> /\ told = 0
    /\ sample = [mounts |-> NoMounts, row |-> NullRow, rows |-> 0]
    /\ reply = "none"
    /\ merged = [levels |-> NoLevels, nth |-> 0]

-----------------------------------------------------------------------------
(* The bridge, which finds the host as it may be. *)

Unanswered == reply = "none"

Tell(m) ==
    /\ Unanswered /\ told < MaxMessages
    /\ channel' = Append(channel, m) /\ told' = told + 1
    /\ UNCHANGED <<sample, reply, merged>>

Describe ==
    \E m \in Orders \ {bridge.mounts} :
        /\ Tell([kind |-> "meta", mounts |-> m])
        /\ bridge' = [mounts |-> m, last |-> NoLevels, rows |-> 0]

Elide(now, before) == IF now = before THEN Null ELSE now

\* What a row says of the instances: an unchanged one is null, and if all are
\* so may be the lot.
DiskElided(disk) ==
    LET d == [i \in DOMAIN bridge.mounts |->
                Elide(disk[bridge.mounts[i]], bridge.last.disk[bridge.mounts[i]])]
    IN  {d} \cup (IF bridge.rows > 0 /\ \A i \in DOMAIN d : d[i] = Null THEN {Null} ELSE {})

SendRow ==
    /\ bridge.mounts # NoMounts
    /\ \E l \in Levels :
          /\ \E d \in DiskElided(l.disk) :
                Tell([kind |-> "row", levels |-> l, nth |-> bridge.rows + 1,
                      row |-> [plain |-> Elide(l.plain, bridge.last.plain), disk |-> d]])
          /\ bridge' = [bridge EXCEPT !.last = l, !.rows = @ + 1]

\* A close, or what is left of another channel.
SendOther ==
    /\ \E k \in {"close", "stray"} : Tell([kind |-> k])
    /\ UNCHANGED bridge

-----------------------------------------------------------------------------
(* read_sample *)

Received(kind) == Unanswered /\ channel # <<>> /\ Head(channel).kind = kind

Taken == channel' = Tail(channel) /\ UNCHANGED <<bridge, told>>

TakeStray == Received("stray") /\ Taken /\ UNCHANGED <<sample, reply, merged>>

\* Rows that were merged before no longer line up.
TakeMeta ==
    /\ Received("meta") /\ Taken
    /\ sample' = [mounts |-> Head(channel).mounts, row |-> NullRow, rows |-> 0]
    /\ UNCHANGED <<reply, merged>>

\* Mutant: an instance list is taken at its face value.
FaceValue(into, disk) == disk

\* merge_row, of an instance list
MergedDisk(into, disk) ==
    IF disk = Null THEN into
    ELSE IF into # Null /\ Len(into) = Len(disk)
    THEN [i \in DOMAIN disk |-> IF disk[i] = Null THEN into[i] ELSE disk[i]]
    ELSE disk

\* merge_row, of a plain metric
MergedPlain(into, value) == IF value = Null THEN into ELSE value

\* METRIC_ROWS
Wanted == 2

\* A row before anything has been described is dropped.
TakeRow ==
    /\ Received("row") /\ Taken
    /\ LET m == Head(channel)
       IN  IF sample.mounts = NoMounts
           THEN UNCHANGED <<sample, reply, merged>>
           ELSE /\ sample' = [sample EXCEPT !.row = [plain |-> MergedPlain(@.plain, m.row.plain),
                                                     disk |-> MergedDisk(@.disk, m.row.disk)],
                                            !.rows = @ + 1]
                /\ merged' = [levels |-> m.levels, nth |-> m.nth]
                /\ reply' = IF sample.rows + 1 >= Wanted THEN "sample" ELSE "none"

\* What arrived before a close is still a sample.
TakeClose ==
    /\ Received("close") /\ Taken
    /\ reply' = IF sample.rows > 0 THEN "partial" ELSE "refused"
    /\ UNCHANGED <<sample, merged>>

Deadline ==
    /\ Unanswered /\ channel = <<>>
    /\ reply' = "late"
    /\ UNCHANGED <<bridge, channel, told, sample, merged>>

SampleNext ==
    \/ Describe \/ SendRow \/ SendOther
    \/ TakeStray \/ TakeMeta \/ TakeRow \/ TakeClose \/ Deadline

SampleSpec == SampleInit /\ [][SampleNext]_sampleVars

-----------------------------------------------------------------------------
(* The answer that is made of a sample. *)

\* disk_of: the root if it is listed, or else the first.
DiskIndex ==
    IF RootMount \in ToSet(sample.mounts)
    THEN CHOOSE i \in DOMAIN sample.mounts : sample.mounts[i] = RootMount
    ELSE 1

SampleTypeOK ==
    /\ bridge.mounts \in Orders \cup {NoMounts} /\ bridge.rows \in Nat
    /\ told \in 0..MaxMessages
    /\ sample.mounts \in Orders \cup {NoMounts} /\ sample.rows \in 0..2
    /\ sample.row.plain \in Level \cup {Null}
    /\ reply \in {"none", "sample", "partial", "refused", "late"}

\* What is answered is what the host was at the row that was merged last,
\* though that row said only what had changed: no number that stood still is
\* missing or is another's (cockpit.rs:1124-1129).
SampleTrue ==
    reply \in {"sample", "partial"} =>
        /\ sample.row.plain = merged.levels.plain
        /\ sample.row.disk = [i \in DOMAIN sample.mounts |-> merged.levels.disk[sample.mounts[i]]]

\* A full sample rests on a row that had one of the same kind before it, for
\* its rates to be rates since: file systems that come and go meanwhile start
\* it anew.
RatesHaveTwo == reply = "sample" => merged.nth >= 2

\* The disk is the root whenever the host has listed one.
DiskIsRoot ==
    reply \in {"sample", "partial"} /\ RootMount \in ToSet(sample.mounts) =>
        sample.row.disk[DiskIndex] = merged.levels.disk[RootMount]

\* The metrics panel shows the host as it was at one moment, with rates that
\* are rates and the disk that is meant.
SampleRight == SampleTrue /\ RatesHaveTwo /\ DiskIsRoot
=============================================================================
