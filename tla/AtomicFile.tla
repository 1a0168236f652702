------------------------------ MODULE AtomicFile ----------------------------
(***************************************************************************)
(* What the state files of the daemon promise.  A call that writes one     *)
(* either replaces the whole file in a single step and says so, or fails   *)
(* and changes nothing.  Nothing locks the file: calls that are under way  *)
(* together may meet, and from then until they have answered the file may  *)
(* hold anything and their answers may be about each other's texts.  The   *)
(* next call that meets nobody is owed the whole promise again.            *)
(***************************************************************************)
CONSTANTS
    Caller, Values, NoFile,
    Mangled      \* texts that nobody meant

VARIABLES
    value,   \* what a read of the file returns
    call,    \* of each caller: no call, a call under way, or its answer
    met      \* the callers whose call has met another

vars == <<value, call, met>>

Idle == [at |-> "idle"]
Busy(v) == [at |-> "busy", to |-> v]
Ok == [at |-> "ok"]
Err == [at |-> "err"]

UnderWay(w) == \E v \in Values : call[w] = Busy(v)

Init ==
    /\ value = NoFile
    /\ call = [w \in Caller |-> Idle]
    /\ met = {}

Begin(w) ==
    /\ call[w] = Idle
    /\ \E v \in Values : call' = [call EXCEPT ![w] = Busy(v)]
    /\ UNCHANGED <<value, met>>

Commit(w) ==
    /\ w \notin met
    /\ \E v \in Values : call[w] = Busy(v) /\ value' = v
    /\ call' = [call EXCEPT ![w] = Ok]
    /\ UNCHANGED met

Abort(w) ==
    /\ w \notin met
    /\ UnderWay(w)
    /\ call' = [call EXCEPT ![w] = Err]
    /\ UNCHANGED <<value, met>>

Return(w) ==
    /\ call[w] \in {Ok, Err}
    /\ call' = [call EXCEPT ![w] = Idle]
    /\ UNCHANGED <<value, met>>

\* Calls that are under way together get into each other's way.
Meet ==
    \E S \in SUBSET Caller :
        /\ \A w \in S : UnderWay(w)
        /\ \E w, x \in S : w # x
        /\ met' = met \cup S
        /\ UNCHANGED <<value, call>>

Mangle ==
    /\ met # {}
    /\ value' \in Values \cup Mangled
    /\ UNCHANGED <<call, met>>

Muddle(w) ==
    /\ w \in met
    /\ value' \in {value} \cup Values \cup Mangled
    /\ \E a \in {Ok, Err} : call' = [call EXCEPT ![w] = a]
    /\ met' = met \ {w}

Crash ==
    /\ call' = [w \in Caller |-> Idle]
    /\ met' = {}
    /\ UNCHANGED value

Next ==
    \/ \E w \in Caller : Begin(w) \/ Commit(w) \/ Abort(w) \/ Return(w) \/ Muddle(w)
    \/ Meet \/ Mangle
    \/ Crash

Spec == Init /\ [][Next]_vars
=============================================================================
