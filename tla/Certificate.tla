---------------------------- MODULE Certificate ----------------------------
(***************************************************************************)
(* The certificate WebDesk makes for itself: config, build and store of    *)
(* src/tls.rs, and main's use of them.                                     *)
(*                                                                         *)
(* At every start the pair is read from two files.  If one of them cannot  *)
(* be read a new pair is made and saved, the certificate first; one that   *)
(* cannot be saved is served from memory.  A file is opened and emptied,   *)
(* and then written.  A pair is a number; a file holds one half of a pair  *)
(* or something that is not a certificate or a key.  A pair the operator   *)
(* supplies is left out: it is read and built, and nothing else.           *)
(***************************************************************************)
EXTENDS Naturals

CONSTANTS
    MaxPairs,           \* pairs that are made, at most
    CertificateFaults   \* subset of {"readonly", "full", "kill"}

ASSUME CertificateAssumption == MaxPairs \in Nat

VARIABLES
    cert, key,  \* the two files
    daemon,     \* how far a start is
    pair,       \* the pair in its hand
    minted      \* pairs made so far

certificateVars == <<cert, key, daemon, pair, minted>>

Absent == 0
Broken == MaxPairs + 1
Half == 0..Broken

CertificateInit ==
    /\ cert = Absent /\ key = Absent
    /\ daemon = "down" /\ pair = Absent /\ minted = 0

\* build: a certificate, a key, and that they go together.
Builds(c, k) == c \notin {Absent, Broken} /\ c = k

\* Mutant: a pair is made at every start.
AlwaysNew == FALSE

\* Both files can be read, whatever is in them.
OnDisk == cert # Absent /\ key # Absent

Start ==
    /\ daemon = "down"
    /\ \/ /\ OnDisk
          /\ daemon' = IF Builds(cert, key) THEN "serving" ELSE "failed"
          /\ pair' = cert
          /\ UNCHANGED minted
       \/ /\ ~OnDisk /\ minted < MaxPairs
          /\ minted' = minted + 1 /\ pair' = minted'
          /\ daemon' = "directory"
    /\ UNCHANGED <<cert, key>>

\* One step of store, which does this to the files and goes on, or cannot be
\* done and leaves the pair in memory.
Saving(at, next, c, k, fault) ==
    /\ daemon = at
    /\ \/ daemon' = next /\ cert' = c /\ key' = k
       \/ fault \in CertificateFaults /\ daemon' = "serving" /\ UNCHANGED <<cert, key>>
    /\ UNCHANGED <<pair, minted>>

MakeDirectory == Saving("directory", "cert", cert, key, "readonly")
EmptyCert == Saving("cert", "cert text", Broken, key, "readonly")
WriteCert == Saving("cert text", "key", pair, key, "full")
EmptyKey == Saving("key", "key text", cert, Broken, "full")

WriteKey == Saving("key text", "serving", cert, pair, "full")

\* The daemon is stopped, or asked to start again.
Stop ==
    /\ daemon \in {"serving", "failed"}
    /\ daemon' = "down" /\ pair' = Absent
    /\ UNCHANGED <<cert, key, minted>>

\* It is killed while it saves.
KillDaemon ==
    /\ "kill" \in CertificateFaults
    /\ daemon \notin {"serving", "failed", "down"}
    /\ daemon' = "down" /\ pair' = Absent
    /\ UNCHANGED <<cert, key, minted>>

CertificateNext ==
    \/ Start \/ MakeDirectory \/ EmptyCert \/ WriteCert \/ EmptyKey \/ WriteKey
    \/ Stop \/ KillDaemon

CertificateSpec == CertificateInit /\ [][CertificateNext]_certificateVars

-----------------------------------------------------------------------------
CertificateTypeOK ==
    /\ cert \in Half /\ key \in Half /\ pair \in Half /\ minted \in 0..MaxPairs
    /\ daemon \in {"down", "directory", "cert", "cert text", "key", "key text",
                   "serving", "failed"}

\* A pair that cannot be saved costs a new certificate at the next start and
\* nothing else (tls.rs:244-246): the daemon starts.
Starts == daemon # "failed"

\* The pair that was saved is the one that is served ever after: a browser
\* that accepted it is not asked again.
PairKept ==
    [][Builds(cert, key) /\ daemon' = "serving" => pair' = cert]_certificateVars
=============================================================================
