------------------------------ MODULE MCStreams ------------------------------
(***************************************************************************)
(* The instance of Streams for TLC: its run checks liveness, so users and  *)
(* requests are told apart and no symmetry is declared.                    *)
(***************************************************************************)
EXTENDS Streams
=============================================================================
