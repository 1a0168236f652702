----------------------------- MODULE MCSessions -----------------------------
(***************************************************************************)
(* The instance of Sessions for TLC: its run checks liveness, so tokens    *)
(* and requests are told apart and no symmetry is declared.                *)
(***************************************************************************)
EXTENDS Sessions
=============================================================================
