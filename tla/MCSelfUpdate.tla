---------------------------- MODULE MCSelfUpdate ----------------------------
(***************************************************************************)
(* The instance of SelfUpdate for TLC with one update from the browser and *)
(* others by hand, which can go wrong.                                     *)
(***************************************************************************)
EXTENDS SelfUpdate
=============================================================================
