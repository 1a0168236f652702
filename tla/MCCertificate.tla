---------------------------- MODULE MCCertificate ---------------------------
(***************************************************************************)
(* The instance of Certificate for TLC with a disk that may be full.  The  *)
(* instance with one that cannot be written is in MCParts.                 *)
(***************************************************************************)
EXTENDS Certificate
=============================================================================
