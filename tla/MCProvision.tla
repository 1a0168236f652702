----------------------------- MODULE MCProvision ----------------------------
(***************************************************************************)
(* The instance of Provision for TLC on Enterprise Linux 10.  The instance *)
(* with the releases that WebDesk knows is in MCParts.                     *)
(***************************************************************************)
EXTENDS Provision
=============================================================================
