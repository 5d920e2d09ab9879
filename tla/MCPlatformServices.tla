------------------------- MODULE MCPlatformServices -------------------------
(***************************************************************************)
(* Checking PlatformServices with TLC needs nothing but its constants.     *)
(***************************************************************************)
EXTENDS PlatformServices
=============================================================================
