------------------------- MODULE MCPresentationSync -------------------------
(***************************************************************************)
(* Small instances of one web session.                                     *)
(***************************************************************************)
EXTENDS PresentationSyncProperties, TLC
=============================================================================
