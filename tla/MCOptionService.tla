--------------------------- MODULE MCOptionService ---------------------------
(***************************************************************************)
(* Small instances of the suggestion service.                              *)
(***************************************************************************)
EXTENDS OptionServiceProperties
==============================================================================
