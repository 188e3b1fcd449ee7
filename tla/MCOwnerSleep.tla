---------------------------- MODULE MCOwnerSleep ----------------------------
(***************************************************************************)
(* A small instance of the sleep continuation.                             *)
(***************************************************************************)
EXTENDS OwnerSleepProperties
=============================================================================
