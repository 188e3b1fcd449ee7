------------------------ MODULE CoordinatorRefinement ------------------------
(***************************************************************************)
(* The publication owner implements the stream it promises: its reader is  *)
(* shown complete publications only, numbered upwards within a sequence,   *)
(* whatever is queued, merged, flushed, refused, failed or reset meanwhile.*)
(***************************************************************************)
EXTENDS CoordinatorProperties

\* What one publication shows: every eager panel, the mode and the calendar.
Picture == [panels: Content, mode: Mode, time: Time]

Stream == INSTANCE PublicationStream WITH
    Content <- Picture,
    issued  <- revision,
    trusted <- Trusted,
    shown   <- [epoch |-> held.epoch, revision |-> held.revision,
                content |-> [panels |-> held.panels, mode |-> held.mode, time |-> held.time]]

\* Every step of the owner is a step of the stream or none (coordinator.py
\* _send_plans, _invalidate_baseline, reset).
ImplementsStream == Stream!Spec
==============================================================================
