--------------------------- MODULE MCCoordinator ---------------------------
(***************************************************************************)
(* Small instances of the publication owner.                               *)
(***************************************************************************)
EXTENDS CoordinatorRefinement, TLC

CONSTANTS dlg, room, area, shut, open, w1, w2, w3, g1, g2, none

Plain == [pushed |-> {}, supplied |-> FALSE, declared |-> {}, removed |-> {},
          force |-> FALSE, resultOnly |-> FALSE, completion |-> FALSE,
          standalone |-> FALSE, guard |-> "none"]

Refresh    == [Plain EXCEPT !.standalone = TRUE]
Sync       == [Plain EXCEPT !.standalone = TRUE, !.force = TRUE]
Completion == [Plain EXCEPT !.completion = TRUE, !.guard = "live"]
Private    == [Completion EXCEPT !.resultOnly = TRUE]
LatePush   == [Plain EXCEPT !.declared = {dlg}, !.guard = "stale"]
GroupPush  == [Plain EXCEPT !.declared = {room}, !.guard = "live"]
MapView    == [Completion EXCEPT !.declared = {area}]
Push       == [Plain EXCEPT !.pushed = {room}, !.supplied = TRUE, !.guard = "live"]
\* push_dialogue_reading, push_dialogue_update: rendered by the publisher.
DialoguePush == [Push EXCEPT !.pushed = {dlg}, !.standalone = TRUE]
Removal    == [Plain EXCEPT !.supplied = TRUE, !.removed = {room}]
Contradiction == [DialoguePush EXCEPT !.removed = {dlg}]

\* What one sequence publishes: every kind of scope over two eager panels.
ContentRequests == {Completion, GroupPush, MapView, Push, Removal, DialoguePush}
\* Who waits for it: guards, bounds, resets and result-only answers, refusals.
QueueRequests == {Refresh, Sync, Completion, Private, LatePush, Contradiction}

WaiterSymmetry == Permutations(Waiter) \union Permutations(Group)
=============================================================================
