-------------------------- MODULE PublicationStream --------------------------
(***************************************************************************)
(* What the publication owner promises whoever reads its frames, without   *)
(* its queue, its groups or its planning: publications of one sequence are *)
(* numbered upwards, a delta only ever continues what the reader was shown *)
(* last, and whatever follows a lost publication is complete.              *)
(*                                                                         *)
(* Coordinator implements this (CoordinatorRefinement); PresentationSync   *)
(* puts a browser at the other end of it.                                  *)
(***************************************************************************)
EXTENDS Naturals

CONSTANTS
    Content,      \* what a reader can be shown
    MaxRevision,  \* MAX_SAFE_INTEGER
    MaxEpoch      \* bound: sequences one behaviour goes through

VARIABLES
    epoch,    \* the live sequence
    issued,   \* the newest revision it consumed
    trusted,  \* whether the last publication surely reached the reader
    shown     \* the last complete publication put before the reader

stream == <<epoch, issued, trusted, shown>>

Shown == [epoch: 0..MaxEpoch, revision: 0..MaxRevision, content: Content]

Init ==
    /\ epoch = 1
    /\ issued = 0
    /\ trusted = FALSE
    /\ shown \in {s \in Shown : s.epoch = 0 /\ s.revision = 0}

\* One complete publication.  A delta continues the one before it, so it needs
\* to know that one arrived.
Publish(kind, c) ==
    /\ kind = "delta" => trusted
    /\ issued < MaxRevision
    /\ issued' = issued + 1
    /\ trusted' = TRUE
    /\ shown' = [epoch |-> epoch, revision |-> issued + 1, content |-> c]
    /\ UNCHANGED epoch

\* The transport raised: the target is consumed, the publication may have
\* arrived whole, and nothing but a snapshot may follow.
Lose(arrived, c) ==
    /\ issued < MaxRevision
    /\ issued' = issued + 1
    /\ trusted' = FALSE
    /\ shown' = IF arrived
                THEN [epoch |-> epoch, revision |-> issued + 1, content |-> c]
                ELSE shown
    /\ UNCHANGED epoch

\* An intent was refused, so the next delta would leave something out.
Distrust ==
    /\ trusted' = FALSE
    /\ UNCHANGED <<epoch, issued, shown>>

\* A fresh sequence.  The reader still shows the last one.
Reset ==
    /\ epoch < MaxEpoch
    /\ epoch' = epoch + 1
    /\ issued' = 0
    /\ trusted' = FALSE
    /\ UNCHANGED shown

Next ==
    \/ \E c \in Content :
          \/ \E kind \in {"snapshot", "delta"} : Publish(kind, c)
          \/ \E arrived \in BOOLEAN : Lose(arrived, c)
    \/ Distrust
    \/ Reset

Spec == Init /\ [][Next]_stream
==============================================================================
