----------------------------- MODULE MCArtQueue -----------------------------
EXTENDS ArtQueueProperties

\* Each gallery has a picture from before.
OneEach == [s \in Subject |-> {"i0"}]
=============================================================================
