-------------------------- MODULE OwnerSleepProperties --------------------------
(* What the owner's sleep continuation keeps.                                *)
EXTENDS OwnerSleep

\* A record that names an operation tells how much time it has settled, however
\* often it was lost and resumed; one left pending also says with which interval
\* to go on.
ElapsedAgrees ==
    decision.op # NoOp =>
      /\ decision.elapsed = settled[decision.op].seconds
      /\ decision.continuation = "pending" => settled[decision.op].n = decision.index + 1

\* The continuation settles time only while the player's last word is to go on:
\* not after an event it met asked for the player, a contact woke the owner, a
\* dream was entered, another sleep began or control was handed back asleep.
LicensedIntervals == [][settled' # settled => licence /\ ~possession]_vars

\* A pending record that an attach would act on is settled at last.
PendingEnds == Resumable ~> ~Resumable

\* A checkpoint tells the player of a sleep that reached its target: "a paused,
\* interrupted or retained continuation" publishes none.
PublishedWhenReached ==
    receipt.sleep > 0 /\ published[receipt.sleep] > 0 => receipt.state = "completed"
=============================================================================
