-------------------------- MODULE ArtQueueProperties ---------------------------
EXTENDS ArtQueue

\* Every picture a record or a card names is in the store, at every step of every
\* thread and after a crash at any of them (settle_generated,
\* settle_gallery_generated, remove_card, prune_gallery_orphans).
ReferencesExist == \A i \in Outputs \cup (Referenced \ removed) : files[i] # 0

\* The same of every card: "an interruption leaves an orphan FILE ..., never a card
\* pointing at a missing file" (settle_gallery_generated).
CardsHaveFiles == \A i \in Referenced : files[i] # 0

\* Every picture that the saved database names and the store held is among the saved
\* files, although they are copied one after the other while the game runs
\* (snapshot._create_locked, publication.paused).
SavedIsWhole == snapshot = "mirrored" => saved.named \subseteq saved.files

\* A record that settled as done shows a picture at least as new as the prompt it
\* was last queued for: a worker that was overtaken by a forced regeneration never
\* settles it (requeue, settle_generated).
RegeneratedIsNew ==
    \A s \in Scene : record[s].status = "done" /\ record[s].token = 0 =>
        files[record[s].output] >= record[s].prompt

\* Every request is settled, whatever is requeued, removed, saved or crashes on the
\* way, except the job of a monster species that the code no longer registers, which
\* waits until it does (worker.drain, claim, reclaim_expired_leases).
EveryJobSettles ==
    \A j \in Job : record[j].status \in InFlight ~>
        record[j].status \notin InFlight \/ record[j].subject \in retired
=============================================================================
