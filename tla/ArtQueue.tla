------------------------------- MODULE ArtQueue -------------------------------
(***************************************************************************)
(* The artwork queue (world/art): pictures of scenes, kept by a record, and *)
(* pictures of gallery subjects, kept by cards.  The reactor thread files  *)
(* requests, claims them for the one worker slot and edits the galleries;  *)
(* the worker thread generates and publishes; a snapshot thread copies the *)
(* database and then the files.  Two locks order them: the publication     *)
(* gate, then the queue lock.  Every write of a record is a transaction of *)
(* its own, so a crash may come between any two of them.                   *)
(*                                                                         *)
(* The gallery lock covers single steps here.  Error codes, attempt counts *)
(* and which card is the default are left out.                             *)
(***************************************************************************)
EXTENDS Naturals, FiniteSets

CONSTANTS
    Scene,       \* subjects with a record and one fixed place per format
    Subject,     \* subjects with a gallery
    Capped,      \* those whose new card replaces the old one
    Monster,     \* those that are a monster species of the code
    Image,       \* gallery images that may be asked for
    Old,         \* those each gallery has at first
    Format,      \* output formats; a restart may change the setting
    None,        \* nothing, nobody
    Limit,       \* ART_SCHEDULER_LIMIT
    MaxEvent     \* bound: forced requeues, removals, snapshots and crashes

Job == Scene \cup Image
Identity == Job \X Format

ASSUME ArtAssumption ==
    /\ Scene \cap Image = {} /\ IsFiniteSet(Job)
    /\ Capped \subseteq Subject /\ Monster \subseteq Subject
    /\ Old \in [Subject -> SUBSET Image]
    /\ \A s, t \in Subject : s # t => Old[s] \cap Old[t] = {}
    /\ \A s \in Capped : Cardinality(Old[s]) <= 1
    /\ Format # {}
    /\ None \notin Identity \cup Subject \cup Job
    /\ Limit \in Nat \ {0} /\ MaxEvent \in Nat

\* A claim's token; 0 is the empty one.  As many as records may name at once, and one.
Token == 0..(Cardinality(Job) + 1)

\* The version of a prompt: staff edit it and force a regeneration.
Prompt == 1..(MaxEvent + 1)

\* The state of a record; an image has "none" until it is asked for and "gone" after.
Record == [status : {"none", "missing", "pending", "in_progress", "done", "failed", "gone"},
           token : Token, claimed : BOOLEAN, output : Identity \cup {None},
           prompt : Prompt, subject : Subject \cup {None}]

VARIABLES
    up,
    record,      \* ArtAssetRecord of each scene and of each requested image
    cards,       \* stored identities of each subject's gallery
    files,       \* what lies in the store: the version of the prompt each shows, or 0
    format,      \* ART_SD_OUTPUT_EXTENSION
    retired,     \* species the running code has not registered
    slot,        \* _worker_in_flight
    batch,       \* claimed and not yet taken: <<job, token>>
    worker,      \* the worker thread
    reactor,     \* the reactor thread
    snapshot,    \* the snapshot thread
    saved,       \* the running snapshot: what its database names of the store, and its files
    removed,     \* history: pictures whose card somebody has removed
    events       \* bound

world   == <<record, cards>>
setting == <<format, retired>>
store   == <<files, setting>>
threads == <<slot, batch, worker, reactor>>
saving  == <<snapshot, saved>>
vars    == <<up, world, store, threads, saving, removed, events>>

Resting == [step |-> "idle", job |-> None, token |-> 0, prompt |-> 1, stale |-> {}]
Free == [step |-> "idle", subject |-> None, file |-> None, todo |-> {}]
NoCopy == [named |-> {}, files |-> {}]

Here(j) == <<j, format>>
InFlight == {"pending", "in_progress"}

\* publication._gate and queue_lock, by who holds them.
GateHeld == worker.step \in {"replaced", "marked", "committed", "carded", "unlinked", "rejected"}
            \/ snapshot \in {"backup", "mirror", "mirrored"}
QueueLocked == worker.step \in {"replaced", "marked", "carded", "unlinked"} \/ reactor.step \in {"claim", "stamp"}

\* Which format is set at first is immaterial.
Aged == UNION {Old[s] : s \in Subject}

Init ==
    /\ up = TRUE
    /\ record = [j \in Job |-> [status |-> IF j \in Scene THEN "missing" ELSE IF j \in Aged THEN "gone" ELSE "none",
                                token |-> 0, claimed |-> FALSE, output |-> None, prompt |-> 1, subject |-> None]]
    /\ format = CHOOSE f \in Format : TRUE
    /\ retired = {}
    /\ cards = [s \in Subject |-> Old[s] \X {format}]
    /\ files = [i \in Identity |-> IF i[1] \in Aged /\ i[2] = format THEN 1 ELSE 0]
    /\ slot = FALSE
    /\ batch = {}
    /\ worker = Resting
    /\ reactor = Free
    /\ snapshot = "idle"
    /\ saved = NoCopy
    /\ removed = {}
    /\ events = 0

\* What the records and the cards name.
Outputs == {record[s].output : s \in Scene} \ {None}
Referenced == UNION {cards[s] : s \in Subject}

Event == events < MaxEvent /\ events' = events + 1
Idle == up /\ reactor.step = "idle"
------------------------------------------------------------------------------
(* Requests, on the reactor.                                               *)

\* ensure: a missing or failed record is (re)queued, any other is left alone.
Ensure(s) ==
    /\ Idle /\ ~QueueLocked
    /\ record[s].status \in {"missing", "failed"}
    /\ record' = [record EXCEPT ![s].status = "pending"]
    /\ UNCHANGED <<up, cards, store, threads, saving, events, removed>>

\* requeue: a staff regeneration; a running worker loses its claim.
RequeueKeepsClaim(s) ==
    /\ Idle /\ ~QueueLocked /\ Event
    /\ record' = [record EXCEPT ![s].prompt = @ + 1,
                                ![s].status = IF @ = "in_progress" THEN @ ELSE "pending"]
    /\ UNCHANGED <<up, cards, store, threads, saving, removed>>
Requeue(s) ==
    /\ Idle /\ ~QueueLocked /\ Event
    /\ record' = [record EXCEPT ![s].status = "pending", ![s].token = 0, ![s].prompt = @ + 1]
    /\ UNCHANGED <<up, cards, store, threads, saving, removed>>

\* monster_subject_for refuses a species that is not registered.
Known(s) == s \notin retired

\* A job of its own, under a name not used before.
Unused == {i \in Image : record[i].status = "none"}

Enqueued(s) ==
    /\ ~QueueLocked
    /\ Unused # {}
    /\ record' = [record EXCEPT ![CHOOSE i \in Unused : TRUE] = [@ EXCEPT !.status = "pending", !.subject = s]]

\* A player, or staff, ask for a picture whatever the gallery holds.
Request(s) ==
    /\ Idle /\ Known(s)
    /\ Enqueued(s)
    /\ UNCHANGED <<up, cards, store, threads, saving, events, removed>>

\* _guarded_gallery_request asks only for a subject without card and job: it reads
\* the cards, then the jobs.
ReadCards(s) ==
    /\ Idle /\ Known(s)
    /\ cards[s] = {}
    /\ reactor' = [Free EXCEPT !.step = "guard", !.subject = s]
    /\ UNCHANGED <<up, world, store, slot, batch, worker, saving, events, removed>>

JobInFlight(s) == \E i \in Image : record[i].subject = s /\ record[i].status \in InFlight

ReadJobs ==
    /\ up /\ reactor.step = "guard" /\ ~QueueLocked
    /\ IF JobInFlight(reactor.subject) \/ Unused = {} THEN UNCHANGED record ELSE Enqueued(reactor.subject)
    /\ reactor' = Free
    /\ UNCHANGED <<up, cards, store, slot, batch, worker, saving, events, removed>>
------------------------------------------------------------------------------
(* remove_card: the list, then the file, if the gate frees in time.        *)

RemoveCard(s, i) ==
    /\ Idle /\ Known(s) /\ Event
    /\ i \in cards[s]
    /\ cards' = [cards EXCEPT ![s] = @ \ {i}]
    /\ reactor' = [Free EXCEPT !.step = "unlink", !.file = i]
    /\ removed' = removed \cup {i}
    /\ UNCHANGED <<up, record, store, slot, batch, worker, saving>>

UnlinkUngated ==
    /\ up /\ reactor.step = "unlink"
    /\ files' = [files EXCEPT ![reactor.file] = 0]
    /\ reactor' = Free
    /\ UNCHANGED <<up, world, setting, slot, batch, worker, saving, events, removed>>
Unlink ==
    /\ up /\ reactor.step = "unlink"
    /\ files' = IF GateHeld THEN files ELSE [files EXCEPT ![reactor.file] = 0]
    /\ reactor' = Free
    /\ UNCHANGED <<up, world, setting, slot, batch, worker, saving, events, removed>>
------------------------------------------------------------------------------
(* drain: leases that ran out, the claim, the dispatch.                    *)

\* The job of a species that is not registered is left where it is.
Pending(r) == {j \in Job : r[j].status = "pending" /\ Known(r[j].subject)}

\* A claim without its time was torn by a crash, and counts as run out.
ReclaimedStamped(E) == {j \in E : record[j].claimed}
Reclaimed(E) == E \cup {j \in Job : record[j].status = "in_progress" /\ ~record[j].claimed}

Drain(E) ==
    /\ Idle /\ ~QueueLocked
    /\ snapshot = "idle"
    /\ ~slot
    /\ E \subseteq {j \in Job : record[j].status = "in_progress"}
    /\ record' = [j \in Job |-> IF j \in Reclaimed(E)
                                THEN [record[j] EXCEPT !.status = "pending", !.claimed = FALSE]
                                ELSE record[j]]
    /\ \E todo \in SUBSET Pending(record') :
          /\ Cardinality(todo) = Limit \/ (Cardinality(todo) < Limit /\ todo = Pending(record'))
          /\ reactor' = IF todo = {} THEN reactor ELSE [Free EXCEPT !.step = "claim", !.todo = todo]
          /\ slot' = (todo # {})
    /\ UNCHANGED <<up, cards, store, batch, worker, saving, events, removed>>

Fresh == CHOOSE t \in Token \ {0} : t \notin {record[j].token : j \in Job}

Claim(j) ==
    /\ up /\ reactor.step = "claim"
    /\ j \in reactor.todo
    /\ record' = [record EXCEPT ![j].status = "in_progress"]
    /\ reactor' = [reactor EXCEPT !.step = "stamp", !.subject = j]
    /\ UNCHANGED <<up, cards, store, slot, batch, worker, saving, events, removed>>

Stamp ==
    /\ up /\ reactor.step = "stamp"
    /\ LET j == reactor.subject
       IN /\ record' = [record EXCEPT ![j].claimed = TRUE, ![j].token = Fresh]
          /\ batch' = batch \cup {<<j, Fresh>>}
          /\ reactor' = IF reactor.todo = {j} THEN Free
                        ELSE [Free EXCEPT !.step = "claim", !.todo = reactor.todo \ {j}]
          /\ worker' = IF reactor.todo = {j} THEN [Resting EXCEPT !.step = "next"] ELSE worker
    /\ UNCHANGED <<up, cards, store, slot, saving, events, removed>>
------------------------------------------------------------------------------
(* The worker thread.                                                      *)

Working(step) == up /\ worker.step = step
Steps(step) == worker' = [worker EXCEPT !.step = step]

\* The prompt is rendered when the generation starts.
Take(j, t) ==
    /\ Working("next")
    /\ <<j, t>> \in batch
    /\ batch' = batch \ {<<j, t>>}
    /\ worker' = [step |-> "generate", job |-> j, token |-> t, prompt |-> record[j].prompt, stale |-> {}]
    /\ UNCHANGED <<up, world, store, slot, reactor, saving, events, removed>>

\* The temporary file is written under the gate, which a snapshot may hold.
Generate ==
    /\ Working("generate") /\ ~GateHeld
    /\ Steps("publish")
    /\ UNCHANGED <<up, world, store, slot, batch, reactor, saving, events, removed>>

GenerateFails ==
    /\ Working("generate")
    /\ Steps("failed")
    /\ UNCHANGED <<up, world, store, slot, batch, reactor, saving, events, removed>>

Current == record[worker.job].status = "in_progress" /\ record[worker.job].token = worker.token
Publishable == Current /\ Known(record[worker.job].subject)

Stale ==
    /\ Working("publish") /\ ~GateHeld /\ ~QueueLocked
    /\ ~Publishable
    /\ Steps("next")
    /\ UNCHANGED <<up, world, store, slot, batch, reactor, saving, events, removed>>

Replace ==
    /\ Working("publish") /\ ~GateHeld /\ ~QueueLocked
    /\ Publishable
    /\ files' = [files EXCEPT ![Here(worker.job)] = worker.prompt]
    /\ Steps("replaced")
    /\ UNCHANGED <<up, world, setting, slot, batch, reactor, saving, events, removed>>

ReplaceFails ==
    /\ Working("publish") /\ ~GateHeld /\ ~QueueLocked
    /\ Publishable
    /\ Steps(IF worker.job \in Scene THEN "failed" ELSE "rejected")
    /\ UNCHANGED <<up, world, store, slot, batch, reactor, saving, events, removed>>

\* A scene: the status is written, then the output and the rest.
MarkDone ==
    /\ Working("replaced") /\ worker.job \in Scene
    /\ record' = [record EXCEPT ![worker.job].status = "done"]
    /\ Steps("marked")
    /\ UNCHANGED <<up, cards, store, slot, batch, reactor, saving, events, removed>>

PriorAnyPlace(j) == {record[j].output} \ {None}
Prior(j) == {record[j].output} \ {None, Here(j)}

Commit ==
    /\ Working("marked")
    /\ record' = [record EXCEPT ![worker.job].output = Here(worker.job), ![worker.job].claimed = FALSE,
                                ![worker.job].token = 0]
    /\ worker' = [worker EXCEPT !.step = "committed", !.stale = Prior(worker.job)]
    /\ UNCHANGED <<up, cards, store, slot, batch, reactor, saving, events, removed>>

Removed(S) == files' = [i \in Identity |-> IF i \in S THEN 0 ELSE files[i]]

\* Only a change of format leaves another file behind.
Cleanup ==
    /\ Working("committed")
    /\ files' = files \/ Removed(worker.stale)
    /\ worker' = [Resting EXCEPT !.step = "next"]
    /\ UNCHANGED <<up, world, setting, slot, batch, reactor, saving, events, removed>>

\* An image: append_card refuses an image that the gallery has; a capped subject's
\* card replaces its predecessor.
Gallery == record[worker.job].subject
Held == \E i \in cards[Gallery] : i[1] = worker.job

AppendCard ==
    /\ Working("replaced") /\ worker.job \in Image
    /\ ~Held
    /\ IF Gallery \in Capped
       THEN /\ cards' = [cards EXCEPT ![Gallery] = {Here(worker.job)}]
            /\ worker' = [worker EXCEPT !.step = "carded", !.stale = cards[Gallery]]
       ELSE /\ cards' = [cards EXCEPT ![Gallery] = @ \cup {Here(worker.job)}]
            /\ Steps("carded")
    /\ UNCHANGED <<up, record, store, slot, batch, reactor, saving, events, removed>>

AppendRefused ==
    /\ Working("replaced") /\ worker.job \in Image
    /\ Held
    /\ Steps("rejected")
    /\ UNCHANGED <<up, world, store, slot, batch, reactor, saving, events, removed>>

UnlinkReplaced ==
    /\ Working("carded")
    /\ files' = files \/ Removed(worker.stale)
    /\ Steps("unlinked")
    /\ UNCHANGED <<up, world, setting, slot, batch, reactor, saving, events, removed>>

\* Marked terminal, then deleted, each if the database will have it.
FinishJob ==
    /\ Working("unlinked")
    /\ \E status \in {"done", "gone"} : record' = [record EXCEPT ![worker.job].status = status]
    /\ worker' = [Resting EXCEPT !.step = "next"]
    /\ UNCHANGED <<up, cards, store, slot, batch, reactor, saving, events, removed>>

Fail ==
    /\ Working("failed") \/ Working("rejected")
    /\ ~QueueLocked
    /\ record' = IF ~Current THEN record
                 ELSE [record EXCEPT ![worker.job].status = IF worker.job \in Scene THEN "failed" ELSE "gone",
                                     ![worker.job].claimed = FALSE]
    /\ worker' = [Resting EXCEPT !.step = "next"]
    /\ UNCHANGED <<up, cards, store, slot, batch, reactor, saving, events, removed>>

ReleaseSlot ==
    /\ Working("next")
    /\ batch = {}
    /\ slot' = FALSE
    /\ worker' = Resting
    /\ UNCHANGED <<up, world, store, batch, reactor, saving, events, removed>>
------------------------------------------------------------------------------
(* The snapshot thread: server/saves/snapshot.py under publication.paused. *)

Pause ==
    /\ up /\ snapshot = "idle" /\ Event
    /\ snapshot' = "paused"
    /\ UNCHANGED <<up, world, store, threads, saved, removed>>

EnterGate ==
    /\ up /\ snapshot = "paused" /\ ~GateHeld
    /\ snapshot' = "backup"
    /\ UNCHANGED <<up, world, store, threads, saved, events, removed>>

Backup ==
    /\ up /\ snapshot = "backup"
    /\ saved' = [saved EXCEPT !.named = {i \in Outputs \cup Referenced : files[i] # 0}]
    /\ snapshot' = "mirror"
    /\ UNCHANGED <<up, world, store, threads, events, removed>>

Mirror ==
    /\ up /\ snapshot = "mirror"
    /\ saved' = [saved EXCEPT !.files = {i \in Identity : files[i] # 0}]
    /\ snapshot' = "mirrored"
    /\ UNCHANGED <<up, world, store, threads, events, removed>>

Resume ==
    /\ up /\ snapshot = "mirrored"
    /\ snapshot' = "idle"
    /\ saved' = NoCopy
    /\ UNCHANGED <<up, world, store, threads, events, removed>>
------------------------------------------------------------------------------
Crash ==
    /\ up /\ Event
    /\ up' = FALSE
    /\ slot' = FALSE /\ batch' = {}
    /\ worker' = Resting /\ reactor' = Free
    /\ snapshot' = "idle" /\ saved' = NoCopy
    /\ UNCHANGED <<world, store, removed>>

\* prune_gallery_orphans, before anything else runs; the code may be another, with
\* other monster species.  Jobs of species that are gone stay: they still parse.
Start ==
    /\ ~up
    /\ up' = TRUE
    /\ format' \in Format /\ retired' \in SUBSET Monster
    /\ Removed({i \in Image \X Format : i \notin Referenced})
    /\ record' = [j \in Job |-> IF j \in Image /\ record[j].status = "done"
                                THEN [record[j] EXCEPT !.status = "gone"] ELSE record[j]]
    /\ UNCHANGED <<cards, threads, saving, events, removed>>
------------------------------------------------------------------------------
DrainTick == \E E \in SUBSET Job : Drain(E)
LeaseEnds(j) == \E E \in SUBSET Job : j \in E /\ Drain(E)
Claims == \E j \in Job : Claim(j)

Reactor ==
    \/ \E s \in Scene : Ensure(s) \/ Requeue(s)
    \/ \E s \in Subject : ReadCards(s) \/ Request(s)
    \/ \E s \in Subject, i \in Identity : RemoveCard(s, i)
    \/ ReadJobs \/ Unlink \/ DrainTick \/ Claims \/ Stamp

Publication ==
    \/ Generate \/ GenerateFails \/ Stale \/ Replace \/ ReplaceFails
    \/ MarkDone \/ Commit \/ Cleanup
    \/ AppendCard \/ AppendRefused \/ UnlinkReplaced \/ FinishJob
    \/ Fail

Worker == Publication \/ ReleaseSlot \/ \E j \in Job, t \in Token : Take(j, t)

Snapshot == EnterGate \/ Backup \/ Mirror \/ Resume

Next == Reactor \/ Worker \/ Pause \/ Snapshot \/ Crash \/ Start

\* The reactor serves the scheduler between its other callbacks, every lease runs out,
\* threads run and a dead server is started.
Fairness ==
    /\ SF_vars(DrainTick) /\ \A j \in Job : SF_vars(LeaseEnds(j))
    /\ WF_vars(Claims) /\ WF_vars(Stamp)
    /\ WF_vars(ReadJobs) /\ WF_vars(Unlink)
    /\ WF_vars(Worker) /\ WF_vars(Snapshot) /\ WF_vars(Start)

Spec == Init /\ [][Next]_vars /\ Fairness
=============================================================================
