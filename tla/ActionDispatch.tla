--------------------------- MODULE ActionDispatch ---------------------------
(***************************************************************************)
(* The dispatch of graphical actions in one web session                    *)
(* (web/webclient/actions/dispatcher.py) and the change of puppet an       *)
(* action may schedule (account_actions.py).  A request is replayed,       *)
(* refused or admitted; the one admitted holds the sequence's in-flight    *)
(* marker until its answer has left through the publication coordinator,   *)
(* which is here the queue of the answers: what it publishes with them is  *)
(* module Coordinator.                                                     *)
(*                                                                         *)
(* Everything runs on the reactor.  `due` holds what was scheduled with    *)
(* callLater(0): drains of the queue and changes of puppet.                *)
(***************************************************************************)
EXTENDS Naturals, SequencesExt

CONSTANTS
    Request,     \* request ids
    Character,   \* the account's characters
    First,       \* the one the session plays at first
    None,        \* no character, no sequence, no request
    Capacity,    \* CACHE_CAPACITY: the results a sequence keeps for replay
    MaxEpoch,    \* bound: presentation sequences
    MaxStale     \* bound: stale answers in the queue

ASSUME DispatchAssumption ==
    /\ First \in Character /\ None \notin Character \cup Request
    /\ Capacity \in Nat \ {0} /\ MaxEpoch \in Nat \ {0}
    /\ MaxStale \in Nat

Epoch == 1..MaxEpoch
NoEpoch == 0

\* The outcomes of an adapter: `done` stands for success and for its own rejections.
Outcome == {"done", "error"}

\* Why an answer is in the queue: `result` follows an adapter, `recovery` an
\* adapter that raised, `answer` a publication that failed; the two stale ones
\* belong to requests that were not admitted.
Admitted == {"result", "recovery", "answer"}
Origin == Admitted \cup {"stale", "staleAnswer"}

VARIABLES
    puppet,      \* session.puppet
    epoch,       \* the coordinator's epoch
    marker,      \* SequenceState.in_flight: the epoch it was taken in, or NoEpoch
    cache,       \* SequenceState.cache, oldest result first
    running,     \* adapters whose Deferred has not fired
    queue,       \* the coordinator's pending answers
    scheduled,   \* its _drain_scheduled
    draining,    \* its _draining
    due,         \* what the reactor runs next, in order
    transition,  \* ndb.elosern_char_transition_pending
    \* What happened, for the properties:
    named,       \* the epoch each request names, NoEpoch before it is first sent
    runs,        \* how often its adapter ran; 2 stands for more
    evicted,     \* requests whose result the cache gave up
    said         \* the results sent, or lost at the transport

dispatch == <<marker, cache, running, evicted, runs>>
coordinator == <<queue, scheduled, draining>>
session == <<puppet, epoch, transition>>
vars == <<dispatch, coordinator, session, due, named, said>>

Drain == [asker |-> None, from |-> None, to |-> None]
Transition(c) == c # Drain

Init ==
    /\ puppet = First /\ epoch = 1
    /\ marker = NoEpoch /\ cache = <<>> /\ running = {}
    /\ queue = <<>> /\ scheduled = FALSE /\ draining = FALSE
    /\ due = <<>> /\ transition = FALSE
    /\ named = [r \in Request |-> NoEpoch]
    /\ runs = [r \in Request |-> 0]
    /\ evicted = {} /\ said = {}

(***************************************************************************)
(* The parts of the handlers.                                              *)
(***************************************************************************)
Cached(r) == \E i \in DOMAIN cache : cache[i].id = r
ResultOf(r) == (CHOOSE i \in DOMAIN cache : cache[i].id = r)

\* The newest result of a request replaces an older one; the oldest is given up.
CacheResult(r, outcome) ==
    LET others == IF Cached(r) THEN RemoveAt(cache, ResultOf(r)) ELSE cache
        all == Append(others, [id |-> r, outcome |-> outcome])
    IN  IF Len(all) > Capacity
        THEN /\ cache' = Tail(all)
             /\ evicted' = evicted \cup {Head(all).id}
        ELSE cache' = all /\ evicted' = evicted

SettleAny(e) == marker' = NoEpoch

\* The marker is given up only for the sequence that took it.
Settle(e) == marker' = IF marker = e THEN NoEpoch ELSE marker

Sent(r, as) == said' = said \cup {[id |-> r, epoch |-> epoch, as |-> as]}

Entry(r, outcome, origin) == [id |-> r, outcome |-> outcome, origin |-> origin]

\* What answers a request whose publication failed: nothing is published with it.
Instead(r, origin) ==
    IF origin = "stale" THEN Entry(r, "stale", "staleAnswer") ELSE Entry(r, "error", "answer")

\* The queue holds one more answer, and a drain is due.
Enqueue(rest, entry) ==
    /\ queue' = Append(rest, entry)
    /\ scheduled' = TRUE
    /\ due' = IF scheduled THEN due ELSE Append(due, Drain)

\* An answer with a publication is refused by a full queue; one that is a
\* result only never is.
Offer(r, outcome, origin, full) ==
    Enqueue(queue, IF full THEN Instead(r, origin) ELSE Entry(r, outcome, origin))

\* retire_sequence and the coordinator's reset: the waiters learn that nothing
\* was sent, and their settling no longer finds a marker of their own.  A
\* drain that was due stays due.
Retire(sequences) ==
    /\ epoch + sequences \in Epoch
    /\ epoch' = epoch + sequences
    /\ marker' = NoEpoch /\ cache' = <<>>
    /\ queue' = <<>> /\ scheduled' = FALSE

(***************************************************************************)
(* handle_ui_action.  A request keeps the epoch the browser gave it when   *)
(* it was first sent; whether its base revision is still the newest is     *)
(* left open.                                                              *)
(***************************************************************************)
Arrives(r, e) ==
    /\ ~draining
    /\ e = IF named[r] = NoEpoch THEN epoch ELSE named[r]
    /\ named' = [named EXCEPT ![r] = e]

Replay(r, e) ==
    /\ Arrives(r, e) /\ puppet # None
    /\ Cached(r)
    /\ Sent(r, cache[ResultOf(r)].outcome)
    /\ UNCHANGED <<dispatch, coordinator, session, due>>

\* No puppet, an unknown action, a malformed payload, or another request in
\* flight: answered at once, and not cached.
Refuse(r, e) ==
    /\ Arrives(r, e)
    /\ puppet # None => ~Cached(r) /\ e = epoch
    /\ UNCHANGED <<dispatch, coordinator, session, due, said>>

SendStale(r, e) ==
    /\ Arrives(r, e) /\ puppet # None
    /\ ~Cached(r)
    /\ Cardinality({i \in DOMAIN queue : queue[i].outcome = "stale"}) < MaxStale
    /\ \E full \in BOOLEAN : Offer(r, "stale", "stale", full)
    /\ UNCHANGED <<dispatch, session, draining, said>>

Admissible(r, e) ==
    /\ Arrives(r, e) /\ puppet # None
    /\ ~Cached(r) /\ e = epoch
    /\ marker = NoEpoch

Ran(r) == runs' = [runs EXCEPT ![r] = IF @ = 0 THEN 1 ELSE 2]

\* The adapter returns its result.  A full queue refuses it: the error that
\* answers instead is cached before it is sent.
AdmitSync(r, e) ==
    /\ Admissible(r, e) /\ Ran(r)
    /\ marker' = epoch
    /\ \E outcome \in Outcome, full \in BOOLEAN :
         /\ Offer(r, outcome, "result", full)
         /\ IF full THEN CacheResult(r, "error") ELSE UNCHANGED <<cache, evicted>>
    /\ UNCHANGED <<running, session, draining, said>>

AdmitDeferred(r, e) ==
    /\ Admissible(r, e) /\ Ran(r)
    /\ marker' = epoch
    /\ running' = running \cup {[id |-> r, epoch |-> epoch]}
    /\ UNCHANGED <<cache, evicted, coordinator, session, due, said>>

\* The adapter raises: the recovery's result is cached before it is sent.
AdmitRaises(r, e) ==
    /\ Admissible(r, e) /\ Ran(r)
    /\ marker' = epoch
    /\ CacheResult(r, "error")
    /\ \E full \in BOOLEAN : Offer(r, "error", "recovery", full)
    /\ UNCHANGED <<running, session, draining, said>>

FlushLater(r) ==
    /\ queue' = Append(queue, Entry(r, "done", "result"))
    /\ marker' = epoch
    /\ scheduled' = TRUE
    /\ UNCHANGED <<cache, evicted, said>>

\* A result that publishes nothing is flushed at once, past everything queued,
\* and its marker is given up; its drain stays due.
Flush(r) ==
    /\ \E as \in {"done", "lost"} : Sent(r, as)
    /\ CacheResult(r, "done")
    /\ marker' = NoEpoch
    /\ scheduled' = TRUE
    /\ UNCHANGED queue

AdmitQuiet(r, e) ==
    /\ Admissible(r, e) /\ Ran(r)
    /\ Flush(r)
    /\ due' = IF scheduled THEN due ELSE Append(due, Drain)
    /\ UNCHANGED <<running, session, draining>>

\* The adapters that change the puppet schedule it for the next turn and
\* answer at once.
AdmitTransition(r, e) ==
    /\ Admissible(r, e) /\ Ran(r)
    /\ ~transition
    /\ \E c \in Character \ {puppet} :
         LET asked == Append(due, [asker |-> r, from |-> puppet, to |-> c])
         IN  due' = IF scheduled THEN asked ELSE Append(asked, Drain)
    /\ transition' = TRUE
    /\ Flush(r)
    /\ UNCHANGED <<running, puppet, epoch, draining>>

HandleAction(r, e) ==
    \/ Replay(r, e) \/ Refuse(r, e) \/ SendStale(r, e)
    \/ AdmitSync(r, e) \/ AdmitDeferred(r, e) \/ AdmitRaises(r, e)
    \/ AdmitQuiet(r, e) \/ AdmitTransition(r, e)

\* The Deferred of an adapter fires: a sequence that was retired is told nothing.
AdapterCompletes(a) ==
    /\ ~draining
    /\ a \in running
    /\ running' = running \ {a}
    /\ IF marker = a.epoch /\ epoch = a.epoch
       THEN /\ \E outcome \in Outcome, full \in BOOLEAN :
              /\ Offer(a.id, outcome, "result", full)
              /\ IF full THEN CacheResult(a.id, "error") ELSE UNCHANGED <<cache, evicted>>
            /\ UNCHANGED marker
       ELSE Settle(a.epoch) /\ UNCHANGED <<cache, evicted, queue, scheduled, due>>
    /\ UNCHANGED <<runs, session, draining, named, said>>

(***************************************************************************)
(* The drain: one turn, one answer a step.                                 *)
(***************************************************************************)
StartDrain ==
    /\ ~draining /\ due # <<>> /\ ~Transition(Head(due))
    /\ due' = Tail(due)
    /\ scheduled' = FALSE
    /\ draining' = (queue # <<>>)
    /\ UNCHANGED <<dispatch, session, queue, named, said>>

ReleasedByResult(entry) == IF entry.origin = "result" THEN Settle(epoch) ELSE UNCHANGED marker

\* The marker is given up with the last answer of an admitted request.
Released(entry) == IF entry.origin \in Admitted THEN Settle(epoch) ELSE UNCHANGED marker

\* What is left to drain after an answer that had no successor.
DrainOn ==
    /\ queue' = Tail(queue)
    /\ draining' = (Tail(queue) # <<>>)
    /\ UNCHANGED <<scheduled, due>>

PublishedUncached ==
    LET entry == Head(queue)
    IN  /\ draining
        /\ \E lost \in BOOLEAN :
             /\ IF lost \/ entry.outcome = "stale" THEN UNCHANGED said ELSE Sent(entry.id, entry.outcome)
             /\ IF ~lost /\ entry.origin = "result" THEN CacheResult(entry.id, entry.outcome)
                ELSE UNCHANGED <<cache, evicted>>
        /\ Released(entry)
        /\ DrainOn
        /\ UNCHANGED <<running, runs, session, named>>

\* The frames and the result left, or the result alone was lost after them.
CompletionPublished ==
    LET entry == Head(queue)
    IN  /\ draining
        /\ IF entry.outcome = "stale" THEN UNCHANGED said
           ELSE \E as \in {entry.outcome, "lost"} : Sent(entry.id, as)
        /\ IF entry.origin = "result" THEN CacheResult(entry.id, entry.outcome)
           ELSE UNCHANGED <<cache, evicted>>
        /\ Released(entry)
        /\ DrainOn
        /\ UNCHANGED <<running, runs, session, named>>

FailedUncached ==
    /\ draining
    /\ Head(queue).origin \in {"result", "recovery", "stale"}
    /\ Enqueue(Tail(queue), Instead(Head(queue).id, Head(queue).origin))
    /\ UNCHANGED <<dispatch, session, draining, named, said>>

\* Nothing was sent: the request is answered without a publication, by an
\* error if it was admitted, in the same drain.  The drain a reentrant
\* enqueue schedules stays due.
CompletionFailed ==
    LET entry == Head(queue)
    IN  /\ draining
        /\ entry.origin \in {"result", "recovery", "stale"}
        /\ IF entry.origin = "result" THEN CacheResult(entry.id, "error")
           ELSE UNCHANGED <<cache, evicted>>
        /\ Enqueue(Tail(queue), Instead(entry.id, entry.origin))
        /\ UNCHANGED <<marker, running, runs, session, draining, named, said>>

(***************************************************************************)
(* The changes of puppet.                                                  *)
(***************************************************************************)
\* _perform_switch and _perform_create.  The puppet is no longer the one that
\* asked, the character is not the account's any more, or combat began:
\* nothing changes.
TransitionRefused ==
    /\ ~draining /\ due # <<>> /\ Transition(Head(due))
    /\ due' = Tail(due) /\ transition' = FALSE
    /\ UNCHANGED <<dispatch, coordinator, puppet, epoch, named, said>>

\* The sequence is retired before the attachment, which may leave the old
\* puppet or none; none is tried again with the old one, in one more sequence.
Attach ==
    LET t == Head(due)
    IN  /\ ~draining /\ due # <<>> /\ Transition(t)
        /\ puppet = t.from
        /\ due' = Tail(due) /\ transition' = FALSE
        /\ \/ Retire(1) /\ puppet' \in {t.to, t.from}
           \/ Retire(2) /\ puppet' \in {t.from, None}
        /\ UNCHANGED <<running, runs, evicted, draining, named, said>>

\* The text commands: into a character, which starts a sequence if another was
\* played, and out of it.
ChangePuppet(c) ==
    /\ ~draining
    /\ c # puppet
    /\ puppet' = c
    /\ IF puppet = None
       THEN UNCHANGED <<epoch, marker, cache, queue, scheduled>>
       ELSE Retire(1)
    /\ UNCHANGED <<running, runs, evicted, draining, transition, due, named, said>>

ReactorTurn ==
    StartDrain \/ CompletionPublished \/ CompletionFailed \/ TransitionRefused \/ Attach

Next ==
    \/ \E r \in Request, e \in Epoch : HandleAction(r, e)
    \/ \E a \in running : AdapterCompletes(a)
    \/ ReactorTurn
    \/ \E c \in Character \cup {None} : ChangePuppet(c)

\* The reactor runs what is due, and every adapter's Deferred fires: strongly,
\* for a drain is one turn of the reactor and several steps here, and firing
\* only waits for its end.
Fairness ==
    /\ WF_vars(ReactorTurn)
    /\ SF_vars(\E a \in running : AdapterCompletes(a))

Spec == Init /\ [][Next]_vars /\ Fairness
=============================================================================
