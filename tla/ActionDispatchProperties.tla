---------------------- MODULE ActionDispatchProperties ----------------------
(* What the dispatcher promises of requests, answers and changes of puppet. *)
EXTENDS ActionDispatch

\* A request that is sent again, raced by a change of puppet or left without
\* its answer runs its adapter once, unless the cache has given its result up
\* (dispatcher.py, handle_ui_action and _completion_failed).
ExecutedOnce == \A r \in Request \ evicted : runs[r] <= 1

\* Whatever a request is told of its result, at once, after a failure or by a
\* replay, is one result, in the sequence it ran in (dispatcher.py,
\* _completion_failed: "must never manufacture a contradictory outcome").
AnswersAgree ==
    \A a, b \in said :
      a.id = b.id /\ a.id \notin evicted =>
        /\ a.epoch = b.epoch
        /\ a.as = b.as \/ "lost" \in {a.as, b.as}

\* The work of this sequence that has not settled.
Unsettled ==
    Cardinality({a \in running : a.epoch = epoch})
    + Cardinality({i \in DOMAIN queue : queue[i].origin \in Admitted})

\* The marker is taken exactly while one admitted request of this sequence is
\* running or waits for its answer: no late Deferred of a retired sequence
\* frees it, and no failure keeps it (dispatcher.py, _settle_in_flight).
OneAtATime ==
    /\ marker \in {NoEpoch, epoch}
    /\ Unsettled = IF marker = NoEpoch THEN 0 ELSE 1

\* A change of puppet takes its sequence away only after the request that asked
\* for it was answered, and no second change was admitted behind it
\* (account_actions.py, "At Most One Scheduled Transition Per Session").
SwitchAnswered ==
    [][Attach =>
         /\ \E a \in said : a.id = Head(due).asker
         /\ \A i \in DOMAIN due \ {1} : ~Transition(due[i])]_vars

\* A sequence does not stay busy: its request settles or the sequence ends
\* (dispatcher.py, _publish_with_result).
BusyEnds == []<>(marker = NoEpoch)
=============================================================================
