----------------------- MODULE OptionServiceProperties -----------------------
(***************************************************************************)
(* What the suggestion service promises its sessions.                      *)
(***************************************************************************)
EXTENDS OptionService

Numbers == 0..MaxGeneration
OptionsType ==
    [owner : Actor \union {NoActor}, fingerprint : Situation \union {Nowhere},
     status : {"none", "generating", "ready", "degraded", "unavailable"},
     token : 0..MaxToken, shown : Numbers]
SubscriberType == [session : Session, token : 1..MaxToken, epoch : 0..MaxEpoch]
GenerationType ==
    [phase : {"unborn", "queued", "running", "settled"}, actor : Actor \union {NoActor},
     retired : BOOLEAN, subscribers : SUBSET SubscriberType]

TypeOK ==
    /\ place \in [Actor -> Situation \union {Nowhere}]
    /\ puppet \in [Session -> Actor \union {NoActor}]
    /\ epoch \in [Session -> 0..MaxEpoch]
    /\ options \in [Session -> OptionsType]
    /\ barrier \in [Session -> [Situation -> 0..(MaxGeneration + 1)]]
    /\ cache \in [Situation -> Numbers]
    /\ memo \in SUBSET Situation
    /\ counter \in [Situation -> Numbers]
    /\ generation \in [Situation -> [Number -> GenerationType]]
    /\ pending \in [Situation -> Numbers]
    /\ chain \in [Situation -> [active : Numbers, successor : Numbers, detached : Numbers]]

Working(f, n) == generation[f][n].phase = "running" /\ ~generation[f][n].retired

\* However sessions come, dismiss and come back, one situation costs one call to
\* the model at a time: whatever still runs beside it is retired and mute
\* (trigger.py below_barrier, lifecycle.py _settle_active).
OneCallAtATime ==
    \A f \in Situation : \A m, n \in Number : Working(f, m) /\ Working(f, n) => m = n

\* The three books agree: what can be joined is what the chain calls active and is
\* the only call at work, what is queued is what the chain calls its successor and
\* has somebody to start it, and a detached call still runs (state.py _pending and
\* _chains, lifecycle.py _settle_active, scheduling.py evict).
Books(f) ==
    /\ pending[f] = chain[f].active
    /\ \A n \in Number : Working(f, n) <=> n = chain[f].active
    /\ \A n \in Number : generation[f][n].phase = "queued" <=> n = chain[f].successor
    /\ \A n \in Number : generation[f][n].phase = "queued" => ~generation[f][n].retired
    /\ chain[f].detached # 0 => generation[f][chain[f].detached].phase = "running"
    /\ chain[f].successor # 0 => chain[f].active # 0 \/ chain[f].detached # 0
    /\ \A n \in Number : n > counter[f] => generation[f][n].phase = "unborn"
BooksAgree == \A f \in Situation : Books(f)

\* A queued successor is never forgotten: the call whose end starts it is still
\* running, also after its last subscriber dismissed it and a newer one took the
\* chain (lifecycle.py _settle_active, scheduling.py evict).
SuccessorHasPredecessor ==
    \A f \in Situation :
        LET c == chain[f] IN
        c.successor # 0 =>
            /\ generation[f][c.successor].phase = "queued"
            /\ \E n \in {c.active, c.detached} \ {0} : generation[f][n].phase = "running"

\* A session that shows "generating" is waiting for something that will come: a
\* call for its actor, running or queued, still has it among its subscribers.
GeneratingIsAwaited ==
    \A s \in Session :
        options[s].status = "generating" =>
            \E n \in Number :
                LET g == generation[options[s].fingerprint][n] IN
                /\ g.phase \in {"queued", "running"} /\ ~g.retired
                /\ Receives(g, s)

\* What a session dismissed does not come back while its barrier stands, on any
\* path: nothing older is replayed, joined or delivered ("by construction",
\* lifecycle.py _deliver).
BarrierHolds ==
    [][\A s \in Session, f \in Situation :
          options'[s] # options[s] /\ options'[s].status = "ready" /\ options'[s].fingerprint = f
          => options'[s].shown >= barrier[s][f]]_vars

\* A session never keeps, nor is given later by a call still running, what was
\* meant for the character it played before (ingress.py _coordinator_for).
ShownToItsOwner ==
    \A s \in Session : options[s].status # "none" => options[s].owner = puppet[s]

\* Calls end: the client has a time limit.  Nothing obliges players.
LiveSpec == Spec /\ \A f \in Situation, n \in Number : WF_vars(Complete(f, n))

\* No session shows "generating" for ever while it stays where it is.
GeneratingEnds ==
    \A s \in Session : options[s].status = "generating" ~> options[s].status # "generating"
==============================================================================
