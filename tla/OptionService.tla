---------------------------- MODULE OptionService ----------------------------
(***************************************************************************)
(* The service that asks a language model for suggested actions and shows  *)
(* them to the sessions of an actor (server/option_proposal_service).  A   *)
(* situation is named by a fingerprint of the room, its people and what    *)
(* can be done there; one call to the model serves every session that      *)
(* watches it.  A session may dismiss what it was shown: from then on it   *)
(* must not be served by calls older than its dismissal, although other    *)
(* sessions still wait for them.                                           *)
(*                                                                         *)
(* The calls of one fingerprint are numbered; a call is named by its       *)
(* number and stands for the set it returns.  0 is "none" throughout.  A   *)
(* trigger with several watchers is as many triggers in a row.             *)
(***************************************************************************)
EXTENDS Naturals, FiniteSets

CONSTANTS
    Session,        \* web sessions
    Actor,          \* characters
    NoActor,        \* nobody is puppeted
    Situation,      \* fingerprints
    Nowhere,        \* no situation can be derived: combat, no room
    SharedPuppet,   \* two windows may show one character (MULTISESSION_MODE)
    MaxGeneration,  \* bound: calls per fingerprint
    MaxToken,       \* bound: generation token of a session
    MaxEpoch        \* bound: presentation sequences of a session

ASSUME SentinelAssumption == NoActor \notin Actor /\ Nowhere \notin Situation
ASSUME BoundAssumption ==
    /\ SharedPuppet \in BOOLEAN
    /\ MaxGeneration \in Nat /\ MaxToken \in Nat /\ MaxEpoch \in Nat

VARIABLES
    place,       \* the situation each actor is in
    puppet,      \* the actor each session plays
    epoch,       \* the presentation sequence of each session
    options,     \* session.ndb.options_state
    barrier,     \* session.ndb.options_barriers: oldest number it may be shown
    cache,       \* number of the cached set
    memo,        \* fingerprints whose transport failed a short while ago
    counter,     \* numbers given out
    generation,  \* the calls themselves
    pending,     \* _pending: the call that can be joined
    chain        \* _chains

session == <<puppet, epoch>>
stores  == <<cache, memo>>
calls   == <<counter, generation, pending, chain>>
vars    == <<place, session, options, barrier, stores, calls>>

Number == 1..MaxGeneration

NoOptions == [owner |-> NoActor, fingerprint |-> Nowhere, status |-> "none", token |-> 0, shown |-> 0]
Options(a, f, status, token, shown) ==
    [owner |-> a, fingerprint |-> f, status |-> status, token |-> token, shown |-> shown]

Subscriber(s, token) == [session |-> s, token |-> token, epoch |-> epoch[s]]

NoGeneration == [phase |-> "unborn", actor |-> NoActor, retired |-> FALSE, subscribers |-> {}]
NewGeneration(phase, a, subscribers) ==
    [phase |-> phase, actor |-> a, retired |-> FALSE, subscribers |-> subscribers]

\* A call that has settled is no longer referenced by anything.
Settled == [NoGeneration EXCEPT !.phase = "settled"]

NoChain == [active |-> 0, successor |-> 0, detached |-> 0]

Init ==
    /\ place \in [Actor -> Situation]
    /\ puppet = [s \in Session |-> NoActor]
    /\ epoch = [s \in Session |-> 0]
    /\ options = [s \in Session |-> NoOptions]
    /\ barrier = [s \in Session |-> [f \in Situation |-> 0]]
    /\ cache = [f \in Situation |-> 0]
    /\ memo = {}
    /\ counter = [f \in Situation |-> 0]
    /\ generation = [f \in Situation |-> [n \in Number |-> NoGeneration]]
    /\ pending = [f \in Situation |-> 0]
    /\ chain = [f \in Situation |-> NoChain]
------------------------------------------------------------------------------
(* The world around the service.                                           *)

\* The actor walks, fights, or the room changes around it.
Move(a, f) ==
    /\ f # place[a]
    /\ place' = [place EXCEPT ![a] = f]
    /\ UNCHANGED <<session, options, barrier, stores, calls>>

\* _coordinator_for and reset_client_sequence: leaving a character, for another or
\* for none, is a new sequence, and what the old one was shown is forgotten.
ChangePuppetKeepsOptions(s, a) ==
    /\ a # puppet[s]
    /\ ~SharedPuppet /\ a # NoActor => \A t \in Session : puppet[t] # a
    /\ puppet[s] # NoActor => epoch[s] < MaxEpoch
    /\ puppet' = [puppet EXCEPT ![s] = a]
    /\ epoch' = [epoch EXCEPT ![s] = IF puppet[s] = NoActor THEN @ ELSE @ + 1]
    /\ barrier' = [barrier EXCEPT ![s] = [f \in Situation |-> 0]]
    /\ UNCHANGED <<place, options, stores, calls>>
ChangePuppet(s, a) ==
    /\ a # puppet[s]
    /\ ~SharedPuppet /\ a # NoActor => \A t \in Session : puppet[t] # a
    /\ puppet[s] # NoActor => epoch[s] < MaxEpoch
    /\ puppet' = [puppet EXCEPT ![s] = a]
    /\ epoch' = [epoch EXCEPT ![s] = IF puppet[s] = NoActor THEN @ ELSE @ + 1]
    /\ options' = [options EXCEPT ![s] = NoOptions]
    /\ barrier' = [barrier EXCEPT ![s] = [f \in Situation |-> 0]]
    /\ UNCHANGED <<place, stores, calls>>

\* NEGATIVE_MEMO_TTL has passed (_memo_live, _memo_put).
MemoExpires(f) ==
    /\ f \in memo
    /\ memo' = memo \ {f}
    /\ UNCHANGED <<place, session, options, barrier, cache, calls>>

\* Other fingerprints push this one out of the bounded cache (_cache_put).
CachePressure(f) ==
    /\ cache[f] # 0
    /\ cache' = [cache EXCEPT ![f] = 0]
    /\ UNCHANGED <<place, session, options, barrier, memo, calls>>
------------------------------------------------------------------------------
(* _handle_session_trigger: session s watches its actor, now in f.  Of two *)
(* decisions the earlier one in the code wins.                             *)

Watches(s, f) == puppet[s] # NoActor /\ place[puppet[s]] = f

Own(s) == IF options[s].owner = puppet[s] THEN options[s] ELSE NoOptions

\* A display that is still good is shown again; nothing changes.
Republishes(s, f) ==
    /\ Own(s).fingerprint = f
    /\ \/ Own(s).status = "ready" /\ barrier[s][f] = 0
       \/ Own(s).status = "degraded" /\ f \in memo

Replays(s, f) == cache[f] # 0 /\ cache[f] >= barrier[s][f]

Subscribed(s, f, n) == n # 0 /\ \E sub \in generation[f][n].subscribers : sub.session = s

JoinableAnyRunning(s, f) == pending[f] # 0 /\ ~generation[f][pending[f]].retired
Joinable(s, f) ==
    /\ pending[f] # 0
    /\ ~generation[f][pending[f]].retired
    /\ pending[f] >= barrier[s][f]

\* A call runs that started before the session's dismissal.
BelowBarrier(s, f) ==
    /\ pending[f] # 0
    /\ ~generation[f][pending[f]].retired
    /\ pending[f] < barrier[s][f]

Waits(s, f) ==
    /\ Own(s).fingerprint = f /\ Own(s).status = "generating"
    /\ \/ Joinable(s, f) /\ Subscribed(s, f, pending[f])
       \/ Subscribed(s, f, chain[f].successor)

Asks(s, f) ==
    /\ Watches(s, f)
    /\ ~Republishes(s, f)
    /\ f \notin memo
    /\ ~Replays(s, f)
    /\ ~Waits(s, f)
    /\ Own(s).token < MaxToken

Show(s, f, status, shown) ==
    options' = [options EXCEPT ![s] = Options(puppet[s], f, status, Own(s).token + 1, shown)]

\* The transport failed a moment ago: the rule cards, without another call.
TriggerInMemo(s, f) ==
    /\ Watches(s, f)
    /\ ~Republishes(s, f)
    /\ f \in memo
    /\ Own(s).token < MaxToken
    /\ Show(s, f, "degraded", 0)
    /\ UNCHANGED <<place, session, barrier, stores, calls>>

\* The cached set is new enough for this session.
TriggerReplays(s, f) ==
    /\ Watches(s, f)
    /\ ~Republishes(s, f)
    /\ f \notin memo
    /\ Replays(s, f)
    /\ Own(s).token < MaxToken
    /\ Show(s, f, "ready", cache[f])
    /\ barrier' = [barrier EXCEPT ![s][f] = 0]
    /\ UNCHANGED <<place, session, stores, calls>>

\* The queued successor is itself older than a second dismissal.
Barred(s, f) == chain[f].successor # 0 /\ chain[f].successor < barrier[s][f]
TriggerBarred(s, f) ==
    /\ Asks(s, f)
    /\ Barred(s, f)
    /\ Show(s, f, "degraded", 0)
    /\ UNCHANGED <<place, session, barrier, stores, calls>>

Subscribe(s, f, n) ==
    generation' = [generation EXCEPT ![f][n].subscribers = @ \union {Subscriber(s, Own(s).token + 1)}]

TriggerJoins(s, f) ==
    /\ Asks(s, f) /\ ~Barred(s, f)
    /\ Show(s, f, "generating", 0)
    /\ \/ Joinable(s, f) /\ Subscribe(s, f, pending[f])
       \/ /\ ~Joinable(s, f) /\ chain[f].successor # 0
          /\ Subscribe(s, f, chain[f].successor)
    /\ UNCHANGED <<place, session, barrier, stores, counter, pending, chain>>

\* The running call is too old for this session but others wait for it: a
\* successor is queued behind it.
TriggerQueues(s, f) ==
    /\ Asks(s, f) /\ ~Barred(s, f)
    /\ ~Joinable(s, f) /\ chain[f].successor = 0
    /\ BelowBarrier(s, f)
    /\ counter[f] < MaxGeneration
    /\ Show(s, f, "generating", 0)
    /\ LET n == counter[f] + 1 IN
       /\ counter' = [counter EXCEPT ![f] = n]
       /\ generation' = [generation EXCEPT ![f][n] =
             NewGeneration("queued", puppet[s], {Subscriber(s, Own(s).token + 1)})]
       /\ chain' = [chain EXCEPT ![f].successor = n]
    /\ UNCHANGED <<place, session, barrier, stores, pending>>

Starts(s, f) ==
    /\ Asks(s, f) /\ ~Barred(s, f)
    /\ ~Joinable(s, f) /\ chain[f].successor = 0
    /\ ~BelowBarrier(s, f)
    /\ counter[f] < MaxGeneration

\* schedule_action_options: nobody works on this situation, so a call starts.
TriggerStarts(s, f) ==
    /\ Starts(s, f)
    /\ Show(s, f, "generating", 0)
    /\ LET n == counter[f] + 1 IN
       /\ counter' = [counter EXCEPT ![f] = n]
       /\ generation' = [generation EXCEPT ![f][n] =
             NewGeneration("running", puppet[s], {Subscriber(s, Own(s).token + 1)})]
       /\ pending' = [pending EXCEPT ![f] = n]
       /\ chain' = [chain EXCEPT ![f].active = n]
    /\ UNCHANGED <<place, session, barrier, stores>>

\* ... or its context or client cannot be built, and the session is told so.
TriggerStartFails(s, f) ==
    /\ Starts(s, f)
    /\ Show(s, f, "degraded", 0)
    /\ counter' = [counter EXCEPT ![f] = @ + 1]
    /\ generation' = [generation EXCEPT ![f][counter[f] + 1] = Settled]
    /\ barrier' = [barrier EXCEPT ![s][f] = 0]
    /\ UNCHANGED <<place, session, stores, pending, chain>>
------------------------------------------------------------------------------
(* A call settles: its outcome is delivered, then the chain moves on.      *)

\* _deliver: only to a session that still waits for exactly this.
Receives(g, s) ==
    /\ options[s].owner = g.actor
    /\ \E sub \in g.subscribers : sub.session = s /\ sub.token = options[s].token

Delivered(o, g, f, status, shown) ==
    [s \in Session |->
        IF Receives(g, s) THEN Options(g.actor, f, status, o[s].token, shown) ELSE o[s]]

Cleared(g, f) ==
    [s \in Session |-> IF Receives(g, s) THEN [barrier[s] EXCEPT ![f] = 0] ELSE barrier[s]]

\* _settle_active: who owns the chain afterwards, and whether the successor is due.
IsActive(f, n)   == chain[f].active = n
IsDetached(f, n) == chain[f].detached = n
HandsOverActiveOnly(f, n) == chain[f].successor # 0 /\ IsActive(f, n)
HandsOver(f, n) ==
    /\ chain[f].successor # 0
    /\ IsActive(f, n) \/ (IsDetached(f, n) /\ chain[f].active = 0)

\* _start_successor: only if its actor is still there and nothing fails.
SuccessorActor(f) == generation[f][chain[f].successor].actor

HandedKeepsDetached(f, n, starts) ==
    [active    |-> IF HandsOver(f, n) /\ starts THEN chain[f].successor
                   ELSE IF IsActive(f, n) THEN 0 ELSE chain[f].active,
     successor |-> IF HandsOver(f, n) THEN 0 ELSE chain[f].successor,
     detached  |-> chain[f].detached]
Handed(f, n, starts) ==
    [active    |-> IF HandsOver(f, n) /\ starts THEN chain[f].successor
                   ELSE IF IsActive(f, n) THEN 0 ELSE chain[f].active,
     successor |-> IF HandsOver(f, n) THEN 0 ELSE chain[f].successor,
     detached  |-> IF IsDetached(f, n) THEN 0 ELSE chain[f].detached]

\* A successor that cannot start tells its watchers so, barriers standing.
DroppedSilently(f, o) == o
Dropped(f, o) == Delivered(o, generation[f][chain[f].successor], f, "degraded", 0)

Settle(f, n, starts, o) ==
    LET next == chain[f].successor
        over == HandsOver(f, n)
    IN
    /\ starts => over /\ place[SuccessorActor(f)] = f
    /\ chain' = [chain EXCEPT ![f] = Handed(f, n, starts)]
    /\ pending' = [pending EXCEPT ![f] = IF starts THEN next ELSE IF @ = n THEN 0 ELSE @]
    /\ generation' = [generation EXCEPT ![f] =
          [m \in Number |->
             IF m = n \/ (over /\ ~starts /\ m = next) THEN Settled
             ELSE IF starts /\ m = next THEN [@[m] EXCEPT !.phase = "running"]
             ELSE @[m]]]
    /\ options' = IF over /\ ~starts THEN Dropped(f, o) ELSE o

\* _complete_ready: the set is cached and shown.
CompleteReady(f, n, starts) ==
    LET g == generation[f][n] IN
    /\ g.phase = "running" /\ ~g.retired
    /\ cache' = IF cache[f] > n THEN cache ELSE [cache EXCEPT ![f] = n]
    /\ barrier' = Cleared(g, f)
    /\ Settle(f, n, starts, Delivered(options, g, f, "ready", n))
    /\ UNCHANGED <<place, session, memo, counter>>

\* _complete_degraded: remembered for a while when the transport failed.
CompleteDegraded(f, n, starts) ==
    LET g == generation[f][n] IN
    /\ g.phase = "running" /\ ~g.retired
    /\ memo' \in {memo, memo \union {f}}
    /\ barrier' = Cleared(g, f)
    /\ Settle(f, n, starts, Delivered(options, g, f, "degraded", 0))
    /\ UNCHANGED <<place, session, cache, counter>>

\* A call nobody waits for any more writes nothing, but its successor may start.
CompleteRetired(f, n, starts) ==
    /\ generation[f][n].phase = "running" /\ generation[f][n].retired
    /\ Settle(f, n, starts, options)
    /\ UNCHANGED <<place, session, barrier, stores, counter>>

Complete(f, n) ==
    \E starts \in BOOLEAN :
        CompleteReady(f, n, starts) \/ CompleteDegraded(f, n, starts) \/ CompleteRetired(f, n, starts)
------------------------------------------------------------------------------
(* evict: the player dismisses what is shown, or awaited.                  *)

Unsubscribed(g, s) ==
    [g EXCEPT !.subscribers = {sub \in @ : sub.session # s}]

Minimum(f) == counter[f] + 1

\* A call whose last subscriber left may only wake its successor.
DetachedAfter(f, retires) ==
    IF retires /\ chain[f].active = pending[f] THEN pending[f] ELSE chain[f].detached

\* The fingerprint loses its cached set and its memo; the session leaves the
\* running call and the queued one; either may lose its last subscriber.
Forget(s, f) ==
    LET n == pending[f]
        next == chain[f].successor
        left == IF n = 0 THEN {} ELSE Unsubscribed(generation[f][n], s).subscribers
        nextLeft == IF next = 0 THEN {} ELSE Unsubscribed(generation[f][next], s).subscribers
        retires == n # 0 /\ left = {}
    IN
    /\ cache' = [cache EXCEPT ![f] = 0]
    /\ memo' = memo \ {f}
    /\ generation' = [generation EXCEPT ![f] =
          [m \in Number |->
             IF m = n THEN [@[m] EXCEPT !.subscribers = left, !.retired = retires]
             ELSE IF m = next
                  THEN IF nextLeft = {} THEN Settled ELSE [@[m] EXCEPT !.subscribers = nextLeft]
             ELSE @[m]]]
    /\ pending' = [pending EXCEPT ![f] = IF retires THEN 0 ELSE @]
    /\ chain' = [chain EXCEPT ![f] =
          [active    |-> IF retires /\ @.active = n THEN 0 ELSE @.active,
           successor |-> IF nextLeft = {} THEN 0 ELSE @.successor,
           detached  |-> DetachedAfter(f, retires)]]
    /\ barrier' = [barrier EXCEPT ![s][f] = Minimum(f)]

Dismiss(s) ==
    /\ puppet[s] # NoActor
    /\ options[s].token < MaxToken
    /\ options' = [options EXCEPT ![s] = Options(puppet[s], Nowhere, "unavailable", @.token + 1, 0)]
    /\ IF options[s].fingerprint = Nowhere
       THEN UNCHANGED <<barrier, stores, generation, pending, chain>>
       ELSE Forget(s, options[s].fingerprint)
    /\ UNCHANGED <<place, session, counter>>
------------------------------------------------------------------------------
Trigger(s) ==
    \E f \in Situation :
        \/ TriggerInMemo(s, f) \/ TriggerReplays(s, f) \/ TriggerBarred(s, f)
        \/ TriggerJoins(s, f) \/ TriggerQueues(s, f)
        \/ TriggerStarts(s, f) \/ TriggerStartFails(s, f)

Next ==
    \/ \E a \in Actor, f \in Situation \union {Nowhere} : Move(a, f)
    \/ \E s \in Session, a \in Actor \union {NoActor} : ChangePuppet(s, a)
    \/ \E f \in Situation : MemoExpires(f) \/ CachePressure(f)
    \/ \E s \in Session : Trigger(s) \/ Dismiss(s)
    \/ \E f \in Situation, n \in Number : Complete(f, n)

Spec == Init /\ [][Next]_vars
==============================================================================
