------------------------- MODULE OptionServiceProofs -------------------------
(***************************************************************************)
(* Proofs about the suggestion service, for any number of sessions,        *)
(* characters, situations and calls.                                       *)
(***************************************************************************)
EXTENDS OptionServiceProperties, TLAPS

USE BoundAssumption

LEMMA OptionsTyped ==
    ASSUME NEW a \in Actor \union {NoActor}, NEW f \in Situation \union {Nowhere},
           NEW status \in {"none", "generating", "ready", "degraded", "unavailable"},
           NEW token \in 0..MaxToken, NEW shown \in Numbers
    PROVE  Options(a, f, status, token, shown) \in OptionsType
BY DEF Options, OptionsType

LEMMA OwnTyped ==
    ASSUME TypeOK, NEW s \in Session
    PROVE  Own(s) \in OptionsType
<1>1. NoOptions \in OptionsType
    BY DEF NoOptions, OptionsType, Numbers
<1>2. options[s] \in OptionsType
    BY DEF TypeOK
<1> QED BY <1>1, <1>2 DEF Own

\* Showing a session something leaves its record well formed, its token bounded.
LEMMA ShowTyped ==
    ASSUME TypeOK, NEW s \in Session, NEW f \in Situation,
           NEW status \in {"generating", "ready", "degraded"}, NEW shown \in Numbers,
           Own(s).token < MaxToken, Show(s, f, status, shown)
    PROVE  /\ options' \in [Session -> OptionsType]
           /\ Own(s).token + 1 \in 1..MaxToken
<1>1. Own(s).token \in 0..MaxToken
    BY OwnTyped DEF OptionsType
<1>2. Own(s).token + 1 \in 1..MaxToken
    BY <1>1
<1>3. puppet[s] \in Actor \union {NoActor}
    BY DEF TypeOK
<1>4. Options(puppet[s], f, status, Own(s).token + 1, shown) \in OptionsType
    BY <1>2, <1>3, OptionsTyped
<1> QED BY <1>2, <1>4 DEF Show, TypeOK

LEMMA SubscriberTyped ==
    ASSUME TypeOK, NEW s \in Session, NEW token \in 1..MaxToken
    PROVE  Subscriber(s, token) \in SubscriberType
BY DEF Subscriber, SubscriberType, TypeOK

LEMMA NewGenerationTyped ==
    ASSUME TypeOK, NEW s \in Session, NEW token \in 1..MaxToken,
           NEW phase \in {"queued", "running"}
    PROVE  NewGeneration(phase, puppet[s], {Subscriber(s, token)}) \in GenerationType
BY SubscriberTyped DEF NewGeneration, GenerationType, TypeOK

LEMMA SettledTyped == Settled \in GenerationType /\ NoGeneration \in GenerationType
BY DEF Settled, NoGeneration, GenerationType

\* What is delivered keeps every record well formed.
LEMMA DeliveredTyped ==
    ASSUME NEW o \in [Session -> OptionsType], NEW g \in GenerationType, NEW f \in Situation,
           NEW status \in {"ready", "degraded"}, NEW shown \in Numbers
    PROVE  Delivered(o, g, f, status, shown) \in [Session -> OptionsType]
<1>1. ASSUME NEW s \in Session
      PROVE  Options(g.actor, f, status, o[s].token, shown) \in OptionsType
    <2>1. o[s].token \in 0..MaxToken /\ g.actor \in Actor \union {NoActor}
        BY DEF OptionsType, GenerationType
    <2> QED BY <2>1, OptionsTyped
<1> QED BY <1>1 DEF Delivered

LEMMA InitTyped == Init => TypeOK
BY SettledTyped DEF Init, TypeOK, NoOptions, OptionsType, NoChain, Numbers

\* _settle_active keeps the records of the calls well formed.
LEMMA SettleTyped ==
    ASSUME TypeOK, NEW f \in Situation, NEW n \in Number, NEW starts \in BOOLEAN,
           NEW o \in [Session -> OptionsType], Settle(f, n, starts, o)
    PROVE  /\ options' \in [Session -> OptionsType]
           /\ generation' \in [Situation -> [Number -> GenerationType]]
           /\ pending' \in [Situation -> Numbers]
           /\ chain' \in [Situation -> [active : Numbers, successor : Numbers, detached : Numbers]]
<1>1. options' \in [Session -> OptionsType]
    <2>1. CASE HandsOver(f, n) /\ ~starts
        <3>1. chain[f].successor \in Number
            BY <2>1 DEF HandsOver, TypeOK, Numbers, Number
        <3>2. generation[f][chain[f].successor] \in GenerationType
            BY <3>1 DEF TypeOK
        <3>3. Dropped(f, o) \in [Session -> OptionsType]
            BY <3>2, DeliveredTyped DEF Dropped, Numbers
        <3> QED BY <2>1, <3>3 DEF Settle
    <2>2. CASE ~(HandsOver(f, n) /\ ~starts)
        BY <2>2 DEF Settle
    <2> QED BY <2>1, <2>2
<1>2. generation' \in [Situation -> [Number -> GenerationType]]
    <2>1. ASSUME NEW m \in Number
          PROVE  [generation[f][m] EXCEPT !.phase = "running"] \in GenerationType
        <3>1. generation[f][m] \in GenerationType
            BY DEF TypeOK
        <3> QED BY <3>1 DEF GenerationType
    <2> QED BY <2>1, SettledTyped DEF Settle, TypeOK
<1>3. pending' \in [Situation -> Numbers]
    BY DEF Settle, TypeOK, Numbers
<1>4. chain' \in [Situation -> [active : Numbers, successor : Numbers, detached : Numbers]]
    <2>1. Handed(f, n, starts) \in [active : Numbers, successor : Numbers, detached : Numbers]
        BY DEF Handed, TypeOK, Numbers
    <2> QED BY <2>1 DEF Settle, TypeOK
<1> QED BY <1>1, <1>2, <1>3, <1>4

LEMMA ClearedTyped ==
    ASSUME TypeOK, NEW g, NEW f \in Situation
    PROVE  Cleared(g, f) \in [Session -> [Situation -> 0..(MaxGeneration + 1)]]
BY DEF Cleared, TypeOK

\* A barrier is raised or cleared for one session and one situation.
LEMMA BarrierTyped ==
    ASSUME TypeOK, NEW s \in Session, NEW f \in Situation, NEW k \in 0..(MaxGeneration + 1)
    PROVE  [barrier EXCEPT ![s][f] = k] \in [Session -> [Situation -> 0..(MaxGeneration + 1)]]
<1>1. barrier[s] \in [Situation -> 0..(MaxGeneration + 1)]
    BY DEF TypeOK
<1>2. [barrier[s] EXCEPT ![f] = k] \in [Situation -> 0..(MaxGeneration + 1)]
    BY <1>1
<1> QED BY <1>2 DEF TypeOK

\* Queued or running, the next call of a situation gets a number within the bound
\* and a well-formed record.
LEMMA NumberedTyped ==
    ASSUME TypeOK, NEW s \in Session, NEW f \in Situation, NEW phase \in {"queued", "running"},
           counter[f] < MaxGeneration, Own(s).token + 1 \in 1..MaxToken,
           generation' = [generation EXCEPT ![f][counter[f] + 1] =
               NewGeneration(phase, puppet[s], {Subscriber(s, Own(s).token + 1)})]
    PROVE  /\ counter[f] + 1 \in Numbers
           /\ generation' \in [Situation -> [Number -> GenerationType]]
<1>1. counter[f] + 1 \in Number /\ counter[f] + 1 \in Numbers
    BY DEF TypeOK, Numbers, Number
<1>2. NewGeneration(phase, puppet[s], {Subscriber(s, Own(s).token + 1)}) \in GenerationType
    BY NewGenerationTyped
<1> QED BY <1>1, <1>2 DEF TypeOK

LEMMA TriggerTyped ==
    ASSUME TypeOK, NEW s \in Session, Trigger(s)
    PROVE  TypeOK'
<1>1. PICK f \in Situation :
        \/ TriggerInMemo(s, f) \/ TriggerReplays(s, f) \/ TriggerBarred(s, f)
        \/ TriggerJoins(s, f) \/ TriggerQueues(s, f)
        \/ TriggerStarts(s, f) \/ TriggerStartFails(s, f)
    BY DEF Trigger
<1> USE DEF session, stores, calls
<1>2. CASE TriggerInMemo(s, f)
    BY <1>2, ShowTyped DEF TriggerInMemo, TypeOK, Numbers
<1>3. CASE TriggerReplays(s, f)
    <2>1. cache[f] \in Numbers
        BY DEF TypeOK
    <2>2. options' \in [Session -> OptionsType]
        BY <1>3, <2>1, ShowTyped DEF TriggerReplays
    <2>3. barrier' \in [Session -> [Situation -> 0..(MaxGeneration + 1)]]
        BY <1>3, BarrierTyped DEF TriggerReplays
    <2> QED BY <1>3, <2>2, <2>3 DEF TriggerReplays, TypeOK
<1>4. CASE TriggerBarred(s, f)
    BY <1>4, ShowTyped DEF TriggerBarred, Asks, TypeOK, Numbers
<1>5. CASE TriggerJoins(s, f)
    <2>1. options' \in [Session -> OptionsType] /\ Own(s).token + 1 \in 1..MaxToken
        BY <1>5, ShowTyped DEF TriggerJoins, Asks, Numbers
    <2>2. PICK n \in Number : Subscribe(s, f, n)
        BY <1>5 DEF TriggerJoins, Joinable, TypeOK, Numbers, Number
    <2>3. Subscriber(s, Own(s).token + 1) \in SubscriberType
        BY <2>1, SubscriberTyped
    <2>4. generation[f][n] \in GenerationType
        BY DEF TypeOK
    <2>5. [generation[f][n] EXCEPT !.subscribers = @ \union {Subscriber(s, Own(s).token + 1)}]
            \in GenerationType
        BY <2>3, <2>4 DEF GenerationType
    <2>6. generation' \in [Situation -> [Number -> GenerationType]]
        BY <2>2, <2>5 DEF Subscribe, TypeOK
    <2> QED BY <1>5, <2>1, <2>6 DEF TriggerJoins, TypeOK
<1>6. CASE TriggerQueues(s, f)
    <2>1. options' \in [Session -> OptionsType] /\ Own(s).token + 1 \in 1..MaxToken
        BY <1>6, ShowTyped DEF TriggerQueues, Asks, Numbers
    <2>2. counter[f] + 1 \in Numbers /\ generation' \in [Situation -> [Number -> GenerationType]]
        BY <1>6, <2>1, NumberedTyped DEF TriggerQueues
    <2>3. counter' \in [Situation -> Numbers]
        BY <1>6, <2>2 DEF TriggerQueues, TypeOK
    <2>4. chain' \in [Situation -> [active : Numbers, successor : Numbers, detached : Numbers]]
        <3>1. chain' = [chain EXCEPT ![f].successor = counter[f] + 1]
            BY <1>6 DEF TriggerQueues
        <3> QED BY <2>2, <3>1 DEF TypeOK
    <2>5. UNCHANGED <<place, session, barrier, stores, pending>>
        BY <1>6 DEF TriggerQueues
    <2> QED BY <2>1, <2>2, <2>3, <2>4, <2>5 DEF TypeOK
<1>7. CASE TriggerStarts(s, f)
    <2>1. options' \in [Session -> OptionsType] /\ Own(s).token + 1 \in 1..MaxToken
        BY <1>7, ShowTyped DEF TriggerStarts, Starts, Asks, Numbers
    <2>2. counter[f] + 1 \in Numbers /\ generation' \in [Situation -> [Number -> GenerationType]]
        BY <1>7, <2>1, NumberedTyped DEF TriggerStarts, Starts
    <2>3. counter' \in [Situation -> Numbers] /\ pending' \in [Situation -> Numbers]
        BY <1>7, <2>2 DEF TriggerStarts, TypeOK
    <2>4. chain' \in [Situation -> [active : Numbers, successor : Numbers, detached : Numbers]]
        <3>1. chain' = [chain EXCEPT ![f].active = counter[f] + 1]
            BY <1>7 DEF TriggerStarts
        <3> QED BY <2>2, <3>1 DEF TypeOK
    <2>5. UNCHANGED <<place, session, barrier, stores>>
        BY <1>7 DEF TriggerStarts
    <2> QED BY <2>1, <2>2, <2>3, <2>4, <2>5 DEF TypeOK
<1>8. CASE TriggerStartFails(s, f)
    <2>1. options' \in [Session -> OptionsType]
        BY <1>8, ShowTyped DEF TriggerStartFails, Starts, Asks, Numbers
    <2>2. counter[f] + 1 \in Number /\ counter[f] + 1 \in Numbers
        BY <1>8 DEF TriggerStartFails, Starts, TypeOK, Numbers, Number
    <2>3. barrier' \in [Session -> [Situation -> 0..(MaxGeneration + 1)]]
        BY <1>8, BarrierTyped DEF TriggerStartFails
    <2>4. generation' \in [Situation -> [Number -> GenerationType]]
        BY <1>8, <2>2, SettledTyped DEF TriggerStartFails, TypeOK
    <2> QED BY <1>8, <2>1, <2>2, <2>3, <2>4 DEF TriggerStartFails, TypeOK
<1> QED BY <1>1, <1>2, <1>3, <1>4, <1>5, <1>6, <1>7, <1>8

LEMMA CompleteTyped ==
    ASSUME TypeOK, NEW f \in Situation, NEW n \in Number, Complete(f, n)
    PROVE  TypeOK'
<1>1. PICK starts \in BOOLEAN :
        CompleteReady(f, n, starts) \/ CompleteDegraded(f, n, starts) \/ CompleteRetired(f, n, starts)
    BY DEF Complete
<1>2. generation[f][n] \in GenerationType /\ n \in Numbers /\ 0 \in Numbers
    BY DEF TypeOK, Numbers, Number
<1>3. options \in [Session -> OptionsType]
    BY DEF TypeOK
<1> USE DEF session, stores, calls
<1>4. CASE CompleteReady(f, n, starts)
    <2> DEFINE o == Delivered(options, generation[f][n], f, "ready", n)
    <2>1. o \in [Session -> OptionsType]
        BY <1>2, <1>3, DeliveredTyped
    <2>2. Settle(f, n, starts, o)
        BY <1>4 DEF CompleteReady
    <2>3. barrier' \in [Session -> [Situation -> 0..(MaxGeneration + 1)]]
        BY <1>4, ClearedTyped DEF CompleteReady
    <2>4. cache' \in [Situation -> Numbers]
        BY <1>2, <1>4 DEF CompleteReady, TypeOK
    <2> HIDE DEF o
    <2> QED BY <1>4, <2>1, <2>2, <2>3, <2>4, SettleTyped DEF CompleteReady, TypeOK
<1>5. CASE CompleteDegraded(f, n, starts)
    <2> DEFINE o == Delivered(options, generation[f][n], f, "degraded", 0)
    <2>1. o \in [Session -> OptionsType]
        BY <1>2, <1>3, DeliveredTyped
    <2>2. Settle(f, n, starts, o)
        BY <1>5 DEF CompleteDegraded
    <2>3. barrier' \in [Session -> [Situation -> 0..(MaxGeneration + 1)]]
        BY <1>5, ClearedTyped DEF CompleteDegraded
    <2> HIDE DEF o
    <2> QED BY <1>5, <2>1, <2>2, <2>3, SettleTyped DEF CompleteDegraded, TypeOK
<1>6. CASE CompleteRetired(f, n, starts)
    <2>1. Settle(f, n, starts, options)
        BY <1>6 DEF CompleteRetired
    <2> QED BY <1>3, <1>6, <2>1, SettleTyped DEF CompleteRetired, TypeOK
<1> QED BY <1>1, <1>4, <1>5, <1>6

\* Leaving a call keeps its record well formed, retired or not.
LEMMA UnsubscribedTyped ==
    ASSUME NEW g \in GenerationType, NEW s \in Session, NEW retires \in BOOLEAN
    PROVE  /\ [g EXCEPT !.subscribers = Unsubscribed(g, s).subscribers] \in GenerationType
           /\ [g EXCEPT !.subscribers = Unsubscribed(g, s).subscribers, !.retired = retires]
                \in GenerationType
<1>1. Unsubscribed(g, s).subscribers \subseteq SubscriberType
    BY DEF Unsubscribed, GenerationType
<1> QED BY <1>1 DEF GenerationType

LEMMA ForgetTyped ==
    ASSUME TypeOK, NEW s \in Session, NEW f \in Situation, Forget(s, f)
    PROVE  /\ cache' \in [Situation -> Numbers]
           /\ memo' \in SUBSET Situation
           /\ generation' \in [Situation -> [Number -> GenerationType]]
           /\ pending' \in [Situation -> Numbers]
           /\ chain' \in [Situation -> [active : Numbers, successor : Numbers, detached : Numbers]]
           /\ barrier' \in [Session -> [Situation -> 0..(MaxGeneration + 1)]]
<1> DEFINE n == pending[f]
           next == chain[f].successor
           left == IF n = 0 THEN {} ELSE Unsubscribed(generation[f][n], s).subscribers
           nextLeft == IF next = 0 THEN {} ELSE Unsubscribed(generation[f][next], s).subscribers
           retires == n # 0 /\ left = {}
<1> DEFINE after(m) ==
             IF m = n THEN [generation[f][m] EXCEPT !.subscribers = left, !.retired = retires]
             ELSE IF m = next
                  THEN IF nextLeft = {} THEN Settled
                       ELSE [generation[f][m] EXCEPT !.subscribers = nextLeft]
             ELSE generation[f][m]
<1>0. /\ cache' = [cache EXCEPT ![f] = 0]
      /\ memo' = memo \ {f}
      /\ generation' = [generation EXCEPT ![f] = [m \in Number |-> after(m)]]
      /\ pending' = [pending EXCEPT ![f] = IF retires THEN 0 ELSE pending[f]]
      /\ chain' = [chain EXCEPT ![f] =
            [active    |-> IF retires /\ chain[f].active = n THEN 0 ELSE chain[f].active,
             successor |-> IF nextLeft = {} THEN 0 ELSE chain[f].successor,
             detached  |-> DetachedAfter(f, retires)]]
      /\ barrier' = [barrier EXCEPT ![s][f] = Minimum(f)]
    BY DEF Forget
<1>1. cache' \in [Situation -> Numbers] /\ memo' \in SUBSET Situation
    <2>1. cache' = [cache EXCEPT ![f] = 0] /\ memo' = memo \ {f}
        BY <1>0
    <2> QED BY <2>1 DEF TypeOK, Numbers
<1>2. barrier' \in [Session -> [Situation -> 0..(MaxGeneration + 1)]]
    <2>1. Minimum(f) \in 0..(MaxGeneration + 1)
        BY DEF Minimum, TypeOK, Numbers
    <2> QED BY <1>0, <2>1, BarrierTyped
<1>3. pending' \in [Situation -> Numbers]
    <2>1. pending' = [pending EXCEPT ![f] = IF retires THEN 0 ELSE pending[f]]
        BY <1>0
    <2> HIDE DEF retires
    <2> QED BY <2>1 DEF TypeOK, Numbers
<1>4. DetachedAfter(f, retires) \in Numbers
    BY DEF DetachedAfter, TypeOK
<1>5. chain' \in [Situation -> [active : Numbers, successor : Numbers, detached : Numbers]]
    <2>1. [active    |-> IF retires /\ chain[f].active = n THEN 0 ELSE chain[f].active,
           successor |-> IF nextLeft = {} THEN 0 ELSE chain[f].successor,
           detached  |-> DetachedAfter(f, retires)]
             \in [active : Numbers, successor : Numbers, detached : Numbers]
        BY <1>4 DEF TypeOK, Numbers
    <2> QED BY <1>0, <2>1 DEF TypeOK
<1>6. generation' \in [Situation -> [Number -> GenerationType]]
    <2>1. ASSUME NEW m \in Number
          PROVE  after(m) \in GenerationType
        <3>1. generation[f][m] \in GenerationType /\ m # 0 /\ retires \in BOOLEAN
            BY DEF TypeOK, Number
        <3>2. CASE m = n
            BY <3>1, <3>2, UnsubscribedTyped
        <3>3. CASE m # n /\ m = next
            BY <3>1, <3>3, UnsubscribedTyped, SettledTyped
        <3>4. CASE m # n /\ m # next
            BY <3>1, <3>4
        <3> QED BY <3>2, <3>3, <3>4
    <2> HIDE DEF after
    <2> QED BY <1>0, <2>1 DEF TypeOK
<1> QED BY <1>1, <1>2, <1>3, <1>5, <1>6

LEMMA DismissTyped ==
    ASSUME TypeOK, NEW s \in Session, Dismiss(s)
    PROVE  TypeOK'
<1> USE DEF session, stores, calls
<1>1. options' \in [Session -> OptionsType]
    <2>1. options[s] \in OptionsType /\ puppet[s] \in Actor \union {NoActor}
        BY DEF TypeOK
    <2>2. options[s].token + 1 \in 0..MaxToken
        BY <2>1 DEF Dismiss, OptionsType
    <2>3. Options(puppet[s], Nowhere, "unavailable", options[s].token + 1, 0) \in OptionsType
        <3>1. Nowhere \in Situation \union {Nowhere} /\ 0 \in Numbers
            BY DEF Numbers
        <3> QED BY <2>1, <2>2, <3>1, OptionsTyped
    <2> QED BY <2>3 DEF Dismiss, TypeOK
<1>2. CASE options[s].fingerprint = Nowhere
    BY <1>1, <1>2 DEF Dismiss, TypeOK
<1>3. CASE options[s].fingerprint # Nowhere
    <2>1. options[s].fingerprint \in Situation
        BY <1>3 DEF TypeOK, OptionsType
    <2>2. Forget(s, options[s].fingerprint)
        BY <1>3 DEF Dismiss
    <2> QED BY <1>1, <2>1, <2>2, ForgetTyped DEF Dismiss, TypeOK
<1> QED BY <1>2, <1>3

\* Every step of the service keeps its books well formed and its bounds.
LEMMA NextTyped == TypeOK /\ [Next]_vars => TypeOK'
<1> SUFFICES ASSUME TypeOK, [Next]_vars PROVE TypeOK'
    OBVIOUS
<1> USE DEF session, stores, calls
<1>1. ASSUME NEW a \in Actor, NEW f \in Situation \union {Nowhere}, Move(a, f)
      PROVE  TypeOK'
    BY <1>1 DEF Move, TypeOK
<1>2. ASSUME NEW s \in Session, NEW a \in Actor \union {NoActor}, ChangePuppet(s, a)
      PROVE  TypeOK'
    <2>1. NoOptions \in OptionsType
        BY DEF NoOptions, OptionsType, Numbers
    <2> QED BY <1>2, <2>1 DEF ChangePuppet, TypeOK
<1>3. ASSUME NEW f \in Situation, MemoExpires(f) \/ CachePressure(f)
      PROVE  TypeOK'
    BY <1>3 DEF MemoExpires, CachePressure, TypeOK, Numbers
<1>4. CASE UNCHANGED vars
    BY <1>4 DEF vars, TypeOK
<1> QED BY <1>1, <1>2, <1>3, <1>4, TriggerTyped, DismissTyped, CompleteTyped DEF Next

\* Whatever the order of triggers, dismissals, answers and puppet changes, the
\* state of every session and of every call is well formed, and the numbers a
\* barrier or a chain names are numbers of calls.
THEOREM TypeCorrect == Spec => []TypeOK
<1> QED BY InitTyped, NextTyped, PTL DEF Spec
------------------------------------------------------------------------------
(* The books of one situation survive every step, so one call works on it  *)
(* at a time and its successor is never forgotten.                         *)

\* Who subscribes does not matter to the books.
LEMMA BooksKept ==
    ASSUME TypeOK, NEW f \in Situation, Books(f),
           counter'[f] = counter[f], pending'[f] = pending[f], chain'[f] = chain[f],
           \A n \in Number : /\ generation'[f][n].phase = generation[f][n].phase
                             /\ generation'[f][n].retired = generation[f][n].retired
    PROVE  Books(f)'
<1>1. chain[f].detached \in Numbers
    BY DEF TypeOK
<1> QED BY <1>1 DEF Books, Working, Number, Numbers

LEMMA BooksUntouched ==
    ASSUME TypeOK, NEW f \in Situation, Books(f),
           counter'[f] = counter[f], pending'[f] = pending[f], chain'[f] = chain[f],
           generation'[f] = generation[f]
    PROVE  Books(f)'
BY BooksKept

\* A new number goes to a call that is queued, starts or is over at once; the chain
\* takes note of it and nothing else changes.
LEMMA NumberedBooks ==
    ASSUME TypeOK, NEW f \in Situation, Books(f), NEW n \in Number, n = counter[f] + 1,
           counter'[f] = n,
           \A m \in Number \ {n} : generation'[f][m] = generation[f][m],
           ~generation'[f][n].retired,
           chain'[f].detached = chain[f].detached,
           pending'[f] = chain'[f].active,
           \/ /\ generation'[f][n].phase = "queued"
              /\ chain'[f].active = chain[f].active /\ chain[f].active # 0
              /\ chain'[f].successor = n /\ chain[f].successor = 0
           \/ /\ generation'[f][n].phase = "running"
              /\ chain'[f].active = n /\ chain[f].active = 0
              /\ chain'[f].successor = 0 /\ chain[f].successor = 0
           \/ /\ generation'[f][n].phase = "settled"
              /\ chain'[f].active = chain[f].active /\ chain'[f].successor = chain[f].successor
    PROVE  Books(f)'
<1>1. generation[f][n].phase = "unborn" /\ counter[f] \in Nat /\ n \in Nat
    BY DEF Books, TypeOK, Number, Numbers
<1>2. chain[f].active # n /\ chain[f].successor # n
    BY <1>1 DEF Books, Working
<1>3. ASSUME NEW m \in Number
      PROVE  (generation'[f][m].phase = "running" /\ ~generation'[f][m].retired)
                <=> m = chain'[f].active
    <2>1. CASE m = n
        BY <1>2, <2>1
    <2>2. CASE m # n
        <3>1. generation'[f][m] = generation[f][m] /\ m # 0
            BY <2>2 DEF Number
        <3> QED BY <2>2, <3>1 DEF Books, Working
    <2> QED BY <2>1, <2>2
<1>4. ASSUME NEW m \in Number
      PROVE  /\ generation'[f][m].phase = "queued" <=> m = chain'[f].successor
             /\ generation'[f][m].phase = "queued" => ~generation'[f][m].retired
             /\ m > n => generation'[f][m].phase = "unborn"
    <2>1. CASE m = n
        BY <1>1, <1>2, <2>1
    <2>2. CASE m # n
        <3>1. generation'[f][m] = generation[f][m] /\ m # 0 /\ (m > n => m > counter[f])
            BY <1>1, <2>2 DEF Number
        <3> QED BY <2>2, <3>1 DEF Books
    <2> QED BY <2>1, <2>2
<1>5. chain'[f].detached # 0 => generation'[f][chain'[f].detached].phase = "running"
    <2>1. chain[f].detached # 0 => chain[f].detached \in Number \ {n}
        BY <1>1 DEF Books, TypeOK, Number, Numbers
    <2> QED BY <2>1 DEF Books
<1>6. chain'[f].successor # 0 => chain'[f].active # 0 \/ chain'[f].detached # 0
    BY DEF Books
<1> QED BY <1>3, <1>4, <1>5, <1>6 DEF Books, Working

LEMMA StartsIdle ==
    ASSUME TypeOK, NEW s \in Session, NEW f \in Situation, Books(f), Starts(s, f)
    PROVE  chain[f].active = 0 /\ chain[f].successor = 0 /\ counter[f] + 1 \in Number
<1>1. chain[f].active \in Numbers /\ counter[f] \in Numbers
    BY DEF TypeOK
<1>2. chain[f].active = 0
    <2> SUFFICES ASSUME chain[f].active # 0 PROVE FALSE
        OBVIOUS
    <2>1. chain[f].active \in Number
        BY <1>1 DEF Number, Numbers
    <2>2. pending[f] # 0 /\ ~generation[f][pending[f]].retired /\ pending[f] \in Number
        BY <2>1 DEF Books, Working
    <2>3. barrier[s][f] \in 0..(MaxGeneration + 1)
        BY DEF TypeOK
    <2> QED BY <2>2, <2>3 DEF Starts, Joinable, BelowBarrier, Number
<1> QED BY <1>1, <1>2 DEF Starts, Number, Numbers

LEMMA QueuesBooks ==
    ASSUME TypeOK, NEW s \in Session, NEW f \in Situation, Books(f), TriggerQueues(s, f)
    PROVE  Books(f)'
<1> DEFINE n == counter[f] + 1
<1>1. n \in Number /\ counter'[f] = n
    BY DEF TriggerQueues, TypeOK, Number, Numbers
<1>2. \A m \in Number \ {n} : generation'[f][m] = generation[f][m]
    BY <1>1 DEF TriggerQueues, TypeOK
<1>3. generation'[f][n].phase = "queued" /\ ~generation'[f][n].retired
    BY <1>1 DEF TriggerQueues, NewGeneration, TypeOK
<1>4. /\ chain'[f].successor = n /\ chain[f].successor = 0
      /\ chain'[f].active = chain[f].active /\ chain'[f].detached = chain[f].detached
      /\ pending'[f] = pending[f]
    BY DEF TriggerQueues, TypeOK
<1>5. chain[f].active # 0 /\ pending[f] = chain[f].active
    BY DEF TriggerQueues, BelowBarrier, Books
<1> QED BY <1>1, <1>2, <1>3, <1>4, <1>5, NumberedBooks

\* A call that starts finds no other at work.
LEMMA StartsBooks ==
    ASSUME TypeOK, NEW s \in Session, NEW f \in Situation, Books(f), TriggerStarts(s, f)
    PROVE  Books(f)'
<1> DEFINE n == counter[f] + 1
<1>1. n \in Number /\ chain[f].active = 0 /\ chain[f].successor = 0
    BY StartsIdle DEF TriggerStarts
<1>2. counter'[f] = n
    BY DEF TriggerStarts, TypeOK
<1>3. \A m \in Number \ {n} : generation'[f][m] = generation[f][m]
    BY <1>1 DEF TriggerStarts, TypeOK
<1>4. generation'[f][n].phase = "running" /\ ~generation'[f][n].retired
    BY <1>1 DEF TriggerStarts, NewGeneration, TypeOK
<1>5. /\ chain'[f].successor = 0 /\ chain'[f].detached = chain[f].detached
      /\ chain'[f].active = n /\ pending'[f] = n
    BY <1>1 DEF TriggerStarts, TypeOK
<1> QED BY <1>1, <1>2, <1>3, <1>4, <1>5, NumberedBooks

LEMMA StartFailsBooks ==
    ASSUME TypeOK, NEW s \in Session, NEW f \in Situation, Books(f), TriggerStartFails(s, f)
    PROVE  Books(f)'
<1> DEFINE n == counter[f] + 1
<1>1. n \in Number
    BY StartsIdle DEF TriggerStartFails
<1>2. counter'[f] = n
    BY DEF TriggerStartFails, TypeOK
<1>3. \A m \in Number \ {n} : generation'[f][m] = generation[f][m]
    BY <1>1 DEF TriggerStartFails, TypeOK
<1>4. generation'[f][n].phase = "settled" /\ ~generation'[f][n].retired
    BY <1>1 DEF TriggerStartFails, Settled, NoGeneration, TypeOK
<1>5. chain'[f] = chain[f] /\ pending'[f] = pending[f] /\ pending[f] = chain[f].active
    BY DEF TriggerStartFails, Books
<1> QED BY <1>1, <1>2, <1>3, <1>4, <1>5, NumberedBooks

\* Of a trigger, only the calls it queues or starts are news for the books.
LEMMA TriggerBooks ==
    ASSUME TypeOK, NEW s \in Session, Trigger(s), BooksAgree
    PROVE  BooksAgree'
<1> SUFFICES ASSUME NEW g \in Situation PROVE Books(g)'
    BY DEF BooksAgree
<1>0. Books(g)
    BY DEF BooksAgree
<1>1. PICK f \in Situation :
        \/ TriggerInMemo(s, f) \/ TriggerReplays(s, f) \/ TriggerBarred(s, f)
        \/ TriggerJoins(s, f) \/ TriggerQueues(s, f)
        \/ TriggerStarts(s, f) \/ TriggerStartFails(s, f)
    BY DEF Trigger
<1>2. CASE TriggerInMemo(s, f) \/ TriggerReplays(s, f) \/ TriggerBarred(s, f)
    BY <1>0, <1>2, BooksUntouched DEF TriggerInMemo, TriggerReplays, TriggerBarred, calls
<1>3. CASE TriggerJoins(s, f)
    <2>1. PICK n \in Number : Subscribe(s, f, n)
        BY <1>3 DEF TriggerJoins, Joinable, TypeOK, Numbers, Number
    <2>2. ASSUME NEW m \in Number
          PROVE  /\ generation'[g][m].phase = generation[g][m].phase
                 /\ generation'[g][m].retired = generation[g][m].retired
        <3>1. generation[g][m] \in GenerationType
            BY DEF TypeOK
        <3>2. CASE g = f /\ m = n
            BY <2>1, <3>1, <3>2 DEF Subscribe, TypeOK, GenerationType
        <3>3. CASE ~(g = f /\ m = n)
            BY <2>1, <3>3 DEF Subscribe, TypeOK
        <3> QED BY <3>2, <3>3
    <2> QED BY <1>0, <1>3, <2>2, BooksKept DEF TriggerJoins
<1>4. CASE g # f /\ (TriggerQueues(s, f) \/ TriggerStarts(s, f) \/ TriggerStartFails(s, f))
    <2>1. /\ counter'[g] = counter[g] /\ pending'[g] = pending[g]
          /\ chain'[g] = chain[g] /\ generation'[g] = generation[g]
        BY <1>4 DEF TriggerQueues, TriggerStarts, TriggerStartFails, TypeOK
    <2> QED BY <1>0, <2>1, BooksUntouched
<1>5. CASE g = f /\ (TriggerQueues(s, f) \/ TriggerStarts(s, f) \/ TriggerStartFails(s, f))
    BY <1>0, <1>5, QueuesBooks, StartsBooks, StartFailsBooks
<1> QED BY <1>1, <1>2, <1>3, <1>4, <1>5

\* _settle_active: the call leaves the books, and its successor takes its place or
\* leaves them too.
LEMMA SettleBooks ==
    ASSUME TypeOK, NEW f \in Situation, NEW n \in Number, NEW starts \in BOOLEAN, NEW o,
           Books(f), generation[f][n].phase = "running", Settle(f, n, starts, o),
           counter' = counter
    PROVE  Books(f)'
<1> DEFINE c == chain[f]
           next == c.successor
           over == HandsOver(f, n)
           gone(m) == m = n \/ (over /\ ~starts /\ m = next)
           begun(m) == starts /\ m = next
<1>1. starts => over
    BY DEF Settle
<1>2. /\ pending'[f] = IF starts THEN next ELSE IF c.active = n THEN 0 ELSE c.active
      /\ chain'[f] = Handed(f, n, starts)
    BY DEF Settle, Books, TypeOK
<1>3. ASSUME NEW m \in Number
      PROVE  /\ gone(m) => generation'[f][m] = Settled
             /\ ~gone(m) /\ begun(m) =>
                  /\ generation'[f][m].phase = "running"
                  /\ generation'[f][m].retired = generation[f][m].retired
             /\ ~gone(m) /\ ~begun(m) => generation'[f][m] = generation[f][m]
    <2>1. generation[f][m] \in GenerationType
        BY DEF TypeOK
    <2>2. generation'[f][m] = IF gone(m) THEN Settled
             ELSE IF begun(m) THEN [generation[f][m] EXCEPT !.phase = "running"]
             ELSE generation[f][m]
        BY DEF Settle, TypeOK
    <2> QED BY <2>1, <2>2 DEF GenerationType
<1>4. Settled.phase = "settled" /\ ~Settled.retired
    BY DEF Settled, NoGeneration
<1>5. next # n
    BY DEF Books
<1>6. /\ chain'[f].active = IF over /\ starts THEN next ELSE IF c.active = n THEN 0 ELSE c.active
      /\ chain'[f].successor = IF over THEN 0 ELSE next
      /\ chain'[f].detached = IF c.detached = n THEN 0 ELSE c.detached
    BY <1>2 DEF Handed, IsActive, IsDetached
<1>7. over <=> next # 0 /\ (c.active = n \/ (c.detached = n /\ c.active = 0))
    BY DEF HandsOver, IsActive, IsDetached
<1>8. /\ c.active \in {0} \union Number /\ c.detached \in {0} \union Number
      /\ next \in {0} \union Number /\ 0 \notin Number
    BY DEF TypeOK, Number, Numbers
<1> HIDE DEF c, next, over
<1>9. /\ \A m \in Number : generation[f][m].phase = "running" /\ ~generation[f][m].retired
                              <=> m = c.active
      /\ \A m \in Number : generation[f][m].phase = "queued" <=> m = next
      /\ \A m \in Number : generation[f][m].phase = "queued" => ~generation[f][m].retired
      /\ c.detached # 0 => generation[f][c.detached].phase = "running"
      /\ next # 0 => c.active # 0 \/ c.detached # 0
      /\ \A m \in Number : m > counter[f] => generation[f][m].phase = "unborn"
    BY DEF c, next, Books, Working
<1>10. pending'[f] = chain'[f].active
    BY <1>1, <1>2, <1>6
<1>11. ASSUME NEW m \in Number
       PROVE  (generation'[f][m].phase = "running" /\ ~generation'[f][m].retired)
                 <=> m = chain'[f].active
    <2>1. CASE gone(m)
        BY <1>1, <1>3, <1>4, <1>5, <1>6, <1>7, <1>8, <2>1
    <2>2. CASE ~gone(m) /\ begun(m)
        BY <1>1, <1>3, <1>6, <1>9, <2>2
    <2>3. CASE ~gone(m) /\ ~begun(m)
        BY <1>1, <1>3, <1>6, <1>7, <1>8, <1>9, <2>3
    <2> QED BY <2>1, <2>2, <2>3
<1>12. ASSUME NEW m \in Number
       PROVE  /\ generation'[f][m].phase = "queued" <=> m = chain'[f].successor
              /\ generation'[f][m].phase = "queued" => ~generation'[f][m].retired
              /\ m > counter'[f] => generation'[f][m].phase = "unborn"
    <2>1. CASE gone(m)
        BY <1>3, <1>4, <1>5, <1>6, <1>8, <1>9, <2>1
    <2>2. CASE ~gone(m) /\ begun(m)
        BY <1>1, <1>3, <1>6, <1>8, <1>9, <2>2
    <2>3. CASE ~gone(m) /\ ~begun(m)
        BY <1>1, <1>3, <1>6, <1>8, <1>9, <2>3
    <2> QED BY <2>1, <2>2, <2>3
<1>13. chain'[f].detached # 0 => generation'[f][chain'[f].detached].phase = "running"
    <2> SUFFICES ASSUME c.detached # 0, c.detached # n, chain'[f].detached = c.detached
                 PROVE  generation'[f][c.detached].phase = "running"
        BY <1>6
    <2>1. c.detached \in Number /\ c.detached # next
        BY <1>8, <1>9
    <2> QED BY <1>3, <1>9, <2>1
<1>14. chain'[f].successor # 0 => chain'[f].active # 0 \/ chain'[f].detached # 0
    BY <1>1, <1>6, <1>7, <1>8, <1>9
<1> QED BY <1>10, <1>11, <1>12, <1>13, <1>14 DEF Books, Working

LEMMA CompleteBooks ==
    ASSUME TypeOK, NEW f \in Situation, NEW n \in Number, Complete(f, n), BooksAgree
    PROVE  BooksAgree'
<1>1. PICK starts, o :
        /\ starts \in BOOLEAN /\ generation[f][n].phase = "running"
        /\ Settle(f, n, starts, o) /\ counter' = counter
    BY DEF Complete, CompleteReady, CompleteDegraded, CompleteRetired
<1>2. ASSUME NEW g \in Situation PROVE Books(g)'
    <2>1. Books(g)
        BY DEF BooksAgree
    <2>2. CASE g = f
        BY <1>1, <2>1, <2>2, SettleBooks
    <2>3. CASE g # f
        <3>1. /\ pending'[g] = pending[g] /\ chain'[g] = chain[g]
              /\ generation'[g] = generation[g]
            BY <1>1, <2>3 DEF Settle, TypeOK
        <3> QED BY <1>1, <2>1, <3>1, BooksUntouched
    <2> QED BY <2>2, <2>3
<1> QED BY <1>2 DEF BooksAgree

\* evict: a call that loses its last subscriber leaves the chain, but stays its
\* detached member while it runs.
LEMMA ForgetBooks ==
    ASSUME TypeOK, NEW s \in Session, NEW f \in Situation, Books(f), Forget(s, f),
           counter' = counter
    PROVE  Books(f)'
<1> DEFINE c == chain[f]
           n == c.active
           next == c.successor
           left == IF n = 0 THEN {} ELSE Unsubscribed(generation[f][n], s).subscribers
           nextLeft == IF next = 0 THEN {} ELSE Unsubscribed(generation[f][next], s).subscribers
           retires == n # 0 /\ left = {}
           drops == nextLeft = {}
           after(m) ==
             IF m = n THEN [generation[f][m] EXCEPT !.subscribers = left, !.retired = retires]
             ELSE IF m = next
                  THEN IF drops THEN Settled
                       ELSE [generation[f][m] EXCEPT !.subscribers = nextLeft]
             ELSE generation[f][m]
<1>1. pending[f] = n
    BY DEF Books
<1>2. generation' = [generation EXCEPT ![f] = [m \in Number |-> after(m)]]
    BY <1>1 DEF Forget
<1>3. pending' = [pending EXCEPT ![f] = IF retires THEN 0 ELSE n]
    BY <1>1 DEF Forget
<1>4. chain' = [chain EXCEPT ![f] = [active |-> IF retires THEN 0 ELSE n,
                                    successor |-> IF drops THEN 0 ELSE next,
                                    detached |-> IF retires THEN n ELSE c.detached]]
    BY <1>1 DEF Forget, DetachedAfter
<1>5. drops \in BOOLEAN /\ retires \in BOOLEAN /\ (next = 0 => drops) /\ (retires => n # 0)
    OBVIOUS
<1>6. ASSUME NEW m \in Number
      PROVE  /\ m = n => /\ generation'[f][m].phase = generation[f][m].phase
                         /\ generation'[f][m].retired = retires
             /\ m # n /\ m = next /\ drops =>
                  generation'[f][m].phase = "settled" /\ ~generation'[f][m].retired
             /\ m # n /\ ~(m = next /\ drops) =>
                  /\ generation'[f][m].phase = generation[f][m].phase
                  /\ generation'[f][m].retired = generation[f][m].retired
    <2>1. generation[f][m] \in GenerationType
        BY DEF TypeOK
    <2>2. generation'[f][m] = after(m)
        BY <1>2 DEF TypeOK
    <2>3. Settled.phase = "settled" /\ ~Settled.retired
        BY DEF Settled, NoGeneration
    <2>4. CASE m = n
        BY <2>1, <2>2, <2>4 DEF GenerationType
    <2>5. CASE m # n /\ m = next
        BY <2>1, <2>2, <2>3, <2>5 DEF GenerationType
    <2>6. CASE m # n /\ m # next
        BY <2>2, <2>6
    <2> QED BY <2>4, <2>5, <2>6
<1>7. /\ c.active \in {0} \union Number /\ c.detached \in {0} \union Number
      /\ next \in {0} \union Number /\ 0 \notin Number
    BY DEF TypeOK, Number, Numbers
<1> HIDE DEF left, nextLeft, retires, drops, after
<1>8. pending'[f] = (IF retires THEN 0 ELSE n)
    BY <1>3 DEF TypeOK
<1>9. /\ chain'[f].active = (IF retires THEN 0 ELSE n)
      /\ chain'[f].successor = (IF drops THEN 0 ELSE next)
      /\ chain'[f].detached = (IF retires THEN n ELSE c.detached)
    BY <1>4 DEF TypeOK
<1> HIDE DEF c, n, next
<1>10. /\ \A m \in Number : generation[f][m].phase = "running" /\ ~generation[f][m].retired
                              <=> m = n
       /\ \A m \in Number : generation[f][m].phase = "queued" <=> m = next
       /\ \A m \in Number : generation[f][m].phase = "queued" => ~generation[f][m].retired
       /\ c.detached # 0 => generation[f][c.detached].phase = "running"
       /\ next # 0 => n # 0 \/ c.detached # 0
       /\ \A m \in Number : m > counter[f] => generation[f][m].phase = "unborn"
    BY DEF c, n, next, Books, Working
<1>11. n = c.active
    BY DEF n
<1>12. ASSUME NEW m \in Number
       PROVE  /\ (generation'[f][m].phase = "running" /\ ~generation'[f][m].retired)
                    <=> m = chain'[f].active
              /\ generation'[f][m].phase = "queued" <=> m = chain'[f].successor
              /\ generation'[f][m].phase = "queued" => ~generation'[f][m].retired
              /\ m > counter'[f] => generation'[f][m].phase = "unborn"
    <2>1. m # 0 /\ (n = m => next # m)
        BY <1>7, <1>10
    <2>2. CASE m = n
        BY <1>5, <1>6, <1>9, <1>10, <2>1, <2>2
    <2>3. CASE m # n /\ m = next /\ drops
        BY <1>5, <1>6, <1>9, <1>10, <2>1, <2>3
    <2>4. CASE m # n /\ ~(m = next /\ drops)
        BY <1>5, <1>6, <1>9, <1>10, <2>1, <2>4
    <2> QED BY <2>2, <2>3, <2>4
<1>13. chain'[f].detached # 0 => generation'[f][chain'[f].detached].phase = "running"
    <2>1. CASE retires
        BY <1>5, <1>6, <1>7, <1>9, <1>10, <1>11, <2>1
    <2>2. CASE ~retires
        BY <1>6, <1>7, <1>9, <1>10, <2>2
    <2> QED BY <2>1, <2>2
<1>14. chain'[f].successor # 0 => chain'[f].active # 0 \/ chain'[f].detached # 0
    BY <1>5, <1>9, <1>10
<1> QED BY <1>8, <1>9, <1>12, <1>13, <1>14 DEF Books, Working

LEMMA DismissBooks ==
    ASSUME TypeOK, NEW s \in Session, Dismiss(s), BooksAgree
    PROVE  BooksAgree'
<1> SUFFICES ASSUME NEW g \in Situation PROVE Books(g)'
    BY DEF BooksAgree
<1> DEFINE f == options[s].fingerprint
<1>1. Books(g) /\ counter' = counter
    BY DEF BooksAgree, Dismiss
<1>2. CASE f = Nowhere
    BY <1>1, <1>2, BooksUntouched DEF Dismiss
<1>3. CASE f # Nowhere
    <2>1. f \in Situation /\ Forget(s, f)
        BY <1>3 DEF Dismiss, TypeOK, OptionsType
    <2>2. CASE g = f
        BY <1>1, <2>1, <2>2, ForgetBooks
    <2>3. CASE g # f
        <3>1. /\ pending'[g] = pending[g] /\ chain'[g] = chain[g]
              /\ generation'[g] = generation[g]
            BY <2>1, <2>3 DEF Forget, TypeOK
        <3> QED BY <1>1, <3>1, BooksUntouched
    <2> QED BY <2>2, <2>3
<1> QED BY <1>2, <1>3

LEMMA InitBooks == Init => BooksAgree
BY DEF Init, BooksAgree, Books, Working, NoChain, NoGeneration, Number

LEMMA NextBooks == TypeOK /\ BooksAgree /\ [Next]_vars => BooksAgree'
<1> SUFFICES ASSUME TypeOK, BooksAgree, [Next]_vars PROVE BooksAgree'
    OBVIOUS
<1>1. ASSUME calls' = calls PROVE BooksAgree'
    BY <1>1, BooksUntouched DEF BooksAgree, calls
<1>2. ASSUME NEW a \in Actor, NEW f \in Situation \union {Nowhere}, Move(a, f)
      PROVE  BooksAgree'
    BY <1>1, <1>2 DEF Move
<1>3. ASSUME NEW s \in Session, NEW a \in Actor \union {NoActor}, ChangePuppet(s, a)
      PROVE  BooksAgree'
    BY <1>1, <1>3 DEF ChangePuppet
<1>4. ASSUME NEW f \in Situation, MemoExpires(f) \/ CachePressure(f)
      PROVE  BooksAgree'
    BY <1>1, <1>4 DEF MemoExpires, CachePressure
<1>5. CASE UNCHANGED vars
    BY <1>1, <1>5 DEF vars
<1> QED BY <1>2, <1>3, <1>4, <1>5, TriggerBooks, DismissBooks, CompleteBooks DEF Next

\* What can be joined, the chain and the calls themselves never disagree, in any
\* order of triggers, dismissals and answers.
THEOREM BooksCorrect == Spec => []BooksAgree
<1>1. TypeOK /\ BooksAgree /\ TypeOK' /\ [Next]_vars => BooksAgree'
    BY NextBooks
<1> QED BY InitBooks, <1>1, TypeCorrect, PTL DEF Spec

\* One situation never costs two calls at work at a time, for any number of
\* sessions and dismissals (below_barrier, _settle_active).
THEOREM OneCall == Spec => []OneCallAtATime
<1>1. TypeOK /\ BooksAgree => OneCallAtATime
    BY DEF BooksAgree, Books, OneCallAtATime
<1> QED BY <1>1, TypeCorrect, BooksCorrect, PTL

\* A successor that is queued always has a running call whose end starts it
\* (_settle_active, evict).
THEOREM SuccessorKept == Spec => []SuccessorHasPredecessor
<1>1. TypeOK /\ BooksAgree => SuccessorHasPredecessor
    <2> SUFFICES ASSUME TypeOK, BooksAgree, NEW f \in Situation, chain[f].successor # 0
                 PROVE  /\ generation[f][chain[f].successor].phase = "queued"
                        /\ \E n \in {chain[f].active, chain[f].detached} \ {0} :
                              generation[f][n].phase = "running"
        BY DEF SuccessorHasPredecessor
    <2>1. Books(f)
        BY DEF BooksAgree
    <2>2. /\ chain[f].successor \in Number
          /\ chain[f].active # 0 => chain[f].active \in Number
        BY DEF TypeOK, Number, Numbers
    <2> QED BY <2>1, <2>2 DEF Books, Working
<1> QED BY <1>1, TypeCorrect, BooksCorrect, PTL
------------------------------------------------------------------------------
(* Nobody is shown another character's suggestions.                        *)

\* A record is empty, or belongs to whom the session plays.
OwnerInv == \A s \in Session : options[s] = NoOptions \/ options[s].owner = puppet[s]

\* A call only writes to records of its own actor that wait for it, never to an
\* empty one, whose token no subscription carries.
LEMMA DeliveredOwner ==
    ASSUME TypeOK, NEW g \in GenerationType, NEW f \in Situation, NEW status, NEW shown,
           NEW o, NEW s \in Session,
           o[s] = options[s] \/ (options[s] # NoOptions /\ o[s].owner = options[s].owner)
    PROVE  \/ Delivered(o, g, f, status, shown)[s] = options[s]
           \/ /\ options[s] # NoOptions
              /\ Delivered(o, g, f, status, shown)[s].owner = options[s].owner
<1>1. CASE Receives(g, s)
    <2>1. options[s].owner = g.actor /\ options[s].token # 0
        BY <1>1 DEF Receives, GenerationType, SubscriberType
    <2>2. Delivered(o, g, f, status, shown)[s].owner = g.actor
        BY <1>1 DEF Delivered, Options
    <2> QED BY <2>1, <2>2 DEF NoOptions
<1>2. CASE ~Receives(g, s)
    BY <1>2 DEF Delivered
<1> QED BY <1>1, <1>2

LEMMA SettleOwner ==
    ASSUME TypeOK, OwnerInv, NEW f \in Situation, NEW n \in Number,
           NEW starts \in BOOLEAN, NEW o, Settle(f, n, starts, o), puppet' = puppet,
           \A s \in Session :
              o[s] = options[s] \/ (options[s] # NoOptions /\ o[s].owner = options[s].owner)
    PROVE  OwnerInv'
<1>1. ASSUME NEW s \in Session
      PROVE  options'[s] = options[s] \/ (options[s] # NoOptions /\ options'[s].owner = options[s].owner)
    <2>1. CASE HandsOver(f, n) /\ ~starts
        <3>1. chain[f].successor \in Number
            BY <2>1 DEF HandsOver, TypeOK, Number, Numbers
        <3>2. generation[f][chain[f].successor] \in GenerationType
            BY <3>1 DEF TypeOK
        <3>3. options' = Delivered(o, generation[f][chain[f].successor], f, "degraded", 0)
            BY <2>1 DEF Settle, Dropped
        <3> QED BY <3>2, <3>3, DeliveredOwner
    <2>2. CASE ~(HandsOver(f, n) /\ ~starts)
        BY <2>2 DEF Settle
    <2> QED BY <2>1, <2>2
<1> QED BY <1>1 DEF OwnerInv

LEMMA CompleteOwner ==
    ASSUME TypeOK, OwnerInv, NEW f \in Situation, NEW n \in Number, Complete(f, n)
    PROVE  OwnerInv'
<1>1. PICK starts \in BOOLEAN :
        CompleteReady(f, n, starts) \/ CompleteDegraded(f, n, starts) \/ CompleteRetired(f, n, starts)
    BY DEF Complete
<1>2. generation[f][n] \in GenerationType
    BY DEF TypeOK
<1> USE DEF session
<1>3. CASE CompleteReady(f, n, starts)
    <2> DEFINE o == Delivered(options, generation[f][n], f, "ready", n)
    <2>1. Settle(f, n, starts, o) /\ puppet' = puppet
        BY <1>3 DEF CompleteReady
    <2>2. \A s \in Session :
              o[s] = options[s] \/ (options[s] # NoOptions /\ o[s].owner = options[s].owner)
        BY <1>2, DeliveredOwner
    <2> HIDE DEF o
    <2> QED BY <2>1, <2>2, SettleOwner
<1>4. CASE CompleteDegraded(f, n, starts)
    <2> DEFINE o == Delivered(options, generation[f][n], f, "degraded", 0)
    <2>1. Settle(f, n, starts, o) /\ puppet' = puppet
        BY <1>4 DEF CompleteDegraded
    <2>2. \A s \in Session :
              o[s] = options[s] \/ (options[s] # NoOptions /\ o[s].owner = options[s].owner)
        BY <1>2, DeliveredOwner
    <2> HIDE DEF o
    <2> QED BY <2>1, <2>2, SettleOwner
<1>5. CASE CompleteRetired(f, n, starts)
    <2>1. Settle(f, n, starts, options) /\ puppet' = puppet
        BY <1>5 DEF CompleteRetired
    <2> QED BY <2>1, SettleOwner
<1> QED BY <1>1, <1>3, <1>4, <1>5

LEMMA NextOwner == TypeOK /\ OwnerInv /\ [Next]_vars => OwnerInv'
<1> SUFFICES ASSUME TypeOK, OwnerInv, [Next]_vars PROVE OwnerInv'
    OBVIOUS
<1> USE DEF session
<1>1. ASSUME options' = options, puppet' = puppet PROVE OwnerInv'
    BY <1>1 DEF OwnerInv
<1>2. ASSUME NEW s \in Session, NEW f, NEW status, NEW token, NEW shown, puppet' = puppet,
             options' = [options EXCEPT ![s] = Options(puppet[s], f, status, token, shown)]
      PROVE  OwnerInv'
    BY <1>2 DEF OwnerInv, Options, TypeOK
<1>3. ASSUME NEW a \in Actor, NEW f \in Situation \union {Nowhere}, Move(a, f)
      PROVE  OwnerInv'
    BY <1>1, <1>3 DEF Move
<1>4. ASSUME NEW s \in Session, NEW a \in Actor \union {NoActor}, ChangePuppet(s, a)
      PROVE  OwnerInv'
    BY <1>4 DEF ChangePuppet, OwnerInv, TypeOK
<1>5. ASSUME NEW f \in Situation, MemoExpires(f) \/ CachePressure(f)
      PROVE  OwnerInv'
    BY <1>1, <1>5 DEF MemoExpires, CachePressure
<1>6. ASSUME NEW s \in Session, Trigger(s)
      PROVE  OwnerInv'
    <2>1. PICK f, status, shown : Show(s, f, status, shown) /\ puppet' = puppet
        BY <1>6 DEF Trigger, TriggerInMemo, TriggerReplays, TriggerBarred, TriggerJoins,
                    TriggerQueues, TriggerStarts, TriggerStartFails
    <2> QED BY <1>2, <2>1 DEF Show
<1>7. ASSUME NEW s \in Session, Dismiss(s)
      PROVE  OwnerInv'
    BY <1>2, <1>7 DEF Dismiss
<1>8. CASE UNCHANGED vars
    BY <1>1, <1>8 DEF vars
<1> QED BY <1>3, <1>4, <1>5, <1>6, <1>7, <1>8, CompleteOwner DEF Next

\* No order of puppet changes and late answers shows a character what was suggested
\* to the one played before.
THEOREM ShownToOwner == Spec => []ShownToItsOwner
<1>1. Init => OwnerInv
    BY DEF Init, OwnerInv
<1>2. TypeOK /\ OwnerInv /\ [Next]_vars => OwnerInv'
    BY NextOwner
<1>3. OwnerInv => ShownToItsOwner
    BY DEF OwnerInv, ShownToItsOwner, NoOptions
<1> QED BY <1>1, <1>2, <1>3, TypeCorrect, PTL DEF Spec
------------------------------------------------------------------------------
(* Calls that are still to answer, and who waits for them.                 *)

Due(g) == g.phase \in {"queued", "running"} /\ ~g.retired

\* A call that is unborn, over or retired answers nobody.
LEMMA Reborn ==
    /\ ~Due(Settled) /\ ~Due(NoGeneration)
    /\ \A phase, a, w : /\ NewGeneration(phase, a, w).subscribers = w
                        /\ NewGeneration(phase, a, w).actor = a
                        /\ NewGeneration(phase, a, w).phase = phase
                        /\ ~NewGeneration(phase, a, w).retired
BY DEF Due, Settled, NoGeneration, NewGeneration

\* Joining adds one subscriber to one call.
LEMMA SubscribeAdds ==
    ASSUME TypeOK, NEW s \in Session, NEW f \in Situation, NEW n \in Number, Subscribe(s, f, n),
           NEW h \in Situation, NEW m \in Number, NEW new, new = Subscriber(s, Own(s).token + 1)
    PROVE  /\ generation'[h][m].phase = generation[h][m].phase
           /\ generation'[h][m].retired = generation[h][m].retired
           /\ generation'[h][m].actor = generation[h][m].actor
           /\ generation'[h][m].subscribers =
                 IF h = f /\ m = n THEN generation[f][n].subscribers \union {new}
                 ELSE generation[h][m].subscribers
<1>1. generation[h][m] \in GenerationType /\ generation \in [Situation -> [Number -> GenerationType]]
    BY DEF TypeOK
<1>2. CASE h = f /\ m = n
    <2>1. generation'[h][m] = [generation[h][m] EXCEPT
                                 !.subscribers = @ \union {new}]
        BY <1>1, <1>2 DEF Subscribe
    <2> QED BY <1>1, <1>2, <2>1 DEF GenerationType
<1>3. CASE ~(h = f /\ m = n)
    <2>1. generation'[h][m] = generation[h][m]
        BY <1>1, <1>3 DEF Subscribe
    <2> QED BY <1>3, <2>1
<1> QED BY <1>2, <1>3

\* A new call takes the first number that no call has had.
LEMMA NewCall ==
    ASSUME TypeOK, BooksAgree, NEW s \in Session, NEW f \in Situation,
           TriggerQueues(s, f) \/ TriggerStarts(s, f) \/ TriggerStartFails(s, f)
    PROVE  LET n == counter[f] + 1 IN
           /\ n \in Number /\ counter'[f] = n /\ ~Due(generation[f][n])
           /\ generation'[f][n].subscribers \subseteq {Subscriber(s, Own(s).token + 1)}
           /\ TriggerStartFails(s, f) => ~Due(generation'[f][n])
           /\ ~TriggerStartFails(s, f) => /\ generation'[f][n].subscribers = {Subscriber(s, Own(s).token + 1)}
                                          /\ generation'[f][n].actor = puppet[s]
                                          /\ Due(generation'[f][n])
           /\ \A h \in Situation, m \in Number : ~(h = f /\ m = n) => generation'[h][m] = generation[h][m]
           /\ \A h \in Situation : h # f => counter'[h] = counter[h]
<1> DEFINE n == counter[f] + 1
           g == generation'[f][n]
<1>1. Books(f) /\ counter[f] \in Numbers /\ generation \in [Situation -> [Number -> GenerationType]]
    BY DEF BooksAgree, TypeOK
<1>2. n \in Number
    <2>1. CASE TriggerQueues(s, f)
        <3>1. counter[f] < MaxGeneration
            BY <2>1 DEF TriggerQueues
        <3>2. counter[f] \in 0..MaxGeneration
            BY <1>1 DEF Numbers
        <3> QED BY <3>1, <3>2 DEF Number
    <2>2. CASE TriggerStarts(s, f) \/ TriggerStartFails(s, f)
        BY <1>1, <2>2, StartsIdle DEF TriggerStarts, TriggerStartFails
    <2> QED BY <2>1, <2>2
<1>3. ~Due(generation[f][n])
    <2>1. n > counter[f]
        BY <1>1 DEF Numbers
    <2>2. generation[f][n].phase = "unborn"
        BY <1>1, <1>2, <2>1 DEF Books
    <2> QED BY <2>2 DEF Due
<1>4. counter'[f] = n /\ \A h \in Situation : h # f => counter'[h] = counter[h]
    <2>1. counter' = [counter EXCEPT ![f] = n]
        BY DEF TriggerQueues, TriggerStarts, TriggerStartFails
    <2>2. counter \in [Situation -> Numbers]
        BY DEF TypeOK
    <2> QED BY <2>1, <2>2
<1>5. PICK new : generation' = [generation EXCEPT ![f][n] = new]
    BY DEF TriggerQueues, TriggerStarts, TriggerStartFails
<1> HIDE DEF n
<1>6. g = new /\ \A h \in Situation, m \in Number : ~(h = f /\ m = n) => generation'[h][m] = generation[h][m]
    BY <1>1, <1>2, <1>5
<1>7. CASE TriggerStartFails(s, f)
    <2>1. g = Settled
        BY <1>1, <1>2, <1>7 DEF TriggerStartFails, n
    <2>2. g.subscribers = {} /\ ~Due(g)
        BY <2>1, Reborn DEF Settled, NoGeneration
    <2> QED BY <1>2, <1>3, <1>4, <1>6, <1>7, <2>2 DEF n
<1>8. CASE ~TriggerStartFails(s, f)
    <2>1. PICK phase \in {"queued", "running"} :
             g = NewGeneration(phase, puppet[s], {Subscriber(s, Own(s).token + 1)})
        BY <1>1, <1>2, <1>8 DEF TriggerQueues, TriggerStarts, n
    <2>2. /\ g.subscribers = {Subscriber(s, Own(s).token + 1)} /\ g.actor = puppet[s] /\ Due(g)
        BY <2>1, Reborn DEF Due
    <2> QED BY <1>2, <1>3, <1>4, <1>6, <1>8, <2>2 DEF n
<1> QED BY <1>7, <1>8

\* Settling a call ends it, and its successor if that cannot start; every other
\* call that is due keeps who waits for it.
Ends(f, n, starts, h, m) ==
    h = f /\ (m = n \/ (HandsOver(f, n) /\ ~starts /\ m = chain[f].successor))

LEMMA SettleKeeps ==
    ASSUME TypeOK, BooksAgree, NEW f \in Situation, NEW n \in Number, NEW starts \in BOOLEAN, NEW o,
           Settle(f, n, starts, o), NEW h \in Situation, NEW m \in Number
    PROVE  /\ Ends(f, n, starts, h, m) => ~Due(generation'[h][m])
           /\ ~Ends(f, n, starts, h, m) =>
                 /\ Due(generation[h][m]) <=> Due(generation'[h][m])
                 /\ generation'[h][m].subscribers = generation[h][m].subscribers
                 /\ generation'[h][m].actor = generation[h][m].actor
<1>1. generation \in [Situation -> [Number -> GenerationType]] /\ generation[h][m] \in GenerationType
    BY DEF TypeOK
<1>2. CASE h # f
    <2>1. generation'[h] = generation[h]
        BY <1>1, <1>2 DEF Settle
    <2> QED BY <1>2, <2>1 DEF Ends
<1>3. CASE h = f
    <2>1. generation'[h][m] =
             IF m = n \/ (HandsOver(f, n) /\ ~starts /\ m = chain[f].successor) THEN Settled
             ELSE IF starts /\ m = chain[f].successor THEN [generation[h][m] EXCEPT !.phase = "running"]
             ELSE generation[h][m]
        BY <1>1, <1>3 DEF Settle
    <2>2. CASE Ends(f, n, starts, h, m)
        <3>1. generation'[h][m] = Settled
            BY <1>3, <2>1, <2>2 DEF Ends
        <3> QED BY <2>2, <3>1, Reborn
    <2>3. CASE ~Ends(f, n, starts, h, m) /\ starts /\ m = chain[f].successor
        <3>1. generation'[h][m] = [generation[h][m] EXCEPT !.phase = "running"]
            BY <1>3, <2>1, <2>3 DEF Ends
        <3>2. generation[h][m].phase = "queued"
            BY <1>3, <2>3 DEF BooksAgree, Books
        <3>3. /\ generation'[h][m].phase = "running" /\ generation'[h][m].retired = generation[h][m].retired
              /\ generation'[h][m].subscribers = generation[h][m].subscribers
              /\ generation'[h][m].actor = generation[h][m].actor
            BY <1>1, <3>1 DEF GenerationType
        <3> QED BY <2>3, <3>2, <3>3 DEF Due
    <2>4. CASE ~Ends(f, n, starts, h, m) /\ ~(starts /\ m = chain[f].successor)
        <3>1. generation'[h][m] = generation[h][m]
            BY <1>3, <2>1, <2>4 DEF Ends
        <3> QED BY <2>4, <3>1
    <2> QED BY <2>2, <2>3, <2>4
<1> QED BY <1>2, <1>3

\* A dismissal takes the session out of every call of its situation that is due.
\* The others keep their places, and their calls.
LEMMA ForgetKeeps ==
    ASSUME TypeOK, BooksAgree, NEW s \in Session, NEW f \in Situation, Forget(s, f),
           NEW h \in Situation, NEW m \in Number
    PROVE  /\ h # f => generation'[h] = generation[h]
           /\ Due(generation'[h][m]) =>
                 /\ Due(generation[h][m])
                 /\ generation'[h][m].actor = generation[h][m].actor
                 /\ generation'[h][m].subscribers \subseteq generation[h][m].subscribers
                 /\ h = f => \A sub \in generation'[h][m].subscribers : sub.session # s
           /\ \A sub \in generation[h][m].subscribers :
                 Due(generation[h][m]) /\ sub.session # s =>
                    /\ Due(generation'[h][m]) /\ sub \in generation'[h][m].subscribers
                    /\ generation'[h][m].actor = generation[h][m].actor
<1>1. generation \in [Situation -> [Number -> GenerationType]] /\ generation[h][m] \in GenerationType
    BY DEF TypeOK
<1>2. CASE h # f
    <2>1. generation'[h] = generation[h]
        BY <1>1, <1>2 DEF Forget
    <2> QED BY <1>2, <2>1
<1>3. CASE h = f
    <2> DEFINE n == pending[f]
               next == chain[f].successor
               left == IF n = 0 THEN {} ELSE Unsubscribed(generation[f][n], s).subscribers
               nextLeft == IF next = 0 THEN {} ELSE Unsubscribed(generation[f][next], s).subscribers
               retires == n # 0 /\ left = {}
    <2>1. generation'[h][m] =
             IF m = n THEN [generation[f][m] EXCEPT !.subscribers = left, !.retired = retires]
             ELSE IF m = next
                  THEN IF nextLeft = {} THEN Settled ELSE [generation[f][m] EXCEPT !.subscribers = nextLeft]
             ELSE generation[f][m]
        BY <1>1, <1>3 DEF Forget
    <2>2. Books(f) /\ m # 0
        BY DEF BooksAgree, Number
    <2>3. m # n /\ m # next => ~Due(generation[f][m])
        BY <2>2 DEF Books, Working, Due
    <2>a. Unsubscribed(generation[h][m], s).subscribers = {sub \in generation[h][m].subscribers : sub.session # s}
        BY <1>1 DEF Unsubscribed, GenerationType
    <2>4. m = n => left = {sub \in generation[h][m].subscribers : sub.session # s}
        BY <1>3, <2>2, <2>a
    <2>5. m = next => nextLeft = {sub \in generation[h][m].subscribers : sub.session # s}
        BY <1>3, <2>2, <2>a
    <2>b. retires \in BOOLEAN /\ (m = n => (retires <=> left = {}))
        BY <2>2
    <2> HIDE DEF left, nextLeft, retires
    <2>6. CASE m = n
        <3>1. generation'[h][m] = [generation[h][m] EXCEPT !.subscribers = left, !.retired = retires]
            BY <1>3, <2>1, <2>6
        <3>2. /\ generation'[h][m].phase = generation[h][m].phase /\ generation'[h][m].retired = retires
              /\ generation'[h][m].subscribers = left /\ generation'[h][m].actor = generation[h][m].actor
            BY <1>1, <3>1 DEF GenerationType
        <3>3. ~generation[h][m].retired
            BY <1>3, <2>2, <2>6 DEF Books, Working
        <3> HIDE DEF n
        <3>4. Due(generation'[h][m]) => Due(generation[h][m])
            BY <3>2, <3>3 DEF Due
        <3>5. Due(generation[h][m]) /\ left # {} => Due(generation'[h][m])
            BY <2>b, <2>6, <3>2 DEF Due
        <3> QED BY <1>3, <2>4, <2>6, <3>2, <3>4, <3>5
    <2>7. CASE m # n /\ m = next /\ nextLeft = {}
        <3>1. generation'[h][m] = Settled
            BY <2>1, <2>7
        <3> QED BY <1>3, <2>5, <2>7, <3>1, Reborn
    <2>8. CASE m # n /\ m = next /\ nextLeft # {}
        <3>1. generation'[h][m] = [generation[h][m] EXCEPT !.subscribers = nextLeft]
            BY <1>3, <2>1, <2>8
        <3>2. /\ generation'[h][m].phase = generation[h][m].phase
              /\ generation'[h][m].retired = generation[h][m].retired
              /\ generation'[h][m].subscribers = nextLeft /\ generation'[h][m].actor = generation[h][m].actor
            BY <1>1, <3>1 DEF GenerationType
        <3> QED BY <1>3, <2>5, <2>8, <3>2 DEF Due
    <2>9. CASE m # n /\ m # next
        <3>1. generation'[h][m] = generation[h][m]
            BY <1>3, <2>1, <2>9
        <3> QED BY <1>3, <2>3, <2>9, <3>1
    <2> QED BY <2>6, <2>7, <2>8, <2>9
<1> QED BY <1>2, <1>3
------------------------------------------------------------------------------
(* A dismissal stands: whoever is still subscribed to a call that is due   *)
(* has not dismissed anything since it subscribed.                         *)

BarrierInv ==
    /\ \A f \in Situation, n \in Number :
          Due(generation[f][n]) =>
              \A sub \in generation[f][n].subscribers : barrier[sub.session][f] <= n
    /\ \A s \in Session, f \in Situation : barrier[s][f] <= counter[f] + 1

\* Lower barriers and fewer subscriptions break nothing.
LEMMA BarrierKept ==
    ASSUME TypeOK, TypeOK', BarrierInv,
           \A f \in Situation : counter'[f] = counter[f],
           \A s \in Session, f \in Situation : barrier'[s][f] = barrier[s][f] \/ barrier'[s][f] = 0,
           \A f \in Situation, n \in Number :
              Due(generation'[f][n]) =>
                  Due(generation[f][n]) /\ generation'[f][n].subscribers \subseteq generation[f][n].subscribers
    PROVE  BarrierInv'
<1>1. ASSUME NEW f \in Situation, NEW n \in Number, Due(generation'[f][n]),
             NEW sub \in generation'[f][n].subscribers
      PROVE  barrier'[sub.session][f] <= n
    <2>1. generation[f][n] \in GenerationType /\ sub \in generation[f][n].subscribers /\ Due(generation[f][n])
        BY <1>1 DEF TypeOK
    <2>2. sub.session \in Session
        BY <2>1 DEF GenerationType, SubscriberType
    <2>3. barrier[sub.session][f] <= n
        BY <2>1 DEF BarrierInv
    <2>4. barrier'[sub.session][f] = barrier[sub.session][f] \/ barrier'[sub.session][f] = 0
        BY <2>2
    <2>5. 0 <= n
        BY DEF Number
    <2> QED BY <2>3, <2>4, <2>5
<1>2. ASSUME NEW s \in Session, NEW f \in Situation PROVE barrier'[s][f] <= counter'[f] + 1
    <2>1. counter'[f] = counter[f] /\ counter[f] \in Numbers
        BY DEF TypeOK
    <2>2. barrier[s][f] <= counter[f] + 1 /\ (barrier'[s][f] = barrier[s][f] \/ barrier'[s][f] = 0)
        BY DEF BarrierInv
    <2> QED BY <2>1, <2>2 DEF Numbers
<1> QED BY <1>1, <1>2 DEF BarrierInv, Due

\* Lifting one barrier lowers no other one.
LEMMA LiftLowers ==
    ASSUME TypeOK, NEW s \in Session, NEW f \in Situation,
           barrier' = barrier \/ barrier' = [barrier EXCEPT ![s][f] = 0],
           NEW t \in Session, NEW h \in Situation
    PROVE  barrier'[t][h] = barrier[t][h] \/ barrier'[t][h] = 0
<1>1. barrier \in [Session -> [Situation -> 0..(MaxGeneration + 1)]]
    BY DEF TypeOK
<1> QED BY <1>1

LEMMA TriggerBarrier ==
    ASSUME TypeOK, TypeOK', BooksAgree, BarrierInv, NEW s \in Session, NEW f \in Situation,
           TriggerJoins(s, f) \/ TriggerQueues(s, f) \/ TriggerStarts(s, f) \/ TriggerStartFails(s, f)
    PROVE  BarrierInv'
<1> DEFINE new == Subscriber(s, Own(s).token + 1)
<1>0. new.session = s
    BY DEF Subscriber
<1>1. CASE TriggerJoins(s, f)
    <2>1. PICK n \in Number : Subscribe(s, f, n) /\ barrier[s][f] <= n
        <3>1. pending[f] \in Numbers /\ chain[f].successor \in Numbers /\ barrier[s][f] \in 0..(MaxGeneration + 1)
            BY DEF TypeOK
        <3>2. CASE Joinable(s, f) /\ Subscribe(s, f, pending[f])
            <4>1. pending[f] \in Number /\ barrier[s][f] <= pending[f]
                BY <3>1, <3>2 DEF Joinable, Numbers, Number
            <4> QED BY <3>2, <4>1
        <3>3. CASE chain[f].successor # 0 /\ Subscribe(s, f, chain[f].successor)
            <4>1. ~(chain[f].successor < barrier[s][f])
                BY <1>1, <3>3 DEF TriggerJoins, Barred
            <4>2. chain[f].successor \in Number /\ barrier[s][f] <= chain[f].successor
                BY <3>1, <3>3, <4>1 DEF Numbers, Number
            <4> QED BY <3>3, <4>2
        <3> QED BY <1>1, <3>2, <3>3 DEF TriggerJoins
    <2>2. barrier' = barrier /\ counter' = counter
        BY <1>1 DEF TriggerJoins
    <2>3. ASSUME NEW h \in Situation, NEW m \in Number, Due(generation'[h][m]),
                 NEW sub \in generation'[h][m].subscribers
          PROVE  barrier'[sub.session][h] <= m
        <3>a. /\ generation'[h][m].phase = generation[h][m].phase
              /\ generation'[h][m].retired = generation[h][m].retired
              /\ generation'[h][m].subscribers =
                    IF h = f /\ m = n THEN generation[f][n].subscribers \union {new} ELSE generation[h][m].subscribers
            <4>1. Subscribe(s, f, n) /\ new = Subscriber(s, Own(s).token + 1)
                BY <2>1
            <4> HIDE DEF new
            <4> QED BY <4>1, SubscribeAdds
        <3>b. Due(generation[h][m])
            BY <2>3, <3>a DEF Due
        <3>1. /\ Due(generation[h][m])
              /\ generation'[h][m].subscribers =
                    IF h = f /\ m = n THEN generation[f][n].subscribers \union {new} ELSE generation[h][m].subscribers
            BY <3>a, <3>b
        <3>2. CASE sub \in generation[h][m].subscribers
            BY <2>2, <3>1, <3>2 DEF BarrierInv
        <3>3. CASE h = f /\ m = n /\ sub = new
            BY <1>0, <2>1, <2>2, <3>3
        <3> QED BY <2>3, <3>1, <3>2, <3>3
    <2> QED BY <2>2, <2>3 DEF BarrierInv, Due
<1>2. CASE TriggerQueues(s, f) \/ TriggerStarts(s, f) \/ TriggerStartFails(s, f)
    <2> DEFINE n == counter[f] + 1
    <2>1. /\ n \in Number /\ counter'[f] = n
          /\ generation'[f][n].subscribers \subseteq {new}
          /\ \A h \in Situation, m \in Number : ~(h = f /\ m = n) => generation'[h][m] = generation[h][m]
          /\ \A h \in Situation : h # f => counter'[h] = counter[h]
        BY <1>2, NewCall
    <2>2. \A t \in Session, h \in Situation : barrier'[t][h] = barrier[t][h] \/ barrier'[t][h] = 0
        <3>1. barrier' = barrier \/ barrier' = [barrier EXCEPT ![s][f] = 0]
            BY <1>2 DEF TriggerQueues, TriggerStarts, TriggerStartFails
        <3> QED BY <3>1, LiftLowers
    <2>3. barrier[s][f] <= n
        BY DEF BarrierInv
    <2>4. counter[f] \in Numbers /\ n \in Nat
        BY DEF TypeOK, Numbers
    <2> HIDE DEF n, new
    <2>5. ASSUME NEW h \in Situation, NEW m \in Number, Due(generation'[h][m]),
                 NEW sub \in generation'[h][m].subscribers
          PROVE  barrier'[sub.session][h] <= m
        <3>0. m \in Nat
            BY DEF Number
        <3>1. CASE h = f /\ m = n
            <4>1. sub.session = s
                BY <1>0, <2>1, <2>5, <3>1
            <4> QED BY <2>2, <2>3, <3>0, <3>1, <4>1
        <3>2. CASE ~(h = f /\ m = n)
            <4>1. generation'[h][m] = generation[h][m]
                BY <2>1, <3>2
            <4>2. barrier[sub.session][h] <= m
                BY <2>5, <4>1 DEF BarrierInv
            <4>3. sub.session \in Session
                <5>1. generation[h][m] \in GenerationType
                    BY DEF TypeOK
                <5> QED BY <2>5, <4>1, <5>1 DEF GenerationType, SubscriberType
            <4> QED BY <2>2, <3>0, <4>2, <4>3
        <3> QED BY <3>1, <3>2
    <2>6. ASSUME NEW t \in Session, NEW h \in Situation PROVE barrier'[t][h] <= counter'[h] + 1
        <3>1. counter[h] \in Numbers /\ counter'[h] \in Numbers /\ barrier[t][h] <= counter[h] + 1
            BY DEF TypeOK, BarrierInv
        <3>2. counter[h] <= counter'[h]
            <4>1. counter[f] <= n
                BY <2>4 DEF n, Numbers
            <4>2. counter[h] <= counter[h]
                BY <3>1 DEF Numbers
            <4> QED BY <2>1, <4>1, <4>2
        <3>3. barrier[t][h] \in Nat
            BY DEF TypeOK
        <3>4. barrier'[t][h] = barrier[t][h] \/ barrier'[t][h] = 0
            BY <2>2
        <3> HIDE DEF n
        <3> QED BY <3>1, <3>2, <3>3, <3>4 DEF Numbers
    <2> QED BY <2>5, <2>6 DEF BarrierInv, Due
<1> QED BY <1>1, <1>2

LEMMA ClearedLowers ==
    ASSUME TypeOK, NEW g, NEW f \in Situation, barrier' = Cleared(g, f),
           NEW t \in Session, NEW h \in Situation
    PROVE  barrier'[t][h] = barrier[t][h] \/ barrier'[t][h] = 0
<1>1. barrier[t] \in [Situation -> 0..(MaxGeneration + 1)]
    BY DEF TypeOK
<1>2. barrier'[t] = IF Receives(g, t) THEN [barrier[t] EXCEPT ![f] = 0] ELSE barrier[t]
    BY DEF Cleared
<1> QED BY <1>1, <1>2

LEMMA CompleteBarrier ==
    ASSUME TypeOK, TypeOK', BooksAgree, BarrierInv, NEW f \in Situation, NEW n \in Number, Complete(f, n)
    PROVE  BarrierInv'
<1>1. PICK starts \in BOOLEAN :
        CompleteReady(f, n, starts) \/ CompleteDegraded(f, n, starts) \/ CompleteRetired(f, n, starts)
    BY DEF Complete
<1>2. PICK o : Settle(f, n, starts, o)
    BY <1>1 DEF CompleteReady, CompleteDegraded, CompleteRetired
<1>3. counter' = counter /\ (barrier' = barrier \/ barrier' = Cleared(generation[f][n], f))
    BY <1>1 DEF CompleteReady, CompleteDegraded, CompleteRetired
<1>4. \A h \in Situation, m \in Number :
        Due(generation'[h][m]) =>
            Due(generation[h][m]) /\ generation'[h][m].subscribers \subseteq generation[h][m].subscribers
    BY <1>2, SettleKeeps
<1>5. \A t \in Session, h \in Situation : barrier'[t][h] = barrier[t][h] \/ barrier'[t][h] = 0
    BY <1>3, ClearedLowers
<1> QED BY <1>3, <1>4, <1>5, BarrierKept

LEMMA ForgetBarrier ==
    ASSUME TypeOK, TypeOK', BooksAgree, BarrierInv, NEW s \in Session, NEW f \in Situation,
           Forget(s, f), counter' = counter
    PROVE  BarrierInv'
<1>1. \A t \in Session, h \in Situation :
        barrier'[t][h] = IF t = s /\ h = f THEN counter[f] + 1 ELSE barrier[t][h]
    BY DEF Forget, Minimum, TypeOK
<1>2. ASSUME NEW h \in Situation, NEW m \in Number, Due(generation'[h][m]),
             NEW sub \in generation'[h][m].subscribers
      PROVE  barrier'[sub.session][h] <= m
    <2>1. /\ Due(generation[h][m]) /\ sub \in generation[h][m].subscribers
          /\ h = f => sub.session # s
        <3>1. h # f => generation'[h] = generation[h]
            BY ForgetKeeps
        <3>2. /\ Due(generation[h][m])
              /\ generation'[h][m].subscribers \subseteq generation[h][m].subscribers
              /\ h = f => \A x \in generation'[h][m].subscribers : x.session # s
            BY <1>2, ForgetKeeps
        <3> QED BY <1>2, <3>2
    <2>2. sub.session \in Session
        <3>1. generation[h][m] \in GenerationType
            BY DEF TypeOK
        <3> QED BY <2>1, <3>1 DEF GenerationType, SubscriberType
    <2> QED BY <1>1, <2>1, <2>2 DEF BarrierInv
<1>3. ASSUME NEW t \in Session, NEW h \in Situation PROVE barrier'[t][h] <= counter'[h] + 1
    <2>1. counter[f] \in Nat
        BY DEF TypeOK, Numbers
    <2>2. counter[f] + 1 <= counter[f] + 1
        BY <2>1
    <2> QED BY <1>1, <2>2 DEF BarrierInv
<1> QED BY <1>2, <1>3 DEF BarrierInv, Due

LEMMA NextBarrier == TypeOK /\ TypeOK' /\ BooksAgree /\ BarrierInv /\ [Next]_vars => BarrierInv'
<1> SUFFICES ASSUME TypeOK, TypeOK', BooksAgree, BarrierInv, [Next]_vars PROVE BarrierInv'
    OBVIOUS
<1>1. ASSUME calls' = calls, \A s \in Session, f \in Situation : barrier'[s][f] = barrier[s][f] \/ barrier'[s][f] = 0
      PROVE  BarrierInv'
    BY <1>1, BarrierKept DEF calls
<1>2. ASSUME NEW a \in Actor, NEW f \in Situation \union {Nowhere}, Move(a, f)
      PROVE  BarrierInv'
    BY <1>1, <1>2 DEF Move
<1>3. ASSUME NEW s \in Session, NEW a \in Actor \union {NoActor}, ChangePuppet(s, a)
      PROVE  BarrierInv'
    BY <1>1, <1>3 DEF ChangePuppet, TypeOK
<1>4. ASSUME NEW f \in Situation, MemoExpires(f) \/ CachePressure(f)
      PROVE  BarrierInv'
    BY <1>1, <1>4 DEF MemoExpires, CachePressure
<1>5. ASSUME NEW s \in Session, Trigger(s) PROVE BarrierInv'
    <2>1. PICK f \in Situation :
            \/ TriggerInMemo(s, f) \/ TriggerReplays(s, f) \/ TriggerBarred(s, f)
            \/ TriggerJoins(s, f) \/ TriggerQueues(s, f)
            \/ TriggerStarts(s, f) \/ TriggerStartFails(s, f)
        BY <1>5 DEF Trigger
    <2>2. CASE TriggerInMemo(s, f) \/ TriggerReplays(s, f) \/ TriggerBarred(s, f)
        <3>1. calls' = calls
            BY <2>2 DEF TriggerInMemo, TriggerReplays, TriggerBarred
        <3>2. barrier' = barrier \/ barrier' = [barrier EXCEPT ![s][f] = 0]
            BY <2>2 DEF TriggerInMemo, TriggerReplays, TriggerBarred
        <3>3. \A t \in Session, h \in Situation : barrier'[t][h] = barrier[t][h] \/ barrier'[t][h] = 0
            BY <3>2, LiftLowers
        <3> QED BY <1>1, <3>1, <3>3
    <2> QED BY <2>1, <2>2, TriggerBarrier
<1>6. ASSUME NEW s \in Session, Dismiss(s) PROVE BarrierInv'
    <2>1. counter' = counter
        BY <1>6 DEF Dismiss
    <2>2. CASE options[s].fingerprint = Nowhere
        BY <1>1, <1>6, <2>2 DEF Dismiss, calls
    <2>3. CASE options[s].fingerprint # Nowhere
        <3>1. options[s].fingerprint \in Situation /\ Forget(s, options[s].fingerprint)
            BY <1>6, <2>3 DEF Dismiss, TypeOK, OptionsType
        <3> QED BY <2>1, <3>1, ForgetBarrier
    <2> QED BY <2>2, <2>3
<1>7. CASE UNCHANGED vars
    BY <1>1, <1>7 DEF vars
<1> QED BY <1>2, <1>3, <1>4, <1>5, <1>6, <1>7, CompleteBarrier DEF Next

\* What a step newly shows as ready is not older than the session's barrier.
LEMMA ReadyIsNewEnough ==
    ASSUME TypeOK, BooksAgree, BarrierInv, [Next]_vars, NEW s \in Session, NEW f \in Situation,
           options'[s] # options[s], options'[s].status = "ready", options'[s].fingerprint = f
    PROVE  options'[s].shown >= barrier[s][f]
<1>1. ASSUME NEW t \in Session, NEW h, NEW status, NEW shown, status # "ready", Show(t, h, status, shown)
      PROVE  FALSE
    <2>1. options'[s] = options[s] \/ options'[s].status = status
        BY <1>1 DEF Show, Options, TypeOK
    <2> QED BY <1>1, <2>1
<1>2. ASSUME NEW t \in Session, NEW h \in Situation, TriggerReplays(t, h)
      PROVE  options'[s].shown >= barrier[s][f]
    <2>1. options' = [options EXCEPT ![t] = Options(puppet[t], h, "ready", Own(t).token + 1, cache[h])]
        BY <1>2 DEF TriggerReplays, Show
    <2>2. s = t /\ options'[s] = Options(puppet[t], h, "ready", Own(t).token + 1, cache[h])
        BY <2>1 DEF TypeOK
    <2>3. f = h /\ options'[s].shown = cache[h]
        BY <2>2 DEF Options
    <2> QED BY <1>2, <2>2, <2>3 DEF TriggerReplays, Replays
<1>3. ASSUME NEW h \in Situation, NEW n \in Number, Complete(h, n)
      PROVE  options'[s].shown >= barrier[s][f]
    <2> DEFINE g == generation[h][n]
    <2>1. PICK starts \in BOOLEAN :
            CompleteReady(h, n, starts) \/ CompleteDegraded(h, n, starts) \/ CompleteRetired(h, n, starts)
        BY <1>3 DEF Complete
    <2>2. PICK o : /\ options' = IF HandsOver(h, n) /\ ~starts THEN Dropped(h, o) ELSE o
                   /\ \/ CompleteReady(h, n, starts) /\ o = Delivered(options, g, h, "ready", n)
                      \/ o = Delivered(options, g, h, "degraded", 0)
                      \/ o = options
        BY <2>1 DEF CompleteReady, CompleteDegraded, CompleteRetired, Settle
    <2>3. options'[s] = o[s] \/ options'[s].status = "degraded"
        BY <2>2 DEF Dropped, Delivered, Options
    <2>4. CASE CompleteReady(h, n, starts) /\ o = Delivered(options, g, h, "ready", n)
        <3>1. o[s] = options[s] \/ (Receives(g, s) /\ o[s] = Options(g.actor, h, "ready", options[s].token, n))
            BY <2>4 DEF Delivered
        <3>2. Receives(g, s) /\ options'[s] = Options(g.actor, h, "ready", options[s].token, n)
            BY <2>3, <3>1
        <3>3. f = h /\ options'[s].shown = n
            BY <3>2 DEF Options
        <3>4. PICK sub \in g.subscribers : sub.session = s
            BY <3>2 DEF Receives
        <3>5. Due(g)
            BY <2>4 DEF CompleteReady, Due
        <3>6. barrier[s][h] <= n
            BY <3>4, <3>5 DEF BarrierInv
        <3>7. barrier[s][h] \in Nat /\ n \in Nat
            BY DEF TypeOK, Number
        <3> QED BY <3>3, <3>6, <3>7
    <2>5. CASE o = Delivered(options, g, h, "degraded", 0) \/ o = options
        <3>1. o[s] = options[s] \/ o[s].status = "degraded"
            BY <2>5 DEF Delivered, Options
        <3> QED BY <2>3, <3>1
    <2> QED BY <2>2, <2>4, <2>5
<1>4. ASSUME NEW t \in Session, NEW a \in Actor \union {NoActor}, ChangePuppet(t, a) PROVE FALSE
    <2>1. options'[s] = options[s] \/ options'[s] = NoOptions
        BY <1>4 DEF ChangePuppet, TypeOK
    <2> QED BY <2>1 DEF NoOptions
<1>5. ASSUME NEW t \in Session, Dismiss(t) PROVE FALSE
    <2>1. options'[s] = options[s] \/ options'[s].status = "unavailable"
        BY <1>5 DEF Dismiss, Options, TypeOK
    <2> QED BY <2>1
<1>6. ASSUME NEW t \in Session, Trigger(t) PROVE options'[s].shown >= barrier[s][f]
    <2>1. PICK h \in Situation :
            \/ TriggerInMemo(t, h) \/ TriggerReplays(t, h) \/ TriggerBarred(t, h)
            \/ TriggerJoins(t, h) \/ TriggerQueues(t, h)
            \/ TriggerStarts(t, h) \/ TriggerStartFails(t, h)
        BY <1>6 DEF Trigger
    <2>2. CASE ~TriggerReplays(t, h)
        <3>1. Show(t, h, "degraded", 0) \/ Show(t, h, "generating", 0)
            BY <2>1, <2>2 DEF TriggerInMemo, TriggerBarred, TriggerJoins, TriggerQueues, TriggerStarts, TriggerStartFails
        <3> QED BY <1>1, <3>1
    <2> QED BY <1>2, <2>2
<1>7. options' # options
    OBVIOUS
<1> QED BY <1>3, <1>4, <1>5, <1>6, <1>7 DEF Next, Move, MemoExpires, CachePressure, vars

\* As long as a session's barrier stands it is not shown an older call: not by
\* replay, not by joining, not by delivery, in any order of triggers, dismissals
\* and answers (_deliver: "by construction").  A delivery that lifts the barrier
\* ends the promise.
THEOREM StandingDismissalHolds == Spec => BarrierHolds
<1>1. Init => BarrierInv
    <2> SUFFICES ASSUME Init PROVE BarrierInv
        OBVIOUS
    <2>1. \A f \in Situation, n \in Number : generation[f][n] = NoGeneration
        BY DEF Init
    <2>2. \A s \in Session, f \in Situation : barrier[s][f] = 0 /\ counter[f] = 0
        BY DEF Init
    <2> QED BY <2>1, <2>2, Reborn DEF BarrierInv
<1>2. TypeOK /\ TypeOK' /\ BooksAgree /\ BarrierInv /\ [Next]_vars => BarrierInv'
    BY NextBarrier
<1>3. TypeOK /\ BooksAgree /\ BarrierInv /\ [Next]_vars =>
        [\A s \in Session, f \in Situation :
            options'[s] # options[s] /\ options'[s].status = "ready" /\ options'[s].fingerprint = f
            => options'[s].shown >= barrier[s][f]]_vars
    BY ReadyIsNewEnough
<1> QED BY <1>1, <1>2, <1>3, TypeCorrect, BooksCorrect, PTL DEF Spec, BarrierHolds
------------------------------------------------------------------------------
(* Nobody waits in vain, as long as a fingerprint names the surroundings   *)
(* of one character: "every watcher of one situation shares it"            *)
(* (state.py:69).  Where two characters share a fingerprint, the second    *)
(* joins a call that will not answer it.                                   *)

\* Whatever situation a character is in belongs to that character.
Apart(whose) == \A a \in Actor : place[a] \in Situation => whose[place[a]] = a

Awaited(t) ==
    options[t].status = "generating" =>
        /\ options[t].fingerprint \in Situation
        /\ \E n \in Number :
              Due(generation[options[t].fingerprint][n]) /\ Receives(generation[options[t].fingerprint][n], t)

AwaitInv(whose) ==
    /\ \A t \in Session : Awaited(t)
    /\ \A f \in Situation, n \in Number : Due(generation[f][n]) => generation[f][n].actor = whose[f]

\* A session keeps waiting for what it waited for.
LEMMA AwaitedKept ==
    ASSUME NEW t \in Session, Awaited(t), options'[t] = options[t],
           \A f \in Situation, n \in Number :
              Due(generation[f][n]) /\ Receives(generation[f][n], t) =>
                 /\ Due(generation'[f][n])
                 /\ generation'[f][n].actor = generation[f][n].actor
                 /\ \A sub \in generation[f][n].subscribers :
                       sub.session = t => sub \in generation'[f][n].subscribers
    PROVE  Awaited(t)'
<1> SUFFICES ASSUME options[t].status = "generating"
             PROVE  Awaited(t)'
    BY DEF Awaited
<1> DEFINE f == options[t].fingerprint
<1>1. f \in Situation
    BY DEF Awaited
<1>2. PICK n \in Number : Due(generation[f][n]) /\ Receives(generation[f][n], t)
    BY DEF Awaited
<1>3. PICK sub \in generation[f][n].subscribers : sub.session = t /\ sub.token = options[t].token
    BY <1>2 DEF Receives
<1>4. /\ Due(generation'[f][n]) /\ generation'[f][n].actor = generation[f][n].actor
      /\ sub \in generation'[f][n].subscribers
    BY <1>1, <1>2, <1>3
<1>5. generation[f][n].actor = options[t].owner
    BY <1>2 DEF Receives
<1>6. Receives(generation[f][n], t)'
    BY <1>3, <1>4, <1>5 DEF Receives
<1>7. Due(generation[f][n])'
    BY <1>4 DEF Due
<1> QED BY <1>1, <1>6, <1>7 DEF Awaited

LEMMA TriggerAwaits ==
    ASSUME NEW whose, TypeOK, BooksAgree, Apart(whose), AwaitInv(whose),
           NEW s \in Session, NEW f \in Situation,
           TriggerJoins(s, f) \/ TriggerQueues(s, f) \/ TriggerStarts(s, f) \/ TriggerStartFails(s, f)
    PROVE  AwaitInv(whose)'
<1> DEFINE token == Own(s).token + 1
           new == Subscriber(s, token)
<1>1. new.session = s /\ new.token = token
    BY DEF Subscriber
<1>2. whose[f] = puppet[s]
    <2>1. puppet[s] # NoActor /\ place[puppet[s]] = f
        BY DEF TriggerJoins, TriggerQueues, TriggerStarts, TriggerStartFails, Starts, Asks, Watches
    <2>2. puppet[s] \in Actor
        BY <2>1 DEF TypeOK
    <2> QED BY <2>1, <2>2 DEF Apart
<1>3. \A t \in Session : t # s => options'[t] = options[t]
    BY DEF TriggerJoins, TriggerQueues, TriggerStarts, TriggerStartFails, Show, TypeOK
<1>4. \/ options'[s] = Options(puppet[s], f, "generating", token, 0) /\ ~TriggerStartFails(s, f)
      \/ options'[s] = Options(puppet[s], f, "degraded", token, 0)
    BY DEF TriggerJoins, TriggerQueues, TriggerStarts, TriggerStartFails, Show, TypeOK
<1> HIDE DEF token
<1>5. ASSUME NEW n \in Number, Due(generation'[f][n]), new \in generation'[f][n].subscribers,
             generation'[f][n].actor = puppet[s]
      PROVE  Awaited(s)'
    <2>1. CASE options'[s] = Options(puppet[s], f, "generating", token, 0)
        <3>1. /\ options'[s].fingerprint = f /\ options'[s].token = token /\ options'[s].owner = puppet[s]
            BY <2>1 DEF Options
        <3>2. Receives(generation[f][n], s)'
            BY <1>1, <1>5, <3>1 DEF Receives
        <3>3. Due(generation[f][n])'
            BY <1>5 DEF Due
        <3> QED BY <3>1, <3>2, <3>3 DEF Awaited
    <2>2. CASE options'[s] = Options(puppet[s], f, "degraded", token, 0)
        BY <2>2 DEF Awaited, Options
    <2> QED BY <1>4, <2>1, <2>2
<1>6. CASE TriggerJoins(s, f)
    <2>1. PICK n \in Number : Subscribe(s, f, n) /\ Due(generation[f][n])
        <3>1. pending[f] \in Numbers /\ chain[f].successor \in Numbers /\ Books(f)
            BY DEF TypeOK, BooksAgree
        <3>2. CASE Joinable(s, f) /\ Subscribe(s, f, pending[f])
            <4>1. pending[f] \in Number
                BY <3>1, <3>2 DEF Joinable, Numbers, Number
            <4>2. Due(generation[f][pending[f]])
                BY <3>1, <4>1 DEF Books, Working, Due
            <4> QED BY <3>2, <4>1, <4>2
        <3>3. CASE chain[f].successor # 0 /\ Subscribe(s, f, chain[f].successor)
            <4>1. chain[f].successor \in Number
                BY <3>1, <3>3 DEF Numbers, Number
            <4>2. Due(generation[f][chain[f].successor])
                BY <3>1, <4>1 DEF Books, Due
            <4> QED BY <3>3, <4>1, <4>2
        <3> QED BY <1>6, <3>2, <3>3 DEF TriggerJoins
    <2>2. ASSUME NEW h \in Situation, NEW m \in Number
          PROVE  /\ generation'[h][m].phase = generation[h][m].phase
                 /\ generation'[h][m].retired = generation[h][m].retired
                 /\ generation'[h][m].actor = generation[h][m].actor
                 /\ generation'[h][m].subscribers =
                       IF h = f /\ m = n THEN generation[f][n].subscribers \union {new}
                       ELSE generation[h][m].subscribers
        <3>1. Subscribe(s, f, n) /\ new = Subscriber(s, Own(s).token + 1)
            BY <2>1 DEF token
        <3> HIDE DEF new
        <3> QED BY <3>1, SubscribeAdds
    <2>3. \A h \in Situation, m \in Number : Due(generation'[h][m]) <=> Due(generation[h][m])
        BY <2>2 DEF Due
    <2>4. Awaited(s)'
        <3>1. Due(generation'[f][n]) /\ new \in generation'[f][n].subscribers
            BY <2>1, <2>2, <2>3
        <3>2. generation'[f][n].actor = puppet[s]
            BY <1>2, <2>1, <2>2 DEF AwaitInv
        <3> QED BY <1>5, <3>1, <3>2
    <2>5. ASSUME NEW t \in Session, t # s PROVE Awaited(t)'
        <3>1. Awaited(t) /\ options'[t] = options[t]
            BY <1>3, <2>5 DEF AwaitInv
        <3>2. \A h \in Situation, m \in Number :
                 /\ generation'[h][m].actor = generation[h][m].actor
                 /\ generation[h][m].subscribers \subseteq generation'[h][m].subscribers
            BY <2>2
        <3> QED BY <2>3, <3>1, <3>2, AwaitedKept
    <2>6. \A h \in Situation, m \in Number : Due(generation'[h][m]) => generation'[h][m].actor = whose[h]
        BY <2>2, <2>3 DEF AwaitInv
    <2> QED BY <2>4, <2>5, <2>6 DEF AwaitInv, Due
<1>7. CASE TriggerQueues(s, f) \/ TriggerStarts(s, f) \/ TriggerStartFails(s, f)
    <2> DEFINE n == counter[f] + 1
    <2>1. /\ n \in Number /\ ~Due(generation[f][n])
          /\ TriggerStartFails(s, f) => ~Due(generation'[f][n])
          /\ ~TriggerStartFails(s, f) => /\ generation'[f][n].subscribers = {new}
                                         /\ generation'[f][n].actor = puppet[s]
                                         /\ Due(generation'[f][n])
          /\ \A h \in Situation, m \in Number : ~(h = f /\ m = n) => generation'[h][m] = generation[h][m]
        BY <1>7, NewCall DEF token
    <2> HIDE DEF n, new
    <2>2. Awaited(s)'
        <3>1. CASE TriggerStartFails(s, f)
            <4>1. options'[s] = Options(puppet[s], f, "degraded", token, 0)
                BY <1>4, <3>1
            <4> QED BY <4>1 DEF Awaited, Options
        <3>2. CASE ~TriggerStartFails(s, f)
            BY <1>5, <2>1, <3>2
        <3> QED BY <3>1, <3>2
    <2>3. ASSUME NEW t \in Session, t # s PROVE Awaited(t)'
        <3>1. Awaited(t) /\ options'[t] = options[t]
            BY <1>3, <2>3 DEF AwaitInv
        <3>2. \A h \in Situation, m \in Number :
                 Due(generation[h][m]) => generation'[h][m] = generation[h][m]
            BY <2>1
        <3> QED BY <3>1, <3>2, AwaitedKept
    <2>4. ASSUME NEW h \in Situation, NEW m \in Number, Due(generation'[h][m])
          PROVE  generation'[h][m].actor = whose[h]
        <3>1. CASE h = f /\ m = n
            BY <1>2, <2>1, <2>4, <3>1
        <3>2. CASE ~(h = f /\ m = n)
            <4>1. generation'[h][m] = generation[h][m]
                BY <2>1, <3>2
            <4> QED BY <2>4, <4>1 DEF AwaitInv
        <3> QED BY <3>1, <3>2
    <2> QED BY <2>2, <2>3, <2>4 DEF AwaitInv, Due
<1> QED BY <1>6, <1>7

\* Everybody who waited for a call that ends is told.
LEMMA CompleteAwaits ==
    ASSUME NEW whose, TypeOK, BooksAgree, AwaitInv(whose), NEW f \in Situation, NEW n \in Number, Complete(f, n)
    PROVE  AwaitInv(whose)'
<1> DEFINE g == generation[f][n]
           next == chain[f].successor
<1>1. PICK starts \in BOOLEAN :
        CompleteReady(f, n, starts) \/ CompleteDegraded(f, n, starts) \/ CompleteRetired(f, n, starts)
    BY DEF Complete
<1>2. PICK o : /\ Settle(f, n, starts, o)
               /\ \/ o = Delivered(options, g, f, "ready", n)
                  \/ o = Delivered(options, g, f, "degraded", 0)
                  \/ o = options /\ ~Due(g)
    BY <1>1 DEF CompleteReady, CompleteDegraded, CompleteRetired, Due
<1>3. ASSUME NEW t \in Session PROVE Awaited(t)'
    <2> SUFFICES ASSUME options'[t].status = "generating" PROVE Awaited(t)'
        BY DEF Awaited
    <2>1. o[t].status = "generating" => o[t] = options[t] /\ ~(Due(g) /\ Receives(g, t))
        BY <1>2 DEF Delivered, Options
    <2>2. CASE HandsOver(f, n) /\ ~starts
        <3>1. options' = Delivered(o, generation[f][next], f, "degraded", 0)
            BY <1>2, <2>2 DEF Settle, Dropped
        <3>2. ~Receives(generation[f][next], t) /\ options'[t] = o[t]
            BY <3>1 DEF Delivered, Options
        <3>3. options'[t] = options[t] /\ ~(Due(g) /\ Receives(g, t))
            BY <2>1, <3>2
        <3>4. \A h \in Situation, m \in Number :
                 Due(generation[h][m]) /\ Receives(generation[h][m], t) => ~Ends(f, n, starts, h, m)
            BY <3>2, <3>3 DEF Ends
        <3>5. \A h \in Situation, m \in Number : ~Ends(f, n, starts, h, m) =>
                 /\ Due(generation[h][m]) <=> Due(generation'[h][m])
                 /\ generation'[h][m].subscribers = generation[h][m].subscribers
                 /\ generation'[h][m].actor = generation[h][m].actor
            BY <1>2, SettleKeeps
        <3> QED BY <3>3, <3>4, <3>5, AwaitedKept DEF AwaitInv
    <2>3. CASE ~(HandsOver(f, n) /\ ~starts)
        <3>1. options' = o
            BY <1>2, <2>3 DEF Settle
        <3>3. options'[t] = options[t] /\ ~(Due(g) /\ Receives(g, t))
            BY <2>1, <3>1
        <3>4. \A h \in Situation, m \in Number :
                 Due(generation[h][m]) /\ Receives(generation[h][m], t) => ~Ends(f, n, starts, h, m)
            BY <2>3, <3>3 DEF Ends
        <3>5. \A h \in Situation, m \in Number : ~Ends(f, n, starts, h, m) =>
                 /\ Due(generation[h][m]) <=> Due(generation'[h][m])
                 /\ generation'[h][m].subscribers = generation[h][m].subscribers
                 /\ generation'[h][m].actor = generation[h][m].actor
            BY <1>2, SettleKeeps
        <3> QED BY <3>3, <3>4, <3>5, AwaitedKept DEF AwaitInv
    <2> QED BY <2>2, <2>3
<1>4. ASSUME NEW h \in Situation, NEW m \in Number, Due(generation'[h][m])
      PROVE  generation'[h][m].actor = whose[h]
    <2>1. Due(generation[h][m]) /\ generation'[h][m].actor = generation[h][m].actor
        BY <1>2, <1>4, SettleKeeps
    <2> QED BY <2>1 DEF AwaitInv
<1> QED BY <1>3, <1>4 DEF AwaitInv, Due

LEMMA DismissAwaits ==
    ASSUME NEW whose, TypeOK, BooksAgree, AwaitInv(whose), NEW s \in Session, Dismiss(s)
    PROVE  AwaitInv(whose)'
<1>1. options'[s].status = "unavailable" /\ \A t \in Session : t # s => options'[t] = options[t]
    BY DEF Dismiss, Options, TypeOK
<1>2. Awaited(s)'
    BY <1>1 DEF Awaited
<1>3. CASE options[s].fingerprint = Nowhere
    <2>1. generation' = generation
        BY <1>3 DEF Dismiss
    <2>2. ASSUME NEW t \in Session, t # s PROVE Awaited(t)'
        BY <1>1, <2>1, <2>2, AwaitedKept DEF AwaitInv
    <2> QED BY <1>2, <2>1, <2>2 DEF AwaitInv, Due
<1>4. CASE options[s].fingerprint # Nowhere
    <2> DEFINE f == options[s].fingerprint
    <2>1. f \in Situation /\ Forget(s, f)
        BY <1>4 DEF Dismiss, TypeOK, OptionsType
    <2> HIDE DEF f
    <2>2. ASSUME NEW t \in Session, t # s PROVE Awaited(t)'
        <3>1. \A h \in Situation, m \in Number :
                 \A sub \in generation[h][m].subscribers :
                     Due(generation[h][m]) /\ sub.session # s =>
                        /\ Due(generation'[h][m]) /\ sub \in generation'[h][m].subscribers
                        /\ generation'[h][m].actor = generation[h][m].actor
            BY <2>1, ForgetKeeps
        <3>2. ASSUME NEW h \in Situation, NEW m \in Number, Due(generation[h][m]), Receives(generation[h][m], t)
              PROVE  /\ Due(generation'[h][m])
                     /\ generation'[h][m].actor = generation[h][m].actor
                     /\ \A sub \in generation[h][m].subscribers :
                           sub.session = t => sub \in generation'[h][m].subscribers
            <4>1. PICK x \in generation[h][m].subscribers : x.session = t
                BY <3>2 DEF Receives
            <4> QED BY <2>2, <3>1, <3>2, <4>1
        <3> QED BY <1>1, <2>2, <3>2, AwaitedKept DEF AwaitInv
    <2>3. ASSUME NEW h \in Situation, NEW m \in Number, Due(generation'[h][m])
          PROVE  generation'[h][m].actor = whose[h]
        <3>1. Due(generation[h][m]) /\ generation'[h][m].actor = generation[h][m].actor
            BY <2>1, <2>3, ForgetKeeps
        <3> QED BY <3>1 DEF AwaitInv
    <2> QED BY <1>2, <2>2, <2>3 DEF AwaitInv, Due
<1> QED BY <1>3, <1>4

LEMMA NextAwaits ==
    ASSUME NEW whose, TypeOK, BooksAgree, Apart(whose), AwaitInv(whose), [Next]_vars
    PROVE  AwaitInv(whose)'
<1>1. ASSUME generation' = generation,
             \A t \in Session : options'[t] = options[t] \/ options'[t].status # "generating"
      PROVE  AwaitInv(whose)'
    <2>1. ASSUME NEW t \in Session PROVE Awaited(t)'
        <3>1. CASE options'[t] = options[t]
            BY <1>1, <3>1, AwaitedKept DEF AwaitInv
        <3>2. CASE options'[t].status # "generating"
            BY <3>2 DEF Awaited
        <3> QED BY <1>1, <3>1, <3>2
    <2> QED BY <1>1, <2>1 DEF AwaitInv, Due
<1>2. CASE \/ \E a \in Actor, f \in Situation \union {Nowhere} : Move(a, f)
           \/ \E f \in Situation : MemoExpires(f) \/ CachePressure(f)
           \/ UNCHANGED vars
    <2>1. generation' = generation /\ options' = options
        BY <1>2 DEF Move, MemoExpires, CachePressure, calls, vars
    <2> QED BY <1>1, <2>1
<1>3. ASSUME NEW s \in Session, NEW a \in Actor \union {NoActor}, ChangePuppet(s, a)
      PROVE  AwaitInv(whose)'
    <2>1. \A t \in Session : options'[t] = options[t] \/ options'[t] = NoOptions
        BY <1>3 DEF ChangePuppet, TypeOK
    <2>2. generation' = generation
        BY <1>3 DEF ChangePuppet, calls
    <2> QED BY <1>1, <2>1, <2>2 DEF NoOptions
<1>4. ASSUME NEW s \in Session, Trigger(s) PROVE AwaitInv(whose)'
    <2>1. PICK f \in Situation :
            \/ TriggerInMemo(s, f) \/ TriggerReplays(s, f) \/ TriggerBarred(s, f)
            \/ TriggerJoins(s, f) \/ TriggerQueues(s, f)
            \/ TriggerStarts(s, f) \/ TriggerStartFails(s, f)
        BY <1>4 DEF Trigger
    <2>2. CASE TriggerInMemo(s, f) \/ TriggerReplays(s, f) \/ TriggerBarred(s, f)
        <3>1. generation' = generation
            BY <2>2 DEF TriggerInMemo, TriggerReplays, TriggerBarred, calls
        <3>2. PICK status, shown : status \in {"degraded", "ready"} /\ Show(s, f, status, shown)
            BY <2>2 DEF TriggerInMemo, TriggerReplays, TriggerBarred
        <3>3. \A t \in Session : options'[t] = options[t] \/ options'[t].status = status
            BY <3>2 DEF Show, Options, TypeOK
        <3>4. \A t \in Session : options'[t] = options[t] \/ options'[t].status # "generating"
            BY <3>2, <3>3
        <3> QED BY <1>1, <3>1, <3>4
    <2> QED BY <2>1, <2>2, TriggerAwaits
<1> QED BY <1>2, <1>3, <1>4, DismissAwaits, CompleteAwaits DEF Next

\* A session that shows "generating" is among the subscribers of a call for its
\* actor that is queued or running, for any number of sessions, dismissals and
\* failures, while no two characters share a fingerprint (_settle_active,
\* _start_successor, evict).
THEOREM NobodyWaitsInVain ==
    ASSUME NEW whose
    PROVE  Spec /\ []Apart(whose) => []GeneratingIsAwaited
<1>1. Init => AwaitInv(whose)
    <2> SUFFICES ASSUME Init PROVE AwaitInv(whose)
        OBVIOUS
    <2>1. \A f \in Situation, n \in Number : generation[f][n] = NoGeneration
        BY DEF Init
    <2>2. \A s \in Session : options[s].status = "none"
        BY DEF Init, NoOptions
    <2> QED BY <2>1, <2>2, Reborn DEF AwaitInv, Awaited
<1>2. TypeOK /\ BooksAgree /\ Apart(whose) /\ AwaitInv(whose) /\ [Next]_vars => AwaitInv(whose)'
    BY NextAwaits
<1>3. AwaitInv(whose) => GeneratingIsAwaited
    BY DEF AwaitInv, Awaited, GeneratingIsAwaited, Due
<1> QED BY <1>1, <1>2, <1>3, TypeCorrect, BooksCorrect, PTL DEF Spec
=============================================================================
