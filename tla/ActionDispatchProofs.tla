------------------------ MODULE ActionDispatchProofs -------------------------
(***************************************************************************)
(* Proofs about the dispatcher, for any requests, characters, cache and    *)
(* number of sequences.  At most one admitted request of a sequence is     *)
(* open (OneOpen); until it settles the cache has no result of its, and    *)
(* afterwards the one it was told (Answered); so a request that comes      *)
(* again is replayed or refused.                                           *)
(***************************************************************************)
EXTENDS ActionDispatchProperties, FiniteSetTheorems, SequenceTheorems, TLAPS

USE DispatchAssumption

------------------------------------------------------------------------------
(* The inductive invariant.                                                *)

Result == [id : Request, outcome : Outcome]
Run == [id : Request, epoch : Epoch]
EntryType == [id : Request, outcome : Outcome \cup {"stale"}, origin : Origin]
Call == [asker : Request \cup {None}, from : Character \cup {None}, to : Character \cup {None}]
Answer == [id : Request, epoch : Epoch, as : Outcome \cup {"lost"}]

DispatchTypeOK ==
    /\ puppet \in Character \cup {None} /\ epoch \in Epoch /\ transition \in BOOLEAN
    /\ marker \in Epoch \cup {NoEpoch}
    /\ cache \in Seq(Result) /\ Len(cache) <= Capacity
    /\ running \subseteq Run
    /\ queue \in Seq(EntryType) /\ scheduled \in BOOLEAN /\ draining \in BOOLEAN
    /\ due \in Seq(Call)
    /\ named \in [Request -> Epoch \cup {NoEpoch}]
    /\ runs \in [Request -> 0..2]
    /\ evicted \subseteq Request
    /\ said \subseteq Answer

\* What an entry may be, by why it is in the queue.
Entries ==
    /\ draining => queue # <<>>
    /\ \A i \in DOMAIN queue :
          /\ queue[i].origin = "result" => queue[i].outcome \in Outcome
          /\ queue[i].origin \in {"recovery", "answer"} => queue[i].outcome = "error"
          /\ queue[i].origin \in {"stale", "staleAnswer"} => queue[i].outcome = "stale"

\* The work of this sequence that has not settled: of one request at most, and then
\* the marker is taken.
OpenRuns == {a \in running : a.epoch = epoch}
OpenEntries == {i \in DOMAIN queue : queue[i].origin \in Admitted}

OneOpen ==
    /\ marker \in {NoEpoch, epoch}
    /\ \A a, b \in OpenRuns : a = b
    /\ \A i, j \in OpenEntries : i = j
    /\ OpenRuns = {} \/ OpenEntries = {}
    /\ marker = NoEpoch <=> OpenRuns = {} /\ OpenEntries = {}

\* The sequence of a request is the one it was first sent in.
Sequenced ==
    /\ \A r \in Request : named[r] <= epoch /\ (runs[r] # 0 => named[r] # NoEpoch)
    /\ \A a \in running : named[a.id] = a.epoch
    /\ \A i \in OpenEntries : named[queue[i].id] = epoch
    /\ \A i \in DOMAIN cache : named[cache[i].id] = epoch
    /\ \A a \in said : named[a.id] = a.epoch

CachedAs(r, outcome) == \E i \in DOMAIN cache : cache[i] = [id |-> r, outcome |-> outcome]
NoTwo == \A i, j \in DOMAIN cache : cache[i].id = cache[j].id => i = j

\* The result of r is not yet known.
Waiting(r) == (\E a \in OpenRuns : a.id = r)
              \/ \E i \in DOMAIN queue : queue[i].id = r /\ queue[i].origin = "result"
\* It is, but the answer with it has not left.
Answering(r) == \E i \in DOMAIN queue : queue[i].id = r /\ queue[i].origin \in {"recovery", "answer"}

\* What the cache tells of a request.
Told(r) ==
    /\ runs[r] <= 1
    /\ runs[r] # 0 /\ named[r] = epoch => Cached(r) \/ Waiting(r)
    /\ Waiting(r) => ~Cached(r)
    /\ Answering(r) => CachedAs(r, "error")
    /\ \A a \in said : a.id = r /\ a.epoch = epoch /\ a.as # "lost" => CachedAs(r, a.as)

Answered == \A r \in Request \ evicted : Told(r)

\* A change of puppet that is due was asked for by a request that is answered.
Switching ==
    /\ \A i \in DOMAIN due : Transition(due[i]) => transition /\ \E a \in said : a.id = due[i].asker
    /\ \A i, j \in DOMAIN due : Transition(due[i]) /\ Transition(due[j]) => i = j

DispatchInv ==
    /\ DispatchTypeOK /\ Entries /\ OneOpen /\ Sequenced /\ NoTwo
    /\ Answered /\ AnswersAgree /\ Switching

------------------------------------------------------------------------------
(* Sequences.                                                              *)

LEMMA Appended ==
    ASSUME NEW S, NEW s \in Seq(S), NEW e \in S
    PROVE  /\ Append(s, e) \in Seq(S) /\ Len(s) \in Nat /\ Len(Append(s, e)) = Len(s) + 1
           /\ DOMAIN s = 1..Len(s) /\ DOMAIN Append(s, e) = 1..(Len(s) + 1)
           /\ Append(s, e)[Len(s) + 1] = e
           /\ \A i \in 1..Len(s) : Append(s, e)[i] = s[i] /\ s[i] \in S
BY AppendProperties, LenProperties, ElementOfSeq

LEMMA Tailed ==
    ASSUME NEW S, NEW s \in Seq(S), s # <<>>
    PROVE  /\ Tail(s) \in Seq(S) /\ Len(s) \in Nat \ {0} /\ Len(Tail(s)) = Len(s) - 1
           /\ DOMAIN s = 1..Len(s) /\ DOMAIN Tail(s) = 1..(Len(s) - 1)
           /\ Head(s) = s[1] /\ Head(s) \in S
           /\ \A i \in 1..(Len(s) - 1) : Tail(s)[i] = s[i + 1]
BY HeadTailProperties, LenProperties, EmptySeq

LEMMA Removes ==
    ASSUME NEW S, NEW s \in Seq(S), NEW i \in 1..Len(s)
    PROVE  /\ RemoveAt(s, i) \in Seq(S) /\ Len(RemoveAt(s, i)) = Len(s) - 1
           /\ \A k \in 1..(Len(s) - 1) : RemoveAt(s, i)[k] = IF k < i THEN s[k] ELSE s[k + 1]
<1> DEFINE a == SubSeq(s, 1, i - 1)
           b == SubSeq(s, i + 1, Len(s))
           c == RemoveAt(s, i)
<1>1. Len(s) \in Nat /\ i \in Int /\ i - 1 \in Int /\ i + 1 \in Int /\ 1 \in Int /\ Len(s) \in Int
    BY LenProperties
<1>2. \A k \in 1..Len(s) : s[k] \in S
    BY ElementOfSeq
<1>3. a \in Seq(S) /\ Len(a) = i - 1 /\ \A k \in 1..(i - 1) : a[k] = s[k]
    <2>1. \A k \in 1..(i - 1) : s[k] \in S
        BY <1>1, <1>2
    <2>2. /\ a \in Seq(S) /\ Len(a) = IF 1 <= i - 1 THEN (i - 1) - 1 + 1 ELSE 0
          /\ \A k \in 1..((i - 1) - 1 + 1) : a[k] = s[1 + k - 1]
        BY <1>1, <2>1, SubSeqProperties
    <2> QED BY <1>1, <2>2
<1>4. b \in Seq(S) /\ Len(b) = Len(s) - i /\ \A k \in 1..(Len(s) - i) : b[k] = s[i + k]
    <2>1. \A k \in (i + 1)..Len(s) : s[k] \in S
        BY <1>1, <1>2
    <2>2. /\ b \in Seq(S) /\ Len(b) = IF i + 1 <= Len(s) THEN Len(s) - (i + 1) + 1 ELSE 0
          /\ \A k \in 1..(Len(s) - (i + 1) + 1) : b[k] = s[i + 1 + k - 1]
        BY <1>1, <2>1, SubSeqProperties
    <2> HIDE DEF b
    <2>3. Len(b) = Len(s) - i
        BY <1>1, <2>2
    <2>4. ASSUME NEW k \in 1..(Len(s) - i) PROVE b[k] = s[i + k]
        <3>1. k \in 1..(Len(s) - (i + 1) + 1) /\ i + 1 + k - 1 = i + k
            BY <1>1
        <3> QED BY <2>2, <3>1
    <2> QED BY <2>2, <2>3, <2>4
<1>5. c = a \o b
    BY DEF RemoveAt
<1> HIDE DEF a, b, c
<1>6. /\ c \in Seq(S) /\ Len(c) = Len(a) + Len(b)
      /\ \A k \in 1..(Len(a) + Len(b)) : c[k] = IF k <= Len(a) THEN a[k] ELSE b[k - Len(a)]
    BY <1>3, <1>4, <1>5, ConcatProperties
<1>7. ASSUME NEW k \in 1..(Len(s) - 1) PROVE c[k] = IF k < i THEN s[k] ELSE s[k + 1]
    <2>1. c[k] = IF k <= i - 1 THEN a[k] ELSE b[k - (i - 1)]
        BY <1>1, <1>3, <1>4, <1>6
    <2>2. CASE k < i
        BY <1>1, <1>3, <2>1, <2>2
    <2>3. CASE ~(k < i)
        <3>1. k - (i - 1) \in 1..(Len(s) - i) /\ i + (k - (i - 1)) = k + 1
            BY <1>1, <2>3
        <3>2. b[k - (i - 1)] = s[k + 1]
            BY <1>4, <3>1
        <3> QED BY <1>1, <2>1, <2>3, <3>2
    <2> QED BY <2>2, <2>3
<1>8. Len(c) = Len(s) - 1
    BY <1>1, <1>3, <1>4, <1>6
<1> QED BY <1>6, <1>7, <1>8 DEF c

\* What the cache holds once a result was put into it.
LEMMA CacheHolds ==
    ASSUME DispatchTypeOK, NoTwo, NEW r \in Request, NEW outcome \in Outcome, CacheResult(r, outcome)
    PROVE  /\ cache' \in Seq(Result) /\ Len(cache') <= Capacity /\ NoTwo'
           /\ evicted \subseteq evicted' /\ evicted' \subseteq Request
           /\ CachedAs(r, outcome)'
           /\ \A i \in DOMAIN cache' : cache'[i].id = r \/ \E j \in DOMAIN cache : cache'[i] = cache[j]
           /\ \A j \in DOMAIN cache : cache[j].id = r \/ cache[j].id \in evicted'
                                       \/ \E i \in DOMAIN cache' : cache'[i] = cache[j]
<1> DEFINE new == [id |-> r, outcome |-> outcome]
           i == ResultOf(r)
           others == IF Cached(r) THEN RemoveAt(cache, i) ELSE cache
           all == Append(others, new)
           n == Len(others)
<1>1. cache \in Seq(Result) /\ Len(cache) \in Nat /\ DOMAIN cache = 1..Len(cache) /\ Len(cache) <= Capacity
    BY LenProperties DEF DispatchTypeOK
<1>2. new \in Result /\ new.id = r
    BY DEF Result
<1>3. Cached(r) => i \in 1..Len(cache) /\ cache[i].id = r
    BY <1>1 DEF Cached, ResultOf
<1>4. /\ others \in Seq(Result) /\ n \in Nat /\ n <= Len(cache)
      /\ \A k \in 1..n : others[k].id # r /\ \E j \in 1..Len(cache) : others[k] = cache[j]
      /\ \A j \in 1..Len(cache) : cache[j].id = r \/ \E k \in 1..n : others[k] = cache[j]
      /\ \A k, l \in 1..n : others[k].id = others[l].id => k = l
    <2>1. CASE Cached(r)
        <3>1. others = RemoveAt(cache, i)
            BY <2>1
        <3> HIDE DEF i
        <3>2. /\ others \in Seq(Result) /\ n = Len(cache) - 1
              /\ \A k \in 1..(Len(cache) - 1) : others[k] = IF k < i THEN cache[k] ELSE cache[k + 1]
            BY <1>1, <1>3, <2>1, <3>1, Removes
        <3> HIDE DEF others
        <3>3. i \in 1..Len(cache) /\ cache[i].id = r
            BY <1>3, <2>1
        <3>4. \A k \in 1..n : (IF k < i THEN k ELSE k + 1) \in 1..Len(cache) \ {i}
            BY <1>1, <3>2, <3>3
        <3>5. \A j \in 1..Len(cache) : j # i => cache[j].id # r
            BY <1>1, <3>3 DEF NoTwo
        <3>6. \A k \in 1..n : others[k].id # r /\ \E j \in 1..Len(cache) : others[k] = cache[j]
            BY <3>2, <3>4, <3>5
        <3>7. ASSUME NEW j \in 1..Len(cache), cache[j].id # r PROVE \E k \in 1..n : others[k] = cache[j]
            <4>1. CASE j < i
                <5>1. j \in 1..n /\ others[j] = cache[j]
                    BY <1>1, <3>2, <3>3, <4>1
                <5> QED BY <5>1
            <4>2. CASE j > i
                <5>1. j - 1 \in 1..n /\ ~(j - 1 < i) /\ (j - 1) + 1 = j
                    BY <1>1, <3>2, <3>3, <4>2
                <5>2. others[j - 1] = cache[j]
                    BY <3>2, <5>1
                <5> QED BY <5>1, <5>2
            <4> QED BY <3>3, <3>7, <4>1, <4>2
        <3>8. ASSUME NEW k \in 1..n, NEW l \in 1..n, others[k].id = others[l].id PROVE k = l
            <4> DEFINE at(x) == IF x < i THEN x ELSE x + 1
            <4>1. at(k) \in 1..Len(cache) /\ at(l) \in 1..Len(cache) /\ others[k] = cache[at(k)] /\ others[l] = cache[at(l)]
                BY <3>2, <3>4
            <4>2. at(k) = at(l)
                BY <1>1, <3>8, <4>1 DEF NoTwo
            <4> QED BY <3>2, <3>3, <4>2
        <3> QED BY <1>1, <3>2, <3>6, <3>7, <3>8
    <2>2. CASE ~Cached(r)
        <3>1. others = cache
            BY <2>2
        <3> HIDE DEF others
        <3> QED BY <1>1, <2>2, <3>1 DEF Cached, NoTwo
    <2> QED BY <2>1, <2>2
<1>5. IF Len(all) > Capacity
      THEN cache' = Tail(all) /\ evicted' = evicted \cup {Head(all).id}
      ELSE cache' = all /\ evicted' = evicted
    BY DEF CacheResult
<1> HIDE DEF others
<1>6. /\ all \in Seq(Result) /\ Len(all) = n + 1 /\ DOMAIN all = 1..(n + 1) /\ all[n + 1] = new /\ all # <<>>
      /\ \A k \in 1..n : all[k] = others[k]
    BY <1>2, <1>4, Appended, AppendProperties
<1> HIDE DEF new, i, all, n
<1>7. \A k \in 1..(n + 1) : all[k] \in Result /\ (all[k].id = r <=> k = n + 1)
    <2>1. \A k \in 1..(n + 1) : k \in 1..n \/ k = n + 1
        BY <1>4
    <2> QED BY <1>2, <1>4, <1>6, <2>1, ElementOfSeq DEF n
<1>8. \A k, l \in 1..(n + 1) : all[k].id = all[l].id => k = l
    <2>1. \A k \in 1..(n + 1) : k \in 1..n \/ k = n + 1
        BY <1>4
    <2> QED BY <1>4, <1>6, <1>7, <2>1
<1>9. CASE Len(all) > Capacity
    <2>1. /\ cache' \in Seq(Result) /\ Len(cache') = n /\ DOMAIN cache' = 1..n
          /\ \A k \in 1..n : cache'[k] = all[k + 1]
          /\ evicted' = evicted \cup {all[1].id} /\ n <= Capacity /\ n >= 1
        <3>1. cache' = Tail(all) /\ evicted' = evicted \cup {Head(all).id}
            BY <1>5, <1>9
        <3>2. /\ Tail(all) \in Seq(Result) /\ Len(all) - 1 = n /\ Len(Tail(all)) = Len(all) - 1
              /\ DOMAIN Tail(all) = 1..(Len(all) - 1) /\ Head(all) = all[1]
              /\ \A k \in 1..(Len(all) - 1) : Tail(all)[k] = all[k + 1]
            BY <1>4, <1>6, Tailed
        <3>3. n <= Capacity /\ n >= 1
            BY <1>1, <1>4, <1>6, <1>9
        <3> QED BY <3>1, <3>2, <3>3
    <2>2. all[1].id \in Request
        BY <1>4, <1>7 DEF Result
    <2>3. CachedAs(r, outcome)'
        <3>1. n \in DOMAIN cache' /\ cache'[n] = new
            BY <1>4, <1>6, <2>1
        <3> QED BY <3>1 DEF CachedAs, new
    <2>4. NoTwo'
        <3>1. ASSUME NEW k \in 1..n, NEW l \in 1..n, cache'[k].id = cache'[l].id PROVE k = l
            <4>1. k + 1 \in 1..(n + 1) /\ l + 1 \in 1..(n + 1)
                BY <1>4
            <4>2. all[k + 1].id = all[l + 1].id
                BY <2>1, <3>1
            <4>3. k + 1 = l + 1
                BY <1>8, <4>1, <4>2
            <4> QED BY <1>4, <4>3
        <3> QED BY <2>1, <3>1 DEF NoTwo
    <2>5. ASSUME NEW k \in DOMAIN cache' PROVE cache'[k].id = r \/ \E j \in DOMAIN cache : cache'[k] = cache[j]
        <3>1. k \in 1..n /\ cache'[k] = all[k + 1] /\ k + 1 \in 1..(n + 1)
            BY <1>4, <2>1
        <3>2. CASE k + 1 \in 1..n
            <4>1. cache'[k] = others[k + 1]
                BY <1>6, <3>1, <3>2
            <4>2. PICK j \in 1..Len(cache) : others[k + 1] = cache[j]
                BY <1>4, <3>2
            <4> QED BY <1>1, <4>1, <4>2
        <3>3. CASE k + 1 = n + 1
            BY <1>2, <1>6, <3>1, <3>3
        <3>4. k + 1 \in 1..n \/ k + 1 = n + 1
            BY <1>4, <3>1
        <3> QED BY <3>2, <3>3, <3>4
    <2>6. ASSUME NEW j \in DOMAIN cache, cache[j].id # r, cache[j].id \notin evicted'
          PROVE  \E k \in DOMAIN cache' : cache'[k] = cache[j]
        <3>1. PICK k \in 1..n : others[k] = cache[j]
            BY <1>1, <1>4, <2>6
        <3>2. k # 1
            BY <1>6, <2>1, <2>6, <3>1
        <3>3. k - 1 \in 1..n /\ cache'[k - 1] = all[k]
            BY <1>4, <2>1, <3>2
        <3> QED BY <1>6, <2>1, <3>1, <3>3
    <2>7. evicted' \subseteq Request
        BY <2>1, <2>2 DEF DispatchTypeOK
    <2> QED BY <2>1, <2>3, <2>4, <2>5, <2>6, <2>7
<1>10. CASE ~(Len(all) > Capacity)
    <2>1. cache' = all /\ evicted' = evicted /\ DOMAIN cache' = 1..(n + 1) /\ Len(cache') <= Capacity
        BY <1>4, <1>5, <1>6, <1>10
    <2>2. CachedAs(r, outcome)'
        <3>1. n + 1 \in DOMAIN cache' /\ cache'[n + 1] = new
            BY <1>4, <1>6, <2>1
        <3> QED BY <3>1 DEF CachedAs, new
    <2>3. NoTwo'
        BY <1>8, <2>1 DEF NoTwo
    <2>4. ASSUME NEW k \in DOMAIN cache' PROVE cache'[k].id = r \/ \E j \in DOMAIN cache : cache'[k] = cache[j]
        <3>1. k \in 1..(n + 1) /\ cache'[k] = all[k]
            BY <2>1
        <3>2. CASE k \in 1..n
            <4>1. cache'[k] = others[k]
                BY <1>6, <3>1, <3>2
            <4>2. PICK j \in 1..Len(cache) : others[k] = cache[j]
                BY <1>4, <3>2
            <4> QED BY <1>1, <4>1, <4>2
        <3>3. CASE k = n + 1
            BY <1>2, <1>6, <3>1, <3>3
        <3>4. k \in 1..n \/ k = n + 1
            BY <1>4, <3>1
        <3> QED BY <3>2, <3>3, <3>4
    <2>5. ASSUME NEW j \in DOMAIN cache, cache[j].id # r PROVE \E k \in DOMAIN cache' : cache'[k] = cache[j]
        <3>1. PICK k \in 1..n : others[k] = cache[j]
            BY <1>1, <1>4, <2>5
        <3>2. k \in 1..(n + 1) /\ cache'[k] = cache[j]
            BY <1>4, <1>6, <2>1, <3>1
        <3> QED BY <2>1, <3>2
    <2> QED BY <1>6, <2>1, <2>2, <2>3, <2>4, <2>5 DEF DispatchTypeOK
<1> QED BY <1>9, <1>10

------------------------------------------------------------------------------
(* The parts of a step.                                                    *)

\* A request that arrives keeps the sequence it names.
LEMMA Names ==
    ASSUME DispatchTypeOK, NEW r \in Request, NEW e, Arrives(r, e)
    PROVE  /\ named' \in [Request -> Epoch \cup {NoEpoch}] /\ named'[r] = e /\ e \in Epoch
           /\ \A q \in Request : named'[q] = named[q] \/ (named[q] = NoEpoch /\ named'[q] = epoch)
           /\ ~draining
<1>1. named \in [Request -> Epoch \cup {NoEpoch}] /\ epoch \in Epoch
    BY DEF DispatchTypeOK
<1>2. ~draining /\ e = (IF named[r] = NoEpoch THEN epoch ELSE named[r]) /\ named' = [named EXCEPT ![r] = e]
    BY DEF Arrives
<1>3. e \in Epoch /\ (named[r] = e \/ (named[r] = NoEpoch /\ e = epoch))
    BY <1>1, <1>2
<1> QED BY <1>1, <1>2, <1>3

LEMMA Grows ==
    ASSUME DispatchTypeOK, NEW x \in EntryType, queue' = Append(queue, x)
    PROVE  /\ queue' \in Seq(EntryType) /\ queue' # <<>>
           /\ Len(queue) + 1 \in DOMAIN queue' /\ queue'[Len(queue) + 1] = x /\ Len(queue) + 1 \notin DOMAIN queue
           /\ \A i \in DOMAIN queue : i \in DOMAIN queue' /\ queue'[i] = queue[i]
           /\ \A i \in DOMAIN queue' : i \in DOMAIN queue \/ i = Len(queue) + 1
           /\ OpenEntries' = IF x.origin \in Admitted THEN OpenEntries \cup {Len(queue) + 1} ELSE OpenEntries
<1>1. /\ queue \in Seq(EntryType) /\ queue' \in Seq(EntryType) /\ Len(queue) \in Nat
      /\ DOMAIN queue = 1..Len(queue) /\ DOMAIN queue' = 1..(Len(queue) + 1)
      /\ queue'[Len(queue) + 1] = x /\ \A i \in 1..Len(queue) : queue'[i] = queue[i]
    BY Appended DEF DispatchTypeOK
<1>2. queue' # <<>>
    BY <1>1, AppendProperties DEF DispatchTypeOK
<1> DEFINE n == Len(queue)
<1> HIDE DEF n
<1>3. /\ n + 1 \in DOMAIN queue' /\ queue'[n + 1] = x /\ n + 1 \notin DOMAIN queue
      /\ \A i \in DOMAIN queue : i \in DOMAIN queue' /\ queue'[i] = queue[i]
      /\ \A i \in DOMAIN queue' : i \in DOMAIN queue \/ i = n + 1
    BY <1>1 DEF n
<1>4. OpenEntries' = IF x.origin \in Admitted THEN OpenEntries \cup {n + 1} ELSE OpenEntries
    BY <1>3 DEF OpenEntries
<1> QED BY <1>1, <1>2, <1>3, <1>4 DEF n

LEMMA Shrinks ==
    ASSUME DispatchTypeOK, OneOpen, queue # <<>>, queue' = Tail(queue)
    PROVE  /\ queue' \in Seq(EntryType) /\ 1 \in DOMAIN queue /\ queue[1] = Head(queue) /\ Head(queue) \in EntryType
           /\ \A i \in DOMAIN queue' : i + 1 \in DOMAIN queue /\ queue'[i] = queue[i + 1]
           /\ \A i \in DOMAIN queue : i # 1 => i - 1 \in DOMAIN queue' /\ queue'[i - 1] = queue[i]
           /\ \A i, j \in OpenEntries' : i = j
           /\ Head(queue).origin \in Admitted => OpenEntries' = {} /\ OpenEntries = {1}
           /\ Head(queue).origin \notin Admitted => (OpenEntries' = {} <=> OpenEntries = {})
<1>1. /\ queue \in Seq(EntryType) /\ queue' \in Seq(EntryType) /\ Len(queue) \in Nat \ {0}
      /\ DOMAIN queue = 1..Len(queue) /\ DOMAIN queue' = 1..(Len(queue) - 1)
      /\ Head(queue) = queue[1] /\ Head(queue) \in EntryType
      /\ \A i \in 1..(Len(queue) - 1) : queue'[i] = queue[i + 1]
    BY Tailed DEF DispatchTypeOK
<1>2. ASSUME NEW i \in DOMAIN queue' PROVE i + 1 \in DOMAIN queue /\ i + 1 # 1 /\ queue'[i] = queue[i + 1] /\ i \in Nat
    BY <1>1
<1>3. ASSUME NEW i \in DOMAIN queue, i # 1 PROVE i - 1 \in DOMAIN queue' /\ queue'[i - 1] = queue[i]
    <2>1. i - 1 \in 1..(Len(queue) - 1) /\ (i - 1) + 1 = i
        BY <1>1, <1>3
    <2> QED BY <1>1, <2>1
<1>4. 1 \in DOMAIN queue
    BY <1>1
<1>5. \A i \in OpenEntries' : i + 1 \in OpenEntries /\ i + 1 # 1 /\ i \in Nat
    BY <1>2 DEF OpenEntries
<1>6. \A i \in OpenEntries : i # 1 => i - 1 \in OpenEntries'
    BY <1>3 DEF OpenEntries
<1>7. ASSUME NEW i \in OpenEntries', NEW j \in OpenEntries' PROVE i = j
    <2>1. i + 1 = j + 1 /\ i \in Nat /\ j \in Nat
        BY <1>5 DEF OneOpen
    <2> QED BY <2>1
<1>8. Head(queue).origin \in Admitted => OpenEntries' = {} /\ OpenEntries = {1}
    <2>1. ASSUME Head(queue).origin \in Admitted PROVE 1 \in OpenEntries
        BY <1>1, <1>4, <2>1 DEF OpenEntries
    <2>2. ASSUME 1 \in OpenEntries PROVE OpenEntries' = {} /\ OpenEntries = {1}
        BY <1>5, <2>2 DEF OneOpen
    <2> QED BY <2>1, <2>2
<1>9. Head(queue).origin \notin Admitted => (OpenEntries' = {} <=> OpenEntries = {})
    <2>1. ASSUME Head(queue).origin \notin Admitted PROVE 1 \notin OpenEntries
        BY <1>1, <2>1 DEF OpenEntries
    <2> QED BY <1>5, <1>6, <2>1
<1> QED BY <1>1, <1>2, <1>3, <1>4, <1>7, <1>8, <1>9

\* What is scheduled behind the changes of puppet that are due.
LEMMA DrainsLater ==
    ASSUME DispatchTypeOK, Switching, due' = due \/ due' = Append(due, Drain), transition' = transition, said \subseteq said'
    PROVE  due' \in Seq(Call) /\ Switching'
<1>1. Drain \in Call
    BY DEF Drain, Call
<1>2. CASE due' = due
    BY <1>2 DEF Switching, DispatchTypeOK
<1>3. CASE due' = Append(due, Drain)
    <2>1. /\ due' \in Seq(Call) /\ DOMAIN due = 1..Len(due) /\ DOMAIN due' = 1..(Len(due) + 1) /\ Len(due) \in Nat
          /\ due'[Len(due) + 1] = Drain /\ \A i \in 1..Len(due) : due'[i] = due[i]
        BY <1>1, <1>3, Appended DEF DispatchTypeOK
    <2>2. \A i \in DOMAIN due' : Transition(due'[i]) => i \in DOMAIN due /\ due'[i] = due[i]
        BY <2>1 DEF Transition
    <2> QED BY <2>1, <2>2 DEF Switching
<1> QED BY <1>2, <1>3

\* One call that was due has run.
LEMMA CallRuns ==
    ASSUME DispatchTypeOK, Switching, due # <<>>, due' = Tail(due), said' = said,
           transition' = transition \/ Transition(Head(due))
    PROVE  due' \in Seq(Call) /\ Switching' /\ Head(due) = due[1] /\ 1 \in DOMAIN due /\ Head(due) \in Call
<1>1. /\ due' \in Seq(Call) /\ DOMAIN due = 1..Len(due) /\ DOMAIN due' = 1..(Len(due) - 1) /\ Len(due) \in Nat \ {0}
      /\ Head(due) = due[1] /\ Head(due) \in Call /\ \A i \in 1..(Len(due) - 1) : due'[i] = due[i + 1]
    BY Tailed DEF DispatchTypeOK
<1>2. \A i \in DOMAIN due' : i + 1 \in DOMAIN due /\ due'[i] = due[i + 1] /\ i \in Nat /\ i + 1 # 1
    BY <1>1
<1>3. 1 \in DOMAIN due
    BY <1>1
<1>4. ASSUME NEW i \in DOMAIN due', Transition(due'[i])
      PROVE  transition' /\ \E a \in said' : a.id = due'[i].asker
    <2>1. i + 1 \in DOMAIN due /\ Transition(due[i + 1]) /\ i + 1 # 1 /\ due'[i] = due[i + 1]
        BY <1>2, <1>4 DEF Transition
    <2>2. ~Transition(Head(due))
        BY <1>1, <1>3, <2>1 DEF Switching
    <2>3. transition /\ \E a \in said : a.id = due[i + 1].asker
        BY <2>1 DEF Switching
    <2> QED BY <2>1, <2>2, <2>3
<1>5. ASSUME NEW i \in DOMAIN due', NEW j \in DOMAIN due', Transition(due'[i]), Transition(due'[j]) PROVE i = j
    <2>1. i + 1 = j + 1
        BY <1>2, <1>5 DEF Transition, Switching
    <2> QED BY <1>2, <2>1
<1> QED BY <1>1, <1>3, <1>4, <1>5 DEF Switching


------------------------------------------------------------------------------
(* Steps in one sequence, about one request r.                             *)

\* What the step leaves of the others.
OthersKept(r) ==
    /\ \A a \in OpenRuns : a.id # r => a \in OpenRuns'
    /\ \A a \in OpenRuns' : a.id # r => a \in OpenRuns
    /\ \A i \in DOMAIN queue : queue[i].id # r => \E j \in DOMAIN queue' : queue'[j] = queue[i]
    /\ \A i \in DOMAIN queue' : queue'[i].id # r => \E j \in DOMAIN queue : queue[j] = queue'[i]
    /\ \A i \in DOMAIN cache : cache[i].id # r => cache[i].id \in evicted' \/ \E j \in DOMAIN cache' : cache'[j] = cache[i]
    /\ \A i \in DOMAIN cache' : cache'[i].id # r => \E j \in DOMAIN cache : cache[j] = cache'[i]
    /\ \A a \in said' : a.id # r => a \in said
    /\ \A q \in Request \ {r} : runs'[q] = runs[q]

\* The elements of the sequences.
LEMMA Typed ==
    ASSUME DispatchTypeOK
    PROVE  /\ \A i \in DOMAIN queue : queue[i] \in EntryType /\ queue[i].id \in Request
           /\ \A i \in DOMAIN cache : cache[i] \in Result /\ cache[i].id \in Request
<1>1. queue \in Seq(EntryType) /\ cache \in Seq(Result)
    BY DEF DispatchTypeOK
<1>2. /\ \A i \in DOMAIN queue : queue[i] \in EntryType
      /\ \A i \in DOMAIN cache : cache[i] \in Result
    BY <1>1, ElementOfSeq, LenProperties
<1> QED BY <1>2 DEF EntryType, Result

\* The sequence each request names, of the runs, entries, results and answers of the step.
LEMMA SequencedStep ==
    ASSUME DispatchTypeOK, DispatchTypeOK', Sequenced, NEW r \in Request, epoch' = epoch,
           \A q \in Request : named'[q] = named[q] \/ (named[q] = NoEpoch /\ named'[q] = epoch),
           \A q \in Request : runs'[q] # runs[q] => named'[q] # NoEpoch,
           \A a \in running' : a \in running \/ (a.id = r /\ a.epoch = epoch /\ named'[r] = epoch),
           \A i \in OpenEntries' : (queue'[i].id = r /\ named'[r] = epoch) \/ \E j \in OpenEntries : queue[j] = queue'[i],
           \A i \in DOMAIN cache' : (cache'[i].id = r /\ named'[r] = epoch) \/ \E j \in DOMAIN cache : cache'[i] = cache[j],
           \A a \in said' : a \in said \/ (a.id = r /\ a.epoch = epoch /\ named'[r] = epoch)
    PROVE  Sequenced'
<1>1. epoch \in Nat /\ epoch > 0 /\ epoch # NoEpoch
    BY DEF DispatchTypeOK, Epoch, NoEpoch
<1>2. /\ \A a \in running : a.id \in Request /\ a.epoch # NoEpoch
      /\ \A a \in said : a.id \in Request /\ a.epoch # NoEpoch
    BY DEF DispatchTypeOK, Run, Answer, Epoch, NoEpoch
<1>3. \A i \in OpenEntries : queue[i].id \in Request
    BY Typed DEF OpenEntries
<1>4. \A i \in DOMAIN cache : cache[i].id \in Request
    BY Typed
<1>5. \A q \in Request : named[q] # NoEpoch => named'[q] = named[q]
    OBVIOUS
<1>6. ASSUME NEW q \in Request PROVE named'[q] <= epoch' /\ (runs'[q] # 0 => named'[q] # NoEpoch)
    <2>1. named[q] <= epoch /\ (runs[q] # 0 => named[q] # NoEpoch)
        BY DEF Sequenced
    <2> QED BY <1>1, <1>5, <2>1
<1>7. ASSUME NEW a \in running' PROVE named'[a.id] = a.epoch
    BY <1>2, <1>5 DEF Sequenced
<1>8. ASSUME NEW i \in OpenEntries' PROVE named'[queue'[i].id] = epoch'
    <2>1. CASE \E j \in OpenEntries : queue[j] = queue'[i]
        <3>1. PICK j \in OpenEntries : queue[j] = queue'[i]
            BY <2>1
        <3>2. named[queue[j].id] = epoch /\ queue[j].id \in Request
            BY <1>3 DEF Sequenced
        <3> QED BY <1>1, <1>5, <3>1, <3>2
    <2> QED BY <2>1
<1>9. ASSUME NEW i \in DOMAIN cache' PROVE named'[cache'[i].id] = epoch'
    <2>1. CASE \E j \in DOMAIN cache : cache'[i] = cache[j]
        <3>1. PICK j \in DOMAIN cache : cache'[i] = cache[j]
            BY <2>1
        <3>2. named[cache[j].id] = epoch /\ cache[j].id \in Request
            BY <1>4 DEF Sequenced
        <3> QED BY <1>1, <1>5, <3>1, <3>2
    <2> QED BY <2>1
<1>10. ASSUME NEW a \in said' PROVE named'[a.id] = a.epoch
    BY <1>2, <1>5 DEF Sequenced
<1> QED BY <1>6, <1>7, <1>8, <1>9, <1>10 DEF Sequenced

\* The others are told what they were told.
LEMMA ToldStep ==
    ASSUME DispatchTypeOK, DispatchTypeOK', Sequenced, Answered, NEW r \in Request, epoch' = epoch, OthersKept(r),
           evicted \subseteq evicted',
           \A q \in Request : named'[q] = named[q] \/ (named[q] = NoEpoch /\ named'[q] = epoch),
           r \notin evicted' => Told(r)'
    PROVE  Answered'
<1> SUFFICES ASSUME NEW q \in Request \ evicted', q # r PROVE Told(q)'
    BY DEF Answered
<1>1. Told(q)
    BY DEF Answered
<1>2. Waiting(q)' <=> Waiting(q)
    BY DEF Waiting, OthersKept
<1>3. Answering(q)' => Answering(q)
    BY DEF Answering, OthersKept
<1>4. Cached(q)' <=> Cached(q)
    BY DEF Cached, OthersKept
<1>5. \A o : CachedAs(q, o) => CachedAs(q, o)'
    BY DEF CachedAs, OthersKept
<1>6. runs'[q] = runs[q] /\ (runs[q] # 0 => named[q] # NoEpoch)
    BY DEF OthersKept, Sequenced
<1>7. \A a \in said' : a.id = q => a \in said
    BY DEF OthersKept
<1>8. runs'[q] <= 1 /\ (runs'[q] # 0 /\ named'[q] = epoch' => Cached(q)' \/ Waiting(q)')
    <2>1. runs'[q] # 0 => named'[q] = named[q]
        BY <1>6
    <2> QED BY <1>1, <1>2, <1>4, <1>6, <2>1 DEF Told
<1>9. Waiting(q)' => ~Cached(q)'
    BY <1>1, <1>2, <1>4 DEF Told
<1>10. Answering(q)' => CachedAs(q, "error")'
    BY <1>1, <1>3, <1>5 DEF Told
<1>11. \A a \in said' : a.id = q /\ a.epoch = epoch' /\ a.as # "lost" => CachedAs(q, a.as)'
    BY <1>1, <1>5, <1>7 DEF Told
<1> QED BY <1>8, <1>9, <1>10, <1>11 DEF Told

\* What the cache tells is all that is told.
LEMMA AgreeStep ==
    ASSUME DispatchTypeOK', Sequenced', NoTwo', Answered', AnswersAgree, evicted \subseteq evicted',
           \A a \in said' : a \in said \/ a.epoch = epoch'
    PROVE  AnswersAgree'
<1> SUFFICES ASSUME NEW a \in said', NEW b \in said', a.id = b.id, a.id \notin evicted'
             PROVE  a.epoch = b.epoch /\ (a.as = b.as \/ "lost" \in {a.as, b.as})
    BY DEF AnswersAgree
<1>1. a.epoch = b.epoch
    BY DEF Sequenced
<1>2. a.id \in Request
    BY DEF DispatchTypeOK, Answer
<1>3. CASE a.epoch = epoch'
    <2> SUFFICES ASSUME a.as # "lost", b.as # "lost" PROVE a.as = b.as
        BY <1>1
    <2>1. Told(a.id)'
        BY <1>2 DEF Answered
    <2>2. CachedAs(a.id, a.as)' /\ CachedAs(a.id, b.as)'
        BY <1>1, <1>3, <2>1 DEF Told
    <2>3. PICK i \in DOMAIN cache' : cache'[i] = [id |-> a.id, outcome |-> a.as]
        BY <2>2 DEF CachedAs
    <2>4. PICK j \in DOMAIN cache' : cache'[j] = [id |-> a.id, outcome |-> b.as]
        BY <2>2 DEF CachedAs
    <2>5. i = j
        BY <2>3, <2>4 DEF NoTwo
    <2> QED BY <2>3, <2>4, <2>5
<1>4. CASE a.epoch # epoch'
    <2>1. a \in said /\ b \in said /\ a.id \notin evicted
        BY <1>1, <1>4
    <2> QED BY <1>1, <2>1 DEF AnswersAgree
<1> QED BY <1>3, <1>4

\* A request whose result the cache has is told nothing else.
LEMMA Settled ==
    ASSUME NEW r \in Request, NEW o \in Outcome, CachedAs(r, o)', ~Waiting(r)', runs'[r] <= 1,
           Answering(r)' => o = "error",
           \A a \in said' : a.id = r /\ a.epoch = epoch' => a.as \in {o, "lost"}
    PROVE  Told(r)'
<1>1. Cached(r)'
    BY DEF Cached, CachedAs
<1> QED BY <1>1 DEF Told

\* One that waits for its result was told nothing.
LEMMA Untold ==
    ASSUME NEW r \in Request, Told(r), ~Cached(r), NEW a \in said, a.id = r, a.epoch = epoch
    PROVE  a.as = "lost"
<1>1. \A o : CachedAs(r, o) => Cached(r)
    BY DEF Cached, CachedAs
<1> QED BY <1>1 DEF Told


LEMMA Together ==
    ASSUME DispatchInv, DispatchTypeOK', Entries', OneOpen', Sequenced', NoTwo', Answered', Switching',
           evicted \subseteq evicted', \A a \in said' : a \in said \/ a.epoch = epoch'
    PROVE  DispatchInv'
BY AgreeStep DEF DispatchInv

\* Steps that leave the work and the cache alone.
LEMMA StillTold ==
    ASSUME DispatchTypeOK, DispatchTypeOK', DispatchInv,
           UNCHANGED <<cache, running, queue, epoch, marker, runs, evicted, draining>>,
           \A q \in Request : named'[q] = named[q] \/ (named[q] = NoEpoch /\ named'[q] = epoch),
           said \subseteq said',
           \A a \in said' : a \in said \/ (a.epoch = epoch /\ named'[a.id] = epoch /\ CachedAs(a.id, a.as)),
           Switching'
    PROVE  DispatchInv'
<1>1. Entries' /\ OneOpen' /\ NoTwo'
    BY DEF DispatchInv, Entries, OneOpen, NoTwo, OpenRuns, OpenEntries
<1>2. Sequenced'
    <2>1. epoch \in Nat /\ epoch > 0 /\ epoch # NoEpoch
        BY DEF DispatchTypeOK, Epoch, NoEpoch
    <2>2. /\ \A a \in running : a.id \in Request /\ a.epoch # NoEpoch
          /\ \A a \in said : a.id \in Request /\ a.epoch # NoEpoch
        BY DEF DispatchTypeOK, Run, Answer, Epoch, NoEpoch
    <2>3. Sequenced
        BY DEF DispatchInv
    <2>4. \A q \in Request : named[q] # NoEpoch => named'[q] = named[q]
        OBVIOUS
    <2>5. \A q \in Request : named'[q] <= epoch' /\ (runs'[q] # 0 => named'[q] # NoEpoch)
        BY <2>1, <2>3, <2>4 DEF Sequenced
    <2>6. \A a \in running' : named'[a.id] = a.epoch
        BY <2>2, <2>3, <2>4 DEF Sequenced
    <2>7. \A a \in said' : named'[a.id] = a.epoch
        BY <2>2, <2>3, <2>4 DEF Sequenced
    <2>8. \A i \in OpenEntries' : named'[queue'[i].id] = epoch'
        BY <2>1, <2>3, <2>4, Typed DEF Sequenced, OpenEntries
    <2>9. \A i \in DOMAIN cache' : named'[cache'[i].id] = epoch'
        BY <2>1, <2>3, <2>4, Typed DEF Sequenced
    <2> QED BY <2>5, <2>6, <2>7, <2>8, <2>9 DEF Sequenced
<1>3. ASSUME NEW q \in Request \ evicted' PROVE Told(q)'
    <2>1. Told(q) /\ (runs[q] # 0 => named[q] # NoEpoch)
        BY DEF DispatchInv, Answered, Sequenced
    <2>2. runs'[q] # 0 => named'[q] = named[q]
        BY <2>1
    <2>3. /\ Cached(q)' = Cached(q) /\ Waiting(q)' = Waiting(q) /\ Answering(q)' = Answering(q)
          /\ \A o : CachedAs(q, o)' = CachedAs(q, o)
        BY DEF Cached, Waiting, Answering, CachedAs, OpenRuns
    <2>4. runs'[q] <= 1 /\ (runs'[q] # 0 /\ named'[q] = epoch' => Cached(q)' \/ Waiting(q)')
        BY <2>1, <2>2, <2>3 DEF Told
    <2>5. (Waiting(q)' => ~Cached(q)') /\ (Answering(q)' => CachedAs(q, "error")')
        BY <2>1, <2>3 DEF Told
    <2>6. \A a \in said' : a.id = q /\ a.epoch = epoch' /\ a.as # "lost" => CachedAs(q, a.as)'
        BY <2>1, <2>3 DEF Told
    <2> QED BY <2>4, <2>5, <2>6 DEF Told
<1> QED BY <1>1, <1>2, <1>3, Together DEF Answered

LEMMA ReplayStep ==
    ASSUME DispatchInv, NEW r \in Request, NEW e \in Epoch, Replay(r, e)
    PROVE  DispatchInv'
<1>1. DispatchTypeOK /\ Switching /\ Sequenced
    BY DEF DispatchInv
<1>2. /\ UNCHANGED <<cache, running, queue, epoch, marker, runs, evicted, draining, due, transition, scheduled, puppet>>
      /\ Cached(r) /\ Arrives(r, e)
      /\ said' = said \cup {[id |-> r, epoch |-> epoch, as |-> cache[ResultOf(r)].outcome]}
    BY DEF Replay, Sent, dispatch, coordinator, session
<1>3. ResultOf(r) \in DOMAIN cache /\ cache[ResultOf(r)].id = r
    BY <1>2 DEF Cached, ResultOf
<1> DEFINE o == cache[ResultOf(r)].outcome
<1>4. cache[ResultOf(r)] = [id |-> r, outcome |-> o] /\ o \in Outcome
    BY <1>1, <1>3, Typed DEF Result
<1>5. CachedAs(r, o)
    BY <1>3, <1>4 DEF CachedAs
<1> HIDE DEF o
<1>6. /\ named' \in [Request -> Epoch \cup {NoEpoch}]
      /\ \A q \in Request : named'[q] = named[q] \/ (named[q] = NoEpoch /\ named'[q] = epoch)
    BY <1>1, <1>2, Names
<1>7. said' = said \cup {[id |-> r, epoch |-> epoch, as |-> o]}
    BY <1>2 DEF o
<1>8. [id |-> r, epoch |-> epoch, as |-> o] \in Answer
    BY <1>1, <1>4 DEF Answer, DispatchTypeOK
<1>9. DispatchTypeOK'
    BY <1>1, <1>2, <1>6, <1>7, <1>8 DEF DispatchTypeOK
<1>10. Switching'
    BY <1>1, <1>2, <1>7 DEF Switching
<1>11. named[r] = epoch
    BY <1>1, <1>3 DEF Sequenced
<1>12. named'[r] = epoch
    BY <1>6, <1>11
<1> QED BY <1>1, <1>2, <1>5, <1>6, <1>7, <1>9, <1>10, <1>12, StillTold

LEMMA RefuseStep ==
    ASSUME DispatchInv, NEW r \in Request, NEW e \in Epoch, Refuse(r, e)
    PROVE  DispatchInv'
<1>1. DispatchTypeOK /\ Switching
    BY DEF DispatchInv
<1>2. /\ UNCHANGED <<cache, running, queue, epoch, marker, runs, evicted, draining, due, transition, scheduled, puppet, said>>
      /\ Arrives(r, e)
    BY DEF Refuse, dispatch, coordinator, session
<1>3. /\ named' \in [Request -> Epoch \cup {NoEpoch}]
      /\ \A q \in Request : named'[q] = named[q] \/ (named[q] = NoEpoch /\ named'[q] = epoch)
    BY <1>1, <1>2, Names
<1>4. DispatchTypeOK' /\ Switching'
    BY <1>1, <1>2, <1>3 DEF DispatchTypeOK, Switching
<1> QED BY <1>1, <1>2, <1>3, <1>4, StillTold

LEMMA TransitionRefusedStep ==
    ASSUME DispatchInv, TransitionRefused
    PROVE  DispatchInv'
<1>1. DispatchTypeOK /\ Switching
    BY DEF DispatchInv
<1>2. /\ UNCHANGED <<cache, running, queue, epoch, marker, runs, evicted, draining, scheduled, puppet, said, named>>
      /\ due # <<>> /\ Transition(Head(due)) /\ due' = Tail(due) /\ transition' = FALSE
    BY DEF TransitionRefused, dispatch, coordinator, session
<1>3. due' \in Seq(Call) /\ Switching'
    BY <1>1, <1>2, CallRuns
<1>4. DispatchTypeOK'
    BY <1>1, <1>2, <1>3 DEF DispatchTypeOK
<1> QED BY <1>1, <1>2, <1>3, <1>4, StillTold

\* The drain only opens the queue.
LEMMA StartDrainStep ==
    ASSUME DispatchInv, StartDrain
    PROVE  DispatchInv'
<1>1. DispatchTypeOK /\ Switching /\ OneOpen /\ Entries /\ Sequenced /\ NoTwo /\ Answered /\ AnswersAgree
    BY DEF DispatchInv
<1>2. /\ UNCHANGED <<cache, running, queue, epoch, marker, runs, evicted, puppet, said, named, transition>>
      /\ due # <<>> /\ due' = Tail(due) /\ scheduled' = FALSE /\ draining' = (queue # <<>>)
    BY DEF StartDrain, dispatch, session
<1>3. due' \in Seq(Call) /\ Switching'
    BY <1>1, <1>2, CallRuns
<1>4. scheduled' \in BOOLEAN /\ draining' \in BOOLEAN
    BY <1>2
<1>5. DispatchTypeOK'
    BY <1>1, <1>2, <1>3, <1>4 DEF DispatchTypeOK
<1>6. Entries'
    BY <1>1, <1>2 DEF Entries
<1>7. OneOpen' /\ NoTwo' /\ AnswersAgree'
    BY <1>1, <1>2 DEF OneOpen, NoTwo, OpenRuns, OpenEntries, AnswersAgree
<1>8. Sequenced'
    BY <1>1, <1>2 DEF Sequenced, OpenEntries
<1>9. Answered'
    <2>1. \A q \in Request : Told(q)' = Told(q)
        BY <1>2 DEF Told, Cached, Waiting, Answering, CachedAs, OpenRuns
    <2> QED BY <1>1, <1>2, <2>1 DEF Answered
<1> QED BY <1>3, <1>5, <1>6, <1>7, <1>8, <1>9 DEF DispatchInv


------------------------------------------------------------------------------
(* A sequence ends.                                                        *)

LEMMA Retired ==
    ASSUME DispatchInv, NEW n \in Nat \ {0}, Retire(n), ~draining, draining' = draining,
           UNCHANGED <<running, runs, evicted, named, said>>, puppet' \in Character \cup {None},
           due' \in Seq(Call), transition' \in BOOLEAN, Switching'
    PROVE  DispatchInv'
<1>1. DispatchTypeOK /\ Sequenced
    BY DEF DispatchInv
<1>2. /\ epoch' \in Epoch /\ epoch' = epoch + n /\ marker' = NoEpoch /\ cache' = <<>>
      /\ queue' = <<>> /\ scheduled' = FALSE
    BY DEF Retire
<1>3. epoch \in Nat /\ epoch' \in Nat /\ epoch' > epoch
    BY <1>1, <1>2 DEF DispatchTypeOK, Epoch
<1>4. cache' \in Seq(Result) /\ Len(cache') <= Capacity /\ queue' \in Seq(EntryType) /\ DOMAIN cache' = {} /\ DOMAIN queue' = {}
    BY <1>2, EmptySeq
<1>5. DispatchTypeOK'
    BY <1>1, <1>2, <1>4 DEF DispatchTypeOK
<1>6. \A a \in running : a.id \in Request /\ a.epoch \in Nat /\ a.epoch <= epoch
    <2>1. \A a \in running : a.id \in Request /\ a.epoch \in Nat
        BY <1>1 DEF DispatchTypeOK, Run, Epoch
    <2> QED BY <1>1, <2>1 DEF Sequenced
<1>7. \A a \in said : a.id \in Request /\ a.epoch \in Nat /\ a.epoch <= epoch
    <2>1. \A a \in said : a.id \in Request /\ a.epoch \in Nat
        BY <1>1 DEF DispatchTypeOK, Answer, Epoch
    <2> QED BY <1>1, <2>1 DEF Sequenced
<1>8. OpenRuns' = {} /\ OpenEntries' = {}
    BY <1>3, <1>4, <1>6 DEF OpenRuns, OpenEntries
<1>9. Entries' /\ OneOpen' /\ NoTwo' /\ AnswersAgree'
    BY <1>2, <1>4, <1>8 DEF DispatchInv, Entries, OneOpen, NoTwo, AnswersAgree
<1>10. \A q \in Request : named[q] \in Nat /\ named[q] <= epoch /\ (runs[q] # 0 => named[q] # NoEpoch)
    BY <1>1 DEF Sequenced, DispatchTypeOK, Epoch, NoEpoch
<1>11. Sequenced'
    BY <1>1, <1>3, <1>4, <1>8, <1>10 DEF Sequenced
<1>12. ASSUME NEW q \in Request \ evicted' PROVE Told(q)'
    <2>1. ~Waiting(q)' /\ ~Answering(q)'
        BY <1>4, <1>8 DEF Waiting, Answering
    <2>2. named'[q] # epoch'
        BY <1>3, <1>10
    <2>3. \A a \in said' : a.epoch # epoch'
        BY <1>3, <1>7
    <2>4. runs'[q] <= 1
        BY DEF DispatchInv, Answered, Told
    <2> QED BY <2>1, <2>2, <2>3, <2>4 DEF Told
<1> QED BY <1>5, <1>9, <1>11, <1>12 DEF DispatchInv, Answered

LEMMA AttachStep ==
    ASSUME DispatchInv, Attach
    PROVE  DispatchInv'
<1> DEFINE t == Head(due)
<1>1. DispatchTypeOK /\ Switching
    BY DEF DispatchInv
<1>2. /\ ~draining /\ due # <<>> /\ Transition(t) /\ puppet = t.from /\ due' = Tail(due) /\ transition' = FALSE
      /\ UNCHANGED <<running, runs, evicted, draining, named, said>>
      /\ (Retire(1) /\ puppet' \in {t.to, t.from}) \/ (Retire(2) /\ puppet' \in {t.from, None})
    BY DEF Attach
<1>3. due' \in Seq(Call) /\ Switching' /\ t \in Call
    BY <1>1, <1>2, CallRuns
<1>4. puppet' \in Character \cup {None}
    BY <1>2, <1>3 DEF Call
<1>5. PICK n \in {1, 2} : Retire(n)
    BY <1>2
<1>6. n \in Nat \ {0}
    OBVIOUS
<1>7. transition' = FALSE /\ draining' = draining /\ ~draining /\ UNCHANGED <<running, runs, evicted, named, said>>
    BY <1>2
<1>8. transition' \in BOOLEAN
    BY <1>7
<1> HIDE DEF t
<1> QED BY <1>3, <1>4, <1>5, <1>6, <1>7, <1>8, Retired

LEMMA ChangePuppetStep ==
    ASSUME DispatchInv, NEW c \in Character \cup {None}, ChangePuppet(c)
    PROVE  DispatchInv'
<1>1. DispatchTypeOK /\ Switching
    BY DEF DispatchInv
<1>2. /\ ~draining /\ puppet' = c /\ UNCHANGED <<running, runs, evicted, draining, transition, due, named, said>>
      /\ IF puppet = None THEN UNCHANGED <<epoch, marker, cache, queue, scheduled>> ELSE Retire(1)
    BY DEF ChangePuppet
<1>3. Switching' /\ due' \in Seq(Call) /\ transition' \in BOOLEAN
    BY <1>1, <1>2 DEF Switching, DispatchTypeOK
<1>4. CASE puppet = None
    <2>1. UNCHANGED <<epoch, marker, cache, queue, scheduled>>
        BY <1>2, <1>4
    <2>2. DispatchTypeOK'
        BY <1>1, <1>2, <2>1 DEF DispatchTypeOK
    <2> QED BY <1>1, <1>2, <1>3, <2>1, <2>2, StillTold
<1>5. CASE puppet # None
    <2>1. Retire(1) /\ puppet' \in Character \cup {None}
        BY <1>2, <1>5
    <2> QED BY <1>2, <1>3, <2>1, Retired
<1> QED BY <1>4, <1>5

------------------------------------------------------------------------------
(* The Deferred of an adapter fires.                                       *)

\* In a sequence that was retired: nobody is told.
LEMMA LateCompletionStep ==
    ASSUME DispatchInv, NEW a \in running, AdapterCompletes(a), ~(marker = a.epoch /\ epoch = a.epoch)
    PROVE  DispatchInv'
<1>1. DispatchTypeOK /\ Switching /\ OneOpen /\ Sequenced
    BY DEF DispatchInv
<1>2. /\ UNCHANGED <<runs, puppet, epoch, transition, draining, named, said, cache, evicted, queue, scheduled, due>>
      /\ running' = running \ {a} /\ marker' = IF marker = a.epoch THEN NoEpoch ELSE marker
    BY DEF AdapterCompletes, Settle, session
<1>3. a.epoch # epoch
    <2> SUFFICES ASSUME a.epoch = epoch PROVE FALSE
        OBVIOUS
    <2>1. a \in OpenRuns /\ marker = epoch
        BY <1>1 DEF OneOpen, OpenRuns
    <2> QED BY <2>1
<1>4. a.epoch # NoEpoch
    BY <1>1 DEF DispatchTypeOK, Run, Epoch, NoEpoch
<1>5. marker' = marker
    BY <1>1, <1>2, <1>3, <1>4 DEF OneOpen
<1>6. OpenRuns' = OpenRuns
    BY <1>2, <1>3 DEF OpenRuns
<1>7. DispatchTypeOK' /\ Switching'
    BY <1>1, <1>2, <1>5 DEF DispatchTypeOK, Switching
<1>8. Entries' /\ OneOpen' /\ NoTwo' /\ AnswersAgree'
    BY <1>2, <1>5, <1>6 DEF DispatchInv, Entries, OneOpen, OpenEntries, NoTwo, AnswersAgree
<1>9. Sequenced'
    BY <1>1, <1>2 DEF Sequenced, OpenEntries
<1>10. Answered'
    <2>1. \A q \in Request : Told(q)' = Told(q)
        BY <1>2, <1>6 DEF Told, Cached, Waiting, Answering, CachedAs
    <2> QED BY <1>2, <2>1 DEF Answered, DispatchInv
<1> QED BY <1>7, <1>8, <1>9, <1>10 DEF DispatchInv


------------------------------------------------------------------------------
(* Work is admitted, and ends.                                             *)

LEMMA Offered ==
    ASSUME NEW r \in Request, NEW outcome \in Outcome \cup {"stale"}, NEW origin \in {"result", "recovery", "stale"},
           NEW full \in BOOLEAN, Offer(r, outcome, origin, full)
    PROVE  /\ full => Enqueue(queue, Instead(r, origin))
           /\ ~full => Enqueue(queue, Entry(r, outcome, origin))
           /\ Instead(r, origin) \in EntryType /\ Instead(r, origin).id = r
           /\ Entry(r, outcome, origin) \in EntryType /\ Entry(r, outcome, origin).id = r
<1>1. Instead(r, origin) \in EntryType /\ Instead(r, origin).id = r
    BY DEF EntryType, Instead, Entry, Outcome, Origin, Admitted
<1>2. Entry(r, outcome, origin) \in EntryType /\ Entry(r, outcome, origin).id = r
    BY DEF EntryType, Entry, Origin, Admitted
<1>3. Enqueue(queue, IF full THEN Instead(r, origin) ELSE Entry(r, outcome, origin))
    BY DEF Offer
<1>4. full => Enqueue(queue, Instead(r, origin))
    BY <1>3
<1>5. ~full => Enqueue(queue, Entry(r, outcome, origin))
    BY <1>3
<1> QED BY <1>1, <1>2, <1>4, <1>5

LEMMA Enqueued ==
    ASSUME NEW x, Enqueue(queue, x)
    PROVE  queue' = Append(queue, x) /\ scheduled' = TRUE /\ (due' = due \/ due' = Append(due, Drain))
BY DEF Enqueue

\* One request's result is in the queue, and nothing else of the sequence is open.
LEMMA Opens ==
    ASSUME DispatchInv, NEW r \in Request, NEW x \in EntryType, queue' = Append(queue, x),
           x.id = r, x.origin \in {"result", "recovery", "answer"},
           x.origin = "result" => x.outcome \in Outcome, x.origin # "result" => x.outcome = "error",
           IF x.origin = "result" THEN UNCHANGED <<cache, evicted>> ELSE CacheResult(r, "error"),
           OpenEntries = {}, \A a \in OpenRuns : a.id = r,
           OpenRuns' = {}, running' \subseteq running, marker' = epoch,
           r \notin evicted => Told(r) /\ ~Cached(r) /\ runs'[r] <= 1,
           UNCHANGED <<puppet, epoch, transition, draining, said>>,
           scheduled' = TRUE, due' = due \/ due' = Append(due, Drain),
           named' \in [Request -> Epoch \cup {NoEpoch}], named'[r] = epoch,
           \A q \in Request : named'[q] = named[q] \/ (named[q] = NoEpoch /\ named'[q] = epoch),
           runs' \in [Request -> 0..2], \A q \in Request \ {r} : runs'[q] = runs[q]
    PROVE  DispatchInv'
<1>1. DispatchTypeOK /\ Switching /\ OneOpen /\ Entries /\ Sequenced /\ NoTwo /\ Answered /\ AnswersAgree
    BY DEF DispatchInv
<1>2. epoch \in Epoch /\ epoch # NoEpoch /\ x.origin \in Admitted
    BY <1>1 DEF DispatchTypeOK, Epoch, NoEpoch, Admitted
<1> DEFINE n == Len(queue) + 1
<1>3. /\ queue' \in Seq(EntryType) /\ queue' # <<>> /\ n \in DOMAIN queue' /\ queue'[n] = x
      /\ \A i \in DOMAIN queue : i \in DOMAIN queue' /\ queue'[i] = queue[i]
      /\ \A i \in DOMAIN queue' : i \in DOMAIN queue \/ i = n
      /\ OpenEntries' = {n}
    BY <1>1, <1>2, Grows
<1> HIDE DEF n
<1>4. /\ cache' \in Seq(Result) /\ Len(cache') <= Capacity /\ NoTwo'
      /\ evicted \subseteq evicted' /\ evicted' \subseteq Request
      /\ \A i \in DOMAIN cache' : cache'[i].id = r \/ \E j \in DOMAIN cache : cache'[i] = cache[j]
      /\ \A j \in DOMAIN cache : cache[j].id = r \/ cache[j].id \in evicted'
                                  \/ \E i \in DOMAIN cache' : cache'[i] = cache[j]
    <2>1. CASE x.origin = "result"
        BY <1>1, <2>1 DEF NoTwo, DispatchTypeOK
    <2>2. CASE x.origin # "result"
        BY <1>1, <2>2, CacheHolds DEF Outcome
    <2> QED BY <2>1, <2>2
<1>5. x.origin # "result" => CachedAs(r, "error")'
    BY <1>1, CacheHolds DEF Outcome
<1>6. due' \in Seq(Call) /\ Switching'
    BY <1>1, DrainsLater
<1>7. DispatchTypeOK'
    <2>1. puppet' \in Character \cup {None} /\ epoch' \in Epoch /\ transition' \in BOOLEAN /\ draining' \in BOOLEAN /\ said' \subseteq Answer
        BY <1>1 DEF DispatchTypeOK
    <2>2. marker' \in Epoch \cup {NoEpoch} /\ running' \subseteq Run /\ scheduled' \in BOOLEAN
        BY <1>1, <1>2 DEF DispatchTypeOK
    <2> QED BY <1>3, <1>4, <1>6, <2>1, <2>2 DEF DispatchTypeOK
<1>8. Entries'
    <2>1. ASSUME NEW i \in DOMAIN queue'
          PROVE  /\ queue'[i].origin = "result" => queue'[i].outcome \in Outcome
                 /\ queue'[i].origin \in {"recovery", "answer"} => queue'[i].outcome = "error"
                 /\ queue'[i].origin \in {"stale", "staleAnswer"} => queue'[i].outcome = "stale"
        BY <1>1, <1>3 DEF Entries
    <2> QED BY <1>3, <2>1 DEF Entries
<1>9. OneOpen'
    BY <1>2, <1>3 DEF OneOpen
<1>10. Sequenced'
    <2>1. \A a \in running' : a \in running
        OBVIOUS
    <2>2. \A i \in OpenEntries' : queue'[i].id = r /\ named'[r] = epoch
        BY <1>3
    <2>3. \A q \in Request : runs'[q] # runs[q] => named'[q] # NoEpoch
        BY <1>2
    <2> QED BY <1>1, <1>4, <1>7, <2>1, <2>2, <2>3, SequencedStep
<1>11. OthersKept(r)
    <2>1. \A i \in DOMAIN queue : \E j \in DOMAIN queue' : queue'[j] = queue[i]
        BY <1>3
    <2>2. \A i \in DOMAIN queue' : queue'[i].id # r => \E j \in DOMAIN queue : queue[j] = queue'[i]
        BY <1>3
    <2>3. \A i \in DOMAIN cache : cache[i].id # r => cache[i].id \in evicted' \/ \E j \in DOMAIN cache' : cache'[j] = cache[i]
        BY <1>4
    <2>4. \A i \in DOMAIN cache' : cache'[i].id # r => \E j \in DOMAIN cache : cache[j] = cache'[i]
        BY <1>4
    <2> QED BY <2>1, <2>2, <2>3, <2>4 DEF OthersKept
<1>12. ASSUME r \notin evicted' PROVE Told(r)'
    <2>1. Told(r) /\ ~Cached(r) /\ runs'[r] <= 1
        BY <1>4, <1>12
    <2>2. \A i \in DOMAIN queue' : queue'[i].origin \in Admitted => i = n
        BY <1>3 DEF OpenEntries
    <2>3. \A a \in said' : a.id = r /\ a.epoch = epoch' => a.as = "lost"
        BY <2>1, Untold
    <2>4. CASE x.origin = "result"
        <3>1. Waiting(r)'
            BY <1>3, <2>4 DEF Waiting
        <3>2. ~Answering(r)'
            BY <1>3, <2>2, <2>4 DEF Answering, Admitted
        <3>3. ~Cached(r)'
            BY <2>1, <2>4 DEF Cached
        <3> QED BY <2>1, <2>3, <3>1, <3>2, <3>3 DEF Told
    <2>5. CASE x.origin # "result"
        <3>1. ~Waiting(r)'
            BY <1>3, <2>2, <2>5 DEF Waiting, Admitted
        <3>2. "error" \in Outcome
            BY DEF Outcome
        <3>3. \A a \in said' : a.id = r /\ a.epoch = epoch' => a.as \in {"error", "lost"}
            BY <2>3
        <3>4. runs'[r] <= 1 /\ CachedAs(r, "error")'
            BY <1>5, <2>1, <2>5
        <3> QED BY <3>1, <3>2, <3>3, <3>4, Settled
    <2> QED BY <2>4, <2>5
<1>13. Answered'
    BY <1>1, <1>4, <1>7, <1>11, <1>12, ToldStep
<1> QED BY <1>4, <1>6, <1>7, <1>8, <1>9, <1>10, <1>13, Together

\* A request that is admitted has not run, and nothing else is open.
LEMMA Fresh ==
    ASSUME DispatchInv, NEW r \in Request, NEW e, Admissible(r, e), Ran(r)
    PROVE  /\ OpenRuns = {} /\ OpenEntries = {} /\ ~Cached(r) /\ named'[r] = epoch /\ puppet # None
           /\ named' \in [Request -> Epoch \cup {NoEpoch}]
           /\ \A q \in Request : named'[q] = named[q] \/ (named[q] = NoEpoch /\ named'[q] = epoch)
           /\ runs' \in [Request -> 0..2] /\ \A q \in Request \ {r} : runs'[q] = runs[q]
           /\ r \notin evicted => Told(r) /\ runs'[r] <= 1
<1>1. DispatchTypeOK /\ OneOpen /\ Sequenced /\ Answered
    BY DEF DispatchInv
<1>2. Arrives(r, e) /\ puppet # None /\ ~Cached(r) /\ e = epoch /\ marker = NoEpoch
    BY DEF Admissible
<1>3. /\ named' \in [Request -> Epoch \cup {NoEpoch}] /\ named'[r] = epoch
      /\ \A q \in Request : named'[q] = named[q] \/ (named[q] = NoEpoch /\ named'[q] = epoch)
    BY <1>1, <1>2, Names
<1>4. OpenRuns = {} /\ OpenEntries = {}
    BY <1>1, <1>2 DEF OneOpen
<1>5. runs \in [Request -> 0..2] /\ runs' = [runs EXCEPT ![r] = IF runs[r] = 0 THEN 1 ELSE 2]
    BY <1>1 DEF DispatchTypeOK, Ran
<1>6. runs' \in [Request -> 0..2] /\ \A q \in Request \ {r} : runs'[q] = runs[q]
    BY <1>5
<1>7. ASSUME r \notin evicted PROVE Told(r) /\ runs'[r] = 1
    <2>1. Told(r)
        BY <1>1, <1>7 DEF Answered
    <2>2. ~Waiting(r)
        BY <1>4 DEF Waiting, OpenEntries, Admitted
    <2>3. named[r] = epoch \/ named[r] = NoEpoch
        BY <1>3
    <2>4. runs[r] = 0
        BY <1>1, <1>2, <2>1, <2>2, <2>3 DEF Told, Sequenced
    <2> QED BY <1>5, <2>1, <2>4
<1> QED BY <1>2, <1>3, <1>4, <1>6, <1>7

LEMMA AdmitSyncStep ==
    ASSUME DispatchInv, NEW r \in Request, NEW e \in Epoch, AdmitSync(r, e)
    PROVE  DispatchInv'
<1>1. PICK outcome \in Outcome, full \in BOOLEAN :
         /\ Offer(r, outcome, "result", full)
         /\ IF full THEN CacheResult(r, "error") ELSE UNCHANGED <<cache, evicted>>
    BY DEF AdmitSync
<1>2. Admissible(r, e) /\ Ran(r) /\ marker' = epoch /\ UNCHANGED <<running, puppet, epoch, transition, draining, said>>
    BY DEF AdmitSync, session
<1>3. /\ OpenRuns = {} /\ OpenEntries = {} /\ ~Cached(r) /\ named'[r] = epoch
      /\ named' \in [Request -> Epoch \cup {NoEpoch}]
      /\ \A q \in Request : named'[q] = named[q] \/ (named[q] = NoEpoch /\ named'[q] = epoch)
      /\ runs' \in [Request -> 0..2] /\ \A q \in Request \ {r} : runs'[q] = runs[q]
      /\ r \notin evicted => Told(r) /\ runs'[r] <= 1
    BY <1>2, Fresh
<1> DEFINE x == IF full THEN Instead(r, "result") ELSE Entry(r, outcome, "result")
<1>4. /\ full => x.origin = "answer" /\ x.outcome = "error"
      /\ ~full => x.origin = "result" /\ x.outcome \in Outcome
    BY DEF Instead, Entry
<1> HIDE DEF x
<1>5. /\ x \in EntryType /\ x.id = r /\ queue' = Append(queue, x)
      /\ scheduled' = TRUE /\ (due' = due \/ due' = Append(due, Drain))
    <2>1. Enqueue(queue, x) /\ x \in EntryType /\ x.id = r
        BY <1>1, Offered DEF x
    <2> QED BY <2>1, Enqueued
<1>6. x.origin \in {"result", "recovery", "answer"} /\ (x.origin = "result" => x.outcome \in Outcome)
      /\ (x.origin # "result" => x.outcome = "error")
    BY <1>4
<1>7. IF x.origin = "result" THEN UNCHANGED <<cache, evicted>> ELSE CacheResult(r, "error")
    BY <1>1, <1>4
<1>8. OpenRuns' = {} /\ running' \subseteq running
    BY <1>2, <1>3 DEF OpenRuns
<1> QED BY <1>2, <1>3, <1>5, <1>6, <1>7, <1>8, Opens

LEMMA AdmitRaisesStep ==
    ASSUME DispatchInv, NEW r \in Request, NEW e \in Epoch, AdmitRaises(r, e)
    PROVE  DispatchInv'
<1>1. PICK full \in BOOLEAN : Offer(r, "error", "recovery", full)
    BY DEF AdmitRaises
<1>2. /\ Admissible(r, e) /\ Ran(r) /\ marker' = epoch /\ CacheResult(r, "error")
      /\ UNCHANGED <<running, puppet, epoch, transition, draining, said>>
    BY DEF AdmitRaises, session
<1>3. /\ OpenRuns = {} /\ OpenEntries = {} /\ ~Cached(r) /\ named'[r] = epoch
      /\ named' \in [Request -> Epoch \cup {NoEpoch}]
      /\ \A q \in Request : named'[q] = named[q] \/ (named[q] = NoEpoch /\ named'[q] = epoch)
      /\ runs' \in [Request -> 0..2] /\ \A q \in Request \ {r} : runs'[q] = runs[q]
      /\ r \notin evicted => Told(r) /\ runs'[r] <= 1
    BY <1>2, Fresh
<1> DEFINE x == IF full THEN Instead(r, "recovery") ELSE Entry(r, "error", "recovery")
<1>4. x.origin \in {"recovery", "answer"} /\ x.outcome = "error"
    BY DEF Instead, Entry
<1> HIDE DEF x
<1>5. /\ x \in EntryType /\ x.id = r /\ queue' = Append(queue, x)
      /\ scheduled' = TRUE /\ (due' = due \/ due' = Append(due, Drain))
    <2>1. Enqueue(queue, x) /\ x \in EntryType /\ x.id = r
        BY <1>1, Offered DEF x, Outcome
    <2> QED BY <2>1, Enqueued
<1>6. x.origin \in {"result", "recovery", "answer"} /\ x.origin # "result"
    BY <1>4
<1>7. OpenRuns' = {} /\ running' \subseteq running
    BY <1>2, <1>3 DEF OpenRuns
<1> QED BY <1>2, <1>3, <1>4, <1>5, <1>6, <1>7, Opens

\* In the sequence that admitted it: its answer is queued.
LEMMA CompletionStep ==
    ASSUME DispatchInv, NEW a \in running, AdapterCompletes(a), marker = a.epoch /\ epoch = a.epoch
    PROVE  DispatchInv'
<1>1. DispatchTypeOK /\ OneOpen /\ Sequenced /\ Answered
    BY DEF DispatchInv
<1>2. PICK outcome \in Outcome, full \in BOOLEAN :
         /\ Offer(a.id, outcome, "result", full)
         /\ IF full THEN CacheResult(a.id, "error") ELSE UNCHANGED <<cache, evicted>>
    BY DEF AdapterCompletes
<1>3. running' = running \ {a} /\ marker' = marker /\ UNCHANGED <<runs, puppet, epoch, transition, draining, named, said>>
    BY DEF AdapterCompletes, session
<1> DEFINE r == a.id
           x == IF full THEN Instead(r, "result") ELSE Entry(r, outcome, "result")
<1>4. r \in Request /\ named[r] = epoch
    BY <1>1 DEF DispatchTypeOK, Run, Sequenced
<1>5. OpenRuns = {a} /\ OpenEntries = {}
    <2>1. a \in OpenRuns
        BY DEF OpenRuns
    <2> QED BY <1>1, <2>1 DEF OneOpen
<1>6. OpenRuns' = {} /\ running' \subseteq running
    BY <1>3, <1>5 DEF OpenRuns
<1>7. ASSUME r \notin evicted PROVE Told(r) /\ ~Cached(r) /\ runs[r] <= 1
    <2>1. Told(r) /\ Waiting(r)
        BY <1>1, <1>4, <1>5, <1>7 DEF Answered, Waiting
    <2> QED BY <2>1 DEF Told
<1>8. /\ full => x.origin = "answer" /\ x.outcome = "error"
      /\ ~full => x.origin = "result" /\ x.outcome \in Outcome
    BY DEF Instead, Entry
<1>9. x = IF full THEN Instead(r, "result") ELSE Entry(r, outcome, "result")
    OBVIOUS
<1> HIDE DEF x, r
<1>10. Offer(r, outcome, "result", full) /\ (IF full THEN CacheResult(r, "error") ELSE UNCHANGED <<cache, evicted>>)
    BY <1>2 DEF r
<1>11. /\ x \in EntryType /\ x.id = r /\ queue' = Append(queue, x)
       /\ scheduled' = TRUE /\ (due' = due \/ due' = Append(due, Drain))
    <2>1. Enqueue(queue, x) /\ x \in EntryType /\ x.id = r
        BY <1>4, <1>9, <1>10, Offered
    <2> QED BY <2>1, Enqueued
<1>12. x.origin \in {"result", "recovery", "answer"} /\ (x.origin = "result" => x.outcome \in Outcome)
       /\ (x.origin # "result" => x.outcome = "error")
    BY <1>8
<1>13. IF x.origin = "result" THEN UNCHANGED <<cache, evicted>> ELSE CacheResult(r, "error")
    BY <1>8, <1>10
<1>14. \A b \in OpenRuns : b.id = r
    BY <1>5 DEF r
<1>15. /\ named' \in [Request -> Epoch \cup {NoEpoch}] /\ named'[r] = epoch /\ runs' \in [Request -> 0..2] /\ marker' = epoch
       /\ \A q \in Request : named'[q] = named[q] /\ runs'[q] = runs[q]
    BY <1>1, <1>3, <1>4 DEF DispatchTypeOK
<1>16. r \notin evicted => Told(r) /\ ~Cached(r) /\ runs'[r] <= 1
    BY <1>4, <1>7, <1>15
<1> QED BY <1>3, <1>4, <1>5, <1>6, <1>11, <1>12, <1>13, <1>14, <1>15, <1>16, Opens


LEMMA AdmitDeferredStep ==
    ASSUME DispatchInv, NEW r \in Request, NEW e \in Epoch, AdmitDeferred(r, e)
    PROVE  DispatchInv'
<1>1. DispatchTypeOK /\ Switching /\ OneOpen /\ Entries /\ Sequenced /\ NoTwo /\ Answered /\ AnswersAgree
    BY DEF DispatchInv
<1> DEFINE b == [id |-> r, epoch |-> epoch]
<1>2. /\ Admissible(r, e) /\ Ran(r) /\ marker' = epoch /\ running' = running \cup {b}
      /\ UNCHANGED <<cache, evicted, queue, scheduled, draining, puppet, epoch, transition, due, said>>
    BY DEF AdmitDeferred, coordinator, session
<1>3. /\ OpenRuns = {} /\ OpenEntries = {} /\ ~Cached(r) /\ named'[r] = epoch
      /\ named' \in [Request -> Epoch \cup {NoEpoch}]
      /\ \A q \in Request : named'[q] = named[q] \/ (named[q] = NoEpoch /\ named'[q] = epoch)
      /\ runs' \in [Request -> 0..2] /\ \A q \in Request \ {r} : runs'[q] = runs[q]
      /\ r \notin evicted => Told(r) /\ runs'[r] <= 1
    BY <1>2, Fresh
<1>4. b \in Run /\ b.id = r /\ b.epoch = epoch /\ epoch \in Epoch /\ epoch # NoEpoch
    BY <1>1 DEF DispatchTypeOK, Run, Epoch, NoEpoch
<1> HIDE DEF b
<1>5. OpenRuns' = {b} /\ OpenEntries' = {}
    BY <1>2, <1>3, <1>4 DEF OpenRuns, OpenEntries
<1>6. DispatchTypeOK'
    BY <1>1, <1>2, <1>3, <1>4 DEF DispatchTypeOK
<1>7. Entries' /\ NoTwo' /\ Switching'
    BY <1>1, <1>2 DEF Entries, NoTwo, Switching
<1>8. OneOpen'
    BY <1>2, <1>4, <1>5 DEF OneOpen
<1>9. Sequenced'
    <2>1. \A a \in running' : a \in running \/ (a.id = r /\ a.epoch = epoch /\ named'[r] = epoch)
        BY <1>2, <1>3, <1>4
    <2>2. \A q \in Request : runs'[q] # runs[q] => named'[q] # NoEpoch
        BY <1>3, <1>4
    <2> QED BY <1>1, <1>2, <1>3, <1>5, <1>6, <2>1, <2>2, SequencedStep
<1>10. OthersKept(r)
    BY <1>2, <1>3, <1>4, <1>5 DEF OthersKept
<1>11. ASSUME r \notin evicted' PROVE Told(r)'
    <2>1. Told(r) /\ ~Cached(r) /\ runs'[r] <= 1
        BY <1>2, <1>3, <1>11
    <2>2. Waiting(r)' /\ ~Cached(r)'
        BY <1>2, <1>4, <1>5, <2>1 DEF Waiting, Cached
    <2>3. ~Answering(r)'
        BY <1>5 DEF Answering, OpenEntries, Admitted
    <2>4. \A a \in said' : a.id = r /\ a.epoch = epoch' => a.as = "lost"
        BY <1>2, <2>1, Untold
    <2> QED BY <2>1, <2>2, <2>3, <2>4 DEF Told
<1>12. Answered'
    BY <1>1, <1>2, <1>3, <1>6, <1>10, <1>11, ToldStep
<1> QED BY <1>2, <1>6, <1>7, <1>8, <1>9, <1>12, Together

\* A result that publishes nothing is answered at once.
LEMMA Flushed ==
    ASSUME DispatchInv, NEW r \in Request, NEW e, Admissible(r, e), Ran(r), Flush(r),
           UNCHANGED <<running, puppet, epoch, draining>>,
           due' \in Seq(Call), transition' \in BOOLEAN, Switching'
    PROVE  DispatchInv'
<1>1. DispatchTypeOK /\ OneOpen /\ Entries /\ Sequenced /\ NoTwo /\ Answered /\ AnswersAgree
    BY DEF DispatchInv
<1>2. /\ OpenRuns = {} /\ OpenEntries = {} /\ ~Cached(r) /\ named'[r] = epoch
      /\ named' \in [Request -> Epoch \cup {NoEpoch}]
      /\ \A q \in Request : named'[q] = named[q] \/ (named[q] = NoEpoch /\ named'[q] = epoch)
      /\ runs' \in [Request -> 0..2] /\ \A q \in Request \ {r} : runs'[q] = runs[q]
      /\ r \notin evicted => Told(r) /\ runs'[r] <= 1
    BY Fresh
<1>3. PICK o \in {"done", "lost"} : said' = said \cup {[id |-> r, epoch |-> epoch, as |-> o]}
    BY DEF Flush, Sent
<1> DEFINE b == [id |-> r, epoch |-> epoch, as |-> o]
<1>4. CacheResult(r, "done") /\ marker' = NoEpoch /\ scheduled' = TRUE /\ queue' = queue
    BY DEF Flush
<1>5. epoch \in Epoch /\ epoch # NoEpoch /\ "done" \in Outcome
    BY <1>1 DEF DispatchTypeOK, Epoch, NoEpoch, Outcome
<1>6. /\ cache' \in Seq(Result) /\ Len(cache') <= Capacity /\ NoTwo'
      /\ evicted \subseteq evicted' /\ evicted' \subseteq Request
      /\ \A i \in DOMAIN cache' : cache'[i].id = r \/ \E j \in DOMAIN cache : cache'[i] = cache[j]
      /\ \A j \in DOMAIN cache : cache[j].id = r \/ cache[j].id \in evicted'
                                  \/ \E i \in DOMAIN cache' : cache'[i] = cache[j]
      /\ CachedAs(r, "done")'
    BY <1>1, <1>4, <1>5, CacheHolds
<1>7. OpenRuns' = {} /\ OpenEntries' = {}
    BY <1>2, <1>4 DEF OpenRuns, OpenEntries
<1>8. said' \subseteq Answer
    <2>1. b \in Answer
        BY <1>5 DEF Answer
    <2> HIDE DEF b
    <2>2. said' = said \cup {b}
        BY <1>3 DEF b
    <2> QED BY <1>1, <2>1, <2>2 DEF DispatchTypeOK
<1>9. DispatchTypeOK'
    <2>1. puppet' \in Character \cup {None} /\ epoch' \in Epoch /\ draining' \in BOOLEAN /\ running' \subseteq Run /\ queue' \in Seq(EntryType)
        BY <1>1, <1>4 DEF DispatchTypeOK
    <2>2. marker' \in Epoch \cup {NoEpoch} /\ scheduled' \in BOOLEAN
        BY <1>4
    <2> QED BY <1>2, <1>6, <1>8, <2>1, <2>2 DEF DispatchTypeOK
<1>10. Entries' /\ OneOpen'
    BY <1>1, <1>4, <1>7 DEF Entries, OneOpen
<1>11. \A a \in said' : a \in said \/ (a.id = r /\ a.epoch = epoch /\ a.as \in {"done", "lost"})
    <2>1. b.id = r /\ b.epoch = epoch /\ b.as \in {"done", "lost"}
        OBVIOUS
    <2> HIDE DEF b
    <2>2. said' = said \cup {b}
        BY <1>3 DEF b
    <2> QED BY <2>1, <2>2
<1>12. Sequenced'
    <2>1. \A q \in Request : runs'[q] # runs[q] => named'[q] # NoEpoch
        BY <1>2, <1>5
    <2> QED BY <1>1, <1>2, <1>6, <1>7, <1>9, <1>11, <2>1, SequencedStep
<1>13. OthersKept(r)
    <2>1. \A i \in DOMAIN cache : cache[i].id # r => cache[i].id \in evicted' \/ \E j \in DOMAIN cache' : cache'[j] = cache[i]
        BY <1>6
    <2>2. \A i \in DOMAIN cache' : cache'[i].id # r => \E j \in DOMAIN cache : cache[j] = cache'[i]
        BY <1>6
    <2>3. \A a \in said' : a.id # r => a \in said
        BY <1>11
    <2> QED BY <1>2, <1>4, <1>7, <2>1, <2>2, <2>3 DEF OthersKept
<1>14. ASSUME r \notin evicted' PROVE Told(r)'
    <2>1. Told(r) /\ ~Cached(r) /\ runs'[r] <= 1
        BY <1>2, <1>6, <1>14
    <2>2. ~Waiting(r)' /\ ~Answering(r)'
        BY <1>7 DEF Waiting, Answering, OpenEntries, Admitted
    <2>3. \A a \in said' : a.id = r /\ a.epoch = epoch' => a.as \in {"done", "lost"}
        BY <1>11, <2>1, Untold
    <2> QED BY <1>5, <1>6, <2>1, <2>2, <2>3, Settled
<1>15. Answered'
    BY <1>1, <1>2, <1>6, <1>9, <1>13, <1>14, ToldStep
<1> QED BY <1>6, <1>9, <1>10, <1>11, <1>12, <1>15, Together

LEMMA AdmitQuietStep ==
    ASSUME DispatchInv, NEW r \in Request, NEW e \in Epoch, AdmitQuiet(r, e)
    PROVE  DispatchInv'
<1>1. DispatchTypeOK /\ Switching
    BY DEF DispatchInv
<1>2. /\ Admissible(r, e) /\ Ran(r) /\ Flush(r) /\ UNCHANGED <<running, puppet, epoch, transition, draining>>
      /\ (due' = due \/ due' = Append(due, Drain))
    BY DEF AdmitQuiet, session
<1>3. said \subseteq said'
    BY <1>2 DEF Flush, Sent
<1>4. due' \in Seq(Call) /\ Switching'
    BY <1>1, <1>2, <1>3, DrainsLater
<1>5. transition' \in BOOLEAN
    BY <1>1, <1>2 DEF DispatchTypeOK
<1> QED BY <1>2, <1>4, <1>5, Flushed

LEMMA AdmitTransitionStep ==
    ASSUME DispatchInv, NEW r \in Request, NEW e \in Epoch, AdmitTransition(r, e)
    PROVE  DispatchInv'
<1>1. DispatchTypeOK /\ Switching
    BY DEF DispatchInv
<1>2. /\ Admissible(r, e) /\ Ran(r) /\ Flush(r) /\ UNCHANGED <<running, puppet, epoch, draining>>
      /\ ~transition /\ transition' = TRUE /\ puppet # None
    BY DEF AdmitTransition, Admissible
<1>3. PICK c \in Character : due' = (IF scheduled THEN Append(due, [asker |-> r, from |-> puppet, to |-> c])
                                     ELSE Append(Append(due, [asker |-> r, from |-> puppet, to |-> c]), Drain))
    BY DEF AdmitTransition
<1> DEFINE t == [asker |-> r, from |-> puppet, to |-> c]
           n == Len(due)
           asked == Append(due, t)
<1>4. t \in Call /\ t.asker = r /\ Drain \in Call
    BY <1>1 DEF Call, Drain, DispatchTypeOK
<1>5. due' = asked \/ due' = Append(asked, Drain)
    BY <1>3
<1>6. ~transition /\ \A i \in DOMAIN due : ~Transition(due[i])
    BY <1>1, <1>2 DEF Switching
<1> HIDE DEF t
<1>7. /\ asked \in Seq(Call) /\ n \in Nat /\ Len(asked) = n + 1 /\ DOMAIN due = 1..n /\ DOMAIN asked = 1..(n + 1)
      /\ asked[n + 1] = t /\ \A i \in 1..n : asked[i] = due[i]
    BY <1>1, <1>4, Appended DEF DispatchTypeOK
<1> HIDE DEF asked, n
<1>8. \A i \in DOMAIN asked : Transition(asked[i]) => i = n + 1
    BY <1>6, <1>7 DEF Transition
<1>9. due' \in Seq(Call) /\ \A i \in DOMAIN due' : Transition(due'[i]) => i = n + 1 /\ due'[i] = t
    <2>1. CASE due' = asked
        BY <1>7, <1>8, <2>1 DEF Transition
    <2>2. CASE due' = Append(asked, Drain)
        <3>1. /\ due' \in Seq(Call) /\ DOMAIN due' = 1..(Len(asked) + 1) /\ DOMAIN asked = 1..Len(asked)
              /\ Len(asked) \in Nat /\ due'[Len(asked) + 1] = Drain /\ \A i \in 1..Len(asked) : due'[i] = asked[i]
            BY <1>4, <1>7, <2>2, Appended
        <3>2. ASSUME NEW i \in DOMAIN due', Transition(due'[i]) PROVE i \in DOMAIN asked /\ due'[i] = asked[i]
            BY <3>1, <3>2 DEF Transition
        <3> QED BY <1>7, <1>8, <3>1, <3>2 DEF Transition
    <2> QED BY <1>5, <2>1, <2>2
<1>10. \E a \in said' : a.id = r
    <2>1. PICK o \in {"done", "lost"} : said' = said \cup {[id |-> r, epoch |-> epoch, as |-> o]}
        BY <1>2 DEF Flush, Sent
    <2>2. [id |-> r, epoch |-> epoch, as |-> o].id = r
        OBVIOUS
    <2> QED BY <2>1, <2>2
<1>11. Switching'
    BY <1>2, <1>4, <1>9, <1>10 DEF Switching
<1>12. transition' \in BOOLEAN
    BY <1>2
<1> QED BY <1>2, <1>9, <1>11, <1>12, Flushed


------------------------------------------------------------------------------
(* The queue moves.                                                        *)

\* Answers to requests that were not admitted come and go.
LEMMA StaleMoves ==
    ASSUME DispatchInv, UNCHANGED <<cache, evicted, running, runs, marker, epoch, said, puppet, transition>>,
           named' \in [Request -> Epoch \cup {NoEpoch}],
           \A q \in Request : named'[q] = named[q] \/ (named[q] = NoEpoch /\ named'[q] = epoch),
           queue' \in Seq(EntryType), draining' \in BOOLEAN, draining' => queue' # <<>>,
           \A i \in DOMAIN queue' :
              (queue'[i].origin \in {"stale", "staleAnswer"} /\ queue'[i].outcome = "stale")
              \/ \E j \in DOMAIN queue : queue[j] = queue'[i],
           \A j \in DOMAIN queue :
              queue[j].origin \in {"stale", "staleAnswer"} \/ \E i \in DOMAIN queue' : queue'[i] = queue[j],
           \A i, j \in OpenEntries' : i = j, OpenEntries' = {} <=> OpenEntries = {},
           scheduled' \in BOOLEAN, due' \in Seq(Call), Switching'
    PROVE  DispatchInv'
<1>1. DispatchTypeOK /\ OneOpen /\ Entries /\ Sequenced /\ NoTwo /\ Answered /\ AnswersAgree
    BY DEF DispatchInv
<1>2. DispatchTypeOK'
    <2>1. /\ puppet' \in Character \cup {None} /\ epoch' \in Epoch /\ transition' \in BOOLEAN
          /\ marker' \in Epoch \cup {NoEpoch} /\ cache' \in Seq(Result) /\ Len(cache') <= Capacity
          /\ running' \subseteq Run /\ runs' \in [Request -> 0..2] /\ evicted' \subseteq Request /\ said' \subseteq Answer
        BY <1>1 DEF DispatchTypeOK
    <2> QED BY <2>1 DEF DispatchTypeOK
<1>3. Entries'
    <2>1. ASSUME NEW i \in DOMAIN queue'
          PROVE  /\ queue'[i].origin = "result" => queue'[i].outcome \in Outcome
                 /\ queue'[i].origin \in {"recovery", "answer"} => queue'[i].outcome = "error"
                 /\ queue'[i].origin \in {"stale", "staleAnswer"} => queue'[i].outcome = "stale"
        BY <1>1 DEF Entries
    <2> QED BY <2>1 DEF Entries
<1>4. OpenRuns' = OpenRuns
    BY DEF OpenRuns
<1>5. OneOpen' /\ NoTwo'
    BY <1>1, <1>4 DEF OneOpen, NoTwo
<1>6. ASSUME NEW i \in OpenEntries' PROVE \E j \in OpenEntries : queue[j] = queue'[i]
    <2>1. i \in DOMAIN queue' /\ queue'[i].origin \in Admitted
        BY DEF OpenEntries
    <2>2. PICK j \in DOMAIN queue : queue[j] = queue'[i]
        BY <2>1 DEF Admitted
    <2> QED BY <2>1, <2>2 DEF OpenEntries
<1>7. Sequenced'
    <2>1. epoch \in Nat /\ epoch > 0 /\ epoch # NoEpoch
        BY <1>1 DEF DispatchTypeOK, Epoch, NoEpoch
    <2>2. /\ \A a \in running : a.id \in Request /\ a.epoch # NoEpoch
          /\ \A a \in said : a.id \in Request /\ a.epoch # NoEpoch
        BY <1>1 DEF DispatchTypeOK, Run, Answer, Epoch, NoEpoch
    <2>3. \A q \in Request : named[q] # NoEpoch => named'[q] = named[q]
        OBVIOUS
    <2>4. \A q \in Request : named'[q] <= epoch' /\ (runs'[q] # 0 => named'[q] # NoEpoch)
        BY <1>1, <2>1, <2>3 DEF Sequenced
    <2>5. (\A a \in running' : named'[a.id] = a.epoch) /\ \A a \in said' : named'[a.id] = a.epoch
        BY <1>1, <2>2, <2>3 DEF Sequenced
    <2>6. \A i \in DOMAIN cache' : named'[cache'[i].id] = epoch'
        BY <1>1, <2>1, <2>3, Typed DEF Sequenced
    <2>7. ASSUME NEW i \in OpenEntries' PROVE named'[queue'[i].id] = epoch'
        <3>1. PICK j \in OpenEntries : queue[j] = queue'[i]
            BY <1>6
        <3>2. queue[j].id \in Request /\ named[queue[j].id] = epoch
            BY <1>1, Typed DEF Sequenced, OpenEntries
        <3> QED BY <2>1, <2>3, <3>1, <3>2
    <2> QED BY <2>4, <2>5, <2>6, <2>7 DEF Sequenced
<1>8. ASSUME NEW q \in Request \ evicted' PROVE Told(q)'
    <2>1. Told(q) /\ (runs[q] # 0 => named[q] # NoEpoch)
        BY <1>1 DEF Answered, Sequenced
    <2>2. runs'[q] # 0 => named'[q] = named[q]
        BY <2>1
    <2>3. Waiting(q)' <=> Waiting(q)
        BY <1>4 DEF Waiting
    <2>4. Answering(q)' <=> Answering(q)
        BY DEF Answering
    <2>5. Cached(q)' = Cached(q) /\ \A o : CachedAs(q, o)' = CachedAs(q, o)
        BY DEF Cached, CachedAs
    <2> QED BY <2>1, <2>2, <2>3, <2>4, <2>5 DEF Told
<1> QED BY <1>2, <1>3, <1>5, <1>7, <1>8, Together DEF Answered

LEMMA SendStaleStep ==
    ASSUME DispatchInv, NEW r \in Request, NEW e \in Epoch, SendStale(r, e)
    PROVE  DispatchInv'
<1>1. DispatchTypeOK /\ Switching
    BY DEF DispatchInv
<1>2. PICK full \in BOOLEAN : Offer(r, "stale", "stale", full)
    BY DEF SendStale
<1>3. Arrives(r, e) /\ UNCHANGED <<cache, evicted, running, runs, marker, epoch, said, puppet, transition, draining>>
    BY DEF SendStale, dispatch, session
<1> DEFINE x == IF full THEN Instead(r, "stale") ELSE Entry(r, "stale", "stale")
<1>4. x.origin \in {"stale", "staleAnswer"} /\ x.outcome = "stale"
    BY DEF Instead, Entry
<1> HIDE DEF x
<1>5. Enqueue(queue, x) /\ x \in EntryType
    BY <1>2, Offered DEF x
<1>6. queue' = Append(queue, x) /\ scheduled' = TRUE /\ (due' = due \/ due' = Append(due, Drain))
    BY <1>5, Enqueued
<1>7. due' \in Seq(Call) /\ Switching'
    BY <1>1, <1>3, <1>6, DrainsLater
<1> DEFINE n == Len(queue) + 1
<1>8. /\ queue' \in Seq(EntryType) /\ queue' # <<>> /\ queue'[n] = x
      /\ \A i \in DOMAIN queue : i \in DOMAIN queue' /\ queue'[i] = queue[i]
      /\ \A i \in DOMAIN queue' : i \in DOMAIN queue \/ i = n
      /\ OpenEntries' = OpenEntries
    BY <1>1, <1>4, <1>5, <1>6, Grows DEF Admitted
<1> HIDE DEF n
<1>9. /\ named' \in [Request -> Epoch \cup {NoEpoch}]
      /\ \A q \in Request : named'[q] = named[q] \/ (named[q] = NoEpoch /\ named'[q] = epoch)
    BY <1>1, <1>3, Names
<1>10. \A i \in DOMAIN queue' : (queue'[i].origin \in {"stale", "staleAnswer"} /\ queue'[i].outcome = "stale")
                                 \/ \E j \in DOMAIN queue : queue[j] = queue'[i]
    BY <1>4, <1>8
<1>11. \A j \in DOMAIN queue : \E i \in DOMAIN queue' : queue'[i] = queue[j]
    BY <1>8
<1>12. \A i, j \in OpenEntries' : i = j
    BY <1>8 DEF DispatchInv, OneOpen
<1>13. draining' \in BOOLEAN /\ scheduled' \in BOOLEAN
    BY <1>1, <1>3, <1>6 DEF DispatchTypeOK
<1> QED BY <1>3, <1>7, <1>8, <1>9, <1>10, <1>11, <1>12, <1>13, StaleMoves

\* The entry at the head, if there is an adapter's result in it, is answered or
\* gives way to its error.
LEMMA HeadMoves ==
    ASSUME DispatchInv, NEW r \in Request, 1 \in OpenEntries, queue[1].id = r, NEW o \in Outcome,
           queue[1].origin # "result" => o = "error",
           IF queue[1].origin = "result" THEN CacheResult(r, o) ELSE UNCHANGED <<cache, evicted>>,
           queue' \in Seq(EntryType), draining' \in BOOLEAN, draining' => queue' # <<>>,
           \A i \in DOMAIN queue' :
              (queue'[i].id = r /\ queue'[i].origin = "answer" /\ queue'[i].outcome = "error" /\ o = "error")
              \/ \E j \in DOMAIN queue : j # 1 /\ queue[j] = queue'[i],
           \A j \in DOMAIN queue : j # 1 => \E i \in DOMAIN queue' : queue'[i] = queue[j],
           \A i, j \in OpenEntries' : i = j, marker' = IF OpenEntries' = {} THEN NoEpoch ELSE epoch,
           said' \subseteq Answer, \A a \in said' : a \in said \/ (a.id = r /\ a.epoch = epoch /\ a.as \in {o, "lost"}),
           UNCHANGED <<running, runs, named, epoch, puppet, transition>>,
           scheduled' \in BOOLEAN, due' \in Seq(Call), Switching'
    PROVE  DispatchInv'
<1>1. DispatchTypeOK /\ OneOpen /\ Entries /\ Sequenced /\ NoTwo /\ Answered /\ AnswersAgree
    BY DEF DispatchInv
<1>2. epoch \in Epoch /\ epoch # NoEpoch
    BY <1>1 DEF DispatchTypeOK, Epoch, NoEpoch
<1>3. OpenEntries = {1} /\ OpenRuns = {} /\ OpenRuns' = {}
    BY <1>1 DEF OneOpen, OpenRuns
<1>4. /\ cache' \in Seq(Result) /\ Len(cache') <= Capacity /\ NoTwo'
      /\ evicted \subseteq evicted' /\ evicted' \subseteq Request
      /\ \A i \in DOMAIN cache' : cache'[i].id = r \/ \E j \in DOMAIN cache : cache'[i] = cache[j]
      /\ \A j \in DOMAIN cache : cache[j].id = r \/ cache[j].id \in evicted'
                                  \/ \E i \in DOMAIN cache' : cache'[i] = cache[j]
    <2>1. CASE queue[1].origin = "result"
        BY <1>1, <2>1, CacheHolds
    <2>2. CASE queue[1].origin # "result"
        BY <1>1, <2>2 DEF NoTwo, DispatchTypeOK
    <2> QED BY <2>1, <2>2
<1>5. DispatchTypeOK'
    <2>1. /\ puppet' \in Character \cup {None} /\ epoch' \in Epoch /\ transition' \in BOOLEAN
          /\ running' \subseteq Run /\ runs' \in [Request -> 0..2]
          /\ named' \in [Request -> Epoch \cup {NoEpoch}]
        BY <1>1 DEF DispatchTypeOK
    <2>2. marker' \in Epoch \cup {NoEpoch}
        BY <1>2
    <2> QED BY <1>4, <2>1, <2>2 DEF DispatchTypeOK
<1>6. Entries'
    <2>1. ASSUME NEW i \in DOMAIN queue'
          PROVE  /\ queue'[i].origin = "result" => queue'[i].outcome \in Outcome
                 /\ queue'[i].origin \in {"recovery", "answer"} => queue'[i].outcome = "error"
                 /\ queue'[i].origin \in {"stale", "staleAnswer"} => queue'[i].outcome = "stale"
        BY <1>1 DEF Entries
    <2> QED BY <2>1 DEF Entries
<1>7. OneOpen'
    BY <1>2, <1>3 DEF OneOpen
<1>8. named[r] = epoch
    BY <1>1 DEF Sequenced
<1>9. Sequenced'
    <2>1. ASSUME NEW i \in OpenEntries' PROVE (queue'[i].id = r /\ named'[r] = epoch) \/ \E j \in OpenEntries : queue[j] = queue'[i]
        <3>1. i \in DOMAIN queue' /\ queue'[i].origin \in Admitted
            BY DEF OpenEntries
        <3> QED BY <1>8, <3>1 DEF OpenEntries
    <2>2. \A i \in DOMAIN cache' : (cache'[i].id = r /\ named'[r] = epoch) \/ \E j \in DOMAIN cache : cache'[i] = cache[j]
        BY <1>4, <1>8
    <2>3. \A a \in said' : a \in said \/ (a.id = r /\ a.epoch = epoch /\ named'[r] = epoch)
        BY <1>8
    <2> QED BY <1>1, <1>5, <2>1, <2>2, <2>3, SequencedStep
<1>10. OthersKept(r)
    <2>1. \A i \in DOMAIN queue : queue[i].id # r => \E j \in DOMAIN queue' : queue'[j] = queue[i]
        OBVIOUS
    <2>2. \A i \in DOMAIN queue' : queue'[i].id # r => \E j \in DOMAIN queue : queue[j] = queue'[i]
        OBVIOUS
    <2>3. \A i \in DOMAIN cache : cache[i].id # r => cache[i].id \in evicted' \/ \E j \in DOMAIN cache' : cache'[j] = cache[i]
        BY <1>4
    <2>4. \A i \in DOMAIN cache' : cache'[i].id # r => \E j \in DOMAIN cache : cache[j] = cache'[i]
        BY <1>4
    <2> QED BY <1>3, <2>1, <2>2, <2>3, <2>4 DEF OthersKept
<1>11. ASSUME r \notin evicted' PROVE Told(r)'
    <2>1. Told(r)
        BY <1>1, <1>4, <1>11 DEF Answered
    <2>2. \A i \in DOMAIN queue' : queue'[i].origin \in Admitted => queue'[i].origin = "answer" /\ o = "error"
        BY <1>3 DEF OpenEntries
    <2>3. ~Waiting(r)'
        BY <1>3, <2>2 DEF Waiting, Admitted
    <2>4. Answering(r)' => o = "error"
        BY <2>2 DEF Answering, Admitted
    <2>5. 1 \in DOMAIN queue /\ queue[1].origin \in Admitted
        BY DEF OpenEntries
    <2>6. CASE queue[1].origin = "result"
        <3>1. CachedAs(r, o)'
            BY <1>1, <2>6, CacheHolds
        <3>2. Waiting(r)
            BY <2>5, <2>6 DEF Waiting
        <3>3. ~Cached(r)
            BY <2>1, <3>2 DEF Told
        <3>4. \A a \in said' : a.id = r /\ a.epoch = epoch' => a.as \in {o, "lost"}
            BY <2>1, <3>3, Untold
        <3> QED BY <2>1, <2>3, <2>4, <3>1, <3>4, Settled DEF Told
    <2>7. CASE queue[1].origin # "result"
        <3>1. Answering(r) /\ o = "error"
            BY <2>5, <2>7 DEF Answering, Admitted
        <3>2. CachedAs(r, o)
            BY <2>1, <3>1 DEF Told
        <3>3. CachedAs(r, o)'
            BY <2>7, <3>2 DEF CachedAs
        <3>4. ASSUME NEW a \in said, a.id = r, a.epoch = epoch, a.as # "lost" PROVE a.as = o
            <4>1. CachedAs(r, a.as)
                BY <2>1, <3>4 DEF Told
            <4>2. PICK i \in DOMAIN cache : cache[i] = [id |-> r, outcome |-> o]
                BY <3>2 DEF CachedAs
            <4>3. PICK j \in DOMAIN cache : cache[j] = [id |-> r, outcome |-> a.as]
                BY <4>1 DEF CachedAs
            <4>4. i = j
                BY <1>1, <4>2, <4>3 DEF NoTwo
            <4> QED BY <4>2, <4>3, <4>4
        <3>5. \A a \in said' : a.id = r /\ a.epoch = epoch' => a.as \in {o, "lost"}
            BY <3>4
        <3> QED BY <2>1, <2>3, <2>4, <3>3, <3>5, Settled DEF Told
    <2> QED BY <2>6, <2>7
<1>12. Answered'
    BY <1>1, <1>4, <1>5, <1>10, <1>11, ToldStep
<1> QED BY <1>4, <1>5, <1>6, <1>7, <1>9, <1>12, Together


LEMMA CompletionPublishedStep ==
    ASSUME DispatchInv, CompletionPublished
    PROVE  DispatchInv'
<1> DEFINE h == Head(queue)
<1>1. DispatchTypeOK /\ OneOpen /\ Entries /\ Sequenced /\ Switching
    BY DEF DispatchInv
<1>2. /\ draining /\ queue' = Tail(queue) /\ draining' = (Tail(queue) # <<>>)
      /\ UNCHANGED <<scheduled, due, running, runs, puppet, epoch, transition, named>>
    BY DEF CompletionPublished, DrainOn, session
<1>3. /\ h.outcome = "stale" => said' = said
      /\ h.outcome # "stale" => \E as \in {h.outcome, "lost"} : Sent(h.id, as)
      /\ IF h.origin = "result" THEN CacheResult(h.id, h.outcome) ELSE UNCHANGED <<cache, evicted>>
      /\ marker' = IF h.origin \in Admitted /\ marker = epoch THEN NoEpoch ELSE marker
    BY DEF CompletionPublished, Released, Settle
<1>4. queue # <<>>
    BY <1>1, <1>2 DEF Entries
<1>5. /\ queue' \in Seq(EntryType) /\ 1 \in DOMAIN queue /\ queue[1] = h /\ h \in EntryType
      /\ \A i \in DOMAIN queue' : i + 1 \in DOMAIN queue /\ queue'[i] = queue[i + 1]
      /\ \A i \in DOMAIN queue : i # 1 => i - 1 \in DOMAIN queue' /\ queue'[i - 1] = queue[i]
      /\ \A i, j \in OpenEntries' : i = j
      /\ h.origin \in Admitted => OpenEntries' = {} /\ OpenEntries = {1}
      /\ h.origin \notin Admitted => (OpenEntries' = {} <=> OpenEntries = {})
    BY <1>1, <1>2, <1>4, Shrinks
<1> HIDE DEF h
<1>6. (draining' => queue' # <<>>) /\ draining' \in BOOLEAN
    BY <1>2
<1>7. scheduled' \in BOOLEAN /\ due' \in Seq(Call)
    BY <1>1, <1>2 DEF DispatchTypeOK
<1>8. h.id \in Request /\ h.origin \in Admitted \cup {"stale", "staleAnswer"}
    BY <1>5 DEF EntryType, Origin
<1>9. /\ h.origin = "result" => h.outcome \in Outcome
      /\ h.origin \in {"recovery", "answer"} => h.outcome = "error"
      /\ h.origin \in {"stale", "staleAnswer"} => h.outcome = "stale"
    BY <1>1, <1>5 DEF Entries
<1>10. CASE h.origin \notin Admitted
    <2>1. h.origin \in {"stale", "staleAnswer"} /\ h.origin # "result" /\ h.outcome = "stale"
        BY <1>8, <1>9, <1>10 DEF Admitted
    <2>2. UNCHANGED <<cache, evicted, marker, said>>
        BY <1>3, <1>10, <2>1
    <2>3. Switching'
        BY <1>1, <1>2, <2>2 DEF Switching
    <2>4. \A i \in DOMAIN queue' : \E j \in DOMAIN queue : queue[j] = queue'[i]
        BY <1>5
    <2>5. \A j \in DOMAIN queue : queue[j].origin \in {"stale", "staleAnswer"} \/ \E i \in DOMAIN queue' : queue'[i] = queue[j]
        BY <1>5, <2>1
    <2>6. /\ named' \in [Request -> Epoch \cup {NoEpoch}]
          /\ \A q \in Request : named'[q] = named[q]
        BY <1>1, <1>2 DEF DispatchTypeOK
    <2> QED BY <1>2, <1>5, <1>6, <1>7, <1>10, <2>2, <2>3, <2>4, <2>5, <2>6, StaleMoves
<1>11. CASE h.origin \in Admitted
    <2>1. h.outcome \in Outcome /\ h.outcome # "stale" /\ (h.origin # "result" => h.outcome = "error")
        BY <1>9, <1>11 DEF Outcome, Admitted
    <2>2. PICK o \in {h.outcome, "lost"} : said' = said \cup {[id |-> h.id, epoch |-> epoch, as |-> o]}
        BY <1>3, <2>1 DEF Sent
    <2> DEFINE a == [id |-> h.id, epoch |-> epoch, as |-> o]
    <2>3. a \in Answer /\ a.id = h.id /\ a.epoch = epoch /\ a.as = o
        BY <1>1, <1>8, <2>1 DEF Answer, DispatchTypeOK
    <2>4. said' = said \cup {a}
        BY <2>2
    <2> HIDE DEF a
    <2>5. said' \subseteq Answer /\ \A b \in said' : b \in said \/ (b.id = h.id /\ b.epoch = epoch /\ b.as \in {h.outcome, "lost"})
        BY <1>1, <2>2, <2>3, <2>4 DEF DispatchTypeOK
    <2>6. Switching'
        BY <1>1, <1>2, <2>4 DEF Switching
    <2>7. OpenEntries' = {} /\ 1 \in OpenEntries
        BY <1>5, <1>11
    <2>8. marker' = IF OpenEntries' = {} THEN NoEpoch ELSE epoch
        BY <1>1, <1>3, <1>11, <2>7 DEF OneOpen
    <2>9. ASSUME NEW k \in DOMAIN queue' PROVE \E j \in DOMAIN queue : j # 1 /\ queue[j] = queue'[k]
        <3>1. \A i \in DOMAIN queue' : i \in Nat \ {0}
            BY <1>5, LenProperties
        <3>2. \A i \in DOMAIN queue' : i + 1 # 1
            BY <3>1
        <3> QED BY <1>5, <3>2
    <2>10. \A j \in DOMAIN queue : j # 1 => \E i \in DOMAIN queue' : queue'[i] = queue[j]
        BY <1>5
    <2>11. IF queue[1].origin = "result" THEN CacheResult(h.id, h.outcome) ELSE UNCHANGED <<cache, evicted>>
        BY <1>3, <1>5
    <2>12. UNCHANGED <<running, runs, named, epoch, puppet, transition>>
        BY <1>2
    <2>13. queue[1].id = h.id /\ (queue[1].origin # "result" => h.outcome = "error")
        BY <1>5, <2>1
    <2>14. \A i \in DOMAIN queue' :
              (queue'[i].id = h.id /\ queue'[i].origin = "answer" /\ queue'[i].outcome = "error" /\ h.outcome = "error")
              \/ \E j \in DOMAIN queue : j # 1 /\ queue[j] = queue'[i]
        BY <2>9
    <2>15. queue' \in Seq(EntryType) /\ \A i, j \in OpenEntries' : i = j
        BY <1>5
    <2>16. h.id \in Request /\ h.outcome \in Outcome /\ 1 \in OpenEntries
        BY <1>8, <2>1, <2>7
    <2> QED BY <1>6, <1>7, <2>5, <2>6, <2>8, <2>10, <2>11, <2>12, <2>13, <2>14, <2>15, <2>16, HeadMoves
<1> QED BY <1>10, <1>11

\* The entry at the head gives way to one at the end.
LEMMA Requeues ==
    ASSUME DispatchTypeOK, OneOpen, queue # <<>>, NEW x \in EntryType, queue' = Append(Tail(queue), x),
           x.origin \in Admitted <=> Head(queue).origin \in Admitted
    PROVE  /\ queue' \in Seq(EntryType) /\ queue' # <<>>
           /\ 1 \in DOMAIN queue /\ queue[1] = Head(queue) /\ Head(queue) \in EntryType
           /\ \A i \in DOMAIN queue' : queue'[i] = x \/ \E j \in DOMAIN queue : j # 1 /\ queue[j] = queue'[i]
           /\ \A j \in DOMAIN queue : j # 1 => \E i \in DOMAIN queue' : queue'[i] = queue[j]
           /\ \A i, j \in OpenEntries' : i = j
           /\ OpenEntries' = {} <=> OpenEntries = {}
           /\ Head(queue).origin \in Admitted => 1 \in OpenEntries /\ OpenEntries' # {}
<1> DEFINE t == Tail(queue)
           n == Len(queue)
<1>1. /\ t \in Seq(EntryType) /\ n \in Nat \ {0} /\ Len(t) = n - 1 /\ DOMAIN queue = 1..n /\ DOMAIN t = 1..(n - 1)
      /\ Head(queue) = queue[1] /\ Head(queue) \in EntryType /\ \A i \in 1..(n - 1) : t[i] = queue[i + 1]
    BY Tailed DEF DispatchTypeOK
<1>2. queue' = Append(t, x)
    OBVIOUS
<1> HIDE DEF t
<1>3. /\ queue' \in Seq(EntryType) /\ queue' # <<>> /\ DOMAIN queue' = 1..(Len(t) + 1)
      /\ queue'[Len(t) + 1] = x /\ \A i \in 1..Len(t) : queue'[i] = t[i]
    <2>1. /\ Append(t, x) \in Seq(EntryType) /\ DOMAIN Append(t, x) = 1..(Len(t) + 1)
          /\ Append(t, x)[Len(t) + 1] = x /\ \A i \in 1..Len(t) : Append(t, x)[i] = t[i]
        BY <1>1, Appended
    <2>2. queue' # <<>>
        BY <1>1, <1>2, AppendProperties
    <2> QED BY <1>2, <2>1, <2>2
<1> HIDE DEF n
<1>4. /\ DOMAIN queue' = 1..n /\ queue'[n] = x /\ 1 \in DOMAIN queue
      /\ \A i \in 1..(n - 1) : queue'[i] = queue[i + 1]
    BY <1>1, <1>3
<1>5. \A i \in DOMAIN queue' : i = n \/ (i + 1 \in DOMAIN queue /\ i + 1 # 1 /\ queue'[i] = queue[i + 1] /\ i \in Nat)
    BY <1>1, <1>4
<1>6. ASSUME NEW j \in DOMAIN queue, j # 1 PROVE j - 1 \in DOMAIN queue' /\ queue'[j - 1] = queue[j]
    <2>1. j - 1 \in 1..(n - 1) /\ j - 1 \in 1..n /\ (j - 1) + 1 = j
        BY <1>1, <1>6
    <2> QED BY <1>4, <2>1
<1>7. n \in DOMAIN queue'
    BY <1>1, <1>4
<1>8. \A i \in OpenEntries' : i = n \/ (i + 1 \in OpenEntries /\ i + 1 # 1 /\ i \in Nat)
    BY <1>5 DEF OpenEntries
<1>9. CASE Head(queue).origin \in Admitted
    <2>1. 1 \in OpenEntries
        BY <1>1, <1>4, <1>9 DEF OpenEntries
    <2>2. \A i \in OpenEntries' : i = n
        BY <1>8, <2>1 DEF OneOpen
    <2>3. n \in OpenEntries'
        BY <1>4, <1>7, <1>9 DEF OpenEntries
    <2> QED BY <1>1, <1>3, <1>4, <1>5, <1>6, <2>1, <2>2, <2>3
<1>10. CASE Head(queue).origin \notin Admitted
    <2>1. 1 \notin OpenEntries
        BY <1>1, <1>10 DEF OpenEntries
    <2>2. n \notin OpenEntries'
        BY <1>4, <1>10 DEF OpenEntries
    <2>3. ASSUME NEW i \in OpenEntries', NEW j \in OpenEntries' PROVE i = j
        <3>1. i + 1 = j + 1 /\ i \in Nat /\ j \in Nat
            BY <1>8, <2>2 DEF OneOpen
        <3> QED BY <3>1
    <2>4. OpenEntries' = {} <=> OpenEntries = {}
        <3>1. \A i \in OpenEntries' : i + 1 \in OpenEntries
            BY <1>8, <2>2
        <3>2. \A j \in OpenEntries : j - 1 \in OpenEntries'
            BY <1>6, <2>1 DEF OpenEntries
        <3> QED BY <3>1, <3>2
    <2> QED BY <1>1, <1>3, <1>4, <1>5, <1>6, <1>10, <2>3, <2>4
<1> QED BY <1>9, <1>10

LEMMA CompletionFailedStep ==
    ASSUME DispatchInv, CompletionFailed
    PROVE  DispatchInv'
<1> DEFINE h == Head(queue)
           x == Instead(h.id, h.origin)
<1>1. DispatchTypeOK /\ OneOpen /\ Entries /\ Sequenced /\ Switching
    BY DEF DispatchInv
<1>2. /\ draining /\ h.origin \in {"result", "recovery", "stale"}
      /\ IF h.origin = "result" THEN CacheResult(h.id, "error") ELSE UNCHANGED <<cache, evicted>>
      /\ UNCHANGED <<marker, running, runs, puppet, epoch, transition, draining, named, said>>
    BY DEF CompletionFailed, session
<1>3. queue' = Append(Tail(queue), x) /\ scheduled' = TRUE /\ (due' = due \/ due' = Append(due, Drain))
    BY DEF CompletionFailed, Enqueue
<1>4. queue # <<>>
    BY <1>1, <1>2 DEF Entries
<1>5. h \in EntryType
    BY <1>1, <1>4, Tailed DEF DispatchTypeOK
<1>6. h.id \in Request
    BY <1>5 DEF EntryType
<1>7. /\ x \in EntryType /\ x.id = h.id /\ (x.origin \in Admitted <=> h.origin \in Admitted)
      /\ h.origin = "stale" => x.origin = "staleAnswer" /\ x.outcome = "stale"
      /\ h.origin # "stale" => x.origin = "answer" /\ x.outcome = "error"
    <2> HIDE DEF h
    <2> QED BY <1>2, <1>6 DEF EntryType, Instead, Entry, Outcome, Origin, Admitted
<1> HIDE DEF x
<1>8. /\ queue' \in Seq(EntryType) /\ queue' # <<>> /\ 1 \in DOMAIN queue /\ queue[1] = h
      /\ \A i \in DOMAIN queue' : queue'[i] = x \/ \E j \in DOMAIN queue : j # 1 /\ queue[j] = queue'[i]
      /\ \A j \in DOMAIN queue : j # 1 => \E i \in DOMAIN queue' : queue'[i] = queue[j]
      /\ \A i, j \in OpenEntries' : i = j
      /\ OpenEntries' = {} <=> OpenEntries = {}
      /\ h.origin \in Admitted => 1 \in OpenEntries /\ OpenEntries' # {}
    BY <1>1, <1>3, <1>4, <1>7, Requeues
<1> HIDE DEF h
<1>9. due' \in Seq(Call) /\ Switching'
    BY <1>1, <1>2, <1>3, DrainsLater
<1>10. scheduled' \in BOOLEAN /\ draining' \in BOOLEAN
    BY <1>1, <1>2, <1>3 DEF DispatchTypeOK
<1>11. /\ named' \in [Request -> Epoch \cup {NoEpoch}] /\ said' \subseteq Answer
       /\ \A q \in Request : named'[q] = named[q]
    BY <1>1, <1>2 DEF DispatchTypeOK
<1>12. CASE h.origin = "stale"
    <2>1. UNCHANGED <<cache, evicted>>
        BY <1>2, <1>12
    <2>2. \A i \in DOMAIN queue' : (queue'[i].origin \in {"stale", "staleAnswer"} /\ queue'[i].outcome = "stale")
                                    \/ \E j \in DOMAIN queue : queue[j] = queue'[i]
        BY <1>7, <1>8, <1>12
    <2>3. \A j \in DOMAIN queue : queue[j].origin \in {"stale", "staleAnswer"} \/ \E i \in DOMAIN queue' : queue'[i] = queue[j]
        BY <1>8, <1>12
    <2> QED BY <1>2, <1>8, <1>9, <1>10, <1>11, <2>1, <2>2, <2>3, StaleMoves
<1>13. CASE h.origin # "stale"
    <2>1. h.origin \in Admitted /\ "error" \in Outcome
        BY <1>2, <1>13 DEF Admitted, Outcome
    <2>2. 1 \in OpenEntries /\ OpenEntries' # {} /\ marker' = epoch
        BY <1>1, <1>2, <1>8, <2>1 DEF OneOpen
    <2>3. \A i \in DOMAIN queue' :
             (queue'[i].id = h.id /\ queue'[i].origin = "answer" /\ queue'[i].outcome = "error")
             \/ \E j \in DOMAIN queue : j # 1 /\ queue[j] = queue'[i]
        BY <1>7, <1>8, <1>13
    <2>4. IF queue[1].origin = "result" THEN CacheResult(h.id, "error") ELSE UNCHANGED <<cache, evicted>>
        BY <1>2, <1>8
    <2> QED BY <1>2, <1>6, <1>8, <1>9, <1>10, <1>11, <2>1, <2>2, <2>3, <2>4, HeadMoves
<1> QED BY <1>12, <1>13


------------------------------------------------------------------------------
(* The invariant, and what it shows.                                       *)

LEMMA InitDispatch == Init => DispatchInv
<1> SUFFICES ASSUME Init PROVE DispatchInv
    OBVIOUS
<1>1. /\ <<>> \in Seq(Result) /\ <<>> \in Seq(EntryType) /\ <<>> \in Seq(Call) /\ Len(<<>>) = 0
      /\ \A i \in DOMAIN <<>> : FALSE
    BY EmptySeq
<1>2. epoch = 1 /\ 1 \in Epoch /\ Capacity \in Nat /\ First \in Character
    BY DEF Init, Epoch
<1>3. DispatchTypeOK
    <2>1. scheduled = FALSE /\ draining = FALSE /\ transition = FALSE
        BY DEF Init
    <2>2. scheduled \in BOOLEAN /\ draining \in BOOLEAN /\ transition \in BOOLEAN
        BY <2>1
    <2>3. named \in [Request -> Epoch \cup {NoEpoch}] /\ runs \in [Request -> 0..2]
        BY DEF Init
    <2>4. /\ cache \in Seq(Result) /\ Len(cache) <= Capacity /\ queue \in Seq(EntryType) /\ due \in Seq(Call)
          /\ running = {} /\ evicted = {} /\ said = {} /\ marker = NoEpoch /\ epoch \in Epoch /\ puppet \in Character
        BY <1>1, <1>2 DEF Init
    <2> QED BY <2>2, <2>3, <2>4 DEF DispatchTypeOK
<1>4. OpenRuns = {} /\ OpenEntries = {}
    BY <1>1 DEF Init, OpenRuns, OpenEntries
<1>5. Entries /\ OneOpen /\ NoTwo /\ AnswersAgree /\ Switching
    BY <1>1, <1>4 DEF Init, Entries, OneOpen, NoTwo, AnswersAgree, Switching
<1>6. Sequenced
    BY <1>1, <1>2, <1>4 DEF Init, Sequenced, NoEpoch
<1>7. ASSUME NEW r \in Request PROVE Told(r)
    <2>1. ~Waiting(r) /\ ~Answering(r)
        BY <1>1, <1>4 DEF Init, Waiting, Answering
    <2> QED BY <2>1 DEF Init, Told
<1> QED BY <1>3, <1>5, <1>6, <1>7 DEF DispatchInv, Answered

LEMMA NextDispatch ==
    ASSUME DispatchInv, [Next]_vars
    PROVE  DispatchInv'
<1>1. ASSUME NEW r \in Request, NEW e \in Epoch, HandleAction(r, e) PROVE DispatchInv'
    BY <1>1, ReplayStep, RefuseStep, SendStaleStep, AdmitSyncStep, AdmitDeferredStep, AdmitRaisesStep,
       AdmitQuietStep, AdmitTransitionStep DEF HandleAction
<1>2. ASSUME NEW a \in running, AdapterCompletes(a) PROVE DispatchInv'
    BY <1>2, CompletionStep, LateCompletionStep
<1>3. CASE ReactorTurn
    BY <1>3, StartDrainStep, CompletionPublishedStep, CompletionFailedStep, TransitionRefusedStep, AttachStep
       DEF ReactorTurn
<1>4. ASSUME NEW c \in Character \cup {None}, ChangePuppet(c) PROVE DispatchInv'
    BY <1>4, ChangePuppetStep
<1>5. CASE UNCHANGED vars
    <2>1. UNCHANGED <<puppet, epoch, marker, cache, running, queue, scheduled, draining, due, transition, named, runs, evicted, said>>
        BY <1>5 DEF vars, dispatch, coordinator, session
    <2>2. DispatchTypeOK /\ Switching
        BY DEF DispatchInv
    <2>3. DispatchTypeOK' /\ Switching'
        BY <2>1, <2>2 DEF DispatchTypeOK, Switching
    <2> QED BY <2>1, <2>2, <2>3, StillTold
<1> QED BY <1>1, <1>2, <1>3, <1>4, <1>5 DEF Next

\* The inductive invariant holds in every state.
THEOREM DispatchInvariant == Spec => []DispatchInv
<1>1. DispatchInv /\ [Next]_vars => DispatchInv'
    BY NextDispatch
<1> QED BY InitDispatch, <1>1, PTL DEF Spec

\* A request runs its adapter at most once while its result is in the cache
\* or still to come (dispatcher.py, handle_ui_action).
THEOREM RequestsRunOnce == Spec => []ExecutedOnce
<1>1. DispatchInv => ExecutedOnce
    BY DEF DispatchInv, Answered, Told, ExecutedOnce
<1> QED BY <1>1, DispatchInvariant, PTL

\* Every answer to one request tells the same result (dispatcher.py,
\* _completion_failed).
THEOREM OneResultIsTold == Spec => []AnswersAgree
<1>1. DispatchInv => AnswersAgree
    BY DEF DispatchInv
<1> QED BY <1>1, DispatchInvariant, PTL

\* The marker is taken exactly while one admitted request of the sequence is
\* open (dispatcher.py, _settle_in_flight).
THEOREM MarkerIsExact == Spec => []OneAtATime
<1>1. ASSUME DispatchInv PROVE OneAtATime
    <2>1. OneOpen
        BY <1>1 DEF DispatchInv
    <2>2. Cardinality({}) = 0 /\ \A x : Cardinality({x}) = 1
        BY FS_EmptySet, FS_Singleton
    <2>3. ASSUME NEW S, \A a, b \in S : a = b PROVE Cardinality(S) = IF S = {} THEN 0 ELSE 1
        <3>1. CASE S = {}
            BY <2>2, <3>1
        <3>2. CASE S # {}
            <4>1. PICK x : x \in S
                BY <3>2
            <4>2. S = {x}
                BY <2>3, <4>1
            <4> QED BY <2>2, <3>2, <4>2
        <3> QED BY <3>1, <3>2
    <2>4. /\ Cardinality(OpenRuns) = IF OpenRuns = {} THEN 0 ELSE 1
          /\ Cardinality(OpenEntries) = IF OpenEntries = {} THEN 0 ELSE 1
        BY <2>1, <2>3 DEF OneOpen
    <2>5. Unsettled = Cardinality(OpenRuns) + Cardinality(OpenEntries)
        BY DEF Unsettled, OpenRuns, OpenEntries
    <2> HIDE DEF OpenRuns, OpenEntries
    <2> QED BY <2>1, <2>4, <2>5 DEF OneAtATime, OneOpen
<1> QED BY <1>1, DispatchInvariant, PTL

\* The change of puppet that runs was asked for by a request that is answered,
\* and no other waits behind it (account_actions.py).
THEOREM SwitchesAfterItsAnswer == Spec => SwitchAnswered
<1>1. ASSUME DispatchInv, Attach
      PROVE  (\E a \in said : a.id = Head(due).asker) /\ \A i \in DOMAIN due \ {1} : ~Transition(due[i])
    <2>1. due # <<>> /\ Transition(Head(due)) /\ Switching /\ due \in Seq(Call)
        BY <1>1 DEF Attach, DispatchInv, DispatchTypeOK
    <2>2. Head(due) = due[1] /\ 1 \in DOMAIN due
        BY <2>1, Tailed
    <2> QED BY <2>1, <2>2 DEF Switching
<1>2. DispatchInv /\ [Next]_vars =>
        [Attach => /\ \E a \in said : a.id = Head(due).asker
                   /\ \A i \in DOMAIN due \ {1} : ~Transition(due[i])]_vars
    BY <1>1
<1> QED BY <1>2, DispatchInvariant, PTL DEF Spec, SwitchAnswered
=============================================================================
