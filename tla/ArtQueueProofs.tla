---------------------------- MODULE ArtQueueProofs ----------------------------
(***************************************************************************)
(* Proofs about the artwork queue, for any scenes, galleries, images and   *)
(* formats.  The argument has three parts: which thread may stand where    *)
(* (Places), what the worker knows of the record, the file and the card it *)
(* settles while it holds the locks (Claimed, Settling), and who owns a    *)
(* picture (Owners), so that whatever is unlinked is named by nobody.      *)
(***************************************************************************)
EXTENDS ArtQueueProperties, FiniteSetTheorems, TLAPS

USE ArtAssumption

------------------------------------------------------------------------------
(* The inductive invariant.                                                *)

Picture == Image \X Format
WorkerSteps == {"idle", "next", "generate", "publish", "replaced", "marked", "committed",
          "carded", "unlinked", "rejected", "failed"}
WorkerType == [step : WorkerSteps, job : Job \cup {None}, token : Token, prompt : Prompt,
               stale : SUBSET Identity]
ReactorType == [step : {"idle", "guard", "unlink", "claim", "stamp"},
                subject : Subject \cup Job \cup {None}, file : Picture \cup {None},
                todo : SUBSET Job]

ArtTypeOK ==
    /\ up \in BOOLEAN /\ slot \in BOOLEAN
    /\ record \in [Job -> Record]
    /\ cards \in [Subject -> SUBSET Picture]
    /\ files \in [Identity -> 0..(MaxEvent + 1)]
    /\ format \in Format /\ retired \subseteq Monster
    /\ batch \subseteq Job \X (Token \ {0})
    /\ worker \in WorkerType
    /\ reactor \in ReactorType
    /\ snapshot \in {"idle", "paused", "backup", "mirror", "mirrored"}
    /\ saved \in [named : SUBSET Identity, files : SUBSET Identity]
    /\ removed \subseteq Picture
    /\ events \in 0..MaxEvent
    /\ \A j \in Job : record[j].prompt <= events + 1

\* The worker runs when the whole batch is claimed, in the slot; nobody runs in a dead
\* server; the worker and the snapshot are not in the gate at once.
Gated == {"replaced", "marked", "committed", "carded", "unlinked", "rejected"}
Copying == {"backup", "mirror", "mirrored"}

Places ==
    /\ ~up => ~slot /\ batch = {} /\ worker = Resting /\ reactor = Free /\ snapshot = "idle"
    /\ worker.step # "idle" \/ reactor.step \in {"claim", "stamp"} \/ batch # {} => slot
    /\ worker.step # "idle" => reactor.step \notin {"claim", "stamp"}
    /\ worker.step \in Gated => snapshot \notin Copying
    /\ reactor.step = "guard" => reactor.subject \in Subject
    /\ reactor.step = "stamp" => reactor.subject \in reactor.todo
    /\ reactor.step = "unlink" => reactor.file \in removed

\* What the drain has claimed or is about to.
Handled == reactor.todo \cup {c[1] : c \in batch} \cup {worker.job}

\* Whose picture it is: a scene's record names its own, a card names one that was in the
\* gallery from the start or was asked for by its subject.
Owners ==
    /\ \A s \in Scene : record[s].output \in {None} \cup ({s} \X Format)
    /\ \A i \in Aged : record[i].status = "gone" /\ record[i].subject = None
    /\ \A i \in Image : record[i].status = "none" => record[i].subject = None
    /\ \A i \in Image : record[i].status \in InFlight => record[i].subject \in Subject
    /\ \A s \in Subject : \A p \in cards[s] : p[1] \in Old[s] \/ record[p[1]].subject = s
    /\ \A j \in Handled : j \in Image => record[j].subject \in Subject

\* A claim that is still the record's is for the prompt it was taken with: a requeue takes
\* the token away, and none is given out while the worker runs.
Claimed ==
    /\ worker.step \notin {"idle", "next"} => worker.job \in Job
    /\ worker.step \notin {"idle", "next"} => worker.token # 0
    /\ worker.step \notin {"idle", "next"} /\ record[worker.job].token = worker.token =>
          record[worker.job].prompt = worker.prompt

\* How far the worker has settled its job.
Settling ==
    /\ worker.step \in {"generate", "publish", "replaced"} => worker.stale = {}
    /\ worker.step \in {"marked", "committed"} => worker.job \in Scene
    /\ worker.step \in {"carded", "unlinked", "rejected"} => worker.job \in Image
    /\ worker.step = "replaced" => Current
    /\ worker.step = "marked" =>
          record[worker.job].status = "done" /\ record[worker.job].token = worker.token
    /\ worker.step \in {"replaced", "marked"} => files[Here(worker.job)] = worker.prompt
    /\ worker.step = "committed" =>
          /\ record[worker.job].output = Here(worker.job)
          /\ worker.stale \subseteq ({worker.job} \X Format) \ {Here(worker.job)}
    /\ worker.step = "carded" => worker.stale \subseteq Picture \ Referenced

\* What a snapshot has copied is still there for the rest of it.
Copied ==
    /\ snapshot = "mirror" => \A i \in saved.named : files[i] # 0
    /\ SavedIsWhole

\* RegeneratedIsNew, of a picture there is.
Shown ==
    \A s \in Scene : record[s].status = "done" /\ record[s].token = 0 =>
        record[s].output # None /\ files[record[s].output] >= record[s].prompt

ArtInv == ArtTypeOK /\ Places /\ Owners /\ Claimed /\ Settling /\ ReferencesExist /\ Copied /\ Shown
------------------------------------------------------------------------------
(* Tokens and names.                                                       *)

LEMMA Names ==
    /\ Scene \subseteq Job /\ Image \subseteq Job /\ Picture \subseteq Identity
    /\ Job = Scene \cup Image
    /\ Aged \subseteq Image
    /\ 1 \in Prompt /\ Prompt \subseteq 1..(MaxEvent + 1)
    /\ None \notin Subject /\ None \notin Job /\ None \notin Identity
BY DEF Job, Picture, Identity, Aged, Prompt

\* There are more tokens than records, so one is left for the next claim.
LEMMA FreshToken ==
    ASSUME record \in [Job -> Record]
    PROVE  Fresh \in Token \ {0}
<1> DEFINE Used == {record[j].token : j \in Job}
           Choice == [t \in Token \ {0} |-> CHOOSE j \in Job : record[j].token = t]
<1>1. Cardinality(Job) \in Nat /\ IsFiniteSet(Job)
    BY FS_CardinalityType
<1>2. Token \ {0} = 1..(Cardinality(Job) + 1)
    BY <1>1 DEF Token
<1>3. IsFiniteSet(Token \ {0}) /\ Cardinality(Token \ {0}) = Cardinality(Job) + 1
    <2>1. ASSUME NEW n \in Nat, n >= 1 PROVE IsFiniteSet(1..n) /\ Cardinality(1..n) = n
        <3>1. 1 \in Int /\ n \in Int /\ ~(1 > n) /\ n - 1 + 1 = n
            BY <2>1
        <3> QED BY <3>1, FS_Interval
    <2>2. LET n == Cardinality(Job) + 1 IN IsFiniteSet(1..n) /\ Cardinality(1..n) = n
        BY <1>1, <2>1
    <2> QED BY <1>2, <2>2, Zenon
<1>4. SUFFICES ASSUME Token \ {0} \subseteq Used PROVE FALSE
    BY DEF Fresh
<1>5. \A t \in Token \ {0} : Choice[t] \in Job /\ record[Choice[t]].token = t
    BY <1>4
<1>6. Choice \in [Token \ {0} -> Job]
    BY <1>5
<1> HIDE DEF Choice
<1>7. \E t, u \in Token \ {0} : t # u /\ Choice[t] = Choice[u]
    BY <1>1, <1>3, <1>6, FS_PigeonHole
<1> QED BY <1>5, <1>7

\* The initial state.
LEMMA ArtInit == Init => ArtInv
<1> SUFFICES ASSUME Init PROVE ArtInv
    OBVIOUS
<1> USE Names DEF Init, Resting, Free, NoCopy
<1>1. Cardinality(Job) \in Nat /\ 0 \in Token /\ 0 \in 0..(MaxEvent + 1) /\ format \in Format
    BY FS_CardinalityType DEF Token
<1>2. ArtTypeOK
    <2>1. record \in [Job -> Record]
        BY <1>1 DEF Record
    <2>2. cards \in [Subject -> SUBSET Picture]
        BY <1>1 DEF Picture
    <2>3. worker \in WorkerType /\ reactor \in ReactorType
        BY <1>1 DEF WorkerType, WorkerSteps, ReactorType
    <2>4. files \in [Identity -> 0..(MaxEvent + 1)]
        BY DEF Prompt
    <2>5. \A j \in Job : record[j].prompt <= events + 1
        OBVIOUS
    <2>6. /\ up \in BOOLEAN /\ slot \in BOOLEAN
          /\ snapshot \in {"idle", "paused", "backup", "mirror", "mirrored"}
          /\ batch \subseteq Job \X (Token \ {0}) /\ removed \subseteq Picture
        OBVIOUS
    <2>7. saved \in [named : SUBSET Identity, files : SUBSET Identity]
        OBVIOUS
    <2>8. events \in 0..MaxEvent
        OBVIOUS
    <2> QED BY <1>1, <2>1, <2>2, <2>3, <2>4, <2>5, <2>6, <2>7, <2>8, Zenon DEF ArtTypeOK
<1>3. Places /\ Claimed /\ Settling
    BY DEF Places, Claimed, Settling, Gated, Copying
<1>4. \A s \in Scene : record[s].status = "missing" /\ record[s].output = None
    BY DEF Job
<1>5. Owners
    <2>1. \A i \in Aged : record[i].status = "gone" /\ record[i].subject = None
        OBVIOUS
    <2>2. \A i \in Image : record[i].status \in {"none", "gone"} /\ record[i].subject = None
        OBVIOUS
    <2>3. \A s \in Subject : \A p \in cards[s] : p[1] \in Old[s]
        OBVIOUS
    <2>4. Handled \cap Image = {}
        BY DEF Handled
    <2> QED BY <1>4, <2>1, <2>2, <2>3, <2>4 DEF Owners, InFlight
<1>6. ReferencesExist
    <2>1. Outputs = {}
        BY <1>4 DEF Outputs
    <2>2. ASSUME NEW p \in Referenced PROVE files[p] # 0
        <3>1. p[1] \in Aged /\ p[2] = format /\ p \in Identity
            BY DEF Referenced, Aged, Identity
        <3> QED BY <3>1
    <2> QED BY <2>1, <2>2 DEF ReferencesExist
<1>7. Copied
    BY DEF Copied, SavedIsWhole
<1>8. Shown
    BY <1>4 DEF Shown
<1> QED BY <1>2, <1>3, <1>5, <1>6, <1>7, <1>8 DEF ArtInv


------------------------------------------------------------------------------
(* Types.                                                                  *)

LEMMA Parts ==
    /\ \A w \in WorkerType, a \in WorkerSteps, S \in SUBSET Identity :
          /\ [w EXCEPT !.step = a] \in WorkerType
          /\ [w EXCEPT !.step = a, !.stale = S] \in WorkerType
    /\ Resting \in WorkerType /\ [Resting EXCEPT !.step = "next"] \in WorkerType
    /\ Free \in ReactorType
    /\ \A s \in Subject : [Free EXCEPT !.step = "guard", !.subject = s] \in ReactorType
    /\ \A i \in Picture : [Free EXCEPT !.step = "unlink", !.file = i] \in ReactorType
    /\ \A S \in SUBSET Job : [Free EXCEPT !.step = "claim", !.todo = S] \in ReactorType
    /\ \A r \in ReactorType, j \in Job : [r EXCEPT !.step = "stamp", !.subject = j] \in ReactorType
    /\ NoCopy \in [named : SUBSET Identity, files : SUBSET Identity]
<1>1. 0 \in Token
    BY FS_CardinalityType DEF Token
<1> USE Names, <1>1
<1>2. \A w \in WorkerType, a \in WorkerSteps, S \in SUBSET Identity :
          /\ [w EXCEPT !.step = a] \in WorkerType
          /\ [w EXCEPT !.step = a, !.stale = S] \in WorkerType
    BY DEF WorkerType
<1>3. Resting \in WorkerType /\ [Resting EXCEPT !.step = "next"] \in WorkerType
    BY DEF Resting, WorkerType, WorkerSteps
<1>4. Free \in ReactorType
    BY DEF Free, ReactorType
<1>5. \A s \in Subject : [Free EXCEPT !.step = "guard", !.subject = s] \in ReactorType
    BY DEF Free, ReactorType
<1>6. \A i \in Picture : [Free EXCEPT !.step = "unlink", !.file = i] \in ReactorType
    BY DEF Free, ReactorType
<1>7. \A S \in SUBSET Job : [Free EXCEPT !.step = "claim", !.todo = S] \in ReactorType
    BY DEF Free, ReactorType
<1>8. ASSUME NEW r \in ReactorType, NEW j \in Job
      PROVE  [r EXCEPT !.step = "stamp", !.subject = j] \in ReactorType
    BY DEF ReactorType
<1>9. NoCopy \in [named : SUBSET Identity, files : SUBSET Identity]
    BY DEF NoCopy
<1> QED BY <1>2, <1>3, <1>4, <1>5, <1>6, <1>7, <1>8, <1>9

\* What the worker works on.
LEMMA AtWork ==
    ASSUME ArtTypeOK, Claimed, worker.step \notin {"idle", "next"}
    PROVE  /\ worker.job \in Job /\ Here(worker.job) \in Identity
           /\ worker.token \in Token \ {0} /\ worker.prompt \in Prompt
           /\ worker.stale \in SUBSET Identity
           /\ record[worker.job].output \in Identity \cup {None}
           /\ Prior(worker.job) \in SUBSET Identity
<1>1. worker.job \in Job /\ worker.token # 0
    BY DEF Claimed
<1>2. worker.token \in Token /\ worker.prompt \in Prompt /\ worker.stale \in SUBSET Identity
    BY DEF ArtTypeOK, WorkerType
<1>3. Here(worker.job) \in Identity
    BY <1>1 DEF ArtTypeOK, Here, Identity
<1>4. record[worker.job].output \in Identity \cup {None}
    BY <1>1 DEF ArtTypeOK, Record
<1> QED BY <1>1, <1>2, <1>3, <1>4 DEF Prior


\* A record that changes keeps its type, and its prompt but in a requeue.
Status == {"pending", "in_progress", "done", "failed", "gone"}

LEMMA Moved ==
    ASSUME NEW r \in Record, NEW x \in Status
    PROVE  [r EXCEPT !.status = x] \in Record /\ [r EXCEPT !.status = x].prompt = r.prompt
BY DEF Record, Status

LEMMA Released ==
    ASSUME NEW r \in Record, NEW x \in Status
    PROVE  /\ [r EXCEPT !.status = x, !.claimed = FALSE] \in Record
           /\ [r EXCEPT !.status = x, !.claimed = FALSE].prompt = r.prompt
BY DEF Record, Status

LEMMA Asked ==
    ASSUME NEW r \in Record, NEW s \in Subject
    PROVE  /\ [r EXCEPT !.status = "pending", !.subject = s] \in Record
           /\ [r EXCEPT !.status = "pending", !.subject = s].prompt = r.prompt
BY DEF Record

LEMMA Stamped ==
    ASSUME NEW r \in Record, NEW t \in Token
    PROVE  /\ [r EXCEPT !.claimed = TRUE, !.token = t] \in Record
           /\ [r EXCEPT !.claimed = TRUE, !.token = t].prompt = r.prompt
BY DEF Record

LEMMA Requeued ==
    ASSUME NEW r \in Record, NEW p \in Prompt, 0 \in Token
    PROVE  /\ [r EXCEPT !.status = "pending", !.token = 0, !.prompt = p] \in Record
           /\ [r EXCEPT !.status = "pending", !.token = 0, !.prompt = p].prompt = p
BY DEF Record

LEMMA Committed ==
    ASSUME NEW r \in Record, NEW h \in Identity, 0 \in Token
    PROVE  /\ [r EXCEPT !.output = h, !.claimed = FALSE, !.token = 0] \in Record
           /\ [r EXCEPT !.output = h, !.claimed = FALSE, !.token = 0].prompt = r.prompt
BY DEF Record

\* A step that gives record j other fields.
Becomes(j, r) == record' = [record EXCEPT ![j] = r]

LEMMA RecordBecomes ==
    ASSUME ArtTypeOK, NEW j \in Job, NEW r \in Record, Becomes(j, r),
           events' = events, r.prompt = record[j].prompt
    PROVE  record' \in [Job -> Record] /\ events' \in 0..MaxEvent /\ (\A k \in Job : record'[k].prompt <= events' + 1)
<1>1. record' \in [Job -> Record]
    BY DEF ArtTypeOK, Becomes
<1>2. \A k \in Job : record'[k].prompt = record[k].prompt
    BY DEF ArtTypeOK, Becomes
<1> QED BY <1>1, <1>2 DEF ArtTypeOK

\* The types of what a step changes.
LEMMA RecordsTyped ==
    ASSUME ArtTypeOK, Claimed, Places, Next
    PROVE  record' \in [Job -> Record] /\ events' \in 0..MaxEvent /\ (\A j \in Job : record'[j].prompt <= events' + 1)
<1> DEFINE Goal == /\ record' \in [Job -> Record] /\ events' \in 0..MaxEvent
                   /\ \A j \in Job : record'[j].prompt <= events' + 1
<1> USE Names
<1>a. record \in [Job -> Record] /\ events \in 0..MaxEvent /\ (\A j \in Job : record[j].prompt <= events + 1)
    BY DEF ArtTypeOK
<1>b. \A j \in Job : record[j] \in Record /\ record[j].prompt \in Nat
    BY <1>a DEF Record, Prompt
<1>c. 0 \in Token
    BY FS_CardinalityType DEF Token
<1>1. ASSUME NEW s \in Scene, Ensure(s) PROVE Goal
    <2> DEFINE r == [record[s] EXCEPT !.status = "pending"]
    <2>1. r \in Record /\ r.prompt = record[s].prompt
        BY <1>b DEF Record
    <2>2. Becomes(s, r) /\ events' = events
        BY <1>1, <1>a DEF Ensure, Becomes
    <2> HIDE DEF r
    <2> QED BY <2>1, <2>2, RecordBecomes
<1>2. ASSUME NEW s \in Scene, Requeue(s) PROVE Goal
    <2> DEFINE r == [record[s] EXCEPT !.status = "pending", !.token = 0, !.prompt = record[s].prompt + 1]
    <2>1. events' \in 0..MaxEvent /\ events' = events + 1 /\ record[s].prompt + 1 \in Prompt
        BY <1>2, <1>a, <1>b DEF Requeue, Event, Prompt
    <2>2. r \in Record /\ r.prompt = record[s].prompt + 1
        BY <2>1, <1>b, <1>c, Requeued
    <2>3. record' = [record EXCEPT ![s] = r]
        BY <1>2, <1>a DEF Requeue
    <2> HIDE DEF r
    <2>4. record' \in [Job -> Record]
        BY <2>2, <2>3, <1>a
    <2>5. \A j \in Job : record'[j].prompt <= events' + 1
        BY <2>1, <2>2, <2>3, <1>a, <1>b
    <2> QED BY <2>1, <2>4, <2>5
<1>3. ASSUME NEW s \in Subject, Enqueued(s), events' = events PROVE Goal
    <2> DEFINE i == CHOOSE i \in Unused : TRUE
               r == [record[i] EXCEPT !.status = "pending", !.subject = s]
    <2>1. i \in Job
        BY <1>3 DEF Enqueued, Unused
    <2>2. Becomes(i, r) 
        BY <1>3, <1>a DEF Enqueued, Becomes
    <2> HIDE DEF i
    <2>3. r \in Record /\ r.prompt = record[i].prompt
        BY <1>b, <2>1, Asked
    <2> HIDE DEF r
    <2> QED BY <1>3, <2>1, <2>2, <2>3, RecordBecomes
<1>4. ASSUME NEW E \in SUBSET Job, Drain(E) PROVE Goal
    <2>1. ASSUME NEW j \in Job PROVE record'[j] \in Record /\ record'[j].prompt = record[j].prompt
        <3>1. record'[j] = record[j] \/ record'[j] = [record[j] EXCEPT !.status = "pending", !.claimed = FALSE]
            BY <1>4 DEF Drain
        <3>2. CASE record'[j] = record[j]
            BY <3>2, <1>b
        <3>3. CASE record'[j] = [record[j] EXCEPT !.status = "pending", !.claimed = FALSE]
            <4>1. record[j] \in Record /\ "pending" \in Status
                BY <1>b DEF Status
            <4>2. /\ [record[j] EXCEPT !.status = "pending", !.claimed = FALSE] \in Record
                  /\ [record[j] EXCEPT !.status = "pending", !.claimed = FALSE].prompt = record[j].prompt
                BY <4>1, Released
            <4> QED BY <3>3, <4>2
        <3> QED BY <3>1, <3>2, <3>3
    <2>2. record' \in [Job -> Record]
        BY <1>4, <2>1 DEF Drain
    <2>3. \A j \in Job : record'[j].prompt = record[j].prompt
        BY <2>1
    <2> QED BY <1>4, <1>a, <2>2, <2>3 DEF Drain
<1>5. ASSUME NEW j \in Job, Claim(j) PROVE Goal
    <2> DEFINE r == [record[j] EXCEPT !.status = "in_progress"]
    <2>1. r \in Record /\ r.prompt = record[j].prompt
        BY <1>b DEF Record
    <2>2. Becomes(j, r) /\ events' = events
        BY <1>5, <1>a DEF Claim, Becomes
    <2> HIDE DEF r
    <2> QED BY <2>1, <2>2, RecordBecomes
<1>6. CASE Stamp
    <2> DEFINE j == reactor.subject
               r == [record[j] EXCEPT !.claimed = TRUE, !.token = Fresh]
    <2>1. j \in Job /\ Fresh \in Token
        BY <1>6, <1>a, FreshToken DEF Stamp, Places, ArtTypeOK, ReactorType
    <2>2. Becomes(j, r) /\ events' = events
        BY <1>6, <1>a DEF Stamp, Becomes
    <2> HIDE DEF j
    <2>3. r \in Record /\ r.prompt = record[j].prompt
        BY <1>b, <2>1, Stamped
    <2> HIDE DEF r
    <2> QED BY <2>1, <2>2, <2>3, RecordBecomes
<1>7. CASE MarkDone \/ FinishJob \/ Fail
    <2>1. worker.job \in Job /\ events' = events
        BY <1>7, AtWork DEF MarkDone, FinishJob, Fail, Working
    <2>2. \E r : Becomes(worker.job, r) /\ r \in Record /\ r.prompt = record[worker.job].prompt
        <3> DEFINE status(x) == [record[worker.job] EXCEPT !.status = x]
                   failed(x) == [record[worker.job] EXCEPT !.status = x, !.claimed = FALSE]
        <3>1. CASE MarkDone
            <4>1. Becomes(worker.job, status("done"))
                BY <3>1, <2>1, <1>a DEF MarkDone, Becomes
            <4> QED BY <4>1, <2>1, <1>b, Moved DEF Status
        <3>2. CASE FinishJob
            <4>1. PICK x \in {"done", "gone"} : Becomes(worker.job, status(x))
                BY <3>2, <2>1, <1>a DEF FinishJob, Becomes
            <4> QED BY <4>1, <2>1, <1>b, Moved DEF Status
        <3>3. CASE Fail /\ Current
            <4>1. PICK x \in {"failed", "gone"} : Becomes(worker.job, failed(x))
                BY <3>3, <2>1, <1>a DEF Fail, Becomes
            <4> QED BY <4>1, <2>1, <1>b, Released DEF Status
        <3>4. CASE Fail /\ ~Current
            BY <3>4, <2>1, <1>a, <1>b DEF Fail, Becomes
        <3> QED BY <1>7, <3>1, <3>2, <3>3, <3>4
    <2> QED BY <2>1, <2>2, RecordBecomes
<1>8. CASE Commit
    <2> DEFINE j == worker.job
               h == Here(j)
               r == [record[j] EXCEPT !.output = h, !.claimed = FALSE, !.token = 0]
    <2>1. j \in Job /\ h \in Identity
        BY <1>8, AtWork DEF Commit, Working
    <2>2. Becomes(j, r) /\ events' = events
        BY <1>8, <1>a DEF Commit, Becomes
    <2> HIDE DEF h
    <2> HIDE DEF j
    <2>3. r \in Record /\ r.prompt = record[j].prompt
        BY <1>b, <1>c, <2>1, Committed
    <2> HIDE DEF r
    <2> QED BY <2>1, <2>2, <2>3, RecordBecomes
<1>9. CASE Start
    <2>1. \A j \in Job : [record[j] EXCEPT !.status = "gone"] \in Record
        BY <1>b DEF Record
    <2>2. record' \in [Job -> Record]
        BY <1>9, <2>1, <1>b DEF Start
    <2>3. \A j \in Job : record'[j].prompt = record[j].prompt
        BY <1>9, <1>b DEF Start, Record
    <2> QED BY <1>9, <1>a, <2>2, <2>3 DEF Start
<1>10. ASSUME record' = record, events' = events \/ Event PROVE Goal
    BY <1>10, <1>a, <1>b DEF Event
<1>11. CASE Reactor
    <2>1. CASE ReadJobs
        <3>1. reactor.subject \in Subject
            BY <2>1 DEF ReadJobs, Places
        <3> QED BY <2>1, <3>1, <1>3, <1>10 DEF ReadJobs
    <2> QED BY <1>11, <2>1, <1>1, <1>2, <1>3, <1>4, <1>5, <1>6, <1>10
            DEF Reactor, ReadCards, Request, RemoveCard, Unlink, DrainTick, Claims, world, Event
<1>12. CASE Worker
    <2>1. \/ MarkDone \/ FinishJob \/ Fail \/ Commit
          \/ UNCHANGED <<record, events>>
        BY <1>12
           DEF Worker, Publication, Generate, GenerateFails, Stale, Replace, ReplaceFails, Cleanup,
               AppendCard, AppendRefused, UnlinkReplaced, ReleaseSlot, Take, world
    <2> QED BY <2>1, <1>7, <1>8, <1>10
<1>13. CASE Pause \/ Snapshot \/ Crash
    BY <1>13, <1>10 DEF Pause, Snapshot, EnterGate, Backup, Mirror, Resume, Crash, world
<1> QED BY <1>9, <1>11, <1>12, <1>13 DEF Next

LEMMA WorkerTyped ==
    ASSUME ArtTypeOK, Claimed, Places, Next
    PROVE  worker' \in WorkerType
<1> USE Names
<1>1. worker \in WorkerType
    BY DEF ArtTypeOK
<1>2. ASSUME NEW a \in WorkerSteps, Steps(a) PROVE worker' \in WorkerType
    BY <1>1, <1>2, Parts DEF Steps
<1>3. CASE UNCHANGED worker
    BY <1>1, <1>3
<1>4. CASE worker' \in {Resting, [Resting EXCEPT !.step = "next"]}
    BY <1>4, Parts
<1>5. CASE Commit
    BY <1>1, <1>5, AtWork, Parts DEF Commit, Working, WorkerSteps
<1>6. CASE AppendCard
    <2>1. worker.job \in Job /\ "carded" \in WorkerSteps /\ worker.step = "replaced"
        BY <1>6, AtWork DEF AppendCard, WorkerSteps, Working
    <2>2. CASE Gallery \in Capped
        <3>1. cards[Gallery] \in SUBSET Identity
            BY <2>2 DEF ArtTypeOK
        <3>2. worker' = [worker EXCEPT !.step = "carded", !.stale = cards[Gallery]]
            BY <1>6, <2>2 DEF AppendCard
        <3>3. [worker EXCEPT !.step = "carded", !.stale = cards[Gallery]] \in WorkerType
            BY <1>1, <2>1, <3>1, Parts
        <3> QED BY <3>2, <3>3
    <2> QED BY <1>2, <1>6, <2>1, <2>2 DEF AppendCard
<1>7. ASSUME NEW j \in Job, NEW t \in Token, Take(j, t) PROVE worker' \in WorkerType
    <2>1. record[j].prompt \in Prompt
        BY DEF ArtTypeOK, Record
    <2> QED BY <1>7, <2>1 DEF Take, WorkerType, WorkerSteps
<1>8. CASE Publication
    BY <1>2, <1>4, <1>5, <1>6, <1>8
       DEF Publication, Generate, GenerateFails, Stale, Replace, ReplaceFails, MarkDone, Cleanup,
           AppendRefused, UnlinkReplaced, FinishJob, Fail, WorkerSteps
<1>9. CASE Reactor
    BY <1>3, <1>4, <1>9
       DEF Reactor, Ensure, Requeue, ReadCards, Request, RemoveCard, ReadJobs, Unlink, DrainTick,
           Drain, Claims, Claim, Stamp, threads
<1>10. CASE Snapshot \/ Pause \/ Crash \/ Start \/ ReleaseSlot
    BY <1>3, <1>4, <1>10
       DEF Snapshot, EnterGate, Backup, Mirror, Resume, Pause, Crash, Start, ReleaseSlot, threads
<1> QED BY <1>7, <1>8, <1>9, <1>10 DEF Next, Worker

LEMMA ReactorTyped ==
    ASSUME ArtTypeOK, Claimed, Places, Next
    PROVE  reactor' \in ReactorType
<1> USE Names
<1>1. reactor \in ReactorType
    BY DEF ArtTypeOK
<1>2. CASE reactor' \in {reactor, Free}
    BY <1>1, <1>2, Parts
<1>3. ASSUME NEW s \in Subject, ReadCards(s) PROVE reactor' \in ReactorType
    BY <1>3, Parts DEF ReadCards
<1>4. ASSUME NEW s \in Subject, NEW i \in Identity, RemoveCard(s, i) PROVE reactor' \in ReactorType
    <2>1. i \in Picture
        BY <1>4 DEF RemoveCard, ArtTypeOK
    <2> QED BY <1>4, <2>1, Parts DEF RemoveCard
<1>5. ASSUME NEW E \in SUBSET Job, Drain(E) PROVE reactor' \in ReactorType
    <2>1. PICK todo \in SUBSET Job :
             reactor' = reactor \/ reactor' = [Free EXCEPT !.step = "claim", !.todo = todo]
        BY <1>5 DEF Drain, Pending
    <2> QED BY <1>1, <2>1, Parts
<1>6. ASSUME NEW j \in Job, Claim(j) PROVE reactor' \in ReactorType
    <2>1. [reactor EXCEPT !.step = "stamp", !.subject = j] \in ReactorType
        BY <1>1, Parts
    <2> QED BY <1>6, <2>1 DEF Claim
<1>7. CASE Stamp
    <2>1. reactor.todo \ {reactor.subject} \in SUBSET Job
        BY <1>1 DEF ReactorType
    <2>2. [Free EXCEPT !.step = "claim", !.todo = reactor.todo \ {reactor.subject}] \in ReactorType
        BY <2>1, Parts
    <2> QED BY <1>7, <2>2, Parts DEF Stamp
<1>8. CASE Reactor
    BY <1>2, <1>3, <1>4, <1>5, <1>6, <1>7, <1>8
       DEF Reactor, Ensure, Requeue, Request, ReadJobs, Unlink, DrainTick, Claims, threads
<1>9. CASE Worker
    BY <1>2, <1>9
       DEF Worker, Publication, Generate, GenerateFails, Stale, Replace, ReplaceFails, MarkDone,
           Commit, Cleanup, AppendCard, AppendRefused, UnlinkReplaced, FinishJob, Fail, ReleaseSlot, Take
<1>10. CASE Snapshot \/ Pause \/ Crash \/ Start
    BY <1>2, <1>10 DEF Snapshot, EnterGate, Backup, Mirror, Resume, Pause, Crash, Start, threads
<1> QED BY <1>8, <1>9, <1>10 DEF Next

LEMMA StoreTyped ==
    ASSUME ArtTypeOK, Claimed, Places, Next
    PROVE  /\ files' \in [Identity -> 0..(MaxEvent + 1)]
           /\ format' \in Format /\ retired' \subseteq Monster
<1> USE Names
<1>1. files \in [Identity -> 0..(MaxEvent + 1)] /\ format \in Format /\ retired \subseteq Monster
    BY DEF ArtTypeOK
<1>2. CASE UNCHANGED store
    BY <1>1, <1>2 DEF store, setting
<1>3. ASSUME NEW S, Removed(S) PROVE files' \in [Identity -> 0..(MaxEvent + 1)]
    BY <1>1, <1>3 DEF Removed
<1>4. CASE Unlink
    <2>1. files' \in {files, [files EXCEPT ![reactor.file] = 0]} /\ UNCHANGED setting
        BY <1>4 DEF Unlink
    <2> QED BY <1>1, <2>1 DEF setting
<1>5. CASE Replace
    <2>1. worker.prompt \in 0..(MaxEvent + 1)
        BY <1>5, AtWork DEF Replace, Working, Prompt
    <2> QED BY <1>1, <1>5, <2>1 DEF Replace, setting
<1>6. CASE Cleanup \/ UnlinkReplaced
    BY <1>1, <1>3, <1>6 DEF Cleanup, UnlinkReplaced, setting
<1>7. CASE Start
    BY <1>3, <1>7 DEF Start
<1>8. CASE Reactor
    BY <1>2, <1>4, <1>8
       DEF Reactor, Ensure, Requeue, ReadCards, Request, RemoveCard, ReadJobs, DrainTick, Drain,
           Claims, Claim, Stamp
<1>9. CASE Worker
    BY <1>2, <1>5, <1>6, <1>9
       DEF Worker, Publication, Generate, GenerateFails, Stale, ReplaceFails, MarkDone, Commit,
           AppendCard, AppendRefused, FinishJob, Fail, ReleaseSlot, Take
<1>10. CASE Snapshot \/ Pause \/ Crash
    BY <1>2, <1>10 DEF Snapshot, EnterGate, Backup, Mirror, Resume, Pause, Crash
<1> QED BY <1>7, <1>8, <1>9, <1>10 DEF Next

LEMMA OthersTyped ==
    ASSUME ArtTypeOK, Claimed, Places, Next
    PROVE  /\ up' \in BOOLEAN /\ slot' \in BOOLEAN
           /\ cards' \in [Subject -> SUBSET Picture]
           /\ batch' \subseteq Job \X (Token \ {0})
           /\ snapshot' \in {"idle", "paused", "backup", "mirror", "mirrored"}
           /\ saved' \in [named : SUBSET Identity, files : SUBSET Identity]
           /\ removed' \subseteq Picture
<1> USE Names
<1> DEFINE Rest == <<up, slot, cards, batch, snapshot, saved, removed>>
           Goal == /\ up' \in BOOLEAN /\ slot' \in BOOLEAN
                   /\ cards' \in [Subject -> SUBSET Picture]
                   /\ batch' \subseteq Job \X (Token \ {0})
                   /\ snapshot' \in {"idle", "paused", "backup", "mirror", "mirrored"}
                   /\ saved' \in [named : SUBSET Identity, files : SUBSET Identity]
                   /\ removed' \subseteq Picture
<1>1. /\ up \in BOOLEAN /\ slot \in BOOLEAN
      /\ cards \in [Subject -> SUBSET Picture]
      /\ batch \subseteq Job \X (Token \ {0})
      /\ snapshot \in {"idle", "paused", "backup", "mirror", "mirrored"}
      /\ saved \in [named : SUBSET Identity, files : SUBSET Identity]
      /\ removed \subseteq Picture
    BY DEF ArtTypeOK
<1>2. CASE UNCHANGED Rest
    BY <1>1, <1>2
<1>3. ASSUME NEW s \in Subject, NEW i \in Identity, RemoveCard(s, i) PROVE Goal
    <2>1. i \in Picture /\ cards' = [cards EXCEPT ![s] = @ \ {i}]
        BY <1>1, <1>3 DEF RemoveCard
    <2>2. cards' \in [Subject -> SUBSET Picture]
        BY <1>1, <2>1
    <2> QED BY <1>1, <1>3, <2>1, <2>2 DEF RemoveCard, saving
<1>4. ASSUME NEW E \in SUBSET Job, Drain(E) PROVE Goal
    BY <1>1, <1>4 DEF Drain, saving
<1>5. CASE Stamp
    <2>1. reactor.subject \in Job /\ Fresh \in Token \ {0}
        BY <1>5, FreshToken DEF Stamp, Places, ArtTypeOK, ReactorType
    <2>2. batch' = batch \cup {<<reactor.subject, Fresh>>}
        BY <1>5 DEF Stamp
    <2> HIDE DEF Fresh
    <2>3. batch' \subseteq Job \X (Token \ {0})
        BY <1>1, <2>1, <2>2
    <2> QED BY <1>1, <1>5, <2>3 DEF Stamp, saving
<1>6. CASE AppendCard
    <2>1. worker.job \in Image /\ Here(worker.job) \in Picture
        BY <1>6 DEF AppendCard, ArtTypeOK, Here, Picture
    <2>2. cards' \in [Subject -> SUBSET Picture]
        BY <1>1, <1>6, <2>1 DEF AppendCard
    <2> QED BY <1>1, <1>6, <2>2 DEF AppendCard, saving
<1>7. ASSUME NEW j \in Job, NEW t \in Token, Take(j, t) PROVE Goal
    BY <1>1, <1>7 DEF Take, saving, world
<1>8. CASE Snapshot \/ Pause
    <2>1. saved' \in [named : SUBSET Identity, files : SUBSET Identity]
        <3>1. {i \in Outputs \cup Referenced : files[i] # 0} \in SUBSET Identity
            <4>1. Outputs \subseteq Identity
                BY DEF ArtTypeOK, Outputs, Record
            <4> QED BY <1>1, <4>1 DEF Referenced
        <3>2. CASE Backup
            BY <1>1, <3>1, <3>2 DEF Backup
        <3>3. CASE Mirror
            BY <1>1, <3>3 DEF Mirror
        <3> QED BY <1>1, <1>8, <3>2, <3>3, Parts DEF Snapshot, Pause, EnterGate, Resume
    <2> QED BY <1>1, <1>8, <2>1
            DEF Snapshot, Pause, EnterGate, Backup, Mirror, Resume, threads, world
<1>9. CASE Crash \/ Start
    BY <1>1, <1>9, Parts DEF Crash, Start, world, threads, saving
<1>10. CASE Reactor
    BY <1>2, <1>3, <1>4, <1>5, <1>10
       DEF Reactor, Ensure, Requeue, ReadCards, Request, ReadJobs, Unlink, DrainTick,
           Claims, Claim, threads, world, saving
<1>11. CASE Worker
    BY <1>1, <1>2, <1>6, <1>7, <1>11
       DEF Worker, Publication, Generate, GenerateFails, Stale, Replace, ReplaceFails, MarkDone,
           Commit, Cleanup, AppendRefused, UnlinkReplaced, FinishJob, Fail, ReleaseSlot, world, saving
<1> QED BY <1>8, <1>9, <1>10, <1>11 DEF Next

LEMMA TypeStep == ArtTypeOK /\ Places /\ Claimed /\ Next => ArtTypeOK'
BY RecordsTyped, WorkerTyped, ReactorTyped, StoreTyped, OthersTyped, Zenon DEF ArtTypeOK

------------------------------------------------------------------------------
(* Where the threads may stand.                                            *)

------------------------------------------------------------------------------
(* Where the threads may stand.                                            *)

LEMMA PlacesStep == ArtTypeOK /\ Places /\ Next => Places'
<1> SUFFICES ASSUME ArtTypeOK, Places, Next PROVE Places'
    OBVIOUS
<1> USE DEF Places, Resting, Free, Working
<1>1. CASE /\ UNCHANGED <<up, slot, batch, worker, reactor, snapshot, removed>>
    BY <1>1
<1>2. worker \in WorkerType /\ reactor \in ReactorType
    BY DEF ArtTypeOK
<1>3. ASSUME NEW s \in Subject, ReadCards(s) PROVE Places'
    BY <1>3 DEF ReadCards, Idle, saving
<1>4. ASSUME NEW s \in Subject, NEW i \in Identity, RemoveCard(s, i) PROVE Places'
    BY <1>4 DEF RemoveCard, Idle, saving
<1>5. CASE ReadJobs \/ Unlink
    BY <1>5 DEF ReadJobs, Unlink, saving
<1>6. ASSUME NEW E \in SUBSET Job, Drain(E) PROVE Places'
    BY <1>6 DEF Drain, Idle, saving
<1>7. ASSUME NEW j \in Job, Claim(j) PROVE Places'
    BY <1>2, <1>7 DEF Claim, saving, ReactorType
<1>8. CASE Stamp
    BY <1>8 DEF Stamp, saving, Gated
<1>9. CASE Reactor
    BY <1>1, <1>3, <1>4, <1>5, <1>6, <1>7, <1>8, <1>9
       DEF Reactor, Ensure, Requeue, Request, DrainTick, Claims, threads, saving
<1>10. ASSUME NEW a \in WorkerSteps, Steps(a), worker.step \notin {"idle"}, a # "idle",
              a \in Gated => worker.step \in Gated \/ ~GateHeld,
              UNCHANGED <<up, slot, batch, reactor, snapshot, removed>>
       PROVE  Places'
    BY <1>2, <1>10 DEF Steps, WorkerType, GateHeld, Gated, Copying
<1>11. CASE worker' = [Resting EXCEPT !.step = "next"] /\ worker.step # "idle"
            /\ UNCHANGED <<up, slot, batch, reactor, snapshot, removed>>
    BY <1>11 DEF Gated
<1>12. CASE Commit
    BY <1>2, <1>12 DEF Commit, WorkerType, Gated, saving
<1>13. CASE AppendCard
    <2>1. worker'.step = "carded"
        BY <1>2, <1>13 DEF AppendCard, WorkerType, Steps
    <2> QED BY <2>1, <1>13 DEF AppendCard, Gated, saving
<1>14. CASE Publication
    <2> USE DEF store, setting, world, threads, saving
    <2>1. CASE Generate \/ GenerateFails \/ Stale \/ Replace
        BY <1>10, <2>1 DEF Generate, GenerateFails, Stale, Replace, WorkerSteps, Gated
    <2>2. CASE ReplaceFails
        BY <1>10, <2>2 DEF ReplaceFails, WorkerSteps, Gated
    <2>3. CASE MarkDone \/ AppendRefused \/ UnlinkReplaced
        BY <1>10, <2>3 DEF MarkDone, AppendRefused, UnlinkReplaced, WorkerSteps, Gated
    <2>4. CASE Cleanup \/ FinishJob \/ Fail
        BY <1>11, <2>4 DEF Cleanup, FinishJob, Fail
    <2> QED BY <1>12, <1>13, <1>14, <2>1, <2>2, <2>3, <2>4 DEF Publication
<1>15. CASE ReleaseSlot
    BY <1>15 DEF ReleaseSlot, saving, Gated
<1>16. ASSUME NEW j \in Job, NEW t \in Token, Take(j, t) PROVE Places'
    BY <1>16 DEF Take, saving, Gated
<1>17. CASE Snapshot \/ Pause
    BY <1>17 DEF Snapshot, EnterGate, Backup, Mirror, Resume, Pause, threads, GateHeld, Gated, Copying
<1>18. CASE Crash \/ Start
    BY <1>18 DEF Crash, Start, threads, saving, Gated
<1> QED BY <1>9, <1>14, <1>15, <1>16, <1>17, <1>18 DEF Next, Worker

------------------------------------------------------------------------------
(* Whose pictures the records and the cards name.                          *)

\* A step that asks for no image, settles no scene and adds no card.
LEMMA OwnersKept ==
    ASSUME ArtTypeOK, Owners,
           \A j \in Job : /\ record'[j].subject = record[j].subject
                          /\ record'[j].output = record[j].output
                          /\ \/ record'[j].status = record[j].status
                             \/ record'[j].status = "gone"
                             \/ /\ record'[j].status # "none"
                                /\ j \in Scene \/ record[j].subject \in Subject,
           \A s \in Subject : cards'[s] \subseteq cards[s],
           \A j \in Handled' \cap Job : j \in Handled \/ record[j].status \in InFlight
    PROVE  Owners'
<1> USE Names DEF Owners
<1>1. \A s \in Scene : record'[s].output \in {None} \cup ({s} \X Format)
    OBVIOUS
<1>2. \A i \in Aged : record'[i].status = "gone" /\ record'[i].subject = None
    OBVIOUS
<1>3. \A i \in Image : record'[i].status = "none" => record'[i].subject = None
    OBVIOUS
<1>4. \A i \in Image : record'[i].status \in InFlight => record'[i].subject \in Subject
    BY DEF InFlight
<1>5. \A s \in Subject : \A p \in cards'[s] : p[1] \in Old[s] \/ record'[p[1]].subject = s
    <2>1. \A s \in Subject : \A p \in cards[s] : p[1] \in Job
        BY DEF ArtTypeOK, Picture
    <2> QED BY <2>1
<1>6. \A j \in Handled' : j \in Image => record'[j].subject \in Subject
    OBVIOUS
<1> QED BY <1>1, <1>2, <1>3, <1>4, <1>5, <1>6, Zenon

LEMMA OwnersStep == ArtTypeOK /\ Places /\ Claimed /\ Settling /\ Owners /\ Next => Owners'
<1> SUFFICES ASSUME ArtTypeOK, Places, Claimed, Settling, Owners, Next PROVE Owners'
    OBVIOUS
<1> USE Names DEF world, store, setting, threads, saving
<1>1. /\ record \in [Job -> Record] /\ cards \in [Subject -> SUBSET Picture]
      /\ worker \in WorkerType /\ reactor \in ReactorType
    BY DEF ArtTypeOK
<1>2. worker.step \notin {"idle", "next"} => worker.job \in Handled /\ worker.job \in Job
    BY DEF Handled, Claimed
<1>3. CASE UNCHANGED record /\ (\A s \in Subject : cards'[s] \subseteq cards[s]) /\ Handled' \subseteq Handled \cup {None}
    BY <1>3, OwnersKept, <1>1
<1>4. ASSUME NEW s \in Scene, Ensure(s) \/ Requeue(s) PROVE Owners'
    <2>1. \A j \in Job : /\ record'[j].subject = record[j].subject /\ record'[j].output = record[j].output
                         /\ record'[j].status = record[j].status \/ (record'[j].status # "none" /\ j \in Scene)
        BY <1>1, <1>4 DEF Ensure, Requeue, Record
    <2>2. UNCHANGED cards /\ Handled' = Handled
        BY <1>4 DEF Ensure, Requeue, Handled
    <2> QED BY <2>1, <2>2, OwnersKept
<1>5. ASSUME NEW s \in Subject, Enqueued(s), UNCHANGED cards, Handled' \subseteq Handled \cup {None} PROVE Owners'
    <2> DEFINE i == CHOOSE i \in Unused : TRUE
    <2>1. i \in Image /\ record[i].status = "none"
        BY <1>5 DEF Enqueued, Unused
    <2>2. record' = [record EXCEPT ![i] = [record[i] EXCEPT !.status = "pending", !.subject = s]]
        BY <1>1, <1>5 DEF Enqueued
    <2> HIDE DEF i
    <2>3. record'[i].status = "pending" /\ record'[i].subject = s
        BY <1>1, <2>1, <2>2 DEF Record
    <2>4. \A j \in Job : j # i => record'[j] = record[j]
        BY <1>1, <2>2
    <2>5. i \notin Aged /\ i \notin Handled
        BY <2>1 DEF Owners
    <2>6. \A t \in Subject : \A p \in cards[t] : p[1] \in Job /\ (p[1] = i => p[1] \in Old[t])
        BY <1>1, <2>1 DEF Owners, Picture
    <2>7. \A t \in Subject : \A p \in cards'[t] : p[1] \in Old[t] \/ record'[p[1]].subject = t
        BY <1>5, <2>4, <2>6 DEF Owners
    <2> QED BY <1>5, <2>1, <2>3, <2>4, <2>5, <2>7 DEF Owners
<1>6. ASSUME NEW E \in SUBSET Job, Drain(E) PROVE Owners'
    <2>1. ASSUME NEW j \in Job
          PROVE  /\ record'[j].subject = record[j].subject /\ record'[j].output = record[j].output
                 /\ \/ record'[j].status = record[j].status
                    \/ record'[j].status = "pending" /\ record[j].status = "in_progress"
        <3>1. CASE j \in Reclaimed(E)
            <4>1. record[j].status = "in_progress"
                BY <1>6, <3>1 DEF Drain, Reclaimed
            <4>2. record'[j] = [record[j] EXCEPT !.status = "pending", !.claimed = FALSE]
                BY <1>6, <3>1 DEF Drain
            <4> QED BY <1>1, <4>1, <4>2 DEF Record
        <3>2. CASE j \notin Reclaimed(E)
            BY <1>6, <3>2 DEF Drain
        <3> QED BY <3>1, <3>2
    <2>2. \A j \in Handled' \cap Job : j \in Handled \/ record'[j].status = "pending"
        <3>1. PICK todo \in SUBSET Pending(record') :
                 reactor' = reactor \/ reactor' = [Free EXCEPT !.step = "claim", !.todo = todo]
            BY <1>6 DEF Drain
        <3>2. Handled' \subseteq Handled \cup todo
            BY <1>6, <3>1 DEF Drain, Handled, Free
        <3> QED BY <3>2 DEF Pending
    <2>3. \A j \in Handled' \cap Job : j \in Handled \/ record[j].status \in InFlight
        BY <2>1, <2>2 DEF InFlight
    <2> QED BY <1>6, <2>1, <2>3, OwnersKept DEF Drain, Owners, InFlight
<1>7. ASSUME NEW j \in Job, Claim(j) PROVE Owners'
    <2>1. \A k \in Job : record'[k].subject = record[k].subject /\ record'[k].output = record[k].output
        BY <1>1, <1>7 DEF Claim, Record
    <2>2. \A k \in Job : record'[k].status = record[k].status \/ (k = j /\ record'[k].status = "in_progress")
        BY <1>1, <1>7 DEF Claim, Record
    <2>3. j \in Handled /\ Handled' = Handled
        BY <1>1, <1>7 DEF Claim, Handled, ReactorType
    <2> QED BY <1>7, <2>1, <2>2, <2>3, OwnersKept DEF Claim, Owners
<1>8. CASE Stamp
    <2>1. \A k \in Job : /\ record'[k].subject = record[k].subject /\ record'[k].output = record[k].output
                         /\ record'[k].status = record[k].status
        BY <1>1, <1>8 DEF Stamp, Record
    <2>2. Handled' \subseteq Handled \cup {None}
        BY <1>8 DEF Stamp, Handled, Places, Free, Resting
    <2> QED BY <1>8, <2>1, <2>2, OwnersKept DEF Stamp, Owners
<1>9. CASE ReadJobs
    <2>1. reactor.subject \in Subject /\ Handled' \subseteq Handled
        BY <1>9 DEF ReadJobs, Places, Handled, Free
    <2> QED BY <1>3, <1>5, <1>9, <2>1 DEF ReadJobs
<1>10. ASSUME NEW s \in Subject, ReadCards(s) \/ Request(s) PROVE Owners'
    <2>1. Handled' \subseteq Handled
        BY <1>10 DEF ReadCards, Request, Handled, Free
    <2> QED BY <1>3, <1>5, <1>10, <2>1 DEF ReadCards, Request
<1>11. ASSUME NEW s \in Subject, NEW i \in Identity, RemoveCard(s, i) PROVE Owners'
    <2>1. Handled' \subseteq Handled
        BY <1>11 DEF RemoveCard, Handled, Free
    <2>2. \A t \in Subject : cards'[t] \subseteq cards[t]
        BY <1>1, <1>11 DEF RemoveCard
    <2> QED BY <1>3, <1>11, <2>1, <2>2 DEF RemoveCard
<1>12. CASE Unlink
    BY <1>3, <1>12 DEF Unlink, Handled, Free
<1>13. CASE MarkDone \/ FinishJob \/ Fail
    <2>1. worker.job \in Job /\ worker.job \in Handled
        BY <1>2, <1>13 DEF MarkDone, FinishJob, Fail, Working
    <2>2. \A j \in Job : /\ record'[j].subject = record[j].subject /\ record'[j].output = record[j].output
                         /\ \/ record'[j].status = record[j].status
                            \/ j = worker.job /\ record'[j].status \in {"done", "failed", "gone"}
        BY <1>1, <1>13, <2>1 DEF MarkDone, FinishJob, Fail, Record
    <2>3. Handled' \subseteq Handled \cup {None}
        BY <1>1, <1>13 DEF MarkDone, FinishJob, Fail, Steps, Resting, Handled, WorkerType
    <2> QED BY <1>13, <2>1, <2>2, <2>3, OwnersKept DEF MarkDone, FinishJob, Fail, Owners
<1>14. CASE Commit
    <2>1. worker.job \in Scene /\ Here(worker.job) \in {worker.job} \X Format
        BY <1>14 DEF Commit, Working, Settling, Here, ArtTypeOK
    <2>2. \A j \in Job : /\ record'[j].subject = record[j].subject /\ record'[j].status = record[j].status
                         /\ record'[j].output = IF j = worker.job THEN Here(worker.job) ELSE record[j].output
        BY <1>1, <1>14, <2>1 DEF Commit, Record
    <2>3. Handled' = Handled /\ cards' = cards
        BY <1>1, <1>14 DEF Commit, Handled, WorkerType
    <2>4. \A s \in Scene : record'[s].output \in {None} \cup ({s} \X Format)
        BY <2>1, <2>2 DEF Owners
    <2>5. \A s \in Subject : \A p \in cards'[s] : p[1] \in Job /\ (p[1] \in Old[s] \/ record'[p[1]].subject = s)
        BY <1>1, <2>2, <2>3 DEF Owners, Picture
    <2> QED BY <2>2, <2>3, <2>4, <2>5 DEF Owners
<1>15. CASE AppendCard
    <2>1. worker.job \in Image /\ record[worker.job].subject \in Subject
        BY <1>2, <1>15 DEF AppendCard, Owners, Working
    <2>2. \A s \in Subject : \A p \in cards'[s] :
             p \in cards[s] \/ (p = Here(worker.job) /\ s = record[worker.job].subject)
        BY <1>1, <1>15, <2>1 DEF AppendCard, Gallery
    <2>3. Handled' = Handled /\ record' = record
        BY <1>1, <1>15 DEF AppendCard, Steps, Handled, WorkerType
    <2>4. \A s \in Subject : \A p \in cards'[s] : p[1] \in Old[s] \/ record'[p[1]].subject = s
        BY <2>2, <2>3 DEF Owners, Here
    <2> QED BY <2>3, <2>4 DEF Owners
<1>16. ASSUME NEW j \in Job, NEW t \in Token, Take(j, t) PROVE Owners'
    BY <1>3, <1>16 DEF Take, Handled
<1>17. CASE \/ Generate \/ GenerateFails \/ Stale \/ Replace \/ ReplaceFails \/ Cleanup
            \/ AppendRefused \/ UnlinkReplaced \/ ReleaseSlot
    <2>1. /\ worker'.job \in {worker.job, None} /\ UNCHANGED <<record, cards>>
          /\ reactor' = reactor /\ batch' = batch
        BY <1>1, <1>17
           DEF Generate, GenerateFails, Stale, Replace, ReplaceFails, Cleanup, AppendRefused,
               UnlinkReplaced, ReleaseSlot, Steps, Resting, WorkerType
    <2> QED BY <1>3, <2>1 DEF Handled
<1>18. CASE Snapshot \/ Pause
    BY <1>3, <1>18 DEF Snapshot, EnterGate, Backup, Mirror, Resume, Pause, Handled
<1>19. CASE Crash
    BY <1>3, <1>19 DEF Crash, Handled, Free, Resting
<1>20. CASE Start
    <2>1. \A j \in Job : /\ record'[j].subject = record[j].subject /\ record'[j].output = record[j].output
                         /\ record'[j].status = record[j].status \/ record'[j].status = "gone"
        BY <1>1, <1>20 DEF Start, Record
    <2>2. Handled' = Handled /\ cards' = cards
        BY <1>20 DEF Start, Handled
    <2> QED BY <2>1, <2>2, OwnersKept
<1>21. CASE Reactor
    BY <1>4, <1>6, <1>7, <1>8, <1>9, <1>10, <1>11, <1>12, <1>21 DEF Reactor, DrainTick, Claims
<1> QED BY <1>13, <1>14, <1>15, <1>16, <1>17, <1>18, <1>19, <1>20, <1>21
        DEF Next, Worker, Publication

------------------------------------------------------------------------------
(* What the worker knows of its job.                                       *)

LEMMA ClaimedStep == ArtTypeOK /\ Places /\ Claimed /\ Next => Claimed'
<1> SUFFICES ASSUME ArtTypeOK, Places, Claimed, Next PROVE Claimed'
    OBVIOUS
<1> USE Names DEF world, store, setting, threads, saving
<1>1. record \in [Job -> Record] /\ worker \in WorkerType /\ batch \subseteq Job \X (Token \ {0})
    BY DEF ArtTypeOK
<1>2. CASE worker'.step \in {"idle", "next"}
    BY <1>2 DEF Claimed
<1>3. ASSUME worker.step \notin {"idle", "next"},
             worker'.job = worker.job, worker'.token = worker.token, worker'.prompt = worker.prompt,
             \A j \in Job : \/ record'[j].token = record[j].token /\ record'[j].prompt = record[j].prompt
                            \/ record'[j].token = 0
      PROVE  Claimed'
    BY <1>3 DEF Claimed
<1>4. CASE UNCHANGED <<record, worker>>
    BY <1>4 DEF Claimed
<1>5. CASE worker' = worker /\ worker.step \in {"idle", "next"}
    BY <1>2, <1>5
<1>6. ASSUME NEW s \in Scene, Ensure(s) \/ Requeue(s) PROVE Claimed'
    <2>1. \A j \in Job : \/ record'[j].token = record[j].token /\ record'[j].prompt = record[j].prompt
                         \/ record'[j].token = 0
        BY <1>1, <1>6 DEF Ensure, Requeue, Record
    <2> QED BY <1>3, <1>5, <1>6, <2>1 DEF Ensure, Requeue
<1>7. ASSUME NEW s \in Subject, Enqueued(s), UNCHANGED worker PROVE Claimed'
    <2>1. \A j \in Job : record'[j].token = record[j].token /\ record'[j].prompt = record[j].prompt
        <3> DEFINE i == CHOOSE i \in Unused : TRUE
        <3>1. i \in Job
            BY <1>7 DEF Enqueued, Unused
        <3>2. record' = [record EXCEPT ![i] = [record[i] EXCEPT !.status = "pending", !.subject = s]]
            BY <1>1, <1>7 DEF Enqueued
        <3> HIDE DEF i
        <3> QED BY <1>1, <3>1, <3>2 DEF Record
    <2> QED BY <1>3, <1>5, <1>7, <2>1
<1>8. ASSUME NEW E \in SUBSET Job, Drain(E) PROVE Claimed'
    BY <1>5, <1>8 DEF Drain, Places
<1>9. ASSUME NEW j \in Job, Claim(j) PROVE Claimed'
    BY <1>5, <1>9 DEF Claim, Places
<1>10. CASE Stamp
    BY <1>2, <1>10 DEF Stamp, Places, Resting
<1>11. ASSUME NEW j \in Job, NEW t \in Token, Take(j, t) PROVE Claimed'
    <2>1. /\ worker' = [step |-> "generate", job |-> j, token |-> t, prompt |-> record[j].prompt, stale |-> {}]
          /\ record' = record /\ t # 0
        BY <1>1, <1>11 DEF Take
    <2> QED BY <2>1 DEF Claimed
<1>12. ASSUME NEW a \in WorkerSteps, Steps(a), worker.step \notin {"idle", "next"}, UNCHANGED record
       PROVE  Claimed'
    BY <1>1, <1>3, <1>12 DEF Steps, WorkerType
<1>13. CASE MarkDone
    <2>1. \A j \in Job : record'[j].token = record[j].token /\ record'[j].prompt = record[j].prompt
        BY <1>1, <1>13 DEF MarkDone, Record
    <2> QED BY <1>1, <1>3, <1>13, <2>1 DEF MarkDone, Steps, Working, WorkerType
<1>14. CASE Commit
    <2>1. \A j \in Job : \/ record'[j].token = record[j].token /\ record'[j].prompt = record[j].prompt
                         \/ record'[j].token = 0
        BY <1>1, <1>14 DEF Commit, Record
    <2> QED BY <1>1, <1>3, <1>14, <2>1 DEF Commit, Working, WorkerType
<1>15. CASE AppendCard
    BY <1>1, <1>3, <1>15 DEF AppendCard, Steps, Working, WorkerType
<1>16. CASE \/ Generate \/ GenerateFails \/ Replace \/ ReplaceFails \/ AppendRefused \/ UnlinkReplaced
    BY <1>12, <1>16
       DEF Generate, GenerateFails, Replace, ReplaceFails, AppendRefused, UnlinkReplaced, Working, WorkerSteps
<1>17. CASE Stale \/ Cleanup \/ FinishJob \/ Fail \/ ReleaseSlot
    BY <1>1, <1>2, <1>17 DEF Stale, Cleanup, FinishJob, Fail, ReleaseSlot, Resting, Steps, WorkerType
<1>18. CASE Reactor
    BY <1>4, <1>6, <1>7, <1>8, <1>9, <1>10, <1>18
       DEF Reactor, ReadCards, Request, RemoveCard, ReadJobs, Unlink, DrainTick, Claims, Places
<1>19. CASE Snapshot \/ Pause \/ Crash \/ Start
    <2>1. CASE Snapshot \/ Pause
        BY <1>4, <2>1 DEF Snapshot, EnterGate, Backup, Mirror, Resume, Pause
    <2>2. CASE Crash
        BY <1>2, <2>2 DEF Crash, Resting
    <2>3. CASE Start
        BY <1>5, <2>3 DEF Start, Places, Resting
    <2> QED BY <1>19, <2>1, <2>2, <2>3
<1> QED BY <1>11, <1>13, <1>14, <1>15, <1>16, <1>17, <1>18, <1>19 DEF Next, Worker, Publication

\* While the worker does not move, nobody takes from it what it has settled.
LEMMA SettlingKept ==
    ASSUME Settling, Claimed, worker' = worker, format' = format,
           worker.step \in {"replaced", "marked"} =>
               /\ record'[worker.job].status = record[worker.job].status
               /\ record'[worker.job].token = record[worker.job].token
               /\ files'[Here(worker.job)] = files[Here(worker.job)],
           worker.step = "committed" => record'[worker.job].output = record[worker.job].output,
           worker.step = "carded" => Referenced' \subseteq Referenced
    PROVE  Settling'
BY DEF Settling, Current, Here

\* A resting worker has settled nothing.
LEMMA SettlingRests == worker'.step \in {"idle", "next"} => Settling'
BY DEF Settling

\* A card that an image's worker adds replaces the gallery's others, and no gallery but
\* its own has had it.
LEMMA CardReplaces ==
    ASSUME ArtTypeOK, Places, Owners, Claimed, Settling, AppendCard
    PROVE  /\ worker'.stale \subseteq Picture \ Referenced'
           /\ Referenced' \subseteq Referenced \cup {Here(worker.job)}
<1> USE Names
<1>1. /\ worker.job \in Image /\ record[worker.job].subject \in Subject /\ Gallery \in Subject
      /\ worker \in WorkerType /\ worker.stale = {} /\ cards \in [Subject -> SUBSET Picture]
    <2>1. worker.step = "replaced" /\ worker.job \in Image
        BY DEF AppendCard, Working
    <2>2. record[worker.job].status = "in_progress"
        BY <2>1 DEF Settling, Current
    <2> QED BY <2>1, <2>2 DEF Owners, InFlight, Gallery, Settling, ArtTypeOK
<1>2. \A t \in Subject : cards'[t] \subseteq cards[t] \cup {Here(worker.job)}
    BY <1>1 DEF AppendCard
<1>3. Referenced' \subseteq Referenced \cup {Here(worker.job)}
    BY <1>2 DEF Referenced
<1>4. CASE Gallery \in Capped
    <2>1. worker'.stale = cards[Gallery] /\ cards' = [cards EXCEPT ![Gallery] = {Here(worker.job)}]
        BY <1>1, <1>4 DEF AppendCard, WorkerType
    <2>2. ASSUME NEW p \in cards[Gallery], NEW t \in Subject, p \in cards'[t] PROVE FALSE
        <3>1. CASE t = Gallery
            <4>1. p = Here(worker.job)
                BY <1>1, <2>1, <2>2, <3>1
            <4> QED BY <4>1, <2>2 DEF AppendCard, Held, Here
        <3>2. CASE t # Gallery
            <4>1. p \in cards[t] /\ p[1] \in Image
                BY <1>1, <2>1, <2>2, <3>2 DEF Picture
            <4>2. p[1] \in Old[t] \/ record[p[1]].subject = t
                BY <4>1 DEF Owners
            <4>3. p[1] \in Old[Gallery] \/ record[p[1]].subject = Gallery
                BY <1>1, <2>2 DEF Owners
            <4>4. \A s \in Subject : p[1] \in Old[s] => record[p[1]].subject = None
                BY DEF Owners, Aged
            <4> QED BY <1>1, <3>2, <4>2, <4>3, <4>4
        <3> QED BY <3>1, <3>2
    <2>3. worker'.stale \subseteq Picture
        BY <1>1, <2>1
    <2> QED BY <1>3, <2>1, <2>2, <2>3 DEF Referenced
<1>5. CASE Gallery \notin Capped
    <2>1. worker'.stale = {}
        BY <1>1, <1>5 DEF AppendCard, Steps, WorkerType
    <2> QED BY <1>3, <2>1
<1> QED BY <1>4, <1>5

LEMMA SettlingStep ==
    ArtTypeOK /\ Places /\ Owners /\ Claimed /\ Settling /\ Next => Settling'
<1> SUFFICES ASSUME ArtTypeOK, Places, Owners, Claimed, Settling, Next PROVE Settling'
    OBVIOUS
<1> USE Names DEF world, store, setting, threads, saving
<1>1. /\ record \in [Job -> Record] /\ worker \in WorkerType /\ cards \in [Subject -> SUBSET Picture]
      /\ files \in [Identity -> 0..(MaxEvent + 1)]
    BY DEF ArtTypeOK
<1>2. worker.step \notin {"idle", "next"} => worker.job \in Job /\ Here(worker.job) \in Identity
    BY AtWork
<1>3. CASE UNCHANGED <<record, files, format, worker>> /\ Referenced' \subseteq Referenced
    BY <1>3, SettlingKept
<1>4. ASSUME NEW s \in Scene, Ensure(s) \/ Requeue(s) PROVE Settling'
    <2>1. worker.step \notin {"replaced", "marked"} /\ Referenced' = Referenced
        BY <1>4 DEF Ensure, Requeue, QueueLocked, Referenced
    <2>2. \A j \in Job : record'[j].output = record[j].output
        BY <1>1, <1>4 DEF Ensure, Requeue, Record
    <2> QED BY <1>2, <1>4, <2>1, <2>2, SettlingKept DEF Ensure, Requeue
<1>5. ASSUME NEW s \in Subject, Enqueued(s), UNCHANGED <<cards, store, worker>> PROVE Settling'
    <2>1. worker.step \notin {"replaced", "marked"} /\ Referenced' = Referenced
        BY <1>5 DEF Enqueued, QueueLocked, Referenced
    <2>2. \A j \in Job : record'[j].output = record[j].output
        <3> DEFINE i == CHOOSE i \in Unused : TRUE
        <3>1. record' = [record EXCEPT ![i] = [record[i] EXCEPT !.status = "pending", !.subject = s]]
            BY <1>1, <1>5 DEF Enqueued
        <3> HIDE DEF i
        <3> QED BY <1>1, <3>1 DEF Record
    <2> QED BY <1>2, <1>5, <2>1, <2>2, SettlingKept
<1>6. ASSUME NEW s \in Subject, NEW i \in Identity, RemoveCard(s, i) PROVE Settling'
    <2>1. \A t \in Subject : cards'[t] \subseteq cards[t]
        BY <1>1, <1>6 DEF RemoveCard
    <2> QED BY <1>3, <1>6, <2>1 DEF RemoveCard, Referenced
<1>7. CASE Unlink
    <2>1. CASE GateHeld
        BY <1>3, <1>7, <2>1 DEF Unlink, Referenced
    <2>2. CASE ~GateHeld
        BY <1>7, <2>2, SettlingKept DEF Unlink, GateHeld, Referenced
    <2> QED BY <2>1, <2>2
<1>8. CASE DrainTick \/ Claims \/ Stamp
    <2>1. worker.step = "idle"
        BY <1>8 DEF DrainTick, Drain, Claims, Claim, Stamp, Places
    <2>2. worker' = worker \/ worker' = [Resting EXCEPT !.step = "next"]
        BY <1>8 DEF DrainTick, Drain, Claims, Claim, Stamp
    <2>3. worker'.step \in {"idle", "next"}
        BY <2>1, <2>2 DEF Resting
    <2> QED BY <2>3, SettlingRests
<1>9. CASE ReadJobs
    BY <1>3, <1>5, <1>9 DEF ReadJobs, Places, Referenced
<1>10. CASE Reactor
    BY <1>3, <1>4, <1>5, <1>6, <1>7, <1>8, <1>9, <1>10 DEF Reactor, ReadCards, Request, Referenced
<1>11. ASSUME NEW j \in Job, NEW t \in Token, Take(j, t) PROVE Settling'
    BY <1>11 DEF Take, Settling
<1>12. CASE Generate \/ GenerateFails
    <2>1. worker'.step \in {"publish", "failed"} /\ worker'.stale = worker.stale /\ worker.step = "generate"
        BY <1>1, <1>12 DEF Generate, GenerateFails, Steps, Working, WorkerType
    <2> QED BY <2>1 DEF Settling
<1>13. CASE Replace
    <2>1. /\ worker' = [worker EXCEPT !.step = "replaced"] /\ worker.step = "publish" /\ Current
          /\ files'[Here(worker.job)] = worker.prompt /\ UNCHANGED <<record, format>>
        BY <1>1, <1>2, <1>13 DEF Replace, Publishable, setting, Steps, Working
    <2>2. /\ worker'.step = "replaced" /\ worker'.stale = {} /\ worker'.job = worker.job
          /\ worker'.token = worker.token /\ worker'.prompt = worker.prompt
        BY <1>1, <2>1 DEF WorkerType, Settling
    <2> QED BY <2>1, <2>2 DEF Settling, Current, Here
<1>14. CASE ReplaceFails
    <2>1. worker'.job = worker.job /\ worker.job \in Job
          /\ worker'.step = IF worker.job \in Scene THEN "failed" ELSE "rejected"
        BY <1>1, <1>2, <1>14 DEF ReplaceFails, Steps, Working, WorkerType
    <2> QED BY <2>1 DEF Settling
<1>15. CASE MarkDone
    <2>1. /\ worker' = [worker EXCEPT !.step = "marked"] /\ worker.step = "replaced" /\ worker.job \in Scene
          /\ record' = [record EXCEPT ![worker.job].status = "done"] /\ UNCHANGED <<files, format>>
        BY <1>15 DEF MarkDone, Steps, Working
    <2>2. /\ worker'.step = "marked" /\ worker'.job = worker.job
          /\ worker'.token = worker.token /\ worker'.prompt = worker.prompt
        BY <1>1, <2>1 DEF WorkerType
    <2>3. record'[worker.job].status = "done" /\ record'[worker.job].token = record[worker.job].token
        BY <1>1, <2>1 DEF Record
    <2> QED BY <2>1, <2>2, <2>3 DEF Settling, Current, Here
<1>16. CASE Commit
    <2>1. /\ worker' = [worker EXCEPT !.step = "committed", !.stale = Prior(worker.job)]
          /\ worker.job \in Scene /\ UNCHANGED format
        BY <1>16 DEF Commit, Settling, Working
    <2>2. worker'.step = "committed" /\ worker'.job = worker.job /\ worker'.stale = Prior(worker.job)
        BY <1>1, <2>1 DEF WorkerType
    <2>3. record'[worker.job].output = Here(worker.job)
        BY <1>1, <1>16, <2>1 DEF Commit, Record
    <2>4. Prior(worker.job) \subseteq ({worker.job} \X Format) \ {Here(worker.job)}
        BY <2>1 DEF Prior, Owners
    <2> QED BY <2>1, <2>2, <2>3, <2>4 DEF Settling, Here
<1>17. CASE AppendCard
    <2>1. worker'.step = "carded" /\ worker'.job = worker.job /\ worker.job \in Image
        BY <1>1, <1>17 DEF AppendCard, Steps, WorkerType
    <2>2. worker'.stale \subseteq Picture \ Referenced'
        BY <1>17, CardReplaces
    <2> QED BY <2>1, <2>2 DEF Settling
<1>18. CASE AppendRefused \/ UnlinkReplaced
    <2>1. worker'.step \in {"rejected", "unlinked"} /\ worker'.job = worker.job /\ worker.job \in Image
        BY <1>1, <1>18 DEF AppendRefused, UnlinkReplaced, Steps, Working, Settling, WorkerType
    <2> QED BY <2>1 DEF Settling
<1>19. CASE Stale \/ Cleanup \/ FinishJob \/ Fail \/ ReleaseSlot \/ Crash
    <2>1. worker'.step \in {"idle", "next"}
        BY <1>1, <1>19 DEF Stale, Cleanup, FinishJob, Fail, ReleaseSlot, Crash, Resting, Steps, WorkerType
    <2> QED BY <2>1, SettlingRests
<1>20. CASE Snapshot \/ Pause
    BY <1>3, <1>20 DEF Snapshot, EnterGate, Backup, Mirror, Resume, Pause, Referenced
<1>21. CASE Start
    <2>1. worker'.step = "idle"
        BY <1>21 DEF Start, Places, Resting
    <2> QED BY <2>1, SettlingRests
<1> QED BY <1>10, <1>11, <1>12, <1>13, <1>14, <1>15, <1>16, <1>17, <1>18, <1>19, <1>20, <1>21
        DEF Next, Worker, Publication

------------------------------------------------------------------------------
(* What a step does to the store.                                          *)

LEMMA OutputsOfScenes ==
    ASSUME ArtTypeOK, Owners
    PROVE  Outputs \subseteq Identity \ Picture /\ Referenced \subseteq Picture
<1>1. \A s \in Scene : record[s].output = None \/ record[s].output \in Scene \X Format
    BY DEF Owners
<1>2. Outputs \subseteq Scene \X Format
    BY <1>1 DEF Outputs
<1>3. Scene \X Format \subseteq Identity \ Picture
    BY DEF Identity, Picture, Job
<1> QED BY <1>2, <1>3 DEF Referenced, ArtTypeOK

\* A file that is written is the current claim's; one that is unlinked is named by no
\* record and no card, and no snapshot is copying.
Written(p) == Replace /\ p = Here(worker.job) /\ files'[p] = worker.prompt
Unnamed(p) == p \notin Outputs \cup (Referenced \ removed) /\ Outputs' = Outputs /\ snapshot # "mirror"
              /\ Referenced' = Referenced /\ removed' = removed

LEMMA FilesChange ==
    ASSUME ArtTypeOK, Places, Owners, Claimed, Settling, Next, NEW p \in Identity
    PROVE  files'[p] = files[p] \/ Written(p) \/ Unnamed(p)
<1> USE Names
<1>1. files \in [Identity -> 0..(MaxEvent + 1)]
    BY DEF ArtTypeOK
<1>2. CASE UNCHANGED files
    BY <1>2
<1>3. CASE Unlink /\ ~GateHeld
    <2>1. reactor.file \in removed /\ reactor.file \in Picture
        BY <1>3 DEF Unlink, Places, ArtTypeOK
    <2>2. p = reactor.file \/ files'[p] = files[p]
        BY <1>1, <1>3 DEF Unlink
    <2>3. Outputs' = Outputs /\ Referenced' = Referenced /\ removed' = removed /\ snapshot # "mirror"
        BY <1>3 DEF Unlink, world, Outputs, Referenced, GateHeld
    <2> QED BY <2>1, <2>2, <2>3, OutputsOfScenes DEF Unnamed
<1>4. CASE Replace
    BY <1>1, <1>4 DEF Replace, Written
<1>5. CASE Cleanup /\ files' # files
    <2>1. /\ worker.job \in Scene /\ record[worker.job].output = Here(worker.job)
          /\ worker.stale \subseteq ({worker.job} \X Format) \ {Here(worker.job)}
        BY <1>5 DEF Cleanup, Working, Settling
    <2>2. \A s \in Scene : record[s].output # None => record[s].output \in {s} \X Format
        BY DEF Owners
    <2>3. ASSUME p \in worker.stale PROVE p \notin Outputs
        <3>1. p[1] = worker.job /\ p # record[worker.job].output
            BY <2>1, <2>3
        <3> QED BY <2>2, <3>1 DEF Outputs
    <2>4. p \in worker.stale => p \notin Picture
        BY <2>1 DEF Picture, Job
    <2>5. p \in worker.stale \/ files'[p] = files[p]
        BY <1>1, <1>5 DEF Cleanup, Removed
    <2>6. Outputs' = Outputs /\ Referenced' = Referenced /\ removed' = removed /\ snapshot # "mirror"
        BY <1>5 DEF Cleanup, Working, world, Outputs, Referenced, Places, Gated, Copying
    <2> QED BY <2>3, <2>4, <2>5, <2>6, OutputsOfScenes DEF Unnamed
<1>6. CASE UnlinkReplaced /\ files' # files
    <2>1. worker.stale \subseteq Picture \ Referenced
        BY <1>6 DEF UnlinkReplaced, Working, Settling
    <2>2. p \in worker.stale \/ files'[p] = files[p]
        BY <1>1, <1>6 DEF UnlinkReplaced, Removed
    <2>3. Outputs' = Outputs /\ Referenced' = Referenced /\ removed' = removed /\ snapshot # "mirror"
        BY <1>6 DEF UnlinkReplaced, Working, world, Outputs, Referenced, Places, Gated, Copying
    <2> QED BY <2>1, <2>2, <2>3, OutputsOfScenes DEF Unnamed
<1>7. CASE Start
    <2>1. (p \in Picture /\ p \notin Referenced) \/ files'[p] = files[p]
        BY <1>1, <1>7 DEF Start, Removed, Picture
    <2>2. \A s \in Scene : record'[s].output = record[s].output
        BY <1>7 DEF Start, Job, ArtTypeOK
    <2>3. Outputs' = Outputs /\ Referenced' = Referenced /\ removed' = removed /\ snapshot # "mirror"
        BY <1>7, <2>2 DEF Start, Outputs, Referenced, Places
    <2> QED BY <2>1, <2>3, OutputsOfScenes DEF Unnamed
<1>8. CASE Reactor
    BY <1>2, <1>3, <1>8
       DEF Reactor, Ensure, Requeue, ReadCards, Request, RemoveCard, ReadJobs, Unlink, DrainTick, Drain,
           Claims, Claim, Stamp, store, setting
<1>9. CASE Worker
    BY <1>2, <1>4, <1>5, <1>6, <1>9
       DEF Worker, Publication, Generate, GenerateFails, Stale, ReplaceFails, MarkDone, Commit,
           AppendCard, AppendRefused, FinishJob, Fail, ReleaseSlot, Take, store, setting
<1>10. CASE Snapshot \/ Pause \/ Crash
    BY <1>2, <1>10 DEF Snapshot, EnterGate, Backup, Mirror, Resume, Pause, Crash, store, setting
<1> QED BY <1>7, <1>8, <1>9, <1>10 DEF Next

------------------------------------------------------------------------------
(* The store has what is named.                                            *)

\* What comes to be named was there.
LEMMA NamesChange ==
    ASSUME ArtTypeOK, Places, Owners, Claimed, Settling, Next,
           NEW p \in Outputs' \cup (Referenced' \ removed')
    PROVE  p \in Outputs \cup (Referenced \ removed) \/ (p \in Identity /\ files'[p] # 0)
<1> USE Names DEF world, store, setting, threads, saving
<1> DEFINE Named == Outputs \cup (Referenced \ removed)
<1>1. /\ record \in [Job -> Record] /\ worker \in WorkerType /\ cards \in [Subject -> SUBSET Picture]
    BY DEF ArtTypeOK
<1>2. CASE (\A s \in Scene : record'[s].output = record[s].output) /\ UNCHANGED <<cards, removed>>
    BY <1>2 DEF Outputs, Referenced
<1>3. ASSUME worker.step \in {"replaced", "marked"}, UNCHANGED files
      PROVE  Here(worker.job) \in Identity /\ files'[Here(worker.job)] # 0
    <2>1. files[Here(worker.job)] = worker.prompt /\ worker.prompt \in Prompt /\ Here(worker.job) \in Identity
        BY <1>3, AtWork DEF Settling
    <2> QED BY <1>3, <2>1
<1>4. CASE Commit
    <2>1. worker.step = "marked" /\ UNCHANGED <<files, cards, removed>> /\ worker.job \in Scene
        BY <1>4 DEF Commit, Working, Settling
    <2>2. \A s \in Scene : record'[s].output \in {record[s].output, Here(worker.job)}
        BY <1>1, <1>4 DEF Commit, Record
    <2>3. p \in Named \/ p = Here(worker.job)
        BY <2>1, <2>2 DEF Outputs, Referenced
    <2> QED BY <1>3, <2>1, <2>3
<1>5. CASE AppendCard
    <2>1. worker.step = "replaced" /\ UNCHANGED <<files, record, removed>>
        BY <1>5 DEF AppendCard, Working
    <2>2. p \in Named \/ p = Here(worker.job)
        BY <1>5, <2>1, CardReplaces DEF Outputs
    <2> QED BY <1>3, <2>1, <2>2
<1>6. ASSUME NEW s \in Subject, NEW i \in Identity, RemoveCard(s, i) PROVE p \in Named
    <2>1. \A t \in Subject : cards'[t] \subseteq cards[t]
        BY <1>1, <1>6 DEF RemoveCard
    <2> QED BY <1>6, <2>1 DEF RemoveCard, Outputs, Referenced
<1>7. ASSUME NEW s \in Subject, Enqueued(s), UNCHANGED <<cards, removed>> PROVE p \in Named
    <2> DEFINE i == CHOOSE i \in Unused : TRUE
    <2>1. record' = [record EXCEPT ![i] = [record[i] EXCEPT !.status = "pending", !.subject = s]]
        BY <1>1, <1>7 DEF Enqueued
    <2> HIDE DEF i
    <2>2. \A t \in Scene : record'[t].output = record[t].output
        BY <1>1, <2>1 DEF Record
    <2> QED BY <1>2, <1>7, <2>2 DEF Outputs, Referenced
<1>8. ASSUME NEW E \in SUBSET Job, Drain(E) PROVE p \in Named
    <2>1. ASSUME NEW s \in Scene PROVE record'[s].output = record[s].output
        <3>1. \/ record'[s] = record[s]
              \/ record'[s] = [record[s] EXCEPT !.status = "pending", !.claimed = FALSE]
            BY <1>8 DEF Drain
        <3> QED BY <1>1, <3>1 DEF Record
    <2>2. UNCHANGED <<cards, removed>>
        BY <1>8 DEF Drain
    <2> QED BY <2>1, <2>2 DEF Outputs, Referenced
<1>9. CASE Reactor
    <2>1. ASSUME NEW s \in Scene, Ensure(s) \/ Requeue(s) PROVE p \in Named
        <3>1. \A t \in Scene : record'[t].output = record[t].output
            BY <1>1, <2>1 DEF Ensure, Requeue, Record
        <3> QED BY <2>1, <3>1 DEF Ensure, Requeue, Outputs, Referenced
    <2>2. CASE Claims \/ Stamp
        <3>1. \A t \in Scene : record'[t].output = record[t].output
            <4>1. CASE Claims
                BY <1>1, <4>1 DEF Claims, Claim, Record
            <4>2. CASE Stamp
                <5>1. record' = [record EXCEPT ![reactor.subject] =
                                    [record[reactor.subject] EXCEPT !.claimed = TRUE, !.token = Fresh]]
                    BY <1>1, <4>2 DEF Stamp
                <5> QED BY <1>1, <5>1 DEF Record
            <4> QED BY <2>2, <4>1, <4>2
        <3> QED BY <1>2, <2>2, <3>1 DEF Claims, Claim, Stamp
    <2>3. CASE ReadJobs \/ Unlink \/ \E s \in Subject : ReadCards(s) \/ Request(s)
        BY <1>2, <1>7, <2>3 DEF ReadJobs, Unlink, ReadCards, Request, Places
    <2> QED BY <1>6, <1>8, <1>9, <2>1, <2>2, <2>3 DEF Reactor, DrainTick
<1>10. CASE MarkDone \/ FinishJob \/ Fail
    BY <1>1, <1>2, <1>10 DEF MarkDone, FinishJob, Fail, Record
<1>11. CASE Worker
    BY <1>2, <1>4, <1>5, <1>10, <1>11
       DEF Worker, Publication, Generate, GenerateFails, Stale, Replace, ReplaceFails, Cleanup,
           AppendRefused, UnlinkReplaced, ReleaseSlot, Take
<1>12. CASE Start
    BY <1>1, <1>2, <1>12 DEF Start, Record
<1>13. CASE Snapshot \/ Pause \/ Crash
    BY <1>2, <1>13 DEF Snapshot, EnterGate, Backup, Mirror, Resume, Pause, Crash
<1> QED BY <1>9, <1>11, <1>12, <1>13 DEF Next

LEMMA ReferencesStep ==
    ASSUME ArtTypeOK, Places, Owners, Claimed, Settling, ReferencesExist, Next
    PROVE  ReferencesExist'
<1> SUFFICES ASSUME NEW p \in Outputs' \cup (Referenced' \ removed') PROVE files'[p] # 0
    BY DEF ReferencesExist
<1>1. CASE p \in Outputs \cup (Referenced \ removed)
    <2>1. files[p] # 0 /\ p \in Identity
        BY <1>1, Names, OutputsOfScenes DEF ReferencesExist
    <2>2. CASE Written(p)
        <3>1. worker.prompt \in Prompt
            BY <2>2, AtWork DEF Written, Replace, Working
        <3> QED BY <2>2, <3>1, Names DEF Written
    <2>3. ~Unnamed(p)
        BY <1>1 DEF Unnamed
    <2> QED BY <2>1, <2>2, <2>3, FilesChange
<1> QED BY <1>1, NamesChange

LEMMA CopiedStep ==
    ASSUME ArtTypeOK, Places, Owners, Claimed, Settling, Copied, Next
    PROVE  Copied'
<1> USE Names DEF world, store, setting, threads, saving
<1>1. snapshot = "mirror" => \A p \in saved.named : p \in Identity /\ files'[p] # 0
    <2> SUFFICES ASSUME snapshot = "mirror", NEW p \in saved.named PROVE p \in Identity /\ files'[p] # 0
        OBVIOUS
    <2>1. p \in Identity /\ files[p] # 0
        BY DEF Copied, ArtTypeOK
    <2>2. CASE Written(p)
        <3>1. worker.prompt \in Prompt
            BY <2>2, AtWork DEF Written, Replace, Working
        <3> QED BY <2>1, <2>2, <3>1 DEF Written
    <2>3. ~Unnamed(p)
        BY DEF Unnamed
    <2> QED BY <2>1, <2>2, <2>3, FilesChange
<1>2. CASE UNCHANGED saving
    BY <1>1, <1>2 DEF Copied, SavedIsWhole
<1>3. CASE Pause \/ EnterGate \/ Resume \/ Crash
    BY <1>3 DEF Pause, EnterGate, Resume, Crash, Copied, SavedIsWhole
<1>4. CASE Backup
    <2>1. /\ saved'.named = {p \in Outputs \cup Referenced : files[p] # 0}
          /\ snapshot' = "mirror" /\ files' = files
        BY <1>4 DEF Backup, ArtTypeOK
    <2> QED BY <2>1 DEF Copied, SavedIsWhole
<1>5. CASE Mirror
    <2>1. /\ saved'.named = saved.named /\ saved'.files = {p \in Identity : files[p] # 0}
          /\ snapshot' = "mirrored" /\ snapshot = "mirror" /\ files' = files
        BY <1>5 DEF Mirror, ArtTypeOK
    <2> QED BY <1>1, <2>1 DEF Copied, SavedIsWhole
<1>6. CASE Reactor
    BY <1>2, <1>6
       DEF Reactor, Ensure, Requeue, ReadCards, Request, RemoveCard, ReadJobs, Unlink, DrainTick, Drain,
           Claims, Claim, Stamp
<1>7. CASE Worker
    BY <1>2, <1>7
       DEF Worker, Publication, Generate, GenerateFails, Stale, Replace, ReplaceFails, MarkDone, Commit,
           Cleanup, AppendCard, AppendRefused, UnlinkReplaced, FinishJob, Fail, ReleaseSlot, Take
<1>8. CASE Start
    BY <1>2, <1>8 DEF Start
<1> QED BY <1>3, <1>4, <1>5, <1>6, <1>7, <1>8 DEF Next, Snapshot

------------------------------------------------------------------------------
(* What is shown is as new as what was asked for.                          *)

\* A step that settles no scene.
LEMMA ShownKept ==
    ASSUME ArtTypeOK, Places, Owners, Claimed, Settling, Shown, Next,
           NEW s \in Scene, record'[s].status = "done", record'[s].token = 0,
           record[s].status = "done", record[s].token = 0,
           record'[s].output = record[s].output, record'[s].prompt = record[s].prompt
    PROVE  record'[s].output # None /\ files'[record'[s].output] >= record'[s].prompt
<1> DEFINE p == record[s].output
<1>1. p # None /\ files[p] >= record[s].prompt /\ p \in {s} \X Format
    BY DEF Shown, Owners
<1>2. p \in Identity /\ p \in Outputs
    BY <1>1, Names DEF Identity, Outputs
<1>3. ~Unnamed(p)
    BY <1>2 DEF Unnamed
<1>4. ~Written(p)
    <2>1. SUFFICES ASSUME Replace, p = Here(worker.job) PROVE FALSE
        BY DEF Written
    <2>2. worker.job = s
        BY <1>1, <2>1 DEF Here
    <2> QED BY <2>1, <2>2 DEF Replace, Publishable, Current
<1> QED BY <1>1, <1>2, <1>3, <1>4, FilesChange

LEMMA ShownStep ==
    ASSUME ArtTypeOK, Places, Owners, Claimed, Settling, Shown, Next
    PROVE  Shown'
<1> USE Names DEF world, store, setting, threads, saving
<1> SUFFICES ASSUME NEW s \in Scene, record'[s].status = "done", record'[s].token = 0
             PROVE  record'[s].output # None /\ files'[record'[s].output] >= record'[s].prompt
    BY DEF Shown
<1>1. record \in [Job -> Record] /\ worker \in WorkerType
    BY DEF ArtTypeOK
<1> DEFINE Same == /\ record[s].status = "done" /\ record[s].token = 0
                   /\ record'[s].output = record[s].output /\ record'[s].prompt = record[s].prompt
<1>2. Same => record'[s].output # None /\ files'[record'[s].output] >= record'[s].prompt
    BY ShownKept
<1>3. record'[s] = record[s] => Same
    OBVIOUS
<1>4. ASSUME NEW t \in Scene, Ensure(t) \/ Requeue(t) PROVE Same
    BY <1>1, <1>4 DEF Ensure, Requeue, Record
<1>5. ASSUME NEW g \in Subject, Enqueued(g) PROVE Same
    <2>1. (CHOOSE i \in Unused : TRUE) \in Image
        BY <1>5 DEF Enqueued, Unused
    <2> QED BY <1>1, <1>5, <2>1 DEF Enqueued
<1>6. ASSUME NEW E \in SUBSET Job, Drain(E) PROVE Same
    <2>1. \/ record'[s] = record[s]
          \/ record'[s] = [record[s] EXCEPT !.status = "pending", !.claimed = FALSE]
        BY <1>6 DEF Drain
    <2>2. record'[s] # [record[s] EXCEPT !.status = "pending", !.claimed = FALSE]
        BY <1>1 DEF Record
    <2> QED BY <2>1, <2>2
<1>7. ASSUME NEW j \in Job, Claim(j) PROVE Same
    BY <1>1, <1>7 DEF Claim, Record
<1>8. CASE Stamp
    <2>1. Fresh # 0
        BY <1>1, FreshToken
    <2>2. s # reactor.subject
        BY <1>1, <1>8, <2>1 DEF Stamp, Record
    <2> QED BY <1>1, <1>2, <1>8, <2>2 DEF Stamp
<1>9. CASE Reactor
    BY <1>2, <1>3, <1>4, <1>5, <1>6, <1>7, <1>8, <1>9
       DEF Reactor, ReadCards, Request, RemoveCard, ReadJobs, Unlink, DrainTick, Claims, Places
<1>10. CASE MarkDone
    <2>1. worker.job \in Job /\ worker.token # 0 /\ record[worker.job].token = worker.token
        BY <1>10, AtWork DEF MarkDone, Working, Settling, Current
    <2>2. s # worker.job
        BY <1>1, <1>10, <2>1 DEF MarkDone, Record
    <2> QED BY <1>1, <1>2, <1>10, <2>2 DEF MarkDone
<1>11. CASE Commit
    <2>1. /\ worker.job \in Job /\ files[Here(worker.job)] = worker.prompt
          /\ record[worker.job].prompt = worker.prompt /\ Here(worker.job) \in Identity
          /\ worker.prompt \in Prompt
        BY <1>11, AtWork DEF Commit, Working, Settling, Claimed
    <2>2. CASE s = worker.job
        <3>1. record'[s].output = Here(s) /\ record'[s].prompt = record[s].prompt /\ files' = files
            BY <1>1, <1>11, <2>2 DEF Commit, Record
        <3>2. files'[record'[s].output] = worker.prompt /\ record'[s].prompt = worker.prompt
            BY <2>1, <2>2, <3>1
        <3>3. worker.prompt \in Nat
            BY <2>1, ArtAssumption DEF Prompt
        <3>4. record'[s].output # None
            BY <2>1, <2>2, <3>1, Zenon
        <3> QED BY <3>2, <3>3, <3>4
    <2>3. CASE s # worker.job
        BY <1>1, <1>2, <1>11, <2>3 DEF Commit
    <2> QED BY <2>2, <2>3
<1>12. CASE FinishJob
    <2>1. s # worker.job
        BY <1>12 DEF FinishJob, Working, Settling
    <2> QED BY <1>1, <1>2, <1>12, <2>1 DEF FinishJob
<1>13. CASE Fail
    <2>1. worker.job \in Job
        BY <1>13, AtWork DEF Fail, Working
    <2>2. s # worker.job \/ record' = record
        BY <1>1, <1>13, <2>1 DEF Fail, Record
    <2> QED BY <1>1, <1>2, <1>13, <2>2 DEF Fail
<1>14. CASE Worker
    BY <1>2, <1>10, <1>11, <1>12, <1>13, <1>14
       DEF Worker, Publication, Generate, GenerateFails, Stale, Replace, ReplaceFails, Cleanup,
           AppendCard, AppendRefused, UnlinkReplaced, ReleaseSlot, Take
<1>15. CASE Start
    BY <1>1, <1>2, <1>15 DEF Start
<1>16. CASE Snapshot \/ Pause \/ Crash
    BY <1>2, <1>16 DEF Snapshot, EnterGate, Backup, Mirror, Resume, Pause, Crash
<1> QED BY <1>9, <1>14, <1>15, <1>16 DEF Next

------------------------------------------------------------------------------
(* The theorems.                                                           *)

LEMMA ArtStep == ArtInv /\ [Next]_vars => ArtInv'
<1> SUFFICES ASSUME ArtInv, [Next]_vars PROVE ArtInv'
    OBVIOUS
<1>1. CASE Next
    <2>1. ArtTypeOK' /\ Places' /\ Owners' /\ Claimed' /\ Settling'
        BY <1>1, TypeStep, PlacesStep, OwnersStep, ClaimedStep, SettlingStep DEF ArtInv
    <2>2. ReferencesExist' /\ Copied' /\ Shown'
        BY <1>1, ReferencesStep, CopiedStep, ShownStep DEF ArtInv
    <2> QED BY <2>1, <2>2 DEF ArtInv
<1>2. CASE UNCHANGED vars
    <2> USE <1>2 DEF vars, world, store, setting, threads, saving
    <2>1. ArtTypeOK' /\ Places' /\ Copied' /\ Shown'
        BY DEF ArtInv, ArtTypeOK, Places, Copied, SavedIsWhole, Shown
    <2>2. Owners' /\ Claimed'
        BY DEF ArtInv, Owners, Handled, Claimed
    <2>3. Settling' /\ ReferencesExist'
        BY DEF ArtInv, Settling, Current, Here, ReferencesExist, Referenced, Outputs
    <2> QED BY <2>1, <2>2, <2>3 DEF ArtInv
<1> QED BY <1>1, <1>2

\* The invariant holds of every behaviour.
THEOREM ArtInvariant == Spec => []ArtInv
<1> QED BY ArtInit, ArtStep, PTL DEF Spec

\* The types of the queue's state, at every step (ArtAssetRecord, worker, publication).
THEOREM ArtTypes == Spec => []ArtTypeOK
<1>1. ArtInv => ArtTypeOK
    BY DEF ArtInv
<1> QED BY <1>1, ArtInvariant, PTL

\* No thread's step and no crash leaves a record or a card without its picture, for any
\* scenes, galleries and formats (settle_generated, settle_gallery_generated,
\* remove_card, prune_gallery_orphans).
THEOREM PicturesExist == Spec => []ReferencesExist
<1>1. ArtInv => ReferencesExist
    BY DEF ArtInv
<1> QED BY <1>1, ArtInvariant, PTL

\* A snapshot of the running game holds every picture its database names, if the store
\* held it (snapshot._create_locked under publication.paused).
THEOREM SnapshotsAreWhole == Spec => []SavedIsWhole
<1>1. ArtInv => SavedIsWhole
    BY DEF ArtInv, Copied
<1> QED BY <1>1, ArtInvariant, PTL

\* A worker that a forced regeneration overtook never settles the record: what is done
\* shows the prompt it was last queued for (requeue, settle_generated).
THEOREM RegenerationWins == Spec => []RegeneratedIsNew
<1>1. ArtInv => RegeneratedIsNew
    BY DEF ArtInv, Shown, RegeneratedIsNew
<1> QED BY <1>1, ArtInvariant, PTL
=============================================================================
