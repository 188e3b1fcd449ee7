----------------------------- MODULE Coordinator -----------------------------
(***************************************************************************)
(* The session-scoped publication owner of the web client protocol         *)
(* (web/webclient/presentation/coordinator.py, PresentationCoordinator).   *)
(*                                                                         *)
(* Every publisher hands the coordinator an intent.  Intents of one causal *)
(* group merge into one pending entry; the drain, which the reactor runs   *)
(* on its next turn, plans each entry against the last published baseline, *)
(* sends its frames, and answers every Deferred that waits for the entry.  *)
(*                                                                         *)
(* One step of this module is one synchronous piece of the code: an        *)
(* enqueue, the start of one entry, the send of one logical publication,   *)
(* the end of a batch.  The reactor is single-threaded, so while a batch   *)
(* is being sent no other step is enabled; between two entries of a drain  *)
(* the callbacks of the answered Deferreds may enqueue or reset.           *)
(*                                                                         *)
(* `held' is not a variable of the program: it is what a receiver holds    *)
(* that adopted every complete publication that reached it.                *)
(***************************************************************************)
EXTENDS Integers, Sequences, FiniteSets

CONSTANTS
    Panel,          \* the eager panels of the registry
    Dialogue,       \* DIALOGUE_PANEL, coupled to the dialogue mode
    MapPanel,       \* the on-demand panels, never part of a baseline
    Value,          \* the payloads an eager presenter renders
    OpenDialogue,   \* the payloads of a dialogue panel with a live session
    Absent,         \* no value: a panel the baseline lacks
    Mode,           \* the presentation modes
    DialogueMode,   \* the mode named "dialogue"
    Time,           \* serialized calendars (server_time)
    Waiter,         \* Deferreds returned by enqueue_publication
    Group,          \* causal publication group ids
    Request,        \* the declarations publishers make
    MaxPending,     \* MAX_PENDING_PUBLICATIONS
    MaxRevision,    \* MAX_SAFE_INTEGER
    MaxEpoch,       \* bound: sequences one behaviour goes through
    MaxTurns,       \* bound: drains outstanding on the reactor
    SchedulerFails  \* whether callLater may raise

\* What one caller declares to enqueue_publication.  `supplied' tells an absent
\* candidate_panels from an empty one: only an absent one widens the scope.
\* `guard' says which expected_epoch the caller captured, if any.
RequestShape ==
    [pushed: SUBSET Panel, supplied: BOOLEAN, declared: SUBSET (Panel \union MapPanel),
     removed: SUBSET Panel, force: BOOLEAN, resultOnly: BOOLEAN,
     completion: BOOLEAN, standalone: BOOLEAN, guard: {"none", "live", "stale"}]

ASSUME CoordinatorAssumption ==
    /\ Dialogue \in Panel
    /\ Panel \intersect MapPanel = {}
    /\ IsFiniteSet(MapPanel)
    /\ Absent \notin Value
    /\ OpenDialogue \subseteq Value
    /\ DialogueMode \in Mode
    /\ Request \subseteq RequestShape
    /\ MaxPending \in Nat \ {0}
    /\ MaxRevision \in Nat \ {0}
    /\ MaxEpoch \in Nat \ {0}
    /\ MaxTurns \in Nat \ {0}
    /\ SchedulerFails \in BOOLEAN

VARIABLES
    world,          \* the canonical state presenters render
    epoch,          \* _epoch: fresh at every reset
    revision,       \* _revision: the newest revision issued
    baseline,       \* _baseline
    repairRequired, \* _repair_required
    pending,        \* _pending and _pending_groups
    scheduled,      \* _drain_scheduled
    turns,          \* drains the reactor still has to run
    draining,       \* _draining: "no", "all" or "only" (the flush)
    batch,          \* the entry being published and its plans still to send
    waiting,        \* Deferreds not answered yet
    answer,         \* the latest answer a Deferred got
    held            \* the receiver

owner == <<epoch, revision, baseline, repairRequired>>
queue == <<pending, scheduled, turns, draining>>
vars  == <<world, owner, queue, batch, waiting, answer, held>>

\* The mode and the dialogue presenter read the same live dialogue session.
World ==
    {w \in [panels: [Panel -> Value], mode: Mode, time: Time] :
        w.mode = DialogueMode => w.panels[Dialogue] \in OpenDialogue}

Epoch    == 0..MaxEpoch
Revision == 0..MaxRevision
Content  == [Panel -> Value \union {Absent}]
NoPanels == [p \in Panel |-> Absent]

\* An intent, once _build_intent accepted it, and the pending group it starts.
Entry ==
    [group: Group, candidates: Content, declared: SUBSET (Panel \union MapPanel),
     unknownScope: BOOLEAN, removed: SUBSET Panel, force: BOOLEAN,
     resultOnly: BOOLEAN, epoch: Epoch, expected: Epoch, completion: BOOLEAN,
     waiters: SUBSET Waiter]

\* One logical publication: all its frames share one revision.
Plan ==
    [snapshot: BOOLEAN, revision: Revision, base: Revision, replaced: Content,
     removed: SUBSET Panel, mode: Mode, time: Time]

Baseline ==
    [present: BOOLEAN, revision: Revision, panels: Content, mode: Mode,
     time: Time, valid: BOOLEAN]

Held ==
    [epoch: Epoch, revision: Revision, panels: Content, mode: Mode, time: Time,
     gap: BOOLEAN, resultEpoch: Epoch, resultRevision: Revision]

Answer ==
    [kind: {"new", "receipt", "none", "failed", "full", "rejected"},
     revision: Revision]

NoBaseline(w) ==
    [present |-> FALSE, revision |-> 0, panels |-> NoPanels, mode |-> w.mode,
     time |-> w.time, valid |-> FALSE]

\* The batch variable is a sequence of at most one record.
NoBatch == <<>>

TypeOK ==
    /\ world \in World
    /\ epoch \in 1..MaxEpoch
    /\ revision \in Revision
    /\ baseline \in Baseline
    /\ repairRequired \in BOOLEAN
    /\ pending \in Seq(Entry)
    /\ scheduled \in BOOLEAN
    /\ turns \in 0..MaxTurns
    /\ draining \in {"no", "all", "only"}
    /\ batch \in Seq([entry: Entry, plans: Seq(Plan)])
    /\ waiting \subseteq Waiter
    /\ answer \in Answer
    /\ held \in Held
------------------------------------------------------------------------------
(* Building and merging intents. *)

\* _build_intent refuses a declaration before anything is queued.
ValidRequest(r) ==
    /\ ~(r.supplied /\ r.declared # {})
    /\ r.resultOnly => ~r.force /\ r.pushed = {} /\ r.declared = {} /\ r.removed = {}
    /\ r.removed \intersect (r.pushed \union r.declared) = {}

ExpectedEpoch(r) ==
    CASE r.guard = "none" -> 0 [] r.guard = "live" -> epoch [] r.guard = "stale" -> epoch - 1

\* A push carries the payloads rendered when it was made.
Intent(r, w, g) ==
    [group        |-> g,
     candidates   |-> [p \in Panel |-> IF p \in r.pushed THEN world.panels[p] ELSE Absent],
     declared     |-> r.declared,
     unknownScope |-> ~r.resultOnly /\ r.declared = {} /\ ~r.supplied,
     removed      |-> r.removed,
     force        |-> r.force,
     resultOnly   |-> r.resultOnly,
     epoch        |-> epoch,
     expected     |-> ExpectedEpoch(r),
     completion   |-> r.completion,
     waiters      |-> {w}]

\* _PendingGroup.merge: newest candidate wins, a removal wins over both.
MergeKeepsDeclared(e, i) ==
    [e EXCEPT
        !.declared     = e.declared \union i.declared,
        !.unknownScope = e.unknownScope \/ i.unknownScope,
        !.removed      = e.removed \union i.removed,
        !.force        = e.force \/ i.force,
        !.resultOnly   = e.resultOnly /\ i.resultOnly,
        !.completion   = e.completion \/ i.completion,
        !.waiters      = e.waiters \union i.waiters]
Merge(e, i) ==
    LET removed == e.removed \union i.removed IN
    [e EXCEPT
        !.candidates   = [p \in Panel |->
                             IF p \in removed THEN Absent
                             ELSE IF i.candidates[p] # Absent THEN i.candidates[p]
                             ELSE e.candidates[p]],
        !.declared     = (e.declared \union i.declared) \ removed,
        !.unknownScope = e.unknownScope \/ i.unknownScope,
        !.removed      = removed,
        !.force        = e.force \/ i.force,
        !.resultOnly   = e.resultOnly /\ i.resultOnly,
        !.expected     = IF e.expected = 0 THEN i.expected ELSE e.expected,
        !.completion   = e.completion \/ i.completion,
        !.waiters      = e.waiters \union i.waiters]

PendingGroups  == {pending[k].group : k \in DOMAIN pending}
PendingWaiters == UNION {pending[k].waiters : k \in DOMAIN pending}

\* The queue bound; a result-only answer is exempt.
QueueFull(i) ==
    /\ ~i.resultOnly
    /\ \/ Cardinality(PendingWaiters) >= MaxPending
       \/ i.group \notin PendingGroups /\ Len(pending) >= MaxPending

Queued(i) ==
    IF i.group \in PendingGroups
    THEN [k \in DOMAIN pending |->
             IF pending[k].group = i.group THEN Merge(pending[k], i) ELSE pending[k]]
    ELSE Append(pending, i)
------------------------------------------------------------------------------
(* Planning one entry against the baseline. *)

\* The declared panels, the supplied candidates, every eager panel when the
\* scope is unknown or the mode moved, and the dialogue panel in dialogue mode.
ScopeDeclaredOnly(e) ==
    (e.declared \intersect Panel)
      \union {p \in Panel : e.candidates[p] # Absent}
      \union (IF e.unknownScope THEN Panel \ e.removed ELSE {})
ScopeSameMode(e) ==
    (e.declared \intersect Panel)
      \union {p \in Panel : e.candidates[p] # Absent}
      \union (IF world.mode # baseline.mode THEN Panel \ e.removed ELSE {})
      \union (IF world.mode = DialogueMode THEN {Dialogue} \ e.removed ELSE {})
Scope(e) ==
    (e.declared \intersect Panel)
      \union {p \in Panel : e.candidates[p] # Absent}
      \union (IF e.unknownScope \/ world.mode # baseline.mode THEN Panel \ e.removed ELSE {})
      \union (IF world.mode = DialogueMode THEN {Dialogue} \ e.removed ELSE {})

Rendered(e, p) == IF e.candidates[p] # Absent THEN e.candidates[p] ELSE world.panels[p]

\* Only real differences travel.
Replaced(e) ==
    [p \in Panel |-> IF p \in Scope(e) /\ Rendered(e, p) # baseline.panels[p]
                     THEN Rendered(e, p) ELSE Absent]

Removed(e) == {p \in e.removed : baseline.panels[p] # Absent}

EagerChange(e) ==
    \/ Replaced(e) # NoPanels
    \/ Removed(e) # {}
    \/ world.mode # baseline.mode
    \/ world.time # baseline.time

NeedsSnapshot(e) ==
    \/ e.force
    \/ ~baseline.present \/ ~baseline.valid
    \/ repairRequired
    \/ revision = 0

SnapshotPlanReissued ==
    [snapshot |-> TRUE, revision |-> baseline.revision + 1, base |-> 0, replaced |-> world.panels,
     removed |-> {}, mode |-> world.mode, time |-> world.time]
SnapshotPlan ==
    [snapshot |-> TRUE, revision |-> revision + 1, base |-> 0, replaced |-> world.panels,
     removed |-> {}, mode |-> world.mode, time |-> world.time]

\* The k-th delta of a batch: consecutive revisions, each on its predecessor;
\* the eager changes travel first.
DeltaPlan(e, k) ==
    [snapshot |-> FALSE, revision |-> baseline.revision + k, base |-> baseline.revision + k - 1,
     replaced |-> IF k = 1 THEN Replaced(e) ELSE NoPanels,
     removed |-> IF k = 1 THEN Removed(e) ELSE {},
     mode |-> world.mode, time |-> world.time]

DeltaPlans(e, n) == [k \in 1..n |-> DeltaPlan(e, k)]

\* How many publications a delta takes: map bodies travel with the eager
\* changes when one frame holds them all, after them otherwise.
DeltaCounts(e) ==
    LET maps == Cardinality(e.declared \intersect MapPanel)
        eager == IF EagerChange(e) THEN 1 ELSE 0
    IN  IF maps = 0 THEN {eager} ELSE {1, eager + maps}

PlanChoices(e) ==
    IF NeedsSnapshot(e) THEN {<<SnapshotPlan>>}
    ELSE {DeltaPlans(e, n) : n \in DeltaCounts(e)}

\* _reserve refuses a revision beyond the safe-integer ceiling.
InRange(plans) == \A k \in DOMAIN plans : plans[k].revision <= MaxRevision

\* held_revision: what the client holds even when the baseline is invalid.
HeldRevisionIssued == revision
HeldRevision == IF baseline.present THEN baseline.revision ELSE 0
------------------------------------------------------------------------------
(* Answers and the receiver. *)

Answered(e, kind, r) ==
    /\ waiting' = waiting \ e.waiters
    /\ answer' = [kind |-> kind, revision |-> r]

\* The receiver adopts a snapshot, or a delta on exactly what it holds.
AdoptedPanels(h, plan) ==
    IF plan.snapshot THEN plan.replaced
    ELSE [p \in Panel |-> IF plan.replaced[p] # Absent THEN plan.replaced[p]
                          ELSE IF p \in plan.removed THEN Absent
                          ELSE h.panels[p]]

Adopt(h, plan) ==
    IF plan.snapshot \/ (h.epoch = epoch /\ h.revision = plan.base)
    THEN [h EXCEPT !.epoch = epoch, !.revision = plan.revision,
                   !.panels = AdoptedPanels(h, plan),
                   !.mode = plan.mode, !.time = plan.time, !.gap = FALSE]
    ELSE [h EXCEPT !.gap = TRUE]

SendResult(h, e, r) ==
    IF e.completion
    THEN [h EXCEPT !.resultEpoch = epoch, !.resultRevision = r]
    ELSE h

\* _install: the sent values become the baseline of the next delta.
InstalledPanels(plan) ==
    IF plan.snapshot THEN plan.replaced
    ELSE [p \in Panel |-> IF p \in plan.removed THEN Absent
                          ELSE IF plan.replaced[p] # Absent THEN plan.replaced[p]
                          ELSE baseline.panels[p]]

Install(plan) ==
    [present |-> TRUE, revision |-> plan.revision, panels |-> InstalledPanels(plan),
     mode |-> plan.mode, time |-> plan.time, valid |-> TRUE]

InvalidateBaselineForgotten == UNCHANGED <<repairRequired, baseline>>
InvalidateBaseline ==
    /\ repairRequired' = TRUE
    /\ baseline' = [baseline EXCEPT !.valid = FALSE]
------------------------------------------------------------------------------
Init ==
    /\ world \in World
    /\ epoch = 1
    /\ revision = 0
    /\ baseline = NoBaseline(world)
    /\ repairRequired = FALSE
    /\ pending = <<>>
    /\ scheduled = FALSE
    /\ turns = 0
    /\ draining = "no"
    /\ batch = NoBatch
    /\ waiting = {}
    /\ answer = [kind |-> "new", revision |-> 0]
    /\ held = [epoch |-> 0, revision |-> 0, panels |-> NoPanels, mode |-> world.mode,
               time |-> world.time, gap |-> FALSE, resultEpoch |-> 0, resultRevision |-> 0]

\* The game changes what the presenters would render.
WorldChanges ==
    /\ draining = "no"
    /\ world' \in World
    /\ UNCHANGED <<owner, queue, batch, waiting, answer, held>>

\* The declaration itself is wrong: the Deferred errbacks, nothing is queued.
EnqueueRejected(w, r) ==
    /\ batch = NoBatch /\ w \notin waiting
    /\ ~ValidRequest(r)
    /\ answer' = [kind |-> "rejected", revision |-> 0]
    /\ UNCHANGED <<world, owner, queue, batch, waiting, held>>

\* A full queue errbacks the caller and forbids the next delta.
EnqueueFull(w, r, g) ==
    /\ batch = NoBatch /\ w \notin waiting
    /\ ValidRequest(r)
    /\ QueueFull(Intent(r, w, g))
    /\ r.standalone => g \notin PendingGroups
    /\ InvalidateBaseline
    /\ answer' = [kind |-> "full", revision |-> 0]
    /\ UNCHANGED <<world, epoch, revision, queue, batch, waiting, held>>

\* _schedule_deferred_drain: one outstanding drain; when the scheduler raises,
\* the queue drains at once unless a drain already runs.
ScheduleDrain ==
    \/ /\ scheduled
       /\ UNCHANGED <<scheduled, turns, draining>>
    \/ /\ ~scheduled
       /\ turns < MaxTurns
       /\ scheduled' = TRUE
       /\ turns' = turns + 1
       /\ UNCHANGED draining
    \/ /\ ~scheduled
       /\ SchedulerFails
       /\ draining' = IF draining = "no" THEN "all" ELSE draining
       /\ UNCHANGED <<scheduled, turns>>

Enqueue(w, r, g) ==
    /\ batch = NoBatch /\ w \notin waiting
    /\ ValidRequest(r)
    /\ ~QueueFull(Intent(r, w, g))
    /\ r.standalone => g \notin PendingGroups
    /\ pending' = Queued(Intent(r, w, g))
    /\ waiting' = waiting \union {w}
    /\ ScheduleDrain
    /\ UNCHANGED <<world, owner, batch, answer, held>>

\* _deferred_drain: the reactor's turn has come.
DeferredDrainKeepsMarker ==
    /\ draining = "no"
    /\ turns > 0
    /\ turns' = turns - 1
    /\ draining' = "all"
    /\ UNCHANGED <<world, owner, pending, scheduled, batch, waiting, answer, held>>
DeferredDrain ==
    /\ draining = "no"
    /\ turns > 0
    /\ turns' = turns - 1
    /\ scheduled' = FALSE
    /\ draining' = "all"
    /\ UNCHANGED <<world, owner, pending, batch, waiting, answer, held>>

\* Take entry k out of the queue.  An entry of a retired sequence answers None.
Retired(e) == e.epoch # epoch \/ (e.expected # 0 /\ e.expected # epoch)

Without(s, k) == [j \in 1..(Len(s) - 1) |-> IF j < k THEN s[j] ELSE s[j + 1]]

ExecuteRetired(k) ==
    /\ Retired(pending[k])
    /\ Answered(pending[k], "none", 0)
    /\ UNCHANGED <<owner, batch, held>>

\* A result-only answer names what the client holds and publishes nothing.
ExecuteResultOnly(k) ==
    /\ ~Retired(pending[k])
    /\ pending[k].resultOnly
    /\ \/ /\ held' = SendResult(held, pending[k], HeldRevision)
          /\ Answered(pending[k], "receipt", HeldRevision)
       \/ /\ pending[k].completion
          /\ held' \in {held, SendResult(held, pending[k], HeldRevision)}
          /\ Answered(pending[k], "failed", 0)
    /\ UNCHANGED <<owner, batch>>

\* Planning renders and prevalidates everything before the first send.
ExecutePlan(k) ==
    /\ ~Retired(pending[k])
    /\ ~pending[k].resultOnly
    /\ \E plans \in PlanChoices(pending[k]) :
          /\ InRange(plans)
          /\ batch' = <<[entry |-> pending[k], plans |-> plans]>>
    /\ UNCHANGED <<owner, waiting, answer, held>>

\* The clock is absent, a payload fails its schema, or the revision ceiling is
\* reached: the entry fails and nothing of it was sent.
ExecutePlanFails(k) ==
    /\ ~Retired(pending[k])
    /\ ~pending[k].resultOnly
    /\ Answered(pending[k], "failed", 0)
    /\ UNCHANGED <<owner, batch, held>>

Execute(k) ==
    /\ pending' = Without(pending, k)
    /\ \/ ExecuteRetired(k)
       \/ ExecuteResultOnly(k)
       \/ ExecutePlan(k)
       \/ ExecutePlanFails(k)
    /\ UNCHANGED <<world, scheduled, turns>>

\* The drain loop takes the oldest entry.
DrainHead ==
    /\ draining = "all" /\ batch = NoBatch
    /\ pending # <<>>
    /\ Execute(1)
    /\ UNCHANGED draining

\* flush_publication_group: one identified entry, in place.
Flush(k) ==
    /\ draining = "no" /\ batch = NoBatch
    /\ k \in DOMAIN pending
    /\ Execute(k)
    /\ draining' = "only"

\* The loop ends: an exhausted queue, or the flushed entry is gone.
DrainEnds ==
    /\ batch = NoBatch
    /\ \/ draining = "all" /\ pending = <<>>
       \/ draining = "only"
    /\ draining' = "no"
    /\ UNCHANGED <<world, owner, pending, scheduled, turns, batch, waiting, answer, held>>

\* One logical publication: the target is consumed before the first frame, the
\* baseline is installed after the last one.
SendPlan ==
    /\ batch # NoBatch
    /\ batch[1].plans # <<>>
    /\ LET plan == Head(batch[1].plans) IN
       /\ revision' = plan.revision
       /\ baseline' = Install(plan)
       /\ repairRequired' = IF plan.snapshot THEN FALSE ELSE repairRequired
       /\ held' = Adopt(held, plan)
    /\ batch' = [batch EXCEPT ![1].plans = Tail(batch[1].plans)]
    /\ UNCHANGED <<world, epoch, queue, waiting, answer>>

\* A frame escaped or not before the transport raised; the target is consumed.
SendPlanFails ==
    /\ batch # NoBatch
    /\ batch[1].plans # <<>>
    /\ LET plan == Head(batch[1].plans) IN
       /\ revision' = plan.revision
       /\ held' \in {held, Adopt(held, plan)}
    /\ InvalidateBaseline
    /\ Answered(batch[1].entry, "failed", 0)
    /\ batch' = NoBatch
    /\ UNCHANGED <<world, epoch, queue>>

\* All plans are out: the result leaves in the same critical section, naming
\* the last plan, or what the client holds when nothing changed.
BatchDone ==
    /\ batch # NoBatch
    /\ batch[1].plans = <<>>
    /\ LET e == batch[1].entry IN
       \/ /\ held' = SendResult(held, e, baseline.revision)
          /\ Answered(e, "receipt", baseline.revision)
       \/ /\ e.completion
          /\ held' \in {held, SendResult(held, e, baseline.revision)}
          /\ Answered(e, "failed", 0)
    /\ batch' = NoBatch
    /\ UNCHANGED <<world, owner, queue>>

\* _retire_pending: queued work answers None, and the drain marker is cleared
\* although the reactor still holds the call.
RetirePendingSilently ==
    /\ pending' = <<>>
    /\ scheduled' = FALSE
    /\ UNCHANGED <<waiting, answer>>
RetirePending ==
    /\ pending' = <<>>
    /\ scheduled' = FALSE
    /\ waiting' = waiting \ PendingWaiters
    /\ answer' = [kind |-> "none", revision |-> 0]

\* reset: reconnect or puppet change starts a fresh sequence.
Reset ==
    /\ batch = NoBatch
    /\ epoch < MaxEpoch
    /\ epoch' = epoch + 1
    /\ revision' = 0
    /\ baseline' = NoBaseline(world)
    /\ repairRequired' = FALSE
    /\ RetirePending
    /\ UNCHANGED <<world, turns, draining, batch, held>>

Publishing == DrainHead \/ DrainEnds \/ SendPlan \/ SendPlanFails \/ BatchDone

Next ==
    \/ WorldChanges
    \/ \E w \in Waiter, r \in Request :
          \/ EnqueueRejected(w, r)
          \/ \E g \in Group : EnqueueFull(w, r, g) \/ Enqueue(w, r, g)
    \/ DeferredDrain
    \/ \E k \in 1..Len(pending) : Flush(k)
    \/ Publishing
    \/ Reset

Spec == Init /\ [][Next]_vars
==============================================================================
