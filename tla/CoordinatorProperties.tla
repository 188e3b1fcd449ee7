------------------------ MODULE CoordinatorProperties ------------------------
(***************************************************************************)
(* What the publication owner promises its receiver and its callers.       *)
(***************************************************************************)
EXTENDS Coordinator

\* A receiver that adopted every frame that reached it never has to refuse the
\* next one: each delta is planned from exactly what was sent, also after a
\* send failed half way, a queue overflowed or the sequence was reset
\* (coordinator.py _plan_delta, _invalidate_baseline, _install).
NoGap == ~held.gap

\* A delta may only be planned from values the receiver holds: a trusted
\* baseline equals the receiver's state in every panel and in its metadata.
Trusted == baseline.present /\ baseline.valid /\ ~repairRequired

BaselineIsHeld ==
    Trusted =>
        /\ held.epoch = epoch
        /\ held.revision = baseline.revision
        /\ held.panels = baseline.panels
        /\ held.mode = baseline.mode
        /\ held.time = baseline.time

\* An action result never names a revision its receiver cannot hold yet
\* (coordinator.py held_revision, _publish_now).
ResultNamesHeldRevision ==
    /\ held.resultEpoch = held.epoch => held.resultRevision <= held.revision
    /\ held.resultEpoch > held.epoch => held.resultRevision = 0

\* Every Deferred that was handed out and not answered waits in exactly one
\* place: one pending group, or the batch being sent.  So it is answered once.
WaitersPartitioned ==
    /\ waiting = PendingWaiters \union (IF batch = NoBatch THEN {} ELSE batch[1].entry.waiters)
    /\ \A j, k \in DOMAIN pending :
          j # k => pending[j].waiters \intersect pending[k].waiters = {}
    /\ batch # NoBatch => batch[1].entry.waiters \intersect PendingWaiters = {}

\* No queued entry is stranded: while the queue holds one, a drain runs or the
\* reactor still has a drain to run, also after a reset cleared the marker of a
\* call that is still outstanding (coordinator.py _schedule_deferred_drain,
\* _retire_pending, and "no waiter may hang because scheduling failed").
NoStrandedWaiter == pending # <<>> => draining = "all" \/ turns > 0

\* Whatever the receiver adopts carries a target that was never issued before
\* in its sequence, also after a target was consumed by a failed send
\* (coordinator.py _send_plans, _reserve).
TargetNeverReused ==
    [][held'.revision # held.revision \/ held'.epoch # held.epoch =>
          held'.revision = revision' /\ revision' = revision + 1]_vars

\* A publication of unknown scope leaves nothing behind: when its receipt is
\* given the receiver shows what the presenters render now, whatever earlier
\* deltas left out (coordinator.py _plan_delta, _plan_snapshot).
RefreshIsComplete ==
    [][LET e == batch[1].entry IN
       /\ batch # NoBatch /\ batch' = NoBatch /\ answer'.kind = "receipt"
       /\ e.unknownScope /\ e.candidates = NoPanels /\ e.removed = {}
       => /\ held.panels = world.panels
          /\ held.mode = world.mode
          /\ held.time = world.time]_vars

\* Whatever puts the receiver into dialogue mode, or keeps it there, brings the
\* dialogue of that very rendering, unless its publisher supplied or removed the
\* panel: a payload that was supplied too early is replaced by the next
\* publication that supplies none (coordinator.py _plan_delta, _install).
ModeBringsDialogue ==
    [][LET e == batch[1].entry IN
       /\ batch # NoBatch
       /\ held'.revision # held.revision \/ held'.epoch # held.epoch
       /\ held'.mode = DialogueMode
       /\ e.candidates[Dialogue] = Absent /\ Dialogue \notin e.removed
       => held'.panels[Dialogue] = world.panels[Dialogue]]_vars

\* After a failed send nothing but a complete snapshot moves the receiver.
RepairIsASnapshot ==
    [][~Trusted /\ held'.revision # held.revision /\ held'.epoch = held.epoch
          => batch # NoBatch /\ batch[1].plans[1].snapshot]_vars

\* Every Deferred is answered.  The reactor runs a due call on its next turn
\* however many synchronous flushes came before it, hence strong fairness of the
\* drain; a drain that started runs on, being one synchronous call.
Fairness == SF_vars(DeferredDrain) /\ WF_vars(Publishing)
LiveSpec == Spec /\ Fairness
EveryWaiterAnswered == \A w \in Waiter : w \in waiting ~> w \notin waiting
==============================================================================
