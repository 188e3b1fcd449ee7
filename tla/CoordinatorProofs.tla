-------------------------- MODULE CoordinatorProofs --------------------------
(***************************************************************************)
(* Proofs about the publication owner, for every registry, payload, number *)
(* of waiters and bound: types first, then the chain from the baseline     *)
(* over the batch to the receiver, then the scheduling of drains, the      *)
(* waiters, the mode with its dialogue, and refreshes.                     *)
(***************************************************************************)
EXTENDS CoordinatorProperties, TLAPS, FiniteSetTheorems

LEMMA ExpectedEpochType ==
    ASSUME epoch \in 1..MaxEpoch, NEW r \in Request
    PROVE  ExpectedEpoch(r) \in Epoch
  BY CoordinatorAssumption, SMT DEF ExpectedEpoch, Epoch, RequestShape

\* An accepted declaration is a well-formed entry.
LEMMA IntentType ==
    ASSUME TypeOK, NEW w \in Waiter, NEW r \in Request, NEW g \in Group
    PROVE  Intent(r, w, g) \in Entry
  <1>1. ExpectedEpoch(r) \in Epoch
    BY ExpectedEpochType DEF TypeOK
  <1>2. r \in RequestShape
    BY CoordinatorAssumption
  <1>3. epoch \in Epoch /\ world.panels \in [Panel -> Value]
    BY CoordinatorAssumption DEF TypeOK, Epoch, World
  <1>4. [p \in Panel |-> IF p \in r.pushed THEN world.panels[p] ELSE Absent] \in Content
    BY <1>3 DEF Content
  <1> QED
    BY <1>1, <1>2, <1>3, <1>4 DEF Intent, Entry, RequestShape

\* Merging stays within the shape of an entry.
LEMMA MergeType ==
    ASSUME NEW e \in Entry, NEW i \in Entry
    PROVE  Merge(e, i) \in Entry
  <1> DEFINE removed == e.removed \union i.removed
             merged == [p \in Panel |->
                             IF p \in removed THEN Absent
                             ELSE IF i.candidates[p] # Absent THEN i.candidates[p]
                             ELSE e.candidates[p]]
  <1>1. merged \in Content /\ removed \in SUBSET Panel
    BY DEF Content, Entry
  <1>2. (e.declared \union i.declared) \ removed \in SUBSET (Panel \union MapPanel)
    BY DEF Entry
  <1>3. \A b, c \in BOOLEAN : (b \/ c) \in BOOLEAN /\ (b /\ c) \in BOOLEAN
    OBVIOUS
  <1>4. /\ (e.unknownScope \/ i.unknownScope) \in BOOLEAN
        /\ (e.force \/ i.force) \in BOOLEAN
        /\ (e.resultOnly /\ i.resultOnly) \in BOOLEAN
        /\ (e.completion \/ i.completion) \in BOOLEAN
    BY <1>3 DEF Entry
  <1>5. (IF e.expected = 0 THEN i.expected ELSE e.expected) \in Epoch
    BY DEF Entry
  <1>6. e.waiters \union i.waiters \in SUBSET Waiter
    BY DEF Entry
  <1> HIDE DEF removed, merged
  <1>7. Merge(e, i) =
          [e EXCEPT
             !.candidates   = merged,
             !.declared     = (e.declared \union i.declared) \ removed,
             !.unknownScope = e.unknownScope \/ i.unknownScope,
             !.removed      = removed,
             !.force        = e.force \/ i.force,
             !.resultOnly   = e.resultOnly /\ i.resultOnly,
             !.expected     = IF e.expected = 0 THEN i.expected ELSE e.expected,
             !.completion   = e.completion \/ i.completion,
             !.waiters      = e.waiters \union i.waiters]
    BY Zenon DEF Merge, removed, merged
  <1> QED
    BY <1>1, <1>2, <1>4, <1>5, <1>6, <1>7 DEF Entry

LEMMA QueuedType ==
    ASSUME pending \in Seq(Entry), NEW i \in Entry
    PROVE  Queued(i) \in Seq(Entry)
  <1>1. CASE i.group \in PendingGroups
    <2>1. \A k \in DOMAIN pending : Merge(pending[k], i) \in Entry
      BY MergeType
    <2> QED
      BY <1>1, <2>1 DEF Queued
  <1>2. CASE i.group \notin PendingGroups
    BY <1>2 DEF Queued
  <1> QED
    BY <1>1, <1>2

LEMMA WithoutType ==
    ASSUME NEW S, NEW s \in Seq(S), NEW k \in 1..Len(s)
    PROVE  Without(s, k) \in Seq(S)
  BY DEF Without

\* What a delta replaces is content.
LEMMA ReplacedType ==
    ASSUME TypeOK, NEW e \in Entry
    PROVE  Replaced(e) \in Content
  BY DEF TypeOK, Entry, Content, Replaced, Rendered, World

LEMMA DeltaCountsType ==
    ASSUME NEW e \in Entry
    PROVE  DeltaCounts(e) \subseteq Nat
  <1>1. IsFiniteSet(e.declared \intersect MapPanel)
    BY CoordinatorAssumption, FS_Intersection
  <1>2. Cardinality(e.declared \intersect MapPanel) \in Nat
    BY <1>1, FS_CardinalityType
  <1> QED
    BY <1>2 DEF DeltaCounts

\* Whatever planning offers within the revision ceiling is well formed.
LEMMA PlansType ==
    ASSUME TypeOK, NEW e \in Entry, NEW plans \in PlanChoices(e), InRange(plans)
    PROVE  plans \in Seq(Plan)
  <1>1. CASE NeedsSnapshot(e)
    <2>1. plans = <<SnapshotPlan>>
      BY <1>1 DEF PlanChoices
    <2>2. SnapshotPlan.revision <= MaxRevision
      BY <2>1 DEF InRange
    <2>3. SnapshotPlan \in Plan
      BY <2>2, CoordinatorAssumption DEF SnapshotPlan, Plan, TypeOK, World, Content, Revision
    <2> QED
      BY <2>1, <2>3
  <1>2. CASE ~NeedsSnapshot(e)
    <2>1. PICK n \in Nat : plans = DeltaPlans(e, n)
      BY <1>2, DeltaCountsType DEF PlanChoices
    <2>2. ASSUME NEW k \in 1..n PROVE DeltaPlan(e, k) \in Plan
      <3>1. plans[k] = DeltaPlan(e, k) /\ k \in DOMAIN plans
        BY <2>1 DEF DeltaPlans
      <3>2. DeltaPlan(e, k).revision <= MaxRevision
        BY <3>1 DEF InRange
      <3>3. Replaced(e) \in Content /\ NoPanels \in Content /\ Removed(e) \in SUBSET Panel
        BY ReplacedType DEF NoPanels, Content, Removed, Entry
      <3>4. world.mode \in Mode /\ world.time \in Time
        BY DEF TypeOK, World
      <3>5. baseline.revision + k \in Revision /\ baseline.revision + k - 1 \in Revision
        BY <3>2, CoordinatorAssumption DEF DeltaPlan, TypeOK, Baseline, Revision
      <3> QED
        BY <3>3, <3>4, <3>5 DEF DeltaPlan, Plan
    <2> QED
      BY <2>1, <2>2 DEF DeltaPlans
  <1> QED
    BY <1>1, <1>2

LEMMA InstallType ==
    ASSUME baseline \in Baseline, NEW plan \in Plan
    PROVE  Install(plan) \in Baseline
  BY DEF Install, InstalledPanels, Baseline, Plan, Content

LEMMA AdoptType ==
    ASSUME TypeOK, NEW h \in Held, NEW plan \in Plan
    PROVE  Adopt(h, plan) \in Held
  <1>1. AdoptedPanels(h, plan) \in Content
    BY DEF AdoptedPanels, Held, Plan, Content
  <1>2. epoch \in Epoch
    BY CoordinatorAssumption DEF TypeOK, Epoch
  <1> QED
    BY <1>1, <1>2 DEF Adopt, Held, Plan

LEMMA SendResultType ==
    ASSUME TypeOK, NEW h \in Held, NEW e \in Entry, NEW r \in Revision
    PROVE  SendResult(h, e, r) \in Held
  <1>1. epoch \in Epoch
    BY CoordinatorAssumption DEF TypeOK, Epoch
  <1> QED
    BY <1>1 DEF SendResult, Held

LEMMA HeldRevisionType ==
    ASSUME TypeOK
    PROVE  HeldRevision \in Revision
  BY CoordinatorAssumption DEF HeldRevision, TypeOK, Baseline, Revision

\* Running one entry keeps every variable it changes in its type.
LEMMA ExecuteType ==
    ASSUME TypeOK, NEW k \in 1..Len(pending), Execute(k)
    PROVE  /\ pending' \in Seq(Entry)
           /\ batch' \in Seq([entry: Entry, plans: Seq(Plan)])
           /\ waiting' \subseteq Waiter
           /\ answer' \in Answer
           /\ held' \in Held
           /\ UNCHANGED <<world, owner, scheduled, turns>>
  <1>1. pending \in Seq(Entry) /\ pending[k] \in Entry
    BY DEF TypeOK
  <1>2. pending' \in Seq(Entry)
    BY <1>1, WithoutType DEF Execute
  <1>3. \A r \in Revision, kd \in {"receipt", "none", "failed"} :
            Answered(pending[k], kd, r) => waiting' \subseteq Waiter /\ answer' \in Answer
    BY DEF Answered, TypeOK, Answer
  <1>4. 0 \in Revision
    BY CoordinatorAssumption DEF Revision
  <1>5. CASE ExecuteRetired(k)
    BY <1>2, <1>3, <1>4, <1>5 DEF ExecuteRetired, Execute, TypeOK
  <1>6. CASE ExecuteResultOnly(k)
    <2>1. HeldRevision \in Revision
      BY HeldRevisionType
    <2>2. SendResult(held, pending[k], HeldRevision) \in Held
      BY <1>1, <2>1, SendResultType DEF TypeOK
    <2> QED
      BY <1>2, <1>3, <1>4, <1>6, <2>1, <2>2 DEF ExecuteResultOnly, Execute, TypeOK
  <1>7. CASE ExecutePlan(k)
    <2>1. PICK plans \in PlanChoices(pending[k]) :
              InRange(plans) /\ batch' = <<[entry |-> pending[k], plans |-> plans]>>
      BY <1>7 DEF ExecutePlan
    <2>2. plans \in Seq(Plan)
      BY <1>1, <2>1, PlansType
    <2>3. batch' \in Seq([entry: Entry, plans: Seq(Plan)])
      BY <1>1, <2>1, <2>2
    <2> QED
      BY <1>2, <1>7, <2>3 DEF ExecutePlan, Execute, TypeOK
  <1>8. CASE ExecutePlanFails(k)
    BY <1>2, <1>3, <1>4, <1>8 DEF ExecutePlanFails, Execute, TypeOK
  <1> QED
    BY <1>5, <1>6, <1>7, <1>8 DEF Execute

LEMMA ElementType ==
    ASSUME NEW S, NEW s \in Seq(S), s # <<>>
    PROVE  1 \in DOMAIN s /\ s[1] \in S
  OBVIOUS

\* What holds of the batch being sent.
LEMMA BatchType ==
    ASSUME TypeOK, batch # NoBatch
    PROVE  /\ batch[1].entry \in Entry
           /\ batch[1].plans \in Seq(Plan)
           /\ [batch EXCEPT ![1].plans = Tail(batch[1].plans)]
                 \in Seq([entry: Entry, plans: Seq(Plan)]) \/ batch[1].plans = <<>>
  <1>1. batch \in Seq([entry: Entry, plans: Seq(Plan)]) /\ 1 \in DOMAIN batch
    BY DEF TypeOK, NoBatch
  <1>2. batch[1] \in [entry: Entry, plans: Seq(Plan)]
    BY <1>1, ElementType DEF NoBatch
  <1>3. CASE batch[1].plans # <<>>
    <2>1. Tail(batch[1].plans) \in Seq(Plan)
      BY <1>2, <1>3
    <2> DEFINE rest == [batch[1] EXCEPT !.plans = Tail(batch[1].plans)]
    <2>2. rest \in [entry: Entry, plans: Seq(Plan)]
      BY <1>2, <2>1
    <2>3. [batch EXCEPT ![1].plans = Tail(batch[1].plans)] = [batch EXCEPT ![1] = rest]
      OBVIOUS
    <2> HIDE DEF rest
    <2>4. [batch EXCEPT ![1] = rest] \in Seq([entry: Entry, plans: Seq(Plan)])
      BY <1>1, <2>2
    <2> QED
      BY <1>2, <2>3, <2>4
  <1> QED
    BY <1>2, <1>3

LEMMA InitType == Init => TypeOK
  <1> SUFFICES ASSUME Init PROVE TypeOK
    OBVIOUS
  <1>1. world.mode \in Mode /\ world.time \in Time /\ world \in World
    BY DEF Init, World
  <1>2. NoPanels \in Content /\ 0 \in Revision /\ 0 \in Epoch /\ 1 \in 1..MaxEpoch
    BY CoordinatorAssumption DEF NoPanels, Content, Revision, Epoch
  <1>3. baseline \in Baseline /\ held \in Held
    BY <1>1, <1>2 DEF Init, NoBaseline, Baseline, Held
  <1>4. pending \in Seq(Entry) /\ batch \in Seq([entry: Entry, plans: Seq(Plan)])
    BY DEF Init, NoBatch
  <1>5. answer \in Answer
    BY <1>2 DEF Init, Answer
  <1>6. turns \in 0..MaxTurns
    BY CoordinatorAssumption DEF Init
  <1> QED
    BY <1>1, <1>2, <1>3, <1>4, <1>5, <1>6 DEF Init, TypeOK

\* One proof step per action of the owner, the queue and the receiver.
LEMMA TypeStep == TypeOK /\ [Next]_vars => TypeOK'
  <1> SUFFICES ASSUME TypeOK, [Next]_vars PROVE TypeOK'
    OBVIOUS
  <1> USE DEF owner, queue
  <1>0. 0 \in Revision /\ epoch \in Epoch
    BY CoordinatorAssumption DEF TypeOK, Epoch, Revision
  <1>a. MaxTurns \in Nat
    BY CoordinatorAssumption
  <1>1. CASE WorldChanges
    BY <1>1 DEF WorldChanges, TypeOK
  <1>2. ASSUME NEW w \in Waiter, NEW r \in Request, EnqueueRejected(w, r) PROVE TypeOK'
    BY <1>0, <1>2 DEF EnqueueRejected, TypeOK, Answer
  <1>3. ASSUME NEW w \in Waiter, NEW r \in Request, NEW g \in Group, EnqueueFull(w, r, g)
        PROVE  TypeOK'
    <2>1. baseline' \in Baseline
      BY <1>3 DEF EnqueueFull, InvalidateBaseline, TypeOK, Baseline
    <2> QED
      BY <1>0, <1>3, <2>1 DEF EnqueueFull, InvalidateBaseline, TypeOK, Answer
  <1>4. ASSUME NEW w \in Waiter, NEW r \in Request, NEW g \in Group, Enqueue(w, r, g)
        PROVE  TypeOK'
    <2>1. pending' \in Seq(Entry)
      BY <1>4, IntentType, QueuedType DEF Enqueue, TypeOK
    <2>2. turns' \in 0..MaxTurns
      BY <1>4, <1>a DEF Enqueue, ScheduleDrain, TypeOK
    <2>3. scheduled' \in BOOLEAN /\ draining' \in {"no", "all", "only"}
      BY <1>4 DEF Enqueue, ScheduleDrain, TypeOK
    <2> QED
      BY <1>4, <2>1, <2>2, <2>3 DEF Enqueue, TypeOK
  <1>5. CASE DeferredDrain
    <2>1. turns' \in 0..MaxTurns
      BY <1>5, <1>a, SMT DEF DeferredDrain, TypeOK
    <2> QED
      BY <1>5, <2>1 DEF DeferredDrain, TypeOK
  <1>6. ASSUME NEW k \in 1..Len(pending), Flush(k) PROVE TypeOK'
    BY <1>6, ExecuteType DEF Flush, TypeOK
  <1>7. CASE DrainHead
    <2>1. 1 \in 1..Len(pending)
      BY <1>7 DEF DrainHead, TypeOK
    <2> QED
      BY <1>7, <2>1, ExecuteType DEF DrainHead, TypeOK
  <1>8. CASE DrainEnds
    BY <1>8 DEF DrainEnds, TypeOK
  <1>9. CASE SendPlan
    <2>1. batch[1].plans \in Seq(Plan) /\ batch[1].plans # <<>> /\ Head(batch[1].plans) \in Plan
      BY <1>9, BatchType DEF SendPlan
    <2>2. batch' \in Seq([entry: Entry, plans: Seq(Plan)])
      BY <1>9, BatchType DEF SendPlan
    <2>3. baseline' \in Baseline /\ held' \in Held
      BY <1>9, <2>1, InstallType, AdoptType DEF SendPlan, TypeOK
    <2>4. revision' \in Revision /\ repairRequired' \in BOOLEAN
      BY <1>9, <2>1 DEF SendPlan, TypeOK, Plan
    <2> QED
      BY <1>9, <2>2, <2>3, <2>4 DEF SendPlan, TypeOK
  <1>10. CASE SendPlanFails
    <2>1. Head(batch[1].plans) \in Plan
      BY <1>10, BatchType DEF SendPlanFails
    <2>2. held' \in Held /\ revision' \in Revision
      BY <1>10, <2>1, AdoptType DEF SendPlanFails, TypeOK, Plan
    <2>3. baseline' \in Baseline
      BY <1>10 DEF SendPlanFails, InvalidateBaseline, TypeOK, Baseline
    <2> QED
      BY <1>0, <1>10, <2>2, <2>3
      DEF SendPlanFails, InvalidateBaseline, Answered, TypeOK, Answer, NoBatch
  <1>11. CASE BatchDone
    <2>1. batch[1].entry \in Entry /\ baseline.revision \in Revision
      BY <1>11, BatchType DEF BatchDone, TypeOK, Baseline
    <2>2. held' \in Held
      BY <1>11, <2>1, SendResultType DEF BatchDone, TypeOK
    <2> QED
      BY <1>0, <1>11, <2>1, <2>2 DEF BatchDone, Answered, TypeOK, Answer, NoBatch
  <1>12. CASE Reset
    <2>1. baseline' \in Baseline
      BY <1>0, <1>12 DEF Reset, NoBaseline, NoPanels, TypeOK, Baseline, World, Content
    <2>2. epoch' \in 1..MaxEpoch
      BY <1>12, CoordinatorAssumption DEF Reset, TypeOK
    <2>3. pending' \in Seq(Entry) /\ waiting' \subseteq Waiter /\ answer' \in Answer
      BY <1>0, <1>12 DEF Reset, RetirePending, TypeOK, Answer
    <2> QED
      BY <1>0, <1>12, <2>1, <2>2, <2>3 DEF Reset, RetirePending, TypeOK
  <1>13. CASE UNCHANGED vars
    BY <1>13 DEF vars, TypeOK
  <1> QED
    BY <1>1, <1>2, <1>3, <1>4, <1>5, <1>6, <1>7, <1>8, <1>9, <1>10, <1>11, <1>12, <1>13
    DEF Next, Publishing

\* Every behaviour of the owner stays within the declared types: in particular
\* no revision beyond the safe-integer ceiling is ever issued (_reserve).
THEOREM TypeCorrect == Spec => []TypeOK
  BY InitType, TypeStep, PTL DEF Spec
------------------------------------------------------------------------------
(***************************************************************************)
(* The chain of publications.  NoGap and BaselineIsHeld are not inductive: *)
(* they rest on what may be queued, on what a batch still has to send, and *)
(* on how the issued, the installed and the held revision are ordered.     *)
(***************************************************************************)

\* A removal and a new value of one panel never share an entry.
Disjoint(e) ==
    /\ e.removed \intersect e.declared = {}
    /\ \A p \in e.removed : e.candidates[p] = Absent

EntriesDisjoint == \A k \in DOMAIN pending : Disjoint(pending[k])

\* The plans of a batch continue the sequence: one snapshot at the next
\* target, or deltas that start at a trusted baseline.
SnapshotBatch(plans) ==
    Len(plans) = 1 /\ plans[1].snapshot /\ plans[1].revision = revision + 1

DeltaBatch(plans) ==
    /\ Trusted
    /\ \A k \in DOMAIN plans :
          /\ ~plans[k].snapshot
          /\ plans[k].revision = revision + k
          /\ plans[k].base = revision + k - 1
          /\ \A p \in plans[k].removed : plans[k].replaced[p] = Absent

BatchContinues ==
    batch # NoBatch =>
        /\ Len(batch) = 1
        /\ SnapshotBatch(batch[1].plans) \/ DeltaBatch(batch[1].plans)

\* Installed, held and issued revisions, and the epochs they belong to.
RevisionsOrdered ==
    /\ held.epoch <= epoch
    /\ held.epoch = epoch => held.revision <= revision
    /\ held.resultEpoch <= epoch
    /\ baseline.present => held.epoch = epoch /\ baseline.revision <= held.revision
    /\ Trusted => baseline.revision = revision

PublicationInv ==
    /\ BatchContinues
    /\ RevisionsOrdered
    /\ NoGap
    /\ BaselineIsHeld
    /\ ResultNamesHeldRevision

ChainInv == TypeOK /\ EntriesDisjoint /\ PublicationInv

LEMMA IntentDisjoint ==
    ASSUME TypeOK, NEW w \in Waiter, NEW r \in Request, NEW g \in Group, ValidRequest(r)
    PROVE  Disjoint(Intent(r, w, g))
  <1>1. r \in RequestShape
    BY CoordinatorAssumption
  <1> QED
    BY <1>1 DEF Disjoint, Intent, ValidRequest, RequestShape

LEMMA MergeDisjoint ==
    ASSUME NEW e \in Entry, NEW i \in Entry
    PROVE  Disjoint(Merge(e, i))
  <1> DEFINE m == Merge(e, i)
             gone == e.removed \union i.removed
  <1>1. m.removed = gone /\ m.declared = (e.declared \union i.declared) \ gone
    BY DEF Merge, Entry
  <1>2. \A p \in Panel : p \in gone => m.candidates[p] = Absent
    BY DEF Merge, Entry
  <1>3. gone \subseteq Panel
    BY DEF Entry
  <1> QED
    BY <1>1, <1>2, <1>3 DEF Disjoint

\* Enqueueing, merging, draining and retiring keep the queue free of overlaps.
LEMMA EntriesStep ==
    ASSUME TypeOK, EntriesDisjoint, [Next]_vars
    PROVE  EntriesDisjoint'
  <1> USE DEF owner, queue
  <1>a. pending \in Seq(Entry)
    BY DEF TypeOK
  <1>1. CASE UNCHANGED pending
    BY <1>1 DEF EntriesDisjoint
  <1>2. ASSUME NEW w \in Waiter, NEW r \in Request, NEW g \in Group, Enqueue(w, r, g)
        PROVE  EntriesDisjoint'
    <2> DEFINE i == Intent(r, w, g)
    <2>1. i \in Entry /\ Disjoint(i)
      BY <1>2, IntentType, IntentDisjoint DEF Enqueue
    <2>2. pending' = Queued(i)
      BY <1>2 DEF Enqueue
    <2> HIDE DEF i
    <2>3. CASE i.group \in PendingGroups
      <3>1. \A k \in DOMAIN pending : Disjoint(Merge(pending[k], i))
        BY <1>a, <2>1, MergeDisjoint
      <3> QED
        BY <2>2, <2>3, <3>1 DEF Queued, EntriesDisjoint
    <2>4. CASE i.group \notin PendingGroups
      <3>1. pending' = Append(pending, i)
        BY <2>2, <2>4 DEF Queued
      <3>2. \A k \in DOMAIN pending' : pending'[k] = i \/ (k \in DOMAIN pending /\ pending'[k] = pending[k])
        BY <1>a, <2>1, <3>1
      <3> QED
        BY <2>1, <3>2 DEF EntriesDisjoint
    <2> QED
      BY <2>3, <2>4
  <1>3. ASSUME NEW k \in 1..Len(pending), Execute(k) PROVE EntriesDisjoint'
    <2>1. \A j \in DOMAIN pending' : \E l \in DOMAIN pending : pending'[j] = pending[l]
      BY <1>a, <1>3 DEF Execute, Without
    <2> QED
      BY <2>1 DEF EntriesDisjoint
  <1>4. CASE Reset
    BY <1>4 DEF Reset, RetirePending, EntriesDisjoint
  <1>5. CASE DrainHead
    <2>1. 1 \in 1..Len(pending)
      BY <1>5, <1>a DEF DrainHead
    <2> QED
      BY <1>3, <1>5, <2>1 DEF DrainHead
  <1>6. ASSUME NEW k \in 1..Len(pending), Flush(k) PROVE EntriesDisjoint'
    BY <1>3, <1>6 DEF Flush
  <1>7. CASE WorldChanges \/ DeferredDrain \/ DrainEnds \/ SendPlan \/ SendPlanFails \/ BatchDone
    BY <1>1, <1>7 DEF WorldChanges, DeferredDrain, DrainEnds, SendPlan, SendPlanFails, BatchDone
  <1>8. ASSUME NEW w \in Waiter, NEW r \in Request, EnqueueRejected(w, r) PROVE EntriesDisjoint'
    BY <1>1, <1>8 DEF EnqueueRejected
  <1>9. ASSUME NEW w \in Waiter, NEW r \in Request, NEW g \in Group, EnqueueFull(w, r, g)
        PROVE EntriesDisjoint'
    BY <1>1, <1>9 DEF EnqueueFull
  <1>10. CASE UNCHANGED vars
    BY <1>1, <1>10 DEF vars
  <1> QED
    BY <1>2, <1>4, <1>5, <1>6, <1>7, <1>8, <1>9, <1>10 DEF Next, Publishing

\* What planning offers continues the sequence.
LEMMA PlansContinue ==
    ASSUME TypeOK, PublicationInv, NEW e \in Entry, Disjoint(e),
           NEW plans \in PlanChoices(e)
    PROVE  SnapshotBatch(plans) \/ DeltaBatch(plans)
  <1>1. CASE NeedsSnapshot(e)
    BY <1>1 DEF PlanChoices, SnapshotPlan, SnapshotBatch
  <1>2. CASE ~NeedsSnapshot(e)
    <2>1. PICK n \in Nat : plans = DeltaPlans(e, n)
      BY <1>2, DeltaCountsType DEF PlanChoices
    <2>2. Trusted /\ baseline.revision = revision
      BY <1>2 DEF NeedsSnapshot, Trusted, TypeOK, Baseline, PublicationInv, RevisionsOrdered
    <2>3. \A p \in Removed(e) : Replaced(e)[p] = Absent
      <3>1. ASSUME NEW p \in Removed(e) PROVE Replaced(e)[p] = Absent
        <4>1. p \in e.removed /\ p \in Panel
          BY DEF Removed, Entry
        <4>2. p \notin Scope(e)
          BY <4>1 DEF Scope, Disjoint
        <4> QED
          BY <4>1, <4>2 DEF Replaced
      <3> QED
        BY <3>1
    <2>4. ASSUME NEW k \in DOMAIN plans
          PROVE  /\ ~plans[k].snapshot
                 /\ plans[k].revision = revision + k
                 /\ plans[k].base = revision + k - 1
                 /\ \A p \in plans[k].removed : plans[k].replaced[p] = Absent
      <3>1. k \in 1..n /\ plans[k] = DeltaPlan(e, k)
        BY <2>1 DEF DeltaPlans
      <3> QED
        BY <2>2, <2>3, <3>1 DEF DeltaPlan
    <2> QED
      BY <2>2, <2>4 DEF DeltaBatch
  <1> QED
    BY <1>1, <1>2

\* Steps that touch neither the sequence nor the receiver.
LEMMA FrameStep ==
    ASSUME PublicationInv, UNCHANGED <<owner, held>>, batch' = batch \/ batch' = NoBatch
    PROVE  PublicationInv'
  BY DEF PublicationInv, BatchContinues, SnapshotBatch, DeltaBatch, Trusted, RevisionsOrdered,
         NoGap, BaselineIsHeld, ResultNamesHeldRevision, owner, NoBatch

\* A result that names what the receiver holds leaves the chain alone.
LEMMA ResultStep ==
    ASSUME TypeOK, PublicationInv, UNCHANGED owner, batch' = batch \/ batch' = NoBatch,
           NEW e \in Entry, NEW r \in Revision,
           held.epoch = epoch => r <= held.revision,
           held.epoch # epoch => r = 0,
           held' = SendResult(held, e, r)
    PROVE  PublicationInv'
  <1>1. held \in Held /\ epoch \in Nat
    BY DEF TypeOK
  <1>2. /\ held'.epoch = held.epoch /\ held'.revision = held.revision /\ held'.panels = held.panels
        /\ held'.mode = held.mode /\ held'.time = held.time /\ held'.gap = held.gap
        /\ \/ held'.resultEpoch = held.resultEpoch /\ held'.resultRevision = held.resultRevision
           \/ held'.resultEpoch = epoch /\ held'.resultRevision = r
    BY <1>1 DEF SendResult, Held
  <1>3. BatchContinues'
    BY DEF PublicationInv, BatchContinues, SnapshotBatch, DeltaBatch, Trusted, owner, NoBatch
  <1>4. RevisionsOrdered' /\ NoGap' /\ BaselineIsHeld'
    BY <1>1, <1>2 DEF PublicationInv, RevisionsOrdered, NoGap, BaselineIsHeld, Trusted, owner, Held, Epoch
  <1>5. ResultNamesHeldRevision'
    BY <1>1, <1>2 DEF PublicationInv, RevisionsOrdered, ResultNamesHeldRevision, Held, Epoch, Revision
  <1> QED
    BY <1>3, <1>4, <1>5 DEF PublicationInv

\* The revision held by a receiver is at least what an invalid baseline says.
LEMMA HeldRevisionHeld ==
    ASSUME TypeOK, PublicationInv
    PROVE  /\ held.epoch = epoch => HeldRevision <= held.revision
           /\ held.epoch # epoch => HeldRevision = 0
  BY DEF TypeOK, PublicationInv, RevisionsOrdered, HeldRevision, Held, Revision, Baseline

LEMMA ExecuteStep ==
    ASSUME ChainInv, batch = NoBatch, NEW k \in 1..Len(pending), Execute(k)
    PROVE  PublicationInv'
  <1>1. TypeOK /\ PublicationInv /\ pending[k] \in Entry /\ Disjoint(pending[k])
    BY DEF ChainInv, TypeOK, EntriesDisjoint
  <1>2. CASE ExecuteRetired(k) \/ ExecutePlanFails(k)
    BY <1>1, <1>2, FrameStep DEF ExecuteRetired, ExecutePlanFails
  <1>3. CASE ExecuteResultOnly(k)
    <2>1. HeldRevision \in Revision
      BY <1>1, HeldRevisionType
    <2>2. UNCHANGED owner /\ batch' = batch
      BY <1>3 DEF ExecuteResultOnly
    <2>3. CASE held' = held
      BY <1>1, <2>2, <2>3, FrameStep
    <2>4. CASE held' = SendResult(held, pending[k], HeldRevision)
      BY <1>1, <2>1, <2>2, <2>4, HeldRevisionHeld, ResultStep
    <2> QED
      BY <1>3, <2>3, <2>4 DEF ExecuteResultOnly
  <1>4. CASE ExecutePlan(k)
    <2>1. PICK plans \in PlanChoices(pending[k]) : batch' = <<[entry |-> pending[k], plans |-> plans]>>
      BY <1>4 DEF ExecutePlan
    <2>2. SnapshotBatch(plans) \/ DeltaBatch(plans)
      BY <1>1, PlansContinue
    <2>3. UNCHANGED <<owner, held>>
      BY <1>4 DEF ExecutePlan
    <2>4. BatchContinues'
      BY <2>1, <2>2, <2>3 DEF BatchContinues, SnapshotBatch, DeltaBatch, Trusted, owner
    <2>5. (RevisionsOrdered /\ NoGap /\ BaselineIsHeld /\ ResultNamesHeldRevision)'
      BY <1>1, <2>3 DEF PublicationInv, RevisionsOrdered, NoGap, BaselineIsHeld, Trusted,
                        ResultNamesHeldRevision, owner
    <2> QED
      BY <2>4, <2>5 DEF PublicationInv
  <1> QED
    BY <1>2, <1>3, <1>4 DEF Execute

\* The numbers of a plan stay within the ceiling.
LEMMA PlanNumbers ==
    ASSUME NEW p \in Plan
    PROVE  p.revision \in Nat /\ p.base \in Nat /\ p.revision <= MaxRevision
  <1>1. p.revision \in 0..MaxRevision /\ p.base \in 0..MaxRevision
    BY DEF Plan, Revision
  <1> QED
    BY <1>1, CoordinatorAssumption

\* The next plan of a batch is adopted: it is a snapshot, or its base is held.
LEMMA NextPlanAdopted ==
    ASSUME ChainInv, batch # NoBatch, batch[1].plans # <<>>
    PROVE  LET plan == Head(batch[1].plans) IN
           /\ plan \in Plan
           /\ plan.revision = revision + 1
           /\ plan.snapshot \/ (Trusted /\ held.epoch = epoch /\ held.revision = plan.base)
           /\ ~plan.snapshot => \A p \in plan.removed : plan.replaced[p] = Absent
           /\ Adopt(held, plan) =
                [held EXCEPT !.epoch = epoch, !.revision = plan.revision,
                             !.panels = AdoptedPanels(held, plan),
                             !.mode = plan.mode, !.time = plan.time, !.gap = FALSE]
  <1> DEFINE plans == batch[1].plans
             plan == Head(plans)
  <1>1. plans \in Seq(Plan) /\ plans # <<>>
    BY BatchType DEF ChainInv
  <1>2. plan = plans[1] /\ 1 \in DOMAIN plans /\ plan \in Plan
    BY <1>1
  <1>3. SnapshotBatch(plans) \/ DeltaBatch(plans)
    BY DEF ChainInv, PublicationInv, BatchContinues
  <1>4. revision \in Nat /\ plan.revision \in Nat /\ plan.base \in Nat
    <2>1. revision \in Revision
      BY DEF ChainInv, TypeOK
    <2>2. revision \in Nat
      BY <2>1 DEF Revision
    <2> QED
      BY <1>2, <2>2, PlanNumbers
  <1> HIDE DEF plans
  <1>5. plan.revision = revision + 1
    BY <1>2, <1>3 DEF SnapshotBatch, DeltaBatch
  <1>6. CASE SnapshotBatch(plans)
    BY <1>2, <1>5, <1>6 DEF SnapshotBatch, Adopt, plans
  <1>7. CASE DeltaBatch(plans)
    <2>1. plan.base = revision /\ Trusted /\ ~plan.snapshot
      BY <1>2, <1>4, <1>7 DEF DeltaBatch
    <2>2. held.epoch = epoch /\ held.revision = revision
      BY <2>1 DEF ChainInv, PublicationInv, BaselineIsHeld, RevisionsOrdered
    <2> QED
      BY <1>2, <1>5, <1>7, <2>1, <2>2 DEF DeltaBatch, Adopt, plans
  <1> QED
    BY <1>3, <1>6, <1>7

LEMMA TailFacts ==
    ASSUME NEW S, NEW s \in Seq(S), s # <<>>
    PROVE  /\ DOMAIN Tail(s) = 1..(Len(s) - 1) /\ Len(s) \in Nat
           /\ \A k \in DOMAIN Tail(s) : k \in Nat /\ k + 1 \in DOMAIN s /\ Tail(s)[k] = s[k + 1]
  OBVIOUS

LEMMA SendPlanStep ==
    ASSUME ChainInv, SendPlan
    PROVE  PublicationInv'
  <1> DEFINE plans == batch[1].plans
             plan  == Head(plans)
  <1>1. batch # NoBatch /\ plans # <<>> /\ plans \in Seq(Plan) /\ batch \in Seq([entry: Entry, plans: Seq(Plan)])
    BY BatchType DEF SendPlan, ChainInv, TypeOK
  <1>2. /\ plan \in Plan /\ plan.revision = revision + 1
        /\ plan.snapshot \/ (Trusted /\ held.epoch = epoch /\ held.revision = plan.base)
        /\ ~plan.snapshot => \A p \in plan.removed : plan.replaced[p] = Absent
        /\ held' = [held EXCEPT !.epoch = epoch, !.revision = plan.revision,
                             !.panels = AdoptedPanels(held, plan),
                             !.mode = plan.mode, !.time = plan.time, !.gap = FALSE]
    BY <1>1, NextPlanAdopted DEF SendPlan
  <1>3. revision' = plan.revision /\ baseline' = Install(plan) /\ epoch' = epoch
    BY DEF SendPlan
  <1>4. repairRequired' = FALSE
    BY <1>2 DEF SendPlan, Trusted
  <1>5. batch' # NoBatch /\ Len(batch') = 1 /\ batch'[1].plans = Tail(plans)
    <2>1. batch' = [batch EXCEPT ![1].plans = Tail(plans)]
      BY DEF SendPlan
    <2>2. Len(batch) = 1
      BY <1>1 DEF ChainInv, PublicationInv, BatchContinues
    <2>3. 1 \in DOMAIN batch /\ batch[1] \in [entry: Entry, plans: Seq(Plan)]
      BY <1>1, ElementType DEF NoBatch
    <2> DEFINE rest == [batch[1] EXCEPT !.plans = Tail(plans)]
    <2>a. [batch EXCEPT ![1].plans = Tail(plans)] = [batch EXCEPT ![1] = rest]
      OBVIOUS
    <2> HIDE DEF rest
    <2>b. Len([batch EXCEPT ![1] = rest]) = 1 /\ [batch EXCEPT ![1] = rest][1] = rest
      BY <1>1, <2>2, <2>3
    <2>4. Len(batch') = 1 /\ batch'[1] = [batch[1] EXCEPT !.plans = Tail(plans)]
      BY <2>1, <2>a, <2>b DEF rest
    <2>5. batch'[1].plans = Tail(plans)
      BY <2>3, <2>4
    <2> QED
      BY <2>4, <2>5 DEF NoBatch
  <1>6. held \in Held /\ revision \in Nat /\ epoch \in Nat /\ baseline \in Baseline
    BY DEF ChainInv, TypeOK, Revision
  <1> HIDE DEF plan, plans
  <1>7. /\ held'.epoch = epoch /\ held'.revision = revision + 1
        /\ held'.panels = AdoptedPanels(held, plan)
        /\ held'.mode = plan.mode /\ held'.time = plan.time /\ held'.gap = FALSE
        /\ held'.resultEpoch = held.resultEpoch /\ held'.resultRevision = held.resultRevision
    BY <1>2, <1>6 DEF Held
  <1>8. /\ baseline'.present /\ baseline'.valid /\ baseline'.revision = revision + 1
        /\ baseline'.panels = InstalledPanels(plan)
        /\ baseline'.mode = plan.mode /\ baseline'.time = plan.time
    BY <1>2, <1>3 DEF Install
  <1>9. AdoptedPanels(held, plan) = InstalledPanels(plan)
    <2>1. CASE plan.snapshot
      BY <2>1 DEF AdoptedPanels, InstalledPanels
    <2>2. CASE ~plan.snapshot
      <3>1. held.panels = baseline.panels
        BY <1>2, <2>2 DEF ChainInv, PublicationInv, BaselineIsHeld
      <3> QED
        BY <1>2, <2>2, <3>1 DEF AdoptedPanels, InstalledPanels
    <2> QED
      BY <2>1, <2>2
  <1>10. Trusted'
    BY <1>4, <1>8 DEF Trusted
  <1>11. BaselineIsHeld' /\ NoGap' /\ RevisionsOrdered'
    BY <1>2, <1>3, <1>6, <1>7, <1>8, <1>9
    DEF BaselineIsHeld, NoGap, RevisionsOrdered, ChainInv, PublicationInv
  <1>12. ResultNamesHeldRevision'
    BY <1>6, <1>7
    DEF ResultNamesHeldRevision, ChainInv, PublicationInv, RevisionsOrdered, Held, Epoch, Revision
  <1>13. BatchContinues'
    <2>1. SnapshotBatch(plans) \/ DeltaBatch(plans)
      BY <1>1 DEF ChainInv, PublicationInv, BatchContinues, plans
    <2>2. /\ DOMAIN Tail(plans) = 1..(Len(plans) - 1)
          /\ \A k \in DOMAIN Tail(plans) :
                k \in Nat /\ k + 1 \in DOMAIN plans /\ Tail(plans)[k] = plans[k + 1]
      BY <1>1, TailFacts
    <2>3. CASE SnapshotBatch(plans)
      <3>1. DOMAIN Tail(plans) = {}
        BY <2>2, <2>3 DEF SnapshotBatch
      <3> QED
        BY <1>5, <1>10, <3>1 DEF BatchContinues, DeltaBatch
    <2>4. CASE DeltaBatch(plans)
      <3>1. ASSUME NEW k \in DOMAIN Tail(plans)
            PROVE  /\ ~Tail(plans)[k].snapshot
                   /\ Tail(plans)[k].revision = revision' + k
                   /\ Tail(plans)[k].base = revision' + k - 1
                   /\ \A p \in Tail(plans)[k].removed : Tail(plans)[k].replaced[p] = Absent
        <4>1. k \in Nat /\ k + 1 \in DOMAIN plans /\ Tail(plans)[k] = plans[k + 1]
          BY <2>2
        <4>2. revision' = revision + 1
          BY <1>2, <1>3
        <4>3. /\ ~plans[k + 1].snapshot
              /\ plans[k + 1].revision = revision + (k + 1)
              /\ plans[k + 1].base = revision + (k + 1) - 1
              /\ \A p \in plans[k + 1].removed : plans[k + 1].replaced[p] = Absent
          BY <2>4, <4>1 DEF DeltaBatch
        <4>4. revision + (k + 1) = revision' + k /\ revision + (k + 1) - 1 = revision' + k - 1
          BY <1>6, <4>1, <4>2
        <4> QED
          BY <4>1, <4>3, <4>4
      <3> QED
        BY <1>5, <1>10, <3>1 DEF BatchContinues, DeltaBatch
    <2> QED
      BY <2>1, <2>3, <2>4
  <1> QED
    BY <1>11, <1>12, <1>13 DEF PublicationInv

\* A failed send may or may not have reached the receiver; either way the
\* target is spent and nothing is trusted until the next snapshot.
LEMMA SendPlanFailsStep ==
    ASSUME ChainInv, SendPlanFails
    PROVE  PublicationInv'
  <1> DEFINE plan == Head(batch[1].plans)
  <1>1. /\ plan.revision = revision + 1
        /\ Adopt(held, plan) =
             [held EXCEPT !.epoch = epoch, !.revision = plan.revision,
                          !.panels = AdoptedPanels(held, plan),
                          !.mode = plan.mode, !.time = plan.time, !.gap = FALSE]
    BY NextPlanAdopted DEF SendPlanFails
  <1>2. /\ revision' = revision + 1 /\ epoch' = epoch /\ batch' = NoBatch
        /\ held' \in {held, Adopt(held, plan)}
        /\ repairRequired' = TRUE /\ baseline' = [baseline EXCEPT !.valid = FALSE]
    BY <1>1 DEF SendPlanFails, InvalidateBaseline
  <1>3. held \in Held /\ revision \in Nat /\ epoch \in Nat /\ baseline \in Baseline /\ baseline.revision \in Nat
    BY DEF ChainInv, TypeOK, Revision, Baseline
  <1> HIDE DEF plan
  <1>4. ~Trusted' /\ baseline'.present = baseline.present /\ baseline'.revision = baseline.revision
    BY <1>2, <1>3 DEF Trusted, Baseline
  <1>5. /\ held'.resultEpoch = held.resultEpoch /\ held'.resultRevision = held.resultRevision
        /\ \/ held'.epoch = held.epoch /\ held'.revision = held.revision /\ held'.gap = held.gap
           \/ held'.epoch = epoch /\ held'.revision = revision + 1 /\ held'.gap = FALSE
    BY <1>1, <1>2, <1>3 DEF Held
  <1>6. BatchContinues' /\ BaselineIsHeld' /\ NoGap'
    BY <1>2, <1>4, <1>5 DEF BatchContinues, BaselineIsHeld, NoGap, ChainInv, PublicationInv
  <1>7. RevisionsOrdered' /\ ResultNamesHeldRevision'
    BY <1>2, <1>3, <1>4, <1>5
    DEF RevisionsOrdered, ResultNamesHeldRevision, ChainInv, PublicationInv, Held, Epoch, Revision
  <1> QED
    BY <1>6, <1>7 DEF PublicationInv

LEMMA BatchDoneStep ==
    ASSUME ChainInv, BatchDone
    PROVE  PublicationInv'
  <1> DEFINE e == batch[1].entry
  <1>1. TypeOK /\ PublicationInv /\ UNCHANGED owner /\ batch' = NoBatch /\ e \in Entry
    BY BatchType DEF ChainInv, BatchDone
  <1>2. Trusted
    BY DEF BatchDone, ChainInv, PublicationInv, BatchContinues, SnapshotBatch, DeltaBatch
  <1>3. held.epoch = epoch /\ baseline.revision = held.revision /\ baseline.revision \in Revision
    BY <1>1, <1>2 DEF PublicationInv, BaselineIsHeld, TypeOK, Baseline
  <1>4. held.revision <= held.revision
    BY <1>1 DEF TypeOK, Held, Revision
  <1>5. CASE held' = held
    BY <1>1, <1>5, FrameStep
  <1>6. CASE held' = SendResult(held, e, baseline.revision)
    BY <1>1, <1>3, <1>4, <1>6, ResultStep
  <1> QED
    BY <1>5, <1>6 DEF BatchDone

LEMMA EnqueueFullStep ==
    ASSUME ChainInv, NEW w \in Waiter, NEW r \in Request, NEW g \in Group, EnqueueFull(w, r, g)
    PROVE  PublicationInv'
  <1>1. /\ UNCHANGED <<epoch, revision, batch, held>> /\ batch = NoBatch
        /\ repairRequired' = TRUE /\ baseline' = [baseline EXCEPT !.valid = FALSE]
    BY DEF EnqueueFull, InvalidateBaseline
  <1>2. baseline'.present = baseline.present /\ baseline'.revision = baseline.revision /\ ~Trusted'
    BY <1>1 DEF ChainInv, TypeOK, Baseline, Trusted
  <1> QED
    BY <1>1, <1>2 DEF ChainInv, PublicationInv, BatchContinues, RevisionsOrdered, NoGap,
                      BaselineIsHeld, ResultNamesHeldRevision

\* A fresh sequence is younger than everything the receiver holds.
LEMMA ResetStep ==
    ASSUME ChainInv, Reset
    PROVE  PublicationInv'
  <1>1. /\ epoch' = epoch + 1 /\ UNCHANGED <<batch, held>> /\ batch = NoBatch
        /\ ~baseline'.present
    BY DEF Reset, NoBaseline
  <1>2. held \in Held /\ epoch \in Nat
    BY DEF ChainInv, TypeOK
  <1> QED
    BY <1>1, <1>2 DEF ChainInv, PublicationInv, BatchContinues, RevisionsOrdered, NoGap, Trusted,
                      BaselineIsHeld, ResultNamesHeldRevision, Held, Epoch

LEMMA ChainInit == Init => ChainInv
  <1> SUFFICES ASSUME Init PROVE ChainInv
    OBVIOUS
  <1>1. TypeOK
    BY InitType
  <1>2. EntriesDisjoint
    BY DEF Init, EntriesDisjoint
  <1>3. PublicationInv
    BY DEF Init, NoBaseline, PublicationInv, BatchContinues, RevisionsOrdered, NoGap, Trusted,
           BaselineIsHeld, ResultNamesHeldRevision
  <1> QED
    BY <1>1, <1>2, <1>3 DEF ChainInv

LEMMA ChainStep == ChainInv /\ [Next]_vars => ChainInv'
  <1> SUFFICES ASSUME ChainInv, [Next]_vars PROVE ChainInv'
    OBVIOUS
  <1>1. TypeOK' /\ EntriesDisjoint'
    BY TypeStep, EntriesStep DEF ChainInv
  <1>2. PublicationInv'
    <2>0. pending \in Seq(Entry) /\ PublicationInv
      BY DEF ChainInv, TypeOK
    <2>1. CASE WorldChanges \/ DeferredDrain \/ DrainEnds
      BY <2>0, <2>1, FrameStep DEF WorldChanges, DeferredDrain, DrainEnds
    <2>2. ASSUME NEW w \in Waiter, NEW r \in Request, EnqueueRejected(w, r) PROVE PublicationInv'
      BY <2>0, <2>2, FrameStep DEF EnqueueRejected
    <2>3. ASSUME NEW w \in Waiter, NEW r \in Request, NEW g \in Group, Enqueue(w, r, g)
          PROVE  PublicationInv'
      BY <2>0, <2>3, FrameStep DEF Enqueue
    <2>4. ASSUME NEW k \in 1..Len(pending), Flush(k) PROVE PublicationInv'
      BY <2>4, ExecuteStep DEF Flush
    <2>5. CASE DrainHead
      <3>1. 1 \in 1..Len(pending)
        BY <2>0, <2>5 DEF DrainHead
      <3> QED
        BY <2>5, <3>1, ExecuteStep DEF DrainHead
    <2>6. CASE UNCHANGED vars
      BY <2>0, <2>6, FrameStep DEF vars
    <2> QED
      BY <2>1, <2>2, <2>3, <2>4, <2>5, <2>6, EnqueueFullStep, ResetStep, SendPlanStep,
         SendPlanFailsStep, BatchDoneStep DEF Next, Publishing
  <1> QED
    BY <1>1, <1>2 DEF ChainInv

LEMMA ChainCorrect == Spec => []ChainInv
  BY ChainInit, ChainStep, PTL DEF Spec

\* A receiver that adopted every frame that reached it never refuses the next
\* one, for every registry, request mix and bound (_send_plans, _plan_delta).
THEOREM NeverAGap == Spec => []NoGap
  <1>1. ChainInv => NoGap
    BY DEF ChainInv, PublicationInv
  <1> QED
    BY <1>1, ChainCorrect, PTL

\* A trusted baseline is exactly what the receiver holds (_install).
THEOREM TrustedBaselineIsHeld == Spec => []BaselineIsHeld
  <1>1. ChainInv => BaselineIsHeld
    BY DEF ChainInv, PublicationInv
  <1> QED
    BY <1>1, ChainCorrect, PTL

\* No action result names a revision its receiver does not hold (held_revision).
THEOREM ResultsNameHeldRevisions == Spec => []ResultNamesHeldRevision
  <1>1. ChainInv => ResultNamesHeldRevision
    BY DEF ChainInv, PublicationInv
  <1> QED
    BY <1>1, ChainCorrect, PTL

\* What the receiver adopts in one step, if anything.
LEMMA ReceiverStep ==
    ASSUME ChainInv, [Next]_vars
    PROVE  \/ held'.revision = held.revision /\ held'.epoch = held.epoch
           \/ /\ batch # NoBatch /\ batch[1].plans # <<>>
              /\ batch[1].plans[1].snapshot \/ Trusted
              /\ held'.epoch = epoch
              /\ held'.revision = revision + 1
              /\ revision' = revision + 1
  <1> DEFINE Same == held'.revision = held.revision /\ held'.epoch = held.epoch
  <1>a. held \in Held /\ pending \in Seq(Entry)
    BY DEF ChainInv, TypeOK
  <1>b. ASSUME NEW e, NEW r, held' = SendResult(held, e, r) PROVE Same
    BY <1>a, <1>b DEF SendResult, Held
  <1>c. ASSUME NEW k \in 1..Len(pending), Execute(k) PROVE Same
    <2>1. CASE ExecuteResultOnly(k)
      BY <1>b, <2>1 DEF ExecuteResultOnly
    <2> QED
      BY <1>c, <2>1 DEF Execute, ExecuteRetired, ExecutePlan, ExecutePlanFails
  <1>1. CASE SendPlan \/ SendPlanFails
    <2> DEFINE plan == Head(batch[1].plans)
    <2>1. batch # NoBatch /\ batch[1].plans # <<>> /\ batch[1].plans \in Seq(Plan)
      BY <1>1, BatchType DEF SendPlan, SendPlanFails, ChainInv
    <2>2. /\ plan.revision = revision + 1
          /\ plan.snapshot \/ Trusted
          /\ Adopt(held, plan) =
               [held EXCEPT !.epoch = epoch, !.revision = plan.revision,
                            !.panels = AdoptedPanels(held, plan),
                            !.mode = plan.mode, !.time = plan.time, !.gap = FALSE]
      BY <2>1, NextPlanAdopted
    <2>3. held' \in {held, Adopt(held, plan)} /\ revision' = plan.revision
      BY <1>1 DEF SendPlan, SendPlanFails
    <2>4. plan = batch[1].plans[1]
      BY <2>1
    <2> HIDE DEF plan
    <2>5. CASE held' = Adopt(held, plan)
      <3>1. held'.epoch = epoch /\ held'.revision = plan.revision
        BY <1>a, <2>2, <2>5 DEF Held
      <3> QED
        BY <2>1, <2>2, <2>3, <2>4, <3>1
    <2> QED
      BY <2>3, <2>5
  <1>2. CASE BatchDone
    BY <1>2, <1>b DEF BatchDone
  <1>3. CASE DrainHead
    <2>1. 1 \in 1..Len(pending)
      BY <1>a, <1>3 DEF DrainHead
    <2> QED
      BY <1>3, <1>c, <2>1 DEF DrainHead
  <1>4. ASSUME NEW k \in 1..Len(pending), Flush(k) PROVE Same
    BY <1>4, <1>c DEF Flush
  <1>5. CASE UNCHANGED held
    BY <1>5
  <1>6. CASE WorldChanges \/ DeferredDrain \/ DrainEnds \/ Reset \/ UNCHANGED vars
    BY <1>5, <1>6 DEF WorldChanges, DeferredDrain, DrainEnds, Reset, vars
  <1>7. ASSUME NEW w \in Waiter, NEW r \in Request, EnqueueRejected(w, r) PROVE Same
    BY <1>5, <1>7 DEF EnqueueRejected
  <1>8. ASSUME NEW w \in Waiter, NEW r \in Request, NEW g \in Group,
               EnqueueFull(w, r, g) \/ Enqueue(w, r, g)
        PROVE Same
    BY <1>5, <1>8 DEF EnqueueFull, Enqueue
  <1> QED
    BY <1>1, <1>2, <1>3, <1>4, <1>6, <1>7, <1>8 DEF Next, Publishing

\* No target is ever issued twice, and none is skipped by the receiver's
\* adoption (_send_plans consumes the target before the first frame).
THEOREM TargetsAreFresh == Spec => TargetNeverReused
  <1>1. ChainInv /\ [Next]_vars =>
          [held'.revision # held.revision \/ held'.epoch # held.epoch =>
              held'.revision = revision' /\ revision' = revision + 1]_vars
    BY ReceiverStep
  <1> QED
    BY <1>1, ChainCorrect, PTL DEF Spec, TargetNeverReused

\* After a failed send or an overflow only a complete snapshot moves the
\* receiver (_publish_now).
THEOREM RepairsAreSnapshots == Spec => RepairIsASnapshot
  <1>1. ChainInv /\ [Next]_vars =>
          [~Trusted /\ held'.revision # held.revision /\ held'.epoch = held.epoch
              => batch # NoBatch /\ batch[1].plans[1].snapshot]_vars
    BY ReceiverStep
  <1> QED
    BY <1>1, ChainCorrect, PTL DEF Spec, RepairIsASnapshot
------------------------------------------------------------------------------
(***************************************************************************)
(* Scheduling.  A flush only starts while the reactor still holds a drain, *)
(* so an enqueue made during it is never left without one.                 *)
(***************************************************************************)

SchedulingInv ==
    /\ scheduled => turns > 0
    /\ draining = "only" => turns > 0
    /\ NoStrandedWaiter

LEMMA SchedulingStep ==
    ASSUME TypeOK, SchedulingInv, [Next]_vars
    PROVE  SchedulingInv'
  <1> USE DEF SchedulingInv, NoStrandedWaiter, queue
  <1>a. pending \in Seq(Entry) /\ turns \in Nat /\ draining \in {"no", "all", "only"}
    BY DEF TypeOK
  <1>1. ASSUME NEW w \in Waiter, NEW r \in Request, NEW g \in Group, Enqueue(w, r, g)
        PROVE  SchedulingInv'
    BY <1>1, <1>a DEF Enqueue, ScheduleDrain
  <1>2. CASE DeferredDrain
    BY <1>2, <1>a DEF DeferredDrain
  <1>3. ASSUME NEW k \in 1..Len(pending), Flush(k) PROVE SchedulingInv'
    <2>1. pending # <<>> /\ turns' = turns /\ scheduled' = scheduled /\ draining' = "only" /\ draining = "no"
      BY <1>3, <1>a DEF Flush, Execute
    <2> QED
      BY <2>1
  <1>4. CASE DrainHead
    BY <1>4, <1>a DEF DrainHead, Execute
  <1>5. CASE DrainEnds
    BY <1>5, <1>a DEF DrainEnds
  <1>6. CASE Reset
    BY <1>6, <1>a DEF Reset, RetirePending
  <1>7. CASE UNCHANGED queue
    BY <1>7
  <1>8. CASE WorldChanges \/ SendPlan \/ SendPlanFails \/ BatchDone \/ UNCHANGED vars
    BY <1>7, <1>8 DEF WorldChanges, SendPlan, SendPlanFails, BatchDone, vars
  <1>9. ASSUME NEW w \in Waiter, NEW r \in Request, EnqueueRejected(w, r) PROVE SchedulingInv'
    BY <1>7, <1>9 DEF EnqueueRejected
  <1>10. ASSUME NEW w \in Waiter, NEW r \in Request, NEW g \in Group, EnqueueFull(w, r, g)
         PROVE SchedulingInv'
    BY <1>7, <1>10 DEF EnqueueFull
  <1> QED
    BY <1>1, <1>2, <1>3, <1>4, <1>5, <1>6, <1>8, <1>9, <1>10 DEF Next, Publishing

\* While the queue holds an entry, a drain runs or is still due, also after a
\* reset cleared the marker of an outstanding call (_schedule_deferred_drain).
THEOREM NobodyStranded == Spec => []NoStrandedWaiter
  <1>1. Init => SchedulingInv
    BY DEF Init, SchedulingInv, NoStrandedWaiter
  <1>2. TypeOK /\ SchedulingInv /\ [Next]_vars => SchedulingInv'
    BY SchedulingStep
  <1>3. SchedulingInv => NoStrandedWaiter
    BY DEF SchedulingInv
  <1> QED
    BY <1>1, <1>2, <1>3, TypeCorrect, PTL DEF Spec
------------------------------------------------------------------------------
(***************************************************************************)
(* Who waits where.  One group has one pending entry, so merging a caller  *)
(* into its group hands the caller's Deferred to one entry only.           *)
(***************************************************************************)

OneEntryPerGroup == \A j, k \in DOMAIN pending : pending[j].group = pending[k].group => j = k
WaitInv == OneEntryPerGroup /\ WaitersPartitioned

\* Where the entries of a queue are once entry k is taken out.
After(k, j) == IF j < k THEN j ELSE j + 1

LEMMA WithoutShows ==
    ASSUME NEW S, NEW s \in Seq(S), NEW k \in 1..Len(s)
    PROVE  /\ \A j \in DOMAIN Without(s, k) :
                 After(k, j) \in DOMAIN s \ {k} /\ Without(s, k)[j] = s[After(k, j)]
           /\ \A i, j \in DOMAIN Without(s, k) : After(k, i) = After(k, j) => i = j
           /\ \A m \in DOMAIN s \ {k} : \E j \in DOMAIN Without(s, k) : Without(s, k)[j] = s[m]
  <1>1. /\ DOMAIN Without(s, k) = 1..(Len(s) - 1) /\ Len(s) \in Nat /\ k \in Nat
        /\ \A j \in 1..(Len(s) - 1) : Without(s, k)[j] = IF j < k THEN s[j] ELSE s[j + 1]
    BY DEF Without
  <1>2. ASSUME NEW j \in 1..(Len(s) - 1)
        PROVE  After(k, j) \in 1..Len(s) /\ After(k, j) # k /\ Without(s, k)[j] = s[After(k, j)]
    BY <1>1 DEF After
  <1>3. ASSUME NEW i \in 1..(Len(s) - 1), NEW j \in 1..(Len(s) - 1), After(k, i) = After(k, j) PROVE i = j
    BY <1>1, <1>3 DEF After
  <1>4. ASSUME NEW m \in 1..Len(s), m # k PROVE \E j \in 1..(Len(s) - 1) : Without(s, k)[j] = s[m]
    <2>1. CASE m < k
      <3>1. m \in 1..(Len(s) - 1) /\ Without(s, k)[m] = s[m]
        BY <1>1, <2>1
      <3> QED
        BY <3>1
    <2>2. CASE m > k
      <3>1. m - 1 \in 1..(Len(s) - 1) /\ ~(m - 1 < k) /\ (m - 1) + 1 = m
        BY <1>1, <2>2
      <3>2. Without(s, k)[m - 1] = s[m]
        BY <1>1, <3>1
      <3> QED
        BY <3>1, <3>2
    <2> QED
      BY <1>1, <1>4, <2>1, <2>2
  <1>5. DOMAIN s = 1..Len(s)
    OBVIOUS
  <1> QED
    BY <1>1, <1>2, <1>3, <1>4, <1>5

LEMMA MergeJoins ==
    ASSUME NEW e \in Entry, NEW i \in Entry
    PROVE  Merge(e, i).group = e.group /\ Merge(e, i).waiters = e.waiters \union i.waiters
  BY DEF Merge, Entry

\* A caller that was not waiting waits in one entry, new or merged.
LEMMA QueuedWaits ==
    ASSUME TypeOK, WaitInv, batch = NoBatch, batch' = batch, NEW w \in Waiter, w \notin waiting,
           NEW i \in Entry, i.waiters = {w}, pending' = Queued(i), waiting' = waiting \union {w}
    PROVE  WaitInv'
  <1>1. pending \in Seq(Entry) /\ waiting = PendingWaiters
    BY DEF TypeOK, WaitInv, WaitersPartitioned
  <1>2. \A k \in DOMAIN pending : pending[k] \in Entry /\ w \notin pending[k].waiters
    BY <1>1 DEF PendingWaiters
  <1>3. CASE i.group \in PendingGroups
    <2>1. PICK m \in DOMAIN pending : pending[m].group = i.group
      BY <1>3 DEF PendingGroups
    <2>2. /\ DOMAIN pending' = DOMAIN pending
          /\ \A k \in DOMAIN pending : pending'[k] = IF pending[k].group = i.group THEN Merge(pending[k], i) ELSE pending[k]
      BY <1>3 DEF Queued
    <2>3. \A k \in DOMAIN pending : pending[k].group = i.group => k = m
      BY <2>1 DEF WaitInv, OneEntryPerGroup
    <2>4. /\ DOMAIN pending' = DOMAIN pending
          /\ \A k \in DOMAIN pending : k # m => pending'[k] = pending[k]
          /\ pending'[m].group = pending[m].group
          /\ pending'[m].waiters = pending[m].waiters \union {w}
      <3>1. pending'[m] = Merge(pending[m], i)
        BY <2>1, <2>2
      <3>2. \A k \in DOMAIN pending : k # m => pending'[k] = pending[k]
        BY <2>2, <2>3
      <3>3. pending[m] \in Entry
        BY <1>2
      <3>4. Merge(pending[m], i).group = pending[m].group /\ Merge(pending[m], i).waiters = pending[m].waiters \union {w}
        BY <3>3, MergeJoins
      <3> QED
        BY <2>2, <3>1, <3>2, <3>4
    <2>5. OneEntryPerGroup'
      BY <2>1, <2>4 DEF WaitInv, OneEntryPerGroup
    <2>6. PendingWaiters' = PendingWaiters \union {w}
      <3>1. ASSUME NEW x \in PendingWaiters' PROVE x \in PendingWaiters \union {w}
        <4>1. PICK k \in DOMAIN pending : x \in pending'[k].waiters
          BY <2>4 DEF PendingWaiters
        <4> QED
          BY <2>1, <2>4, <4>1 DEF PendingWaiters
      <3>2. ASSUME NEW x \in PendingWaiters PROVE x \in PendingWaiters'
        <4>1. PICK k \in DOMAIN pending : x \in pending[k].waiters
          BY DEF PendingWaiters
        <4>2. x \in pending'[k].waiters
          BY <2>1, <2>4, <4>1
        <4> QED
          BY <2>4, <4>2 DEF PendingWaiters
      <3>3. w \in PendingWaiters'
        BY <2>1, <2>4 DEF PendingWaiters
      <3> QED
        BY <3>1, <3>2, <3>3
    <2>7. ASSUME NEW j \in DOMAIN pending, NEW k \in DOMAIN pending, j # k
          PROVE  pending'[j].waiters \intersect pending'[k].waiters = {}
      <3>1. pending[j].waiters \intersect pending[k].waiters = {}
        BY <2>7 DEF WaitInv, WaitersPartitioned
      <3>2. pending'[j].waiters \subseteq pending[j].waiters \union {w} /\ (j # m => pending'[j].waiters = pending[j].waiters)
        BY <2>4
      <3>3. pending'[k].waiters \subseteq pending[k].waiters \union {w} /\ (k # m => pending'[k].waiters = pending[k].waiters)
        BY <2>4
      <3> QED
        BY <1>2, <2>7, <3>1, <3>2, <3>3
    <2> QED
      BY <1>1, <2>4, <2>5, <2>6, <2>7 DEF WaitInv, WaitersPartitioned
  <1>4. CASE i.group \notin PendingGroups
    <2>1. pending' = Append(pending, i)
      BY <1>4 DEF Queued
    <2> DEFINE n == Len(pending)
    <2>2. /\ n \in Nat /\ DOMAIN pending = 1..n /\ DOMAIN pending' = 1..(n + 1)
          /\ pending'[n + 1] = i /\ \A k \in 1..n : pending'[k] = pending[k]
      BY <1>1, <2>1
    <2> HIDE DEF n
    <2>3. /\ \A k \in DOMAIN pending' : k \in DOMAIN pending \/ k = n + 1
          /\ DOMAIN pending \subseteq DOMAIN pending' /\ n + 1 \in DOMAIN pending' /\ n + 1 \notin DOMAIN pending
      BY <2>2
    <2>4. \A k \in DOMAIN pending : pending'[k] = pending[k] /\ pending[k].group # i.group
      BY <1>4, <2>2 DEF PendingGroups
    <2>5. OneEntryPerGroup'
      BY <2>2, <2>3, <2>4 DEF WaitInv, OneEntryPerGroup
    <2>6. PendingWaiters' = PendingWaiters \union {w}
      BY <2>2, <2>3, <2>4 DEF PendingWaiters
    <2>7. \A j, k \in DOMAIN pending' : j # k => pending'[j].waiters \intersect pending'[k].waiters = {}
      BY <1>2, <2>2, <2>3, <2>4 DEF WaitInv, WaitersPartitioned
    <2> QED
      BY <1>1, <2>5, <2>6, <2>7 DEF WaitInv, WaitersPartitioned
  <1> QED
    BY <1>3, <1>4

\* The entry that is executed is answered, or its callers wait for the batch.
LEMMA ExecuteWaits ==
    ASSUME TypeOK, WaitInv, batch = NoBatch, NEW k \in 1..Len(pending), Execute(k)
    PROVE  WaitInv'
  <1>1. pending \in Seq(Entry) /\ waiting = PendingWaiters /\ k \in DOMAIN pending /\ pending' = Without(pending, k)
    BY DEF TypeOK, WaitInv, WaitersPartitioned, Execute
  <1>2. /\ \A j \in DOMAIN pending' : After(k, j) \in DOMAIN pending \ {k} /\ pending'[j] = pending[After(k, j)]
        /\ \A i, j \in DOMAIN pending' : After(k, i) = After(k, j) => i = j
        /\ \A m \in DOMAIN pending \ {k} : \E j \in DOMAIN pending' : pending'[j] = pending[m]
    BY <1>1, WithoutShows
  <1>3. OneEntryPerGroup'
    BY <1>2 DEF WaitInv, OneEntryPerGroup
  <1>4. PendingWaiters' = PendingWaiters \ pending[k].waiters
    <2>1. ASSUME NEW x \in PendingWaiters' PROVE x \in PendingWaiters /\ x \notin pending[k].waiters
      <3>1. PICK j \in DOMAIN pending' : x \in pending'[j].waiters
        BY DEF PendingWaiters
      <3>2. After(k, j) \in DOMAIN pending /\ After(k, j) # k /\ x \in pending[After(k, j)].waiters
        BY <1>2, <3>1
      <3>3. pending[After(k, j)].waiters \intersect pending[k].waiters = {}
        BY <1>1, <3>2 DEF WaitInv, WaitersPartitioned
      <3> QED
        BY <3>2, <3>3 DEF PendingWaiters
    <2>2. ASSUME NEW x \in PendingWaiters, x \notin pending[k].waiters PROVE x \in PendingWaiters'
      <3>1. PICK m \in DOMAIN pending : x \in pending[m].waiters
        BY DEF PendingWaiters
      <3>2. m # k
        BY <2>2, <3>1
      <3>3. PICK j \in DOMAIN pending' : pending'[j] = pending[m]
        BY <1>2, <3>2
      <3> QED
        BY <3>1, <3>3 DEF PendingWaiters
    <2> QED
      BY <2>1, <2>2
  <1>5. \A i, j \in DOMAIN pending' : i # j => pending'[i].waiters \intersect pending'[j].waiters = {}
    BY <1>2 DEF WaitInv, WaitersPartitioned
  <1>6. CASE ExecuteRetired(k) \/ ExecuteResultOnly(k) \/ ExecutePlanFails(k)
    <2>1. waiting' = waiting \ pending[k].waiters /\ batch' = NoBatch
      BY <1>6 DEF ExecuteRetired, ExecuteResultOnly, ExecutePlanFails, Answered
    <2> QED
      BY <1>1, <1>3, <1>4, <1>5, <2>1 DEF WaitInv, WaitersPartitioned
  <1>7. CASE ExecutePlan(k)
    <2>1. waiting' = waiting /\ batch' # NoBatch /\ batch'[1].entry = pending[k]
      BY <1>7 DEF ExecutePlan, NoBatch
    <2>2. pending[k].waiters \subseteq PendingWaiters
      BY <1>1 DEF PendingWaiters
    <2> QED
      BY <1>1, <1>3, <1>4, <1>5, <2>1, <2>2 DEF WaitInv, WaitersPartitioned
  <1> QED
    BY <1>6, <1>7 DEF Execute

LEMMA WaitStep == TypeOK /\ WaitInv /\ [Next]_vars => WaitInv'
  <1> SUFFICES ASSUME TypeOK, WaitInv, [Next]_vars PROVE WaitInv'
    OBVIOUS
  <1>1. CASE UNCHANGED <<pending, batch, waiting>>
    BY <1>1 DEF WaitInv, OneEntryPerGroup, WaitersPartitioned, PendingWaiters
  <1>2. ASSUME NEW w \in Waiter, NEW r \in Request, NEW g \in Group, Enqueue(w, r, g) PROVE WaitInv'
    <2>1. Intent(r, w, g) \in Entry /\ Intent(r, w, g).waiters = {w}
      BY IntentType DEF Intent
    <2> QED
      BY <1>2, <2>1, QueuedWaits DEF Enqueue
  <1>3. CASE DrainHead
    <2>1. pending # <<>> /\ batch = NoBatch /\ Execute(1)
      BY <1>3 DEF DrainHead
    <2>2. 1 \in 1..Len(pending)
      BY <2>1, ElementType DEF TypeOK
    <2> QED
      BY <2>1, <2>2, ExecuteWaits
  <1>4. ASSUME NEW k \in 1..Len(pending), Flush(k) PROVE WaitInv'
    BY <1>4, ExecuteWaits DEF Flush
  <1>5. CASE SendPlan
    <2>1. batch # NoBatch /\ batch' = [batch EXCEPT ![1].plans = Tail(batch[1].plans)] /\ UNCHANGED <<pending, waiting>>
      BY <1>5 DEF SendPlan, queue
    <2>2. batch' # NoBatch /\ batch'[1].entry = batch[1].entry
      <3>1. 1 \in DOMAIN batch /\ batch[1] \in [entry: Entry, plans: Seq(Plan)]
        BY <2>1, ElementType DEF TypeOK, NoBatch
      <3>2. DOMAIN batch' = DOMAIN batch /\ batch'[1] = [batch[1] EXCEPT !.plans = Tail(batch[1].plans)]
        BY <2>1, <3>1
      <3>3. batch' # NoBatch
        BY <3>1, <3>2 DEF NoBatch
      <3> QED
        BY <3>1, <3>2, <3>3
    <2> QED
      BY <2>1, <2>2 DEF WaitInv, OneEntryPerGroup, WaitersPartitioned, PendingWaiters
  <1>6. CASE SendPlanFails \/ BatchDone
    <2>1. batch # NoBatch /\ batch' = NoBatch /\ waiting' = waiting \ batch[1].entry.waiters /\ UNCHANGED pending
      BY <1>6 DEF SendPlanFails, BatchDone, Answered, queue
    <2> QED
      BY <2>1 DEF WaitInv, OneEntryPerGroup, WaitersPartitioned, PendingWaiters
  <1>7. CASE Reset
    <2>1. batch = NoBatch /\ batch' = NoBatch /\ pending' = <<>> /\ waiting' = waiting \ PendingWaiters
      BY <1>7 DEF Reset, RetirePending
    <2>2. DOMAIN pending' = {}
      BY <2>1
    <2>3. PendingWaiters' = {} /\ waiting' = {}
      BY <2>1, <2>2 DEF PendingWaiters, WaitInv, WaitersPartitioned
    <2> QED
      BY <2>1, <2>2, <2>3 DEF WaitInv, OneEntryPerGroup, WaitersPartitioned
  <1>8. CASE \/ WorldChanges \/ DeferredDrain \/ DrainEnds
             \/ \E w \in Waiter, r \in Request : EnqueueRejected(w, r) \/ \E g \in Group : EnqueueFull(w, r, g)
             \/ UNCHANGED vars
    BY <1>1, <1>8 DEF WorldChanges, DeferredDrain, DrainEnds, EnqueueRejected, EnqueueFull, vars, queue
  <1> QED
    BY <1>2, <1>3, <1>4, <1>5, <1>6, <1>7, <1>8 DEF Next, Publishing

\* Every Deferred that was handed out and not answered waits in exactly one
\* place, however callers merge, entries retire, flush or fail and sequences end.
THEOREM WaitersHaveOnePlace == Spec => []WaitersPartitioned
  <1>1. Init => WaitInv
    <2> SUFFICES ASSUME Init PROVE WaitInv
      OBVIOUS
    <2>1. pending = <<>> /\ batch = NoBatch /\ waiting = {}
      BY DEF Init
    <2>2. DOMAIN pending = {}
      BY <2>1
    <2> QED
      BY <2>1, <2>2 DEF WaitInv, OneEntryPerGroup, WaitersPartitioned, PendingWaiters
  <1>2. WaitInv => WaitersPartitioned
    BY DEF WaitInv
  <1> QED
    BY <1>1, <1>2, WaitStep, TypeCorrect, PTL DEF Spec
------------------------------------------------------------------------------
(***************************************************************************)
(* What a batch still has to show.  A plan is fixed when the entry is      *)
(* taken; the invariants below relate the plans still to be sent to what   *)
(* the receiver holds already.                                             *)
(***************************************************************************)

\* What sending the next plan does to the receiver and to the batch.
LEMMA SendPlanEffect ==
    ASSUME ChainInv, SendPlan
    PROVE  LET plans == batch[1].plans IN
           /\ 1 \in DOMAIN plans /\ plans[1] \in Plan /\ plans[1].revision = revision + 1
           /\ held'.panels = AdoptedPanels(held, plans[1])
           /\ held'.mode = plans[1].mode /\ held'.time = plans[1].time
           /\ batch' # NoBatch /\ batch'[1].entry = batch[1].entry
           /\ DOMAIN batch'[1].plans = 1..(Len(plans) - 1) /\ Len(plans) \in Nat
           /\ \A k \in DOMAIN batch'[1].plans :
                 k \in Nat /\ k + 1 \in DOMAIN plans /\ batch'[1].plans[k] = plans[k + 1]
  <1> DEFINE plans == batch[1].plans
             plan  == Head(plans)
  <1>1. batch # NoBatch /\ plans # <<>> /\ plans \in Seq(Plan) /\ batch \in Seq([entry: Entry, plans: Seq(Plan)])
    BY BatchType DEF SendPlan, ChainInv, TypeOK
  <1>2. /\ plan \in Plan /\ plan.revision = revision + 1
        /\ held' = [held EXCEPT !.epoch = epoch, !.revision = plan.revision,
                             !.panels = AdoptedPanels(held, plan),
                             !.mode = plan.mode, !.time = plan.time, !.gap = FALSE]
    BY <1>1, NextPlanAdopted DEF SendPlan
  <1>3. plan = plans[1] /\ 1 \in DOMAIN plans
    BY <1>1
  <1>4. held \in Held
    BY DEF ChainInv, TypeOK
  <1>5. 1 \in DOMAIN batch /\ batch[1] \in [entry: Entry, plans: Seq(Plan)]
    BY <1>1, ElementType DEF NoBatch
  <1>6. batch' = [batch EXCEPT ![1].plans = Tail(plans)]
    BY DEF SendPlan
  <1>7. DOMAIN batch' = DOMAIN batch /\ batch'[1] = [batch[1] EXCEPT !.plans = Tail(plans)]
    BY <1>5, <1>6
  <1>8. batch'[1].plans = Tail(plans) /\ batch'[1].entry = batch[1].entry
    BY <1>5, <1>7
  <1>9. batch' # NoBatch
    BY <1>5, <1>7 DEF NoBatch
  <1>10. /\ DOMAIN Tail(plans) = 1..(Len(plans) - 1) /\ Len(plans) \in Nat
         /\ \A k \in DOMAIN Tail(plans) : k \in Nat /\ k + 1 \in DOMAIN plans /\ Tail(plans)[k] = plans[k + 1]
    BY <1>1, TailFacts
  <1> HIDE DEF plan, plans
  <1>11. held'.panels = AdoptedPanels(held, plan) /\ held'.mode = plan.mode /\ held'.time = plan.time
    BY <1>2, <1>4 DEF Held
  <1> QED
    BY <1>2, <1>3, <1>8, <1>9, <1>10, <1>11 DEF plans

\* A result tells the receiver a revision and shows it nothing.
LEMMA ResultLeavesPicture ==
    ASSUME held \in Held, NEW e, NEW r, held' \in {held, SendResult(held, e, r)}
    PROVE  /\ held'.panels = held.panels /\ held'.mode = held.mode /\ held'.time = held.time
           /\ held'.revision = held.revision /\ held'.epoch = held.epoch
  BY DEF SendResult, Held

\* Every step that neither sends nor starts a batch shows the receiver nothing,
\* and either leaves the batch alone or ends it.
LEMMA OtherStep ==
    ASSUME ChainInv, [Next]_vars, ~SendPlan, ~SendPlanFails,
           ~\E k \in 1..Len(pending) : batch = NoBatch /\ Execute(k) /\ ExecutePlan(k)
    PROVE  /\ held'.panels = held.panels /\ held'.mode = held.mode /\ held'.time = held.time
           /\ held'.revision = held.revision /\ held'.epoch = held.epoch
           /\ batch' = batch \/ batch' = NoBatch
  <1> DEFINE Idle == /\ held'.panels = held.panels /\ held'.mode = held.mode /\ held'.time = held.time
                     /\ held'.revision = held.revision /\ held'.epoch = held.epoch
                     /\ batch' = batch \/ batch' = NoBatch
  <1>a. held \in Held /\ pending \in Seq(Entry)
    BY DEF ChainInv, TypeOK
  <1>b. ASSUME NEW k \in 1..Len(pending), batch = NoBatch, Execute(k) PROVE Idle
    <2>1. CASE ExecuteResultOnly(k)
      <3>1. held' \in {held, SendResult(held, pending[k], HeldRevision)} /\ batch' = batch
        BY <2>1 DEF ExecuteResultOnly
      <3> QED
        BY <1>a, <3>1, ResultLeavesPicture
    <2> QED
      BY <1>b, <2>1 DEF Execute, ExecuteRetired, ExecutePlanFails
  <1>1. CASE BatchDone
    <2>1. held' \in {held, SendResult(held, batch[1].entry, baseline.revision)} /\ batch' = NoBatch
      BY <1>1 DEF BatchDone
    <2> QED
      BY <1>a, <2>1, ResultLeavesPicture
  <1>2. CASE DrainHead
    <2>1. 1 \in 1..Len(pending)
      BY <1>a, <1>2, ElementType DEF DrainHead
    <2> QED
      BY <1>2, <1>b, <2>1 DEF DrainHead
  <1>3. ASSUME NEW k \in 1..Len(pending), Flush(k) PROVE Idle
    BY <1>3, <1>b DEF Flush
  <1>4. CASE WorldChanges \/ DeferredDrain \/ DrainEnds \/ Reset \/ UNCHANGED vars
    BY <1>4 DEF WorldChanges, DeferredDrain, DrainEnds, Reset, vars
  <1>5. ASSUME NEW w \in Waiter, NEW r \in Request, EnqueueRejected(w, r) PROVE Idle
    BY <1>5 DEF EnqueueRejected
  <1>6. ASSUME NEW w \in Waiter, NEW r \in Request, NEW g \in Group,
               EnqueueFull(w, r, g) \/ Enqueue(w, r, g)
        PROVE Idle
    BY <1>6 DEF EnqueueFull, Enqueue
  <1> QED
    BY <1>1, <1>2, <1>3, <1>4, <1>5, <1>6 DEF Next, Publishing

\* Inside a batch a step sends a plan, ends the batch or leaves it alone;
\* outside one it may start it.
LEMMA BatchSteps ==
    ASSUME ChainInv, [Next]_vars
    PROVE  \/ SendPlan \/ batch' = NoBatch \/ (batch # NoBatch /\ batch' = batch /\ ~SendPlan)
           \/ \E k \in 1..Len(pending) : batch = NoBatch /\ Execute(k) /\ ExecutePlan(k) /\ (DrainHead \/ Flush(k))
  <1>1. pending \in Seq(Entry)
    BY DEF ChainInv, TypeOK
  <1>2. ASSUME NEW k \in 1..Len(pending), Execute(k), ~ExecutePlan(k) PROVE batch' = batch
    BY <1>2 DEF Execute, ExecuteRetired, ExecuteResultOnly, ExecutePlanFails
  <1>3. CASE DrainHead
    <2>1. 1 \in 1..Len(pending)
      BY <1>1, <1>3, ElementType DEF DrainHead
    <2> QED
      BY <1>2, <1>3, <2>1 DEF DrainHead
  <1>4. ASSUME NEW k \in 1..Len(pending), Flush(k) PROVE batch' = NoBatch \/ (batch = NoBatch /\ Execute(k) /\ ExecutePlan(k))
    BY <1>2, <1>4 DEF Flush
  <1>5. CASE SendPlanFails \/ BatchDone \/ Reset \/ DrainEnds
    BY <1>5 DEF SendPlanFails, BatchDone, Reset, DrainEnds
  <1>6. CASE WorldChanges \/ DeferredDrain \/ UNCHANGED vars
    BY <1>6 DEF WorldChanges, DeferredDrain, vars
  <1>7. ASSUME NEW w \in Waiter, NEW r \in Request, EnqueueRejected(w, r) PROVE batch' = NoBatch
    BY <1>7 DEF EnqueueRejected
  <1>8. ASSUME NEW w \in Waiter, NEW r \in Request, NEW g \in Group,
               EnqueueFull(w, r, g) \/ Enqueue(w, r, g)
        PROVE  batch' = NoBatch
    BY <1>8 DEF EnqueueFull, Enqueue
  <1> QED
    BY <1>3, <1>4, <1>5, <1>6, <1>7, <1>8 DEF Next, Publishing

\* The reactor runs nothing else while a batch is being sent.
LEMMA WorldWaits ==
    ASSUME [Next]_vars, batch # NoBatch, batch' = batch, ~SendPlan, draining # "no"
    PROVE  world' = world /\ draining' # "no"
  BY DEF Next, Publishing, WorldChanges, EnqueueRejected, EnqueueFull, Enqueue, DeferredDrain,
         Flush, DrainHead, DrainEnds, SendPlan, SendPlanFails, BatchDone, Reset, vars, queue
------------------------------------------------------------------------------
(***************************************************************************)
(* Mode and dialogue panel.  A publisher that supplies the panel supplies  *)
(* what it rendered earlier (dialogue_push.py, push.py), so nothing is     *)
(* claimed of its own entry; every other entry is planned with the panel   *)
(* and the mode of one rendering.                                          *)
(***************************************************************************)

LeavesDialogue(e) == e.candidates[Dialogue] = Absent /\ Dialogue \notin e.removed

\* A plan in dialogue mode brings the panel, or finds it shown already.
BringsDialogue(p) ==
    /\ p.snapshot => p.replaced[Dialogue] = world.panels[Dialogue]
    /\ ~p.snapshot => /\ Dialogue \notin p.removed
                      /\ \/ p.replaced[Dialogue] = world.panels[Dialogue]
                         \/ /\ p.replaced[Dialogue] = Absent
                            /\ held.panels[Dialogue] = world.panels[Dialogue]
\* What follows the eager changes leaves the panel as it is.
KeepsDialogue(p) == ~p.snapshot /\ p.replaced[Dialogue] = Absent /\ Dialogue \notin p.removed

PlansBringDialogue(plans) ==
    /\ \A k \in DOMAIN plans : plans[k].mode = world.mode
    /\ world.mode = DialogueMode =>
          /\ 1 \in DOMAIN plans => BringsDialogue(plans[1])
          /\ \A k \in DOMAIN plans : k # 1 => KeepsDialogue(plans[k])

DialogueInv ==
    batch # NoBatch =>
        /\ draining # "no"
        /\ LeavesDialogue(batch[1].entry) => PlansBringDialogue(batch[1].plans)

\* What planning offers for an entry that leaves the panel alone.
LEMMA PlansForDialogue ==
    ASSUME ChainInv, NEW e \in Entry, LeavesDialogue(e), NEW plans \in PlanChoices(e)
    PROVE  PlansBringDialogue(plans)
  <1>1. world.panels \in [Panel -> Value] /\ Dialogue \in Panel
    BY CoordinatorAssumption DEF ChainInv, TypeOK, World
  <1>2. CASE NeedsSnapshot(e)
    <2>1. plans = <<SnapshotPlan>>
      BY <1>2 DEF PlanChoices
    <2>2. DOMAIN plans = {1} /\ plans[1] = SnapshotPlan
      BY <2>1
    <2>3. SnapshotPlan.mode = world.mode /\ SnapshotPlan.replaced = world.panels /\ SnapshotPlan.snapshot
      BY DEF SnapshotPlan
    <2> QED
      BY <2>2, <2>3 DEF PlansBringDialogue, BringsDialogue
  <1>3. CASE ~NeedsSnapshot(e)
    <2>1. PICK n \in Nat : plans = DeltaPlans(e, n)
      BY <1>3, DeltaCountsType DEF PlanChoices
    <2>2. held.panels = baseline.panels
      <3>1. Trusted
        BY <1>3 DEF NeedsSnapshot, Trusted, ChainInv, TypeOK, Baseline
      <3> QED
        BY <3>1 DEF ChainInv, PublicationInv, BaselineIsHeld
    <2>3. \A k \in DOMAIN plans : k \in 1..n /\ plans[k] = DeltaPlan(e, k)
      BY <2>1 DEF DeltaPlans
    <2>4. \A k \in 1..n : /\ DeltaPlan(e, k).mode = world.mode
                          /\ ~DeltaPlan(e, k).snapshot
                          /\ DeltaPlan(e, k).removed = IF k = 1 THEN Removed(e) ELSE {}
                          /\ DeltaPlan(e, k).replaced = IF k = 1 THEN Replaced(e) ELSE NoPanels
      BY DEF DeltaPlan
    <2>5. Dialogue \notin Removed(e) /\ NoPanels[Dialogue] = Absent
      BY <1>1 DEF Removed, LeavesDialogue, NoPanels
    <2>6. ASSUME world.mode = DialogueMode
          PROVE  \/ Replaced(e)[Dialogue] = world.panels[Dialogue]
                 \/ Replaced(e)[Dialogue] = Absent /\ held.panels[Dialogue] = world.panels[Dialogue]
      <3>1. Dialogue \in Scope(e)
        BY <2>6 DEF Scope, LeavesDialogue
      <3>2. Rendered(e, Dialogue) = world.panels[Dialogue]
        BY DEF Rendered, LeavesDialogue
      <3>3. Replaced(e)[Dialogue] = IF Rendered(e, Dialogue) # baseline.panels[Dialogue]
                                    THEN Rendered(e, Dialogue) ELSE Absent
        BY <1>1, <3>1 DEF Replaced
      <3> QED
        BY <2>2, <3>2, <3>3
    <2>7. ASSUME world.mode = DialogueMode, 1 \in DOMAIN plans PROVE BringsDialogue(plans[1])
      <3>1. plans[1] = DeltaPlan(e, 1) /\ 1 \in 1..n
        BY <2>3, <2>7
      <3>2. ~plans[1].snapshot /\ plans[1].removed = Removed(e) /\ plans[1].replaced = Replaced(e)
        BY <2>4, <3>1
      <3> QED
        BY <2>5, <2>6, <2>7, <3>2 DEF BringsDialogue
    <2>8. ASSUME NEW k \in DOMAIN plans, k # 1 PROVE KeepsDialogue(plans[k])
      <3>1. ~plans[k].snapshot /\ plans[k].removed = {} /\ plans[k].replaced = NoPanels
        BY <2>3, <2>4, <2>8
      <3> QED
        BY <2>5, <3>1 DEF KeepsDialogue
    <2>9. \A k \in DOMAIN plans : plans[k].mode = world.mode
      BY <2>3, <2>4
    <2> QED
      BY <2>7, <2>8, <2>9 DEF PlansBringDialogue
  <1> QED
    BY <1>2, <1>3

\* Adopting such a plan shows the dialogue.
LEMMA AdoptionBringsDialogue ==
    ASSUME NEW p \in Plan, BringsDialogue(p), ChainInv
    PROVE  AdoptedPanels(held, p)[Dialogue] = world.panels[Dialogue]
  <1>1. Dialogue \in Panel /\ world.panels[Dialogue] # Absent
    BY CoordinatorAssumption DEF ChainInv, TypeOK, World
  <1>2. CASE p.snapshot
    BY <1>2 DEF AdoptedPanels, BringsDialogue
  <1>3. CASE ~p.snapshot
    <2>1. AdoptedPanels(held, p)[Dialogue] =
              IF p.replaced[Dialogue] # Absent THEN p.replaced[Dialogue]
              ELSE IF Dialogue \in p.removed THEN Absent
              ELSE held.panels[Dialogue]
      BY <1>1, <1>3 DEF AdoptedPanels
    <2> QED
      BY <1>1, <1>3, <2>1 DEF BringsDialogue
  <1> QED
    BY <1>2, <1>3

LEMMA DialogueStep ==
    ASSUME ChainInv, DialogueInv, [Next]_vars
    PROVE  DialogueInv'
  <1>1. CASE SendPlan
    <2> DEFINE plans == batch[1].plans
    <2>1. /\ 1 \in DOMAIN plans /\ plans[1] \in Plan
          /\ held'.panels = AdoptedPanels(held, plans[1])
          /\ batch # NoBatch /\ batch'[1].entry = batch[1].entry
          /\ \A k \in DOMAIN batch'[1].plans :
                k \in Nat /\ k + 1 \in DOMAIN plans /\ batch'[1].plans[k] = plans[k + 1]
          /\ DOMAIN batch'[1].plans = 1..(Len(plans) - 1)
      BY <1>1, SendPlanEffect DEF SendPlan
    <2>2. world' = world /\ draining' = draining /\ draining # "no"
      BY <1>1, <2>1 DEF SendPlan, queue, DialogueInv
    <2>a. PICK rest : rest = batch'[1].plans
      OBVIOUS
    <2>3. ASSUME LeavesDialogue(batch[1].entry) PROVE PlansBringDialogue(rest)'
      <3>1. /\ \A k \in DOMAIN plans : plans[k].mode = world.mode
            /\ world.mode = DialogueMode => /\ BringsDialogue(plans[1])
                                            /\ \A k \in DOMAIN plans : k # 1 => KeepsDialogue(plans[k])
        BY <2>1, <2>3 DEF DialogueInv, PlansBringDialogue
      <3>2. \A k \in DOMAIN rest : rest[k].mode = world'.mode
        BY <2>1, <2>2, <2>a, <3>1
      <3>3. ASSUME world.mode = DialogueMode, NEW k \in DOMAIN rest PROVE KeepsDialogue(rest[k])
        <4>1. k \in Nat /\ k + 1 \in DOMAIN plans /\ rest[k] = plans[k + 1]
          BY <2>1, <2>a
        <4>2. k \in 1..(Len(plans) - 1)
          BY <2>1, <2>a
        <4>3. k + 1 # 1
          BY <4>1, <4>2
        <4> QED
          BY <3>1, <3>3, <4>1, <4>3
      <3>4. world.mode = DialogueMode => held'.panels[Dialogue] = world'.panels[Dialogue]
        BY <2>1, <2>2, <3>1, AdoptionBringsDialogue
      <3>5. ASSUME world.mode = DialogueMode, 1 \in DOMAIN rest PROVE BringsDialogue(rest[1])'
        BY <3>3, <3>4, <3>5 DEF KeepsDialogue, BringsDialogue
      <3> QED
        BY <2>2, <3>2, <3>3, <3>5 DEF PlansBringDialogue, KeepsDialogue
    <2> QED
      BY <2>1, <2>2, <2>a, <2>3 DEF DialogueInv, LeavesDialogue
  <1>2. ASSUME NEW k \in 1..Len(pending), batch = NoBatch, Execute(k), ExecutePlan(k),
               DrainHead \/ Flush(k)
        PROVE  DialogueInv'
    <2>1. PICK plans \in PlanChoices(pending[k]) : batch' = <<[entry |-> pending[k], plans |-> plans]>>
      BY <1>2 DEF ExecutePlan
    <2>2. held' = held /\ world' = world
      BY <1>2 DEF ExecutePlan, Execute
    <2>3. draining' # "no"
      BY <1>2 DEF DrainHead, Flush
    <2>4. pending[k] \in Entry
      BY DEF ChainInv, TypeOK
    <2>5. batch'[1].plans = plans /\ batch'[1].entry = pending[k]
      BY <2>1
    <2>6. LeavesDialogue(pending[k]) => PlansBringDialogue(plans)
      BY <2>4, PlansForDialogue
    <2> QED
      BY <2>2, <2>3, <2>5, <2>6
      DEF DialogueInv, LeavesDialogue, PlansBringDialogue, BringsDialogue, KeepsDialogue
  <1>3. CASE batch' = NoBatch
    BY <1>3 DEF DialogueInv
  <1>4. CASE batch # NoBatch /\ batch' = batch /\ ~SendPlan
    <2>1. held'.panels = held.panels
      <3>1. ~SendPlanFails
        BY <1>4 DEF SendPlanFails
      <3> QED
        BY <1>4, <3>1, OtherStep
    <2>2. world' = world /\ draining' # "no"
      BY <1>4, WorldWaits DEF DialogueInv
    <2> QED
      BY <1>4, <2>1, <2>2
      DEF DialogueInv, LeavesDialogue, PlansBringDialogue, BringsDialogue, KeepsDialogue
  <1> QED
    BY <1>1, <1>2, <1>3, <1>4, BatchSteps

\* Whatever puts the receiver into dialogue mode, or keeps it there, brings the
\* dialogue of that very rendering, unless its publisher supplied or removed the
\* panel: whatever stale payload was shown before is gone after it, for every
\* registry and every history of pushes, failed sends and repairs (_plan_delta).
THEOREM DialogueComesWithItsMode == Spec => ModeBringsDialogue
  <1>1. Init => DialogueInv
    BY DEF Init, DialogueInv
  <1>2. ChainInv /\ DialogueInv /\ [Next]_vars => DialogueInv'
    BY DialogueStep
  <1>3. ChainInv /\ DialogueInv /\ [Next]_vars =>
          [LET e == batch[1].entry IN
           /\ batch # NoBatch
           /\ held'.revision # held.revision \/ held'.epoch # held.epoch
           /\ held'.mode = DialogueMode
           /\ e.candidates[Dialogue] = Absent /\ Dialogue \notin e.removed
           => held'.panels[Dialogue] = world.panels[Dialogue]]_vars
    <2> SUFFICES ASSUME ChainInv, DialogueInv, [Next]_vars, batch # NoBatch,
                        held'.revision # held.revision \/ held'.epoch # held.epoch,
                        held'.mode = DialogueMode, LeavesDialogue(batch[1].entry)
                 PROVE  held'.panels[Dialogue] = world.panels[Dialogue]
      BY DEF LeavesDialogue
    <2>1. PlansBringDialogue(batch[1].plans)
      BY DEF DialogueInv
    <2>2. CASE SendPlan
      <3>1. /\ 1 \in DOMAIN batch[1].plans /\ batch[1].plans[1] \in Plan
            /\ held'.panels = AdoptedPanels(held, batch[1].plans[1])
            /\ held'.mode = batch[1].plans[1].mode
        BY <2>2, SendPlanEffect
      <3>2. BringsDialogue(batch[1].plans[1])
        BY <2>1, <3>1 DEF PlansBringDialogue
      <3> QED
        BY <3>1, <3>2, AdoptionBringsDialogue
    <2>3. CASE SendPlanFails
      <3> DEFINE plan == batch[1].plans[1]
      <3>1. batch[1].plans # <<>> /\ batch[1].plans \in Seq(Plan) /\ held \in Held
        BY <2>3, BatchType DEF SendPlanFails, ChainInv, TypeOK
      <3>2. 1 \in DOMAIN batch[1].plans /\ plan \in Plan /\ plan = Head(batch[1].plans)
        BY <3>1
      <3>3. held' \in {held, [held EXCEPT !.epoch = epoch, !.revision = plan.revision,
                               !.panels = AdoptedPanels(held, plan),
                               !.mode = plan.mode, !.time = plan.time, !.gap = FALSE]}
        BY <2>3, <3>1, <3>2, NextPlanAdopted DEF SendPlanFails
      <3> HIDE DEF plan
      <3>4. held'.mode = plan.mode /\ held'.panels = AdoptedPanels(held, plan)
        BY <3>1, <3>3 DEF Held
      <3>5. BringsDialogue(plan)
        BY <2>1, <3>2, <3>4 DEF PlansBringDialogue, plan
      <3> QED
        BY <3>2, <3>4, <3>5, AdoptionBringsDialogue
    <2>4. CASE ~SendPlan /\ ~SendPlanFails
      BY <2>4, OtherStep
    <2> QED
      BY <2>2, <2>3, <2>4
  <1> QED
    BY <1>1, <1>2, <1>3, ChainCorrect, PTL DEF Spec, ModeBringsDialogue
------------------------------------------------------------------------------
(***************************************************************************)
(* Publications of unknown scope.  The game does not move while a batch is *)
(* being sent, so what was planned for the world is still owed to it.      *)
(***************************************************************************)

\* An entry that asks for everything and brings nothing of its own.
AsksForAll(e) == e.unknownScope /\ e.candidates = NoPanels /\ e.removed = {}

\* The receiver shows the world, or does so once the first plan is adopted.
ShowsWorld ==
    held.panels = world.panels /\ held.mode = world.mode /\ held.time = world.time
LeadsToWorld(p) ==
    /\ p.mode = world.mode /\ p.time = world.time
    /\ p.snapshot => p.replaced = world.panels
    /\ ~p.snapshot => /\ p.removed = {}
                      /\ \A q \in Panel : world.panels[q] = IF p.replaced[q] # Absent THEN p.replaced[q]
                                                            ELSE held.panels[q]
\* What follows the eager changes carries map bodies only.
AddsNothing(p) ==
    /\ p.mode = world.mode /\ p.time = world.time
    /\ ~p.snapshot /\ p.removed = {}
    /\ \A q \in Panel : p.replaced[q] = Absent

PlansShowWorld(plans) ==
    /\ DOMAIN plans = {} => ShowsWorld
    /\ 1 \in DOMAIN plans => LeadsToWorld(plans[1])
    /\ \A k \in DOMAIN plans : k # 1 => AddsNothing(plans[k])

RefreshInv ==
    batch # NoBatch =>
        /\ draining # "no"
        /\ AsksForAll(batch[1].entry) => PlansShowWorld(batch[1].plans)

\* What planning offers for such an entry brings the receiver to the world.
LEMMA PlansRefresh ==
    ASSUME ChainInv, NEW e \in Entry, AsksForAll(e), NEW plans \in PlanChoices(e)
    PROVE  PlansShowWorld(plans)
  <1>1. world.panels \in [Panel -> Value] /\ Absent \notin Value
    BY CoordinatorAssumption DEF ChainInv, TypeOK, World
  <1>2. CASE NeedsSnapshot(e)
    <2>1. plans = <<SnapshotPlan>>
      BY <1>2 DEF PlanChoices
    <2>2. DOMAIN plans = {1} /\ plans[1] = SnapshotPlan
      BY <2>1
    <2>3. LeadsToWorld(SnapshotPlan)
      BY DEF LeadsToWorld, SnapshotPlan
    <2> QED
      BY <2>2, <2>3 DEF PlansShowWorld
  <1>3. CASE ~NeedsSnapshot(e)
    <2>1. PICK n \in DeltaCounts(e) : plans = DeltaPlans(e, n)
      BY <1>3 DEF PlanChoices
    <2>2. /\ held.panels = baseline.panels /\ held.mode = baseline.mode /\ held.time = baseline.time
          /\ baseline.panels \in Content
      <3>1. Trusted
        BY <1>3 DEF NeedsSnapshot, Trusted, ChainInv, TypeOK, Baseline
      <3> QED
        BY <3>1 DEF ChainInv, PublicationInv, BaselineIsHeld, TypeOK, Baseline
    <2>3. ASSUME NEW p \in Panel
          PROVE  Replaced(e)[p] = IF world.panels[p] # baseline.panels[p] THEN world.panels[p] ELSE Absent
      <3>1. p \in Scope(e)
        BY DEF Scope, AsksForAll
      <3>2. Rendered(e, p) = world.panels[p]
        BY DEF Rendered, AsksForAll, NoPanels
      <3> QED
        BY <3>1, <3>2 DEF Replaced
    <2>4. Removed(e) = {}
      BY DEF Removed, AsksForAll
    <2>5. \A k \in 1..n : /\ DeltaPlan(e, k).mode = world.mode /\ DeltaPlan(e, k).time = world.time
                          /\ ~DeltaPlan(e, k).snapshot
                          /\ DeltaPlan(e, k).removed = {}
                          /\ DeltaPlan(e, k).replaced = IF k = 1 THEN Replaced(e) ELSE NoPanels
      BY <2>4 DEF DeltaPlan
    <2>6. n \in Nat /\ DOMAIN plans = 1..n /\ \A k \in 1..n : plans[k] = DeltaPlan(e, k)
      BY <2>1, DeltaCountsType DEF DeltaPlans
    <2>7. ASSUME n = 0 PROVE ShowsWorld
      <3>1. ~EagerChange(e)
        <4> DEFINE maps == Cardinality(e.declared \intersect MapPanel)
        <4>1. maps \in Nat
          <5>1. IsFiniteSet(e.declared \intersect MapPanel)
            BY CoordinatorAssumption, FS_Subset
          <5> QED
            BY <5>1, FS_CardinalityType
        <4> DEFINE eager == IF EagerChange(e) THEN 1 ELSE 0
        <4>2. n \in (IF maps = 0 THEN {eager} ELSE {1, eager + maps})
          BY <2>1 DEF DeltaCounts
        <4> HIDE DEF maps
        <4>3. eager = 0
          BY <2>7, <4>1, <4>2
        <4> QED
          BY <4>3
      <3>2. world.mode = baseline.mode /\ world.time = baseline.time /\ Replaced(e) = NoPanels
        BY <3>1 DEF EagerChange
      <3>3. \A p \in Panel : world.panels[p] = baseline.panels[p]
        <4>1. \A p \in Panel : Replaced(e)[p] = Absent
          BY <3>2 DEF NoPanels
        <4> QED
          BY <1>1, <2>3, <4>1
      <3>4. world.panels = baseline.panels
        BY <1>1, <2>2, <3>3 DEF Content
      <3> QED
        BY <2>2, <3>2, <3>4 DEF ShowsWorld
    <2>8. ASSUME 1 \in DOMAIN plans PROVE LeadsToWorld(plans[1])
      <3>1. plans[1] = DeltaPlan(e, 1) /\ 1 \in 1..n
        BY <2>6, <2>8
      <3>2. /\ plans[1].mode = world.mode /\ plans[1].time = world.time
            /\ ~plans[1].snapshot /\ plans[1].removed = {} /\ plans[1].replaced = Replaced(e)
        BY <2>5, <3>1
      <3>3. \A q \in Panel : world.panels[q] = IF Replaced(e)[q] # Absent THEN Replaced(e)[q] ELSE held.panels[q]
        BY <1>1, <2>2, <2>3
      <3> QED
        BY <3>2, <3>3 DEF LeadsToWorld
    <2>9. ASSUME NEW k \in DOMAIN plans, k # 1 PROVE AddsNothing(plans[k])
      <3>1. k \in 1..n /\ plans[k] = DeltaPlan(e, k)
        BY <2>6
      <3>2. /\ plans[k].mode = world.mode /\ plans[k].time = world.time
            /\ ~plans[k].snapshot /\ plans[k].removed = {} /\ plans[k].replaced = NoPanels
        BY <2>5, <2>9, <3>1
      <3> QED
        BY <3>2 DEF AddsNothing, NoPanels
    <2>10. DOMAIN plans = {} => n = 0
      BY <2>6
    <2> QED
      BY <2>7, <2>8, <2>9, <2>10 DEF PlansShowWorld
  <1> QED
    BY <1>2, <1>3

\* Adopting a plan that leads to the world shows it.
LEMMA AdoptionShows ==
    ASSUME ChainInv, NEW p \in Plan, LeadsToWorld(p)
    PROVE  AdoptedPanels(held, p) = world.panels
  <1>1. world.panels \in [Panel -> Value]
    BY DEF ChainInv, TypeOK, World
  <1>2. CASE p.snapshot
    BY <1>2 DEF AdoptedPanels, LeadsToWorld
  <1>3. CASE ~p.snapshot
    <2>1. AdoptedPanels(held, p) =
              [q \in Panel |-> IF p.replaced[q] # Absent THEN p.replaced[q]
                               ELSE IF q \in p.removed THEN Absent
                               ELSE held.panels[q]]
      BY <1>3 DEF AdoptedPanels
    <2>2. \A q \in Panel : world.panels[q] = (IF p.replaced[q] # Absent THEN p.replaced[q]
                               ELSE IF q \in p.removed THEN Absent
                               ELSE held.panels[q])
      BY <1>3 DEF LeadsToWorld
    <2> QED
      BY <1>1, <2>1, <2>2
  <1> QED
    BY <1>2, <1>3

LEMMA RefreshStep ==
    ASSUME ChainInv, RefreshInv, [Next]_vars
    PROVE  RefreshInv'
  <1>1. CASE SendPlan
    <2> DEFINE plans == batch[1].plans
    <2>1. /\ 1 \in DOMAIN plans /\ plans[1] \in Plan
          /\ held'.panels = AdoptedPanels(held, plans[1])
          /\ held'.mode = plans[1].mode /\ held'.time = plans[1].time
          /\ batch # NoBatch /\ batch'[1].entry = batch[1].entry
          /\ \A k \in DOMAIN batch'[1].plans :
                k \in Nat /\ k + 1 \in DOMAIN plans /\ batch'[1].plans[k] = plans[k + 1]
          /\ DOMAIN batch'[1].plans = 1..(Len(plans) - 1)
      BY <1>1, SendPlanEffect DEF SendPlan
    <2>2. world' = world /\ draining' = draining /\ draining # "no"
      BY <1>1, <2>1 DEF SendPlan, queue, RefreshInv
    <2>a. PICK rest : rest = batch'[1].plans
      OBVIOUS
    <2>3. ASSUME AsksForAll(batch[1].entry) PROVE PlansShowWorld(rest)'
      <3>1. LeadsToWorld(plans[1]) /\ \A k \in DOMAIN plans : k # 1 => AddsNothing(plans[k])
        BY <2>1, <2>3 DEF RefreshInv, PlansShowWorld
      <3>2. ShowsWorld'
        BY <2>1, <2>2, <3>1, AdoptionShows DEF ShowsWorld, LeadsToWorld
      <3>3. ASSUME NEW k \in DOMAIN rest PROVE AddsNothing(rest[k])
        <4>1. k \in Nat /\ k + 1 \in DOMAIN plans /\ rest[k] = plans[k + 1]
          BY <2>1, <2>a
        <4>2. k \in 1..(Len(plans) - 1)
          BY <2>1, <2>a
        <4>3. k + 1 # 1
          BY <4>1, <4>2
        <4> QED
          BY <3>1, <4>1, <4>3
      <3>4. \A k \in DOMAIN rest : AddsNothing(rest[k])'
        BY <2>2, <3>3 DEF AddsNothing
      <3>5. ASSUME NEW k \in DOMAIN rest PROVE LeadsToWorld(rest[k])'
        BY <3>2, <3>4 DEF AddsNothing, LeadsToWorld, ShowsWorld
      <3> QED
        BY <3>2, <3>4, <3>5 DEF PlansShowWorld
    <2> QED
      BY <2>1, <2>2, <2>a, <2>3 DEF RefreshInv, AsksForAll
  <1>2. ASSUME NEW k \in 1..Len(pending), batch = NoBatch, Execute(k), ExecutePlan(k),
               DrainHead \/ Flush(k)
        PROVE  RefreshInv'
    <2>1. PICK plans \in PlanChoices(pending[k]) : batch' = <<[entry |-> pending[k], plans |-> plans]>>
      BY <1>2 DEF ExecutePlan
    <2>2. held' = held /\ world' = world
      BY <1>2 DEF ExecutePlan, Execute
    <2>3. draining' # "no"
      BY <1>2 DEF DrainHead, Flush
    <2>4. pending[k] \in Entry
      BY DEF ChainInv, TypeOK
    <2>5. batch'[1].plans = plans /\ batch'[1].entry = pending[k]
      BY <2>1
    <2>6. AsksForAll(pending[k]) => PlansShowWorld(plans)
      BY <2>4, PlansRefresh
    <2> QED
      BY <2>2, <2>3, <2>5, <2>6
      DEF RefreshInv, AsksForAll, PlansShowWorld, ShowsWorld, LeadsToWorld, AddsNothing
  <1>3. CASE batch' = NoBatch
    BY <1>3 DEF RefreshInv
  <1>4. CASE batch # NoBatch /\ batch' = batch /\ ~SendPlan
    <2>1. /\ held'.panels = held.panels /\ held'.mode = held.mode /\ held'.time = held.time
      <3>1. ~SendPlanFails
        BY <1>4 DEF SendPlanFails
      <3> QED
        BY <1>4, <3>1, OtherStep
    <2>2. draining # "no"
      BY <1>4 DEF RefreshInv
    <2>3. world' = world /\ draining' # "no"
      BY <1>4, <2>2, WorldWaits
    <2> QED
      BY <1>4, <2>1, <2>3
      DEF RefreshInv, AsksForAll, PlansShowWorld, ShowsWorld, LeadsToWorld, AddsNothing
  <1> QED
    BY <1>1, <1>2, <1>3, <1>4, BatchSteps

\* A publication of unknown scope leaves nothing behind: when its receipt is
\* given the receiver shows what the presenters render now, for every registry
\* and every history of partial deltas, failed sends and repairs
\* (_plan_delta, _plan_snapshot).
THEOREM RefreshesAreComplete == Spec => RefreshIsComplete
  <1>1. Init => RefreshInv
    BY DEF Init, RefreshInv
  <1>2. ChainInv /\ RefreshInv /\ [Next]_vars => RefreshInv'
    BY RefreshStep
  <1>3. ChainInv /\ RefreshInv /\ [Next]_vars =>
          [LET e == batch[1].entry IN
           /\ batch # NoBatch /\ batch' = NoBatch /\ answer'.kind = "receipt"
           /\ e.unknownScope /\ e.candidates = NoPanels /\ e.removed = {}
           => /\ held.panels = world.panels
              /\ held.mode = world.mode
              /\ held.time = world.time]_vars
    <2> SUFFICES ASSUME ChainInv, RefreshInv, [Next]_vars, batch # NoBatch, batch' = NoBatch,
                        answer'.kind = "receipt", AsksForAll(batch[1].entry)
                 PROVE  ShowsWorld
      BY DEF AsksForAll, ShowsWorld
    <2>1. CASE BatchDone
      <3>1. batch[1].plans = <<>>
        BY <2>1 DEF BatchDone
      <3>2. DOMAIN batch[1].plans = {}
        BY <3>1
      <3> QED
        BY <3>2 DEF RefreshInv, PlansShowWorld
    <2>2. CASE SendPlanFails
      <3>1. answer' = [kind |-> "failed", revision |-> 0]
        BY <2>2 DEF SendPlanFails, Answered
      <3>2. answer'.kind = "failed"
        BY <3>1
      <3> QED
        BY <3>2
    <2>3. CASE SendPlan
      BY <2>3, SendPlanEffect
    <2>4. ~BatchDone /\ ~SendPlanFails /\ ~SendPlan => batch' = batch \/ batch = NoBatch
      BY DEF Next, Publishing, WorldChanges, EnqueueRejected, EnqueueFull, Enqueue, DeferredDrain,
         Flush, DrainHead, DrainEnds, Reset, vars, queue
    <2> QED
      BY <2>1, <2>2, <2>3, <2>4
  <1> QED
    BY <1>1, <1>2, <1>3, ChainCorrect, PTL DEF Spec, RefreshIsComplete
==============================================================================
