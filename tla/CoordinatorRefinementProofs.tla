--------------------- MODULE CoordinatorRefinementProofs ---------------------
(***************************************************************************)
(* The publication owner implements PublicationStream, for every registry, *)
(* payload, number of waiters and bound.  The argument: the chain of       *)
(* CoordinatorProofs makes every sent plan one that the receiver adopts at *)
(* the next target; every other step leaves the stream alone or distrusts  *)
(* the baseline.                                                           *)
(***************************************************************************)
EXTENDS CoordinatorRefinement, CoordinatorProofs

Seen(h) == [epoch |-> h.epoch, revision |-> h.revision,
            content |-> [panels |-> h.panels, mode |-> h.mode, time |-> h.time]]

View(h) == [panels |-> h.panels, mode |-> h.mode, time |-> h.time]

\* A result the receiver gets shows it nothing.
LEMMA ResultShowsNothing ==
    ASSUME held \in Held, NEW e, NEW r, held' = SendResult(held, e, r)
    PROVE  Seen(held') = Seen(held)
  BY DEF SendResult, Held, Seen

LEMMA PictureOfPlan ==
    ASSUME held \in Held, NEW plan \in Plan
    PROVE  View([held EXCEPT !.epoch = epoch, !.revision = plan.revision,
                             !.panels = AdoptedPanels(held, plan),
                             !.mode = plan.mode, !.time = plan.time, !.gap = FALSE]) \in Picture
  <1>1. AdoptedPanels(held, plan) \in Content
    BY DEF AdoptedPanels, Held, Plan, Content
  <1> QED
    BY <1>1 DEF View, Picture, Held, Plan

\* A step that shows nothing and keeps the baseline's standing is a stutter.
LEMMA StreamStutters ==
    ASSUME Seen(held') = Seen(held), epoch' = epoch, revision' = revision, Trusted' = Trusted
    PROVE  UNCHANGED Stream!stream
  BY DEF Stream!stream, Seen

\* A planned revision is below the ceiling.
LEMMA RoomForPlan ==
    ASSUME ChainInv, NEW p \in Plan, p.revision = revision + 1
    PROVE  held \in Held /\ revision \in Nat /\ revision < MaxRevision
  <1>1. held \in Held /\ revision \in Revision
    BY DEF ChainInv, TypeOK
  <1>2. revision \in Nat
    BY <1>1 DEF Revision
  <1>3. revision + 1 <= MaxRevision
    BY PlanNumbers
  <1> QED
    BY <1>1, <1>2, <1>3, CoordinatorAssumption

LEMMA SendPlanPublishes ==
    ASSUME ChainInv, SendPlan
    PROVE  Stream!Next
  <1> DEFINE plan == Head(batch[1].plans)
             seen == [held EXCEPT !.epoch = epoch, !.revision = plan.revision,
                             !.panels = AdoptedPanels(held, plan),
                             !.mode = plan.mode, !.time = plan.time, !.gap = FALSE]
  <1>1. /\ plan \in Plan /\ plan.revision = revision + 1
        /\ plan.snapshot \/ Trusted
        /\ held' = seen
    BY NextPlanAdopted DEF SendPlan
  <1>2. /\ revision' = revision + 1 /\ epoch' = epoch
        /\ baseline' = Install(plan)
        /\ repairRequired' = IF plan.snapshot THEN FALSE ELSE repairRequired
    BY <1>1 DEF SendPlan
  <1>3. Trusted'
    BY <1>1, <1>2 DEF Trusted, Install
  <1>4. held \in Held /\ revision \in Nat /\ revision < MaxRevision
    BY <1>1, RoomForPlan
  <1> HIDE DEF plan
  <1>5. View(held') \in Picture
    BY <1>1, <1>4, PictureOfPlan
  <1>6. held'.epoch = epoch /\ held'.revision = revision + 1
    BY <1>1, <1>4 DEF Held
  <1> DEFINE kind == IF plan.snapshot THEN "snapshot" ELSE "delta"
  <1>7. Stream!Publish(kind, View(held'))
    BY <1>1, <1>2, <1>3, <1>4, <1>6 DEF Stream!Publish, View
  <1> QED
    BY <1>5, <1>7 DEF Stream!Next

LEMMA SendPlanFailsLoses ==
    ASSUME ChainInv, SendPlanFails
    PROVE  Stream!Next
  <1> DEFINE plan == Head(batch[1].plans)
             seen == [held EXCEPT !.epoch = epoch, !.revision = plan.revision,
                             !.panels = AdoptedPanels(held, plan),
                             !.mode = plan.mode, !.time = plan.time, !.gap = FALSE]
  <1>1. plan \in Plan /\ plan.revision = revision + 1 /\ Adopt(held, plan) = seen
    BY NextPlanAdopted DEF SendPlanFails
  <1>2. /\ revision' = revision + 1 /\ epoch' = epoch
        /\ held' \in {held, seen}
        /\ repairRequired' = TRUE
    BY <1>1 DEF SendPlanFails, InvalidateBaseline
  <1>3. ~Trusted'
    BY <1>2 DEF Trusted
  <1>4. held \in Held /\ revision \in Nat /\ revision < MaxRevision
    BY <1>1, RoomForPlan
  <1> HIDE DEF plan
  <1>5. View(seen) \in Picture /\ seen.epoch = epoch /\ seen.revision = revision + 1
    BY <1>1, <1>4, PictureOfPlan DEF Held
  <1>6. CASE held' = seen
    <2>1. Stream!Lose(TRUE, View(seen))
      BY <1>2, <1>3, <1>4, <1>5, <1>6 DEF Stream!Lose, View
    <2> QED
      BY <1>5, <2>1 DEF Stream!Next
  <1>7. CASE held' = held
    <2>1. Stream!Lose(FALSE, View(seen))
      BY <1>2, <1>3, <1>4, <1>7 DEF Stream!Lose
    <2> QED
      BY <1>5, <2>1 DEF Stream!Next
  <1> QED
    BY <1>2, <1>6, <1>7

LEMMA ExecuteStutters ==
    ASSUME ChainInv, NEW k, Execute(k)
    PROVE  UNCHANGED Stream!stream
  <1>1. held \in Held /\ UNCHANGED owner
    BY DEF ChainInv, TypeOK, Execute, ExecuteRetired, ExecuteResultOnly, ExecutePlan, ExecutePlanFails
  <1>2. CASE held' = held
    BY <1>1, <1>2, StreamStutters DEF owner, Trusted
  <1>3. ASSUME NEW e, NEW r, held' = SendResult(held, e, r) PROVE UNCHANGED Stream!stream
    BY <1>1, <1>3, ResultShowsNothing, StreamStutters DEF owner, Trusted
  <1> QED
    BY <1>2, <1>3 DEF Execute, ExecuteRetired, ExecuteResultOnly, ExecutePlan, ExecutePlanFails

LEMMA RefinesInit == Init => Stream!Init
  <1> SUFFICES ASSUME Init PROVE Stream!Init
    OBVIOUS
  <1>1. held \in Held /\ held.epoch = 0 /\ held.revision = 0
    BY InitType DEF TypeOK, Init
  <1>2. View(held) \in Picture
    BY <1>1 DEF View, Picture, Held
  <1>3. epoch = 1 /\ revision = 0 /\ ~Trusted
    BY DEF Init, Trusted, NoBaseline
  <1>4. 0 \in 0..MaxEpoch /\ 0 \in 0..MaxRevision
    BY CoordinatorAssumption
  <1> QED
    BY <1>1, <1>2, <1>3, <1>4 DEF Stream!Init, Stream!Shown, View

LEMMA RefinesStep == ChainInv /\ [Next]_vars => [Stream!Next]_(Stream!stream)
  <1> SUFFICES ASSUME ChainInv, [Next]_vars PROVE Stream!Next \/ UNCHANGED Stream!stream
    OBVIOUS
  <1>0. held \in Held
    BY DEF ChainInv, TypeOK
  <1>1. ASSUME UNCHANGED <<owner, held>> PROVE UNCHANGED Stream!stream
    BY <1>1, StreamStutters DEF owner, Trusted, Seen
  <1>2. CASE WorldChanges \/ DeferredDrain \/ DrainEnds \/ UNCHANGED vars
    BY <1>1, <1>2 DEF WorldChanges, DeferredDrain, DrainEnds, vars
  <1>3. ASSUME NEW w \in Waiter, NEW r \in Request, EnqueueRejected(w, r)
        PROVE  UNCHANGED Stream!stream
    BY <1>1, <1>3 DEF EnqueueRejected
  <1>4. ASSUME NEW w \in Waiter, NEW r \in Request, NEW g \in Group, Enqueue(w, r, g)
        PROVE  UNCHANGED Stream!stream
    BY <1>1, <1>4 DEF Enqueue
  <1>5. ASSUME NEW w \in Waiter, NEW r \in Request, NEW g \in Group, EnqueueFull(w, r, g)
        PROVE  Stream!Next
    <2>1. ~Trusted' /\ epoch' = epoch /\ revision' = revision /\ held' = held
      BY <1>5 DEF EnqueueFull, InvalidateBaseline, Trusted
    <2>2. Stream!Distrust
      BY <2>1 DEF Stream!Distrust
    <2> QED
      BY <2>2 DEF Stream!Next
  <1>6. CASE Reset
    <2>1. /\ epoch < MaxEpoch /\ epoch' = epoch + 1 /\ revision' = 0 /\ held' = held
          /\ ~Trusted'
      BY <1>6 DEF Reset, NoBaseline, Trusted
    <2>2. Stream!Reset
      BY <2>1 DEF Stream!Reset
    <2> QED
      BY <2>2 DEF Stream!Next
  <1>7. CASE BatchDone
    <2>1. UNCHANGED owner
      BY <1>7 DEF BatchDone
    <2>2. ASSUME NEW e, NEW r, held' = SendResult(held, e, r) PROVE UNCHANGED Stream!stream
      BY <1>0, <2>1, <2>2, ResultShowsNothing, StreamStutters DEF owner, Trusted
    <2> QED
      BY <1>1, <1>7, <2>1, <2>2 DEF BatchDone
  <1> QED
    BY <1>2, <1>3, <1>4, <1>5, <1>6, <1>7, ExecuteStutters, SendPlanPublishes, SendPlanFailsLoses
    DEF Next, Publishing, DrainHead, Flush

\* The publication owner implements the stream it promises (coordinator.py
\* _drain, _publish_now, _send_plans, reset).
THEOREM Implementation == Spec => ImplementsStream
  BY RefinesInit, RefinesStep, ChainCorrect, PTL DEF Spec, ImplementsStream, Stream!Spec
==============================================================================
