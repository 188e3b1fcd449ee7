--------------------------- MODULE OwnerSleepProofs ---------------------------
(***************************************************************************)
(* Proofs about the sleep continuation, for any length of sleep, any bound *)
(* on the intervals and any number of views, asks and faults.  What the    *)
(* loop holds in memory and what its last transaction left behind are      *)
(* related to what was settled (AccountInv), and to the player's word      *)
(* (LicenceInv): a pending record of this view and sleep carries it over   *)
(* a crash, and every step that revokes it makes the record another's.     *)
(***************************************************************************)
EXTENDS OwnerSleepProperties, TLAPS

USE SleepAssumption

\* Records are of views and sleeps there have been.
PastInv == decision.generation <= generation /\ decision.sleep <= receipt.sleep

AccountInv ==
    /\ \A o \in Operation : settled[o].n = 0 => settled[o].seconds = 0
    /\ ElapsedAgrees
    /\ Running => /\ settled[run.op].seconds = run.total
                  /\ run.outcome = "go" => settled[run.op].n = run.next

LicenceInv ==
    /\ Running /\ run.outcome = "go" => licence /\ OwnView
    /\ decision.continuation = "pending" /\ Answered /\ Asleep => licence

SleepInv == TypeOK /\ PastInv /\ AccountInv /\ LicenceInv

LEMMA InitInv == ASSUME Init PROVE SleepInv
<1>1. receipt \in Receipt
  BY DEF Init, Receipt, Sleep, Mode
<1>2. decision \in Decision
  BY DEF Init, Decision, Sleep, NoOp
<1>3. run \in Run
  BY DEF Init, Idle, Run, NoOp
<1>4. TypeOK
  <2>1. 0 \in 0..MaxView /\ 0 \in 0..MaxAsk /\ 0 \in 0..MaxFault
    OBVIOUS
  <2>2. settled \in [Operation -> [n : Nat, seconds : Nat]] /\ published \in [Sleep -> Nat]
    BY DEF Init
  <2> QED  BY <1>1, <1>2, <1>3, <2>1, <2>2 DEF Init, TypeOK
<1>5. PastInv /\ AccountInv /\ LicenceInv
  BY DEF Init, PastInv, AccountInv, ElapsedAgrees, LicenceInv, Running, Asleep, Idle, NoOp
<1> QED  BY <1>4, <1>5 DEF SleepInv

---------------------------------------------------------------------------
(* Types.                                                                  *)

LEMMA RevokedType == ASSUME TypeOK PROVE Revoked \in Decision
BY DEF TypeOK, Revoked, Decision

LEMMA ReconciledType ==
    ASSUME TypeOK, NEW n \in 0..receipt.left, NEW due \in BOOLEAN, NEW event \in Event
    PROVE  Reconciled(n, due, event) \in Receipt
<1>1. receipt.left \in 0..MaxSleep
  BY DEF TypeOK, Receipt
<1>2. receipt.left - n \in 0..MaxSleep
  BY <1>1
<1> DEFINE state == IF due THEN "completed"
                    ELSE IF Wakes(event, due) THEN "interrupted" ELSE receipt.state
<1>3. state \in {"none", "sleeping", "interrupted", "completed"}
  BY DEF TypeOK, Receipt
<1>4. Reconciled(n, due, event) = [receipt EXCEPT !.left = receipt.left - n, !.state = state]
  BY DEF TypeOK, Receipt, Reconciled
<1> HIDE DEF state
<1> QED  BY <1>2, <1>3, <1>4 DEF TypeOK, Receipt

LEMMA ViewType ==
    ASSUME TypeOK, NEW a \in {"entered", "declined"}, NEW c \in {"none", "pending"}
    PROVE  View(a, c) \in Decision
BY DEF TypeOK, View, Decision, Receipt, NoOp

LEMMA BeginType == ASSUME TypeOK, Begin PROVE run' \in Run
BY DEF TypeOK, Begin, FreshOp, Idle, Run

LEMMA TypeStep == ASSUME TypeOK, Next PROVE TypeOK'
<1>0. /\ receipt.sleep \in 0..MaxView
      /\ receipt.sleep < MaxView => receipt.sleep + 1 \in 0..MaxView
      /\ generation < MaxView => generation + 1 \in 0..MaxView
      /\ asks < MaxAsk => asks + 1 \in 0..MaxAsk
      /\ faults < MaxFault => faults + 1 \in 0..MaxFault
  BY DEF TypeOK, Receipt, Sleep
<1>1. ASSUME NEW d \in 1..MaxSleep, Exhaust(d) PROVE TypeOK'
  <2>1. receipt' \in Receipt
    BY <1>0, <1>1 DEF Exhaust, Receipt, Sleep, Mode
  <2> QED  BY <1>1, <2>1 DEF Exhaust, TypeOK
<1>2. ASSUME NEW d \in 1..MaxSleep, NEW m \in Mode \ {"forced"}, Enter(m, d) PROVE TypeOK'
  <2>1. receipt' \in Receipt
    BY <1>0, <1>2 DEF Enter, Receipt, Sleep, Mode
  <2> QED  BY <1>0, <1>2, <2>1 DEF Enter, TypeOK
<1>3. CASE PartySleep
  BY <1>3 DEF PartySleep, TypeOK
<1>4. CASE Possess
  BY <1>4 DEF Possess, TypeOK
<1>5. CASE EnterDream
  BY <1>5, ViewType DEF EnterDream, TypeOK
<1>6. CASE Depart
  <2>1. decision' \in Decision
    BY <1>6, ViewType DEF Depart, TypeOK, View, Decision, Receipt, NoOp
  <2>2. run' \in Run
    BY <1>6, BeginType DEF Depart
  <2> QED  BY <1>0, <1>6, <2>1, <2>2 DEF Depart, TypeOK
<1>7. CASE Continue
  BY <1>7, BeginType DEF Continue, TypeOK
<1>8. ASSUME NEW b \in BOOLEAN, Release(b) PROVE TypeOK'
  <2>1. generation' \in 0..MaxView /\ licence' \in BOOLEAN
    BY <1>0, <1>8 DEF Release, TypeOK
  <2> QED  BY <1>8, <2>1 DEF Release, TypeOK
<1>9. ASSUME NEW b \in BOOLEAN, Decline(b) PROVE TypeOK'
  <2>1. decision' \in Decision
    BY <1>9, ViewType DEF Decline
  <2>2. run' \in Run
    BY <1>9, BeginType DEF Decline, TypeOK
  <2> QED  BY <1>9, <2>1, <2>2 DEF Decline, TypeOK
<1>10. ASSUME NEW n \in 0..receipt.left, NEW due \in BOOLEAN, NEW typed \in BOOLEAN,
              NEW e \in Event, Passes(n, due, e, typed)
       PROVE  TypeOK'
  <2>1. receipt' \in Receipt /\ decision' \in Decision
    BY <1>10, ReconciledType, RevokedType DEF Passes, TypeOK
  <2>2. published' \in [Sleep -> Nat]
    BY <1>10 DEF Passes, TypeOK, Receipt
  <2>3. dream' \in BOOLEAN /\ licence' \in BOOLEAN
    BY <1>10 DEF Passes, TypeOK
  <2> QED  BY <1>10, <2>1, <2>2, <2>3 DEF Passes, TypeOK
<1>11. CASE Finish
  <2> DEFINE last == IF run.next = 0 THEN 0 ELSE run.next - 1
             final == IF run.outcome = "go" THEN "paused" ELSE run.outcome
  <2>1. last \in 0..(IntervalBound - 1) /\ final \in {"paused", "complete"}
    BY DEF TypeOK, Run
  <2>2. decision' \in Decision
    BY <1>11, <2>1 DEF Finish, TypeOK, Decision, Receipt, Run
  <2>3. published' \in [Sleep -> Nat]
    BY <1>11 DEF Finish, TypeOK, Receipt
  <2> QED  BY <1>11, <2>2, <2>3 DEF Finish, TypeOK, Idle, Run, NoOp
<1>12. ASSUME NEW contact \in BOOLEAN, Refused(contact) PROVE TypeOK'
  <2>1. run.next \in 0..IntervalBound /\ run.next < IntervalBound
    BY <1>12 DEF Refused, More, TypeOK, Run
  <2>2. run' \in Run
    <3>1. run.next + 1 \in 0..IntervalBound
      BY <2>1
    <3> QED  BY <1>12, <3>1 DEF Refused, TypeOK, Run
  <2>3. receipt' \in Receipt /\ decision' \in Decision
    BY <1>12, RevokedType DEF Refused, TypeOK, Receipt
  <2> QED  BY <1>12, <2>2, <2>3 DEF Refused, TypeOK
<1>13. ASSUME NEW n \in 0..receipt.left, NEW due \in BOOLEAN, NEW e \in Event, Interval(n, due, e)
       PROVE  TypeOK'
  <2>1. /\ n \in Nat /\ run.total \in Nat /\ run.op \in Operation
        /\ run.next \in 0..(IntervalBound - 1)
    BY <1>13 DEF Interval, More, Running, TypeOK, Run, Receipt
  <2>2. run' \in Run
    <3>1. PICK outcome \in {"go", "paused", "complete"} :
            run' = [run EXCEPT !.next = @ + 1, !.total = @ + n, !.outcome = outcome]
      BY <1>13 DEF Interval
    <3>2. run.next + 1 \in 0..IntervalBound /\ run.total + n \in Nat
      BY <2>1
    <3> QED  BY <3>1, <3>2 DEF TypeOK, Run
  <2>3. decision' \in Decision
    <3>1. Disposition(n, due, e) \in {"none", "pending", "paused", "complete"}
      BY DEF Disposition
    <3>2. run.total + n \in Nat /\ receipt.sleep \in Sleep
      BY <2>1 DEF TypeOK, Receipt
    <3> HIDE DEF Disposition
    <3> QED  BY <1>13, <2>1, <3>1, <3>2 DEF Interval, TypeOK, Decision
  <2>4. settled' \in [Operation -> [n : Nat, seconds : Nat]]
    BY <1>13, <2>1 DEF Interval, TypeOK
  <2>5. dream' \in BOOLEAN /\ licence' \in BOOLEAN
    BY <1>13 DEF Interval, TypeOK
  <2> QED  BY <1>13, <2>2, <2>3, <2>4, <2>5, ReconciledType DEF Interval, TypeOK
<1>14. CASE Lost
  BY <1>14 DEF Lost, TypeOK, Idle, Run, NoOp
<1>15. CASE Resume
  <2>1. decision' \in Decision
    <3>1. 0 \in 0..(IntervalBound - 1)
      OBVIOUS
    <3>2. CASE Asleep
      BY <1>15, <3>2 DEF Resume, TypeOK
    <3>3. CASE ~Asleep
      <4>1. decision' = [decision EXCEPT !.continuation = "complete", !.op = NoOp,
                                         !.index = 0, !.elapsed = 0]
        BY <1>15, <3>3 DEF Resume
      <4> QED  BY <3>1, <4>1 DEF TypeOK, Decision
    <3> QED  BY <3>2, <3>3
  <2>2. run' \in Run
    BY <1>15, BeginType DEF Resume, TypeOK, Run, Decision, NoOp
  <2> QED  BY <1>15, <2>1, <2>2 DEF Resume, TypeOK
<1> QED
  BY <1>1, <1>2, <1>3, <1>4, <1>5, <1>6, <1>7, <1>8, <1>9, <1>10, <1>11, <1>12, <1>13,
     <1>14, <1>15 DEF Next, Executor

---------------------------------------------------------------------------
(* Records are of the past.                                                *)

LEMMA PastStep == ASSUME TypeOK, TypeOK', PastInv, Next PROVE PastInv'
<1>0. /\ generation \in Nat /\ receipt.sleep \in Nat
      /\ decision.generation \in Nat /\ decision.sleep \in Nat
  BY DEF TypeOK, Receipt, Decision, Sleep
<1>1. ASSUME NEW d \in 1..MaxSleep, Exhaust(d) PROVE PastInv'
  BY <1>0, <1>1 DEF Exhaust, PastInv
<1>2. ASSUME NEW d \in 1..MaxSleep, NEW m \in Mode \ {"forced"}, Enter(m, d) PROVE PastInv'
  BY <1>0, <1>2 DEF Enter, PastInv
<1>3. CASE PartySleep
  BY <1>0, <1>3 DEF PartySleep, PastInv
<1>4. CASE Possess
  BY <1>0, <1>4 DEF Possess, PastInv
<1>5. CASE EnterDream
  BY <1>0, <1>5 DEF EnterDream, View, PastInv
<1>6. CASE Depart
  BY <1>0, <1>6 DEF Depart, View, PastInv
<1>7. CASE Continue
  BY <1>0, <1>7 DEF Continue, PastInv
<1>8. ASSUME NEW b \in BOOLEAN, Release(b) PROVE PastInv'
  BY <1>0, <1>8 DEF Release, PastInv
<1>9. ASSUME NEW b \in BOOLEAN, Decline(b) PROVE PastInv'
  BY <1>0, <1>9 DEF Decline, View, PastInv
<1>10. ASSUME NEW n \in 0..receipt.left, NEW due \in BOOLEAN, NEW typed \in BOOLEAN,
              NEW e \in Event, Passes(n, due, e, typed)
       PROVE  PastInv'
  <2>1. receipt'.sleep = receipt.sleep
    BY <1>10 DEF Passes, Reconciled, TypeOK, Receipt
  <2>2. decision'.generation = decision.generation /\ decision'.sleep = decision.sleep
    BY <1>10 DEF Passes, Revoked, TypeOK, Decision
  <2> QED  BY <1>10, <2>1, <2>2 DEF Passes, PastInv
<1>11. CASE Finish
  <2>1. decision'.generation = generation /\ decision'.sleep = receipt.sleep
    BY <1>11 DEF Finish, TypeOK, Decision
  <2> QED  BY <1>11, <1>0, <2>1 DEF Finish, PastInv
<1>12. ASSUME NEW contact \in BOOLEAN, Refused(contact) PROVE PastInv'
  <2>1. receipt'.sleep = receipt.sleep
    BY <1>12 DEF Refused, TypeOK, Receipt
  <2>2. decision'.generation = decision.generation /\ decision'.sleep = decision.sleep
    BY <1>12 DEF Refused, Revoked, TypeOK, Decision
  <2> QED  BY <1>12, <2>1, <2>2 DEF Refused, PastInv
<1>13. ASSUME NEW n \in 0..receipt.left, NEW due \in BOOLEAN, NEW e \in Event, Interval(n, due, e)
       PROVE  PastInv'
  <2>1. receipt'.sleep = receipt.sleep
    BY <1>13 DEF Interval, Reconciled, TypeOK, Receipt
  <2>2. decision'.generation = generation /\ decision'.sleep = receipt.sleep
    BY <1>13 DEF Interval, TypeOK, Decision
  <2> QED  BY <1>13, <1>0, <2>1, <2>2 DEF Interval, PastInv
<1>14. CASE Lost
  BY <1>0, <1>14 DEF Lost, PastInv
<1>15. CASE Resume
  <2>1. decision'.generation = decision.generation /\ decision'.sleep = decision.sleep
    BY <1>15 DEF Resume, TypeOK, Decision
  <2> QED  BY <1>15, <2>1 DEF Resume, PastInv
<1> QED
  BY <1>1, <1>2, <1>3, <1>4, <1>5, <1>6, <1>7, <1>8, <1>9, <1>10, <1>11, <1>12, <1>13,
     <1>14, <1>15 DEF Next, Executor

---------------------------------------------------------------------------
(* The account.                                                            *)

LEMMA BeginAccount ==
    ASSUME TypeOK, AccountInv, Begin
    PROVE  /\ run'.op \in Operation /\ run'.outcome = "go"
           /\ settled[run'.op].seconds = run'.total /\ settled[run'.op].n = run'.next
<1>1. PICK o \in FreshOp : run' = [Idle EXCEPT !.op = o]
  BY DEF Begin
<1>2. run'.op = o /\ run'.next = 0 /\ run'.total = 0 /\ run'.outcome = "go"
  BY <1>1 DEF Idle
<1>3. o \in Operation /\ settled[o].n = 0
  BY DEF FreshOp, Used, TypeOK
<1> QED  BY <1>2, <1>3 DEF AccountInv

\* Steps that settle nothing and leave the record and the loop as they are.
LEMMA AccountKept ==
    ASSUME AccountInv, UNCHANGED <<settled, decision, run>>
    PROVE  AccountInv'
BY DEF AccountInv, ElapsedAgrees, Running

LEMMA AccountStep == ASSUME TypeOK, TypeOK', AccountInv, Next PROVE AccountInv'
<1>1. ASSUME NEW d \in 1..MaxSleep, Exhaust(d) PROVE AccountInv'
  BY <1>1, AccountKept DEF Exhaust
<1>2. ASSUME NEW d \in 1..MaxSleep, NEW m \in Mode \ {"forced"}, Enter(m, d) PROVE AccountInv'
  BY <1>2, AccountKept DEF Enter
<1>3. CASE PartySleep
  BY <1>3, AccountKept DEF PartySleep
<1>4. CASE Possess
  BY <1>4, AccountKept DEF Possess
<1>5. CASE EnterDream
  BY <1>5 DEF EnterDream, View, AccountInv, ElapsedAgrees, Running
<1>6. CASE Depart
  <2>1. decision'.op = NoOp
    BY <1>6 DEF Depart, View
  <2> QED  BY <1>6, <2>1, BeginAccount DEF Depart, AccountInv, ElapsedAgrees
<1>7. CASE Continue
  BY <1>7, BeginAccount DEF Continue, AccountInv, ElapsedAgrees
<1>8. ASSUME NEW b \in BOOLEAN, Release(b) PROVE AccountInv'
  BY <1>8, AccountKept DEF Release
<1>9. ASSUME NEW b \in BOOLEAN, Decline(b) PROVE AccountInv'
  <2>1. decision'.op = NoOp
    BY <1>9 DEF Decline, View
  <2>2. CASE b
    BY <1>9, <2>1, <2>2, BeginAccount DEF Decline, AccountInv, ElapsedAgrees
  <2>3. CASE ~b
    BY <1>9, <2>1, <2>3 DEF Decline, AccountInv, ElapsedAgrees, Running
  <2> QED  BY <2>2, <2>3
<1>10. ASSUME NEW n \in 0..receipt.left, NEW due \in BOOLEAN, NEW typed \in BOOLEAN,
              NEW e \in Event, Passes(n, due, e, typed)
       PROVE  AccountInv'
  <2>1. /\ decision'.op = decision.op /\ decision'.elapsed = decision.elapsed
        /\ decision'.index = decision.index
        /\ decision'.continuation = "pending" => decision.continuation = "pending"
    BY <1>10 DEF Passes, Revoked, TypeOK, Decision
  <2> QED  BY <1>10, <2>1 DEF Passes, AccountInv, ElapsedAgrees, Running
<1>11. CASE Finish
  <2>1. /\ decision'.op = run.op /\ decision'.elapsed = run.total
        /\ decision'.continuation # "pending"
    BY <1>11 DEF Finish, TypeOK, Decision, Run
  <2>2. ~Running'
    BY <1>11 DEF Finish, Running, Idle
  <2> QED  BY <1>11, <2>1, <2>2 DEF Finish, AccountInv, ElapsedAgrees
<1>12. ASSUME NEW contact \in BOOLEAN, Refused(contact) PROVE AccountInv'
  <2>1. /\ decision'.op = decision.op /\ decision'.elapsed = decision.elapsed
        /\ decision'.index = decision.index
        /\ decision'.continuation = "pending" => decision.continuation = "pending"
    BY <1>12 DEF Refused, Revoked, TypeOK, Decision
  <2>2. run'.op = run.op /\ run'.total = run.total /\ run'.outcome = "paused"
    BY <1>12 DEF Refused, TypeOK, Run
  <2> QED  BY <1>12, <2>1, <2>2 DEF Refused, AccountInv, ElapsedAgrees, Running
<1>13. ASSUME NEW n \in 0..receipt.left, NEW due \in BOOLEAN, NEW e \in Event, Interval(n, due, e)
       PROVE  AccountInv'
  <2>1. /\ run.op \in Operation /\ run.op # NoOp /\ run.next \in Nat /\ run.total \in Nat
        /\ n \in Nat /\ run.outcome = "go"
    BY <1>13 DEF Interval, More, Running, TypeOK, Run, Receipt
  <2>2. settled[run.op].n = run.next /\ settled[run.op].seconds = run.total
    BY <1>13 DEF Interval, More, AccountInv
  <2>3. settled' = [settled EXCEPT ![run.op] = [n |-> run.next + 1, seconds |-> run.total + n]]
    BY <1>13, <2>2 DEF Interval
  <2>4. /\ decision'.op = run.op /\ decision'.index = run.next
        /\ decision'.elapsed = run.total + n
    BY <1>13 DEF Interval, TypeOK, Decision
  <2>5. run'.op = run.op /\ run'.next = run.next + 1 /\ run'.total = run.total + n
    BY <1>13 DEF Interval, TypeOK, Run
  <2>6. settled'[run.op].n = run.next + 1 /\ settled'[run.op].seconds = run.total + n
    BY <2>1, <2>3 DEF TypeOK
  <2>7. \A o \in Operation : settled'[o].n = 0 => settled'[o].seconds = 0
    <3>1. SUFFICES ASSUME NEW o \in Operation, settled'[o].n = 0 PROVE settled'[o].seconds = 0
      OBVIOUS
    <3>2. o # run.op
      BY <2>1, <2>6, <3>1
    <3>3. settled'[o] = settled[o]
      BY <2>3, <3>2 DEF TypeOK
    <3> QED  BY <3>1, <3>3 DEF AccountInv
  <2>8. ElapsedAgrees'
    BY <2>4, <2>6 DEF ElapsedAgrees
  <2> QED  BY <2>5, <2>6, <2>7, <2>8 DEF AccountInv
<1>14. CASE Lost
  BY <1>14 DEF Lost, AccountInv, ElapsedAgrees, Running, Idle
<1>15. CASE Resume
  <2>1. CASE ~Asleep
    <3>1. decision'.op = NoOp /\ run' = run /\ settled' = settled
      BY <1>15, <2>1 DEF Resume, TypeOK, Decision
    <3> QED  BY <3>1 DEF AccountInv, ElapsedAgrees, Running
  <2>2. CASE Asleep /\ decision.op = NoOp
    <3>1. Begin /\ UNCHANGED <<decision, settled>>
      BY <1>15, <2>2 DEF Resume
    <3> QED  BY <3>1, BeginAccount DEF AccountInv, ElapsedAgrees
  <2>3. CASE Asleep /\ decision.op # NoOp
    <3>1. /\ run'.op = decision.op /\ run'.next = decision.index + 1
          /\ run'.total = decision.elapsed /\ UNCHANGED <<decision, settled>>
          /\ decision.continuation = "pending"
      BY <1>15, <2>3 DEF Resume, Resumable
    <3> QED  BY <2>3, <3>1 DEF AccountInv, ElapsedAgrees
  <2> QED  BY <2>1, <2>2, <2>3
<1> QED
  BY <1>1, <1>2, <1>3, <1>4, <1>5, <1>6, <1>7, <1>8, <1>9, <1>10, <1>11, <1>12, <1>13,
     <1>14, <1>15 DEF Next, Executor

---------------------------------------------------------------------------
(* The player's word.                                                      *)

\* An interval, or a contact, never leaves a pending record against that word.
LEMMA LicenceStep == ASSUME TypeOK, TypeOK', PastInv, LicenceInv, Next PROVE LicenceInv'
<1>0. /\ generation \in Nat /\ receipt.sleep \in Nat
      /\ decision.generation \in Nat /\ decision.sleep \in Nat
      /\ decision.generation <= generation /\ decision.sleep <= receipt.sleep
  BY DEF TypeOK, Receipt, Decision, Sleep, PastInv
<1>1. ASSUME NEW d \in 1..MaxSleep, Exhaust(d) PROVE LicenceInv'
  BY <1>0, <1>1 DEF Exhaust, LicenceInv, OwnView, Asleep, Answered, Running
<1>2. ASSUME NEW d \in 1..MaxSleep, NEW m \in Mode \ {"forced"}, Enter(m, d) PROVE LicenceInv'
  BY <1>0, <1>2 DEF Enter, LicenceInv, OwnView, Asleep, Answered, Running
<1>3. CASE PartySleep
  BY <1>0, <1>3 DEF PartySleep, LicenceInv, OwnView, Asleep, Answered, Running
<1>4. CASE Possess
  BY <1>0, <1>4 DEF Possess, LicenceInv, OwnView, Asleep, Answered, Running
<1>5. CASE EnterDream
  BY <1>5 DEF EnterDream, View, LicenceInv, Running
<1>6. CASE Depart
  BY <1>6 DEF Depart, LicenceInv, OwnView, Asleep
<1>7. CASE Continue
  BY <1>7 DEF Continue, LicenceInv, OwnView, Asleep
<1>8. ASSUME NEW b \in BOOLEAN, Release(b) PROVE LicenceInv'
  <2>1. CASE Asleep /\ ~b
    BY <1>0, <1>8, <2>1 DEF Release, LicenceInv, OwnView, Asleep, Answered, Running
  <2>2. CASE ~(Asleep /\ ~b)
    BY <1>0, <1>8, <2>2 DEF Release, LicenceInv, OwnView, Asleep, Answered, Running
  <2> QED  BY <2>1, <2>2
<1>9. ASSUME NEW b \in BOOLEAN, Decline(b) PROVE LicenceInv'
  <2>1. CASE b
    BY <1>9, <2>1 DEF Decline, LicenceInv, OwnView, Asleep
  <2>2. CASE ~b
    BY <1>9, <2>2 DEF Decline, View, LicenceInv, Running
  <2> QED  BY <2>1, <2>2
<1>10. ASSUME NEW n \in 0..receipt.left, NEW due \in BOOLEAN, NEW typed \in BOOLEAN,
              NEW e \in Event, Passes(n, due, e, typed)
       PROVE  LicenceInv'
  <2>1. ~Running'
    BY <1>10 DEF Passes, Running
  <2>2. CASE Wakes(e, due)
    <3>1. decision'.continuation # "pending"
      BY <1>10, <2>2 DEF Passes, Revoked, TypeOK, Decision
    <3> QED  BY <2>1, <3>1 DEF LicenceInv
  <2>3. CASE ~Wakes(e, due)
    <3>1. receipt'.sleep = receipt.sleep /\ Asleep
      BY <1>10 DEF Passes, Reconciled, TypeOK, Receipt
    <3> QED  BY <1>10, <2>1, <2>3, <3>1 DEF Passes, LicenceInv, Answered
  <2> QED  BY <2>2, <2>3
<1>11. CASE Finish
  <2>1. decision'.continuation # "pending"
    BY <1>11 DEF Finish, TypeOK, Decision, Run
  <2>2. ~Running'
    BY <1>11 DEF Finish, Running, Idle
  <2> QED  BY <2>1, <2>2 DEF LicenceInv
<1>12. ASSUME NEW contact \in BOOLEAN, Refused(contact) PROVE LicenceInv'
  <2>1. run'.outcome = "paused"
    BY <1>12 DEF Refused, TypeOK, Run
  <2>2. CASE contact /\ receipt.mode # "forced"
    <3>1. decision'.continuation # "pending"
      BY <1>12, <2>2 DEF Refused, Revoked, TypeOK, Decision
    <3> QED  BY <2>1, <3>1 DEF LicenceInv
  <2>3. CASE ~(contact /\ receipt.mode # "forced")
    BY <1>12, <2>1, <2>3 DEF Refused, LicenceInv, Answered, Asleep
  <2> QED  BY <2>2, <2>3
<1>13. ASSUME NEW n \in 0..receipt.left, NEW due \in BOOLEAN, NEW e \in Event, Interval(n, due, e)
       PROVE  LicenceInv'
  <2>1. licence /\ OwnView
    BY <1>13 DEF Interval, More, LicenceInv
  <2>2. decision'.continuation = Disposition(n, due, e)
    BY <1>13 DEF Interval, TypeOK, Decision
  <2>3. CASE Disposition(n, due, e) = "pending"
    <3>1. licence' /\ ~possession'
      BY <1>13, <2>1, <2>3 DEF Interval, Disposition, OwnView
    <3>2. Asleep'
      BY <1>13, <2>1, <2>3 DEF Interval, Disposition, Reconciled, OwnView, Asleep, TypeOK, Receipt
    <3> QED  BY <3>1, <3>2 DEF LicenceInv, OwnView
  <2>4. CASE Disposition(n, due, e) # "pending"
    <3>1. PICK outcome \in {"go", "paused", "complete"} :
            /\ outcome = Disposition(n, due, e)
            /\ run' = [run EXCEPT !.next = @ + 1, !.total = @ + n, !.outcome = outcome]
      BY <1>13, <2>4 DEF Interval
    <3>2. run'.outcome # "go"
      BY <3>1 DEF TypeOK, Run, Disposition
    <3> QED  BY <2>2, <2>4, <3>2 DEF LicenceInv
  <2> QED  BY <2>3, <2>4
<1>14. CASE Lost
  BY <1>14 DEF Lost, LicenceInv, OwnView, Asleep, Answered, Running, Idle
<1>15. CASE Resume
  <2>1. CASE ~Asleep
    <3>1. ~Asleep' /\ ~Running'
      BY <1>15, <2>1 DEF Resume, Asleep, Running
    <3> QED  BY <3>1 DEF LicenceInv
  <2>2. CASE Asleep
    <3>1. licence /\ OwnView
      BY <1>15, <2>2 DEF Resume, Resumable, LicenceInv, Answered, OwnView
    <3> QED  BY <1>15, <2>2, <3>1 DEF Resume, LicenceInv, OwnView, Asleep
  <2> QED  BY <2>1, <2>2
<1> QED
  BY <1>1, <1>2, <1>3, <1>4, <1>5, <1>6, <1>7, <1>8, <1>9, <1>10, <1>11, <1>12, <1>13,
     <1>14, <1>15 DEF Next, Executor

---------------------------------------------------------------------------
(* The theorems.                                                           *)

\* The invariant holds of every state.
THEOREM SleepInvariant == Spec => []SleepInv
<1>1. ASSUME SleepInv, [Next]_vars PROVE SleepInv'
  <2>1. CASE Next
    BY <1>1, <2>1, TypeStep, PastStep, AccountStep, LicenceStep DEF SleepInv
  <2>2. CASE UNCHANGED vars
    BY <1>1, <2>2 DEF vars, SleepInv, TypeOK, PastInv, AccountInv, ElapsedAgrees, LicenceInv,
       Running, Asleep, OwnView, Answered
  <2> QED  BY <1>1, <2>1, <2>2
<1> QED  BY <1>1, InitInv, PTL DEF Spec

\* Every variable keeps its type.
THEOREM SleepTypes == Spec => []TypeOK
<1>1. SleepInv => TypeOK
  BY DEF SleepInv
<1> QED  BY <1>1, SleepInvariant, PTL

\* A record that names an operation tells the time it has settled, over any
\* number of crashes and resumptions (continue_owner_sleep).
THEOREM ElapsedIsSettled == Spec => []ElapsedAgrees
<1>1. SleepInv => ElapsedAgrees
  BY DEF SleepInv, AccountInv
<1> QED  BY <1>1, SleepInvariant, PTL

\* No interval of the continuation is settled against the player's last word
\* (continue_owner_sleep, resume_pending_owner_continuation).
THEOREM IntervalsAreLicensed == Spec => LicensedIntervals
<1>1. ASSUME SleepInv, [Next]_vars PROVE [settled' # settled => licence /\ ~possession]_vars
  <2>1. SUFFICES ASSUME Next, settled' # settled PROVE licence /\ ~possession
    BY <1>1 DEF vars
  <2>2. PICK n \in 0..receipt.left, due \in BOOLEAN, e \in Event : Interval(n, due, e)
    BY <2>1 DEF Next, Executor, Exhaust, Enter, PartySleep, Possess, EnterDream, Depart, Continue,
       Release, Decline, Passes, Finish, Refused, Lost, Resume
  <2> QED  BY <1>1, <2>2 DEF Interval, More, SleepInv, LicenceInv, OwnView
<1> QED  BY <1>1, SleepInvariant, PTL DEF Spec, LicensedIntervals
=============================================================================
