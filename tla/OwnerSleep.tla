------------------------------ MODULE OwnerSleep ------------------------------
(***************************************************************************)
(* The owner's sleep and its continuation (world/rules/time_skip.py).  A   *)
(* sleeping owner is first asked about a dream; once the answer, or the    *)
(* dream's end, licenses it, continue_owner_sleep settles the sleep in     *)
(* intervals, each a transaction that also writes how far it came.  The    *)
(* loop holds the reactor, so nothing comes between two intervals but a    *)
(* crash, or an exception that rolls one back; the next attach resumes.    *)
(*                                                                         *)
(* Time is the seconds left to the receipt's limit.  Companions, physiology *)
(* and camps appear as what they may do to the receipt.                    *)
(***************************************************************************)
EXTENDS Naturals

CONSTANTS
    MaxSleep,       \* the longest sleep accepted, in units of time
    IntervalBound,  \* _CONTINUATION_INTERVAL_BOUND
    MaxView,        \* bound: control views opened and forced sleeps
    MaxAsk,         \* bound: continuations the player asks for
    MaxFault        \* bound: crashes and exceptions

ASSUME SleepAssumption ==
    /\ MaxSleep \in Nat \ {0} /\ IntervalBound \in Nat \ {0}
    /\ MaxView \in Nat /\ MaxAsk \in Nat /\ MaxFault \in Nat

Sleep == 0..MaxView                  \* sleep identities, in order; 0 is none
Operation == 1..(MaxAsk + MaxFault)
NoOp == 0
Mode == {"duration", "recovery", "forced"}
Event == {"none", "interactive", "contact"}

Receipt == [sleep : Sleep, mode : Mode, left : 0..MaxSleep,
            state : {"none", "sleeping", "interrupted", "completed"}]

Decision == [generation : 0..MaxView, sleep : Sleep,
             answer : {"none", "entered", "declined"},
             continuation : {"none", "pending", "paused", "complete"},
             op : Operation \cup {NoOp}, index : 0..(IntervalBound - 1), elapsed : Nat]

Run == [op : Operation \cup {NoOp}, next : 0..IntervalBound, total : Nat,
        outcome : {"go", "paused", "complete"}]

VARIABLES
    receipt,     \* the owner's sleep receipt
    generation,  \* its control-view generation
    possession,  \* the owner plays a companion
    decision,    \* the sleep view decision
    dream,       \* the open dream names this receipt at its revision
    run,         \* continue_owner_sleep's locals, lost in a crash
    settled,     \* history: intervals and seconds each operation has settled
    published,   \* history: checkpoints published for each sleep
    licence,     \* history: the player's word to continue stands
    asks, faults

vars == <<receipt, generation, possession, decision, dream, run, settled, published,
          licence, asks, faults>>

Idle == [op |-> NoOp, next |-> 0, total |-> 0, outcome |-> "go"]

TypeOK ==
    /\ receipt \in Receipt
    /\ generation \in 0..MaxView
    /\ possession \in BOOLEAN
    /\ decision \in Decision
    /\ dream \in BOOLEAN
    /\ run \in Run
    /\ settled \in [Operation -> [n : Nat, seconds : Nat]]
    /\ published \in [Sleep -> Nat]
    /\ licence \in BOOLEAN
    /\ asks \in 0..MaxAsk /\ faults \in 0..MaxFault

Init ==
    /\ receipt = [sleep |-> 0, mode |-> "duration", left |-> 0, state |-> "none"]
    /\ generation = 0
    /\ possession = FALSE
    /\ decision = [generation |-> 0, sleep |-> 0, answer |-> "none",
                   continuation |-> "none", op |-> NoOp, index |-> 0, elapsed |-> 0]
    /\ dream = FALSE
    /\ run = Idle
    /\ settled = [o \in Operation |-> [n |-> 0, seconds |-> 0]]
    /\ published = [s \in Sleep |-> 0]
    /\ licence = FALSE
    /\ asks = 0 /\ faults = 0

Asleep == receipt.state = "sleeping"
Running == run.op # NoOp
OwnView == Asleep /\ ~possession
Answered == decision.generation = generation /\ decision.sleep = receipt.sleep

\* The first operation not used yet: base_operation with a fresh uuid.
Used(o) == settled[o].n > 0 \/ o = decision.op
FreshOp == {o \in Operation : ~Used(o) /\ \A p \in 1..(o - 1) : Used(p)}

---------------------------------------------------------------------------
(* What others do to the receipt and the view.                             *)

\* enter_sleep, or a party sleep the owner joins.
Enter(mode, d) ==
    /\ ~Running /\ ~Asleep
    /\ generation < MaxView /\ receipt.sleep < MaxView
    /\ receipt' = [sleep |-> receipt.sleep + 1, mode |-> mode, left |-> d,
                   state |-> "sleeping"]
    /\ generation' = generation + 1
    /\ dream' = FALSE
    /\ licence' = FALSE
    /\ UNCHANGED <<possession, decision, run, settled, published, asks, faults>>

\* A party sleep that puts only companions to bed, whether the owner sleeps or not.
PartySleep ==
    /\ ~Running
    /\ generation < MaxView
    /\ generation' = generation + 1
    /\ UNCHANGED <<receipt, possession, decision, dream, run, settled, published,
                   licence, asks, faults>>

\* Fatigue forces a sleep: a receipt, and no new view.
Exhaust(d) ==
    /\ ~Running /\ ~Asleep
    /\ receipt.sleep < MaxView
    /\ receipt' = [sleep |-> receipt.sleep + 1, mode |-> "forced", left |-> d,
                   state |-> "sleeping"]
    /\ dream' = FALSE
    /\ licence' = FALSE
    /\ UNCHANGED <<generation, possession, decision, run, settled, published, asks, faults>>

Possess ==
    /\ ~Running /\ ~possession
    /\ possession' = TRUE
    /\ UNCHANGED <<receipt, generation, decision, dream, run, settled, published,
                   licence, asks, faults>>

\* release_possession: handed back, a sleeper is asked anew; a possession whose
\* companion is gone is only cleared.
Release(gone) ==
    /\ possession /\ generation < MaxView
    /\ possession' = FALSE
    /\ IF Asleep /\ ~gone
         THEN generation' = generation + 1 /\ licence' = FALSE
         ELSE UNCHANGED <<generation, licence>>
    /\ UNCHANGED <<receipt, decision, dream, run, settled, published, asks, faults>>

---------------------------------------------------------------------------
(* One interval of n units: _reconcile_sleep_receipt, then field contact.  *)

\* The target lies at the limit at the latest; one of recovery may come sooner.
Due(n, due) ==
    /\ n = receipt.left => due
    /\ due /\ receipt.mode = "duration" => n = receipt.left

\* A contact wakes a voluntary sleeper who has not reached the target.
Wakes(event, due) == event = "contact" /\ ~due /\ receipt.mode # "forced"

Reconciled(n, due, event) ==
    [receipt EXCEPT !.left = @ - n,
                    !.state = IF due THEN "completed"
                              ELSE IF Wakes(event, due) THEN "interrupted" ELSE @]

SameRevision(n, due, event) == n = 0 /\ ~due /\ ~Wakes(event, due)

\* _revoke_sleep_continuations
Revoked == IF decision.continuation = "pending"
             THEN [decision EXCEPT !.continuation = "paused"] ELSE decision

\* An interval outside the continuation: the owner's other uses of time, or a
\* companion's while the owner plays it; "sleep" typed by a sleeper publishes.
Passes(n, due, event, typed) ==
    /\ ~Running /\ Asleep
    /\ typed => ~possession /\ receipt.mode # "forced"
    /\ Due(n, due)
    /\ receipt' = Reconciled(n, due, event)
    /\ dream' = (dream /\ SameRevision(n, due, event))
    /\ IF Wakes(event, due) THEN decision' = Revoked /\ licence' = FALSE
                            ELSE UNCHANGED <<decision, licence>>
    /\ published' = IF typed /\ due THEN [published EXCEPT ![receipt.sleep] = @ + 1]
                                    ELSE published
    /\ UNCHANGED <<generation, possession, run, settled, asks, faults>>

---------------------------------------------------------------------------
(* The dream question and the player's word.                               *)

View(answer, continuation) ==
    [generation |-> generation, sleep |-> receipt.sleep, answer |-> answer,
     continuation |-> continuation, op |-> NoOp, index |-> 0, elapsed |-> 0]

Begin == \E o \in FreshOp : run' = [Idle EXCEPT !.op = o]

\* decline_owner_sleep_dream; auto: every body that could act sleeps.
Decline(auto) ==
    /\ ~Running /\ OwnView
    /\ asks < MaxAsk
    /\ decision' = View("declined", IF auto THEN "pending" ELSE "none")
    /\ IF auto THEN Begin ELSE UNCHANGED run
    /\ licence' = auto
    /\ asks' = asks + 1
    /\ UNCHANGED <<receipt, generation, possession, dream, settled, published, faults>>

\* "sleep continue", once the question is answered.
Continue ==
    /\ ~Running /\ OwnView /\ Answered
    /\ asks < MaxAsk
    /\ Begin
    /\ licence' = TRUE
    /\ asks' = asks + 1
    /\ UNCHANGED <<receipt, generation, possession, decision, dream, settled, published,
                   faults>>

\* enter_for_owner
EnterDream ==
    /\ ~Running /\ OwnView
    /\ Answered => decision.answer # "declined"
    /\ decision' = View("entered", "none")
    /\ dream' = TRUE
    /\ licence' = FALSE
    /\ UNCHANGED <<receipt, generation, possession, run, settled, published, asks, faults>>

\* authorize_departure_continuation: leaving the dream asks to continue.
Depart ==
    /\ ~Running /\ OwnView /\ dream
    /\ asks < MaxAsk
    /\ decision' = View(IF decision.generation = generation THEN decision.answer
                                                            ELSE "entered", "pending")
    /\ dream' = FALSE
    /\ Begin
    /\ licence' = TRUE
    /\ asks' = asks + 1
    /\ UNCHANGED <<receipt, generation, possession, settled, published, faults>>

---------------------------------------------------------------------------
(* continue_owner_sleep.                                                   *)

More == Running /\ run.outcome = "go" /\ run.next < IntervalBound

\* If an event did not pause it.
DispositionGoesOn(n, due, event) == IF due \/ Wakes(event, due) THEN "complete" ELSE "pending"

Disposition(n, due, event) ==
    IF due \/ Wakes(event, due) THEN "complete"
    ELSE IF event # "none" THEN "paused" ELSE "pending"

\* continue_sleep settles an interval, and its disposition in the same transaction.
Interval(n, due, event) ==
    /\ More
    /\ Due(n, due)
    /\ receipt' = Reconciled(n, due, event)
    /\ dream' = (dream /\ SameRevision(n, due, event))
    /\ decision' = [decision EXCEPT
                      !.generation = generation, !.sleep = receipt.sleep,
                      !.continuation = Disposition(n, due, event),
                      !.op = run.op, !.index = run.next, !.elapsed = run.total + n]
    /\ \E outcome \in {"go", "paused", "complete"} :
         /\ outcome = Disposition(n, due, event) \/ Disposition(n, due, event) = "pending"
         /\ Disposition(n, due, event) = "pending" =>
              outcome = "go" \/ (outcome = "paused" /\ n = 0)   \* no progress
         /\ run' = [run EXCEPT !.next = @ + 1, !.total = @ + n, !.outcome = outcome]
    /\ settled' = [settled EXCEPT ![run.op] = [n |-> @.n + 1, seconds |-> @.seconds + n]]
    /\ licence' = (licence /\ event = "none")
    /\ UNCHANGED <<generation, possession, published, asks, faults>>

\* The safety gate refuses, perhaps for a contact that has just woken the owner.
Refused(contact) ==
    /\ More
    /\ run' = [run EXCEPT !.next = @ + 1, !.outcome = "paused"]
    /\ IF contact /\ receipt.mode # "forced"
         THEN /\ receipt' = [receipt EXCEPT !.state = "interrupted"]
              /\ dream' = FALSE
              /\ decision' = Revoked
              /\ licence' = FALSE
         ELSE UNCHANGED <<receipt, dream, decision, licence>>
    /\ UNCHANGED <<generation, possession, settled, published, asks, faults>>

\* If a refusal left the record as it was, to be tried again.
FinishRetains ==
    /\ Running /\ ~More
    /\ run' = Idle
    /\ UNCHANGED <<receipt, generation, possession, decision, dream, settled, published,
                   licence, asks, faults>>

\* _mark_owner_continuation, then publish_completed_sleep.
Finish ==
    LET last == IF run.next = 0 THEN 0 ELSE run.next - 1
        final == IF run.outcome = "go" THEN "paused" ELSE run.outcome
    IN /\ Running /\ ~More
       /\ decision' = [decision EXCEPT
                         !.generation = generation, !.sleep = receipt.sleep,
                         !.continuation = final,
                         !.op = run.op, !.index = last, !.elapsed = run.total]
       /\ published' = IF final = "complete"
                         THEN [published EXCEPT ![receipt.sleep] = @ + 1] ELSE published
       /\ run' = Idle
       /\ UNCHANGED <<receipt, generation, possession, dream, settled, licence, asks, faults>>

\* A crash, or an exception.
Lost ==
    /\ Running
    /\ faults < MaxFault
    /\ run' = Idle
    /\ faults' = faults + 1
    /\ UNCHANGED <<receipt, generation, possession, decision, dream, settled, published,
                   licence, asks>>

Resumable == /\ decision.continuation = "pending" /\ ~possession
             /\ decision.generation = generation
             /\ Asleep => decision.sleep = receipt.sleep

\* If the total were counted from the crash on.
ResumeForgets ==
    /\ ~Running /\ Resumable /\ Asleep
    /\ IF decision.op = NoOp THEN Begin
       ELSE run' = [Idle EXCEPT !.op = decision.op, !.next = decision.index + 1]
    /\ UNCHANGED <<receipt, generation, possession, decision, dream, settled, published,
                   licence, asks, faults>>

\* resume_pending_owner_continuation, on every attach.
Resume ==
    /\ ~Running /\ Resumable
    /\ IF ~Asleep
         THEN /\ decision' = [decision EXCEPT !.continuation = "complete", !.op = NoOp,
                                              !.index = 0, !.elapsed = 0]
              /\ UNCHANGED run
         ELSE /\ UNCHANGED decision
              /\ IF decision.op = NoOp THEN Begin
                 ELSE run' = [op |-> decision.op, next |-> decision.index + 1,
                              total |-> decision.elapsed, outcome |-> "go"]
    /\ UNCHANGED <<receipt, generation, possession, dream, settled, published, licence,
                   asks, faults>>

---------------------------------------------------------------------------
Executor ==
    \/ Finish
    \/ \E contact \in BOOLEAN : Refused(contact)
    \/ \E n \in 0..receipt.left, due \in BOOLEAN, e \in Event : Interval(n, due, e)

Next ==
    \/ \E d \in 1..MaxSleep : Exhaust(d) \/ \E m \in Mode \ {"forced"} : Enter(m, d)
    \/ PartySleep \/ Possess \/ EnterDream \/ Depart \/ Continue
    \/ \E b \in BOOLEAN : Release(b) \/ Decline(b)
    \/ \E n \in 0..receipt.left, due, typed \in BOOLEAN, e \in Event :
         Passes(n, due, e, typed)
    \/ Executor \/ Lost \/ Resume

Spec == Init /\ [][Next]_vars

\* The reactor finishes what it runs, and the player comes back.
LiveSpec == Spec /\ WF_vars(Executor) /\ WF_vars(Resume)
=============================================================================
