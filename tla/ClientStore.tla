----------------------------- MODULE ClientStore -----------------------------
(***************************************************************************)
(* The browser's end of the protocol: the transport-generation reducer     *)
(* (protocol/store.js, protocol/publication_parts.js) with the app's       *)
(* single sync gate and in-flight mutation gate (webclient-app/stores/     *)
(* elosern/transport.js, webclient-app/transport.js).                      *)
(*                                                                         *)
(* One action is one JavaScript task: the handler of one event, with every *)
(* listener it notifies synchronously.  The automatic request of a         *)
(* recorded need runs in the microtask that follows, so no other task      *)
(* comes before it (use-resync.js): see ResyncOwed.                        *)
(*                                                                         *)
(* What a publication says is its identity <<epoch, revision>>; a delta    *)
(* applied to anything but its base shows no publication: Mixed.  Left out *)
(* are the on-demand maps with their own assembler, the dialogue check and *)
(* ctx.uncertain, a notice that gates nothing.                             *)
(***************************************************************************)
EXTENDS Integers, Sequences

CONSTANTS
    MaxRetired  \* MAX_RETIRED_EPOCHS

VARIABLES
    connected,    \* connected: the socket, as the store knows it
    phase,        \* phase
    activeEpoch,  \* activeEpoch; 0 is null
    revision,     \* revision; 0 is null
    content,      \* panels: the publication the committed panels show
    retired,      \* retired: a bounded queue of epochs
    recovery,     \* recovery.status
    target,       \* recovery.targetRevision; 0 is null
    locked,       \* mutationsLocked
    incompatible, \* incompatible
    live,         \* the live publication transfer, at most one
    flight        \* ctx.inFlight: <<>> or the one request in flight

view   == <<phase, activeEpoch, revision, content>>
repair == <<recovery, target>>
browser == <<connected, view, retired, repair, locked, incompatible, live, flight>>

Nothing == <<>>          \* no panels
Mixed   == <<0, 0>>      \* panels of no publication
NoRequest == <<>>

\* The server's frames, as far as the browser tells them apart.  Part k of n of
\* one publication; `n = 1' is the intact form.
Publication(kind, e, r, b, k, n) ==
    [type |-> "publication", kind |-> kind, epoch |-> e, revision |-> r, base |-> b,
     index |-> k, count |-> n]
Result(e, id, code, r) ==
    [type |-> "result", epoch |-> e, request |-> id, code |-> code, revision |-> r]
ProtocolError(code) == [type |-> "error", code |-> code]

BrowserInit ==
    /\ connected = FALSE
    /\ phase = "idle"
    /\ activeEpoch = 0
    /\ revision = 0
    /\ content = Nothing
    /\ retired = <<>>
    /\ recovery = "idle"
    /\ target = 0
    /\ locked = TRUE
    /\ incompatible = FALSE
    /\ live = <<>>
    /\ flight = NoRequest
------------------------------------------------------------------------------
(* The recovery episode. *)

\* noteRecovery: an idle or needed episode records the failure; one that lands
\* while the repair is requested is terminal; a failed one stays as it is.
NoteRecoveryRearms(t) ==
    /\ recovery' = "needed"
    /\ target' = t
    /\ locked' = TRUE
NoteRecovery(t) ==
    \/ /\ recovery = "failed"
       /\ UNCHANGED <<recovery, target, locked>>
    \/ /\ recovery = "requested"
       /\ recovery' = "failed"
       /\ target' = 0
       /\ locked' = TRUE
    \/ /\ recovery \in {"idle", "needed"}
       /\ recovery' = "needed"
       /\ target' = t
       /\ locked' = TRUE

\* settleRecovery: a complete snapshot ends the episode, or the publication an
\* unadopted result claimed.
SettleRecovery(kind, r) ==
    IF kind = "snapshot" \/ (target # 0 /\ r >= target)
    THEN recovery' = "idle" /\ target' = 0
    ELSE UNCHANGED repair

\* The gate of requestPresentationSync for a recorded need.  The watcher runs
\* before any other task, and is not asked again.
ResyncOwed == recovery = "needed" /\ connected /\ ~incompatible

\* releaseIfReady: the lock goes once the revision the result named is here.
Release(f, r) ==
    IF f # NoRequest /\ f.claimed # -1 /\ r >= f.claimed THEN NoRequest ELSE f
------------------------------------------------------------------------------
(* Publications. *)

Complete(f) == f.index = f.count
Retired(e) == \E k \in DOMAIN retired : retired[k] = e

\* Frames of a foreign or finished sequence, deltas with nothing to extend, and
\* targets already passed change nothing.
InertUnlessRetired(f) ==
    \/ phase = "active" /\ f.epoch # activeEpoch
    \/ phase = "detached" /\ f.epoch = activeEpoch
    \/ phase # "active" /\ f.kind = "delta"
    \/ phase = "active" /\ f.epoch = activeEpoch /\ f.revision <= revision
Inert(f) ==
    \/ Retired(f.epoch)
    \/ phase = "active" /\ f.epoch # activeEpoch
    \/ phase = "detached" /\ f.epoch = activeEpoch
    \/ phase # "active" /\ f.kind = "delta"
    \/ phase = "active" /\ f.epoch = activeEpoch /\ f.revision <= revision

SameTransfer(f) ==
    /\ live # <<>>
    /\ live[1].kind = f.kind /\ live[1].epoch = f.epoch
    /\ live[1].revision = f.revision /\ live[1].base = f.base /\ live[1].count = f.count

\* A delta the committed state cannot take: another publication is still
\* incomplete, its base is not what is shown, or its parts are out of order.
ContradictsAnyBase(f) ==
    \/ f.kind = "delta" /\ live # <<>> /\ ~SameTransfer(f)
          /\ (f.count = 1 \/ f.epoch = live[1].epoch)
    \/ SameTransfer(f) /\ f.index # live[1].received + 1
Contradicts(f) ==
    \/ f.kind = "delta" /\ live # <<>> /\ ~SameTransfer(f)
          /\ (f.count = 1 \/ f.epoch = live[1].epoch)
    \/ f.kind = "delta" /\ f.base # revision /\ (SameTransfer(f) => Complete(f))
    \/ SameTransfer(f) /\ f.index # live[1].received + 1

\* A part that belongs to no transfer: a tail of what was abandoned, or of a
\* transfer older than the live one.
Orphan(f) ==
    /\ f.count > 1
    /\ ~SameTransfer(f)
    /\ \/ f.index # 1
       \/ live # <<>> /\ (f.epoch # live[1].epoch \/ f.revision <= live[1].revision)

\* What a commit leaves of the assembly: an establishing snapshot nothing, any
\* other commit only a transfer that goes beyond it.
Pruned(f) ==
    IF phase = "active" /\ f.count = 1 /\ live # <<>> /\ live[1].revision > f.revision
    THEN live ELSE <<>>

\* An inert frame, of whatever form.
ReceiveInert(f) ==
    /\ f.type = "publication"
    /\ Inert(f) \/ (~Contradicts(f) /\ Orphan(f))
    /\ UNCHANGED browser

\* A frame the validators refuse.  An intact one is refused before its epoch
\* is looked at, a part only after its header was admitted.
ReceiveInvalid(f) ==
    /\ f.type = "publication"
    /\ f.count > 1 => ~Inert(f)
    /\ live' = IF f.count > 1 THEN <<>> ELSE live
    /\ NoteRecovery(0)
    /\ UNCHANGED <<connected, view, retired, incompatible, flight>>

ReceiveContradiction(f) ==
    /\ f.type = "publication"
    /\ ~Inert(f) /\ Contradicts(f)
    /\ live' = <<>>
    /\ NoteRecovery(0)
    /\ UNCHANGED <<connected, view, retired, incompatible, flight>>

\* One part of a publication that is not complete yet: invisible.
ReceivePart(f) ==
    /\ f.type = "publication"
    /\ ~Inert(f) /\ ~Contradicts(f) /\ ~Orphan(f) /\ ~Complete(f)
    /\ live' = <<[kind |-> f.kind, epoch |-> f.epoch, revision |-> f.revision,
                  base |-> f.base, count |-> f.count, received |-> f.index]>>
    /\ UNCHANGED <<connected, view, retired, repair, locked, incompatible, flight>>

\* The panels a publication leaves: all of a snapshot, the base's and the
\* changes of a delta.
Staged(f) ==
    IF f.kind = "snapshot" \/ content = <<f.epoch, f.base>>
    THEN <<f.epoch, f.revision>> ELSE Mixed

\* commitPresentation: adopt, prune, settle the episode, unlock unless an
\* episode or an incompatible peer forbids it, and release the mutation.
UnlockAlways == locked' = incompatible
Unlock == locked' = (incompatible \/ recovery' # "idle")

ReceivePublication(f) ==
    /\ f.type = "publication"
    /\ ~Inert(f) /\ ~Contradicts(f) /\ ~Orphan(f) /\ Complete(f)
    /\ phase' = "active"
    /\ activeEpoch' = f.epoch
    /\ revision' = f.revision
    /\ content' = Staged(f)
    /\ live' = Pruned(f)
    /\ SettleRecovery(f.kind, f.revision)
    /\ Unlock
    /\ flight' = Release(flight, f.revision)
    /\ UNCHANGED <<connected, retired, incompatible>>

\* A transfer that does not complete in time is abandoned.
AssemblyDeadline ==
    /\ live # <<>> /\ ~ResyncOwed
    /\ live' = <<>>
    /\ NoteRecovery(0)
    /\ UNCHANGED <<connected, view, retired, incompatible, flight>>
------------------------------------------------------------------------------
(* Results and protocol errors. *)

\* Only the live epoch's result of the request in flight is recognised, once.
Recognised(f) ==
    /\ phase \in {"active", "detached"}
    /\ f.epoch = activeEpoch
    /\ flight # NoRequest /\ flight.request = f.request /\ flight.claimed = -1

ReceiveForeignResult(f) ==
    /\ f.type = "result" /\ ~Recognised(f)
    /\ UNCHANGED browser

\* A result that names a revision not adopted records the one repair and keeps
\* the lock; one that names what is here, or no puppet, releases it.
ReceiveResult(f) ==
    /\ f.type = "result" /\ Recognised(f)
    /\ IF f.revision > revision
       THEN NoteRecovery(f.revision) /\ flight' = [flight EXCEPT !.claimed = f.revision]
       ELSE UNCHANGED <<repair, locked>> /\ flight' = NoRequest
    /\ UNCHANGED <<connected, view, retired, incompatible, live>>

\* The puppet is gone: the panels are cleared, the epoch is kept for a late
\* rejection, and an unanswered mutation is given up (the player is told).
ReceiveNoPuppetKeepsFlight(f) ==
    /\ f.type = "error" /\ f.code = "no_puppet"
    /\ phase' = "detached"
    /\ content' = Nothing
    /\ live' = <<>>
    /\ NoteRecovery(0)
    /\ UNCHANGED <<connected, activeEpoch, revision, retired, incompatible, flight>>
ReceiveNoPuppet(f) ==
    /\ f.type = "error" /\ f.code = "no_puppet"
    /\ phase' = "detached"
    /\ content' = Nothing
    /\ live' = <<>>
    /\ NoteRecovery(0)
    /\ flight' = NoRequest
    /\ UNCHANGED <<connected, activeEpoch, revision, retired, incompatible>>

\* A failure the server survived costs one complete repair.
ReceiveUnavailable(f) ==
    /\ f.type = "error" /\ f.code = "presentation_unavailable"
    /\ NoteRecovery(0)
    /\ UNCHANGED <<connected, view, retired, incompatible, live, flight>>

\* reload_required: no sync can repair this transport.
ReceiveReloadRequired(f) ==
    /\ f.type = "error" /\ f.code = "reload_required"
    /\ incompatible' = TRUE
    /\ locked' = TRUE
    /\ IF recovery = "requested"
       THEN recovery' = "failed" /\ target' = 0 /\ live' = <<>>
       ELSE UNCHANGED <<repair, live>>
    /\ UNCHANGED <<connected, view, retired, flight>>

Receive(f) ==
    \/ ReceiveInert(f)
    \/ ReceiveContradiction(f)
    \/ ReceivePart(f)
    \/ ReceivePublication(f)
    \/ ReceiveForeignResult(f)
    \/ ReceiveResult(f)
    \/ ReceiveNoPuppet(f)
    \/ ReceiveUnavailable(f)
    \/ ReceiveReloadRequired(f)
------------------------------------------------------------------------------
(* The sync gate, the mutation gate and the transport's lifecycle. *)

\* The one automatic request of an episode, in the microtask after the failure.
AutoResync ==
    /\ ResyncOwed
    /\ recovery' = "requested"
    /\ locked' = TRUE
    /\ UNCHANGED <<connected, view, retired, target, incompatible, live, flight>>

\* The player's own synchronize: a plain request of a healthy sequence, or one
\* further attempt of a failed repair.
ManualSync ==
    /\ connected /\ ~incompatible
    /\ recovery \in {"idle", "failed"}
    /\ recovery' = IF recovery = "failed" THEN "requested" ELSE recovery
    /\ UNCHANGED <<connected, view, retired, target, locked, incompatible, live, flight>>

\* The deferral after `logged_in': a plain request while nothing is shown.
LifecycleSyncDueDetached ==
    /\ connected /\ ~incompatible
    /\ phase = "detached"
    /\ recovery = "idle"
LifecycleSyncDue ==
    /\ connected /\ ~incompatible
    /\ phase \in {"awaiting", "detached"}
    /\ recovery = "idle"
LifecycleSync == LifecycleSyncDue /\ UNCHANGED browser

\* 30 s after a repair was requested: the episode fails, the transfer goes.
RecoveryDeadline ==
    /\ connected /\ recovery = "requested"
    /\ recovery' = "failed"
    /\ target' = 0
    /\ locked' = TRUE
    /\ live' = <<>>
    /\ UNCHANGED <<connected, view, retired, incompatible, flight>>

\* dispatchAction: one mutation at a time, from unlocked active state.
Dispatch(id) ==
    /\ connected /\ ~locked /\ phase = "active" /\ flight = NoRequest
    /\ flight' = [request |-> id, claimed |-> -1]
    /\ UNCHANGED <<connected, view, retired, repair, locked, incompatible, live>>

ConnectionClose ==
    /\ connected
    /\ connected' = FALSE
    /\ live' = <<>>
    /\ locked' = TRUE
    /\ flight' = NoRequest
    /\ UNCHANGED <<view, retired, repair, incompatible>>

\* beginTransport: a fresh generation keeps nothing but the retired epochs.
Remember(e) ==
    IF e = 0 \/ Retired(e) THEN retired
    ELSE LET order == Append(retired, e) IN
         IF Len(order) > MaxRetired THEN Tail(order) ELSE order

ConnectionOpen ==
    /\ ~connected
    /\ connected' = TRUE
    /\ retired' = Remember(activeEpoch)
    /\ phase' = "awaiting"
    /\ activeEpoch' = 0
    /\ revision' = 0
    /\ content' = Nothing
    /\ recovery' = "idle"
    /\ target' = 0
    /\ locked' = TRUE
    /\ incompatible' = FALSE
    /\ live' = <<>>
    /\ flight' = NoRequest
==============================================================================
