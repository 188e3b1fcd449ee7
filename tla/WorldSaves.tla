----------------------------- MODULE WorldSaves ------------------------------
(***************************************************************************)
(* The saves of a running server (server/saves/snapshot.py): created,      *)
(* deleted, pruned and asked for by request threads, with the pre-start    *)
(* tool (RestoreSwap) between two runs.  A snapshot holds one lock, a      *)
(* restore request another; deletion and pruning hold none, they only look *)
(* at the second and at what a request has pinned.                         *)
(*                                                                         *)
(* The database and the art store are copied while publication is paused   *)
(* (ArtQueue has that gate): here the copy is one step.  Removing a save   *)
(* never fails.                                                            *)
(***************************************************************************)
EXTENDS RestoreSwap

CONSTANTS
    Thread,      \* request threads
    Reactor,     \* the one that runs the startup steps
    Keep         \* GM_AUTOSAVE_KEEP

ASSUME ThreadAssumption == Reactor \in Thread /\ Keep \in Nat

VARIABLES
    job,          \* what each thread is doing
    created,      \* saves numbered so far
    snapshotting, \* _snapshot_lock
    restoring,    \* _restore_lock
    pinned,       \* _pinned_target, or 0
    shutdown      \* a shutdown is scheduled

locks == <<snapshotting, restoring, pinned, shutdown>>
vars  == <<swapVars, job, created, locks>>

Step == {"idle", "copy", "publish_art", "publish_db", "defer", "protect", "list",
         "remove_db", "remove_art", "remove_rest", "pin", "snapshot", "mark", "schedule", "give_up"}

Idle == [step |-> "idle", save |-> 0, kinds |-> {}, victims |-> {}, spared |-> 0, then |-> "idle", target |-> 0]
At(t, step) == server = "up" /\ job[t].step = step
Goes(t, step) == job' = [job EXCEPT ![t].step = step]

\* j goes on with the next victim, the next kind, or what it was called from.
Onward(j) ==
    CASE j.victims # {} -> [j EXCEPT !.step = "remove_db"]
      [] j.victims = {} /\ j.kinds # {} -> [j EXCEPT !.step = "protect"]
      [] OTHER -> IF j.then = "mark" THEN [Idle EXCEPT !.step = "mark", !.target = j.target] ELSE Idle
GoesOn(t, j) ==
    /\ job' = [job EXCEPT ![t] = Onward(j)]
    /\ restoring' = IF j.then = "release" /\ j.victims = {} /\ j.kinds = {} THEN FALSE ELSE restoring

Retain(t, kinds, then) == job' = [job EXCEPT ![t] = [@ EXCEPT !.step = "defer", !.kinds = kinds, !.then = then]]

Init ==
    /\ SwapInit
    /\ job = [t \in Thread |-> Idle]
    /\ created = 0
    /\ snapshotting = FALSE
    /\ restoring = FALSE
    /\ pinned = 0
    /\ shutdown = FALSE

Becomes(s, half, state) == saves' = [saves EXCEPT ![s][half] = state]
Tears(s, half, state) == saves' = [saves EXCEPT ![s][half] = IF @ = "none" THEN @ ELSE state]
SavesOnly == UNCHANGED <<server, tool, disk, memory, requests, latest, ghosts>>
------------------------------------------------------------------------------
(* create_snapshot.                                                        *)

Numbered(t, kind, then, target) ==
    /\ created < MaxSave
    /\ ~snapshotting
    /\ snapshotting' = TRUE
    /\ created' = created + 1
    /\ job' = [job EXCEPT ![t] = [Idle EXCEPT !.step = "copy", !.save = created', !.kinds = {kind},
                                              !.then = then, !.target = target]]

\* A staged restore refuses new saves: they would be lost to it.
Create(t, kind) ==
    /\ At(t, "idle")
    /\ marker = 0
    /\ Numbered(t, kind, "idle", 0)
    /\ UNCHANGED <<swapVars, restoring, pinned, shutdown>>

KindOf(t) == CHOOSE k \in job[t].kinds : TRUE

Copy(t) ==
    /\ At(t, "copy")
    /\ saves' = [saves EXCEPT ![job[t].save] =
                   [kind |-> KindOf(t), version |-> live[Db], db |-> "none", art |-> "none"]]
    /\ Goes(t, "publish_art")
    /\ SavesOnly /\ UNCHANGED <<created, locks>>

PublishArt(t) ==
    /\ At(t, "publish_art")
    /\ Becomes(job[t].save, "art", "final")
    /\ Goes(t, "publish_db")
    /\ SavesOnly /\ UNCHANGED <<created, locks>>

\* The save is listed from here on; the lock goes, then an automatic kind is pruned.
PublishDb(t) ==
    /\ At(t, "publish_db")
    /\ Becomes(job[t].save, "db", "final")
    /\ snapshotting' = FALSE
    /\ IF job[t].kinds \subseteq Automatic THEN Goes(t, "defer") ELSE job' = [job EXCEPT ![t] = Idle]
    /\ SavesOnly /\ UNCHANGED <<created, restoring, pinned, shutdown>>

\* Any failure: what was made is removed, and a request gives up.
CreateFails(t) ==
    /\ server = "up" /\ job[t].step \in {"copy", "publish_art", "publish_db"}
    /\ saves' = [saves EXCEPT ![job[t].save] = NoSave]
    /\ snapshotting' = FALSE
    /\ IF job[t].then = "mark" THEN Goes(t, "give_up") ELSE job' = [job EXCEPT ![t] = Idle]
    /\ SavesOnly /\ UNCHANGED <<created, restoring, pinned, shutdown>>
------------------------------------------------------------------------------
(* Retention: _deferred_kinds, apply_retention, _prune_kind.               *)

Deferred == {saves[s].kind : s \in {r \in {pinned, marker} \ {0} : saves[r].db = "final"}}

Defer(t) ==
    /\ At(t, "defer")
    /\ GoesOn(t, [job[t] EXCEPT !.kinds = @ \ Deferred])
    /\ UNCHANGED <<swapVars, created, snapshotting, pinned, shutdown>>

\* What must not go is read before the saves are listed: the marker, then the pin.
Protect(t) ==
    /\ At(t, "protect")
    /\ job' = [job EXCEPT ![t].step = "list", ![t].spared = marker]
    /\ UNCHANGED <<swapVars, created, locks>>

Listed(kind) == {s \in Save : Complete(s) /\ saves[s].kind = kind}
Newer(s, S) == {r \in S : r > s}

ExcessOneMore(S) == {s \in S : Cardinality(Newer(s, S)) + 1 >= Keep}
Excess(S) == {s \in S : Cardinality(Newer(s, S)) >= Keep}

First(kinds) == IF "auto_restore" \in kinds THEN "auto_restore" ELSE "auto_intervention"

List(t) ==
    /\ At(t, "list")
    /\ LET kind == First(job[t].kinds)
       IN GoesOn(t, [job[t] EXCEPT !.kinds = @ \ {kind}, !.spared = 0,
                                   !.victims = Excess(Listed(kind) \ {job[t].spared, pinned})])
    /\ UNCHANGED <<swapVars, created, snapshotting, pinned, shutdown>>

Victim(t) == CHOOSE s \in job[t].victims : \A r \in job[t].victims : s <= r

\* _remove_save: the database half first.  Removing a tree is not atomic.
RemoveArtFirst(t) ==
    /\ At(t, "remove_db")
    /\ Tears(Victim(t), "art", "torn")
    /\ Goes(t, "remove_art")
    /\ SavesOnly /\ UNCHANGED <<created, locks>>
RemoveDb(t) ==
    /\ At(t, "remove_db")
    /\ Tears(Victim(t), "db", "none")
    /\ Goes(t, "remove_art")
    /\ SavesOnly /\ UNCHANGED <<created, locks>>
RemoveArt(t) ==
    /\ At(t, "remove_art")
    /\ Tears(Victim(t), "art", "torn")
    /\ Goes(t, "remove_rest")
    /\ SavesOnly /\ UNCHANGED <<created, locks>>
RemoveRest(t) ==
    /\ At(t, "remove_rest")
    /\ saves' = [saves EXCEPT ![Victim(t)] = NoSave]
    /\ GoesOn(t, [job[t] EXCEPT !.victims = @ \ {Victim(t)}])
    /\ SavesOnly /\ UNCHANGED <<created, snapshotting, pinned, shutdown>>
------------------------------------------------------------------------------
(* delete_save.                                                            *)

Wanted(s) == marker = s \/ pinned = s \/ restoring

Delete(t, s) ==
    /\ At(t, "idle")
    /\ Complete(s) /\ saves[s].kind = "manual"
    /\ ~Wanted(s)
    /\ job' = [job EXCEPT ![t] = [Idle EXCEPT !.step = "remove_db", !.victims = {s}]]
    /\ UNCHANGED <<swapVars, created, locks>>
------------------------------------------------------------------------------
(* request_restore.                                                        *)

Request(t, s) ==
    /\ At(t, "idle")
    /\ ~restoring
    /\ marker = 0
    /\ Complete(s)
    /\ restoring' = TRUE
    /\ job' = [job EXCEPT ![t] = [Idle EXCEPT !.step = "pin", !.target = s]]
    /\ UNCHANGED <<swapVars, created, snapshotting, pinned, shutdown>>

\* The save may be incompatible, or gone by now.
Incompatible(t) ==
    /\ At(t, "pin")
    /\ restoring' = FALSE
    /\ job' = [job EXCEPT ![t] = Idle]
    /\ UNCHANGED <<swapVars, created, snapshotting, pinned, shutdown>>

Pin(t) ==
    /\ At(t, "pin")
    /\ saves[job[t].target].db = "final"
    /\ pinned' = job[t].target
    /\ Goes(t, "snapshot")
    /\ UNCHANGED <<swapVars, created, snapshotting, restoring, shutdown>>

SaveBefore(t) ==
    /\ At(t, "snapshot")
    /\ Numbered(t, "auto_restore", "mark", job[t].target)
    /\ UNCHANGED <<swapVars, restoring, pinned, shutdown>>

\* Another snapshot is running, or the marker cannot be written.
CannotSave(t) ==
    /\ \/ At(t, "snapshot") /\ snapshotting
       \/ At(t, "mark")
    /\ Goes(t, "give_up")
    /\ UNCHANGED <<swapVars, created, locks>>

Mark(t) ==
    /\ At(t, "mark")
    /\ Ask(job[t].target)
    /\ pinned' = 0
    /\ Goes(t, "schedule")
    /\ UNCHANGED <<created, snapshotting, restoring, shutdown>>

GiveUpSilently(t) ==
    /\ At(t, "give_up")
    /\ pinned' = 0
    /\ restoring' = FALSE
    /\ job' = [job EXCEPT ![t] = Idle]
    /\ UNCHANGED <<swapVars, created, snapshotting, shutdown>>
GiveUp(t) ==
    /\ At(t, "give_up")
    /\ pinned' = 0
    /\ Retain(t, Automatic, "release")
    /\ UNCHANGED <<swapVars, created, snapshotting, restoring, shutdown>>

Schedule(t) ==
    /\ At(t, "schedule")
    /\ shutdown' = TRUE
    /\ restoring' = FALSE
    /\ job' = [job EXCEPT ![t] = Idle]
    /\ UNCHANGED <<swapVars, created, snapshotting, pinned>>

\* Never a staged restore behind a server that keeps running.
ScheduleFailsMarked(t) ==
    /\ At(t, "schedule")
    /\ Retain(t, Automatic, "release")
    /\ UNCHANGED <<swapVars, created, locks>>
ScheduleFails(t) ==
    /\ At(t, "schedule")
    /\ Withdraw
    /\ Retain(t, Automatic, "release")
    /\ UNCHANGED <<created, locks>>
------------------------------------------------------------------------------
(* Between runs.                                                           *)

\* startup_report: retention that was put off is caught up with.
Starts ==
    /\ ServerStarts
    /\ Retain(Reactor, Automatic, "idle")
    /\ UNCHANGED <<created, locks>>

Stops ==
    /\ ServerStops
    /\ job' = [t \in Thread |-> Idle]
    /\ snapshotting' = FALSE /\ restoring' = FALSE
    /\ pinned' = 0 /\ shutdown' = FALSE
    /\ UNCHANGED created

Plays == Play /\ UNCHANGED <<job, created, locks>>
Tools == Tool /\ UNCHANGED <<job, created, locks>>

Creating(t) ==
    \/ \E kind \in Kind \ {"auto_restore"} : Create(t, kind)
    \/ Copy(t) \/ PublishArt(t) \/ PublishDb(t) \/ CreateFails(t)
Retaining(t) == Defer(t) \/ Protect(t) \/ List(t)
Removing(t) == (\E s \in Save : Delete(t, s)) \/ RemoveDb(t) \/ RemoveArt(t) \/ RemoveRest(t)
Requesting(t) ==
    \/ \E s \in Save : Request(t, s)
    \/ Incompatible(t) \/ Pin(t) \/ SaveBefore(t) \/ CannotSave(t) \/ Mark(t)
    \/ GiveUp(t) \/ Schedule(t) \/ ScheduleFails(t)

Next ==
    \/ Tools \/ Starts \/ Stops \/ Plays
    \/ \E t \in Thread : Creating(t) \/ Retaining(t) \/ Removing(t) \/ Requesting(t)

Spec == Init /\ [][Next]_vars
=============================================================================
