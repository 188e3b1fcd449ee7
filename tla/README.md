# Elosern-MUD: a TLA+ verification project

Elosern-MUD is a persistent multiplayer text game: an Evennia (Twisted, Django) server, a Vue browser
client, a local language model that writes suggestions, dialogue and flavour, and an image generator that
illustrates entities. This directory models the parts of it in which correctness depends on the *order* of
things (publications, browser frames, actions, model calls, pictures, saves), checks them on small instances
with TLC, and proves the most important results for every instance with TLAPS.

Line numbers below are those of the modelled commit; the exact ranges of every definition are in
`PROJECT.json` under `map`.

## 1. The system

The game logic runs on one thread, Twisted's reactor. Nothing is preemptive there, so races have another
form: what happens between a call and its Deferred, between `callLater(0, ...)` and its turn, between a
frame sent and a frame adopted, between a model call and its answer. Threads exist in few places: model
transport, one worker that generates pictures, request threads that make and remove saves. The tool that swaps
a save in runs alone, between two runs of the server.

| Component | State it keeps | Operations | What is hard | What makes it correct |
|---|---|---|---|---|
| **Publication coordinator** `web/webclient/presentation/coordinator.py` | epoch, revision, last published baseline, pending entries, drain markers, waiters | `enqueue_publication`, `flush_publication_group`, drain, send, `reset` | merging, bounded queue, partial sends, re-entrant drains, resets with drains outstanding | a delta is planned from what the receiver holds; every Deferred is answered once; no result names a revision the receiver cannot hold |
| **Browser store** `protocol/store.js`, `publication_parts.js`, `core.js`, `webclient-app/` | phase, epoch, revision, panels, part transfer, recovery episode, in-flight request, retired epochs | one handler per frame type, connection open and close, timers, the sync gate | out-of-order and late frames, incomplete transfers, one repair at a time | the screen is one whole publication; controls are open only on the current one; one automatic repair per episode |
| **Ingress and session** `presentation/ingress.py`, `server/conf/inputfuncs.py` | session, puppet, coordinator of the session | `ui_sync`, refresh after a text command, pushes, puppet changes | the puppet changes under queued work | a browser is told when its sequence ends and always catches up |
| **Action dispatcher** `actions/dispatcher.py`, `account_actions.py` | in-flight request, request cache, pending transition | admit, reject, replay, complete, transition | completion after the sequence ended, result lost, duplicate requests | an action runs at most once and its answer never precedes what it did |
| **Option proposal service** `server/option_proposal_service/` | options and barriers per session; cache, memo, calls, chains per fingerprint | trigger, deliver, fail, dismiss, forget | calls shared by sessions, dismissed by some, queued behind each other | one call at a time; a dismissed call stays dismissed; nobody waits for nothing |
| **World saves** `server/saves/`, `scripts/serve.sh` | live database and art store, the two halves of each save, the pin of a request, marker and outcome of a restore | create, list, delete, prune, request a restore; the tool's verify, stage, move aside, install, roll back, clean up | two stores swapped by renames, a failure or crash at any of them; threads that prune, delete and ask at once, without a common lock | the server starts on one whole world, old or new; listed saves are whole; the newest survive pruning |
| **Artwork queue and worker** `world/art/` | records with status, claim token and lease; gallery cards; files; the worker slot; publication gate | ensure, force, request, claim, generate, publish, settle, remove, prune orphans | a lease that runs out, a forced regeneration under a running worker, file, card and record written one after the other, a snapshot in between | what a record or card names exists; a settled picture is as new as its prompt; every request settles |
| **Sleep and its continuation** `world/rules/time_skip.py`, `sleep_receipt.py`, `clock.py`, `possession.py`, `server/dream_service.py` | receipt of the sleep, control-view generation, possession, record of the answer and of the continuation, open dream | enter, party sleep, forced sleep, answer the dream question, enter and leave the dream, continue, settle an interval, resume on attach, possess, release | a sleep of many transactions, lost between any two; contacts and events inside it; a record left pending while the player does something else | no interval twice or forgotten; no interval after the player's word was revoked; a pending record ends |
| **Other rest** `world/rules/camping.py`, waits and companions' sleeps in `time_skip.py` | camp record, receipts per companion | camp, wait, practice | a camp of several sleepers | |
| **Combat sessions** `world/rules/combat_session/` | session, round, participants | start, round, settle, exit | settlement exactly once | a session ends once, with one settlement |
| **Quests** `world/quests/` | stage per character | offer, progress, settle | settlement exactly once | rewards once |
| **Possession, party** | links between characters | possess, release, invite | reach the session as a puppet change, and a sleeping owner as a new view | |
| **Narrative director and model services** | exchange per actor | ask, apply a guarded answer | a late answer | an answer for a gone situation is dropped |
| Presenters, wire format, maps, monsters, rules, lore, commands, operator portal | data | pure functions, single transactions | arithmetic, wording | pinned by the repository's own tests |

How they interact:

    player --ui_action--> dispatcher --adapter--> game rules
      ^                      |  completion intent        | pushes, refreshes
      |                      v                           v
    browser <--frames-- publication coordinator <--intents-- ingress, presenters, option service
      |                                                        ^
      +-------------ui_sync (repair, lifecycle)----------------+

The dispatcher and every pusher hand *intents* to the session's coordinator and wait on its Deferreds. The
browser's only influence on the coordinator is `ui_sync` and the revision a `ui_action` was based on. The
option service writes session state and publishes through the coordinator. A puppet change retires the
coordinator's sequence, the dispatcher's running action and the session's options together.

Every hazard this code is exposed to is listed at its line under `hazards` in `PROJECT.json`, with the
properties that would show it going wrong or the reason why none does yet.

## 2. The modules

| Module | Content |
|---|---|
| `PublicationStream` | Abstract specification: a reader is shown whole publications, numbered upwards within a sequence; a delta only on the publication it was computed from; a lost send makes the stream distrust itself until a snapshot. |
| `Coordinator` | `coordinator.py`, one action per synchronous piece of the code. |
| `CoordinatorProperties` | Its invariants, action properties, fairness. |
| `CoordinatorRefinement` | The refinement mapping to `PublicationStream`. |
| `CoordinatorProofs`, `CoordinatorRefinementProofs` | TLAPS. |
| `ClientStore` | The browser's reducer, part assembly, recovery episode and gates; one action per JavaScript task. |
| `PresentationSync` | Composition: one session, websocket, the browser (`EXTENDS ClientStore`), and for the publication owner `INSTANCE PublicationStream` instead of `Coordinator`. |
| `PresentationSyncProperties`, `PresentationSyncProofs` | Its properties, fairness; TLAPS. |
| `ActionDispatch`, `ActionDispatchProperties`, `ActionDispatchProofs` | `dispatcher.py` with the queue of its answers, and the puppet changes of `account_actions.py`; TLAPS. |
| `OptionService`, `OptionServiceProperties`, `OptionServiceProofs` | `server/option_proposal_service/`. |
| `AtomicRestore` | Abstract specification: a start finds the world the last run left or the save asked for, whole, and a request serves one start. |
| `RestoreSwap` | The pre-start tool, `restore.py`: every rename, failure, rollback and crash. While the server runs, world and archives change as `Serve` allows. |
| `WorldSaves` | `EXTENDS RestoreSwap`: the threads of the running server, `snapshot.py`, say how they change. |
| `WorldSavesProperties`, `WorldSavesProofs` | Its properties with the refinement of `AtomicRestore`; TLAPS. |
| `ArtQueue`, `ArtQueueProperties`, `ArtQueueProofs` | `world/art/`: the queue, the worker thread, publication, galleries, and the snapshot thread at the publication gate; TLAPS. |
| `OwnerSleep`, `OwnerSleepProperties`, `OwnerSleepProofs` | The owner's sleep: `time_skip.py` with what the clock, fatigue, possession and the dream do to it; TLAPS. |
| `MC...` | Instances for TLC. |

A few definitions come in two forms (`Excess` and `ExcessOneMore`, `Resume` and `ResumeForgets`, ...). The
second is a plausible mistake and is used by no action; `PROJECT.json` lists under `mutants` which property each of
them breaks, so that no property here is vacuous.

### Coordinator

* `pending` stands for `_pending` and `_pending_groups`: a sequence of entries, at most one per group.
  `Enqueue` merges (`Merge`) or appends; `EnqueueFull` is the overflow path, which answers the refused caller
  and makes the whole baseline distrusted; `EnqueueRejected` is validation.
* `scheduled`, `turns`, `draining` are `_drain_scheduled`, the `callLater(0)` calls outstanding on the reactor,
  and `_draining`. A reset clears the marker while a call is outstanding: that is why `turns` is a count.
* `Execute` plans one entry (retired, result-only, plan, plan fails); `SendPlan` and `SendPlanFails` send one
  logical publication of the batch; `BatchDone` answers its waiters. While `batch` is not empty nothing else
  runs, as in the code, where the whole batch is one synchronous call; it is split because each send may fail.
* Between entries the callbacks of answered Deferreds may enqueue, flush or reset: in the model all of them are
  enabled there.
* `Reset` is `reset()`: fresh epoch, revision 0, no baseline, all waiters answered.
* `world` changes freely between synchronous calls (`WorldChanges`); presenters render it when an entry is
  planned, unless the caller supplied the panel.
* `held` is a ghost: what a receiver holds that adopted every complete publication that reached it.

### ClientStore and PresentationSync

* `Receive(f)` is the dispatch of one frame; its disjuncts are the branches of `receive`, `receivePart`,
  `handleActionResult` and the error handler, in their order of precedence. A publication's content is its
  identity `<<epoch, revision>>`; a delta adopted on another base would show `Mixed`.
* `recovery` is the episode state; `AutomaticSync` is the microtask that follows a recorded need;
  `ManualSync`, `LifecycleSync` are the two other ways a `ui_sync` leaves; `RecoveryDeadline` and
  `AssemblyDeadline` are the timers.
* `jobs` are the entries of the publication owner (refresh, sync, stale, completion, answer), which the proved
  refinement entitles to be executed one after the other on the stream; `running` is the admitted action.
* `Disconnect` and `BrowserCloses` drop both directions; `late` is one frame of the closed transport that the
  browser may still be delivered; `Connect` starts a new transport generation.
* `Unpuppet`, `SwitchPuppet`, `PuppetByText`, `SwitchByText` are the ways a session's character changes; only
  the first two announce it with `no_active_puppet`.

### OptionService

* A call is named by its number in its fingerprint and stands for the set it returns; `cache[f]` is the number
  of the cached set. `pending` is `_pending` (joinable), `chain` is `_chains` (active, successor, detached).
* `Trigger` is `trigger_for_session`, one action per outcome: replayed, in memo, joined, queued behind a call
  below the session's barrier, barred, started, start failed. `Complete` is the end of a call (ready, degraded,
  retired) with the hand-over to the successor, whose own start may fail. `Dismiss` and `ChangePuppet` go through
  `Forget`, i.e. `evict`.
* Several watchers of one trigger are several triggers in a row.

### ActionDispatch

* `HandleAction(r, e)` is `handle_ui_action`, one action per way out: `Replay` from the cache, `Refuse` (no puppet,
  malformed, unknown, busy), `SendStale`, or an admission, which is followed by the adapter at once: it returns a
  result (`AdmitSync`) or a Deferred (`AdmitDeferred`, later `AdapterCompletes`), raises (`AdmitRaises`), needs no
  publication (`AdmitQuiet`), or schedules a puppet change for the next turn (`AdmitTransition`).
* A request is named by its id and keeps the epoch the browser first sent it with, also when it is sent again. The
  revision it is based on is left open: `SendStale` is always possible.
* `queue` is what of the coordinator's queue belongs to this module: the answers. `StartDrain`,
  `CompletionPublished` and `CompletionFailed` are its drain with the callbacks the dispatcher hung on it; a failed
  publication is answered again without one, in the same drain (`Instead`).
* `due` is the reactor's list of `callLater(0)`: drains and puppet changes, in the order they were asked for (this
  order is Twisted's, and marked external). `Attach` is `_perform_switch` and `_perform_create` with the ladder of a
  failed attachment; `ChangePuppet` is the text commands.

### WorldSaves and RestoreSwap

* A file is its place in the live stores; `live`, `aside` and `staged` say what lies there, in `.restore-aside` and in
  `.restore-staging`. Its content is the version of the world it belongs to. Side files of the database
  (`-wal`, ...) exist or not when a run ends (`Left`); a save has none.
* `tool` is where the tool is. `moved` and `installed` are what it remembers, and die with it; everything else is on
  disk. `Fails` and `Crash` may follow any step; after `RollbackFails`, a raised `FinishRaises` or a `Crash` the tool is
  "off", and may be started again (`ToolStarts`), which an aside that was left refuses.
* A save has two halves, each published and removed by itself. `Copy` is one step: the gate that makes it one is
  modelled in `ArtQueue` (`Pause` to `Resume`).
* `job[t]` is what request thread t is doing: making a save (`Create` to `PublishDb`), pruning (`Defer`, `Protect`,
  `List`, then `RemoveDb` to `RemoveRest` per victim), deleting, or asking for a restore (`Request` to `Schedule`).
  What it has read and not acted on yet is in the record: `spared`, `victims`, `target`.
* Locks are the code's: a snapshot holds one, a request the other, deletion and pruning none.

### ArtQueue

* A record is a scene's (kept for ever) or a gallery job's (named by its image, deleted in the end). `Identity` is a
  picture's place in the store: a job in a format. `files[i]` is the version of the prompt the picture shows.
* The reactor's `drain` is `Drain` (reclaim, choose) and then `Claim` and `Stamp` for each job, because a record's
  attributes are saved one by one. `Take` to `Fail` is the worker thread, with a step between any two writes.
  `GateHeld` and `QueueLocked` say which steps the two locks exclude.
* `retired` are the monster species that the running code does not know; a restart may change it, as it may the format. Requests
  for them are refused and `Pending` leaves their jobs out (`Known`).
* `Crash` and `Start` (`prune_gallery_orphans`) may come between any two steps; `Pause` to `Resume` is the snapshot.
* `removed` is history: the pictures whose card somebody removed. `ReferencesExist` excludes them, because the file of
  a removed card may go while a late worker writes the card again (finding 1 is about the rest).

### OwnerSleep

* `receipt` is the owner's `SleepReceipt`; `left` is the time from its settled cursor to its limit. A sleep is named by a number, as
  is a control view (`generation`). `decision` is the sleep view decision, with the record of the continuation in it:
  the operation, the index of its last interval and the time it has settled. `dream` says that the open dream names
  this receipt at its revision. `run` is what `continue_owner_sleep` holds in memory.
* `Decline`, `Continue` and `Depart` start the loop, `Resume` takes it up again on an attach. An interval is one
  transaction, `Interval`, whose data are left open: how long it is, whether it reaches the target (`Due`), and whether
  an event or a contact comes with it. `Refused` is an interval that the safety gate turns away; `Finish` is what
  follows the loop. All of it is one synchronous call on the reactor, so nothing else runs between two intervals
  but what ends the call: `Lost`, a crash or an exception.
* `Passes` is every other way in which time reaches the receipt: a companion's interval while the owner plays it,
  a wait, `sleep` typed by a sleeper. `Enter`, `PartySleep`, `Exhaust`, `Possess` and `Release` are the others' actions.
* `settled`, `published` and `licence` are history: what each operation has settled, which sleep had a
  checkpoint, and whether the player's last word still is to go on.

## 3. The runs

Each run finishes within four minutes on two workers.

| Run | Instance | What it shows |
|---|---|---|
| `coordinator_content` | two eager panels, one map, two payloads, two modes, 2 waiters, 2 groups, 3 revisions, 1 sequence | The content: `NoGap`, `BaselineIsHeld`, `TargetNeverReused`, `RefreshIsComplete`, `ModeBringsDialogue` over every interleaving of pushes (one that supplies the dialogue among them), map views, completions, removals and failed sends. |
| `coordinator_queue` | 2 waiters, a queue of 1, 2 groups, 2 sequences, 2 drains outstanding, 2 revisions, a scheduler that may raise | The queue: nobody answered twice (`WaitersPartitioned`), stranded (`NoStrandedWaiter`) or left waiting (`EveryWaiterAnswered`), no result ahead of the receiver (`ResultNamesHeldRevision`), and every step is one of the abstract stream (`ImplementsStream`). |
| `sync_safety` | 2 sequences, publications in 1 or 2 frames, one request of the player, 2 faults | `OneAutomaticSync`, `UnlockedIsCurrent`, `AnsweredMeansVisible`. |
| `sync_reconnect` | 3 sequences, memory of 1 retired epoch, text commands that switch character, 2 faults | `ShowsAPublication`, `SequencesMoveForward`. |
| `sync_live` | 2 sequences, one request, one fault, intact publications | `NobodyLeftBehind`, `EveryActionResolves`. |
| `dispatch` | 2 requests, 2 characters, a cache of 1 result, 3 sequences, 1 stale answer in the queue | `ExecutedOnce`, `AnswersAgree`, `OneAtATime`, `SwitchAnswered`, `BusyEnds`. |
| `options_windows` | 2 windows of one character that may be let go and taken again, 1 situation, 3 calls | `BooksAgree`, `GeneratingIsAwaited`, `ShownToItsOwner`, `BarrierHolds`, `GeneratingEnds`. |
| `saves` | 2 threads, 3 saves, 2 versions of a world of 4 files, one save of each automatic kind kept | `Recoverable`, `ListedIsWhole`, `RetentionCatchesUp`, `StagedRestoreShutsDown`, `NewestSurvive`, `ImplementsAtomicRestore`. |
| `art` | a scene, a capped gallery of a monster species with a card, which a restart may find unregistered, 2 images, 2 formats, a limit of 2, 2 events | `ReferencesExist`, `SavedIsWhole`, `RegeneratedIsNew`, `EveryJobSettles`. |
| `art_removed` | the same | Violation, finding 1. |
| `sleep` | 2 units of sleep, 3 intervals, 2 views and sleeps, 2 requests to continue, 2 crashes or exceptions | `ElapsedAgrees`, `LicensedIntervals`, `PendingEnds`. |
| `sleep_contact` | the same, 1 crash or exception | Violation, finding 2. |

### Findings

1. `art_removed`: `queue.py:532-534` promises that an interruption leaves an orphan file, never a card that points at a
   missing one. When a card is removed while its picture is being published again, the file that goes may be the one
   the new card names.
2. `sleep_contact`: a field contact at the end of an interval leaves the receipt "interrupted", but `continue_owner_sleep`
   (`time_skip.py:1692`) takes every receipt that no longer sleeps for a completed one: it records and returns
   "complete" and publishes `skip_completed`, which `docs/development/webclient-synchronization.md:837` and its own
   docstring (1583-1584) exclude for an interrupted continuation. A single interval counts as completed only when its receipt
   is (1165).

Seen while modelling, without a run of their own:

* Coordinator: a dialogue panel that its publisher *supplied* is published as it was rendered then, the mode as it is when the
  entry is drained (`coordinator.py:1095-1096`). The dialogue is supplied by `push_dialogue_reading` outside a publication group or with
  an unlock batch (`dialogue_push.py:192-208`, from `dialogue_availability.py:554-558`) and by `push_dialogue_update`
  (`push.py:116-124`, from `typeclasses/npcs.py:253`, among others). If a dialogue opens between such a push and its drain, the receiver
  is put in dialogue mode with the closed panel, which the comment at `coordinator.py:104-106` and
  `docs/development/webclient-synchronization.md:705-706` exclude ("can never diverge"). TLC shows it with the requests `Refresh` and
  `DialoguePush` of `MCCoordinator`, for the formula "in dialogue mode the receiver's dialogue is open"; no run here checks
  that formula, because the code does not keep it. What the code does keep is `ModeBringsDialogue`, checked with those pushes and proved
  without a hypothesis: the next publication in dialogue mode that supplies no dialogue brings the one of its own rendering.
* Session: the text command that enters another character starts a sequence without telling the browser that the old
  one ended; the browser drops the new snapshot without recording a recovery and keeps the old panels and controls.
* Options: two characters in one place may share a fingerprint; the second joins the call of the first, whose delivery
  skips it, and stays in "generating". The token of a session starts again from 0 after a puppet change, so a call of
  the retired sequence can be written into the new one; only its push checks the epoch. A dismissed call can come back:
  when the successor that a dismissal queued degrades, delivery clears the session's barrier (`lifecycle.py:81`), and the
  next trigger may replay the older cached set. `BarrierHolds` is about barriers that stand.
* Dispatcher: a duplicate of the request in flight is told "busy" before the request has its real answer
  (`AnswersAgree` is about results). A result that the cache has given up lets a late duplicate run again; that is why
  `ExecutedOnce` excludes `evicted`.
* Saves: a crash in the clean-up of a *committed* swap leaves an aside, so the next start is refused as if the swap had
  been interrupted (`restore.py:328`; the comment at 276-278 and `docs/development/gm-portal-saves.md:101,105` take an
  aside for the sign of an uncommitted one). The check that a save is not wanted and its removal are not one step
  (`snapshot.py:444-447`, `452-470`): a request may pin a save that is being removed; the tool's verification then
  refuses it, so the world stays whole. An aside that cannot be removed at all refuses every later start.
  `.restore-done-*` directories are mirrored by later snapshots. The halves a crashed creation leaves under its temporary
  name are never removed.
* Art: the guard against a second request reads the cards, then the jobs, and a job that ends in between lets it
  through (`service.py:109-111`, docstring 101-107). A crash between `queue.py:462` and `463` leaves a scene "done"
  without an output. `ArtSubjectError` is named at `queue.py:579` and `641` but not imported. Between the claim and the
  dispatch to the thread nothing is guarded (`worker.py:678`): an exception there keeps the slot until a restart. A
  job that is claimed again after its card was written records an error for what succeeded. The queued job of a monster species
  that the code no longer registers is passed over by every claim (`queue.py:292-293`) and kept by the prune at the start, whose docstring
  says that it deletes what "can never be claimed or published again" (`service.py:675-678`): it stays pending until the species is
  registered again, and `EveryJobSettles` excepts it. The check of `queue.py:557-559` is modelled (`Publishable`) and finds nothing
  to refuse, because the registry does not change while a server runs.

* Sleep: `sleep` typed a second time settles an interval before the dream question is answered (`time_skip.py:1892-1899`; the
  comment at 1923-1924 and `docs/game/command-reference.md:208` say that none does). A pending record that a
  rolled-back interval left behind survives an event met by a wait or a typed `sleep`, and the next attach resumes it:
  only a contact revokes it. A possession whose companion is gone is cleared without a new view (`possession.py:1411-1424`).
  A forced sleep opens no view either, so a record left pending for the sleep before stays pending while it lasts, refused by every
  attach.

### Bounds and why they are enough

`MaxRevision` is `MAX_SAFE_INTEGER` made small: reaching it is a branch of the code, so it is not only a bound.
Three revisions give a snapshot, a delta and a delta on a delta. `MaxEpoch` counts sequences: two are enough for
everything left over from a retired one, three with a memory of one retired epoch make the browser forget one.
`MaxPending` is the queue's real bound (64) made small: two merge and append, one overflows. `MaxTurns` 2 is one drain left over by a reset and one scheduled since. `MaxPushed`
bounds spontaneous pushes and no answer; `MaxDown` and `MaxAsks` bound frames on their way and requests of the
player; `MaxFaults` counts failures of either side: two allow the failure of a repair. `MaxGeneration` 3 is an
active call, a detached one and a successor at once, with two windows that leave and rejoin them. The `sync_*` runs
split what one instance cannot hold: parts and an action in `sync_safety`, a third sequence in
`sync_reconnect`, liveness in `sync_live`.

`Capacity` 1 of `dispatch` makes two requests meet the bound of the cache (64 in the code); three sequences allow
one that ends under a running adapter, and one that follows a failed attachment at once; two requests are an asker and one
more. Of `saves`, two versions tell the world from the save, three saves are one that is wanted, one that is made and one
that is pruned, and a world of the database, a side file, an art entry of both versions and one of the second only covers
the kinds of file a swap treats differently. `MaxEvent` 2 of `art` counts forced requeues, removals, snapshots and crashes:
two let any one of them meet any other. In `sleep`, two sleeps and views tell a record from its successor, two faults crash
a resumed operation again, two requests leave one operation behind another, and three intervals (64 in the
code) reach the bound with a crash before and after it. An interval takes 0 to 2 units, so it may settle nothing, a part, or all.

Symmetry is used only over waiters, in `coordinator_content`, which has no liveness. Deadlock is checked
for the coordinator and the dispatcher. The `sync_*`, `options_windows`, `art` and `sleep` instances may stop once their bounds are
spent (a player need not act and the world need not move), and in `saves` a refused start really is the end, until
somebody recovers the world by hand.

### Fairness and why the code justifies it

* `coordinator_queue`: `SF(DeferredDrain)`, because the reactor runs a due call on its next turn however many
  synchronous flushes come before it, and `WF(Publishing)`, because a drain that started is one synchronous call.
* `sync_live`: weak fairness of the reactor's work (`Publishing`, `Taking`), the browser's event loop
  (`BrowserTakes`, `AutomaticSync`, `DeferredSync`), its timers (`Expire`), and of the browser closing a socket
  that died and opening the next (`transport.js`). None for players, the game, actions or the network. The run
  excludes the two failures that the code reports to nobody (`RefreshMayFail`, `ResultMayBeLost`): after them
  only a later publication or reconnect helps. The safety runs include both.
* `dispatch`: `WF(ReactorTurn)`, and `SF` of the completion of adapters, which the model shuts out while a drain is under
  way, a single turn in the code. That adapters complete at all is an assumption: `dispatcher.py` has no time limit.
* `art`: the worker and the snapshot thread run, the reactor serves its callbacks (`WF`), the scheduler's tick gets its
  turn between other callbacks and every lease runs out (`SF`: both are shut out while another holds the queue), and
  a dead server is started. `saves` is checked for safety only.
* `sleep`: `WF(Executor)`, because the loop is one synchronous call with a bound on its intervals, and `WF(Resume)`, because
  the character is attached again some day. Only `PendingEnds` needs them. Nothing else is fair: not the player's answers, and
  no interval need reach the target.
* `options_windows`: `WF(Complete)`, because the model client has a time limit. None for players.

## 4. The proofs

Assumptions on constants: `CoordinatorAssumption`, the two of `OptionService`, `SleepAssumption`, `SyncAssumption` of the
browser, `DispatchAssumption`, `ArtAssumption`, and `FilesAssumption`, `VersionAssumption` and `ThreadAssumption` of the saves
(bounds are naturals, sentinels are no members, the requests are well-shaped, there are finitely many artwork jobs). TLC
evaluates them in every run. Panels, payloads, waiters, groups, requests, sessions, characters, situations, parts,
scenes, images, files, saves, threads and every bound are arbitrary. Two theorems have a hypothesis of their own, because
what they state is false without it; each is explained below: `~TextSwitch` and `[]Apart(whose)`.

**Coordinator.** `BaselineIsHeld` is not inductive: that the baseline equals what the receiver holds depends,
while a batch is on its way, on the plans still to be sent. `ChainInv` is the strengthening: types
(`TypeOK`), entries that share no waiter and no group slot (`EntriesDisjoint`), and `PublicationInv`: the plans
of a batch continue the held revision one by one, each delta based on the one before (`BatchContinues`), held
revision and sequence never run ahead of the owner's (`RevisionsOrdered`), no gap so far, the trusted baseline
is held, and results name held revisions. `ChainStep` shows it step by step, with one lemma per action that moves
the receiver (`SendPlanStep`, `SendPlanFailsStep`, `BatchDoneStep`, `ResetStep`, `EnqueueFullStep`,
`ExecuteStep`). From it follow

* `TypeCorrect`: among others, no revision beyond the ceiling is ever issued;
* `NeverAGap`, `TrustedBaselineIsHeld`, `ResultsNameHeldRevisions` (invariants);
* `TargetsAreFresh`, `RepairsAreSnapshots` (action properties);
* `NobodyStranded`, from `SchedulingInv`: the drain marker and a running flush each imply a drain that is due;
* `WaitersHaveOnePlace`, from `WaitInv`: `WaitersPartitioned` needs that a group has one entry, or a merge would
  choose among several;
* `RefreshesAreComplete`, from `RefreshInv`: the plans of an entry of unknown scope lead the receiver to the world
  as it is, while the batch keeps the world from changing;
* `DialogueComesWithItsMode`, from `DialogueInv`: while a batch is on its way, unless its publisher supplied or removed the dialogue
  panel, all its plans have the mode of now, and in dialogue mode the first brings the dialogue of now or finds it shown, and
  the rest leave it alone. It has no hypothesis: whatever a supplied dialogue put before the receiver (section 3) is gone with
  the next publication in dialogue mode that supplies none;
* `Implementation`: every behaviour of the coordinator is one of `PublicationStream`. Sends map to `Publish`,
  failed sends to `Lose`, overflow to `Distrust`, reset to `Reset`, everything else to a stutter. This is what
  allows `PresentationSync` to use the stream in place of the coordinator.

**Option service.** `BooksAgree` is inductive together with `TypeOK`: what can be joined is what the chain calls
active and the only unretired running call; what is queued is the chain's successor; a detached call still runs;
a successor has somebody to start it; numbers beyond the counter are unborn. `BooksCorrect` proves it by action
(`TriggerBooks`, `CompleteBooks`, `DismissBooks`), `OneCall` and `SuccessorKept` are its consequences. `ShownToOwner` needs
the stronger `OwnerInv` (a session's record is empty or belongs to its puppet) and that an empty record has a
token no subscription carries.

`StandingDismissalHolds` needs `BarrierInv` besides: whoever a due call will answer has no barrier above the call's number, and a
barrier is at most one above the numbers given out. It promises nothing once the barrier is lifted (section 3). `NobodyWaitsInVain` needs `AwaitInv`: the call a waiting session's
token names is its own, running or queued, and not retired. It assumes `Apart(whose)`, that a situation belongs to one character, so
that "every watcher of one situation shares it" (`state.py:69`) is about windows of that character: two characters that
share a fingerprint break it (section 3).

**Dispatcher.** `DispatchInv` is `DispatchTypeOK` with seven parts. `OneOpen`: of the sequence that runs, at most one admitted request is open, as a
running adapter, as an answer in the queue or as a scheduled change of character, and the marker says which.
`Answered`: a request that was admitted and not given up by the cache is open or has one result, in the cache and in what it
was told, so that whoever comes again is replayed or refused. `Entries`, `Sequenced`, `NoTwo`, `AnswersAgree` and `Switching`
say what lies in the queue, which sequence it is of, that the cache has one result per request, and that the change of a
character follows its answer. From it follow `RequestsRunOnce`, `OneResultIsTold`, `MarkerIsExact` and `SwitchesAfterItsAnswer`.

**Browser and session.** `SyncInv` is about the pipe: the publications on their way are in order, and none is of an older sequence or
revision than the screen or of a retired sequence (`Ordered`, `Stamped`); a transfer that has begun goes on with the first part on
its way (`Assembling`); an error that clears the screen divides the frames of one sequence from those of the next
(`Divided`); a closed socket has nothing on its way, and what is late is known (`Settled`, `Idle`). From it follow

* `SequencesOnlyAdvance` and `ScreensAreWhole`, for any number of sequences, revisions and parts;
* `AsksOnce`, with the episode's counter in the invariant (`Autos`);
* `OpenControlsAreCurrent`, from `TextInv`: an unlocked browser passes over no publication, so the last whole one in the
  pipe decides what it will show. It assumes `~TextSwitch`: a text command that enters another character while playing ends a
  sequence without a word to the browser (section 3);
* `AnswersAreVisible`, from `ActInv`: as long as the effect of the last answered action is not on the screen of its
  sequence, the browser is locked and a publication or answer that will show or refuse it is on its way, or is still to
  come from the owner (`Promised`). The other parts number requests (`Numbered`), keep one in flight (`Single`) and say which
  results can still be about it (`Held`, `Past`). The proof showed that the property needs no exception for errors waiting in the
  pipe, which an earlier form of it made; it is now stated, and checked, without.

**Artwork.** `ArtInv` is `ArtTypeOK` with `Places` (which thread stands where, given the two locks), `Owners` (a job is chosen by the
reactor, waits for the worker or is the worker's, and no other's), `Claimed` and `Settling` (what the worker may still
assume of the record, the file and the card at each of its steps), `Copied` (what the snapshot has copied so far), `Shown`
and `ReferencesExist`. From it follow `PicturesExist`, `SnapshotsAreWhole` and `RegenerationWins`. `ArtAssumption` asks for finitely many jobs, which is
needed only to choose up to the limit among them.

**World saves.** `ImplementsAtomicRestore` and `Recoverable` rest on `SwapInv`, proved for the tool first with a server whose
archives come and go as they like (`SwapInvariant`). Its heart is `Original`: at every step until the commit, the world
in which the tool found the server can be read off the disk and the tool's memory, file by file, and no step of the
swap or of its rollback changes it (`OriginalStays`); from the commit on, the world asked for is in place. The other
parts say what that needs: the marker leads to the version asked for as long as the save is complete (`MarkerInv`),
what is aside lies in a directory and is remembered (`AsideInv`), and how far each phase has come (`PhaseInv`). One
lemma per action. `SavesInv` then says that what a thread makes or removes no other can reach (`MakerInv`), and that a
database half exists only with a whole art half (`WholeInv`); `SavesStep` shows it to be kept and, with it, that every step
of the threads is one the tool was proved with (`SavesImplementSwap`). From both follow

* `WorldIsRecoverable`, `ListedSavesAreWhole`, `StagedRestoresShutDown` (invariants);
* `RestoreIsAtomic`: every behaviour is one of `AtomicRestore`. The tool's steps are stutters, `ServerStarts` is `Start`.

Pruning needs `PruneInv`, because a thread removes long after it counted. `SurplusInv`: every victim has enough newer saves of its
kind listed, now and not only when it was chosen; removing one victim does not take that from an older one, since what is newer than the removed
one is left to both. `DebtInv`: unless a restore is waited for, each kind is within its limit once the victims are gone, or some
thread still has it to count and will spare nothing; a restore that is given up makes its thread owe every kind. `PinInv`: a pin has
a thread that will take it away. From these follow `PruningCatchesUp` and `TheNewestSurvive`, for any limit and number of threads.

**Sleep.** `SleepInv` is `TypeOK` and three parts. `PastInv`: records are of views and sleeps there have been, so a new view or
sleep makes every record another's. `AccountInv`: what the loop holds in memory is what its operation has settled, and so
is what the record says of it; a crash loses the first and the second carries on. `LicenceInv`: a loop that goes on
has the player's word and the owner's own view, and a pending record of the present view and sleep has the word too,
which is why resuming it is allowed. From it follow `SleepTypes`, `ElapsedIsSettled` and `IntervalsAreLicensed`.

**Checked by TLC only.** Every invariant that a passing run checks is proved, with the hypotheses named above; every action
property and both refinements as well. What is left to TLC is liveness (`EveryWaiterAnswered`, `NobodyLeftBehind`,
`EveryActionResolves`, `GeneratingEnds`, `BusyEnds`, `EveryJobSettles`, `PendingEnds`), which is beyond the prover, the two
violations, and what the two properties with a hypothesis say where it fails: `UnlockedIsCurrent` with text commands that change
character and `GeneratingIsAwaited` with shared fingerprints are not claimed at all. Nor is that mode and dialogue agree in a
publication whose dialogue was supplied.

## 5. What the models leave out

* Coordinator: the replay batch of travel notices (`_latest_travel`), a `reset()` called from inside the send of
  a frame, and a waiter that enqueues while `reset` is answering it (`coordinator.py:459`). The random epoch is a
  fresh number: a collision is not considered. `candidates` are eager panels; map panels are never in a baseline.
* Browser: the on-demand map store with its own assembler, the staged dialogue check, the list of finished
  transfers, the guard that drops events of a stale transport generation before they reach the store, the notice
  `ctx.uncertain`, results the validator refuses, panel contents.
* Session: gallery selections retired with a sequence, companion and quest hooks. The revision an error answer
  names is chosen among every revision the owner's proof allows (`HeldRevisions`), which is more than it does.
* Dispatcher: what the adapters do, the revision a request is based on (left open), the size of payloads. A change of puppet
  whose surrounding transaction rolls back never fires its Deferred; the model has none of those.
* Saves: downloads, labels, disk space; the copy of the two stores is one step here. Removing a tree does not fail.
* Sleep: companions' receipts, waits and practice, camps and their own record, the stages of the clock, what fatigue computes,
  dead or deleted bodies, unreadable records. The identity of a sleep is a fresh number. What an interval returns to its
  caller is left out, but for the checkpoint.
* Art: prompts, models, error codes, attempt counts, the default card, the seeding of galleries at start-up.
* Options: the capacity of the barrier store (16): a session that dismisses in more than sixteen situations loses its oldest
  barrier (`state.py:278`), which an instance would need seventeen situations to show; the publications after a state change, what the calls say.
  A settled call drops its subscribers. `SharedPuppet = FALSE` is Evennia's default `MULTISESSION_MODE` 0, which the settings keep, where a
  character is played in one session; `TRUE` is the case of several windows.
* Every other component of the inventory, for the reasons under `components`.

## 6. Plan

Done: the publication path from the coordinator to the browser, the dispatcher, the option service, the saves and
their restore, the artwork queue, the owner's sleep. In order of importance, what is left:

1. Proofs: that `PresentationSync`'s owner and browser together implement an abstract session that shows a character's publications
   in order; safety facts that the liveness runs rest on (what is due stays due until it is done).
2. `CombatSession`, `QuestSettlement`: exactly-once settlement under interruption. `OwnerSleep`: companions' receipts and camps,
   whose records are pending beside the owner's.
3. Coordinator: re-entrant reset, travel notices. Options: barrier capacity, publications.
4. A common module of `ArtQueue` and `WorldSaves`, which meet at the publication gate and at the files a snapshot
   copies.
