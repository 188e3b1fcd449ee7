--------------------------- MODULE PresentationSync ---------------------------
(***************************************************************************)
(* One web session, end to end: the server's publication stream, the       *)
(* websocket, and the browser.  The server side keeps what the browser can *)
(* tell apart: whether the session plays a character, the publications the *)
(* owner still has to make, and the action being executed                  *)
(* (presentation/ingress.py, server/conf/inputfuncs.py, and of             *)
(* actions/dispatcher.py the answers).                                     *)
(*                                                                         *)
(* The websocket is a pair of queues that loses everything when it closes. *)
(***************************************************************************)
EXTENDS ClientStore, FiniteSets

CONSTANTS
    MaxRevision,     \* MAX_SAFE_INTEGER
    MaxEpoch,        \* bound: sequences one behaviour goes through
    MaxPushed,       \* bound: the game pushes only below this revision
    MaxDown,         \* bound: frames on their way to the browser
    MaxAsks,         \* bound: what the player asks for
    MaxFaults,       \* bound: failures of either side and of the socket
    PartCounts,      \* in how many frames one publication may leave
    TextSwitch,      \* whether a playing session may puppet by text command
    RefreshMayFail,  \* whether a refresh may fail, which nobody is told
    ResultMayBeLost  \* whether the send of a result may raise, likewise

ASSUME SyncAssumption ==
    /\ MaxRetired \in Nat \ {0}
    /\ MaxRevision \in Nat \ {0} /\ MaxEpoch \in Nat \ {0}
    /\ MaxPushed \in Nat /\ MaxDown \in Nat \ {0}
    /\ MaxAsks \in Nat /\ MaxFaults \in Nat
    /\ PartCounts \subseteq Nat \ {0}
    /\ TextSwitch \in BOOLEAN /\ RefreshMayFail \in BOOLEAN /\ ResultMayBeLost \in BOOLEAN

VARIABLES
    epoch, issued, trusted, shown,  \* the stream, see PublicationStream
    session,   \* "none", "guest" before login, "account" after it
    puppet,    \* session.puppet is a character
    jobs,      \* entries of the publication owner, oldest first
    running,   \* the admitted action that has not settled
    socket,    \* "open" or "down"
    down, up,  \* frames to the browser, messages to the server
    deferral,  \* the timeout set by `logged_in' is pending
    late,      \* a frame of the closed socket that may still be delivered
    asks, faults,   \* what the bounds count
    autos,     \* automatic requests of the current episode
    effect     \* where the latest answered action can first be seen

Stream == INSTANCE PublicationStream WITH
    Content <- (1..MaxEpoch) \X (1..MaxRevision) \union {Nothing}

streamVars == <<epoch, issued, trusted, shown>>
server == <<session, puppet, jobs, running, effect>>
counters == <<asks, faults, autos>>
vars == <<browser, streamVars, server, socket, down, up, deferral, late, counters>>

Init ==
    /\ BrowserInit
    /\ epoch = 1 /\ issued = 0 /\ trusted = FALSE
    /\ shown = [epoch |-> 0, revision |-> 0, content |-> Nothing]
    /\ session = "none" /\ puppet = FALSE /\ jobs = <<>> /\ running = NoRequest
    /\ effect = [epoch |-> 0, revision |-> 0]
    /\ socket = "down" /\ down = <<>> /\ up = <<>>
    /\ deferral = FALSE /\ late = <<>>
    /\ asks = 0 /\ faults = 0 /\ autos = 0
------------------------------------------------------------------------------
(* The server publishes. *)

Send(frames) ==
    /\ Len(down) + Len(frames) <= MaxDown + 2
    /\ down' = down \o frames

Frames(kind, n) ==
    [k \in 1..n |-> Publication(kind, epoch, issued + 1, IF kind = "delta" THEN issued ELSE 0, k, n)]

Kinds == IF trusted THEN {"delta"} ELSE {"snapshot"}

\* One whole publication, with what leaves in the same critical section.
Publishes(kinds, tail) ==
    /\ Len(down) < MaxDown
    /\ \E kind \in kinds, n \in PartCounts :
          /\ Stream!Publish(kind, <<epoch, issued + 1>>)
          /\ Send(Frames(kind, n) \o tail)

\* The transport raised after some of the frames.
Loses(kinds, tail) ==
    /\ Len(down) < MaxDown /\ faults < MaxFaults
    /\ faults' = faults + 1
    /\ \E kind \in kinds, n \in PartCounts : \E k \in 0..n :
          /\ Stream!Lose(k = n, <<epoch, issued + 1>>)
          /\ Send(SubSeq(Frames(kind, n), 1, k) \o tail)

\* Planning fails: no clock, a refused payload, no revision left.
Fails(tail) ==
    /\ faults < MaxFaults \/ issued = MaxRevision
    /\ faults' = IF faults < MaxFaults THEN faults + 1 ELSE faults
    /\ UNCHANGED streamVars
    /\ Send(tail)

\* The revision a result-only answer may name: what the client surely holds.
HeldRevisions == IF shown.epoch # epoch THEN {0}
                 ELSE IF trusted THEN {shown.revision} ELSE 0..shown.revision

\* A push, or the refresh after a text command: nobody waits for it.
Push ==
    /\ puppet /\ issued < MaxPushed
    /\ \/ Publishes(Kinds, <<>>) /\ UNCHANGED faults
       \/ Loses(Kinds, <<>>)
    /\ UNCHANGED <<browser, server, socket, up, deferral, late, asks, autos>>

RunRefresh ==
    /\ jobs # <<>> /\ Head(jobs).kind = "refresh"
    /\ \/ Publishes(Kinds, <<>>) /\ UNCHANGED faults
       \/ trusted /\ UNCHANGED <<streamVars, down, faults>>
       \/ RefreshMayFail /\ Loses(Kinds, <<>>)
       \/ RefreshMayFail /\ Fails(<<>>)
    /\ jobs' = Tail(jobs)
    /\ UNCHANGED <<browser, session, puppet, running, effect, socket, up, deferral, late, asks, autos>>

\* synchronize_session: a complete snapshot, or one safe error; a transport
\* that raised costs the browser a reload.
RunSync ==
    /\ jobs # <<>> /\ Head(jobs).kind = "sync"
    /\ \/ Publishes({"snapshot"}, <<>>) /\ UNCHANGED faults
       \/ Loses({"snapshot"}, <<ProtocolError("reload_required")>>)
       \/ Fails(<<ProtocolError("presentation_unavailable")>>)
    /\ jobs' = Tail(jobs)
    /\ UNCHANGED <<browser, session, puppet, running, effect, socket, up, deferral, late, asks, autos>>

\* The publication of an answer failed: the browser is told that what it shows
\* is unavailable, and the answer itself is queued again, alone.
UnavailableUntold == <<>>
Unavailable == <<ProtocolError("presentation_unavailable")>>
AnswerLater(id) == jobs' = Append(Tail(jobs), [kind |-> "answer", request |-> id])

\* Only the result's own send raised: what was published stands.
LosesResult ==
    /\ ResultMayBeLost /\ faults < MaxFaults
    /\ faults' = faults + 1

\* The answer to a stale action: a complete snapshot and its result.
RunStale ==
    /\ jobs # <<>> /\ Head(jobs).kind = "stale"
    /\ LET id == Head(jobs).request IN
       \/ /\ Publishes({"snapshot"}, <<Result(epoch, id, "stale", issued + 1)>>)
          /\ jobs' = Tail(jobs)
          /\ UNCHANGED faults
       \/ /\ \/ Loses({"snapshot"}, Unavailable)
             \/ Fails(Unavailable)
             \/ Publishes({"snapshot"}, Unavailable) /\ LosesResult
          /\ AnswerLater(id)
    /\ UNCHANGED <<browser, session, puppet, running, effect, socket, up, deferral, late, asks, autos>>

\* A completed action: its publication and its result together, its result
\* alone when nothing changed, or neither.  `effect' records the first revision
\* that shows what the action did.
RunCompletion ==
    /\ jobs # <<>> /\ Head(jobs).kind = "done"
    /\ LET id == Head(jobs).request IN
       \/ /\ \/ Publishes(Kinds, <<Result(epoch, id, "success", issued + 1)>>) /\ UNCHANGED faults
             \/ Publishes(Kinds, <<>>) /\ LosesResult
             \/ /\ trusted /\ UNCHANGED streamVars
                /\ \/ Send(<<Result(epoch, id, "success", shown.revision)>>) /\ UNCHANGED faults
                   \/ LosesResult /\ UNCHANGED down
          /\ effect' = [epoch |-> epoch, revision |-> shown'.revision]
          /\ jobs' = Tail(jobs)
          /\ running' = NoRequest
       \/ /\ Loses(Kinds, Unavailable) \/ Fails(Unavailable)
          /\ effect' = [epoch |-> epoch, revision |-> issued' + 1]
          /\ AnswerLater(id)
          /\ UNCHANGED running
    /\ UNCHANGED <<browser, session, puppet, socket, up, deferral, late, asks, autos>>

\* An answer without a publication names what the client surely holds.
RunAnswer ==
    /\ jobs # <<>> /\ Head(jobs).kind = "answer"
    /\ \/ /\ \E r \in HeldRevisions : Send(<<Result(epoch, Head(jobs).request, "error", r)>>)
          /\ UNCHANGED faults
       \/ LosesResult /\ UNCHANGED down
    /\ jobs' = Tail(jobs)
    /\ running' = IF running = <<Head(jobs).request>> THEN NoRequest ELSE running
    /\ UNCHANGED <<browser, streamVars, session, puppet, effect, socket, up, deferral, late, asks, autos>>
------------------------------------------------------------------------------
(* The server takes messages, and the player changes character. *)

\* ui_sync without a puppet is dropped in silence.
TakeSync ==
    /\ up # <<>> /\ Head(up).type = "sync"
    /\ up' = Tail(up)
    /\ jobs' = IF puppet THEN Append(jobs, [kind |-> "sync", request |-> 0]) ELSE jobs
    /\ UNCHANGED <<browser, streamVars, session, puppet, running, effect, socket, down,
                   deferral, late, counters>>

Current(m) == m.epoch = epoch /\ m.base = issued

TakeActionUnpuppeted ==
    /\ up # <<>> /\ Head(up).type = "action" /\ ~puppet
    /\ LET m == Head(up) IN Send(<<Result(m.epoch, m.request, "no_puppet", m.base)>>)
    /\ up' = Tail(up)
    /\ UNCHANGED <<browser, streamVars, server, socket, deferral, late, counters>>

TakeActionStale ==
    /\ up # <<>> /\ Head(up).type = "action" /\ puppet
    /\ ~Current(Head(up))
    /\ jobs' = Append(jobs, [kind |-> "stale", request |-> Head(up).request])
    /\ up' = Tail(up)
    /\ UNCHANGED <<browser, streamVars, session, puppet, running, effect, socket, down,
                   deferral, late, counters>>

TakeAction ==
    /\ up # <<>> /\ Head(up).type = "action" /\ puppet
    /\ Current(Head(up)) /\ running = NoRequest
    /\ running' = <<Head(up).request>>
    /\ up' = Tail(up)
    /\ UNCHANGED <<browser, streamVars, session, puppet, jobs, effect, socket, down,
                   deferral, late, counters>>

\* The adapter's Deferred fires.
Settle ==
    /\ running # NoRequest
    /\ \A k \in DOMAIN jobs : jobs[k].request # running[1]
    /\ jobs' = Append(jobs, [kind |-> "done", request |-> running[1]])
    /\ UNCHANGED <<browser, streamVars, session, puppet, running, effect, socket, down, up,
                   deferral, late, counters>>

\* ooc, and the first half of every roster or possession transition: the
\* signal leaves before the sequence retires, with everything queued in it.
UnpuppetSilently ==
    /\ puppet
    /\ Stream!Reset
    /\ puppet' = FALSE /\ jobs' = <<>> /\ running' = NoRequest
    /\ UNCHANGED <<browser, session, effect, socket, down, up, deferral, late, counters>>
Unpuppet ==
    /\ puppet
    /\ Send(<<ProtocolError("no_puppet")>>)
    /\ Stream!Reset
    /\ puppet' = FALSE /\ jobs' = <<>> /\ running' = NoRequest
    /\ UNCHANGED <<browser, session, effect, socket, up, deferral, late, counters>>

SwitchPuppet ==
    /\ puppet
    /\ Send(<<ProtocolError("no_puppet")>>)
    /\ Stream!Reset
    /\ jobs' = <<[kind |-> "sync", request |-> 0]>> /\ running' = NoRequest
    /\ UNCHANGED <<browser, session, puppet, effect, socket, up, deferral, late, counters>>

\* The `ic' command, then the refresh every text command is followed by.
PuppetByText ==
    /\ session = "account" /\ ~puppet
    /\ puppet' = TRUE
    /\ jobs' = Append(jobs, [kind |-> "refresh", request |-> 0])
    /\ UNCHANGED <<browser, streamVars, session, running, effect, socket, down, up,
                   deferral, late, counters>>

\* The same command from within another character: the owner notices the new
\* puppet when the refresh resolves it and starts a fresh sequence.
SwitchByText ==
    /\ TextSwitch /\ puppet
    /\ Stream!Reset
    /\ jobs' = <<[kind |-> "refresh", request |-> 0]>> /\ running' = NoRequest
    /\ UNCHANGED <<browser, session, puppet, effect, socket, down, up, deferral, late, counters>>

\* Login, with the account's automatic puppeting or without.
Login ==
    /\ socket = "open" /\ session = "guest"
    /\ session' = "account"
    /\ puppet' \in BOOLEAN
    /\ Send(<<[type |-> "logged_in"]>>)
    /\ UNCHANGED <<browser, streamVars, jobs, running, effect, socket, up, deferral, late, counters>>
------------------------------------------------------------------------------
(* The browser takes frames and the player acts. *)

\* Automatic requests are counted per episode.
CountEpisode == autos' = IF recovery' = "idle" THEN 0 ELSE autos

BrowserTakes ==
    /\ down # <<>> /\ ~ResyncOwed
    /\ \/ Receive(Head(down)) /\ UNCHANGED <<deferral, faults>>
       \/ ReceiveInvalid(Head(down)) /\ faults < MaxFaults
             /\ faults' = faults + 1 /\ UNCHANGED deferral
       \/ Head(down).type = "logged_in" /\ deferral' = TRUE /\ UNCHANGED <<browser, faults>>
    /\ down' = Tail(down)
    /\ CountEpisode
    /\ UNCHANGED <<streamVars, server, socket, up, late, asks>>

\* A frame of the transport before this one.
BrowserTakesLate ==
    /\ late # <<>> /\ connected /\ ~ResyncOwed
    /\ Receive(late[1])
    /\ late' = <<>>
    /\ CountEpisode
    /\ UNCHANGED <<streamVars, server, socket, down, up, deferral, asks, faults>>

\* A message handed to a socket that is already down goes nowhere.
Ask(message) == up' = IF socket = "open" THEN Append(up, message) ELSE up

AutomaticSync ==
    /\ AutoResync
    /\ Ask([type |-> "sync"])
    /\ autos' = autos + 1
    /\ UNCHANGED <<streamVars, server, socket, down, deferral, late, asks, faults>>

PlayerSyncs ==
    /\ asks < MaxAsks /\ asks' = asks + 1
    /\ ManualSync
    /\ Ask([type |-> "sync"])
    /\ CountEpisode
    /\ UNCHANGED <<streamVars, server, socket, down, deferral, late, faults>>

PlayerActs ==
    /\ asks < MaxAsks /\ asks' = asks + 1
    /\ Dispatch(asks')
    /\ Ask([type |-> "action", request |-> asks', epoch |-> activeEpoch, base |-> revision])
    /\ UNCHANGED <<streamVars, server, socket, down, deferral, late, faults, autos>>

\* resyncIfAwaiting, 500 ms after `logged_in'.
DeferredSync ==
    /\ deferral /\ ~ResyncOwed
    /\ deferral' = FALSE
    /\ \/ LifecycleSync /\ Ask([type |-> "sync"])
       \/ ~LifecycleSyncDue /\ UNCHANGED <<browser, up>>
    /\ UNCHANGED <<streamVars, server, socket, down, late, counters>>

Expire ==
    /\ AssemblyDeadline \/ RecoveryDeadline
    /\ CountEpisode
    /\ UNCHANGED <<streamVars, server, socket, down, up, deferral, late, asks, faults>>
------------------------------------------------------------------------------
(* The socket. *)

\* It closes with everything on its way; a frame of the sequence that was on
\* screen may yet be delivered to the next transport's listener.
Disconnect ==
    /\ socket = "open" /\ faults < MaxFaults
    /\ faults' = faults + 1
    /\ socket' = "down"
    /\ down' = <<>> /\ up' = <<>>
    /\ \/ late' = <<>>
       \/ \E k \in DOMAIN down :
             down[k].type = "publication" /\ down[k].epoch = activeEpoch /\ late' = <<down[k]>>
    /\ session' = "none" /\ puppet' = FALSE /\ jobs' = <<>> /\ running' = NoRequest
    /\ UNCHANGED <<browser, streamVars, effect, deferral, asks, autos>>

BrowserCloses ==
    /\ socket = "down" /\ ConnectionClose /\ ~ResyncOwed
    /\ UNCHANGED <<streamVars, server, socket, down, up, deferral, late, counters>>

\* A new socket is a new server session with a new owner, and a new transport
\* generation that asks for its first snapshot.
Connect ==
    /\ socket = "down" /\ ConnectionOpen
    /\ socket' = "open" /\ session' = "guest"
    /\ IF session = "none" /\ issued = 0 /\ epoch = 1 THEN UNCHANGED streamVars ELSE Stream!Reset
    /\ up' = <<[type |-> "sync"]>>
    /\ autos' = 0
    /\ UNCHANGED <<puppet, jobs, running, effect, down, deferral, late, asks, faults>>

Publishing == RunRefresh \/ RunSync \/ RunStale \/ RunCompletion \/ RunAnswer
Taking == TakeSync \/ TakeActionUnpuppeted \/ TakeActionStale \/ TakeAction \/ Settle
Characters == Unpuppet \/ SwitchPuppet \/ PuppetByText \/ SwitchByText
Browsing == BrowserTakes \/ AutomaticSync \/ DeferredSync \/ Expire
Playing == PlayerSyncs \/ PlayerActs
Sockets == Disconnect \/ BrowserCloses \/ Connect

Next ==
    Push \/ Publishing \/ Taking \/ Characters \/ Login \/ Browsing \/ BrowserTakesLate
      \/ Playing \/ Sockets

Spec == Init /\ [][Next]_vars
==============================================================================
