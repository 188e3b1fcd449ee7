------------------------ MODULE PresentationSyncProofs ------------------------
(***************************************************************************)
(* What a web session keeps however frames and messages race, are lost or  *)
(* arrive late.  The argument is about what is on its way to the browser:  *)
(* the publications in the pipe are in order and none is older than what   *)
(* the browser shows (Ordered), what is being assembled is older than all  *)
(* of them (Assembling), and an error that clears the screen divides the   *)
(* frames of one character from those of the next (Divided).               *)
(*                                                                         *)
(* Two further invariants rest on that one.  TextInv: an unlocked browser  *)
(* passes over no publication, so the last one in the pipe decides what it *)
(* will show.  ActInv: while the last answered action is not yet on the    *)
(* screen of its own sequence, the browser is locked with it on its way    *)
(* (Repairing) or the answer, or an error, is still to come (Announcing).  *)
(***************************************************************************)
EXTENDS PresentationSyncProperties, SequenceTheorems, TLAPS

\* What is on the wire and in the queues.
Codes == {"no_puppet", "presentation_unavailable", "reload_required"}
PublicationFrame ==
    [type : {"publication"}, kind : {"snapshot", "delta"}, epoch : 1..MaxEpoch, revision : 1..MaxRevision,
     base : Revisions, index : Nat \ {0}, count : Nat \ {0}]
ResultFrame == [type : {"result"}, epoch : Epochs, request : Nat \ {0}, code : {"success", "error", "stale", "no_puppet"}, revision : Revisions]
ErrorFrame == [type : {"error"}, code : Codes]
LoginFrame == [type : {"logged_in"}]
Frame == PublicationFrame \cup ResultFrame \cup ErrorFrame \cup LoginFrame

ActionMessage == [type : {"action"}, request : Nat \ {0}, epoch : 1..MaxEpoch, base : Revisions]
Message == ActionMessage \cup [type : {"sync"}]
Job == [kind : {"refresh", "sync"}, request : {0}] \cup [kind : {"stale", "done", "answer"}, request : Nat \ {0}]
Transfer == [kind : {"snapshot", "delta"}, epoch : 1..MaxEpoch, revision : 1..MaxRevision,
             base : Revisions, count : Nat \ {0}, received : Nat \ {0}]
Flight == [request : Nat \ {0}, claimed : Revisions \cup {-1}]

\* The types of the browser's variables and of the server's.
BrowserTypeOK ==
    /\ connected \in BOOLEAN /\ locked \in BOOLEAN /\ incompatible \in BOOLEAN
    /\ phase \in {"idle", "awaiting", "active", "detached"}
    /\ activeEpoch \in Epochs /\ revision \in Revisions
    /\ recovery \in {"idle", "needed", "requested", "failed"} /\ target \in Revisions
    /\ retired \in Seq(1..MaxEpoch)
    /\ live = <<>> \/ (live = <<live[1]>> /\ live[1] \in Transfer)
    /\ flight = NoRequest \/ flight \in Flight

ServerTypeOK ==
    /\ epoch \in 1..MaxEpoch /\ issued \in Revisions /\ trusted \in BOOLEAN
    /\ shown.epoch \in Epochs /\ shown.revision \in Revisions
    /\ session \in {"none", "guest", "account"} /\ puppet \in BOOLEAN
    /\ jobs \in Seq(Job)
    /\ running = NoRequest \/ (running = <<running[1]>> /\ running[1] \in Nat \ {0})
    /\ socket \in {"open", "down"}
    /\ down \in Seq(Frame) /\ up \in Seq(Message)
    /\ late = <<>> \/ (late = <<late[1]>> /\ late[1] \in PublicationFrame)
    /\ effect.epoch \in Epochs /\ effect.revision \in Nat
    /\ asks \in Nat /\ autos \in Nat

\* The publications on their way to the browser, the errors that clear its
\* screen, and the frames that complete a publication.
IsPub(f) == f.type = "publication"
IsCut(f) == f.type = "error" /\ f.code = "no_puppet"
Pubs == {i \in DOMAIN down : IsPub(down[i])}
Cuts == {i \in DOMAIN down : IsCut(down[i])}
Wholes == {i \in Pubs : Complete(down[i])}
Older(f, g) == f.epoch < g.epoch \/ (f.epoch = g.epoch /\ f.revision < g.revision)
SamePub(f, g) == f.kind = g.kind /\ f.epoch = g.epoch /\ f.revision = g.revision /\ f.base = g.base /\ f.count = g.count

\* The browser's own consistency: what may be unlocked, what an absent
\* sequence looks like.
Settled ==
    /\ ~locked => phase = "active" /\ recovery = "idle" /\ ~incompatible
    /\ activeEpoch = 0 <=> revision = 0
    /\ phase \in {"idle", "awaiting"} => activeEpoch = 0
    /\ phase = "active" => activeEpoch # 0
    /\ phase = "idle" => ~connected
    /\ socket = "open" => connected

\* Nothing travels on a closed socket, and nothing is done for nobody; the
\* record of what was shown is never ahead of what was issued.
Idle ==
    /\ socket = "down" => down = <<>> /\ up = <<>> /\ session = "none"
    /\ session # "account" => ~puppet
    /\ ~puppet => jobs = <<>> /\ running = NoRequest
    /\ shown.epoch <= epoch
    /\ trusted => shown.epoch = epoch
    /\ shown.epoch = epoch => shown.revision <= issued

\* The publications on their way are in the order they were made, parts in
\* the order of their indices, all newer than what is on screen.
Ordered ==
    /\ \A i \in Pubs : /\ down[i].index <= down[i].count
                       /\ down[i].epoch < epoch \/ (down[i].epoch = epoch /\ down[i].revision <= issued)
                       /\ \A k \in DOMAIN retired : retired[k] < down[i].epoch
                       /\ activeEpoch < down[i].epoch \/ (activeEpoch = down[i].epoch /\ revision < down[i].revision)
                       /\ down[i].index > 1 => i = 1 \/ (i - 1 \in Pubs /\ SamePub(down[i-1], down[i]) /\ down[i-1].index = down[i].index - 1)
    /\ \A i, j \in Pubs : i < j => Older(down[i], down[j]) \/ (SamePub(down[i], down[j]) /\ down[i].index < down[j].index)

\* The browser shows nothing the server has not issued, and a late frame is of
\* the sequence on screen or of a retired one.
Stamped ==
    /\ activeEpoch < epoch \/ (activeEpoch = epoch /\ revision <= issued)
    /\ \A k \in DOMAIN retired : retired[k] < epoch
    /\ socket = "open" /\ activeEpoch # 0 => \A k \in DOMAIN retired : retired[k] < activeEpoch
    /\ late # <<>> => IF socket = "down" THEN late[1].epoch = activeEpoch ELSE Retired(late[1].epoch)
    /\ late # <<>> => late[1].epoch < epoch \/ (late[1].epoch = epoch /\ late[1].revision <= issued)

\* A transfer in progress goes on with the first part on its way or is older
\* than everything on its way.
Assembling ==
    socket = "open" /\ live # <<>> =>
        /\ live[1].received < live[1].count
        /\ phase = "active" => live[1].epoch = activeEpoch
        /\ live[1].epoch < epoch \/ (live[1].epoch = epoch /\ live[1].revision <= issued)
        /\ \A i \in Pubs : Older(live[1], down[i]) \/ (SameTransfer(down[i]) /\ live[1].received < down[i].index)

\* An error that clears the screen ends its sequence: what follows is younger.
Divided ==
    \A c \in Cuts : /\ activeEpoch < epoch
                    /\ \A i \in Pubs : i < c => down[i].epoch < epoch
                    /\ \A j \in Pubs : c < j => activeEpoch < down[j].epoch
                    /\ \A i, j \in Pubs : i < c /\ c < j => down[i].epoch < down[j].epoch

\* As long as nobody changes character by text command: every change of
\* sequence is announced by a clearing error,
Announced ==
    /\ \A i, j \in Pubs : i < j /\ down[i].epoch # down[j].epoch => \E c \in Cuts : i < c /\ c < j
    /\ \A i \in Pubs : down[i].epoch # epoch => \E c \in Cuts : i < c
    /\ socket = "open" /\ phase = "active" =>
         /\ \A i \in Pubs : down[i].epoch # activeEpoch => \E c \in Cuts : c < i
         /\ activeEpoch # epoch => Cuts # {}
\* the last complete publication is what the server believes to be shown,
Latest ==
    \A i \in Wholes : (\E j \in Wholes \cup Cuts : i < j)
        \/ (puppet /\ down[i].epoch = epoch /\ shown.epoch = epoch /\ down[i].revision = shown.revision)
\* an unlocked browser has taken every part before the first on its way,
Following == socket = "open" /\ ~locked /\ 1 \in Pubs /\ down[1].index > 1 =>
                SameTransfer(down[1]) /\ live[1].received = down[1].index - 1
\* and with nothing left on its way an unlocked browser shows it.
Reached == socket = "open" /\ ~locked /\ Wholes = {} /\ Cuts = {} =>
              puppet /\ activeEpoch = epoch /\ shown.epoch = epoch /\ revision = shown.revision

\* The actions on their way up, the results and errors on their way down.
Actions == {i \in DOMAIN up : up[i].type = "action"}
Results == {i \in DOMAIN down : down[i].type = "result"}
Errors == {i \in DOMAIN down : down[i].type = "error"}
InFlight(id) == flight # NoRequest /\ flight.request = id /\ flight.claimed = -1

\* Requests the server has taken up: they are older than any on its way.
Known == {jobs[k].request : k \in DOMAIN jobs} \cup {down[k].request : k \in Results}
            \cup (IF running = NoRequest THEN {} ELSE {running[1]})

\* Requests are taken up in the order they were made.
Numbered ==
    /\ flight # NoRequest => flight.request <= asks
    /\ \A x \in Known : x <= asks /\ \A i \in Actions : x < up[i].request
    /\ \A i \in Actions : up[i].request <= asks
    /\ \A i, j \in Actions : i < j => up[i].request < up[j].request

\* Each is worked on once, and not answered while it runs.
Single ==
    /\ \A k, l \in DOMAIN jobs : jobs[k].request = jobs[l].request /\ jobs[k].request # 0 => k = l
    /\ \A k \in DOMAIN jobs : jobs[k].kind = "done" => running = <<jobs[k].request>>
    /\ \A k \in DOMAIN jobs : jobs[k].kind = "stale" => running # <<jobs[k].request>>
    /\ running # NoRequest => \A k \in Results : down[k].request # running[1]

\* What runs, and what would still be admitted, is the request in flight.
Held ==
    /\ running # NoRequest => activeEpoch = epoch /\ InFlight(running[1])
    /\ \A i \in Actions : up[i].epoch <= epoch /\ (up[i].epoch = epoch => activeEpoch = epoch /\ InFlight(up[i].request))

\* What the last answered action did shows at the latest in the next revision
\* of its sequence, and a sequence that is left does not come back.
Past ==
    /\ effect.epoch = 0 => effect.revision = 0
    /\ effect.epoch = epoch => effect.revision <= issued + 1
    /\ effect.epoch \notin {0, activeEpoch} => effect.epoch < epoch /\ \A i \in Pubs : effect.epoch < down[i].epoch

\* Every publication of that sequence after frame j shows it.
FromHere(j) == \A i \in Pubs : j < i /\ down[i].epoch = effect.epoch => down[i].revision >= effect.revision
Visible == revision >= effect.revision
Repairing ==
    /\ locked /\ FromHere(0)
    /\ socket = "down" /\ late # <<>> => late[1].revision >= effect.revision \/ late[1].epoch # effect.epoch
Announcing ==
    /\ flight # NoRequest /\ flight.claimed = -1
    /\ \A i \in Actions : up[i].request # flight.request
    /\ running = <<flight.request>> => \E k \in DOMAIN jobs : jobs[k].request = flight.request
    /\ \A k \in DOMAIN jobs : jobs[k].request = flight.request =>
          jobs[k].kind = "answer" /\ \E j \in Errors : FromHere(j)
    /\ \A k \in Results : down[k].request = flight.request /\ down[k].epoch = effect.epoch =>
          (down[k].revision >= effect.revision /\ FromHere(k)) \/ \E j \in Errors : j < k /\ FromHere(j)
Promised == connected /\ activeEpoch = effect.epoch => Visible \/ Repairing \/ Announcing

\* The automatic request of an episode is asked when the episode is requested.
Autos == autos \in {0, 1} /\ (recovery \in {"idle", "needed"} => autos = 0)

\* The inductive invariants.
SyncInv == BrowserTypeOK /\ ServerTypeOK /\ Settled /\ Idle /\ Ordered /\ Stamped /\ Assembling /\ Divided
ActInv == Numbered /\ Single /\ Held /\ Past /\ Promised

------------------------------------------------------------------------------
(* Sequences. *)

LEMMA Typed ==
    ASSUME NEW S, NEW s \in Seq(S)
    PROVE  /\ Len(s) \in Nat /\ DOMAIN s = 1..Len(s)
           /\ \A i \in DOMAIN s : s[i] \in S
BY LenProperties, ElementOfSeq

LEMMA Appended ==
    ASSUME NEW S, NEW s \in Seq(S), NEW e \in S
    PROVE  /\ Append(s, e) \in Seq(S) /\ Len(s) \in Nat
           /\ DOMAIN s = 1..Len(s) /\ DOMAIN Append(s, e) = 1..(Len(s) + 1)
           /\ Append(s, e)[Len(s) + 1] = e
           /\ \A i \in 1..Len(s) : Append(s, e)[i] = s[i] /\ s[i] \in S
BY AppendProperties, LenProperties, ElementOfSeq

LEMMA Tailed ==
    ASSUME NEW S, NEW s \in Seq(S), s # <<>>
    PROVE  /\ Tail(s) \in Seq(S) /\ Len(s) \in Nat \ {0} /\ Len(Tail(s)) = Len(s) - 1
           /\ DOMAIN s = 1..Len(s) /\ DOMAIN Tail(s) = 1..(Len(s) - 1)
           /\ Head(s) = s[1] /\ Head(s) \in S /\ 1 \in DOMAIN s
           /\ \A i \in 1..(Len(s) - 1) : Tail(s)[i] = s[i + 1]
BY HeadTailProperties, LenProperties, EmptySeq

LEMMA Joined ==
    ASSUME NEW S, NEW s \in Seq(S), NEW t \in Seq(S)
    PROVE  /\ s \o t \in Seq(S) /\ Len(s) \in Nat /\ Len(t) \in Nat
           /\ DOMAIN s = 1..Len(s) /\ DOMAIN t = 1..Len(t)
           /\ DOMAIN (s \o t) = 1..(Len(s) + Len(t))
           /\ \A i \in 1..Len(s) : (s \o t)[i] = s[i]
           /\ \A j \in 1..Len(t) : (s \o t)[Len(s) + j] = t[j]
<1>1. s \o t \in Seq(S) /\ Len(s \o t) = Len(s) + Len(t)
      /\ \A i \in 1..(Len(s) + Len(t)) : (s \o t)[i] = IF i <= Len(s) THEN s[i] ELSE t[i - Len(s)]
    BY ConcatProperties
<1>2. Len(s) \in Nat /\ Len(t) \in Nat
    BY LenProperties
<1>3. ASSUME NEW j \in 1..Len(t) PROVE (s \o t)[Len(s) + j] = t[j]
    <2>1. Len(s) + j \in 1..(Len(s) + Len(t)) /\ ~(Len(s) + j <= Len(s)) /\ (Len(s) + j) - Len(s) = j
        BY <1>2
    <2> QED BY <1>1, <2>1
<1>4. \A i \in 1..Len(s) : (s \o t)[i] = s[i]
    BY <1>1, <1>2
<1> QED BY <1>1, <1>2, <1>3, <1>4, LenProperties

\* A frame is of one kind, told by its type.
LEMMA FrameKinds ==
    ASSUME NEW f \in Frame
    PROVE  /\ f.type \in {"publication", "result", "error", "logged_in"}
           /\ f.type = "publication" => f \in PublicationFrame
           /\ f.type = "result" => f \in ResultFrame
           /\ f.type = "error" => f \in ErrorFrame
BY DEF Frame, PublicationFrame, ResultFrame, ErrorFrame, LoginFrame

LEMMA PublicationFields ==
    ASSUME NEW f \in PublicationFrame
    PROVE  /\ f.type = "publication" /\ f.kind \in {"snapshot", "delta"} /\ f.epoch \in 1..MaxEpoch
           /\ f.revision \in 1..MaxRevision /\ f.base \in Revisions
           /\ f.index \in Nat \ {0} /\ f.count \in Nat \ {0}
BY DEF PublicationFrame
------------------------------------------------------------------------------
(* What every receipt leaves typed. *)

LEMMA NoteKeepsType ==
    ASSUME BrowserTypeOK, Settled, NEW t \in Revisions, NoteRecovery(t)
    PROVE  /\ recovery' \in {"idle", "needed", "requested", "failed"} /\ target' \in Revisions
           /\ locked' = TRUE /\ recovery' \in {"needed", "failed"}
<1>1. 0 \in Revisions
    BY SyncAssumption DEF Revisions
<1>2. recovery = "failed" => locked = TRUE
    BY DEF BrowserTypeOK, Settled
<1> QED BY <1>1, <1>2 DEF NoteRecovery, BrowserTypeOK

\* A receipt, refused or not, leaves the browser typed and settled.
LEMMA ReceiptKeepsType ==
    ASSUME BrowserTypeOK, Settled, UNCHANGED socket, NEW f \in Frame, Receive(f) \/ ReceiveInvalid(f)
    PROVE  BrowserTypeOK' /\ Settled'
<1> USE DEF view, repair, browser
<1>0. 0 \in Revisions /\ Nothing = <<>> /\ NoRequest = <<>>
    BY SyncAssumption DEF Revisions, Nothing, NoRequest
<1>1. CASE ReceiveInert(f) \/ ReceiveForeignResult(f)
    BY <1>1 DEF ReceiveInert, ReceiveForeignResult, BrowserTypeOK, Settled
<1>2. CASE ReceiveContradiction(f) \/ ReceiveInvalid(f)
    <2>1. NoteRecovery(0) /\ UNCHANGED <<connected, view, retired, incompatible, flight>>
          /\ (live' = live \/ live' = <<>>)
        BY <1>2 DEF ReceiveContradiction, ReceiveInvalid
    <2>2. recovery' \in {"idle", "needed", "requested", "failed"} /\ target' \in Revisions /\ locked' = TRUE
        BY <1>0, <2>1, NoteKeepsType
    <2>3. locked' \in BOOLEAN
        BY <2>2
    <2> QED BY <2>1, <2>2, <2>3 DEF BrowserTypeOK, Settled
<1>3. CASE ReceivePart(f)
    <2> DEFINE t == [kind |-> f.kind, epoch |-> f.epoch, revision |-> f.revision,
                     base |-> f.base, count |-> f.count, received |-> f.index]
    <2>1. live' = <<t>> /\ UNCHANGED <<connected, view, retired, repair, locked, incompatible, flight>>
        BY <1>3 DEF ReceivePart
    <2>2. t \in Transfer
        BY <1>3, FrameKinds, PublicationFields DEF ReceivePart, Transfer
    <2>3. live' = <<live'[1]>> /\ live'[1] \in Transfer
        BY <2>1, <2>2
    <2> QED BY <2>1, <2>3 DEF BrowserTypeOK, Settled
<1>4. CASE ReceivePublication(f)
    <2>1. f \in PublicationFrame
        BY <1>4, FrameKinds DEF ReceivePublication
    <2>2. f.epoch \in 1..MaxEpoch /\ f.revision \in 1..MaxRevision
        BY <2>1, PublicationFields
    <2>3. /\ phase' = "active" /\ activeEpoch' = f.epoch /\ revision' = f.revision
          /\ (live' = live \/ live' = <<>>) /\ UNCHANGED <<connected, retired, incompatible>>
        BY <1>4 DEF ReceivePublication, Pruned
    <2>4. flight' = flight \/ flight' = NoRequest
        BY <1>4 DEF ReceivePublication, Release
    <2>5. recovery' \in {"idle", "needed", "requested", "failed"} /\ target' \in Revisions
        BY <1>0, <1>4 DEF ReceivePublication, SettleRecovery, BrowserTypeOK
    <2>6. locked' = (incompatible \/ recovery' # "idle")
        BY <1>4 DEF ReceivePublication, Unlock
    <2>7. locked' \in BOOLEAN
        BY <2>6
    <2>8. activeEpoch' \in Epochs /\ revision' \in Revisions /\ activeEpoch' # 0 /\ revision' # 0
        BY <2>2, <2>3, SyncAssumption DEF Epochs, Revisions
    <2>9. BrowserTypeOK'
        BY <2>3, <2>4, <2>5, <2>7, <2>8 DEF BrowserTypeOK
    <2>10. ~locked' => recovery' = "idle" /\ ~incompatible'
        BY <2>3, <2>6
    <2> QED BY <2>3, <2>8, <2>9, <2>10 DEF Settled
<1>5. CASE ReceiveResult(f)
    <2>1. f \in ResultFrame /\ f.revision \in Revisions
        BY <1>5, FrameKinds DEF ReceiveResult, ResultFrame
    <2>2. flight \in Flight /\ UNCHANGED <<connected, view, retired, incompatible, live>>
        BY <1>0, <1>5 DEF ReceiveResult, Recognised, BrowserTypeOK
    <2>3. CASE f.revision > revision
        <3>1. NoteRecovery(f.revision) /\ flight' = [flight EXCEPT !.claimed = f.revision]
            BY <1>5, <2>3 DEF ReceiveResult
        <3>2. recovery' \in {"idle", "needed", "requested", "failed"} /\ target' \in Revisions /\ locked' = TRUE
            BY <2>1, <3>1, NoteKeepsType
        <3>3. flight' \in Flight
            BY <2>1, <2>2, <3>1 DEF Flight
        <3>4. locked' \in BOOLEAN
            BY <3>2
        <3> QED BY <2>2, <3>2, <3>3, <3>4 DEF BrowserTypeOK, Settled
    <2>4. CASE ~(f.revision > revision)
        BY <1>5, <2>2, <2>4 DEF ReceiveResult, BrowserTypeOK, Settled
    <2> QED BY <2>3, <2>4
<1>6. CASE ReceiveNoPuppet(f)
    <2>1. /\ NoteRecovery(0) /\ phase' = "detached" /\ live' = <<>> /\ flight' = NoRequest
          /\ UNCHANGED <<connected, activeEpoch, revision, retired, incompatible>>
        BY <1>6 DEF ReceiveNoPuppet
    <2>2. recovery' \in {"idle", "needed", "requested", "failed"} /\ target' \in Revisions /\ locked' = TRUE
        BY <1>0, <2>1, NoteKeepsType
    <2>3. locked' \in BOOLEAN
        BY <2>2
    <2> QED BY <2>1, <2>2, <2>3 DEF BrowserTypeOK, Settled
<1>7. CASE ReceiveUnavailable(f)
    <2>1. NoteRecovery(0) /\ UNCHANGED <<connected, view, retired, incompatible, live, flight>>
        BY <1>7 DEF ReceiveUnavailable
    <2>2. recovery' \in {"idle", "needed", "requested", "failed"} /\ target' \in Revisions /\ locked' = TRUE
        BY <1>0, <2>1, NoteKeepsType
    <2>3. locked' \in BOOLEAN
        BY <2>2
    <2> QED BY <2>1, <2>2, <2>3 DEF BrowserTypeOK, Settled
<1>8. CASE ReceiveReloadRequired(f)
    <2>1. /\ incompatible' = TRUE /\ locked' = TRUE /\ UNCHANGED <<connected, view, retired, flight>>
          /\ ((recovery' = "failed" /\ target' = 0 /\ live' = <<>>) \/ UNCHANGED <<repair, live>>)
        BY <1>8 DEF ReceiveReloadRequired
    <2>2. locked' \in BOOLEAN /\ incompatible' \in BOOLEAN
        BY <2>1
    <2> QED BY <1>0, <2>1, <2>2 DEF BrowserTypeOK, Settled
<1> QED BY <1>1, <1>2, <1>3, <1>4, <1>5, <1>6, <1>7, <1>8 DEF Receive

\* The same of what the browser does of itself.
Gates ==
    \/ AutoResync \/ ManualSync \/ LifecycleSync \/ AssemblyDeadline \/ RecoveryDeadline
    \/ \E id \in Nat \ {0} : Dispatch(id)

LEMMA GatesKeepType ==
    ASSUME BrowserTypeOK, Settled, UNCHANGED socket, Gates
    PROVE  BrowserTypeOK' /\ Settled' /\ UNCHANGED <<connected, view, retired, incompatible>>
           /\ (live' = live \/ live' = <<>>) /\ (locked' = locked \/ locked' = TRUE)
<1> USE DEF view, repair, browser
<1>0. 0 \in Revisions /\ Nothing = <<>> /\ NoRequest = <<>>
    BY SyncAssumption DEF Revisions, Nothing, NoRequest
<1>1. CASE AutoResync
    <2>1. locked' = TRUE /\ recovery' = "requested"
          /\ UNCHANGED <<connected, view, retired, target, incompatible, live, flight>>
        BY <1>1 DEF AutoResync
    <2>2. locked' \in BOOLEAN
        BY <2>1
    <2> QED BY <2>1, <2>2 DEF BrowserTypeOK, Settled
<1>2. CASE ManualSync \/ LifecycleSync
    <2>1. UNCHANGED <<connected, view, retired, target, locked, incompatible, live, flight>>
          /\ (recovery' = recovery \/ (recovery = "failed" /\ recovery' = "requested"))
        BY <1>2 DEF ManualSync, LifecycleSync
    <2> QED BY <2>1 DEF BrowserTypeOK, Settled
<1>3. CASE AssemblyDeadline
    <2>1. NoteRecovery(0) /\ live' = <<>> /\ UNCHANGED <<connected, view, retired, incompatible, flight>>
        BY <1>3 DEF AssemblyDeadline
    <2>2. recovery' \in {"idle", "needed", "requested", "failed"} /\ target' \in Revisions /\ locked' = TRUE
        BY <1>0, <2>1, NoteKeepsType
    <2>3. locked' \in BOOLEAN
        BY <2>2
    <2> QED BY <2>1, <2>2, <2>3 DEF BrowserTypeOK, Settled
<1>4. CASE RecoveryDeadline
    <2>1. locked' = TRUE /\ recovery' = "failed" /\ target' = 0 /\ live' = <<>>
          /\ UNCHANGED <<connected, view, retired, incompatible, flight>>
        BY <1>4 DEF RecoveryDeadline
    <2>2. locked' \in BOOLEAN
        BY <2>1
    <2> QED BY <1>0, <2>1, <2>2 DEF BrowserTypeOK, Settled
<1>5. ASSUME NEW id \in Nat \ {0}, Dispatch(id)
      PROVE  BrowserTypeOK' /\ Settled' /\ UNCHANGED <<connected, view, retired, incompatible, live, locked>>
    <2>1. flight' = [request |-> id, claimed |-> -1]
          /\ UNCHANGED <<connected, view, retired, repair, locked, incompatible, live>>
        BY <1>5 DEF Dispatch
    <2>2. flight' \in Flight
        BY <1>5, <2>1 DEF Flight
    <2> QED BY <2>1, <2>2 DEF BrowserTypeOK, Settled
<1> QED BY <1>1, <1>2, <1>3, <1>4, <1>5 DEF Gates

------------------------------------------------------------------------------
(* What the server puts on the wire in one critical section: the first k of   *)
(* the n parts of a publication, then at most one frame that is neither a     *)
(* publication nor the end of one sequence.                                   *)

Kind == {"snapshot", "delta"}
Remark == {f \in Frame : ~IsPub(f) /\ ~IsCut(f)}
Remarks == {<<>>} \cup {<<f>> : f \in Remark}
Part(kind, n, j) == Publication(kind, epoch, issued + 1, IF kind = "delta" THEN issued ELSE 0, j, n)

Grown(kind, n, k, tail) ==
    /\ down' \in Seq(Frame) /\ DOMAIN down' = 1..(Len(down) + k + Len(tail))
    /\ \A i \in 1..Len(down) : down'[i] = down[i]
    /\ \A j \in 1..k : down'[Len(down) + j] = Part(kind, n, j)
    /\ \A j \in 1..Len(tail) : down'[Len(down) + k + j] = tail[j]

Emission(kind, n, k, tail) ==
    /\ kind \in Kind /\ n \in Nat \ {0} /\ k \in 0..n /\ tail \in Remarks
    /\ Grown(kind, n, k, tail)
    /\ epoch' = epoch
    /\ \/ k = 0 /\ UNCHANGED <<issued, trusted, shown>>
       \/ /\ issued < MaxRevision /\ issued' = issued + 1
          /\ trusted' \in BOOLEAN /\ (trusted' => k = n)
          /\ shown' = IF k = n THEN [epoch |-> epoch, revision |-> issued + 1, content |-> <<epoch, issued + 1>>]
                      ELSE shown

LEMMA RemarksAreShort ==
    ASSUME NEW tail \in Remarks
    PROVE  /\ tail \in Seq(Frame) /\ Len(tail) \in {0, 1}
           /\ \A j \in DOMAIN tail : j = 1 /\ tail[j] \in Remark
<1>1. CASE tail = <<>>
    BY <1>1, EmptySeq
<1>2. ASSUME NEW f \in Remark, tail = <<f>> PROVE tail \in Seq(Frame) /\ Len(tail) = 1 /\ DOMAIN tail = {1} /\ tail[1] = f
    <2>1. f \in Frame
        BY DEF Remark
    <2> QED BY <1>2, <2>1
<1> QED BY <1>1, <1>2 DEF Remarks

LEMMA Sent ==
    ASSUME ServerTypeOK, NEW kind \in Kind, NEW n \in Nat \ {0}, NEW k \in 0..n, NEW tail \in Remarks,
           k > 0 => issued < MaxRevision,
           down' = down \o (SubSeq(Frames(kind, n), 1, k) \o tail)
    PROVE  Grown(kind, n, k, tail)
<1> DEFINE parts == SubSeq(Frames(kind, n), 1, k)
<1>0. ASSUME NEW j \in 1..k PROVE Part(kind, n, j) \in Frame /\ Frames(kind, n)[j] = Part(kind, n, j)
    <2>1. issued + 1 \in 1..MaxRevision /\ epoch \in 1..MaxEpoch
        <3>1. issued < MaxRevision /\ issued \in Nat /\ MaxRevision \in Nat
            BY SyncAssumption DEF ServerTypeOK, Revisions
        <3> QED BY <3>1 DEF ServerTypeOK
    <2>2. (IF kind = "delta" THEN issued ELSE 0) \in Revisions
        BY SyncAssumption DEF ServerTypeOK, Revisions
    <2>3. j \in Nat \ {0} /\ j \in 1..n
        OBVIOUS
    <2>4. Part(kind, n, j) \in PublicationFrame
        BY <2>1, <2>2, <2>3 DEF Part, Publication, PublicationFrame, Kind
    <2> QED BY <2>3, <2>4 DEF Frames, Part, Frame
<1>1. /\ parts \in Seq(Frame) /\ Len(parts) = k
      /\ \A j \in 1..k : parts[j] = Part(kind, n, j)
    <2>1. k \in Nat /\ k \in Int /\ 1 \in Int
        OBVIOUS
    <2>2. \A j \in 1..k : Frames(kind, n)[j] \in Frame
        BY <1>0
    <2>3. /\ parts \in Seq(Frame) /\ Len(parts) = IF 1 <= k THEN k - 1 + 1 ELSE 0
          /\ \A j \in 1..(k - 1 + 1) : parts[j] = Frames(kind, n)[1 + j - 1]
        BY <2>1, <2>2, SubSeqProperties
    <2>4. ASSUME NEW j \in 1..k PROVE parts[j] = Part(kind, n, j)
        <3>1. j \in 1..(k - 1 + 1) /\ 1 + j - 1 = j
            OBVIOUS
        <3> QED BY <1>0, <2>3, <3>1
    <2>5. Len(parts) = k
        BY <2>1, <2>3
    <2> QED BY <2>3, <2>4, <2>5, Zenon
<1> HIDE DEF parts
<1>2. down \in Seq(Frame) /\ tail \in Seq(Frame) /\ Len(tail) \in {0, 1}
    BY RemarksAreShort DEF ServerTypeOK
<1> DEFINE rest == parts \o tail
<1>3. /\ rest \in Seq(Frame) /\ DOMAIN rest = 1..(k + Len(tail)) /\ DOMAIN rest = 1..Len(rest)
      /\ Len(rest) = k + Len(tail)
      /\ \A j \in 1..k : rest[j] = Part(kind, n, j)
      /\ \A j \in 1..Len(tail) : rest[k + j] = tail[j]
    <2>1. rest \in Seq(Frame) /\ Len(rest) = k + Len(tail)
        BY <1>1, <1>2, ConcatProperties
    <2>2. DOMAIN rest = 1..Len(rest)
        BY <2>1, LenProperties
    <2> QED BY <1>1, <1>2, <2>1, <2>2, Joined
<1> HIDE DEF rest
<1>4. down' = down \o rest
    BY DEF parts, rest
<1>5. /\ down' \in Seq(Frame) /\ Len(down) \in Nat
      /\ DOMAIN down' = 1..(Len(down) + Len(rest))
      /\ \A i \in 1..Len(down) : down'[i] = down[i]
      /\ \A j \in 1..Len(rest) : down'[Len(down) + j] = rest[j]
    <2>1. /\ down \o rest \in Seq(Frame) /\ Len(down) \in Nat /\ Len(rest) \in Nat
          /\ DOMAIN (down \o rest) = 1..(Len(down) + Len(rest))
          /\ \A i \in 1..Len(down) : (down \o rest)[i] = down[i]
          /\ \A j \in 1..Len(rest) : (down \o rest)[Len(down) + j] = rest[j]
        <3>1. down \in Seq(Frame) /\ rest \in Seq(Frame)
            BY <1>2, <1>3
        <3> QED BY ONLY <3>1, Joined, Typed
    <2> QED BY <1>4, <2>1
<1>6. DOMAIN down' = 1..(Len(down) + k + Len(tail))
    BY <1>2, <1>3, <1>5
<1>7. ASSUME NEW j \in 1..k PROVE down'[Len(down) + j] = Part(kind, n, j)
    BY <1>2, <1>3, <1>5, <1>7
<1>8. ASSUME NEW j \in 1..Len(tail) PROVE down'[Len(down) + k + j] = tail[j]
    <2>1. k + j \in 1..Len(rest) /\ Len(down) + (k + j) = Len(down) + k + j
        BY <1>2, <1>3, <1>5
    <2> QED BY <1>3, <1>5, <2>1
<1> QED BY <1>5, <1>6, <1>7, <1>8 DEF Grown

LEMMA PublishesEmits ==
    ASSUME ServerTypeOK, NEW kinds \in SUBSET Kind, NEW tail \in Remarks, Publishes(kinds, tail)
    PROVE  \E kind \in kinds, n \in Nat \ {0} : Emission(kind, n, n, tail)
<1>1. PICK kind \in kinds, n \in PartCounts :
          /\ Stream!Publish(kind, <<epoch, issued + 1>>)
          /\ Send(Frames(kind, n) \o tail)
    BY DEF Publishes
<1>2. n \in Nat \ {0} /\ kind \in Kind /\ n \in 0..n
    BY SyncAssumption
<1>3. SubSeq(Frames(kind, n), 1, n) = Frames(kind, n)
    <2>1. Frames(kind, n) \in Seq({Frames(kind, n)[j] : j \in 1..n}) /\ Len(Frames(kind, n)) = n
        BY <1>2 DEF Frames
    <2> QED BY <2>1, SubSeqFull
<1>4. /\ issued < MaxRevision /\ issued' = issued + 1 /\ trusted' = TRUE /\ epoch' = epoch
      /\ shown' = [epoch |-> epoch, revision |-> issued + 1, content |-> <<epoch, issued + 1>>]
    BY <1>1 DEF Stream!Publish
<1>5. Grown(kind, n, n, tail)
    BY <1>1, <1>2, <1>3, <1>4, Sent DEF Send
<1>6. trusted' \in BOOLEAN
    BY <1>4
<1> QED BY <1>2, <1>4, <1>5, <1>6 DEF Emission

LEMMA LosesEmits ==
    ASSUME ServerTypeOK, NEW kinds \in SUBSET Kind, NEW tail \in Remarks, Loses(kinds, tail)
    PROVE  \E kind \in kinds, n \in Nat \ {0} : \E k \in 0..n : Emission(kind, n, k, tail) /\ ~trusted'
<1>1. PICK kind \in kinds, n \in PartCounts : \E k \in 0..n :
          /\ Stream!Lose(k = n, <<epoch, issued + 1>>)
          /\ Send(SubSeq(Frames(kind, n), 1, k) \o tail)
    BY DEF Loses
<1>2. PICK k \in 0..n :
          /\ Stream!Lose(k = n, <<epoch, issued + 1>>)
          /\ Send(SubSeq(Frames(kind, n), 1, k) \o tail)
    BY <1>1
<1>3. n \in Nat \ {0} /\ kind \in Kind
    BY SyncAssumption
<1>4. /\ issued < MaxRevision /\ issued' = issued + 1 /\ trusted' = FALSE /\ epoch' = epoch
      /\ shown' = IF k = n THEN [epoch |-> epoch, revision |-> issued + 1, content |-> <<epoch, issued + 1>>]
                  ELSE shown
    BY <1>2 DEF Stream!Lose
<1>5. Grown(kind, n, k, tail)
    BY <1>2, <1>3, <1>4, Sent DEF Send
<1>6. trusted' \in BOOLEAN /\ ~trusted'
    BY <1>4
<1> QED BY <1>3, <1>4, <1>5, <1>6 DEF Emission

\* Sending one remark, or nothing, without a publication.
LEMMA SendEmits ==
    ASSUME ServerTypeOK, NEW tail \in Remarks, UNCHANGED streamVars,
           Send(tail) \/ (tail = <<>> /\ UNCHANGED down)
    PROVE  Emission("snapshot", 1, 0, tail)
<1>1. tail \in Seq(Frame) /\ Len(tail) \in {0, 1} /\ down \in Seq(Frame)
    BY RemarksAreShort DEF ServerTypeOK
<1>2. down' = down \o tail
    BY <1>1, ConcatEmptySeq DEF Send
<1>3. /\ down \o tail \in Seq(Frame) /\ Len(down) \in Nat
      /\ DOMAIN (down \o tail) = 1..(Len(down) + Len(tail))
      /\ \A i \in 1..Len(down) : (down \o tail)[i] = down[i]
      /\ \A j \in 1..Len(tail) : (down \o tail)[Len(down) + j] = tail[j]
    BY <1>1, Joined, Typed
<1>4. Grown("snapshot", 1, 0, tail)
    <2>1. Len(down) + 0 + Len(tail) = Len(down) + Len(tail) /\ Len(down) + 0 = Len(down)
        BY <1>1, <1>3
    <2>2. down' \in Seq(Frame) /\ DOMAIN down' = 1..(Len(down) + 0 + Len(tail))
        BY <1>2, <1>3, <2>1
    <2>3. \A j \in 1..Len(tail) : down'[Len(down) + 0 + j] = tail[j]
        BY <1>2, <1>3
    <2>4. \A i \in 1..Len(down) : down'[i] = down[i]
        BY <1>2, <1>3
    <2>5. \A j \in 1..0 : down'[Len(down) + j] = Part("snapshot", 1, j)
        OBVIOUS
    <2> QED BY <2>2, <2>3, <2>4, <2>5 DEF Grown
<1> QED BY <1>4 DEF Emission, streamVars, Kind

LEMMA EmissionShows ==
    ASSUME ServerTypeOK, NEW kind, NEW n, NEW k, NEW tail, Emission(kind, n, k, tail)
    PROVE  /\ epoch' \in 1..MaxEpoch /\ epoch' = epoch /\ issued' \in Revisions /\ trusted' \in BOOLEAN
           /\ shown'.epoch \in Epochs /\ shown'.revision \in Revisions
           /\ issued <= issued' /\ (k > 0 => issued' = issued + 1)
           /\ down' \in Seq(Frame) /\ Len(down) \in Nat /\ k \in Nat /\ n \in Nat
           /\ \A i \in DOMAIN down : i \in 1..Len(down) /\ i \in DOMAIN down' /\ down'[i] = down[i]
           /\ \A i \in Pubs : i \in 1..Len(down) /\ i \in Pubs' /\ down'[i] = down[i]
           /\ \A i \in Pubs' : i \in Nat /\ (i \in Pubs \/ \E j \in 1..k : i = Len(down) + j)
           /\ \A j \in 1..k : Len(down) + j \in Pubs' /\ down'[Len(down) + j] = Part(kind, n, j)
           /\ Cuts' = Cuts /\ Cuts \subseteq 1..Len(down)
<1> DEFINE L == Len(down)
<1>1. /\ L \in Nat /\ DOMAIN down = 1..L /\ k \in Nat /\ n \in Nat
      /\ tail \in Seq(Frame) /\ Len(tail) \in {0, 1} /\ DOMAIN tail = 1..Len(tail)
      /\ \A j \in DOMAIN tail : tail[j] \in Remark
    <2>1. tail \in Remarks
        BY DEF Emission
    <2> QED BY <2>1, RemarksAreShort, Typed DEF Emission, ServerTypeOK
<1>2. /\ down' \in Seq(Frame) /\ DOMAIN down' = 1..(L + k + Len(tail))
      /\ \A i \in 1..L : down'[i] = down[i]
      /\ \A j \in 1..k : down'[L + j] = Part(kind, n, j)
      /\ \A j \in 1..Len(tail) : down'[L + k + j] = tail[j]
    BY DEF Emission, Grown
<1> HIDE DEF L
<1>3. /\ epoch' \in 1..MaxEpoch /\ epoch' = epoch /\ issued' \in Revisions
      /\ issued <= issued' /\ (k > 0 => issued' = issued + 1)
    <2>1. epoch' = epoch /\ epoch \in 1..MaxEpoch /\ issued \in Nat /\ issued <= MaxRevision /\ MaxRevision \in Nat
        BY SyncAssumption DEF Emission, ServerTypeOK, Revisions
    <2>2. \/ k = 0 /\ issued' = issued
          \/ issued < MaxRevision /\ issued' = issued + 1
        BY DEF Emission
    <2>3. issued' \in Nat /\ issued' <= MaxRevision /\ issued <= issued' /\ (k > 0 => issued' = issued + 1)
        BY <2>1, <2>2
    <2> QED BY <2>1, <2>3 DEF Revisions
<1>4. trusted' \in BOOLEAN
    BY DEF Emission, ServerTypeOK
<1>5. shown'.epoch \in Epochs /\ shown'.revision \in Revisions
    <2>1. epoch \in Epochs /\ shown.epoch \in Epochs /\ shown.revision \in Revisions
        BY SyncAssumption DEF ServerTypeOK, Epochs
    <2>2. issued < MaxRevision => issued + 1 \in Revisions
        BY SyncAssumption DEF ServerTypeOK, Revisions
    <2>3. CASE UNCHANGED shown
        BY <2>1, <2>3
    <2>4. CASE issued < MaxRevision /\ shown' = [epoch |-> epoch, revision |-> issued + 1, content |-> <<epoch, issued + 1>>]
        BY <2>1, <2>2, <2>4
    <2> QED BY <2>3, <2>4 DEF Emission
<1>6. \A i \in DOMAIN down : i \in 1..L /\ i \in DOMAIN down' /\ down'[i] = down[i]
    BY <1>1, <1>2
<1>7. ASSUME NEW i \in DOMAIN down'
      PROVE  \/ i \in DOMAIN down /\ down'[i] = down[i]
             \/ \E j \in 1..k : i = L + j
             \/ (~IsPub(down'[i]) /\ ~IsCut(down'[i]))
    <2>1. CASE i <= L
        BY <1>1, <1>2, <2>1
    <2>2. CASE i > L /\ i <= L + k
        <3>1. i - L \in 1..k /\ i = L + (i - L)
            BY <1>1, <1>2, <2>2
        <3> QED BY <3>1
    <2>3. CASE i > L + k
        <3>1. i - L - k \in 1..Len(tail) /\ i = L + k + (i - L - k)
            BY <1>1, <1>2, <2>3
        <3>2. down'[i] \in Remark
            BY <1>1, <1>2, <3>1
        <3> QED BY <3>2 DEF Remark
    <2> QED BY <1>1, <1>2, <2>1, <2>2, <2>3
<1>8. ASSUME NEW j \in 1..k
      PROVE L + j \in DOMAIN down' /\ L + j \in Pubs' /\ down'[L + j] = Part(kind, n, j) /\ ~IsCut(down'[L + j])
    <2>1. L + j \in DOMAIN down' /\ down'[L + j] = Part(kind, n, j)
        BY <1>1, <1>2
    <2>2. Part(kind, n, j).type = "publication"
        BY DEF Part, Publication
    <2> QED BY <2>1, <2>2 DEF Pubs, IsPub, IsCut
<1>9. \A i \in Pubs : i \in 1..L /\ i \in Pubs' /\ down'[i] = down[i]
    BY <1>6 DEF Pubs
<1>10. ASSUME NEW i \in Pubs' PROVE i \in Nat /\ (i \in Pubs \/ \E j \in 1..k : i = L + j)
    <2>1. i \in DOMAIN down' /\ IsPub(down'[i])
        BY DEF Pubs
    <2>2. i \in Nat
        BY <1>1, <1>2, <2>1
    <2> QED BY <1>7, <2>1, <2>2 DEF Pubs
<1>11. Cuts' = Cuts
    <2>1. ASSUME NEW i \in Cuts' PROVE i \in Cuts
        <3>1. i \in DOMAIN down' /\ IsCut(down'[i])
            BY DEF Cuts
        <3> QED BY <1>7, <1>8, <3>1 DEF Cuts
    <2>2. Cuts \subseteq Cuts'
        BY <1>6 DEF Cuts
    <2> QED BY <2>1, <2>2
<1>12. Cuts \subseteq 1..L
    BY <1>1 DEF Cuts
<1> QED BY <1>1, <1>2, <1>3, <1>4, <1>5, <1>6, <1>8, <1>9, <1>10, <1>11, <1>12 DEF L

\* Publishing keeps the pipe in order.
LEMMA EmissionKeepsOrder ==
    ASSUME SyncInv, NEW kind, NEW n, NEW k, NEW tail, Emission(kind, n, k, tail),
           UNCHANGED <<browser, socket, late>>
    PROVE  Ordered' /\ Stamped' /\ Assembling' /\ Divided'
<1> DEFINE L == Len(down)
<1>1. /\ epoch' = epoch /\ issued <= issued' /\ (k > 0 => issued' = issued + 1)
      /\ L \in Nat /\ k \in Nat /\ n \in Nat
      /\ \A i \in Pubs : i \in 1..L /\ i \in Pubs' /\ down'[i] = down[i]
      /\ \A i \in Pubs' : i \in Nat /\ (i \in Pubs \/ \E j \in 1..k : i = L + j)
      /\ \A j \in 1..k : L + j \in Pubs' /\ down'[L + j] = Part(kind, n, j)
      /\ Cuts' = Cuts /\ Cuts \subseteq 1..L
    BY EmissionShows DEF SyncInv
<1> HIDE DEF L
<1>2. k <= n /\ epoch \in Nat /\ issued \in Nat /\ activeEpoch \in Nat /\ revision \in Nat /\ issued' \in Nat
    <2>1. k \in 0..n
        BY DEF Emission
    <2>2. issued' \in Revisions
        BY EmissionShows DEF SyncInv
    <2>3. k <= n
        BY <2>1, <1>1
    <2>4. issued' \in Nat /\ issued \in Nat /\ revision \in Nat
        BY <2>2 DEF SyncInv, ServerTypeOK, BrowserTypeOK, Revisions
    <2>5. epoch \in Nat /\ activeEpoch \in Nat
        BY DEF SyncInv, ServerTypeOK, BrowserTypeOK, Epochs
    <2> QED BY <2>3, <2>4, <2>5
<1>3. /\ UNCHANGED <<connected, phase, activeEpoch, revision, retired, live, socket, late>>
    BY DEF browser, view
<1>4. ASSUME NEW i \in Pubs
      PROVE  /\ down[i] \in PublicationFrame /\ down[i].epoch \in Nat /\ down[i].revision \in Nat /\ down[i].index \in Nat
             /\ down[i].epoch < epoch \/ (down[i].epoch = epoch /\ down[i].revision <= issued)
    <2>1. i \in DOMAIN down /\ down[i] \in Frame /\ down[i].type = "publication"
        BY Typed DEF SyncInv, ServerTypeOK, Pubs, IsPub
    <2>2. down[i] \in PublicationFrame
        BY <2>1, FrameKinds
    <2>3. down[i].epoch < epoch \/ (down[i].epoch = epoch /\ down[i].revision <= issued)
        BY DEF SyncInv, Ordered
    <2> QED BY <2>2, <2>3, PublicationFields
<1>5. ASSUME NEW j \in 1..k, NEW f, f = down'[L + j]
      PROVE  /\ f.kind = kind /\ f.epoch = epoch /\ f.revision = issued + 1 /\ f.index = j /\ f.count = n
             /\ f.base = (IF kind = "delta" THEN issued ELSE 0)
             /\ issued' = issued + 1
    <2>1. f = Part(kind, n, j)
        BY <1>1, <1>5
    <2>2. k > 0
        BY <1>1
    <2> QED BY <1>1, <2>1, <2>2 DEF Part, Publication
<1>6. ASSUME NEW i \in Pubs', i \notin Pubs
      PROVE  \E j \in 1..k : /\ i = L + j /\ i > L /\ i \in Nat
                             /\ down'[i].kind = kind /\ down'[i].epoch = epoch /\ down'[i].revision = issued + 1
                             /\ down'[i].index = j /\ down'[i].count = n /\ issued' = issued + 1
                             /\ down'[i].base = (IF kind = "delta" THEN issued ELSE 0)
    <2>1. PICK j \in 1..k : i = L + j
        BY <1>1, <1>6
    <2>2. i > L /\ i \in Nat
        BY <1>1, <2>1
    <2> QED BY <1>5, <2>1, <2>2
<1>7. Ordered'
    <2>1. ASSUME NEW i \in Pubs'
          PROVE  /\ down'[i].index <= down'[i].count
                 /\ down'[i].epoch < epoch' \/ (down'[i].epoch = epoch' /\ down'[i].revision <= issued')
                 /\ \A r \in DOMAIN retired : retired[r] < down'[i].epoch
                 /\ activeEpoch < down'[i].epoch \/ (activeEpoch = down'[i].epoch /\ revision < down'[i].revision)
                 /\ down'[i].index > 1 => i = 1 \/ (i - 1 \in Pubs' /\ SamePub(down'[i-1], down'[i]) /\ down'[i-1].index = down'[i].index - 1)
        <3>1. CASE i \in Pubs
            <4>1. down'[i] = down[i] /\ down[i].epoch \in Nat /\ down[i].revision \in Nat
                BY <1>1, <1>4, <3>1
            <4>2. down[i].index > 1 => i = 1 \/ (i - 1 \in Pubs /\ SamePub(down[i-1], down[i]) /\ down[i-1].index = down[i].index - 1)
                BY <3>1 DEF SyncInv, Ordered
            <4>3. i - 1 \in Pubs => i - 1 \in Pubs' /\ down'[i-1] = down[i-1]
                BY <1>1
            <4>4. /\ down[i].index <= down[i].count
                  /\ down[i].epoch < epoch \/ (down[i].epoch = epoch /\ down[i].revision <= issued)
                  /\ \A r \in DOMAIN retired : retired[r] < down[i].epoch
                  /\ activeEpoch < down[i].epoch \/ (activeEpoch = down[i].epoch /\ revision < down[i].revision)
                BY <3>1 DEF SyncInv, Ordered
            <4>5. down[i].epoch < epoch' \/ (down[i].epoch = epoch' /\ down[i].revision <= issued')
                BY <1>1, <1>2, <4>1, <4>4
            <4> QED BY <4>1, <4>2, <4>3, <4>4, <4>5
        <3>2. CASE i \notin Pubs
            <4>1. PICK j \in 1..k : /\ i = L + j /\ i > L /\ i \in Nat
                         /\ down'[i].kind = kind /\ down'[i].epoch = epoch /\ down'[i].revision = issued + 1
                         /\ down'[i].index = j /\ down'[i].count = n /\ issued' = issued + 1
                         /\ down'[i].base = (IF kind = "delta" THEN issued ELSE 0)
                BY <1>6, <3>2
            <4>2. j \in Nat /\ j <= n
                BY <1>1, <1>2
            <4>3. \A r \in DOMAIN retired : retired[r] < epoch
                BY DEF SyncInv, Stamped
            <4>4. activeEpoch < epoch \/ (activeEpoch = epoch /\ revision <= issued)
                BY DEF SyncInv, Stamped
            <4>5. activeEpoch < epoch \/ (activeEpoch = epoch /\ revision < issued + 1)
                BY <1>2, <4>4
            <4>6. ASSUME j > 1 PROVE i - 1 \in Pubs' /\ SamePub(down'[i-1], down'[i]) /\ down'[i-1].index = down'[i].index - 1
                <5>1. j - 1 \in 1..k /\ i - 1 = L + (j - 1)
                    BY <1>1, <4>1, <4>2, <4>6
                <5>2. i - 1 \in Pubs'
                    BY <1>1, <5>1
                <5>3. /\ down'[i-1].kind = kind /\ down'[i-1].epoch = epoch /\ down'[i-1].revision = issued + 1
                      /\ down'[i-1].index = j - 1 /\ down'[i-1].count = n
                      /\ down'[i-1].base = (IF kind = "delta" THEN issued ELSE 0)
                    BY <1>5, <5>1
                <5> QED BY <4>1, <5>2, <5>3 DEF SamePub
            <4> QED BY <1>1, <1>2, <4>1, <4>2, <4>3, <4>5, <4>6
        <3> QED BY <3>1, <3>2
    <2>2. ASSUME NEW i \in Pubs', NEW j \in Pubs', i < j
          PROVE  Older(down'[i], down'[j]) \/ (SamePub(down'[i], down'[j]) /\ down'[i].index < down'[j].index)
        <3>1. CASE j \in Pubs
            <4>1. i \in Pubs
                <5>1. j \in 1..L
                    BY <1>1, <3>1
                <5>2. i \notin Pubs => i > L /\ i \in Nat
                    BY <1>6
                <5> QED BY <1>1, <2>2, <5>1, <5>2
            <4>2. down'[i] = down[i] /\ down'[j] = down[j]
                BY <1>1, <3>1, <4>1
            <4> QED BY <2>2, <3>1, <4>1, <4>2 DEF SyncInv, Ordered
        <3>2. CASE j \notin Pubs /\ i \in Pubs
            <4>1. down'[j].epoch = epoch /\ down'[j].revision = issued + 1
                BY <1>6, <3>2
            <4>2. down'[i] = down[i]
                BY <1>1, <3>2
            <4> QED BY <1>2, <1>4, <3>2, <4>1, <4>2 DEF Older
        <3>3. CASE j \notin Pubs /\ i \notin Pubs
            <4>1. PICK a \in 1..k : /\ i = L + a
                         /\ down'[i].kind = kind /\ down'[i].epoch = epoch /\ down'[i].revision = issued + 1
                         /\ down'[i].index = a /\ down'[i].count = n
                         /\ down'[i].base = (IF kind = "delta" THEN issued ELSE 0)
                BY <1>6, <3>3
            <4>2. PICK b \in 1..k : /\ j = L + b
                         /\ down'[j].kind = kind /\ down'[j].epoch = epoch /\ down'[j].revision = issued + 1
                         /\ down'[j].index = b /\ down'[j].count = n
                         /\ down'[j].base = (IF kind = "delta" THEN issued ELSE 0)
                BY <1>6, <3>3
            <4>3. a < b
                BY <1>1, <2>2, <4>1, <4>2
            <4> QED BY <4>1, <4>2, <4>3 DEF SamePub
        <3> QED BY <3>1, <3>2, <3>3
    <2> QED BY <1>3, <2>1, <2>2 DEF Ordered
<1>8. Stamped'
    <2>1. activeEpoch' < epoch' \/ (activeEpoch' = epoch' /\ revision' <= issued')
        BY <1>1, <1>2, <1>3 DEF SyncInv, Stamped
    <2>2. \A r \in DOMAIN retired' : retired'[r] < epoch'
        BY <1>1, <1>3 DEF SyncInv, Stamped
    <2>3. Retired(late[1].epoch)' <=> Retired(late[1].epoch)
        BY <1>3 DEF Retired
    <2>4. late # <<>> => late[1].epoch < epoch' \/ (late[1].epoch = epoch' /\ late[1].revision <= issued')
        <3> SUFFICES ASSUME late # <<>> PROVE late[1].epoch < epoch' \/ (late[1].epoch = epoch' /\ late[1].revision <= issued')
            OBVIOUS
        <3>1. late[1].revision \in Nat
            BY PublicationFields, SyncAssumption DEF SyncInv, ServerTypeOK
        <3>2. late[1].epoch < epoch \/ (late[1].epoch = epoch /\ late[1].revision <= issued)
            BY DEF SyncInv, Stamped
        <3> QED BY <1>1, <1>2, <3>1, <3>2
    <2> QED BY <1>3, <2>1, <2>2, <2>3, <2>4 DEF SyncInv, Stamped
<1>9. Assembling'
    <2> SUFFICES ASSUME socket' = "open", live' # <<>>
                 PROVE  /\ live'[1].received < live'[1].count
                        /\ phase' = "active" => live'[1].epoch = activeEpoch'
                        /\ live'[1].epoch < epoch' \/ (live'[1].epoch = epoch' /\ live'[1].revision <= issued')
                        /\ \A i \in Pubs' : Older(live'[1], down'[i]) \/ (SameTransfer(down[i])' /\ live'[1].received < down'[i].index)
        BY DEF Assembling
    <2>1. /\ live[1].received < live[1].count
          /\ phase = "active" => live[1].epoch = activeEpoch
          /\ live[1].epoch < epoch \/ (live[1].epoch = epoch /\ live[1].revision <= issued)
          /\ \A i \in Pubs : Older(live[1], down[i]) \/ (SameTransfer(down[i]) /\ live[1].received < down[i].index)
        BY <1>3 DEF SyncInv, Assembling
    <2>2. live[1].epoch \in Nat /\ live[1].revision \in Nat
        BY <1>3, SyncAssumption DEF SyncInv, BrowserTypeOK, Transfer
    <2>3. live[1].epoch < epoch' \/ (live[1].epoch = epoch' /\ live[1].revision <= issued')
        BY <1>1, <1>2, <2>1, <2>2
    <2>4. ASSUME NEW i \in Pubs'
          PROVE  Older(live[1], down'[i]) \/ (SameTransfer(down[i])' /\ live[1].received < down'[i].index)
        <3>1. CASE i \in Pubs
            <4>1. down'[i] = down[i]
                BY <1>1, <3>1
            <4>2. SameTransfer(down[i])' <=> SameTransfer(down[i])
                BY <1>3, <4>1 DEF SameTransfer
            <4> QED BY <2>1, <3>1, <4>1, <4>2
        <3>2. CASE i \notin Pubs
            <4>1. down'[i].epoch = epoch /\ down'[i].revision = issued + 1
                BY <1>6, <3>2
            <4> QED BY <1>2, <2>1, <2>2, <4>1 DEF Older
        <3> QED BY <3>1, <3>2
    <2> QED BY <1>3, <2>1, <2>3, <2>4
<1>10. Divided'
    <2> SUFFICES ASSUME NEW c \in Cuts
                 PROVE  /\ activeEpoch < epoch
                        /\ \A i \in Pubs' : i < c => down'[i].epoch < epoch
                        /\ \A j \in Pubs' : c < j => activeEpoch < down'[j].epoch
                        /\ \A i, j \in Pubs' : i < c /\ c < j => down'[i].epoch < down'[j].epoch
        BY <1>1, <1>3 DEF Divided
    <2>1. /\ activeEpoch < epoch
          /\ \A i \in Pubs : i < c => down[i].epoch < epoch
          /\ \A j \in Pubs : c < j => activeEpoch < down[j].epoch
          /\ \A i, j \in Pubs : i < c /\ c < j => down[i].epoch < down[j].epoch
        BY DEF SyncInv, Divided
    <2>2. c \in 1..L
        BY <1>1
    <2>3. ASSUME NEW i \in Pubs', i < c PROVE i \in Pubs /\ down'[i] = down[i]
        <3>1. i \notin Pubs => i > L /\ i \in Nat
            BY <1>6
        <3> QED BY <1>1, <2>2, <2>3, <3>1
    <2>4. ASSUME NEW j \in Pubs' PROVE (j \in Pubs /\ down'[j] = down[j]) \/ down'[j].epoch = epoch
        BY <1>1, <1>6
    <2> QED BY <2>1, <2>3, <2>4
<1> QED BY <1>7, <1>8, <1>9, <1>10

\* Nothing new on the wire, and the screen as it was.
LEMMA QuietKeepsOrder ==
    ASSUME SyncInv, UNCHANGED <<down, epoch, issued, socket, late, view, retired>>, live' = live \/ live' = <<>>
    PROVE  Ordered' /\ Stamped' /\ Assembling' /\ Divided'
<1>1. UNCHANGED <<phase, activeEpoch, revision, retired>>
    BY DEF view
<1>2. Pubs' = Pubs /\ Cuts' = Cuts
    BY DEF Pubs, Cuts
<1>3. Ordered'
    BY <1>1, <1>2 DEF SyncInv, Ordered
<1>4. Stamped'
    BY <1>1 DEF SyncInv, Stamped, Retired
<1>5. Assembling'
    BY <1>1, <1>2 DEF SyncInv, Assembling, SameTransfer
<1>6. Divided'
    BY <1>1, <1>2 DEF SyncInv, Divided
<1> QED BY <1>3, <1>4, <1>5, <1>6

\* What one cut, or none, adds to the wire.
LEMMA CutShows ==
    ASSUME ServerTypeOK, down' = down \/ down' = Append(down, ProtocolError("no_puppet"))
    PROVE  /\ down' \in Seq(Frame) /\ Len(down) \in Nat
           /\ \A i \in DOMAIN down : i \in 1..Len(down) /\ i \in DOMAIN down' /\ down'[i] = down[i]
           /\ Pubs' = Pubs /\ Pubs \subseteq 1..Len(down) /\ Cuts \subseteq Cuts'
           /\ Cuts \subseteq 1..Len(down)
           /\ down' = down => Cuts' = Cuts
           /\ down' # down => Cuts' = Cuts \cup {Len(down) + 1} /\ down'[Len(down) + 1] = ProtocolError("no_puppet")
<1> DEFINE e == ProtocolError("no_puppet")
<1>1. e \in Frame /\ IsCut(e) /\ ~IsPub(e)
    BY DEF ProtocolError, Frame, ErrorFrame, Codes, IsCut, IsPub
<1>2. down \in Seq(Frame) /\ Len(down) \in Nat /\ DOMAIN down = 1..Len(down)
    BY Typed DEF ServerTypeOK
<1>3. CASE down' = down
    BY <1>2, <1>3 DEF Pubs, Cuts
<1>4. CASE down' = Append(down, e)
    <2>1. /\ down' \in Seq(Frame) /\ DOMAIN down' = 1..(Len(down) + 1) /\ down'[Len(down) + 1] = e
          /\ \A i \in 1..Len(down) : down'[i] = down[i]
        BY <1>1, <1>2, <1>4, Appended
    <2> HIDE DEF e
    <2>2. \A i \in DOMAIN down' : i \in DOMAIN down \/ i = Len(down) + 1
        BY <1>2, <2>1
    <2>3. Pubs' = Pubs
        BY <1>1, <1>2, <2>1, <2>2 DEF Pubs
    <2>4. Cuts' = Cuts \cup {Len(down) + 1}
        BY <1>1, <1>2, <2>1, <2>2 DEF Cuts
    <2>5. Pubs \subseteq DOMAIN down /\ Cuts \subseteq DOMAIN down /\ Len(down) + 1 \notin DOMAIN down
        BY <1>2 DEF Pubs, Cuts
    <2>6. down' # down
        BY <1>2, <2>1, <2>5
    <2> QED BY <1>2, <2>1, <2>3, <2>4, <2>5, <2>6 DEF e
<1> QED BY <1>3, <1>4

\* A fresh sequence, told to the browser or not.
LEMMA ResetKeepsOrder ==
    ASSUME SyncInv, Stream!Reset, UNCHANGED <<browser, socket, late>>,
           down' = down \/ down' = Append(down, ProtocolError("no_puppet"))
    PROVE  Ordered' /\ Stamped' /\ Assembling' /\ Divided'
<1>1. epoch' = epoch + 1 /\ issued' = 0
    BY DEF Stream!Reset
<1>2. /\ Len(down) \in Nat /\ Pubs' = Pubs /\ Pubs \subseteq 1..Len(down) /\ Cuts \subseteq 1..Len(down)
      /\ \A i \in Pubs : down'[i] = down[i] /\ i \in DOMAIN down
      /\ \A c \in Cuts' : c \in Cuts \/ c = Len(down) + 1
    <2>1. ServerTypeOK
        BY DEF SyncInv
    <2>2. \A c \in Cuts' : c \in Cuts \/ c = Len(down) + 1
        BY <2>1, CutShows
    <2>3. \A i \in Pubs : i \in DOMAIN down
        BY DEF Pubs
    <2> QED BY <2>1, <2>2, <2>3, CutShows
<1>3. UNCHANGED <<phase, activeEpoch, revision, retired, live, socket, late>>
    BY DEF browser, view
<1>4. epoch \in Nat /\ activeEpoch \in Nat /\ issued \in Nat /\ revision \in Nat
    BY SyncAssumption DEF SyncInv, ServerTypeOK, BrowserTypeOK, Revisions, Epochs
<1>5. ASSUME NEW i \in Pubs PROVE (down[i].epoch \in Nat) /\ (down[i].epoch <= epoch)
    <2>1. down[i] \in PublicationFrame
        BY Typed, FrameKinds DEF SyncInv, ServerTypeOK, Pubs, IsPub
    <2>2. down[i].epoch < epoch \/ down[i].epoch = epoch
        BY DEF SyncInv, Ordered
    <2> QED BY <1>4, <2>1, <2>2, PublicationFields
<1>6. Ordered'
    <2>1. ASSUME NEW i \in Pubs'
          PROVE  /\ down'[i].index <= down'[i].count
                 /\ down'[i].epoch < epoch'
                 /\ \A k \in DOMAIN retired : retired[k] < down'[i].epoch
                 /\ activeEpoch < down'[i].epoch \/ (activeEpoch = down'[i].epoch /\ revision < down'[i].revision)
                 /\ down'[i].index > 1 => i = 1 \/ (i - 1 \in Pubs' /\ SamePub(down'[i-1], down'[i]) /\ down'[i-1].index = down'[i].index - 1)
        <3>1. i \in Pubs /\ down'[i] = down[i] /\ (i - 1 \in Pubs => down'[i-1] = down[i-1])
            BY <1>2
        <3>2. down[i].epoch < epoch + 1
            BY <1>4, <1>5, <3>1
        <3>3. /\ down[i].index <= down[i].count
              /\ \A k \in DOMAIN retired : retired[k] < down[i].epoch
              /\ activeEpoch < down[i].epoch \/ (activeEpoch = down[i].epoch /\ revision < down[i].revision)
              /\ down[i].index > 1 => i = 1 \/ (i - 1 \in Pubs /\ SamePub(down[i-1], down[i]) /\ down[i-1].index = down[i].index - 1)
            BY <3>1 DEF SyncInv, Ordered
        <3> QED BY <1>1, <1>2, <3>1, <3>2, <3>3
    <2>2. \A i, j \in Pubs' : i < j => Older(down'[i], down'[j]) \/ (SamePub(down'[i], down'[j]) /\ down'[i].index < down'[j].index)
        BY <1>2 DEF SyncInv, Ordered
    <2> QED BY <1>3, <2>1, <2>2 DEF Ordered
<1>7. Stamped'
    <2>1. activeEpoch < epoch + 1
        BY <1>4 DEF SyncInv, Stamped
    <2>2. ASSUME NEW r \in DOMAIN retired PROVE retired[r] < epoch + 1
        <3>1. retired \in Seq(1..MaxEpoch)
            BY DEF SyncInv, BrowserTypeOK
        <3>2. retired[r] \in 1..MaxEpoch
            BY <3>1, Typed
        <3>3. retired[r] < epoch
            BY DEF SyncInv, Stamped
        <3> QED BY <1>4, <3>2, <3>3
    <2>3. late # <<>> => late[1].epoch < epoch + 1
        <3>1. late # <<>> => late[1] \in PublicationFrame
            BY DEF SyncInv, ServerTypeOK
        <3>2. late # <<>> => late[1].epoch \in 1..MaxEpoch
            BY <3>1, PublicationFields
        <3>3. late # <<>> => (late[1].epoch < epoch \/ late[1].epoch = epoch)
            BY DEF SyncInv, Stamped
        <3> QED BY <1>4, <3>2, <3>3
    <2>4. Retired(late[1].epoch)' <=> Retired(late[1].epoch)
        BY <1>3 DEF Retired
    <2>5. /\ socket = "open" /\ activeEpoch # 0 => \A k \in DOMAIN retired : retired[k] < activeEpoch
          /\ late # <<>> => IF socket = "down" THEN late[1].epoch = activeEpoch ELSE Retired(late[1].epoch)
        BY DEF SyncInv, Stamped
    <2> QED BY <1>1, <1>3, <2>1, <2>2, <2>3, <2>4, <2>5 DEF Stamped
<1>8. Assembling'
    <2> SUFFICES ASSUME socket = "open", live # <<>>
                 PROVE  /\ live[1].received < live[1].count
                        /\ phase = "active" => live[1].epoch = activeEpoch
                        /\ live[1].epoch < epoch + 1
                        /\ \A i \in Pubs : Older(live[1], down'[i]) \/ (SameTransfer(down'[i]) /\ live[1].received < down'[i].index)
        BY <1>1, <1>2, <1>3 DEF Assembling, SameTransfer
    <2>1. /\ live[1].received < live[1].count
          /\ phase = "active" => live[1].epoch = activeEpoch
          /\ live[1].epoch < epoch \/ live[1].epoch = epoch
          /\ \A i \in Pubs : Older(live[1], down[i]) \/ (SameTransfer(down[i]) /\ live[1].received < down[i].index)
        BY DEF SyncInv, Assembling
    <2>2. live[1].epoch \in Nat
        BY SyncAssumption DEF SyncInv, BrowserTypeOK, Transfer
    <2> QED BY <1>2, <1>4, <2>1, <2>2
<1>9. Divided'
    <2> SUFFICES ASSUME NEW c \in Cuts'
                 PROVE  /\ activeEpoch < epoch + 1
                        /\ \A i \in Pubs : i < c => down[i].epoch < epoch + 1
                        /\ \A j \in Pubs : c < j => activeEpoch < down[j].epoch
                        /\ \A i, j \in Pubs : i < c /\ c < j => down[i].epoch < down[j].epoch
        BY <1>1, <1>2, <1>3 DEF Divided
    <2>1. activeEpoch < epoch + 1
        BY <1>4 DEF SyncInv, Stamped
    <2>2. \A i \in Pubs : down[i].epoch < epoch + 1
        BY <1>4, <1>5
    <2>3. CASE c \in Cuts
        BY <2>1, <2>2, <2>3 DEF SyncInv, Divided
    <2>4. CASE c = Len(down) + 1
        <3>1. \A j \in Pubs : ~(c < j)
            BY <1>2, <2>4
        <3> QED BY <2>1, <2>2, <3>1
    <2> QED BY <1>2, <2>3, <2>4
<1> QED BY <1>6, <1>7, <1>8, <1>9

------------------------------------------------------------------------------
(* A frame arrives. *)

LEMMA Receipts ==
    ASSUME NEW f \in Frame, Receive(f) \/ ReceiveInvalid(f)
    PROVE  /\ UNCHANGED <<connected, retired>>
           /\ \/ UNCHANGED view /\ ~IsCut(f) /\ (live' = live \/ live' = <<>>)
              \/ IsPub(f) /\ ReceivePart(f)
              \/ IsPub(f) /\ ReceivePublication(f)
              \/ IsCut(f) /\ ReceiveNoPuppet(f)
<1> USE DEF view, browser, IsCut, IsPub
<1>1. CASE ReceiveInert(f) \/ ReceiveContradiction(f) \/ ReceiveInvalid(f)
    BY <1>1 DEF ReceiveInert, ReceiveContradiction, ReceiveInvalid
<1>2. CASE ReceivePart(f) \/ ReceivePublication(f)
    BY <1>2 DEF ReceivePart, ReceivePublication
<1>3. CASE ReceiveForeignResult(f) \/ ReceiveResult(f)
    BY <1>3 DEF ReceiveForeignResult, ReceiveResult
<1>4. CASE ReceiveNoPuppet(f)
    BY <1>4 DEF ReceiveNoPuppet
<1>5. CASE ReceiveUnavailable(f) \/ ReceiveReloadRequired(f)
    BY <1>5 DEF ReceiveUnavailable, ReceiveReloadRequired
<1> QED BY <1>1, <1>2, <1>3, <1>4, <1>5 DEF Receive

\* The wire without its first frame.
LEMMA TakenShows ==
    ASSUME ServerTypeOK, down # <<>>, down' = Tail(down)
    PROVE  /\ down' \in Seq(Frame) /\ 1 \in DOMAIN down /\ Head(down) = down[1] /\ down[1] \in Frame
           /\ \A i \in DOMAIN down : i \in Nat \ {0}
           /\ \A i \in DOMAIN down' : i \in Nat \ {0} /\ i + 1 \in DOMAIN down /\ i + 1 # 1 /\ down'[i] = down[i + 1]
           /\ \A i \in DOMAIN down : i # 1 => i - 1 \in DOMAIN down' /\ down'[i - 1] = down[i]
           /\ \A i \in Pubs' : i \in Nat \ {0} /\ i + 1 \in Pubs /\ 1 < i + 1 /\ down'[i] = down[i + 1]
           /\ \A c \in Cuts' : c \in Nat \ {0} /\ c + 1 \in Cuts /\ 1 < c + 1 /\ down'[c] = down[c + 1]
           /\ \A i \in Pubs : i # 1 => i - 1 \in Pubs'
           /\ \A c \in Cuts : c # 1 => c - 1 \in Cuts'
<1>1. /\ down' \in Seq(Frame) /\ Len(down) \in Nat \ {0}
      /\ DOMAIN down = 1..Len(down) /\ DOMAIN down' = 1..(Len(down) - 1)
      /\ Head(down) = down[1] /\ Head(down) \in Frame /\ 1 \in DOMAIN down
      /\ \A i \in 1..(Len(down) - 1) : down'[i] = down[i + 1]
    BY Tailed DEF ServerTypeOK
<1>2. ASSUME NEW i \in DOMAIN down'
      PROVE  i \in Nat \ {0} /\ i + 1 \in DOMAIN down /\ i + 1 # 1 /\ 1 < i + 1 /\ down'[i] = down[i + 1]
    BY <1>1
<1>3. ASSUME NEW i \in DOMAIN down, i # 1 PROVE i - 1 \in DOMAIN down' /\ down'[i - 1] = down[i]
    <2>1. i - 1 \in 1..(Len(down) - 1) /\ (i - 1) + 1 = i
        BY <1>1, <1>3
    <2> QED BY <1>1, <2>1
<1>4. \A i \in DOMAIN down : i \in Nat \ {0}
    BY <1>1
<1>5. \A i \in Pubs' : i \in Nat \ {0} /\ i + 1 \in Pubs /\ 1 < i + 1 /\ down'[i] = down[i + 1]
    BY <1>2 DEF Pubs
<1>6. \A c \in Cuts' : c \in Nat \ {0} /\ c + 1 \in Cuts /\ 1 < c + 1 /\ down'[c] = down[c + 1]
    BY <1>2 DEF Cuts
<1>7. \A i \in Pubs : i # 1 => i - 1 \in Pubs'
    BY <1>3 DEF Pubs
<1>8. \A c \in Cuts : c # 1 => c - 1 \in Cuts'
    BY <1>3 DEF Cuts
<1> QED BY <1>1, <1>2, <1>3, <1>4, <1>5, <1>6, <1>7, <1>8

\* What follows a publication on the wire is another part of it, or younger.
LEMMA FollowsFirst ==
    ASSUME SyncInv, down # <<>>, down' = Tail(down), IsPub(down[1])
    PROVE  /\ 1 \in Pubs /\ down[1] \in PublicationFrame
           /\ \A i \in Pubs' : Older(down[1], down'[i]) \/ (SamePub(down[1], down'[i]) /\ down[1].index < down'[i].index)
           /\ \A i \in Pubs' : Complete(down[1]) => Older(down[1], down'[i])
<1>1. /\ 1 \in DOMAIN down /\ down[1] \in Frame
      /\ \A i \in Pubs' : i \in Nat \ {0} /\ i + 1 \in Pubs /\ 1 < i + 1 /\ down'[i] = down[i + 1]
    BY TakenShows DEF SyncInv
<1>2. 1 \in Pubs /\ down[1] \in PublicationFrame
    BY <1>1, FrameKinds DEF Pubs, IsPub
<1>3. ASSUME NEW i \in Pubs'
      PROVE  Older(down[1], down'[i]) \/ (SamePub(down[1], down'[i]) /\ down[1].index < down'[i].index)
    BY <1>1, <1>2 DEF SyncInv, Ordered
<1>4. ASSUME NEW i \in Pubs', Complete(down[1]) PROVE Older(down[1], down'[i])
    <2>1. down'[i].index <= down'[i].count /\ down'[i] \in PublicationFrame
        <3>1. i + 1 \in Pubs /\ down'[i] = down[i + 1]
            BY <1>1
        <3>2. down[i + 1].index <= down[i + 1].count
            BY <3>1 DEF SyncInv, Ordered
        <3>3. down[i + 1] \in PublicationFrame
            BY <3>1, Typed, FrameKinds DEF SyncInv, ServerTypeOK, Pubs, IsPub
        <3> QED BY <3>1, <3>2, <3>3
    <2>2. down[1].index = down[1].count
        BY <1>4 DEF Complete
    <2>3. down'[i].index \in Nat /\ down'[i].count \in Nat /\ down[1].index \in Nat
        BY <1>2, <2>1, PublicationFields
    <2>4. ~(SamePub(down[1], down'[i]) /\ down[1].index < down'[i].index)
        <3>1. ASSUME NEW a \in Nat, NEW b \in Nat, NEW n \in Nat, a = n, b <= n PROVE ~(a < b)
            BY <3>1
        <3>2. SamePub(down[1], down'[i]) => down[1].index = down'[i].count
            BY <2>2 DEF SamePub
        <3> QED BY <2>1, <2>3, <3>1, <3>2
    <2> QED BY <1>3, <2>4
<1> QED BY <1>2, <1>3, <1>4

LEMMA TakeKeepsOrder ==
    ASSUME SyncInv, down # <<>>, down' = Tail(down), UNCHANGED <<epoch, issued, socket, late>>,
           Receive(down[1]) \/ ReceiveInvalid(down[1])
               \/ (down[1].type = "logged_in" /\ UNCHANGED browser)
    PROVE  Ordered' /\ Stamped' /\ Assembling' /\ Divided'
<1> DEFINE f == down[1]
<1>0. /\ ServerTypeOK /\ BrowserTypeOK
      /\ 1 \in DOMAIN down /\ f \in Frame
      /\ \A i \in Pubs' : i \in Nat \ {0} /\ i + 1 \in Pubs /\ 1 < i + 1 /\ down'[i] = down[i + 1]
      /\ \A c \in Cuts' : c \in Nat \ {0} /\ c + 1 \in Cuts /\ 1 < c + 1 /\ down'[c] = down[c + 1]
      /\ \A i \in Pubs : i # 1 => i - 1 \in Pubs'
    BY TakenShows DEF SyncInv
<1>1. socket = "open"
    BY <1>0 DEF SyncInv, Idle, ServerTypeOK
<1>2. /\ UNCHANGED retired
      /\ \/ UNCHANGED view /\ (live' = live \/ live' = <<>>)
         \/ IsPub(f) /\ ReceivePart(f)
         \/ IsPub(f) /\ ReceivePublication(f)
         \/ IsCut(f) /\ ReceiveNoPuppet(f)
    BY <1>0, Receipts DEF browser
<1>3. \/ UNCHANGED <<activeEpoch, revision>>
      \/ IsPub(f) /\ Complete(f) /\ ReceivePublication(f) /\ activeEpoch' = f.epoch /\ revision' = f.revision
    BY <1>2 DEF view, ReceivePart, ReceivePublication, ReceiveNoPuppet
<1>4. IsPub(f) =>
          /\ 1 \in Pubs /\ f \in PublicationFrame
          /\ \A i \in Pubs' : Older(f, down'[i]) \/ (SamePub(f, down'[i]) /\ f.index < down'[i].index)
          /\ \A i \in Pubs' : Complete(f) => Older(f, down'[i])
    BY <1>0, FollowsFirst
<1>5. IsPub(f) =>
          /\ f.index <= f.count
          /\ f.epoch < epoch \/ (f.epoch = epoch /\ f.revision <= issued)
          /\ \A k \in DOMAIN retired : retired[k] < f.epoch
          /\ activeEpoch < f.epoch \/ (activeEpoch = f.epoch /\ revision < f.revision)
    BY <1>4 DEF SyncInv, Ordered
<1> HIDE DEF f
<1>6. Ordered'
    <2>1. ASSUME NEW i \in Pubs'
          PROVE  /\ down'[i].index <= down'[i].count
                 /\ down'[i].epoch < epoch \/ (down'[i].epoch = epoch /\ down'[i].revision <= issued)
                 /\ \A k \in DOMAIN retired : retired[k] < down'[i].epoch
                 /\ activeEpoch' < down'[i].epoch \/ (activeEpoch' = down'[i].epoch /\ revision' < down'[i].revision)
                 /\ down'[i].index > 1 => i = 1 \/ (i - 1 \in Pubs' /\ SamePub(down'[i-1], down'[i]) /\ down'[i-1].index = down'[i].index - 1)
        <3> DEFINE n == i + 1
        <3>0. i \in Nat \ {0} /\ n \in Pubs /\ down'[i] = down[n]
            BY <1>0
        <3>b. n - 1 = i
            BY <3>0
        <3>1. i \in Nat \ {0} /\ n \in Pubs /\ down'[i] = down[n] /\ n - 1 = i
            BY <3>0, <3>b
        <3> HIDE DEF n
        <3>2. /\ down[n].index <= down[n].count
              /\ down[n].epoch < epoch \/ (down[n].epoch = epoch /\ down[n].revision <= issued)
              /\ \A k \in DOMAIN retired : retired[k] < down[n].epoch
              /\ activeEpoch < down[n].epoch \/ (activeEpoch = down[n].epoch /\ revision < down[n].revision)
              /\ down[n].index > 1 => n = 1 \/ (n - 1 \in Pubs /\ SamePub(down[n-1], down[n]) /\ down[n-1].index = down[n].index - 1)
            BY <3>1 DEF SyncInv, Ordered
        <3>3. activeEpoch' < down'[i].epoch \/ (activeEpoch' = down'[i].epoch /\ revision' < down'[i].revision)
            <4>1. CASE UNCHANGED <<activeEpoch, revision>>
                BY <3>1, <3>2, <4>1
            <4>2. CASE IsPub(f) /\ Complete(f) /\ activeEpoch' = f.epoch /\ revision' = f.revision
                BY <1>4, <4>2 DEF Older
            <4> QED BY <1>3, <4>1, <4>2
        <3>4. ASSUME down[n].index > 1, i # 1
              PROVE  i - 1 \in Pubs' /\ SamePub(down'[i-1], down'[i]) /\ down'[i-1].index = down'[i].index - 1
            <4>1. i \in Pubs /\ SamePub(down[i], down[n]) /\ down[i].index = down[n].index - 1
                <5>1. n # 1
                    BY <3>1
                <5> QED BY <3>1, <3>2, <3>4, <5>1
            <4>2. i - 1 \in Pubs'
                BY <1>0, <3>4, <4>1
            <4>3. down'[i-1] = down[i]
                <5>1. (i - 1) + 1 = i
                    BY <3>1
                <5> QED BY <1>0, <4>2, <5>1
            <4> QED BY <3>1, <4>1, <4>2, <4>3
        <3> QED BY <3>1, <3>2, <3>3, <3>4
    <2>2. ASSUME NEW i \in Pubs', NEW j \in Pubs', i < j
          PROVE  Older(down'[i], down'[j]) \/ (SamePub(down'[i], down'[j]) /\ down'[i].index < down'[j].index)
        <3>1. i + 1 \in Pubs /\ j + 1 \in Pubs /\ down'[i] = down[i + 1] /\ down'[j] = down[j + 1]
            BY <1>0
        <3>2. i \in Nat /\ j \in Nat
            BY <1>0
        <3>3. i + 1 < j + 1
            BY <2>2, <3>2
        <3> QED BY <3>1, <3>3 DEF SyncInv, Ordered
    <2> QED BY <1>2, <2>1, <2>2 DEF Ordered
<1>7. Stamped'
    <2>1. activeEpoch' < epoch \/ (activeEpoch' = epoch /\ revision' <= issued)
        BY <1>3, <1>5 DEF SyncInv, Stamped
    <2>2. activeEpoch' # 0 => \A k \in DOMAIN retired : retired[k] < activeEpoch'
        BY <1>1, <1>3, <1>5 DEF SyncInv, Stamped
    <2>3. \A e : Retired(e)' <=> Retired(e)
        BY <1>2 DEF Retired
    <2>4. /\ \A k \in DOMAIN retired : retired[k] < epoch
          /\ late # <<>> => Retired(late[1].epoch)
          /\ late # <<>> => late[1].epoch < epoch \/ (late[1].epoch = epoch /\ late[1].revision <= issued)
        BY <1>1 DEF SyncInv, Stamped
    <2> QED BY <1>1, <1>2, <2>1, <2>2, <2>3, <2>4 DEF Stamped
<1>8. Assembling'
    <2>1. CASE live' = <<>>
        BY <2>1 DEF Assembling
    <2>2. CASE live' = live /\ live # <<>> /\ (phase' = "active" => phase = "active") /\ UNCHANGED activeEpoch
        <3>1. /\ live[1].received < live[1].count
              /\ phase = "active" => live[1].epoch = activeEpoch
              /\ live[1].epoch < epoch \/ (live[1].epoch = epoch /\ live[1].revision <= issued)
              /\ \A i \in Pubs : Older(live[1], down[i]) \/ (SameTransfer(down[i]) /\ live[1].received < down[i].index)
            BY <1>1, <2>2 DEF SyncInv, Assembling
        <3>2. ASSUME NEW i \in Pubs'
              PROVE  Older(live[1], down'[i]) \/ (SameTransfer(down[i])' /\ live[1].received < down'[i].index)
            <4>1. i + 1 \in Pubs /\ down'[i] = down[i + 1]
                BY <1>0
            <4>2. SameTransfer(down[i])' <=> SameTransfer(down[i + 1])
                BY <2>2, <4>1 DEF SameTransfer
            <4> QED BY <3>1, <4>1, <4>2
        <3> QED BY <2>2, <3>1, <3>2 DEF Assembling
    <2>3. CASE IsPub(f) /\ ReceivePart(f)
        <3> DEFINE t == live'[1]
        <3>1. /\ t.kind = f.kind /\ t.epoch = f.epoch /\ t.revision = f.revision /\ t.base = f.base
              /\ t.count = f.count /\ t.received = f.index
              /\ ~Inert(f) /\ ~Complete(f) /\ UNCHANGED <<phase, activeEpoch>> /\ live' # <<>>
            BY <2>3 DEF ReceivePart, view
        <3> HIDE DEF t
        <3>2. t.received < t.count
            BY <1>4, <1>5, <2>3, <3>1, PublicationFields DEF Complete
        <3>3. phase' = "active" => t.epoch = activeEpoch'
            BY <3>1 DEF Inert
        <3>4. ASSUME NEW i \in Pubs'
              PROVE  Older(t, down'[i]) \/ (SameTransfer(down[i])' /\ t.received < down'[i].index)
            <4>1. CASE Older(f, down'[i])
                BY <3>1, <4>1 DEF Older
            <4>2. CASE SamePub(f, down'[i]) /\ f.index < down'[i].index
                BY <3>1, <4>2 DEF SamePub, SameTransfer, t
            <4> QED BY <1>4, <2>3, <4>1, <4>2
        <3> QED BY <1>5, <2>3, <3>1, <3>2, <3>3, <3>4 DEF Assembling, t
    <2>4. CASE IsPub(f) /\ ReceivePublication(f) /\ live' # <<>>
        <3>1. live' = live /\ phase = "active" /\ ~Inert(f) /\ activeEpoch' = f.epoch
            BY <2>4 DEF ReceivePublication, Pruned
        <3>2. f.epoch = activeEpoch
            BY <3>1 DEF Inert
        <3> QED BY <2>2, <2>4, <3>1, <3>2
    <2>5. CASE IsCut(f) /\ ReceiveNoPuppet(f)
        BY <2>1, <2>5 DEF ReceiveNoPuppet
    <2>6. CASE UNCHANGED view /\ live' = live /\ live # <<>>
        BY <2>2, <2>6 DEF view
    <2> QED BY <1>2, <2>1, <2>2, <2>3, <2>4, <2>5, <2>6
<1>9. Divided'
    <2> SUFFICES ASSUME NEW c \in Cuts'
                 PROVE  /\ activeEpoch' < epoch
                        /\ \A i \in Pubs' : i < c => down'[i].epoch < epoch
                        /\ \A j \in Pubs' : c < j => activeEpoch' < down'[j].epoch
                        /\ \A i, j \in Pubs' : i < c /\ c < j => down'[i].epoch < down'[j].epoch
        BY DEF Divided
    <2> DEFINE d == c + 1
    <2>1. c \in Nat \ {0} /\ d \in Cuts /\ 1 < d
        BY <1>0
    <2>a. \A i \in Pubs' : i \in Nat /\ i + 1 \in Pubs /\ down'[i] = down[i + 1]
        BY <1>0
    <2>b. \A i \in Nat : (i < c <=> i + 1 < d) /\ (c < i <=> d < i + 1)
        BY <2>1
    <2>2. /\ \A i \in Pubs' : i \in Nat /\ i + 1 \in Pubs /\ down'[i] = down[i + 1]
          /\ \A i \in Pubs' : (i < c <=> i + 1 < d) /\ (c < i <=> d < i + 1)
        BY <2>a, <2>b
    <2> HIDE DEF d
    <2>3. /\ activeEpoch < epoch
          /\ \A i \in Pubs : i < d => down[i].epoch < epoch
          /\ \A j \in Pubs : d < j => activeEpoch < down[j].epoch
          /\ \A i, j \in Pubs : i < d /\ d < j => down[i].epoch < down[j].epoch
        BY <2>1 DEF SyncInv, Divided
    <2>4. activeEpoch' < epoch /\ \A j \in Pubs' : c < j => activeEpoch' < down'[j].epoch
        <3>1. CASE UNCHANGED activeEpoch
            BY <2>2, <2>3, <3>1
        <3>2. CASE IsPub(f) /\ activeEpoch' = f.epoch
            BY <1>4, <2>1, <2>2, <2>3, <3>2 DEF f
        <3> QED BY <1>3, <3>1, <3>2
    <2> QED BY <2>2, <2>3, <2>4
<1> QED BY <1>6, <1>7, <1>8, <1>9

------------------------------------------------------------------------------
(* The socket. *)

\* A frame of the closed socket belongs to the sequence still on screen, or
\* changes nothing.
LEMMA LateKeepsOrder ==
    ASSUME SyncInv, late # <<>>, late' = <<>>, Receive(late[1]), UNCHANGED <<down, epoch, issued, socket>>
    PROVE  /\ Ordered' /\ Stamped' /\ Assembling' /\ Divided' /\ UNCHANGED activeEpoch
           /\ late[1] \in PublicationFrame
           /\ socket = "open" => UNCHANGED browser
<1> DEFINE f == late[1]
<1>1. /\ f \in PublicationFrame /\ f \in Frame /\ f.type = "publication"
      /\ f.epoch \in 1..MaxEpoch /\ f.revision \in 1..MaxRevision
    BY PublicationFields DEF SyncInv, ServerTypeOK, Frame
<1>2. /\ IF socket = "down" THEN f.epoch = activeEpoch ELSE Retired(f.epoch)
      /\ f.epoch < epoch \/ (f.epoch = epoch /\ f.revision <= issued)
    BY DEF SyncInv, Stamped
<1> HIDE DEF f
<1>3. CASE socket = "open"
    <2>1. Inert(f)
        BY <1>2, <1>3 DEF Inert
    <2>2. UNCHANGED browser
        BY <1>1, <2>1 DEF f, Receive, ReceiveInert, ReceiveContradiction, ReceivePart, ReceivePublication,
            ReceiveForeignResult, ReceiveResult, ReceiveNoPuppet, ReceiveUnavailable, ReceiveReloadRequired
    <2>3. UNCHANGED <<view, retired>> /\ UNCHANGED live /\ UNCHANGED <<phase, activeEpoch, revision>>
        BY <2>2 DEF browser, view
    <2>4. Pubs' = Pubs /\ Cuts' = Cuts
        BY DEF Pubs, Cuts
    <2>5. Ordered'
        BY <2>3, <2>4 DEF SyncInv, Ordered
    <2>6. Stamped'
        BY <2>3 DEF SyncInv, Stamped
    <2>7. Assembling'
        BY <2>3, <2>4 DEF SyncInv, Assembling, SameTransfer
    <2>8. Divided'
        BY <2>3, <2>4 DEF SyncInv, Divided
    <2> QED BY <1>1, <1>3, <2>2, <2>3, <2>5, <2>6, <2>7, <2>8 DEF f
<1>4. CASE socket = "down"
    <2>1. /\ UNCHANGED <<connected, retired>>
          /\ \/ UNCHANGED view /\ ~IsCut(f)
             \/ IsPub(f) /\ ReceivePart(f)
             \/ IsPub(f) /\ ReceivePublication(f)
             \/ IsCut(f) /\ ReceiveNoPuppet(f)
        BY <1>1, Receipts DEF f
    <2>2. ~IsCut(f)
        BY <1>1 DEF IsCut
    <2>3. UNCHANGED activeEpoch /\ (UNCHANGED revision \/ revision' = f.revision)
        BY <1>2, <1>4, <2>1, <2>2 DEF view, ReceivePart, ReceivePublication
    <2>4. Pubs' = {} /\ Cuts' = {}
        <3>1. down' = <<>>
            BY <1>4 DEF SyncInv, Idle
        <3>2. DOMAIN down' = {}
            BY <3>1
        <3> QED BY <3>2 DEF Pubs, Cuts
    <2>5. activeEpoch' < epoch' \/ (activeEpoch' = epoch' /\ revision' <= issued')
        BY <1>2, <1>4, <2>3 DEF SyncInv, Stamped
    <2>6. Stamped'
        BY <1>4, <2>1, <2>5 DEF SyncInv, Stamped
    <2>7. Ordered' /\ Divided' /\ Assembling'
        BY <1>4, <2>4 DEF Ordered, Divided, Assembling
    <2> QED BY <1>1, <1>4, <2>3, <2>6, <2>7 DEF f
<1> QED BY <1>3, <1>4 DEF SyncInv, ServerTypeOK

LEMMA DisconnectKeeps == ASSUME SyncInv, Disconnect PROVE SyncInv'
<1>1. /\ socket' = "down" /\ down' = <<>> /\ up' = <<>> /\ session' = "none" /\ puppet' = FALSE
      /\ jobs' = <<>> /\ running' = NoRequest
      /\ UNCHANGED <<browser, epoch, issued, trusted, shown, effect, asks, autos>>
      /\ \/ late' = <<>>
         \/ \E k \in DOMAIN down : down[k].type = "publication" /\ down[k].epoch = activeEpoch /\ late' = <<down[k]>>
    BY DEF Disconnect, streamVars
<1>2. UNCHANGED <<connected, phase, activeEpoch, revision, retired, recovery, target, locked, incompatible, live, flight>>
    BY <1>1 DEF browser, view, repair
<1>3. BrowserTypeOK' /\ Settled'
    BY <1>1, <1>2 DEF SyncInv, BrowserTypeOK, Settled
<1>4. \/ late' = <<>>
      \/ /\ late' = <<late'[1]>> /\ late'[1] \in PublicationFrame /\ late'[1].epoch = activeEpoch
         /\ late'[1].epoch < epoch \/ (late'[1].epoch = epoch /\ late'[1].revision <= issued)
    <2> SUFFICES ASSUME NEW k \in DOMAIN down, down[k].type = "publication", down[k].epoch = activeEpoch, late' = <<down[k]>>
                 PROVE  /\ late' = <<late'[1]>> /\ late'[1] \in PublicationFrame /\ late'[1].epoch = activeEpoch
                        /\ late'[1].epoch < epoch \/ (late'[1].epoch = epoch /\ late'[1].revision <= issued)
        BY <1>1
    <2>1. k \in Pubs
        BY DEF Pubs, IsPub
    <2>2. down[k] \in PublicationFrame
        BY Typed, FrameKinds DEF SyncInv, ServerTypeOK
    <2>3. down[k].epoch < epoch \/ (down[k].epoch = epoch /\ down[k].revision <= issued)
        BY <2>1 DEF SyncInv, Ordered
    <2> QED BY <2>2, <2>3
<1>5. ServerTypeOK'
    <2>1. down' \in Seq(Frame) /\ up' \in Seq(Message) /\ jobs' \in Seq(Job) /\ puppet' \in BOOLEAN
        BY <1>1, EmptySeq
    <2>2. /\ epoch' \in 1..MaxEpoch /\ issued' \in Revisions /\ trusted' \in BOOLEAN
          /\ shown'.epoch \in Epochs /\ shown'.revision \in Revisions
          /\ effect'.epoch \in Epochs /\ effect'.revision \in Nat
          /\ asks' \in Nat /\ autos' \in Nat
        BY <1>1 DEF SyncInv, ServerTypeOK
    <2> QED BY <1>1, <1>4, <2>1, <2>2 DEF ServerTypeOK
<1>6. Idle'
    BY <1>1 DEF SyncInv, Idle
<1>7. Pubs' = {} /\ Cuts' = {}
    <2>1. DOMAIN down' = {}
        BY <1>1
    <2> QED BY <2>1 DEF Pubs, Cuts
<1>8. Ordered' /\ Divided' /\ Assembling'
    BY <1>1, <1>7 DEF Ordered, Divided, Assembling
<1>9. Stamped'
    <2>1. /\ activeEpoch < epoch \/ (activeEpoch = epoch /\ revision <= issued)
          /\ \A k \in DOMAIN retired : retired[k] < epoch
        BY DEF SyncInv, Stamped
    <2> QED BY <1>1, <1>2, <1>4, <2>1 DEF Stamped
<1> QED BY <1>3, <1>5, <1>6, <1>8, <1>9 DEF SyncInv

\* The epoch left behind is remembered, whatever is forgotten for it.
LEMMA Remembers ==
    ASSUME retired \in Seq(1..MaxEpoch), NEW e \in Epochs
    PROVE  /\ Remember(e) \in Seq(1..MaxEpoch)
           /\ e # 0 => \E k \in DOMAIN Remember(e) : Remember(e)[k] = e
           /\ \A k \in DOMAIN Remember(e) : Remember(e)[k] = e \/ \E j \in DOMAIN retired : Remember(e)[k] = retired[j]
           /\ e = 0 => Remember(e) = retired
<1>1. CASE e = 0 \/ Retired(e)
    BY <1>1 DEF Remember, Retired
<1>2. CASE e # 0 /\ ~Retired(e)
    <2> DEFINE order == Append(retired, e)
    <2>1. e \in 1..MaxEpoch
        BY <1>2, SyncAssumption DEF Epochs
    <2>2. /\ order \in Seq(1..MaxEpoch) /\ Len(retired) \in Nat /\ Len(order) = Len(retired) + 1
          /\ DOMAIN order = 1..(Len(retired) + 1) /\ DOMAIN retired = 1..Len(retired)
          /\ order[Len(retired) + 1] = e
          /\ \A i \in 1..Len(retired) : order[i] = retired[i]
        BY <2>1, Appended, AppendProperties
    <2> HIDE DEF order
    <2>3. \A k \in DOMAIN order : order[k] = e \/ \E j \in DOMAIN retired : order[k] = retired[j]
        <3> TAKE k \in DOMAIN order
        <3>1. k \in 1..Len(retired) \/ k = Len(retired) + 1
            BY <2>2
        <3> QED BY <2>2, <3>1
    <2>4. CASE Len(order) > MaxRetired
        <3>1. Remember(e) = Tail(order)
            BY <1>2, <2>4 DEF Remember, order
        <3>2. Len(retired) >= 1
            BY <2>2, <2>4, SyncAssumption
        <3>3. order # <<>>
            BY <2>2
        <3>4. /\ Tail(order) \in Seq(1..MaxEpoch) /\ DOMAIN Tail(order) = 1..(Len(order) - 1)
              /\ DOMAIN order = 1..Len(order)
              /\ \A i \in 1..(Len(order) - 1) : Tail(order)[i] = order[i + 1]
            BY <2>2, <3>3, Tailed
        <3>5. Len(retired) \in DOMAIN Tail(order) /\ Tail(order)[Len(retired)] = e
            BY <2>2, <3>2, <3>4
        <3>6. \A k \in DOMAIN Tail(order) : k + 1 \in DOMAIN order /\ Tail(order)[k] = order[k + 1]
            BY <2>2, <3>4
        <3>7. Remember(e) \in Seq(1..MaxEpoch)
            BY <3>1, <3>4
        <3>8. \E k \in DOMAIN Remember(e) : Remember(e)[k] = e
            BY <3>1, <3>5
        <3>9. \A k \in DOMAIN Remember(e) : Remember(e)[k] = e \/ \E j \in DOMAIN retired : Remember(e)[k] = retired[j]
            <4> TAKE k \in DOMAIN Remember(e)
            <4>1. k + 1 \in DOMAIN order /\ Remember(e)[k] = order[k + 1]
                BY <3>1, <3>6
            <4> QED BY <2>3, <4>1
        <3> QED BY <1>2, <3>7, <3>8, <3>9
    <2>5. CASE ~(Len(order) > MaxRetired)
        <3>1. Remember(e) = order
            BY <1>2, <2>5 DEF Remember, order
        <3>2. Len(retired) + 1 \in DOMAIN order
            BY <2>2
        <3>3. \E k \in DOMAIN order : order[k] = e
            BY <2>2, <3>2
        <3>4. order \in Seq(1..MaxEpoch)
            BY <2>2
        <3>5. Remember(e) \in Seq(1..MaxEpoch)
            BY <3>1, <3>4
        <3>6. \E k \in DOMAIN Remember(e) : Remember(e)[k] = e
            BY <3>1, <3>3
        <3>7. \A k \in DOMAIN Remember(e) : Remember(e)[k] = e \/ \E j \in DOMAIN retired : Remember(e)[k] = retired[j]
            BY <2>3, <3>1
        <3> QED BY <1>2, <3>5, <3>6, <3>7
    <2> QED BY <2>4, <2>5
<1> QED BY <1>1, <1>2

LEMMA ConnectKeeps == ASSUME SyncInv, Connect PROVE SyncInv'
<1>1. /\ socket = "down" /\ socket' = "open" /\ session' = "guest" /\ up' = <<[type |-> "sync"]>>
      /\ autos' = 0
      /\ UNCHANGED <<puppet, jobs, running, effect, down, late, asks>>
      /\ connected' = TRUE /\ retired' = Remember(activeEpoch) /\ phase' = "awaiting" /\ activeEpoch' = 0
      /\ revision' = 0 /\ recovery' = "idle" /\ target' = 0 /\ locked' = TRUE /\ incompatible' = FALSE
      /\ live' = <<>> /\ flight' = NoRequest
    BY DEF Connect, ConnectionOpen
<1>2. \/ /\ issued = 0 /\ epoch = 1 /\ UNCHANGED <<epoch, issued, trusted, shown>>
      \/ /\ epoch < MaxEpoch /\ epoch' = epoch + 1 /\ issued' = 0 /\ trusted' = FALSE /\ UNCHANGED shown
    BY DEF Connect, Stream!Reset, streamVars
<1>3. down = <<>> /\ ~puppet /\ jobs = <<>> /\ running = NoRequest
    BY <1>1 DEF SyncInv, Idle
<1>4. /\ epoch \in 1..MaxEpoch /\ activeEpoch \in Epochs /\ issued \in Revisions /\ revision \in Revisions
      /\ MaxEpoch \in Nat /\ MaxRevision \in Nat /\ retired \in Seq(1..MaxEpoch)
    BY SyncAssumption DEF SyncInv, ServerTypeOK, BrowserTypeOK
<1>5. BrowserTypeOK'
    <2>1. retired' \in Seq(1..MaxEpoch)
        BY <1>1, <1>4, Remembers
    <2>2. connected' \in BOOLEAN /\ locked' \in BOOLEAN /\ incompatible' \in BOOLEAN
        BY <1>1
    <2>3. activeEpoch' \in Epochs /\ revision' \in Revisions /\ target' \in Revisions
        BY <1>1, <1>4 DEF Epochs, Revisions
    <2> QED BY <1>1, <2>1, <2>2, <2>3 DEF BrowserTypeOK
<1>6. Settled'
    BY <1>1 DEF Settled
<1>7. ServerTypeOK'
    <2>1. epoch' \in 1..MaxEpoch /\ issued' \in Revisions
        BY <1>2, <1>4 DEF Revisions
    <2>2. trusted' \in BOOLEAN
        BY <1>2 DEF SyncInv, ServerTypeOK
    <2>3. up' \in Seq(Message)
        <3>1. [type |-> "sync"] \in Message
            BY DEF Message
        <3> QED BY <1>1, <3>1
    <2>4. shown' = shown
        BY <1>2
    <2>5. autos' \in Nat
        BY <1>1
    <2> QED BY <1>1, <2>1, <2>2, <2>3, <2>4, <2>5 DEF SyncInv, ServerTypeOK
<1>8. Idle'
    <2>1. shown.epoch <= epoch /\ shown.epoch \in Nat
        BY DEF SyncInv, Idle, ServerTypeOK, Epochs
    <2>2. CASE UNCHANGED <<epoch, issued, trusted, shown>>
        BY <1>1, <1>3, <2>2 DEF SyncInv, Idle
    <2>3. CASE epoch' = epoch + 1 /\ issued' = 0 /\ trusted' = FALSE /\ UNCHANGED shown
        <3>1. shown'.epoch <= epoch' /\ shown'.epoch # epoch'
            BY <1>4, <2>1, <2>3
        <3> QED BY <1>1, <1>3, <2>3, <3>1 DEF Idle
    <2> QED BY <1>2, <2>2, <2>3
<1>9. Pubs' = {} /\ Cuts' = {}
    <2>1. DOMAIN down' = {}
        BY <1>1, <1>3
    <2> QED BY <2>1 DEF Pubs, Cuts
<1>10. Ordered' /\ Divided' /\ Assembling'
    BY <1>1, <1>9 DEF Ordered, Divided, Assembling
<1>11. Stamped'
    <2>1. activeEpoch' < epoch'
        <3>1. 0 < epoch'
            BY <1>2, <1>4
        <3> QED BY <1>1, <3>1
    <2>2. epoch < epoch' \/ (epoch' = epoch /\ activeEpoch = 0)
        <3>1. epoch' = epoch /\ issued = 0 => activeEpoch = 0
            <4>1. activeEpoch < epoch \/ (activeEpoch = epoch /\ revision <= issued)
                BY DEF SyncInv, Stamped
            <4>2. activeEpoch = 0 <=> revision = 0
                BY DEF SyncInv, Settled
            <4>3. CASE epoch = 1
                BY <1>4, <4>1, <4>2, <4>3 DEF Epochs, Revisions
            <4>4. CASE epoch # 1
                BY <1>2, <1>4, <4>4
            <4> QED BY <4>3, <4>4
        <3> QED BY <1>2, <1>4, <3>1
    <2>3. ASSUME NEW k \in DOMAIN retired' PROVE retired'[k] < epoch'
        <3>1. retired'[k] = activeEpoch \/ \E j \in DOMAIN retired : retired'[k] = retired[j]
            BY <1>1, <1>4, Remembers
        <3>2. \A j \in DOMAIN retired : retired[j] < epoch /\ retired[j] \in 1..MaxEpoch
            BY <1>4, Typed DEF SyncInv, Stamped
        <3>3. CASE activeEpoch = 0
            <4>1. retired' = retired
                BY <1>1, <1>4, <3>3, Remembers
            <4>2. retired[k] < epoch /\ retired[k] \in 1..MaxEpoch
                BY <3>2, <4>1
            <4> QED BY <1>2, <1>4, <4>1, <4>2
        <3>4. CASE activeEpoch # 0
            <4>1. activeEpoch <= epoch /\ activeEpoch \in Nat
                BY <1>4 DEF SyncInv, Stamped, Epochs
            <4>2. retired'[k] \in Nat /\ retired'[k] <= epoch
                BY <1>4, <3>1, <3>2, <4>1
            <4> QED BY <1>4, <2>2, <3>4, <4>2, <1>2
        <3> QED BY <3>3, <3>4
    <2>4. late # <<>> => Retired(late[1].epoch)'
        <3> SUFFICES ASSUME late # <<>> PROVE Retired(late[1].epoch)'
            OBVIOUS
        <3>1. late[1].epoch = activeEpoch
            BY <1>1 DEF SyncInv, Stamped
        <3>2. late[1].epoch # 0
            BY PublicationFields DEF SyncInv, ServerTypeOK
        <3>3. \E k \in DOMAIN retired' : retired'[k] = activeEpoch
            BY <1>1, <1>4, <3>1, <3>2, Remembers
        <3> QED BY <1>1, <3>1, <3>3 DEF Retired
    <2>5. late # <<>> => late[1].epoch < epoch'
        <3> SUFFICES ASSUME late # <<>> PROVE late[1].epoch < epoch'
            OBVIOUS
        <3>1. late[1].epoch = activeEpoch /\ activeEpoch <= epoch /\ activeEpoch \in Nat
            BY <1>1, <1>4 DEF SyncInv, Stamped, Epochs
        <3>2. late[1].epoch # 0
            BY PublicationFields DEF SyncInv, ServerTypeOK
        <3> QED BY <1>2, <1>4, <2>2, <3>1, <3>2
    <2> QED BY <1>1, <2>1, <2>3, <2>4, <2>5 DEF Stamped
<1> QED BY <1>5, <1>6, <1>7, <1>8, <1>10, <1>11 DEF SyncInv

------------------------------------------------------------------------------
(* The server's steps: what it puts on the wire, and what else changes. *)

Emits == \E kind \in Kind, n \in Nat \ {0} : \E k \in 0..n, tail \in Remarks : Emission(kind, n, k, tail)

Serves ==
    /\ Emits /\ socket = "open" /\ UNCHANGED <<browser, socket, late, asks, autos>>
    /\ jobs' \in Seq(Job) /\ up' \in Seq(Message)
    /\ session' \in {"none", "guest", "account"} /\ puppet' \in BOOLEAN
    /\ puppet => puppet'
    /\ puppet \/ UNCHANGED streamVars
    /\ session' # "account" => ~puppet'
    /\ ~puppet' => jobs' = <<>> /\ running' = NoRequest
    /\ running' = NoRequest \/ (running' = <<running'[1]>> /\ running'[1] \in Nat \ {0})
    /\ effect'.epoch \in Epochs /\ effect'.revision \in Nat

LEMMA JobKinds ==
    ASSUME NEW j \in Job
    PROVE  j.kind \in {"stale", "done", "answer"} => j.request \in Nat \ {0}
BY DEF Job

LEMMA Working ==
    ASSUME SyncInv, jobs # <<>>
    PROVE  /\ socket = "open" /\ session = "account" /\ puppet
           /\ Tail(jobs) \in Seq(Job) /\ Head(jobs) \in Job
<1>1. puppet /\ session = "account" /\ socket = "open"
    BY DEF SyncInv, Idle, ServerTypeOK
<1>2. jobs \in Seq(Job)
    BY DEF SyncInv, ServerTypeOK
<1> QED BY <1>1, <1>2, Tailed

\* The remarks the server makes.
LEMMA RemarkTypes ==
    /\ <<>> \in Remarks
    /\ <<ProtocolError("presentation_unavailable")>> \in Remarks
    /\ <<ProtocolError("reload_required")>> \in Remarks
    /\ <<[type |-> "logged_in"]>> \in Remarks
    /\ \A e \in Epochs, id \in Nat \ {0}, code \in {"success", "error", "stale", "no_puppet"}, r \in Revisions :
          <<Result(e, id, code, r)>> \in Remarks
<1>1. \A c \in {"presentation_unavailable", "reload_required"} : ProtocolError(c) \in Remark
    BY DEF ProtocolError, Remark, Frame, ErrorFrame, Codes, IsPub, IsCut
<1>2. [type |-> "logged_in"] \in Remark
    BY DEF Remark, Frame, LoginFrame, IsPub, IsCut
<1>3. ASSUME NEW e \in Epochs, NEW id \in Nat \ {0}, NEW code \in {"success", "error", "stale", "no_puppet"}, NEW r \in Revisions
      PROVE  Result(e, id, code, r) \in Remark
    <2>1. Result(e, id, code, r) \in ResultFrame
        BY DEF Result, ResultFrame
    <2>2. Result(e, id, code, r).type = "result"
        BY DEF Result
    <2> QED BY <2>1, <2>2 DEF Remark, Frame, IsPub, IsCut
<1> QED BY <1>1, <1>2, <1>3 DEF Remarks

LEMMA EmissionEmits ==
    ASSUME NEW kind, NEW n, NEW k, NEW tail, Emission(kind, n, k, tail)
    PROVE  Emits
BY DEF Emits, Emission

\* The four ways of an entry of the publication owner to end.
LEMMA SendingEmits ==
    ASSUME ServerTypeOK, NEW kinds \in SUBSET Kind, NEW tail \in Remarks,
           \/ Publishes(kinds, tail)
           \/ Loses(kinds, tail)
           \/ Fails(tail)
           \/ UNCHANGED streamVars /\ (Send(tail) \/ (tail = <<>> /\ UNCHANGED down))
    PROVE  Emits
<1>1. CASE Publishes(kinds, tail)
    <2>1. PICK kind \in kinds, n \in Nat \ {0} : Emission(kind, n, n, tail)
        BY <1>1, PublishesEmits
    <2> QED BY <2>1, EmissionEmits
<1>2. CASE Loses(kinds, tail)
    <2>1. PICK kind \in kinds, n \in Nat \ {0} : \E k \in 0..n : Emission(kind, n, k, tail) /\ ~trusted'
        BY <1>2, LosesEmits
    <2>2. PICK k \in 0..n : Emission(kind, n, k, tail)
        BY <2>1
    <2> QED BY <2>2, EmissionEmits
<1>3. CASE UNCHANGED streamVars /\ (Send(tail) \/ (tail = <<>> /\ UNCHANGED down))
    BY <1>3, SendEmits, EmissionEmits
<1>4. CASE Fails(tail)
    BY <1>3, <1>4 DEF Fails
<1> QED BY <1>1, <1>2, <1>3, <1>4

LEMMA QuietEmits == ASSUME ServerTypeOK, UNCHANGED <<streamVars, down>> PROVE Emits
BY SendEmits, EmissionEmits, RemarkTypes

LEMMA KindsAreKinds == Kinds \in SUBSET Kind /\ {"snapshot"} \in SUBSET Kind
BY DEF Kinds, Kind

LEMMA PublishingServes == ASSUME SyncInv, Publishing PROVE Serves
<1> DEFINE j == Head(jobs)
<1>1. /\ jobs # <<>> /\ UNCHANGED <<browser, session, puppet, socket, up, late, asks, autos>>
    BY DEF Publishing, RunRefresh, RunSync, RunStale, RunCompletion, RunAnswer
<1>2. /\ socket = "open" /\ session = "account" /\ puppet /\ Tail(jobs) \in Seq(Job) /\ j \in Job
      /\ j.kind \in {"stale", "done", "answer"} => j.request \in Nat \ {0}
      /\ ServerTypeOK
    BY <1>1, Working, JobKinds DEF SyncInv
<1>3. /\ up \in Seq(Message) /\ epoch \in Epochs /\ issued \in Revisions /\ shown.revision \in Revisions
      /\ effect.epoch \in Epochs /\ effect.revision \in Nat /\ MaxRevision \in Nat
      /\ running = NoRequest \/ (running = <<running[1]>> /\ running[1] \in Nat \ {0})
    BY <1>2, SyncAssumption DEF ServerTypeOK, Epochs
<1> HIDE DEF j
<1>a. ASSUME j.request \in Nat \ {0} PROVE Append(Tail(jobs), [kind |-> "answer", request |-> j.request]) \in Seq(Job)
    <2>1. [kind |-> "answer", request |-> j.request] \in Job
        BY <1>a DEF Job
    <2> QED BY <1>2, <2>1, Appended
<1>b. issued < MaxRevision => issued + 1 \in Revisions
    BY <1>3 DEF Revisions
<1>4. ASSUME Emits, jobs' \in Seq(Job), running' \in {running, NoRequest}, effect'.epoch \in Epochs, effect'.revision \in Nat
      PROVE  Serves
    <2>1. puppet' = TRUE \/ puppet' = puppet
        BY <1>1
    <2>2. puppet' \in BOOLEAN /\ puppet'
        BY <1>1, <1>2 DEF ServerTypeOK
    <2>3. running' = NoRequest \/ (running' = <<running'[1]>> /\ running'[1] \in Nat \ {0})
        BY <1>3, <1>4
    <2>4. session' = "account" /\ up' = up
        BY <1>1, <1>2
    <2> QED BY <1>1, <1>2, <1>3, <1>4, <2>2, <2>3, <2>4 DEF Serves
<1>5. CASE RunRefresh
    <2>1. \/ Publishes(Kinds, <<>>) \/ Loses(Kinds, <<>>) \/ Fails(<<>>) \/ UNCHANGED <<streamVars, down>>
        BY <1>5 DEF RunRefresh
    <2>2. Emits
        BY <1>2, <2>1, SendingEmits, QuietEmits, KindsAreKinds, RemarkTypes
    <2>3. jobs' = Tail(jobs) /\ UNCHANGED <<running, effect>>
        BY <1>5 DEF RunRefresh
    <2> QED BY <1>2, <1>3, <1>4, <2>2, <2>3
<1>6. CASE RunSync
    <2>1. \/ Publishes({"snapshot"}, <<>>) \/ Loses({"snapshot"}, <<ProtocolError("reload_required")>>)
          \/ Fails(<<ProtocolError("presentation_unavailable")>>)
        BY <1>6 DEF RunSync
    <2>2. Emits
        BY <1>2, <2>1, SendingEmits, KindsAreKinds, RemarkTypes
    <2>3. jobs' = Tail(jobs) /\ UNCHANGED <<running, effect>>
        BY <1>6 DEF RunSync
    <2> QED BY <1>2, <1>3, <1>4, <2>2, <2>3
<1>7. CASE RunStale
    <2>0. j.kind = "stale" /\ j.request \in Nat \ {0}
        BY <1>2, <1>7 DEF RunStale, j
    <2>1. \/ Publishes({"snapshot"}, <<Result(epoch, j.request, "stale", issued + 1)>>)
          \/ Loses({"snapshot"}, Unavailable) \/ Fails(Unavailable) \/ Publishes({"snapshot"}, Unavailable)
        BY <1>7 DEF RunStale, j
    <2>2. Publishes({"snapshot"}, <<Result(epoch, j.request, "stale", issued + 1)>>)
             => <<Result(epoch, j.request, "stale", issued + 1)>> \in Remarks
        <3> SUFFICES ASSUME Publishes({"snapshot"}, <<Result(epoch, j.request, "stale", issued + 1)>>)
                     PROVE  <<Result(epoch, j.request, "stale", issued + 1)>> \in Remarks
            OBVIOUS
        <3>1. issued < MaxRevision
            BY DEF Publishes, Stream!Publish
        <3> QED BY <1>3, <1>b, <2>0, <3>1, RemarkTypes
    <2>3. Unavailable \in Remarks
        BY RemarkTypes DEF Unavailable
    <2>4. Emits
        BY <1>2, <2>1, <2>2, <2>3, SendingEmits, KindsAreKinds
    <2>5. (jobs' = Tail(jobs) \/ jobs' = Append(Tail(jobs), [kind |-> "answer", request |-> j.request]))
          /\ UNCHANGED <<running, effect>>
        BY <1>7 DEF RunStale, AnswerLater, j
    <2> QED BY <1>2, <1>3, <1>4, <1>a, <2>0, <2>4, <2>5
<1>8. CASE RunCompletion
    <2>0. j.kind = "done" /\ j.request \in Nat \ {0}
        BY <1>2, <1>8 DEF RunCompletion, j
    <2>1. \/ Publishes(Kinds, <<Result(epoch, j.request, "success", issued + 1)>>)
          \/ Publishes(Kinds, <<>>)
          \/ UNCHANGED streamVars /\ Send(<<Result(epoch, j.request, "success", shown.revision)>>)
          \/ UNCHANGED <<streamVars, down>>
          \/ Loses(Kinds, Unavailable) \/ Fails(Unavailable)
        BY <1>8 DEF RunCompletion, j
    <2>2. Publishes(Kinds, <<Result(epoch, j.request, "success", issued + 1)>>)
             => <<Result(epoch, j.request, "success", issued + 1)>> \in Remarks
        <3> SUFFICES ASSUME Publishes(Kinds, <<Result(epoch, j.request, "success", issued + 1)>>)
                     PROVE  <<Result(epoch, j.request, "success", issued + 1)>> \in Remarks
            OBVIOUS
        <3>1. issued < MaxRevision
            BY DEF Publishes, Stream!Publish
        <3> QED BY <1>3, <1>b, <2>0, <3>1, RemarkTypes
    <2>3. /\ Unavailable \in Remarks /\ <<>> \in Remarks
          /\ <<Result(epoch, j.request, "success", shown.revision)>> \in Remarks
        BY <1>3, <2>0, RemarkTypes DEF Unavailable
    <2>4. Emits
        BY <1>2, <2>1, <2>2, <2>3, SendingEmits, QuietEmits, KindsAreKinds
    <2>5. /\ jobs' = Tail(jobs) \/ jobs' = Append(Tail(jobs), [kind |-> "answer", request |-> j.request])
          /\ running' \in {running, NoRequest}
          /\ \/ effect' = [epoch |-> epoch, revision |-> shown'.revision]
             \/ effect' = [epoch |-> epoch, revision |-> issued' + 1]
        BY <1>8 DEF RunCompletion, AnswerLater, j
    <2>6. shown'.revision \in Nat /\ issued' \in Nat
        <3>1. PICK kind \in Kind, n \in Nat \ {0} : \E k \in 0..n, tail \in Remarks : Emission(kind, n, k, tail)
            BY <2>4 DEF Emits
        <3>2. shown'.revision \in Revisions /\ issued' \in Revisions
            BY <1>2, <3>1, EmissionShows
        <3> QED BY <3>2 DEF Revisions
    <2>7. effect'.epoch \in Epochs /\ effect'.revision \in Nat
        BY <1>3, <2>5, <2>6
    <2> QED BY <1>2, <1>4, <1>a, <2>0, <2>4, <2>5, <2>7
<1>9. CASE RunAnswer
    <2>0. j.kind = "answer" /\ j.request \in Nat \ {0}
        BY <1>2, <1>9 DEF RunAnswer, j
    <2>1. UNCHANGED streamVars
          /\ (UNCHANGED down \/ \E r \in HeldRevisions : Send(<<Result(epoch, j.request, "error", r)>>))
        BY <1>9 DEF RunAnswer, j
    <2>2. HeldRevisions \subseteq Revisions
        BY <1>3, SyncAssumption DEF HeldRevisions, Revisions
    <2>3. Emits
        <3>1. CASE UNCHANGED down
            BY <1>2, <2>1, <3>1, QuietEmits
        <3>2. ASSUME NEW r \in HeldRevisions, Send(<<Result(epoch, j.request, "error", r)>>) PROVE Emits
            <4>1. <<Result(epoch, j.request, "error", r)>> \in Remarks
                BY <1>3, <2>0, <2>2, RemarkTypes
            <4> QED BY <1>2, <2>1, <3>2, <4>1, SendingEmits, KindsAreKinds
        <3> QED BY <2>1, <3>1, <3>2
    <2>4. jobs' = Tail(jobs) /\ running' \in {running, NoRequest} /\ UNCHANGED effect
        BY <1>9 DEF RunAnswer
    <2> QED BY <1>2, <1>3, <1>4, <2>3, <2>4
<1> QED BY <1>5, <1>6, <1>7, <1>8, <1>9 DEF Publishing

LEMMA TakingServes == ASSUME SyncInv, Taking PROVE Serves
<1>1. UNCHANGED <<browser, session, puppet, socket, late, asks, autos, effect, streamVars>>
    BY DEF Taking, TakeSync, TakeActionUnpuppeted, TakeActionStale, TakeAction, Settle, server, counters
<1>2. /\ ServerTypeOK /\ up \in Seq(Message) /\ jobs \in Seq(Job) /\ puppet \in BOOLEAN
      /\ effect.epoch \in Epochs /\ effect.revision \in Nat
      /\ running = NoRequest \/ (running = <<running[1]>> /\ running[1] \in Nat \ {0})
      /\ session \in {"none", "guest", "account"} /\ socket \in {"open", "down"}
    BY DEF SyncInv, ServerTypeOK
<1>3. /\ session # "account" => ~puppet
      /\ ~puppet => jobs = <<>> /\ running = NoRequest
      /\ socket = "down" => up = <<>> /\ session = "none"
    BY DEF SyncInv, Idle
<1>4. ASSUME Emits, up # <<>> \/ puppet, jobs' \in Seq(Job), up' \in Seq(Message),
             running' = NoRequest \/ (running' = <<running'[1]>> /\ running'[1] \in Nat \ {0}),
             ~puppet => jobs' = jobs /\ running' = running
      PROVE  Serves
    <2>1. socket = "open"
        BY <1>2, <1>3, <1>4
    <2>2. puppet' \in BOOLEAN /\ puppet' = puppet /\ session' \in {"none", "guest", "account"} /\ session' = session
        BY <1>1, <1>2
    <2>3. effect' = effect
        BY <1>1
    <2> QED BY <1>1, <1>2, <1>3, <1>4, <2>1, <2>2, <2>3 DEF Serves
<1>5. up # <<>> => Tail(up) \in Seq(Message) /\ Head(up) \in Message
    BY <1>2, Tailed
<1>6. Head(up) \in Message /\ Head(up).type = "action" =>
          Head(up).request \in Nat \ {0} /\ Head(up).epoch \in Epochs /\ Head(up).base \in Revisions
    BY DEF Message, ActionMessage, Epochs
<1>a. \A j \in Job : Append(jobs, j) \in Seq(Job)
    BY <1>2, Appended
<1>7. CASE TakeSync
    <2>1. [kind |-> "sync", request |-> 0] \in Job
        BY DEF Job
    <2>2. /\ up # <<>> /\ up' = Tail(up) /\ UNCHANGED <<running, down>>
          /\ jobs' = IF puppet THEN Append(jobs, [kind |-> "sync", request |-> 0]) ELSE jobs
        BY <1>7 DEF TakeSync
    <2>3. Emits
        BY <1>1, <1>2, <2>2, QuietEmits
    <2> QED BY <1>2, <1>4, <1>5, <1>a, <2>1, <2>2, <2>3
<1>8. CASE TakeActionUnpuppeted
    <2>1. /\ up # <<>> /\ Head(up).type = "action" /\ up' = Tail(up) /\ UNCHANGED <<running, jobs>>
          /\ Send(<<Result(Head(up).epoch, Head(up).request, "no_puppet", Head(up).base)>>)
        BY <1>8 DEF TakeActionUnpuppeted, server
    <2>2. <<Result(Head(up).epoch, Head(up).request, "no_puppet", Head(up).base)>> \in Remarks
        BY <1>5, <1>6, <2>1, RemarkTypes
    <2>3. Emits
        BY <1>1, <1>2, <2>1, <2>2, SendingEmits, KindsAreKinds
    <2> QED BY <1>2, <1>4, <1>5, <2>1, <2>3
<1>9. CASE TakeActionStale
    <2>1. /\ up # <<>> /\ Head(up).type = "action" /\ up' = Tail(up) /\ UNCHANGED <<running, down>> /\ puppet
          /\ jobs' = Append(jobs, [kind |-> "stale", request |-> Head(up).request])
        BY <1>9 DEF TakeActionStale
    <2>2. [kind |-> "stale", request |-> Head(up).request] \in Job
        BY <1>5, <1>6, <2>1 DEF Job
    <2>3. Emits
        BY <1>1, <1>2, <2>1, QuietEmits
    <2> QED BY <1>2, <1>4, <1>5, <1>a, <2>1, <2>2, <2>3
<1>10. CASE TakeAction
    <2>1. /\ up # <<>> /\ Head(up).type = "action" /\ up' = Tail(up) /\ UNCHANGED <<jobs, down>> /\ puppet
          /\ running' = <<Head(up).request>>
        BY <1>10 DEF TakeAction
    <2>2. running' = <<running'[1]>> /\ running'[1] \in Nat \ {0}
        BY <1>5, <1>6, <2>1
    <2>3. Emits
        BY <1>1, <1>2, <2>1, QuietEmits
    <2> QED BY <1>2, <1>4, <1>5, <2>1, <2>2, <2>3
<1>11. CASE Settle
    <2>1. /\ running # NoRequest /\ UNCHANGED <<running, down, up>>
          /\ jobs' = Append(jobs, [kind |-> "done", request |-> running[1]])
        BY <1>11 DEF Settle
    <2>2. [kind |-> "done", request |-> running[1]] \in Job
        BY <1>2, <2>1 DEF Job
    <2>3. Emits
        BY <1>1, <1>2, <2>1, QuietEmits
    <2>4. puppet
        BY <1>3, <2>1
    <2> QED BY <1>2, <1>4, <1>a, <2>1, <2>2, <2>3, <2>4
<1> QED BY <1>7, <1>8, <1>9, <1>10, <1>11 DEF Taking

LEMMA OthersServe == ASSUME SyncInv, Push \/ PuppetByText \/ Login PROVE Serves
<1>2. /\ ServerTypeOK /\ up \in Seq(Message) /\ jobs \in Seq(Job) /\ puppet \in BOOLEAN
      /\ effect.epoch \in Epochs /\ effect.revision \in Nat
      /\ running = NoRequest \/ (running = <<running[1]>> /\ running[1] \in Nat \ {0})
      /\ session \in {"none", "guest", "account"} /\ socket \in {"open", "down"}
    BY DEF SyncInv, ServerTypeOK
<1>3. /\ session # "account" => ~puppet
      /\ ~puppet => jobs = <<>> /\ running = NoRequest
      /\ socket = "down" => up = <<>> /\ session = "none"
    BY DEF SyncInv, Idle
<1>4. CASE Push
    <2>1. /\ puppet /\ UNCHANGED <<browser, server, socket, up, late, asks, autos>>
          /\ Publishes(Kinds, <<>>) \/ Loses(Kinds, <<>>)
        BY <1>4 DEF Push
    <2>2. Emits
        BY <1>2, <2>1, SendingEmits, KindsAreKinds, RemarkTypes
    <2>3. UNCHANGED <<session, puppet, jobs, running, effect>>
        BY <2>1 DEF server
    <2>4. puppet' \in BOOLEAN /\ effect' = effect
        BY <1>2, <2>3
    <2>5. socket = "open" /\ session = "account"
        BY <1>2, <1>3, <2>1
    <2> QED BY <1>2, <1>3, <2>1, <2>2, <2>3, <2>4, <2>5 DEF Serves
<1>5. CASE PuppetByText
    <2>1. /\ session = "account" /\ puppet' = TRUE
          /\ jobs' = Append(jobs, [kind |-> "refresh", request |-> 0])
          /\ UNCHANGED <<browser, streamVars, session, running, effect, socket, down, up, late, asks, autos>>
        BY <1>5 DEF PuppetByText, counters
    <2>2. [kind |-> "refresh", request |-> 0] \in Job
        BY DEF Job
    <2>3. jobs' \in Seq(Job)
        BY <1>2, <2>1, <2>2, Appended
    <2>4. Emits
        BY <1>2, <2>1, QuietEmits
    <2>5. puppet' \in BOOLEAN /\ puppet' /\ effect' = effect
        BY <2>1
    <2>6. socket = "open"
        BY <1>2, <1>3, <2>1
    <2> QED BY <1>2, <1>3, <2>1, <2>3, <2>4, <2>5, <2>6 DEF Serves
<1>6. CASE Login
    <2>1. /\ socket = "open" /\ session = "guest" /\ session' = "account" /\ puppet' \in BOOLEAN
          /\ Send(<<[type |-> "logged_in"]>>)
          /\ UNCHANGED <<browser, streamVars, jobs, running, effect, socket, up, late, asks, autos>>
        BY <1>6 DEF Login, counters
    <2>2. Emits
        BY <1>2, <2>1, SendingEmits, KindsAreKinds, RemarkTypes
    <2>3. ~puppet /\ jobs = <<>> /\ running = NoRequest /\ effect' = effect
        BY <1>3, <2>1
    <2> QED BY <1>2, <2>1, <2>2, <2>3 DEF Serves
<1> QED BY <1>4, <1>5, <1>6

LEMMA ServesKeeps == ASSUME SyncInv, Serves PROVE SyncInv'
<1>1. PICK kind \in Kind, n \in Nat \ {0} : \E k \in 0..n, tail \in Remarks : Emission(kind, n, k, tail)
    BY DEF Serves, Emits
<1>2. PICK k \in 0..n, tail \in Remarks : Emission(kind, n, k, tail)
    BY <1>1
<1>3. UNCHANGED <<connected, phase, activeEpoch, revision, retired, recovery, target, locked, incompatible, live, flight>>
      /\ UNCHANGED <<browser, socket, late, asks, autos>> /\ socket = "open"
    BY DEF Serves, browser, view, repair
<1>4. BrowserTypeOK' /\ Settled'
    BY <1>3 DEF SyncInv, BrowserTypeOK, Settled
<1>5. Ordered' /\ Stamped' /\ Assembling' /\ Divided'
    BY <1>2, <1>3, EmissionKeepsOrder
<1>6. /\ epoch' \in 1..MaxEpoch /\ epoch' = epoch /\ issued' \in Revisions /\ trusted' \in BOOLEAN
      /\ shown'.epoch \in Epochs /\ shown'.revision \in Revisions
      /\ issued <= issued' /\ down' \in Seq(Frame)
    BY <1>2, EmissionShows DEF SyncInv
<1>7. ServerTypeOK'
    <2>1. late' = <<>> \/ (late' = <<late'[1]>> /\ late'[1] \in PublicationFrame)
        BY <1>3 DEF SyncInv, ServerTypeOK
    <2>2. asks' \in Nat /\ autos' \in Nat /\ socket' \in {"open", "down"}
        BY <1>3 DEF SyncInv, ServerTypeOK
    <2>3. session' \in {"none", "guest", "account"} /\ puppet' \in BOOLEAN
        BY DEF Serves
    <2> QED BY <1>6, <2>1, <2>2, <2>3 DEF Serves, ServerTypeOK
<1>8. Idle'
    <2>1. /\ shown.epoch <= epoch /\ (trusted => shown.epoch = epoch) /\ (shown.epoch = epoch => shown.revision <= issued)
          /\ shown.revision \in Nat /\ issued \in Nat /\ epoch \in Nat
        BY SyncAssumption DEF SyncInv, Idle, ServerTypeOK, Revisions
    <2>2. CASE UNCHANGED <<issued, trusted, shown>>
        BY <1>3, <1>6, <2>1, <2>2 DEF Serves, Idle
    <2>3. CASE /\ issued' = issued + 1 /\ (trusted' => k = n)
               /\ shown' = IF k = n THEN [epoch |-> epoch, revision |-> issued + 1, content |-> <<epoch, issued + 1>>] ELSE shown
        <3>1. CASE k = n
            <4>1. shown'.epoch = epoch /\ shown'.revision = issued + 1
                BY <2>3, <3>1
            <4> QED BY <1>3, <1>6, <2>1, <2>3, <4>1 DEF Serves, Idle
        <3>2. CASE k # n
            <4>1. shown' = shown /\ ~trusted' /\ issued <= issued + 1 /\ (shown.epoch = epoch => shown.revision <= issued')
                BY <2>1, <2>3, <3>2
            <4> QED BY <1>3, <1>6, <2>1, <2>3, <4>1 DEF Serves, Idle
        <3> QED BY <3>1, <3>2
    <2> QED BY <1>2, <2>2, <2>3 DEF Emission
<1> QED BY <1>4, <1>5, <1>7, <1>8 DEF SyncInv

LEMMA ResettingKeeps == ASSUME SyncInv, Unpuppet \/ SwitchPuppet \/ SwitchByText PROVE SyncInv'
<1>1. /\ Stream!Reset /\ puppet /\ UNCHANGED <<browser, session, effect, socket, up, late, asks, autos>>
      /\ down' = down \/ down' = Append(down, ProtocolError("no_puppet"))
      /\ \/ puppet' = FALSE /\ jobs' = <<>>
         \/ /\ puppet' = puppet
            /\ jobs' = <<[kind |-> "sync", request |-> 0]>> \/ jobs' = <<[kind |-> "refresh", request |-> 0]>>
      /\ running' = NoRequest
    <2>1. Send(<<ProtocolError("no_puppet")>>) => down' = Append(down, ProtocolError("no_puppet"))
        <3>1. down \in Seq(Frame)
            BY DEF SyncInv, ServerTypeOK
        <3>2. ProtocolError("no_puppet") \in Frame
            BY DEF ProtocolError, Frame, ErrorFrame, Codes
        <3>3. Append(down, ProtocolError("no_puppet")) = down \o <<ProtocolError("no_puppet")>>
            BY <3>1, <3>2, AppendIsConcat
        <3> QED BY <3>3 DEF Send
    <2> QED BY <2>1 DEF Unpuppet, SwitchPuppet, SwitchByText, counters
<1>2. /\ ServerTypeOK /\ session = "account" /\ socket = "open" /\ epoch \in Nat /\ shown.epoch \in Nat
      /\ shown.epoch <= epoch
    BY <1>1, SyncAssumption DEF SyncInv, Idle, ServerTypeOK, Epochs
<1>3. epoch < MaxEpoch /\ epoch' = epoch + 1 /\ issued' = 0 /\ trusted' = FALSE /\ UNCHANGED shown
    BY <1>1 DEF Stream!Reset
<1>4. UNCHANGED <<connected, phase, activeEpoch, revision, retired, recovery, target, locked, incompatible, live, flight>>
    BY <1>1 DEF browser, view, repair
<1>5. BrowserTypeOK' /\ Settled'
    BY <1>1, <1>4 DEF SyncInv, BrowserTypeOK, Settled
<1>6. ServerTypeOK'
    <2>1. epoch' \in 1..MaxEpoch /\ issued' \in Revisions
        BY <1>2, <1>3, SyncAssumption DEF Revisions
    <2>2. trusted' \in BOOLEAN /\ shown' = shown /\ effect' = effect
        BY <1>1, <1>3
    <2>3. down' \in Seq(Frame)
        BY <1>1, <1>2, CutShows
    <2>4. jobs' \in Seq(Job)
        <3>1. [kind |-> "sync", request |-> 0] \in Job /\ [kind |-> "refresh", request |-> 0] \in Job
            BY DEF Job
        <3>2. jobs' = <<>> \/ \E j \in Job : jobs' = <<j>>
            BY <1>1, <3>1
        <3>3. \A j \in Job : <<j>> \in Seq(Job)
            OBVIOUS
        <3> QED BY <3>2, <3>3, EmptySeq
    <2>5. puppet' \in BOOLEAN
        BY <1>1 DEF SyncInv, ServerTypeOK
    <2> QED BY <1>1, <2>1, <2>2, <2>3, <2>4, <2>5 DEF SyncInv, ServerTypeOK
<1>7. Idle'
    <2>1. shown'.epoch <= epoch' /\ shown'.epoch # epoch'
        BY <1>2, <1>3
    <2> QED BY <1>1, <1>2, <1>3, <2>1 DEF Idle
<1>8. Ordered' /\ Stamped' /\ Assembling' /\ Divided'
    BY <1>1, ResetKeepsOrder
<1> QED BY <1>5, <1>6, <1>7, <1>8 DEF SyncInv

\* The browser's own steps leave the server and the wire alone, but for what
\* the player asks.
LEMMA AskKeeps ==
    ASSUME SyncInv, BrowserTypeOK', Settled', UNCHANGED <<view, retired>>, live' = live \/ live' = <<>>,
           UNCHANGED <<streamVars, server, socket, down, late>>, autos' \in Nat, asks' \in Nat,
           up' = up \/ (socket = "open" /\ \E m \in Message : up' = Append(up, m))
    PROVE  SyncInv'
<1>1. UNCHANGED <<epoch, issued, trusted, shown, session, puppet, jobs, running, effect>>
    BY DEF streamVars, server
<1>2. up' \in Seq(Message)
    <2>1. up \in Seq(Message)
        BY DEF SyncInv, ServerTypeOK
    <2>2. \A m \in Message : Append(up, m) \in Seq(Message)
        BY <2>1, Appended
    <2> QED BY <2>1, <2>2
<1>3. ServerTypeOK'
    BY <1>1, <1>2 DEF SyncInv, ServerTypeOK
<1>4. Idle'
    BY <1>1 DEF SyncInv, Idle
<1>5. Ordered' /\ Stamped' /\ Assembling' /\ Divided'
    BY <1>1, QuietKeepsOrder
<1> QED BY <1>3, <1>4, <1>5 DEF SyncInv

LEMMA GatesKeep ==
    ASSUME SyncInv, AutomaticSync \/ DeferredSync \/ Expire \/ PlayerSyncs \/ PlayerActs
    PROVE  SyncInv'
<1>1. BrowserTypeOK /\ Settled /\ autos \in Nat /\ asks \in Nat
    BY DEF SyncInv, ServerTypeOK
<1>2. [type |-> "sync"] \in Message
    BY DEF Message
<1>3. CASE AutomaticSync
    <2>1. /\ Gates /\ UNCHANGED <<streamVars, server, socket, down, late, asks>> /\ autos' = autos + 1
          /\ up' = up \/ (socket = "open" /\ up' = Append(up, [type |-> "sync"]))
        BY <1>3 DEF AutomaticSync, Gates, Ask
    <2> QED BY <1>1, <1>2, <2>1, GatesKeepType, AskKeeps
<1>4. CASE PlayerSyncs
    <2>1. /\ Gates /\ UNCHANGED <<streamVars, server, socket, down, late>> /\ asks' = asks + 1
          /\ up' = up \/ (socket = "open" /\ up' = Append(up, [type |-> "sync"]))
          /\ autos' = 0 \/ autos' = autos
        BY <1>4 DEF PlayerSyncs, Gates, Ask, CountEpisode
    <2> QED BY <1>1, <1>2, <2>1, GatesKeepType, AskKeeps
<1>5. CASE DeferredSync
    <2>1. /\ LifecycleSync \/ UNCHANGED browser
          /\ UNCHANGED <<streamVars, server, socket, down, late, asks, autos>>
          /\ up' = up \/ (socket = "open" /\ up' = Append(up, [type |-> "sync"]))
        BY <1>5 DEF DeferredSync, Ask, counters
    <2>2. UNCHANGED browser
        BY <2>1 DEF LifecycleSync
    <2>3. UNCHANGED <<connected, view, retired, recovery, target, locked, incompatible, live, flight, phase, activeEpoch, revision>>
        BY <2>2 DEF browser, view, repair
    <2>4. BrowserTypeOK' /\ Settled'
        BY <1>1, <2>1, <2>3 DEF BrowserTypeOK, Settled
    <2> QED BY <1>1, <1>2, <2>1, <2>3, <2>4, AskKeeps
<1>6. CASE Expire
    <2>1. /\ Gates /\ UNCHANGED <<streamVars, server, socket, down, up, late, asks>>
          /\ autos' = 0 \/ autos' = autos
        BY <1>6 DEF Expire, Gates, CountEpisode
    <2> QED BY <1>1, <2>1, GatesKeepType, AskKeeps
<1>7. CASE PlayerActs
    <2> DEFINE m == [type |-> "action", request |-> asks', epoch |-> activeEpoch, base |-> revision]
    <2>1. /\ Dispatch(asks') /\ asks' = asks + 1 /\ UNCHANGED <<streamVars, server, socket, down, late, autos>>
          /\ up' = up \/ (socket = "open" /\ up' = Append(up, m))
        BY <1>7 DEF PlayerActs, Ask
    <2>2. asks' \in Nat \ {0}
        BY <1>1, <2>1
    <2>3. Gates
        BY <2>1, <2>2 DEF Gates
    <2>4. m \in Message
        <3>1. activeEpoch \in 1..MaxEpoch
            BY <1>1, <2>1, SyncAssumption DEF Dispatch, Settled, BrowserTypeOK, Epochs
        <3> QED BY <1>1, <2>2, <3>1 DEF Message, ActionMessage, BrowserTypeOK
    <2> HIDE DEF m
    <2> QED BY <1>1, <2>1, <2>2, <2>3, <2>4, GatesKeepType, AskKeeps
<1> QED BY <1>3, <1>4, <1>5, <1>6, <1>7

LEMMA TakesKeep == ASSUME SyncInv, BrowserTakes PROVE SyncInv'
<1>1. /\ down # <<>> /\ down' = Tail(down) /\ UNCHANGED <<streamVars, server, socket, up, late, asks>>
      /\ autos' = 0 \/ autos' = autos
      /\ \/ Receive(Head(down)) \/ ReceiveInvalid(Head(down))
         \/ (Head(down).type = "logged_in" /\ UNCHANGED browser)
    BY DEF BrowserTakes, CountEpisode
<1>2. /\ down' \in Seq(Frame) /\ Head(down) = down[1] /\ down[1] \in Frame
      /\ BrowserTypeOK /\ Settled /\ ServerTypeOK
    BY <1>1, TakenShows DEF SyncInv
<1>3. UNCHANGED <<epoch, issued, trusted, shown, session, puppet, jobs, running, effect, socket, up, late, asks>>
    BY <1>1 DEF streamVars, server
<1>4. BrowserTypeOK' /\ Settled'
    <2>1. CASE Receive(down[1]) \/ ReceiveInvalid(down[1])
        BY <1>2, <1>3, <2>1, ReceiptKeepsType
    <2>2. CASE UNCHANGED browser
        <3>1. UNCHANGED <<connected, phase, activeEpoch, revision, retired, recovery, target, locked, incompatible, live, flight>>
            BY <2>2 DEF browser, view, repair
        <3> QED BY <1>2, <1>3, <3>1 DEF BrowserTypeOK, Settled
    <2> QED BY <1>1, <1>2, <2>1, <2>2
<1>5. ServerTypeOK'
    <2>1. autos' \in Nat
        BY <1>1, <1>2 DEF ServerTypeOK
    <2> QED BY <1>2, <1>3, <2>1 DEF ServerTypeOK
<1>6. Idle'
    <2>1. socket = "open"
        BY <1>1, <1>2 DEF SyncInv, Idle, ServerTypeOK
    <2> QED BY <1>3, <2>1 DEF SyncInv, Idle
<1>7. Ordered' /\ Stamped' /\ Assembling' /\ Divided'
    BY <1>1, <1>2, <1>3, TakeKeepsOrder
<1> QED BY <1>4, <1>5, <1>6, <1>7 DEF SyncInv

LEMMA TakesLateKeeps == ASSUME SyncInv, BrowserTakesLate PROVE SyncInv'
<1>1. /\ late # <<>> /\ late' = <<>> /\ Receive(late[1]) /\ UNCHANGED <<streamVars, server, socket, down, up, asks>>
      /\ autos' = 0 \/ autos' = autos
    BY DEF BrowserTakesLate, CountEpisode
<1>2. UNCHANGED <<epoch, issued, trusted, shown, session, puppet, jobs, running, effect, socket, down, up, asks>>
    BY <1>1 DEF streamVars, server
<1>3. Ordered' /\ Stamped' /\ Assembling' /\ Divided' /\ late[1] \in PublicationFrame
    BY <1>1, <1>2, LateKeepsOrder
<1>4. BrowserTypeOK' /\ Settled'
    BY <1>1, <1>2, <1>3, ReceiptKeepsType DEF SyncInv, Frame
<1>5. ServerTypeOK'
    <2>1. autos' \in Nat
        BY <1>1 DEF SyncInv, ServerTypeOK
    <2> QED BY <1>1, <1>2, <2>1 DEF SyncInv, ServerTypeOK
<1>6. Idle'
    BY <1>2 DEF SyncInv, Idle
<1> QED BY <1>3, <1>4, <1>5, <1>6 DEF SyncInv

LEMMA ClosesKeeps == ASSUME SyncInv, BrowserCloses PROVE SyncInv'
<1>1. /\ socket = "down" /\ connected' = FALSE /\ live' = <<>> /\ locked' = TRUE /\ flight' = NoRequest
      /\ UNCHANGED <<view, retired, repair, incompatible>>
      /\ UNCHANGED <<streamVars, server, socket, down, up, late, asks, autos>>
    BY DEF BrowserCloses, ConnectionClose, counters
<1>2. connected' \in BOOLEAN /\ locked' \in BOOLEAN
    BY <1>1
<1>3. BrowserTypeOK' /\ Settled'
    BY <1>1, <1>2 DEF SyncInv, BrowserTypeOK, Settled, view, repair
<1>4. autos' \in Nat /\ asks' \in Nat
    BY <1>1 DEF SyncInv, ServerTypeOK
<1> QED BY <1>1, <1>3, <1>4, AskKeeps

LEMMA StutterKeeps == ASSUME SyncInv, UNCHANGED vars PROVE SyncInv'
<1>1. UNCHANGED <<connected, phase, activeEpoch, revision, content, retired, recovery, target, locked, incompatible, live, flight>>
      /\ UNCHANGED <<epoch, issued, trusted, shown, session, puppet, jobs, running, effect, socket, down, up, late, asks, autos>>
    BY DEF vars, browser, view, repair, streamVars, server, counters
<1>2. BrowserTypeOK' /\ Settled'
    BY <1>1 DEF SyncInv, BrowserTypeOK, Settled
<1>3. UNCHANGED <<view, retired, streamVars, server>> /\ autos' \in Nat /\ asks' \in Nat
    BY <1>1 DEF view, streamVars, server, SyncInv, ServerTypeOK
<1> QED BY <1>1, <1>2, <1>3, AskKeeps

LEMMA SyncInitially == Init => SyncInv
<1> SUFFICES ASSUME Init PROVE SyncInv
    OBVIOUS
<1>1. /\ connected = FALSE /\ phase = "idle" /\ activeEpoch = 0 /\ revision = 0 /\ retired = <<>>
      /\ recovery = "idle" /\ target = 0 /\ locked = TRUE /\ incompatible = FALSE /\ live = <<>> /\ flight = NoRequest
    BY DEF Init, BrowserInit
<1>2. /\ epoch = 1 /\ issued = 0 /\ trusted = FALSE
      /\ shown = [epoch |-> 0, revision |-> 0, content |-> Nothing]
      /\ session = "none" /\ puppet = FALSE /\ jobs = <<>> /\ running = NoRequest
      /\ effect = [epoch |-> 0, revision |-> 0]
      /\ socket = "down" /\ down = <<>> /\ up = <<>> /\ late = <<>> /\ asks = 0 /\ autos = 0
    BY DEF Init
<1>3. 0 \in Epochs /\ 0 \in Revisions /\ 1 \in 1..MaxEpoch
    BY SyncAssumption DEF Epochs, Revisions
<1>4. BrowserTypeOK
    <2>1. connected \in BOOLEAN /\ locked \in BOOLEAN /\ incompatible \in BOOLEAN
        BY <1>1
    <2>2. retired \in Seq(1..MaxEpoch)
        BY <1>1, EmptySeq
    <2> QED BY <1>1, <1>3, <2>1, <2>2 DEF BrowserTypeOK
<1>5. ServerTypeOK
    <2>1. trusted \in BOOLEAN /\ puppet \in BOOLEAN
        BY <1>2
    <2>2. jobs \in Seq(Job) /\ down \in Seq(Frame) /\ up \in Seq(Message)
        BY <1>2, EmptySeq
    <2>3. shown.epoch \in Epochs /\ shown.revision \in Revisions /\ effect.epoch \in Epochs /\ effect.revision \in Nat
        BY <1>2, <1>3
    <2> QED BY <1>2, <1>3, <2>1, <2>2, <2>3 DEF ServerTypeOK
<1>6. Pubs = {} /\ Cuts = {} /\ DOMAIN retired = {}
    <2>1. DOMAIN down = {} /\ DOMAIN retired = {}
        BY <1>1, <1>2
    <2> QED BY <2>1 DEF Pubs, Cuts
<1>7. Settled /\ Idle
    BY <1>1, <1>2 DEF Settled, Idle
<1>8. Ordered /\ Stamped /\ Assembling /\ Divided
    BY <1>1, <1>2, <1>6 DEF Ordered, Stamped, Assembling, Divided
<1> QED BY <1>4, <1>5, <1>7, <1>8 DEF SyncInv

LEMMA SyncSteps == SyncInv /\ [Next]_vars => SyncInv'
<1> SUFFICES ASSUME SyncInv, [Next]_vars PROVE SyncInv'
    OBVIOUS
<1>1. CASE Push \/ Publishing \/ Taking \/ PuppetByText \/ Login
    BY <1>1, PublishingServes, TakingServes, OthersServe, ServesKeeps
<1>2. CASE Unpuppet \/ SwitchPuppet \/ SwitchByText
    BY <1>2, ResettingKeeps
<1>3. CASE AutomaticSync \/ DeferredSync \/ Expire \/ Playing
    BY <1>3, GatesKeep DEF Playing
<1>4. CASE BrowserTakes \/ BrowserTakesLate
    BY <1>4, TakesKeep, TakesLateKeeps
<1>5. CASE Sockets
    BY <1>5, DisconnectKeeps, ClosesKeeps, ConnectKeeps DEF Sockets
<1>6. CASE UNCHANGED vars
    BY <1>6, StutterKeeps
<1> QED BY <1>1, <1>2, <1>3, <1>4, <1>5, <1>6 DEF Next, Characters, Browsing

\* The socket, the pipe and the screen stay in step, whatever is lost.
THEOREM SyncInvariant == Spec => []SyncInv
BY SyncInitially, SyncSteps, PTL DEF Spec
------------------------------------------------------------------------------
(* Sequences. *)

LEMMA OtherSequence ==
    ASSUME SyncInv, [Next]_vars, activeEpoch' \notin {0, activeEpoch}
    PROVE  /\ down # <<>> /\ IsPub(down[1]) /\ activeEpoch' = down[1].epoch
           /\ UNCHANGED retired /\ 1 \in Pubs
<1>1. ASSUME UNCHANGED view PROVE FALSE
    BY <1>1 DEF view
<1>2. CASE Push \/ Publishing \/ Taking \/ PuppetByText \/ Login
    <2>1. UNCHANGED view
        BY <1>2, PublishingServes, TakingServes, OthersServe DEF Serves, browser
    <2> QED BY <1>1, <2>1
<1>3. CASE Unpuppet \/ SwitchPuppet \/ SwitchByText \/ Disconnect \/ UNCHANGED vars
    <2>1. UNCHANGED view
        BY <1>3 DEF Unpuppet, SwitchPuppet, SwitchByText, Disconnect, vars, browser
    <2> QED BY <1>1, <2>1
<1>4. CASE AutomaticSync \/ DeferredSync \/ Expire \/ Playing
    <2>1. UNCHANGED view
        BY <1>4 DEF AutomaticSync, DeferredSync, Expire, Playing, PlayerSyncs, PlayerActs, AutoResync, LifecycleSync,
                    AssemblyDeadline, RecoveryDeadline, ManualSync, Dispatch, browser
    <2> QED BY <1>1, <2>1
<1>5. CASE BrowserCloses \/ Connect
    BY <1>1, <1>5 DEF BrowserCloses, Connect, ConnectionClose, ConnectionOpen
<1>6. CASE BrowserTakesLate
    BY <1>6, LateKeepsOrder DEF BrowserTakesLate, streamVars
<1>7. CASE BrowserTakes
    <2>1. /\ down # <<>> /\ down' = Tail(down)
          /\ Receive(Head(down)) \/ ReceiveInvalid(Head(down)) \/ UNCHANGED browser
        BY <1>7 DEF BrowserTakes
    <2>2. Head(down) = down[1] /\ down[1] \in Frame /\ 1 \in DOMAIN down
        BY <2>1, TakenShows DEF SyncInv
    <2>3. Receive(down[1]) \/ ReceiveInvalid(down[1])
        BY <1>1, <2>1, <2>2 DEF browser
    <2>4. UNCHANGED retired /\ IsPub(down[1]) /\ ReceivePublication(down[1])
        BY <1>1, <2>2, <2>3, Receipts DEF ReceivePart, ReceiveNoPuppet, view
    <2> QED BY <2>1, <2>2, <2>4 DEF ReceivePublication, Pubs
<1> QED BY <1>2, <1>3, <1>4, <1>5, <1>6, <1>7 DEF Next, Characters, Browsing, Sockets

\* Whatever is delivered late, the screen never goes back to an older sequence
\* or to one it has retired.
THEOREM SequencesOnlyAdvance == Spec => SequencesMoveForward
<1>1. SyncInv /\ [Next]_vars =>
          [activeEpoch' \notin {0, activeEpoch} =>
              /\ activeEpoch' > activeEpoch
              /\ \A k \in DOMAIN retired : activeEpoch' > retired[k]]_vars
    <2> SUFFICES ASSUME SyncInv, [Next]_vars, activeEpoch' \notin {0, activeEpoch}
                 PROVE  /\ activeEpoch' > activeEpoch
                        /\ \A k \in DOMAIN retired : activeEpoch' > retired[k]
        OBVIOUS
    <2>1. activeEpoch' = down[1].epoch /\ 1 \in Pubs
        BY OtherSequence
    <2>2. /\ activeEpoch < down[1].epoch \/ activeEpoch = down[1].epoch
          /\ \A k \in DOMAIN retired : retired[k] < down[1].epoch
        BY <2>1 DEF SyncInv, Ordered
    <2>3. down[1].epoch \in Nat /\ activeEpoch \in Nat
        <3>1. down[1] \in PublicationFrame
            BY <2>1, Typed, FrameKinds DEF SyncInv, ServerTypeOK, Pubs, IsPub
        <3> QED BY <3>1, PublicationFields DEF SyncInv, BrowserTypeOK, Epochs
    <2>4. retired \in Seq(1..MaxEpoch)
        BY DEF SyncInv, BrowserTypeOK
    <2>5. \A k \in DOMAIN retired : retired[k] \in 1..MaxEpoch
        BY <2>4, Typed
    <2> QED BY <2>1, <2>2, <2>3, <2>5
<1> QED BY <1>1, SyncInvariant, PTL DEF Spec, SequencesMoveForward
------------------------------------------------------------------------------
(* What is on screen. *)

\* Every receipt leaves the panels of one publication.
LEMMA ReceiptShows ==
    ASSUME ShowsAPublication, BrowserTypeOK, NEW f \in Frame, Receive(f) \/ ReceiveInvalid(f)
    PROVE  ShowsAPublication'
<1>1. CASE UNCHANGED view
    BY <1>1 DEF view, ShowsAPublication
<1>2. CASE ReceivePart(f)
    BY <1>1, <1>2 DEF ReceivePart
<1>3. CASE ReceiveNoPuppet(f)
    BY <1>3 DEF ReceiveNoPuppet, ShowsAPublication
<1>4. CASE ReceivePublication(f)
    <2>1. /\ activeEpoch' = f.epoch /\ revision' = f.revision /\ content' = Staged(f)
          /\ ~Inert(f) /\ ~Contradicts(f) /\ Complete(f) /\ f \in PublicationFrame
        BY <1>4, FrameKinds DEF ReceivePublication
    <2>2. CASE f.kind = "snapshot"
        BY <2>1, <2>2 DEF Staged, ShowsAPublication
    <2>3. CASE f.kind = "delta"
        <3>1. phase = "active" /\ f.epoch = activeEpoch
            BY <2>1, <2>3 DEF Inert
        <3>2. f.base = revision
            BY <2>1, <2>3 DEF Contradicts
        <3>3. content = <<f.epoch, f.base>>
            BY <3>1, <3>2 DEF ShowsAPublication
        <3> QED BY <2>1, <3>3 DEF Staged, ShowsAPublication
    <2> QED BY <2>1, <2>2, <2>3, PublicationFields
<1> QED BY <1>1, <1>2, <1>3, <1>4, Receipts

\* The panels on screen are always those of the one publication the browser
\* names: no delta is applied to anything but its base, and no part shows.
THEOREM ScreensAreWhole == Spec => []ShowsAPublication
<1>1. Init => ShowsAPublication
    BY DEF Init, BrowserInit, ShowsAPublication
<1>2. SyncInv /\ ShowsAPublication /\ [Next]_vars => ShowsAPublication'
    <2> SUFFICES ASSUME SyncInv, ShowsAPublication, [Next]_vars PROVE ShowsAPublication'
        OBVIOUS
    <2>1. UNCHANGED view => ShowsAPublication'
        BY DEF view, ShowsAPublication
    <2>2. CASE Push \/ Publishing \/ Taking \/ PuppetByText \/ Login
        <3>1. UNCHANGED view
            BY <2>2, PublishingServes, TakingServes, OthersServe DEF Serves, browser
        <3> QED BY <2>1, <3>1
    <2>3. CASE Unpuppet \/ SwitchPuppet \/ SwitchByText \/ Disconnect \/ UNCHANGED vars
        <3>1. UNCHANGED view
            BY <2>3 DEF Unpuppet, SwitchPuppet, SwitchByText, Disconnect, vars, browser
        <3> QED BY <2>1, <3>1
    <2>4. CASE AutomaticSync \/ DeferredSync \/ Expire \/ Playing \/ BrowserCloses
        <3>1. UNCHANGED view
            BY <2>4 DEF AutomaticSync, DeferredSync, Expire, Playing, PlayerSyncs, PlayerActs, AutoResync, LifecycleSync,
                        AssemblyDeadline, RecoveryDeadline, ManualSync, Dispatch, BrowserCloses, ConnectionClose, browser
        <3> QED BY <2>1, <3>1
    <2>5. CASE Connect
        BY <2>5 DEF Connect, ConnectionOpen, ShowsAPublication
    <2>6. CASE BrowserTakesLate
        <3>1. late[1] \in Frame /\ Receive(late[1])
            BY <2>6, LateKeepsOrder DEF BrowserTakesLate, streamVars, Frame
        <3> QED BY <3>1, ReceiptShows DEF SyncInv
    <2>7. CASE BrowserTakes
        <3>1. /\ down # <<>> /\ down' = Tail(down)
              /\ Receive(Head(down)) \/ ReceiveInvalid(Head(down)) \/ UNCHANGED browser
            BY <2>7 DEF BrowserTakes
        <3>2. Head(down) \in Frame
            BY <3>1, TakenShows DEF SyncInv
        <3> QED BY <2>1, <3>1, <3>2, ReceiptShows DEF SyncInv, browser
    <2> QED BY <2>2, <2>3, <2>4, <2>5, <2>6, <2>7 DEF Next, Characters, Browsing, Sockets
<1> QED BY <1>1, <1>2, SyncInvariant, PTL DEF Spec
------------------------------------------------------------------------------
(* Automatic requests. *)

\* Only the end of its episode rearms the automatic request.
LEMMA ReceiptRearms ==
    ASSUME BrowserTypeOK, NEW f \in Frame, Receive(f) \/ ReceiveInvalid(f)
    PROVE  recovery' = "needed" => recovery \in {"idle", "needed"}
<1>1. \A t : NoteRecovery(t) => (recovery' = "needed" => recovery \in {"idle", "needed"})
    BY DEF NoteRecovery
<1>2. UNCHANGED repair => (recovery' = "needed" => recovery \in {"idle", "needed"})
    BY DEF repair
<1>3. CASE ReceiveInert(f) \/ ReceiveForeignResult(f) \/ ReceivePart(f)
    BY <1>2, <1>3 DEF ReceiveInert, ReceiveForeignResult, ReceivePart, browser
<1>4. CASE ReceiveContradiction(f) \/ ReceiveInvalid(f) \/ ReceiveNoPuppet(f) \/ ReceiveUnavailable(f)
    BY <1>1, <1>4 DEF ReceiveContradiction, ReceiveInvalid, ReceiveNoPuppet, ReceiveUnavailable
<1>5. CASE ReceivePublication(f)
    BY <1>2, <1>5 DEF ReceivePublication, SettleRecovery
<1>6. CASE ReceiveResult(f)
    BY <1>1, <1>2, <1>6 DEF ReceiveResult
<1>7. CASE ReceiveReloadRequired(f)
    BY <1>2, <1>7 DEF ReceiveReloadRequired
<1> QED BY <1>3, <1>4, <1>5, <1>6, <1>7 DEF Receive

LEMMA AutosStep == ASSUME SyncInv, Autos, [Next]_vars PROVE Autos'
<1>0. recovery \in {"idle", "needed", "requested", "failed"} /\ BrowserTypeOK
    BY DEF SyncInv, BrowserTypeOK
<1>1. ASSUME UNCHANGED <<recovery, autos>> PROVE Autos'
    BY <1>1 DEF Autos
<1>2. ASSUME CountEpisode, recovery' = "needed" => recovery \in {"idle", "needed"} PROVE Autos'
    <2>1. CASE recovery' = "idle"
        BY <1>2, <2>1 DEF CountEpisode, Autos
    <2>2. CASE recovery' # "idle"
        BY <1>2, <2>2 DEF CountEpisode, Autos
    <2> QED BY <2>1, <2>2
<1>3. CASE Push \/ Publishing \/ Taking \/ PuppetByText \/ Login
    <2>1. UNCHANGED <<recovery, autos>>
        BY <1>3, PublishingServes, TakingServes, OthersServe DEF Serves, browser, repair
    <2> QED BY <1>1, <2>1
<1>4. CASE Unpuppet \/ SwitchPuppet \/ SwitchByText \/ Disconnect \/ UNCHANGED vars \/ BrowserCloses
    <2>1. UNCHANGED <<recovery, autos>>
        BY <1>4 DEF Unpuppet, SwitchPuppet, SwitchByText, Disconnect, vars, counters, browser, repair,
                    BrowserCloses, ConnectionClose
    <2> QED BY <1>1, <2>1
<1>5. CASE DeferredSync \/ PlayerActs
    <2>1. UNCHANGED <<recovery, autos>>
        BY <1>5 DEF DeferredSync, PlayerActs, LifecycleSync, Dispatch, counters, browser, repair
    <2> QED BY <1>1, <2>1
<1>6. CASE AutomaticSync
    <2>1. recovery = "needed" /\ recovery' = "requested" /\ autos' = autos + 1
        BY <1>6 DEF AutomaticSync, AutoResync, ResyncOwed
    <2>2. autos = 0
        BY <2>1 DEF Autos
    <2> QED BY <2>1, <2>2 DEF Autos
<1>7. CASE Expire
    <2>1. CountEpisode /\ (AssemblyDeadline \/ RecoveryDeadline)
        BY <1>7 DEF Expire
    <2>2. recovery' = "needed" => recovery \in {"idle", "needed"}
        BY <2>1 DEF AssemblyDeadline, RecoveryDeadline, NoteRecovery
    <2> QED BY <1>2, <2>1, <2>2
<1>8. CASE PlayerSyncs
    <2>1. CountEpisode /\ (recovery' = "needed" => recovery \in {"idle", "needed"})
        BY <1>8 DEF PlayerSyncs, ManualSync
    <2> QED BY <1>2, <2>1
<1>9. CASE Connect
    <2>1. autos' = 0
        BY <1>9 DEF Connect
    <2> QED BY <2>1 DEF Autos
<1>10. CASE BrowserTakesLate
    <2>1. late[1] \in Frame /\ Receive(late[1]) /\ CountEpisode
        BY <1>10, LateKeepsOrder DEF BrowserTakesLate, streamVars, Frame
    <2> QED BY <1>0, <1>2, <2>1, ReceiptRearms
<1>11. CASE BrowserTakes
    <2>1. /\ down # <<>> /\ down' = Tail(down) /\ CountEpisode
          /\ Receive(Head(down)) \/ ReceiveInvalid(Head(down)) \/ UNCHANGED browser
        BY <1>11 DEF BrowserTakes
    <2>2. Head(down) \in Frame
        BY <2>1, TakenShows DEF SyncInv
    <2>3. recovery' = "needed" => recovery \in {"idle", "needed"}
        BY <1>0, <2>1, <2>2, ReceiptRearms DEF browser, repair
    <2> QED BY <1>2, <2>1, <2>3
<1> QED BY <1>3, <1>4, <1>5, <1>6, <1>7, <1>8, <1>9, <1>10, <1>11
        DEF Next, Characters, Browsing, Playing, Sockets

\* One failure episode asks the server by itself at most once.
THEOREM AsksOnce == Spec => []OneAutomaticSync
<1>1. Init => Autos
    BY DEF Init, Autos
<1>2. Autos => OneAutomaticSync
    BY DEF Autos, OneAutomaticSync
<1>3. SyncInv /\ Autos /\ [Next]_vars => Autos'
    BY AutosStep
<1> QED BY <1>1, <1>2, <1>3, SyncInvariant, PTL DEF Spec

------------------------------------------------------------------------------
(* The last thing the server put before an unlocked browser.  Every sequence  *)
(* that ends is told, as long as nobody changes character by text command.    *)

TextInv == Announced /\ Latest /\ Following /\ Reached

\* A frame that leaves the browser unlocked was committed, or left it as it was.
LEMMA ReceiptLocks ==
    ASSUME BrowserTypeOK, Settled, NEW f \in Frame, Receive(f) \/ ReceiveInvalid(f), ~locked'
    PROVE  \/ IsPub(f) /\ ReceivePublication(f)
           \/ ~locked /\ IsPub(f) /\ ReceivePart(f)
           \/ ~locked /\ IsPub(f) /\ ReceiveInert(f)
           \/ ~locked /\ ~IsPub(f) /\ ~IsCut(f) /\ UNCHANGED <<view, live>>
<1>1. \A t : NoteRecovery(t) => locked'
    BY DEF NoteRecovery, BrowserTypeOK, Settled
<1>2. ~ReceiveContradiction(f) /\ ~ReceiveInvalid(f) /\ ~ReceiveNoPuppet(f) /\ ~ReceiveUnavailable(f) /\ ~ReceiveReloadRequired(f)
    BY <1>1 DEF ReceiveContradiction, ReceiveInvalid, ReceiveNoPuppet, ReceiveUnavailable, ReceiveReloadRequired
<1>3. CASE ReceiveInert(f) \/ ReceivePart(f) \/ ReceivePublication(f)
    BY <1>3 DEF ReceiveInert, ReceivePart, ReceivePublication, browser, IsPub
<1>4. CASE ReceiveForeignResult(f)
    BY <1>4 DEF ReceiveForeignResult, browser, IsPub, IsCut
<1>5. CASE ReceiveResult(f)
    BY <1>1, <1>5 DEF ReceiveResult, IsPub, IsCut
<1> QED BY <1>2, <1>3, <1>4, <1>5 DEF Receive

\* An unlocked browser never passes over the publication at the head of the wire.
LEMMA Heeded ==
    ASSUME SyncInv, Announced, Following, socket = "open", ~locked, 1 \in Pubs
    PROVE  ~Inert(down[1]) /\ ~Orphan(down[1])
<1> DEFINE f == down[1]
<1>1. f \in PublicationFrame
    BY Typed, FrameKinds DEF SyncInv, ServerTypeOK, Pubs, IsPub
<1>2. /\ f.epoch \in Nat /\ f.revision \in Nat /\ f.index \in Nat \ {0} /\ activeEpoch \in Nat /\ revision \in Nat
    BY <1>1, PublicationFields DEF SyncInv, BrowserTypeOK, Revisions, Epochs
<1>3. /\ \A k \in DOMAIN retired : retired[k] < f.epoch
      /\ activeEpoch < f.epoch \/ (activeEpoch = f.epoch /\ revision < f.revision)
    BY DEF SyncInv, Ordered
<1>4. phase = "active"
    BY DEF SyncInv, Settled
<1>5. f.epoch = activeEpoch
    <2>1. ~\E c \in Cuts : c < 1
        BY Typed DEF SyncInv, ServerTypeOK, Cuts
    <2> QED BY <1>4, <2>1 DEF Announced
<1>6. live # <<>> =>
          /\ live[1].epoch = activeEpoch /\ live[1].revision \in Nat
          /\ Older(live[1], f) \/ SameTransfer(f)
    <2>1. live # <<>> => live[1].revision \in Nat
        BY DEF SyncInv, BrowserTypeOK, Transfer
    <2> QED BY <1>4, <2>1 DEF SyncInv, Assembling
<1>7. f.index > 1 => SameTransfer(f)
    BY DEF Following
<1> HIDE DEF f
<1>8. ~Inert(f)
    <2>1. ~Retired(f.epoch)
        BY <1>2, <1>3 DEF Retired
    <2> QED BY <1>2, <1>3, <1>4, <1>5, <2>1 DEF Inert
<1>9. ~Orphan(f)
    <2> SUFFICES ASSUME ~SameTransfer(f) PROVE f.index = 1 /\ (live # <<>> => f.epoch = live[1].epoch /\ ~(f.revision <= live[1].revision))
        BY DEF Orphan
    <2>1. f.index = 1
        BY <1>2, <1>7
    <2>2. live # <<>> => f.epoch = live[1].epoch /\ ~(f.revision <= live[1].revision)
        BY <1>2, <1>5, <1>6 DEF Older
    <2> QED BY <2>1, <2>2
<1> QED BY <1>8, <1>9 DEF f

LEMMA ServesKeepsText == ASSUME SyncInv, TextInv, Serves PROVE TextInv'
<1> DEFINE L == Len(down)
<1>1. PICK kind \in Kind, n \in Nat \ {0} : \E k \in 0..n, tail \in Remarks : Emission(kind, n, k, tail)
    BY DEF Serves, Emits
<1>2. PICK k \in 0..n, tail \in Remarks : Emission(kind, n, k, tail)
    BY <1>1
<1>3. /\ UNCHANGED <<phase, activeEpoch, revision, locked, live, socket>> /\ socket = "open"
      /\ puppet => puppet'
      /\ puppet \/ UNCHANGED <<issued, shown>>
      /\ puppet \in BOOLEAN /\ puppet' \in BOOLEAN
    BY DEF Serves, browser, view, streamVars, SyncInv, ServerTypeOK
<1>4. /\ epoch' = epoch /\ (k > 0 => issued' = issued + 1) /\ issued \in Nat
      /\ L \in Nat /\ k \in Nat /\ n \in Nat /\ k <= n /\ n > 0
      /\ \A i \in Pubs : i \in 1..L /\ i \in Pubs' /\ down'[i] = down[i]
      /\ \A i \in Pubs' : i \in Nat /\ (i \in Pubs \/ \E j \in 1..k : i = L + j)
      /\ \A j \in 1..k : L + j \in Pubs' /\ down'[L + j] = Part(kind, n, j)
      /\ Cuts' = Cuts /\ Cuts \subseteq 1..L
    <2>1. ServerTypeOK /\ issued \in Nat
        BY DEF SyncInv, ServerTypeOK, Revisions
    <2>2. k \in Nat /\ n \in Nat /\ k <= n /\ n > 0
        OBVIOUS
    <2> QED BY <1>2, <2>1, <2>2, EmissionShows
<1> HIDE DEF L
<1>5. \A j \in 1..k : /\ down'[L + j].epoch = epoch /\ down'[L + j].revision = issued + 1 /\ down'[L + j].index = j
                      /\ down'[L + j].count = n
    <2> SUFFICES ASSUME NEW j \in 1..k
                 PROVE  /\ down'[L + j].epoch = epoch /\ down'[L + j].revision = issued + 1 /\ down'[L + j].index = j
                        /\ down'[L + j].count = n
        OBVIOUS
    <2>1. down'[L + j] = Part(kind, n, j)
        BY <1>4
    <2> QED BY <2>1 DEF Part, Publication
<1>6. ASSUME NEW i \in Pubs', i \notin Pubs PROVE i > L /\ down'[i].epoch = epoch
    <2>1. PICK j \in 1..k : i = L + j
        BY <1>4, <1>6
    <2>2. i > L
        BY <1>4, <2>1
    <2> QED BY <1>5, <2>1, <2>2
<1>7. \A i \in Pubs : down'[i] = down[i]
    BY <1>4
<1>8. Announced'
    <2>1. ASSUME NEW i \in Pubs', NEW j \in Pubs', i < j, down'[i].epoch # down'[j].epoch
          PROVE  \E c \in Cuts : i < c /\ c < j
        <3>1. CASE j \in Pubs
            <4>1. i \in Pubs
                <5>1. j \in 1..L /\ i \in Nat
                    BY <1>4, <3>1
                <5> QED BY <1>4, <1>6, <2>1, <5>1
            <4> QED BY <1>7, <2>1, <3>1, <4>1 DEF TextInv, Announced
        <3>2. CASE j \notin Pubs
            <4>1. i \in Pubs /\ down[i].epoch # epoch
                BY <1>6, <1>7, <2>1, <3>2
            <4>2. PICK c \in Cuts : i < c
                BY <4>1 DEF TextInv, Announced
            <4>3. c \in 1..L /\ j > L /\ j \in Nat
                BY <1>4, <1>6, <3>2
            <4>4. c < j
                BY <1>4, <4>3
            <4> QED BY <4>2, <4>4
        <3> QED BY <3>1, <3>2
    <2>2. ASSUME NEW i \in Pubs', down'[i].epoch # epoch PROVE \E c \in Cuts : i < c
        <3>1. i \in Pubs /\ down'[i] = down[i]
            BY <1>6, <1>7, <2>2
        <3> QED BY <2>2, <3>1 DEF TextInv, Announced
    <2>3. ASSUME phase = "active"
          PROVE  /\ \A i \in Pubs' : down'[i].epoch # activeEpoch => \E c \in Cuts : c < i
                 /\ activeEpoch # epoch => Cuts # {}
        <3>1. /\ \A i \in Pubs : down[i].epoch # activeEpoch => \E c \in Cuts : c < i
              /\ activeEpoch # epoch => Cuts # {}
            BY <1>3, <2>3 DEF TextInv, Announced
        <3>2. ASSUME NEW i \in Pubs', i \notin Pubs, down'[i].epoch # activeEpoch PROVE \E c \in Cuts : c < i
            <4>1. PICK c \in Cuts : TRUE
                BY <1>6, <3>1, <3>2
            <4>2. c \in 1..L /\ i > L /\ i \in Nat
                BY <1>4, <1>6, <3>2
            <4>3. c < i
                BY <1>4, <4>2
            <4> QED BY <4>3
        <3> QED BY <1>7, <3>1, <3>2
    <2> QED BY <1>3, <1>4, <2>1, <2>2, <2>3 DEF Announced
<1>9. Wholes \subseteq Wholes' /\ (k = n => L + n \in Wholes') /\ (k # n => Wholes' = Wholes)
    <2>1. Wholes \subseteq Wholes'
        BY <1>4 DEF Wholes
    <2>2. k = n => L + n \in Wholes'
        BY <1>4, <1>5 DEF Wholes, Complete
    <2>3. ASSUME k # n, NEW i \in Wholes' PROVE i \in Wholes
        <3>1. i \in Pubs' /\ down'[i].index = down'[i].count
            BY DEF Wholes, Complete
        <3>2. i \in Pubs
            <4> SUFFICES ASSUME NEW j \in 1..k, i = L + j PROVE FALSE
                BY <1>4, <3>1
            <4>1. j = n
                BY <1>5, <3>1
            <4> QED BY <1>4, <2>3, <4>1
        <3> QED BY <1>7, <3>1, <3>2 DEF Wholes, Complete
    <2> QED BY <2>1, <2>2, <2>3
<1>10. \/ UNCHANGED shown /\ k # n
       \/ k = n /\ issued' = issued + 1 /\ shown' = [epoch |-> epoch, revision |-> issued + 1, content |-> <<epoch, issued + 1>>]
    BY <1>2, <1>4 DEF Emission
<1>11. Latest'
    <2> SUFFICES ASSUME NEW i \in Wholes'
                 PROVE  \/ \E j \in Wholes' \cup Cuts : i < j
                        \/ puppet' /\ down'[i].epoch = epoch /\ shown'.epoch = epoch /\ down'[i].revision = shown'.revision
        BY <1>4 DEF Latest
    <2>1. CASE UNCHANGED shown /\ k # n
        <3>1. i \in Wholes /\ i \in Pubs /\ down'[i] = down[i]
            BY <1>7, <1>9, <2>1 DEF Wholes
        <3>2. \/ \E j \in Wholes \cup Cuts : i < j
              \/ puppet /\ down[i].epoch = epoch /\ shown.epoch = epoch /\ down[i].revision = shown.revision
            BY <3>1 DEF TextInv, Latest
        <3> QED BY <1>3, <1>9, <2>1, <3>1, <3>2
    <2>2. CASE k = n /\ issued' = issued + 1 /\ shown' = [epoch |-> epoch, revision |-> issued + 1, content |-> <<epoch, issued + 1>>]
        <3>1. shown'.epoch = epoch /\ shown'.revision = issued + 1 /\ puppet'
            BY <1>3, <1>4, <2>2
        <3>2. CASE i = L + n
            <4>1. n \in 1..k
                BY <1>4, <2>2
            <4> QED BY <1>5, <3>1, <3>2, <4>1
        <3>3. CASE i # L + n
            <4>1. i \in Pubs' /\ down'[i].index = down'[i].count
                BY DEF Wholes, Complete
            <4>2. i \in Pubs
                <5> SUFFICES ASSUME NEW j \in 1..k, i = L + j PROVE FALSE
                    BY <1>4, <4>1
                <5>1. j = n
                    BY <1>5, <4>1
                <5> QED BY <3>3, <5>1
            <4>3. i < L + n
                <5>1. i \in 1..L
                    BY <1>4, <4>2
                <5> QED BY <1>4, <5>1
            <4> QED BY <1>9, <2>2, <4>3
        <3> QED BY <3>2, <3>3
    <2> QED BY <1>10, <2>1, <2>2
<1>12. Following'
    <2> SUFFICES ASSUME ~locked, 1 \in Pubs', down'[1].index > 1
                 PROVE  SameTransfer(down[1])' /\ live'[1].received = down'[1].index - 1
        BY <1>3 DEF Following
    <2>1. 1 \in Pubs
        <3> SUFFICES ASSUME NEW j \in 1..k, 1 = L + j PROVE FALSE
            BY <1>4
        <3>1. j = 1
            BY <1>4
        <3> QED BY <1>5, <3>1
    <2>2. down'[1] = down[1]
        BY <1>7, <2>1
    <2>3. SameTransfer(down[1]) /\ live[1].received = down[1].index - 1
        BY <1>3, <2>1, <2>2 DEF TextInv, Following
    <2> QED BY <1>3, <2>2, <2>3 DEF SameTransfer
<1>13. Reached'
    <2> SUFFICES ASSUME ~locked, Wholes' = {}, Cuts = {}
                 PROVE  puppet' /\ activeEpoch = epoch /\ shown'.epoch = epoch /\ revision = shown'.revision
        BY <1>3, <1>4 DEF Reached
    <2>1. k # n /\ Wholes = {}
        BY <1>9
    <2> QED BY <1>3, <1>10, <2>1 DEF TextInv, Reached
<1> QED BY <1>8, <1>11, <1>12, <1>13 DEF TextInv

LEMMA CutKeepsText == ASSUME SyncInv, TextInv, Unpuppet \/ SwitchPuppet PROVE TextInv'
<1>1. /\ Stream!Reset /\ UNCHANGED <<browser, socket>>
      /\ down' = Append(down, ProtocolError("no_puppet"))
    <2>1. Append(down, ProtocolError("no_puppet")) = down \o <<ProtocolError("no_puppet")>>
        <3>1. down \in Seq(Frame)
            BY DEF SyncInv, ServerTypeOK
        <3>2. ProtocolError("no_puppet") \in Frame
            BY DEF ProtocolError, Frame, ErrorFrame, Codes
        <3> QED BY <3>1, <3>2, AppendIsConcat
    <2> QED BY <2>1 DEF Unpuppet, SwitchPuppet, Send
<1>2. UNCHANGED <<phase, activeEpoch, revision, locked, live, socket>>
    BY <1>1 DEF browser, view
<1> DEFINE L == Len(down)
<1>3. /\ down' \in Seq(Frame) /\ L \in Nat /\ Pubs' = Pubs /\ Pubs \subseteq 1..L
      /\ \A i \in Pubs : down'[i] = down[i]
      /\ Cuts' = Cuts \cup {L + 1}
    <2>1. ServerTypeOK /\ down \in Seq(Frame)
        BY DEF SyncInv, ServerTypeOK
    <2>2. ProtocolError("no_puppet") \in Frame
        BY DEF ProtocolError, Frame, ErrorFrame, Codes
    <2>3. Len(down) + 1 \in DOMAIN down' /\ Len(down) + 1 \notin DOMAIN down
        BY <1>1, <2>1, <2>2, Appended
    <2>4. down' # down
        BY <2>3
    <2>5. \A i \in Pubs : i \in DOMAIN down
        BY DEF Pubs
    <2> QED BY <1>1, <2>1, <2>4, <2>5, CutShows
<1> HIDE DEF L
<1>4. \A i \in Pubs : i < L + 1
    BY <1>3
<1>5. Wholes' = Wholes /\ Wholes \subseteq Pubs
    BY <1>3 DEF Wholes
<1>6. Announced'
    <2>1. \A i, j \in Pubs' : i < j /\ down'[i].epoch # down'[j].epoch => \E c \in Cuts' : i < c /\ c < j
        BY <1>3 DEF TextInv, Announced
    <2>2. \A i \in Pubs' : \E c \in Cuts' : i < c
        BY <1>3, <1>4
    <2>3. socket = "open" /\ phase = "active" => \A i \in Pubs' : down'[i].epoch # activeEpoch => \E c \in Cuts' : c < i
        BY <1>3 DEF TextInv, Announced
    <2> QED BY <1>2, <1>3, <2>1, <2>2, <2>3 DEF Announced
<1>7. Latest'
    BY <1>3, <1>4, <1>5 DEF Latest
<1>8. Following'
    BY <1>2, <1>3 DEF TextInv, Following, SameTransfer
<1>9. Reached'
    BY <1>3 DEF Reached
<1> QED BY <1>6, <1>7, <1>8, <1>9 DEF TextInv

\* The browser of itself: it locks, or changes nothing that matters here.
LEMMA GatesKeepText ==
    ASSUME SyncInv, TextInv, UNCHANGED <<view, down, epoch, shown, puppet, socket>>,
           locked' \/ UNCHANGED <<locked, live>>
    PROVE  TextInv'
<1>1. Pubs' = Pubs /\ Cuts' = Cuts /\ Wholes' = Wholes /\ UNCHANGED <<phase, activeEpoch, revision>>
    BY DEF Pubs, Cuts, Wholes, view
<1>2. Announced'
    BY <1>1 DEF TextInv, Announced
<1>3. Latest'
    BY <1>1 DEF TextInv, Latest
<1>4. Following'
    BY <1>1 DEF TextInv, Following, SameTransfer
<1>5. Reached'
    BY <1>1 DEF TextInv, Reached
<1> QED BY <1>2, <1>3, <1>4, <1>5 DEF TextInv

\* Nothing on the wire and nothing open.
LEMMA EmptyIsText == ASSUME down = <<>>, locked \/ socket # "open", phase # "active" \/ socket # "open" PROVE TextInv
<1>1. DOMAIN down = {}
    OBVIOUS
<1>2. Pubs = {} /\ Cuts = {} /\ Wholes = {}
    BY <1>1 DEF Pubs, Cuts, Wholes
<1> QED BY <1>2 DEF TextInv, Announced, Latest, Following, Reached

LEMMA TakeKeepsText ==
    ASSUME SyncInv, TextInv, BrowserTakes PROVE TextInv'
<1> DEFINE f == down[1]
<1>1. /\ down # <<>> /\ down' = Tail(down) /\ UNCHANGED <<epoch, issued, shown, puppet, socket>>
      /\ \/ Receive(Head(down)) \/ ReceiveInvalid(Head(down))
         \/ (Head(down).type = "logged_in" /\ UNCHANGED browser)
    BY DEF BrowserTakes, streamVars, server
<1>2. /\ Head(down) = f /\ 1 \in DOMAIN down /\ f \in Frame /\ ServerTypeOK /\ BrowserTypeOK /\ Settled
      /\ \A i \in Pubs' : i \in Nat \ {0} /\ i + 1 \in Pubs /\ 1 < i + 1 /\ down'[i] = down[i + 1]
      /\ \A c \in Cuts' : c \in Nat \ {0} /\ c + 1 \in Cuts /\ 1 < c + 1
      /\ \A i \in Pubs : i # 1 => i - 1 \in Pubs'
      /\ \A c \in Cuts : c # 1 => c - 1 \in Cuts'
      /\ \A i \in DOMAIN down : i \in Nat \ {0}
      /\ \A i \in DOMAIN down : i # 1 => i - 1 \in DOMAIN down' /\ down'[i - 1] = down[i]
    BY <1>1, TakenShows DEF SyncInv
<1>3. socket = "open"
    BY <1>1, <1>2 DEF SyncInv, Idle, ServerTypeOK
<1>4. (1 \in Pubs <=> IsPub(f)) /\ (1 \in Cuts <=> IsCut(f)) /\ (1 \in Wholes <=> IsPub(f) /\ Complete(f))
    BY <1>2 DEF Pubs, Cuts, Wholes
<1>5. Announced /\ Latest /\ Following /\ Reached
    BY DEF TextInv
<1> HIDE DEF f
<1>6. \A c \in Cuts, i \in Nat \ {0} :
          /\ c \in Nat \ {0}
          /\ i + 1 < c => c - 1 \in Cuts' /\ i < c - 1
          /\ 1 < c /\ c < i + 1 => c - 1 \in Cuts' /\ c - 1 < i
          /\ 1 < c => c - 1 \in Cuts'
    <2> SUFFICES ASSUME NEW c \in Cuts, NEW i \in Nat \ {0}
                 PROVE  /\ c \in Nat \ {0}
                        /\ i + 1 < c => c - 1 \in Cuts' /\ i < c - 1
                        /\ 1 < c /\ c < i + 1 => c - 1 \in Cuts' /\ c - 1 < i
                        /\ 1 < c => c - 1 \in Cuts'
        OBVIOUS
    <2>1. c \in Nat \ {0}
        BY <1>2 DEF Cuts
    <2>2. 1 < c => c - 1 \in Cuts'
        BY <1>2, <2>1
    <2> QED BY <2>1, <2>2
<1>7. \A i \in Wholes' : i \in Nat \ {0} /\ i + 1 \in Wholes /\ down'[i] = down[i + 1] /\ i + 1 \in Pubs
    BY <1>2 DEF Wholes
<1>8. \A j \in Wholes : j \in Nat \ {0} /\ (j # 1 => j - 1 \in Wholes')
    <2> SUFFICES ASSUME NEW j \in Wholes PROVE j \in Nat \ {0} /\ (j # 1 => j - 1 \in Wholes')
        OBVIOUS
    <2>1. j \in Pubs /\ j \in DOMAIN down /\ Complete(down[j])
        BY DEF Wholes, Pubs
    <2> QED BY <1>2, <2>1 DEF Wholes
<1>9. /\ \/ IsPub(f) /\ ReceivePublication(f)
         \/ IsCut(f) /\ phase' # "active"
         \/ ~IsCut(f) /\ UNCHANGED <<phase, activeEpoch, revision>>
    <2>1. CASE Receive(f) \/ ReceiveInvalid(f)
        <3>1. IsPub(f) => ~IsCut(f)
            BY DEF IsPub, IsCut
        <3>2. ReceivePart(f) => UNCHANGED <<phase, activeEpoch, revision>>
            BY DEF ReceivePart, view
        <3>3. ReceiveNoPuppet(f) => phase' # "active"
            BY DEF ReceiveNoPuppet
        <3>4. UNCHANGED view => UNCHANGED <<phase, activeEpoch, revision>>
            BY DEF view
        <3> QED BY <1>2, <2>1, <3>1, <3>2, <3>3, <3>4, Receipts
    <2>2. CASE f.type = "logged_in" /\ UNCHANGED browser
        BY <2>2 DEF browser, view, IsCut
    <2> QED BY <1>1, <1>2, <2>1, <2>2
<1>10. Announced'
    <2>1. ASSUME NEW i \in Pubs', NEW j \in Pubs', i < j, down'[i].epoch # down'[j].epoch
          PROVE  \E c \in Cuts' : i < c /\ c < j
        <3>1. /\ i \in Nat \ {0} /\ j \in Nat \ {0} /\ i + 1 \in Pubs /\ j + 1 \in Pubs
              /\ down'[i] = down[i + 1] /\ down'[j] = down[j + 1]
            BY <1>2
        <3>2. i + 1 < j + 1
            BY <2>1, <3>1
        <3>3. PICK c \in Cuts : i + 1 < c /\ c < j + 1
            BY <1>5, <2>1, <3>1, <3>2 DEF Announced
        <3>4. 1 < c /\ c \in Nat
            BY <1>6, <3>1, <3>3
        <3>5. c - 1 \in Cuts' /\ i < c - 1 /\ c - 1 < j
            BY <1>6, <3>1, <3>3, <3>4
        <3> QED BY <3>5
    <2>2. ASSUME NEW i \in Pubs', down'[i].epoch # epoch PROVE \E c \in Cuts' : i < c
        <3>1. i \in Nat \ {0} /\ i + 1 \in Pubs /\ down'[i] = down[i + 1]
            BY <1>2
        <3>2. PICK c \in Cuts : i + 1 < c
            BY <1>5, <2>2, <3>1 DEF Announced
        <3> QED BY <1>6, <3>1, <3>2
    <2>3. ASSUME phase' = "active"
          PROVE  /\ \A i \in Pubs' : down'[i].epoch # activeEpoch' => \E c \in Cuts' : c < i
                 /\ activeEpoch' # epoch => Cuts' # {}
        <3>1. CASE IsPub(f) /\ ReceivePublication(f)
            <4>1. activeEpoch' = f.epoch /\ 1 \in Pubs
                BY <1>4, <3>1 DEF ReceivePublication
            <4>2. ASSUME NEW i \in Pubs', down'[i].epoch # activeEpoch' PROVE \E c \in Cuts' : c < i
                <5>1. i \in Nat \ {0} /\ i + 1 \in Pubs /\ 1 < i + 1 /\ down'[i] = down[i + 1]
                    BY <1>2
                <5>2. PICK c \in Cuts : 1 < c /\ c < i + 1
                    BY <1>5, <4>1, <4>2, <5>1 DEF Announced, f
                <5> QED BY <1>6, <5>1, <5>2
            <4>3. ASSUME activeEpoch' # epoch PROVE Cuts' # {}
                <5>1. PICK c \in Cuts : 1 < c
                    BY <1>5, <4>1, <4>3 DEF Announced, f
                <5>2. c - 1 \in Cuts'
                    BY <1>6, <5>1
                <5> QED BY <5>2
            <4> QED BY <4>2, <4>3
        <3>2. CASE ~IsCut(f) /\ UNCHANGED <<phase, activeEpoch, revision>>
            <4>1. ASSUME NEW c \in Cuts PROVE 1 < c
                <5>1. c # 1 /\ c \in Nat \ {0}
                    BY <1>2, <1>4, <3>2 DEF Cuts
                <5> QED BY <5>1
            <4>2. ASSUME NEW i \in Pubs', down'[i].epoch # activeEpoch' PROVE \E c \in Cuts' : c < i
                <5>1. i \in Nat \ {0} /\ i + 1 \in Pubs /\ 1 < i + 1 /\ down'[i] = down[i + 1]
                    BY <1>2
                <5>2. PICK c \in Cuts : c < i + 1
                    BY <1>3, <1>5, <2>3, <3>2, <4>2, <5>1 DEF Announced
                <5>3. 1 < c
                    BY <4>1
                <5> QED BY <1>6, <5>1, <5>2, <5>3
            <4>3. ASSUME activeEpoch' # epoch PROVE Cuts' # {}
                <5>1. PICK c \in Cuts : TRUE
                    BY <1>3, <1>5, <2>3, <3>2, <4>3 DEF Announced
                <5>2. 1 < c
                    BY <4>1
                <5>3. c - 1 \in Cuts'
                    BY <1>6, <5>2
                <5> QED BY <5>3
            <4> QED BY <4>2, <4>3
        <3> QED BY <1>9, <2>3, <3>1, <3>2
    <2> QED BY <1>1, <2>1, <2>2, <2>3 DEF Announced
<1>11. Latest'
    <2> SUFFICES ASSUME NEW i \in Wholes'
                 PROVE  \/ \E j \in Wholes' \cup Cuts' : i < j
                        \/ puppet /\ down'[i].epoch = epoch /\ shown.epoch = epoch /\ down'[i].revision = shown.revision
        BY <1>1 DEF Latest
    <2>1. i \in Nat \ {0} /\ i + 1 \in Wholes /\ down'[i] = down[i + 1]
        BY <1>7
    <2>2. \/ \E j \in Wholes \cup Cuts : i + 1 < j
          \/ puppet /\ down[i + 1].epoch = epoch /\ shown.epoch = epoch /\ down[i + 1].revision = shown.revision
        BY <1>5, <2>1 DEF Latest
    <2>3. ASSUME NEW j \in Wholes, i + 1 < j PROVE j - 1 \in Wholes' /\ i < j - 1
        BY <1>8, <2>1, <2>3
    <2>4. \A j \in Cuts : i + 1 < j => j - 1 \in Cuts' /\ i < j - 1
        BY <1>6, <2>1
    <2> QED BY <2>1, <2>2, <2>3, <2>4
<1>12. Following'
    <2> SUFFICES ASSUME ~locked', 1 \in Pubs', down'[1].index > 1
                 PROVE  SameTransfer(down[1])' /\ live'[1].received = down'[1].index - 1
        BY DEF Following
    <2> DEFINE g == down'[1]
    <2>1. 1 + 1 \in Pubs /\ g = down[1 + 1] /\ g.index > 1
        BY <1>2
    <2> HIDE DEF g
    <2>2. IsPub(f) /\ SamePub(f, g) /\ f.index = g.index - 1 /\ g.index <= g.count
        <3>1. 1 + 1 # 1 /\ (1 + 1) - 1 = 1
            OBVIOUS
        <3>2. 1 \in Pubs /\ SamePub(down[1], down[1 + 1]) /\ down[1].index = down[1 + 1].index - 1
            BY <2>1, <3>1 DEF SyncInv, Ordered
        <3>3. down[1 + 1].index <= down[1 + 1].count
            BY <2>1 DEF SyncInv, Ordered
        <3> QED BY <1>4, <2>1, <3>2, <3>3 DEF f
    <2>3. ~Complete(f)
        <3>1. g \in PublicationFrame
            BY <2>1, Typed, FrameKinds DEF SyncInv, ServerTypeOK, Pubs, IsPub
        <3>2. g.index \in Nat /\ g.count \in Nat
            BY <3>1, PublicationFields
        <3> QED BY <2>2, <3>2 DEF Complete, SamePub
    <2>4. f.type # "logged_in" /\ ~IsCut(f)
        BY <2>2 DEF IsPub, IsCut
    <2>5. ~locked /\ (ReceivePart(f) \/ ReceiveInert(f))
        <3>1. Receive(f) \/ ReceiveInvalid(f)
            BY <1>1, <1>2, <2>4
        <3>2. ~ReceivePublication(f)
            BY <2>3 DEF ReceivePublication
        <3> QED BY <1>2, <2>2, <3>1, <3>2, ReceiptLocks
    <2>6. ~Inert(f) /\ ~Orphan(f)
        BY <1>3, <1>4, <1>5, <2>2, <2>5, Heeded DEF f
    <2>7. ReceivePart(f)
        BY <2>5, <2>6 DEF ReceiveInert
    <2>8. /\ live' # <<>> /\ live'[1].kind = f.kind /\ live'[1].epoch = f.epoch /\ live'[1].revision = f.revision
          /\ live'[1].base = f.base /\ live'[1].count = f.count /\ live'[1].received = f.index
        BY <2>7 DEF ReceivePart
    <2> QED BY <2>2, <2>8 DEF SamePub, SameTransfer, g
<1>13. Reached'
    <2> SUFFICES ASSUME ~locked', Wholes' = {}, Cuts' = {}
                 PROVE  puppet /\ activeEpoch' = epoch /\ shown.epoch = epoch /\ revision' = shown.revision
        BY <1>1 DEF Reached
    <2>1. \A j \in Wholes : j = 1
        BY <1>8
    <2>2. \A c \in Cuts : c = 1
        <3> SUFFICES ASSUME NEW c \in Cuts, c # 1 PROVE FALSE
            OBVIOUS
        <3>1. c - 1 \in Cuts'
            BY <1>2
        <3> QED BY <3>1
    <2>3. ~IsCut(f)
        <3> SUFFICES ASSUME IsCut(f) PROVE FALSE
            OBVIOUS
        <3>1. ~IsPub(f) /\ f.type # "logged_in"
            BY DEF IsCut, IsPub
        <3> QED BY <1>1, <1>2, <3>1, ReceiptLocks
    <2>4. Cuts = {}
        BY <1>4, <2>2, <2>3
    <2>5. CASE IsPub(f) /\ Complete(f)
        <3>1. 1 \in Wholes
            BY <1>4, <2>5
        <3>2. puppet /\ f.epoch = epoch /\ shown.epoch = epoch /\ f.revision = shown.revision
            <4>1. ~\E j \in Wholes \cup Cuts : 1 < j
                BY <2>1, <2>4
            <4> QED BY <1>5, <3>1, <4>1 DEF Latest, f
        <3>3. ReceivePublication(f)
            <4>1. Receive(f) \/ ReceiveInvalid(f)
                BY <1>1, <1>2, <2>5 DEF IsPub
            <4>2. ~ReceivePart(f)
                BY <2>5 DEF ReceivePart
            <4>3. ASSUME ~locked, ReceiveInert(f) PROVE FALSE
                <5>1. ~Inert(f) /\ ~Orphan(f)
                    BY <1>3, <1>4, <1>5, <2>5, <4>3, Heeded DEF f
                <5> QED BY <4>3, <5>1 DEF ReceiveInert
            <4> QED BY <1>2, <2>5, <4>1, <4>2, <4>3, ReceiptLocks
        <3> QED BY <3>2, <3>3 DEF ReceivePublication
    <2>6. CASE ~(IsPub(f) /\ Complete(f))
        <3>1. Wholes = {}
            BY <1>4, <2>1, <2>6
        <3>2. ~locked /\ UNCHANGED <<activeEpoch, revision>>
            <4>1. CASE Receive(f) \/ ReceiveInvalid(f)
                <5>1. ~ReceivePublication(f) \/ ~IsPub(f)
                    BY <2>6 DEF ReceivePublication
                <5>2. ReceivePart(f) => UNCHANGED view
                    BY DEF ReceivePart
                <5>3. ReceiveInert(f) => UNCHANGED view
                    BY DEF ReceiveInert, browser
                <5> QED BY <1>2, <4>1, <5>1, <5>2, <5>3, ReceiptLocks DEF view
            <4>2. CASE UNCHANGED browser
                BY <4>2 DEF browser, view
            <4> QED BY <1>1, <1>2, <4>1, <4>2
        <3> QED BY <1>3, <1>5, <2>4, <3>1, <3>2 DEF Reached
    <2> QED BY <2>5, <2>6
<1> QED BY <1>10, <1>11, <1>12, <1>13 DEF TextInv

LEMMA TextStep == ASSUME ~TextSwitch, SyncInv, TextInv, [Next]_vars PROVE TextInv'
<1>0. BrowserTypeOK /\ Settled /\ Idle /\ socket \in {"open", "down"}
    BY DEF SyncInv, ServerTypeOK
<1>1. CASE Push \/ Publishing \/ Taking \/ PuppetByText \/ Login
    BY <1>1, PublishingServes, TakingServes, OthersServe, ServesKeepsText
<1>2. CASE Unpuppet \/ SwitchPuppet
    BY <1>2, CutKeepsText
<1>3. CASE SwitchByText
    BY <1>3 DEF SwitchByText
<1>4. CASE AutomaticSync \/ DeferredSync \/ Expire \/ Playing
    <2>1. UNCHANGED <<view, down, epoch, shown, puppet, socket>>
        BY <1>4 DEF AutomaticSync, DeferredSync, Expire, Playing, PlayerSyncs, PlayerActs, AutoResync, LifecycleSync,
                    AssemblyDeadline, RecoveryDeadline, ManualSync, Dispatch, browser, streamVars, server
    <2>2. NoteRecovery(0) => locked'
        BY <1>0 DEF NoteRecovery, BrowserTypeOK, Settled
    <2>3. locked' \/ UNCHANGED <<locked, live>>
        BY <1>4, <2>2 DEF AutomaticSync, DeferredSync, Expire, Playing, PlayerSyncs, PlayerActs, AutoResync, LifecycleSync,
                    AssemblyDeadline, RecoveryDeadline, ManualSync, Dispatch, browser
    <2> QED BY <2>1, <2>3, GatesKeepText
<1>5. CASE BrowserTakes
    BY <1>5, TakeKeepsText
<1>6. CASE BrowserTakesLate
    <2>1. /\ UNCHANGED <<down, epoch, issued, shown, puppet, socket>> /\ late # <<>> /\ late' = <<>> /\ Receive(late[1])
        BY <1>6 DEF BrowserTakesLate, streamVars, server
    <2>2. CASE socket = "open"
        <3>1. UNCHANGED browser
            BY <2>1, <2>2, LateKeepsOrder
        <3>2. UNCHANGED <<view, locked, live>>
            BY <3>1 DEF browser
        <3> QED BY <2>1, <3>2, GatesKeepText
    <2>3. CASE socket = "down"
        <3>1. down' = <<>> /\ socket' # "open"
            BY <1>0, <2>1, <2>3 DEF Idle
        <3>2. Pubs' = {} /\ Cuts' = {} /\ Wholes' = {}
            <4>1. DOMAIN down' = {}
                BY <3>1
            <4> QED BY <4>1 DEF Pubs, Cuts, Wholes
        <3> QED BY <3>1, <3>2 DEF TextInv, Announced, Latest, Following, Reached
    <2> QED BY <1>0, <2>2, <2>3
<1>7. CASE Sockets
    <2>1. /\ down' = <<>>
          /\ locked' \/ socket' # "open"
          /\ phase' # "active" \/ socket' # "open"
        <3>1. CASE Disconnect
            BY <3>1 DEF Disconnect
        <3>2. CASE BrowserCloses
            BY <1>0, <3>2 DEF BrowserCloses, Idle
        <3>3. CASE Connect
            BY <1>0, <3>3 DEF Connect, ConnectionOpen, Idle
        <3> QED BY <1>7, <3>1, <3>2, <3>3 DEF Sockets
    <2>2. Pubs' = {} /\ Cuts' = {} /\ Wholes' = {}
        <3>1. DOMAIN down' = {}
            BY <2>1
        <3> QED BY <3>1 DEF Pubs, Cuts, Wholes
    <2> QED BY <2>1, <2>2 DEF TextInv, Announced, Latest, Following, Reached
<1>8. CASE UNCHANGED vars
    <2>1. UNCHANGED <<view, down, epoch, shown, puppet, socket, locked, live>>
        BY <1>8 DEF vars, browser, streamVars, server
    <2> QED BY <2>1, GatesKeepText
<1> QED BY <1>1, <1>2, <1>3, <1>4, <1>5, <1>6, <1>7, <1>8 DEF Next, Characters, Browsing

\* As long as nobody changes character by text command, a browser with open
\* controls and nothing on its way shows what the server last put before it.
THEOREM OpenControlsAreCurrent == ~TextSwitch => (Spec => []UnlockedIsCurrent)
<1> SUFFICES ASSUME ~TextSwitch PROVE Spec => []UnlockedIsCurrent
    OBVIOUS
<1>1. Init => TextInv
    BY EmptyIsText DEF Init, BrowserInit
<1>2. SyncInv /\ TextInv /\ [Next]_vars => TextInv'
    BY TextStep
<1>3. TextInv => UnlockedIsCurrent
    <2> SUFFICES ASSUME TextInv, Quiet, ~locked
                 PROVE  puppet /\ activeEpoch = epoch /\ shown.epoch = epoch /\ revision = shown.revision
        BY DEF UnlockedIsCurrent
    <2>1. DOMAIN down = {} /\ socket = "open"
        BY DEF Quiet
    <2>2. Wholes = {} /\ Cuts = {}
        BY <2>1 DEF Pubs, Cuts, Wholes
    <2> QED BY <2>1, <2>2 DEF TextInv, Reached
<1> QED BY <1>1, <1>2, <1>3, SyncInvariant, PTL DEF Spec
------------------------------------------------------------------------------
(* Requests and their answers. *)

\* The server's step as the browser sees it: it takes at most one message and
\* at most one job, queues at most one, and ends what it sends with `tail'.
EmitsTail(tail) == \E kind \in Kind, n \in Nat \ {0} : \E k \in 0..n : Emission(kind, n, k, tail)
Added == {<<>>} \cup {<<j>> : j \in Job}
Queue(d, add) ==
    /\ d \in {0, 1} /\ (d = 1 => jobs # <<>>) /\ add \in Added
    /\ jobs' = (IF d = 1 THEN Tail(jobs) ELSE jobs) \o add
Kept(d, add) == {jobs[p] : p \in {q \in DOMAIN jobs : q > d}} \cup {add[q] : q \in DOMAIN add}
Reads == up' = up \/ (up # <<>> /\ up' = Tail(up))
Popped(x) == up # <<>> /\ up' = Tail(up) /\ up[1].type = "action" /\ x = up[1].request

LEMMA QueueShows ==
    ASSUME ServerTypeOK, NEW d, NEW add, Queue(d, add)
    PROVE  /\ \A q \in DOMAIN jobs' : jobs'[q] \in Kept(d, add)
           /\ \A p \in DOMAIN jobs : p \in Nat /\ (p > d => \E q \in DOMAIN jobs' : jobs'[q] = jobs[p])
           /\ \A q \in DOMAIN add : q = 1 /\ \E r \in DOMAIN jobs' : jobs'[r] = add[1]
           /\ \A q, r \in DOMAIN jobs' : q # r =>
                 \/ \E p, s \in DOMAIN jobs : p # s /\ p > d /\ s > d /\ jobs'[q] = jobs[p] /\ jobs'[r] = jobs[s]
                 \/ \E p \in DOMAIN jobs : p > d /\ add # <<>> /\ (\/ jobs'[q] = jobs[p] /\ jobs'[r] = add[1]
                                                                   \/ jobs'[r] = jobs[p] /\ jobs'[q] = add[1])
           /\ Kept(d, add) \subseteq Job
<1> DEFINE s == IF d = 1 THEN Tail(jobs) ELSE jobs
<1>1. /\ jobs \in Seq(Job) /\ d \in {0, 1} /\ add \in Added /\ jobs' = s \o add /\ (d = 1 => jobs # <<>>)
    BY DEF Queue, ServerTypeOK
<1>2. /\ add \in Seq(Job) /\ Len(add) \in {0, 1} /\ DOMAIN add = 1..Len(add) /\ (add = <<>> <=> Len(add) = 0)
      /\ \A q \in DOMAIN add : q = 1 /\ add[q] \in Job
    <2>1. CASE add = <<>>
        BY <2>1, EmptySeq
    <2>2. ASSUME NEW j \in Job, add = <<j>> PROVE add \in Seq(Job) /\ Len(add) = 1 /\ DOMAIN add = {1} /\ add[1] = j /\ add # <<>>
        BY <2>2
    <2> QED BY <1>1, <2>1, <2>2 DEF Added
<1>3. /\ s \in Seq(Job) /\ Len(jobs) \in Nat /\ Len(s) \in Nat /\ Len(s) + d = Len(jobs) /\ DOMAIN s = 1..Len(s)
      /\ DOMAIN jobs = 1..Len(jobs)
      /\ \A q \in 1..Len(s) : s[q] = jobs[q + d]
    <2>1. CASE d = 1
        <3>1. jobs # <<>> /\ s = Tail(jobs)
            BY <1>1, <2>1
        <3>2. /\ s \in Seq(Job) /\ Len(jobs) \in Nat \ {0} /\ Len(s) = Len(jobs) - 1
              /\ DOMAIN jobs = 1..Len(jobs) /\ DOMAIN s = 1..(Len(jobs) - 1)
              /\ \A i \in 1..(Len(jobs) - 1) : s[i] = jobs[i + 1]
            BY <1>1, <3>1, Tailed
        <3> HIDE DEF s
        <3>3. Len(s) \in Nat /\ Len(s) + 1 = Len(jobs)
            BY <3>2
        <3> QED BY <2>1, <3>2, <3>3
    <2>2. CASE d = 0
        <3>1. s = jobs
            BY <2>2
        <3>2. Len(jobs) \in Nat /\ DOMAIN jobs = 1..Len(jobs)
            BY <1>1, Typed
        <3> HIDE DEF s
        <3>3. \A q \in 1..Len(jobs) : q + 0 = q
            OBVIOUS
        <3> QED BY <1>1, <2>2, <3>1, <3>2, <3>3
    <2> QED BY <1>1, <2>1, <2>2
<1> HIDE DEF s
<1> DEFINE N == Len(s)
<1>4. /\ DOMAIN jobs' = 1..(N + Len(add)) /\ N \in Nat
      /\ \A i \in 1..N : jobs'[i] = s[i]
      /\ \A j \in 1..Len(add) : jobs'[N + j] = add[j]
    <2>1. DOMAIN (s \o add) = 1..(Len(s) + Len(add)) /\ (\A i \in 1..Len(s) : (s \o add)[i] = s[i])
          /\ \A j \in 1..Len(add) : (s \o add)[Len(s) + j] = add[j]
        BY <1>2, <1>3, Joined
    <2> QED BY <1>1, <1>3, <2>1
<1>5. N + d = Len(jobs) /\ N \in Nat /\ Len(add) \in {0, 1} /\ d \in {0, 1}
    BY <1>1, <1>2, <1>3
<1>6. \A i \in 1..N : i + d \in DOMAIN jobs /\ i + d > d /\ jobs'[i] = jobs[i + d]
    <2>1. \A i \in 1..N : i + d \in 1..Len(jobs) /\ i + d > d
        BY <1>5
    <2> QED BY <1>3, <1>4, <2>1
<1> HIDE DEF N
<1>7. ASSUME NEW q \in DOMAIN jobs' PROVE q \in 1..N \/ (q = N + 1 /\ add # <<>> /\ jobs'[q] = add[1] /\ 1 \in DOMAIN add)
    <2>1. q \in 1..N \/ (q = N + 1 /\ Len(add) = 1)
        BY <1>4, <1>5
    <2>2. Len(add) = 1 => 1 \in 1..Len(add) /\ 1 \in DOMAIN add /\ jobs'[N + 1] = add[1] /\ add # <<>>
        BY <1>2, <1>4
    <2> QED BY <2>1, <2>2
<1>8. ASSUME NEW q \in DOMAIN jobs' PROVE jobs'[q] \in Kept(d, add)
    BY <1>6, <1>7 DEF Kept
<1>9. ASSUME NEW p \in DOMAIN jobs PROVE p \in Nat /\ (p > d => \E q \in DOMAIN jobs' : jobs'[q] = jobs[p])
    <2>1. p \in Nat
        BY <1>3
    <2>2. ASSUME p > d PROVE \E q \in DOMAIN jobs' : jobs'[q] = jobs[p]
        <3>1. p - d \in 1..N /\ (p - d) + d = p
            BY <1>3, <1>5, <2>2
        <3>2. p - d \in DOMAIN jobs'
            BY <1>4, <1>5, <3>1
        <3> QED BY <1>6, <3>1, <3>2
    <2> QED BY <2>1, <2>2
<1>10. ASSUME NEW q \in DOMAIN add PROVE q = 1 /\ \E r \in DOMAIN jobs' : jobs'[r] = add[1]
    <2>1. q = 1 /\ Len(add) = 1
        BY <1>2
    <2>2. N + 1 \in DOMAIN jobs'
        BY <1>4, <2>1
    <2> QED BY <1>4, <2>1, <2>2
<1>11. ASSUME NEW q \in DOMAIN jobs', NEW r \in DOMAIN jobs', q # r
       PROVE  \/ \E p, t \in DOMAIN jobs : p # t /\ p > d /\ t > d /\ jobs'[q] = jobs[p] /\ jobs'[r] = jobs[t]
              \/ \E p \in DOMAIN jobs : p > d /\ add # <<>> /\ (\/ jobs'[q] = jobs[p] /\ jobs'[r] = add[1]
                                                                \/ jobs'[r] = jobs[p] /\ jobs'[q] = add[1])
    <2>1. CASE q \in 1..N /\ r \in 1..N
        <3>1. q + d # r + d
            BY <1>5, <1>11, <2>1
        <3> QED BY <1>6, <2>1, <3>1
    <2>2. CASE q \in 1..N /\ r \notin 1..N
        BY <1>6, <1>7, <2>2
    <2>3. CASE q \notin 1..N /\ r \in 1..N
        BY <1>6, <1>7, <2>3
    <2>4. CASE q \notin 1..N /\ r \notin 1..N
        BY <1>7, <1>11, <2>4
    <2> QED BY <2>1, <2>2, <2>3, <2>4
<1>12. Kept(d, add) \subseteq Job
    <2>1. \A p \in DOMAIN jobs : jobs[p] \in Job
        BY <1>1, Typed
    <2> QED BY <1>2, <2>1 DEF Kept
<1> QED BY <1>8, <1>9, <1>10, <1>11, <1>12

\* What one emission adds: publications of the running sequence beyond what was
\* issued, then the remark.
LEMMA TailShows ==
    ASSUME ServerTypeOK, NEW tail, EmitsTail(tail)
    PROVE  /\ epoch' = epoch /\ issued \in Nat /\ issued' \in Nat /\ issued <= issued' /\ Emits
           /\ \A i \in DOMAIN down' : i \in Nat
           /\ \A i \in Pubs' : \/ i \in Pubs /\ down'[i] = down[i]
                               \/ down'[i].epoch = epoch /\ down'[i].revision = issued + 1
           /\ \A i \in Results' : \/ i \in Results /\ down'[i] = down[i]
                                  \/ tail # <<>> /\ down'[i] = tail[1] /\ \A q \in Pubs' \cup DOMAIN down : q < i
           /\ \A i \in Errors : i \in Errors'
           /\ tail # <<>> /\ tail[1].type = "error" => \E i \in Errors' : \A q \in Pubs' : q < i
<1>1. PICK kind \in Kind, n \in Nat \ {0} : \E k \in 0..n : Emission(kind, n, k, tail)
    BY DEF EmitsTail
<1>2. PICK k \in 0..n : Emission(kind, n, k, tail)
    BY <1>1
<1> DEFINE L == Len(down)
<1>3. /\ tail \in Remarks /\ down \in Seq(Frame) /\ tail \in Seq(Frame) /\ Len(tail) \in {0, 1} /\ DOMAIN tail = 1..Len(tail)
      /\ L \in Nat /\ DOMAIN down = 1..L /\ k \in Nat
      /\ \A j \in DOMAIN tail : j = 1 /\ tail[j] \in Remark
      /\ (Len(tail) = 1 => tail # <<>>)
    <2>1. tail \in Remarks
        BY <1>2 DEF Emission
    <2>2. down \in Seq(Frame)
        BY DEF ServerTypeOK
    <2>3. tail = <<>> => Len(tail) = 0
        OBVIOUS
    <2> QED BY <2>1, <2>2, <2>3, RemarksAreShort, Typed
<1>4. /\ DOMAIN down' = 1..(L + k + Len(tail))
      /\ \A i \in 1..L : down'[i] = down[i]
      /\ \A j \in 1..k : down'[L + j] = Part(kind, n, j)
      /\ \A j \in 1..Len(tail) : down'[L + k + j] = tail[j]
    BY <1>2 DEF Emission, Grown
<1> HIDE DEF L
<1>5. epoch' = epoch /\ issued \in Nat /\ issued' \in Nat /\ issued <= issued'
    BY <1>2, EmissionShows DEF ServerTypeOK, Revisions
<1>6. Emits
    BY <1>2, EmissionEmits
<1>7. \A i \in DOMAIN down' : i \in Nat
    BY <1>4
<1>8. ASSUME NEW i \in DOMAIN down'
      PROVE  \/ i \in DOMAIN down /\ down'[i] = down[i]
             \/ IsPub(down'[i]) /\ down'[i].epoch = epoch /\ down'[i].revision = issued + 1 /\ i \in (L + 1)..(L + k)
             \/ tail # <<>> /\ down'[i] = tail[1] /\ tail[1] \in Remark /\ i = L + k + 1
    <2>1. i \in 1..L \/ i \in (L + 1)..(L + k) \/ (i = L + k + 1 /\ Len(tail) = 1)
        <3>1. i \in 1..(L + k + Len(tail)) /\ L \in Nat /\ k \in Nat /\ Len(tail) \in {0, 1}
            BY <1>3, <1>4
        <3>2. ASSUME NEW a \in Nat, NEW b \in Nat, NEW c \in {0, 1}, NEW x \in 1..(a + b + c)
              PROVE  x \in 1..a \/ x \in (a + 1)..(a + b) \/ (x = a + b + 1 /\ c = 1)
            OBVIOUS
        <3> QED BY <3>1, <3>2
    <2>2. ASSUME i \in (L + 1)..(L + k) PROVE IsPub(down'[i]) /\ down'[i].epoch = epoch /\ down'[i].revision = issued + 1
        <3>1. i - L \in 1..k /\ L + (i - L) = i
            BY <1>3, <2>2
        <3>2. down'[i] = Part(kind, n, i - L)
            BY <1>4, <3>1
        <3> QED BY <3>2 DEF Part, Publication, IsPub
    <2>3. ASSUME i = L + k + 1, Len(tail) = 1 PROVE tail # <<>> /\ down'[i] = tail[1] /\ tail[1] \in Remark
        <3>1. 1 \in 1..Len(tail) /\ 1 \in DOMAIN tail
            BY <1>3, <2>3
        <3> QED BY <1>3, <1>4, <2>3, <3>1
    <2> QED BY <1>3, <1>4, <2>1, <2>2, <2>3
<1>9. \A i \in Pubs' : \/ i \in Pubs /\ down'[i] = down[i]
                       \/ down'[i].epoch = epoch /\ down'[i].revision = issued + 1
    BY <1>8 DEF Pubs, Remark
<1>10. \A q \in Pubs' : q < L + k + 1
    <2>1. ASSUME NEW q \in Pubs' PROVE q # L + k + 1
        <3>1. q \in DOMAIN down' /\ IsPub(down'[q])
            BY DEF Pubs
        <3>2. CASE q = L + k + 1
            <4>1. q \notin 1..L /\ q \notin (L + 1)..(L + k)
                BY <1>3, <3>2
            <4>2. down'[q] \in Remark
                BY <1>3, <1>8, <3>1, <4>1
            <4> QED BY <3>1, <4>2 DEF Remark
        <3> QED BY <3>2
    <2>2. ASSUME NEW q \in Pubs' PROVE q \in 1..(L + k + Len(tail))
        BY <1>4 DEF Pubs
    <2> QED BY <1>3, <2>1, <2>2
<1>11. \A i \in Results' : \/ i \in Results /\ down'[i] = down[i]
                           \/ tail # <<>> /\ down'[i] = tail[1] /\ \A q \in Pubs' \cup DOMAIN down : q < i
    <2>1. \A q \in DOMAIN down : q < L + k + 1
        <3>1. \A q \in 1..L : q < L + k + 1
            BY <1>3
        <3> QED BY <1>3, <3>1
    <2> QED BY <1>8, <1>10, <2>1 DEF Results, IsPub
<1>12. \A i \in Errors : i \in Errors'
    <2>1. ASSUME NEW i \in Errors PROVE i \in DOMAIN down' /\ down'[i] = down[i]
        <3>1. i \in 1..L
            BY <1>3 DEF Errors
        <3> QED BY <1>3, <1>4, <3>1
    <2> QED BY <2>1 DEF Errors
<1>13. ASSUME tail # <<>>, tail[1].type = "error" PROVE \E i \in Errors' : \A q \in Pubs' : q < i
    <2>1. Len(tail) = 1
        BY <1>3, <1>13, EmptySeq
    <2>2. L + k + 1 \in DOMAIN down' /\ down'[L + k + 1] = tail[1]
        <3>1. 1 \in 1..Len(tail) /\ L + k + 1 \in 1..(L + k + Len(tail))
            BY <1>3, <2>1
        <3> QED BY <1>4, <3>1
    <2> QED BY <1>10, <1>13, <2>2 DEF Errors
<1> QED BY <1>5, <1>6, <1>7, <1>9, <1>11, <1>12, <1>13

LEMMA SendingTails ==
    ASSUME ServerTypeOK, NEW kinds \in SUBSET Kind, NEW tail \in Remarks,
           \/ Publishes(kinds, tail)
           \/ Loses(kinds, tail)
           \/ Fails(tail)
           \/ UNCHANGED streamVars /\ (Send(tail) \/ (tail = <<>> /\ UNCHANGED down))
    PROVE  EmitsTail(tail)
<1>1. CASE Publishes(kinds, tail)
    <2>1. PICK kind \in kinds, n \in Nat \ {0} : Emission(kind, n, n, tail)
        BY <1>1, PublishesEmits
    <2>2. n \in 0..n /\ kind \in Kind
        OBVIOUS
    <2> QED BY <2>1, <2>2 DEF EmitsTail
<1>2. CASE Loses(kinds, tail)
    <2>1. PICK kind \in kinds, n \in Nat \ {0} : \E k \in 0..n : Emission(kind, n, k, tail) /\ ~trusted'
        BY <1>2, LosesEmits
    <2>2. PICK k \in 0..n : Emission(kind, n, k, tail)
        BY <2>1
    <2> QED BY <2>2 DEF EmitsTail
<1>3. CASE UNCHANGED streamVars /\ (Send(tail) \/ (tail = <<>> /\ UNCHANGED down))
    <2>1. Emission("snapshot", 1, 0, tail) /\ "snapshot" \in Kind /\ 0 \in 0..1 /\ 1 \in Nat \ {0}
        BY <1>3, SendEmits DEF Kind
    <2> QED BY <2>1 DEF EmitsTail
<1>4. CASE Fails(tail)
    BY <1>3, <1>4 DEF Fails
<1> QED BY <1>1, <1>2, <1>3, <1>4

LEMMA QuietTails == ASSUME ServerTypeOK, UNCHANGED <<streamVars, down>> PROVE EmitsTail(<<>>)
BY SendingTails, RemarkTypes, KindsAreKinds

\* What becomes of the messages on their way up.
LEMMA ReadShows ==
    ASSUME ServerTypeOK, Reads
    PROVE  /\ \A i \in Actions' : \E m \in Actions : up'[i] = up[m] /\ (up' # up => m = i + 1 /\ i \in Nat) /\ (up' = up => m = i)
           /\ \A i \in Actions : i \in Nat /\ up[i].request \in Nat \ {0} /\ up[i].epoch \in Nat
           /\ \A i, j \in Actions' : i < j => \E m, o \in Actions : m < o /\ up'[i] = up[m] /\ up'[j] = up[o]
           /\ \A x : Popped(x) => /\ 1 \in Actions /\ x = up[1].request
                                  /\ \A i \in Actions' : \E m \in Actions : 1 < m /\ up'[i] = up[m]
<1>1. up \in Seq(Message)
    BY DEF ServerTypeOK
<1>2. ASSUME NEW i \in Actions PROVE i \in Nat /\ up[i].request \in Nat \ {0} /\ up[i].epoch \in Nat
    <2>1. i \in DOMAIN up /\ up[i] \in Message /\ up[i].type = "action" /\ i \in Nat
        BY <1>1, Typed DEF Actions
    <2>2. up[i] \in ActionMessage
        BY <2>1 DEF Message
    <2> QED BY <2>1, <2>2 DEF ActionMessage
<1>3. CASE up' = up
    <2>1. Actions' = Actions
        BY <1>3 DEF Actions
    <2>2. ASSUME NEW x, Popped(x) PROVE FALSE
        <3>1. up # <<>> /\ up' = Tail(up)
            BY <2>2 DEF Popped
        <3>2. Len(Tail(up)) = Len(up) - 1 /\ Len(up) \in Nat
            BY <1>1, <3>1, Tailed
        <3> QED BY <1>3, <3>1, <3>2
    <2> QED BY <1>2, <1>3, <2>1, <2>2
<1>4. CASE up # <<>> /\ up' = Tail(up)
    <2>1. /\ Len(up) \in Nat \ {0} /\ Len(up') = Len(up) - 1 /\ DOMAIN up = 1..Len(up) /\ DOMAIN up' = 1..(Len(up) - 1)
          /\ \A i \in 1..(Len(up) - 1) : up'[i] = up[i + 1]
          /\ 1 \in DOMAIN up
        BY <1>1, <1>4, Tailed
    <2>2. ASSUME NEW i \in Actions' PROVE i \in Nat \ {0} /\ i + 1 \in Actions /\ up'[i] = up[i + 1] /\ 1 < i + 1
        <3>1. i \in 1..(Len(up) - 1) /\ up'[i].type = "action"
            BY <2>1 DEF Actions
        <3>2. up'[i] = up[i + 1] /\ i + 1 \in DOMAIN up /\ i \in Nat \ {0} /\ 1 < i + 1
            BY <2>1, <3>1
        <3> QED BY <3>1, <3>2 DEF Actions
    <2>3. up' # up
        BY <2>1
    <2>4. ASSUME NEW i \in Actions', NEW j \in Actions', i < j
          PROVE  \E m, o \in Actions : m < o /\ up'[i] = up[m] /\ up'[j] = up[o]
        <3>1. i + 1 < j + 1
            BY <2>2, <2>4
        <3> QED BY <2>2, <3>1
    <2>5. ASSUME NEW x, Popped(x)
          PROVE  /\ 1 \in Actions /\ x = up[1].request
                 /\ \A i \in Actions' : \E m \in Actions : 1 < m /\ up'[i] = up[m]
        BY <2>1, <2>2, <2>5 DEF Popped, Actions
    <2> QED BY <1>2, <2>2, <2>3, <2>4, <2>5
<1> QED BY <1>3, <1>4 DEF Reads

LEMMA NumberedServed ==
    ASSUME ServerTypeOK, Numbered, NEW tail, EmitsTail(tail), NEW d, NEW add, Queue(d, add), Reads, UNCHANGED <<flight, asks>>,
           \A q \in DOMAIN add : add[1].request = 0 \/ add[1].request \in Known \/ Popped(add[1].request),
           tail # <<>> /\ tail[1].type = "result" => tail[1].request \in Known \/ Popped(tail[1].request),
           running' # NoRequest => running'[1] \in Known \/ Popped(running'[1])
    PROVE  Numbered'
<1>1. ASSUME NEW x \in Known' PROVE x = 0 \/ x \in Known \/ Popped(x)
    <2>1. CASE \E q \in DOMAIN jobs' : x = jobs'[q].request
        <3>1. PICK q \in DOMAIN jobs' : x = jobs'[q].request
            BY <2>1
        <3>2. jobs'[q] \in Kept(d, add) /\ \A r \in DOMAIN add : r = 1
            BY QueueShows
        <3>3. (\E p \in DOMAIN jobs : jobs'[q] = jobs[p]) \/ (1 \in DOMAIN add /\ jobs'[q] = add[1])
            BY <3>2 DEF Kept
        <3> QED BY <3>1, <3>3 DEF Known
    <2>2. CASE \E i \in Results' : x = down'[i].request
        <3>1. PICK i \in Results' : x = down'[i].request
            BY <2>2
        <3>2. (i \in Results /\ down'[i] = down[i]) \/ (tail # <<>> /\ down'[i] = tail[1])
            BY TailShows
        <3> QED BY <3>1, <3>2 DEF Known, Results
    <2>3. CASE running' # NoRequest /\ x = running'[1]
        BY <2>3
    <2> QED BY <2>1, <2>2, <2>3 DEF Known
<1>2. /\ \A i \in Actions' : \E m \in Actions : up'[i] = up[m]
      /\ \A i \in Actions : i \in Nat /\ up[i].request \in Nat \ {0}
      /\ \A i, j \in Actions' : i < j => \E m, o \in Actions : m < o /\ up'[i] = up[m] /\ up'[j] = up[o]
      /\ \A x : Popped(x) => /\ 1 \in Actions /\ x = up[1].request
                             /\ \A i \in Actions' : \E m \in Actions : 1 < m /\ up'[i] = up[m]
    BY ReadShows
<1>3. asks \in Nat
    BY DEF ServerTypeOK
<1>4. ASSUME NEW x \in Known' PROVE x <= asks /\ \A i \in Actions' : x < up'[i].request
    <2>1. CASE x = 0
        BY <1>2, <1>3, <2>1
    <2>2. CASE x \in Known
        BY <1>2, <2>2 DEF Numbered
    <2>3. CASE Popped(x)
        BY <1>2, <2>3 DEF Numbered
    <2> QED BY <1>1, <2>1, <2>2, <2>3
<1>5. \A i \in Actions' : up'[i].request <= asks
    BY <1>2 DEF Numbered
<1>6. \A i, j \in Actions' : i < j => up'[i].request < up'[j].request
    BY <1>2 DEF Numbered
<1> QED BY <1>4, <1>5, <1>6 DEF Numbered

LEMMA SingleServed ==
    ASSUME ServerTypeOK, Single, NEW tail, EmitsTail(tail), NEW d, NEW add, Queue(d, add),
           \A q \in DOMAIN add, p \in DOMAIN jobs : p > d /\ add[1].request # 0 => jobs[p].request # add[1].request,
           \A j \in Kept(d, add) : j.kind = "done" => running' = <<j.request>>,
           \A j \in Kept(d, add) : j.kind = "stale" => running' # <<j.request>>,
           running' # NoRequest =>
               /\ \A i \in Results : down[i].request # running'[1]
               /\ tail # <<>> /\ tail[1].type = "result" => tail[1].request # running'[1]
    PROVE  Single'
<1>1. \A q, r \in DOMAIN jobs' : jobs'[q].request = jobs'[r].request /\ jobs'[q].request # 0 => q = r
    <2> SUFFICES ASSUME NEW q \in DOMAIN jobs', NEW r \in DOMAIN jobs', q # r, jobs'[q].request = jobs'[r].request,
                        jobs'[q].request # 0
                 PROVE  FALSE
        OBVIOUS
    <2>1. \/ \E p, s \in DOMAIN jobs : p # s /\ p > d /\ s > d /\ jobs'[q] = jobs[p] /\ jobs'[r] = jobs[s]
          \/ \E p \in DOMAIN jobs : p > d /\ add # <<>> /\ (\/ jobs'[q] = jobs[p] /\ jobs'[r] = add[1]
                                                            \/ jobs'[r] = jobs[p] /\ jobs'[q] = add[1])
        BY QueueShows
    <2>2. add # <<>> => 1 \in DOMAIN add
        BY DEF Queue, Added
    <2> QED BY <2>1, <2>2 DEF Single
<1>2. \A q \in DOMAIN jobs' : jobs'[q] \in Kept(d, add)
    BY QueueShows
<1>3. ASSUME running' # NoRequest, NEW i \in Results' PROVE down'[i].request # running'[1]
    <2>1. (i \in Results /\ down'[i] = down[i]) \/ (tail # <<>> /\ down'[i] = tail[1])
        BY TailShows
    <2>2. down'[i].type = "result"
        BY DEF Results
    <2> QED BY <1>3, <2>1, <2>2
<1>4. \A q \in DOMAIN jobs' : jobs'[q].kind = "done" => running' = <<jobs'[q].request>>
    BY <1>2
<1>5. \A q \in DOMAIN jobs' : jobs'[q].kind = "stale" => running' # <<jobs'[q].request>>
    BY <1>2
<1> QED BY <1>1, <1>3, <1>4, <1>5 DEF Single

LEMMA HeldServed ==
    ASSUME ServerTypeOK, Held, Reads, UNCHANGED <<activeEpoch, flight, epoch>>,
           running' # NoRequest => \/ running' = running
                                   \/ 1 \in Actions /\ up[1].epoch = epoch /\ running'[1] = up[1].request
    PROVE  Held'
<1>1. \A i \in Actions' : \E m \in Actions : up'[i] = up[m]
    BY ReadShows
<1>2. ASSUME NEW i \in Actions'
      PROVE  /\ up'[i].epoch <= epoch'
             /\ up'[i].epoch = epoch' => activeEpoch' = epoch' /\ InFlight(up[i].request)'
    BY <1>1 DEF Held, InFlight
<1>3. ASSUME running' # NoRequest PROVE activeEpoch' = epoch' /\ InFlight(running[1])'
    <2>1. CASE running' = running
        BY <1>3, <2>1 DEF Held, InFlight
    <2>2. CASE 1 \in Actions /\ up[1].epoch = epoch /\ running'[1] = up[1].request
        BY <1>3, <2>2 DEF Held, InFlight
    <2> QED BY <1>3, <2>1, <2>2
<1> QED BY <1>2, <1>3 DEF Held, InFlight

LEMMA PastServed ==
    ASSUME ServerTypeOK, Past, NEW tail, EmitsTail(tail), UNCHANGED <<effect, activeEpoch>>
    PROVE  /\ Past'
           /\ \A j \in Nat : FromHere(j) => FromHere(j)'
<1>1. /\ epoch' = epoch /\ issued \in Nat /\ issued' \in Nat /\ issued <= issued'
      /\ effect.epoch \in Nat /\ effect.revision \in Nat /\ epoch \in Nat
    BY TailShows DEF ServerTypeOK, Epochs
<1>2. \A i \in Pubs' : \/ i \in Pubs /\ down'[i] = down[i]
                       \/ down'[i].epoch = epoch /\ down'[i].revision = issued + 1
    BY TailShows
<1>3. effect.epoch = epoch => effect.revision <= issued + 1 /\ effect.revision <= issued' + 1
    BY <1>1 DEF Past
<1>4. effect.epoch \notin {0, activeEpoch} => effect.epoch < epoch /\ \A i \in Pubs' : effect.epoch < down'[i].epoch
    BY <1>1, <1>2 DEF Past
<1>5. Past'
    BY <1>1, <1>3, <1>4 DEF Past
<1>6. ASSUME NEW j \in Nat, FromHere(j), NEW i \in Pubs', j < i, down'[i].epoch = effect.epoch
      PROVE  down'[i].revision >= effect.revision
    <2>1. CASE i \in Pubs /\ down'[i] = down[i]
        BY <1>6, <2>1 DEF FromHere
    <2>2. CASE down'[i].epoch = epoch /\ down'[i].revision = issued + 1
        BY <1>1, <1>3, <1>6, <2>2
    <2> QED BY <1>2, <2>1, <2>2
<1> QED BY <1>5, <1>6 DEF FromHere

LEMMA PromisedServed ==
    ASSUME ServerTypeOK, Past, Promised, NEW tail, EmitsTail(tail), UNCHANGED <<browser, effect, socket, late>>,
           Announcing => Announcing'
    PROVE  Promised'
<1>1. UNCHANGED <<connected, activeEpoch, revision, locked>>
    BY DEF browser, view
<1>2. FromHere(0) => FromHere(0)'
    BY <1>1, PastServed
<1>3. Repairing => Repairing'
    BY <1>1, <1>2 DEF Repairing
<1>4. Visible => Visible'
    BY <1>1 DEF Visible
<1> QED BY <1>1, <1>3, <1>4 DEF Promised

LEMMA AnnouncingServed ==
    ASSUME ServerTypeOK, Past, Announcing, NEW tail, EmitsTail(tail), NEW d, NEW add, Queue(d, add), Reads,
           UNCHANGED <<browser, effect>>,
           \A q \in DOMAIN add : add[1].request = flight.request =>
               add[1].kind = "answer" /\ \E p \in DOMAIN jobs : jobs[p].request = flight.request,
           running' = <<flight.request>> => running' = running /\ (d = 1 => jobs[1].request # flight.request),
           tail # <<>> /\ tail[1].type = "result" /\ tail[1].request = flight.request =>
               \E p \in DOMAIN jobs : jobs[p].request = flight.request
    PROVE  Announcing'
<1>1. UNCHANGED <<flight, activeEpoch>>
    BY DEF browser, view
<1>2. \A j \in Nat : FromHere(j) => FromHere(j)'
    BY <1>1, PastServed
<1>3. \A i \in Errors : i \in Errors' /\ i \in Nat
    <2>1. \A i \in Errors : i \in Errors'
        BY TailShows
    <2>2. \A i \in Errors : i \in Nat
        BY Typed DEF Errors, ServerTypeOK
    <2> QED BY <2>1, <2>2
<1>4. (\E p \in DOMAIN jobs : jobs[p].request = flight.request) => \E j \in Errors' : FromHere(j)'
    BY <1>2, <1>3 DEF Announcing
<1>5. flight' # NoRequest /\ flight'.claimed = -1
    BY <1>1 DEF Announcing
<1>6. \A i \in Actions' : up'[i].request # flight'.request
    <2>1. \A i \in Actions' : \E m \in Actions : up'[i] = up[m]
        BY ReadShows
    <2> QED BY <1>1, <2>1 DEF Announcing
<1>7. ASSUME running' = <<flight.request>> PROVE \E q \in DOMAIN jobs' : jobs'[q].request = flight.request
    <2>1. PICK p \in DOMAIN jobs : jobs[p].request = flight.request
        BY <1>7 DEF Announcing
    <2>2. p \in Nat \ {0} /\ d \in {0, 1}
        BY Typed DEF ServerTypeOK, Queue
    <2>3. p > d
        BY <1>7, <2>1, <2>2
    <2> QED BY <2>1, <2>3, QueueShows
<1>8. ASSUME NEW q \in DOMAIN jobs', jobs'[q].request = flight.request
      PROVE  jobs'[q].kind = "answer" /\ \E j \in Errors' : FromHere(j)'
    <2>1. jobs'[q] \in Kept(d, add) /\ \A r \in DOMAIN add : r = 1
        BY QueueShows
    <2>2. (\E p \in DOMAIN jobs : jobs'[q] = jobs[p]) \/ (1 \in DOMAIN add /\ jobs'[q] = add[1])
        BY <2>1 DEF Kept
    <2>3. CASE \E p \in DOMAIN jobs : jobs'[q] = jobs[p]
        BY <1>4, <1>8, <2>3 DEF Announcing
    <2>4. CASE 1 \in DOMAIN add /\ jobs'[q] = add[1]
        BY <1>4, <1>8, <2>4
    <2> QED BY <2>2, <2>3, <2>4
<1>9. ASSUME NEW i \in Results', down'[i].request = flight.request, down'[i].epoch = effect.epoch
      PROVE  \/ down'[i].revision >= effect.revision /\ FromHere(i)'
             \/ \E j \in Errors' : j < i /\ FromHere(j)'
    <2>0. i \in Nat /\ down'[i].type = "result"
        BY TailShows DEF Results
    <2>1. CASE i \in Results /\ down'[i] = down[i]
        <3>1. \/ down[i].revision >= effect.revision /\ FromHere(i)
              \/ \E j \in Errors : j < i /\ FromHere(j)
            BY <1>9, <2>1 DEF Announcing
        <3> QED BY <1>2, <1>3, <2>0, <2>1, <3>1
    <2>2. CASE tail # <<>> /\ down'[i] = tail[1] /\ \A q \in Pubs' \cup DOMAIN down : q < i
        <3>1. \E p \in DOMAIN jobs : jobs[p].request = flight.request
            BY <1>9, <2>0, <2>2
        <3>2. PICK j \in Errors : FromHere(j)
            BY <3>1 DEF Announcing
        <3>3. j < i /\ j \in Errors' /\ FromHere(j)'
            BY <1>2, <1>3, <2>2, <3>2 DEF Errors
        <3> QED BY <3>3
    <2> QED BY <2>1, <2>2, TailShows
<1> QED BY <1>1, <1>5, <1>6, <1>7, <1>8, <1>9 DEF Announcing

LEMMA QuietServed ==
    ASSUME SyncInv, ActInv, NEW tail, EmitsTail(tail), NEW d, NEW add, Queue(d, add), Reads,
           UNCHANGED <<browser, effect, socket, late, asks, running>>,
           \A q \in DOMAIN add : add[1].request = 0 /\ add[1].kind \in {"refresh", "sync"},
           d = 1 => jobs[1].request = 0,
           tail # <<>> => tail[1].type # "result"
    PROVE  ActInv'
<1>1. ServerTypeOK /\ BrowserTypeOK /\ Numbered /\ Single /\ Held /\ Past /\ Promised
    BY DEF SyncInv, ActInv
<1>2. UNCHANGED <<flight, activeEpoch, epoch>>
    BY <1>1, TailShows DEF browser, view
<1>3. \A q \in DOMAIN add : q = 1 /\ add[q] = add[1]
    BY <1>1, QueueShows
<1>4. \A j \in Kept(d, add) : (\E p \in DOMAIN jobs : j = jobs[p]) \/ (j = add[1] /\ 1 \in DOMAIN add)
    BY <1>3 DEF Kept
<1>5. Numbered'
    <2>1. running' # NoRequest => running'[1] \in Known
        BY DEF Known
    <2> QED BY <1>1, <1>2, <2>1, NumberedServed
<1>6. Single'
    <2>1. \A q \in DOMAIN add, p \in DOMAIN jobs : p > d /\ add[1].request # 0 => jobs[p].request # add[1].request
        OBVIOUS
    <2>2. \A j \in Kept(d, add) : j.kind = "done" => running' = <<j.request>>
        BY <1>1, <1>4 DEF Single
    <2>3. \A j \in Kept(d, add) : j.kind = "stale" => running' # <<j.request>>
        BY <1>1, <1>4 DEF Single
    <2>4. running' # NoRequest => \A i \in Results : down[i].request # running'[1]
        BY <1>1 DEF Single
    <2> QED BY <1>1, <2>1, <2>2, <2>3, <2>4, SingleServed
<1>7. Held'
    BY <1>1, <1>2, HeldServed
<1>8. Past'
    BY <1>1, <1>2, PastServed
<1>9. Promised'
    <2>1. ASSUME Announcing PROVE Announcing'
        <3>1. flight.request \in Nat \ {0}
            BY <1>1, <2>1 DEF BrowserTypeOK, Announcing, Flight
        <3> QED BY <1>1, <2>1, <3>1, AnnouncingServed
    <2> QED BY <1>1, <2>1, PromisedServed
<1> QED BY <1>5, <1>6, <1>7, <1>8, <1>9 DEF ActInv

\* Without a job taken or queued, and with one of each.
LEMMA Queues ==
    ASSUME ServerTypeOK
    PROVE  /\ UNCHANGED jobs => Queue(0, <<>>)
           /\ jobs # <<>> /\ jobs' = Tail(jobs) => Queue(1, <<>>)
           /\ \A j \in Job : jobs' = Append(jobs, j) => Queue(0, <<j>>)
           /\ \A j \in Job : jobs # <<>> /\ jobs' = Append(Tail(jobs), j) => Queue(1, <<j>>)
<1>1. jobs \in Seq(Job)
    BY DEF ServerTypeOK
<1>2. jobs # <<>> => Tail(jobs) \in Seq(Job)
    BY <1>1, Tailed
<1>3. \A s \in Seq(Job) : s \o <<>> = s
    BY ConcatEmptySeq
<1>4. \A s \in Seq(Job), j \in Job : Append(s, j) = s \o <<j>>
    BY AppendIsConcat
<1>5. ASSUME UNCHANGED jobs PROVE Queue(0, <<>>)
    <2>1. jobs' = jobs \o <<>>
        BY <1>1, <1>3, <1>5
    <2> QED BY <2>1 DEF Queue, Added
<1>6. ASSUME jobs # <<>>, jobs' = Tail(jobs) PROVE Queue(1, <<>>)
    <2>1. jobs' = Tail(jobs) \o <<>>
        BY <1>2, <1>3, <1>6
    <2> QED BY <1>6, <2>1 DEF Queue, Added
<1>7. ASSUME NEW j \in Job, jobs' = Append(jobs, j) PROVE Queue(0, <<j>>)
    <2>1. jobs' = jobs \o <<j>>
        BY <1>1, <1>4, <1>7
    <2> QED BY <2>1 DEF Queue, Added
<1>8. ASSUME NEW j \in Job, jobs # <<>>, jobs' = Append(Tail(jobs), j) PROVE Queue(1, <<j>>)
    <2>1. jobs' = Tail(jobs) \o <<j>>
        BY <1>2, <1>4, <1>8
    <2> QED BY <1>8, <2>1 DEF Queue, Added
<1> QED BY <1>5, <1>6, <1>7, <1>8

LEMMA QuietKeepsActs ==
    ASSUME SyncInv, ActInv, Push \/ RunRefresh \/ RunSync \/ TakeSync \/ PuppetByText \/ Login
    PROVE  ActInv'
<1>1. ServerTypeOK
    BY DEF SyncInv
<1>a. /\ <<>> \in Remarks /\ <<ProtocolError("reload_required")>> \in Remarks
      /\ <<ProtocolError("presentation_unavailable")>> \in Remarks /\ <<[type |-> "logged_in"]>> \in Remarks
      /\ ProtocolError("reload_required").type = "error" /\ ProtocolError("presentation_unavailable").type = "error"
      /\ [type |-> "logged_in"].type = "logged_in"
    BY RemarkTypes DEF ProtocolError
<1>b. /\ [kind |-> "sync", request |-> 0] \in Job /\ [kind |-> "refresh", request |-> 0] \in Job
    BY DEF Job
<1>c. jobs # <<>> => Head(jobs) = jobs[1] /\ jobs[1] \in Job
    BY <1>1, Tailed DEF ServerTypeOK
<1>d. \A j \in Job : j.kind \in {"refresh", "sync"} => j.request = 0
    BY DEF Job
<1>2. CASE Push
    <2>1. UNCHANGED <<browser, jobs, running, effect, socket, up, late, asks>> /\ (Publishes(Kinds, <<>>) \/ Loses(Kinds, <<>>))
        BY <1>2 DEF Push, server
    <2>2. EmitsTail(<<>>) /\ Queue(0, <<>>) /\ Reads
        BY <1>1, <1>a, <2>1, SendingTails, KindsAreKinds, Queues DEF Reads
    <2> QED BY <2>1, <2>2, QuietServed
<1>3. CASE RunRefresh
    <2>1. /\ jobs # <<>> /\ Head(jobs).kind = "refresh" /\ jobs' = Tail(jobs)
          /\ UNCHANGED <<browser, running, effect, socket, up, late, asks>>
          /\ \/ Publishes(Kinds, <<>>) \/ Loses(Kinds, <<>>) \/ Fails(<<>>) \/ UNCHANGED <<streamVars, down>>
        BY <1>3 DEF RunRefresh
    <2>2. EmitsTail(<<>>)
        BY <1>1, <1>a, <2>1, SendingTails, QuietTails, KindsAreKinds
    <2>3. Queue(1, <<>>) /\ Reads /\ jobs[1].request = 0
        BY <1>1, <1>c, <1>d, <2>1, Queues DEF Reads
    <2> QED BY <2>1, <2>2, <2>3, QuietServed
<1>4. CASE RunSync
    <2>1. /\ jobs # <<>> /\ Head(jobs).kind = "sync" /\ jobs' = Tail(jobs)
          /\ UNCHANGED <<browser, running, effect, socket, up, late, asks>>
          /\ \/ Publishes({"snapshot"}, <<>>) \/ Loses({"snapshot"}, <<ProtocolError("reload_required")>>)
             \/ Fails(<<ProtocolError("presentation_unavailable")>>)
        BY <1>4 DEF RunSync
    <2>2. Queue(1, <<>>) /\ Reads /\ jobs[1].request = 0
        BY <1>1, <1>c, <1>d, <2>1, Queues DEF Reads
    <2>3. PICK tail \in Remarks : EmitsTail(tail) /\ (tail # <<>> => tail[1].type # "result")
        BY <1>1, <1>a, <2>1, SendingTails, KindsAreKinds
    <2> QED BY <2>1, <2>2, <2>3, QuietServed
<1>5. CASE TakeSync
    <2>1. /\ up # <<>> /\ up' = Tail(up) /\ UNCHANGED <<browser, streamVars, running, effect, socket, down, late, asks>>
          /\ jobs' = IF puppet THEN Append(jobs, [kind |-> "sync", request |-> 0]) ELSE jobs
        BY <1>5 DEF TakeSync, counters
    <2>2. EmitsTail(<<>>) /\ Reads
        BY <1>1, <2>1, QuietTails DEF Reads
    <2>3. CASE puppet
        <3>1. Queue(0, <<[kind |-> "sync", request |-> 0]>>)
            BY <1>1, <1>b, <2>1, <2>3, Queues
        <3> QED BY <2>1, <2>2, <3>1, QuietServed
    <2>4. CASE ~puppet
        <3>1. Queue(0, <<>>)
            BY <1>1, <2>1, <2>4, Queues
        <3> QED BY <2>1, <2>2, <3>1, QuietServed
    <2> QED BY <2>3, <2>4
<1>6. CASE PuppetByText
    <2>1. /\ UNCHANGED <<browser, streamVars, running, effect, socket, down, up, late, asks>>
          /\ jobs' = Append(jobs, [kind |-> "refresh", request |-> 0])
        BY <1>6 DEF PuppetByText, counters
    <2>2. EmitsTail(<<>>) /\ Reads
        BY <1>1, <2>1, QuietTails DEF Reads
    <2>3. Queue(0, <<[kind |-> "refresh", request |-> 0]>>)
        BY <1>1, <1>b, <2>1, Queues
    <2> QED BY <2>1, <2>2, <2>3, QuietServed
<1>7. CASE Login
    <2>1. /\ UNCHANGED <<browser, streamVars, jobs, running, effect, socket, up, late, asks>>
          /\ Send(<<[type |-> "logged_in"]>>)
        BY <1>7 DEF Login, counters
    <2>2. EmitsTail(<<[type |-> "logged_in"]>>) /\ Reads /\ Queue(0, <<>>)
        BY <1>1, <1>a, <2>1, SendingTails, KindsAreKinds, Queues DEF Reads
    <2> QED BY <1>a, <2>1, <2>2, QuietServed
<1> QED BY <1>2, <1>3, <1>4, <1>5, <1>6, <1>7

\* An action at the head of the queue is younger than all that is known.
LEMMA HeadIsNew ==
    ASSUME ServerTypeOK, Numbered, up # <<>>, Head(up).type = "action"
    PROVE  /\ 1 \in Actions /\ up[1] = Head(up) /\ up[1] \in ActionMessage
           /\ \A x \in Known : x # up[1].request
           /\ up' = Tail(up) => Popped(up[1].request) /\ Reads
<1>1. Head(up) = up[1] /\ up[1] \in Message /\ 1 \in DOMAIN up /\ up \in Seq(Message)
    BY Tailed DEF ServerTypeOK
<1>2. 1 \in Actions /\ up[1] \in ActionMessage
    BY <1>1 DEF Actions, Message
<1>3. up[1].request \in Nat
    BY <1>2 DEF ActionMessage
<1>4. \A x \in Known : x < up[1].request
    BY <1>2 DEF Numbered
<1> QED BY <1>1, <1>2, <1>3, <1>4 DEF Popped, Reads

LEMMA TakesKeepActs ==
    ASSUME SyncInv, ActInv, TakeActionUnpuppeted \/ TakeActionStale \/ TakeAction
    PROVE  ActInv'
<1>1. ServerTypeOK /\ BrowserTypeOK /\ Numbered /\ Single /\ Held /\ Past /\ Promised
    BY DEF SyncInv, ActInv
<1> DEFINE r == up[1].request
<1>2. /\ up # <<>> /\ Head(up).type = "action" /\ up' = Tail(up)
      /\ UNCHANGED <<browser, streamVars, effect, socket, late, asks, puppet>>
    BY DEF TakeActionUnpuppeted, TakeActionStale, TakeAction, server, counters
<1>3. /\ 1 \in Actions /\ up[1] = Head(up) /\ up[1] \in ActionMessage /\ Popped(r) /\ Reads
      /\ (\A x \in Known : x # r) /\ r \in Nat \ {0}
    BY <1>1, <1>2, HeadIsNew DEF ActionMessage
<1>4. UNCHANGED <<flight, activeEpoch, epoch>>
    BY <1>2 DEF browser, view, streamVars
<1>5. Announcing => flight.request # r
    BY <1>3 DEF Announcing
<1> HIDE DEF r
<1>6. /\ \A p \in DOMAIN jobs : jobs[p].request # r
      /\ \A i \in Results : down[i].request # r
      /\ running # NoRequest => running[1] # r
    BY <1>3 DEF Known
<1>7. CASE TakeActionUnpuppeted
    <2> DEFINE f == Result(up[1].epoch, r, "no_puppet", up[1].base)
    <2>1. ~puppet /\ UNCHANGED <<jobs, running>> /\ Send(<<f>>)
        BY <1>3, <1>7 DEF TakeActionUnpuppeted, server, r
    <2>2. <<f>> \in Remarks
        <3>1. up[1].epoch \in Epochs /\ up[1].base \in Revisions
            BY <1>3 DEF ActionMessage, Epochs
        <3> QED BY <1>3, <3>1, RemarkTypes
    <2>3. f.request = r
        BY DEF Result
    <2> HIDE DEF f
    <2>4. EmitsTail(<<f>>) /\ Queue(0, <<>>)
        BY <1>1, <1>2, <2>1, <2>2, SendingTails, KindsAreKinds, Queues
    <2>5. jobs = <<>> /\ running = NoRequest
        BY <2>1 DEF SyncInv, Idle
    <2>6. Numbered'
        BY <1>1, <1>2, <1>3, <1>4, <2>1, <2>3, <2>4, <2>5, NumberedServed
    <2>7. Single'
        <3>1. \A j \in Kept(0, <<>>) : FALSE
            BY <2>5 DEF Kept
        <3> QED BY <1>1, <2>1, <2>4, <2>5, <3>1, SingleServed
    <2>8. Held'
        BY <1>1, <1>3, <1>4, <2>1, HeldServed
    <2>9. Past'
        BY <1>1, <1>2, <1>4, <2>4, PastServed
    <2>10. Announcing => Announcing'
        BY <1>1, <1>2, <1>3, <1>5, <2>1, <2>3, <2>4, AnnouncingServed
    <2>11. Promised'
        BY <1>1, <1>2, <2>4, <2>10, PromisedServed
    <2> QED BY <2>6, <2>7, <2>8, <2>9, <2>11 DEF ActInv
<1>8. CASE TakeActionStale
    <2> DEFINE j == [kind |-> "stale", request |-> r]
    <2>1. jobs' = Append(jobs, j) /\ UNCHANGED <<running, down>>
        BY <1>3, <1>8 DEF TakeActionStale, r
    <2>2. j \in Job /\ j.request = r /\ j.kind = "stale"
        BY <1>3 DEF Job
    <2> HIDE DEF j
    <2>3. EmitsTail(<<>>) /\ Queue(0, <<j>>)
        BY <1>1, <1>2, <2>1, <2>2, QuietTails, Queues
    <2>4. \A q \in DOMAIN <<j>> : q = 1 /\ <<j>>[q] = j
        OBVIOUS
    <2>5. Numbered'
        <3>1. running' # NoRequest => running'[1] \in Known
            BY <2>1 DEF Known
        <3> QED BY <1>1, <1>2, <1>3, <1>4, <2>1, <2>2, <2>3, <2>4, <3>1, NumberedServed
    <2>6. Single'
        <3>1. \A x \in Kept(0, <<j>>) : x = j \/ \E p \in DOMAIN jobs : x = jobs[p]
            BY <2>4 DEF Kept
        <3>2. \A x \in Kept(0, <<j>>) : x.kind = "done" => running' = <<x.request>>
            BY <1>1, <2>1, <2>2, <3>1 DEF Single
        <3>3. \A x \in Kept(0, <<j>>) : x.kind = "stale" => running' # <<x.request>>
            <4>1. running' # <<r>>
                BY <1>6, <2>1 DEF NoRequest
            <4> QED BY <1>1, <2>1, <2>2, <3>1, <4>1 DEF Single
        <3>4. running' # NoRequest => \A i \in Results : down[i].request # running'[1]
            BY <1>1, <2>1 DEF Single
        <3> QED BY <1>1, <1>6, <2>2, <2>3, <2>4, <3>2, <3>3, <3>4, SingleServed
    <2>7. Held'
        BY <1>1, <1>3, <1>4, <2>1, HeldServed
    <2>8. Past'
        BY <1>1, <1>2, <1>4, <2>3, PastServed
    <2>9. ASSUME Announcing PROVE Announcing'
        <3>1. \A q \in DOMAIN <<j>> : <<j>>[1].request # flight.request
            BY <1>5, <2>2, <2>4, <2>9
        <3> QED BY <1>1, <1>2, <1>3, <2>1, <2>3, <2>9, <3>1, AnnouncingServed
    <2>10. Promised'
        BY <1>1, <1>2, <2>3, <2>9, PromisedServed
    <2> QED BY <2>5, <2>6, <2>7, <2>8, <2>10 DEF ActInv
<1>9. CASE TakeAction
    <2>1. running = NoRequest /\ running' = <<r>> /\ UNCHANGED <<jobs, down>> /\ up[1].epoch = epoch
        BY <1>3, <1>9 DEF TakeAction, Current, r
    <2>2. EmitsTail(<<>>) /\ Queue(0, <<>>)
        BY <1>1, <1>2, <2>1, QuietTails, Queues
    <2>3. Numbered'
        BY <1>1, <1>2, <1>3, <1>4, <2>1, <2>2, NumberedServed
    <2>4. Single'
        <3>1. \A x \in Kept(0, <<>>) : \E p \in DOMAIN jobs : x = jobs[p]
            BY DEF Kept
        <3>2. \A x \in Kept(0, <<>>) : x.kind # "done"
            BY <1>1, <2>1, <3>1 DEF Single, NoRequest
        <3>3. \A x \in Kept(0, <<>>) : running' # <<x.request>>
            BY <1>6, <2>1, <3>1
        <3> QED BY <1>1, <1>6, <2>1, <2>2, <3>2, <3>3, SingleServed
    <2>5. Held'
        <3>1. running'[1] = up[1].request
            BY <2>1 DEF r
        <3> QED BY <1>1, <1>3, <1>4, <2>1, <3>1, HeldServed
    <2>6. Past'
        BY <1>1, <1>2, <1>4, <2>2, PastServed
    <2>7. Announcing => Announcing'
        BY <1>1, <1>2, <1>3, <1>5, <2>1, <2>2, AnnouncingServed
    <2>8. Promised'
        BY <1>1, <1>2, <2>2, <2>7, PromisedServed
    <2> QED BY <2>3, <2>4, <2>5, <2>6, <2>8 DEF ActInv
<1> QED BY <1>7, <1>8, <1>9

LEMMA SettleKeepsActs == ASSUME SyncInv, ActInv, Settle PROVE ActInv'
<1>1. ServerTypeOK /\ BrowserTypeOK /\ Numbered /\ Single /\ Held /\ Past /\ Promised
    BY DEF SyncInv, ActInv
<1> DEFINE r == running[1]
<1> DEFINE j == [kind |-> "done", request |-> r]
<1>2. /\ running # NoRequest /\ (\A p \in DOMAIN jobs : jobs[p].request # r) /\ jobs' = Append(jobs, j)
      /\ UNCHANGED <<browser, streamVars, effect, socket, late, asks, running, down, up>>
    BY DEF Settle, counters
<1>3. r \in Nat \ {0} /\ running = <<r>> /\ r \in Known
    BY <1>1, <1>2 DEF ServerTypeOK, Known
<1>4. UNCHANGED <<flight, activeEpoch, epoch>> /\ Reads
    BY <1>2 DEF browser, view, streamVars, Reads
<1>5. j \in Job /\ j.request = r /\ j.kind = "done"
    BY <1>3 DEF Job
<1> HIDE DEF j
<1>6. EmitsTail(<<>>) /\ Queue(0, <<j>>)
    BY <1>1, <1>2, <1>5, QuietTails, Queues
<1>7. \A q \in DOMAIN <<j>> : q = 1 /\ <<j>>[q] = j
    OBVIOUS
<1>8. Numbered'
    BY <1>1, <1>2, <1>3, <1>4, <1>5, <1>6, <1>7, NumberedServed
<1>9. Single'
    <2>1. \A x \in Kept(0, <<j>>) : x = j \/ \E p \in DOMAIN jobs : x = jobs[p]
        BY <1>7 DEF Kept
    <2>2. \A x \in Kept(0, <<j>>) : x.kind = "done" => running' = <<x.request>>
        BY <1>1, <1>2, <1>3, <1>5, <2>1 DEF Single
    <2>3. \A x \in Kept(0, <<j>>) : x.kind = "stale" => running' # <<x.request>>
        BY <1>1, <1>2, <1>5, <2>1 DEF Single
    <2>4. running' # NoRequest => \A i \in Results : down[i].request # running'[1]
        BY <1>1, <1>2 DEF Single
    <2> QED BY <1>1, <1>2, <1>5, <1>6, <1>7, <2>2, <2>3, <2>4, SingleServed
<1>10. Held'
    BY <1>1, <1>2, <1>4, HeldServed
<1>11. Past'
    BY <1>1, <1>2, <1>4, <1>6, PastServed
<1>12. ASSUME Announcing PROVE Announcing'
    <2>1. flight.request # r
        BY <1>2, <1>3, <1>12 DEF Announcing
    <2>2. running' # <<flight.request>>
        BY <1>2, <1>3, <2>1
    <2> QED BY <1>1, <1>2, <1>4, <1>5, <1>6, <1>7, <1>12, <2>1, <2>2, AnnouncingServed
<1>13. Promised'
    BY <1>1, <1>2, <1>6, <1>12, PromisedServed
<1> QED BY <1>8, <1>9, <1>10, <1>11, <1>13 DEF ActInv

\* The entry being worked on, and what is known of its request.
LEMMA HeadEntry ==
    ASSUME SyncInv, ActInv, jobs # <<>>, Head(jobs).kind \in {"stale", "done", "answer"}
    PROVE  /\ 1 \in DOMAIN jobs /\ jobs[1] = Head(jobs) /\ Head(jobs).request \in Nat \ {0} /\ Head(jobs).request \in Known
           /\ \A p \in DOMAIN jobs : p \in Nat /\ (p > 1 => jobs[p].request # Head(jobs).request)
           /\ \A p \in DOMAIN jobs : p > 1 /\ jobs[p].kind = "done" => running = <<jobs[p].request>> /\ running # <<Head(jobs).request>>
           /\ \A p \in DOMAIN jobs : jobs[p].kind = "stale" => running # <<jobs[p].request>>
           /\ [kind |-> "answer", request |-> Head(jobs).request] \in Job
<1>1. ServerTypeOK /\ Single
    BY DEF SyncInv, ActInv
<1>2. 1 \in DOMAIN jobs /\ jobs[1] = Head(jobs) /\ Head(jobs) \in Job
    BY <1>1, Tailed DEF ServerTypeOK
<1>3. Head(jobs).request \in Nat \ {0}
    BY <1>2, JobKinds
<1>4. \A p \in DOMAIN jobs : p \in Nat
    BY <1>1, Typed DEF ServerTypeOK
<1>5. \A p \in DOMAIN jobs : p > 1 => jobs[p].request # Head(jobs).request
    <2> SUFFICES ASSUME NEW p \in DOMAIN jobs, p > 1, jobs[p].request = Head(jobs).request PROVE FALSE
        OBVIOUS
    <2>1. p = 1
        BY <1>1, <1>2, <1>3 DEF Single
    <2> QED BY <2>1
<1>6. \A p \in DOMAIN jobs : p > 1 /\ jobs[p].kind = "done" => running = <<jobs[p].request>> /\ running # <<Head(jobs).request>>
    BY <1>1, <1>5 DEF Single
<1>7. [kind |-> "answer", request |-> Head(jobs).request] \in Job
    BY <1>3 DEF Job
<1> QED BY <1>1, <1>2, <1>3, <1>4, <1>5, <1>6, <1>7 DEF Known, Single

LEMMA StaleKeepsActs == ASSUME SyncInv, ActInv, RunStale PROVE ActInv'
<1> DEFINE id == Head(jobs).request
<1> DEFINE j == [kind |-> "answer", request |-> id]
<1> DEFINE f == Result(epoch, id, "stale", issued + 1)
<1>1. ServerTypeOK /\ BrowserTypeOK /\ Numbered /\ Single /\ Held /\ Past /\ Promised
    BY DEF SyncInv, ActInv
<1>2. /\ jobs # <<>> /\ Head(jobs).kind = "stale"
      /\ UNCHANGED <<browser, running, effect, socket, up, late, asks>>
      /\ \/ Publishes({"snapshot"}, <<f>>) /\ jobs' = Tail(jobs)
         \/ /\ Loses({"snapshot"}, Unavailable) \/ Fails(Unavailable) \/ Publishes({"snapshot"}, Unavailable)
            /\ jobs' = Append(Tail(jobs), j)
    BY DEF RunStale, AnswerLater
<1>3. /\ 1 \in DOMAIN jobs /\ jobs[1] = Head(jobs) /\ id \in Nat \ {0} /\ id \in Known
      /\ \A p \in DOMAIN jobs : p \in Nat /\ (p > 1 => jobs[p].request # id)
      /\ \A p \in DOMAIN jobs : p > 1 /\ jobs[p].kind = "done" => running = <<jobs[p].request>>
      /\ \A p \in DOMAIN jobs : jobs[p].kind = "stale" => running # <<jobs[p].request>>
      /\ j \in Job
    BY <1>2, HeadEntry
<1>4. UNCHANGED <<flight, activeEpoch>> /\ Reads
    BY <1>2 DEF browser, view, Reads
<1>5. running # <<id>> /\ (Announcing => flight.request # id)
    <2>1. running # <<id>>
        BY <1>2, <1>3
    <2>2. ASSUME Announcing, flight.request = id PROVE FALSE
        <3>1. jobs[1].kind = "answer"
            BY <1>3, <2>2 DEF Announcing
        <3> QED BY <1>2, <1>3, <3>1
    <2> QED BY <2>1, <2>2
<1>6. f.request = id /\ f.type = "result" /\ j.request = id /\ j.kind = "answer" /\ jobs[1].request = id
    BY <1>3 DEF Result
<1>7. Publishes({"snapshot"}, <<f>>) => <<f>> \in Remarks
    <2> SUFFICES ASSUME Publishes({"snapshot"}, <<f>>) PROVE <<f>> \in Remarks
        OBVIOUS
    <2>1. issued < MaxRevision
        BY DEF Publishes, Stream!Publish
    <2>2. issued + 1 \in Revisions /\ epoch \in Epochs
        <3>1. issued \in Nat /\ MaxRevision \in Nat /\ issued + 1 <= MaxRevision
            BY <1>1, <2>1, SyncAssumption DEF ServerTypeOK, Revisions
        <3>2. issued + 1 \in Revisions
            BY <3>1 DEF Revisions
        <3>3. epoch \in Epochs
            BY <1>1, SyncAssumption DEF ServerTypeOK, Epochs
        <3> QED BY <3>2, <3>3
    <2> QED BY <1>3, <2>2, RemarkTypes
<1> HIDE DEF f, j, id
<1>8. PICK tail \in Remarks, add \in {<<>>, <<j>>} :
          /\ EmitsTail(tail) /\ Queue(1, add)
          /\ tail # <<>> /\ tail[1].type = "result" => tail[1].request = id
    <2>1. CASE Publishes({"snapshot"}, <<f>>) /\ jobs' = Tail(jobs)
        <3>1. EmitsTail(<<f>>) /\ Queue(1, <<>>)
            BY <1>1, <1>2, <1>7, <2>1, SendingTails, KindsAreKinds, Queues
        <3> QED BY <1>6, <1>7, <2>1, <3>1
    <2>2. CASE /\ Loses({"snapshot"}, Unavailable) \/ Fails(Unavailable) \/ Publishes({"snapshot"}, Unavailable)
               /\ jobs' = Append(Tail(jobs), j)
        <3>1. Unavailable \in Remarks /\ Unavailable[1].type = "error"
            BY RemarkTypes DEF Unavailable, ProtocolError
        <3>2. EmitsTail(Unavailable) /\ Queue(1, <<j>>)
            BY <1>1, <1>2, <1>3, <2>2, <3>1, SendingTails, KindsAreKinds, Queues
        <3> QED BY <3>1, <3>2
    <2> QED BY <1>2, <2>1, <2>2
<1>9. \A q \in DOMAIN add : q = 1 /\ add[q] = j
    BY <1>8
<1>10. \A x \in Kept(1, add) : x = j \/ \E p \in DOMAIN jobs : p > 1 /\ x = jobs[p]
    BY <1>9 DEF Kept
<1>11. epoch' = epoch
    BY <1>1, <1>8, TailShows
<1>12. Numbered'
    <2>1. running' # NoRequest => running'[1] \in Known
        BY <1>2 DEF Known
    <2> QED BY <1>1, <1>3, <1>4, <1>2, <1>6, <1>8, <1>9, <2>1, NumberedServed
<1>13. Single'
    <2>1. \A x \in Kept(1, add) : x.kind = "done" => running' = <<x.request>>
        BY <1>2, <1>3, <1>6, <1>10
    <2>2. \A x \in Kept(1, add) : x.kind = "stale" => running' # <<x.request>>
        BY <1>2, <1>3, <1>6, <1>10
    <2>3. running' # NoRequest => (\A i \in Results : down[i].request # running'[1]) /\ running'[1] # id
        BY <1>1, <1>2, <1>5 DEF Single, ServerTypeOK
    <2> QED BY <1>1, <1>3, <1>6, <1>8, <1>9, <2>1, <2>2, <2>3, SingleServed
<1>14. Held'
    BY <1>1, <1>2, <1>4, <1>11, HeldServed
<1>15. Past'
    BY <1>1, <1>2, <1>4, <1>8, PastServed
<1>16. ASSUME Announcing PROVE Announcing'
    <2>1. flight.request # id
        BY <1>5, <1>16
    <2>2. \A q \in DOMAIN add : add[1].request # flight.request
        BY <1>6, <1>9, <2>1
    <2> QED BY <1>1, <1>2, <1>4, <1>6, <1>8, <1>16, <2>1, <2>2, AnnouncingServed
<1>17. Promised'
    BY <1>1, <1>2, <1>8, <1>16, PromisedServed
<1> QED BY <1>12, <1>13, <1>14, <1>15, <1>17 DEF ActInv

LEMMA AnswerKeepsActs == ASSUME SyncInv, ActInv, RunAnswer PROVE ActInv'
<1> DEFINE id == Head(jobs).request
<1>1. ServerTypeOK /\ BrowserTypeOK /\ Numbered /\ Single /\ Held /\ Past /\ Promised
    BY DEF SyncInv, ActInv
<1>2. /\ jobs # <<>> /\ Head(jobs).kind = "answer" /\ jobs' = Tail(jobs)
      /\ UNCHANGED <<browser, streamVars, effect, socket, up, late, asks>>
      /\ running' = IF running = <<id>> THEN NoRequest ELSE running
      /\ (\E r \in HeldRevisions : Send(<<Result(epoch, id, "error", r)>>)) \/ UNCHANGED down
    BY DEF RunAnswer
<1>3. /\ 1 \in DOMAIN jobs /\ jobs[1] = Head(jobs) /\ id \in Nat \ {0} /\ id \in Known
      /\ \A p \in DOMAIN jobs : p \in Nat /\ (p > 1 => jobs[p].request # id)
      /\ \A p \in DOMAIN jobs : p > 1 /\ jobs[p].kind = "done" => running = <<jobs[p].request>> /\ running # <<id>>
      /\ \A p \in DOMAIN jobs : jobs[p].kind = "stale" => running # <<jobs[p].request>>
    BY <1>2, HeadEntry
<1>4. UNCHANGED <<flight, activeEpoch, epoch>> /\ Reads
    BY <1>2 DEF browser, view, streamVars, Reads
<1>5. jobs[1].request = id
    BY <1>3
<1> HIDE DEF id
<1>6. PICK tail \in Remarks : EmitsTail(tail) /\ (tail # <<>> /\ tail[1].type = "result" => tail[1].request = id)
    <2>1. CASE UNCHANGED down
        <3>1. EmitsTail(<<>>) /\ <<>> \in Remarks
            BY <1>1, <1>2, <2>1, QuietTails, RemarkTypes
        <3> QED BY <3>1
    <2>2. ASSUME NEW r \in HeldRevisions, Send(<<Result(epoch, id, "error", r)>>)
          PROVE  \E tail \in Remarks : EmitsTail(tail) /\ (tail # <<>> /\ tail[1].type = "result" => tail[1].request = id)
        <3>1. HeldRevisions \subseteq Revisions
            BY <1>1, SyncAssumption DEF HeldRevisions, Revisions, ServerTypeOK
        <3>2. <<Result(epoch, id, "error", r)>> \in Remarks
            <4>1. epoch \in Epochs
                BY <1>1, SyncAssumption DEF ServerTypeOK, Epochs
            <4> QED BY <1>3, <3>1, <4>1, RemarkTypes
        <3>3. EmitsTail(<<Result(epoch, id, "error", r)>>)
            BY <1>1, <1>2, <2>2, <3>2, SendingTails, KindsAreKinds
        <3>4. Result(epoch, id, "error", r).request = id
            BY DEF Result
        <3> QED BY <3>2, <3>3, <3>4
    <2> QED BY <1>2, <2>1, <2>2
<1>7. Queue(1, <<>>)
    BY <1>1, <1>2, Queues
<1>8. running' # NoRequest => running' = running /\ running # <<id>>
    BY <1>2
<1>9. Numbered'
    <2>1. running' # NoRequest => running'[1] \in Known
        BY <1>8 DEF Known
    <2> QED BY <1>1, <1>2, <1>3, <1>4, <1>6, <1>7, <2>1, NumberedServed
<1>10. Single'
    <2>1. \A x \in Kept(1, <<>>) : \E p \in DOMAIN jobs : p > 1 /\ x = jobs[p]
        BY DEF Kept
    <2>2. \A x \in Kept(1, <<>>) : x.kind = "done" => running' = <<x.request>>
        BY <1>2, <1>3, <2>1
    <2>3. \A x \in Kept(1, <<>>) : x.kind = "stale" => running' # <<x.request>>
        BY <1>2, <1>3, <2>1 DEF NoRequest
    <2>4. running' # NoRequest => (\A i \in Results : down[i].request # running'[1]) /\ running'[1] # id
        BY <1>1, <1>8 DEF Single, ServerTypeOK
    <2> QED BY <1>1, <1>6, <1>7, <2>2, <2>3, <2>4, SingleServed
<1>11. Held'
    BY <1>1, <1>4, <1>8, HeldServed
<1>12. Past'
    BY <1>1, <1>2, <1>4, <1>6, PastServed
<1>13. ASSUME Announcing PROVE Announcing'
    <2>1. running' = <<flight.request>> => running' = running /\ jobs[1].request # flight.request
        <3>1. ASSUME running' = <<flight.request>> PROVE running' = running /\ id # flight.request
            BY <1>8, <3>1 DEF NoRequest
        <3> QED BY <1>5, <3>1
    <2>2. tail # <<>> /\ tail[1].type = "result" /\ tail[1].request = flight.request => \E p \in DOMAIN jobs : jobs[p].request = flight.request
        BY <1>3, <1>5, <1>6
    <2> QED BY <1>1, <1>2, <1>4, <1>6, <1>7, <1>13, <2>1, <2>2, AnnouncingServed
<1>14. Promised'
    BY <1>1, <1>2, <1>6, <1>13, PromisedServed
<1> QED BY <1>9, <1>10, <1>11, <1>12, <1>14 DEF ActInv

\* A completed action: what it did is announced in the same critical section,
\* or its failure is.
LEMMA CompletionKeepsActs == ASSUME SyncInv, SyncInv', ActInv, RunCompletion PROVE ActInv'
<1> DEFINE id == Head(jobs).request
<1> DEFINE j == [kind |-> "answer", request |-> id]
<1> DEFINE now == Result(epoch, id, "success", issued + 1)
<1> DEFINE old == Result(epoch, id, "success", shown.revision)
<1>1. ServerTypeOK /\ BrowserTypeOK /\ Numbered /\ Single /\ Held /\ Past
    BY DEF SyncInv, ActInv
<1>2. /\ jobs # <<>> /\ Head(jobs).kind = "done" /\ UNCHANGED <<browser, socket, up, late, asks>>
      /\ \/ /\ \/ Publishes(Kinds, <<now>>)
               \/ Publishes(Kinds, <<>>)
               \/ trusted /\ UNCHANGED streamVars /\ (Send(<<old>>) \/ UNCHANGED down)
            /\ effect' = [epoch |-> epoch, revision |-> shown'.revision]
            /\ jobs' = Tail(jobs) /\ running' = NoRequest
         \/ /\ Loses(Kinds, Unavailable) \/ Fails(Unavailable)
            /\ effect' = [epoch |-> epoch, revision |-> issued' + 1]
            /\ jobs' = Append(Tail(jobs), j) /\ running' = running
    BY DEF RunCompletion, AnswerLater
<1>3. /\ 1 \in DOMAIN jobs /\ jobs[1] = Head(jobs) /\ id \in Nat \ {0} /\ id \in Known
      /\ \A p \in DOMAIN jobs : p \in Nat /\ (p > 1 => jobs[p].request # id)
      /\ \A p \in DOMAIN jobs : p > 1 /\ jobs[p].kind = "done" => running = <<jobs[p].request>> /\ running # <<id>>
      /\ \A p \in DOMAIN jobs : jobs[p].kind = "stale" => running # <<jobs[p].request>>
      /\ j \in Job
    BY <1>2, HeadEntry
<1>4. UNCHANGED <<flight, activeEpoch, connected>> /\ Reads
    BY <1>2 DEF browser, view, Reads
<1>5. running = <<id>> /\ running # NoRequest /\ running[1] = id
    <2>1. running = <<id>>
        BY <1>1, <1>2, <1>3 DEF Single
    <2> QED BY <2>1 DEF NoRequest
<1>6. activeEpoch = epoch /\ flight # NoRequest /\ flight.request = id /\ flight.claimed = -1
    BY <1>1, <1>5 DEF Held, InFlight
<1>7. /\ now.request = id /\ now.type = "result" /\ now.revision = issued + 1
      /\ old.request = id /\ old.type = "result" /\ old.revision = shown.revision
      /\ j.request = id /\ j.kind = "answer"
    BY DEF Result
<1>8. epoch \in Epochs /\ shown.revision \in Revisions /\ issued \in Nat /\ shown.revision \in Nat
    BY <1>1, SyncAssumption DEF ServerTypeOK, Epochs, Revisions
<1>9. <<old>> \in Remarks
    BY <1>3, <1>8, RemarkTypes
<1>10. Publishes(Kinds, <<now>>) => <<now>> \in Remarks
    <2> SUFFICES ASSUME Publishes(Kinds, <<now>>) PROVE <<now>> \in Remarks
        OBVIOUS
    <2>1. issued < MaxRevision
        BY DEF Publishes, Stream!Publish
    <2>2. issued + 1 \in Revisions
        BY <1>8, <2>1, SyncAssumption DEF Revisions
    <2> QED BY <1>3, <1>8, <2>2, RemarkTypes
<1>11. \A tail : Publishes(Kinds, tail) => shown'.revision = issued + 1
    BY DEF Publishes, Stream!Publish
<1> HIDE DEF now, old, j, id
<1>12. PICK tail \in Remarks, add \in {<<>>, <<j>>} :
          /\ EmitsTail(tail) /\ Queue(1, add)
          /\ tail # <<>> /\ tail[1].type = "result" =>
                tail[1].request = id /\ effect'.revision = tail[1].revision /\ tail[1].revision \in Nat
          /\ add = <<>> => running' = NoRequest /\ jobs' = Tail(jobs)
          /\ add = <<j>> => tail # <<>> /\ tail[1].type = "error" /\ running' = running
    <2>1. CASE Publishes(Kinds, <<now>>) /\ jobs' = Tail(jobs) /\ running' = NoRequest
               /\ effect' = [epoch |-> epoch, revision |-> shown'.revision]
        <3>1. EmitsTail(<<now>>) /\ Queue(1, <<>>)
            BY <1>1, <1>2, <1>10, <2>1, SendingTails, KindsAreKinds, Queues
        <3>2. effect'.revision = now.revision /\ now.revision \in Nat
            BY <1>7, <1>8, <1>11, <2>1
        <3> QED BY <1>7, <1>10, <2>1, <3>1, <3>2
    <2>2. CASE /\ Publishes(Kinds, <<>>) \/ (UNCHANGED streamVars /\ UNCHANGED down)
               /\ jobs' = Tail(jobs) /\ running' = NoRequest
        <3>1. <<>> \in Remarks
            BY RemarkTypes
        <3>2. EmitsTail(<<>>) /\ Queue(1, <<>>)
            BY <1>1, <1>2, <2>2, <3>1, SendingTails, QuietTails, KindsAreKinds, Queues
        <3> QED BY <2>2, <3>1, <3>2
    <2>3. CASE UNCHANGED streamVars /\ Send(<<old>>) /\ jobs' = Tail(jobs) /\ running' = NoRequest
               /\ effect' = [epoch |-> epoch, revision |-> shown'.revision]
        <3>1. EmitsTail(<<old>>) /\ Queue(1, <<>>)
            BY <1>1, <1>2, <1>9, <2>3, SendingTails, KindsAreKinds, Queues
        <3>2. effect'.revision = old.revision /\ old.revision \in Nat
            BY <1>7, <1>8, <2>3 DEF streamVars
        <3> QED BY <1>7, <1>9, <2>3, <3>1, <3>2
    <2>4. CASE (Loses(Kinds, Unavailable) \/ Fails(Unavailable)) /\ jobs' = Append(Tail(jobs), j) /\ running' = running
        <3>1. Unavailable \in Remarks /\ Unavailable # <<>> /\ Unavailable[1].type = "error"
            BY RemarkTypes DEF Unavailable, ProtocolError
        <3>2. EmitsTail(Unavailable) /\ Queue(1, <<j>>)
            BY <1>1, <1>2, <1>3, <2>4, <3>1, SendingTails, KindsAreKinds, Queues
        <3> QED BY <2>4, <3>1, <3>2
    <2> QED BY <1>2, <2>1, <2>2, <2>3, <2>4
<1>13. \A q \in DOMAIN add : q = 1 /\ add[q] = j /\ add = <<j>>
    BY <1>12
<1>14. \A x \in Kept(1, add) : (x = j /\ add = <<j>>) \/ \E p \in DOMAIN jobs : p > 1 /\ x = jobs[p]
    BY <1>13 DEF Kept
<1>15. /\ epoch' = epoch /\ issued' \in Nat /\ issued <= issued'
       /\ effect'.epoch = epoch /\ effect'.revision \in Nat /\ effect'.revision <= issued' + 1
    <2>1. epoch' = epoch /\ issued' \in Nat /\ issued <= issued'
        BY <1>1, <1>12, TailShows
    <2>2. /\ effect'.epoch = epoch
          /\ \/ effect'.revision = issued' + 1
             \/ effect'.revision = shown'.revision /\ shown'.revision = issued + 1
             \/ effect'.revision = shown'.revision /\ trusted /\ UNCHANGED streamVars
        <3>1. CASE effect' = [epoch |-> epoch, revision |-> issued' + 1]
            BY <3>1
        <3>2. CASE effect' = [epoch |-> epoch, revision |-> shown'.revision] /\ shown'.revision = issued + 1
            BY <3>2
        <3>3. CASE effect' = [epoch |-> epoch, revision |-> shown'.revision] /\ trusted /\ UNCHANGED streamVars
            BY <3>3
        <3> QED BY <1>2, <1>11, <3>1, <3>2, <3>3
    <2>3. trusted /\ UNCHANGED streamVars => shown'.revision = shown.revision /\ shown.revision <= issued /\ issued' = issued
        BY DEF SyncInv, Idle, streamVars
    <2>4. ASSUME issued' + 1 \in Nat /\ issued + 1 \in Nat /\ issued + 1 <= issued' + 1
          PROVE  effect'.revision \in Nat /\ effect'.revision <= issued' + 1
        <3>1. CASE effect'.revision = issued' + 1
            BY <2>4, <3>1
        <3>2. CASE effect'.revision = issued + 1
            BY <2>4, <3>2
        <3>3. CASE effect'.revision = shown.revision /\ shown.revision <= issued /\ issued' = issued
            BY <1>8, <2>4, <3>3
        <3> QED BY <2>2, <2>3, <3>1, <3>2, <3>3
    <2>5. issued' + 1 \in Nat /\ issued + 1 \in Nat /\ issued + 1 <= issued' + 1
        <3>1. ASSUME NEW a \in Nat, NEW b \in Nat, a <= b PROVE b + 1 \in Nat /\ a + 1 \in Nat /\ a + 1 <= b + 1
            BY <3>1
        <3>2. issued \in Nat /\ issued' \in Nat /\ issued <= issued'
            BY <1>8, <2>1
        <3> QED BY <3>1, <3>2
    <2> QED BY <2>1, <2>2, <2>4, <2>5
<1>16. Numbered'
    <2>1. running' # NoRequest => running'[1] \in Known
        BY <1>2 DEF Known
    <2> QED BY <1>1, <1>2, <1>3, <1>4, <1>7, <1>12, <1>13, <2>1, NumberedServed
<1>17. Single'
    <2>1. \A x \in Kept(1, add) : x.kind # "done"
        BY <1>3, <1>5, <1>7, <1>14
    <2>2. \A x \in Kept(1, add) : x.kind = "stale" => running' # <<x.request>>
        <3>1. CASE running' = NoRequest
            BY <3>1 DEF NoRequest
        <3>2. CASE running' = running
            BY <1>3, <1>7, <1>14, <3>2
        <3> QED BY <1>2, <3>1, <3>2
    <2>3. running' # NoRequest => (\A i \in Results : down[i].request # running'[1])
                                   /\ tail # <<>> /\ tail[1].type = "error"
        BY <1>1, <1>2, <1>12 DEF Single
    <2> QED BY <1>1, <1>3, <1>7, <1>12, <1>13, <2>1, <2>2, <2>3, SingleServed
<1>18. Held'
    <2>1. running' # NoRequest => running' = running
        BY <1>2
    <2> QED BY <1>1, <1>4, <1>15, <2>1, HeldServed
<1>19. Past'
    <2>1. effect'.epoch = epoch /\ activeEpoch' = epoch /\ epoch # 0
        BY <1>1, <1>4, <1>6, <1>15 DEF ServerTypeOK
    <2> QED BY <1>15, <2>1 DEF Past
<1>20. Announcing'
    <2>1. \A i \in Actions' : up'[i].request # flight'.request
        <3>1. \A i \in Actions : id < up[i].request /\ up[i].request \in Nat
            BY <1>1, <1>3, <1>4, ReadShows DEF Numbered
        <3>2. \A i \in Actions' : \E m \in Actions : up'[i] = up[m]
            BY <1>1, <1>4, ReadShows
        <3> QED BY <1>3, <1>4, <1>6, <3>1, <3>2
    <2>2. running' = <<flight'.request>> => \E q \in DOMAIN jobs' : jobs'[q].request = flight'.request
        <3>1. ASSUME running' = <<id>> PROVE \E q \in DOMAIN jobs' : jobs'[q].request = id
            <4>1. add = <<j>>
                BY <1>12, <3>1 DEF NoRequest
            <4>2. 1 \in DOMAIN add /\ add[1] = j
                BY <4>1
            <4> QED BY <1>1, <1>7, <1>12, <4>2, QueueShows
        <3> QED BY <1>4, <1>6, <3>1
    <2>3. ASSUME NEW q \in DOMAIN jobs', jobs'[q].request = id
          PROVE  jobs'[q].kind = "answer" /\ \E e \in Errors' : FromHere(e)'
        <3>1. jobs'[q] \in Kept(1, add)
            BY <1>1, <1>12, QueueShows
        <3>2. jobs'[q] = j /\ add = <<j>>
            BY <1>3, <1>14, <2>3, <3>1
        <3>3. PICK e \in Errors' : \A p \in Pubs' : p < e
            BY <1>1, <1>12, <3>2, TailShows
        <3>4. FromHere(e)'
            <4>1. \A p \in Pubs' : p \in Nat /\ e \in Nat
                BY <1>1, <1>12, TailShows DEF Pubs, Errors
            <4>2. \A p \in Pubs' : ~(e < p)
                BY <3>3, <4>1
            <4> QED BY <4>2 DEF FromHere
        <3> QED BY <1>7, <3>2, <3>4
    <2>4. ASSUME NEW i \in Results', down'[i].request = id
          PROVE  down'[i].revision >= effect'.revision /\ FromHere(i)'
        <3>1. ~(i \in Results /\ down'[i] = down[i])
            BY <1>1, <1>5, <2>4 DEF Single
        <3>2. tail # <<>> /\ down'[i] = tail[1] /\ \A p \in Pubs' : p < i
            BY <1>1, <1>12, <3>1, TailShows
        <3>3. down'[i].revision = effect'.revision
            BY <1>12, <3>2 DEF Results
        <3>4. FromHere(i)'
            <4>1. \A p \in Pubs' : p \in Nat /\ i \in Nat
                BY <1>1, <1>12, TailShows DEF Pubs, Results
            <4>2. \A p \in Pubs' : ~(i < p)
                BY <3>2, <4>1
            <4> QED BY <4>2 DEF FromHere
        <3> QED BY <1>15, <3>3, <3>4
    <2> QED BY <1>4, <1>6, <2>1, <2>2, <2>3, <2>4 DEF Announcing
<1> QED BY <1>16, <1>17, <1>18, <1>19, <1>20 DEF ActInv, Promised

\* A sequence that ends takes every unfinished action with it.
LEMMA ResettingKeepsActs == ASSUME SyncInv, ActInv, Unpuppet \/ SwitchPuppet \/ SwitchByText PROVE ActInv'
<1>0. ServerTypeOK /\ BrowserTypeOK /\ Numbered /\ Single /\ Held /\ Past /\ Promised
    BY DEF SyncInv, ActInv
<1>1. /\ Stream!Reset /\ UNCHANGED <<browser, effect, socket, up, late, asks>>
      /\ down' = down \/ down' = Append(down, ProtocolError("no_puppet"))
      /\ jobs' = <<>> \/ jobs' = <<[kind |-> "sync", request |-> 0]>> \/ jobs' = <<[kind |-> "refresh", request |-> 0]>>
      /\ running' = NoRequest
    <2>1. Send(<<ProtocolError("no_puppet")>>) => down' = Append(down, ProtocolError("no_puppet"))
        <3>1. down \in Seq(Frame)
            BY <1>0 DEF ServerTypeOK
        <3>2. ProtocolError("no_puppet") \in Frame
            BY DEF ProtocolError, Frame, ErrorFrame, Codes
        <3>3. Append(down, ProtocolError("no_puppet")) = down \o <<ProtocolError("no_puppet")>>
            BY <3>1, <3>2, AppendIsConcat
        <3> QED BY <3>3 DEF Send
    <2> QED BY <2>1 DEF Unpuppet, SwitchPuppet, SwitchByText, counters
<1>2. UNCHANGED <<connected, activeEpoch, revision, locked, flight>>
    BY <1>1 DEF browser, view
<1>3. epoch' = epoch + 1 /\ issued' = 0 /\ epoch \in Nat /\ asks \in Nat
    BY <1>0, <1>1 DEF Stream!Reset, ServerTypeOK
<1>4. \A q \in DOMAIN jobs' : q = 1 /\ jobs'[q].request = 0 /\ jobs'[q].kind \in {"sync", "refresh"}
    BY <1>1
<1>5. /\ Pubs' = Pubs /\ (\A i \in Pubs : down'[i] = down[i])
      /\ \A i \in Errors : i \in Errors'
      /\ \A i \in Results' : i \in Results /\ down'[i] = down[i]
    <2>1. /\ \A i \in DOMAIN down : i \in 1..Len(down) /\ i \in DOMAIN down' /\ down'[i] = down[i]
          /\ Pubs' = Pubs
        BY <1>0, <1>1, CutShows
    <2>2. ASSUME NEW i \in Results' PROVE i \in Results /\ down'[i] = down[i]
        <3>1. CASE down' = down
            BY <3>1 DEF Results
        <3>2. CASE down' = Append(down, ProtocolError("no_puppet"))
            <4>1. down \in Seq(Frame) /\ ProtocolError("no_puppet") \in Frame
                BY <1>0 DEF ServerTypeOK, ProtocolError, Frame, ErrorFrame, Codes
            <4>2. /\ DOMAIN down = 1..Len(down) /\ DOMAIN down' = 1..(Len(down) + 1) /\ Len(down) \in Nat
                  /\ down'[Len(down) + 1] = ProtocolError("no_puppet")
                BY <3>2, <4>1, Appended
            <4>3. ProtocolError("no_puppet").type # "result"
                BY DEF ProtocolError
            <4>4. i # Len(down) + 1 /\ i \in DOMAIN down'
                BY <4>2, <4>3 DEF Results
            <4>5. i \in DOMAIN down
                BY <4>2, <4>4
            <4> QED BY <2>1, <4>5 DEF Results
        <3> QED BY <1>1, <3>1, <3>2
    <2> QED BY <2>1, <2>2 DEF Pubs, Errors
<1>6. Actions' = Actions /\ up' = up /\ \A i \in Actions : up[i].request \in Nat \ {0} /\ up[i].epoch \in Nat
    <2>1. up' = up /\ Reads
        BY <1>1 DEF Reads
    <2> QED BY <1>0, <2>1, ReadShows DEF Actions
<1>7. \A j \in Nat : FromHere(j) => FromHere(j)'
    BY <1>1, <1>5 DEF FromHere
<1>8. Numbered'
    <2>1. \A x \in Known' : x = 0 \/ x \in Known
        BY <1>1, <1>4, <1>5 DEF Known
    <2>2. \A x \in Known' : x <= asks /\ \A i \in Actions : x < up[i].request
        BY <1>0, <1>3, <1>6, <2>1 DEF Numbered
    <2> QED BY <1>0, <1>1, <1>2, <1>6, <2>2 DEF Numbered
<1>9. Single'
    BY <1>1, <1>4 DEF Single
<1>10. Held'
    <2>1. \A i \in Actions : up[i].epoch <= epoch + 1 /\ up[i].epoch # epoch + 1
        BY <1>0, <1>3, <1>6 DEF Held
    <2> QED BY <1>1, <1>3, <1>6, <2>1 DEF Held
<1>11. Past'
    <2>1. effect.epoch \in Nat /\ effect.epoch <= epoch
        <3>1. activeEpoch <= epoch /\ activeEpoch \in Nat
            BY <1>3 DEF SyncInv, Stamped, BrowserTypeOK, Epochs
        <3>2. effect.epoch \in Nat
            BY <1>0 DEF ServerTypeOK, Epochs
        <3> QED BY <1>0, <1>3, <3>1, <3>2 DEF Past
    <2>2. effect.epoch # epoch + 1 /\ (effect.epoch < epoch => effect.epoch < epoch + 1)
        BY <1>3, <2>1
    <2> QED BY <1>0, <1>1, <1>2, <1>3, <1>5, <2>2 DEF Past
<1>12. Promised'
    <2>1. Visible => Visible'
        BY <1>1, <1>2 DEF Visible
    <2>2. Repairing => Repairing'
        BY <1>1, <1>2, <1>7 DEF Repairing
    <2>3. ASSUME Announcing PROVE Announcing'
        <3>1. flight.request \in Nat \ {0}
            BY <1>0, <2>3 DEF BrowserTypeOK, Announcing, Flight
        <3>2. \A q \in DOMAIN jobs' : jobs'[q].request # flight.request
            BY <1>4, <3>1
        <3>3. running' # <<flight.request>>
            BY <1>1 DEF NoRequest
        <3>4. \A i \in Results' : down'[i].request = flight.request /\ down'[i].epoch = effect.epoch =>
                  \/ down'[i].revision >= effect.revision /\ FromHere(i)'
                  \/ \E j \in Errors' : j < i /\ FromHere(j)'
            <4>1. \A i \in Errors \cup Results : i \in Nat
                BY <1>0, Typed DEF ServerTypeOK, Errors, Results
            <4> QED BY <1>5, <1>7, <2>3, <4>1 DEF Announcing
        <3> QED BY <1>1, <1>2, <1>6, <2>3, <3>2, <3>3, <3>4 DEF Announcing
    <2> QED BY <1>0, <1>1, <1>2, <2>1, <2>2, <2>3 DEF Promised
<1> QED BY <1>8, <1>9, <1>10, <1>11, <1>12 DEF ActInv

LEMMA Numbers ==
    ASSUME ServerTypeOK, BrowserTypeOK
    PROVE  /\ Known \subseteq Nat
           /\ \A i \in Actions : up[i].request \in Nat
           /\ flight # NoRequest => flight.request \in Nat
<1>1. \A k \in DOMAIN jobs : jobs[k].request \in Nat
    <2>1. \A k \in DOMAIN jobs : jobs[k] \in Job
        BY Typed DEF ServerTypeOK
    <2> QED BY <2>1 DEF Job
<1>2. \A k \in Results : down[k].request \in Nat
    <2>1. \A k \in Results : down[k] \in Frame /\ down[k].type = "result"
        BY Typed DEF ServerTypeOK, Results
    <2>2. \A k \in Results : down[k] \in ResultFrame
        BY <2>1, FrameKinds
    <2> QED BY <2>2 DEF ResultFrame
<1>3. running # NoRequest => running[1] \in Nat
    BY DEF ServerTypeOK
<1>4. \A i \in Actions : up[i].request \in Nat
    <2>1. \A i \in Actions : up[i] \in Message /\ up[i].type = "action"
        BY Typed DEF ServerTypeOK, Actions
    <2>2. \A i \in Actions : up[i] \in ActionMessage
        BY <2>1 DEF Message
    <2> QED BY <2>2 DEF ActionMessage
<1>5. flight # NoRequest => flight.request \in Nat
    BY DEF BrowserTypeOK, Flight
<1> QED BY <1>1, <1>2, <1>3, <1>4, <1>5 DEF Known

\* The player's requests, and what timers do, change nothing that was promised.
LEMMA AskKeepsActs ==
    ASSUME ServerTypeOK, BrowserTypeOK, ActInv, UNCHANGED <<connected, view, flight>>, locked' = locked \/ locked' = TRUE,
           UNCHANGED <<streamVars, server, socket, down, late>>, asks' = asks \/ asks' = asks + 1,
           up' = up \/ up' = Append(up, [type |-> "sync"])
    PROVE  ActInv'
<1>1. /\ UNCHANGED <<activeEpoch, revision, epoch, issued, jobs, running, effect>>
      /\ Numbered /\ Single /\ Held /\ Past /\ Promised /\ asks \in Nat
    BY DEF view, streamVars, server, ActInv, ServerTypeOK
<1>2. Pubs' = Pubs /\ Results' = Results /\ Errors' = Errors
    BY DEF Pubs, Results, Errors
<1>3. Actions' = Actions /\ \A i \in Actions : up'[i] = up[i]
    <2>1. CASE up' = up
        BY <2>1 DEF Actions
    <2>2. CASE up' = Append(up, [type |-> "sync"])
        <3>1. up \in Seq(Message) /\ [type |-> "sync"] \in Message
            BY DEF ServerTypeOK, Message
        <3>2. /\ DOMAIN up = 1..Len(up) /\ DOMAIN up' = 1..(Len(up) + 1) /\ Len(up) \in Nat
              /\ up'[Len(up) + 1] = [type |-> "sync"]
              /\ \A i \in 1..Len(up) : up'[i] = up[i]
            BY <2>2, <3>1, Appended
        <3>3. \A i \in DOMAIN up' : i \in DOMAIN up \/ up'[i].type = "sync"
            BY <3>2
        <3>4. \A i \in DOMAIN up : i \in DOMAIN up' /\ up'[i] = up[i]
            BY <3>2
        <3> QED BY <3>3, <3>4 DEF Actions
    <2> QED BY <2>1, <2>2
<1>4. Numbered'
    <2>1. Known' = Known
        BY <1>1, <1>2 DEF Known
    <2>2. ASSUME asks' = asks PROVE Numbered'
        BY <1>1, <1>3, <2>1, <2>2 DEF Numbered
    <2>3. ASSUME asks' = asks + 1 PROVE Numbered'
        <3>1. \A x \in Nat : x <= asks => x <= asks + 1
            BY <1>1
        <3>2. /\ \A x \in Known : x <= asks + 1 /\ \A i \in Actions : x < up[i].request
              /\ \A i \in Actions : up[i].request <= asks + 1
              /\ flight # NoRequest => flight.request <= asks + 1
            BY <1>1, <3>1, Numbers DEF Numbered
        <3> QED BY <1>1, <1>3, <2>1, <2>3, <3>2 DEF Numbered
    <2> QED BY <2>2, <2>3
<1>5. Single'
    BY <1>1, <1>2 DEF Single
<1>6. Held'
    BY <1>1, <1>3 DEF Held, InFlight
<1>7. Past'
    BY <1>1, <1>2 DEF Past
<1>8. \A j : FromHere(j)' <=> FromHere(j)
    BY <1>1, <1>2 DEF FromHere
<1>9. Promised'
    <2>1. Repairing => Repairing'
        BY <1>1, <1>8 DEF Repairing
    <2>2. Announcing => Announcing'
        BY <1>1, <1>2, <1>3, <1>8 DEF Announcing
    <2> QED BY <1>1, <2>1, <2>2 DEF Promised, Visible
<1> QED BY <1>4, <1>5, <1>6, <1>7, <1>9 DEF ActInv

LEMMA GatesKeepActs ==
    ASSUME SyncInv, ActInv, AutomaticSync \/ DeferredSync \/ Expire \/ PlayerSyncs \/ UNCHANGED vars
    PROVE  ActInv'
<1>1. ServerTypeOK /\ BrowserTypeOK
    BY DEF SyncInv
<1>2. /\ UNCHANGED <<connected, view, flight>> /\ (locked' = locked \/ locked' = TRUE)
      /\ UNCHANGED <<streamVars, server, socket, down, late>> /\ (asks' = asks \/ asks' = asks + 1)
      /\ up' = up \/ up' = Append(up, [type |-> "sync"])
    <2>1. CASE AutomaticSync
        BY <2>1 DEF AutomaticSync, AutoResync, Ask
    <2>2. CASE DeferredSync
        BY <2>2 DEF DeferredSync, LifecycleSync, Ask, browser, counters
    <2>3. CASE Expire
        <3>1. NoteRecovery(0) => locked' = locked \/ locked' = TRUE
            BY DEF NoteRecovery
        <3> QED BY <2>3, <3>1 DEF Expire, AssemblyDeadline, RecoveryDeadline
    <2>4. CASE PlayerSyncs
        BY <2>4 DEF PlayerSyncs, ManualSync, Ask
    <2>5. CASE UNCHANGED vars
        BY <2>5 DEF vars, browser, counters
    <2> QED BY <2>1, <2>2, <2>3, <2>4, <2>5
<1> QED BY <1>1, <1>2, AskKeepsActs

\* A new action is only sent when nothing is owed to the player.
LEMMA PlayerActsKeepsActs == ASSUME SyncInv, ActInv, PlayerActs PROVE ActInv'
<1> DEFINE m == [type |-> "action", request |-> asks + 1, epoch |-> activeEpoch, base |-> revision]
<1>1. ServerTypeOK /\ BrowserTypeOK /\ Numbered /\ Single /\ Held /\ Past /\ Promised
    BY DEF SyncInv, ActInv
<1>2. /\ asks' = asks + 1 /\ connected /\ ~locked /\ phase = "active" /\ flight = NoRequest
      /\ flight' = [request |-> asks + 1, claimed |-> -1]
      /\ UNCHANGED <<connected, view, locked, streamVars, server, socket, down, late>>
      /\ up' = up \/ up' = Append(up, m)
    BY DEF PlayerActs, Dispatch, Ask
<1>3. /\ UNCHANGED <<activeEpoch, revision, epoch, issued, jobs, running, effect>> /\ asks \in Nat
      /\ activeEpoch \in Nat /\ epoch \in Nat
    BY <1>1, <1>2 DEF view, streamVars, server, ServerTypeOK, BrowserTypeOK, Epochs
<1>4. flight' # NoRequest /\ flight'.request = asks + 1 /\ flight'.claimed = -1
    BY <1>2 DEF NoRequest
<1>5. Pubs' = Pubs /\ Results' = Results /\ Errors' = Errors /\ Known' = Known
    BY <1>2, <1>3 DEF Pubs, Results, Errors, Known
<1> DEFINE U == Len(up)
<1>6. /\ U \in Nat
      /\ \A i \in Actions' : (i \in 1..U /\ i \in Actions /\ up'[i] = up[i]) \/ (i = U + 1 /\ up'[i] = m)
    <2>1. up \in Seq(Message) /\ m \in Message
        <3>1. activeEpoch \in 1..MaxEpoch
            BY <1>1, <1>2, SyncAssumption DEF SyncInv, Settled, BrowserTypeOK, Epochs
        <3>2. m.request \in Nat \ {0} /\ revision \in Revisions
            BY <1>1, <1>3 DEF BrowserTypeOK
        <3>3. m \in ActionMessage
            BY <3>1, <3>2 DEF ActionMessage
        <3> QED BY <1>1, <3>3 DEF ServerTypeOK, Message
    <2> HIDE DEF m
    <2>2. DOMAIN up = 1..U /\ U \in Nat
        BY <2>1, Typed
    <2>3. CASE up' = up
        BY <2>2, <2>3 DEF Actions
    <2>4. CASE up' = Append(up, m)
        <3>1. /\ DOMAIN up' = 1..(U + 1) /\ up'[U + 1] = m
              /\ \A k \in 1..U : up'[k] = up[k]
            BY <2>1, <2>4, Appended
        <3> HIDE DEF U
        <3>2. \A i \in DOMAIN up' : i \in 1..U \/ i = U + 1
            BY <2>2, <3>1
        <3> QED BY <2>2, <3>1, <3>2 DEF Actions
    <2> QED BY <1>2, <2>3, <2>4
<1>7. m.request = asks + 1 /\ m.epoch = activeEpoch
    OBVIOUS
<1> HIDE DEF m, U
<1>8. Numbered'
    <2>1. \A x \in Nat : x <= asks => x <= asks + 1 /\ x < asks + 1
        BY <1>3
    <2>2. \A x \in Known : x <= asks /\ x <= asks + 1 /\ x < asks + 1 /\ \A i \in Actions : x < up[i].request
        BY <1>1, <2>1, Numbers DEF Numbered
    <2>3. \A i \in Actions : up[i].request <= asks + 1 /\ up[i].request < asks + 1
        BY <1>1, <2>1, Numbers DEF Numbered
    <2>4. asks + 1 <= asks + 1
        BY <1>3
    <2>5. ASSUME NEW i \in Actions', NEW k \in Actions', i < k PROVE up'[i].request < up'[k].request
        <3>1. i \in 1..U /\ i \in Actions /\ up'[i] = up[i]
            BY <1>6, <2>5
        <3>2. CASE k \in Actions /\ up'[k] = up[k]
            BY <1>1, <2>5, <3>1, <3>2 DEF Numbered
        <3>3. CASE up'[k] = m
            BY <1>7, <2>3, <3>1, <3>3
        <3> QED BY <1>6, <3>2, <3>3
    <2>6. \A x \in Known' : x <= asks' /\ \A i \in Actions' : x < up'[i].request
        BY <1>2, <1>5, <1>6, <1>7, <2>2
    <2>7. \A i \in Actions' : up'[i].request <= asks'
        BY <1>2, <1>6, <1>7, <2>3, <2>4
    <2> QED BY <1>2, <1>4, <2>4, <2>5, <2>6, <2>7 DEF Numbered
<1>9. Single'
    BY <1>1, <1>2, <1>3, <1>5 DEF Single
<1>10. Held'
    <2>1. running = NoRequest /\ \A i \in Actions : up[i].epoch <= epoch /\ up[i].epoch # epoch
        BY <1>1, <1>2 DEF Held, InFlight
    <2>2. activeEpoch <= epoch
        BY <1>3 DEF SyncInv, Stamped
    <2>3. ASSUME NEW i \in Actions'
          PROVE  up'[i].epoch <= epoch /\ (up'[i].epoch = epoch => activeEpoch = epoch /\ InFlight(up[i].request)')
        BY <1>4, <1>6, <1>7, <2>1, <2>2, <2>3 DEF InFlight
    <2> QED BY <1>3, <2>1, <2>3 DEF Held, InFlight
<1>11. Past'
    BY <1>1, <1>2, <1>3, <1>5 DEF Past
<1>12. Promised'
    BY <1>1, <1>2, <1>3 DEF Promised, Visible, Repairing, Announcing
<1> QED BY <1>8, <1>9, <1>10, <1>11, <1>12 DEF ActInv

\* What a frame does to the screen and to the request in flight.
LEMMA ReceiptAnswers ==
    ASSUME BrowserTypeOK, Settled, NEW f \in Frame, Receive(f) \/ ReceiveInvalid(f)
    PROVE  /\ UNCHANGED connected
           /\ \/ UNCHANGED <<view, flight>> /\ ~IsCut(f) /\ (f.type = "error" => locked')
              \/ IsPub(f) /\ ReceivePublication(f)
              \/ IsCut(f) /\ ReceiveNoPuppet(f) /\ locked'
              \/ /\ f.type = "result" /\ Recognised(f) /\ UNCHANGED view
                 /\ \/ f.revision > revision /\ locked' /\ flight' = [flight EXCEPT !.claimed = f.revision]
                    \/ ~(f.revision > revision) /\ flight' = NoRequest
<1>1. \A t : NoteRecovery(t) => locked'
    BY DEF NoteRecovery, BrowserTypeOK, Settled
<1>2. UNCHANGED connected
    BY Receipts
<1>3. CASE ReceiveInert(f) \/ ReceiveContradiction(f) \/ ReceiveInvalid(f) \/ ReceivePart(f)
    BY <1>2, <1>3 DEF ReceiveInert, ReceiveContradiction, ReceiveInvalid, ReceivePart, IsCut, browser
<1>4. CASE ReceiveForeignResult(f)
    BY <1>2, <1>4 DEF ReceiveForeignResult, IsCut, browser
<1>5. CASE ReceiveUnavailable(f) \/ ReceiveReloadRequired(f)
    BY <1>1, <1>2, <1>5 DEF ReceiveUnavailable, ReceiveReloadRequired, IsCut
<1>6. CASE ReceivePublication(f)
    BY <1>2, <1>6 DEF ReceivePublication, IsPub
<1>7. CASE ReceiveNoPuppet(f)
    BY <1>1, <1>2, <1>7 DEF ReceiveNoPuppet, IsCut
<1>8. CASE ReceiveResult(f)
    BY <1>1, <1>2, <1>8 DEF ReceiveResult
<1> QED BY <1>3, <1>4, <1>5, <1>6, <1>7, <1>8 DEF Receive

\* The request in flight is only ever answered or given up.
LEMMA ReceiptKeepsRequest ==
    ASSUME BrowserTypeOK, Settled, NEW f \in Frame, Receive(f) \/ ReceiveInvalid(f)
    PROVE  flight' # NoRequest => flight # NoRequest /\ flight'.request = flight.request
<1>1. CASE UNCHANGED flight
    BY <1>1
<1>2. CASE flight' = NoRequest
    BY <1>2
<1>3. CASE ReceivePublication(f)
    BY <1>1, <1>2, <1>3 DEF ReceivePublication, Release
<1>4. CASE ReceiveNoPuppet(f)
    BY <1>4 DEF ReceiveNoPuppet
<1>5. CASE Recognised(f) /\ flight' = [flight EXCEPT !.claimed = f.revision]
    <2>1. flight # NoRequest /\ flight \in Flight
        BY <1>5 DEF Recognised, BrowserTypeOK
    <2> QED BY <1>5, <2>1 DEF Flight
<1> QED BY <1>1, <1>2, <1>3, <1>4, <1>5, ReceiptAnswers

LEMMA TakesKeepActsOfServer ==
    ASSUME SyncInv, ActInv, down # <<>>, down' = Tail(down), UNCHANGED <<jobs, running, asks, up>>,
           flight' # NoRequest => flight # NoRequest /\ flight'.request = flight.request
    PROVE  /\ Numbered' /\ Single'
           /\ \A i \in Results' : i \in Nat \ {0} /\ i + 1 \in Results /\ down'[i] = down[i + 1]
           /\ \A i \in Pubs' : i \in Nat \ {0} /\ i + 1 \in Pubs /\ down'[i] = down[i + 1]
           /\ \A i \in Errors : i \in Nat \ {0} /\ (i # 1 => i - 1 \in Errors')
           /\ \A j \in Nat : UNCHANGED effect /\ FromHere(j + 1) => FromHere(j)'
<1>0. ServerTypeOK /\ BrowserTypeOK /\ Numbered /\ Single
    BY DEF SyncInv, ActInv
<1>1. /\ \A i \in DOMAIN down : i \in Nat \ {0}
      /\ \A i \in DOMAIN down' : i \in Nat \ {0} /\ i + 1 \in DOMAIN down /\ i + 1 # 1 /\ down'[i] = down[i + 1]
      /\ \A i \in DOMAIN down : i # 1 => i - 1 \in DOMAIN down' /\ down'[i - 1] = down[i]
    BY <1>0, TakenShows
<1>2. /\ \A i \in Results' : i \in Nat \ {0} /\ i + 1 \in Results /\ down'[i] = down[i + 1]
      /\ \A i \in Pubs' : i \in Nat \ {0} /\ i + 1 \in Pubs /\ down'[i] = down[i + 1]
      /\ \A i \in Errors : i \in Nat \ {0} /\ (i # 1 => i - 1 \in Errors')
    BY <1>1 DEF Results, Pubs, Errors
<1>3. Actions' = Actions /\ \A i \in Actions : up'[i] = up[i]
    BY DEF Actions
<1>4. Numbered'
    <2>1. ASSUME NEW x \in Known' PROVE x \in Known
        <3>1. CASE \E k \in DOMAIN jobs' : x = jobs'[k].request
            BY <3>1 DEF Known
        <3>2. CASE \E k \in Results' : x = down'[k].request
            BY <1>2, <3>2 DEF Known
        <3>3. CASE running' # NoRequest /\ x = running'[1]
            BY <3>3 DEF Known
        <3> QED BY <3>1, <3>2, <3>3 DEF Known
    <2> QED BY <1>0, <1>3, <2>1 DEF Numbered
<1>5. Single'
    BY <1>0, <1>2 DEF Single
<1>6. ASSUME NEW j \in Nat, UNCHANGED effect, FromHere(j + 1) PROVE FromHere(j)'
    <2> SUFFICES ASSUME NEW i \in Pubs', j < i, down'[i].epoch = effect.epoch PROVE down'[i].revision >= effect.revision
        BY <1>6 DEF FromHere
    <2>1. i + 1 \in Pubs /\ down'[i] = down[i + 1] /\ i \in Nat
        BY <1>2
    <2>2. j + 1 < i + 1
        BY <2>1
    <2> QED BY <1>6, <2>1, <2>2 DEF FromHere
<1> QED BY <1>2, <1>4, <1>5, <1>6

\* The browser's step upon a frame, and what stays as it is.
LEMMA TakesShow ==
    ASSUME SyncInv, BrowserTakes
    PROVE  /\ down # <<>> /\ down' = Tail(down) /\ socket = "open" /\ 1 \in DOMAIN down /\ down[1] \in Frame
           /\ UNCHANGED <<connected, epoch, issued, jobs, running, effect, socket, up, late, asks>>
           /\ \/ UNCHANGED <<view, flight>> /\ ~IsCut(down[1]) /\ (down[1].type = "error" => locked')
              \/ IsPub(down[1]) /\ ReceivePublication(down[1])
              \/ IsCut(down[1]) /\ ReceiveNoPuppet(down[1]) /\ locked'
              \/ /\ down[1].type = "result" /\ Recognised(down[1]) /\ UNCHANGED view
                 /\ \/ down[1].revision > revision /\ locked' /\ flight' = [flight EXCEPT !.claimed = down[1].revision]
                    \/ ~(down[1].revision > revision) /\ flight' = NoRequest
           /\ flight' # NoRequest => flight # NoRequest /\ flight'.request = flight.request
           /\ ~locked' => ~locked \/ (IsPub(down[1]) /\ ReceivePublication(down[1]))
<1>1. BrowserTypeOK /\ Settled /\ ServerTypeOK
    BY DEF SyncInv
<1>2. /\ down # <<>> /\ down' = Tail(down) /\ UNCHANGED <<streamVars, server, socket, up, late, asks>>
      /\ \/ Receive(Head(down)) \/ ReceiveInvalid(Head(down))
         \/ (Head(down).type = "logged_in" /\ UNCHANGED browser)
    BY DEF BrowserTakes
<1>3. Head(down) = down[1] /\ 1 \in DOMAIN down /\ down[1] \in Frame
    BY <1>1, <1>2, TakenShows
<1>4. UNCHANGED <<epoch, issued, jobs, running, effect, socket, up, late, asks>>
    BY <1>2 DEF streamVars, server
<1>5. socket = "open"
    BY <1>1, <1>2 DEF SyncInv, Idle, ServerTypeOK
<1>6. CASE Receive(down[1]) \/ ReceiveInvalid(down[1])
    <2>1. UNCHANGED connected
        BY <1>1, <1>3, <1>6, ReceiptAnswers
    <2>2. /\ \/ UNCHANGED <<view, flight>> /\ ~IsCut(down[1]) /\ (down[1].type = "error" => locked')
             \/ IsPub(down[1]) /\ ReceivePublication(down[1])
             \/ IsCut(down[1]) /\ ReceiveNoPuppet(down[1]) /\ locked'
             \/ /\ down[1].type = "result" /\ Recognised(down[1]) /\ UNCHANGED view
                /\ \/ down[1].revision > revision /\ locked' /\ flight' = [flight EXCEPT !.claimed = down[1].revision]
                   \/ ~(down[1].revision > revision) /\ flight' = NoRequest
        BY <1>1, <1>3, <1>6, ReceiptAnswers
    <2>3. flight' # NoRequest => flight # NoRequest /\ flight'.request = flight.request
        BY <1>1, <1>3, <1>6, ReceiptKeepsRequest
    <2>4. ~locked' => ~locked \/ (IsPub(down[1]) /\ ReceivePublication(down[1]))
        BY <1>1, <1>3, <1>6, ReceiptLocks
    <2> QED BY <1>2, <1>3, <1>4, <1>5, <2>1, <2>2, <2>3, <2>4
<1>7. CASE down[1].type = "logged_in" /\ UNCHANGED browser
    <2>1. UNCHANGED <<connected, view, flight, locked>> /\ ~IsCut(down[1])
        BY <1>7 DEF browser, IsCut
    <2> QED BY <1>2, <1>3, <1>4, <1>5, <1>7, <2>1
<1> QED BY <1>2, <1>3, <1>6, <1>7

\* The publication at the head belongs to the sequence on screen or to a
\* younger one, and is newer than what is on screen.
LEMMA HeadIsYounger ==
    ASSUME SyncInv, down # <<>>, 1 \in DOMAIN down, IsPub(down[1])
    PROVE  /\ 1 \in Pubs /\ down[1] \in PublicationFrame
           /\ down[1].epoch \in Nat \ {0} /\ down[1].revision \in Nat
           /\ activeEpoch <= down[1].epoch /\ down[1].epoch <= epoch
           /\ activeEpoch = down[1].epoch => revision < down[1].revision
<1>1. 1 \in Pubs
    BY DEF Pubs
<1>2. down[1] \in PublicationFrame
    BY <1>1, Typed, FrameKinds DEF SyncInv, ServerTypeOK, Pubs, IsPub
<1>3. down[1].epoch \in 1..MaxEpoch /\ down[1].revision \in 1..MaxRevision
    BY <1>2, PublicationFields
<1>4. activeEpoch \in Nat /\ epoch \in Nat
    BY DEF SyncInv, BrowserTypeOK, ServerTypeOK, Epochs
<1>5. /\ down[1].epoch < epoch \/ down[1].epoch = epoch
      /\ activeEpoch < down[1].epoch \/ (activeEpoch = down[1].epoch /\ revision < down[1].revision)
    BY <1>1 DEF SyncInv, Ordered
<1> QED BY <1>1, <1>2, <1>3, <1>4, <1>5

\* An unanswered request stays in flight with its sequence on screen.
LEMMA TakesKeepHeld == ASSUME SyncInv, ActInv, BrowserTakes PROVE Held'
<1>1. /\ ServerTypeOK /\ BrowserTypeOK /\ Numbered /\ Single /\ Held
      /\ epoch \in Nat /\ activeEpoch \in Nat
    BY DEF SyncInv, ActInv, BrowserTypeOK, ServerTypeOK, Epochs
<1>2. /\ down # <<>> /\ 1 \in DOMAIN down
      /\ UNCHANGED <<epoch, running, up>> /\ Actions' = Actions
    BY TakesShow DEF Actions
<1>3. ASSUME NEW x \in Nat, activeEpoch = epoch, InFlight(x), 1 \in Results => down[1].request # x
      PROVE  activeEpoch' = epoch /\ InFlight(x)'
    <2>1. CASE UNCHANGED <<view, flight>>
        BY <1>3, <2>1 DEF view, InFlight
    <2>2. CASE IsPub(down[1]) /\ ReceivePublication(down[1])
        <3>1. activeEpoch <= down[1].epoch /\ down[1].epoch <= epoch /\ down[1].epoch \in Nat
            BY <1>2, <2>2, HeadIsYounger
        <3>2. down[1].epoch = epoch
            BY <1>1, <1>3, <3>1
        <3>3. flight' = flight
            BY <1>3, <2>2 DEF ReceivePublication, Release, InFlight
        <3> QED BY <1>3, <2>2, <3>2, <3>3 DEF ReceivePublication, InFlight
    <2>3. CASE IsCut(down[1])
        <3>1. activeEpoch < epoch
            BY <1>2, <2>3 DEF SyncInv, Divided, Cuts
        <3> QED BY <1>1, <1>3, <3>1
    <2>4. CASE down[1].type = "result" /\ Recognised(down[1])
        BY <1>2, <1>3, <2>4 DEF Recognised, Results, InFlight
    <2> QED BY <2>1, <2>2, <2>3, <2>4, TakesShow
<1>4. running # NoRequest => activeEpoch' = epoch' /\ InFlight(running[1])'
    <2> SUFFICES ASSUME running # NoRequest PROVE activeEpoch' = epoch' /\ InFlight(running[1])'
        OBVIOUS
    <2>1. running[1] \in Nat /\ activeEpoch = epoch /\ InFlight(running[1])
        BY <1>1 DEF ServerTypeOK, Held
    <2>2. 1 \in Results => down[1].request # running[1]
        BY <1>1 DEF Single
    <2>3. activeEpoch' = epoch /\ flight' # NoRequest /\ flight'.request = running[1] /\ flight'.claimed = -1
        BY <1>3, <2>1, <2>2 DEF InFlight
    <2> QED BY <1>2, <2>3 DEF InFlight
<1>5. ASSUME NEW i \in Actions'
      PROVE  up'[i].epoch <= epoch' /\ (up'[i].epoch = epoch' => activeEpoch' = epoch' /\ InFlight(up[i].request)')
    <2>1. i \in Actions /\ up'[i] = up[i] /\ up[i].request \in Nat
        BY <1>1, <1>2, Numbers
    <2>2. up[i].epoch <= epoch /\ (up[i].epoch = epoch => activeEpoch = epoch /\ InFlight(up[i].request))
        BY <1>1, <2>1 DEF Held
    <2>3. 1 \in Results => down[1].request # up[i].request
        <3>1. 1 \in Results => down[1].request \in Known
            BY DEF Known
        <3>2. \A a, b \in Nat : a < b => a # b
            OBVIOUS
        <3> QED BY <1>1, <2>1, <3>1, <3>2, Numbers DEF Numbered
    <2>4. up[i].epoch = epoch =>
             activeEpoch' = epoch /\ flight' # NoRequest /\ flight'.request = up[i].request /\ flight'.claimed = -1
        BY <1>3, <2>1, <2>2, <2>3 DEF InFlight
    <2> QED BY <1>2, <2>1, <2>2, <2>4 DEF InFlight
<1> QED BY <1>2, <1>4, <1>5 DEF Held, InFlight

LEMMA TakesKeepPast == ASSUME SyncInv, ActInv, BrowserTakes PROVE Past'
<1>1. /\ ServerTypeOK /\ BrowserTypeOK /\ Past
      /\ epoch \in Nat /\ activeEpoch \in Nat /\ effect.epoch \in Nat
    BY DEF SyncInv, ActInv, BrowserTypeOK, ServerTypeOK, Epochs
<1>2. /\ down # <<>> /\ down' = Tail(down) /\ 1 \in DOMAIN down
      /\ UNCHANGED <<epoch, issued, effect>>
    BY TakesShow
<1>3. \A i \in Pubs' : i + 1 \in Pubs /\ down'[i] = down[i + 1]
    BY <1>1, <1>2, TakenShows
<1>4. ASSUME effect.epoch \notin {0, activeEpoch'}
      PROVE  effect.epoch < epoch /\ \A i \in Pubs' : effect.epoch < down'[i].epoch
    <2>1. CASE effect.epoch # activeEpoch
        BY <1>1, <1>3, <1>4, <2>1 DEF Past
    <2>2. CASE effect.epoch = activeEpoch
        <3>1. IsPub(down[1]) /\ activeEpoch' = down[1].epoch
            BY <1>4, <2>2, TakesShow DEF view, ReceivePublication, ReceiveNoPuppet
        <3>2. activeEpoch <= down[1].epoch /\ down[1].epoch <= epoch /\ down[1].epoch \in Nat
            BY <1>2, <3>1, HeadIsYounger
        <3>3. effect.epoch < down[1].epoch /\ effect.epoch < epoch
            BY <1>1, <1>4, <2>2, <3>1, <3>2
        <3>4. ASSUME NEW i \in Pubs' PROVE effect.epoch < down'[i].epoch
            <4>1. down[1].epoch < down'[i].epoch \/ down[1].epoch = down'[i].epoch
                BY <1>2, <3>1, FollowsFirst DEF Older, SamePub
            <4>2. i + 1 \in Pubs /\ down'[i] = down[i + 1]
                BY <1>3
            <4>3. down[i + 1] \in PublicationFrame
                BY <1>1, <4>2, Typed, FrameKinds DEF ServerTypeOK, Pubs, IsPub
            <4>4. down'[i].epoch \in Nat
                BY <4>2, <4>3, PublicationFields
            <4> QED BY <1>1, <3>2, <3>3, <4>1, <4>4
        <3> QED BY <3>3, <3>4
    <2> QED BY <2>1, <2>2
<1> QED BY <1>1, <1>2, <1>4 DEF Past

\* What the request in flight is promised stays promised while the frames
\* before its answer are taken.
LEMMA AnnouncingTaken ==
    ASSUME SyncInv, ActInv, Announcing, down # <<>>, down' = Tail(down),
           UNCHANGED <<jobs, running, effect, asks, up, flight>>, 1 \in Errors => ~FromHere(1)
    PROVE  Announcing'
<1>1. /\ \A i \in Results' : i \in Nat \ {0} /\ i + 1 \in Results /\ down'[i] = down[i + 1]
      /\ \A i \in Errors : i \in Nat \ {0} /\ (i # 1 => i - 1 \in Errors')
      /\ \A j \in Nat : FromHere(j + 1) => FromHere(j)'
    BY TakesKeepActsOfServer
<1>2. ASSUME NEW j \in Errors, FromHere(j) PROVE j \in Nat /\ j - 1 \in Errors' /\ FromHere(j - 1)'
    <2>1. j \in Nat /\ j # 0 /\ j # 1
        BY <1>1, <1>2
    <2>2. j - 1 \in Nat /\ (j - 1) + 1 = j
        BY <2>1
    <2> QED BY <1>1, <1>2, <2>1, <2>2
<1>3. Actions' = Actions
    BY DEF Actions
<1>4. ASSUME NEW k \in DOMAIN jobs', jobs'[k].request = flight'.request
      PROVE  jobs'[k].kind = "answer" /\ \E j \in Errors' : FromHere(j)'
    BY <1>2, <1>4 DEF Announcing
<1>5. ASSUME NEW k \in Results', down'[k].request = flight'.request, down'[k].epoch = effect'.epoch
      PROVE  (down'[k].revision >= effect'.revision /\ FromHere(k)') \/ \E j \in Errors' : j < k /\ FromHere(j)'
    <2>1. k \in Nat /\ k + 1 \in Results /\ down'[k] = down[k + 1]
        BY <1>1
    <2>2. CASE down[k + 1].revision >= effect.revision /\ FromHere(k + 1)
        BY <1>1, <2>1, <2>2
    <2>3. CASE \E j \in Errors : j < k + 1 /\ FromHere(j)
        <3>1. PICK j \in Errors : j < k + 1 /\ FromHere(j)
            BY <2>3
        <3>2. j \in Nat /\ j - 1 \in Errors' /\ FromHere(j - 1)'
            BY <1>2, <3>1
        <3>3. j - 1 < k
            BY <2>1, <3>1, <3>2
        <3> QED BY <3>2, <3>3
    <2>4. (down[k + 1].revision >= effect.revision /\ FromHere(k + 1)) \/ \E j \in Errors : j < k + 1 /\ FromHere(j)
        BY <1>5, <2>1 DEF Announcing
    <2> QED BY <2>2, <2>3, <2>4
<1>6. running' = <<flight'.request>> => \E k \in DOMAIN jobs' : jobs'[k].request = flight'.request
    BY DEF Announcing
<1>7. flight' # NoRequest /\ flight'.claimed = -1 /\ \A i \in Actions' : up'[i].request # flight'.request
    BY <1>3 DEF Announcing
<1>8. \A k \in DOMAIN jobs' : jobs'[k].request = flight'.request =>
          jobs'[k].kind = "answer" /\ \E j \in Errors' : FromHere(j)'
    BY <1>4
<1>9. \A k \in Results' : down'[k].request = flight'.request /\ down'[k].epoch = effect'.epoch =>
          (down'[k].revision >= effect'.revision /\ FromHere(k)') \/ \E j \in Errors' : j < k /\ FromHere(j)'
    BY <1>5
<1> QED BY <1>6, <1>7, <1>8, <1>9 DEF Announcing

\* A frame leaves what the action did on screen, or the browser locked with it
\* on its way, or the answer still to come.
LEMMA TakesKeepPromised == ASSUME SyncInv, ActInv, BrowserTakes PROVE Promised'
<1> SUFFICES ASSUME connected', activeEpoch' = effect'.epoch PROVE Visible' \/ Repairing' \/ Announcing'
    BY DEF Promised
<1>0. ServerTypeOK /\ BrowserTypeOK /\ Past /\ Promised
    BY DEF SyncInv, ActInv
<1>1. /\ ServerTypeOK /\ BrowserTypeOK /\ Past /\ Promised
      /\ activeEpoch \in Nat /\ revision \in Nat /\ effect.epoch \in Nat /\ effect.revision \in Nat
    <2>1. activeEpoch \in Nat /\ revision \in Nat
        BY <1>0, SyncAssumption DEF BrowserTypeOK, Epochs, Revisions
    <2>2. effect.epoch \in Nat /\ effect.revision \in Nat
        BY <1>0, SyncAssumption DEF ServerTypeOK, Epochs
    <2> QED BY <1>0, <2>1, <2>2
<1>2. /\ down # <<>> /\ down' = Tail(down) /\ 1 \in DOMAIN down /\ down[1] \in Frame /\ socket = "open"
      /\ UNCHANGED <<connected, epoch, jobs, running, effect, socket, up, asks>>
    BY TakesShow
<1>3. activeEpoch = effect.epoch
    <2>1. CASE activeEpoch' = activeEpoch
        BY <1>2, <2>1
    <2>2. CASE activeEpoch' # activeEpoch
        <3>1. IsPub(down[1]) /\ activeEpoch' = down[1].epoch
            BY <2>2, TakesShow DEF view, ReceivePublication, ReceiveNoPuppet
        <3>2. 1 \in Pubs /\ down[1].epoch \in Nat \ {0}
            BY <1>2, <3>1, HeadIsYounger
        <3>3. effect.epoch = down[1].epoch /\ effect.epoch \notin {0, activeEpoch}
            BY <1>2, <2>2, <3>1, <3>2
        <3>4. effect.epoch < down[1].epoch
            BY <1>1, <3>2, <3>3 DEF Past
        <3> QED BY <1>1, <3>3, <3>4
    <2> QED BY <2>1, <2>2
<1>4. ASSUME FromHere(1) PROVE FromHere(0)'
    <2>1. FromHere(0 + 1) => FromHere(0)'
        BY <1>2, TakesShow, TakesKeepActsOfServer
    <2>2. 0 + 1 = 1
        OBVIOUS
    <2> QED BY <1>4, <2>1, <2>2
<1>5. FromHere(0)' /\ locked' => Repairing'
    BY <1>2 DEF Repairing
<1>6. CASE Visible
    <2>1. CASE IsPub(down[1]) /\ ReceivePublication(down[1])
        <3>1. activeEpoch = down[1].epoch /\ revision' = down[1].revision
            BY <1>2, <1>3, <2>1 DEF ReceivePublication
        <3>2. revision < down[1].revision /\ down[1].revision \in Nat
            BY <1>2, <2>1, <3>1, HeadIsYounger
        <3>3. \A a, b, c \in Nat : a >= b /\ a < c => c >= b
            OBVIOUS
        <3> QED BY <1>1, <1>2, <1>6, <3>1, <3>2, <3>3 DEF Visible
    <2>2. CASE revision' = revision
        BY <1>2, <1>6, <2>2 DEF Visible
    <2> QED BY <2>1, <2>2, TakesShow DEF view, ReceiveNoPuppet
<1>7. CASE Repairing
    <2>1. CASE locked'
        <3>1. FromHere(1)
            <4>1. \A i \in Pubs : i \in Nat
                BY <1>1, <1>2, TakenShows DEF Pubs
            <4>2. \A i \in Pubs : 1 < i => 0 < i
                BY <4>1
            <4> QED BY <1>7, <4>2 DEF Repairing, FromHere
        <3> QED BY <1>4, <1>5, <2>1, <3>1
    <2>2. CASE ~locked'
        <3>1. IsPub(down[1]) /\ ReceivePublication(down[1])
            BY <1>7, <2>2, TakesShow DEF Repairing
        <3>2. 1 \in Pubs /\ down[1].epoch = effect.epoch /\ revision' = down[1].revision
            BY <1>2, <3>1, HeadIsYounger DEF ReceivePublication
        <3>3. down[1].revision >= effect.revision
            BY <1>7, <3>2 DEF Repairing, FromHere
        <3> QED BY <1>2, <3>2, <3>3 DEF Visible
    <2> QED BY <2>1, <2>2
<1>8. CASE Announcing
    <2>0. flight # NoRequest /\ flight.claimed = -1
        BY <1>8 DEF Announcing
    <2>1. CASE UNCHANGED <<view, flight>> /\ (down[1].type = "error" => locked')
        <3>1. CASE 1 \in Errors /\ FromHere(1)
            BY <1>4, <1>5, <2>1, <3>1 DEF Errors
        <3>2. CASE ~(1 \in Errors /\ FromHere(1))
            BY <1>2, <1>8, <2>1, <3>2, AnnouncingTaken
        <3> QED BY <3>1, <3>2
    <2>2. CASE IsPub(down[1]) /\ ReceivePublication(down[1])
        <3>1. flight' = flight
            BY <2>0, <2>2 DEF ReceivePublication, Release
        <3>2. 1 \notin Errors
            BY <2>2 DEF Errors, IsPub
        <3> QED BY <1>2, <1>8, <3>1, <3>2, AnnouncingTaken
    <2>3. CASE IsCut(down[1]) /\ locked'
        <3>1. \A j \in Pubs : 1 < j => activeEpoch < down[j].epoch
            BY <1>2, <2>3 DEF SyncInv, Divided, Cuts
        <3>2. \A j \in Pubs : 1 < j => down[j].epoch # effect.epoch
            BY <1>1, <1>3, <3>1
        <3> QED BY <1>4, <1>5, <2>3, <3>2 DEF FromHere
    <2>4. CASE /\ down[1].type = "result" /\ Recognised(down[1]) /\ UNCHANGED view
               /\ locked' \/ ~(down[1].revision > revision)
        <3>1. 1 \in Results /\ down[1].request = flight.request /\ down[1].epoch = effect.epoch
            BY <1>2, <1>3, <2>4 DEF Recognised, Results
        <3>2. ~\E j \in Errors : j < 1
            <4>1. \A j \in Errors : j \in Nat /\ j # 0
                BY <1>1, <1>2, TakenShows DEF Errors
            <4> QED BY <4>1
        <3>3. down[1].revision >= effect.revision /\ FromHere(1)
            BY <1>8, <3>1, <3>2 DEF Announcing
        <3>4. CASE locked'
            BY <1>4, <1>5, <3>3, <3>4
        <3>5. CASE ~(down[1].revision > revision)
            <4>1. down[1].revision \in Nat
                BY <1>2, <2>4, FrameKinds, SyncAssumption DEF ResultFrame, Revisions
            <4>2. revision >= effect.revision
                BY <1>1, <3>3, <3>5, <4>1
            <4>3. revision' = revision
                BY <2>4 DEF view
            <4> QED BY <1>2, <4>2, <4>3 DEF Visible
        <3> QED BY <2>4, <3>4, <3>5
    <2> QED BY <2>1, <2>2, <2>3, <2>4, TakesShow
<1> QED BY <1>1, <1>2, <1>3, <1>6, <1>7, <1>8 DEF Promised

LEMMA BrowserTakesKeepsActs == ASSUME SyncInv, ActInv, BrowserTakes PROVE ActInv'
<1>1. Numbered' /\ Single'
    BY TakesShow, TakesKeepActsOfServer
<1> QED BY <1>1, TakesKeepHeld, TakesKeepPast, TakesKeepPromised DEF ActInv

\* A frame of the closed transport either changes nothing or belongs to the
\* sequence on screen.
LEMMA LateKeepsActs == ASSUME SyncInv, ActInv, BrowserTakesLate PROVE ActInv'
<1>1. /\ late # <<>> /\ connected /\ late' = <<>> /\ Receive(late[1])
      /\ UNCHANGED <<epoch, issued, jobs, running, effect, socket, down, up, asks>>
    BY DEF BrowserTakesLate, streamVars, server
<1>2. /\ ServerTypeOK /\ BrowserTypeOK /\ Settled /\ Numbered /\ Single /\ Held /\ Past /\ Promised
      /\ revision \in Nat /\ effect.revision \in Nat
    BY SyncAssumption DEF SyncInv, ActInv, BrowserTypeOK, ServerTypeOK, Revisions
<1>3. UNCHANGED activeEpoch /\ late[1] \in PublicationFrame /\ (socket = "open" => UNCHANGED browser)
    BY <1>1, LateKeepsOrder
<1>4. Pubs' = Pubs /\ Results' = Results /\ Errors' = Errors /\ Actions' = Actions /\ Known' = Known
    BY <1>1 DEF Pubs, Results, Errors, Actions, Known
<1>5. CASE socket = "open"
    <2>1. UNCHANGED <<connected, revision, locked, flight>>
        BY <1>3, <1>5 DEF browser, view
    <2>2. Numbered' /\ Single'
        BY <1>1, <1>2, <1>4, <2>1 DEF Numbered, Single
    <2>3. Held'
        BY <1>1, <1>2, <1>3, <1>4, <2>1 DEF Held, InFlight
    <2>4. Past'
        BY <1>1, <1>2, <1>3, <1>4 DEF Past
    <2>5. \A j \in Nat \cup DOMAIN down : FromHere(j)' = FromHere(j)
        BY <1>1, <1>4 DEF FromHere
    <2>6. Repairing => Repairing'
        BY <1>1, <1>5, <2>1, <2>5 DEF Repairing
    <2>7. ASSUME Announcing PROVE Announcing'
        <3>1. \A j \in Errors : FromHere(j)' = FromHere(j)
            BY <2>5 DEF Errors
        <3>2. \A k \in Results : FromHere(k)' = FromHere(k)
            BY <2>5 DEF Results
        <3>3. (\E j \in Errors : FromHere(j)) => \E j \in Errors' : FromHere(j)'
            BY <1>4, <3>1
        <3>4. \A k \in Results' : (\E j \in Errors : j < k /\ FromHere(j)) => \E j \in Errors' : j < k /\ FromHere(j)'
            BY <1>4, <3>1
        <3>5. \A k \in DOMAIN jobs' : jobs'[k].request = flight'.request =>
                  jobs'[k].kind = "answer" /\ \E j \in Errors' : FromHere(j)'
            BY <1>1, <2>1, <2>7, <3>3 DEF Announcing
        <3>6. \A k \in Results' : down'[k].request = flight'.request /\ down'[k].epoch = effect'.epoch =>
                  (down'[k].revision >= effect'.revision /\ FromHere(k)') \/ \E j \in Errors' : j < k /\ FromHere(j)'
            BY <1>1, <1>4, <2>1, <2>7, <3>2, <3>4 DEF Announcing
        <3>7. /\ flight' # NoRequest /\ flight'.claimed = -1 /\ \A i \in Actions' : up'[i].request # flight'.request
              /\ running' = <<flight'.request>> => \E k \in DOMAIN jobs' : jobs'[k].request = flight'.request
            BY <1>1, <1>4, <2>1, <2>7 DEF Announcing
        <3> QED BY <3>5, <3>6, <3>7 DEF Announcing
    <2>8. Promised'
        BY <1>1, <1>2, <1>3, <2>1, <2>6, <2>7 DEF Promised, Visible
    <2> QED BY <2>2, <2>3, <2>4, <2>8 DEF ActInv
<1>6. CASE socket = "down"
    <2>1. down = <<>> /\ up = <<>> /\ jobs = <<>> /\ running = NoRequest
        BY <1>6 DEF SyncInv, Idle
    <2>2. late[1] \in Frame /\ late[1].type = "publication" /\ late[1].epoch = activeEpoch
        BY <1>1, <1>3, <1>6, PublicationFields DEF Frame, SyncInv, Stamped
    <2>3. \/ UNCHANGED <<view, flight>> /\ (~locked' => ~locked)
          \/ ReceivePublication(late[1])
        BY <1>1, <1>2, <2>2, ReceiptAnswers, ReceiptLocks DEF IsCut
    <2>4. flight' # NoRequest => flight # NoRequest /\ flight'.request = flight.request
        BY <1>1, <1>2, <2>2, ReceiptKeepsRequest
    <2>5. DOMAIN down = {} /\ DOMAIN up = {} /\ DOMAIN jobs = {}
        BY <2>1
    <2>6. Pubs = {} /\ Results = {} /\ Errors = {} /\ Actions = {}
        BY <2>5 DEF Pubs, Results, Errors, Actions
    <2>7. Numbered'
        BY <1>1, <1>2, <1>4, <2>4 DEF Numbered
    <2>8. Single' /\ Held'
        BY <1>1, <1>2, <1>4, <2>1, <2>5, <2>6 DEF Single, Held
    <2>9. Past'
        BY <1>1, <1>2, <1>3, <1>4 DEF Past
    <2>10. ASSUME connected', activeEpoch' = effect'.epoch PROVE Visible' \/ Repairing' \/ Announcing'
        <3>1. activeEpoch = effect.epoch /\ (Visible \/ Repairing \/ Announcing)
            BY <1>1, <1>2, <1>3, <2>10 DEF Promised
        <3>2. CASE ReceivePublication(late[1])
            <4>1. phase = "active" => ~(late[1].revision <= revision)
                BY <2>2, <3>2 DEF ReceivePublication, Inert
            <4>2. revision' = late[1].revision /\ late[1].revision \in Nat
                BY <1>3, <3>2, PublicationFields DEF ReceivePublication
            <4>3. CASE Visible
                <5>1. CASE phase = "active"
                    BY <1>1, <1>2, <4>1, <4>2, <4>3, <5>1 DEF Visible
                <5>2. CASE phase # "active"
                    <6>1. phase # "detached"
                        BY <2>2, <3>2 DEF ReceivePublication, Inert
                    <6>2. activeEpoch = 0
                        BY <1>2, <5>2, <6>1 DEF BrowserTypeOK, Settled
                    <6>3. activeEpoch # 0
                        BY <1>3, <2>2, PublicationFields
                    <6> QED BY <6>2, <6>3
                <5> QED BY <5>1, <5>2
            <4>4. CASE Repairing
                <5>1. late[1].revision >= effect.revision
                    BY <1>1, <1>6, <2>2, <3>1, <4>4 DEF Repairing
                <5> QED BY <1>1, <4>2, <5>1 DEF Visible
            <4>5. CASE Announcing
                <5>1. flight' = flight
                    BY <3>2, <4>5 DEF ReceivePublication, Release, Announcing
                <5> QED BY <1>1, <1>4, <2>1, <2>5, <2>6, <4>5, <5>1 DEF Announcing, NoRequest
            <4> QED BY <3>1, <4>3, <4>4, <4>5
        <3>3. CASE UNCHANGED <<view, flight>> /\ (~locked' => ~locked)
            <4>1. CASE Visible
                BY <1>1, <3>3, <4>1 DEF Visible, view
            <4>2. CASE Repairing
                BY <1>1, <1>4, <2>6, <3>3, <4>2 DEF Repairing, FromHere
            <4>3. CASE Announcing
                BY <1>1, <1>4, <2>1, <2>5, <2>6, <3>3, <4>3 DEF Announcing, NoRequest
            <4> QED BY <3>1, <4>1, <4>2, <4>3
        <3> QED BY <2>3, <3>2, <3>3
    <2> QED BY <2>7, <2>8, <2>9, <2>10 DEF ActInv, Promised
<1> QED BY <1>2, <1>5, <1>6 DEF ServerTypeOK

\* With everything lost, what is owed is known to be lost.
LEMMA EmptyKeepsActs ==
    ASSUME ServerTypeOK, BrowserTypeOK, Numbered, down' = <<>>, jobs' = <<>>, running' = NoRequest,
           UNCHANGED <<effect, asks>>, \A i \in DOMAIN up' : up'[i].type # "action",
           flight' = flight \/ flight' = NoRequest, Past',
           connected' /\ activeEpoch' = effect.epoch => revision' >= effect.revision \/ Repairing' \/ Announcing'
    PROVE  ActInv'
<1>1. DOMAIN down' = {} /\ DOMAIN jobs' = {} /\ Actions' = {} /\ Results' = {}
    BY DEF Actions, Results
<1>2. Known' = {}
    BY <1>1 DEF Known
<1>3. Numbered'
    BY <1>1, <1>2 DEF Numbered
<1>4. Single' /\ Held'
    BY <1>1 DEF Single, Held
<1>5. Promised'
    BY DEF Promised, Visible
<1> QED BY <1>3, <1>4, <1>5 DEF ActInv

\* What was on its way to a socket that closes may still be the frame that
\* shows what the action did; nothing older can be.
LEMMA DisconnectKeepsActs == ASSUME SyncInv, ActInv, Disconnect PROVE ActInv'
<1>1. /\ socket' = "down" /\ down' = <<>> /\ up' = <<>> /\ jobs' = <<>> /\ running' = NoRequest
      /\ UNCHANGED <<browser, epoch, issued, effect, asks>>
      /\ \/ late' = <<>>
         \/ \E k \in DOMAIN down : down[k].type = "publication" /\ down[k].epoch = activeEpoch /\ late' = <<down[k]>>
    BY DEF Disconnect, streamVars
<1>2. UNCHANGED <<connected, activeEpoch, revision, locked, flight>>
    BY <1>1 DEF browser, view
<1>3. /\ ServerTypeOK /\ BrowserTypeOK /\ Numbered /\ Past /\ Promised
    BY DEF SyncInv, ActInv
<1>4. DOMAIN up' = {} /\ DOMAIN down' = {} /\ DOMAIN jobs' = {}
    BY <1>1
<1>5. Pubs' = {} /\ Results' = {} /\ Actions' = {}
    BY <1>4 DEF Pubs, Results, Actions
<1>6. Past'
    BY <1>1, <1>2, <1>3, <1>5 DEF Past
<1>7. Repairing => Repairing'
    <2> SUFFICES ASSUME Repairing PROVE Repairing'
        OBVIOUS
    <2>1. FromHere(0)' /\ locked'
        BY <1>2, <1>5 DEF FromHere, Repairing
    <2>2. ASSUME late' # <<>>, late'[1].epoch = effect.epoch PROVE late'[1].revision >= effect.revision
        <3>1. PICK k \in DOMAIN down : down[k].type = "publication" /\ late' = <<down[k]>>
            BY <1>1, <2>2
        <3>2. k \in Pubs /\ 0 < k /\ late'[1] = down[k]
            BY <1>3, <3>1, Typed DEF Pubs, IsPub, ServerTypeOK
        <3> QED BY <2>2, <3>2 DEF Repairing, FromHere
    <2> QED BY <1>1, <2>1, <2>2 DEF Repairing
<1>8. Announcing => Announcing'
    BY <1>1, <1>2, <1>4, <1>5 DEF Announcing, NoRequest
<1>9. connected' /\ activeEpoch' = effect.epoch => revision' >= effect.revision \/ Repairing' \/ Announcing'
    BY <1>2, <1>3, <1>7, <1>8 DEF Promised, Visible
<1> QED BY <1>1, <1>2, <1>3, <1>4, <1>6, <1>9, EmptyKeepsActs

LEMMA ClosesKeepsActs == ASSUME SyncInv, ActInv, BrowserCloses PROVE ActInv'
<1>1. /\ socket = "down" /\ connected' = FALSE /\ flight' = NoRequest
      /\ UNCHANGED <<activeEpoch, epoch, issued, jobs, running, effect, down, up, asks>>
    BY DEF BrowserCloses, ConnectionClose, view, streamVars, server, counters
<1>2. ServerTypeOK /\ BrowserTypeOK /\ Numbered /\ Past
    BY DEF SyncInv, ActInv
<1>3. down' = <<>> /\ up' = <<>> /\ jobs' = <<>> /\ running' = NoRequest
    BY <1>1 DEF SyncInv, Idle
<1>4. DOMAIN up' = {}
    BY <1>3
<1>5. Pubs' = Pubs
    BY <1>1 DEF Pubs
<1>6. Past'
    BY <1>1, <1>2, <1>5 DEF Past
<1> QED BY <1>1, <1>2, <1>3, <1>4, <1>6, EmptyKeepsActs

\* No answered action belongs to the sequence of a new transport.
LEMMA ConnectKeepsActs == ASSUME SyncInv, ActInv, Connect PROVE ActInv'
<1>1. /\ socket = "down" /\ up' = <<[type |-> "sync"]>> /\ activeEpoch' = 0 /\ revision' = 0 /\ flight' = NoRequest
      /\ UNCHANGED <<jobs, running, effect, down, asks>>
    BY DEF Connect, ConnectionOpen
<1>2. \/ issued = 0 /\ epoch = 1 /\ UNCHANGED <<epoch, issued>>
      \/ epoch' = epoch + 1 /\ issued' = 0
    BY DEF Connect, Stream!Reset, streamVars
<1>3. /\ ServerTypeOK /\ BrowserTypeOK /\ Numbered /\ Past
      /\ epoch \in Nat \ {0} /\ activeEpoch \in Nat /\ effect.epoch \in Nat /\ effect.revision \in Nat /\ issued \in Nat
    <2>1. ServerTypeOK /\ BrowserTypeOK /\ Numbered /\ Past
        BY DEF SyncInv, ActInv
    <2>2. epoch \in Nat \ {0} /\ effect.epoch \in Nat /\ effect.revision \in Nat
        BY <2>1 DEF ServerTypeOK, Epochs
    <2>3. activeEpoch \in Nat /\ issued \in Nat
        BY <2>1, SyncAssumption DEF ServerTypeOK, BrowserTypeOK, Epochs, Revisions
    <2> QED BY <2>1, <2>2, <2>3
<1>4. down' = <<>> /\ jobs' = <<>> /\ running' = NoRequest
    BY <1>1 DEF SyncInv, Idle
<1>5. DOMAIN down' = {} /\ \A i \in DOMAIN up' : up'[i].type = "sync"
    BY <1>1, <1>4
<1>6. effect.epoch <= epoch /\ activeEpoch <= epoch
    <2>1. activeEpoch < epoch \/ activeEpoch = epoch
        BY DEF SyncInv, Stamped
    <2>2. effect.epoch = 0 \/ effect.epoch = activeEpoch \/ effect.epoch < epoch
        BY <1>3 DEF Past
    <2> QED BY <1>3, <2>1, <2>2
<1>7. Past'
    <2>1. Pubs' = {}
        BY <1>5 DEF Pubs
    <2>2. effect.epoch = epoch' => effect.revision <= issued' + 1
        <3>1. CASE issued = 0 /\ epoch = 1 /\ UNCHANGED <<epoch, issued>>
            BY <1>3, <3>1 DEF Past
        <3>2. CASE epoch' = epoch + 1
            BY <1>3, <1>6, <3>2
        <3> QED BY <1>2, <3>1, <3>2
    <2>3. effect.epoch # 0 => effect.epoch < epoch'
        <3>1. CASE issued = 0 /\ epoch = 1 /\ UNCHANGED <<epoch, issued>>
            <4>1. activeEpoch = 0
                <5>1. activeEpoch # 0 => activeEpoch = epoch /\ revision <= issued
                    BY <1>3, <3>1 DEF SyncInv, Stamped
                <5>2. revision \in Nat /\ (activeEpoch = 0 <=> revision = 0)
                    BY <1>3, SyncAssumption DEF SyncInv, Settled, BrowserTypeOK, Revisions
                <5> QED BY <3>1, <5>1, <5>2
            <4> QED BY <1>3, <3>1, <4>1 DEF Past
        <3>2. CASE epoch' = epoch + 1
            BY <1>3, <1>6, <3>2
        <3> QED BY <1>2, <3>1, <3>2
    <2> QED BY <1>1, <1>3, <2>1, <2>2, <2>3 DEF Past
<1>8. activeEpoch' = effect.epoch => revision' >= effect.revision
    BY <1>1, <1>3 DEF Past
<1>9. \A i \in DOMAIN up' : up'[i].type # "action"
    BY <1>5
<1> QED BY <1>1, <1>3, <1>4, <1>7, <1>8, <1>9, EmptyKeepsActs

LEMMA ActInitially == Init => ActInv
<1> SUFFICES ASSUME Init PROVE ActInv
    OBVIOUS
<1>1. /\ connected = FALSE /\ activeEpoch = 0 /\ flight = NoRequest /\ epoch = 1 /\ issued = 0 /\ jobs = <<>>
      /\ running = NoRequest /\ effect = [epoch |-> 0, revision |-> 0] /\ down = <<>> /\ up = <<>>
    BY DEF Init, BrowserInit
<1>2. DOMAIN down = {} /\ DOMAIN up = {} /\ DOMAIN jobs = {}
    BY <1>1
<1>3. Results = {} /\ Actions = {} /\ Pubs = {}
    BY <1>2 DEF Results, Actions, Pubs
<1>4. Known = {}
    BY <1>1, <1>2, <1>3 DEF Known
<1>5. Numbered
    BY <1>1, <1>3, <1>4 DEF Numbered
<1>6. Single /\ Held
    BY <1>1, <1>2, <1>3 DEF Single, Held
<1>7. Past
    BY <1>1, <1>3 DEF Past
<1>8. Promised
    BY <1>1 DEF Promised
<1> QED BY <1>5, <1>6, <1>7, <1>8 DEF ActInv

LEMMA ActSteps == SyncInv /\ ActInv /\ [Next]_vars => ActInv'
<1> SUFFICES ASSUME SyncInv, ActInv, [Next]_vars PROVE ActInv'
    OBVIOUS
<1>1. CASE Push \/ RunRefresh \/ RunSync \/ TakeSync \/ PuppetByText \/ Login
    BY <1>1, QuietKeepsActs
<1>2. CASE RunStale \/ RunAnswer
    BY <1>2, StaleKeepsActs, AnswerKeepsActs
<1>3. CASE RunCompletion
    BY <1>3, SyncSteps, CompletionKeepsActs
<1>4. CASE TakeActionUnpuppeted \/ TakeActionStale \/ TakeAction \/ Settle
    BY <1>4, TakesKeepActs, SettleKeepsActs
<1>5. CASE Unpuppet \/ SwitchPuppet \/ SwitchByText
    BY <1>5, ResettingKeepsActs
<1>6. CASE AutomaticSync \/ DeferredSync \/ Expire \/ PlayerSyncs \/ UNCHANGED vars
    BY <1>6, GatesKeepActs
<1>7. CASE PlayerActs
    BY <1>7, PlayerActsKeepsActs
<1>8. CASE BrowserTakes \/ BrowserTakesLate
    BY <1>8, BrowserTakesKeepsActs, LateKeepsActs
<1>9. CASE Sockets
    BY <1>9, DisconnectKeepsActs, ClosesKeepsActs, ConnectKeepsActs DEF Sockets
<1> QED BY <1>1, <1>2, <1>3, <1>4, <1>5, <1>6, <1>7, <1>8, <1>9 DEF Next, Publishing, Taking, Characters, Browsing, Playing

\* A player never gets the controls back before what the last answered action
\* did is on screen.
THEOREM AnswersAreVisible == Spec => []AnsweredMeansVisible
<1>1. ActInv => AnsweredMeansVisible
    BY DEF ActInv, Promised, Visible, Repairing, Announcing, AnsweredMeansVisible
<1> QED BY <1>1, ActInitially, ActSteps, SyncInvariant, PTL DEF Spec
=============================================================================
