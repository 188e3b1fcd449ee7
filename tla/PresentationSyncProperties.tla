---------------------- MODULE PresentationSyncProperties ----------------------
(***************************************************************************)
(* What a web session promises the player in front of the browser.         *)
(***************************************************************************)
EXTENDS PresentationSync

Epochs    == 0..MaxEpoch
Revisions == 0..MaxRevision

\* The panels on screen are those of one publication, the one whose revision
\* the browser names: no delta was ever applied to anything but its base, and
\* no part of an incomplete publication shows (store.js receive,
\* commitPresentation).
ShowsAPublication == phase = "active" => content = <<activeEpoch, revision>>

\* Controls are only open on what the server last put before the browser: once
\* nothing is on its way, an unlocked browser shows that publication
\* (store.js mutationsLocked, coordinator.py _invalidate_baseline).
Quiet == socket = "open" /\ connected /\ down = <<>>
UnlockedIsCurrent ==
    Quiet /\ ~locked =>
        /\ puppet
        /\ activeEpoch = epoch
        /\ shown.epoch = epoch /\ revision = shown.revision

\* One failure episode costs the server at most one automatic ui_sync, whatever
\* else goes wrong until it ends (webclient-synchronization.md, "Bounded
\* complete recovery").
OneAutomaticSync == autos <= 1

\* The player never gets the controls back before what the last answered action
\* did is on screen (transport.js handleActionResult, releaseIfReady;
\* dispatcher.py _publish_completion).
AnsweredMeansVisible ==
    ~locked /\ flight = NoRequest /\ connected /\ activeEpoch = effect.epoch
    => revision >= effect.revision

\* The browser goes from one sequence to a younger one only: what a closed
\* transport delivers late never comes back on screen (core.js retired epochs).
SequencesMoveForward ==
    [][activeEpoch' \notin {0, activeEpoch} =>
          /\ activeEpoch' > activeEpoch
          /\ \A k \in DOMAIN retired : activeEpoch' > retired[k]]_vars

\* Reactor, websocket and event loop keep running.  Expire stands for timers,
\* which fire however busy the browser is.  Nothing obliges the player, the
\* game or the network.
Fairness ==
    /\ WF_vars(Publishing) /\ WF_vars(Taking)
    /\ WF_vars(BrowserTakes) /\ WF_vars(AutomaticSync) /\ WF_vars(DeferredSync) /\ WF_vars(Expire)
    /\ WF_vars(BrowserCloses) /\ WF_vars(Connect)
LiveSpec == Spec /\ Fairness

\* A browser of a playing session is not left behind for ever: it shows the
\* current publication with open controls, or it knows that its one repair
\* failed or that it must reload.
InStep ==
    \/ ~puppet
    \/ incompatible \/ recovery = "failed"
    \/ ~locked /\ activeEpoch = epoch /\ revision = shown.revision
NobodyLeftBehind == []<>InStep

\* A submitted action is answered, given up with its sequence or transport, or
\* waits behind a repair the player knows has failed (transport.js ctx.inFlight).
EveryActionResolves ==
    flight # NoRequest ~> flight = NoRequest \/ incompatible \/ recovery = "failed"
==============================================================================
