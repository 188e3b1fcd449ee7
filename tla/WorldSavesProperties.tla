------------------------ MODULE WorldSavesProperties -------------------------
EXTENDS WorldSaves

\* A start never finds half of each world: what the server runs on is, file by
\* file, what the last run left or the save that was asked for, whatever failed
\* or crashed on the way, and a request is applied at one start only
\* (restore.apply_pending, Swap; snapshot.request_restore).
Atomic == INSTANCE AtomicRestore WITH
    world <- ran, up <- server = "up", asked <- asked, None <- 0
ImplementsAtomicRestore == Atomic!Spec

\* Whatever fails or crashes, one whole world can be put together from what is in
\* place and in .restore-aside: the one of the last run, or the save asked for
\* (Swap, apply_pending).
Recoverable ==
    server = "down" =>
        \E world \in {ran} \cup {Saved(v) : v \in {asked} \ {0}} :
            \A f \in File : world[f] # Absent => world[f] \in {live[f], aside[f]}

\* A save that is listed has its whole art half, although halves are published and
\* removed in several steps and nobody waits for them (_publish, _remove_save).
ListedIsWhole == \A s \in Save : Complete(s) => saves[s].art = "final"

\* When nothing runs and no restore is waited for, every automatic kind is within
\* its limit, also after pruning was put off for a restore (_deferred_kinds,
\* apply_retention, startup_report).
RetentionCatchesUp ==
    server = "up" /\ marker = 0 /\ (\A t \in Thread : job[t] = Idle) =>
        \A kind \in Automatic : Cardinality(Listed(kind)) <= Keep

\* Pruning leaves the newest saves of each automatic kind, however many threads
\* prune at once (_prune_kind).
NewestSurvive ==
    [][\A s \in Save : Complete(s) /\ saves[s].kind \in Automatic /\ ~Complete(s)' =>
          Cardinality(Newer(s, Listed(saves[s].kind))) >= Keep]_vars

\* A staged restore is never left behind a server that keeps running: a shutdown is
\* scheduled or about to be (request_restore).
StagedRestoreShutsDown ==
    server = "up" /\ marker # 0 => shutdown \/ \E t \in Thread : job[t].step = "schedule"

=============================================================================
