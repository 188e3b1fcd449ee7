----------------------------- MODULE RestoreSwap -----------------------------
(***************************************************************************)
(* The pre-start tool that replaces the live world by a save               *)
(* (server/saves/restore.py), between two runs of the server.  The world   *)
(* is two stores: the database with its side files, and the entries of     *)
(* the art root.  Every rename is a step, every step may fail or be the    *)
(* last one before a crash.  What the tool remembers of its own progress   *)
(* dies with it; what it does next is decided by what lies on disk.        *)
(*                                                                         *)
(* A file is named by its place in the live stores; its content is the     *)
(* version of the world it belongs to.  While the server runs, the world   *)
(* and the saves change as Serve allows; WorldSaves says how.              *)
(***************************************************************************)
EXTENDS Naturals, FiniteSets

CONSTANTS
    Db,          \* the database file
    Sidecar,     \* its -journal, -wal, -shm
    Entry,       \* top-level entries of the art root
    MaxVersion,  \* bound: versions of the world
    Drawn,       \* Drawn[v]: the art entries of version v
    MaxSave      \* bound: saves ever made, numbered in the order of creation

Version == 1..MaxVersion
Save == 1..MaxSave

ASSUME FilesAssumption ==
    /\ Db \notin Sidecar \cup Entry
    /\ Sidecar \cap Entry = {}
ASSUME VersionAssumption ==
    /\ MaxVersion \in Nat \ {0}
    /\ MaxSave \in Nat
    /\ Drawn \in [Version -> SUBSET Entry]

Family == {Db} \cup Sidecar
File == Family \cup Entry
Store == {"db", "art"}
In(d) == IF d = "db" THEN Family ELSE Entry

Absent == 0
Nothing == [f \in File |-> Absent]

\* Version v as a run that stops, with S of the side files, leaves it.
Left(v, S) == [f \in File |-> IF f \in {Db} \cup S \cup Drawn[v] THEN v ELSE Absent]
Saved(v) == Left(v, {})
World == {Left(v, S) : v \in Version, S \in SUBSET Sidecar}

Automatic == {"auto_restore", "auto_intervention"}
Kind == {"manual"} \cup Automatic

\* A save: two halves, each in the volume of its store (layout.py).  A half that is
\* being made lies under another name, which nothing reads: it is "none".
Half == {"none", "final", "torn"}
SaveRecord == [kind : Kind, version : 0..MaxVersion, db : Half, art : Half]
NoSave == [kind |-> "manual", version |-> 0, db |-> "none", art |-> "none"]

VARIABLES
    server,      \* "up" or "down"
    tool,        \* where the tool is; "ok" has exited and lets the server start
    live, aside, staged,  \* content of each file: in place, in .restore-aside, in .restore-staging
    asideDirs,   \* stores that have a .restore-aside
    moved, installed,     \* what the running tool remembers
    marker,      \* RESTORE_PENDING: a save, or 0
    result,      \* RESTORE_RESULT.json, until it has been reported
    saves,       \* the save archives
    latest,      \* the newest version
    ran,         \* ghost: the world of the run, or the one the last run left
    asked        \* ghost: the version asked for since the server started, or 0

disk     == <<live, aside, staged, asideDirs>>
memory   == <<moved, installed>>
requests == <<marker, result>>
archives == <<saves, latest>>
ghosts   == <<ran, asked>>
outside  == <<server, requests, archives, ghosts>>
swapVars == <<server, tool, disk, memory, requests, archives, ghosts>>

\* layout.is_complete: the art half is a directory, the database half has its files.
Complete(s) == saves[s].db = "final" /\ saves[s].art \in {"final", "torn"}

SwapInit ==
    /\ server = "up"
    /\ tool = "off"
    /\ live = Saved(1)
    /\ aside = Nothing
    /\ staged = Nothing
    /\ asideDirs = {}
    /\ moved = {} /\ installed = {}
    /\ marker = 0
    /\ result = "none"
    /\ saves = [s \in Save |-> NoSave]
    /\ latest = 1
    /\ ran = live
    /\ asked = 0
------------------------------------------------------------------------------
(* apply_pending up to the swap.                                           *)

\* An aside left by an earlier run refuses every start, marker or not: then
\* no action is enabled, until somebody recovers the world by hand.
ToolStartsAnyway ==
    /\ server = "down" /\ tool = "off"
    /\ tool' = IF marker = 0 THEN "ok" ELSE "verify"
    /\ moved' = {} /\ installed' = {}
    /\ UNCHANGED <<disk, outside>>
ToolStarts ==
    /\ server = "down" /\ tool = "off"
    /\ asideDirs = {}
    /\ tool' = IF marker = 0 THEN "ok" ELSE "verify"
    /\ moved' = {} /\ installed' = {}
    /\ UNCHANGED <<disk, outside>>

\* A step of the program counter only.
Passes(from, to) ==
    /\ tool = from /\ tool' = to
    /\ UNCHANGED <<disk, memory, outside>>

Verify == Passes("verify", "stage") /\ Complete(marker) /\ saves[marker].art = "final"

\* Whatever an earlier run staged is removed first.
Stage ==
    /\ tool = "stage"
    /\ staged' = Saved(saves[marker].version)
    /\ tool' = "set_db_aside"
    /\ UNCHANGED <<live, aside, asideDirs, memory, outside>>
------------------------------------------------------------------------------
(* Swap.move_aside and Swap.install.                                       *)

MakeAside(d, from, to) ==
    /\ tool = from
    /\ asideDirs' = asideDirs \cup {d}
    /\ tool' = to
    /\ UNCHANGED <<live, aside, staged, memory, outside>>

MoveAside(f) ==
    /\ live[f] # Absent
    /\ aside' = [aside EXCEPT ![f] = live[f]]
    /\ live' = [live EXCEPT ![f] = Absent]
    /\ moved' = moved \cup {f}
    /\ UNCHANGED <<tool, staged, asideDirs, installed, outside>>

NoneLive(F) == \A f \in F : live[f] = Absent

MoveDbAside(f) == tool = "move_db" /\ (f # Db => live[Db] = Absent) /\ MoveAside(f)
MakeArtAside == NoneLive(Family) /\ MakeAside("art", "move_db", "move_art")
MoveArtAside(e) == tool = "move_art" /\ MoveAside(e)

Install(f) ==
    /\ staged[f] # Absent
    /\ live' = [live EXCEPT ![f] = staged[f]]
    /\ staged' = [staged EXCEPT ![f] = Absent]
    /\ installed' = installed \cup {f}
    /\ UNCHANGED <<aside, asideDirs, moved, outside>>

InstallDb == tool = "move_art" /\ NoneLive(Entry) /\ Install(Db) /\ tool' = "install"
InstallArt(e) == tool = "install" /\ Install(e) /\ UNCHANGED tool

\* The swap is committed: from here on nothing is taken back.
Commit == (\A e \in Entry : staged[e] = Absent) /\ Passes("install", "clean_db")
------------------------------------------------------------------------------
(* A failure of any step above, and Swap.rollback.                         *)

Swapping == {"verify", "stage", "set_db_aside", "move_db", "move_art", "install"}

Fails == \E step \in Swapping : Passes(step, "undo_art")

RemoveInstalled(e) ==
    /\ tool = "undo_art"
    /\ e \in installed
    /\ live' = [live EXCEPT ![e] = Absent]
    /\ installed' = installed \ {e}
    /\ UNCHANGED <<tool, aside, staged, asideDirs, moved, outside>>

\* The installed database goes, and a side file that did not come with the original.
RemoveInstalledDb ==
    /\ tool = "undo_art"
    /\ installed \cap Entry = {}
    /\ live' = IF Db \in installed
               THEN [f \in File |-> IF f \in {Db} \cup (Sidecar \ moved) THEN Absent ELSE live[f]]
               ELSE live
    /\ installed' = {}
    /\ tool' = "undo_db"
    /\ UNCHANGED <<aside, staged, asideDirs, moved, outside>>

MoveBack(f) ==
    /\ f \in moved
    /\ aside[f] # Absent
    /\ live' = [live EXCEPT ![f] = aside[f]]
    /\ aside' = [aside EXCEPT ![f] = Absent]
    /\ UNCHANGED <<tool, staged, asideDirs, memory, outside>>

NoneAside(F) == \A f \in F : aside[f] = Absent

MoveDbBack(f) == tool = "undo_db" /\ (f # Db => aside[Db] = Absent) /\ MoveBack(f)
MoveArtBack(e) == tool = "undo_db" /\ NoneAside(Family) /\ MoveBack(e)

\* rmdir refuses a directory that still holds something.
DropAsideWithContent(d) ==
    /\ tool = "undo_db"
    /\ d \in asideDirs
    /\ asideDirs' = asideDirs \ {d}
    /\ aside' = [f \in File |-> IF f \in In(d) THEN Absent ELSE aside[f]]
    /\ UNCHANGED <<tool, live, staged, memory, outside>>
DropAside(d) ==
    /\ tool = "undo_db"
    /\ NoneAside(File)
    /\ d \in asideDirs
    /\ d = "art" => "db" \notin asideDirs
    /\ asideDirs' = asideDirs \ {d}
    /\ UNCHANGED <<tool, live, aside, staged, memory, outside>>

RolledBack == NoneAside(File) /\ asideDirs = {} /\ Passes("undo_db", "undone")

\* RollbackFailed: exit status 2, the launcher stops.  Writing the outcome may raise too.
RollbackFails ==
    /\ tool \in {"undo_art", "undo_db"}
    /\ asideDirs # {}
    /\ tool' = "off"
    /\ moved' = {} /\ installed' = {}
    /\ marker' \in {0, marker}
    /\ result' \in IF marker' = 0 THEN {"failed", result} ELSE {result}
    /\ UNCHANGED <<server, disk, archives, ghosts>>
------------------------------------------------------------------------------
(* The end of the tool.                                                    *)

\* _cleanup_best_effort: the original is removed, or renamed to .restore-done-<time>.
CleanAside(d, from, to) ==
    /\ tool = from
    /\ asideDirs' = asideDirs \ {d}
    /\ aside' = [f \in File |-> IF f \in In(d) THEN Absent ELSE aside[f]]
    /\ tool' = to
    /\ UNCHANGED <<live, staged, memory, outside>>

\* The removal of a tree goes file by file, and may stop at any of them.
ScrapFile(f) ==
    /\ tool = IF f \in Family THEN "clean_db" ELSE "clean_art"
    /\ aside[f] # Absent
    /\ aside' = [aside EXCEPT ![f] = Absent]
    /\ UNCHANGED <<tool, live, staged, asideDirs, memory, outside>>

\* When neither works only a message says so.
CleanUp ==
    \/ \E f \in File : ScrapFile(f)
    \/ CleanAside("db", "clean_db", "clean_art") \/ Passes("clean_db", "clean_art")
    \/ CleanAside("art", "clean_art", "committed") \/ Passes("clean_art", "committed")

Outcome == IF tool = "committed" THEN "restored" ELSE "failed"

Finish ==
    /\ tool \in {"committed", "undone"}
    /\ tool' = "ok"
    /\ staged' \in {staged, Nothing}
    /\ marker' = 0
    /\ result' = Outcome
    /\ moved' = {} /\ installed' = {}
    /\ UNCHANGED <<server, live, aside, asideDirs, archives, ghosts>>

\* The marker cannot be removed, or the outcome not be written: exit status 1.
FinishRaises ==
    /\ tool \in {"committed", "undone"}
    /\ tool' = "off"
    /\ staged' \in {staged, Nothing}
    /\ marker' \in {0, marker}
    /\ moved' = {} /\ installed' = {}
    /\ UNCHANGED <<server, live, aside, asideDirs, result, archives, ghosts>>

Crash ==
    /\ tool # "off"
    /\ tool' = "off"
    /\ moved' = {} /\ installed' = {}
    /\ UNCHANGED <<disk, outside>>
------------------------------------------------------------------------------
(* The server.                                                             *)

\* The launcher goes on (set -e) only after exit status 0; startup_report tells
\* the outcome once.
ServerStarts ==
    /\ tool = "ok"
    /\ server' = "up"
    /\ tool' = "off"
    /\ result' = "none"
    /\ asked' = 0
    /\ ran' = live
    /\ UNCHANGED <<disk, memory, marker, archives>>

\* A shutdown, or a crash with any side files left.
ServerStops ==
    /\ server = "up"
    /\ server' = "down"
    /\ \E S \in SUBSET Sidecar : live' = Left(live[Db], S)
    /\ ran' = live'
    /\ UNCHANGED <<tool, aside, staged, asideDirs, memory, requests, archives, asked>>

\* The game writes: a new version of the world.
Play ==
    /\ server = "up"
    /\ latest < MaxVersion
    /\ latest' = latest + 1
    /\ live' = Saved(latest')
    /\ ran' = live'
    /\ UNCHANGED <<server, tool, aside, staged, asideDirs, memory, requests, saves, asked>>

\* A request writes the marker.
Ask(s) ==
    /\ server = "up" /\ marker = 0
    /\ marker' = s
    /\ asked' = saves[s].version
    /\ UNCHANGED <<server, tool, disk, memory, result, archives, ran>>

Withdraw ==
    /\ server = "up"
    /\ marker' = 0
    /\ asked' = 0
    /\ UNCHANGED <<server, tool, disk, memory, result, archives, ran>>

\* Saves come and go; one that is waited for may go, never come or change.
Archive ==
    /\ server = "up"
    /\ saves' \in [Save -> SaveRecord]
    /\ \A s \in Save : Complete(s)' => saves'[s].version \in Version
    /\ marker # 0 /\ Complete(marker)' => Complete(marker) /\ saves'[marker].version = saves[marker].version
    /\ UNCHANGED <<server, tool, disk, memory, requests, latest, ghosts>>

Serve ==
    \/ ServerStarts \/ ServerStops \/ Play \/ Withdraw \/ Archive
    \/ \E s \in Save : Ask(s)

Swap ==
    \/ MakeAside("db", "set_db_aside", "move_db") \/ MakeArtAside
    \/ InstallDb \/ Commit
    \/ \E f \in Family : MoveDbAside(f)
    \/ \E e \in Entry : MoveArtAside(e) \/ InstallArt(e)

Rollback ==
    \/ Fails \/ RemoveInstalledDb \/ RolledBack \/ RollbackFails
    \/ \E f \in Family : MoveDbBack(f)
    \/ \E e \in Entry : RemoveInstalled(e) \/ MoveArtBack(e)
    \/ \E d \in Store : DropAside(d)

Tool ==
    \/ ToolStarts \/ Verify \/ Stage \/ Swap \/ Rollback
    \/ CleanUp \/ Finish \/ FinishRaises \/ Crash

SwapNext == Tool \/ Serve
SwapSpec == SwapInit /\ [][SwapNext]_swapVars
=============================================================================
