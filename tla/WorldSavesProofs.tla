-------------------------- MODULE WorldSavesProofs --------------------------
(***************************************************************************)
(* Proofs about the saves and the restore swap, for any files, versions,   *)
(* saves and threads.  The swap is proved correct once, for a server whose *)
(* archives change as Serve allows (SwapInv); the threads' steps are then  *)
(* shown to be such changes (SavesInv).  Last, pruning: what threads that  *)
(* count and remove side by side leave behind (PruneInv).                  *)
(***************************************************************************)
EXTENDS WorldSavesProperties, FiniteSetTheorems, WellFoundedInduction, TLAPS

USE FilesAssumption, VersionAssumption

------------------------------------------------------------------------------
(* The swap.  No step looks at more than a few files; what makes it whole  *)
(* is that the world the tool started from can be read off the disk and    *)
(* its memory at every step (Original), until it commits.                  *)

Content == [File -> 0..MaxVersion]
Undoing == {"undo_art", "undo_db"}
Cleaning == {"clean_db", "clean_art", "committed"}
Replacing == {"set_db_aside", "move_db", "move_art", "install"}
Progress == Swapping \cup Undoing \cup Cleaning \cup {"off", "ok", "undone"}

SwapTypeOK ==
    /\ server \in {"up", "down"} /\ tool \in Progress
    /\ live \in Content /\ aside \in Content /\ staged \in Content /\ ran \in World
    /\ asideDirs \subseteq Store
    /\ moved \subseteq File /\ installed \subseteq {Db} \cup Entry
    /\ marker \in 0..MaxSave /\ result \in {"none", "restored", "failed"}
    /\ saves \in [Save -> SaveRecord]
    /\ latest \in Version /\ asked \in 0..MaxVersion

\* The worlds a start may find.
Bases == {ran} \cup {Saved(v) : v \in {asked} \ {0}}

\* The world in which the tool found the server, whatever it has moved since.
Original == [f \in File |-> IF aside[f] # Absent THEN aside[f]
                            ELSE IF f \in installed THEN Absent ELSE live[f]]

\* The marker leads to what was asked for.
MarkerInv ==
    /\ \A s \in Save : Complete(s) => saves[s].version \in Version
    /\ marker # 0 /\ Complete(marker) => saves[marker].version = asked
    /\ tool = "ok" => marker = 0
    /\ tool = "verify" => marker # 0
    /\ tool \in {"stage"} \cup Replacing \cup Cleaning => marker # 0 /\ Complete(marker)

\* What is aside lies in a directory, and the tool remembers having moved it.
AsideInv ==
    /\ \A d \in Store : d \notin asideDirs => \A f \in In(d) : aside[f] = Absent
    /\ tool \in {"move_db", "move_art", "install"} => "db" \in asideDirs
    /\ tool \in {"move_art", "install"} => "art" \in asideDirs
    /\ installed # {} /\ tool \in Swapping \cup Undoing => asideDirs # {}
    /\ tool \in Swapping \cup Undoing => \A f \in File : aside[f] # Absent => f \in moved
    /\ tool = "undone" => asideDirs = {}

\* How far the tool has come.
PhaseInv ==
    /\ tool \in (Swapping \ {"install"}) \cup {"off", "ok", "undo_db", "undone"} => installed = {}
    /\ tool \in Swapping \ {"install"} => \A f \in File : live[f] = Absent \/ aside[f] = Absent
    /\ tool = "move_art" => NoneLive(Family)
    /\ tool = "install" => Db \in installed /\ \A f \in File \ installed : live[f] = Absent
    /\ tool = "undo_art" /\ Db \in installed => NoneLive(Sidecar)
    /\ tool \in Replacing =>
         /\ \A f \in File : Saved(asked)[f] = IF f \in installed THEN live[f] ELSE staged[f]
         /\ \A f \in installed : staged[f] = Absent

\* Which whole world there is.
WorldInv ==
    /\ server = "up" => tool = "off" /\ live = ran
    /\ tool \in Swapping \cup Undoing \cup {"undone"} => Original \in Bases
    /\ tool \in Cleaning => live = Saved(asked)
    /\ tool = "ok" \/ (tool = "off" /\ asideDirs = {}) => live \in Bases
    /\ tool = "off" => Recoverable

SwapInv == SwapTypeOK /\ MarkerInv /\ AsideInv /\ PhaseInv /\ WorldInv

LEMMA Files ==
    /\ File = {Db} \cup Sidecar \cup Entry
    /\ In("db") = {Db} \cup Sidecar /\ In("art") = Entry
    /\ Absent = 0 /\ 1 \in Version
    /\ \A v \in Version : v \in 1..MaxVersion /\ v \in 0..MaxVersion /\ v # Absent
BY DEF File, Family, In, Absent, Version

LEMMA Worlds ==
    /\ \A v \in Version : Saved(v) \in World /\ Saved(v) \in Content
    /\ \A v \in Version, S \in SUBSET Sidecar : Left(v, S) \in World
    /\ \A w \in World : w \in Content /\ w[Db] \in Version
    /\ \A v \in 0..MaxVersion, f \in Sidecar : Saved(v)[f] = Absent
<1>1. \A v \in Version, S \in SUBSET Sidecar : Left(v, S) \in World
    BY DEF World
<1>2. \A v \in Version, S \in SUBSET Sidecar : Left(v, S) \in Content /\ Left(v, S)[Db] \in Version
    BY Files DEF Left, Content
<1>3. \A v \in 0..MaxVersion, f \in Sidecar : Saved(v)[f] = Absent
    BY Files DEF Left, Saved, Version
<1> QED BY <1>1, <1>2, <1>3 DEF World, Saved

\* What the tool installs is what was asked for.
LEMMA AskedIsSaved ==
    ASSUME SwapTypeOK, MarkerInv, tool \in {"stage"} \cup Replacing \cup Cleaning
    PROVE  asked \in Version /\ asked # 0 /\ saves[marker].version = asked
<1>1. marker \in Save /\ Complete(marker)
    BY DEF MarkerInv, SwapTypeOK, Save
<1>2. saves[marker].version = asked /\ saves[marker].version \in Version
    BY <1>1, VersionAssumption DEF MarkerInv, SwapTypeOK, Save
<1> QED BY <1>2 DEF Version

\* While it has not been committed, what the tool has moved can be moved back;
\* afterwards the world that was asked for is in place.
LEMMA WholeWorld ==
    ASSUME SwapTypeOK, MarkerInv, WorldInv
    PROVE  Recoverable
<1>1. CASE tool \in Swapping \cup Undoing \cup {"undone"}
    <2>1. Original \in Bases
        BY <1>1 DEF WorldInv
    <2>2. \A f \in File : Original[f] # Absent => Original[f] \in {live[f], aside[f]}
        BY DEF Original
    <2> QED BY <2>1, <2>2 DEF Recoverable, Bases
<1>2. CASE tool \in Cleaning \cup {"ok"}
    <2>1. live \in Bases
        BY <1>2, AskedIsSaved DEF WorldInv, Bases, Cleaning
    <2> QED BY <2>1 DEF Recoverable, Bases
<1>3. CASE tool = "off"
    BY <1>3 DEF WorldInv
<1> QED BY <1>1, <1>2, <1>3 DEF SwapTypeOK, Progress

LEMMA OriginalIsLive ==
    ASSUME SwapTypeOK, AsideInv, asideDirs = {}, installed = {}
    PROVE  Original = live
<1>1. \A f \in File : aside[f] = Absent
    BY Files DEF AsideInv, Store
<1> QED BY <1>1 DEF Original, SwapTypeOK, Content

\* As long as nothing is committed and the tool knows what it moved.
LEMMA OriginalStays ==
    ASSUME WorldInv, tool \in Swapping \cup Undoing,
           tool' \in Swapping \cup Undoing \cup {"undone"},
           server' = server, ran' = ran, asked' = asked, Original' = Original
    PROVE  WorldInv'
<1> USE DEF Swapping, Undoing, Cleaning
<1>1. Bases' = Bases
    BY DEF Bases
<1>2. Original' \in Bases'
    BY <1>1 DEF WorldInv
<1> QED BY <1>2 DEF WorldInv

\* The tool stops where it is.
LEMMA StoppedIsWhole ==
    ASSUME SwapInv, tool # "off", tool' = "off", server' = server, ran' = ran, asked' = asked,
           live' = live, aside' = aside, asideDirs' = asideDirs
    PROVE  WorldInv'
<1> USE DEF Swapping, Undoing, Cleaning
<1>1. Bases' = Bases
    BY DEF Bases
<1>2. Recoverable'
    BY WholeWorld DEF SwapInv, Recoverable
<1>3. ASSUME asideDirs = {} PROVE live \in Bases
    <2>1. CASE tool \in Swapping \cup Undoing \cup {"undone"}
        <3>1. installed = {}
            BY <1>3, <2>1 DEF SwapInv, AsideInv, PhaseInv
        <3> QED BY <1>3, <2>1, <3>1, OriginalIsLive DEF SwapInv, WorldInv
    <2>2. CASE tool \in Cleaning
        BY <2>2, AskedIsSaved DEF SwapInv, WorldInv, Bases
    <2>3. CASE tool = "ok"
        BY <2>3 DEF SwapInv, WorldInv
    <2> QED BY <2>1, <2>2, <2>3 DEF SwapInv, SwapTypeOK, Progress
<1>4. server' # "up"
    BY DEF SwapInv, WorldInv, SwapTypeOK
<1> QED BY <1>1, <1>2, <1>3, <1>4 DEF WorldInv

LEMMA SwapInitially == SwapInit => SwapInv
<1> SUFFICES ASSUME SwapInit PROVE SwapInv
    OBVIOUS
<1>1. SwapTypeOK
    BY Worlds, Files DEF SwapInit, SwapTypeOK, Progress, Content, Nothing, Store, Save,
       NoSave, SaveRecord, Kind, Half
<1>2. MarkerInv
    BY DEF SwapInit, MarkerInv, Complete, NoSave, Replacing, Cleaning
<1>3. AsideInv
    BY Files DEF SwapInit, AsideInv, Nothing, Swapping, Undoing, Store
<1>4. PhaseInv
    BY DEF SwapInit, PhaseInv, Swapping, Replacing
<1>5. WorldInv
    BY DEF SwapInit, WorldInv, Bases, Recoverable, Swapping, Undoing, Cleaning
<1> QED BY <1>1, <1>2, <1>3, <1>4, <1>5 DEF SwapInv

-----------------------------------------------------------------------------
(* One lemma per step of the tool and of the server: SwapInv is kept.      *)

USE Files DEF Swapping, Undoing, Cleaning, Replacing, outside, disk, memory, requests, archives, ghosts

LEMMA ToolStartsKeeps ==
    ASSUME SwapInv, ToolStarts
    PROVE  SwapInv'
<1> USE DEF SwapInv, ToolStarts
<1>1. SwapTypeOK'
    BY DEF SwapTypeOK, Content, Progress, Store
<1>2. MarkerInv'
    BY DEF MarkerInv, SwapTypeOK, Complete, Save
<1>3. AsideInv'
    BY DEF AsideInv, SwapTypeOK, Content, Store, NoneAside
<1>4. PhaseInv'
    BY DEF PhaseInv, AsideInv, SwapTypeOK, Store
<1>5. WorldInv'
    <2>1. Original' = live'
        BY DEF Original, AsideInv, SwapTypeOK, Content, Store
    <2>2. live' \in Bases' /\ server' # "up"
        BY DEF WorldInv, Bases
    <2> QED BY <2>1, <2>2 DEF WorldInv
<1> QED BY <1>1, <1>2, <1>3, <1>4, <1>5

LEMMA VerifyKeeps ==
    ASSUME SwapInv, Verify
    PROVE  SwapInv'
<1> USE DEF SwapInv, Verify, Passes
<1>1. SwapTypeOK'
    BY DEF SwapTypeOK, Content, Progress, Store
<1>2. MarkerInv'
    BY DEF MarkerInv, SwapTypeOK, Complete, Save
<1>3. AsideInv'
    BY DEF AsideInv, SwapTypeOK, Content, Store, NoneAside
<1>4. PhaseInv'
    BY DEF PhaseInv, SwapTypeOK, Content, NoneLive, MarkerInv, NoneAside
<1>5. WorldInv'
    <2>1. Original' = Original
        BY DEF Original
    <2> QED BY <2>1, OriginalStays
<1> QED BY <1>1, <1>2, <1>3, <1>4, <1>5

LEMMA StageKeeps ==
    ASSUME SwapInv, Stage
    PROVE  SwapInv'
<1> USE DEF SwapInv, Stage
<1>0. asked \in Version /\ saves[marker].version = asked
    BY AskedIsSaved
<1>1. SwapTypeOK'
    BY <1>0, Worlds DEF SwapTypeOK, Content, Progress, Store
<1>2. MarkerInv'
    BY DEF MarkerInv, SwapTypeOK, Complete, Save
<1>3. AsideInv'
    BY DEF AsideInv, SwapTypeOK, Content, Store, NoneAside
<1>4. PhaseInv'
    BY <1>0, Worlds DEF PhaseInv, SwapTypeOK, Content
<1>5. WorldInv'
    <2>1. Original' = Original
        BY DEF Original
    <2> QED BY <2>1, OriginalStays
<1> QED BY <1>1, <1>2, <1>3, <1>4, <1>5

LEMMA MakeDbAsideKeeps ==
    ASSUME SwapInv, MakeAside("db", "set_db_aside", "move_db")
    PROVE  SwapInv'
<1> USE DEF SwapInv, MakeAside
<1>1. SwapTypeOK'
    BY DEF SwapTypeOK, Content, Progress, Store
<1>2. MarkerInv'
    BY DEF MarkerInv, SwapTypeOK, Complete, Save
<1>3. AsideInv'
    BY DEF AsideInv, SwapTypeOK, Content, Store, NoneAside
<1>4. PhaseInv'
    BY DEF PhaseInv, SwapTypeOK, Content, NoneLive, MarkerInv, NoneAside
<1>5. WorldInv'
    <2>1. Original' = Original
        BY DEF Original
    <2> QED BY <2>1, OriginalStays
<1> QED BY <1>1, <1>2, <1>3, <1>4, <1>5

LEMMA MakeArtAsideKeeps ==
    ASSUME SwapInv, MakeArtAside
    PROVE  SwapInv'
<1> USE DEF SwapInv, MakeArtAside, MakeAside
<1>1. SwapTypeOK'
    BY DEF SwapTypeOK, Content, Progress, Store
<1>2. MarkerInv'
    BY DEF MarkerInv, SwapTypeOK, Complete, Save
<1>3. AsideInv'
    BY DEF AsideInv, SwapTypeOK, Content, Store, NoneAside
<1>4. PhaseInv'
    BY DEF PhaseInv, SwapTypeOK, Content, NoneLive, MarkerInv, NoneAside
<1>5. WorldInv'
    <2>1. Original' = Original
        BY DEF Original
    <2> QED BY <2>1, OriginalStays
<1> QED BY <1>1, <1>2, <1>3, <1>4, <1>5

LEMMA MoveAsideKeeps ==
    ASSUME SwapInv, NEW f \in File, MoveAside(f),
           (tool = "move_db" /\ f \in Family) \/ (tool = "move_art" /\ f \in Entry)
    PROVE  SwapInv'
<1> USE DEF SwapInv, MoveAside, Family
<1>1. SwapTypeOK'
    BY DEF SwapTypeOK, Content, Progress, Store
<1>2. MarkerInv'
    BY DEF MarkerInv, SwapTypeOK, Complete, Save
<1>3. AsideInv'
    BY DEF AsideInv, SwapTypeOK, Content, Store, NoneAside
<1>4. PhaseInv'
    BY DEF PhaseInv, SwapTypeOK, Content, NoneLive, MarkerInv, NoneAside
<1>5. WorldInv'
    <2>1. Original' = Original
        BY DEF Original, PhaseInv, SwapTypeOK, Content
    <2> QED BY <2>1, OriginalStays
<1> QED BY <1>1, <1>2, <1>3, <1>4, <1>5

LEMMA InstallDbKeeps ==
    ASSUME SwapInv, InstallDb
    PROVE  SwapInv'
<1> USE DEF SwapInv, InstallDb, Install
<1>0. \A f \in File : live[f] = Absent
    BY DEF PhaseInv, NoneLive, Family
<1>1. SwapTypeOK'
    BY DEF SwapTypeOK, Content, Progress, Store
<1>2. MarkerInv'
    BY DEF MarkerInv, SwapTypeOK, Complete, Save
<1>3. AsideInv'
    BY DEF AsideInv, SwapTypeOK, Content, Store, NoneAside
<1>4. PhaseInv'
    BY <1>0 DEF PhaseInv, SwapTypeOK, Content
<1>5. WorldInv'
    <2>1. Original' = Original
        BY DEF Original, PhaseInv, SwapTypeOK, Content, NoneLive, Family
    <2> QED BY <2>1, OriginalStays
<1> QED BY <1>1, <1>2, <1>3, <1>4, <1>5

LEMMA InstallArtKeeps ==
    ASSUME SwapInv, NEW e \in Entry, InstallArt(e)
    PROVE  SwapInv'
<1> USE DEF SwapInv, InstallArt, Install
<1>1. SwapTypeOK'
    BY DEF SwapTypeOK, Content, Progress, Store
<1>2. MarkerInv'
    BY DEF MarkerInv, SwapTypeOK, Complete, Save
<1>3. AsideInv'
    BY DEF AsideInv, SwapTypeOK, Content, Store, NoneAside
<1>4. PhaseInv'
    BY DEF PhaseInv, SwapTypeOK, Content, NoneLive, MarkerInv, NoneAside
<1>5. WorldInv'
    <2>1. Original' = Original
        BY DEF Original, PhaseInv, SwapTypeOK, Content
    <2> QED BY <2>1, OriginalStays
<1> QED BY <1>1, <1>2, <1>3, <1>4, <1>5

LEMMA CommitKeeps ==
    ASSUME SwapInv, Commit
    PROVE  SwapInv'
<1> USE DEF SwapInv, Commit, Passes
<1>1. SwapTypeOK'
    BY DEF SwapTypeOK, Content, Progress, Store
<1>2. MarkerInv'
    BY DEF MarkerInv, SwapTypeOK, Complete, Save
<1>3. AsideInv'
    BY DEF AsideInv, SwapTypeOK, Content, Store, NoneAside
<1>4. PhaseInv'
    BY DEF PhaseInv, SwapTypeOK, Content, NoneLive, MarkerInv, NoneAside
<1>5. WorldInv'
    <2>1. asked \in Version
        BY AskedIsSaved
    <2>2. \A f \in File : live[f] = Saved(asked)[f]
        BY <2>1, Worlds DEF PhaseInv, SwapTypeOK
    <2>3. live = Saved(asked)
        BY <2>1, <2>2, Worlds DEF SwapTypeOK, Content
    <2> QED BY <2>3 DEF WorldInv
<1> QED BY <1>1, <1>2, <1>3, <1>4, <1>5

LEMMA FailsKeeps ==
    ASSUME SwapInv, Fails
    PROVE  SwapInv'
<1> USE DEF SwapInv, Fails, Passes
<1>1. SwapTypeOK'
    BY DEF SwapTypeOK, Content, Progress, Store
<1>2. MarkerInv'
    BY DEF MarkerInv, SwapTypeOK, Complete, Save
<1>3. AsideInv'
    BY DEF AsideInv, SwapTypeOK, Content, Store, NoneAside
<1>4. PhaseInv'
    BY DEF PhaseInv, NoneLive, SwapTypeOK
<1>5. WorldInv'
    <2>1. Original' = Original
        BY DEF Original
    <2> QED BY <2>1, OriginalStays
<1> QED BY <1>1, <1>2, <1>3, <1>4, <1>5

LEMMA RemoveInstalledKeeps ==
    ASSUME SwapInv, NEW e \in Entry, RemoveInstalled(e)
    PROVE  SwapInv'
<1> USE DEF SwapInv, RemoveInstalled
<1>1. SwapTypeOK'
    BY DEF SwapTypeOK, Content, Progress, Store
<1>2. MarkerInv'
    BY DEF MarkerInv, SwapTypeOK, Complete, Save
<1>3. AsideInv'
    BY DEF AsideInv, SwapTypeOK, Content, Store, NoneAside
<1>4. PhaseInv'
    BY DEF PhaseInv, SwapTypeOK, Content, NoneLive, MarkerInv, NoneAside
<1>5. WorldInv'
    <2>1. Original' = Original
        BY DEF Original, SwapTypeOK, Content
    <2> QED BY <2>1, OriginalStays
<1> QED BY <1>1, <1>2, <1>3, <1>4, <1>5

LEMMA RemoveInstalledDbKeeps ==
    ASSUME SwapInv, RemoveInstalledDb
    PROVE  SwapInv'
<1> USE DEF SwapInv, RemoveInstalledDb
<1>1. SwapTypeOK'
    BY DEF SwapTypeOK, Content, Progress, Store
<1>2. MarkerInv'
    BY DEF MarkerInv, SwapTypeOK, Complete, Save
<1>3. AsideInv'
    BY DEF AsideInv, SwapTypeOK, Content, Store, NoneAside
<1>4. PhaseInv'
    BY DEF PhaseInv, SwapTypeOK, Content, NoneLive, MarkerInv, NoneAside
<1>5. WorldInv'
    <2>1. Original' = Original
        BY DEF Original, PhaseInv, AsideInv, NoneLive, SwapTypeOK, Content
    <2> QED BY <2>1, OriginalStays
<1> QED BY <1>1, <1>2, <1>3, <1>4, <1>5

LEMMA MoveBackKeeps ==
    ASSUME SwapInv, NEW f \in File, MoveBack(f), tool = "undo_db"
    PROVE  SwapInv'
<1> USE DEF SwapInv, MoveBack
<1>1. SwapTypeOK'
    BY DEF SwapTypeOK, Content, Progress, Store
<1>2. MarkerInv'
    BY DEF MarkerInv, SwapTypeOK, Complete, Save
<1>3. AsideInv'
    BY DEF AsideInv, SwapTypeOK, Content, Store, NoneAside
<1>4. PhaseInv'
    BY DEF PhaseInv, SwapTypeOK, Content, NoneLive, MarkerInv, NoneAside
<1>5. WorldInv'
    <2>1. Original' = Original
        BY DEF Original, PhaseInv, SwapTypeOK, Content
    <2> QED BY <2>1, OriginalStays
<1> QED BY <1>1, <1>2, <1>3, <1>4, <1>5

LEMMA DropAsideKeeps ==
    ASSUME SwapInv, NEW d \in Store, DropAside(d)
    PROVE  SwapInv'
<1> USE DEF SwapInv, DropAside
<1>1. SwapTypeOK'
    BY DEF SwapTypeOK, Content, Progress, Store
<1>2. MarkerInv'
    BY DEF MarkerInv, SwapTypeOK, Complete, Save
<1>3. AsideInv'
    BY DEF AsideInv, PhaseInv, SwapTypeOK, Content, Store, NoneAside
<1>4. PhaseInv'
    BY DEF PhaseInv, SwapTypeOK, Content, NoneLive, MarkerInv, NoneAside
<1>5. WorldInv'
    <2>1. Original' = Original
        BY DEF Original
    <2> QED BY <2>1, OriginalStays
<1> QED BY <1>1, <1>2, <1>3, <1>4, <1>5

LEMMA RolledBackKeeps ==
    ASSUME SwapInv, RolledBack
    PROVE  SwapInv'
<1> USE DEF SwapInv, RolledBack, Passes
<1>1. SwapTypeOK'
    BY DEF SwapTypeOK, Content, Progress, Store
<1>2. MarkerInv'
    BY DEF MarkerInv, SwapTypeOK, Complete, Save
<1>3. AsideInv'
    BY DEF AsideInv, SwapTypeOK, Content, Store, NoneAside
<1>4. PhaseInv'
    BY DEF PhaseInv, SwapTypeOK, Content, NoneLive, MarkerInv, NoneAside
<1>5. WorldInv'
    <2>1. Original' = Original
        BY DEF Original
    <2> QED BY <2>1, OriginalStays
<1> QED BY <1>1, <1>2, <1>3, <1>4, <1>5

LEMMA RollbackFailsKeeps ==
    ASSUME SwapInv, RollbackFails
    PROVE  SwapInv'
<1> USE DEF SwapInv, RollbackFails
<1>1. SwapTypeOK'
    BY DEF SwapTypeOK, Content, Progress, Store
<1>2. MarkerInv'
    BY DEF MarkerInv, SwapTypeOK, Complete, Save
<1>3. AsideInv'
    BY DEF AsideInv, SwapTypeOK, Content, Store, NoneAside
<1>4. PhaseInv'
    BY DEF PhaseInv, SwapTypeOK, Content, NoneLive, MarkerInv, NoneAside
<1>5. WorldInv'
    BY StoppedIsWhole DEF SwapTypeOK
<1> QED BY <1>1, <1>2, <1>3, <1>4, <1>5

LEMMA ScrapFileKeeps ==
    ASSUME SwapInv, NEW f \in File, ScrapFile(f)
    PROVE  SwapInv'
<1> USE DEF SwapInv, ScrapFile
<1>1. SwapTypeOK'
    BY DEF SwapTypeOK, Content, Progress, Store
<1>2. MarkerInv'
    BY DEF MarkerInv, SwapTypeOK, Complete, Save
<1>3. AsideInv'
    BY DEF AsideInv, SwapTypeOK, Content, Store, NoneAside
<1>4. PhaseInv'
    BY DEF PhaseInv, SwapTypeOK, Content, NoneLive, MarkerInv, NoneAside
<1>5. WorldInv'
    BY DEF WorldInv
<1> QED BY <1>1, <1>2, <1>3, <1>4, <1>5

LEMMA CleanAsideKeeps ==
    ASSUME SwapInv, NEW d \in Store, NEW from \in Cleaning, NEW to \in Cleaning, CleanAside(d, from, to)
    PROVE  SwapInv'
<1> USE DEF SwapInv, CleanAside
<1>1. SwapTypeOK'
    BY DEF SwapTypeOK, Content, Progress, Store
<1>2. MarkerInv'
    BY DEF MarkerInv, SwapTypeOK, Complete, Save
<1>3. AsideInv'
    BY DEF AsideInv, SwapTypeOK, Content, Store, NoneAside
<1>4. PhaseInv'
    BY DEF PhaseInv, SwapTypeOK, Content, NoneLive, MarkerInv, NoneAside
<1>5. WorldInv'
    BY DEF WorldInv, SwapTypeOK
<1> QED BY <1>1, <1>2, <1>3, <1>4, <1>5

LEMMA CleanedKeeps ==
    ASSUME SwapInv, NEW from \in Cleaning, NEW to \in Cleaning, Passes(from, to)
    PROVE  SwapInv'
<1> USE DEF SwapInv, Passes
<1>1. SwapTypeOK'
    BY DEF SwapTypeOK, Content, Progress, Store
<1>2. MarkerInv'
    BY DEF MarkerInv, SwapTypeOK, Complete, Save
<1>3. AsideInv'
    BY DEF AsideInv, SwapTypeOK, Content, Store, NoneAside
<1>4. PhaseInv'
    BY DEF PhaseInv, SwapTypeOK, Content, NoneLive, MarkerInv, NoneAside
<1>5. WorldInv'
    BY DEF WorldInv, SwapTypeOK
<1> QED BY <1>1, <1>2, <1>3, <1>4, <1>5

LEMMA FinishKeeps ==
    ASSUME SwapInv, Finish
    PROVE  SwapInv'
<1> USE DEF SwapInv, Finish, Outcome
<1>1. SwapTypeOK'
    BY DEF SwapTypeOK, Content, Progress, Store, Nothing
<1>2. MarkerInv'
    BY DEF MarkerInv, SwapTypeOK, Complete, Save
<1>3. AsideInv'
    BY DEF AsideInv, SwapTypeOK, Content, Store, NoneAside
<1>4. PhaseInv'
    BY DEF PhaseInv
<1>5. WorldInv'
    <2>1. CASE tool = "committed"
        BY <2>1, AskedIsSaved DEF WorldInv, Bases, SwapTypeOK
    <2>2. CASE tool = "undone"
        <3>1. Original = live
            BY <2>2, OriginalIsLive DEF AsideInv, PhaseInv
        <3> QED BY <2>2, <3>1 DEF WorldInv, Bases
    <2> QED BY <2>1, <2>2
<1> QED BY <1>1, <1>2, <1>3, <1>4, <1>5

LEMMA FinishRaisesKeeps ==
    ASSUME SwapInv, FinishRaises
    PROVE  SwapInv'
<1> USE DEF SwapInv, FinishRaises
<1>1. SwapTypeOK'
    BY DEF SwapTypeOK, Content, Progress, Store, Nothing
<1>2. MarkerInv'
    BY DEF MarkerInv, SwapTypeOK, Complete, Save
<1>3. AsideInv'
    BY DEF AsideInv, SwapTypeOK, Content, Store, NoneAside
<1>4. PhaseInv'
    BY DEF PhaseInv
<1>5. WorldInv'
    BY StoppedIsWhole DEF SwapTypeOK
<1> QED BY <1>1, <1>2, <1>3, <1>4, <1>5

LEMMA CrashKeeps ==
    ASSUME SwapInv, Crash
    PROVE  SwapInv'
<1> USE DEF SwapInv, Crash
<1>1. SwapTypeOK'
    BY DEF SwapTypeOK, Content, Progress, Store
<1>2. MarkerInv'
    BY DEF MarkerInv, SwapTypeOK, Complete, Save
<1>3. AsideInv'
    BY DEF AsideInv, SwapTypeOK, Content, Store, NoneAside
<1>4. PhaseInv'
    BY DEF PhaseInv, SwapTypeOK, Content, NoneLive, MarkerInv, NoneAside
<1>5. WorldInv'
    BY StoppedIsWhole DEF SwapTypeOK
<1> QED BY <1>1, <1>2, <1>3, <1>4, <1>5

LEMMA ServerStartsKeeps ==
    ASSUME SwapInv, ServerStarts
    PROVE  SwapInv'
<1> USE DEF SwapInv, ServerStarts
<1>0. live \in Bases /\ live \in World
    BY Worlds DEF WorldInv, Bases, SwapTypeOK, Version
<1>1. SwapTypeOK'
    BY <1>0 DEF SwapTypeOK, Content, Progress, Store
<1>2. MarkerInv'
    BY DEF MarkerInv, SwapTypeOK, Complete, Save
<1>3. AsideInv'
    BY DEF AsideInv, SwapTypeOK, Content, Store, NoneAside
<1>4. PhaseInv'
    BY DEF PhaseInv
<1>5. WorldInv'
    BY DEF WorldInv, Bases, Recoverable
<1> QED BY <1>1, <1>2, <1>3, <1>4, <1>5

LEMMA ServerStopsKeeps ==
    ASSUME SwapInv, ServerStops
    PROVE  SwapInv'
<1> USE DEF SwapInv, ServerStops
<1>0. live' \in World /\ tool = "off"
    BY Worlds DEF WorldInv, SwapTypeOK
<1>1. SwapTypeOK'
    BY <1>0, Worlds DEF SwapTypeOK, Progress, Store
<1>2. MarkerInv'
    BY <1>0 DEF MarkerInv, Complete
<1>3. AsideInv'
    BY <1>0 DEF AsideInv
<1>4. PhaseInv'
    BY <1>0 DEF PhaseInv
<1>5. WorldInv'
    BY <1>0 DEF WorldInv, Bases, Recoverable
<1> QED BY <1>1, <1>2, <1>3, <1>4, <1>5

LEMMA PlayKeeps ==
    ASSUME SwapInv, Play
    PROVE  SwapInv'
<1> USE DEF SwapInv, Play
<1>0. latest' \in Version /\ live' \in World /\ tool = "off"
    BY Worlds DEF WorldInv, SwapTypeOK, Version
<1>1. SwapTypeOK'
    BY <1>0, Worlds DEF SwapTypeOK, Progress, Store
<1>2. MarkerInv'
    BY <1>0 DEF MarkerInv, Complete
<1>3. AsideInv'
    BY <1>0 DEF AsideInv
<1>4. PhaseInv'
    BY <1>0 DEF PhaseInv
<1>5. WorldInv'
    BY <1>0 DEF WorldInv, Bases, Recoverable
<1> QED BY <1>1, <1>2, <1>3, <1>4, <1>5

LEMMA AskKeeps ==
    ASSUME SwapInv, NEW s \in Save, Ask(s)
    PROVE  SwapInv'
<1> USE DEF SwapInv, Ask
<1>0. tool = "off" /\ live = ran
    BY DEF WorldInv
<1>1. SwapTypeOK'
    BY DEF SwapTypeOK, Progress, Store, Save, SaveRecord
<1>2. MarkerInv'
    BY <1>0 DEF MarkerInv, Complete
<1>3. AsideInv'
    BY <1>0 DEF AsideInv
<1>4. PhaseInv'
    BY <1>0 DEF PhaseInv
<1>5. WorldInv'
    BY <1>0 DEF WorldInv, Bases, Recoverable
<1> QED BY <1>1, <1>2, <1>3, <1>4, <1>5

LEMMA WithdrawKeeps ==
    ASSUME SwapInv, Withdraw
    PROVE  SwapInv'
<1> USE DEF SwapInv, Withdraw
<1>0. tool = "off" /\ live = ran
    BY DEF WorldInv
<1>1. SwapTypeOK'
    BY DEF SwapTypeOK, Content, Progress, Store
<1>2. MarkerInv'
    BY <1>0 DEF MarkerInv, Complete
<1>3. AsideInv'
    BY <1>0 DEF AsideInv
<1>4. PhaseInv'
    BY <1>0 DEF PhaseInv
<1>5. WorldInv'
    BY <1>0 DEF WorldInv, Bases, Recoverable
<1> QED BY <1>1, <1>2, <1>3, <1>4, <1>5

LEMMA ArchiveKeeps ==
    ASSUME SwapInv, Archive
    PROVE  SwapInv'
<1> USE DEF SwapInv, Archive
<1>0. tool = "off" /\ live = ran
    BY DEF WorldInv
<1>1. SwapTypeOK'
    BY DEF SwapTypeOK, Content, Progress, Store
<1>2. MarkerInv'
    <2>1. \A s \in Save : Complete(s)' => saves'[s].version \in Version
        BY DEF Complete
    <2>2. marker' # 0 /\ Complete(marker)' => saves'[marker].version = asked'
        BY DEF MarkerInv
    <2> QED BY <1>0, <2>1, <2>2 DEF MarkerInv
<1>3. AsideInv'
    BY <1>0 DEF AsideInv
<1>4. PhaseInv'
    BY <1>0 DEF PhaseInv
<1>5. WorldInv'
    BY <1>0 DEF WorldInv, Bases, Recoverable
<1> QED BY <1>1, <1>2, <1>3, <1>4, <1>5

LEMMA CleanUpKeeps ==
    ASSUME SwapInv, CleanUp
    PROVE  SwapInv'
BY ScrapFileKeeps, CleanAsideKeeps, CleanedKeeps DEF CleanUp, Store

LEMMA SwapKeeps ==
    ASSUME SwapInv, Swap
    PROVE  SwapInv'
<1>1. CASE MakeAside("db", "set_db_aside", "move_db")
    BY <1>1, MakeDbAsideKeeps
<1>2. CASE MakeArtAside
    BY <1>2, MakeArtAsideKeeps
<1>3. CASE InstallDb
    BY <1>3, InstallDbKeeps
<1>4. CASE Commit
    BY <1>4, CommitKeeps
<1>5. CASE \E f \in Family : MoveDbAside(f)
    BY <1>5, MoveAsideKeeps DEF MoveDbAside, Family
<1>6. CASE \E e \in Entry : MoveArtAside(e)
    BY <1>6, MoveAsideKeeps DEF MoveArtAside
<1>7. CASE \E e \in Entry : InstallArt(e)
    BY <1>7, InstallArtKeeps
<1> QED BY <1>1, <1>2, <1>3, <1>4, <1>5, <1>6, <1>7 DEF Swap

LEMMA RollbackKeeps ==
    ASSUME SwapInv, Rollback
    PROVE  SwapInv'
<1>1. CASE \E f \in Family : MoveDbBack(f)
    BY <1>1, MoveBackKeeps DEF MoveDbBack, Family
<1>2. CASE \E e \in Entry : MoveArtBack(e)
    BY <1>2, MoveBackKeeps DEF MoveArtBack
<1>3. CASE \E e \in Entry : RemoveInstalled(e)
    BY <1>3, RemoveInstalledKeeps
<1>4. CASE RemoveInstalledDb
    BY <1>4, RemoveInstalledDbKeeps
<1>5. CASE Fails \/ RolledBack \/ RollbackFails
    BY <1>5, FailsKeeps, RolledBackKeeps, RollbackFailsKeeps
<1>6. CASE \E d \in Store : DropAside(d)
    BY <1>6, DropAsideKeeps
<1> QED BY <1>1, <1>2, <1>3, <1>4, <1>5, <1>6 DEF Rollback

LEMMA ToolKeeps ==
    ASSUME SwapInv, Tool
    PROVE  SwapInv'
<1>1. CASE Swap \/ Rollback
    BY <1>1, SwapKeeps, RollbackKeeps
<1>2. CASE ToolStarts \/ Verify \/ Stage
    BY <1>2, ToolStartsKeeps, VerifyKeeps, StageKeeps
<1>3. CASE CleanUp \/ Finish \/ FinishRaises \/ Crash
    BY <1>3, CleanUpKeeps, FinishKeeps, FinishRaisesKeeps, CrashKeeps
<1> QED BY <1>1, <1>2, <1>3 DEF Tool

LEMMA ServeKeeps ==
    ASSUME SwapInv, Serve
    PROVE  SwapInv'
BY ServerStartsKeeps, ServerStopsKeeps, PlayKeeps, WithdrawKeeps, ArchiveKeeps, AskKeeps DEF Serve

LEMMA StuttersKeep ==
    ASSUME SwapInv, UNCHANGED swapVars
    PROVE  SwapInv'
<1> USE DEF SwapInv, swapVars
<1>1. SwapTypeOK'
    BY DEF SwapTypeOK
<1>2. MarkerInv'
    BY DEF MarkerInv, Complete
<1>3. AsideInv'
    BY DEF AsideInv
<1>4. PhaseInv'
    BY DEF PhaseInv, NoneLive
<1>5. WorldInv'
    BY DEF WorldInv, Bases, Original, Recoverable
<1> QED BY <1>1, <1>2, <1>3, <1>4, <1>5

LEMMA SwapStep == SwapInv /\ [SwapNext]_swapVars => SwapInv'
BY ToolKeeps, ServeKeeps, StuttersKeep DEF SwapNext

\* Whatever archives come and go while the server runs, the tool's own invariant
\* holds (restore.apply_pending, Swap).
THEOREM SwapInvariant == SwapSpec => []SwapInv
<1>1. SwapInit => SwapInv
    BY SwapInitially
<1>2. SwapInv /\ [SwapNext]_swapVars => SwapInv'
    BY SwapStep
<1> QED BY <1>1, <1>2, PTL DEF SwapSpec

-----------------------------------------------------------------------------
(* The saves.  Threads share nothing but the archives: what a thread makes *)
(* or removes no other can reach (MakerInv), and halves go in one order    *)
(* and come in the other (WholeInv).                                       *)

Making == {"copy", "publish_art", "publish_db"}
JobRecord == [step : Step, save : 0..MaxSave, kinds : SUBSET Kind, victims : SUBSET Save,
              spared : 0..MaxSave, then : {"idle", "mark", "release"}, target : 0..MaxSave]

SavesTypeOK ==
    /\ job \in [Thread -> JobRecord]
    /\ created \in 0..MaxSave
    /\ snapshotting \in BOOLEAN /\ restoring \in BOOLEAN /\ shutdown \in BOOLEAN
    /\ pinned \in 0..MaxSave

\* What a thread holds was made before, and it knows what to do next.
JobsInv ==
    \A t \in Thread :
        /\ job[t].step \in {"pin", "snapshot", "mark"} \/ job[t].then = "mark" => job[t].target # 0
        /\ job[t].target <= created /\ \A s \in job[t].victims : s <= created
        /\ job[t].step \in {"remove_db", "remove_art", "remove_rest"} => job[t].victims # {}

\* The save that is being made is the newest, and nobody else has it.
MakerInv ==
    /\ marker <= created
    /\ \A s \in Save : s > created => saves[s].db = "none"
    /\ \A t \in Thread : job[t].step \in Making =>
         /\ snapshotting /\ created # 0 /\ job[t].save = created /\ job[t].kinds # {}
         /\ saves[created].db = "none" /\ marker # created
         /\ \A u \in Thread : /\ job[u].target # created /\ created \notin job[u].victims
                              /\ job[u].step \in Making => u = t
         /\ job[t].step # "copy" => saves[created].version \in Version
         /\ job[t].step = "publish_db" => saves[created].art = "final"

\* A database half lies there only together with a whole art half; a thread
\* removes the art only after the database.
WholeInv ==
    /\ \A s \in Save : saves[s].db = "final" => saves[s].art = "final"
    /\ \A t \in Thread : job[t].step \in {"remove_art", "remove_rest"} => saves[Victim(t)].db = "none"

SavesInv == SavesTypeOK /\ JobsInv /\ MakerInv /\ WholeInv /\ StagedRestoreShutsDown

LEMMA SmallestExists ==
    ASSUME NEW S, S \subseteq Nat, S # {}
    PROVE  \E s \in S : \A r \in S : s <= r
<1>1. IsWellFoundedOn(OpToRel(<, Nat), Nat)
    BY NatLessThanWellFounded
<1>2. PICK s \in S : \A r \in S : ~ (<<r, s>> \in OpToRel(<, Nat))
    BY <1>1, WFMin
<1>3. \A r \in S : ~ (r < s)
    BY <1>2 DEF OpToRel
<1> QED BY <1>3

LEMMA VictimIsOne ==
    ASSUME SavesTypeOK, NEW t \in Thread, job[t].victims # {}
    PROVE  Victim(t) \in job[t].victims /\ Victim(t) \in Save
<1>1. job[t].victims \subseteq Save /\ Save \subseteq Nat
    BY DEF SavesTypeOK, JobRecord, Save
<1>2. PICK s \in job[t].victims : \A r \in job[t].victims : s <= r
    BY <1>1, SmallestExists
<1> QED BY <1>1, <1>2 DEF Victim

LEMMA IdleIs ==
    /\ Idle \in JobRecord
    /\ Idle.step = "idle" /\ Idle.then = "idle" /\ Idle.target = 0 /\ Idle.victims = {} /\ Idle.kinds = {}
BY DEF Idle, JobRecord, Step

LEMMA OnwardTyped ==
    ASSUME NEW j \in JobRecord
    PROVE  /\ Onward(j) \in JobRecord
           /\ Onward(j).step \in {"remove_db", "protect", "mark", "idle"}
           /\ Onward(j).victims \subseteq j.victims
           /\ Onward(j).step = "remove_db" => Onward(j).victims # {}
           /\ Onward(j).step = "mark" \/ Onward(j).then = "mark" => j.then = "mark" /\ Onward(j).target = j.target
           /\ Onward(j).target \in {0, j.target}
<1> USE IdleIs DEF Onward, JobRecord, Step
<1>1. CASE j.victims # {}
    BY <1>1
<1>2. CASE j.victims = {} /\ j.kinds # {}
    BY <1>2
<1>3. CASE j.victims = {} /\ j.kinds = {} /\ j.then = "mark"
    BY <1>3
<1>4. CASE j.victims = {} /\ j.kinds = {} /\ j.then # "mark"
    BY <1>4
<1> QED BY <1>1, <1>2, <1>3, <1>4

LEMMA JobsTyped ==
    ASSUME SavesTypeOK, NEW t \in Thread, NEW j \in JobRecord, job' = [job EXCEPT ![t] = j]
    PROVE  /\ job' \in [Thread -> JobRecord]
           /\ job[t] \in JobRecord /\ job'[t] = j
           /\ \A u \in Thread : u # t => job'[u] = job[u]
BY DEF SavesTypeOK

LEMMA SameVictim ==
    ASSUME NEW u, job'[u].victims = job[u].victims
    PROVE  Victim(u)' = Victim(u)
BY DEF Victim

LEMMA SavesInitially == Init => SavesInv
<1> SUFFICES ASSUME Init PROVE SavesInv
    OBVIOUS
<1> USE IdleIs DEF Init, SwapInit
<1>1. SavesTypeOK
    <2>1. job \in [Thread -> JobRecord]
        OBVIOUS
    <2>2. 0 \in 0..MaxSave
        OBVIOUS
    <2> QED BY <2>1, <2>2 DEF SavesTypeOK
<1>2. JobsInv
    BY DEF JobsInv
<1>3. MakerInv
    BY DEF MakerInv, Making, NoSave
<1>4. WholeInv
    BY DEF WholeInv, NoSave
<1>5. StagedRestoreShutsDown
    BY DEF StagedRestoreShutsDown
<1> QED BY <1>1, <1>2, <1>3, <1>4, <1>5 DEF SavesInv

USE ThreadAssumption DEF locks, SavesOnly

\* Thread t goes on with j, while the saves and the requests stay as they are.
Continues(t, j) ==
    /\ j \in JobRecord /\ job' = [job EXCEPT ![t] = j]
    /\ UNCHANGED <<swapVars, created, snapshotting>>
    /\ restoring' \in BOOLEAN /\ shutdown' \in BOOLEAN /\ pinned' \in 0..MaxSave
    /\ j.step \notin Making \cup {"remove_art", "remove_rest"}
    /\ j.step \in {"pin", "snapshot", "mark"} \/ j.then = "mark" => j.target # 0
    /\ j.target \in {0, job[t].target} \/ (Complete(j.target) /\ j.target \in Save)
    /\ \A s \in j.victims : s \in job[t].victims \/ Complete(s)
    /\ j.step = "remove_db" => j.victims # {}
    /\ job[t].step = "schedule" \/ shutdown => shutdown'

LEMMA ThreadSteps ==
    ASSUME SavesInv, NEW t \in Thread, NEW j, Continues(t, j)
    PROVE  SavesInv' /\ [SwapNext]_swapVars
<1> USE DEF SavesInv, swapVars, Continues
<1>1. /\ job' \in [Thread -> JobRecord] /\ job[t] \in JobRecord /\ job'[t] = j
      /\ \A u \in Thread : u # t => job'[u] = job[u]
    BY JobsTyped
<1>2. SavesTypeOK'
    BY <1>1 DEF SavesTypeOK
<1>3. /\ j.target <= created /\ \A s \in j.victims : s <= created /\ s \in Save
      /\ \A u \in Thread : job[u].step \in Making => j.target # created /\ created \notin j.victims
    BY <1>1 DEF JobsInv, MakerInv, SavesTypeOK, JobRecord, Complete, Save
<1>4. JobsInv'
    BY <1>1, <1>3 DEF JobsInv, JobRecord, SavesTypeOK, Save
<1>5. MakerInv'
    BY <1>1, <1>3 DEF MakerInv
<1>6. WholeInv'
    BY <1>1, SameVictim DEF WholeInv
<1>7. StagedRestoreShutsDown'
    BY <1>1 DEF StagedRestoreShutsDown
<1> QED BY <1>2, <1>4, <1>5, <1>6, <1>7

LEMMA DeferSaves ==
    ASSUME SwapInv, SavesInv, NEW t \in Thread, Defer(t)
    PROVE  SavesInv' /\ [SwapNext]_swapVars
<1> DEFINE k == [job[t] EXCEPT !.kinds = @ \ Deferred]
<1> USE DEF Defer, At
<1>1. job[t] \in JobRecord
    BY DEF SavesInv, SavesTypeOK
<1>2. /\ k \in JobRecord /\ k.target = job[t].target /\ k.then = job[t].then
      /\ \A s \in k.victims : s \in job[t].victims \/ Complete(s)
    BY <1>1 DEF JobRecord
<1>3. /\ job' = [job EXCEPT ![t] = Onward(k)]
      /\ UNCHANGED <<swapVars, created, snapshotting, pinned, shutdown>>
      /\ restoring' \in BOOLEAN /\ job[t].step # "schedule"
    BY DEF GoesOn, SavesInv, SavesTypeOK
<1> HIDE DEF k
<1>4. job[t].then = "mark" => job[t].target # 0
    BY DEF SavesInv, JobsInv
<1>5. pinned \in 0..MaxSave /\ shutdown \in BOOLEAN
    BY DEF SavesInv, SavesTypeOK
<1>6. Continues(t, Onward(k))
    BY <1>2, <1>3, <1>4, <1>5, OnwardTyped DEF Continues, Making
<1> QED BY <1>6, ThreadSteps

LEMMA ListSaves ==
    ASSUME SwapInv, SavesInv, NEW t \in Thread, List(t)
    PROVE  SavesInv' /\ [SwapNext]_swapVars
<1> DEFINE k == LET kind == First(job[t].kinds)
                   IN [job[t] EXCEPT !.kinds = @ \ {kind}, !.spared = 0,
                                     !.victims = Excess(Listed(kind) \ {job[t].spared, pinned})]
<1> USE DEF List, At
<1>1. job[t] \in JobRecord
    BY DEF SavesInv, SavesTypeOK
<1>2. /\ k \in JobRecord /\ k.target = job[t].target /\ k.then = job[t].then
      /\ \A s \in k.victims : s \in job[t].victims \/ Complete(s)
    <2>1. \A kind, S : Excess(Listed(kind) \ S) \subseteq {s \in Save : Complete(s)}
        BY DEF Excess, Listed
    <2>2. \A X : job[t].kinds \ X \in SUBSET Kind
        BY <1>1 DEF JobRecord
    <2>3. ASSUME NEW K \in SUBSET Kind, NEW V \in SUBSET Save
          PROVE  [job[t] EXCEPT !.kinds = K, !.spared = 0, !.victims = V] \in JobRecord
        <3>1. 0 \in 0..MaxSave
            OBVIOUS
        <3> QED BY <1>1, <3>1 DEF JobRecord
    <2>4. /\ k.target = job[t].target /\ k.then = job[t].then
          /\ k.victims \subseteq {s \in Save : Complete(s)}
        BY <1>1, <2>1 DEF JobRecord
    <2> QED BY <2>1, <2>2, <2>3, <2>4
<1>3. /\ job' = [job EXCEPT ![t] = Onward(k)]
      /\ UNCHANGED <<swapVars, created, snapshotting, pinned, shutdown>>
      /\ restoring' \in BOOLEAN /\ job[t].step # "schedule"
    BY DEF GoesOn, SavesInv, SavesTypeOK
<1> HIDE DEF k
<1>4. job[t].then = "mark" => job[t].target # 0
    BY DEF SavesInv, JobsInv
<1>5. pinned \in 0..MaxSave /\ shutdown \in BOOLEAN
    BY DEF SavesInv, SavesTypeOK
<1>6. Continues(t, Onward(k))
    BY <1>2, <1>3, <1>4, <1>5, OnwardTyped DEF Continues, Making
<1> QED BY <1>6, ThreadSteps

LEMMA ProtectSaves ==
    ASSUME SwapInv, SavesInv, NEW t \in Thread, Protect(t)
    PROVE  SavesInv' /\ [SwapNext]_swapVars
<1> DEFINE j == [job[t] EXCEPT !.step = "list", !.spared = marker]
<1> USE DEF Protect, At, Goes
<1>1. job[t] \in JobRecord
    BY DEF SavesInv, SavesTypeOK
<1>2. j \in JobRecord /\ job' = [job EXCEPT ![t] = j]
    <2>1. marker \in 0..MaxSave /\ job \in [Thread -> JobRecord] /\ "list" \in Step
        BY DEF SwapInv, SwapTypeOK, SavesInv, SavesTypeOK, Step
    <2>2. j \in JobRecord
        BY <1>1, <2>1 DEF JobRecord
    <2>3. job' = [job EXCEPT ![t] = j]
        BY <2>1
    <2> QED BY <2>2, <2>3
<1>3. /\ j.target \in {0, job[t].target} \/ (Complete(j.target) /\ j.target \in Save)
      /\ \A s \in j.victims : s \in job[t].victims \/ Complete(s)
    BY <1>1, IdleIs DEF JobRecord, Save
<1>4. /\ j.step \notin Making \cup {"remove_art", "remove_rest"}
      /\ j.step = "remove_db" => j.victims # {}
      /\ j.step \in {"pin", "snapshot", "mark"} \/ j.then = "mark" => j.target # 0
    BY <1>1, IdleIs DEF Making, JobRecord, SavesInv, JobsInv, Save
<1>5. /\ UNCHANGED <<swapVars, created, snapshotting>>
      /\ restoring' \in BOOLEAN /\ shutdown' \in BOOLEAN /\ pinned' \in 0..MaxSave
      /\ job[t].step = "schedule" \/ shutdown => shutdown'
    BY <1>1 DEF SavesInv, SavesTypeOK, JobRecord
<1> HIDE DEF j
<1>6. Continues(t, j)
    BY <1>2, <1>3, <1>4, <1>5 DEF Continues
<1> QED BY <1>6, ThreadSteps

LEMMA DeleteSaves ==
    ASSUME SwapInv, SavesInv, NEW t \in Thread, NEW s \in Save, Delete(t, s)
    PROVE  SavesInv' /\ [SwapNext]_swapVars
<1> DEFINE j == [Idle EXCEPT !.step = "remove_db", !.victims = {s}]
<1> USE DEF Delete, At, Goes
<1>1. job[t] \in JobRecord
    BY DEF SavesInv, SavesTypeOK
<1>2. j \in JobRecord /\ job' = [job EXCEPT ![t] = j]
    BY <1>1, IdleIs DEF JobRecord, Step
<1>3. /\ j.target \in {0, job[t].target} \/ (Complete(j.target) /\ j.target \in Save)
      /\ \A v \in j.victims : v \in job[t].victims \/ Complete(v)
    BY <1>1, IdleIs DEF JobRecord, Save
<1>4. /\ j.step \notin Making \cup {"remove_art", "remove_rest"}
      /\ j.step = "remove_db" => j.victims # {}
      /\ j.step \in {"pin", "snapshot", "mark"} \/ j.then = "mark" => j.target # 0
    BY <1>1, IdleIs DEF Making, JobRecord, SavesInv, JobsInv, Save
<1>5. /\ UNCHANGED <<swapVars, created, snapshotting>>
      /\ restoring' \in BOOLEAN /\ shutdown' \in BOOLEAN /\ pinned' \in 0..MaxSave
      /\ job[t].step = "schedule" \/ shutdown => shutdown'
    BY <1>1 DEF SavesInv, SavesTypeOK, JobRecord
<1> HIDE DEF j
<1>6. Continues(t, j)
    BY <1>2, <1>3, <1>4, <1>5 DEF Continues
<1> QED BY <1>6, ThreadSteps

LEMMA RequestSaves ==
    ASSUME SwapInv, SavesInv, NEW t \in Thread, NEW s \in Save, Request(t, s)
    PROVE  SavesInv' /\ [SwapNext]_swapVars
<1> DEFINE j == [Idle EXCEPT !.step = "pin", !.target = s]
<1> USE DEF Request, At, Goes
<1>1. job[t] \in JobRecord
    BY DEF SavesInv, SavesTypeOK
<1>2. j \in JobRecord /\ job' = [job EXCEPT ![t] = j]
    <2>1. s \in 0..MaxSave /\ "pin" \in Step
        BY DEF Save, Step
    <2>2. j \in JobRecord
        BY <2>1, IdleIs DEF JobRecord
    <2> QED BY <2>2
<1>3. /\ j.target \in {0, job[t].target} \/ (Complete(j.target) /\ j.target \in Save)
      /\ \A v \in j.victims : v \in job[t].victims \/ Complete(v)
    BY <1>1, IdleIs DEF JobRecord, Save
<1>4. /\ j.step \notin Making \cup {"remove_art", "remove_rest"}
      /\ j.step = "remove_db" => j.victims # {}
      /\ j.step \in {"pin", "snapshot", "mark"} \/ j.then = "mark" => j.target # 0
    BY <1>1, IdleIs DEF Making, JobRecord, SavesInv, JobsInv, Save
<1>5. /\ UNCHANGED <<swapVars, created, snapshotting>>
      /\ restoring' \in BOOLEAN /\ shutdown' \in BOOLEAN /\ pinned' \in 0..MaxSave
      /\ job[t].step = "schedule" \/ shutdown => shutdown'
    BY <1>1 DEF SavesInv, SavesTypeOK, JobRecord
<1> HIDE DEF j
<1>6. Continues(t, j)
    BY <1>2, <1>3, <1>4, <1>5 DEF Continues
<1> QED BY <1>6, ThreadSteps

LEMMA IncompatibleSaves ==
    ASSUME SwapInv, SavesInv, NEW t \in Thread, Incompatible(t)
    PROVE  SavesInv' /\ [SwapNext]_swapVars
<1> DEFINE j == Idle
<1> USE DEF Incompatible, At, Goes
<1>1. job[t] \in JobRecord
    BY DEF SavesInv, SavesTypeOK
<1>2. j \in JobRecord /\ job' = [job EXCEPT ![t] = j]
    BY <1>1, IdleIs
<1>3. /\ j.target \in {0, job[t].target} \/ (Complete(j.target) /\ j.target \in Save)
      /\ \A s \in j.victims : s \in job[t].victims \/ Complete(s)
    BY <1>1, IdleIs DEF JobRecord, Save
<1>4. /\ j.step \notin Making \cup {"remove_art", "remove_rest"}
      /\ j.step = "remove_db" => j.victims # {}
      /\ j.step \in {"pin", "snapshot", "mark"} \/ j.then = "mark" => j.target # 0
    BY <1>1, IdleIs DEF Making, JobRecord, SavesInv, JobsInv, Save
<1>5. /\ UNCHANGED <<swapVars, created, snapshotting>>
      /\ restoring' \in BOOLEAN /\ shutdown' \in BOOLEAN /\ pinned' \in 0..MaxSave
      /\ job[t].step = "schedule" \/ shutdown => shutdown'
    BY <1>1 DEF SavesInv, SavesTypeOK, JobRecord
<1> HIDE DEF j
<1>6. Continues(t, j)
    BY <1>2, <1>3, <1>4, <1>5 DEF Continues
<1> QED BY <1>6, ThreadSteps

LEMMA PinSaves ==
    ASSUME SwapInv, SavesInv, NEW t \in Thread, Pin(t)
    PROVE  SavesInv' /\ [SwapNext]_swapVars
<1> DEFINE j == [job[t] EXCEPT !.step = "snapshot"]
<1> USE DEF Pin, At, Goes
<1>1. job[t] \in JobRecord
    BY DEF SavesInv, SavesTypeOK
<1>2. j \in JobRecord /\ job' = [job EXCEPT ![t] = j]
    BY <1>1, IdleIs DEF JobRecord, Step
<1>3. /\ j.target \in {0, job[t].target} \/ (Complete(j.target) /\ j.target \in Save)
      /\ \A s \in j.victims : s \in job[t].victims \/ Complete(s)
    BY <1>1, IdleIs DEF JobRecord, Save
<1>4. /\ j.step \notin Making \cup {"remove_art", "remove_rest"}
      /\ j.step = "remove_db" => j.victims # {}
      /\ j.step \in {"pin", "snapshot", "mark"} \/ j.then = "mark" => j.target # 0
    BY <1>1, IdleIs DEF Making, JobRecord, SavesInv, JobsInv, Save
<1>5. /\ UNCHANGED <<swapVars, created, snapshotting>>
      /\ restoring' \in BOOLEAN /\ shutdown' \in BOOLEAN /\ pinned' \in 0..MaxSave
      /\ job[t].step = "schedule" \/ shutdown => shutdown'
    BY <1>1 DEF SavesInv, SavesTypeOK, JobRecord
<1> HIDE DEF j
<1>6. Continues(t, j)
    BY <1>2, <1>3, <1>4, <1>5 DEF Continues
<1> QED BY <1>6, ThreadSteps

LEMMA CannotSaveSaves ==
    ASSUME SwapInv, SavesInv, NEW t \in Thread, CannotSave(t)
    PROVE  SavesInv' /\ [SwapNext]_swapVars
<1> DEFINE j == [job[t] EXCEPT !.step = "give_up"]
<1> USE DEF CannotSave, At, Goes
<1>1. job[t] \in JobRecord
    BY DEF SavesInv, SavesTypeOK
<1>2. j \in JobRecord /\ job' = [job EXCEPT ![t] = j]
    BY <1>1, IdleIs DEF JobRecord, Step
<1>3. /\ j.target \in {0, job[t].target} \/ (Complete(j.target) /\ j.target \in Save)
      /\ \A s \in j.victims : s \in job[t].victims \/ Complete(s)
    BY <1>1, IdleIs DEF JobRecord, Save
<1>4. /\ j.step \notin Making \cup {"remove_art", "remove_rest"}
      /\ j.step = "remove_db" => j.victims # {}
      /\ j.step \in {"pin", "snapshot", "mark"} \/ j.then = "mark" => j.target # 0
    BY <1>1, IdleIs DEF Making, JobRecord, SavesInv, JobsInv, Save
<1>5. /\ UNCHANGED <<swapVars, created, snapshotting>>
      /\ restoring' \in BOOLEAN /\ shutdown' \in BOOLEAN /\ pinned' \in 0..MaxSave
      /\ job[t].step = "schedule" \/ shutdown => shutdown'
    BY <1>1 DEF SavesInv, SavesTypeOK, JobRecord
<1> HIDE DEF j
<1>6. Continues(t, j)
    BY <1>2, <1>3, <1>4, <1>5 DEF Continues
<1> QED BY <1>6, ThreadSteps

LEMMA GiveUpSaves ==
    ASSUME SwapInv, SavesInv, NEW t \in Thread, GiveUp(t)
    PROVE  SavesInv' /\ [SwapNext]_swapVars
<1> DEFINE j == [job[t] EXCEPT !.step = "defer", !.kinds = Automatic, !.then = "release"]
<1> USE DEF GiveUp, Retain, At, Goes
<1>1. job[t] \in JobRecord
    BY DEF SavesInv, SavesTypeOK
<1>2. j \in JobRecord /\ job' = [job EXCEPT ![t] = j]
    BY <1>1, IdleIs DEF JobRecord, Step, Kind
<1>3. /\ j.target \in {0, job[t].target} \/ (Complete(j.target) /\ j.target \in Save)
      /\ \A s \in j.victims : s \in job[t].victims \/ Complete(s)
    BY <1>1, IdleIs DEF JobRecord, Save
<1>4. /\ j.step \notin Making \cup {"remove_art", "remove_rest"}
      /\ j.step = "remove_db" => j.victims # {}
      /\ j.step \in {"pin", "snapshot", "mark"} \/ j.then = "mark" => j.target # 0
    BY <1>1, IdleIs DEF Making, JobRecord, SavesInv, JobsInv, Save
<1>5. /\ UNCHANGED <<swapVars, created, snapshotting>>
      /\ restoring' \in BOOLEAN /\ shutdown' \in BOOLEAN /\ pinned' \in 0..MaxSave
      /\ job[t].step = "schedule" \/ shutdown => shutdown'
    BY <1>1 DEF SavesInv, SavesTypeOK, JobRecord
<1> HIDE DEF j
<1>6. Continues(t, j)
    BY <1>2, <1>3, <1>4, <1>5 DEF Continues
<1> QED BY <1>6, ThreadSteps

LEMMA ScheduleSaves ==
    ASSUME SwapInv, SavesInv, NEW t \in Thread, Schedule(t)
    PROVE  SavesInv' /\ [SwapNext]_swapVars
<1> DEFINE j == Idle
<1> USE DEF Schedule, At, Goes
<1>1. job[t] \in JobRecord
    BY DEF SavesInv, SavesTypeOK
<1>2. j \in JobRecord /\ job' = [job EXCEPT ![t] = j]
    BY <1>1, IdleIs
<1>3. /\ j.target \in {0, job[t].target} \/ (Complete(j.target) /\ j.target \in Save)
      /\ \A s \in j.victims : s \in job[t].victims \/ Complete(s)
    BY <1>1, IdleIs DEF JobRecord, Save
<1>4. /\ j.step \notin Making \cup {"remove_art", "remove_rest"}
      /\ j.step = "remove_db" => j.victims # {}
      /\ j.step \in {"pin", "snapshot", "mark"} \/ j.then = "mark" => j.target # 0
    BY <1>1, IdleIs DEF Making, JobRecord, SavesInv, JobsInv, Save
<1>5. /\ UNCHANGED <<swapVars, created, snapshotting>>
      /\ restoring' \in BOOLEAN /\ shutdown' \in BOOLEAN /\ pinned' \in 0..MaxSave
      /\ job[t].step = "schedule" \/ shutdown => shutdown'
    BY <1>1 DEF SavesInv, SavesTypeOK, JobRecord
<1> HIDE DEF j
<1>6. Continues(t, j)
    BY <1>2, <1>3, <1>4, <1>5 DEF Continues
<1> QED BY <1>6, ThreadSteps

\* A save is numbered: none had that number before.
LEMMA NumberedSaves ==
    ASSUME SwapInv, SavesInv, NEW t \in Thread, NEW kind \in Kind, NEW then \in {"idle", "mark"},
           NEW target \in 0..MaxSave, Numbered(t, kind, then, target),
           target <= created, then = "mark" => target # 0, ~(job[t].step = "schedule"),
           UNCHANGED <<swapVars, restoring, pinned, shutdown>>
    PROVE  SavesInv' /\ [SwapNext]_swapVars
<1> DEFINE j == [Idle EXCEPT !.step = "copy", !.save = created', !.kinds = {kind}, !.then = then,
                             !.target = target]
<1> USE DEF SavesInv, swapVars
<1>1. /\ created' = created + 1 /\ created' \in Save /\ created \in 0..MaxSave /\ created' \in 0..MaxSave
      /\ snapshotting = FALSE /\ snapshotting' = TRUE
    BY DEF Numbered, SavesTypeOK, Save
<1>2. /\ j \in JobRecord /\ j.step = "copy" /\ j.save = created' /\ j.kinds = {kind} /\ j.then = then
      /\ j.target = target /\ j.victims = {}
    BY <1>1, IdleIs DEF JobRecord, Step
<1>3. job' = [job EXCEPT ![t] = j]
    BY DEF Numbered
<1> HIDE DEF j
<1>4. /\ job' \in [Thread -> JobRecord] /\ job[t] \in JobRecord /\ job'[t] = j
      /\ \A u \in Thread : u # t => job'[u] = job[u]
    BY <1>2, <1>3, JobsTyped
<1>5. SavesTypeOK'
    BY <1>1, <1>4 DEF SavesTypeOK
<1>6. JobsInv'
    BY <1>1, <1>2, <1>4 DEF JobsInv, JobRecord, SavesTypeOK, Save
<1>7. \A u \in Thread : job[u].step \notin Making
    BY <1>1 DEF MakerInv
<1>8. \A u \in Thread : job'[u].target # created' /\ created' \notin job'[u].victims
    BY <1>1, <1>2, <1>4 DEF JobsInv, JobRecord, SavesTypeOK
<1>9. MakerInv'
    <2>1. marker <= created' /\ marker # created' /\ \A s \in Save : s > created' => saves[s].db = "none"
        BY <1>1 DEF MakerInv, Save, SwapInv, SwapTypeOK
    <2>2. saves[created'].db = "none" /\ created' # 0
        BY <1>1 DEF MakerInv, Save
    <2>3. \A u \in Thread : job'[u].step \in Making => u = t
        BY <1>4, <1>7
    <2> QED BY <1>1, <1>2, <1>4, <1>8, <2>1, <2>2, <2>3 DEF MakerInv, Making
<1>10. WholeInv'
    BY <1>2, <1>4, SameVictim DEF WholeInv
<1>11. StagedRestoreShutsDown'
    BY <1>4 DEF StagedRestoreShutsDown
<1> QED BY <1>5, <1>6, <1>9, <1>10, <1>11

LEMMA CreateSaves ==
    ASSUME SwapInv, SavesInv, NEW t \in Thread, NEW kind \in Kind, Create(t, kind)
    PROVE  SavesInv' /\ [SwapNext]_swapVars
<1>1. 0 \in 0..MaxSave /\ 0 <= created
    BY DEF SavesInv, SavesTypeOK
<1> QED BY <1>1, NumberedSaves DEF Create, At

LEMMA SaveBeforeSaves ==
    ASSUME SwapInv, SavesInv, NEW t \in Thread, SaveBefore(t)
    PROVE  SavesInv' /\ [SwapNext]_swapVars
<1>1. job[t].target \in 0..MaxSave /\ job[t].target # 0 /\ job[t].target <= created
    BY DEF SavesInv, SavesTypeOK, JobRecord, JobsInv, SaveBefore, At
<1> QED BY <1>1, NumberedSaves DEF SaveBefore, At, Kind, Automatic

\* Thread t goes on with j and changes save s, which only it makes or which is
\* to be removed.
Changes(t, j, s, to) ==
    /\ s \in Save /\ to \in SaveRecord /\ saves' = [saves EXCEPT ![s] = to]
    /\ server = "up" /\ SavesOnly
    /\ j \in JobRecord /\ job' = [job EXCEPT ![t] = j]
    /\ UNCHANGED <<created, pinned, shutdown>>
    /\ snapshotting' \in BOOLEAN /\ restoring' \in BOOLEAN
    /\ j.step \in {"pin", "snapshot", "mark"} \/ j.then = "mark" => j.target # 0
    /\ j.target \in {0, job[t].target} /\ j.victims \subseteq job[t].victims
    /\ j.step \in {"remove_db", "remove_art", "remove_rest"} => j.victims # {}
    /\ job[t].step # "schedule"
    /\ to.db = "final" => to.art = "final" /\ to.version \in Version

LEMMA ChangesTyped ==
    ASSUME SwapInv, SavesInv, NEW t \in Thread, NEW j, NEW s, NEW to, Changes(t, j, s, to)
    PROVE  /\ saves' \in [Save -> SaveRecord] /\ saves'[s] = to
           /\ \A r \in Save : r # s => saves'[r] = saves[r]
           /\ job[t] \in JobRecord /\ job'[t] = j
           /\ \A u \in Thread : u # t => job'[u] = job[u]
           /\ SavesTypeOK' /\ JobsInv' /\ StagedRestoreShutsDown'
<1> USE DEF Changes, SavesInv, SavesOnly
<1>1. saves' \in [Save -> SaveRecord] /\ saves'[s] = to /\ \A r \in Save : r # s => saves'[r] = saves[r]
    BY DEF SwapInv, SwapTypeOK
<1>2. /\ job' \in [Thread -> JobRecord] /\ job[t] \in JobRecord /\ job'[t] = j
      /\ \A u \in Thread : u # t => job'[u] = job[u]
    BY JobsTyped
<1>3. SavesTypeOK'
    BY <1>2 DEF SavesTypeOK
<1>4. JobsInv'
    BY <1>2 DEF JobsInv, JobRecord, SavesTypeOK, Save
<1>5. StagedRestoreShutsDown'
    BY <1>2 DEF StagedRestoreShutsDown
<1> QED BY <1>1, <1>2, <1>3, <1>4, <1>5

LEMMA ChangesArchive ==
    ASSUME SwapInv, SavesInv, NEW t \in Thread, NEW j, NEW s, NEW to, Changes(t, j, s, to),
           s = marker /\ to.db = "final" =>
             saves[s].db = "final" /\ to.version = saves[s].version
    PROVE  [SwapNext]_swapVars
<1> USE DEF Changes, SavesOnly
<1>1. saves' \in [Save -> SaveRecord] /\ saves'[s] = to /\ \A r \in Save : r # s => saves'[r] = saves[r]
    BY ChangesTyped
<1>2. \A r \in Save : Complete(r)' => saves'[r].version \in Version
    BY <1>1 DEF SwapInv, MarkerInv, Complete
<1>3. marker # 0 => marker \in Save
    BY DEF SwapInv, SwapTypeOK, Save
<1>4. marker # 0 /\ Complete(marker)' => Complete(marker) /\ saves'[marker].version = saves[marker].version
    BY <1>1, <1>3 DEF Complete, SavesInv, WholeInv
<1> QED BY <1>1, <1>2, <1>4 DEF Archive, SwapNext, Serve

\* The thread that makes a save.
LEMMA MakerSteps ==
    ASSUME SwapInv, SavesInv, NEW t \in Thread, NEW j, NEW to, Changes(t, j, created, to),
           job[t].step \in Making,
           j.step \in Making =>
             /\ snapshotting' /\ j.save = created /\ j.kinds # {} /\ to.db = "none"
             /\ j.step # "copy" => to.version \in Version
             /\ j.step = "publish_db" => to.art = "final",
           j.step \notin {"remove_art", "remove_rest"}
    PROVE  SavesInv' /\ [SwapNext]_swapVars
<1> USE DEF SavesInv
<1>1. /\ saves' \in [Save -> SaveRecord] /\ saves'[created] = to
      /\ \A r \in Save : r # created => saves'[r] = saves[r]
      /\ job[t] \in JobRecord /\ job'[t] = j
      /\ \A u \in Thread : u # t => job'[u] = job[u]
    BY ChangesTyped
<1>2. SavesTypeOK' /\ JobsInv' /\ StagedRestoreShutsDown'
    BY ChangesTyped
<1>3. /\ marker # created /\ created \in Save /\ created' = created /\ marker' = marker /\ created # 0
      /\ \A u \in Thread : job[u].target # created /\ created \notin job[u].victims
      /\ \A u \in Thread : u # t => job[u].step \notin Making
    BY DEF MakerInv, Changes, SavesOnly
<1>4. [SwapNext]_swapVars
    BY <1>3, ChangesArchive
<1>5. \A u \in Thread : job'[u].target # created /\ created \notin job'[u].victims
    BY <1>1, <1>3 DEF Changes, Save
<1>6. MakerInv'
    <2>1. marker' <= created' /\ \A s \in Save : s > created' => saves'[s].db = "none"
        BY <1>1, <1>3 DEF MakerInv, Save
    <2>2. \A u \in Thread : job'[u].step \in Making => u = t
        BY <1>1, <1>3
    <2> QED BY <1>1, <1>3, <1>5, <2>1, <2>2 DEF MakerInv, Save
<1>7. WholeInv'
    <2>1. \A s \in Save : saves'[s].db = "final" => saves'[s].art = "final"
        BY <1>1 DEF WholeInv, Changes
    <2>2. ASSUME NEW u \in Thread, job'[u].step \in {"remove_art", "remove_rest"}
          PROVE  saves'[Victim(u)'].db = "none"
        <3>1. u # t /\ job'[u] = job[u] /\ job[u].victims # {}
            BY <1>1, <2>2 DEF JobsInv
        <3>2. Victim(u) \in Save /\ Victim(u) # created /\ Victim(u)' = Victim(u)
            BY <1>3, <3>1, VictimIsOne, SameVictim
        <3> QED BY <1>1, <2>2, <3>1, <3>2 DEF WholeInv
    <2> QED BY <2>1, <2>2 DEF WholeInv
<1> QED BY <1>2, <1>4, <1>6, <1>7

\* A thread that removes a save.
LEMMA RemoverSteps ==
    ASSUME SwapInv, SavesInv, NEW t \in Thread, NEW j, NEW to, Changes(t, j, Victim(t), to),
           Victim(t) \in job[t].victims, job[t].step \notin Making, j.step \notin Making,
           to.db = "none", snapshotting' = snapshotting,
           j.step \in {"remove_art", "remove_rest"} => j.victims = job[t].victims
    PROVE  SavesInv' /\ [SwapNext]_swapVars
<1> USE DEF SavesInv
<1>1. /\ saves' \in [Save -> SaveRecord] /\ saves'[Victim(t)] = to /\ Victim(t) \in Save
      /\ \A r \in Save : r # Victim(t) => saves'[r] = saves[r]
      /\ job[t] \in JobRecord /\ job'[t] = j
      /\ \A u \in Thread : u # t => job'[u] = job[u]
    BY ChangesTyped DEF Changes
<1>2. SavesTypeOK' /\ JobsInv' /\ StagedRestoreShutsDown'
    BY ChangesTyped
<1>3. [SwapNext]_swapVars
    BY ChangesArchive
<1>4. created' = created /\ marker' = marker
    BY DEF Changes, SavesOnly
<1>5. MakerInv'
    <2>1. marker' <= created' /\ \A s \in Save : s > created' => saves'[s].db = "none"
        BY <1>1, <1>4 DEF MakerInv
    <2>2. ASSUME NEW u \in Thread, job'[u].step \in Making
          PROVE  /\ u # t /\ job'[u] = job[u] /\ created \in Save /\ saves'[created] = saves[created]
                 /\ \A w \in Thread : /\ job'[w].target # created /\ created \notin job'[w].victims
                                      /\ job'[w].step \in Making => w = u
        <3>1. u # t /\ job'[u] = job[u]
            BY <1>1, <2>2
        <3>2. /\ created \in Save /\ created # Victim(t)
              /\ \A w \in Thread : /\ job[w].target # created /\ created \notin job[w].victims
                                   /\ job[w].step \in Making => w = u
            BY <2>2, <3>1 DEF MakerInv, SavesTypeOK, Save
        <3>3. /\ j.target # created /\ created \notin j.victims /\ j.step \notin Making
              /\ created' = created
            BY <3>2 DEF Changes, Save
        <3> QED BY <1>1, <3>1, <3>2, <3>3
    <2> QED BY <1>4, <2>1, <2>2 DEF MakerInv
<1>6. WholeInv'
    <2>1. \A s \in Save : saves'[s].db = "final" => saves'[s].art = "final"
        BY <1>1 DEF WholeInv, Changes
    <2>2. ASSUME NEW u \in Thread, job'[u].step \in {"remove_art", "remove_rest"}
          PROVE  saves'[Victim(u)'].db = "none"
        <3>1. CASE u = t
            BY <1>1, <2>2, <3>1, SameVictim
        <3>2. CASE u # t
            <4>1. job'[u] = job[u] /\ job[u].victims # {}
                BY <1>1, <2>2, <3>2 DEF JobsInv
            <4>2. Victim(u) \in Save /\ Victim(u)' = Victim(u)
                BY <4>1, VictimIsOne, SameVictim
            <4> QED BY <1>1, <2>2, <4>1, <4>2 DEF WholeInv
        <3> QED BY <3>1, <3>2
    <2> QED BY <2>1, <2>2 DEF WholeInv
<1> QED BY <1>2, <1>3, <1>5, <1>6

LEMMA CopySaves ==
    ASSUME SwapInv, SavesInv, NEW t \in Thread, Copy(t)
    PROVE  SavesInv' /\ [SwapNext]_swapVars
<1> DEFINE j == [job[t] EXCEPT !.step = "publish_art"]
<1> DEFINE to == [kind |-> KindOf(t), version |-> live[Db], db |-> "none", art |-> "none"]
<1> USE DEF Copy, At, Goes
<1>1. /\ job[t] \in JobRecord /\ job[t].step \in Making /\ job[t].step # "schedule"
      /\ job[t].save = created /\ created \in Save /\ job[t].kinds # {}
      /\ snapshotting /\ saves[created].db = "none"
      /\ job[t].step # "copy" => saves[created].version \in Version
      /\ job[t].step = "publish_db" => saves[created].art = "final"
      /\ job[t].then = "mark" => job[t].target # 0
    BY DEF SavesInv, SavesTypeOK, MakerInv, JobsInv, Making, Save
<1>2. saves \in [Save -> SaveRecord] /\ saves[created] \in SaveRecord
    BY <1>1 DEF SwapInv, SwapTypeOK
<1>a. KindOf(t) \in Kind
    BY <1>1 DEF KindOf, JobRecord
<1>b. live[Db] \in Version /\ live[Db] \in 0..MaxVersion
    BY Worlds DEF SwapInv, WorldInv, SwapTypeOK
<1>3. /\ to \in SaveRecord /\ to.db \in Half /\ to.art \in Half
      /\ to.db = "final" => to.art = "final" /\ to.version \in Version
    BY <1>a, <1>b DEF SaveRecord, Half
<1>4. saves' = [saves EXCEPT ![created] = to]
    BY <1>1, <1>2
<1>5. j \in JobRecord /\ job' = [job EXCEPT ![t] = j]
    BY <1>1, IdleIs DEF JobRecord, Step
<1>6. /\ j.step \in {"pin", "snapshot", "mark"} \/ j.then = "mark" => j.target # 0
      /\ j.target \in {0, job[t].target} /\ j.victims \subseteq job[t].victims
      /\ j.step \notin {"remove_db", "remove_art", "remove_rest"}
    BY <1>1, IdleIs DEF JobRecord
<1>7. /\ server = "up" /\ SavesOnly /\ UNCHANGED <<created, pinned, shutdown>>
      /\ snapshotting' \in BOOLEAN /\ restoring' \in BOOLEAN
    BY <1>1 DEF SavesInv, SavesTypeOK
<1>8. j.step \in Making =>
         /\ snapshotting' /\ j.save = created /\ j.kinds # {} /\ to.db = "none"
         /\ j.step # "copy" => to.version \in Version
         /\ j.step = "publish_db" => to.art = "final"
    BY <1>1, <1>2, IdleIs, <1>b DEF JobRecord, Making, SaveRecord
<1> HIDE DEF j, to
<1>9. Changes(t, j, created, to)
    BY <1>1, <1>3, <1>4, <1>5, <1>6, <1>7 DEF Changes
<1> QED BY <1>1, <1>6, <1>8, <1>9, MakerSteps

LEMMA PublishArtSaves ==
    ASSUME SwapInv, SavesInv, NEW t \in Thread, PublishArt(t)
    PROVE  SavesInv' /\ [SwapNext]_swapVars
<1> DEFINE j == [job[t] EXCEPT !.step = "publish_db"]
<1> DEFINE to == [saves[created] EXCEPT !.art = "final"]
<1> USE DEF PublishArt, Becomes, At, Goes
<1>1. /\ job[t] \in JobRecord /\ job[t].step \in Making /\ job[t].step # "schedule"
      /\ job[t].save = created /\ created \in Save /\ job[t].kinds # {}
      /\ snapshotting /\ saves[created].db = "none"
      /\ job[t].step # "copy" => saves[created].version \in Version
      /\ job[t].step = "publish_db" => saves[created].art = "final"
      /\ job[t].then = "mark" => job[t].target # 0
    BY DEF SavesInv, SavesTypeOK, MakerInv, JobsInv, Making, Save
<1>2. saves \in [Save -> SaveRecord] /\ saves[created] \in SaveRecord
    BY <1>1 DEF SwapInv, SwapTypeOK
<1>3. /\ to \in SaveRecord /\ to.db \in Half /\ to.art \in Half
      /\ to.db = "final" => to.art = "final" /\ to.version \in Version
    BY <1>1, <1>2 DEF SaveRecord, Half
<1>4. saves' = [saves EXCEPT ![created] = to]
    BY <1>1, <1>2
<1>5. j \in JobRecord /\ job' = [job EXCEPT ![t] = j]
    BY <1>1, IdleIs DEF JobRecord, Step
<1>6. /\ j.step \in {"pin", "snapshot", "mark"} \/ j.then = "mark" => j.target # 0
      /\ j.target \in {0, job[t].target} /\ j.victims \subseteq job[t].victims
      /\ j.step \notin {"remove_db", "remove_art", "remove_rest"}
    BY <1>1, IdleIs DEF JobRecord
<1>7. /\ server = "up" /\ SavesOnly /\ UNCHANGED <<created, pinned, shutdown>>
      /\ snapshotting' \in BOOLEAN /\ restoring' \in BOOLEAN
    BY <1>1 DEF SavesInv, SavesTypeOK
<1>8. j.step \in Making =>
         /\ snapshotting' /\ j.save = created /\ j.kinds # {} /\ to.db = "none"
         /\ j.step # "copy" => to.version \in Version
         /\ j.step = "publish_db" => to.art = "final"
    BY <1>1, <1>2, IdleIs DEF JobRecord, Making, SaveRecord
<1> HIDE DEF j, to
<1>9. Changes(t, j, created, to)
    BY <1>1, <1>3, <1>4, <1>5, <1>6, <1>7 DEF Changes
<1> QED BY <1>1, <1>6, <1>8, <1>9, MakerSteps

LEMMA PublishDbSaves ==
    ASSUME SwapInv, SavesInv, NEW t \in Thread, PublishDb(t)
    PROVE  SavesInv' /\ [SwapNext]_swapVars
<1> DEFINE j == IF job[t].kinds \subseteq Automatic THEN [job[t] EXCEPT !.step = "defer"] ELSE Idle
<1> DEFINE to == [saves[created] EXCEPT !.db = "final"]
<1> USE DEF PublishDb, Becomes, At, Goes
<1>1. /\ job[t] \in JobRecord /\ job[t].step \in Making /\ job[t].step # "schedule"
      /\ job[t].save = created /\ created \in Save /\ job[t].kinds # {}
      /\ snapshotting /\ saves[created].db = "none"
      /\ job[t].step # "copy" => saves[created].version \in Version
      /\ job[t].step = "publish_db" => saves[created].art = "final"
      /\ job[t].then = "mark" => job[t].target # 0
    BY DEF SavesInv, SavesTypeOK, MakerInv, JobsInv, Making, Save
<1>2. saves \in [Save -> SaveRecord] /\ saves[created] \in SaveRecord
    BY <1>1 DEF SwapInv, SwapTypeOK
<1>3. /\ to \in SaveRecord /\ to.db \in Half /\ to.art \in Half
      /\ to.db = "final" => to.art = "final" /\ to.version \in Version
    BY <1>1, <1>2 DEF SaveRecord, Half
<1>4. saves' = [saves EXCEPT ![created] = to]
    BY <1>1, <1>2
<1>5. j \in JobRecord /\ job' = [job EXCEPT ![t] = j]
    BY <1>1, IdleIs DEF JobRecord, Step
<1>6. /\ j.step \in {"pin", "snapshot", "mark"} \/ j.then = "mark" => j.target # 0
      /\ j.target \in {0, job[t].target} /\ j.victims \subseteq job[t].victims
      /\ j.step \notin {"remove_db", "remove_art", "remove_rest"}
    BY <1>1, IdleIs DEF JobRecord
<1>7. /\ server = "up" /\ SavesOnly /\ UNCHANGED <<created, pinned, shutdown>>
      /\ snapshotting' \in BOOLEAN /\ restoring' \in BOOLEAN
    BY <1>1 DEF SavesInv, SavesTypeOK
<1>8. j.step \in Making =>
         /\ snapshotting' /\ j.save = created /\ j.kinds # {} /\ to.db = "none"
         /\ j.step # "copy" => to.version \in Version
         /\ j.step = "publish_db" => to.art = "final"
    BY <1>1, <1>2, IdleIs DEF JobRecord, Making, SaveRecord
<1> HIDE DEF j, to
<1>9. Changes(t, j, created, to)
    BY <1>1, <1>3, <1>4, <1>5, <1>6, <1>7 DEF Changes
<1> QED BY <1>1, <1>6, <1>8, <1>9, MakerSteps

LEMMA CreateFailsSaves ==
    ASSUME SwapInv, SavesInv, NEW t \in Thread, CreateFails(t)
    PROVE  SavesInv' /\ [SwapNext]_swapVars
<1> DEFINE j == IF job[t].then = "mark" THEN [job[t] EXCEPT !.step = "give_up"] ELSE Idle
<1> DEFINE to == NoSave
<1> USE DEF CreateFails, At, Goes
<1>1. /\ job[t] \in JobRecord /\ job[t].step \in Making /\ job[t].step # "schedule"
      /\ job[t].save = created /\ created \in Save /\ job[t].kinds # {}
      /\ snapshotting /\ saves[created].db = "none"
      /\ job[t].step # "copy" => saves[created].version \in Version
      /\ job[t].step = "publish_db" => saves[created].art = "final"
      /\ job[t].then = "mark" => job[t].target # 0
    BY DEF SavesInv, SavesTypeOK, MakerInv, JobsInv, Making, Save
<1>2. saves \in [Save -> SaveRecord] /\ saves[created] \in SaveRecord
    BY <1>1 DEF SwapInv, SwapTypeOK
<1>3. /\ to \in SaveRecord /\ to.db \in Half /\ to.art \in Half
      /\ to.db = "final" => to.art = "final" /\ to.version \in Version
    BY DEF SaveRecord, Half, NoSave, Kind
<1>4. saves' = [saves EXCEPT ![created] = to]
    BY <1>1, <1>2
<1>5. j \in JobRecord /\ job' = [job EXCEPT ![t] = j]
    BY <1>1, IdleIs DEF JobRecord, Step
<1>6. /\ j.step \in {"pin", "snapshot", "mark"} \/ j.then = "mark" => j.target # 0
      /\ j.target \in {0, job[t].target} /\ j.victims \subseteq job[t].victims
      /\ j.step \notin {"remove_db", "remove_art", "remove_rest"}
    BY <1>1, IdleIs DEF JobRecord
<1>7. /\ server = "up" /\ SavesOnly /\ UNCHANGED <<created, pinned, shutdown>>
      /\ snapshotting' \in BOOLEAN /\ restoring' \in BOOLEAN
    BY <1>1 DEF SavesInv, SavesTypeOK
<1>8. j.step \in Making =>
         /\ snapshotting' /\ j.save = created /\ j.kinds # {} /\ to.db = "none"
         /\ j.step # "copy" => to.version \in Version
         /\ j.step = "publish_db" => to.art = "final"
    BY <1>1, <1>2, IdleIs DEF JobRecord, Making, SaveRecord
<1> HIDE DEF j, to
<1>9. Changes(t, j, created, to)
    BY <1>1, <1>3, <1>4, <1>5, <1>6, <1>7 DEF Changes
<1> QED BY <1>1, <1>6, <1>8, <1>9, MakerSteps

LEMMA RemoveDbSaves ==
    ASSUME SwapInv, SavesInv, NEW t \in Thread, RemoveDb(t)
    PROVE  SavesInv' /\ [SwapNext]_swapVars
<1> DEFINE v == Victim(t)
<1> DEFINE j == [job[t] EXCEPT !.step = "remove_art"]
<1> DEFINE to == [saves[v] EXCEPT !.db = "none"]
<1> USE DEF RemoveDb, Tears, At, Goes
<1>1. /\ job[t] \in JobRecord /\ job[t].step \in {"remove_db", "remove_art", "remove_rest"}
      /\ v \in job[t].victims /\ v \in Save
      /\ job[t].step # "remove_db" => saves[v].db = "none"
      /\ job[t].then = "mark" => job[t].target # 0
    BY VictimIsOne DEF SavesInv, SavesTypeOK, JobsInv, WholeInv
<1>2. saves \in [Save -> SaveRecord] /\ saves[v] \in SaveRecord
    BY <1>1 DEF SwapInv, SwapTypeOK
<1> HIDE DEF v
<1>3. to \in SaveRecord /\ to.db = "none"
    BY <1>1, <1>2 DEF SaveRecord, Half
<1>4. saves' = [saves EXCEPT ![v] = to]
    BY <1>1, <1>2 DEF v
<1>5. j \in JobRecord /\ job' = [job EXCEPT ![t] = j]
    BY <1>1 DEF JobRecord, Step
<1>6. /\ j.step \in {"pin", "snapshot", "mark"} \/ j.then = "mark" => j.target # 0
      /\ j.target \in {0, job[t].target} /\ j.victims \subseteq job[t].victims
      /\ j.step \in {"remove_db", "remove_art", "remove_rest"} => j.victims # {}
      /\ j.step \in {"remove_art", "remove_rest"} => j.victims = job[t].victims
      /\ j.step \notin Making /\ job[t].step \notin Making
    BY <1>1 DEF JobRecord, Making
<1>7. /\ server = "up" /\ SavesOnly /\ UNCHANGED <<created, pinned, shutdown>>
      /\ snapshotting' = snapshotting /\ snapshotting \in BOOLEAN /\ restoring' \in BOOLEAN
    BY <1>1 DEF SavesInv, SavesTypeOK
<1> HIDE DEF j, to
<1>8. Changes(t, j, v, to)
    BY <1>1, <1>3, <1>4, <1>5, <1>6, <1>7 DEF Changes
<1> QED BY <1>1, <1>3, <1>6, <1>7, <1>8, RemoverSteps DEF v

LEMMA RemoveArtSaves ==
    ASSUME SwapInv, SavesInv, NEW t \in Thread, RemoveArt(t)
    PROVE  SavesInv' /\ [SwapNext]_swapVars
<1> DEFINE v == Victim(t)
<1> DEFINE j == [job[t] EXCEPT !.step = "remove_rest"]
<1> DEFINE to == [saves[v] EXCEPT !.art = IF @ = "none" THEN @ ELSE "torn"]
<1> USE DEF RemoveArt, Tears, At, Goes
<1>1. /\ job[t] \in JobRecord /\ job[t].step \in {"remove_db", "remove_art", "remove_rest"}
      /\ v \in job[t].victims /\ v \in Save
      /\ job[t].step # "remove_db" => saves[v].db = "none"
      /\ job[t].then = "mark" => job[t].target # 0
    BY VictimIsOne DEF SavesInv, SavesTypeOK, JobsInv, WholeInv
<1>2. saves \in [Save -> SaveRecord] /\ saves[v] \in SaveRecord
    BY <1>1 DEF SwapInv, SwapTypeOK
<1> HIDE DEF v
<1>3. to \in SaveRecord /\ to.db = "none"
    BY <1>1, <1>2 DEF SaveRecord, Half
<1>4. saves' = [saves EXCEPT ![v] = to]
    BY <1>1, <1>2 DEF v
<1>5. j \in JobRecord /\ job' = [job EXCEPT ![t] = j]
    BY <1>1 DEF JobRecord, Step
<1>6. /\ j.step \in {"pin", "snapshot", "mark"} \/ j.then = "mark" => j.target # 0
      /\ j.target \in {0, job[t].target} /\ j.victims \subseteq job[t].victims
      /\ j.step \in {"remove_db", "remove_art", "remove_rest"} => j.victims # {}
      /\ j.step \in {"remove_art", "remove_rest"} => j.victims = job[t].victims
      /\ j.step \notin Making /\ job[t].step \notin Making
    BY <1>1 DEF JobRecord, Making
<1>7. /\ server = "up" /\ SavesOnly /\ UNCHANGED <<created, pinned, shutdown>>
      /\ snapshotting' = snapshotting /\ snapshotting \in BOOLEAN /\ restoring' \in BOOLEAN
    BY <1>1 DEF SavesInv, SavesTypeOK
<1> HIDE DEF j, to
<1>8. Changes(t, j, v, to)
    BY <1>1, <1>3, <1>4, <1>5, <1>6, <1>7 DEF Changes
<1> QED BY <1>1, <1>3, <1>6, <1>7, <1>8, RemoverSteps DEF v

LEMMA RemoveRestSaves ==
    ASSUME SwapInv, SavesInv, NEW t \in Thread, RemoveRest(t)
    PROVE  SavesInv' /\ [SwapNext]_swapVars
<1> DEFINE v == Victim(t)
<1> DEFINE j == Onward([job[t] EXCEPT !.victims = @ \ {v}])
<1> DEFINE to == NoSave
<1> USE DEF RemoveRest, GoesOn, At, Goes
<1>1. /\ job[t] \in JobRecord /\ job[t].step \in {"remove_db", "remove_art", "remove_rest"}
      /\ v \in job[t].victims /\ v \in Save
      /\ job[t].step # "remove_db" => saves[v].db = "none"
      /\ job[t].then = "mark" => job[t].target # 0
    BY VictimIsOne DEF SavesInv, SavesTypeOK, JobsInv, WholeInv
<1>2. saves \in [Save -> SaveRecord] /\ saves[v] \in SaveRecord
    BY <1>1 DEF SwapInv, SwapTypeOK
<1> HIDE DEF v
<1>3. to \in SaveRecord /\ to.db = "none"
    BY DEF SaveRecord, Half, NoSave, Kind
<1>4. saves' = [saves EXCEPT ![v] = to]
    BY <1>1, <1>2 DEF v
<1>5. j \in JobRecord /\ job' = [job EXCEPT ![t] = j]
    <2>1. [job[t] EXCEPT !.victims = @ \ {v}] \in JobRecord
        BY <1>1 DEF JobRecord
    <2> QED BY <2>1, OnwardTyped DEF v
<1>6. /\ j.step \in {"pin", "snapshot", "mark"} \/ j.then = "mark" => j.target # 0
      /\ j.target \in {0, job[t].target} /\ j.victims \subseteq job[t].victims
      /\ j.step \in {"remove_db", "remove_art", "remove_rest"} => j.victims # {}
      /\ j.step \in {"remove_art", "remove_rest"} => j.victims = job[t].victims
      /\ j.step \notin Making /\ job[t].step \notin Making
    <2> DEFINE k == [job[t] EXCEPT !.victims = @ \ {v}]
    <2>1. /\ k \in JobRecord /\ k.target = job[t].target /\ k.then = job[t].then
          /\ k.victims \subseteq job[t].victims
        BY <1>1 DEF JobRecord
    <2>2. j = Onward(k)
        OBVIOUS
    <2>3. job[t].step \notin Making
        BY <1>1 DEF Making
    <2> HIDE DEF j, k
    <2> QED BY <1>1, <2>1, <2>2, <2>3, OnwardTyped DEF Making
<1>7. /\ server = "up" /\ SavesOnly /\ UNCHANGED <<created, pinned, shutdown>>
      /\ snapshotting' = snapshotting /\ snapshotting \in BOOLEAN /\ restoring' \in BOOLEAN
    BY <1>1 DEF SavesInv, SavesTypeOK
<1> HIDE DEF j, to
<1>8. Changes(t, j, v, to)
    BY <1>1, <1>3, <1>4, <1>5, <1>6, <1>7 DEF Changes
<1> QED BY <1>1, <1>3, <1>6, <1>7, <1>8, RemoverSteps DEF v

LEMMA MarkSaves ==
    ASSUME SwapInv, SavesInv, NEW t \in Thread, Mark(t)
    PROVE  SavesInv' /\ [SwapNext]_swapVars
<1> DEFINE j == [job[t] EXCEPT !.step = "schedule"]
<1> USE DEF SavesInv, Mark, At, Goes, Ask
<1>1. /\ job[t] \in JobRecord /\ job[t].step = "mark" /\ job[t].target # 0 /\ job[t].target <= created
      /\ job[t].target \in Save
      /\ \A u \in Thread : job[u].step \in Making => job[t].target # created
    BY DEF SavesTypeOK, JobRecord, JobsInv, MakerInv, Save
<1>2. j \in JobRecord /\ job' = [job EXCEPT ![t] = j]
    BY <1>1 DEF JobRecord, Step
<1>3. /\ j.step = "schedule" /\ j.then = job[t].then /\ j.target = job[t].target /\ j.victims = job[t].victims
    BY <1>1 DEF JobRecord
<1> HIDE DEF j
<1>4. /\ job' \in [Thread -> JobRecord] /\ job'[t] = j
      /\ \A u \in Thread : u # t => job'[u] = job[u]
    BY <1>2, JobsTyped
<1>5. SavesTypeOK'
    BY <1>4 DEF SavesTypeOK
<1>6. JobsInv'
    BY <1>3, <1>4 DEF JobsInv
<1>7. MakerInv'
    BY <1>1, <1>3, <1>4 DEF MakerInv, Making
<1>8. WholeInv'
    BY <1>3, <1>4, SameVictim DEF WholeInv
<1>9. StagedRestoreShutsDown'
    BY <1>3, <1>4 DEF StagedRestoreShutsDown
<1>10. SwapNext
    BY <1>1 DEF SwapNext, Serve
<1> QED BY <1>5, <1>6, <1>7, <1>8, <1>9, <1>10

LEMMA ScheduleFailsSaves ==
    ASSUME SwapInv, SavesInv, NEW t \in Thread, ScheduleFails(t)
    PROVE  SavesInv' /\ [SwapNext]_swapVars
<1> DEFINE j == [job[t] EXCEPT !.step = "defer", !.kinds = Automatic, !.then = "release"]
<1> USE DEF SavesInv, ScheduleFails, At, Retain
<1>1. job[t] \in JobRecord /\ job[t].step = "schedule"
    BY DEF SavesTypeOK
<1>2. j \in JobRecord /\ job' = [job EXCEPT ![t] = j]
    BY <1>1 DEF JobRecord, Step, Kind
<1>3. /\ j.step = "defer" /\ j.then = "release" /\ j.target = job[t].target /\ j.victims = job[t].victims
    BY <1>1 DEF JobRecord
<1> HIDE DEF j
<1>4. /\ job' \in [Thread -> JobRecord] /\ job'[t] = j
      /\ \A u \in Thread : u # t => job'[u] = job[u]
    BY <1>2, JobsTyped
<1>5. SavesTypeOK'
    BY <1>4 DEF SavesTypeOK
<1>6. JobsInv'
    BY <1>3, <1>4 DEF JobsInv
<1>7. MakerInv'
    <2>1. marker' = 0 /\ UNCHANGED <<saves, created, snapshotting>> /\ created \in 0..MaxSave
        BY DEF Withdraw, SavesTypeOK
    <2> QED BY <1>3, <1>4, <2>1 DEF MakerInv, Making
<1>8. WholeInv'
    BY <1>3, <1>4, SameVictim DEF WholeInv, Withdraw
<1>9. StagedRestoreShutsDown'
    BY DEF StagedRestoreShutsDown, Withdraw
<1>10. SwapNext
    BY DEF SwapNext, Serve
<1> QED BY <1>5, <1>6, <1>7, <1>8, <1>9, <1>10

LEMMA StartsSaves ==
    ASSUME SwapInv, SavesInv, Starts
    PROVE  SavesInv' /\ [SwapNext]_swapVars
<1> DEFINE j == [job[Reactor] EXCEPT !.step = "defer", !.kinds = Automatic, !.then = "idle"]
<1> USE DEF SavesInv, Starts, Retain
<1>1. job[Reactor] \in JobRecord
    BY DEF SavesTypeOK
<1>2. j \in JobRecord /\ job' = [job EXCEPT ![Reactor] = j]
    BY <1>1 DEF JobRecord, Step, Kind
<1>3. /\ j.step = "defer" /\ j.then = "idle" /\ j.target = job[Reactor].target
      /\ j.victims = job[Reactor].victims
    BY <1>1 DEF JobRecord
<1> HIDE DEF j
<1>4. /\ job' \in [Thread -> JobRecord] /\ job'[Reactor] = j
      /\ \A u \in Thread : u # Reactor => job'[u] = job[u]
    BY <1>2, JobsTyped
<1>5. marker' = 0 /\ UNCHANGED <<saves, marker>>
    BY DEF ServerStarts, SwapInv, MarkerInv
<1>6. SavesTypeOK'
    BY <1>4 DEF SavesTypeOK
<1>7. JobsInv'
    BY <1>3, <1>4 DEF JobsInv
<1>8. MakerInv'
    BY <1>3, <1>4, <1>5 DEF MakerInv, Making
<1>9. WholeInv'
    BY <1>3, <1>4, <1>5, SameVictim DEF WholeInv
<1>10. StagedRestoreShutsDown'
    BY <1>5 DEF StagedRestoreShutsDown
<1>11. SwapNext
    BY DEF SwapNext, Serve
<1> QED BY <1>6, <1>7, <1>8, <1>9, <1>10, <1>11

LEMMA StopsSaves ==
    ASSUME SwapInv, SavesInv, Stops
    PROVE  SavesInv' /\ [SwapNext]_swapVars
<1> USE IdleIs DEF SavesInv, Stops
<1>1. UNCHANGED <<saves, marker>> /\ server' = "down"
    BY DEF ServerStops
<1>2. job' \in [Thread -> JobRecord] /\ \A t \in Thread : job'[t] = Idle
    OBVIOUS
<1>3. SavesTypeOK'
    <2>1. pinned' \in 0..MaxSave
        OBVIOUS
    <2>2. created' \in 0..MaxSave
        BY DEF SavesTypeOK
    <2>3. snapshotting' \in BOOLEAN /\ restoring' \in BOOLEAN /\ shutdown' \in BOOLEAN
        OBVIOUS
    <2> QED BY <1>2, <2>1, <2>2, <2>3 DEF SavesTypeOK
<1>4. JobsInv'
    BY <1>2 DEF JobsInv, SavesTypeOK
<1>5. MakerInv'
    BY <1>1, <1>2 DEF MakerInv, Making
<1>6. WholeInv'
    BY <1>1, <1>2 DEF WholeInv
<1>7. StagedRestoreShutsDown'
    BY <1>1 DEF StagedRestoreShutsDown
<1>8. SwapNext
    BY DEF SwapNext, Serve
<1> QED BY <1>3, <1>4, <1>5, <1>6, <1>7, <1>8

\* The tool and the game leave the saves alone, the tool ends what was asked for.
LEMMA OthersSave ==
    ASSUME SwapInv, SavesInv, UNCHANGED <<job, created, locks, saves>>,
           marker' \in {0, marker}, server' = "up" => server = "up"
    PROVE  SavesInv'
<1> USE DEF SavesInv
<1>1. SavesTypeOK' /\ JobsInv'
    BY DEF SavesTypeOK, JobsInv
<1>2. MakerInv'
    <2>1. created \in 0..MaxSave
        BY DEF SavesTypeOK
    <2> QED BY <2>1 DEF MakerInv
<1>3. WholeInv'
    BY SameVictim DEF WholeInv
<1>4. StagedRestoreShutsDown'
    BY DEF StagedRestoreShutsDown
<1> QED BY <1>1, <1>2, <1>3, <1>4

LEMMA PlaysSaves ==
    ASSUME SwapInv, SavesInv, Plays
    PROVE  SavesInv' /\ [SwapNext]_swapVars
<1>1. UNCHANGED <<job, created, locks, saves>> /\ marker' \in {0, marker} /\ server' = server
    BY DEF Plays, Play
<1>2. SavesInv'
    BY <1>1, OthersSave
<1> QED BY <1>2 DEF Plays, SwapNext, Serve

LEMMA ToolsSaves ==
    ASSUME SwapInv, SavesInv, Tools
    PROVE  SavesInv' /\ [SwapNext]_swapVars
<1>1. UNCHANGED <<saves, server>> /\ marker' \in {0, marker}
    BY DEF Tools, Tool, ToolStarts, Verify, Stage, Swap, Rollback, CleanUp, Finish, FinishRaises, Crash,
           Passes, MakeAside, MakeArtAside, MoveDbAside, MoveArtAside, MoveAside, InstallDb, InstallArt,
           Install, Commit, Fails, RemoveInstalled, RemoveInstalledDb, MoveDbBack, MoveArtBack, MoveBack,
           DropAside, RolledBack, RollbackFails, ScrapFile, CleanAside
<1>2. SavesInv'
    BY <1>1, OthersSave DEF Tools
<1> QED BY <1>2 DEF Tools, SwapNext

-----------------------------------------------------------------------------
(* Together.                                                               *)

LEMMA ThreadsSave ==
    ASSUME SwapInv, SavesInv, NEW t \in Thread,
           Creating(t) \/ Retaining(t) \/ Removing(t) \/ Requesting(t)
    PROVE  SavesInv' /\ [SwapNext]_swapVars
<1>1. CASE Creating(t)
    <2>1. CASE \E kind \in Kind \ {"auto_restore"} : Create(t, kind)
        BY <2>1, CreateSaves
    <2> QED BY <1>1, <2>1, CopySaves, PublishArtSaves, PublishDbSaves, CreateFailsSaves DEF Creating
<1>2. CASE Retaining(t)
    BY <1>2, DeferSaves, ProtectSaves, ListSaves DEF Retaining
<1>3. CASE Removing(t)
    BY <1>3, DeleteSaves, RemoveDbSaves, RemoveArtSaves, RemoveRestSaves DEF Removing
<1>4. CASE Requesting(t)
    BY <1>4, RequestSaves, IncompatibleSaves, PinSaves, SaveBeforeSaves, CannotSaveSaves, MarkSaves,
       GiveUpSaves, ScheduleSaves, ScheduleFailsSaves DEF Requesting
<1> QED BY <1>1, <1>2, <1>3, <1>4

\* What the server does is one of the things the tool allows for, or nothing to it.
LEMMA SavesStep == SwapInv /\ SavesInv /\ [Next]_vars => SavesInv' /\ [SwapNext]_swapVars
<1> SUFFICES ASSUME SwapInv, SavesInv, [Next]_vars PROVE SavesInv' /\ [SwapNext]_swapVars
    OBVIOUS
<1>1. CASE Next
    BY <1>1, ThreadsSave, ToolsSaves, StartsSaves, StopsSaves, PlaysSaves DEF Next
<1>2. CASE UNCHANGED vars
    <2>1. UNCHANGED <<job, created, locks, saves>> /\ marker' \in {0, marker} /\ server' = server
        BY <1>2 DEF vars, swapVars
    <2> QED BY <1>2, <2>1, OthersSave DEF vars
<1> QED BY <1>1, <1>2

Inv == SwapInv /\ SavesInv

LEMMA Invariant == Spec => []Inv
<1>1. Init => Inv
    BY SwapInitially, SavesInitially DEF Init, Inv
<1>2. Inv /\ [Next]_vars => Inv'
    BY SavesStep, SwapStep DEF Inv
<1> QED BY <1>1, <1>2, PTL DEF Spec

\* Between two runs one whole world can always be put together, whatever failed or
\* crashed in the swap and whatever became of the saves (Swap, apply_pending).
THEOREM WorldIsRecoverable == Spec => []Recoverable
<1>1. Inv => Recoverable
    BY WholeWorld DEF Inv, SwapInv
<1> QED BY <1>1, Invariant, PTL

\* No listed save lacks a part of its art half (_publish, _remove_save).
THEOREM ListedSavesAreWhole == Spec => []ListedIsWhole
<1>1. Inv => ListedIsWhole
    BY DEF Inv, SavesInv, WholeInv, ListedIsWhole, Complete
<1> QED BY <1>1, Invariant, PTL

\* A server with a staged restore is about to shut down (request_restore).
THEOREM StagedRestoresShutDown == Spec => []StagedRestoreShutsDown
<1>1. Inv => StagedRestoreShutsDown
    BY DEF Inv, SavesInv
<1> QED BY <1>1, Invariant, PTL

\* The threads' saves and requests are among those the tool was proved with.
THEOREM SavesImplementSwap == Spec => SwapSpec
<1>1. Init => SwapInit
    BY DEF Init
<1>2. Inv /\ [Next]_vars => [SwapNext]_swapVars
    BY SavesStep DEF Inv
<1> QED BY <1>1, <1>2, Invariant, PTL DEF Spec, SwapSpec

LEMMA SwapRefines ==
    ASSUME SwapInv, [SwapNext]_swapVars
    PROVE  [Atomic!Next]_(Atomic!vars)
<1> USE DEF Atomic!Next, Atomic!vars
<1>1. CASE ServerStarts
    <2>1. server = "down" /\ live \in Bases
        BY <1>1 DEF ServerStarts, SwapInv, WorldInv, SwapTypeOK
    <2> QED BY <1>1, <2>1 DEF ServerStarts, Atomic!Start, Bases
<1>2. CASE ServerStops
    <2>1. ran' \in World
        BY <1>2, ServerStopsKeeps DEF SwapInv, SwapTypeOK
    <2> QED BY <1>2, <2>1 DEF ServerStops, Atomic!Stop
<1>3. CASE Play
    <2>1. ran' \in World
        BY <1>3, PlayKeeps DEF SwapInv, SwapTypeOK
    <2> QED BY <1>3, <2>1 DEF Play, Atomic!Run
<1>4. CASE Withdraw
    BY <1>4 DEF Withdraw, Atomic!Withdraw
<1>5. CASE Archive
    BY <1>5 DEF Archive
<1>6. ASSUME NEW s \in Save, Ask(s) PROVE Atomic!Next
    <2>1. saves[s].version \in Version \cup {0}
        BY DEF SwapInv, SwapTypeOK, SaveRecord, Version
    <2> QED BY <1>6, <2>1 DEF Ask, Atomic!Ask, Atomic!Withdraw
<1>7. CASE Tool
    <2>1. UNCHANGED <<server, ghosts>>
        BY <1>7 DEF Tool, ToolStarts, Verify, Stage, Swap, Rollback, CleanUp, Finish, FinishRaises, Crash,
           Passes, MakeAside, MakeArtAside, MoveDbAside, MoveArtAside, MoveAside, InstallDb, InstallArt,
           Install, Commit, Fails, RemoveInstalled, RemoveInstalledDb, MoveDbBack, MoveArtBack, MoveBack,
           DropAside, RolledBack, RollbackFails, ScrapFile, CleanAside
    <2> QED BY <2>1
<1>8. CASE UNCHANGED swapVars
    BY <1>8 DEF swapVars
<1> QED BY <1>1, <1>2, <1>3, <1>4, <1>5, <1>6, <1>7, <1>8 DEF SwapNext, Serve

\* A start finds the world the last run left or the save asked for, whole, and a
\* request serves one start (restore.apply_pending, snapshot.request_restore).
THEOREM RestoreIsAtomic == Spec => ImplementsAtomicRestore
<1>1. Init => Atomic!Init
    BY Worlds, Files DEF Init, SwapInit, Atomic!Init
<1>2. Inv /\ [Next]_vars => [Atomic!Next]_(Atomic!vars)
    BY SavesStep, SwapRefines DEF Inv
<1> QED BY <1>1, <1>2, Invariant, PTL DEF Spec, ImplementsAtomicRestore, Atomic!Spec

-----------------------------------------------------------------------------
(* Pruning.  A thread removes what it once counted as too old, long after   *)
(* it has counted.  That stays true because every thread removes only what  *)
(* has Keep newer ones: the newest of a kind are nobody's victims           *)
(* (SurplusInv).  And whatever is too old is somebody's victim, or some     *)
(* thread still has its kind to count without sparing anything, unless a    *)
(* restore is waited for (DebtInv).                                         *)

Removal == {"remove_db", "remove_art", "remove_rest"}

\* A thread's record, for the saves a.
Shape(j, a) ==
    /\ j.step \notin Removal => j.victims = {}
    /\ j.step \in {"protect", "list"} => j.kinds # {}
    /\ j.step \in Removal \cup {"defer", "protect", "list"} => j.kinds \subseteq Automatic
    /\ j.then = "mark" => j.step \in Making \cup Removal \cup {"defer", "protect", "list", "give_up"}
    /\ j.step \in Making =>
         \E k \in Kind : /\ j.kinds = {k} /\ (j.then = "mark" => k \in Automatic)
                         /\ j.step # "copy" => a[j.save].kind = k

ShapeInv ==
    /\ \A t \in Thread : Shape(job[t], saves)
    /\ server = "down" => \A t \in Thread : job[t] = Idle

Surplus(s) ==
    Complete(s) /\ saves[s].kind \in Automatic => Cardinality(Newer(s, Listed(saves[s].kind))) >= Keep

SurplusInv == \A t \in Thread : \A s \in job[t].victims : Surplus(s)

\* What nobody is about to remove.
Doomed == UNION {job[t].victims : t \in Thread}
Staying(k) == Listed(k) \ Doomed

\* Thread record j has kind k still to count, and will spare nothing asked for by now.
Owes(j, k) ==
    /\ k \in j.kinds
    /\ \/ j.step \in Removal \cup {"defer", "protect"}
       \/ j.step = "list" /\ (k # First(j.kinds) \/ j.spared = 0)

DebtInv ==
    server = "up" /\ marker = 0 /\ pinned = 0 =>
        \A k \in Automatic : Cardinality(Staying(k)) <= Keep \/ \E t \in Thread : Owes(job[t], k)

\* A pin is some thread's, which will take it away.
Waits(j) == j.step \in {"snapshot", "mark", "give_up"} \/ j.then = "mark"
PinInv == pinned # 0 => \E t \in Thread : Waits(job[t])

PruneInv == ShapeInv /\ SurplusInv /\ DebtInv /\ PinInv

\* A step makes only victims incomplete.
OnlyVictimsGo == \A s \in Save : Complete(s) /\ ~Complete(s)' => \E t \in Thread : s \in job[t].victims

LEMMA SavesAreFinite ==
    /\ IsFiniteSet(Save) /\ Save \subseteq Nat
    /\ \A S \in SUBSET Save : IsFiniteSet(S) /\ Cardinality(S) \in Nat
    /\ \A k : Listed(k) \in SUBSET Save
    /\ \A s : \A S \in SUBSET Save : Newer(s, S) \in SUBSET Save
<1>1. IsFiniteSet(Save) /\ Save \subseteq Nat
    <2>1. 1 \in Int /\ MaxSave \in Int
        OBVIOUS
    <2>2. IsFiniteSet(1..MaxSave)
        BY <2>1, FS_Interval
    <2> QED BY <2>2 DEF Save
<1>2. \A S \in SUBSET Save : IsFiniteSet(S) /\ Cardinality(S) \in Nat
    BY <1>1, FS_Subset, FS_CardinalityType
<1> QED BY <1>1, <1>2 DEF Listed, Newer

LEMMA MoreIsEnough ==
    ASSUME NEW T \in SUBSET Save, NEW S \in SUBSET T
    PROVE  /\ Cardinality(S) >= Keep => Cardinality(T) >= Keep
           /\ Cardinality(T) <= Keep => Cardinality(S) <= Keep
<1>1. IsFiniteSet(T) /\ Cardinality(T) \in Nat /\ Cardinality(S) \in Nat
    BY SavesAreFinite
<1>2. Cardinality(S) <= Cardinality(T)
    BY <1>1, FS_Subset
<1> QED BY <1>1, <1>2

\* What Excess leaves is within the limit.
LEMMA RestFits ==
    ASSUME NEW S \in SUBSET Save
    PROVE  Cardinality(S \ Excess(S)) <= Keep
<1> SUFFICES ASSUME NEW T \in SUBSET S, T = S \ Excess(S) PROVE Cardinality(T) <= Keep
    OBVIOUS
<1>1. CASE T = {}
    <2>1. Cardinality(T) = 0
        BY <1>1, FS_EmptySet
    <2> QED BY <2>1
<1>2. CASE T # {}
    <2>1. PICK m \in T : \A r \in T : m <= r
        BY <1>2, SmallestExists, SavesAreFinite
    <2>2. Newer(m, S) \in SUBSET Save /\ Cardinality(Newer(m, S)) \in Nat
        BY SavesAreFinite
    <2>3. Cardinality(Newer(m, S)) < Keep
        BY <2>1, <2>2 DEF Excess
    <2>4. \A r \in T : r \in Nat /\ (r # m => r > m)
        BY <2>1, SavesAreFinite
    <2>5. T \ {m} \in SUBSET Newer(m, S)
        <3>1. ASSUME NEW r \in T \ {m} PROVE r \in Newer(m, S)
            <4>1. r \in S /\ r > m
                BY <2>4
            <4> QED BY <4>1 DEF Newer
        <3> QED BY <3>1
    <2>6. IsFiniteSet(T) /\ Cardinality(T) \in Nat /\ IsFiniteSet(Newer(m, S)) /\ m \in T
        BY <2>1, <2>2, SavesAreFinite
    <2>7. Cardinality(T \ {m}) <= Cardinality(Newer(m, S))
        BY <2>5, <2>6, FS_Subset
    <2>8. Cardinality(T \ {m}) = Cardinality(T) - 1
        <3>1. Cardinality(T \ {m}) = IF m \in T THEN Cardinality(T) - 1 ELSE Cardinality(T)
            <4> HIDE FilesAssumption, VersionAssumption, ThreadAssumption
            <4>1. IsFiniteSet(T)
                BY <2>6
            <4> QED BY ONLY <4>1, FS_RemoveElement, ZenonT(30)
        <3> QED BY <2>6, <3>1
    <2> QED BY <2>2, <2>3, <2>6, <2>7, <2>8
<1> QED BY <1>1, <1>2

\* What Excess picks, sparing X, has Keep newer ones of its kind.
LEMMA ExcessIsSurplus ==
    ASSUME NEW k, NEW X, NEW s \in Excess(Listed(k) \ X)
    PROVE  s \in Save /\ Surplus(s)
<1>1. s \in Listed(k) /\ Cardinality(Newer(s, Listed(k) \ X)) >= Keep
    BY DEF Excess
<1>2. Newer(s, Listed(k) \ X) \in SUBSET Newer(s, Listed(k)) /\ Newer(s, Listed(k)) \in SUBSET Save
    BY SavesAreFinite DEF Newer
<1>3. Cardinality(Newer(s, Listed(k))) >= Keep
    BY <1>1, <1>2, MoreIsEnough
<1> QED BY <1>1, <1>3 DEF Surplus, Listed

LEMMA OnwardShape ==
    ASSUME NEW j \in JobRecord, NEW a, j.kinds \subseteq Automatic
    PROVE  /\ Onward(j).victims = j.victims
           /\ Shape(Onward(j), a)
           /\ \A k \in j.kinds : Owes(Onward(j), k)
           /\ j.then = "mark" => Waits(Onward(j))
<1> USE IdleIs DEF Onward, JobRecord, Shape, Owes, Waits, Removal, Making
<1>1. CASE j.victims # {}
    BY <1>1
<1>2. CASE j.victims = {} /\ j.kinds # {}
    BY <1>2
<1>3. CASE j.victims = {} /\ j.kinds = {} /\ j.then = "mark"
    BY <1>3
<1>4. CASE j.victims = {} /\ j.kinds = {} /\ j.then # "mark"
    BY <1>4
<1> QED BY <1>1, <1>2, <1>3, <1>4

\* Of what is complete, at most one of t's victims goes, and nobody's victim becomes
\* complete.
Loses(t, gone) ==
    /\ gone = 0 \/ gone \in job[t].victims
    /\ \A s \in Save : s # gone /\ Complete(s) => Complete(s)' /\ saves'[s].kind = saves[s].kind
    /\ \A u \in Thread : \A s \in job'[u].victims : Complete(s)' => Complete(s) /\ s # gone

LEMMA ThreadPrunes ==
    ASSUME SavesTypeOK, PruneInv, NEW t \in Thread, NEW j \in JobRecord, NEW gone,
           job' = [job EXCEPT ![t] = j], server = "up", server' = "up",
           Shape(j, saves'),
           \A u \in Thread : u # t /\ job[u].step \in Making \ {"copy"} =>
               saves'[job[u].save].kind = saves[job[u].save].kind,
           Loses(t, gone),
           \A s \in j.victims : Surplus(s),
           \A k \in Automatic : \/ Owes(j, k)
                                \/ Listed(k)' \subseteq Listed(k) /\ Listed(k)' \cap job[t].victims \subseteq j.victims,
           \A k \in Automatic : Owes(job[t], k) =>
               \/ Owes(j, k) \/ marker' # 0 \/ pinned' # 0
               \/ Cardinality(Listed(k)' \ j.victims) <= Keep,
           marker' = 0 /\ pinned' = 0 => (marker = 0 /\ pinned = 0) \/ \A k \in Automatic : Owes(j, k),
           pinned' # 0 => Waits(j) \/ (pinned # 0 /\ ~Waits(job[t]))
    PROVE  PruneInv' /\ OnlyVictimsGo
<1> USE DEF PruneInv, Loses
<1>1. /\ job' \in [Thread -> JobRecord] /\ job[t] \in JobRecord /\ job'[t] = j
      /\ \A u \in Thread : u # t => job'[u] = job[u]
    BY JobsTyped
<1>2. ShapeInv'
    <2>1. ASSUME NEW u \in Thread PROVE Shape(job'[u], saves')
        <3>1. CASE u = t
            BY <1>1, <3>1
        <3>2. CASE u # t
            BY <1>1, <3>2 DEF ShapeInv, Shape
        <3> QED BY <3>1, <3>2
    <2> QED BY <2>1 DEF ShapeInv
<1>3. SurplusInv'
    <2> SUFFICES ASSUME NEW u \in Thread, NEW s \in job'[u].victims,
                        Complete(s)', saves'[s].kind \in Automatic
                 PROVE  Cardinality(Newer(s, Listed(saves[s].kind)))' >= Keep
        BY DEF SurplusInv, Surplus
    <2>1. s \in Save /\ Surplus(s)
        BY <1>1 DEF SurplusInv, JobRecord
    <2>2. Complete(s) /\ s # gone /\ saves'[s].kind = saves[s].kind
        BY <2>1
    <2> PICK k : k = saves[s].kind
        OBVIOUS
    <2>3. k \in Automatic /\ Cardinality(Newer(s, Listed(k))) >= Keep
        BY <2>1, <2>2 DEF Surplus
    <2>4. Listed(k) \ {gone} \subseteq Listed(k)'
        BY DEF Listed
    <2>5. \E S \in SUBSET Save : S \subseteq Listed(k)' /\ (\A r \in S : r > s) /\ Cardinality(S) >= Keep
        <3>1. CASE gone \notin Newer(s, Listed(k))
            <4>1. Newer(s, Listed(k)) \subseteq Listed(k)' /\ \A r \in Newer(s, Listed(k)) : r > s
                BY <2>4, <3>1 DEF Newer
            <4> QED BY <2>3, <4>1, SavesAreFinite
        <3>2. CASE gone \in Newer(s, Listed(k))
            <4>1. gone \in Save /\ gone > s /\ Complete(gone) /\ saves[gone].kind = k
                BY <3>2 DEF Newer, Listed
            <4>2. Surplus(gone)
                BY <4>1 DEF SurplusInv, Save
            <4>3. Cardinality(Newer(gone, Listed(k))) >= Keep
                BY <2>3, <4>1, <4>2 DEF Surplus
            <4>4. \A r \in Newer(gone, Listed(k)) : r \in Listed(k) /\ r > s /\ r # gone
                <5>1. s \in Nat /\ gone \in Nat /\ Listed(k) \subseteq Nat
                    BY <2>1, <4>1, SavesAreFinite
                <5> QED BY <4>1, <5>1 DEF Newer
            <4> QED BY <2>4, <4>3, <4>4, SavesAreFinite
        <3> QED BY <3>1, <3>2
    <2>6. PICK S \in SUBSET Save : S \subseteq Listed(k)' /\ (\A r \in S : r > s) /\ Cardinality(S) >= Keep
        BY <2>5
    <2>7. PICK L : L = Listed(k)'
        OBVIOUS
    <2>8. L \in SUBSET Save
        BY <2>7 DEF Listed
    <2>9. S \in SUBSET Newer(s, L) /\ Newer(s, L) \in SUBSET Save
        BY <2>6, <2>7, <2>8, SavesAreFinite DEF Newer
    <2>10. Cardinality(Newer(s, L)) >= Keep
        BY <2>6, <2>9, MoreIsEnough
    <2>11. Listed(saves[s].kind)' = Listed(k)'
        BY <2>2 DEF Listed
    <2> QED BY <2>7, <2>10, <2>11 DEF Newer
<1>4. DebtInv'
    <2> SUFFICES ASSUME marker' = 0, pinned' = 0, NEW k \in Automatic,
                        ~ \E u \in Thread : Owes(job'[u], k)
                 PROVE  Cardinality(Staying(k))' <= Keep
        BY DEF DebtInv
    <2>1. ~ Owes(j, k) /\ marker = 0 /\ pinned = 0
        BY <1>1
    <2>2. PICK L, D : L = Listed(k)' /\ D = Doomed'
        OBVIOUS
    <2>3. L \in SUBSET Save /\ L \subseteq Listed(k) /\ L \cap job[t].victims \subseteq j.victims
        BY <2>1, <2>2, SavesAreFinite
    <2>4. \A s : s \in D <=> \E u \in Thread : s \in job'[u].victims
        BY <2>2 DEF Doomed
    <2>5. CASE Owes(job[t], k)
        <3>1. L \ D \in SUBSET (L \ j.victims) /\ L \ j.victims \in SUBSET Save
            BY <1>1, <2>3, <2>4
        <3>2. Cardinality(L \ j.victims) <= Keep
            BY <2>1, <2>2, <2>5
        <3>3. Cardinality(L \ D) <= Keep
            BY <3>1, <3>2, MoreIsEnough
        <3> QED BY <2>2, <3>3 DEF Staying
    <2>6. CASE ~Owes(job[t], k)
        <3>1. ~ \E u \in Thread : Owes(job[u], k)
            BY <1>1, <2>6
        <3>2. Cardinality(Staying(k)) <= Keep
            BY <2>1, <3>1 DEF DebtInv
        <3>3. L \ D \in SUBSET Staying(k) /\ Staying(k) \in SUBSET Save
            <4>1. ASSUME NEW s \in L, NEW u \in Thread, s \in job[u].victims PROVE s \in D
                <5>1. CASE u = t
                    BY <1>1, <2>3, <2>4, <4>1, <5>1
                <5>2. CASE u # t
                    BY <1>1, <2>4, <4>1, <5>2
                <5> QED BY <5>1, <5>2
            <4>2. ASSUME NEW s \in L, s \notin D PROVE s \in Staying(k)
                <5>1. s \in Listed(k)
                    BY <2>3
                <5>2. s \notin Doomed
                    BY <4>1, <4>2 DEF Doomed
                <5> QED BY <5>1, <5>2 DEF Staying
            <4>3. Staying(k) \in SUBSET Save
                BY SavesAreFinite DEF Staying
            <4> QED BY <4>2, <4>3
        <3>4. Cardinality(L \ D) <= Keep
            BY <3>2, <3>3, MoreIsEnough
        <3> QED BY <2>2, <3>4 DEF Staying
    <2> QED BY <2>5, <2>6
<1>5. OnlyVictimsGo
    BY DEF OnlyVictimsGo, Save
<1>6. PinInv'
    BY <1>1 DEF PinInv
<1> QED BY <1>2, <1>3, <1>4, <1>5, <1>6

\* A thread that leaves the saves alone and was not removing any goes on with j.
LEMMA QuietPrunes ==
    ASSUME SavesInv, PruneInv, NEW t \in Thread, NEW j \in JobRecord,
           job' = [job EXCEPT ![t] = j], server = "up", UNCHANGED <<server, saves>>,
           job[t].step \notin Removal, Shape(j, saves),
           \A s \in j.victims : Surplus(s),
           \A k \in Automatic : Owes(job[t], k) =>
               \/ Owes(j, k) \/ marker' # 0 \/ pinned' # 0
               \/ Cardinality(Listed(k) \ j.victims) <= Keep,
           marker' = 0 /\ pinned' = 0 => (marker = 0 /\ pinned = 0) \/ \A k \in Automatic : Owes(j, k),
           pinned' # 0 => Waits(j) \/ (pinned # 0 /\ ~Waits(job[t]))
    PROVE  PruneInv' /\ OnlyVictimsGo
<1>1. SavesTypeOK /\ job[t].victims = {}
    BY DEF SavesInv, PruneInv, ShapeInv, Shape
<1>2. /\ \A k : Listed(k)' = Listed(k)
      /\ \A s : Complete(s)' = Complete(s)
    BY DEF Listed, Complete
<1>3. \A u \in Thread : \A s \in job'[u].victims : s # 0
    <2>1. \A u \in Thread : job'[u] \in JobRecord
        BY <1>1, JobsTyped
    <2> QED BY <2>1 DEF JobRecord, Save
<1>4. \A k \in Automatic : Listed(k)' \subseteq Listed(k) /\ Listed(k)' \cap job[t].victims \subseteq j.victims
    BY <1>1, <1>2
<1>5. \A k \in Automatic : Owes(job[t], k) =>
          \/ Owes(j, k) \/ marker' # 0 \/ pinned' # 0
          \/ Cardinality(Listed(k)' \ j.victims) <= Keep
    BY <1>2
<1>6. server' = "up" /\ Shape(j, saves')
    OBVIOUS
<1>7. \A s \in Save : s # 0 /\ Complete(s) => Complete(s)' /\ saves'[s].kind = saves[s].kind
    BY <1>2
<1>8. \A u \in Thread : \A s \in job'[u].victims : Complete(s)' => Complete(s) /\ s # 0
    BY <1>2, <1>3
<1>9. Loses(t, 0)
    BY <1>7, <1>8 DEF Loses
<1> QED BY <1>1, <1>4, <1>5, <1>6, <1>9, ThreadPrunes

\* The same, with nothing left to count: from a step that owed nothing.
LEMMA PausePrunes ==
    ASSUME SavesInv, PruneInv, NEW t \in Thread, NEW j \in JobRecord,
           job' = [job EXCEPT ![t] = j], server = "up", UNCHANGED <<server, saves>>,
           job[t].step \notin Removal \cup {"defer", "protect", "list"},
           j.victims = {}, Shape(j, saves),
           marker' = 0 /\ pinned' = 0 => marker = 0 /\ pinned = 0,
           pinned' # 0 => Waits(j) \/ (pinned # 0 /\ ~Waits(job[t]))
    PROVE  PruneInv' /\ OnlyVictimsGo
<1>1. \A k : ~Owes(job[t], k)
    BY DEF Owes
<1> QED BY <1>1, QuietPrunes

LEMMA NotWaiting ==
    ASSUME PruneInv, NEW t \in Thread, job[t].step \in {"idle", "pin", "schedule"}
    PROVE  ~Waits(job[t])
BY DEF PruneInv, ShapeInv, Shape, Waits, Making, Removal

LEMMA CreatePrunes ==
    ASSUME SavesInv, PruneInv, NEW t \in Thread, NEW kind \in Kind, NEW then, NEW target,
           At(t, "idle") \/ At(t, "snapshot"), Numbered(t, kind, then, target),
           then = "idle" \/ (then = "mark" /\ kind \in Automatic), At(t, "snapshot") => then = "mark",
           target \in 0..MaxSave, UNCHANGED <<server, saves, marker, pinned>>
    PROVE  PruneInv' /\ OnlyVictimsGo
<1> DEFINE j == [Idle EXCEPT !.step = "copy", !.save = created', !.kinds = {kind},
                             !.then = then, !.target = target]
<1>1. created' \in 0..MaxSave
    BY DEF Numbered, SavesInv, SavesTypeOK
<1>2. j \in JobRecord /\ j.step = "copy" /\ j.kinds = {kind} /\ j.victims = {} /\ j.then = then
    BY <1>1, IdleIs DEF JobRecord, Step
<1>3. job' = [job EXCEPT ![t] = j]
    BY DEF Numbered
<1> HIDE DEF j
<1>4. Shape(j, saves)
    BY <1>2 DEF Shape, Removal, Making
<1>5. Waits(job[t]) => Waits(j)
    BY <1>2, NotWaiting DEF At, Waits
<1> QED BY <1>2, <1>3, <1>4, <1>5, PausePrunes DEF At, Removal

LEMMA RequestPrunes ==
    ASSUME SavesInv, PruneInv, NEW t \in Thread, NEW s \in Save, Request(t, s)
    PROVE  PruneInv' /\ OnlyVictimsGo
<1> DEFINE j == [Idle EXCEPT !.step = "pin", !.target = s]
<1>1. s \in 0..MaxSave
    BY DEF Save
<1>2. j \in JobRecord /\ j.step = "pin" /\ j.victims = {} /\ j.then = "idle"
    BY <1>1, IdleIs DEF JobRecord, Step
<1>3. /\ job' = [job EXCEPT ![t] = j] /\ server = "up" /\ job[t].step = "idle"
      /\ UNCHANGED <<server, saves, marker, pinned>>
    BY DEF Request, At, swapVars, requests, archives
<1> HIDE DEF j
<1>4. Shape(j, saves)
    BY <1>2 DEF Shape, Removal, Making
<1> QED BY <1>2, <1>3, <1>4, NotWaiting, PausePrunes DEF Removal

LEMMA IncompatiblePrunes ==
    ASSUME SavesInv, PruneInv, NEW t \in Thread, Incompatible(t)
    PROVE  PruneInv' /\ OnlyVictimsGo
<1>1. /\ job' = [job EXCEPT ![t] = Idle] /\ server = "up" /\ job[t].step = "pin"
      /\ UNCHANGED <<server, saves, marker, pinned>>
    BY DEF Incompatible, At, swapVars, requests, archives
<1>2. Shape(Idle, saves)
    BY IdleIs DEF Shape, Removal, Making
<1> QED BY <1>1, <1>2, IdleIs, NotWaiting, PausePrunes DEF Removal

\* Steps of a request that only advance it.
LEMMA AdvancePrunes ==
    ASSUME SavesInv, PruneInv, NEW t \in Thread, NEW to \in {"snapshot", "give_up", "schedule"},
           job[t].step \in {"pin", "snapshot", "mark"}, Goes(t, to), server = "up", UNCHANGED <<server, saves>>,
           marker' = 0 /\ pinned' = 0 => marker = 0 /\ pinned = 0,
           pinned' # 0 => to \in {"snapshot", "give_up"}
    PROVE  PruneInv' /\ OnlyVictimsGo
<1> DEFINE j == [job[t] EXCEPT !.step = to]
<1>1. job[t] \in JobRecord /\ job[t].victims = {} /\ job[t].then # "mark"
    BY DEF SavesInv, SavesTypeOK, PruneInv, ShapeInv, Shape, Removal, Making
<1>2. j \in JobRecord /\ j.step = to /\ j.victims = {} /\ j.then # "mark"
    BY <1>1 DEF JobRecord, Step
<1>3. job' = [job EXCEPT ![t] = j]
    BY DEF Goes
<1> HIDE DEF j
<1>4. Shape(j, saves)
    BY <1>2 DEF Shape, Removal, Making
<1>5. pinned' # 0 => Waits(j)
    BY <1>2 DEF Waits
<1> QED BY <1>2, <1>3, <1>4, <1>5, PausePrunes DEF Removal

\* Whoever gives up waiting for a restore, or starts, has every kind to count.
LEMMA RetainPrunes ==
    ASSUME SavesInv, PruneInv, NEW t \in Thread, NEW then \in {"idle", "release"},
           job[t].step \in {"idle", "give_up", "schedule"}, Retain(t, Automatic, then),
           server = "up", UNCHANGED <<server, saves>>,
           pinned' # 0 => pinned # 0 /\ job[t].step # "give_up"
    PROVE  PruneInv' /\ OnlyVictimsGo
<1> DEFINE j == [job[t] EXCEPT !.step = "defer", !.kinds = Automatic, !.then = then]
<1>1. job[t] \in JobRecord /\ job[t].victims = {}
    BY DEF SavesInv, SavesTypeOK, PruneInv, ShapeInv, Shape, Removal
<1>2. j \in JobRecord /\ j.step = "defer" /\ j.victims = {} /\ j.kinds = Automatic /\ j.then = then
    BY <1>1 DEF JobRecord, Step, Kind
<1>3. job' = [job EXCEPT ![t] = j]
    BY DEF Retain
<1> HIDE DEF j
<1>4. Shape(j, saves)
    BY <1>2 DEF Shape, Removal, Making
<1>5. \A k \in Automatic : Owes(j, k)
    BY <1>2 DEF Owes
<1>6. pinned' # 0 => pinned # 0 /\ ~Waits(job[t])
    BY NotWaiting
<1> QED BY <1>2, <1>3, <1>4, <1>5, <1>6, QuietPrunes DEF Removal

LEMMA DeferPrunes ==
    ASSUME SavesInv, PruneInv, NEW t \in Thread, Defer(t)
    PROVE  PruneInv' /\ OnlyVictimsGo
<1> DEFINE i == [job[t] EXCEPT !.kinds = @ \ Deferred]
<1> DEFINE j == Onward(i)
<1>1. /\ job[t] \in JobRecord /\ job[t].victims = {} /\ job[t].kinds \subseteq Automatic
      /\ job[t].step = "defer" /\ server = "up" /\ UNCHANGED <<server, saves, marker, pinned>>
    BY DEF SavesInv, SavesTypeOK, PruneInv, ShapeInv, Shape, Removal, Defer, At, swapVars, requests, archives
<1>2. i \in JobRecord /\ i.victims = {} /\ i.kinds = job[t].kinds \ Deferred /\ i.then = job[t].then
    BY <1>1 DEF JobRecord
<1>3. job' = [job EXCEPT ![t] = j]
    BY DEF Defer, GoesOn
<1> HIDE DEF i
<1>4. /\ j \in JobRecord /\ j.victims = {} /\ Shape(j, saves)
      /\ (\A k \in i.kinds : Owes(j, k)) /\ (i.then = "mark" => Waits(j))
    BY <1>1, <1>2, OnwardTyped, OnwardShape
<1>5. marker = 0 /\ pinned = 0 => Deferred = {}
    BY DEF Deferred
<1>6. \A k \in Automatic : Owes(job[t], k) => Owes(j, k) \/ marker' # 0 \/ pinned' # 0
    BY <1>1, <1>2, <1>4, <1>5 DEF Owes
<1>7. Waits(job[t]) => Waits(j)
    BY <1>1, <1>2, <1>4 DEF Waits
<1> HIDE DEF j
<1> QED BY <1>1, <1>3, <1>4, <1>6, <1>7, QuietPrunes DEF Removal

LEMMA ProtectPrunes ==
    ASSUME SwapInv, SavesInv, PruneInv, NEW t \in Thread, Protect(t)
    PROVE  PruneInv' /\ OnlyVictimsGo
<1> DEFINE j == [job[t] EXCEPT !.step = "list", !.spared = marker]
<1>1. /\ job[t] \in JobRecord /\ job[t].victims = {} /\ job[t].kinds \subseteq Automatic /\ job[t].kinds # {}
      /\ job[t].step = "protect" /\ server = "up" /\ UNCHANGED <<server, saves, marker, pinned>>
    BY DEF SavesInv, SavesTypeOK, PruneInv, ShapeInv, Shape, Removal, Protect, At, swapVars, requests, archives
<1>2. marker \in 0..MaxSave
    BY DEF SwapInv, SwapTypeOK
<1>3. j \in JobRecord /\ j.step = "list" /\ j.spared = marker /\ j.victims = {} /\ j.kinds = job[t].kinds
      /\ j.then = job[t].then
    BY <1>1, <1>2 DEF JobRecord, Step
<1>4. job' = [job EXCEPT ![t] = j]
    BY DEF Protect, SavesInv, SavesTypeOK
<1> HIDE DEF j
<1>5. Shape(j, saves)
    BY <1>1, <1>3 DEF Shape, Removal, Making
<1>6. \A k \in Automatic : Owes(job[t], k) => Owes(j, k) \/ marker' # 0
    BY <1>1, <1>3 DEF Owes
<1>7. Waits(job[t]) => Waits(j)
    BY <1>1, <1>3 DEF Waits
<1> QED BY <1>1, <1>3, <1>4, <1>5, <1>6, <1>7, QuietPrunes DEF Removal

LEMMA ListPrunes ==
    ASSUME SavesInv, PruneInv, NEW t \in Thread, List(t)
    PROVE  PruneInv' /\ OnlyVictimsGo
<1> DEFINE kind == First(job[t].kinds)
<1> DEFINE V == Excess(Listed(kind) \ {job[t].spared, pinned})
<1> DEFINE i == [job[t] EXCEPT !.kinds = @ \ {kind}, !.spared = 0, !.victims = V]
<1> DEFINE j == Onward(i)
<1>1. /\ job[t] \in JobRecord /\ job[t].victims = {} /\ job[t].kinds \subseteq Automatic /\ job[t].kinds # {}
      /\ job[t].step = "list" /\ server = "up" /\ UNCHANGED <<server, saves, marker, pinned>>
    BY DEF SavesInv, SavesTypeOK, PruneInv, ShapeInv, Shape, Removal, List, At, swapVars, requests, archives
<1>2. job' = [job EXCEPT ![t] = j]
    BY DEF List, GoesOn
<1>3. V \in SUBSET Save /\ \A s \in V : Surplus(s)
    BY ExcessIsSurplus
<1>4. pinned = 0 /\ job[t].spared = 0 => Cardinality(Listed(kind) \ V) <= Keep
    <2>1. Listed(kind) \in SUBSET Save /\ 0 \notin Save
        BY SavesAreFinite DEF Save
    <2>2. Cardinality(Listed(kind) \ Excess(Listed(kind))) <= Keep
        BY <2>1, RestFits
    <2>3. pinned = 0 /\ job[t].spared = 0 => V = Excess(Listed(kind))
        <3>1. Listed(kind) \ {0, 0} = Listed(kind)
            BY <2>1
        <3> QED BY <3>1
    <2> QED BY <2>2, <2>3
<1> HIDE DEF V
<1>5. i \in JobRecord /\ i.victims = V /\ i.kinds = job[t].kinds \ {kind} /\ i.then = job[t].then
    <2>1. job[t].kinds \ {kind} \in SUBSET Kind /\ 0 \in 0..MaxSave
        BY <1>1 DEF Kind
    <2> HIDE DEF kind
    <2> QED BY <1>1, <1>3, <2>1 DEF JobRecord
<1> HIDE DEF i
<1>6. /\ j \in JobRecord /\ j.victims = V /\ Shape(j, saves)
      /\ (\A k \in i.kinds : Owes(j, k)) /\ (i.then = "mark" => Waits(j))
    BY <1>1, <1>5, OnwardTyped, OnwardShape
<1>7. \A k \in Automatic : Owes(job[t], k) =>
          \/ Owes(j, k) \/ marker' # 0 \/ pinned' # 0
          \/ Cardinality(Listed(k) \ j.victims) <= Keep
    <2> SUFFICES ASSUME NEW k \in Automatic, Owes(job[t], k), pinned = 0
                 PROVE  Owes(j, k) \/ Cardinality(Listed(k) \ j.victims) <= Keep
        BY <1>1
    <2>1. CASE k = kind
        BY <1>1, <1>4, <1>6, <2>1 DEF Owes, Removal
    <2>2. CASE k # kind
        BY <1>5, <1>6, <2>2 DEF Owes
    <2> QED BY <2>1, <2>2
<1>8. Waits(job[t]) => Waits(j)
    BY <1>1, <1>5, <1>6 DEF Waits
<1> HIDE DEF j, kind
<1> QED BY <1>1, <1>2, <1>3, <1>6, <1>7, <1>8, QuietPrunes DEF Removal

LEMMA DeletePrunes ==
    ASSUME SavesInv, PruneInv, NEW t \in Thread, NEW s \in Save, Delete(t, s)
    PROVE  PruneInv' /\ OnlyVictimsGo
<1> DEFINE j == [Idle EXCEPT !.step = "remove_db", !.victims = {s}]
<1>1. j \in JobRecord /\ j.step = "remove_db" /\ j.victims = {s} /\ j.kinds = {} /\ j.then = "idle"
    BY IdleIs DEF JobRecord, Step
<1>2. /\ job' = [job EXCEPT ![t] = j] /\ server = "up" /\ job[t].step = "idle"
      /\ UNCHANGED <<server, saves, marker, pinned>>
    BY DEF Delete, At, swapVars, requests, archives
<1> HIDE DEF j
<1>3. Shape(j, saves)
    BY <1>1 DEF Shape, Removal, Making
<1>4. \A r \in j.victims : Surplus(r)
    BY <1>1 DEF Delete, Surplus, Automatic
<1>5. \A k : ~Owes(job[t], k)
    BY <1>2 DEF Owes, Removal
<1> QED BY <1>1, <1>2, <1>3, <1>4, <1>5, NotWaiting, QuietPrunes DEF Removal

LEMMA SchedulePrunes ==
    ASSUME SavesInv, PruneInv, NEW t \in Thread, Schedule(t)
    PROVE  PruneInv' /\ OnlyVictimsGo
<1>1. /\ job' = [job EXCEPT ![t] = Idle] /\ server = "up" /\ job[t].step = "schedule"
      /\ UNCHANGED <<server, saves, marker, pinned>>
    BY DEF Schedule, At, swapVars, requests, archives
<1>2. Shape(Idle, saves)
    BY IdleIs DEF Shape, Removal, Making
<1> QED BY <1>1, <1>2, IdleIs, NotWaiting, PausePrunes DEF Removal

\* The thread that makes a save: it is complete only once its thread has its kind to count.
LEMMA MakerPrunes ==
    ASSUME SwapInv, SavesInv, PruneInv, NEW t \in Thread, NEW j \in JobRecord,
           job' = [job EXCEPT ![t] = j], server = "up", UNCHANGED <<server, marker, pinned, created>>,
           job[t].step \in Making, j.victims = {}, Shape(j, saves'),
           \A s \in Save : s # created => saves'[s] = saves[s],
           \A k \in Automatic : Complete(created)' /\ saves'[created].kind = k => Owes(j, k),
           job[t].then = "mark" => Waits(j)
    PROVE  PruneInv' /\ OnlyVictimsGo
<1>1. SavesTypeOK /\ created \in Save /\ saves[created].db = "none"
    BY DEF SavesInv, SavesTypeOK, MakerInv, Save
<1>2. /\ \A u \in Thread : u # t => job[u].step \notin Making
      /\ \A u \in Thread : created \notin job[u].victims
    BY DEF SavesInv, MakerInv
<1>3. \A k : ~Owes(job[t], k)
    BY DEF Owes, Making, Removal
<1>4. \A s \in Save : s # 0 /\ Complete(s) => Complete(s)' /\ saves'[s].kind = saves[s].kind
    BY <1>1 DEF Complete
<1>5. \A u \in Thread : \A s \in job'[u].victims : Complete(s)' => Complete(s) /\ s # 0
    <2>1. \A u \in Thread : job[u] \in JobRecord /\ job'[u] \in JobRecord
        BY <1>1, JobsTyped DEF SavesTypeOK
    <2>2. \A u \in Thread : \A s \in job'[u].victims : s \in Save /\ s # created /\ s # 0
        BY <1>1, <1>2, <2>1, JobsTyped DEF JobRecord, Save
    <2> QED BY <2>2 DEF Complete
<1>6. \A k \in Automatic : \/ Owes(j, k)
                           \/ Listed(k)' \subseteq Listed(k) /\ Listed(k)' \cap job[t].victims \subseteq j.victims
    <2> SUFFICES ASSUME NEW k \in Automatic, ~Owes(j, k)
                 PROVE  Listed(k)' \subseteq Listed(k) /\ job[t].victims = {}
        BY DEF PruneInv, ShapeInv, Shape
    <2>1. \A s \in Save : Complete(s)' /\ saves'[s].kind = k => Complete(s) /\ saves[s].kind = k
        BY DEF Complete
    <2>2. job[t].victims = {}
        BY DEF PruneInv, ShapeInv, Shape, Making, Removal
    <2> QED BY <2>1, <2>2 DEF Listed
<1>7. server' = "up" /\ \A s \in j.victims : Surplus(s)
    OBVIOUS
<1>8. pinned' # 0 => Waits(j) \/ (pinned # 0 /\ ~Waits(job[t]))
    BY DEF Waits, Making
<1>9. \A u \in Thread : u # t /\ job[u].step \in Making \ {"copy"} =>
          saves'[job[u].save].kind = saves[job[u].save].kind
    BY <1>2
<1>10. marker' = 0 /\ pinned' = 0 => marker = 0 /\ pinned = 0
    OBVIOUS
<1>11. Loses(t, 0)
    BY <1>4, <1>5 DEF Loses
<1> QED BY <1>1, <1>3, <1>6, <1>7, <1>8, <1>9, <1>10, <1>11, ThreadPrunes

LEMMA MakingIs ==
    ASSUME SwapInv, SavesInv, PruneInv, NEW t \in Thread, job[t].step \in Making
    PROVE  /\ job[t] \in JobRecord /\ job[t].victims = {} /\ job[t].save = created /\ created \in Save
           /\ \E k \in Kind : /\ job[t].kinds = {k} /\ KindOf(t) = k /\ (job[t].then = "mark" => k \in Automatic)
                              /\ job[t].step # "copy" => saves[created].kind = k
           /\ saves \in [Save -> SaveRecord] /\ saves[created] \in SaveRecord /\ saves[created].db = "none"
<1>1. /\ job[t] \in JobRecord /\ job[t].save = created /\ created \in Save /\ saves[created].db = "none"
      /\ saves \in [Save -> SaveRecord]
    BY DEF SwapInv, SwapTypeOK, SavesInv, SavesTypeOK, MakerInv, Save
<1>2. job[t].victims = {}
    BY DEF PruneInv, ShapeInv, Shape, Making, Removal
<1>3. PICK k \in Kind : /\ job[t].kinds = {k} /\ (job[t].then = "mark" => k \in Automatic)
                        /\ job[t].step # "copy" => saves[job[t].save].kind = k
    BY DEF PruneInv, ShapeInv, Shape
<1>4. KindOf(t) = k
    BY <1>3 DEF KindOf
<1> QED BY <1>1, <1>2, <1>3, <1>4

LEMMA CopyPrunes ==
    ASSUME SwapInv, SavesInv, PruneInv, NEW t \in Thread, Copy(t)
    PROVE  PruneInv' /\ OnlyVictimsGo
<1> DEFINE j == [job[t] EXCEPT !.step = "publish_art"]
<1>1. /\ job[t].step = "copy" /\ server = "up" /\ UNCHANGED <<server, marker, pinned, created>>
      /\ job' = [job EXCEPT ![t] = j]
      /\ saves' = [saves EXCEPT ![job[t].save] =
                     [kind |-> KindOf(t), version |-> live[Db], db |-> "none", art |-> "none"]]
    BY DEF Copy, At, Goes, requests
<1>2. job[t].step \in Making
    BY <1>1 DEF Making
<1>3. PICK k \in Kind : /\ job[t].kinds = {k} /\ KindOf(t) = k /\ (job[t].then = "mark" => k \in Automatic)
                        /\ job[t].step # "copy" => saves[created].kind = k
    BY <1>2, MakingIs
<1>4. /\ j \in JobRecord /\ j.victims = {} /\ j.step = "publish_art" /\ j.kinds = {k} /\ j.save = created
      /\ j.then = job[t].then
    BY <1>2, <1>3, MakingIs DEF JobRecord, Step
<1>5. /\ saves'[created].kind = k /\ saves'[created].db = "none"
      /\ \A s \in Save : s # created => saves'[s] = saves[s]
    BY <1>1, <1>2, <1>3, MakingIs
<1> HIDE DEF j
<1>6. Shape(j, saves') /\ (job[t].then = "mark" => Waits(j))
    BY <1>3, <1>4, <1>5 DEF Shape, Waits, Making, Removal
<1>7. ~Complete(created)'
    <2>1. created' = created
        BY DEF Copy
    <2> QED BY <1>5, <2>1 DEF Complete
<1> QED BY <1>1, <1>2, <1>4, <1>5, <1>6, <1>7, MakerPrunes

LEMMA PublishArtPrunes ==
    ASSUME SwapInv, SavesInv, PruneInv, NEW t \in Thread, PublishArt(t)
    PROVE  PruneInv' /\ OnlyVictimsGo
<1> DEFINE j == [job[t] EXCEPT !.step = "publish_db"]
<1>1. /\ job[t].step = "publish_art" /\ server = "up" /\ UNCHANGED <<server, marker, pinned, created>>
      /\ job' = [job EXCEPT ![t] = j]
      /\ saves' = [saves EXCEPT ![job[t].save]["art"] = "final"]
    BY DEF PublishArt, At, Goes, Becomes, requests
<1>2. job[t].step \in Making
    BY <1>1 DEF Making
<1>3. PICK k \in Kind : /\ job[t].kinds = {k} /\ KindOf(t) = k /\ (job[t].then = "mark" => k \in Automatic)
                        /\ job[t].step # "copy" => saves[created].kind = k
    BY <1>2, MakingIs
<1>4. /\ j \in JobRecord /\ j.victims = {} /\ j.step = "publish_db" /\ j.kinds = {k} /\ j.save = created
      /\ j.then = job[t].then
    BY <1>2, <1>3, MakingIs DEF JobRecord, Step
<1>5. /\ saves'[created].kind = k /\ saves'[created].db = "none"
      /\ \A s \in Save : s # created => saves'[s] = saves[s]
    BY <1>1, <1>2, <1>3, MakingIs DEF SaveRecord
<1> HIDE DEF j
<1>6. Shape(j, saves') /\ (job[t].then = "mark" => Waits(j))
    BY <1>3, <1>4, <1>5 DEF Shape, Waits, Making, Removal
<1>7. ~Complete(created)'
    <2>1. created' = created
        BY DEF PublishArt
    <2> QED BY <1>5, <2>1 DEF Complete
<1> QED BY <1>1, <1>2, <1>4, <1>5, <1>6, <1>7, MakerPrunes

LEMMA PublishDbPrunes ==
    ASSUME SwapInv, SavesInv, PruneInv, NEW t \in Thread, PublishDb(t)
    PROVE  PruneInv' /\ OnlyVictimsGo
<1> DEFINE j == IF job[t].kinds \subseteq Automatic THEN [job[t] EXCEPT !.step = "defer"] ELSE Idle
<1>1. /\ job[t].step = "publish_db" /\ server = "up" /\ UNCHANGED <<server, marker, pinned, created>>
      /\ job' = [job EXCEPT ![t] = j]
      /\ saves' = [saves EXCEPT ![job[t].save]["db"] = "final"]
    BY DEF PublishDb, At, Goes, Becomes, requests
<1>2. job[t].step \in Making
    BY <1>1 DEF Making
<1>3. PICK k \in Kind : /\ job[t].kinds = {k} /\ KindOf(t) = k /\ (job[t].then = "mark" => k \in Automatic)
                        /\ job[t].step # "copy" => saves[created].kind = k
    BY <1>2, MakingIs
<1>4. /\ j \in JobRecord /\ j.victims = {}
      /\ k \in Automatic => j.step = "defer" /\ j.kinds = {k} /\ j.then = job[t].then
      /\ k \notin Automatic => j = Idle
    BY <1>2, <1>3, IdleIs, MakingIs DEF JobRecord, Step
<1>5. /\ saves'[created].kind = k
      /\ \A s \in Save : s # created => saves'[s] = saves[s]
    BY <1>1, <1>2, <1>3, MakingIs DEF SaveRecord
<1> HIDE DEF j
<1>6. Shape(j, saves') /\ (job[t].then = "mark" => Waits(j))
    BY <1>3, <1>4, IdleIs DEF Shape, Waits, Making, Removal
<1>7. \A a \in Automatic : Complete(created)' /\ saves'[created].kind = a => Owes(j, a)
    BY <1>4, <1>5 DEF Owes
<1> QED BY <1>1, <1>2, <1>4, <1>5, <1>6, <1>7, MakerPrunes

LEMMA CreateFailsPrunes ==
    ASSUME SwapInv, SavesInv, PruneInv, NEW t \in Thread, CreateFails(t)
    PROVE  PruneInv' /\ OnlyVictimsGo
<1> DEFINE j == IF job[t].then = "mark" THEN [job[t] EXCEPT !.step = "give_up"] ELSE Idle
<1>1. /\ job[t].step \in Making /\ server = "up" /\ UNCHANGED <<server, marker, pinned, created>>
      /\ job' = [job EXCEPT ![t] = j]
      /\ saves' = [saves EXCEPT ![job[t].save] = NoSave]
    BY DEF CreateFails, Goes, Making, requests
<1>2. /\ j \in JobRecord /\ j.victims = {}
      /\ IF job[t].then = "mark" THEN j.step = "give_up" ELSE j = Idle
    BY <1>1, IdleIs, MakingIs DEF JobRecord, Step
<1>3. /\ saves'[created].db = "none" /\ created' = created
      /\ \A s \in Save : s # created => saves'[s] = saves[s]
    BY <1>1, MakingIs DEF NoSave, CreateFails
<1> HIDE DEF j
<1>4. Shape(j, saves') /\ (job[t].then = "mark" => Waits(j))
    BY <1>2, IdleIs DEF Shape, Waits, Making, Removal
<1>5. ~Complete(created)'
    BY <1>3 DEF Complete
<1> QED BY <1>1, <1>2, <1>3, <1>4, <1>5, MakerPrunes

\* A thread that removes: v, one of its victims, is not complete afterwards.
LEMMA RemoverPrunes ==
    ASSUME SwapInv, SavesInv, PruneInv, NEW t \in Thread, NEW j \in JobRecord, NEW v \in job[t].victims,
           job' = [job EXCEPT ![t] = j], server = "up", UNCHANGED <<server, marker, pinned>>,
           job[t].step \in Removal, Shape(j, saves'),
           j.victims \subseteq job[t].victims, job[t].victims \ {v} \subseteq j.victims,
           ~Complete(v)', \A s \in Save : s # v => saves'[s] = saves[s],
           \A k \in Automatic : Owes(job[t], k) => Owes(j, k), job[t].then = "mark" => Waits(j)
    PROVE  PruneInv' /\ OnlyVictimsGo
<1>1. SavesTypeOK /\ v \in Save
    BY DEF SavesInv, SavesTypeOK, JobRecord
<1>2. \A u \in Thread : u # t /\ job[u].step \in Making \ {"copy"} =>
          saves'[job[u].save].kind = saves[job[u].save].kind
    <2>1. \A u \in Thread : job[u].step \in Making => job[u].save \in Save /\ job[u].save # v
        BY DEF SavesInv, MakerInv, SavesTypeOK, Save
    <2> QED BY <2>1
<1>3. \A s \in Save : s # v /\ Complete(s) => Complete(s)' /\ saves'[s].kind = saves[s].kind
    BY DEF Complete
<1>4. \A u \in Thread : \A s \in job'[u].victims : Complete(s)' => Complete(s) /\ s # v
    <2>1. \A u \in Thread : job'[u] \in JobRecord
        BY <1>1, JobsTyped
    <2>2. \A u \in Thread : \A s \in job'[u].victims : s \in Save
        BY <2>1 DEF JobRecord
    <2> QED BY <2>2 DEF Complete
<1>5. \A s \in j.victims : Surplus(s)
    BY DEF PruneInv, SurplusInv
<1>6. \A k : Listed(k)' \subseteq Listed(k) /\ Listed(k)' \cap job[t].victims \subseteq j.victims
    <2>1. \A s \in Save : Complete(s)' => s # v /\ Complete(s) /\ saves'[s] = saves[s]
        BY DEF Complete
    <2> QED BY <2>1 DEF Listed
<1>7. server' = "up" /\ (pinned' # 0 => Waits(j) \/ (pinned # 0 /\ ~Waits(job[t])))
    BY DEF Waits, Removal
<1>8. marker' = 0 /\ pinned' = 0 => marker = 0 /\ pinned = 0
    OBVIOUS
<1>9. Loses(t, v)
    BY <1>3, <1>4 DEF Loses
<1> QED BY <1>1, <1>2, <1>5, <1>6, <1>7, <1>8, <1>9, ThreadPrunes

LEMMA RemovingIs ==
    ASSUME SwapInv, SavesInv, PruneInv, NEW t \in Thread, job[t].step \in Removal
    PROVE  /\ job[t] \in JobRecord /\ Victim(t) \in job[t].victims /\ Victim(t) \in Save
           /\ job[t].kinds \subseteq Automatic
           /\ saves \in [Save -> SaveRecord] /\ saves[Victim(t)] \in SaveRecord
           /\ job[t].step # "remove_db" => saves[Victim(t)].db = "none"
<1>1. job[t] \in JobRecord /\ job[t].victims # {} /\ saves \in [Save -> SaveRecord]
    BY DEF SavesInv, SavesTypeOK, JobsInv, Removal, SwapInv, SwapTypeOK
<1>2. Victim(t) \in job[t].victims /\ Victim(t) \in Save
    BY <1>1, VictimIsOne DEF SavesInv
<1>3. job[t].kinds \subseteq Automatic
    BY DEF PruneInv, ShapeInv, Shape
<1>4. job[t].step # "remove_db" => saves[Victim(t)].db = "none"
    BY DEF SavesInv, WholeInv, Removal
<1> QED BY <1>1, <1>2, <1>3, <1>4

LEMMA RemoveHalfPrunes ==
    ASSUME SwapInv, SavesInv, PruneInv, NEW t \in Thread, RemoveDb(t) \/ RemoveArt(t)
    PROVE  PruneInv' /\ OnlyVictimsGo
<1> PICK v : v = Victim(t)
    OBVIOUS
<1> PICK to \in Removal : Goes(t, to)
    BY DEF RemoveDb, RemoveArt, Removal
<1> DEFINE j == [job[t] EXCEPT !.step = to]
<1>1. /\ job[t].step \in Removal /\ server = "up" /\ UNCHANGED <<server, marker, pinned>>
      /\ job' = [job EXCEPT ![t] = j]
    BY DEF RemoveDb, RemoveArt, At, Goes, requests, Removal
<1>2. /\ j \in JobRecord /\ j.victims = job[t].victims /\ j.kinds = job[t].kinds /\ j.step = to
      /\ j.then = job[t].then
    BY <1>1, RemovingIs DEF JobRecord, Step, Removal
<1>3. saves'[v].db = "none" /\ \A s \in Save : s # v => saves'[s] = saves[s]
    <2>1. CASE RemoveDb(t)
        <3>1. saves' = [saves EXCEPT ![v]["db"] = IF @ = "none" THEN @ ELSE "none"]
            BY <2>1 DEF RemoveDb, Tears
        <3> QED BY <1>1, <3>1, RemovingIs DEF SaveRecord
    <2>2. CASE RemoveArt(t)
        <3>1. saves' = [saves EXCEPT ![v]["art"] = IF @ = "none" THEN @ ELSE "torn"]
            BY <2>2 DEF RemoveArt, Tears
        <3>2. saves[v].db = "none"
            BY <1>1, <2>2, RemovingIs DEF RemoveArt, At
        <3> QED BY <1>1, <3>1, <3>2, RemovingIs DEF SaveRecord
    <2> QED BY <2>1, <2>2
<1> HIDE DEF j
<1>4. Shape(j, saves') /\ (job[t].then = "mark" => Waits(j))
    BY <1>1, <1>2, RemovingIs DEF Shape, Waits, Removal, Making
<1>5. ~Complete(v)'
    BY <1>3 DEF Complete
<1>6. \A k \in Automatic : Owes(job[t], k) => Owes(j, k)
    BY <1>2 DEF Owes
<1>7. v \in job[t].victims
    BY <1>1, RemovingIs
<1> QED BY <1>1, <1>2, <1>3, <1>4, <1>5, <1>6, <1>7, RemoverPrunes

LEMMA RemoveRestPrunes ==
    ASSUME SwapInv, SavesInv, PruneInv, NEW t \in Thread, RemoveRest(t)
    PROVE  PruneInv' /\ OnlyVictimsGo
<1> PICK v : v = Victim(t)
    OBVIOUS
<1> DEFINE i == [job[t] EXCEPT !.victims = @ \ {v}]
<1> DEFINE j == Onward(i)
<1>1. /\ job[t].step \in Removal /\ server = "up" /\ UNCHANGED <<server, marker, pinned>>
      /\ job' = [job EXCEPT ![t] = j] /\ saves' = [saves EXCEPT ![v] = NoSave]
    BY DEF RemoveRest, GoesOn, At, requests, Removal
<1>2. /\ job[t] \in JobRecord /\ job[t].kinds \subseteq Automatic /\ v \in job[t].victims /\ v \in Save
      /\ saves \in [Save -> SaveRecord]
    BY <1>1, RemovingIs
<1>3. i \in JobRecord /\ i.victims = job[t].victims \ {v} /\ i.kinds = job[t].kinds /\ i.then = job[t].then
    BY <1>2 DEF JobRecord
<1>4. saves'[v].db = "none" /\ \A s \in Save : s # v => saves'[s] = saves[s]
    BY <1>1, <1>2 DEF NoSave
<1> HIDE DEF i
<1>5. /\ j \in JobRecord /\ j.victims = i.victims /\ Shape(j, saves')
      /\ (\A k \in i.kinds : Owes(j, k)) /\ (i.then = "mark" => Waits(j))
    BY <1>2, <1>3, OnwardTyped, OnwardShape
<1> HIDE DEF j
<1>6. ~Complete(v)'
    BY <1>4 DEF Complete
<1>7. \A k \in Automatic : Owes(job[t], k) => Owes(j, k)
    BY <1>3, <1>5 DEF Owes
<1> QED BY <1>1, <1>2, <1>3, <1>4, <1>5, <1>6, <1>7, RemoverPrunes

LEMMA StartsPrunes ==
    ASSUME SwapInv, SavesInv, PruneInv, Starts
    PROVE  PruneInv' /\ OnlyVictimsGo
<1> DEFINE j == [job[Reactor] EXCEPT !.step = "defer", !.kinds = Automatic, !.then = "idle"]
<1>1. server = "down" /\ server' = "up" /\ saves' = saves /\ job' = [job EXCEPT ![Reactor] = j]
    <2>1. server \in {"up", "down"} /\ server # "up"
        BY DEF Starts, ServerStarts, SwapInv, SwapTypeOK, WorldInv
    <2> QED BY <2>1 DEF Starts, ServerStarts, Retain, archives
<1>2. job \in [Thread -> JobRecord] /\ \A t \in Thread : job[t] = Idle
    BY <1>1 DEF PruneInv, ShapeInv, SavesInv, SavesTypeOK
<1>3. j.step = "defer" /\ j.kinds = Automatic /\ j.victims = {} /\ j.then = "idle"
    BY <1>2, IdleIs DEF JobRecord
<1> HIDE DEF j
<1>4. job'[Reactor] = j /\ \A t \in Thread : t # Reactor => job'[t] = Idle
    BY <1>1, <1>2
<1>5. \A t \in Thread : Shape(job'[t], saves') /\ job'[t].victims = {}
    BY <1>3, <1>4, IdleIs DEF Shape, Removal, Making
<1>6. \A k \in Automatic : Owes(job'[Reactor], k)
    BY <1>3, <1>4 DEF Owes
<1>7. ShapeInv' /\ SurplusInv' /\ DebtInv'
    BY <1>1, <1>5, <1>6 DEF ShapeInv, SurplusInv, DebtInv
<1>8. PinInv'
    BY <1>2, IdleIs DEF PruneInv, PinInv, Waits, Starts, locks
<1> QED BY <1>1, <1>7, <1>8 DEF PruneInv, OnlyVictimsGo, Complete

LEMMA StopsPrunes ==
    ASSUME SwapInv, SavesInv, PruneInv, Stops
    PROVE  PruneInv' /\ OnlyVictimsGo
<1>1. server' = "down" /\ saves' = saves /\ \A t \in Thread : job'[t] = Idle
    BY DEF Stops, ServerStops, archives
<1>2. ShapeInv'
    BY <1>1, IdleIs DEF ShapeInv, Shape, Removal, Making
<1>3. SurplusInv' /\ DebtInv' /\ PinInv'
    BY <1>1, IdleIs DEF SurplusInv, DebtInv, PinInv, Stops
<1> QED BY <1>1, <1>2, <1>3 DEF PruneInv, OnlyVictimsGo, Complete

\* The tool and the game leave threads and saves alone.
LEMMA OthersPrune ==
    ASSUME PruneInv, UNCHANGED <<server, saves, job, pinned>>, server = "up" => marker' = marker
    PROVE  PruneInv' /\ OnlyVictimsGo
<1>1. \A k : Listed(k)' = Listed(k)
    BY DEF Listed, Complete
<1>2. ShapeInv'
    BY DEF PruneInv, ShapeInv, Shape
<1>3. SurplusInv'
    BY <1>1 DEF PruneInv, SurplusInv, Surplus, Newer, Complete, Listed
<1>4. DebtInv'
    BY <1>1 DEF PruneInv, DebtInv, Staying, Doomed
<1>5. PinInv'
    BY DEF PruneInv, PinInv
<1> QED BY <1>2, <1>3, <1>4, <1>5 DEF PruneInv, OnlyVictimsGo, Complete

LEMMA ToolsPrune ==
    ASSUME SwapInv, SavesInv, PruneInv, Tools
    PROVE  PruneInv' /\ OnlyVictimsGo
<1>1. UNCHANGED <<server, saves, job, pinned>>
    BY DEF Tools, Tool, ToolStarts, Verify, Stage, Swap, Rollback, CleanUp, Finish, FinishRaises, Crash,
           Passes, MakeAside, MakeArtAside, MoveDbAside, MoveArtAside, MoveAside, InstallDb, InstallArt,
           Install, Commit, Fails, RemoveInstalled, RemoveInstalledDb, MoveDbBack, MoveArtBack, MoveBack,
           DropAside, RolledBack, RollbackFails, ScrapFile, CleanAside
<1>2. server = "down" \/ tool # "off"
    BY DEF Tools, Tool, ToolStarts, Verify, Stage, Swap, Rollback, CleanUp, Finish, FinishRaises, Crash,
           Passes, MakeAside, MakeArtAside, MoveDbAside, MoveArtAside, MoveAside, InstallDb, InstallArt,
           Install, Commit, Fails, RemoveInstalled, RemoveInstalledDb, MoveDbBack, MoveArtBack, MoveBack,
           DropAside, RolledBack, RollbackFails, ScrapFile, CleanAside, Swapping
<1>3. server # "up"
    BY <1>2 DEF SwapInv, WorldInv
<1> QED BY <1>1, <1>3, OthersPrune

LEMMA ThreadStepsPrune ==
    ASSUME SwapInv, SavesInv, PruneInv, NEW t \in Thread,
           Creating(t) \/ Retaining(t) \/ Removing(t) \/ Requesting(t)
    PROVE  PruneInv' /\ OnlyVictimsGo
<1> USE DEF At, swapVars, requests, archives
<1>1. CASE \E kind \in Kind \ {"auto_restore"} : Create(t, kind)
    <2>1. PICK kind \in Kind : Create(t, kind)
        BY <1>1
    <2>2. /\ At(t, "idle") /\ Numbered(t, kind, "idle", 0) /\ UNCHANGED <<server, saves, marker, pinned>>
        BY <2>1 DEF Create
    <2>3. 0 \in 0..MaxSave
        OBVIOUS
    <2> QED BY <2>2, <2>3, CreatePrunes DEF At
<1>2. CASE SaveBefore(t)
    <2>1. /\ At(t, "snapshot") /\ Numbered(t, "auto_restore", "mark", job[t].target)
          /\ UNCHANGED <<server, saves, marker, pinned>>
        BY <1>2 DEF SaveBefore
    <2>2. job[t].target \in 0..MaxSave /\ "auto_restore" \in Kind \cap Automatic
        BY DEF SavesInv, SavesTypeOK, JobRecord, Kind, Automatic
    <2> QED BY <2>1, <2>2, CreatePrunes
<1>3. CASE Pin(t)
    <2>1. /\ job[t].step = "pin" /\ Goes(t, "snapshot") /\ server = "up" /\ UNCHANGED <<server, saves, marker>>
          /\ pinned' = job[t].target
        BY <1>3 DEF Pin
    <2>2. job[t].target # 0
        BY <2>1 DEF SavesInv, JobsInv
    <2> QED BY <2>1, <2>2, AdvancePrunes
<1>4. CASE CannotSave(t)
    <2>1. /\ job[t].step \in {"snapshot", "mark"} /\ Goes(t, "give_up") /\ server = "up"
          /\ UNCHANGED <<server, saves, marker, pinned>>
        BY <1>4 DEF CannotSave
    <2> QED BY <2>1, AdvancePrunes
<1>5. CASE Mark(t)
    <2>1. /\ job[t].step = "mark" /\ Goes(t, "schedule") /\ server = "up" /\ UNCHANGED <<server, saves>>
          /\ pinned' = 0 /\ marker' = job[t].target
        BY <1>5 DEF Mark, Ask
    <2>2. job[t].target # 0
        BY <2>1 DEF SavesInv, JobsInv
    <2> QED BY <2>1, <2>2, AdvancePrunes
<1>6. CASE GiveUp(t)
    <2>1. /\ job[t].step = "give_up" /\ Retain(t, Automatic, "release") /\ server = "up"
          /\ UNCHANGED <<server, saves>> /\ pinned' = 0
        BY <1>6 DEF GiveUp
    <2> QED BY <2>1, RetainPrunes
<1>7. CASE ScheduleFails(t)
    <2>1. /\ job[t].step = "schedule" /\ Retain(t, Automatic, "release") /\ server = "up"
          /\ UNCHANGED <<server, saves, pinned>>
        BY <1>7 DEF ScheduleFails, Withdraw
    <2> QED BY <2>1, RetainPrunes
<1>8. CASE Creating(t)
    BY <1>1, <1>8, CopyPrunes, PublishArtPrunes, PublishDbPrunes, CreateFailsPrunes DEF Creating
<1>9. CASE Retaining(t)
    BY <1>9, DeferPrunes, ProtectPrunes, ListPrunes DEF Retaining
<1>10. CASE Removing(t)
    BY <1>10, DeletePrunes, RemoveHalfPrunes, RemoveRestPrunes DEF Removing
<1>11. CASE Requesting(t)
    BY <1>2, <1>3, <1>4, <1>5, <1>6, <1>7, <1>11, RequestPrunes, IncompatiblePrunes, SchedulePrunes DEF Requesting
<1> QED BY <1>8, <1>9, <1>10, <1>11

LEMMA PruneInitially == Init => PruneInv
<1> SUFFICES ASSUME Init PROVE PruneInv
    OBVIOUS
<1>1. server = "up" /\ (\A s \in Save : saves[s] = NoSave) /\ \A t \in Thread : job[t] = Idle
    BY DEF Init, SwapInit
<1>2. ShapeInv /\ SurplusInv /\ PinInv
    BY <1>1, IdleIs DEF Init, PinInv, ShapeInv, SurplusInv, Shape, Removal, Making
<1>3. \A k : Staying(k) = {}
    <2>1. \A s \in Save : ~Complete(s)
        BY <1>1 DEF Complete, NoSave
    <2>2. \A k : Listed(k) = {}
        BY <2>1 DEF Listed
    <2> QED BY <2>2 DEF Staying
<1>4. \A k : Cardinality(Staying(k)) <= Keep
    <2>1. Cardinality({}) = 0
        BY FS_EmptySet
    <2>2. 0 <= Keep
        OBVIOUS
    <2> QED BY <1>3, <2>1, <2>2
<1> QED BY <1>2, <1>4 DEF PruneInv, DebtInv

LEMMA PruneStep == Inv /\ PruneInv /\ [Next]_vars => PruneInv' /\ OnlyVictimsGo
<1> SUFFICES ASSUME Inv, PruneInv, [Next]_vars PROVE PruneInv' /\ OnlyVictimsGo
    OBVIOUS
<1> USE DEF Inv
<1>1. CASE Next
    <2>1. CASE Plays
        <3>1. UNCHANGED <<server, saves, job, pinned, marker>>
            BY <2>1 DEF Plays, Play, requests
        <3> QED BY <3>1, OthersPrune
    <2> QED BY <1>1, <2>1, ThreadStepsPrune, ToolsPrune, StartsPrunes, StopsPrunes DEF Next
<1>2. CASE UNCHANGED vars
    <2>1. UNCHANGED <<server, saves, job, pinned, marker>>
        BY <1>2 DEF vars, swapVars, requests, archives
    <2> QED BY <2>1, OthersPrune
<1> QED BY <1>1, <1>2

LEMMA PruneInvariant == Spec => []PruneInv
<1>1. Init => PruneInv
    BY PruneInitially
<1>2. Inv /\ PruneInv /\ [Next]_vars => PruneInv'
    BY PruneStep
<1> QED BY <1>1, <1>2, Invariant, PTL DEF Spec

\* When nothing runs and no restore is waited for, every automatic kind is within its
\* limit, also after pruning was put off (_deferred_kinds, apply_retention, startup_report).
THEOREM PruningCatchesUp == Spec => []RetentionCatchesUp
<1>1. Inv /\ PruneInv => RetentionCatchesUp
    <2> SUFFICES ASSUME Inv, PruneInv, server = "up", marker = 0, \A t \in Thread : job[t] = Idle,
                        NEW kind \in Automatic
                 PROVE  Cardinality(Listed(kind)) <= Keep
        BY DEF RetentionCatchesUp
    <2>1. pinned = 0
        BY IdleIs DEF PruneInv, PinInv, Waits
    <2>2. \A t \in Thread : ~Owes(job[t], kind)
        BY IdleIs DEF Owes, Removal
    <2>3. Staying(kind) = Listed(kind)
        BY IdleIs DEF Staying, Doomed
    <2> QED BY <2>1, <2>2, <2>3 DEF PruneInv, DebtInv
<1> QED BY <1>1, Invariant, PruneInvariant, PTL

\* Pruning leaves the newest saves of each automatic kind, however many threads prune
\* at once, each by its own count (_prune_kind).
THEOREM TheNewestSurvive == Spec => NewestSurvive
<1>1. Inv /\ PruneInv /\ [Next]_vars =>
          \A s \in Save : Complete(s) /\ saves[s].kind \in Automatic /\ ~Complete(s)' =>
              Cardinality(Newer(s, Listed(saves[s].kind))) >= Keep
    <2> SUFFICES ASSUME Inv, PruneInv, [Next]_vars, NEW s \in Save,
                        Complete(s), saves[s].kind \in Automatic, ~Complete(s)'
                 PROVE  Cardinality(Newer(s, Listed(saves[s].kind))) >= Keep
        OBVIOUS
    <2>1. PICK t \in Thread : s \in job[t].victims
        BY PruneStep DEF OnlyVictimsGo
    <2>2. Surplus(s)
        BY <2>1 DEF PruneInv, SurplusInv
    <2> QED BY <2>2 DEF Surplus
<1> QED BY <1>1, Invariant, PruneInvariant, PTL DEF Spec, NewestSurvive
=============================================================================
