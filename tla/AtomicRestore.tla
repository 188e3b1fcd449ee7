---------------------------- MODULE AtomicRestore ----------------------------
(***************************************************************************)
(* What restoring a world save promises, seen from outside: the server     *)
(* runs on one world; while it runs a save may be asked for; the next      *)
(* start finds exactly the world the last run left or exactly the save     *)
(* that was asked for, and a request serves one start at most.             *)
(***************************************************************************)
EXTENDS Naturals

CONSTANTS
    World,       \* worlds, whole: every file of both stores
    Saved(_),    \* the world kept under a save's version
    Version,     \* versions of saves
    None         \* no save is asked for

VARIABLES
    world,       \* the world in use, or the one the last run left
    up,          \* the server runs
    asked        \* the version asked for

vars == <<world, up, asked>>

Init ==
    /\ world \in World
    /\ up = TRUE
    /\ asked = None

\* The game goes on.
Run == up /\ world' \in World /\ UNCHANGED <<up, asked>>

Ask(v) == up /\ asked' = v /\ UNCHANGED <<world, up>>

Withdraw == up /\ asked' = None /\ UNCHANGED <<world, up>>

\* A shutdown, or a crash that leaves the database's side files behind.
Stop == up /\ up' = FALSE /\ world' \in World /\ UNCHANGED asked

Start ==
    /\ ~up
    /\ up' = TRUE
    /\ \/ world' = world
       \/ asked # None /\ world' = Saved(asked)
    /\ asked' = None

Next ==
    \/ Run \/ Withdraw \/ Stop \/ Start
    \/ \E v \in Version : Ask(v)

Spec == Init /\ [][Next]_vars
=============================================================================
