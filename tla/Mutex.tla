------------------------------- MODULE Mutex -------------------------------
(***************************************************************************)
(* What CacheLock (src/django_project_base/serialization.py) promises to   *)
(* the code in its with blocks: at most one of them runs at a time.  A     *)
(* block may also end without giving the lock back (Leak), after which     *)
(* nobody enters any more; it is never entered twice.                      *)
(***************************************************************************)
CONSTANT Procs      \* threads and processes that use the same lock name

VARIABLES inside,   \* the processes that are executing a with block
          leaked    \* TRUE once a block ended and left the lock taken

vars == <<inside, leaked>>

TypeOK ==
    /\ inside \subseteq Procs
    /\ leaked \in BOOLEAN

Init ==
    /\ inside = {}
    /\ leaked = FALSE

Enter(p) ==
    /\ inside = {}
    /\ ~leaked
    /\ inside' = {p}
    /\ UNCHANGED leaked

Leave(p) ==
    /\ p \in inside
    /\ inside' = inside \ {p}
    /\ UNCHANGED leaked

\* The block ends and the lock stays taken.
Leak(p) ==
    /\ p \in inside
    /\ inside' = inside \ {p}
    /\ leaked' = TRUE

Next == \E p \in Procs : Enter(p) \/ Leave(p) \/ Leak(p)

Spec == Init /\ [][Next]_vars
=============================================================================
