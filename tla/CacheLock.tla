----------------------------- MODULE CacheLock -----------------------------
(***************************************************************************)
(* The lock of src/django_project_base/serialization.py: a counter kept in *)
(* the Django cache under one name.  Whoever brings the counter to 1 owns  *)
(* the lock, everyone else polls, gives up at once (timeout -1) or gives   *)
(* up after a while (timeout > 0); the owner deletes the key.              *)
(*                                                                         *)
(* Every call to the cache is one step, so that the three calls of         *)
(* CacheCounter.incr (add, incr, touch) of different processes interleave  *)
(* with each other and with the owner's delete.                            *)
(***************************************************************************)
EXTENDS Integers, FiniteSets

CONSTANTS
    Procs,      \* threads and processes that use the same lock name
    Modes,      \* kinds of CacheLock objects created: see AllModes
    BodyEnds,   \* how a with block may end: see AllEnds
    Careless,   \* processes that forget to call cl() first in the block
    Mortal,     \* processes that may be killed
    Faulty,     \* processes whose cache calls may raise
    Evicting,   \* TRUE when the cache may drop the key on its own
    MaxCount    \* the counter saturates here: only 1 and "more" differ

\* timeout = 0, timeout = -1, timeout > 0
AllModes == {"block", "try", "timed"}

\* "done" is a normal end or an exception other than ObjectLockTimeout;
\* "lockTimeout" an ObjectLockTimeout of another lock used in the block.
AllEnds == {"done", "lockTimeout"}

ASSUME CacheLockAssumption ==
    /\ Modes \subseteq AllModes
    /\ BodyEnds \subseteq AllEnds
    /\ Careless \subseteq Procs
    /\ Mortal \subseteq Procs
    /\ Faulty \subseteq Procs
    /\ Evicting \in BOOLEAN
    /\ MaxCount \in Nat /\ MaxCount >= 2

VARIABLES
    count,      \* value stored under "CacheLock.<name>", Absent if none
    expiring,   \* the key still has the default timeout cache.add gave it
    waiters,    \* value stored under "Waiting.CacheLock.<stats name>"
    left,       \* history: where a process was that left its key behind
    pc,         \* where each process is
    mode,       \* CacheLock.timeout
    won,        \* the last incr of this process returned 1
    waiting,    \* CacheLock.is_waiting
    checked,    \* CacheLock.timeout_checked
    timedOut,   \* CacheLock.raise_timeout_exception
    dead        \* processes that were killed

vars == <<count, expiring, waiters, left, pc, mode, won, waiting,
          checked, timedOut, dead>>

Absent == -1

\* CacheCounter.incr is at "add", "incr" and "touch"; CacheLock.__enter__
\* also at "decide" and "sleep"; the with block at "check" and "body".
Polling == {"add", "incr", "touch", "decide", "sleep"}

TypeOK ==
    /\ count \in Absent..MaxCount
    /\ expiring \in BOOLEAN
    /\ waiters \in Int
    /\ left \in {"no", "entry", "block"}
    /\ pc \in [Procs -> {"idle", "check", "body"} \union Polling]
    /\ mode \in [Procs -> AllModes]
    /\ won \in [Procs -> BOOLEAN]
    /\ waiting \in [Procs -> BOOLEAN]
    /\ checked \in [Procs -> BOOLEAN]
    /\ timedOut \in [Procs -> BOOLEAN]
    /\ dead \subseteq Procs

Init ==
    /\ count = Absent
    /\ expiring = FALSE
    /\ waiters = 0
    /\ left = "no"
    /\ pc = [p \in Procs |-> "idle"]
    /\ mode = [p \in Procs |-> "block"]
    /\ won = [p \in Procs |-> FALSE]
    /\ waiting = [p \in Procs |-> FALSE]
    /\ checked = [p \in Procs |-> FALSE]
    /\ timedOut = [p \in Procs |-> FALSE]
    /\ dead = {}

Live(p) == p \notin dead

Goto(p, from, to) ==
    /\ Live(p)
    /\ pc[p] = from
    /\ pc' = [pc EXCEPT ![p] = to]

-----------------------------------------------------------------------------
(* CacheLock.__init__ and the entry of the with statement *)

New(p, m) ==
    /\ Goto(p, "idle", "add")
    /\ mode' = [mode EXCEPT ![p] = m]
    /\ won' = [won EXCEPT ![p] = FALSE]
    /\ waiting' = [waiting EXCEPT ![p] = FALSE]
    /\ checked' = [checked EXCEPT ![p] = FALSE]
    /\ timedOut' = [timedOut EXCEPT ![p] = FALSE]
    /\ UNCHANGED <<count, expiring, waiters, left, dead>>

(* CacheCounter.incr *)

Add(p) ==
    /\ Goto(p, "add", "incr")
    /\ IF count = Absent
       THEN count' = 0 /\ expiring' = TRUE
       ELSE UNCHANGED <<count, expiring>>
    /\ UNCHANGED <<waiters, left, mode, won, waiting, checked, timedOut,
                   dead>>

\* Mutant: off by one, the second one wins as well.
IncrSecond(p) ==
    /\ count # Absent
    /\ Goto(p, "incr", "touch")
    /\ count' = IF count < MaxCount THEN count + 1 ELSE count
    /\ won' = [won EXCEPT ![p] = (count <= 1)]
    /\ UNCHANGED <<expiring, waiters, left, mode, waiting, checked, timedOut, dead>>

Incr(p) ==
    /\ count # Absent
    /\ Goto(p, "incr", "touch")
    /\ count' = IF count < MaxCount THEN count + 1 ELSE count
    /\ won' = [won EXCEPT ![p] = (count = 0)]
    /\ UNCHANGED <<expiring, waiters, left, mode, waiting, checked,
                   timedOut, dead>>

\* ValueError: the key was deleted after this process's add.
IncrMissing(p) ==
    /\ count = Absent
    /\ Goto(p, "incr", "add")
    /\ UNCHANGED <<count, expiring, waiters, left, mode, won, waiting,
                   checked, timedOut, dead>>

\* update_timeout with timeout None: persist, or touch, which does nothing
\* to a missing key.
Touch(p) ==
    /\ Goto(p, "touch", "decide")
    /\ expiring' = FALSE
    /\ UNCHANGED <<count, waiters, left, mode, won, waiting, checked,
                   timedOut, dead>>

-----------------------------------------------------------------------------
(* The loop of CacheLock.__enter__ *)

\* Mutant: the waiting counter stays.
StopWaitingNot(p) == waiters' = waiters

\* The with block of a lock with a timeout starts with the call cl().
BlockStart(p) == IF mode[p] = "block" THEN "body" ELSE "check"

StopWaiting(p) == waiters' = IF waiting[p] THEN waiters - 1 ELSE waiters

Acquired(p) ==
    /\ won[p]
    /\ Goto(p, "decide", BlockStart(p))
    /\ StopWaiting(p)
    /\ UNCHANGED <<count, expiring, left, mode, won, waiting, checked,
                   timedOut, dead>>

GiveUp(p) ==
    /\ ~won[p]
    /\ mode[p] = "try"
    /\ Goto(p, "decide", "check")
    /\ timedOut' = [timedOut EXCEPT ![p] = TRUE]
    /\ UNCHANGED <<count, expiring, waiters, left, mode, won, waiting,
                   checked, dead>>

\* Mutant: timeout -1 is not told from the other timeouts.
WaitAnyway(p) ==
    /\ ~won[p]
    /\ Goto(p, "decide", "sleep")
    /\ waiters' = IF waiting[p] THEN waiters ELSE waiters + 1
    /\ waiting' = [waiting EXCEPT ![p] = TRUE]
    /\ UNCHANGED <<count, expiring, left, mode, won, checked, timedOut, dead>>

Wait(p) ==
    /\ ~won[p]
    /\ mode[p] # "try"
    /\ Goto(p, "decide", "sleep")
    /\ waiters' = IF waiting[p] THEN waiters ELSE waiters + 1
    /\ waiting' = [waiting EXCEPT ![p] = TRUE]
    /\ UNCHANGED <<count, expiring, left, mode, won, checked, timedOut,
                   dead>>

Retry(p) ==
    /\ Goto(p, "sleep", "add")
    /\ UNCHANGED <<count, expiring, waiters, left, mode, won, waiting,
                   checked, timedOut, dead>>

TimeOut(p) ==
    /\ mode[p] = "timed"
    /\ Goto(p, "sleep", "check")
    /\ timedOut' = [timedOut EXCEPT ![p] = TRUE]
    /\ StopWaiting(p)
    /\ UNCHANGED <<count, expiring, left, mode, won, waiting, checked,
                   dead>>
-----------------------------------------------------------------------------
(* The with block: CacheLock.__call__ and CacheLock.__exit__ *)

\* Mutant: cl() does not look at raise_timeout_exception.
CheckOnlyMarks(p) ==
    /\ p \notin Careless
    /\ Goto(p, "check", "body")
    /\ checked' = [checked EXCEPT ![p] = TRUE]
    /\ UNCHANGED <<count, expiring, waiters, left, mode, won, waiting, timedOut, dead>>

\* cl(): a process that timed out raises ObjectLockTimeout here, and
\* __exit__ leaves the key of the other owner alone.
Check(p) ==
    /\ p \notin Careless
    /\ Goto(p, "check", IF timedOut[p] THEN "idle" ELSE "body")
    /\ checked' = [checked EXCEPT ![p] = TRUE]
    /\ UNCHANGED <<count, expiring, waiters, left, mode, won, waiting,
                   timedOut, dead>>

SkipCheck(p) ==
    /\ p \in Careless
    /\ Goto(p, "check", "body")
    /\ UNCHANGED <<count, expiring, waiters, left, mode, won, waiting,
                   checked, timedOut, dead>>

\* Mutant: the owner does not delete.
ExitKeepsKey(p) ==
    /\ Goto(p, "body", "idle")
    /\ left' = "no"
    /\ UNCHANGED <<count, expiring, waiters, mode, won, waiting, checked, timedOut, dead>>

\* cache.delete in __exit__: also when the timeout was not checked, whoever
\* owns the key (the exception then raised is NoTimeoutCheck).
Exit(p) ==
    /\ Goto(p, "body", "idle")
    /\ "done" \in BodyEnds \/ (mode[p] # "block" /\ ~checked[p])
    /\ count' = Absent
    /\ left' = "no"
    /\ UNCHANGED <<expiring, waiters, mode, won, waiting, checked,
                   timedOut, dead>>

\* The block of the owner is left by an ObjectLockTimeout that came from
\* another lock: __exit__ takes it for its own and does not delete.
ExitLockTimeout(p) ==
    /\ "lockTimeout" \in BodyEnds
    /\ mode[p] = "block" \/ checked[p]
    /\ Goto(p, "body", "idle")
    /\ left' = "block"
    /\ UNCHANGED <<count, expiring, waiters, mode, won, waiting, checked,
                   timedOut, dead>>

-----------------------------------------------------------------------------
(* Failures *)

\* A cache call of CacheCounter.incr raises (other than the ValueError it
\* handles): __enter__ stops waiting and re-raises, __exit__ is not called.
EnterRaises(p) ==
    /\ p \in Faulty
    /\ \E at \in {"add", "incr", "touch"} : Goto(p, at, "idle")
    /\ StopWaiting(p)
    /\ left' = IF pc[p] = "touch" /\ won[p] THEN "entry" ELSE left
    /\ UNCHANGED <<count, expiring, mode, won, waiting, checked, timedOut,
                   dead>>

Crash(p) ==
    /\ p \in Mortal
    /\ Live(p)
    /\ dead' = dead \union {p}
    /\ UNCHANGED <<count, expiring, waiters, left, pc, mode, won, waiting,
                   checked, timedOut>>

\* The default timeout of cache.add passes.  It is minutes, against the
\* milliseconds between two calls of one incr.
Expire ==
    /\ count # Absent
    /\ expiring
    /\ \A p \in Procs : Live(p) => pc[p] \notin {"incr", "touch"}
    /\ count' = Absent
    /\ left' = "no"
    /\ UNCHANGED <<expiring, waiters, pc, mode, won, waiting, checked,
                   timedOut, dead>>

\* The cache is full (LocMemCache MAX_ENTRIES, maxmemory) or is cleared.
Evict ==
    /\ Evicting
    /\ count # Absent
    /\ count' = Absent
    /\ left' = "no"
    /\ UNCHANGED <<expiring, waiters, pc, mode, won, waiting,
                   checked, timedOut, dead>>

-----------------------------------------------------------------------------
Enter(p) ==
    Add(p) \/ Incr(p) \/ IncrMissing(p) \/ Touch(p)
           \/ Acquired(p) \/ GiveUp(p) \/ Wait(p) \/ Retry(p) \/ TimeOut(p)

Leave(p) == Check(p) \/ SkipCheck(p) \/ Exit(p) \/ ExitLockTimeout(p)

Next ==
    \/ \E p \in Procs :
          \/ \E m \in Modes : New(p, m)
          \/ Enter(p)
          \/ Leave(p)
          \/ EnterRaises(p)
          \/ Crash(p)
    \/ Expire
    \/ Evict

Spec == Init /\ [][Next]_vars

(***************************************************************************)
(* Processes run on: each takes its next step in __enter__, and its block  *)
(* ends.  Wall clock time passes between two polls, so whoever polls again *)
(* and again finds its timeout exceeded (SF of TimeOut).  CacheCounter.incr*)
(* retries for ever while others delete the key between its add and its    *)
(* incr: that this window of one round trip is not hit every time is an    *)
(* assumption (SF of Incr), not something the code enforces.               *)
(***************************************************************************)
Fairness ==
    \A p \in Procs :
        WF_vars(Enter(p)) /\ WF_vars(Leave(p)) /\ SF_vars(TimeOut(p)) /\ SF_vars(Incr(p))

FairSpec == Spec /\ Fairness

-----------------------------------------------------------------------------
(* Properties *)

\* A process is the owner from the incr that returned 1 to its delete.
Owns(p) == won[p] /\ pc[p] \in {"touch", "decide", "check", "body"}

Inside == {p \in Procs : pc[p] = "body"}

\* Two with blocks under the same lock never run at the same time, whatever
\* the modes, the polls in between and the processes killed: the block of a
\* killed process counts as running for ever.
MutualExclusion == \A p, q \in Inside : p = q

\* The key is positive only while somebody owns the lock or left it behind:
\* polling, retrying after a ValueError, timing out and giving up never
\* leave a lock that nobody holds.
PositiveKeyIsOwned ==
    count >= 1 => (\E p \in Procs : Owns(p)) \/ left # "no"

\* The statistics counter is the number of CacheLock objects in the waiting
\* loop, although is_waiting itself is never reset.
WaitersCounted ==
    waiters = Cardinality({p \in Procs : waiting[p] /\ pc[p] \in Polling})

\* Over timeouts, failures and kills, a counter in the cache stands for someone
\* who is there: the key for an owner, the statistics for the waiting
\* (serialization.py:62-102).
CountersAreOwned == PositiveKeyIsOwned /\ WaitersCounted

\* A lock that was left behind by a block is never entered again: an
\* interrupted critical section is not run over.
LeftLockStaysClosed == [][left = "block" => Inside' \subseteq Inside]_vars

\* A call with a timeout, -1 included, never polls for ever, even when the
\* owner was killed or left the lock behind.
TimeoutEndsWaiting ==
    \A p \in Procs :
        pc[p] \in Polling /\ mode[p] \in {"try", "timed"}
            ~> pc[p] \notin Polling \/ p \in dead

\* As long as processes poll for the lock, blocks are entered: the add, incr
\* and delete calls cannot keep everybody out together, even with callers that
\* forget cl() and a cache that evicts.  A process that was killed, or that
\* left its key behind, may.
PollersProgress ==
    (\E p \in Procs : pc[p] \in Polling)
        ~> (Inside # {} \/ (\A p \in Procs : pc[p] \notin Polling) \/ left # "no" \/ dead # {})

\* What the with blocks rely on, as an abstract specification.
Abstract == INSTANCE Mutex WITH inside <- Inside, leaked <- (left = "block")

ImplementsMutex == Abstract!Spec

\* tests/test_serialization.py:123, after the blocks of all processes ended:
\* "there is no lock anymore".
NoLockAnymore == (\A p \in Procs : pc[p] = "idle") => count <= 0

-----------------------------------------------------------------------------
(* The inductive invariant of CacheLockProofs; TLC checks it as well. *)

\* Owns, except for a process killed before it made the key persistent: its
\* key may expire.
Holds(p) == Owns(p) /\ (pc[p] = "touch" => Live(p))

OwnerInv ==
    /\ \A p \in Procs : Holds(p) => count >= 1 /\ left = "no" /\ ~timedOut[p]
    /\ \A p, q \in Procs : Holds(p) /\ Holds(q) => p = q
    /\ \A p \in Procs : Holds(p) /\ pc[p] # "touch" => ~expiring

BlockInv ==
    /\ \A p \in Procs : pc[p] = "body" => won[p]
    /\ \A p \in Procs : pc[p] = "check" /\ ~timedOut[p] => won[p]
    /\ \A p \in Procs : pc[p] \in Polling => ~timedOut[p]
    /\ \A p \in Procs : pc[p] = "sleep" => ~won[p]

LeftInv ==
    /\ left # "no" => count >= 1
    /\ left = "block" => ~expiring

LockInv == TypeOK /\ OwnerInv /\ BlockInv /\ LeftInv
=============================================================================
