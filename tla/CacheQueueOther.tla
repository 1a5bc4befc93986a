-------------------------- MODULE CacheQueueOther --------------------------
(***************************************************************************)
(* CacheQueueOther (caching/cache_queue/cache_queue_other.py), the queue   *)
(* of a cache without list commands: every modification reads the whole    *)
(* list, changes the copy and writes it back, under CacheLock(self.key).   *)
(* lrange reads without the lock.  The lock is the abstract Mutex that     *)
(* CacheLock implements.                                                   *)
(***************************************************************************)
EXTENDS QueueCalls

VARIABLES
    inside,     \* the processes in the with block of CacheLock(self.key)
    cacheList   \* cache_list, the local copy

InitOther ==
    /\ inside = {}
    /\ cacheList = [p \in Procs |-> <<>>]

CallPush(p, o) ==
    /\ GoOn(p, "idle", "lock")
    /\ Unpushed(o)
    /\ op' = [op EXCEPT ![p] = o]
    /\ UNCHANGED <<items, ret, inside, cacheList, dead>>

CallPop(p, o) ==
    /\ GoOn(p, "idle", "lock")
    /\ op' = [op EXCEPT ![p] = o]
    /\ UNCHANGED <<items, ret, inside, cacheList, dead, unused>>

\* Mutant: nobody waits for the lock.
LockAnyway(p) ==
    /\ GoOn(p, "lock", "get")
    /\ inside' = inside \union {p}
    /\ UNCHANGED <<items, ret, op, cacheList, dead, unused>>

Lock(p) ==
    /\ GoOn(p, "lock", "get")
    /\ inside = {}
    /\ inside' = {p}
    /\ UNCHANGED <<items, ret, op, cacheList, dead, unused>>

Get(p) ==
    /\ GoOn(p, "get", "set")
    /\ cacheList' = [cacheList EXCEPT ![p] = items]
    /\ UNCHANGED <<items, ret, inside, op, dead, unused>>

Set(p) ==
    /\ GoOn(p, "set", "touch")
    /\ items' = Rest(op[p], cacheList[p])
    /\ ret' = [ret EXCEPT ![p] = Taken(op[p], cacheList[p])]
    /\ UNCHANGED <<inside, op, cacheList, dead, unused>>

\* Mutant: the write is repeated instead.
TouchRewrites(p) ==
    /\ GoOn(p, "touch", "set")
    /\ UNCHANGED <<items, ret, inside, op, cacheList, dead, unused>>

\* update_timeout: the list is as it was, its key lives longer.
Touch(p) ==
    /\ GoOn(p, "touch", "unlock")
    /\ UNCHANGED <<items, ret, inside, op, cacheList, dead, unused>>

\* The call returns and its locals are gone.
Unlock(p) ==
    /\ GoOn(p, "unlock", "idle")
    /\ inside' = inside \ {p}
    /\ op' = [op EXCEPT ![p] = NoOp]
    /\ cacheList' = [cacheList EXCEPT ![p] = <<>>]
    /\ UNCHANGED <<items, ret, dead, unused>>

OtherStep(p) == Lock(p) \/ Get(p) \/ Set(p) \/ Touch(p) \/ Unlock(p)

OtherNext ==
    \E p \in Procs :
        \/ \E o \in PushOps : CallPush(p, o)
        \/ \E o \in PopOps : CallPop(p, o)
        \/ OtherStep(p)

-----------------------------------------------------------------------------
(* The inductive invariant of QueueProofs *)

\* Who is between the lock and the unlock holds the lock, alone, and the copy
\* it is about to write back is the current list.
CopyIsCurrent ==
    /\ \A p, q \in inside : p = q
    /\ \A p \in Procs : pc[p] \in {"get", "set", "touch", "unlock"} => p \in inside
    /\ \A p \in Procs : pc[p] = "set" => cacheList[p] = items
    /\ \A p \in Procs : pc[p] # "idle" => op[p] \in PushOps \union PopOps
=============================================================================
