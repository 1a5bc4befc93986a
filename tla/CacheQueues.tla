---------------------------- MODULE CacheQueues ----------------------------
(***************************************************************************)
(* CacheQueue.get_cache_queue (caching/cache_queue/__init__.py): the queue *)
(* of Redis when the cache is one of Redis, of version 6.2 at least, else  *)
(* the other one.  The answer is the same for every process and is itself  *)
(* kept in the cache, so a key is used by queues of one kind.              *)
(***************************************************************************)
EXTENDS CacheQueueOther

VARIABLE backend    \* is_redis_cache_backend: "redis" or "other"

cacheQueueVars == <<items, ret, inside, pc, op, cacheList, dead, unused, backend>>

-----------------------------------------------------------------------------
(* CacheQueueRedis (cache_queue_redis.py): every operation is one list       *)
(* command of Redis, which Redis executes alone, and but for lrange a second *)
(* command, PERSIST or EXPIRE.  A pop without a count is that of one value;  *)
(* Redis takes the values of an LPUSH one by one, so their order is          *)
(* reversed, and gives those of an RPOP from the end.                        *)

Command(p, o) ==
    /\ GoOn(p, "idle", "touch")
    /\ Modify(p, o)
    /\ op' = [op EXCEPT ![p] = o]
    /\ UNCHANGED dead

UpdateTimeout(p) ==
    /\ GoOn(p, "touch", "idle")
    /\ op' = [op EXCEPT ![p] = NoOp]
    /\ UNCHANGED <<items, ret, dead, unused>>

RedisNext ==
    \E p \in Procs :
        \/ \E o \in PushOps : Command(p, o) /\ Unpushed(o)
        \/ \E o \in PopOps : Command(p, o) /\ UNCHANGED unused
        \/ UpdateTimeout(p)

-----------------------------------------------------------------------------
(* Either queue *)

InitQueues ==
    /\ InitCalls
    /\ InitOther
    /\ backend \in {"redis", "other"}

UsesOther == backend = "other" /\ OtherNext /\ UNCHANGED backend

UsesRedis == backend = "redis" /\ RedisNext /\ UNCHANGED <<inside, cacheList, backend>>

Either == Common /\ UNCHANGED <<inside, cacheList, backend>>

NextQueues == UsesOther \/ UsesRedis \/ Either

QueuesSpec == InitQueues /\ [][NextQueues]_cacheQueueVars

\* Everyone inside the lock goes on, as does everyone who has only the timeout
\* to set; a process that polls for the lock gets it if it is free again and
\* again.
Fairness ==
    \A p \in Procs :
        /\ WF_cacheQueueVars(backend = "other" /\ OtherStep(p) /\ UNCHANGED backend)
        /\ SF_cacheQueueVars(backend = "other" /\ Lock(p) /\ UNCHANGED backend)
        /\ WF_cacheQueueVars(backend = "redis" /\ UpdateTimeout(p) /\ UNCHANGED <<inside, cacheList, backend>>)

FairQueues == QueuesSpec /\ Fairness

-----------------------------------------------------------------------------
(* Properties *)

\* Every operation takes effect at once, whatever the cache: at its cache.set
\* (cache_queue_other.py:22-80), or at its list command
\* (cache_queue_redis.py:12-35).  Concurrent pushes and pops return what they
\* would have returned one after the other.
Atomic == QueueSpec

\* Every call returns, unless its process was killed, or one was killed
\* inside the lock (cache_queue_other.py:21-77): a process that dies outside
\* of it, or in Redis, keeps nobody else from returning.
CallsReturn ==
    \A p \in Procs : pc[p] # "idle" ~> pc[p] = "idle" \/ p \in dead \/ dead \cap inside # {}
=============================================================================
