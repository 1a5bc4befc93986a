---------------------------- MODULE QueueProofs ----------------------------
(***************************************************************************)
(* The queues of the cache, and the queue of names that the locks share.   *)
(*                                                                         *)
(* First, the queues are atomic, for any number of processes and any       *)
(* items: that of Redis by its commands, and the other because reading,    *)
(* changing and writing back the whole list under the lock takes effect at *)
(* once.  Nothing is used of what the operations compute, so this is true  *)
(* of every operation that keeps to the protocol.                          *)
(*                                                                         *)
(* Then the registration of names, for any threads and locks: the nesting  *)
(* of locks is bounded, the lock of the queue is the last one a thread     *)
(* takes, no name is lost, and the counters of waiters are exact.  The     *)
(* flag makes the nesting end: a thread that registers the queue's own     *)
(* lock has set its flag before.                                           *)
(***************************************************************************)
EXTENDS CacheQueues, WaitingKeys, FiniteSetTheorems, FunctionTheorems, TLAPS

-----------------------------------------------------------------------------
(* The queues are atomic *)

\* pc, op and cacheList have one entry for each process; Redis needs no lock,
\* so nobody is between a get and a set.
QueueShape ==
    /\ pc \in [Procs -> {"idle", "lock", "get", "set", "touch", "unlock"}]
    /\ DOMAIN op = Procs
    /\ DOMAIN cacheList = Procs

QueueInv ==
    /\ QueueShape
    /\ backend = "other" => CopyIsCurrent
    /\ backend = "redis" => pc \in [Procs -> {"idle", "touch"}]

LEMMA QueueInitInv == InitQueues => QueueInv
BY DEF InitQueues, InitCalls, InitOther, QueueInv, QueueShape, CopyIsCurrent

\* Only the process inside the lock writes, so a copy stays current.
LEMMA QueueNextInv == QueueInv /\ [NextQueues]_cacheQueueVars => QueueInv'
<1> SUFFICES ASSUME QueueInv, [NextQueues]_cacheQueueVars PROVE QueueInv'
  OBVIOUS
<1> USE DEF QueueInv, QueueShape, CopyIsCurrent, GoOn
<1>1. CASE UsesOther
  <2>0. backend = "other" /\ UNCHANGED backend
    BY <1>1 DEF UsesOther
  <2>1. ASSUME NEW p \in Procs, NEW o \in PushOps, CallPush(p, o) PROVE QueueInv'
    BY <2>0, <2>1 DEF CallPush
  <2>2. ASSUME NEW p \in Procs, NEW o \in PopOps, CallPop(p, o) PROVE QueueInv'
    BY <2>0, <2>2 DEF CallPop
  <2>3. ASSUME NEW p \in Procs, OtherStep(p) PROVE QueueInv'
    <3>1. CASE Lock(p)
      BY <2>0, <3>1 DEF Lock
    <3>2. CASE Get(p)
      BY <2>0, <3>2 DEF Get
    <3>3. CASE Set(p)
      BY <2>0, <3>3 DEF Set
    <3>4. CASE Touch(p)
      BY <2>0, <3>4 DEF Touch
    <3>5. CASE Unlock(p)
      BY <2>0, <3>5 DEF Unlock
    <3> QED
      BY <2>3, <3>1, <3>2, <3>3, <3>4, <3>5 DEF OtherStep
  <2> QED
    BY <1>1, <2>1, <2>2, <2>3 DEF UsesOther, OtherNext
<1>2. CASE UsesRedis
  <2>0. backend = "redis" /\ UNCHANGED <<inside, cacheList, backend>>
    BY <1>2 DEF UsesRedis
  <2>1. ASSUME NEW p \in Procs, NEW o \in PushOps \union PopOps, Command(p, o) PROVE QueueInv'
    BY <2>0, <2>1 DEF Command
  <2>2. ASSUME NEW p \in Procs, UpdateTimeout(p) PROVE QueueInv'
    BY <2>0, <2>2 DEF UpdateTimeout
  <2> QED
    BY <1>2, <2>1, <2>2 DEF UsesRedis, RedisNext
<1>3. CASE Either
  <2>0. UNCHANGED <<inside, cacheList, backend>>
    BY <1>3 DEF Either
  <2>1. ASSUME NEW p \in Procs, NEW o \in RangeOps, Lrange(p, o) PROVE QueueInv'
    BY <2>0, <2>1 DEF Lrange, Read
  <2>2. ASSUME NEW p \in Procs, Crash(p) PROVE QueueInv'
    BY <2>0, <2>2 DEF Crash
  <2>3. CASE Expire
    BY <2>0, <2>3 DEF Expire, Vanish
  <2> QED
    BY <1>3, <2>1, <2>2, <2>3 DEF Either, Common
<1>4. CASE UNCHANGED cacheQueueVars
  BY <1>4 DEF cacheQueueVars
<1> QED
  BY <1>1, <1>2, <1>3, <1>4 DEF NextQueues

\* Between its get and its set a process holds the lock and the list does not
\* change (CacheQueueOther.rpush, lpush, lpop, rpop, ltrim).
THEOREM QueueCopyIsCurrent == QueuesSpec => [](backend = "other" => CopyIsCurrent)
<1>1. QueueInv => (backend = "other" => CopyIsCurrent)
  BY DEF QueueInv
<1> QED
  BY <1>1, QueueInitInv, QueueNextInv, PTL DEF QueuesSpec

\* The queue get_cache_queue gives is the atomic CacheQueue: the operation
\* happens at the command of Redis or at the cache.set, lrange at its read, and
\* nothing else changes the list.
THEOREM QueueIsAtomic == QueuesSpec => Atomic
<1>1. InitQueues => QueueInit
  BY DEF InitQueues, InitCalls
<1>2. ASSUME QueueInv, [NextQueues]_cacheQueueVars PROVE [QueueNext]_queueVars
  <2> USE DEF queueVars
  <2>1. CASE UsesOther
    <3>1. ASSUME NEW p \in Procs, Set(p) PROVE QueueNext
      <4>1. cacheList[p] = items /\ op[p] \in PushOps \union PopOps
        BY <1>2, <2>1, <3>1 DEF UsesOther, Set, GoOn, QueueInv, CopyIsCurrent
      <4>2. Modify(p, op[p])
        BY <3>1, <4>1 DEF Set, Modify
      <4> QED
        BY <4>1, <4>2 DEF QueueNext
    <3>2. ASSUME NEW p \in Procs,
                 \/ \E o \in PushOps : CallPush(p, o)
                 \/ \E o \in PopOps : CallPop(p, o)
                 \/ Lock(p) \/ Get(p) \/ Touch(p) \/ Unlock(p)
          PROVE  UNCHANGED queueVars
      BY <3>2 DEF CallPush, CallPop, Lock, Get, Touch, Unlock
    <3> QED
      BY <2>1, <3>1, <3>2 DEF UsesOther, OtherNext, OtherStep
  <2>2. CASE UsesRedis
    <3>1. ASSUME NEW p \in Procs, NEW o \in PushOps \union PopOps, Command(p, o) PROVE QueueNext
      BY <3>1 DEF Command, QueueNext
    <3>2. ASSUME NEW p \in Procs, UpdateTimeout(p) PROVE UNCHANGED queueVars
      BY <3>2 DEF UpdateTimeout
    <3> QED
      BY <2>2, <3>1, <3>2 DEF UsesRedis, RedisNext
  <2>3. CASE Either
    <3>1. ASSUME NEW p \in Procs, NEW o \in RangeOps, Lrange(p, o) PROVE QueueNext
      BY <3>1 DEF Lrange, QueueNext
    <3>2. ASSUME NEW p \in Procs, Crash(p) PROVE UNCHANGED queueVars
      BY <3>2 DEF Crash
    <3>3. CASE Expire
      BY <3>3 DEF Expire, QueueNext
    <3> QED
      BY <2>3, <3>1, <3>2, <3>3 DEF Either, Common
  <2>4. CASE UNCHANGED cacheQueueVars
    BY <2>4 DEF cacheQueueVars
  <2> QED
    BY <1>2, <2>1, <2>2, <2>3, <2>4 DEF NextQueues
<1>3. QueueInv /\ [NextQueues]_cacheQueueVars => [QueueNext]_queueVars
  BY <1>2
<1> QED
  BY <1>1, <1>3, QueueInitInv, QueueNextInv, PTL DEF QueuesSpec, Atomic, QueueSpec

-----------------------------------------------------------------------------
(* The registration of names *)

Frames == [lock : Locks, at : Places, isWaiting : BOOLEAN, copy : Seq(Locks)]
Critical == {"body", "write", "exit"}

Listed(l) == \E i \in DOMAIN queue : queue[i] = l

\* An application's object at the bottom, objects of rpush above it; only the
\* innermost one acts.  At the third level the flag of the queue's lock is set.
StackInv(t) ==
    /\ Len(stack[t]) <= 3
    /\ \A i \in 1..Len(stack[t]) :
         /\ stack[t][i].lock = KeysLock <=> i < Len(stack[t])
         /\ i > 1 => stack[t][i].at = "enter"
    /\ Len(stack[t]) = 3 => KeysLock \in inserted /\ stack[t][1].at \notin {"set", "push"}

\* What the innermost object holds, has flagged, has read and has written.
TopInv(t) ==
    stack[t] # <<>> =>
      /\ Top(t).at = "push" => Top(t).lock \in inserted
      /\ Top(t).at = "write" => IsPush(t) /\ Top(t).copy = queue
      /\ IsPush(t) /\ Top(t).at = "exit" => Listed(PushedName(t))

Holds(t, l) == stack[t] # <<>> /\ Top(t).lock = l /\ Top(t).at \in Critical

Types ==
    /\ owner \in [Locks -> SUBSET Threads]
    /\ inserted \subseteq Locks
    /\ queue \in Seq(Locks)
    /\ stack \in [Threads -> Seq(Frames)]

WaitingInv ==
    /\ Types
    /\ \A t \in Threads : StackInv(t) /\ TopInv(t)
    /\ \A l \in Locks, t \in Threads : t \in owner[l] <=> Holds(t, l)
    /\ \A l \in Locks, t, u \in Threads : Holds(t, l) /\ Holds(u, l) => t = u
    /\ FlaggedNameIsListed

\* The frame a step leaves on top is one, and the rest of the stacks stays.
LEMMA Moved ==
  ASSUME Types, NEW t \in Threads, stack[t] # <<>>, NEW f \in Frames, Become(t, f)
  PROVE  /\ stack' \in [Threads -> Seq(Frames)]
         /\ stack'[t] # <<>> /\ Len(stack'[t]) = Len(stack[t]) /\ stack'[t][1] = f
         /\ \A i \in 2..Len(stack[t]) : stack'[t][i] = stack[t][i]
         /\ \A u \in Threads \ {t} : stack'[u] = stack[u]
<1>1. stack[t] \in Seq(Frames) /\ Len(stack[t]) \in Nat \ {0}
  BY DEF Types
<1>2. Tail(stack[t]) \in Seq(Frames) /\ Len(Tail(stack[t])) = Len(stack[t]) - 1
  BY <1>1
<1>3. stack'[t] = <<f>> \o Tail(stack[t]) /\ \A u \in Threads \ {t} : stack'[u] = stack[u]
  BY DEF Become, Types
<1>4. <<f>> \o Tail(stack[t]) \in Seq(Frames)
  BY <1>2
<1>5. stack' \in [Threads -> Seq(Frames)]
  BY <1>4 DEF Become, Types
<1>6. Len(stack'[t]) = Len(stack[t]) /\ stack'[t][1] = f
  BY <1>1, <1>2, <1>3
<1>7. ASSUME NEW i \in 2..Len(stack[t]) PROVE stack'[t][i] = stack[t][i]
  <2>1. stack'[t][i] = Tail(stack[t])[i - 1]
    BY <1>1, <1>2, <1>3
  <2> QED
    BY <1>1, <2>1
<1> QED
  BY <1>1, <1>3, <1>5, <1>6, <1>7

LEMMA TopIs ==
  ASSUME Types, NEW t \in Threads, stack[t] # <<>>
  PROVE  Top(t) = stack[t][1] /\ Top(t) \in Frames /\ Len(stack[t]) \in Nat \ {0}
<1>1. stack[t] \in Seq(Frames)
  BY DEF Types
<1> QED
  BY <1>1 DEF Top

\* A step of the innermost object keeps the stacks in shape.
LEMMA StackKept ==
  ASSUME Types, NEW t \in Threads, stack[t] # <<>>, NEW f \in Frames, Become(t, f),
         \A u \in Threads : StackInv(u),
         f.lock = Top(t).lock, inserted \subseteq inserted',
         Len(stack[t]) = 3 => f.at \notin {"set", "push"}
  PROVE  \A u \in Threads : StackInv(u)'
<1>1. ASSUME NEW u \in Threads \ {t} PROVE StackInv(u)'
  <2>1. stack'[u] = stack[u]
    BY Moved
  <2> QED
    BY <2>1 DEF StackInv
<1>2. StackInv(t)'
  <2>1. /\ stack'[t] # <<>> /\ Len(stack'[t]) = Len(stack[t]) /\ stack'[t][1] = f
        /\ \A i \in 2..Len(stack[t]) : stack'[t][i] = stack[t][i]
    BY Moved
  <2>2. stack[t][1].lock = f.lock /\ Len(stack[t]) \in Nat \ {0}
    BY TopIs
  <2>3. ASSUME NEW i \in 1..Len(stack'[t])
        PROVE  /\ stack'[t][i].lock = KeysLock <=> i < Len(stack'[t])
               /\ i > 1 => stack'[t][i].at = "enter"
    <3>1. CASE i = 1
      BY <2>1, <2>2, <3>1 DEF StackInv
    <3>2. CASE i # 1
      BY <2>1, <2>2, <3>2 DEF StackInv
    <3> QED
      BY <3>1, <3>2
  <2> QED
    BY <2>1, <2>2, <2>3 DEF StackInv
<1> QED
  BY <1>1, <1>2

\* What it may do to the flags and the queue for what the others know of them.
LEMMA TopKept ==
  ASSUME Types, NEW t \in Threads, stack[t] # <<>>, NEW f \in Frames, Become(t, f),
         \A u \in Threads : StackInv(u) /\ TopInv(u),
         inserted \subseteq inserted', \A l \in Locks : Listed(l) => Listed(l)',
         queue' = queue \/ \A u \in Threads \ {t} : ~Holds(u, KeysLock),
         f.at = "push" => f.lock \in inserted',
         f.at = "write" => IsPush(t) /\ f.copy = queue',
         IsPush(t) /\ f.at = "exit" => Listed(PushedName(t))'
  PROVE  \A u \in Threads : TopInv(u)'
<1>1. ASSUME NEW u \in Threads \ {t} PROVE TopInv(u)'
  <2>1. stack'[u] = stack[u] /\ stack[u] \in Seq(Frames)
    BY Moved DEF Types
  <2>2. CASE stack[u] = <<>>
    BY <2>1, <2>2 DEF TopInv
  <2>3. CASE stack[u] # <<>>
    <3>1. Top(u) = stack[u][1] /\ Len(stack[u]) \in Nat \ {0} /\ (Top(u))' = Top(u)
      BY <2>1, <2>3, TopIs DEF Top
    <3>2. (IsPush(u))' = IsPush(u) /\ (PushedName(u))' = PushedName(u)
      BY <2>1 DEF IsPush, PushedName
    <3>3. Top(u).at = "write" => queue' = queue
      BY <2>3, <3>1 DEF TopInv, StackInv, Holds, IsPush, Critical
    <3>4. ASSUME IsPush(u) PROVE PushedName(u) \in Locks
      <4>1. 2 \in 1..Len(stack[u])
        BY <3>1, <3>4 DEF IsPush
      <4>2. stack[u][2] \in Frames
        BY <2>1, <4>1
      <4> QED
        BY <4>2 DEF PushedName, Frames
    <3> QED
      BY <2>1, <2>3, <3>1, <3>2, <3>3, <3>4 DEF TopInv
  <2> QED
    BY <2>2, <2>3
<1>2. TopInv(t)'
  <2>1. (Top(t))' = f
    BY Moved DEF Top
  <2>2. (IsPush(t))' = IsPush(t)
    BY Moved DEF IsPush
  <2> QED
    BY <2>1, <2>2 DEF TopInv
<1> QED
  BY <1>1, <1>2

\* Who holds which lock, when the owners follow the innermost object.
LEMMA OwnerKept ==
  ASSUME WaitingInv, NEW t \in Threads, stack[t] # <<>>, stack' \in [Threads -> Seq(Frames)],
         \A u \in Threads \ {t} : stack'[u] = stack[u],
         owner' \in [Locks -> SUBSET Threads],
         \A l \in Locks : \/ owner'[l] = owner[l] /\ (Holds(t, l)' <=> Holds(t, l))
                          \/ owner'[l] = {} /\ owner[l] = {t} /\ ~Holds(t, l)'
                          \/ owner'[l] = {t} /\ owner[l] = {} /\ Holds(t, l)'
  PROVE  /\ \A l \in Locks, u \in Threads : u \in owner'[l] <=> Holds(u, l)'
         /\ \A l \in Locks, u, v \in Threads : Holds(u, l)' /\ Holds(v, l)' => u = v
<1>1. ASSUME NEW l \in Locks, NEW u \in Threads PROVE u \in owner'[l] <=> Holds(u, l)'
  <2>1. CASE u = t
    BY <1>1, <2>1 DEF WaitingInv
  <2>2. CASE u # t
    <3>1. Holds(u, l)' <=> Holds(u, l)
      BY <2>2 DEF Holds, Top
    <3> QED
      BY <1>1, <2>2, <3>1 DEF WaitingInv
  <2> QED
    BY <2>1, <2>2
<1>2. ASSUME NEW l \in Locks, NEW u \in Threads, NEW v \in Threads, Holds(u, l)', Holds(v, l)'
      PROVE  u = v
  <2>1. u \in owner'[l] /\ v \in owner'[l]
    BY <1>1, <1>2
  <2>2. ASSUME NEW x \in Threads, NEW y \in Threads, x \in owner[l], y \in owner[l] PROVE x = y
    BY <2>2 DEF WaitingInv
  <2> QED
    BY <1>2, <2>1, <2>2
<1> QED
  BY <1>1, <1>2

\* The names that are flagged, when the queue keeps those it has.
LEMMA FlagKept ==
  ASSUME Types, FlaggedNameIsListed, NEW t \in Threads, stack[t] # <<>>, NEW f \in Frames, Become(t, f),
         \A l \in Locks : Listed(l) => Listed(l)',
         inserted' = inserted \/ inserted' = inserted \union {Top(t).lock},
         inserted' # inserted => f.at = "push",
         Top(t).at # "push", f.lock = Top(t).lock
  PROVE  FlaggedNameIsListed'
<1> SUFFICES ASSUME NEW l \in inserted'
             PROVE  \/ Listed(l)'
                    \/ \E u \in Threads : \E i \in DOMAIN stack'[u] :
                          stack'[u][i].lock = l /\ (i > 1 \/ stack'[u][i].at = "push")
  BY DEF FlaggedNameIsListed, Listed
<1>1. /\ stack'[t] \in Seq(Frames) /\ stack'[t] # <<>> /\ Len(stack'[t]) = Len(stack[t]) /\ stack'[t][1] = f
      /\ \A i \in 2..Len(stack[t]) : stack'[t][i] = stack[t][i]
      /\ \A u \in Threads \ {t} : stack'[u] = stack[u]
  BY Moved
<1>2. Top(t) = stack[t][1] /\ stack[t] \in Seq(Frames) /\ Len(stack[t]) \in Nat \ {0}
  BY TopIs DEF Types
<1>3. CASE l \in inserted
  <2>1. CASE Listed(l)
    BY <1>3, <2>1 DEF Types
  <2>2. CASE \E u \in Threads : \E i \in DOMAIN stack[u] :
               stack[u][i].lock = l /\ (i > 1 \/ stack[u][i].at = "push")
    <3>0. PICK u \in Threads :
            \E i \in DOMAIN stack[u] : stack[u][i].lock = l /\ (i > 1 \/ stack[u][i].at = "push")
      BY <2>2
    <3>1. PICK i \in DOMAIN stack[u] : stack[u][i].lock = l /\ (i > 1 \/ stack[u][i].at = "push")
      BY <3>0
    <3>2. CASE u # t
      BY <1>1, <3>1, <3>2
    <3>3. CASE u = t
      <4>1. i \in 2..Len(stack[t])
        BY <1>2, <3>1, <3>3
      <4>2. i \in DOMAIN stack'[t] /\ stack'[t][i].lock = l /\ i > 1
        BY <1>1, <1>2, <3>1, <3>3, <4>1
      <4> QED
        BY <4>2
    <3> QED
      BY <3>2, <3>3
  <2> QED
    BY <1>3, <2>1, <2>2 DEF FlaggedNameIsListed, Listed
<1>4. CASE l \notin inserted
  <2>1. 1 \in DOMAIN stack'[t] /\ stack'[t][1].lock = l /\ stack'[t][1].at = "push"
    BY <1>1, <1>2, <1>4
  <2> QED
    BY <2>1
<1> QED
  BY <1>3, <1>4

\* What the innermost object of t may do when it becomes f.
Allowed(t, f) ==
    /\ f.lock = Top(t).lock /\ Top(t).at # "push"
    /\ \/ owner' = owner /\ (f.at \in Critical <=> Top(t).at \in Critical)
       \/ /\ owner[f.lock] = {} /\ owner' = [owner EXCEPT ![f.lock] = {t}]
          /\ f.at \in Critical
    /\ inserted' = inserted \/ (inserted' = inserted \union {Top(t).lock} /\ f.at = "push")
    /\ queue' \in Seq(Locks) /\ \A l \in Locks : Listed(l) => Listed(l)'
    /\ queue' = queue \/ \A u \in Threads \ {t} : ~Holds(u, KeysLock)
    /\ Len(stack[t]) = 3 => f.at \notin {"set", "push"}
    /\ f.at = "push" => f.lock \in inserted'
    /\ f.at = "write" => IsPush(t) /\ f.copy = queue'
    /\ IsPush(t) /\ f.at = "exit" => Listed(PushedName(t))'

\* A step of the innermost object that neither begins nor ends one.
LEMMA ObjectActs ==
  ASSUME WaitingInv, NEW t \in Threads, stack[t] # <<>>, NEW f \in Frames, Become(t, f), Allowed(t, f)
  PROVE  WaitingInv'
<1> USE DEF WaitingInv, Allowed
<1>1. /\ stack' \in [Threads -> Seq(Frames)] /\ stack'[t] # <<>> /\ stack'[t][1] = f
      /\ \A u \in Threads \ {t} : stack'[u] = stack[u]
  BY Moved
<1>2. Top(t) \in Frames /\ f.lock \in Locks
  BY TopIs DEF Frames
<1>3. inserted \subseteq inserted'
  OBVIOUS
<1>4. Types'
  <2>1. Types
    OBVIOUS
  <2>2. owner' = owner \/ owner' = [owner EXCEPT ![f.lock] = {t}]
    OBVIOUS
  <2>3. owner' \in [Locks -> SUBSET Threads]
    BY <1>2, <2>1, <2>2 DEF Types
  <2>4. inserted' \subseteq Locks
    BY <1>2, <2>1 DEF Types
  <2>5. queue' \in Seq(Locks)
    OBVIOUS
  <2> QED
    BY <1>1, <2>3, <2>4, <2>5 DEF Types
<1>5. \A u \in Threads : StackInv(u)'
  BY <1>3, StackKept
<1>6. \A u \in Threads : TopInv(u)'
  BY <1>3, TopKept
<1>7. (Top(t))' = f
  BY <1>1 DEF Top
<1>8. ASSUME NEW l \in Locks
      PROVE  \/ owner'[l] = owner[l] /\ (Holds(t, l)' <=> Holds(t, l))
             \/ owner'[l] = {t} /\ owner[l] = {} /\ Holds(t, l)'
  <2>1. Holds(t, l)' <=> f.lock = l /\ f.at \in Critical
    BY <1>1, <1>7 DEF Holds
  <2>2. CASE owner' = owner /\ (f.at \in Critical <=> Top(t).at \in Critical)
    BY <2>1, <2>2 DEF Holds
  <2>3. CASE owner[f.lock] = {} /\ owner' = [owner EXCEPT ![f.lock] = {t}] /\ f.at \in Critical
    <3>1. ~Holds(t, f.lock)
      BY <1>2, <2>3
    <3> QED
      BY <1>2, <1>8, <2>1, <2>3, <3>1 DEF Holds, Types
  <2> QED
    BY <2>2, <2>3
<1>9. /\ \A l \in Locks, u \in Threads : u \in owner'[l] <=> Holds(u, l)'
      /\ \A l \in Locks, u, v \in Threads : Holds(u, l)' /\ Holds(v, l)' => u = v
  BY <1>1, <1>4, <1>8, OwnerKept DEF Types
<1>10. FlaggedNameIsListed'
  BY FlagKept
<1> QED
  BY <1>4, <1>5, <1>6, <1>9, <1>10

\* The steps of an object between its calls of rpush.
LEMMA AcquireKeeps == ASSUME WaitingInv, NEW t \in Threads, Acquire(t) PROVE WaitingInv'
<1> DEFINE f == [Top(t) EXCEPT !.at = "body"]
<1>1. stack[t] # <<>> /\ Types /\ Top(t) \in Frames /\ Top(t).at = "enter"
  BY TopIs DEF Acquire, At, WaitingInv
<1>2. f \in Frames /\ f.lock = Top(t).lock /\ f.at = "body"
  BY <1>1 DEF Frames, Places
<1>3. Become(t, f) /\ inserted' = inserted /\ queue' = queue /\ owner[f.lock] = {}
      /\ owner' = [owner EXCEPT ![f.lock] = {t}]
  BY <1>2 DEF Acquire, Goto
<1>4. queue' \in Seq(Locks) /\ \A l \in Locks : Listed(l) => Listed(l)'
  BY <1>1, <1>3 DEF Types, Listed
<1> HIDE DEF f
<1>5. Allowed(t, f)
  BY <1>1, <1>2, <1>3, <1>4 DEF Allowed, Critical
<1> QED
  BY <1>1, <1>2, <1>3, <1>5, ObjectActs

LEMMA StartWaitingKeeps == ASSUME WaitingInv, NEW t \in Threads, StartWaiting(t) PROVE WaitingInv'
<1> DEFINE f == [Top(t) EXCEPT !.at = "hasKey", !.isWaiting = TRUE]
<1>1. stack[t] # <<>> /\ Types /\ Top(t) \in Frames /\ Top(t).at = "enter"
  BY TopIs DEF StartWaiting, At, WaitingInv
<1>2. f \in Frames /\ f.lock = Top(t).lock /\ f.at = "hasKey"
  BY <1>1 DEF Frames, Places
<1>3. Become(t, f) /\ inserted' = inserted /\ queue' = queue /\ owner' = owner
  BY DEF StartWaiting
<1>4. queue' \in Seq(Locks) /\ \A l \in Locks : Listed(l) => Listed(l)'
  BY <1>1, <1>3 DEF Types, Listed
<1> HIDE DEF f
<1>5. Allowed(t, f)
  BY <1>1, <1>2, <1>3, <1>4 DEF Allowed, Critical
<1> QED
  BY <1>1, <1>2, <1>3, <1>5, ObjectActs

LEMMA HasKeyKeeps == ASSUME WaitingInv, NEW t \in Threads, HasKey(t) PROVE WaitingInv'
<1> DEFINE p == IF Top(t).lock \in inserted THEN "enter" ELSE "set"
           f == [Top(t) EXCEPT !.at = p]
<1>1. stack[t] # <<>> /\ Types /\ Top(t) \in Frames /\ Top(t).at = "hasKey"
      /\ Top(t) = stack[t][1] /\ Len(stack[t]) \in Nat \ {0}
  BY TopIs DEF HasKey, At, WaitingInv
<1>2. p \in {"enter", "set"} /\ (Top(t).lock \in inserted => p = "enter")
  OBVIOUS
<1> HIDE DEF p
<1>3. f \in Frames /\ f.lock = Top(t).lock /\ f.at = p
  BY <1>1, <1>2 DEF Frames, Places
<1>4. Become(t, f) /\ inserted' = inserted /\ queue' = queue /\ owner' = owner
  BY DEF HasKey, Goto, p
<1>5. queue' \in Seq(Locks) /\ \A l \in Locks : Listed(l) => Listed(l)'
  BY <1>1, <1>4 DEF Types, Listed
<1>6. Len(stack[t]) = 3 => p = "enter"
  BY <1>1, <1>2 DEF WaitingInv, StackInv
<1> HIDE DEF f
<1>7. Allowed(t, f)
  BY <1>1, <1>2, <1>3, <1>4, <1>5, <1>6 DEF Allowed, Critical
<1> QED
  BY <1>1, <1>3, <1>4, <1>7, ObjectActs

LEMMA SetFlagKeeps == ASSUME WaitingInv, NEW t \in Threads, SetFlag(t) PROVE WaitingInv'
<1> DEFINE f == [Top(t) EXCEPT !.at = "push"]
<1>1. stack[t] # <<>> /\ Types /\ Top(t) \in Frames /\ Top(t).at = "set"
      /\ Top(t) = stack[t][1] /\ Len(stack[t]) \in Nat \ {0}
  BY TopIs DEF SetFlag, At, WaitingInv
<1>2. f \in Frames /\ f.lock = Top(t).lock /\ f.at = "push"
  BY <1>1 DEF Frames, Places
<1>3. Become(t, f) /\ inserted' = inserted \union {Top(t).lock} /\ queue' = queue /\ owner' = owner
  BY DEF SetFlag, Goto
<1>4. queue' \in Seq(Locks) /\ \A l \in Locks : Listed(l) => Listed(l)'
  BY <1>1, <1>3 DEF Types, Listed
<1>5. Len(stack[t]) # 3
  BY <1>1 DEF WaitingInv, StackInv
<1> HIDE DEF f
<1>6. Allowed(t, f)
  BY <1>1, <1>2, <1>3, <1>4, <1>5 DEF Allowed, Critical
<1> QED
  BY <1>1, <1>2, <1>3, <1>6, ObjectActs

LEMMA ReadQueueKeeps == ASSUME WaitingInv, NEW t \in Threads, ReadQueue(t) PROVE WaitingInv'
<1> DEFINE f == [Top(t) EXCEPT !.at = "write", !.copy = queue]
<1>1. stack[t] # <<>> /\ Types /\ Top(t) \in Frames /\ Top(t).at = "body" /\ IsPush(t)
  BY TopIs DEF ReadQueue, At, WaitingInv
<1>2. f \in Frames /\ f.lock = Top(t).lock /\ f.at = "write" /\ f.copy = queue
  BY <1>1 DEF Frames, Places, Types
<1>3. Become(t, f) /\ inserted' = inserted /\ queue' = queue /\ owner' = owner
  BY DEF ReadQueue
<1>4. queue' \in Seq(Locks) /\ \A l \in Locks : Listed(l) => Listed(l)'
  BY <1>1, <1>3 DEF Types, Listed
<1> HIDE DEF f
<1>5. Allowed(t, f)
  BY <1>1, <1>2, <1>3, <1>4 DEF Allowed, Critical
<1> QED
  BY <1>1, <1>2, <1>3, <1>5, ObjectActs

\* The lock of the queue keeps the copy up to date until it is written.
LEMMA WriteQueueKeeps == ASSUME WaitingInv, NEW t \in Threads, WriteQueue(t) PROVE WaitingInv'
<1> DEFINE f == [Top(t) EXCEPT !.at = "exit"]
<1>1. stack[t] # <<>> /\ Types /\ Top(t) \in Frames /\ Top(t).at = "write"
      /\ Top(t) = stack[t][1] /\ Len(stack[t]) \in Nat \ {0}
  BY TopIs DEF WriteQueue, At, WaitingInv
<1>2. f \in Frames /\ f.lock = Top(t).lock /\ f.at = "exit"
  BY <1>1 DEF Frames, Places
<1>3. Become(t, f) /\ inserted' = inserted /\ owner' = owner
      /\ queue' = Append(Top(t).copy, PushedName(t))
  BY DEF WriteQueue, Goto
<1>4. IsPush(t) /\ Top(t).copy = queue
  BY <1>1 DEF WaitingInv, TopInv
<1>5. PushedName(t) \in Locks
  <2>1. 2 \in 1..Len(stack[t]) /\ stack[t] \in Seq(Frames)
    BY <1>1, <1>4 DEF IsPush, Types
  <2>2. stack[t][2] \in Frames
    BY <2>1
  <2> QED
    BY <2>2 DEF PushedName, Frames
<1>6. queue \in Seq(Locks) /\ queue' = Append(queue, PushedName(t)) /\ queue' \in Seq(Locks)
  BY <1>1, <1>3, <1>4, <1>5 DEF Types
<1>7. \A l \in Locks : Listed(l) => Listed(l)'
  BY <1>6 DEF Listed
<1>8. Listed(PushedName(t))'
  <2>1. queue'[Len(queue) + 1] = PushedName(t) /\ Len(queue) + 1 \in DOMAIN queue'
    BY <1>5, <1>6
  <2>2. (PushedName(t))' = PushedName(t)
    <3>1. 2 \in 2..Len(stack[t])
      BY <1>1, <1>4 DEF IsPush
    <3> HIDE DEF f
    <3>2. stack'[t][2] = stack[t][2]
      BY <1>1, <1>2, <1>3, <3>1, Moved
    <3> QED
      BY <3>2 DEF PushedName
  <2> QED
    BY <2>1, <2>2 DEF Listed
<1>9. \A u \in Threads \ {t} : ~Holds(u, KeysLock)
  <2>1. Top(t).lock = KeysLock
    BY <1>1, <1>4 DEF WaitingInv, StackInv, IsPush
  <2>2. Holds(t, KeysLock)
    BY <1>1, <2>1 DEF Holds, Critical
  <2> QED
    BY <2>2 DEF WaitingInv, Locks
<1> HIDE DEF f
<1>10. Allowed(t, f)
  BY <1>1, <1>2, <1>3, <1>4, <1>5, <1>6, <1>7, <1>8, <1>9 DEF Allowed, Critical
<1> QED
  BY <1>1, <1>2, <1>3, <1>10, ObjectActs

LEMMA BodyKeeps == ASSUME WaitingInv, NEW t \in Threads, Body(t) PROVE WaitingInv'
<1> DEFINE f == [Top(t) EXCEPT !.at = "exit"]
<1>1. stack[t] # <<>> /\ Types /\ Top(t) \in Frames /\ Top(t).at = "body" /\ ~IsPush(t)
  BY TopIs DEF Body, At, WaitingInv
<1>2. f \in Frames /\ f.lock = Top(t).lock /\ f.at = "exit"
  BY <1>1 DEF Frames, Places
<1>3. Become(t, f) /\ inserted' = inserted /\ queue' = queue /\ owner' = owner
  BY DEF Body, Goto
<1>4. queue' \in Seq(Locks) /\ \A l \in Locks : Listed(l) => Listed(l)'
  BY <1>1, <1>3 DEF Types, Listed
<1> HIDE DEF f
<1>5. Allowed(t, f)
  BY <1>1, <1>2, <1>3, <1>4 DEF Allowed, Critical
<1> QED
  BY <1>1, <1>2, <1>3, <1>5, ObjectActs

\* A thread enters its with block with one object, the application's.
LEMMA CallKeeps ==
  ASSUME WaitingInv, WaitingAssumption, NEW t \in Threads, NEW l \in Names, Call(t, l)
  PROVE  WaitingInv'
<1>1. /\ Types /\ l \in Locks /\ l # KeysLock /\ Frame(l) \in Frames /\ Frame(l).at = "enter"
      /\ Frame(l).lock = l
  BY DEF WaitingInv, WaitingAssumption, Locks, Frame, Frames, Places
<1>2. /\ stack[t] = <<>> /\ UNCHANGED <<owner, inserted, queue>>
      /\ stack'[t] = <<Frame(l)>> /\ \A u \in Threads \ {t} : stack'[u] = stack[u]
      /\ stack' \in [Threads -> Seq(Frames)]
  BY <1>1 DEF Call, Types
<1>3. Types'
  BY <1>1, <1>2 DEF Types
<1>4. Len(stack'[t]) = 1 /\ stack'[t][1] = Frame(l) /\ stack'[t] # <<>> /\ (Top(t))' = Frame(l)
  BY <1>2 DEF Top
<1>5. ASSUME NEW u \in Threads PROVE StackInv(u)' /\ TopInv(u)'
  <2>1. CASE u = t
    <3>1. ASSUME NEW i \in 1..Len(stack'[t])
          PROVE  /\ stack'[t][i].lock = KeysLock <=> i < Len(stack'[t])
                 /\ i > 1 => stack'[t][i].at = "enter"
      <4>1. i = 1
        BY <1>4
      <4> QED
        BY <1>1, <1>4, <4>1
    <3>2. StackInv(t)'
      BY <1>4, <3>1 DEF StackInv
    <3>3. ~(IsPush(t))'
      BY <1>4 DEF IsPush
    <3>4. TopInv(t)'
      BY <1>1, <1>4, <3>3 DEF TopInv
    <3> QED
      BY <2>1, <3>2, <3>4
  <2>2. CASE u # t
    <3>1. StackInv(u) /\ TopInv(u) /\ stack'[u] = stack[u]
      BY <1>2, <2>2 DEF WaitingInv
    <3> QED
      BY <1>2, <3>1 DEF StackInv, TopInv, Top, IsPush, PushedName, Listed
  <2> QED
    BY <2>1, <2>2
<1>6. ASSUME NEW k \in Locks, NEW u \in Threads PROVE Holds(u, k)' <=> Holds(u, k)
  <2>1. CASE u = t
    BY <1>1, <1>2, <1>4, <2>1 DEF Holds, Critical
  <2>2. CASE u # t
    BY <1>2, <2>2 DEF Holds, Top
  <2> QED
    BY <2>1, <2>2
<1>7. FlaggedNameIsListed'
  <2> SUFFICES ASSUME NEW k \in inserted
               PROVE  \/ \E i \in DOMAIN queue : queue[i] = k
                      \/ \E u \in Threads : \E i \in DOMAIN stack'[u] :
                            stack'[u][i].lock = k /\ (i > 1 \/ stack'[u][i].at = "push")
    BY <1>2 DEF FlaggedNameIsListed
  <2>1. CASE \E u \in Threads : \E i \in DOMAIN stack[u] :
               stack[u][i].lock = k /\ (i > 1 \/ stack[u][i].at = "push")
    BY <1>2, <2>1
  <2> QED
    BY <2>1 DEF WaitingInv, FlaggedNameIsListed
<1> QED
  BY <1>2, <1>3, <1>5, <1>6, <1>7 DEF WaitingInv

\* The object that registers its name calls rpush, which enters the lock of
\* the queue.  At the third level it would not: the flag was set before.
LEMMA RpushKeeps == ASSUME WaitingInv, NEW t \in Threads, Rpush(t) PROVE WaitingInv'
<1> DEFINE g == [Top(t) EXCEPT !.at = "enter"]
<1>1. /\ Types /\ stack[t] # <<>> /\ Top(t).at = "push" /\ Top(t) = stack[t][1] /\ Top(t) \in Frames
      /\ Len(stack[t]) \in Nat \ {0} /\ stack[t] \in Seq(Frames) /\ StackInv(t) /\ TopInv(t)
  BY TopIs DEF Rpush, At, WaitingInv, Types
<1>2. /\ Frame(KeysLock) \in Frames /\ Frame(KeysLock).at = "enter" /\ Frame(KeysLock).lock = KeysLock
      /\ g \in Frames /\ g.at = "enter" /\ g.lock = Top(t).lock
  BY <1>1 DEF Frame, Frames, Places, Locks
<1>3. /\ UNCHANGED <<owner, inserted, queue>>
      /\ stack' = [stack EXCEPT ![t] = <<Frame(KeysLock), g>> \o Tail(stack[t])]
  BY <1>1 DEF Rpush, Top
<1> HIDE DEF g
<1>4. Tail(stack[t]) \in Seq(Frames) /\ Len(Tail(stack[t])) = Len(stack[t]) - 1
  BY <1>1
<1>5. <<Frame(KeysLock), g>> \o Tail(stack[t]) \in Seq(Frames)
  BY <1>2, <1>4
<1>6. /\ stack' \in [Threads -> Seq(Frames)]
      /\ stack'[t] = <<Frame(KeysLock), g>> \o Tail(stack[t])
      /\ \A u \in Threads \ {t} : stack'[u] = stack[u]
  BY <1>1, <1>3, <1>5 DEF Types
<1>7. Len(stack'[t]) = Len(stack[t]) + 1 /\ stack'[t][1] = Frame(KeysLock) /\ stack'[t][2] = g
  BY <1>1, <1>4, <1>6
<1>8. ASSUME NEW i \in 3..Len(stack'[t]) PROVE i - 1 \in 2..Len(stack[t]) /\ stack'[t][i] = stack[t][i - 1]
  <2>1. stack'[t][i] = Tail(stack[t])[i - 2] /\ i - 2 \in 1..Len(Tail(stack[t]))
    BY <1>1, <1>4, <1>6, <1>7
  <2> QED
    BY <1>1, <1>4, <1>7, <2>1
<1>9. stack'[t] # <<>> /\ (Top(t))' = Frame(KeysLock)
  BY <1>1, <1>6, <1>7 DEF Top
<1>10. Types'
  BY <1>1, <1>3, <1>6 DEF Types
<1>11. StackInv(t)'
  <2>1. Len(stack[t]) \in {1, 2}
    <3>1. Len(stack[t]) <= 3 /\ Len(stack[t]) # 3
      BY <1>1 DEF StackInv
    <3>2. Len(stack[t]) \in Nat \ {0}
      BY <1>1
    <3>3. \A n \in Nat \ {0} : n <= 3 /\ n # 3 => n \in {1, 2}
      OBVIOUS
    <3> QED
      BY <3>1, <3>2, <3>3
  <2>2. Len(stack[t]) = 2 => KeysLock \in inserted
    BY <1>1 DEF StackInv, TopInv
  <2>3. ASSUME NEW i \in 1..Len(stack'[t])
        PROVE  /\ stack'[t][i].lock = KeysLock <=> i < Len(stack'[t])
               /\ i > 1 => stack'[t][i].at = "enter"
    <3>1. CASE i = 1
      BY <1>1, <1>2, <1>7, <3>1
    <3>2. CASE i = 2
      BY <1>1, <1>2, <1>7, <3>2 DEF StackInv
    <3>3. CASE i > 2
      <4>1. i \in 3..Len(stack'[t]) /\ (i - 1 < Len(stack[t]) <=> i < Len(stack'[t]))
        BY <1>1, <1>7, <3>3
      <4>2. i - 1 \in 2..Len(stack[t]) /\ stack'[t][i] = stack[t][i - 1]
        BY <1>8, <4>1
      <4>3. i - 1 \in 1..Len(stack[t]) /\ i - 1 > 1
        BY <4>2
      <4>4. (stack[t][i - 1].lock = KeysLock <=> i - 1 < Len(stack[t])) /\ stack[t][i - 1].at = "enter"
        BY <1>1, <4>3 DEF StackInv
      <4> QED
        BY <4>1, <4>2, <4>4
    <3> QED
      BY <3>1, <3>2, <3>3
  <2> QED
    BY <1>2, <1>3, <1>7, <2>1, <2>2, <2>3 DEF StackInv
<1>12. TopInv(t)'
  BY <1>2, <1>9 DEF TopInv
<1>13. ASSUME NEW u \in Threads \ {t} PROVE StackInv(u)' /\ TopInv(u)'
  <2>1. StackInv(u) /\ TopInv(u) /\ stack'[u] = stack[u]
    BY <1>6 DEF WaitingInv
  <2> QED
    BY <1>3, <2>1 DEF StackInv, TopInv, Top, IsPush, PushedName, Listed
<1>14. ASSUME NEW k \in Locks, NEW u \in Threads PROVE Holds(u, k)' <=> Holds(u, k)
  <2>1. CASE u = t
    BY <1>1, <1>2, <1>9, <2>1 DEF Holds, Critical
  <2>2. CASE u # t
    BY <1>6, <2>2 DEF Holds, Top
  <2> QED
    BY <2>1, <2>2
<1>15. FlaggedNameIsListed'
  <2> SUFFICES ASSUME NEW k \in inserted
               PROVE  \/ \E i \in DOMAIN queue : queue[i] = k
                      \/ \E u \in Threads : \E i \in DOMAIN stack'[u] :
                            stack'[u][i].lock = k /\ (i > 1 \/ stack'[u][i].at = "push")
    BY <1>3 DEF FlaggedNameIsListed
  <2>1. ASSUME NEW u \in Threads, NEW i \in DOMAIN stack[u],
               stack[u][i].lock = k, i > 1 \/ stack[u][i].at = "push"
        PROVE  \E j \in DOMAIN stack'[u] : stack'[u][j].lock = k /\ (j > 1 \/ stack'[u][j].at = "push")
    <3>1. CASE u # t
      BY <1>6, <2>1, <3>1
    <3>2. CASE u = t /\ i = 1
      <4>1. 2 \in DOMAIN stack'[t] /\ stack'[t][2].lock = k
        BY <1>1, <1>2, <1>6, <1>7, <2>1, <3>2
      <4> QED
        BY <3>2, <4>1
    <3>3. CASE u = t /\ i # 1
      <4>1. i \in 2..Len(stack[t])
        BY <1>1, <2>1, <3>3
      <4>2. i + 1 \in 3..Len(stack'[t]) /\ (i + 1) - 1 = i
        BY <1>1, <1>7, <4>1
      <4>3. stack'[t][i + 1] = stack[t][i]
        BY <1>8, <4>2
      <4>4. i + 1 \in DOMAIN stack'[t] /\ i + 1 > 1
        BY <1>6, <4>2
      <4> QED
        BY <2>1, <3>3, <4>3, <4>4
    <3> QED
      BY <3>1, <3>2, <3>3
  <2>2. CASE \E u \in Threads : \E i \in DOMAIN stack[u] :
               stack[u][i].lock = k /\ (i > 1 \/ stack[u][i].at = "push")
    BY <2>1, <2>2
  <2> QED
    BY <2>2 DEF WaitingInv, FlaggedNameIsListed
<1> QED
  BY <1>3, <1>10, <1>11, <1>12, <1>13, <1>14, <1>15 DEF WaitingInv

\* The end of a with block: the application's object is gone, or rpush returns
\* to an object whose name is now in the queue.
LEMMA ExitKeeps == ASSUME WaitingInv, NEW t \in Threads, Exit(t) PROVE WaitingInv'
<1>1. /\ Types /\ stack[t] # <<>> /\ Top(t).at = "exit" /\ Top(t) = stack[t][1] /\ Top(t) \in Frames
      /\ Len(stack[t]) \in Nat \ {0} /\ stack[t] \in Seq(Frames) /\ StackInv(t) /\ TopInv(t)
  BY TopIs DEF Exit, At, WaitingInv, Types
<1>2. /\ UNCHANGED <<inserted, queue>> /\ owner' = [owner EXCEPT ![Top(t).lock] = {}]
      /\ stack' = [stack EXCEPT ![t] = Tail(stack[t])]
  BY DEF Exit
<1>3. Tail(stack[t]) \in Seq(Frames) /\ Len(Tail(stack[t])) = Len(stack[t]) - 1
  BY <1>1
<1>4. /\ stack' \in [Threads -> Seq(Frames)] /\ stack'[t] = Tail(stack[t])
      /\ \A u \in Threads \ {t} : stack'[u] = stack[u]
      /\ Len(stack'[t]) = Len(stack[t]) - 1
  BY <1>1, <1>2, <1>3 DEF Types
<1>5. ASSUME NEW i \in 1..Len(stack'[t])
      PROVE  i + 1 \in 2..Len(stack[t]) /\ stack'[t][i] = stack[t][i + 1]
  BY <1>1, <1>3, <1>4
<1>6. Top(t).lock \in Locks /\ owner' \in [Locks -> SUBSET Threads]
  BY <1>1, <1>2 DEF Types, Frames
<1>7. Types'
  BY <1>1, <1>2, <1>4, <1>6 DEF Types
<1>8. stack'[t] # <<>> => /\ 1 \in 1..Len(stack'[t]) /\ (Top(t))' = stack[t][2]
                          /\ stack[t][2].at = "enter" /\ IsPush(t)
  <2> SUFFICES ASSUME stack'[t] # <<>>
               PROVE  /\ 1 \in 1..Len(stack'[t]) /\ (Top(t))' = stack[t][2]
                      /\ stack[t][2].at = "enter" /\ IsPush(t)
    OBVIOUS
  <2>1. Len(stack'[t]) \in Nat \ {0} /\ stack'[t] \in Seq(Frames)
    <3>1. stack'[t] \in Seq(Frames)
      BY <1>4
    <3>2. \A q \in Seq(Frames) : q # <<>> => Len(q) \in Nat \ {0}
      OBVIOUS
    <3> QED
      BY <3>1, <3>2
  <2>2. 1 \in 1..Len(stack'[t]) /\ Len(stack[t]) > 1 /\ 2 \in 1..Len(stack[t])
    BY <1>1, <1>4, <2>1
  <2>3. stack'[t][1] = stack[t][2]
    BY <1>5, <2>2
  <2>4. stack[t][2].at = "enter"
    BY <1>1, <2>2 DEF StackInv
  <2> QED
    BY <2>1, <2>2, <2>3, <2>4 DEF Top, IsPush
<1>9. StackInv(t)'
  <2>1. ASSUME NEW i \in 1..Len(stack'[t])
        PROVE  /\ stack'[t][i].lock = KeysLock <=> i < Len(stack'[t])
               /\ i > 1 => stack'[t][i].at = "enter"
    <3>1. i + 1 \in 1..Len(stack[t]) /\ i + 1 > 1 /\ stack'[t][i] = stack[t][i + 1]
      BY <1>1, <1>5
    <3>2. stack[t][i + 1].lock = KeysLock <=> i + 1 < Len(stack[t])
      BY <1>1, <3>1 DEF StackInv
    <3>3. stack[t][i + 1].at = "enter"
      BY <1>1, <3>1 DEF StackInv
    <3> QED
      BY <1>1, <1>4, <3>1, <3>2, <3>3
  <2>2. Len(stack'[t]) <= 2
    BY <1>1, <1>4 DEF StackInv
  <2>3. Len(stack'[t]) <= 3 /\ Len(stack'[t]) # 3
    <3>1. Len(stack'[t]) \in Nat
      BY <1>1, <1>4
    <3>2. \A n \in Nat : n <= 2 => n <= 3 /\ n # 3
      OBVIOUS
    <3> QED
      BY <2>2, <3>1, <3>2
  <2> QED
    BY <2>1, <2>3 DEF StackInv
<1>10. TopInv(t)'
  BY <1>8 DEF TopInv
<1>11. ASSUME NEW u \in Threads \ {t} PROVE StackInv(u)' /\ TopInv(u)'
  <2>1. StackInv(u) /\ TopInv(u) /\ stack'[u] = stack[u]
    BY <1>4 DEF WaitingInv
  <2> QED
    BY <1>2, <2>1 DEF StackInv, TopInv, Top, IsPush, PushedName, Listed
<1>12. ASSUME NEW l \in Locks
       PROVE  \/ owner'[l] = owner[l] /\ (Holds(t, l)' <=> Holds(t, l))
              \/ owner'[l] = {} /\ owner[l] = {t} /\ ~Holds(t, l)'
  <2>1. ~Holds(t, l)'
    BY <1>8 DEF Holds, Critical
  <2>2. CASE l = Top(t).lock
    <3>1. Holds(t, l)
      BY <1>1, <2>2 DEF Holds, Critical
    <3>2. t \in owner[l] /\ \A u \in owner[l] : u \in Threads
      BY <1>1, <3>1 DEF WaitingInv, Types
    <3>3. \A u \in owner[l] : u = t
      BY <3>1, <3>2 DEF WaitingInv
    <3>4. owner[l] = {t}
      BY <3>2, <3>3
    <3> QED
      BY <1>1, <1>2, <2>1, <2>2, <3>4 DEF Types
  <2>3. CASE l # Top(t).lock
    <3>1. ~Holds(t, l)
      BY <2>3 DEF Holds
    <3>2. owner'[l] = owner[l]
      BY <1>1, <1>2, <2>3 DEF Types
    <3> QED
      BY <2>1, <3>1, <3>2
  <2> QED
    BY <2>2, <2>3
<1>13. /\ \A l \in Locks, u \in Threads : u \in owner'[l] <=> Holds(u, l)'
       /\ \A l \in Locks, u, v \in Threads : Holds(u, l)' /\ Holds(v, l)' => u = v
  BY <1>1, <1>4, <1>6, <1>12, OwnerKept
<1>14. FlaggedNameIsListed'
  <2> SUFFICES ASSUME NEW k \in inserted
               PROVE  \/ Listed(k)
                      \/ \E u \in Threads : \E i \in DOMAIN stack'[u] :
                            stack'[u][i].lock = k /\ (i > 1 \/ stack'[u][i].at = "push")
    BY <1>2 DEF FlaggedNameIsListed, Listed
  <2>1. ASSUME NEW u \in Threads, NEW i \in DOMAIN stack[u],
               stack[u][i].lock = k, i > 1 \/ stack[u][i].at = "push"
        PROVE  \/ Listed(k)
               \/ \E j \in DOMAIN stack'[u] : stack'[u][j].lock = k /\ (j > 1 \/ stack'[u][j].at = "push")
    <3>1. CASE u # t
      BY <1>4, <2>1, <3>1
    <3>2. CASE u = t /\ i = 2
      <4>1. PushedName(t) = k /\ IsPush(t)
        BY <1>1, <2>1, <3>2 DEF PushedName, IsPush
      <4> QED
        BY <1>1, <4>1 DEF TopInv
    <3>3. CASE u = t /\ i # 2
      <4>1. i \in 3..Len(stack[t])
        BY <1>1, <2>1, <3>3
      <4>2. i - 1 \in 1..Len(stack'[t]) /\ (i - 1) + 1 = i /\ i - 1 > 1
        BY <1>1, <1>4, <4>1
      <4>3. stack'[t][i - 1] = stack[t][i]
        BY <1>5, <4>2
      <4>4. i - 1 \in DOMAIN stack'[t]
        BY <1>4, <4>2
      <4> QED
        BY <2>1, <3>3, <4>2, <4>3, <4>4
    <3> QED
      BY <3>1, <3>2, <3>3
  <2>2. CASE \E u \in Threads : \E i \in DOMAIN stack[u] :
               stack[u][i].lock = k /\ (i > 1 \/ stack[u][i].at = "push")
    BY <2>1, <2>2
  <2> QED
    BY <2>2 DEF WaitingInv, FlaggedNameIsListed, Listed
<1> QED
  BY <1>7, <1>9, <1>10, <1>11, <1>13, <1>14 DEF WaitingInv

LEMMA InitWaiting == Init => WaitingInv
<1> SUFFICES ASSUME Init PROVE WaitingInv
  OBVIOUS
<1>1. Types
  BY DEF Init, Types
<1>2. \A t \in Threads : stack[t] = <<>> /\ Len(stack[t]) = 0
  BY DEF Init
<1>3. \A t \in Threads : StackInv(t) /\ TopInv(t)
  BY <1>2 DEF StackInv, TopInv
<1>4. \A l \in Locks, t \in Threads : ~Holds(t, l) /\ t \notin owner[l]
  BY <1>2 DEF Holds, Init
<1>5. FlaggedNameIsListed
  BY DEF Init, FlaggedNameIsListed
<1> QED
  BY <1>1, <1>3, <1>4, <1>5 DEF WaitingInv

LEMMA NextKeepsWaiting == WaitingInv /\ [Next]_vars => WaitingInv'
<1> SUFFICES ASSUME WaitingInv, [Next]_vars PROVE WaitingInv'
  OBVIOUS
<1>1. CASE UNCHANGED vars
  BY <1>1 DEF vars, WaitingInv, Types, StackInv, TopInv, Top, Holds, IsPush, PushedName, Listed,
              FlaggedNameIsListed
<1>2. ASSUME NEW t \in Threads, Step(t) PROVE WaitingInv'
  BY <1>2, AcquireKeeps, StartWaitingKeeps, HasKeyKeeps, SetFlagKeeps, RpushKeeps, ReadQueueKeeps,
     WriteQueueKeeps, BodyKeeps, ExitKeeps DEF Step
<1>3. ASSUME NEW t \in Threads, NEW l \in Names, Call(t, l) PROVE WaitingInv'
  BY <1>3, CallKeeps, WaitingAssumption
<1> QED
  BY <1>1, <1>2, <1>3 DEF Next

\* Shape of the stacks, exclusion, what is flagged and what is listed:
\* the inductive invariant of serialization.py:54-71.
THEOREM WaitingInvariant == Spec => []WaitingInv
  BY InitWaiting, NextKeepsWaiting, PTL DEF Spec

\* A thread that registers a wait holds or waits for at most three locks, its
\* own and twice that of the queue, whatever the others do.
THEOREM WaitingNestingIsBounded == Spec => []NestingIsBounded
<1>1. WaitingInv => NestingIsBounded
  BY DEF WaitingInv, StackInv, NestingIsBounded
<1> QED
  BY <1>1, WaitingInvariant, PTL

\* No name that was flagged is missing from CacheLockKeys once the thread that
\* flagged it is done: nobody else would append it (serialization.py:55-60).
THEOREM WaitingFlaggedNameIsListed == Spec => []FlaggedNameIsListed
<1>1. WaitingInv => FlaggedNameIsListed
  BY DEF WaitingInv
<1> QED
  BY <1>1, WaitingInvariant, PTL

\* Who holds the lock of the queue waits for nothing, so no cycle of threads
\* waits for each other through it.
THEOREM WaitingQueueOwnerNeverWaits == Spec => []QueueOwnerNeverWaits
<1>1. WaitingInv => QueueOwnerNeverWaits
  <2> SUFFICES ASSUME WaitingInv, NEW t \in owner[KeysLock]
               PROVE  Top(t).lock = KeysLock /\ Top(t).at \in {"body", "write", "exit"}
    BY DEF QueueOwnerNeverWaits
  <2>1. KeysLock \in Locks /\ t \in Threads
    BY DEF WaitingInv, Types, Locks
  <2>2. Holds(t, KeysLock)
    BY <2>1 DEF WaitingInv
  <2> QED
    BY <2>2 DEF Holds, Critical
<1> QED
  BY <1>1, WaitingInvariant, PTL

-----------------------------------------------------------------------------
\* The counters.  Every step moves at most one object into or out of a waiting
\* loop; rpush and its return shift the objects of a thread by one level.

CountInv == waiting \in [Locks -> Nat] /\ WaitingIsCounted

LEMMA WaitersFinite ==
  ASSUME WaitingAssumption, NEW l \in Locks
  PROVE  IsFiniteSet(Waiters(l)) /\ Waiters(l) \subseteq Threads \X (1..3)
<1>1. Waiters(l) \in SUBSET (Threads \X (1..3))
  BY DEF Waiters
<1>2. IsFiniteSet(1..3)
  <2>1. 1 \in Int /\ 3 \in Int
    OBVIOUS
  <2> QED
    BY <2>1, FS_Interval
<1>3. IsFiniteSet(Threads \X (1..3))
  BY <1>2, FS_Product DEF WaitingAssumption
<1> QED
  BY <1>1, <1>3, FS_Subset

\* What a waiter is, by thread and level.
LEMMA WaiterIs ==
  ASSUME NEW l \in Locks, NEW u \in Threads, NEW i \in 1..3
  PROVE  <<u, i>> \in Waiters(l) <=> i <= Len(stack[u]) /\ Waits(stack[u][i], l)
  BY DEF Waiters

\* A step of the innermost object changes at most its own membership.
LEMMA WaitersMove ==
  ASSUME Types, NEW t \in Threads, stack[t] # <<>>, NEW f \in Frames, Become(t, f), NEW l \in Locks
  PROVE  /\ <<t, 1>> \in Waiters(l) <=> Waits(Top(t), l)
         /\ <<t, 1>> \in Waiters(l)' <=> Waits(f, l)
         /\ \A w \in Threads \X (1..3) : w # <<t, 1>> => (w \in Waiters(l)' <=> w \in Waiters(l))
<1>1. /\ stack'[t] # <<>> /\ Len(stack'[t]) = Len(stack[t]) /\ stack'[t][1] = f
      /\ \A i \in 2..Len(stack[t]) : stack'[t][i] = stack[t][i]
      /\ \A u \in Threads \ {t} : stack'[u] = stack[u]
  BY Moved
<1>2. Top(t) = stack[t][1] /\ 1 <= Len(stack[t]) /\ 1 \in 1..3 /\ Len(stack[t]) \in Nat
  BY TopIs
<1>3. <<t, 1>> \in Waiters(l) <=> Waits(Top(t), l)
  BY <1>2, WaiterIs
<1>4. ASSUME NEW u \in Threads, NEW i \in 1..3
      PROVE  <<u, i>> \in Waiters(l)' <=> i <= Len(stack'[u]) /\ Waits(stack'[u][i], l)
  BY DEF Waiters, Waits
<1>5. <<t, 1>> \in Waiters(l)' <=> Waits(f, l)
  BY <1>1, <1>2, <1>4
<1>6. ASSUME NEW u \in Threads, NEW i \in 1..3, <<u, i>> # <<t, 1>>
      PROVE  <<u, i>> \in Waiters(l)' <=> <<u, i>> \in Waiters(l)
  <2>1. CASE u # t
    BY <1>1, <1>4, <2>1, WaiterIs
  <2>2. CASE u = t
    <3>1. i \in 2..3
      BY <1>6, <2>2
    <3>2. i <= Len(stack[t]) => stack'[t][i] = stack[t][i]
      BY <1>1, <1>2, <3>1
    <3> QED
      BY <1>1, <1>4, <2>2, <3>2, WaiterIs
  <2> QED
    BY <2>1, <2>2
<1>7. ASSUME NEW w \in Threads \X (1..3), w # <<t, 1>>
      PROVE  w \in Waiters(l)' <=> w \in Waiters(l)
  <2>1. PICK u \in Threads, i \in 1..3 : w = <<u, i>>
    OBVIOUS
  <2> QED
    BY <1>6, <1>7, <2>1
<1> QED
  BY <1>3, <1>5, <1>7

\* A step that moves nobody into or out of a waiting loop keeps the counters.
LEMMA CountSame ==
  ASSUME Types, NEW t \in Threads, stack[t] # <<>>, NEW f \in Frames, Become(t, f),
         CountInv, waiting' = waiting, \A l \in Locks : Waits(f, l) <=> Waits(Top(t), l)
  PROVE  CountInv'
<1>1. ASSUME NEW l \in Locks PROVE Waiters(l)' = Waiters(l)
  <2>1. \A w \in Threads \X (1..3) : w \in Waiters(l)' <=> w \in Waiters(l)
    BY WaitersMove
  <2>2. Waiters(l) \subseteq Threads \X (1..3) /\ Waiters(l)' \subseteq Threads \X (1..3)
    BY DEF Waiters
  <2> QED
    BY <2>1, <2>2
<1> QED
  BY <1>1 DEF CountInv, WaitingIsCounted

LEMMA CountStart ==
  ASSUME WaitingAssumption, WaitingInv, CountInv, NEW t \in Threads, StartWaiting(t)
  PROVE  CountInv'
<1> DEFINE f == [Top(t) EXCEPT !.at = "hasKey", !.isWaiting = TRUE]
           k == Top(t).lock
<1>1. stack[t] # <<>> /\ Types /\ Top(t) \in Frames /\ k \in Locks /\ ~Top(t).isWaiting
  BY TopIs DEF StartWaiting, At, WaitingInv, Frames
<1>2. f \in Frames /\ f.lock = k /\ f.at = "hasKey" /\ f.isWaiting
  BY <1>1 DEF Frames, Places
<1>3. Become(t, f) /\ waiting' = [waiting EXCEPT ![k] = @ + 1]
  BY DEF StartWaiting
<1> HIDE DEF f, k
<1>4. ASSUME NEW l \in Locks
      PROVE  Waiters(l)' = IF l = k THEN Waiters(l) \union {<<t, 1>>} ELSE Waiters(l)
  <2>1. ~Waits(Top(t), l) /\ (Waits(f, l) <=> l = k)
    BY <1>1, <1>2 DEF Waits
  <2>2. /\ <<t, 1>> \notin Waiters(l) /\ (<<t, 1>> \in Waiters(l)' <=> l = k)
        /\ \A w \in Threads \X (1..3) : w # <<t, 1>> => (w \in Waiters(l)' <=> w \in Waiters(l))
    BY <1>1, <1>2, <1>3, <2>1, WaitersMove
  <2>3. Waiters(l) \subseteq Threads \X (1..3) /\ Waiters(l)' \subseteq Threads \X (1..3)
    BY DEF Waiters
  <2> QED
    BY <2>2, <2>3
<1>5. <<t, 1>> \notin Waiters(k)
  <2>1. ~Waits(Top(t), k)
    BY <1>1 DEF Waits
  <2> QED
    BY <1>1, <1>2, <1>3, <2>1, WaitersMove
<1>6. Cardinality(Waiters(k) \union {<<t, 1>>}) = Cardinality(Waiters(k)) + 1
  BY <1>1, <1>5, WaitersFinite, FS_AddElement
<1>7. waiting \in [Locks -> Nat] /\ waiting' \in [Locks -> Nat]
  BY <1>1, <1>3 DEF CountInv
<1>8. ASSUME NEW l \in Locks PROVE waiting'[l] = Cardinality(Waiters(l)')
  <2>1. CASE l = k
    BY <1>3, <1>4, <1>6, <1>7, <2>1 DEF CountInv, WaitingIsCounted
  <2>2. CASE l # k
    BY <1>3, <1>4, <1>7, <2>2 DEF CountInv, WaitingIsCounted
  <2> QED
    BY <2>1, <2>2
<1> QED
  BY <1>7, <1>8 DEF CountInv, WaitingIsCounted

LEMMA CountAcquire ==
  ASSUME WaitingAssumption, WaitingInv, CountInv, NEW t \in Threads, Acquire(t)
  PROVE  CountInv'
<1> DEFINE f == [Top(t) EXCEPT !.at = "body"]
           k == Top(t).lock
<1>1. stack[t] # <<>> /\ Types /\ Top(t) \in Frames /\ k \in Locks /\ Top(t).at = "enter"
  BY TopIs DEF Acquire, At, WaitingInv, Frames
<1>2. f \in Frames /\ f.lock = k /\ f.at = "body"
  BY <1>1 DEF Frames, Places
<1>3. /\ Become(t, f)
      /\ waiting' = IF Top(t).isWaiting THEN [waiting EXCEPT ![k] = @ - 1] ELSE waiting
  BY DEF Acquire, Goto
<1> HIDE DEF f
<1>4. \A l \in Locks : ~Waits(f, l)
  BY <1>2 DEF Waits
<1>5. CASE ~Top(t).isWaiting
  <2>1. \A l \in Locks : ~Waits(Top(t), l)
    BY <1>5 DEF Waits
  <2> QED
    BY <1>1, <1>2, <1>3, <1>4, <1>5, <2>1, CountSame
<1>6. CASE Top(t).isWaiting
  <2>0. \A l \in Locks : Waits(Top(t), l) <=> l = k
    BY <1>1, <1>6 DEF Waits
  <2> HIDE DEF k
  <2>1. ASSUME NEW l \in Locks
        PROVE  Waiters(l)' = IF l = k THEN Waiters(l) \ {<<t, 1>>} ELSE Waiters(l)
    <3>1. /\ (<<t, 1>> \in Waiters(l) <=> l = k) /\ <<t, 1>> \notin Waiters(l)'
          /\ \A w \in Threads \X (1..3) : w # <<t, 1>> => (w \in Waiters(l)' <=> w \in Waiters(l))
      BY <1>1, <1>2, <1>3, <1>4, <2>0, WaitersMove
    <3>2. Waiters(l) \subseteq Threads \X (1..3) /\ Waiters(l)' \subseteq Threads \X (1..3)
      BY DEF Waiters
    <3> QED
      BY <3>1, <3>2
  <2>2. <<t, 1>> \in Waiters(k)
    BY <1>1, <1>2, <1>3, <2>0, WaitersMove
  <2>3. /\ Cardinality(Waiters(k) \ {<<t, 1>>}) = Cardinality(Waiters(k)) - 1
        /\ Cardinality(Waiters(k) \ {<<t, 1>>}) \in Nat
    BY <1>1, <2>2, WaitersFinite, FS_RemoveElement, FS_CardinalityType
  <2>4. waiting \in [Locks -> Nat] /\ waiting[k] = Cardinality(Waiters(k))
    BY <1>1 DEF CountInv, WaitingIsCounted
  <2>5. waiting' = [waiting EXCEPT ![k] = waiting[k] - 1]
    BY <1>3, <1>6
  <2>6. waiting' \in [Locks -> Nat]
    BY <1>1, <2>3, <2>4, <2>5
  <2>7. ASSUME NEW l \in Locks PROVE waiting'[l] = Cardinality(Waiters(l)')
    <3>1. CASE l = k
      BY <2>1, <2>3, <2>4, <2>5, <3>1
    <3>2. CASE l # k
      BY <2>1, <2>4, <2>5, <3>2 DEF CountInv, WaitingIsCounted
    <3> QED
      BY <3>1, <3>2
  <2> QED
    BY <2>6, <2>7 DEF CountInv, WaitingIsCounted
<1> QED
  BY <1>5, <1>6

\* Objects of t that move one level up, from A to B, stay as many.
LEMMA Shifted ==
  ASSUME NEW t \in Threads, NEW A, NEW B, A \subseteq Threads \X (1..3), B \subseteq Threads \X (1..3),
         IsFiniteSet(A), <<t, 3>> \notin A, <<t, 1>> \notin B,
         \A i \in 1..2 : <<t, i>> \in A <=> <<t, i + 1>> \in B,
         \A u \in Threads \ {t}, i \in 1..3 : <<u, i>> \in A <=> <<u, i>> \in B
  PROVE  Cardinality(B) = Cardinality(A)
<1> DEFINE up(w) == IF w[1] = t THEN <<t, w[2] + 1>> ELSE w
           g == [w \in A |-> up(w)]
<1>1. ASSUME NEW u \in Threads, NEW i \in 1..3, <<u, i>> \in A
      PROVE  up(<<u, i>>) \in B
  <2>1. CASE u = t
    <3>1. i \in 1..2
      BY <1>1, <2>1
    <3> QED
      BY <1>1, <2>1, <3>1
  <2>2. CASE u # t
    BY <1>1, <2>2
  <2> QED
    BY <2>1, <2>2
<1>2. \A w \in A : \E u \in Threads, i \in 1..3 : w = <<u, i>>
  OBVIOUS
<1>3. g \in [A -> B]
  <2>1. ASSUME NEW w \in A PROVE up(w) \in B
    <3>1. PICK u \in Threads, i \in 1..3 : w = <<u, i>>
      BY <1>2
    <3> HIDE DEF up
    <3> QED
      BY <1>1, <3>1
  <2> HIDE DEF up
  <2> QED
    BY <2>1
<1>4. \A v, w \in A : g[v] = g[w] => v = w
  <2> SUFFICES ASSUME NEW v \in A, NEW w \in A, up(v) = up(w) PROVE v = w
    OBVIOUS
  <2>1. PICK u \in Threads, i \in 1..3 : v = <<u, i>>
    OBVIOUS
  <2>2. PICK x \in Threads, j \in 1..3 : w = <<x, j>>
    OBVIOUS
  <2> QED
    BY <2>1, <2>2
<1>5. \A z \in B : \E w \in A : g[w] = z
  <2> SUFFICES ASSUME NEW z \in B PROVE \E w \in A : up(w) = z
    OBVIOUS
  <2>1. PICK u \in Threads, i \in 1..3 : z = <<u, i>>
    OBVIOUS
  <2>2. CASE u = t
    <3>1. i - 1 \in 1..2 /\ (i - 1) + 1 = i
      BY <2>1, <2>2
    <3>2. <<t, i - 1>> \in A
      BY <2>1, <2>2, <3>1
    <3> QED
      BY <2>1, <2>2, <3>1, <3>2
  <2>3. CASE u # t
    BY <2>1, <2>3
  <2> QED
    BY <2>2, <2>3
<1> HIDE DEF g
<1>6. g \in Bijection(A, B)
  BY <1>3, <1>4, <1>5, Fun_IsBij
<1>7. ExistsBijection(A, B)
  BY <1>6 DEF ExistsBijection
<1> QED
  BY <1>7, FS_Bijection

LEMMA CountRpush ==
  ASSUME WaitingAssumption, WaitingInv, CountInv, NEW t \in Threads, Rpush(t)
  PROVE  CountInv'
<1> DEFINE g == [Top(t) EXCEPT !.at = "enter"]
<1>1. /\ Types /\ stack[t] # <<>> /\ Top(t).at = "push" /\ Top(t) = stack[t][1] /\ Top(t) \in Frames
      /\ Len(stack[t]) \in Nat \ {0} /\ stack[t] \in Seq(Frames) /\ StackInv(t)
  BY TopIs DEF Rpush, At, WaitingInv, Types
<1>2. g \in Frames /\ g.at = "enter" /\ g.lock = Top(t).lock /\ g.isWaiting = Top(t).isWaiting
  BY <1>1 DEF Frames, Places
<1>3. waiting' = waiting /\ stack' = [stack EXCEPT ![t] = <<Frame(KeysLock), g>> \o Tail(stack[t])]
  BY <1>1 DEF Rpush, Top
<1> HIDE DEF g
<1>4. /\ stack'[t] = <<Frame(KeysLock), g>> \o Tail(stack[t])
      /\ \A u \in Threads \ {t} : stack'[u] = stack[u]
  BY <1>1, <1>3 DEF Types
<1>5. Tail(stack[t]) \in Seq(Frames) /\ Len(Tail(stack[t])) = Len(stack[t]) - 1
  BY <1>1
<1>6. Len(stack'[t]) = Len(stack[t]) + 1 /\ stack'[t][1] = Frame(KeysLock) /\ stack'[t][2] = g
  BY <1>1, <1>4, <1>5
<1>7. 2 <= Len(stack[t]) => stack'[t][3] = stack[t][2]
  <2> SUFFICES ASSUME 2 <= Len(stack[t]) PROVE stack'[t][3] = stack[t][2]
    OBVIOUS
  <2>1. 1 \in 1..Len(Tail(stack[t]))
    BY <1>1, <1>5
  <2>2. Tail(stack[t])[1] = stack[t][2]
    BY <1>1, <2>1
  <2>3. 3 \in 1..Len(stack'[t]) /\ stack'[t][3] = Tail(stack[t])[1]
    BY <1>1, <1>4, <1>5, <1>6, <2>1
  <2> QED
    BY <2>2, <2>3
<1>8. Len(stack[t]) # 3 /\ Len(stack[t]) <= 3
  BY <1>1 DEF StackInv
<1>9. ASSUME NEW l \in Locks PROVE Cardinality(Waiters(l)') = Cardinality(Waiters(l))
  <2>1. ASSUME NEW u \in Threads, NEW i \in 1..3
        PROVE  <<u, i>> \in Waiters(l)' <=> i <= Len(stack'[u]) /\ Waits(stack'[u][i], l)
    BY DEF Waiters, Waits
  <2>2. <<t, 3>> \notin Waiters(l)
    <3>1. ~(3 <= Len(stack[t]))
      <4>1. Len(stack[t]) \in Nat
        BY <1>1
      <4>2. \A n \in Nat : n # 3 /\ n <= 3 => ~(3 <= n)
        OBVIOUS
      <4> QED
        BY <1>8, <4>1, <4>2
    <3> QED
      BY <3>1 DEF Waiters
  <2>3. <<t, 1>> \notin Waiters(l)'
    <3>1. ~Waits(stack'[t][1], l) /\ 1 \in 1..3
      BY <1>6 DEF Waits, Frame
    <3> QED
      BY <2>1, <3>1
  <2>4. <<t, 1>> \in Waiters(l) <=> <<t, 2>> \in Waiters(l)'
    <3>1. Waits(stack[t][1], l) <=> Waits(g, l)
      BY <1>1, <1>2 DEF Waits
    <3>2. 1 <= Len(stack[t]) /\ 2 <= Len(stack'[t]) /\ 1 \in 1..3 /\ 2 \in 1..3
      BY <1>1, <1>6
    <3> QED
      BY <1>6, <2>1, <3>1, <3>2, WaiterIs
  <2>5. <<t, 2>> \in Waiters(l) <=> <<t, 3>> \in Waiters(l)'
    <3>1. 2 \in 1..3 /\ 3 \in 1..3 /\ (2 <= Len(stack[t]) <=> 3 <= Len(stack'[t]))
      BY <1>1, <1>6
    <3> QED
      BY <1>7, <2>1, <3>1, WaiterIs
  <2>6. \A i \in 1..2 : <<t, i>> \in Waiters(l) <=> <<t, i + 1>> \in Waiters(l)'
    BY <2>4, <2>5
  <2>7. \A u \in Threads \ {t}, i \in 1..3 : <<u, i>> \in Waiters(l) <=> <<u, i>> \in Waiters(l)'
    BY <1>4, <2>1, WaiterIs
  <2>8. Waiters(l)' \subseteq Threads \X (1..3)
    BY DEF Waiters
  <2> QED
    BY <2>2, <2>3, <2>6, <2>7, <2>8, WaitersFinite, Shifted
<1> QED
  BY <1>3, <1>9 DEF CountInv, WaitingIsCounted

LEMMA CountExit ==
  ASSUME WaitingAssumption, WaitingInv, CountInv, NEW t \in Threads, Exit(t)
  PROVE  CountInv'
<1>1. /\ Types /\ stack[t] # <<>> /\ Top(t).at = "exit" /\ Top(t) = stack[t][1]
      /\ Len(stack[t]) \in Nat \ {0} /\ stack[t] \in Seq(Frames) /\ Len(stack[t]) <= 3
  BY TopIs DEF Exit, At, WaitingInv, Types, StackInv
<1>2. waiting' = waiting /\ stack' = [stack EXCEPT ![t] = Tail(stack[t])]
  BY DEF Exit
<1>3. /\ stack'[t] = Tail(stack[t]) /\ Len(stack'[t]) = Len(stack[t]) - 1
      /\ \A u \in Threads \ {t} : stack'[u] = stack[u]
  BY <1>1, <1>2 DEF Types
<1>4. ASSUME NEW i \in 1..2
      PROVE  /\ i <= Len(stack'[t]) <=> i + 1 <= Len(stack[t])
             /\ i <= Len(stack'[t]) => stack'[t][i] = stack[t][i + 1]
  BY <1>1, <1>3
<1>5. ASSUME NEW l \in Locks PROVE Cardinality(Waiters(l)') = Cardinality(Waiters(l))
  <2>1. ASSUME NEW u \in Threads, NEW i \in 1..3
        PROVE  <<u, i>> \in Waiters(l)' <=> i <= Len(stack'[u]) /\ Waits(stack'[u][i], l)
    BY DEF Waiters, Waits
  <2>2. <<t, 1>> \notin Waiters(l)
    <3>1. ~Waits(stack[t][1], l)
      BY <1>1 DEF Waits
    <3> QED
      BY <3>1 DEF Waiters
  <2>3. <<t, 3>> \notin Waiters(l)'
    <3>1. ~(3 <= Len(stack'[t])) /\ 3 \in 1..3
      BY <1>1, <1>3
    <3> QED
      BY <2>1, <3>1
  <2>4. \A i \in 1..2 : <<t, i>> \in Waiters(l)' <=> <<t, i + 1>> \in Waiters(l)
    <3> SUFFICES ASSUME NEW i \in 1..2 PROVE <<t, i>> \in Waiters(l)' <=> <<t, i + 1>> \in Waiters(l)
      OBVIOUS
    <3>1. i \in 1..3 /\ i + 1 \in 1..3
      OBVIOUS
    <3> QED
      BY <1>4, <2>1, <3>1, WaiterIs
  <2>5. \A u \in Threads \ {t}, i \in 1..3 : <<u, i>> \in Waiters(l)' <=> <<u, i>> \in Waiters(l)
    BY <1>3, <2>1, WaiterIs
  <2>6. Waiters(l)' \subseteq Waiters(l) \union Waiters(l)' /\ Waiters(l)' \subseteq Threads \X (1..3)
    BY DEF Waiters
  <2>7. IsFiniteSet(Waiters(l)')
    <3>1. IsFiniteSet(Threads \X (1..3))
      <4>1. 1 \in Int /\ 3 \in Int
        OBVIOUS
      <4> QED
        BY <4>1, FS_Interval, FS_Product DEF WaitingAssumption
    <3> QED
      BY <2>6, <3>1, FS_Subset
  <2>8. Cardinality(Waiters(l)) = Cardinality(Waiters(l)')
    BY <2>2, <2>3, <2>4, <2>5, <2>6, <2>7, WaitersFinite, Shifted
  <2> QED
    BY <2>8
<1> QED
  BY <1>2, <1>5 DEF CountInv, WaitingIsCounted

LEMMA CountCall ==
  ASSUME WaitingAssumption, WaitingInv, CountInv, NEW t \in Threads, NEW k \in Names, Call(t, k)
  PROVE  CountInv'
<1>1. /\ waiting' = waiting /\ stack[t] = <<>> /\ stack'[t] = <<Frame(k)>>
      /\ \A u \in Threads \ {t} : stack'[u] = stack[u]
  BY DEF Call, WaitingInv, Types
<1>2. ASSUME NEW l \in Locks PROVE Waiters(l)' = Waiters(l)
  <2>1. ASSUME NEW u \in Threads, NEW i \in 1..3
        PROVE  <<u, i>> \in Waiters(l)' <=> <<u, i>> \in Waiters(l)
    <3>1. <<u, i>> \in Waiters(l)' <=> i <= Len(stack'[u]) /\ Waits(stack'[u][i], l)
      BY DEF Waiters, Waits
    <3>2. CASE u # t
      BY <1>1, <3>1, <3>2, WaiterIs
    <3>3. CASE u = t
      <4>1. Len(stack[t]) = 0 /\ Len(stack'[t]) = 1 /\ stack'[t][1] = Frame(k)
        BY <1>1
      <4>2. ~(i <= Len(stack[t])) /\ (i <= Len(stack'[t]) => i = 1)
        BY <4>1
      <4>3. ~Waits(Frame(k), l)
        BY DEF Waits, Frame
      <4> QED
        BY <3>1, <3>3, <4>1, <4>2, <4>3, WaiterIs
    <3> QED
      BY <3>2, <3>3
  <2>2. Waiters(l) \subseteq Threads \X (1..3) /\ Waiters(l)' \subseteq Threads \X (1..3)
    BY DEF Waiters
  <2>3. ASSUME NEW w \in Threads \X (1..3) PROVE w \in Waiters(l)' <=> w \in Waiters(l)
    <3>1. PICK u \in Threads, i \in 1..3 : w = <<u, i>>
      OBVIOUS
    <3> QED
      BY <2>1, <3>1
  <2> QED
    BY <2>2, <2>3
<1> QED
  BY <1>1, <1>2 DEF CountInv, WaitingIsCounted

\* The steps that go on without entering or leaving a waiting loop.
LEMMA CountGoto ==
  ASSUME WaitingInv, CountInv, NEW t \in Threads, stack[t] # <<>>, waiting' = waiting,
         \/ HasKey(t) \/ SetFlag(t) \/ ReadQueue(t) \/ WriteQueue(t) \/ Body(t)
  PROVE  CountInv'
<1>1. Types /\ Top(t) \in Frames
  BY TopIs DEF WaitingInv
<1>2. CASE HasKey(t) \/ SetFlag(t)
  <2> DEFINE p == IF HasKey(t) /\ Top(t).lock \in inserted THEN "enter"
                  ELSE IF HasKey(t) THEN "set" ELSE "push"
             f == [Top(t) EXCEPT !.at = p]
  <2>1. Top(t).at \in {"hasKey", "set"} /\ Become(t, f)
    BY <1>2 DEF HasKey, SetFlag, At, Goto
  <2>2. p \in {"enter", "set", "push"}
    OBVIOUS
  <2> HIDE DEF p
  <2>3. f \in Frames /\ f.at = p /\ f.lock = Top(t).lock /\ f.isWaiting = Top(t).isWaiting
    BY <1>1, <2>2 DEF Frames, Places
  <2> HIDE DEF f
  <2>4. \A l \in Locks : Waits(f, l) <=> Waits(Top(t), l)
    BY <2>1, <2>2, <2>3 DEF Waits
  <2> QED
    BY <1>1, <2>1, <2>3, <2>4, CountSame
<1>3. CASE ReadQueue(t)
  <2> DEFINE f == [Top(t) EXCEPT !.at = "write", !.copy = queue]
  <2>1. Top(t).at = "body" /\ Become(t, f)
    BY <1>3 DEF ReadQueue, At
  <2>2. f \in Frames /\ f.at = "write"
    BY <1>1 DEF Frames, Places, Types
  <2> HIDE DEF f
  <2>3. \A l \in Locks : ~Waits(f, l) /\ ~Waits(Top(t), l)
    BY <2>1, <2>2 DEF Waits
  <2> QED
    BY <1>1, <2>1, <2>2, <2>3, CountSame
<1>4. CASE WriteQueue(t) \/ Body(t)
  <2> DEFINE f == [Top(t) EXCEPT !.at = "exit"]
  <2>1. Top(t).at \in {"body", "write"} /\ Become(t, f)
    BY <1>4 DEF WriteQueue, Body, At, Goto
  <2>2. f \in Frames /\ f.at = "exit"
    BY <1>1 DEF Frames, Places
  <2> HIDE DEF f
  <2>3. \A l \in Locks : ~Waits(f, l) /\ ~Waits(Top(t), l)
    BY <2>1, <2>2 DEF Waits
  <2> QED
    BY <1>1, <2>1, <2>2, <2>3, CountSame
<1> QED
  BY <1>2, <1>3, <1>4

LEMMA NextKeepsCount ==
  ASSUME WaitingAssumption, WaitingInv, CountInv, [Next]_vars
  PROVE  CountInv'
<1>1. CASE UNCHANGED vars
  BY <1>1 DEF vars, CountInv, WaitingIsCounted, Waiters, Waits
<1>2. ASSUME NEW t \in Threads, Step(t) PROVE CountInv'
  <2>1. CASE Acquire(t) \/ StartWaiting(t)
    BY <2>1, CountAcquire, CountStart
  <2>2. CASE Rpush(t) \/ Exit(t)
    BY <2>2, CountRpush, CountExit
  <2>3. CASE HasKey(t) \/ SetFlag(t) \/ ReadQueue(t) \/ WriteQueue(t) \/ Body(t)
    <3>1. stack[t] # <<>> /\ waiting' = waiting
      BY <2>3 DEF HasKey, SetFlag, ReadQueue, WriteQueue, Body, At
    <3> QED
      BY <2>3, <3>1, CountGoto
  <2> QED
    BY <1>2, <2>1, <2>2, <2>3 DEF Step
<1>3. ASSUME NEW t \in Threads, NEW k \in Names, Call(t, k) PROVE CountInv'
  BY <1>3, CountCall
<1> QED
  BY <1>1, <1>2, <1>3 DEF Next

LEMMA InitCount == ASSUME Init PROVE CountInv
<1>1. ASSUME NEW l \in Locks PROVE Waiters(l) = {}
  <2>1. \A t \in Threads, i \in 1..3 : ~(i <= Len(stack[t]))
    BY DEF Init
  <2>2. Waiters(l) \subseteq {w \in Threads \X (1..3) : w[2] <= Len(stack[w[1]])}
    BY DEF Waiters
  <2>3. {w \in Threads \X (1..3) : w[2] <= Len(stack[w[1]])} = {}
    BY <2>1
  <2> QED
    BY <2>2, <2>3
<1> QED
  BY <1>1, FS_EmptySet DEF Init, CountInv, WaitingIsCounted

\* For any threads and locks: the nesting of the locks is bounded, the counters
\* of waiters are exact, every flagged name is listed, and the owner of the
\* queue's lock never waits (serialization.py:54-71).
THEOREM WaitingRegistrationIsRight == Spec => []RegistrationIsRight
<1>1. Init => WaitingInv /\ CountInv
  BY InitWaiting, InitCount
<1>2. WaitingInv /\ CountInv /\ [Next]_vars => (WaitingInv /\ CountInv)'
  BY NextKeepsWaiting, NextKeepsCount, WaitingAssumption
<1>3. WaitingInv /\ CountInv => WaitingIsCounted
  BY DEF CountInv
<1>4. Spec => []WaitingIsCounted
  BY <1>1, <1>2, <1>3, PTL DEF Spec
<1>5. NestingIsBounded /\ WaitingIsCounted /\ FlaggedNameIsListed /\ QueueOwnerNeverWaits
        => RegistrationIsRight
  BY DEF RegistrationIsRight
<1> QED
  BY <1>4, <1>5, WaitingNestingIsBounded, WaitingFlaggedNameIsListed, WaitingQueueOwnerNeverWaits, PTL
=============================================================================
