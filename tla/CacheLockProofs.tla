-------------------------- MODULE CacheLockProofs --------------------------
(***************************************************************************)
(* Mutual exclusion of CacheLock, for any number of processes, any mix of  *)
(* modes, crashes and failing cache calls.  Two assumptions say where the  *)
(* lock can be trusted: every process calls cl() as CacheLock.__init__     *)
(* documents, and the cache does not drop a key that has no timeout.  What *)
(* is said of the counters needs neither.                                  *)
(***************************************************************************)
EXTENDS CacheLock, FiniteSetTheorems, TLAPS

Disciplined == Careless = {} /\ Evicting = FALSE

\* The initial state satisfies the inductive invariant.
LEMMA InitLockInv == Init => LockInv
<1> SUFFICES ASSUME Init PROVE LockInv
  OBVIOUS
<1>1. count \in Absent..MaxCount
  BY CacheLockAssumption DEF Init, Absent
<1>2. /\ pc \in [Procs -> {"idle", "check", "body"} \union Polling]
      /\ mode \in [Procs -> AllModes]
  BY DEF Init, AllModes
<1>3. /\ won \in [Procs -> BOOLEAN]
      /\ waiting \in [Procs -> BOOLEAN]
      /\ checked \in [Procs -> BOOLEAN]
      /\ timedOut \in [Procs -> BOOLEAN]
  BY DEF Init
<1>4. /\ waiters \in Int
      /\ left \in {"no", "entry", "block"}
      /\ dead \subseteq Procs
  BY DEF Init
<1>5. expiring \in BOOLEAN
  BY DEF Init
<1>6. TypeOK
  BY <1>1, <1>2, <1>3, <1>4, <1>5 DEF TypeOK
<1>7. OwnerInv /\ BlockInv /\ LeftInv
  BY DEF Init, Absent, OwnerInv, BlockInv, LeftInv, Holds, Owns, Polling
<1> QED
  BY <1>6, <1>7 DEF LockInv

\* Every action keeps the types.
LEMMA NextTypeOK == TypeOK /\ [Next]_vars => TypeOK'
<1> SUFFICES ASSUME TypeOK, [Next]_vars PROVE TypeOK'
  OBVIOUS
<1> USE CacheLockAssumption DEF TypeOK, Absent, Polling, AllModes
<1>1. ASSUME NEW p \in Procs, NEW m \in Modes, New(p, m) PROVE TypeOK'
  BY <1>1 DEF New, Goto
<1>2. ASSUME NEW p \in Procs, Enter(p) PROVE TypeOK'
  <2>1. CASE Add(p)
    <3>1. count' \in Absent..MaxCount
      BY <2>1 DEF Add
    <3>2. expiring' \in BOOLEAN
      BY <2>1, Zenon DEF Add
    <3> QED
      BY <2>1, <3>1, <3>2 DEF Add, Goto
  <2>2. CASE Incr(p)
    BY <2>2 DEF Incr, Goto
  <2>3. CASE IncrMissing(p)
    BY <2>3 DEF IncrMissing, Goto
  <2>4. CASE Touch(p)
    BY <2>4 DEF Touch, Goto
  <2>5. CASE Acquired(p)
    BY <2>5 DEF Acquired, Goto, BlockStart, StopWaiting
  <2>6. CASE GiveUp(p)
    BY <2>6 DEF GiveUp, Goto
  <2>7. CASE Wait(p)
    BY <2>7 DEF Wait, Goto
  <2>8. CASE Retry(p)
    BY <2>8 DEF Retry, Goto
  <2>9. CASE TimeOut(p)
    BY <2>9 DEF TimeOut, Goto, StopWaiting
  <2> QED
    BY <1>2, <2>1, <2>2, <2>3, <2>4, <2>5, <2>6, <2>7, <2>8, <2>9 DEF Enter
<1>3. ASSUME NEW p \in Procs, Leave(p) PROVE TypeOK'
  <2>1. CASE Check(p)
    BY <2>1 DEF Check, Goto
  <2>2. CASE SkipCheck(p)
    BY <2>2 DEF SkipCheck, Goto
  <2>3. CASE Exit(p)
    BY <2>3 DEF Exit, Goto
  <2>4. CASE ExitLockTimeout(p)
    BY <2>4 DEF ExitLockTimeout, Goto
  <2> QED
    BY <1>3, <2>1, <2>2, <2>3, <2>4 DEF Leave
<1>4. ASSUME NEW p \in Procs, EnterRaises(p) PROVE TypeOK'
  BY <1>4 DEF EnterRaises, Goto, StopWaiting
<1>5. ASSUME NEW p \in Procs, Crash(p) PROVE TypeOK'
  BY <1>5 DEF Crash
<1>6. CASE Expire
  BY <1>6 DEF Expire
<1>7. CASE Evict
  BY <1>7 DEF Evict
<1>8. CASE UNCHANGED vars
  BY <1>8 DEF vars
<1> QED
  BY <1>1, <1>2, <1>3, <1>4, <1>5, <1>6, <1>7, <1>8 DEF Next

\* Every action keeps who owns the key, who may be in a block, and what is
\* known of a key left behind.
LEMMA NextLockInv ==
  ASSUME Disciplined, LockInv, [Next]_vars
  PROVE  LockInv'
<1>t. TypeOK'
  BY NextTypeOK DEF LockInv
<1> SUFFICES (OwnerInv /\ BlockInv /\ LeftInv)'
  BY <1>t DEF LockInv
<1> USE CacheLockAssumption
    DEF Disciplined, LockInv, TypeOK, OwnerInv, BlockInv, LeftInv, Holds, Owns, Live, Polling, Absent
<1>1. ASSUME NEW p \in Procs, NEW m \in Modes, New(p, m)
      PROVE (OwnerInv /\ BlockInv /\ LeftInv)'
  BY <1>1 DEF New, Goto
<1>2. ASSUME NEW p \in Procs, Enter(p)
      PROVE (OwnerInv /\ BlockInv /\ LeftInv)'
  <2>1. CASE Add(p)
    BY <2>1 DEF Add, Goto
  <2>2. CASE Incr(p)
    BY <2>2 DEF Incr, Goto
  <2>3. CASE IncrMissing(p)
    BY <2>3 DEF IncrMissing, Goto
  <2>4. CASE Touch(p)
    BY <2>4 DEF Touch, Goto
  <2>5. CASE Acquired(p)
    BY <2>5 DEF Acquired, Goto, BlockStart
  <2>6. CASE GiveUp(p)
    BY <2>6 DEF GiveUp, Goto
  <2>7. CASE Wait(p)
    BY <2>7 DEF Wait, Goto
  <2>8. CASE Retry(p)
    BY <2>8 DEF Retry, Goto
  <2>9. CASE TimeOut(p)
    BY <2>9 DEF TimeOut, Goto
  <2> QED
    BY <1>2, <2>1, <2>2, <2>3, <2>4, <2>5, <2>6, <2>7, <2>8, <2>9 DEF Enter
<1>3. ASSUME NEW p \in Procs, Leave(p)
      PROVE (OwnerInv /\ BlockInv /\ LeftInv)'
  <2>1. CASE Check(p)
    BY <2>1 DEF Check, Goto
  <2>2. CASE SkipCheck(p)
    BY <2>2 DEF SkipCheck
  <2>3. CASE Exit(p)
    BY <2>3 DEF Exit, Goto
  <2>4. CASE ExitLockTimeout(p)
    BY <2>4 DEF ExitLockTimeout, Goto
  <2> QED
    BY <1>3, <2>1, <2>2, <2>3, <2>4 DEF Leave
<1>4. ASSUME NEW p \in Procs, EnterRaises(p)
      PROVE (OwnerInv /\ BlockInv /\ LeftInv)'
  BY <1>4 DEF EnterRaises, Goto
<1>5. ASSUME NEW p \in Procs, Crash(p)
      PROVE (OwnerInv /\ BlockInv /\ LeftInv)'
  BY <1>5 DEF Crash
<1>6. CASE Expire
  BY <1>6 DEF Expire
<1>7. CASE Evict
  BY <1>7 DEF Evict
<1>8. CASE UNCHANGED vars
  BY <1>8 DEF vars
<1> QED
  BY <1>1, <1>2, <1>3, <1>4, <1>5, <1>6, <1>7, <1>8 DEF Next

\* The inductive invariant holds of every reachable state.
THEOREM LockInvariant == ASSUME Disciplined PROVE Spec => []LockInv
<1>1. LockInv /\ [Next]_vars => LockInv'
  BY NextLockInv
<1> QED
  BY <1>1, InitLockInv, PTL DEF Spec

-----------------------------------------------------------------------------
\* Two with blocks of one lock never run at the same time (CacheLock.__enter__
\* and __exit__), for every set of processes.
THEOREM LockMutualExclusion == ASSUME Disciplined PROVE Spec => []MutualExclusion
<1>1. LockInv => MutualExclusion
  BY DEF LockInv, OwnerInv, BlockInv, MutualExclusion, Inside, Holds, Owns
<1> QED
  BY <1>1, LockInvariant, PTL

-----------------------------------------------------------------------------
(* The counters, whatever the callers forget and the cache evicts *)

\* An owner never timed out.
InTime ==
    /\ \A p \in Procs : pc[p] \in Polling \/ Owns(p) => ~timedOut[p]
    /\ \A p \in Procs : pc[p] = "sleep" => ~won[p]

Waiters == {p \in Procs : waiting[p] /\ pc[p] \in Polling}

\* A call with timeout -1 never waits, and the waiting are finitely many.
WaitersInv ==
    /\ \A p \in Procs : mode[p] = "try" /\ pc[p] \in Polling => ~waiting[p]
    /\ IsFiniteSet(Waiters)
    /\ waiters = Cardinality(Waiters)

CountersInv == TypeOK /\ InTime /\ PositiveKeyIsOwned /\ WaitersInv

LEMMA NextInTime ==
  ASSUME TypeOK, InTime, [Next]_vars PROVE InTime'
<1> USE DEF TypeOK, InTime, Owns, Polling
<1>1. ASSUME NEW p \in Procs, NEW m \in Modes, New(p, m) PROVE InTime'
  BY <1>1 DEF New, Goto
<1>2. ASSUME NEW p \in Procs, Add(p) \/ Incr(p) \/ IncrMissing(p) \/ Touch(p) PROVE InTime'
  BY <1>2 DEF Add, Incr, IncrMissing, Touch, Goto
<1>3. ASSUME NEW p \in Procs, Acquired(p) \/ GiveUp(p) \/ Wait(p) \/ Retry(p) \/ TimeOut(p) PROVE InTime'
  BY <1>3 DEF Acquired, GiveUp, Wait, Retry, TimeOut, Goto, BlockStart
<1>4. ASSUME NEW p \in Procs, Leave(p) \/ EnterRaises(p) \/ Crash(p) PROVE InTime'
  BY <1>4 DEF Leave, Check, SkipCheck, Exit, ExitLockTimeout, EnterRaises, Crash, Goto
<1>5. CASE Expire \/ Evict \/ UNCHANGED vars
  BY <1>5 DEF Expire, Evict, vars
<1> QED
  BY <1>1, <1>2, <1>3, <1>4, <1>5 DEF Next, Enter

LEMMA NextPositiveKeyIsOwned ==
  ASSUME TypeOK, InTime, PositiveKeyIsOwned, [Next]_vars PROVE PositiveKeyIsOwned'
<1> USE CacheLockAssumption DEF PositiveKeyIsOwned, Owns, Absent, TypeOK, Polling
<1>1. ASSUME NEW p \in Procs, NEW m \in Modes, New(p, m) PROVE PositiveKeyIsOwned'
  BY <1>1 DEF New, Goto
<1>2. ASSUME NEW p \in Procs, Enter(p) PROVE PositiveKeyIsOwned'
  <2>1. CASE Add(p)
    BY <2>1 DEF Add, Goto
  <2>2. CASE Incr(p)
    <3>1. CASE count = 0
      <4>1. Owns(p)'
        BY <2>2, <3>1 DEF Incr, Goto
      <4> QED
        BY <4>1
    <3>2. CASE count # 0
      <4>1. count >= 1 /\ left' = left
        BY <2>2, <3>2 DEF Incr
      <4>2. ASSUME NEW q \in Procs, Owns(q) PROVE Owns(q)'
        BY <2>2, <4>2 DEF Incr, Goto
      <4> QED
        BY <4>1, <4>2
    <3> QED
      BY <3>1, <3>2
  <2>3. CASE Acquired(p)
    <3>1. Owns(p)'
      BY <2>3 DEF Acquired, Goto, BlockStart
    <3> QED
      BY <3>1
  <2>4. CASE IncrMissing(p) \/ Touch(p) \/ GiveUp(p) \/ Wait(p) \/ Retry(p) \/ TimeOut(p)
    BY <2>4 DEF IncrMissing, Touch, GiveUp, Wait, Retry, TimeOut, Goto
  <2> QED
    BY <1>2, <2>1, <2>2, <2>3, <2>4 DEF Enter
<1>3. ASSUME NEW p \in Procs, Leave(p) PROVE PositiveKeyIsOwned'
  <2>1. CASE Check(p)
    <3>1. ASSUME NEW q \in Procs, Owns(q) PROVE Owns(q)'
      BY <2>1, <3>1 DEF Check, Goto, InTime
    <3> QED
      BY <2>1, <3>1 DEF Check
  <2>2. CASE SkipCheck(p)
    BY <2>2 DEF SkipCheck, Goto
  <2>3. CASE Exit(p) \/ ExitLockTimeout(p)
    BY <2>3 DEF Exit, ExitLockTimeout
  <2> QED
    BY <1>3, <2>1, <2>2, <2>3 DEF Leave
<1>4. ASSUME NEW p \in Procs, EnterRaises(p) \/ Crash(p) PROVE PositiveKeyIsOwned'
  BY <1>4 DEF EnterRaises, Crash, Goto
<1>5. CASE Expire \/ Evict \/ UNCHANGED vars
  BY <1>5 DEF Expire, Evict, vars
<1> QED
  BY <1>1, <1>2, <1>3, <1>4, <1>5 DEF Next

\* One more waits, or one less.
LEMMA WaitersMove ==
  ASSUME WaitersInv, NEW p \in Procs
  PROVE  /\ IsFiniteSet(Waiters \union {p}) /\ IsFiniteSet(Waiters \ {p})
         /\ Cardinality(Waiters \union {p}) = IF p \in Waiters THEN waiters ELSE waiters + 1
         /\ Cardinality(Waiters \ {p}) = IF p \in Waiters THEN waiters - 1 ELSE waiters
BY FS_AddElement, FS_RemoveElement DEF WaitersInv

LEMMA NextWaiters ==
  ASSUME TypeOK, InTime, WaitersInv, [Next]_vars PROVE WaitersInv'
<1>t. \A q \in Procs : pc[q] # "idle" => pc[q] \in {"check", "body"} \union Polling
  BY DEF TypeOK
<1>k. ASSUME Waiters' = Waiters, UNCHANGED waiters,
             \A q \in Procs : mode'[q] = "try" /\ pc'[q] \in Polling => ~waiting'[q]
      PROVE  WaitersInv'
  BY <1>k DEF WaitersInv
<1>1. ASSUME NEW p \in Procs, NEW m \in Modes, New(p, m) PROVE WaitersInv'
  BY <1>1, <1>k DEF New, Goto, TypeOK, WaitersInv, Waiters, Polling
<1>2. ASSUME NEW p \in Procs, Add(p) \/ Incr(p) \/ IncrMissing(p) \/ Touch(p) \/ Retry(p) PROVE WaitersInv'
  BY <1>2, <1>k DEF Add, Incr, IncrMissing, Touch, Retry, Goto, TypeOK, WaitersInv, Waiters, Polling
<1>3. ASSUME NEW p \in Procs, Acquired(p) \/ TimeOut(p) \/ EnterRaises(p) PROVE WaitersInv'
  <2>1. /\ pc[p] \in Polling /\ pc'[p] \notin Polling /\ \A q \in Procs \ {p} : pc'[q] = pc[q]
        /\ UNCHANGED <<mode, waiting>> /\ StopWaiting(p)
    BY <1>3 DEF Acquired, TimeOut, EnterRaises, Goto, BlockStart, TypeOK, Polling
  <2>2. Waiters' = Waiters \ {p} /\ waiters' = IF p \in Waiters THEN waiters - 1 ELSE waiters
    BY <2>1 DEF Waiters, StopWaiting
  <2>3. \A q \in Procs : mode'[q] = "try" /\ pc'[q] \in Polling => ~waiting'[q]
    BY <2>1 DEF WaitersInv
  <2> QED
    BY <2>2, <2>3, WaitersMove DEF WaitersInv
<1>4. ASSUME NEW p \in Procs, GiveUp(p) PROVE WaitersInv'
  <2>1. p \notin Waiters
    BY <1>4 DEF GiveUp, Goto, WaitersInv, Waiters, Polling
  <2> QED
    BY <1>4, <1>k, <2>1 DEF GiveUp, Goto, TypeOK, WaitersInv, Waiters, Polling
<1>5. ASSUME NEW p \in Procs, Wait(p) PROVE WaitersInv'
  <2>1. /\ pc[p] \in Polling /\ pc'[p] \in Polling /\ waiting'[p] /\ mode[p] # "try" /\ UNCHANGED mode
        /\ \A q \in Procs \ {p} : pc'[q] = pc[q] /\ waiting'[q] = waiting[q]
        /\ waiters' = IF waiting[p] THEN waiters ELSE waiters + 1
    BY <1>5 DEF Wait, Goto, TypeOK, Polling
  <2>2. Waiters' = Waiters \union {p} /\ waiters' = IF p \in Waiters THEN waiters ELSE waiters + 1
    BY <2>1 DEF Waiters
  <2>3. \A q \in Procs : mode'[q] = "try" /\ pc'[q] \in Polling => ~waiting'[q]
    BY <2>1 DEF WaitersInv
  <2> QED
    BY <2>2, <2>3, WaitersMove DEF WaitersInv
<1>6. ASSUME NEW p \in Procs, Leave(p) PROVE WaitersInv'
  BY <1>6, <1>k DEF Leave, Check, SkipCheck, Exit, ExitLockTimeout, Goto, TypeOK, WaitersInv, Waiters, Polling
<1>7. CASE (\E p \in Procs : Crash(p)) \/ Expire \/ Evict \/ UNCHANGED vars
  BY <1>7, <1>k DEF Crash, Expire, Evict, vars, WaitersInv, Waiters
<1> QED
  BY <1>1, <1>2, <1>3, <1>4, <1>5, <1>6, <1>7 DEF Next, Enter

\* Over polls, retries, time-outs, failures and kills, a positive key belongs
\* to an owner or was left by one who went away with it, and the statistics
\* count who waits (serialization.py:62-102): also when callers forget cl()
\* and the cache evicts, so that the lock itself cannot be trusted.
THEOREM LockCountersAreOwned == Spec => []CountersAreOwned
<1>1. Init => CountersInv
  <2> SUFFICES ASSUME Init PROVE CountersInv
    OBVIOUS
  <2>1. TypeOK
    BY InitLockInv DEF LockInv
  <2>2. Waiters = {}
    BY DEF Init, Waiters
  <2>3. WaitersInv
    BY <2>2, FS_EmptySet DEF Init, WaitersInv
  <2> QED
    BY <2>1, <2>3 DEF Init, CountersInv, InTime, Owns, PositiveKeyIsOwned, Absent
<1>2. CountersInv /\ [Next]_vars => CountersInv'
  BY NextTypeOK, NextInTime, NextPositiveKeyIsOwned, NextWaiters DEF CountersInv
<1>3. CountersInv => CountersAreOwned
  BY DEF CountersInv, CountersAreOwned, WaitersInv, Waiters, WaitersCounted
<1> QED
  BY <1>1, <1>2, <1>3, PTL DEF Spec

-----------------------------------------------------------------------------
\* Entering a block goes through Acquired or Check and needs the key.
LEMMA OnlyOwnerEnters ==
  ASSUME Disciplined, LockInv, [Next]_vars, NEW p \in Procs,
         pc[p] # "body", pc'[p] = "body"
  PROVE  Holds(p)
<1> USE DEF Holds, Owns, LockInv, TypeOK, BlockInv, Disciplined, Live, Polling
<1>1. ASSUME NEW q \in Procs, Acquired(q) PROVE Holds(p)
  BY <1>1 DEF Acquired, Goto, BlockStart
<1>2. ASSUME NEW q \in Procs, Check(q) PROVE Holds(p)
  BY <1>2 DEF Check, Goto
<1>3. ASSUME NEW q \in Procs, SkipCheck(q) PROVE FALSE
  BY <1>3 DEF SkipCheck
<1>4. ASSUME NEW q \in Procs,
             \/ \E m \in Modes : New(q, m)
             \/ Add(q) \/ Incr(q) \/ IncrMissing(q) \/ Touch(q)
             \/ GiveUp(q) \/ Wait(q) \/ Retry(q) \/ TimeOut(q)
             \/ Exit(q) \/ ExitLockTimeout(q) \/ EnterRaises(q)
      PROVE  FALSE
  BY <1>4 DEF New, Add, Incr, IncrMissing, Touch, GiveUp, Wait, Retry, TimeOut,
              Exit, ExitLockTimeout, EnterRaises, Goto
<1>5. ASSUME \/ \E q \in Procs : Crash(q)
             \/ Expire \/ Evict \/ UNCHANGED vars
      PROVE  FALSE
  BY <1>5 DEF Crash, Expire, Evict, vars
<1> QED
  BY <1>1, <1>2, <1>3, <1>4, <1>5 DEF Next, Enter, Leave

\* A lock left behind by a block that ended in an ObjectLockTimeout is not
\* entered again, so the interrupted block is not run over.
THEOREM LockLeftStaysClosed == ASSUME Disciplined PROVE Spec => LeftLockStaysClosed
<1>1. ASSUME LockInv, [Next]_vars
      PROVE  [left = "block" => Inside' \subseteq Inside]_vars
  <2> SUFFICES ASSUME left = "block", NEW p \in Procs, pc'[p] = "body", pc[p] # "body"
               PROVE  FALSE
    BY DEF Inside
  <2>1. Holds(p)
    BY <1>1, OnlyOwnerEnters
  <2> QED
    BY <1>1, <2>1 DEF LockInv, OwnerInv
<1>2. LockInv /\ [Next]_vars => [left = "block" => Inside' \subseteq Inside]_vars
  BY <1>1
<1> QED
  BY <1>2, LockInvariant, PTL DEF Spec, LeftLockStaysClosed

-----------------------------------------------------------------------------
\* CacheLock implements the abstract mutex: each step of the counter protocol
\* enters a block, leaves it, leaks the lock, or is invisible to the blocks.
THEOREM LockImplementsMutex == ASSUME Disciplined PROVE Spec => ImplementsMutex
<1>1. Init => Abstract!Init
  BY DEF Init, Abstract!Init, Inside
<1>2. ASSUME LockInv, [Next]_vars
      PROVE  [Abstract!Next]_(Abstract!vars)
  <2> USE <1>2 DEF LockInv, OwnerInv, BlockInv, LeftInv, TypeOK, Holds, Owns, Inside,
                   Abstract!vars
  <2>1. ASSUME NEW p \in Procs, pc' = [pc EXCEPT ![p] = "body"], pc[p] # "body",
               Holds(p), left' = left
        PROVE  Abstract!Next
    <3>1. Inside = {} /\ Inside' = {p} /\ left = "no"
      BY <2>1
    <3> QED
      BY <2>1, <3>1 DEF Abstract!Next, Abstract!Enter
  <2>2. ASSUME NEW p \in Procs, pc' = [pc EXCEPT ![p] = "idle"], pc[p] = "body",
               left' = "no" \/ left' = "block"
        PROVE  Abstract!Next
    <3>1. Inside' = Inside \ {p} /\ p \in Inside /\ left = "no"
      BY <2>2
    <3>2. CASE left' = "no"
      BY <3>1, <3>2 DEF Abstract!Next, Abstract!Leave
    <3>3. CASE left' = "block"
      BY <3>1, <3>3 DEF Abstract!Next, Abstract!Leak
    <3> QED
      BY <2>2, <3>2, <3>3
  <2>3. ASSUME NEW p \in Procs, NEW to, to # "body",
               pc' = [pc EXCEPT ![p] = to], pc[p] # "body", left' = left
        PROVE  UNCHANGED Abstract!vars
    BY <2>3
  <2>4. ASSUME NEW p \in Procs, Acquired(p) PROVE [Abstract!Next]_(Abstract!vars)
    BY <2>1, <2>3, <2>4 DEF Acquired, Goto, BlockStart, Live
  <2>5. ASSUME NEW p \in Procs, Check(p) PROVE [Abstract!Next]_(Abstract!vars)
    BY <2>1, <2>3, <2>5 DEF Check, Goto, Live
  <2>6. ASSUME NEW p \in Procs, SkipCheck(p) PROVE FALSE
    BY <2>6, Disciplined DEF SkipCheck, Disciplined
  <2>7. ASSUME NEW p \in Procs, Exit(p) \/ ExitLockTimeout(p) PROVE Abstract!Next
    BY <2>2, <2>7 DEF Exit, ExitLockTimeout, Goto
  <2>8. ASSUME NEW p \in Procs,
               \/ \E m \in Modes : New(p, m)
               \/ Add(p) \/ Incr(p) \/ IncrMissing(p) \/ Touch(p)
               \/ GiveUp(p) \/ Wait(p) \/ Retry(p) \/ TimeOut(p)
        PROVE  UNCHANGED Abstract!vars
    <3>1. left' = left /\ \E from, to \in {"idle", "check"} \union Polling : Goto(p, from, to)
      BY <2>8 DEF New, Add, Incr, IncrMissing, Touch, GiveUp, Wait, Retry, TimeOut, Polling
    <3> QED
      BY <2>3, <3>1 DEF Goto, Polling
  <2>9. ASSUME NEW p \in Procs, EnterRaises(p) PROVE UNCHANGED Abstract!vars
    <3>1. Inside' = Inside
      BY <2>9 DEF EnterRaises, Goto
    <3>2. (left' = "block") = (left = "block")
      BY <2>9 DEF EnterRaises, Goto, Live
    <3> QED
      BY <3>1, <3>2
  <2>10. ASSUME \E p \in Procs : Crash(p) PROVE UNCHANGED Abstract!vars
    BY <2>10 DEF Crash
  <2>11. CASE Expire
    BY <2>11 DEF Expire
  <2>12. CASE Evict
    BY <2>12, Disciplined DEF Evict, Disciplined
  <2>13. CASE UNCHANGED vars
    BY <2>13 DEF vars
  <2> QED
    BY <2>4, <2>5, <2>6, <2>7, <2>8, <2>9, <2>10, <2>11, <2>12, <2>13
       DEF Next, Enter, Leave
<1>3. LockInv /\ [Next]_vars => [Abstract!Next]_(Abstract!vars)
  BY <1>2
<1> QED
  BY <1>1, <1>3, LockInvariant, PTL DEF Spec, ImplementsMutex, Abstract!Spec
=============================================================================
