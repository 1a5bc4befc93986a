----------------------------- MODULE QueueCalls -----------------------------
(***************************************************************************)
(* The calls of a CacheQueue by processes: what the queue of Redis and the *)
(* other one have in common.  A process is at its next access to the cache *)
(* or at the lock, and may be killed there.                                *)
(***************************************************************************)
EXTENDS CacheQueue

CONSTANTS
    Mortal,     \* processes that may be killed in the middle of a call
    MayVanish   \* TRUE when the timeout of the key may pass

ASSUME CallAssumption == Mortal \subseteq Procs /\ MayVanish \in BOOLEAN

VARIABLES
    pc,
    op,         \* the operation of the current call
    dead,
    unused      \* items not pushed yet: each is pushed once, which bounds the list

NoOp == CHOOSE o \in RangeOps : TRUE

InitCalls ==
    /\ QueueInit
    /\ pc = [p \in Procs |-> "idle"]
    /\ op = [p \in Procs |-> NoOp]
    /\ dead = {}
    /\ unused = Items

GoOn(p, from, to) ==
    /\ p \notin dead
    /\ pc[p] = from
    /\ pc' = [pc EXCEPT ![p] = to]

Unpushed(o) ==
    /\ \A i, j \in DOMAIN o.values : i # j => o.values[i] # o.values[j]
    /\ \A i \in DOMAIN o.values : o.values[i] \in unused
    /\ unused' = unused \ {o.values[i] : i \in DOMAIN o.values}

Lrange(p, o) ==
    /\ GoOn(p, "idle", "idle")
    /\ Read(p, o)
    /\ UNCHANGED <<op, dead, unused>>

Crash(p) ==
    /\ p \in Mortal \ dead
    /\ dead' = dead \union {p}
    /\ UNCHANGED <<items, ret, pc, op, unused>>

\* The timeout of the key is long against the time from a get to its set.
Expire ==
    /\ MayVanish
    /\ \A p \in Procs : pc[p] # "set"
    /\ items # <<>>
    /\ Vanish
    /\ UNCHANGED <<pc, op, dead, unused>>

Common ==
    \/ \E p \in Procs : (\E o \in RangeOps : Lrange(p, o)) \/ Crash(p)
    \/ Expire
=============================================================================
