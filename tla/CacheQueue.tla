----------------------------- MODULE CacheQueue -----------------------------
(***************************************************************************)
(* What a CacheQueue (src/django_project_base/caching/cache_queue/) is to  *)
(* its callers: a list in the cache whose operations take effect one at a  *)
(* time, each with the result it would have had alone.                     *)
(***************************************************************************)
EXTENDS Naturals, Sequences

CONSTANTS
    Procs,      \* threads and processes that use the queue
    Items,      \* values that are pushed
    Counts      \* arguments of lpop, rpop, lrange and ltrim

ASSUME QueueAssumption == Counts \subseteq Nat

VARIABLES
    items,      \* the list under CacheQueue.key
    ret         \* what each process was last given

queueVars == <<items, ret>>

\* Python slices s[:n], s[n:], s[-n:] and s[:-n]
Least(m, n) == IF m < n THEN m ELSE n
FirstN(s, n) == SubSeq(s, 1, Least(n, Len(s)))
AfterFirstN(s, n) == SubSeq(s, Least(n, Len(s)) + 1, Len(s))
LastN(s, n) == AfterFirstN(s, Len(s) - Least(n, Len(s)))
BeforeLastN(s, n) == FirstN(s, Len(s) - Least(n, Len(s)))
Reversed(s) == [i \in DOMAIN s |-> s[Len(s) + 1 - i]]

\* "if not count or count <= 0: count = 1"
PopCount(n) == IF n = 0 THEN 1 ELSE n

Values == {<<a>> : a \in Items} \union {<<a, b>> : a, b \in Items}
PushOps == [name : {"rpush", "lpush"}, values : Values]
PopOps == [name : {"lpop", "rpop", "ltrim"}, count : Counts]
RangeOps == [name : {"lrange"}, count : Counts]

\* The list an operation leaves, given the list it finds.
Rest(op, s) ==
    CASE op.name = "rpush" -> s \o op.values
      [] op.name = "lpush" -> Reversed(op.values) \o s
      [] op.name = "lpop"  -> AfterFirstN(s, PopCount(op.count))
      [] op.name = "rpop"  -> BeforeLastN(s, PopCount(op.count))
      [] op.name = "ltrim" -> AfterFirstN(s, op.count)

\* The values it gives its caller (for one that is not an lrange, the ones
\* it takes out of the list).
Taken(op, s) ==
    CASE op.name = "lpop"   -> FirstN(s, PopCount(op.count))
      [] op.name = "rpop"   -> Reversed(LastN(s, PopCount(op.count)))
      [] op.name = "lrange" -> FirstN(s, op.count + 1)
      [] OTHER              -> <<>>

QueueInit ==
    /\ items = <<>>
    /\ ret = [p \in Procs |-> <<>>]

Modify(p, op) ==
    /\ items' = Rest(op, items)
    /\ ret' = [ret EXCEPT ![p] = Taken(op, items)]

Read(p, op) ==
    /\ ret' = [ret EXCEPT ![p] = Taken(op, items)]
    /\ UNCHANGED items

\* The timeout of the key passes.
Vanish ==
    /\ items' = <<>>
    /\ UNCHANGED ret

QueueNext ==
    \/ \E p \in Procs : (\E op \in PushOps \union PopOps : Modify(p, op)) \/ (\E op \in RangeOps : Read(p, op))
    \/ Vanish

QueueSpec == QueueInit /\ [][QueueNext]_queueVars
=============================================================================
