---------------------------- MODULE WaitingKeys ----------------------------
(***************************************************************************)
(* How a thread that has to wait for a CacheLock registers the name it     *)
(* waits for: set_waiting and append_waiting_key of CacheLock in           *)
(* src/django_project_base/serialization.py.  The first wait of an object  *)
(* counts it and, for a name that was never waited for, appends the name   *)
(* to the queue CacheLockKeys.  In a cache without list commands that      *)
(* queue is itself guarded by a CacheLock, so a thread that waits takes a  *)
(* second lock, may have to wait for that one, and registers it in the     *)
(* same queue: each thread is a stack of CacheLock objects.                *)
(***************************************************************************)
EXTENDS Naturals, Sequences, FiniteSets

CONSTANTS
    Threads,
    Names,      \* locks the application uses
    KeysLock,   \* CacheLock("CacheLockKeys"), of the queue of names
    MaxCalls    \* how often each thread uses a lock: bounds the counts

ASSUME WaitingAssumption ==
    /\ IsFiniteSet(Threads)
    /\ KeysLock \notin Names
    /\ MaxCalls \in [Threads -> Nat]

Locks == Names \union {KeysLock}

VARIABLES
    owner,      \* who holds each lock ({} or one thread)
    waiting,    \* the counters "Waiting.<name>"
    inserted,   \* the names whose flag "Inserted.Waiting.<name>" is set
    queue,      \* the queue CacheLockKeys
    stack,      \* per thread the nested CacheLock objects, innermost first
    calls       \* with statements of the application begun by each thread

vars == <<owner, waiting, inserted, queue, stack, calls>>

\* A CacheLock object: its name, where its code is, is_waiting, and for the
\* ones made by rpush the local copy of the queue.
Frame(l) == [lock |-> l, at |-> "enter", isWaiting |-> FALSE, copy |-> <<>>]

Places == {"enter", "hasKey", "set", "push", "body", "write", "exit"}

TypeOK ==
    /\ owner \in [Locks -> SUBSET Threads]
    /\ waiting \in [Locks -> Nat]
    /\ inserted \subseteq Locks
    /\ queue \in Seq(Locks)
    /\ stack \in [Threads -> Seq([lock : Locks, at : Places, isWaiting : BOOLEAN,
                                  copy : Seq(Locks)])]
    /\ calls \in [Threads -> Nat]
    /\ \A t \in Threads : calls[t] <= MaxCalls[t]

Init ==
    /\ owner = [l \in Locks |-> {}]
    /\ waiting = [l \in Locks |-> 0]
    /\ inserted = {}
    /\ queue = <<>>
    /\ stack = [t \in Threads |-> <<>>]
    /\ calls = [t \in Threads |-> 0]

Top(t) == Head(stack[t])

At(t, place) == stack[t] # <<>> /\ Top(t).at = place

\* Thread t's innermost object becomes f, or goes on at another place.
Become(t, f) == stack' = [stack EXCEPT ![t] = <<f>> \o Tail(@)]
Goto(t, place) == Become(t, [Top(t) EXCEPT !.at = place])

\* An object made by rpush appends the name its creator waits for.
IsPush(t) == Len(stack[t]) > 1
PushedName(t) == stack[t][2].lock

Call(t, l) ==
    /\ stack[t] = <<>>
    /\ calls[t] < MaxCalls[t]
    /\ calls' = [calls EXCEPT ![t] = @ + 1]
    /\ stack' = [stack EXCEPT ![t] = <<Frame(l)>>]
    /\ UNCHANGED <<owner, waiting, inserted, queue>>

\* The counter came back as 1; set_waiting(False).
Acquire(t) ==
    /\ At(t, "enter")
    /\ owner[Top(t).lock] = {}
    /\ owner' = [owner EXCEPT ![Top(t).lock] = {t}]
    /\ waiting' = IF Top(t).isWaiting THEN [waiting EXCEPT ![Top(t).lock] = @ - 1] ELSE waiting
    /\ Goto(t, "body")
    /\ UNCHANGED <<inserted, queue, calls>>

\* set_waiting(True) of an object that is not waiting yet.  One that is
\* sleeps and polls again, which changes nothing.
StartWaiting(t) ==
    /\ At(t, "enter")
    /\ owner[Top(t).lock] # {}
    /\ ~Top(t).isWaiting
    /\ waiting' = [waiting EXCEPT ![Top(t).lock] = @ + 1]
    /\ Become(t, [Top(t) EXCEPT !.at = "hasKey", !.isWaiting = TRUE])
    /\ UNCHANGED <<owner, inserted, queue, calls>>

\* Mutant: whoever finds the flag unset waits until it is set.
HasKeyWaits(t) ==
    /\ At(t, "hasKey")
    /\ Goto(t, IF Top(t).lock \in inserted THEN "enter" ELSE "hasKey")
    /\ UNCHANGED <<owner, waiting, inserted, queue, calls>>

\* append_waiting_key, one action for each call of the cache
HasKey(t) ==
    /\ At(t, "hasKey")
    /\ Goto(t, IF Top(t).lock \in inserted THEN "enter" ELSE "set")
    /\ UNCHANGED <<owner, waiting, inserted, queue, calls>>

\* Mutant: the flag is not set before the name is appended.
SetFlagNot(t) ==
    /\ At(t, "set")
    /\ Goto(t, "push")
    /\ UNCHANGED <<owner, waiting, inserted, queue, calls>>

SetFlag(t) ==
    /\ At(t, "set")
    /\ inserted' = inserted \union {Top(t).lock}
    /\ Goto(t, "push")
    /\ UNCHANGED <<owner, waiting, queue, calls>>

Rpush(t) ==
    /\ At(t, "push")
    /\ stack' = [stack EXCEPT ![t] = <<Frame(KeysLock), [Head(@) EXCEPT !.at = "enter"]>> \o Tail(@)]
    /\ UNCHANGED <<owner, waiting, inserted, queue, calls>>

\* The with block of rpush: get, then set.
ReadQueue(t) ==
    /\ At(t, "body")
    /\ IsPush(t)
    /\ Become(t, [Top(t) EXCEPT !.at = "write", !.copy = queue])
    /\ UNCHANGED <<owner, waiting, inserted, queue, calls>>

WriteQueue(t) ==
    /\ At(t, "write")
    /\ queue' = Append(Top(t).copy, PushedName(t))
    /\ Goto(t, "exit")
    /\ UNCHANGED <<owner, waiting, inserted, calls>>

\* The with block of the application.
Body(t) ==
    /\ At(t, "body")
    /\ ~IsPush(t)
    /\ Goto(t, "exit")
    /\ UNCHANGED <<owner, waiting, inserted, queue, calls>>

\* __exit__, and the return from rpush to the loop of the outer object.
Exit(t) ==
    /\ At(t, "exit")
    /\ owner' = [owner EXCEPT ![Top(t).lock] = {}]
    /\ stack' = [stack EXCEPT ![t] = Tail(@)]
    /\ UNCHANGED <<waiting, inserted, queue, calls>>

Step(t) ==
    \/ Acquire(t) \/ StartWaiting(t)
    \/ HasKey(t) \/ SetFlag(t) \/ Rpush(t)
    \/ ReadQueue(t) \/ WriteQueue(t) \/ Body(t) \/ Exit(t)

Done == \A t \in Threads : stack[t] = <<>> /\ calls[t] = MaxCalls[t]

Next ==
    \/ \E t \in Threads : Step(t) \/ \E l \in Names : Call(t, l)
    \/ Done /\ UNCHANGED vars

Spec == Init /\ [][Next]_vars

\* A thread goes on where it can; one that polls for a lock gets it if the
\* lock becomes free again and again.
FairSpec == Spec /\ \A t \in Threads : WF_vars(Step(t)) /\ SF_vars(Acquire(t))

-----------------------------------------------------------------------------
(* Properties *)

\* Waiting for the lock of the queue in order to register the wait for the
\* lock of the queue goes one level deep and no further.
NestingIsBounded == \A t \in Threads : Len(stack[t]) <= 3

\* The objects in the waiting loop of a lock: thread and level.
Waits(f, l) == f.lock = l /\ f.isWaiting /\ f.at \notin {"body", "write", "exit"}
Waiters(l) ==
    {w \in Threads \X (1..3) : w[2] <= Len(stack[w[1]]) /\ Waits(stack[w[1]][w[2]], l)}

\* The counter of a name is the number of objects in its waiting loop, nested
\* ones included, so it is 0 again when nobody waits.
WaitingIsCounted == \A l \in Locks : waiting[l] = Cardinality(Waiters(l))

\* A name that is flagged is in the queue, or the thread that set the flag is
\* still on its way to append it.
FlaggedNameIsListed ==
    \A l \in inserted :
        \/ \E i \in DOMAIN queue : queue[i] = l
        \/ \E t \in Threads : \E i \in DOMAIN stack[t] :
              stack[t][i].lock = l /\ (i > 1 \/ stack[t][i].at = "push")

\* The lock of the queue is the last one a thread takes: who holds it never
\* waits, so no cycle of threads waits for each other.
QueueOwnerNeverWaits ==
    \A t \in owner[KeysLock] : Top(t).lock = KeysLock /\ Top(t).at \in {"body", "write", "exit"}

\* However waits, registrations and the nested locks of the queue interleave:
\* the nesting is bounded, the counters and the list of names are right, and
\* the order of the locks is kept (serialization.py:54-71).
RegistrationIsRight ==
    NestingIsBounded /\ WaitingIsCounted /\ FlaggedNameIsListed /\ QueueOwnerNeverWaits

\* Every with statement of the application completes, also when all of it
\* waits and registers at the same time.
CallsComplete == \A t \in Threads : stack[t] # <<>> ~> stack[t] = <<>>
=============================================================================
