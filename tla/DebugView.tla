----------------------------- MODULE DebugView -----------------------------
(* What the profiling middleware keeps of the requests in the cache          *)
(* (_do_profile) and the debug view shows of it: a ring of the long requests *)
(* and a queue for every ten seconds.  The requests of several processes     *)
(* interleave at every call of the cache.                                    *)
EXTENDS Integers

CONSTANTS
  Requests,      \* the requests that are profiled
  Slots,         \* slots of the ring (50)
  Span, Hour,    \* an interval (10 seconds) and what the view shows (3600)
  NoRequest,
  MaxTime        \* a bound on the clock

ASSUME DebugViewAssumption ==
  {Slots, Span, Hour} \subseteq Nat \ {0} /\ MaxTime \in Nat /\ NoRequest \notin Requests

VARIABLES
  at,        \* where each request is in _do_profile
  pointer,   \* long_running_cmds_pointer
  slotOf,    \* what the pointer counted for a request
  ring,      \* long_running_cmds_data<n>: the request in each slot
  queues,    \* last_hour_running_cmds<n>: the requests pushed, and when the key expires
  pushedAt,  \* when a request was pushed
  time

debugVars == <<at, pointer, slotOf, ring, queues, pushedAt, time>>

\* A request above the threshold counts the pointer up and then fills the slot.
CountUp(r) ==
  /\ at[r] = "ended" /\ at' = [at EXCEPT ![r] = "slot"]
  /\ pointer' = pointer + 1 /\ slotOf' = [slotOf EXCEPT ![r] = pointer + 1]
  /\ UNCHANGED <<ring, queues, pushedAt, time>>

SetSlot(r) ==
  /\ at[r] = "slot" /\ at' = [at EXCEPT ![r] = "push"]
  /\ ring' = [ring EXCEPT ![slotOf[r] % Slots] = r]
  /\ UNCHANGED <<pointer, slotOf, queues, pushedAt, time>>

Interval(t) == t \div Span

Pushed(i) == IF i \in DOMAIN queues /\ time < queues[i].expires THEN queues[i].items ELSE {}

\* Every request is pushed to the queue of its interval, which renews its timeout.
PushTimes(r) ==
  /\ at[r] \in {"ended", "push"} /\ at' = [at EXCEPT ![r] = "pushed"]
  /\ LET i == Interval(time)
         queue == [items |-> Pushed(i) \union {r}, expires |-> time + Hour]
     IN queues' = [j \in DOMAIN queues \union {i} |-> IF j = i THEN queue ELSE queues[j]]
  /\ pushedAt' = [pushedAt EXCEPT ![r] = time]
  /\ UNCHANGED <<pointer, slotOf, ring, time>>

PassTime ==
  /\ time < MaxTime /\ time' = time + 1
  /\ UNCHANGED <<at, pointer, slotOf, ring, queues, pushedAt>>

DebugInit ==
  /\ at = [r \in Requests |-> "ended"] /\ slotOf = [r \in Requests |-> -1]
  /\ pointer = -1 /\ ring = [s \in 0..(Slots - 1) |-> NoRequest]
  /\ queues = <<>> /\ pushedAt = [r \in Requests |-> -1] /\ time = 0

DebugNext == PassTime \/ \E r \in Requests : CountUp(r) \/ SetSlot(r) \/ PushTimes(r)

-----------------------------------------------------------------------------
\* __get_debug_data
InRing == {ring[s] : s \in DOMAIN ring} \ {NoRequest}
\* Mutant: the oldest interval is left out.
LastHourShort == UNION {Pushed(i) : i \in (Interval(time - Hour) + 1)..Interval(time)}

LastHour == UNION {Pushed(i) : i \in Interval(time - Hour)..Interval(time)}

(* The view shows every request of the last hour, and none that is older by  *)
(* more than an interval, at whatever second it is called; of the long       *)
(* requests only one of the same slot takes another's place.                 *)
ViewIsComplete ==
  /\ \A r \in Requests : at[r] = "pushed" =>
       /\ time - pushedAt[r] < Hour => r \in LastHour
       /\ r \in LastHour => time - pushedAt[r] < Hour + Span
  /\ \A r \in Requests : slotOf[r] # -1 /\ at[r] # "slot" /\ r \notin InRing =>
       \E s \in Requests \ {r} : s \in InRing /\ (slotOf[s] - slotOf[r]) % Slots = 0

=============================================================================
