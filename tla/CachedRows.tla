----------------------------- MODULE CachedRows -----------------------------
(* The query set that caches what it reads (QuerySetWithCache, as the        *)
(* manager of the notifications uses it): get, list and the list of          *)
(* maintenance notifications, beside writes through the query set, which     *)
(* drop the copies when the cache can, and through the model, which do not.  *)
EXTENDS Integers, Sequences

CONSTANTS
  Readers,
  Timeout,      \* cache_timeout
  MaxVersions, MaxClock

ASSUME CachedRowsAssumption == {Timeout, MaxVersions, MaxClock} \subseteq Nat \ {0}

Keys == {"get", "list"}

VARIABLES
  versions,   \* what the row was: whether it was there, and from when on
  patterns,   \* the cache has delete_pattern (django-redis)
  copies,     \* key -> the version in the cache, and when it expires
  reader,     \* a reader between its query and cache.set
  dropping,   \* a write has to drop the copies yet
  clock,
  lag,        \* the longest time between a query and its cache.set
  missed      \* a write went past the query set, or beside a reader

rowVars == <<versions, patterns, copies, reader, dropping, clock, lag, missed>>

Newest == Len(versions)
Present(v) == versions[v].there
Cached(k) == k \in DOMAIN copies /\ clock < copies[k].until
Away == [key |-> "none", version |-> 0, since |-> 0]

-----------------------------------------------------------------------------
\* The first thing is cache.get, and nothing is asked when it has a copy; get
\* raises for a row that is gone, and caches nothing.
Query(r, k) ==
  /\ reader[r] = Away /\ ~Cached(k) /\ (k = "get" => Present(Newest))
  /\ reader' = [reader EXCEPT ![r] = [key |-> k, version |-> Newest, since |-> clock]]
  /\ UNCHANGED <<versions, patterns, copies, dropping, clock, lag, missed>>

SetCopy(r) ==
  /\ reader[r] # Away
  /\ LET k == reader[r].key
         copy == [version |-> reader[r].version, until |-> clock + Timeout]
     IN copies' = [j \in DOMAIN copies \union {k} |-> IF j = k THEN copy ELSE copies[j]]
  /\ lag' = IF clock - reader[r].since > lag THEN clock - reader[r].since ELSE lag
  /\ reader' = [reader EXCEPT ![r] = Away]
  /\ UNCHANGED <<versions, patterns, dropping, clock, missed>>

NewVersion(there) ==
  /\ Newest < MaxVersions /\ versions' = Append(versions, [there |-> there, from |-> clock])
  /\ UNCHANGED <<patterns, copies, reader, clock, lag>>

Reading == \E r \in Readers : reader[r] # Away

\* Mutant: the copies stay.
WriteOnly == NewVersion(TRUE) /\ missed' = (missed \/ Reading) /\ UNCHANGED dropping

\* create and update
WriteThrough ==
  /\ NewVersion(TRUE) /\ dropping' = TRUE /\ missed' = (missed \/ Reading)

\* save and delete of the model
WritePast(there) ==
  /\ NewVersion(there) /\ missed' = TRUE /\ UNCHANGED dropping

DropCopies ==
  /\ dropping /\ dropping' = FALSE
  /\ copies' = IF patterns THEN <<>> ELSE copies
  /\ missed' = (missed \/ Reading)
  /\ UNCHANGED <<versions, patterns, reader, clock, lag>>

PassSecond ==
  /\ clock < MaxClock /\ clock' = clock + 1
  /\ UNCHANGED <<versions, patterns, copies, reader, dropping, lag, missed>>

RowInit ==
  /\ versions \in {<<[there |-> b, from |-> 0]>> : b \in BOOLEAN} /\ patterns \in BOOLEAN
  /\ copies = <<>> /\ reader = [r \in Readers |-> Away]
  /\ dropping = FALSE /\ clock = 0 /\ lag = 0 /\ missed = FALSE

RowNext ==
  \/ \E r \in Readers : SetCopy(r) \/ \E k \in Keys : Query(r, k)
  \/ \E b \in BOOLEAN : WritePast(b)
  \/ WriteThrough \/ DropCopies \/ PassSecond

-----------------------------------------------------------------------------
(* What a reader is answered from the cache was so within the timeout, and   *)
(* the time a reader took to cache it; and it is so still when the cache     *)
(* drops patterns, the write is over, and all writes so far went through the *)
(* query set and met no reader.                                              *)
CopiesAreRecent ==
  \A k \in Keys : Cached(k) =>
    LET v == copies[k].version
    IN /\ v < Newest => clock - versions[v + 1].from < Timeout + lag
       /\ k = "get" => Present(v)
       /\ patterns /\ ~missed /\ ~dropping => v = Newest

=============================================================================
