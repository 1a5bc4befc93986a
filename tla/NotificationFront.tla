-------------------------- MODULE NotificationFront --------------------------
(***************************************************************************)
(* How a notification comes to be sent: Notification.send and its          *)
(* subclasses, the throttle of system e-mails, the merging of duplicates,  *)
(* maintenance notices and their acknowledgement, and the hand-over to the *)
(* Celery task that runs make_send (module Delivery).  Every call of the   *)
(* database, the cache or the broker is one step of a request; requests    *)
(* interleave at these steps.                                              *)
(***************************************************************************)
EXTENDS Integers, FiniteSets

CONSTANTS
    Requests,       \* requests, each served once
    Calls,          \* what each request may ask for
    Threads,        \* how many requests are served at the same time
    Own,            \* the content_entity_context of a call that passes none
    Aggregation,    \* NOTIFICATION_AGGREGATION_TIMEDELTA_SECONDS
    Limit,          \* allowed_number_of_system_requests_per_minute
    Minute,         \* the length of a minute
    Pause,          \* NOTIFICATION_SEND_PAUSE_SECONDS
    Visibility,     \* NOTIFICATIONS_QUEUE_VISIBILITY_TIMEOUT
    Buffer,         \* TIME_BUFFER_FOR_CURRENT_MAINTENANCE_API_QUERY
    Mortal,         \* requests that may break off: a call fails, the process dies
    MaxTime         \* bound of the clock

Now == -1   \* the delay of a call without one: make_send runs in the request

\* "mail" is Notification and EMailNotificationWithListOfEmails, "system"
\* SystemEMailNotification, "notice" a maintenance notice, "read" an
\* acknowledgement.  context stands for all fields by which duplicates are
\* found; atomic is TRUE in a view that is a transaction.
ASSUME FrontAssumption ==
    /\ IsFiniteSet(Requests)
    /\ \A r \in Requests : Calls[r] # {} /\ \A c \in Calls[r] :
        /\ c.kind \in {"mail", "system", "notice", "read"}
        /\ c.delay \in Nat \union {Now}
        /\ c.atomic \in BOOLEAN
        /\ c.kind = "notice" => c.atomic /\ c.context = Own /\ c.delay # Now
        /\ c.kind = "system" => c.delay = 0
    /\ {Threads, Aggregation, Limit, Pause, Visibility, Buffer, MaxTime} \subseteq Nat
    /\ Minute \in Nat \ {0}
    /\ Mortal \subseteq Requests

VARIABLES
    now,        \* the clock
    rows,       \* the notification a request has stored
    throttle,   \* length of the list under system-mail-throttling-ck, per minute
    read,       \* the acknowledgements in the session
    queue,      \* the tasks in the broker
    started,    \* history: the notifications make_send was called for
    overlaps,   \* history: pairs of requests that were served at the same time
    req         \* the local variables of each request

vars == <<now, rows, throttle, read, queue, started, overlaps, req>>

Times == 0..MaxTime
Minutes == {t \div Minute : t \in Times}
ThisMinute == now \div Minute

NoRow == [stored |-> FALSE]
Rows == [stored : {TRUE}, at : Times, to : Int, counter : Nat, committed : BOOLEAN]
Tasks == [of : Requests, at : Int]

\* Before and while it is served, and how it was answered.
Active == {"limit", "register", "count", "overlap", "similar", "bump", "save", "enqueue",
           "commit", "reading", "write"}
Answers == {"queued", "sent", "merged", "read", "denied", "failed"}

Places == {"new"} \union Active \union Answers

AllCalls == UNION {Calls[r] : r \in Requests}

Locals == [at : Places,
           call : AllCalls,
           to : Int,            \* delayed_to
           minute : Minutes,    \* when the limit was checked
           seen : Nat,          \* what was read and is to be written back
           session : SUBSET Requests,
           target : Requests]   \* first_same_notification

TypeOK ==
    /\ now \in Times
    /\ rows \in [Requests -> Rows \union {NoRow}]
    /\ throttle \in [Minutes -> Nat]
    /\ read \subseteq Requests
    /\ queue \subseteq Tasks
    /\ started \subseteq Requests
    /\ overlaps \subseteq SUBSET Requests
    /\ req \in [Requests -> Locals]

Init ==
    /\ now = 0
    /\ rows = [r \in Requests |-> NoRow]
    /\ throttle = [m \in Minutes |-> 0]
    /\ read = {}
    /\ queue = {}
    /\ started = {}
    /\ overlaps = {}
    /\ req = [r \in Requests |->
                [at |-> "new", call |-> CHOOSE c \in Calls[r] : TRUE, to |-> 0, minute |-> 0,
                 seen |-> 0, session |-> {}, target |-> r]]

At(r, place) == req[r].at = place
Served(r) == req[r].at \in Active
Become(r, l) == req' = [req EXCEPT ![r] = l]
Go(r, place) == Become(r, [req[r] EXCEPT !.at = place])

\* The request begins; a delay is a point in time from here on.
First(c) ==
    CASE c.kind = "mail"   -> "similar"
      [] c.kind = "system" -> "limit"
      [] c.kind = "notice" -> "overlap"
      [] c.kind = "read"   -> "reading"

Call(r, c) ==
    /\ At(r, "new")
    /\ now + c.delay <= MaxTime     \* bound
    /\ Cardinality({q \in Requests : Served(q)}) < Threads
    /\ Become(r, [req[r] EXCEPT !.at = First(c), !.call = c, !.to = now + c.delay])
    /\ overlaps' = overlaps \union {{r, q} : q \in {q \in Requests : Served(q)}}
    /\ UNCHANGED <<now, rows, throttle, read, queue, started>>

-----------------------------------------------------------------------------
(* SystemEMailNotification: the throttle *)

\* Mutant: one more passes than the limit lets.
TooManyLater(count) == count > Limit + 1
TooMany(count) == count > Limit

CheckLimit(r) ==
    /\ At(r, "limit")
    /\ Become(r, [req[r] EXCEPT !.at = IF TooMany(throttle[ThisMinute]) THEN "denied" ELSE "register",
                                !.minute = ThisMinute])
    /\ UNCHANGED <<now, rows, throttle, read, queue, started, overlaps>>

\* _register_system_email reads the list of this minute ...
ReadCount(r) ==
    LET count == throttle[ThisMinute]
    IN  /\ At(r, "register")
        /\ Become(r, [req[r] EXCEPT !.at = IF count > Limit + 1 THEN "similar" ELSE "count",
                                    !.seen = IF count > Limit + 1 THEN 0 ELSE count])
        /\ UNCHANGED <<now, rows, throttle, read, queue, started, overlaps>>

\* ... and writes the longer one to what is this minute by then.
WriteCount(r) ==
    /\ At(r, "count")
    /\ throttle' = [throttle EXCEPT ![ThisMinute] = req[r].seen + 1]
    /\ Become(r, [req[r] EXCEPT !.at = "similar", !.seen = 0])
    /\ UNCHANGED <<now, rows, read, queue, started, overlaps>>

-----------------------------------------------------------------------------
(* Maintenance notices *)

Visible(q) == rows[q].stored /\ rows[q].committed

Near(a, b) == a - b <= Buffer /\ b - a <= Buffer

\* Any notification that is delayed to a time near by forbids the notice.
CheckOverlap(r) ==
    /\ At(r, "overlap")
    /\ IF \E q \in Requests : Visible(q) /\ req[q].call.delay # Now /\ Near(rows[q].to, req[r].to)
       THEN Go(r, "denied")
       ELSE Go(r, "similar")
    /\ UNCHANGED <<now, rows, throttle, read, queue, started, overlaps>>

\* acknowledged: the session is read with the request ...
ReadSession(r) ==
    /\ At(r, "reading")
    /\ Become(r, [req[r] EXCEPT !.at = "write", !.session = read \union {r}])
    /\ UNCHANGED <<now, rows, throttle, read, queue, started, overlaps>>

\* ... and saved with the response.
WriteSession(r) ==
    /\ At(r, "write")
    /\ read' = req[r].session
    /\ Become(r, [req[r] EXCEPT !.at = "read", !.session = {}])
    /\ UNCHANGED <<now, rows, throttle, queue, started, overlaps>>

-----------------------------------------------------------------------------
(* Notification.send *)

\* Mutant: the aggregation time is a second short.
SimilarToShort(r) == {q \in Requests : /\ Visible(q)
                                       /\ req[q].call.context = req[r].call.context
                                       /\ req[r].call.context # Own
                                       /\ rows[q].at > now + 1 - Aggregation}

SimilarTo(r) == {q \in Requests : /\ Visible(q)
                                  /\ req[q].call.context = req[r].call.context
                                  /\ req[r].call.context # Own
                                  /\ rows[q].at > now - Aggregation}

Newest(S) == {q \in S : \A p \in S : rows[p].at <= rows[q].at}

\* handle_similar_notifications
FindSimilar(r) ==
    /\ At(r, "similar")
    /\ \/ SimilarTo(r) = {} /\ Go(r, "save")
       \/ \E q \in Newest(SimilarTo(r)) :
            Become(r, [req[r] EXCEPT !.at = "bump", !.target = q, !.seen = rows[q].counter])
    /\ UNCHANGED <<now, rows, throttle, read, queue, started, overlaps>>

\* Mutant: the counter is not read.
CountedFromOne(r) == 2
CountedUp(r) == req[r].seen + 1

\* Nothing follows in a transaction, so it is committed at once.
Bump(r) ==
    /\ At(r, "bump")
    /\ rows' = [rows EXCEPT ![req[r].target].counter = CountedUp(r)]
    /\ Become(r, [req[r] EXCEPT !.at = "merged", !.seen = 0])
    /\ UNCHANGED <<now, throttle, read, queue, started, overlaps>>

Save(r) ==
    /\ At(r, "save")
    /\ rows' = [rows EXCEPT ![r] = [stored |-> TRUE, at |-> now, to |-> req[r].to, counter |-> 1,
                                    committed |-> ~req[r].call.atomic]]
    /\ Go(r, "enqueue")
    /\ UNCHANGED <<now, throttle, read, queue, started, overlaps>>

\* What a request has written so far is gone only with its transaction.
Abort(r) ==
    /\ rows' = IF req[r].call.atomic THEN [rows EXCEPT ![r] = NoRow] ELSE rows
    /\ Go(r, "failed")
    /\ UNCHANGED <<now, throttle, read, queue, started, overlaps>>

TooLate(r) == req[r].to - now > Visibility

Eta(r) == IF req[r].to - now < Pause THEN now ELSE req[r].to

\* enqueue_notification
Enqueue(r) ==
    /\ At(r, "enqueue")
    /\ req[r].call.delay # Now
    /\ ~TooLate(r)
    /\ queue' = queue \union {[of |-> r, at |-> Eta(r)]}
    /\ Go(r, IF req[r].call.atomic THEN "commit" ELSE "queued")
    /\ UNCHANGED <<now, rows, throttle, read, started, overlaps>>

\* Mutant: what is delayed too long is dropped in silence.
EnqueueIgnores(r) ==
    /\ At(r, "enqueue")
    /\ req[r].call.delay # Now
    /\ TooLate(r)
    /\ Go(r, "queued")
    /\ UNCHANGED <<now, rows, throttle, read, queue, started, overlaps>>

EnqueueRaises(r) ==
    /\ At(r, "enqueue")
    /\ req[r].call.delay # Now
    /\ TooLate(r)
    /\ Abort(r)

\* Without a delay make_send runs in the request.
SendNow(r) ==
    /\ At(r, "enqueue")
    /\ req[r].call.delay = Now
    /\ started' = started \union {r}
    /\ Go(r, IF req[r].call.atomic THEN "commit" ELSE "sent")
    /\ UNCHANGED <<now, rows, throttle, read, queue, overlaps>>

Commit(r) ==
    /\ At(r, "commit")
    /\ rows' = [rows EXCEPT ![r].committed = TRUE]
    /\ Go(r, IF req[r].call.delay = Now THEN "sent" ELSE "queued")
    /\ UNCHANGED <<now, throttle, read, queue, started, overlaps>>

\* A call of the database or the broker fails, or the process dies.
Break(r) == r \in Mortal /\ Served(r) /\ Abort(r)

-----------------------------------------------------------------------------
(* The worker and the clock *)

\* The worker acknowledges a task when it starts it.
StartTask(t) ==
    /\ t \in queue
    /\ now >= t.at
    /\ queue' = queue \ {t}
    /\ started' = started \union {t.of}
    /\ UNCHANGED <<now, rows, throttle, read, overlaps, req>>

Tick ==
    /\ now < MaxTime
    /\ now' = now + 1
    /\ UNCHANGED <<rows, throttle, read, queue, started, overlaps, req>>

Step(r) ==
    \/ CheckLimit(r) \/ ReadCount(r) \/ WriteCount(r)
    \/ CheckOverlap(r) \/ ReadSession(r) \/ WriteSession(r)
    \/ FindSimilar(r) \/ Bump(r) \/ Save(r)
    \/ Enqueue(r) \/ EnqueueRaises(r) \/ SendNow(r) \/ Commit(r)

\* Every request is answered or breaks off, every task ends.
Finished ==
    /\ \A r \in Requests : req[r].at \in Answers \union {"new"}
    /\ queue = {} /\ now = MaxTime
    /\ UNCHANGED vars

Next ==
    \/ \E r \in Requests : (\E c \in Calls[r] : Call(r, c)) \/ Step(r) \/ Break(r)
    \/ \E t \in queue : StartTask(t)
    \/ Tick
    \/ Finished

Spec == Init /\ [][Next]_vars

-----------------------------------------------------------------------------
(* Properties *)

Sent(r) == r \in started \/ \E t \in queue : t.of = r

\* The places before a request stores its notification.
Early == {"new", "limit", "register", "count", "overlap", "similar", "bump", "save",
          "reading", "write"}

RowInv(r) ==
    /\ req[r].at \in Early => rows[r] = NoRow /\ ~Sent(r)
    /\ At(r, "enqueue") => rows[r].stored /\ rows[r].committed = ~req[r].call.atomic /\ ~Sent(r)
    /\ At(r, "commit") => rows[r].stored /\ req[r].call.atomic /\ ~rows[r].committed /\ Sent(r)
    /\ req[r].at \in {"queued", "sent"} => Visible(r) /\ Sent(r)
    /\ req[r].at \in {"bump", "merged"} => Visible(req[r].target)
    /\ Visible(r) /\ ~Sent(r) => req[r].at \in {"enqueue", "failed"}
    /\ Sent(r) => Visible(r) \/ req[r].call.atomic

TaskInv(t) ==
    /\ req[t.of].call.delay # Now
    /\ t.at >= req[t.of].to \/ req[t.of].to - t.at < Pause

\* Where a request is, its row and its task agree at all times: nothing is
\* queued that was not stored, and nobody merges into what a transaction may
\* still take back (notification.py:158-243).
FrontInv ==
    /\ TypeOK
    /\ \A r \in Requests : RowInv(r)
    /\ \A t \in queue : TaskInv(t)

Overlapped(r, q) == {r, q} \in overlaps

\* Served while no other request was.
Lone(r) == \A q \in Requests \ {r} : ~Overlapped(r, q)

\* Two notifications that should have been one, a duplicate within the
\* aggregation time or two maintenance notices near each other, come from
\* requests that were served at the same time
\* (duplicate_notification_mixin.py:8-33, maintenance_notification.py:76-81).
ClashesOverlapped ==
    \A r, q \in Requests :
        r # q /\ Visible(r) /\ Visible(q) =>
            /\ /\ req[r].call.context = req[q].call.context /\ req[r].call.context # Own
               /\ rows[r].at - rows[q].at < Aggregation /\ rows[q].at - rows[r].at < Aggregation
               => Overlapped(r, q)
            /\ /\ req[r].call.kind = "notice" /\ req[q].call.kind = "notice"
               /\ Near(rows[r].to, rows[q].to)
               => Overlapped(r, q)

Merged(r, q) == At(q, "merged") /\ req[q].target = r

\* What a request reads, changes and writes back without another one beside
\* it stays: the counter of a notification counts at least its lone
\* duplicates, and never more than all, and a lone acknowledgement stays in
\* the session (duplicate_notification_mixin.py:28-32,
\* maintenance_notification.py:187-198).
LoneIsNeverLost ==
    /\ \A r \in Requests : rows[r].stored =>
        /\ rows[r].counter >= 1 + Cardinality({q \in Requests : Merged(r, q) /\ Lone(q)})
        /\ rows[r].counter <= 1 + Cardinality({q \in Requests : Merged(r, q)})
    /\ \A r \in Requests : At(r, "read") /\ Lone(r) => r \in read

Passed(m) ==
    {r \in Requests : /\ req[r].call.kind = "system" /\ Lone(r) /\ req[r].minute = m
                      /\ req[r].at \in {"similar", "bump", "save", "enqueue", "commit", "queued", "merged"}}

\* Of the system e-mails of one minute whose requests were served alone, one
\* more than allowed_number_of_system_requests_per_minute passes, however the
\* minute changes and other requests overlap (email_notification.py:122-147).
ThrottleHolds == \A m \in Minutes : Cardinality(Passed(m)) <= Limit + 1

\* What two requests do to each other they do only while they overlap: the
\* three facts above of those that are served alone.
LoneAreServed == ClashesOverlapped /\ LoneIsNeverLost /\ ThrottleHolds

\* A notification is not sent before its time, unless what is left is less
\* than a pause, and only after it was stored: outside a transaction its row
\* can be seen from then on (notification.py:183-214,
\* queable_notification_mixin.py:16-29).
StartsInTime ==
    \A r \in started' \ started :
        /\ req[r].call.delay # Now => req[r].to - now < Pause \/ now >= req[r].to
        /\ Visible(r) \/ req[r].call.atomic

\* A request that was answered as queued has been sent or will be, and its
\* notification can be seen; one that was merged was merged into a
\* notification of which that holds as well, unless the request that stored
\* it failed afterwards or is still on its way (notification.py:183-214).
AnsweredIsSent ==
    \A r \in Requests :
        /\ req[r].at \in {"queued", "sent"} => Sent(r) /\ Visible(r)
        /\ At(r, "merged") =>
            /\ Visible(req[r].target)
            /\ \/ Sent(req[r].target)
               \/ req[req[r].target].at \in {"enqueue", "failed"}

\* In every step, what was answered as queued is sent, and what is sent is sent
\* in its time.
DispatchedAsAnswered == [][AnsweredIsSent' /\ StartsInTime]_vars

=============================================================================
