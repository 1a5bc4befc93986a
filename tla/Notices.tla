------------------------------ MODULE Notices -------------------------------
(* How notices of planned maintenance reach a user: the list the server      *)
(* makes of them, the title bars of his pages that poll it and show the      *)
(* first one in three ranges of time before the maintenance, and the         *)
(* acknowledgements, which are read with a request's session and saved with  *)
(* it.  Creation of a notice is in NotificationFront.                        *)
EXTENDS Integers, FiniteSets, SequencesExt

CONSTANTS
  Planned,        \* the notices, each with its delayed_to
  At,
  Pages,          \* pages of one session that are open
  Ahead,          \* how long before the list holds a notice: 8 hours
  Starts,         \* how long before the range 8, 1 and 5 starts: 10 h, 2 h, 10 min
  MaxTime, MaxReloads   \* bounds

Ranges == {8, 1, 5}

ASSUME NoticesAssumption ==
  /\ IsFiniteSet(Planned) /\ IsFiniteSet(Pages) /\ "none" \notin Planned
  /\ At \in [Planned -> Nat] /\ Starts \in [Ranges -> Nat] /\ {Ahead, MaxTime, MaxReloads} \subseteq Nat
  /\ Starts[8] > Starts[1] /\ Starts[1] > Starts[5] /\ Starts[5] > 0
  /\ Ahead > Starts[1]

VARIABLES
  time,
  acks,       \* the session: notification_acknowledged_data of each notice
  page,       \* the title bar of each page
  answered,   \* history: acknowledgements that were answered
  repeated,   \* history: shown although the poll was sent after the answer
  mixed,      \* history: two acknowledgements ran at the same time
  reloads

noticesVars == <<time, acks, page, answered, repeated, mixed, reloads>>

NoNotice == "none"

\* A page that was just opened: item is maintenanceNotificationItem with the
\* range it was shown for.
Opened == [poll |-> "idle", list |-> {}, data |-> <<>>, known |-> {},
           item |-> NoNotice, range |-> 0, ack |-> "none", session |-> <<>>]

NoticesInit ==
  /\ time = 0 /\ acks = [n \in Planned |-> <<>>]
  /\ page = [p \in Pages |-> Opened]
  /\ answered = {} /\ repeated = {} /\ mixed = FALSE /\ reloads = 0

SetPage(p, s) == page' = [page EXCEPT ![p] = s]

-----------------------------------------------------------------------------
(* UsersMaintenanceNotificationViewset.list *)

Upcoming == {n \in Planned : At[n] > time /\ At[n] < time + Ahead}

\* Those acknowledged three times are left out.
Offered == {n \in Upcoming : Len(acks[n]) < 3}

SendPoll(p) ==
  /\ page[p].poll = "idle"
  /\ SetPage(p, [page[p] EXCEPT !.poll = "sent", !.known = answered])
  /\ UNCHANGED <<time, acks, answered, repeated, mixed, reloads>>

ServeList(p) ==
  /\ page[p].poll = "sent"
  /\ SetPage(p, [page[p] EXCEPT !.poll = "served", !.list = Offered, !.data = acks])
  /\ UNCHANGED <<time, acks, answered, repeated, mixed, reloads>>

-----------------------------------------------------------------------------
(* monitorMaintenanceNotifications *)

\* The range it is in now: from its start to that of the next one
InRange(n, r) ==
  LET end == CASE r = 8 -> At[n] - Starts[1] [] r = 1 -> At[n] - Starts[5] [] OTHER -> At[n]
  IN  At[n] - Starts[r] <= time /\ time < end

\* Mutant: what was acknowledged in the last range is not looked up.
DueUnread(data, n, r) == InRange(n, r) /\ (r # 5 => ~Contains(data[n], r))

Due(data, n, r) == InRange(n, r) /\ ~Contains(data[n], r)

\* The first notice of the answer, which comes in any order, is shown unless
\* this page has shown one before.
Receive(p) ==
  LET s == page[p]
      idle == [s EXCEPT !.poll = "idle", !.list = {}, !.data = <<>>, !.known = {}]
  IN
  /\ s.poll = "served"
  /\ \/ s.list = {} /\ SetPage(p, idle) /\ UNCHANGED repeated
     \/ \E n \in s.list :
          \/ /\ (\A r \in Ranges : ~Due(s.data, n, r)) \/ s.item # NoNotice
             /\ SetPage(p, idle) /\ UNCHANGED repeated
          \/ \E r \in Ranges :
               /\ Due(s.data, n, r) /\ s.item = NoNotice
               /\ SetPage(p, [idle EXCEPT !.item = n, !.range = r, !.ack = "open"])
               /\ repeated' = IF <<n, r>> \in s.known THEN repeated \union {<<n, r>>} ELSE repeated
  /\ UNCHANGED <<time, acks, answered, mixed, reloads>>

PollFails(p) ==
  /\ page[p].poll \in {"sent", "served"}
  /\ SetPage(p, [page[p] EXCEPT !.poll = "idle", !.list = {}, !.data = <<>>, !.known = {}])
  /\ UNCHANGED <<time, acks, answered, repeated, mixed, reloads>>

-----------------------------------------------------------------------------
(* acknowledged *)

\* The user closes the notice; the request reads the session ...
ReadAcks(p) ==
  /\ page[p].ack = "open"
  /\ SetPage(p, [page[p] EXCEPT !.ack = "read", !.session = acks])
  /\ mixed' = (mixed \/ \E q \in Pages : page[q].ack = "read")
  /\ UNCHANGED <<time, acks, answered, repeated, reloads>>

\* Mutant: list(set(diffs)) is left out.
WithTwice(s, r) == Append(s, r)

\* Each range is there once.
With(s, r) == IF Contains(s, r) THEN s ELSE Append(s, r)

\* ... which is saved with the answer.
SaveAcks(p) ==
  LET s == page[p] IN
  /\ s.ack = "read"
  /\ acks' = [s.session EXCEPT ![s.item] = With(@, s.range)]
  /\ answered' = answered \union {<<s.item, s.range>>}
  /\ SetPage(p, [s EXCEPT !.ack = "done", !.session = <<>>])
  /\ UNCHANGED <<time, repeated, mixed, reloads>>

-----------------------------------------------------------------------------
\* Only a new page forgets the item; what it had asked of the server is done.
Reload(p) ==
  /\ reloads < MaxReloads /\ page[p].ack # "read"
  /\ SetPage(p, Opened) /\ reloads' = reloads + 1
  /\ UNCHANGED <<time, acks, answered, repeated, mixed>>

Tick == time < MaxTime /\ time' = time + 1
        /\ UNCHANGED <<acks, page, answered, repeated, mixed, reloads>>

NoticesNext ==
  \/ Tick
  \/ \E p \in Pages : \/ SendPoll(p) \/ ServeList(p) \/ Receive(p) \/ PollFails(p)
                      \/ ReadAcks(p) \/ SaveAcks(p) \/ Reload(p)

NoticesSpec == NoticesInit /\ [][NoticesNext]_noticesVars

-----------------------------------------------------------------------------
(* Properties *)

NoticesTypeOK ==
  /\ time \in 0..MaxTime /\ reloads \in 0..MaxReloads /\ mixed \in BOOLEAN
  /\ acks \in [Planned -> Seq(Ranges)]
  /\ \A p \in Pages : page[p].item \in Planned \union {NoNotice} /\ page[p].range \in Ranges \union {0}
  /\ answered \subseteq Planned \X Ranges

\* A notice the list leaves out before its time was acknowledged in all three
\* ranges, however many pages acknowledge it and however their requests race.
HiddenWhenRead == \A n \in Planned : Len(acks[n]) >= 3 => Ranges \subseteq ToSet(acks[n])

\* What was acknowledged in a range is not shown in it again by a page that
\* polls after the answer, unless two acknowledgements ran beside each other.
NotShownAgain == mixed \/ repeated = {}

\* What was read in a range counts once, for that range, and stays read.
ReadIsRead == HiddenWhenRead /\ NotShownAgain
=============================================================================
