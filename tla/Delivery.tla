------------------------------ MODULE Delivery ------------------------------
(***************************************************************************)
(* The delivery of one notification: SendNotificationService.make_send,    *)
(* Channel.send and LogAccessService.log, run by the Celery task that was  *)
(* enqueued with the notification and by the resend_notification command,  *)
(* and the delivery reports the provider posts back.  Every call of the    *)
(* database or of a provider is one step; runs share nothing but the       *)
(* database: the row, the delivery reports and the license ledger.         *)
(***************************************************************************)
EXTENDS Integers, FiniteSets, Functions

CONSTANTS
    Task,           \* the run of make_send in the Celery worker
    Resends,        \* its runs in the command resend_notification
    Recipients,     \* the profiles a notification may go to
    Kinds,          \* the notifications, and the circumstances they are sent in
    ProviderNo,     \* length of the provider setting of each channel
    Price,          \* of a copy for one recipient, in units: notification_price, for an SMS
                    \*   times the messages SMSCounter makes of the text, which is not empty
    Mortal          \* runs that may be killed

Channels == {"EMail", "SMS"}
Runs == {Task} \union Resends

KindType ==
    [to : SUBSET Recipients,        \* of every channel, after get_recipients
     unreachable : [Channels -> SUBSET Recipients],
                                    \* those without an e-mail address, or without a valid phone number
     required : SUBSET Channels,    \* notification.required_channels
     fallback : BOOLEAN,            \* mail_fallback: an e-mail to those without a phone number
     smsNotice : BOOLEAN,           \* notification.send_notification_sms
     system : BOOLEAN,              \* extra_data has is_system_notification
     credit : Nat,                  \* what the user's license holds at the start
     overlap : BOOLEAN,             \* a resend may run beside another run
     faulty : BOOLEAN]              \* database calls may fail, and answers of a provider be lost

ASSUME DeliveryAssumption ==
    /\ Task \notin Resends
    /\ IsFiniteSet(Recipients) /\ Recipients # {}
    /\ Kinds \subseteq KindType
    /\ \A k \in Kinds : /\ k.to # {} /\ k.required # {}
                        /\ \A c \in Channels : k.unreachable[c] \subseteq k.to
                        /\ (k.fallback => "EMail" \notin k.required)
    /\ ProviderNo \in [Channels -> Nat \ {0}]
    /\ Price \in [Channels -> Nat]
    /\ Mortal \subseteq Runs

VARIABLES
    kind,       \* which of Kinds it is; it never changes
    row,        \* sent_channels and failed_channels of the notification's row
    reports,    \* the rows of DeliveryReport
    charged,    \* copies charged to the user in LicenseAccessUse, per channel
    handed,     \* history: per recipient and channel, the calls of client_send in which the
                \*   provider took the message, or passed the unreachable over in silence
    run         \* the local variables of each run

vars == <<kind, row, reports, charged, handed, run>>

Status == {"DELIVERED", "NOT_DELIVERED", "PENDING_DELIVERY"}
Providers(c) == 1..ProviderNo[c]
Indexes == UNION {Providers(c) : c \in Channels}

Rows == [sent : SUBSET Channels, failed : SUBSET Channels]

\* A report is known by the run that created it: a run creates at most one
\* for a recipient, channel and provider.
Reports == [pk : Runs, user : Recipients, channel : Channels, provider : Indexes, status : Status]

\* make_send is at "queued", "license" and "save"; MailChannel.send at
\* "copy"; Channel.send at "next", "report", "confirm" and "charge";
\* _make_send at "lookup" and "call".
Places == {"queued", "license", "copy", "next", "lookup", "call", "report", "confirm", "charge",
           "done", "killed"}

Locals == [at : Places,
           row : Rows,                  \* the notification object
           todo : SUBSET Channels,      \* required_channels not tried yet
           sent : SUBSET Channels,      \* sent_channels
           failed : SUBSET Channels,    \* failed_channels
           channel : Channels,
           left : SUBSET Recipients,    \* recipients not tried yet
           user : Recipients,           \* recipient
           provider : Indexes,          \* self.provider
           exclude : SUBSET Indexes,    \* exclude_providers
           pk : Runs,                   \* dlr__uuid
           count : Nat]                 \* sent_no

TypeOK ==
    /\ kind \in Kinds
    /\ row \in Rows
    /\ reports \subseteq Reports
    /\ charged \in [Channels -> Nat]
    /\ handed \in [Recipients -> [Channels -> Nat]]
    /\ run \in [Runs -> Locals]

Empty == [sent |-> {}, failed |-> {}]

SomeOne == CHOOSE u \in Recipients : TRUE

Fresh ==
    [at |-> "queued", row |-> Empty, todo |-> {}, sent |-> {}, failed |-> {}, channel |-> "EMail",
     left |-> {}, user |-> SomeOne, provider |-> 1, exclude |-> {}, pk |-> Task, count |-> 0]

Init ==
    /\ kind \in Kinds
    /\ row = Empty
    /\ reports = {}
    /\ charged = [c \in Channels |-> 0]
    /\ handed = [u \in Recipients |-> [c \in Channels |-> 0]]
    /\ run = [r \in Runs |-> Fresh]

Over(r) == run[r].at \in {"done", "killed"}
Become(r, s) == run' = [run EXCEPT ![r] = s]

-----------------------------------------------------------------------------
(* SendNotificationService.make_send *)

\* A resend may come before the task, whose start is delayed, and be over by then.
MayStart(r) ==
    kind.overlap \/ \A q \in Runs \ {r} : Over(q) \/ run[q].at = "queued"

\* The task works on the object pickled when it was enqueued, a resend on the
\* row it reads; a resend does not leave out the channels sent before.
Start(r) ==
    LET object == IF r = Task THEN Empty ELSE row
    IN  /\ run[r].at = "queued"
        /\ MayStart(r)
        /\ Become(r, [run[r] EXCEPT !.at = "license",
                                    !.row = object,
                                    !.todo = (kind.required \ (IF r = Task THEN object.sent ELSE {}))
                                             \union (IF kind.smsNotice THEN {"SMS"} ELSE {})])
        /\ UNCHANGED <<kind, row, reports, charged, handed>>

\* sum(amount) over the user's rows, the credit with a negative amount
Used == Price["EMail"] * charged["EMail"] + Price["SMS"] * charged["SMS"] - kind.credit

\* A resend passes an empty extra_data.
Consumed(r) == ~(kind.system /\ r = Task) /\ Used >= 0

\* The Channel object and the locals of its methods are gone.
Closed(s) == [s EXCEPT !.channel = "EMail", !.left = {}, !.user = SomeOne, !.provider = 1,
                       !.exclude = {}, !.pk = Task, !.count = 0]

Fail(s, c) == [Closed(s) EXCEPT !.at = "license", !.todo = @ \ {c}, !.failed = @ \union {c}]

Refuse(r, c) ==
    /\ run[r].at = "license"
    /\ c \in run[r].todo
    /\ Consumed(r)
    /\ Become(r, Fail(run[r], c))
    /\ UNCHANGED <<kind, row, reports, charged, handed>>

\* A new Channel object with the first provider of its setting.
Open(r, c) ==
    /\ run[r].at = "license"
    /\ c \in run[r].todo
    /\ ~Consumed(r)
    /\ Become(r, [run[r] EXCEPT !.at = IF c = "EMail" THEN "copy" ELSE "next",
                                !.channel = c, !.left = kind.to, !.provider = 1,
                                !.exclude = {}, !.count = 0])
    /\ UNCHANGED <<kind, row, reports, charged, handed>>

\* The copy MailChannel.send mails to the sender first; a failure to do so
\* fails the channel.
SenderCopy(r) ==
    /\ run[r].at = "copy"
    /\ \/ Become(r, [run[r] EXCEPT !.at = "next"])
       \/ Become(r, Fail(run[r], run[r].channel))
    /\ UNCHANGED <<kind, row, reports, charged, handed>>

\* Mutants: every recipient is charged for; a channel counts as sent when
\* nothing was raised.
AmountOfAll(s) == Cardinality(kind.to)
AnySentOrNone(s) == s.count >= 0

\* accesses_used, and whether the channel counts as sent
Amount(s) == s.count
AnySent(s) == s.count > 0

\* LogAccessService.log writes its row after the channel was sent.
Charge(r) ==
    LET s == run[r] IN
    /\ s.at = "charge"
    /\ charged' = [charged EXCEPT ![s.channel] = @ + Amount(s)]
    /\ IF AnySent(s)
       THEN Become(r, [Closed(s) EXCEPT !.at = "license", !.todo = @ \ {s.channel}, !.sent = @ \union {s.channel}])
       ELSE Become(r, Fail(s, s.channel))
    /\ UNCHANGED <<kind, row, reports, handed>>

ChargeFails(r) ==
    /\ kind.faulty
    /\ run[r].at = "charge"
    /\ Become(r, Fail(run[r], run[r].channel))
    /\ UNCHANGED <<kind, row, reports, charged, handed>>

\* Mutants: what earlier runs sent is dropped; failures are cleared as soon
\* as anything was sent.
OutcomeOfRun(s) ==
    [sent |-> s.sent, failed |-> IF s.sent = kind.required THEN {} ELSE s.failed \union s.row.failed]
OutcomeCleared(s) ==
    LET sent == s.sent \union s.row.sent
    IN  [sent |-> sent, failed |-> IF sent # {} THEN {} ELSE s.failed \union s.row.failed]

\* sent_channels and failed_channels as make_send writes them: merged with
\* those of its object, failed_channels cleared when all was sent.
Outcome(s) ==
    LET sent == s.sent \union s.row.sent
    IN  [sent |-> sent, failed |-> IF sent = kind.required THEN {} ELSE s.failed \union s.row.failed]

Save(r) ==
    /\ run[r].at = "license"
    /\ run[r].todo = {}
    /\ row' = Outcome(run[r])
    /\ Become(r, [Fresh EXCEPT !.at = "done"])
    /\ UNCHANGED <<kind, reports, charged, handed>>

-----------------------------------------------------------------------------
(* Channel.send, one recipient after the other in the order of a set *)

\* A recipient who is to get an e-mail notification instead: he is neither
\* counted nor charged here.
FallsBack(s, u) ==
    s.channel = "SMS" /\ u \in kind.unreachable["SMS"] /\ kind.fallback /\ ~kind.smsNotice

Pick(r, u) ==
    LET s == run[r] IN
    /\ s.at = "next"
    /\ u \in s.left
    /\ ~FallsBack(s, u)
    /\ Become(r, [s EXCEPT !.at = "lookup", !.left = @ \ {u}, !.user = u])
    /\ UNCHANGED <<kind, row, reports, charged, handed>>

\* EMailNotification(...).send() raises, which is logged: in a resend for the
\* want of extra_data["user"], in the task as the settings object it is given
\* for extra_data cannot be written to its row.  Module Envelope has that row.
FallBack(r, u) ==
    LET s == run[r] IN
    /\ s.at = "next"
    /\ u \in s.left
    /\ FallsBack(s, u)
    /\ Become(r, [s EXCEPT !.left = @ \ {u}])
    /\ UNCHANGED <<kind, row, reports, charged, handed>>

AllTried(r) ==
    /\ run[r].at = "next"
    /\ run[r].left = {}
    /\ Become(r, [run[r] EXCEPT !.at = "charge"])
    /\ UNCHANGED <<kind, row, reports, charged, handed>>

\* Mutants: the provider is not excluded; the next one is taken unseen.
FailOverAgain(s) == [s EXCEPT !.at = "lookup"]
FailOverUnseen(s) == [s EXCEPT !.at = "lookup", !.provider = @ + 1]

\* The provider is excluded and the next one that is not takes over, for the
\* recipients that follow, too.  When none is left the last one stays.
FailOver(s) ==
    LET exclude == s.exclude \union {s.provider}
        rest == Providers(s.channel) \ exclude
    IN  IF rest = {}
        THEN [s EXCEPT !.at = "next", !.exclude = exclude]
        ELSE [s EXCEPT !.at = "lookup", !.exclude = exclude,
                       !.provider = CHOOSE i \in rest : \A j \in rest : i <= j]

Found(s) == {d \in reports : d.user = s.user /\ d.channel = s.channel /\ d.provider = s.provider}

\* Mutant: the status of the report is not looked at.
MaySendAnyway(s) == Cardinality(Found(s)) <= 1

\* _make_send reads the reports: two of them raise "To many DLR exist", a
\* delivered one stops the send, one in another state is used again.
MaySend(s) == Cardinality(Found(s)) <= 1 /\ \A d \in Found(s) : d.status # "DELIVERED"

Lookup(r) ==
    LET s == run[r] IN
    /\ s.at = "lookup"
    /\ IF MaySend(s)
       THEN Become(r, [s EXCEPT !.at = "call",
                                !.pk = IF Found(s) = {} THEN r ELSE (CHOOSE d \in Found(s) : TRUE).pk])
       ELSE Become(r, FailOver(s))
    /\ UNCHANGED <<kind, row, reports, charged, handed>>

\* client_send of AwsSes returns at once when there is no e-mail address, that
\* of the SMS providers when there is no phone number: it passes for sent.
Silent(s) == s.user \in kind.unreachable[s.channel]

\* ensure_credentials is called for the first provider only: client_send of
\* another one raises an AttributeError, once it comes to its credentials.
Reached(s) == s.provider = 1 /\ ~Silent(s)

Take(s) == handed' = [handed EXCEPT ![s.user][s.channel] = @ + 1]

Accepted(r) ==
    /\ run[r].at = "call"
    /\ Reached(run[r])
    /\ Take(run[r])
    /\ Become(r, [run[r] EXCEPT !.at = "report"])
    /\ UNCHANGED <<kind, row, reports, charged>>

Ignored(r) ==
    /\ run[r].at = "call"
    /\ Silent(run[r])
    /\ Take(run[r])
    /\ Become(r, [run[r] EXCEPT !.at = "report"])
    /\ UNCHANGED <<kind, row, reports, charged>>

Rejected(r) ==
    /\ run[r].at = "call"
    /\ ~Silent(run[r])
    /\ Become(r, FailOver(run[r]))
    /\ UNCHANGED <<kind, row, reports, charged, handed>>

\* The provider took the message, but the call timed out.
AnswerLost(r) ==
    /\ kind.faulty
    /\ run[r].at = "call"
    /\ Reached(run[r])
    /\ Take(run[r])
    /\ Become(r, FailOver(run[r]))
    /\ UNCHANGED <<kind, row, reports, charged>>

\* create_delivery_report: get_or_create by primary key
CreateReport(r) ==
    LET s == run[r] IN
    /\ s.at = "report"
    /\ reports' = IF \E d \in Found(s) : d.pk = s.pk
                  THEN reports
                  ELSE reports \union {[pk |-> s.pk, user |-> s.user, channel |-> s.channel,
                                        provider |-> s.provider, status |-> "PENDING_DELIVERY"]}
    /\ Become(r, [s EXCEPT !.at = "confirm"])
    /\ UNCHANGED <<kind, row, charged, handed>>

\* None has no pk: the recipient is not counted although it was sent to.
ReportFails(r) ==
    /\ kind.faulty
    /\ run[r].at = "report"
    /\ Become(r, [run[r] EXCEPT !.at = "next"])
    /\ UNCHANGED <<kind, row, reports, charged, handed>>

Delivered(s) ==
    {IF d \in Found(s) /\ d.pk = s.pk THEN [d EXCEPT !.status = "DELIVERED"] ELSE d : d \in reports}

\* enqueue_dlr_request of AwsSes marks the mail delivered, the others nothing.
Confirm(r) ==
    LET s == run[r] IN
    /\ s.at = "confirm"
    /\ reports' = IF s.channel = "EMail" THEN Delivered(s) ELSE reports
    /\ Become(r, [s EXCEPT !.at = "next", !.user = SomeOne, !.pk = Task, !.count = @ + 1])
    /\ UNCHANGED <<kind, row, charged, handed>>

-----------------------------------------------------------------------------
(* The environment *)

\* DeliveryReportViewSet: T2 posts a report, at any time, again, and in any
\* order; one for a row that is not there yet is lost.
Callback(d, delivered) ==
    /\ d.channel = "SMS"
    /\ reports' = (reports \ {d}) \union {[d EXCEPT !.status = IF delivered THEN "DELIVERED" ELSE "NOT_DELIVERED"]}
    /\ UNCHANGED <<kind, row, charged, handed, run>>

\* The hard time limit of the task, a deployment, the operator.
Kill(r) ==
    /\ r \in Mortal
    /\ run[r].at # "queued"
    /\ ~Over(r)
    /\ Become(r, [Fresh EXCEPT !.at = "killed"])
    /\ UNCHANGED <<kind, row, reports, charged, handed>>

-----------------------------------------------------------------------------
Send(r) ==
    \/ SenderCopy(r) \/ AllTried(r) \/ Lookup(r)
    \/ \E u \in Recipients : Pick(r, u) \/ FallBack(r, u)
    \/ Accepted(r) \/ Ignored(r) \/ Rejected(r) \/ AnswerLost(r)
    \/ CreateReport(r) \/ ReportFails(r) \/ Confirm(r)

MakeSend(r) ==
    \/ Start(r) \/ Save(r) \/ Charge(r) \/ ChargeFails(r)
    \/ \E c \in Channels : Refuse(r, c) \/ Open(r, c)
    \/ Send(r)

Next ==
    \/ \E r \in Runs : MakeSend(r) \/ Kill(r)
    \/ \E d \in reports, delivered \in BOOLEAN : Callback(d, delivered)

Spec == Init /\ [][Next]_vars

\* The worker and the command go on; every provider call has a timeout.
FairSpec == Spec /\ \A r \in Runs : WF_vars(MakeSend(r))

-----------------------------------------------------------------------------
(* Properties *)

\* A row a run has saved accounts for every required channel, as sent or as
\* failed, whichever run saved last and however stale its object was: the
\* list of notifications shows no channel in limbo (get_delivery).
NothingForgotten ==
    (\E r \in Runs : run[r].at = "done") => kind.required \subseteq row.sent \union row.failed

Taken(c) == \E u \in Recipients : handed[u][c] > 0

\* A channel shown as sent had its message taken by the provider for one
\* recipient at least, or one without an address passed over in silence,
\* which the code does not tell apart (aws_ses.py:133-134, t2.py:294-295):
\* whichever run saved the row and whatever was killed.
SentWasTaken == \A c \in row.sent : Taken(c)

\* The license is never charged for more copies than providers took, and
\* recipients were passed over in silence, in any interleaving and whatever
\* fails; and although the check before and the charge after a send are no
\* transaction, each run overdraws it by the copies of one channel at most.
LedgerIsBacked ==
    /\ \A c \in Channels : charged[c] <= SumFunction([u \in Recipients |-> handed[u][c]])
    /\ ~kind.system =>
         LET most == IF Price["SMS"] > Price["EMail"] THEN Price["SMS"] ELSE Price["EMail"]
         IN  Used < Cardinality(Runs) * Cardinality(kind.to) * most \/ Used = -kind.credit

\* The runs do not overlap and no database call or answer is lost: the rest
\* of the promises needs that, and the code does not enforce it.
Undisturbed == ~kind.overlap /\ ~kind.faulty

\* The task saves its row, after a resend has.
LateTask ==
    run[Task].at # "done" /\ run'[Task].at = "done" /\ \E r \in Resends : run[r].at = "done"

\* A channel shown as sent stays so, whichever of the runs saves next; only
\* a task that starts after a resend takes it back, as it knows the row as it
\* was when it was enqueued (send_notification_service.py:34-51, 85-131).
SentIsKept == [][Undisturbed => row.sent \subseteq row'.sent \/ LateTask]_vars

\* The assertion of _make_send, "To many DLR exist": one report for a
\* recipient, channel and provider.
OneReport ==
    \A d, e \in reports :
        d.user = e.user /\ d.channel = e.channel /\ d.provider = e.provider => d = e

\* What e-mails may be charged for: each recipient once, and one without an
\* address once with each provider, as each passes him over in silence.
Mails ==
    {m \in kind.to \X Providers("EMail") : m[2] = 1 \/ m[1] \in kind.unreachable["EMail"]}

\* However often the notification is resent, before the task or after it,
\* AwsSes is given a mail once per recipient, and once more for each run
\* killed on its way; it is charged once (test_resend_email) and reported
\* once, also after runs that were killed.
OnceUndisturbed ==
    Undisturbed =>
        /\ \A u \in Recipients \ kind.unreachable["EMail"] :
             handed[u]["EMail"] <= 1 + Cardinality({r \in Runs : run[r].at = "killed"})
        /\ charged["EMail"] <= Cardinality(Mails)
        /\ OneReport

\* A run that starts is over some day: the loop over providers ends, and the
\* row is saved.
RunsEnd == \A r \in Runs : run[r].at # "queued" ~> Over(r)

-----------------------------------------------------------------------------
(* The inductive invariant of DeliveryProofs. *)

\* What a run that is under way will save accounts for every channel.
Covers(s) ==
    s.at \notin {"queued", "done", "killed"} =>
        kind.required \subseteq s.todo \union s.sent \union s.failed \union s.row.sent \union s.row.failed

\* What it holds for sent was taken, or passed over in silence.
Backed(s) ==
    /\ \A c \in s.sent \union s.row.sent : Taken(c)
    /\ s.count > 0 \/ s.at \in {"report", "confirm"} => Taken(s.channel)

DeliveryInv ==
    /\ TypeOK
    /\ \A r \in Runs : Covers(run[r])
    /\ \A r \in Runs : Backed(run[r])
    /\ NothingForgotten
    /\ SentWasTaken
=============================================================================
