------------------------------ MODULE Envelope ------------------------------
(***************************************************************************)
(* The envelope of a notification: the senders, the fallback and the       *)
(* recipients it is sent with.  Notification.send puts them on the object  *)
(* that is pickled into the task, a list of e-mails puts the addresses     *)
(* there, a resend reads the settings again; channels read what is not     *)
(* there when they are served.  Meanwhile the settings of the project and  *)
(* the profiles of its users change.  Merging, rollback and the broker are *)
(* in NotificationFront, runs beside each other and failures in Delivery:  *)
(* here a channel is served in one step, by any of its providers' answers. *)
(***************************************************************************)
EXTENDS Naturals, FiniteSets, Sequences

CONSTANTS
    Users, Addresses,
    Numbers,        \* telephone numbers, as the users write them
    Spelling,       \* of each: its digits, and whether it is allowed
    Senders,        \* sender ids a project may have
    SystemSender,   \* SYSTEM_EMAIL_SENDER_ID and SYSTEM_SMS_SENDER_ID
    Nothing,        \* an empty string, a missing row
    Letters,        \* notifications
    Forms,          \* what each may be
    Origins,        \* the settings and profiles there may be at first
    MaxEdits        \* a bound: how often settings and profiles change

Media == {"EMail", "SMS"}

\* "task" has a delay, "now" has none, "list" is addressed to e-mails.
FormType == [by : {"task", "now", "list"}, channels : SUBSET Media, to : SUBSET (Users \union Addresses),
             system : BOOLEAN, project : BOOLEAN]

ASSUME EnvelopeAssumption ==
    /\ MaxEdits \in Nat
    /\ Users \intersect Addresses = {} /\ Nothing \notin Users \union Addresses \union Numbers \union Senders
    /\ SystemSender \notin Senders \union {Nothing}
    /\ \A n \in Numbers : Spelling[n].allowed \in BOOLEAN
    /\ \A l \in Letters : Forms[l] \subseteq FormType
    /\ \A l \in Letters : \A f \in Forms[l] :
        /\ f.to # {} /\ IsFiniteSet(f.to) /\ f.channels # {}
        /\ IF f.by = "list" THEN f.channels = {"EMail"} /\ f.to \subseteq Addresses ELSE f.to \subseteq Users

VARIABLES
    past,       \* the settings and profiles there have been, the present ones last
    form,       \* what each notification is
    stored,     \* the notifications that have a row
    sending,    \* the object of each, for its first run and for the resend
    posted,     \* history: what providers were given, and by which run
    owed, aux   \* history: whom a fallback was made for, and the fallbacks stored

envelopeVars == <<past, form, stored, sending, posted, owed, aux>>

Objects == Letters \X {"first", "again"}

Present == past[Len(past)]

\* A profile, or Nothing when the user was deleted
Profile == [mail : Addresses \union {Nothing}, phone : Numbers \union {Nothing}]
Worlds == [sender : [Media -> Senders \union {Nothing}], fallback : BOOLEAN \union {Nothing},
           profile : [Users -> Profile \union {Nothing}]]

ASSUME OriginAssumption == Origins \subseteq Worlds

\* PhoneNumberParser: the digits without "+" and "00"
Dial(n) == IF n = Nothing \/ ~Spelling[n].allowed THEN Nothing ELSE Spelling[n].digits

\* Recipient: who it is, and where each channel finds him
Person(u, p) == [id |-> u, EMail |-> p.mail, SMS |-> Dial(p.phone)]

\* The e-mails of a list share one id, made when it is sent.
Listed(a) == [id |-> Nothing, EMail |-> a, SMS |-> Nothing]

Unsent == [at |-> "new", sender |-> [c \in Media |-> Nothing], fallback |-> FALSE, people |-> {},
           todo |-> {}, from |-> 1, upto |-> 1]

EnvelopeInit ==
    /\ \E w \in Origins : past = <<w>>
    /\ form \in [Letters -> UNION {Forms[l] : l \in Letters}] /\ \A l \in Letters : form[l] \in Forms[l]
    /\ stored = {}
    /\ sending = [o \in Objects |-> Unsent]
    /\ posted = {} /\ owed = {} /\ aux = {}

Form(o) == form[o[1]]
Original(o) == o[2] = "first"
In(o, place) == sending[o].at = place
Put(o, s) == sending' = [sending EXCEPT ![o] = s]

-----------------------------------------------------------------------------
(* Notification.send and resend                                            *)

\* Mutant: the row is saved before the settings are read.
BeginSaved(o) ==
    /\ In(o, "new")
    /\ Original(o) \/ o[1] \in stored
    /\ Put(o, [sending[o] EXCEPT !.at = IF Form(o).project THEN "EMail" ELSE "signed", !.from = Len(past)])
    /\ stored' = stored \union {o[1]}
    /\ UNCHANGED <<past, form, posted, owed, aux>>

\* A resend is of a notification that has its row.
Begin(o) ==
    /\ In(o, "new")
    /\ Original(o) \/ o[1] \in stored
    /\ Put(o, [sending[o] EXCEPT !.at = IF Form(o).project THEN "EMail" ELSE "signed", !.from = Len(past)])
    /\ UNCHANGED <<past, form, stored, posted, owed, aux>>

\* _get_sender_config: the settings of the project, one after the other
ReadSender(o, c) ==
    /\ In(o, c)
    /\ Put(o, [sending[o] EXCEPT !.at = IF c = "EMail" THEN "SMS" ELSE "fallback", !.sender[c] = Present.sender[c]])
    /\ UNCHANGED <<past, form, stored, posted, owed, aux>>

\* ProjectSettings.objects.get raises when there is no such row, before
\* anything is saved.
ReadFallback(o) ==
    /\ In(o, "fallback")
    /\ Put(o, IF Present.fallback = Nothing
              THEN [Unsent EXCEPT !.at = "failed"]
              ELSE [sending[o] EXCEPT !.at = "signed", !.fallback = Present.fallback])
    /\ UNCHANGED <<past, form, stored, posted, owed, aux>>

\* _ensure_channels, with which only the first run goes: the senders of a
\* system mail
Signed(o) == IF Form(o).system /\ Original(o) THEN [c \in Media |-> SystemSender] ELSE sending[o].sender

\* A resend saves its recipients and sends; the request saves its row.
StoreRow(o) ==
    LET next == IF ~Original(o) \/ Form(o).by = "now" THEN "send"
                ELSE IF Form(o).by = "list" THEN "enqueue" ELSE "gather"
    IN  /\ In(o, "signed")
        /\ stored' = stored \union {o[1]}
        /\ Put(o, [sending[o] EXCEPT !.at = next, !.sender = Signed(o), !.todo = Form(o).channels])
        /\ UNCHANGED <<past, form, posted, owed, aux>>

\* recipients_list: the profile of one recipient after the other; one who is
\* gone raises, and the row stays.
Gather(o, u) ==
    /\ In(o, "gather")
    /\ u \in Form(o).to \ {p.id : p \in sending[o].people}
    /\ Put(o, IF Present.profile[u] = Nothing
              THEN [Unsent EXCEPT !.at = "failed"]
              ELSE [sending[o] EXCEPT !.people = @ \union {Person(u, Present.profile[u])}])
    /\ UNCHANGED <<past, form, stored, posted, owed, aux>>

\* enqueue_notification: the object is pickled as it is.
EnqueueLetter(o) ==
    /\ \/ In(o, "gather") /\ {p.id : p \in sending[o].people} = Form(o).to
          /\ Put(o, [sending[o] EXCEPT !.at = "send", !.upto = Len(past)])
       \/ In(o, "enqueue")
          /\ Put(o, [sending[o] EXCEPT !.at = "send", !.people = {Listed(a) : a \in Form(o).to}, !.upto = Len(past)])
    /\ UNCHANGED <<past, form, stored, posted, owed, aux>>

-----------------------------------------------------------------------------
(* Channel.get_recipients and Channel.send                                 *)

\* Mutant: users by their number, whatever there is on the object
PeopleAgain(o) == {Person(u, Present.profile[u]) : u \in {v \in Form(o).to \intersect Users : Present.profile[v] # Nothing}}

\* The email_list and the recipients_list of the object, or the profiles of
\* the recipients
People(o) ==
    IF sending[o].people # {} THEN sending[o].people
    ELSE {Person(u, Present.profile[u]) : u \in {v \in Form(o).to \intersect Users : Present.profile[v] # Nothing}}

\* They are read without an error.
Readable(o) ==
    sending[o].people # {} \/ (Form(o).to \subseteq Users /\ \A u \in Form(o).to : Present.profile[u] # Nothing)

\* Mutant: recipients are told apart by who they are.
UniqueIds(o, c) == {People(o)}

\* set(recipients): of those with the same address one is left.
Unique(o, c) ==
    {S \in SUBSET People(o) : /\ \A p, q \in S : p[c] = q[c] => p = q
                              /\ \A p \in People(o) : \E q \in S : q[c] = p[c]}

\* Mutant: the reports are searched by the address.
DoneAt(o, c, p) == c = "EMail" /\ \E h \in posted : h.of[1] = o[1] /\ h.channel = c /\ h.to = p[c]

\* AwsSes has delivered to that id, by the reports of the notification.
Done(o, c, p) == c = "EMail" /\ \E h \in posted : h.of[1] = o[1] /\ h.channel = c /\ h.id = p.id

Replaced(o, c, p) == c = "SMS" /\ p.SMS = Nothing /\ sending[o].fallback /\ "EMail" \notin Form(o).channels

\* What the channel hands over: a report may stop an SMS; of the e-mails of a
\* list, the first that is taken stops the rest.
Outcomes(o, c, S) ==
    {T \in SUBSET {p \in S : ~Replaced(o, c, p) /\ ~Done(o, c, p) /\ p[c] # Nothing} :
        \A p, q \in T : p.id = q.id => p = q}

\* Mutant: the sender is looked up when the mail is handed over.
LetterSignedLate(o, c, p) ==
    [of |-> o, channel |-> c, sender |-> Present.sender[c], to |-> p[c], id |-> p.id,
     from |-> sending[o].from, upto |-> IF sending[o].people # {} THEN sending[o].upto ELSE Len(past)]

Letter(o, c, p) ==
    [of |-> o, channel |-> c, sender |-> sending[o].sender[c], to |-> p[c], id |-> p.id,
     from |-> sending[o].from, upto |-> IF sending[o].people # {} THEN sending[o].upto ELSE Len(past)]

\* The extra_data of the fallback's e-mail, and what the encoder of its
\* column cannot write
Extra == {"a_sender", "a_extra_data", "a_recipients_list", "a_settings", "user"}
Writable == Extra \intersect {"a_settings"} = {}

\* A channel is left for another; the run is over when none is left.
Leave(o, c) ==
    Put(o, IF sending[o].todo = {c} THEN [Unsent EXCEPT !.at = "over"] ELSE [sending[o] EXCEPT !.todo = @ \ {c}])

\* No sender, or recipients that cannot be read, fail the channel alone.
\* The extra_data of a resend is empty, so it makes no fallback.
Serve(o, c) ==
    /\ In(o, "send") /\ c \in sending[o].todo
    /\ Leave(o, c)
    /\ IF sending[o].sender[c] = Nothing \/ ~Readable(o)
       THEN UNCHANGED <<posted, owed, aux>>
       ELSE \E S \in Unique(o, c) : \E T \in Outcomes(o, c, S) :
              LET back == {p.id : p \in {q \in S : Original(o) /\ Replaced(o, c, q)}} \X {o[1]}
              IN  /\ posted' = posted \union {Letter(o, c, p) : p \in T}
                  /\ owed' = owed \union back
                  /\ aux' = IF Writable THEN aux \union back ELSE aux
    /\ UNCHANGED <<past, form, stored>>

-----------------------------------------------------------------------------
(* The project and its users *)

Edit(w) == past' = Append(past, w) /\ Len(past) <= MaxEdits
           /\ UNCHANGED <<form, stored, sending, posted, owed, aux>>

EditSender(c, s) == Present.sender[c] # s /\ Edit([Present EXCEPT !.sender[c] = s])
EditFallback(b) == Present.fallback # b /\ Edit([Present EXCEPT !.fallback = b])
EditProfile(u, p) == Present.profile[u] # p /\ Edit([Present EXCEPT !.profile[u] = p])
EditMail(u, a) == Present.profile[u] # Nothing /\ EditProfile(u, [Present.profile[u] EXCEPT !.mail = a])
EditPhone(u, n) == Present.profile[u] # Nothing /\ EditProfile(u, [Present.profile[u] EXCEPT !.phone = n])
Delete(u) == EditProfile(u, Nothing)

Steps(o) ==
    \/ Begin(o) \/ ReadFallback(o) \/ StoreRow(o) \/ EnqueueLetter(o)
    \/ \E c \in Media : ReadSender(o, c) \/ Serve(o, c)
    \/ \E u \in Users : Gather(o, u)

EnvelopeNext ==
    \/ \E o \in Objects : Steps(o)
    \/ \E c \in Media, s \in Senders : EditSender(c, s)
    \/ \E b \in BOOLEAN : EditFallback(b)
    \/ \E u \in Users : \/ \E a \in Addresses : EditMail(u, a)
                        \/ \E n \in Numbers \union {Nothing} : EditPhone(u, n)
                        \/ Delete(u)

EnvelopeSpec == EnvelopeInit /\ [][EnvelopeNext]_envelopeVars

-----------------------------------------------------------------------------
(* Properties *)

EnvelopeTypeOK ==
    /\ past \in Seq(Worlds) /\ Len(past) \in 1..MaxEdits + 1
    /\ stored \subseteq Letters /\ \A l \in Letters : form[l] \in Forms[l]
    /\ \A o \in Objects :
        /\ sending[o].at \in {"new", "EMail", "SMS", "fallback", "signed", "gather", "enqueue", "send", "over", "failed"}
        /\ sending[o].todo \subseteq Media /\ {sending[o].from, sending[o].upto} \subseteq 1..Len(past)

Moments(h) == h.from..h.upto

\* A message is sent under a sender its project had between the request and
\* the moment the task was enqueued, however the setting is changed before the
\* task runs; only a system mail, when it is sent first, has the system's.
SignedInTime ==
    \A h \in posted :
        IF form[h.of[1]].system /\ Original(h.of) THEN h.sender = SystemSender
        ELSE \E i \in Moments(h) : h.sender = past[i].sender[h.channel] /\ h.sender # Nothing

\* It goes to an address or number its recipient had in that time, one of a
\* list to an address of the list, though he has moved since; a resend, and
\* what is sent in the request, to what he has when the channel is served.
AddressedInTime ==
    \A h \in posted :
        IF form[h.of[1]].by = "list" THEN h.to \in form[h.of[1]].to
        ELSE /\ h.id \in form[h.of[1]].to
             /\ \E i \in Moments(h) : /\ past[i].profile[h.id] # Nothing
                                    /\ h.to = Person(h.id, past[i].profile[h.id])[h.channel]

\* In one run no address or number is sent to twice, however it is spelled and
\* whoever shares it.
OneCopyEach ==
    \A h, k \in posted : h.of = k.of /\ h.channel = k.channel /\ h.to = k.to => h = k

\* No recipient is mailed twice, in the first run or a resend, though his
\* address changed between them.
MailedOnce ==
    \A h, k \in posted : h.channel = "EMail" /\ k.channel = "EMail" /\ h.of[1] = k.of[1] /\ h.id = k.id => h = k

\* What is sent has a sender and an address of its time.
SentInTime == SignedInTime /\ AddressedInTime

\* It reaches an address once in a run, and a person once in all of them.
SentOnce == OneCopyEach /\ MailedOnce

\* A row without a task is of a request that met a deleted user; a request
\* that fails for the want of a setting leaves no row.
RowsHaveTasks ==
    \A l \in stored : In(<<l, "first">>, "failed") =>
        form[l].by = "task" /\ \E u \in form[l].to : Present.profile[u] = Nothing

\* The setting "Send notification via EMail if user has no phone number": the
\* e-mail such a recipient is to get is stored.
PhonelessAreMailed == owed \subseteq aux
=============================================================================
