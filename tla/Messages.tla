------------------------------ MODULE Messages ------------------------------
(* The REST interface of a message (notifications/rest/notification.py): it  *)
(* is addressed to users and tags, its recipients are worked out when it is  *)
(* composed and again when it is resent, the list of messages stores what    *)
(* it shows of them, and those it was sent to open it as guests, with a link *)
(* and the end of their telephone number.  Users and tags go meanwhile.      *)
EXTENDS Naturals

CONSTANTS
  People, Tags,       \* users and tags that may be addressed
  Calls,              \* the requests of a run
  NoNames,            \* recipients_original_payload_search is NULL
  MaxChanges          \* a bound: users that are deleted, tags deleted or put

ASSUME MessagesAssumption ==
  /\ People \intersect Tags = {} /\ MaxChanges \in Nat

VARIABLES
  users, tagged,   \* the users, and the users of each tag there is
  row,             \* the saved message: what it was addressed to, its recipients, the
                   \* names stored for the search
  sent,            \* whom the last delivery addressed
  call,            \* each request: where it is and what it holds
  changes,
  gone,            \* what was gone when the message was resent last
  mixed            \* a view or a resend ran beside a resend

messageVars == <<users, tagged, row, sent, call, changes, gone, mixed>>

Items == People \union Tags
NoRow == [payload |-> {}, to |-> {}, names |-> NoNames]
Idle == [pc |-> "idle", payload |-> {}, got |-> {}]

There(i) == i \in users \/ i \in DOMAIN tagged

\* MessageToListField.parse: users by themselves, and those of every tag.  A user
\* given by a bare number is not looked up.
Parse(payload, bare) ==
  (payload \intersect (users \union bare)) \union UNION {tagged[t] : t \in payload \intersect DOMAIN tagged}

Goto(c, pc) == call' = [call EXCEPT ![c].pc = pc]
Keep(c, pc, got) == call' = [call EXCEPT ![c].pc = pc, ![c].got = got]

-----------------------------------------------------------------------------
(* Composing: the recipients must not be empty; a recipient who is not found *)
(* when the task is prepared raises after the message was saved.             *)
Compose(c) ==
  /\ call[c].pc = "idle" /\ row = NoRow
  /\ \E payload \in SUBSET Items, bare \in SUBSET People :
       LET to == Parse(payload, bare)
       IN /\ bare \subseteq payload /\ to # {}
          /\ call' = [call EXCEPT ![c] = [Idle EXCEPT !.pc = "save", !.payload = payload, !.got = to]]
  /\ UNCHANGED <<users, tagged, row, sent, changes, gone, mixed>>

SaveMessage(c) ==
  /\ call[c].pc = "save" /\ row = NoRow
  /\ row' = [payload |-> call[c].payload, to |-> call[c].got, names |-> NoNames]
  /\ Goto(c, "enqueue")
  /\ UNCHANGED <<users, tagged, sent, changes, gone, mixed>>

Enqueue(c) ==
  /\ call[c].pc = "enqueue"
  /\ sent' = IF call[c].got \subseteq users THEN call[c].got ELSE sent
  /\ Goto(c, "done")
  /\ UNCHANGED <<users, tagged, row, changes, gone, mixed>>

-----------------------------------------------------------------------------
(* The list of messages: the names are worked out and stored once.           *)
Busy(pcs) == \E d \in Calls : call[d].pc \in pcs

View(c) ==
  /\ call[c].pc = "idle" /\ row # NoRow /\ row.names = NoNames
  /\ Keep(c, "viewed", {i \in row.payload : There(i)})
  /\ mixed' = (mixed \/ Busy({"resend"}))
  /\ UNCHANGED <<users, tagged, row, sent, changes, gone>>

StoreNames(c) ==
  /\ call[c].pc = "viewed"
  /\ row' = [row EXCEPT !.names = call[c].got]
  /\ Goto(c, "done")
  /\ UNCHANGED <<users, tagged, sent, changes, gone, mixed>>

(* Resending: both columns are saved, and then the message is sent.          *)
Resend(c) ==
  /\ call[c].pc = "idle" /\ row # NoRow /\ ~Busy({"enqueue"})
  /\ Keep(c, "resend", Parse(row.payload, {}))
  /\ mixed' = (mixed \/ Busy({"viewed", "resend", "resent"}))
  /\ UNCHANGED <<users, tagged, row, sent, changes, gone>>

\* Mutant: the names are not among them.
SaveToOnly(c) ==
  /\ call[c].pc = "resend"
  /\ row' = [row EXCEPT !.to = call[c].got]
  /\ gone' = {i \in Items : ~There(i)}
  /\ Goto(c, "resent")
  /\ UNCHANGED <<users, tagged, sent, changes, mixed>>

SaveRecipients(c) ==
  /\ call[c].pc = "resend"
  /\ row' = [row EXCEPT !.to = call[c].got, !.names = NoNames]
  /\ gone' = {i \in Items : ~There(i)}
  /\ Goto(c, "resent")
  /\ UNCHANGED <<users, tagged, sent, changes, mixed>>

SendAgain(c) ==
  /\ call[c].pc = "resent"
  /\ sent' = call[c].got /\ Goto(c, "done")
  /\ UNCHANGED <<users, tagged, row, changes, gone, mixed>>

-----------------------------------------------------------------------------
(* A user is deleted, with the tags he has; a tag is deleted or put.         *)
Leave ==
  /\ changes < MaxChanges /\ changes' = changes + 1
  /\ \/ \E u \in users : /\ users' = users \ {u}
                         /\ tagged' = [t \in DOMAIN tagged |-> tagged[t] \ {u}]
     \/ /\ UNCHANGED users
        /\ \E t \in DOMAIN tagged : \/ tagged' = [s \in DOMAIN tagged \ {t} |-> tagged[s]]
                                    \/ \E S \in SUBSET users : tagged' = [tagged EXCEPT ![t] = S]
  /\ UNCHANGED <<row, sent, call, gone, mixed>>

MessagesInit ==
  /\ users = People /\ tagged \in [Tags -> {S \in SUBSET People : S # {}}]
  /\ row = NoRow /\ sent = {} /\ call = [c \in Calls |-> Idle]
  /\ changes = 0 /\ gone = {} /\ mixed = FALSE

MessagesNext ==
  \/ \E c \in Calls : Compose(c) \/ SaveMessage(c) \/ Enqueue(c) \/ View(c) \/ StoreNames(c)
                      \/ Resend(c) \/ SaveRecipients(c) \/ SendAgain(c)
  \/ Leave

-----------------------------------------------------------------------------
\* notification_view: a guest is let in whose number is that of a recipient.
MayOpen(u) == u \in users /\ u \in row.to

(* While no resend ran beside another one, those whom the message was sent   *)
(* to last can open it with the link they were sent, as long as they exist.  *)
LinkOpens == ~mixed /\ ~Busy({"resent"}) => \A u \in sent \intersect users : MayOpen(u)

(* While no view ran beside a resend, the names stored for the search are    *)
(* those of users and tags that were there when the message was resent, and  *)
(* of every recipient who was addressed by himself.                          *)
NamesFollowResend ==
  ~mixed /\ row.names # NoNames =>
    /\ row.names \intersect gone = {}
    /\ \A u \in row.payload \intersect users : u \in row.names

(* What is shown, searched and opened follows the message that was resent.   *)
MessageFollowsResend == LinkOpens /\ NamesFollowResend

=============================================================================
