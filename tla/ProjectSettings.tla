-------------------------- MODULE ProjectSettings --------------------------
(***************************************************************************)
(* The settings of one project: ProjectSettingsSerializer and -ViewSet     *)
(* (rest/project.py), the events they trigger (base/event.py), the         *)
(* command confirm_setting, and the identities at AWS SES (aws/ses.py).    *)
(* An edit does not change the value of a setting but proposes a pending   *)
(* one; the sender of e-mails becomes active when SES has verified it, the *)
(* sender of SMS when an operator confirms it.                             *)
(*                                                                         *)
(* A request reads its row, calls SES, and writes the row back; requests   *)
(* interleave between these steps.  Confirmations and resets are database  *)
(* transactions: what a reset wrote keeps others from the row until it     *)
(* ends.  The mail to the administrators that every save of a row with     *)
(* action_required sends is left out.                                      *)
(***************************************************************************)
EXTENDS Naturals

CONSTANTS
    Names,          \* of the project's settings
    EmailSender,    \* EMAIL_SENDER_ID_SETTING_NAME
    SmsSender,      \* SMS_SENDER_ID_SETTING_NAME
    Values,         \* of any setting
    Default,        \* the value new projects get
    Wanted,         \* per name, the values users ask for
    NoValue,        \* None; as the value of a row: there is no such row
    Requests,       \* requests and commands under way at the same time
    MaxEdits        \* how often settings are created or edited: bounds the values in use

ASSUME SettingsAssumption ==
    /\ EmailSender # SmsSender
    /\ Default \in Values
    /\ Wanted \in [Names -> SUBSET Values]
    /\ NoValue \notin Values
    /\ MaxEdits \in Nat

VARIABLES
    row,        \* per name, the row of BaseProjectSettings
    identities, \* e-mail addresses SES knows
    verified,   \* those whose owner clicked on the link SES sent
    lock,       \* per name, the transactions that wrote the row and are not committed
    request,    \* per request, what it is doing and is going to write
    edits,
    approved,   \* history: per name, the values that may be active
    nameless    \* history: senders proposed without the name of the setting

vars == <<row, identities, verified, lock, request, edits, approved, nameless>>

OrNone(S) == S \union {NoValue}

Rows == [value : OrNone(Values), pending : OrNone(Values), action : BOOLEAN]

Idle == [at |-> "idle", kind |-> "edit", name |-> EmailSender, operator |-> FALSE,
         write |-> [value |-> NoValue, pending |-> NoValue, action |-> FALSE]]

TypeOK ==
    /\ row \in [Names -> Rows]
    /\ identities \subseteq Values
    /\ verified \subseteq Values
    /\ lock \in [Names -> SUBSET Requests]
    /\ request \in [Requests -> [at : {"idle", "register", "verify", "save", "clear", "commit"},
                                 kind : {"create", "edit", "confirm", "reset"},
                                 name : Names \union {EmailSender}, operator : BOOLEAN, write : Rows]]
    /\ edits \in 0..MaxEdits
    /\ approved \in [Names -> SUBSET Values]
    /\ nameless \subseteq Values

Init ==
    /\ row = [n \in Names |-> Idle.write]
    /\ identities = {}
    /\ verified = {}
    /\ lock = [n \in Names |-> {}]
    /\ request = [r \in Requests |-> Idle]
    /\ edits = 0
    /\ approved = [n \in Names |-> {}]
    /\ nameless = {}

Exists(n) == row[n].value # NoValue

At(r, place) == request[r].at = place
Become(r, s) == request' = [request EXCEPT ![r] = s]
Goto(r, place) == Become(r, [request[r] EXCEPT !.at = place])
Finish(r) == Become(r, Idle)

\* Nobody else's uncommitted write is in the way.
Free(r) == lock[request[r].name] \subseteq {r}

-----------------------------------------------------------------------------
(* Creating and editing *)

\* ProjectViewSet.create, which is no transaction: a failure between the two
\* settings leaves a project without the second one.
CreateDefault(n) ==
    /\ ~Exists(n)
    /\ n \in {EmailSender, SmsSender}
    /\ n = SmsSender /\ EmailSender \in Names => Exists(EmailSender)
    /\ row' = [row EXCEPT ![n] = [value |-> Default, pending |-> NoValue, action |-> FALSE]]
    /\ approved' = [approved EXCEPT ![n] = @ \union {Default}]
    /\ UNCHANGED <<identities, verified, lock, request, edits, nameless>>

\* What ProjectSettingsSerializer.save writes: a new row has the value asked
\* for; an old one keeps the value it was read with, which asked for again
\* withdraws the pending one.
Edited(n, x) ==
    IF Exists(n)
    THEN [row[n] EXCEPT !.pending = IF x = row[n].value THEN NoValue ELSE x]
    ELSE [value |-> x, pending |-> NoValue, action |-> FALSE]

\* named: the name is in the request.  An update of a reserved setting need
\* not name it, and then EmailSenderChangedEvent does not know it.
Edit(r, n, x, named) ==
    /\ At(r, "idle")
    /\ edits < MaxEdits
    /\ edits' = edits + 1
    /\ named \/ (n = EmailSender /\ Exists(n))
    /\ Become(r, [at |-> IF n = EmailSender /\ named THEN "register" ELSE "save",
                  kind |-> IF Exists(n) THEN "edit" ELSE "create",
                  name |-> n, operator |-> FALSE, write |-> Edited(n, x)])
    /\ nameless' = IF named THEN nameless ELSE nameless \union {x}
    /\ UNCHANGED <<row, identities, verified, lock, approved>>

\* Mutant: the active value is registered.
ToRegisterActive(s) == s.write.value

\* The address EmailSenderChangedEvent and ProjectSettingPendingResetEvent
\* pass to add_sender_email.
ToRegister(s) == IF s.kind = "edit" THEN s.write.pending ELSE s.write.value

\* add_sender_email.  Addresses nobody uses are looked for, but
\* remove_sender_email is switched off.
Register(r) ==
    /\ At(r, "register")
    /\ identities' = identities \union ({ToRegister(request[r])} \ {NoValue})
    /\ Goto(r, IF request[r].kind = "reset" THEN "commit" ELSE "save")
    /\ UNCHANGED <<row, verified, lock, edits, approved, nameless>>

\* The whole row is written as it was read, with the new pending value.
SaveEdit(r) ==
    LET s == request[r] IN
    /\ At(r, "save")
    /\ s.kind = "edit"
    /\ Free(r)
    /\ row' = [row EXCEPT ![s.name] = s.write]
    /\ Finish(r)
    /\ UNCHANGED <<identities, verified, lock, edits, approved, nameless>>

\* The name is unique in a project: the second one to create it fails.
SaveNew(r) ==
    LET s == request[r] IN
    /\ At(r, "save")
    /\ s.kind = "create"
    /\ IF Exists(s.name)
       THEN UNCHANGED <<row, approved>>
       ELSE /\ row' = [row EXCEPT ![s.name] = s.write]
            /\ approved' = [approved EXCEPT ![s.name] = @ \union {s.write.value}]
    /\ Finish(r)
    /\ UNCHANGED <<identities, verified, lock, edits, nameless>>

-----------------------------------------------------------------------------
(* ProjectSettingConfirmedEvent, of confirm-setting, and for an operator of *)
(* confirm-setting-active and the command confirm_setting                  *)

\* The pending value of the row that was read is approved, by SES or by the
\* operator whatever it is.
Approve(r) ==
    LET s == request[r]
    IN  approved' = [approved EXCEPT ![s.name] = @ \union ({s.write.value} \ {NoValue})]

\* A setting of any other name, and an SMS sender a user confirms, are left
\* as they are.
Confirm(r, n, operator) ==
    /\ At(r, "idle")
    /\ Exists(n)
    /\ n = EmailSender \/ (n = SmsSender /\ operator)
    /\ Become(r, [at |-> "verify", kind |-> "confirm", name |-> n, operator |-> operator,
                  write |-> [row[n] EXCEPT !.value = row[n].pending, !.pending = NoValue]])
    /\ UNCHANGED <<row, identities, verified, lock, edits, approved, nameless>>

\* list_verified_sender_emails, for a sender of e-mails
Verify(r) ==
    LET s == request[r] IN
    /\ At(r, "verify")
    /\ IF s.operator \/ s.write.value \in verified
       THEN Goto(r, "save") /\ Approve(r)
       ELSE Finish(r) /\ approved' = approved
    /\ UNCHANGED <<row, identities, verified, lock, edits, nameless>>

\* Mutant: the row is read again.
ConfirmedNow(s) == [row[s.name] EXCEPT !.value = row[s.name].pending, !.pending = NoValue]

\* confirm: value and pending_value are written, as they were read
Confirmed(s) == [row[s.name] EXCEPT !.value = s.write.value, !.pending = NoValue]

\* full_clean refuses an empty value, when nothing was pending.
SaveConfirmed(r) ==
    LET s == request[r] IN
    /\ At(r, "save")
    /\ s.kind = "confirm"
    /\ Free(r)
    /\ row' = IF s.write.value = NoValue THEN row ELSE [row EXCEPT ![s.name] = Confirmed(s)]
    /\ Finish(r)
    /\ UNCHANGED <<identities, verified, lock, edits, approved, nameless>>

-----------------------------------------------------------------------------
(* ProjectSettingPendingResetEvent *)

Reset(r, n) ==
    /\ At(r, "idle")
    /\ row[n].pending # NoValue
    /\ Become(r, [at |-> "clear", kind |-> "reset", name |-> n, operator |-> FALSE,
                  write |-> [row[n] EXCEPT !.pending = NoValue]])
    /\ UNCHANGED <<row, identities, verified, lock, edits, approved, nameless>>

\* The first save: uncommitted, it only keeps others from the row.
Clear(r) ==
    LET s == request[r] IN
    /\ At(r, "clear")
    /\ Free(r)
    /\ lock' = [lock EXCEPT ![s.name] = {r}]
    /\ Goto(r, IF s.name = EmailSender THEN "register" ELSE "commit")
    /\ UNCHANGED <<row, identities, verified, edits, approved, nameless>>

\* The value that stays active needs attention: SES has not verified it, or
\* it is a sender of SMS.
NeedsAction(s) == (s.name = EmailSender /\ s.write.value \notin verified) \/ s.name = SmsSender

Commit(r) ==
    LET s == request[r] IN
    /\ At(r, "commit")
    /\ row' = [row EXCEPT ![s.name].pending = NoValue,
                          ![s.name].action = @ \/ NeedsAction(s)]
    /\ lock' = [lock EXCEPT ![s.name] = {}]
    /\ Finish(r)
    /\ UNCHANGED <<identities, verified, edits, approved, nameless>>

-----------------------------------------------------------------------------
(* SES *)

\* A call of SES fails: the request ends, a transaction is rolled back.
SesFails(r) ==
    LET s == request[r] IN
    /\ s.name = EmailSender
    /\ s.at \in {"register", "verify", "commit"}
    /\ lock' = [n \in Names |-> lock[n] \ {r}]
    /\ Finish(r)
    /\ UNCHANGED <<row, identities, verified, edits, approved, nameless>>

\* The owner of the address follows the link SES sent when it was added.
OwnerVerifies(x) ==
    /\ x \in identities \ verified
    /\ verified' = verified \union {x}
    /\ UNCHANGED <<row, identities, lock, request, edits, approved, nameless>>

-----------------------------------------------------------------------------
Step(r) ==
    \/ Register(r) \/ SaveEdit(r) \/ SaveNew(r)
    \/ Verify(r) \/ SaveConfirmed(r)
    \/ Clear(r) \/ Commit(r)

Next ==
    \/ \E n \in Names : CreateDefault(n)
    \/ \E r \in Requests :
          \/ \E n \in Names :
                \/ \E x \in Wanted[n], named \in BOOLEAN : Edit(r, n, x, named)
                \/ \E operator \in BOOLEAN : Confirm(r, n, operator)
                \/ Reset(r, n)
          \/ Step(r)
          \/ SesFails(r)
    \/ \E x \in Values : OwnerVerifies(x)

Spec == Init /\ [][Next]_vars

(***************************************************************************)
(* Requests go on: a row that is locked is free again and again (SF of     *)
(* Step), and SES does not fail for ever (SF of Verify).  Owners verify    *)
(* their addresses, and whoever proposed one confirms it again and again.  *)
(***************************************************************************)
Fairness ==
    /\ \A r \in Requests : SF_vars(Step(r))
    /\ SF_vars(\E r \in Requests : Confirm(r, EmailSender, FALSE))
    /\ SF_vars(\E r \in Requests : Verify(r) /\ request[r].name = EmailSender)
    /\ \A x \in Values : WF_vars(OwnerVerifies(x))

FairSpec == Spec /\ Fairness

-----------------------------------------------------------------------------
(* Properties *)

\* The active value is one the row was created with, one SES had verified when
\* it was confirmed, or one an operator confirmed: stale rows written back by
\* overlapping edits, confirmations and resets never activate another one.
ActiveWasApproved == \A n \in Names : Exists(n) => row[n].value \in approved[n]

\* A pending sender is an address SES knows, so that its owner can verify it,
\* whatever failed at SES on the way; unless it was proposed without a name.
PendingIsRegistered ==
    EmailSender \in Names => row[EmailSender].pending \in OrNone(identities \union nameless)

\* The two together: no order of edits, confirmations and resets puts a value in
\* use that nobody approved, or proposes an address SES does not know.
SettingsAreRight == ActiveWasApproved /\ PendingIsRegistered

Unsettled == EmailSender \in Names /\ row[EmailSender].pending \notin OrNone(nameless)

\* A sender of e-mails that is proposed does not stay pending for ever: when
\* nobody edits it any more it is confirmed, withdrawn or reset.
ProposalSettles == Unsettled ~> ~Unsettled

-----------------------------------------------------------------------------
(* The inductive invariant of ProjectSettingsProofs *)

\* What a request is about to write: a value that is approved, and a pending
\* sender SES knows.
WriteIsApproved(s) ==
    s.at # "idle" =>
        /\ s.name \in Names
        /\ s.kind \in {"edit", "reset"} => s.write.value \in OrNone(approved[s.name])
        /\ s.kind = "confirm" /\ s.at = "save" => s.write.value \in OrNone(approved[s.name])
        /\ s.kind \in {"create", "confirm", "reset"} => s.write.pending = NoValue
        /\ s.kind = "create" => s.write.value # NoValue
        /\ s.kind = "edit" => s.at \in {"register", "save"}
        /\ s.kind = "confirm" => s.at \in {"verify", "save"}
        /\ s.kind = "edit" /\ s.name = EmailSender /\ s.at = "save"
              => s.write.pending \in OrNone(identities \union nameless)

SettingsInv ==
    /\ TypeOK
    /\ ActiveWasApproved
    /\ PendingIsRegistered
    /\ \A r \in Requests : WriteIsApproved(request[r])
=============================================================================
