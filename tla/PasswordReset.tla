--------------------------- MODULE PasswordReset ----------------------------
(* A lost password: the page (login.ts) asks for a link, the server caches a *)
(* code for the user and mails it (reset_password.py and                     *)
(* reset_password_email_service.py), and the page posts the link's data with *)
(* the code the user types and his new password.  Calls are served and       *)
(* answered in any order; there is one code per user, and one set of data    *)
(* per page, whatever was asked.                                             *)
EXTENDS Naturals, Sequences, SequencesExt

CONSTANTS
  Owners,          \* the users
  Nobody,
  Validity,        \* CONFIRMATION_CODE_TIMEOUT
  MaxRequests, MaxHours

ASSUME PasswordResetAssumption == Nobody \notin Owners /\ {Validity, MaxRequests, MaxHours} \subseteq Nat \ {0}

VARIABLES
  request,    \* the calls, in the order of the page: where they are, for whom,
              \* the code made or typed
  cachedCode, \* user -> the call whose code the cache has, and until when
  inbox,      \* user -> the codes mailed to him, in this order
  form,       \* resetPasswordData and the user of the newest dialog
  resets,     \* which code reset whose password
  hour,
  disturbed   \* users for whom two calls were under way at once or one failed

resetVars == <<request, cachedCode, inbox, form, resets, hour, disturbed>>

Step(i, at) == request' = [request EXCEPT ![i].at = at]
Codes(u) == IF hour < cachedCode[u].until THEN {cachedCode[u].code} ELSE {}
UnderWay(u) == \E i \in DOMAIN request : request[i].user = u /\ request[i].at \in {"find", "mail"}

-----------------------------------------------------------------------------
\* actionResetPassword
AskLink(u) ==
  /\ Len(request) < MaxRequests
  /\ request' = Append(request, [at |-> "find", user |-> u, code |-> 0])
  /\ disturbed' = IF UnderWay(u) THEN disturbed \union {u} ELSE disturbed
  /\ UNCHANGED <<cachedCode, inbox, form, resets, hour>>

\* Mutant: a code that is there stays, and the new one is mailed.
CacheCodeOnce(i) ==
  /\ request[i].at = "find" /\ Step(i, "mail")
  /\ cachedCode' = IF Codes(request[i].user) # {} THEN cachedCode
                   ELSE [cachedCode EXCEPT ![request[i].user] = [code |-> i, until |-> hour + Validity]]
  /\ UNCHANGED <<inbox, form, resets, hour, disturbed>>

\* The code is cached, then mailed; the mail may fail.
CacheCode(i) ==
  /\ request[i].at = "find" /\ Step(i, "mail")
  /\ cachedCode' = [cachedCode EXCEPT ![request[i].user] = [code |-> i, until |-> hour + Validity]]
  /\ UNCHANGED <<inbox, form, resets, hour, disturbed>>

MailCode(i) ==
  /\ request[i].at = "mail" /\ Step(i, "answer")
  /\ inbox' = [inbox EXCEPT ![request[i].user] = Append(@, i)]
  /\ UNCHANGED <<cachedCode, form, resets, hour, disturbed>>

MailFails(i) ==
  /\ request[i].at = "mail" /\ Step(i, "over")
  /\ disturbed' = disturbed \union {request[i].user}
  /\ UNCHANGED <<cachedCode, inbox, form, resets, hour>>

\* The answer has the data of the link, and opens the dialog.
OpenDialog(i) ==
  /\ request[i].at = "answer" /\ Step(i, "over")
  /\ form' = [data |-> request[i].user, dialogs |-> form.dialogs \union {request[i].user}]
  /\ UNCHANGED <<cachedCode, inbox, resets, hour, disturbed>>

\* The dialog of u posts the data the page has, and the code mailed last.
Confirm(u) ==
  /\ u \in form.dialogs /\ inbox[u] # <<>> /\ Len(request) < MaxRequests
  /\ form' = [form EXCEPT !.dialogs = @ \ {u}]
  /\ request' = Append(request, [at |-> "reset", user |-> form.data,
                                 code |-> Last(inbox[u])])
  /\ UNCHANGED <<cachedCode, inbox, resets, hour, disturbed>>

\* The check compares with the code of the user in the data.  What is deleted
\* after a reset is the key of a field object, and no code.  A refusal opens
\* the dialog again.
ResetPassword(i) ==
  /\ request[i].at = "reset" /\ Step(i, "over")
  /\ LET u == request[i].user
         right == request[i].code \in Codes(u)
     IN /\ resets' = IF right THEN resets \union {[code |-> request[i].code, user |-> u]} ELSE resets
        /\ form' = IF right THEN form ELSE [form EXCEPT !.dialogs = @ \union {u}]
  /\ UNCHANGED <<cachedCode, inbox, hour, disturbed>>

PassHour ==
  /\ hour < MaxHours /\ hour' = hour + 1
  /\ UNCHANGED <<request, cachedCode, inbox, form, resets, disturbed>>

ResetInit ==
  /\ request = <<>> /\ cachedCode = [u \in Owners |-> [code |-> 0, until |-> 0]]
  /\ inbox = [u \in Owners |-> <<>>] /\ form = [data |-> Nobody, dialogs |-> {}]
  /\ resets = {} /\ hour = 0 /\ disturbed = {}

ResetNext ==
  \/ PassHour
  \/ \E u \in Owners : AskLink(u) \/ Confirm(u)
  \/ \E i \in DOMAIN request :
       CacheCode(i) \/ MailCode(i) \/ MailFails(i) \/ OpenDialog(i) \/ ResetPassword(i)

-----------------------------------------------------------------------------
Asked(u) == {i \in DOMAIN request : request[i].user = u /\ request[i].code = 0}

(* A code resets the password of the user it was mailed to and of no other,  *)
(* also when dialogs of two users share the data of one page; and unless     *)
(* calls for him overlapped or failed, the code mailed to a user last is the *)
(* one in the cache until its time is up, and no other code works.           *)
CodeResetsItsUser ==
  /\ \A r \in resets : \E i \in DOMAIN inbox[r.user] : inbox[r.user][i] = r.code
  /\ \A u \in Owners \ disturbed :
       /\ Codes(u) \subseteq Asked(u)
       /\ ~UnderWay(u) /\ hour < cachedCode[u].until => inbox[u] # <<>> /\ Codes(u) = {Last(inbox[u])}

=============================================================================
