------------------------------ MODULE Profiles ------------------------------
(***************************************************************************)
(* The row of a user's profile, its copy in the user cache                 *)
(* (UsersCachingBackend, base/auth_backends.py), the session of its owner, *)
(* and who changes them: the requests of the owner (ProfileViewSet,        *)
(* rest/profile.py; ChangePasswordViewSet, rest/account.py), the requests  *)
(* of the staff, and the command delete_users.                             *)
(*                                                                         *)
(* A request works on the copy of the row that the backend gave it as      *)
(* request.user.  Handlers either save the whole of this copy, or named    *)
(* columns only (update_fields); each save is followed by a signal that    *)
(* drops the cached copy.  Requests interleave between these steps.  In a  *)
(* transaction the signal comes before the commit, and until the commit    *)
(* the row is locked.  Of a row only the columns that these handlers save  *)
(* separately are kept; a user is active and has one session.              *)
(***************************************************************************)
EXTENDS Naturals

CONSTANTS
    Users,
    Emails,
    Address,        \* the first e-mail address of each user
    None,           \* no row, no copy, no user, no address
    Requests,       \* that are handled at the same time
    Delta,          \* DELETE_PROFILE_TIMEDELTA
    Validity,       \* CONFIRMATION_CODE_TIMEOUT
    MaxTime,        \* bounds the clock
    MaxRequests     \* bounds the requests that are made

ASSUME ProfilesAssumption ==
    /\ Address \in [Users -> Emails]
    /\ None \notin Users \union Emails
    /\ None \notin [email : Emails, deleteAt : Nat, invalid : BOOLEAN]
    /\ {Delta, Validity} \subseteq Nat
    /\ MaxTime \in Nat \ {0}
    /\ MaxRequests \in Nat

VARIABLES
    row,        \* per user, the row of the profile and its parent user
    cached,     \* per user, the copy under USER_CACHE_KEY
    session,    \* per user, the session with the addresses that wait for their code
    form,       \* per user, password_invalid in the form of the page he has open
    req,        \* per request, what it does and holds
    doomed,     \* users that delete_users has read and not yet come to
    now,
    made,
    asked,      \* history: the row as the calls of its owner and the staff meant it
    mailed,     \* history: per user, when an address was sent a code not yet used, or 0
    mixed       \* history: users of whom two calls overlapped, one of them a change
                \*   (delete_users is a call too, and finding a copy an overlap; a form
                \*   that is posted is one with the change it does not show)

vars == <<row, cached, session, form, req, doomed, now, made, asked, mailed, mixed>>

Rows == [email : Emails, deleteAt : Nat, invalid : BOOLEAN]     \* deleteAt = 0 is NULL
OrNone(S) == S \union {None}

LoggedOut == [live |-> FALSE, codes |-> {}]

NoMail == [e \in Emails |-> 0]

Idle == [at |-> "idle", op |-> "read", user |-> None, email |-> None, invalid |-> FALSE,
         copy |-> None, codes |-> {}]

Saving == {"update", "password"}                \* save all of request.user
Columns == {"mark", "invalidate", "validate"}   \* save one column at once
Atomic == {"confirm", "restore"}                \* save one column in a transaction

Places == {"idle", "lookup", "load", "fill", "handle", "saved", "commit", "answer"}
Ops == {"read", "destroy"} \union Saving \union Columns \union Atomic

Works == [at : Places, op : Ops, user : OrNone(Users), email : OrNone(Emails), invalid : BOOLEAN,
          copy : OrNone(Rows), codes : SUBSET Emails]

TypeOK ==
    /\ row \in [Users -> OrNone(Rows)]
    /\ cached \in [Users -> OrNone(Rows)]
    /\ session \in [Users -> [live : BOOLEAN, codes : SUBSET Emails]]
    /\ form \in [Users -> BOOLEAN]
    /\ req \in [Requests -> Works]
    /\ doomed \subseteq Users
    /\ now \in 1..MaxTime
    /\ made \in 0..MaxRequests
    /\ asked \in [Users -> OrNone(Rows)]
    /\ mailed \in [Users -> [Emails -> 0..MaxTime]]
    /\ mixed \subseteq Users

Init ==
    /\ row = [u \in Users |-> [email |-> Address[u], deleteAt |-> 0, invalid |-> FALSE]]
    /\ cached = [u \in Users |-> None]
    /\ session = [u \in Users |-> LoggedOut]
    /\ form = [u \in Users |-> FALSE]
    /\ req = [r \in Requests |-> Idle]
    /\ doomed = {}
    /\ now = 1
    /\ made = 0
    /\ asked = row
    /\ mailed = [u \in Users |-> NoMail]
    /\ mixed = {}

At(r, place) == req[r].at = place
Become(r, s) == req' = [req EXCEPT ![r] = s]
Go(r, place) == Become(r, [req[r] EXCEPT !.at = place])
Answered(r) == Become(r, Idle)

Mailed(u) == {e \in Emails : mailed[u][e] # 0}
InTime(u) == {e \in Mailed(u) : now < mailed[u][e] + Validity}

Busy(u) == \E r \in Requests : req[r].user = u
Locked(u) == \E r \in Requests : req[r].user = u /\ At(r, "commit")
Drop(u) == cached' = [cached EXCEPT ![u] = None]

Put(table, u, value) == [table EXCEPT ![u] = value]

\* What a save of one column makes of a row, None if there is no row to update.
Changed(r, old) ==
    IF old = None THEN None
    ELSE CASE req[r].op = "mark" -> [old EXCEPT !.deleteAt = now + Delta]
           [] req[r].op = "restore" -> [old EXCEPT !.deleteAt = 0]
           [] req[r].op = "confirm" -> [old EXCEPT !.email = req[r].email]
           [] OTHER -> [old EXCEPT !.invalid = (req[r].op = "invalidate")]

-----------------------------------------------------------------------------
(* A request comes in, and the backend looks for request.user. *)

Changing(u) == \E q \in Requests : req[q].user = u /\ req[q].op # "read"

Overlaps(u, op) == Changing(u) \/ (op # "read" /\ (Busy(u) \/ u \in doomed))

\* A posted form does not show the password_invalid of the row.
Outdated(s) == s.op = "update" /\ row[s.user] # None /\ s.invalid # row[s.user].invalid

Arrive(r, s) ==
    /\ At(r, "idle")
    /\ made < MaxRequests
    /\ made' = made + 1
    /\ Become(r, s)
    /\ mixed' = IF Overlaps(s.user, s.op) \/ Outdated(s) THEN mixed \union {s.user} ELSE mixed
    /\ UNCHANGED <<row, cached, session, form, doomed, now, asked, mailed>>

\* The owner, by the session.  password_invalid is a field of the form that is
\* posted with every update.
Call(r, u, op, e) ==
    /\ session[u].live
    /\ op = "confirm" => e # None
    /\ op \notin {"confirm", "update"} => e = None
    /\ Arrive(r, [Idle EXCEPT !.at = "lookup", !.op = op, !.user = u, !.email = e,
                             !.invalid = (op = "update" /\ form[u]), !.codes = session[u].codes])

\* The staff, whose requests hold no copy of this user.
Manage(r, u, op) ==
    Arrive(r, [Idle EXCEPT !.at = "handle", !.op = op, !.user = u])

Lookup(r) ==
    LET hit == cached[req[r].user] IN
    /\ At(r, "lookup")
    /\ Become(r, [req[r] EXCEPT !.at = IF hit = None THEN "load" ELSE "handle", !.copy = hit])
    /\ UNCHANGED <<row, cached, session, form, doomed, now, made, asked, mailed, mixed>>

\* Without a row the request is anonymous and is refused.
Load(r) ==
    LET found == row[req[r].user] IN
    /\ At(r, "load")
    /\ IF found = None THEN Answered(r)
       ELSE Become(r, [req[r] EXCEPT !.at = "fill", !.copy = found])
    /\ UNCHANGED <<row, cached, session, form, doomed, now, made, asked, mailed, mixed>>

Fill(r) ==
    /\ At(r, "fill")
    /\ cached' = [cached EXCEPT ![req[r].user] = req[r].copy]
    /\ Go(r, "handle")
    /\ UNCHANGED <<row, session, form, doomed, now, made, asked, mailed, mixed>>

-----------------------------------------------------------------------------
(* The handlers. *)

\* The page may open its form with the answer.
Read(r) ==
    /\ At(r, "handle")
    /\ req[r].op = "read"
    /\ Answered(r)
    /\ \/ form' = Put(form, req[r].user, req[r].copy.invalid)
       \/ UNCHANGED form
    /\ UNCHANGED <<row, cached, session, doomed, now, made, asked, mailed, mixed>>

\* What update_current_profile or set_password make of the copy.
ToSave(s) == IF s.op = "update" THEN [s.copy EXCEPT !.invalid = s.invalid] ELSE s.copy

\* A save of all columns inserts the row if it is no longer there.
SaveAll(r) ==
    /\ At(r, "handle")
    /\ req[r].op \in Saving
    /\ ~Locked(req[r].user)
    /\ row' = Put(row, req[r].user, ToSave(req[r]))
    /\ Go(r, "saved")
    /\ UNCHANGED <<cached, session, form, doomed, now, made, asked, mailed, mixed>>

SaveColumn(r) ==
    LET u == req[r].user IN
    /\ At(r, "handle")
    /\ req[r].op \in Columns
    /\ row[u] # None
    /\ ~Locked(u)
    /\ row' = Put(row, u, Changed(r, row[u]))
    /\ asked' = Put(asked, u, Changed(r, asked[u]))
    /\ Go(r, "saved")
    /\ UNCHANGED <<cached, session, form, doomed, now, made, mailed, mixed>>

Destroy(r) ==
    LET u == req[r].user IN
    /\ At(r, "handle")
    /\ req[r].op = "destroy"
    /\ row[u] # None
    /\ ~Locked(u)
    /\ row' = Put(row, u, None)
    /\ asked' = Put(asked, u, None)
    /\ Go(r, "saved")
    /\ UNCHANGED <<cached, session, form, doomed, now, made, mailed, mixed>>

\* Mutant: no backend listens to the signals.
InvalidateUnheard(r) ==
    LET u == req[r].user IN
    /\ At(r, "saved")
    /\ IF req[r].op = "password"
       THEN /\ Become(r, [req[r] EXCEPT !.at = "handle", !.op = "validate"])
            /\ session' = Put(session, u, LoggedOut)
       ELSE /\ Go(r, "answer")
            /\ UNCHANGED session
    /\ UNCHANGED <<row, cached, form, doomed, now, made, asked, mailed, mixed>>

\* The handler of a changed password renews the session and goes on to save
\* that the password is valid.
Invalidate(r) ==
    LET u == req[r].user IN
    /\ At(r, "saved")
    /\ Drop(u)
    /\ IF req[r].op = "password"
       THEN /\ Become(r, [req[r] EXCEPT !.at = "handle", !.op = "validate"])
            /\ session' = Put(session, u, LoggedOut)
       ELSE /\ Go(r, "answer")
            /\ UNCHANGED session
    /\ UNCHANGED <<row, form, doomed, now, made, asked, mailed, mixed>>

\* Mutant: an update of the queryset, which sends no signal.
UpdateInTransaction(r) ==
    LET u == req[r].user IN
    /\ At(r, "handle")
    /\ req[r].op \in Atomic
    /\ req[r].op = "confirm" => req[r].email \in req[r].codes
    /\ row[u] # None
    /\ ~Locked(u)
    /\ Go(r, "commit")
    /\ UNCHANGED <<row, cached, session, form, doomed, now, made, asked, mailed, mixed>>

SaveInTransaction(r) ==
    LET u == req[r].user IN
    /\ At(r, "handle")
    /\ req[r].op \in Atomic
    /\ req[r].op = "confirm" => req[r].email \in req[r].codes
    /\ row[u] # None
    /\ ~Locked(u)
    /\ Drop(u)
    /\ Go(r, "commit")
    /\ UNCHANGED <<row, session, form, doomed, now, made, asked, mailed, mixed>>

Commit(r) ==
    LET u == req[r].user IN
    /\ At(r, "commit")
    /\ row' = Put(row, u, Changed(r, row[u]))
    /\ asked' = Put(asked, u, Changed(r, asked[u]))
    /\ mailed' = IF req[r].op = "confirm" THEN [mailed EXCEPT ![u][req[r].email] = 0] ELSE mailed
    /\ Go(r, "answer")
    /\ UNCHANGED <<cached, session, form, doomed, now, made, mixed>>

\* The row is gone, or the code is not one of the session.
Fail(r) ==
    /\ At(r, "handle")
    /\ \/ req[r].op \notin Saving \union {"read"} /\ row[req[r].user] = None
       \/ req[r].op = "confirm" /\ req[r].email \notin req[r].codes
    /\ Answered(r)
    /\ UNCHANGED <<row, cached, session, form, doomed, now, made, asked, mailed, mixed>>

-----------------------------------------------------------------------------
(* The answer, with which the session is stored. *)

\* A session that was flushed in the meantime is not stored again.
Store(u, codes) ==
    session' = IF session[u].live THEN [session EXCEPT ![u].codes = codes] ELSE session

Asks(r) == req[r].op = "update" /\ req[r].email \notin {None, req[r].copy.email}

\* The code for a new address is mailed; when that fails, the session is not stored.
AnswerNewEmail(r) ==
    LET u == req[r].user IN
    /\ At(r, "answer")
    /\ Asks(r)
    /\ \/ /\ mailed' = [mailed EXCEPT ![u][req[r].email] = now]
          /\ Store(u, req[r].codes \union {req[r].email})
       \/ UNCHANGED <<mailed, session>>
    /\ Answered(r)
    /\ UNCHANGED <<row, cached, form, doomed, now, made, asked, mixed>>

\* Mutant: the code stays in the session.
AnswerConfirmKeeps(r) ==
    /\ At(r, "answer")
    /\ req[r].op = "confirm"
    /\ Store(req[r].user, req[r].codes)
    /\ Answered(r)
    /\ UNCHANGED <<row, cached, form, doomed, now, made, asked, mailed, mixed>>

AnswerConfirm(r) ==
    /\ At(r, "answer")
    /\ req[r].op = "confirm"
    /\ Store(req[r].user, req[r].codes \ {req[r].email})
    /\ Answered(r)
    /\ UNCHANGED <<row, cached, form, doomed, now, made, asked, mailed, mixed>>

AnswerMark(r) ==
    LET u == req[r].user IN
    /\ At(r, "answer")
    /\ req[r].op = "mark"
    /\ session' = Put(session, u, LoggedOut)
    /\ mailed' = Put(mailed, u, NoMail)
    /\ Answered(r)
    /\ UNCHANGED <<row, cached, form, doomed, now, made, asked, mixed>>

\* The request of the owner, which holds a copy, goes on with a new session.
AnswerPassword(r) ==
    /\ At(r, "answer")
    /\ req[r].op = "validate"
    /\ session' = Put(session, req[r].user, [live |-> TRUE, codes |-> req[r].codes])
    /\ Answered(r)
    /\ UNCHANGED <<row, cached, form, doomed, now, made, asked, mailed, mixed>>

AnswerOther(r) ==
    /\ At(r, "answer")
    /\ ~Asks(r)
    /\ req[r].op \in {"update", "restore", "invalidate", "destroy"}
    /\ Answered(r)
    /\ UNCHANGED <<row, cached, session, form, doomed, now, made, asked, mailed, mixed>>

-----------------------------------------------------------------------------
(* Login, the cache's own timeout, the command, and time. *)

\* The time of the login is saved in a column of its own; a session of the
\* same user goes on with what it holds.
Login(u) ==
    /\ row[u] # None
    /\ ~Locked(u)
    /\ Drop(u)
    /\ session' = [session EXCEPT ![u].live = TRUE]
    /\ mixed' = IF Busy(u) THEN mixed \union {u} ELSE mixed
    /\ UNCHANGED <<row, form, req, doomed, now, made, asked, mailed>>

\* Once the copy is gone and nobody works on the user, the history starts over.
Expire(u) ==
    /\ cached[u] # None
    /\ Drop(u)
    /\ IF Busy(u) \/ u \in doomed THEN UNCHANGED <<asked, mailed, mixed>>
       ELSE /\ asked' = Put(asked, u, row[u])
            /\ mailed' = Put(mailed, u, [e \in Emails |-> IF e \notin session[u].codes THEN 0
                                                       ELSE IF e \in Mailed(u) THEN mailed[u][e] ELSE now])
            /\ mixed' = mixed \ {u}
    /\ UNCHANGED <<row, session, form, req, doomed, now, made>>

Due(profile) == profile # None /\ profile.deleteAt # 0 /\ profile.deleteAt < now

ReadDue ==
    /\ doomed = {}
    /\ doomed' = {u \in Users : Due(row[u])}
    /\ mixed' = mixed \union {u \in doomed' : Changing(u)}
    /\ UNCHANGED <<row, cached, session, form, req, now, made, asked, mailed>>

\* The command does not look at the row again, and in its process nothing
\* listens to the signals that drop the copy.  What was asked for is the
\* deletion of a marked profile only.
DeleteDue(u) ==
    /\ u \in doomed
    /\ ~Locked(u)
    /\ row' = Put(row, u, None)
    /\ asked' = IF Due(asked[u]) THEN Put(asked, u, None) ELSE asked
    /\ doomed' = doomed \ {u}
    /\ mixed' = IF Busy(u) \/ cached[u] # None THEN mixed \union {u} ELSE mixed
    /\ UNCHANGED <<cached, session, form, req, now, made, mailed>>

\* What a delete raises is logged.
SkipDue(u) ==
    /\ u \in doomed
    /\ doomed' = doomed \ {u}
    /\ UNCHANGED <<row, cached, session, form, req, now, made, asked, mailed, mixed>>

Tick ==
    /\ now < MaxTime
    /\ now' = now + 1
    /\ UNCHANGED <<row, cached, session, form, req, doomed, made, asked, mailed, mixed>>

-----------------------------------------------------------------------------

Handle(r) ==
    \/ Lookup(r) \/ Load(r) \/ Fill(r)
    \/ Read(r) \/ SaveAll(r) \/ SaveColumn(r) \/ Destroy(r) \/ Invalidate(r)
    \/ SaveInTransaction(r) \/ Commit(r) \/ Fail(r)
    \/ AnswerNewEmail(r) \/ AnswerConfirm(r) \/ AnswerMark(r) \/ AnswerPassword(r) \/ AnswerOther(r)

Next ==
    \/ \E r \in Requests, u \in Users :
         \/ \E op \in {"read", "mark"} \union Saving \union Atomic, e \in OrNone(Emails) : Call(r, u, op, e)
         \/ \E op \in {"invalidate", "destroy"} : Manage(r, u, op)
    \/ \E r \in Requests : Handle(r)
    \/ \E u \in Users : Login(u) \/ Expire(u) \/ DeleteDue(u) \/ SkipDue(u)
    \/ ReadDue
    \/ Tick

Spec == Init /\ [][Next]_vars

-----------------------------------------------------------------------------
(* Properties *)

\* As long as no two calls for a user overlap, and delete_users finds no copy
\* of him, his row is what the calls made of it: no save of a copy takes back
\* a change of the e-mail, the mark for deletion or the invalid password, or
\* brings back a deleted profile, and only marked profiles are deleted
\* (profile.py:485-635, delete_users.py:12-22).  An update by a form counts
\* from when the form was opened: one posted after the staff's invalidation
\* and opened before takes it back (profile.py:122, 488-490).
RowIsAsAsked ==
    \A u \in Users \ mixed : row[u] = asked[u]

\* Under the same condition the cached copy of the user is his row, but
\* between a save and the signal that drops it (auth_backends.py:11-49).
CacheIsRow ==
    \A u \in Users \ mixed :
        cached[u] \in {None, row[u]} \/ \E r \in Requests : req[r].user = u /\ At(r, "saved")

\* Under the same condition and between the calls of a user, his session
\* holds no address but those to which a code was mailed that he has not used,
\* and each of them at least as long as the mail says the code is valid
\* (profile.py:478-533).  The session keeps it beyond that time, to be used still.
CodesAreMailed ==
    \A u \in Users \ mixed :
        ~Busy(u) => InTime(u) \subseteq session[u].codes /\ session[u].codes \subseteq Mailed(u)

(* What makes them inductive *)

Owners(r) == req[r].op \notin {"read", "invalidate", "destroy"}

RequestInv(r) ==
    /\ At(r, "idle") <=> req[r].user = None
    /\ At(r, "saved") => req[r].op \in Saving \union Columns \union {"destroy"}
    /\ At(r, "commit") => req[r].op \in Atomic
    /\ req[r].op = "confirm" => req[r].email # None
    /\ At(r, "answer") => req[r].op # "read"
    /\ At(r, "fill") \/ (At(r, "handle") /\ req[r].op \in Saving \union {"read"}) => req[r].copy # None

\* Calls that change something for the user are alone with him.
Alone(u) ==
    \A q, r \in Requests :
        q # r /\ req[q].user = u /\ req[r].user = u => req[q].op = "read"

\* A request whose copy may still be cached or saved, or has just been saved.
Holds(r) ==
    \/ At(r, "fill")
    \/ At(r, "handle") /\ req[r].op \in Saving
    \/ At(r, "saved") /\ req[r].op = "password"

\* A request that has a form to save.
Posts(r) == req[r].op = "update" /\ req[r].at \in {"lookup", "load", "fill", "handle"}

\* Every copy of the row that may be cached or saved is the row, and so is
\* what a form shows of it.
CopiesInv(u) ==
    /\ row[u] = asked[u]
    /\ cached[u] \in {None, row[u]} \/ \E r \in Requests : req[r].user = u /\ At(r, "saved")
    /\ \A r \in Requests : req[r].user = u =>
         /\ At(r, "commit") => cached[u] = None
         /\ Holds(r) => req[r].copy = row[u]
         /\ Posts(r) /\ row[u] # None => req[r].invalid = row[u].invalid
         /\ Holds(r) \/ req[r].op = "validate" => row[u] # None
    /\ u \in doomed => Due(row[u]) /\ ~Changing(u)

\* Every copy of the session that may be stored is the session, but for the
\* code that was just used, and for a session that is being renewed.
SessionInv(u) ==
    /\ \/ session[u].codes = Mailed(u)
       \/ \E r \in Requests : /\ req[r].user = u
                              /\ req[r].op = "validate" \/ (req[r].op = "confirm" /\ At(r, "answer"))
    /\ \A r \in Requests : req[r].user = u /\ Owners(r) =>
         /\ req[r].op # "validate" => session[u].live
         /\ Mailed(u) = IF req[r].op = "confirm" /\ At(r, "answer") THEN req[r].codes \ {req[r].email} ELSE req[r].codes

UserInv(u) == Alone(u) /\ CopiesInv(u) /\ SessionInv(u)

\* The inductive invariant: where a request may be, and what holds for users
\* whose calls do not overlap.
ProfilesInv ==
    /\ TypeOK
    /\ \A r \in Requests : RequestInv(r)
    /\ \A u \in Users \ mixed : UserInv(u)
=============================================================================
