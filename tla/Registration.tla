---------------------------- MODULE Registration ----------------------------
(***************************************************************************)
(* Registration, its verification by a code, login, and invitations.  A    *)
(* browser gets a flow (the cookie register-flow), under which a code is   *)
(* cached; the registration mails the code to the new user and caches the  *)
(* user under the code, both before its transaction commits.  Who knows    *)
(* the code is activated and logged in.                                    *)
(*                                                                         *)
(* There is one invitation, to the first project.  Its link is opened by   *)
(* anyone; who is not logged in then joins when he logs in or registers.   *)
(***************************************************************************)
EXTENDS AccountTables

VARIABLES
    flow,       \* per browser, the flow of its cookie, and the user cached under its code
    invite,     \* "open" or "accepted"
    mailed,     \* history: users who were mailed the code of their flow
    unchecked,  \* history: users whose address no registration checked
    given,      \* history: users made by the staff
    twins,      \* history: two registrations or two acceptances overlapped
    joined      \* history: users who accepted the invitation

registrationVars == <<flow, invite, mailed, unchecked, given, twins, joined>>

InitRegistration ==
    /\ flow = [b \in Browsers |-> None]
    /\ invite = "open"
    /\ mailed = {}
    /\ unchecked = {}
    /\ given = {}
    /\ twins = {}
    /\ joined = {}

\* UserInviteFoundEvent: its accesses to the database are in no transaction,
\* but in a registration.
Joining(c) == call[c].op # "edit" /\ call[c].at \in {"invited", "member", "read", "save row", "accept"}

Unused == Users \ born

-----------------------------------------------------------------------------
(* ProfileViewSet.register_account and create_new_account *)

\* A new code in a new cookie; the entries of an older one stay in the cache
\* but are out of reach.
Form(b) ==
    /\ made < MaxCalls
    /\ made' = made + 1
    /\ flow' = [flow EXCEPT ![b] = [id |-> made, user |-> None]]
    /\ UNCHANGED <<tables, session, call, invite, mailed, unchecked, given, twins, joined>>

Registers(c) == call[c].op = "register"

Register(c, b, e) ==
    /\ Begin(c, [Idle EXCEPT !.at = "address", !.op = "register", !.by = b, !.email = e, !.flow = flow[b]])
    /\ twins' = IF \E d \in Calls : Registers(d) THEN twins \union {"register"} ELSE twins
    /\ UNCHANGED <<tables, session, flow, invite, mailed, unchecked, given, joined>>

\* Mutant: only active users count.
TakenByActive(e) == \E u \in Users : Exists(u) /\ user[u].email = e /\ user[u].active

Taken(e) == \E u \in Users : Exists(u) /\ user[u].email = e

\* The user gets his key; until the commit nobody sees his row.  With an
\* invitation in the session no code is mailed, and nothing activates the user.
CheckAddress(c) ==
    /\ At(c, "address")
    /\ \/ /\ Taken(call[c].email)
          /\ Answered(c)
          /\ UNCHANGED born
       \/ \E u \in Unused :
            /\ ~Taken(call[c].email)
            /\ born' = born \union {u}
            /\ Become(c, [call[c] EXCEPT !.on = u,
                            !.at = IF session[call[c].by].invite THEN "invited"
                                   ELSE IF call[c].flow # None THEN "mail" ELSE "save"])
    /\ UNCHANGED <<user, row, session, made, registrationVars>>

\* Of a registration, the mail may fail and roll it back.
Mail(c) ==
    /\ At(c, "mail")
    /\ \/ Go(c, "cache") /\ mailed' = mailed \union {<<call[c].on, call[c].flow.id>>}
       \/ Answered(c) /\ UNCHANGED mailed
    /\ UNCHANGED <<tables, session, made, flow, invite, unchecked, given, twins, joined>>

\* Mutant: the user is cached before the code is mailed.
CacheUserUnmailed(c) ==
    LET b == call[c].by IN
    /\ At(c, "mail")
    /\ flow' = IF flow[b] = None \/ flow[b].id # call[c].flow.id THEN flow ELSE [flow EXCEPT ![b].user = call[c].on]
    /\ IF Registers(c) THEN Go(c, "save") ELSE Answered(c)
    /\ UNCHANGED <<tables, session, made, invite, mailed, unchecked, given, twins, joined>>

CacheUser(c) ==
    LET b == call[c].by IN
    /\ At(c, "cache")
    /\ flow' = IF flow[b] = None \/ flow[b].id # call[c].flow.id THEN flow ELSE [flow EXCEPT ![b].user = call[c].on]
    /\ IF Registers(c) THEN Go(c, "save") ELSE Answered(c)
    /\ UNCHANGED <<tables, session, made, invite, mailed, unchecked, given, twins, joined>>

\* The commit, or a crash before it: the user stays in the cache.
Save(c) ==
    /\ At(c, "save")
    /\ \/ user' = [user EXCEPT ![call[c].on] = [email |-> call[c].email, active |-> FALSE]]
       \/ UNCHANGED user
    /\ Answered(c)
    /\ UNCHANGED <<row, born, session, made, registrationVars>>

\* The invitation of the session, in the same transaction.
SaveInvited(c) ==
    LET u == call[c].on IN
    /\ At(c, "invited")
    /\ Registers(c)
    /\ user' = [user EXCEPT ![u] = [email |-> call[c].email, active |-> FALSE]]
    /\ IF invite = "accepted" THEN UNCHANGED <<row, born, session, invite, joined>>
       ELSE \E k \in Rows \ born :
              /\ row' = [row EXCEPT ![k] = [user |-> u, project |-> Main]]
              /\ born' = born \union {k}
              /\ session' = [session EXCEPT ![call[c].by].invite = FALSE]
              /\ invite' = "accepted"
              /\ joined' = joined \union {u}
    /\ twins' = IF \E d \in Calls \ {c} : Joining(d)
                THEN twins \union {"accept"} ELSE twins
    /\ Answered(c)
    /\ UNCHANGED <<made, flow, mailed, unchecked, given>>

-----------------------------------------------------------------------------
(* VerifyRegistrationViewSet *)

\* The code of the flow is given back.
Verify(c, b) ==
    /\ flow[b] # None
    /\ flow[b].user # None
    /\ Begin(c, [Idle EXCEPT !.at = "activate", !.op = "verify", !.by = b, !.on = flow[b].user])
    /\ UNCHANGED <<tables, session, registrationVars>>

\* The cached user is saved in one column; login() follows, and deletes the
\* cookie, but not the code.
Activate(c) ==
    LET u == call[c].on IN
    /\ At(c, "activate")
    /\ IF Exists(u)
       THEN /\ user' = [user EXCEPT ![u].active = TRUE]
            /\ session' = [session EXCEPT ![call[c].by].user = u]
            /\ flow' = [flow EXCEPT ![call[c].by] = None]
            /\ Go(c, "find")
       ELSE Answered(c) /\ UNCHANGED <<user, session, flow>>
    /\ UNCHANGED <<row, born, made, invite, mailed, unchecked, given, twins, joined>>

\* Another address for the user, which is not checked; the same code again.
ChangeEmail(c, b, e) ==
    /\ flow[b] # None
    /\ flow[b].user # None
    /\ Begin(c, [Idle EXCEPT !.at = "change", !.op = "change", !.by = b, !.on = flow[b].user,
                             !.email = e, !.flow = flow[b]])
    /\ UNCHANGED <<tables, session, registrationVars>>

SaveEmail(c) ==
    LET u == call[c].on IN
    /\ At(c, "change")
    /\ IF Exists(u)
       THEN /\ user' = [user EXCEPT ![u].email = call[c].email]
            /\ unchecked' = unchecked \union {u}
            /\ Go(c, "mail")
       ELSE Answered(c) /\ UNCHANGED <<user, unchecked>>
    /\ UNCHANGED <<row, born, session, made, flow, invite, mailed, given, twins, joined>>

\* CONFIRMATION_CODE_TIMEOUT
Expire(b) ==
    /\ made < MaxCalls
    /\ flow[b] # None
    /\ made' = made + 1
    /\ flow' = [flow EXCEPT ![b] = None]
    /\ UNCHANGED <<tables, session, call, invite, mailed, unchecked, given, twins, joined>>

-----------------------------------------------------------------------------
(* Login, invitations, and users made by the staff *)

\* The session of somebody else is flushed, with the invitation it holds.
Login(c, b, u) ==
    /\ Exists(u) /\ user[u].active
    /\ Begin(c, [Idle EXCEPT !.at = "find", !.by = b, !.on = u])
    /\ session' = [session EXCEPT ![b] =
                     [user |-> u, invite |-> @.invite /\ @.user \in {None, u}]]
    /\ UNCHANGED <<tables, registrationVars>>

\* After the login: LoginViewset reads the user again.
Welcome(c) ==
    /\ At(c, "welcome")
    /\ IF call[c].op = "login" /\ session[call[c].by].invite /\ Exists(call[c].on)
       THEN Go(c, "invited") ELSE Answered(c)
    /\ UNCHANGED <<tables, session, made, registrationVars>>

\* ProjectUserInviteViewSet.update: another invitation, when nobody is busy
\* with the one that was accepted.
Invite(b) ==
    /\ made < MaxCalls
    /\ LoggedIn(b)
    /\ invite = "accepted"
    /\ \A c \in Calls : ~Joining(c)
    /\ made' = made + 1
    /\ invite' = "open"
    /\ joined' = {}
    /\ UNCHANGED <<tables, session, call, flow, mailed, unchecked, given, twins>>

\* The link of the invitation, opened by a user ...
OpenLink(c, b) ==
    /\ LoggedIn(b)
    /\ invite = "open"
    /\ Begin(c, [Idle EXCEPT !.at = "invited", !.op = "accept", !.by = b, !.on = session[b].user])
    /\ UNCHANGED <<tables, session, registrationVars>>

\* ... or by nobody.
RememberLink(b) ==
    /\ made < MaxCalls
    /\ made' = made + 1
    /\ ~LoggedIn(b)
    /\ ~session[b].invite
    /\ invite = "open"
    /\ session' = [session EXCEPT ![b].invite = TRUE]
    /\ UNCHANGED <<tables, call, registrationVars>>

\* Mutant: whether it was accepted is not looked at.
AcceptedNever(c) == FALSE

Accepted(c) == invite = "accepted"

MemberRows(c) == {k \in RowsOf(row, call[c].on) : row[k].project = Main}

FindMember(c) ==
    /\ At(c, "invited")
    /\ ~Registers(c)
    /\ IF Accepted(c) THEN Answered(c)
       ELSE Go(c, IF MemberRows(c) # {} THEN "read" ELSE "member")
    /\ twins' = IF \E d \in Calls \ {c} : Joining(d)
                THEN twins \union {"accept"} ELSE twins
    /\ UNCHANGED <<tables, session, made, flow, invite, mailed, unchecked, given, joined>>

\* Without the user the foreign key fails.
AddMember(c) ==
    LET u == call[c].on IN
    /\ At(c, "member")
    /\ \/ ~Exists(u) /\ Answered(c) /\ UNCHANGED <<row, born>>
       \/ /\ Exists(u)
          /\ \E k \in Rows \ born :
               /\ row' = [row EXCEPT ![k] = [user |-> u, project |-> Main]]
               /\ born' = born \union {k}
          /\ Go(c, "read")
    /\ UNCHANGED <<user, session, made, registrationVars>>

\* save_club_member_data, for who joins and for a member the staff edit: his
\* row of the project is read, and saved with every column; a row that was
\* deleted in between is inserted again.
ReadMember(c) ==
    /\ At(c, "read")
    /\ \/ \E k \in MemberRows(c) : Become(c, [call[c] EXCEPT !.at = "save row", !.seen = {k}])
       \/ /\ MemberRows(c) = {}
          /\ IF call[c].op = "edit" THEN Answered(c) ELSE Go(c, "accept")
    /\ UNCHANGED <<tables, session, made, registrationVars>>

SaveMember(c) ==
    LET u == call[c].on IN
    /\ At(c, "save row")
    /\ row' = IF Exists(u) THEN [k \in Rows |-> IF k \in call[c].seen THEN [user |-> u, project |-> Main] ELSE row[k]]
              ELSE row
    /\ IF Exists(u) /\ call[c].op # "edit" THEN Go(c, "accept") ELSE Answered(c)
    /\ UNCHANGED <<user, born, session, made, registrationVars>>

\* ProjectProfilesViewSet.update
EditMember(c, b, u) ==
    /\ LoggedIn(b)
    /\ Exists(u)
    /\ Begin(c, [Idle EXCEPT !.at = "read", !.op = "edit", !.by = b, !.on = u])
    /\ UNCHANGED <<tables, session, registrationVars>>

Accept(c) ==
    /\ At(c, "accept")
    /\ invite' = "accepted"
    /\ joined' = joined \union {call[c].on}
    /\ session' = [session EXCEPT ![call[c].by].invite = FALSE]
    /\ Answered(c)
    /\ UNCHANGED <<tables, made, flow, mailed, unchecked, given, twins>>

\* ProjectProfilesViewSet.create: the user and his membership in a transaction,
\* with any address.
AddProfile(b, e, u, k) ==
    /\ made < MaxCalls
    /\ LoggedIn(b)
    /\ u \in Unused /\ k \in Rows \ born
    /\ made' = made + 1
    /\ user' = [user EXCEPT ![u] = [email |-> e, active |-> TRUE]]
    /\ row' = [row EXCEPT ![k] = [user |-> u, project |-> Main]]
    /\ born' = born \union {u, k}
    /\ given' = given \union {u}
    /\ UNCHANGED <<session, call, flow, invite, mailed, unchecked, twins, joined>>

-----------------------------------------------------------------------------
Registering(c) ==
    \/ CheckAddress(c) \/ Mail(c) \/ CacheUser(c) \/ Save(c) \/ SaveInvited(c)
    \/ Activate(c) \/ SaveEmail(c)
    \/ Welcome(c) \/ FindMember(c) \/ AddMember(c) \/ ReadMember(c) \/ SaveMember(c) \/ Accept(c)

RegistrationCall(c, b) ==
    \/ \E e \in Emails : Register(c, b, e) \/ ChangeEmail(c, b, e)
    \/ Verify(c, b) \/ OpenLink(c, b)
    \/ \E u \in Users : Login(c, b, u) \/ EditMember(c, b, u)

BrowserCall(b) ==
    \/ Form(b) \/ Expire(b) \/ Invite(b) \/ RememberLink(b)
    \/ \E e \in Emails, u \in Users, k \in Rows : AddProfile(b, e, u, k)

-----------------------------------------------------------------------------
(* Properties *)

\* Two users have the same address only if two registrations overlapped, or
\* one of them got it unchecked: the check and the commit are apart
\* (profile.py:412-417, account.py:262).
AddressesDiffer ==
    "register" \in twins \/
    \A u, v \in Users \ (unchecked \union given) :
        u # v /\ Exists(u) /\ Exists(v) => user[u].email # user[v].email

\* A user cached under a code was mailed this code, and who is active was
\* mailed one or made by the staff, however flows, failures, and a change of
\* the address come together (account.py:224-267).
ActiveWasMailed ==
    /\ \A b \in Browsers :
         flow[b] # None => flow[b].user = None \/ <<flow[b].user, flow[b].id>> \in mailed
    /\ \A u \in Users \ (DOMAIN Address \union given) :
         Exists(u) /\ user[u].active => \E m \in mailed : m[1] = u

\* An invitation takes one user in, unless two acceptances overlapped: its
\* check and its save are apart (event.py:93-114).
JoinedOnce ==
    "accept" \in twins \/ Cardinality(joined) <= 1

\* A registration or invitation that overlaps with no other brings in one user,
\* with an address of its own that a code was mailed to.
JoiningIsRight == AddressesDiffer /\ ActiveWasMailed /\ JoinedOnce

=============================================================================
