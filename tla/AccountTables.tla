--------------------------- MODULE AccountTables ---------------------------
(***************************************************************************)
(* What registration, invitations and the merging of users share: the      *)
(* tables of users and of the rows that belong to them, the sessions of    *)
(* browsers, and the calls that are being handled, each a copy of what it  *)
(* has read.  A call is at its next access to the database or the cache;   *)
(* in between the other calls go on.                                       *)
(***************************************************************************)
EXTENDS Naturals, FiniteSets

CONSTANTS
    Users,          \* primary keys of users, handed out once
    Emails,
    Address,        \* the address of each user there is at the start: no two have the same
    Rows,           \* primary keys of the rows with a foreign key to a user
    Held,           \* the rows there are at the start
    Browsers,
    Calls,          \* that are handled at the same time
    MaxCalls,       \* bounds the calls that are made
    Main,           \* the first project
    Other,          \* another one
    None            \* no user, no project, no row

Projects == {Main, Other}
OrNone(S) == S \union {None}

ASSUME AccountAssumption ==
    /\ DOMAIN Address \subseteq Users /\ Address \in [DOMAIN Address -> Emails]
    /\ \A u, v \in DOMAIN Address : Address[u] = Address[v] => u = v
    /\ DOMAIN Held \subseteq Rows
    /\ Held \in [DOMAIN Held -> [user : DOMAIN Address, project : OrNone(Projects)]]
    /\ None \notin Users \union Emails \union Projects \union Browsers
    /\ None \notin [email : OrNone(Emails), active : BOOLEAN]
    /\ None \notin [user : OrNone(Users), project : OrNone(Projects)]
    /\ MaxCalls \in Nat

VARIABLES
    user,       \* auth_user with its profile, or None
    row,        \* the rows: memberships of a project, and rows without a project
    session,    \* per browser, who is logged in, and whether invite-pk is set
    call,       \* per call, what it does and what it has read
    made,
    born        \* history: the users and the rows there have been

tables == <<user, row, born>>

Idle == [at |-> "idle", op |-> "login", by |-> None, on |-> None, email |-> None,
         list |-> {}, group |-> None, flow |-> None, seen |-> {}]

InitTables ==
    /\ user = [u \in Users |-> IF u \in DOMAIN Address THEN [email |-> Address[u], active |-> TRUE] ELSE None]
    /\ row = [k \in Rows |-> IF k \in DOMAIN Held THEN Held[k] ELSE None]
    /\ session = [b \in Browsers |-> [user |-> None, invite |-> FALSE]]
    /\ call = [c \in Calls |-> Idle]
    /\ made = 0
    /\ born = DOMAIN Address \union DOMAIN Held

At(c, place) == call[c].at = place
Become(c, s) == call' = [call EXCEPT ![c] = s]
Go(c, place) == Become(c, [call[c] EXCEPT !.at = place])
Answered(c) == Become(c, Idle)

Begin(c, s) ==
    /\ At(c, "idle")
    /\ made < MaxCalls
    /\ made' = made + 1
    /\ Become(c, s)

Exists(u) == user[u] # None

\* A session outlives its user.
LoggedIn(b) == session[b].user # None /\ Exists(session[b].user)

\* A row that was deleted with its user keeps its project.
RowsOf(table, u) == {k \in Rows : table[k] # None /\ table[k].user = u}
Memberships(table, u) == {k \in RowsOf(table, u) : table[k].project # None}
=============================================================================
