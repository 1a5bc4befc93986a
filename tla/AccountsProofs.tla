--------------------------- MODULE AccountsProofs ---------------------------
(***************************************************************************)
(* Registration, invitations and the merging of users, for any users,      *)
(* rows, browsers and calls.  Each property has an invariant of its own,   *)
(* on top of the types of the tables and of the calls.                     *)
(***************************************************************************)
EXTENDS Accounts, FiniteSetTheorems, TLAPS

Account == [email : OrNone(Emails), active : BOOLEAN]
RowOf == [user : OrNone(Users), project : OrNone(Projects)]
Flow == [id : Nat, user : OrNone(Users)]
Callers == OrNone(Staff \union Browsers)
Group == [users : SUBSET Users, by : Callers]

Places == {"idle", "list", "write", "check", "insert", "commit", "find", "move", "merge", "welcome",
           "address", "mail", "cache", "save", "invited", "activate", "change",
           "member", "read", "save row", "accept"}
Ops == {"login", "add", "remove", "create", "clear", "merge",
        "register", "verify", "change", "accept", "edit"}

CallState == [at : Places, op : Ops, by : Callers, on : OrNone(Users), email : OrNone(Emails),
              list : SUBSET Users, group : OrNone(Group), flow : OrNone(Flow), seen : SUBSET Rows]

TableTypes ==
    /\ user \in [Users -> OrNone(Account)]
    /\ row \in [Rows -> OrNone(RowOf)]
    /\ session \in [Browsers -> [user : OrNone(Users), invite : BOOLEAN]]
    /\ made \in Nat

MergeTypes ==
    /\ prepared \in [Staff -> SUBSET Users]
    /\ asked \in [Staff -> SUBSET Users]
    /\ groups \subseteq Group
    /\ raced \in BOOLEAN

\* Who collects users is a member of the staff, and a merge has a group.
Complete(s) ==
    /\ s.at = "list" => s.by \in Staff /\ (s.op \in {"create", "clear"} \/ s.on \in Users)
    /\ s.at = "write" => s.on \in Users
    /\ s.at \in {"move", "merge"} => s.group \in Group

CallTypes ==
    /\ call \in [Calls -> CallState]
    /\ \A c \in Calls : Complete(call[c])

\* No row that a merge has found disappears.
RowsThere == \A c \in Calls : At(c, "merge") => \A k \in call[c].seen : row[k] # None

Types == TableTypes /\ MergeTypes /\ CallTypes /\ flow \in [Browsers -> OrNone(Flow)]

\* The one call that a step changes.
LEMMA OneCall ==
    ASSUME NEW c \in Calls, NEW s \in CallState, CallTypes, Become(c, s)
    PROVE  /\ call' \in [Calls -> CallState]
           /\ call'[c] = s
           /\ \A d \in Calls \ {c} : call'[d] = call[d]
BY DEF CallTypes, Become

\* It keeps the types of the calls.
LEMMA OneCallTypes ==
    ASSUME NEW c \in Calls, NEW s \in CallState, CallTypes, Become(c, s), Complete(s)
    PROVE  CallTypes'
<1>1. /\ call' \in [Calls -> CallState] /\ call'[c] = s
      /\ \A d \in Calls \ {c} : call'[d] = call[d]
  BY OneCall
<1>2. \A d \in Calls : Complete(call'[d])
  BY <1>1 DEF CallTypes
<1> QED
  BY <1>1, <1>2 DEF CallTypes, Complete

LEMMA IdleIsCall == Idle \in CallState /\ Idle.at = "idle"
<1>1. "idle" \in Places /\ "login" \in Ops /\ {} \in SUBSET Users /\ {} \in SUBSET Rows
  BY DEF Places, Ops
<1>2. None \in Callers /\ None \in OrNone(Users) /\ None \in OrNone(Emails) /\ None \in OrNone(Group) /\ None \in OrNone(Flow)
  BY DEF OrNone, Callers
<1> QED
  BY <1>1, <1>2 DEF Idle, CallState

\* A call that is answered, or goes on with what it holds.
LEMMA AnsweredTypes ==
    ASSUME NEW c \in Calls, CallTypes, Answered(c) PROVE CallTypes'
BY IdleIsCall, OneCallTypes DEF Answered, Complete

LEMMA CallOf ==
    ASSUME NEW c \in Calls, CallTypes PROVE call[c] \in CallState
BY DEF CallTypes

\* The places where nothing is required of a call.
Free == Places \ {"list", "write", "move", "merge"}

LEMMA GoTypes ==
    ASSUME NEW c \in Calls, CallTypes, NEW place \in Places, Go(c, place),
           place \in Free \/ (place = "merge" /\ At(c, "move"))
    PROVE  CallTypes'
<1>1. call[c] \in CallState /\ [call[c] EXCEPT !.at = place] \in CallState
  BY DEF CallTypes, CallState
<1>2. [call[c] EXCEPT !.at = place].at = place /\ [call[c] EXCEPT !.at = place].group = call[c].group
  BY <1>1 DEF CallState
<1>3. place = "merge" => call[c].group \in Group
  BY DEF CallTypes, At, Complete, Free
<1> QED
  BY <1>1, <1>2, <1>3, OneCallTypes DEF Go, Complete, Free

\* Going on to a named place where nothing is required.
LEMMA GoFree ==
    ASSUME NEW c \in Calls, CallTypes,
           NEW place \in {"check", "insert", "commit", "welcome", "mail", "cache", "save",
                          "invited", "find", "member", "read", "accept"}, Go(c, place)
    PROVE  CallTypes'
<1>1. place \in Places /\ place \in Free
  BY DEF Places, Free
<1> QED
  BY <1>1, GoTypes


-----------------------------------------------------------------------------
(* Every step keeps the types *)

LEMMA BeginTypes ==
    ASSUME NEW c \in Calls, NEW s \in CallState, CallTypes, made \in Nat, Begin(c, s),
           Complete(s)
    PROVE  CallTypes' /\ made' \in Nat
<1>1. Become(c, s) /\ made' = made + 1
  BY DEF Begin
<1>2. CallTypes'
  BY <1>1, OneCallTypes
<1> QED
  BY <1>1, <1>2

LEMMA UsersThere == DOMAIN Address \subseteq Users /\ DOMAIN Held \subseteq Rows /\ Staff \subseteq Users
BY AccountAssumption, MergeAssumption

LEMMA CollectTypes ==
    ASSUME Types, NEW c \in Calls, NEW s \in Staff,
           NEW o \in {"add", "remove", "create", "clear"}, NEW u \in OrNone(Users),
           o \in {"create", "clear"} \/ u \in Users,
           Collect(c, s, o, u), UNCHANGED registrationVars
    PROVE  Types'
<1> DEFINE r == [Idle EXCEPT !.at = "list", !.op = o, !.by = s, !.on = u]
<1>1. /\ Begin(c, r)
      /\ UNCHANGED <<user, row, session, flow, prepared, asked, groups, raced>>
  BY DEF Collect, tables, registrationVars
<1>2. s \in Callers /\ "list" \in Places /\ o \in Ops
  BY DEF Callers, OrNone, Places, Ops
<1>3. r \in CallState /\ r.at = "list" /\ r.by = s /\ r.op = o /\ r.on = u
  BY <1>2, IdleIsCall DEF CallState
<1>4. Complete(r)
  BY <1>3 DEF Complete
<1>5. CallTypes' /\ made' \in Nat
  BY <1>1, <1>3, <1>4, BeginTypes DEF Types, TableTypes
<1> QED
  BY <1>1, <1>5 DEF Types, TableTypes, MergeTypes

LEMMA MergeAccountsTypes ==
    ASSUME Types, NEW c \in Calls, NEW b \in Browsers, NEW u \in Users,
           MergeAccounts(c, b, u), UNCHANGED registrationVars
    PROVE  Types'
<1>1. PICK v \in {session[b].user, u} : Begin(c, [Idle EXCEPT !.at = "find", !.op = "merge", !.on = v])
  BY DEF MergeAccounts
<1> DEFINE r == [Idle EXCEPT !.at = "find", !.op = "merge", !.on = v]
<1>2. UNCHANGED <<user, row, session, flow, prepared, asked, groups, raced>>
  BY DEF MergeAccounts, tables, registrationVars, mergeVars
<1>3. v \in OrNone(Users)
  BY DEF Types, TableTypes, OrNone
<1>4. "find" \in Places /\ "merge" \in Ops
  BY DEF Places, Ops
<1>5. r \in CallState /\ r.at = "find"
  BY <1>3, <1>4, IdleIsCall DEF CallState
<1>6. CallTypes' /\ made' \in Nat
  BY <1>1, <1>5, BeginTypes DEF Types, TableTypes, Complete
<1> QED
  BY <1>2, <1>6 DEF Types, TableTypes, MergeTypes

\* The rows found by a merge exist, so changing their user leaves rows.
LEMMA CascadedTypes ==
    ASSUME NEW c \in Calls, call[c].on \in OrNone(Users), row \in [Rows -> OrNone(RowOf)],
           \A k \in call[c].seen : row[k] # None
    PROVE  /\ Renamed(c) \in [Rows -> OrNone(RowOf)]
           /\ Cascaded(c) \in [Rows -> OrNone(RowOf)]
<1>1. ASSUME NEW k \in Rows, row[k] # None, NEW u \in OrNone(Users)
      PROVE  [row[k] EXCEPT !.user = u] \in RowOf
  BY <1>1 DEF RowOf, OrNone
<1>2. Renamed(c) \in [Rows -> OrNone(RowOf)]
  BY <1>1 DEF Renamed, OrNone
<1>3. \A k \in Rows : row[k] # None => [row[k] EXCEPT !.user = None] \in OrNone(RowOf)
  BY <1>1 DEF OrNone
<1> QED
  BY <1>2, <1>3 DEF Cascaded

LEMMA MergingTypes ==
    ASSUME Types, RowsThere, NEW c \in Calls, Merging(c), UNCHANGED registrationVars PROVE Types'
<1> USE DEF tables, registrationVars
<1>0. call[c] \in CallState /\ CallTypes /\ UNCHANGED flow
  BY CallOf DEF Types
<1>1. CASE ReadList(c)
  <2> DEFINE place == IF call[c].op = "create" THEN "check" ELSE "write"
  <2> DEFINE r == [call[c] EXCEPT !.at = place, !.list = prepared[call[c].by]]
  <2>1. /\ At(c, "list") /\ call[c].op # "clear" /\ Become(c, r)
        /\ UNCHANGED <<user, row, session, made, prepared, asked, groups, raced>>
    BY <1>1 DEF ReadList, mergeVars
  <2>2. prepared[call[c].by] \in SUBSET Users /\ place \in Places
    BY <2>1, <1>0 DEF Types, MergeTypes, CallTypes, Complete, At, Places
  <2>3. r \in CallState /\ r.at = place /\ r.on = call[c].on
    BY <2>2, <1>0 DEF CallState
  <2>4. place = "check" \/ (place = "write" /\ call[c].on \in Users)
    BY <2>1, <1>0 DEF CallTypes, Complete, At
  <2>5. Complete(r)
    BY <2>3, <2>4 DEF Complete
  <2>6. CallTypes'
    BY <1>0, <2>1, <2>3, <2>5, OneCallTypes
  <2> QED
    BY <2>1, <2>6, <1>0 DEF Types, TableTypes, MergeTypes
<1>2. CASE WriteList(c)
  <2>1. Answered(c) /\ UNCHANGED <<user, row, session, made, groups, raced>>
    BY <1>2 DEF WriteList
  <2>2. prepared' = [prepared EXCEPT ![call[c].by] = Put(c, call[c].list)]
    BY <1>2 DEF WriteList
  <2>3. asked' = [asked EXCEPT ![call[c].by] = (@ \union {call[c].on}) \ (IF call[c].op = "add" THEN {} ELSE {call[c].on})]
    BY <1>2 DEF WriteList
  <2>4. call[c].on \in Users /\ call[c].list \in SUBSET Users
    BY <1>2, <1>0 DEF WriteList, At, CallTypes, Complete, CallState
  <2>5. prepared' \in [Staff -> SUBSET Users]
    BY <2>2, <2>4 DEF Put, Types, MergeTypes
  <2>6. asked' \in [Staff -> SUBSET Users]
    BY <2>3, <2>4 DEF Types, MergeTypes
  <2>7. CallTypes'
    BY <1>0, <2>1, AnsweredTypes
  <2> QED
    BY <2>1, <2>5, <2>6, <2>7, <1>0 DEF Types, TableTypes, MergeTypes
<1>3. CASE Check(c)
  <2>1. /\ Go(c, "insert") \/ Answered(c)
        /\ raced' \in BOOLEAN
        /\ UNCHANGED <<user, row, session, made, prepared, asked, groups>>
    BY <1>3 DEF Check, Types, MergeTypes
  <2>2. CallTypes'
    BY <1>0, <2>1, AnsweredTypes, GoFree
  <2> QED
    BY <2>1, <2>2, <1>0 DEF Types, TableTypes, MergeTypes
<1>4. CASE EmptyList(c)
  <2>1. Go(c, "commit") /\ UNCHANGED <<user, row, session, made, groups, raced>>
    BY <1>4 DEF EmptyList
  <2>2. prepared' = [prepared EXCEPT ![call[c].by] = {}] /\ asked' = [asked EXCEPT ![call[c].by] = {}]
    BY <1>4 DEF EmptyList
  <2>3. prepared' \in [Staff -> SUBSET Users] /\ asked' \in [Staff -> SUBSET Users]
    BY <2>2 DEF Types, MergeTypes
  <2>4. CallTypes'
    BY <1>0, <2>1, GoFree
  <2> QED
    BY <2>1, <2>3, <2>4, <1>0 DEF Types, TableTypes, MergeTypes
<1>5. CASE Commit(c)
  <2>1. Answered(c) /\ UNCHANGED <<user, row, session, made, prepared, asked, raced>>
    BY <1>5 DEF Commit
  <2>2. groups' \subseteq groups \union {[users |-> call[c].list, by |-> call[c].by]}
    BY <1>5 DEF Commit
  <2>3. [users |-> call[c].list, by |-> call[c].by] \in Group
    BY <1>0 DEF CallState, Group
  <2>4. CallTypes'
    BY <1>0, <2>1, AnsweredTypes
  <2> QED
    BY <2>1, <2>2, <2>3, <2>4, <1>0 DEF Types, TableTypes, MergeTypes
<1>6. CASE Find(c)
  <2>1. UNCHANGED <<user, row, session, made, prepared, asked, groups, raced>>
    BY <1>6 DEF Find, mergeVars
  <2>2. CASE Go(c, "welcome")
    <3>1. CallTypes'
      BY <1>0, <2>2, GoFree
    <3> QED
      BY <2>1, <3>1, <1>0 DEF Types, TableTypes, MergeTypes
  <2>3. ASSUME NEW g \in groups, Become(c, [call[c] EXCEPT !.at = "move", !.group = g]) PROVE Types'
    <3> DEFINE r == [call[c] EXCEPT !.at = "move", !.group = g]
    <3>1. g \in Group /\ "move" \in Places /\ g \in OrNone(Group)
      BY DEF Types, MergeTypes, Places, OrNone
    <3>2. r \in CallState /\ r.at = "move" /\ r.group = g
      BY <3>1, <1>0 DEF CallState
    <3>3. CallTypes'
      BY <1>0, <2>3, <3>1, <3>2, OneCallTypes DEF Complete
    <3> QED
      BY <2>1, <3>3, <1>0 DEF Types, TableTypes, MergeTypes
  <2> QED
    BY <1>6, <2>2, <2>3 DEF Find
<1>7. CASE Move(c)
  <2> DEFINE r == [call[c] EXCEPT !.at = "merge", !.seen = Moved(c)]
  <2>1. /\ At(c, "move") /\ Become(c, r)
        /\ UNCHANGED <<user, row, session, made, prepared, asked, groups, raced>>
    BY <1>7 DEF Move
  <2>2. Moved(c) \in SUBSET Rows /\ "merge" \in Places /\ call[c].group \in Group
    BY <2>1, <1>0 DEF Moved, Places, CallTypes, At, Complete
  <2>3. r \in CallState /\ r.at = "merge" /\ r.group = call[c].group
    BY <2>2, <1>0 DEF CallState
  <2>4. CallTypes'
    BY <1>0, <2>1, <2>2, <2>3, OneCallTypes DEF Complete
  <2> QED
    BY <2>1, <2>4, <1>0 DEF Types, TableTypes, MergeTypes
<1>8. CASE Merge(c)
  <2>1. /\ Go(c, "welcome") /\ UNCHANGED <<session, made, prepared, asked, raced>>
        /\ \/ UNCHANGED <<user, row, groups>>
           \/ /\ user' = [u \in Users |-> IF u \in Deleted(c) THEN None ELSE user[u]]
              /\ row' = Cascaded(c)
              /\ groups' \subseteq groups
    BY <1>8 DEF Merge
  <2>2. CallTypes'
    BY <1>0, <2>1, GoFree
  <2>3. ASSUME user' = [u \in Users |-> IF u \in Deleted(c) THEN None ELSE user[u]]
        PROVE  user' \in [Users -> OrNone(Account)]
    BY <2>3 DEF Types, TableTypes, OrNone
  <2>4. Cascaded(c) \in [Rows -> OrNone(RowOf)]
    <3>1. call[c].on \in OrNone(Users) /\ \A k \in call[c].seen : row[k] # None
      BY <1>8, <1>0 DEF Merge, RowsThere, CallState
    <3> QED
      BY <3>1, CascadedTypes DEF Types, TableTypes
  <2> QED
    BY <2>1, <2>2, <2>3, <2>4, <1>0 DEF Types, TableTypes, MergeTypes
<1> QED
  BY <1>1, <1>2, <1>3, <1>4, <1>5, <1>6, <1>7, <1>8 DEF Merging

LEMMA FlowTypes ==
    ASSUME Types, NEW b \in Browsers, flow[b] # None
    PROVE  flow[b] \in Flow /\ flow[b].id \in Nat /\ flow[b].user \in OrNone(Users)
BY DEF Types, OrNone, Flow

LEMMA UserTypes ==
    ASSUME Types, NEW u \in OrNone(Users), NEW e \in OrNone(Emails), NEW a \in BOOLEAN
    PROVE  /\ [user EXCEPT ![u] = [email |-> e, active |-> a]] \in [Users -> OrNone(Account)]
           /\ Exists(u) /\ u \in Users => [user EXCEPT ![u].email = e] \in [Users -> OrNone(Account)]
           /\ Exists(u) /\ u \in Users => [user EXCEPT ![u].active = a] \in [Users -> OrNone(Account)]
<1>1. [email |-> e, active |-> a] \in Account
  BY DEF Account
<1>2. ASSUME Exists(u), u \in Users PROVE user[u] \in Account
  BY <1>2 DEF Types, TableTypes, Exists, OrNone
<1>3. ASSUME Exists(u), u \in Users
      PROVE  [user[u] EXCEPT !.email = e] \in Account /\ [user[u] EXCEPT !.active = a] \in Account
  BY <1>2, <1>3 DEF Account
<1> QED
  BY <1>1, <1>3 DEF Types, TableTypes, OrNone

LEMMA RowTypes ==
    ASSUME Types, NEW k \in Rows, NEW u \in OrNone(Users)
    PROVE  /\ [user |-> u, project |-> Main] \in OrNone(RowOf)
           /\ [row EXCEPT ![k] = [user |-> u, project |-> Main]] \in [Rows -> OrNone(RowOf)]
<1>1. [user |-> u, project |-> Main] \in OrNone(RowOf)
  BY DEF RowOf, OrNone, Projects
<1> QED
  BY <1>1 DEF Types, TableTypes

\* Of a browser the invitation is dropped.
LEMMA SessionTypes ==
    ASSUME Types, NEW b
    PROVE  [session EXCEPT ![b].invite = FALSE] \in [Browsers -> [user : OrNone(Users), invite : BOOLEAN]]
<1>1. \A d \in Browsers : [session[d] EXCEPT !.invite = FALSE] \in [user : OrNone(Users), invite : BOOLEAN]
  BY DEF Types, TableTypes
<1> QED
  BY <1>1 DEF Types, TableTypes

LEMMA RegisteringTypes ==
    ASSUME Types, NEW c \in Calls, Registering(c), UNCHANGED <<prepared, groups, asked, mixed, raced>>
    PROVE  Types'
<1> USE DEF tables, registrationVars
<1>0. /\ call[c] \in CallState /\ CallTypes /\ MergeTypes'
      /\ call[c].on \in OrNone(Users) /\ call[c].email \in OrNone(Emails)
  BY CallOf DEF Types, MergeTypes, CallState
<1>1. CASE CheckAddress(c)
  <2>1. UNCHANGED <<user, row, session, made, flow>>
    BY <1>1 DEF CheckAddress
  <2>2. CASE Answered(c)
    <3>1. CallTypes'
      BY <1>0, <2>2, AnsweredTypes
    <3> QED
      BY <2>1, <3>1, <1>0 DEF Types, TableTypes
  <2>3. ASSUME NEW u \in Unused, NEW place \in {"invited", "mail", "save"},
               Become(c, [call[c] EXCEPT !.on = u, !.at = place])
        PROVE  Types'
    <3> DEFINE r == [call[c] EXCEPT !.on = u, !.at = place]
    <3>1. u \in OrNone(Users) /\ place \in Places
      BY DEF Unused, OrNone, Places
    <3>2. r \in CallState /\ r.at = place
      BY <3>1, <1>0 DEF CallState
    <3>3. CallTypes'
      BY <1>0, <2>3, <3>2, OneCallTypes DEF Complete
    <3> QED
      BY <2>1, <3>3, <1>0 DEF Types, TableTypes
  <2> QED
    BY <1>1, <2>2, <2>3 DEF CheckAddress
<1>2. CASE Mail(c)
  <2>1. UNCHANGED <<user, row, session, made, flow>> /\ (Go(c, "cache") \/ Answered(c))
    BY <1>2 DEF Mail
  <2>2. CallTypes'
    BY <1>0, <2>1, AnsweredTypes, GoFree
  <2> QED
    BY <2>1, <2>2, <1>0 DEF Types, TableTypes
<1>3. CASE CacheUser(c)
  <2>1. UNCHANGED <<user, row, session, made>> /\ (Go(c, "save") \/ Answered(c))
    BY <1>3 DEF CacheUser
  <2>2. \/ flow' = flow
        \/ flow[call[c].by] # None /\ flow' = [flow EXCEPT ![call[c].by].user = call[c].on]
    BY <1>3 DEF CacheUser
  <2>3. CallTypes'
    BY <1>0, <2>1, AnsweredTypes, GoFree
  <2>4. \A b \in Browsers : flow[b] # None => [flow[b] EXCEPT !.user = call[c].on] \in Flow
    BY <1>0, FlowTypes DEF Flow
  <2>5. flow' \in [Browsers -> OrNone(Flow)]
    BY <2>2, <2>4 DEF Types, OrNone
  <2> QED
    BY <2>1, <2>3, <2>5, <1>0 DEF Types, TableTypes
<1>4. CASE Save(c)
  <2>1. /\ UNCHANGED <<row, session, made, flow>> /\ Answered(c)
        /\ user' = user \/ user' = [user EXCEPT ![call[c].on] = [email |-> call[c].email, active |-> FALSE]]
    BY <1>4 DEF Save
  <2>2. CallTypes'
    BY <1>0, <2>1, AnsweredTypes
  <2>3. [user EXCEPT ![call[c].on] = [email |-> call[c].email, active |-> FALSE]] \in [Users -> OrNone(Account)]
    BY <1>0, UserTypes
  <2>4. user' \in [Users -> OrNone(Account)]
    BY <2>1, <2>3 DEF Types, TableTypes
  <2> QED
    BY <2>1, <2>2, <2>4, <1>0 DEF Types, TableTypes
<1>5. CASE SaveInvited(c)
  <2>1. /\ user' = [user EXCEPT ![call[c].on] = [email |-> call[c].email, active |-> FALSE]]
        /\ UNCHANGED <<made, flow>> /\ Answered(c)
        /\ \/ UNCHANGED <<row, session>>
           \/ /\ session' = [session EXCEPT ![call[c].by].invite = FALSE]
              /\ \E k \in Rows : row' = [row EXCEPT ![k] = [user |-> call[c].on, project |-> Main]]
    BY <1>5 DEF SaveInvited
  <2>2. CallTypes'
    BY <1>0, <2>1, AnsweredTypes
  <2>3. row' \in [Rows -> OrNone(RowOf)]
    BY <2>1, <1>0, RowTypes DEF Types, TableTypes
  <2>4. session' \in [Browsers -> [user : OrNone(Users), invite : BOOLEAN]]
    BY <2>1, SessionTypes DEF Types, TableTypes
  <2> QED
    BY <2>1, <2>2, <2>3, <2>4, <1>0, UserTypes DEF Types, TableTypes
<1>6. CASE Activate(c)
  <2>1. UNCHANGED <<row, made>>
    BY <1>6 DEF Activate
  <2>2. CASE Answered(c) /\ UNCHANGED <<user, session, flow>>
    <3>1. CallTypes'
      BY <1>0, <2>2, AnsweredTypes
    <3> QED
      BY <2>1, <2>2, <3>1, <1>0 DEF Types, TableTypes
  <2>3. CASE /\ Exists(call[c].on) /\ Go(c, "find")
             /\ user' = [user EXCEPT ![call[c].on].active = TRUE]
             /\ session' = [session EXCEPT ![call[c].by].user = call[c].on]
             /\ flow' = [flow EXCEPT ![call[c].by] = None]
    <3>1. CallTypes'
      BY <1>0, <2>3, GoFree
    <3>2. \A d \in Browsers : [session[d] EXCEPT !.user = call[c].on] \in [user : OrNone(Users), invite : BOOLEAN]
      BY <1>0 DEF Types, TableTypes
    <3>3. session' \in [Browsers -> [user : OrNone(Users), invite : BOOLEAN]]
      BY <2>3, <3>2 DEF Types, TableTypes
    <3>4. flow' \in [Browsers -> OrNone(Flow)]
      BY <2>3 DEF Types, OrNone
    <3>5. user' \in [Users -> OrNone(Account)]
      <4>1. CASE call[c].on \in Users
        BY <2>3, <1>0, <4>1, UserTypes
      <4>2. CASE call[c].on \notin Users
        BY <2>3, <4>2 DEF Types, TableTypes
      <4> QED
        BY <4>1, <4>2
    <3> QED
      BY <2>1, <3>1, <3>3, <3>4, <3>5, <1>0 DEF Types, TableTypes
  <2> QED
    BY <1>6, <2>2, <2>3 DEF Activate
<1>7. CASE SaveEmail(c)
  <2>1. UNCHANGED <<row, session, made, flow>>
    BY <1>7 DEF SaveEmail
  <2>2. \/ Go(c, "mail") /\ Exists(call[c].on) /\ user' = [user EXCEPT ![call[c].on].email = call[c].email]
        \/ Answered(c) /\ user' = user
    BY <1>7 DEF SaveEmail
  <2>3. CallTypes'
    BY <1>0, <2>2, AnsweredTypes, GoFree
  <2>4. user' \in [Users -> OrNone(Account)]
    <3>1. CASE call[c].on \in Users
      <4>1. Exists(call[c].on) => [user EXCEPT ![call[c].on].email = call[c].email] \in [Users -> OrNone(Account)]
        BY <1>0, <3>1, UserTypes
      <4> QED
        BY <2>2, <4>1 DEF Types, TableTypes
    <3>2. CASE call[c].on \notin Users
      BY <2>2, <3>2 DEF Types, TableTypes
    <3> QED
      BY <3>1, <3>2
  <2> QED
    BY <2>1, <2>3, <2>4, <1>0 DEF Types, TableTypes
<1>8. CASE Welcome(c) \/ FindMember(c)
  <2>1. /\ UNCHANGED <<user, row, session, made, flow>>
        /\ Answered(c) \/ Go(c, "invited") \/ Go(c, "read") \/ Go(c, "member")
    BY <1>8 DEF Welcome, FindMember
  <2>2. CallTypes'
    BY <1>0, <2>1, AnsweredTypes, GoFree
  <2> QED
    BY <2>1, <2>2, <1>0 DEF Types, TableTypes
<1>9. CASE AddMember(c)
  <2>1. /\ UNCHANGED <<user, session, made, flow>>
        /\ Answered(c) \/ Go(c, "read")
        /\ row' = row \/ \E k \in Rows : row' = [row EXCEPT ![k] = [user |-> call[c].on, project |-> Main]]
    BY <1>9 DEF AddMember
  <2>2. CallTypes'
    BY <1>0, <2>1, AnsweredTypes, GoFree
  <2>3. row' \in [Rows -> OrNone(RowOf)]
    BY <2>1, <1>0, RowTypes DEF Types, TableTypes
  <2> QED
    BY <2>1, <2>2, <2>3, <1>0 DEF Types, TableTypes
<1>10. CASE ReadMember(c)
  <2>1. UNCHANGED <<user, row, session, made, flow>>
    BY <1>10 DEF ReadMember
  <2>2. CASE Answered(c) \/ Go(c, "accept")
    <3>1. CallTypes'
      BY <1>0, <2>2, AnsweredTypes, GoFree
    <3> QED
      BY <2>1, <3>1, <1>0 DEF Types, TableTypes
  <2>3. ASSUME NEW k \in Rows, Become(c, [call[c] EXCEPT !.at = "save row", !.seen = {k}]) PROVE Types'
    <3> DEFINE r == [call[c] EXCEPT !.at = "save row", !.seen = {k}]
    <3>1. {k} \in SUBSET Rows /\ "save row" \in Places
      BY DEF Places
    <3>2. r \in CallState /\ r.at = "save row"
      BY <3>1, <1>0 DEF CallState
    <3>3. CallTypes'
      BY <1>0, <2>3, <3>2, OneCallTypes DEF Complete
    <3> QED
      BY <2>1, <3>3, <1>0 DEF Types, TableTypes
  <2> QED
    BY <1>10, <2>2, <2>3 DEF ReadMember, MemberRows, RowsOf
<1>11. CASE SaveMember(c)
  <2>1. /\ UNCHANGED <<user, session, made, flow>>
        /\ Answered(c) \/ Go(c, "accept")
        /\ row' = row \/ row' = [k \in Rows |-> IF k \in call[c].seen THEN [user |-> call[c].on, project |-> Main] ELSE row[k]]
    BY <1>11 DEF SaveMember
  <2>2. CallTypes'
    BY <1>0, <2>1, AnsweredTypes, GoFree
  <2>3. row' \in [Rows -> OrNone(RowOf)]
    BY <2>1, <1>0, RowTypes DEF Types, TableTypes
  <2> QED
    BY <2>1, <2>2, <2>3, <1>0 DEF Types, TableTypes
<1>12. CASE Accept(c)
  <2>1. /\ UNCHANGED <<user, row, made, flow>> /\ Answered(c)
        /\ session' = [session EXCEPT ![call[c].by].invite = FALSE]
    BY <1>12 DEF Accept
  <2>2. CallTypes'
    BY <1>0, <2>1, AnsweredTypes
  <2> QED
    BY <2>1, <2>2, <1>0, SessionTypes DEF Types, TableTypes
<1> QED
  BY <1>1, <1>2, <1>3, <1>4, <1>5, <1>6, <1>7, <1>8, <1>9, <1>10, <1>11, <1>12 DEF Registering

\* A call that begins.
LEMMA BeginsTypes ==
    ASSUME Types, NEW c \in Calls, NEW place \in Free, NEW o \in Ops, NEW b \in Browsers,
           NEW u \in OrNone(Users), NEW e \in OrNone(Emails), NEW f \in OrNone(Flow),
           \/ Begin(c, [Idle EXCEPT !.at = place, !.op = o, !.by = b, !.email = e, !.flow = f])
           \/ Begin(c, [Idle EXCEPT !.at = place, !.op = o, !.by = b, !.on = u])
           \/ Begin(c, [Idle EXCEPT !.at = place, !.by = b, !.on = u])
           \/ Begin(c, [Idle EXCEPT !.at = place, !.op = o, !.by = b, !.on = u, !.email = e, !.flow = f])
    PROVE  CallTypes' /\ made' \in Nat
<1>1. place \in Places /\ b \in Callers
  BY DEF Free, Callers, OrNone
<1>2. /\ [Idle EXCEPT !.at = place, !.op = o, !.by = b, !.email = e, !.flow = f] \in CallState
      /\ [Idle EXCEPT !.at = place, !.op = o, !.by = b, !.on = u] \in CallState
      /\ [Idle EXCEPT !.at = place, !.by = b, !.on = u] \in CallState
      /\ [Idle EXCEPT !.at = place, !.op = o, !.by = b, !.on = u, !.email = e, !.flow = f] \in CallState
  BY <1>1, IdleIsCall DEF CallState
<1>3. /\ Complete([Idle EXCEPT !.at = place, !.op = o, !.by = b, !.email = e, !.flow = f])
      /\ Complete([Idle EXCEPT !.at = place, !.op = o, !.by = b, !.on = u])
      /\ Complete([Idle EXCEPT !.at = place, !.by = b, !.on = u])
      /\ Complete([Idle EXCEPT !.at = place, !.op = o, !.by = b, !.on = u, !.email = e, !.flow = f])
  BY <1>2 DEF Complete, Free, CallState
<1> QED
  BY <1>2, <1>3, BeginTypes DEF Types, TableTypes

LEMMA RegistrationCallTypes ==
    ASSUME Types, NEW c \in Calls, NEW b \in Browsers, RegistrationCall(c, b),
           UNCHANGED <<prepared, groups, asked, mixed, raced>>
    PROVE  Types'
<1> USE DEF tables, registrationVars
<1>0. MergeTypes' /\ None \in OrNone(Users)
  BY DEF Types, MergeTypes, OrNone
<1>1. {"address", "activate", "change", "find", "invited", "read"} \subseteq Free
  BY DEF Free, Places
<1>k. /\ {"register", "verify", "accept"} \subseteq Ops /\ \A e \in Emails : e \in OrNone(Emails)
      /\ None \in OrNone(Users) /\ None \in OrNone(Emails) /\ None \in OrNone(Flow)
  BY DEF Ops, OrNone
<1>2. flow[b] \in OrNone(Flow) /\ session[b].user \in OrNone(Users)
  BY DEF Types, TableTypes
<1>3. flow[b] # None => flow[b].user \in OrNone(Users)
  BY FlowTypes
<1>4. ASSUME NEW e \in Emails, Register(c, b, e) PROVE Types'
  <2>1. UNCHANGED <<user, row, session, flow>>
    BY <1>4 DEF Register
  <2>2. Begin(c, [Idle EXCEPT !.at = "address", !.op = "register", !.by = b, !.email = e, !.flow = flow[b]])
    BY <1>4 DEF Register
  <2>3. CallTypes' /\ made' \in Nat
    <3>1. "address" \in Free /\ "register" \in Ops /\ None \in OrNone(Users) /\ e \in OrNone(Emails)
      BY <1>0, <1>1, <1>k
    <3> QED
      BY <2>2, <3>1, <1>2, BeginsTypes
  <2> QED
    BY <2>1, <2>3, <1>0 DEF Types, TableTypes
<1>5. ASSUME NEW e \in Emails, ChangeEmail(c, b, e) PROVE Types'
  <2>1. UNCHANGED <<user, row, session, flow>> /\ flow[b] # None
    BY <1>5 DEF ChangeEmail
  <2>2. Begin(c, [Idle EXCEPT !.at = "change", !.op = "change", !.by = b, !.on = flow[b].user,
                              !.email = e, !.flow = flow[b]])
    BY <1>5 DEF ChangeEmail
  <2>3. "change" \in Free /\ "change" \in Ops /\ flow[b].user \in OrNone(Users) /\ e \in OrNone(Emails)
    BY <2>1, <1>1, <1>3 DEF Ops, OrNone
  <2>4. CallTypes' /\ made' \in Nat
    BY <2>2, <2>3, <1>2, BeginsTypes
  <2> QED
    BY <2>1, <2>4, <1>0 DEF Types, TableTypes
<1>6. CASE Verify(c, b)
  <2>1. UNCHANGED <<user, row, session, flow>> /\ flow[b] # None
    BY <1>6 DEF Verify
  <2>2. Begin(c, [Idle EXCEPT !.at = "activate", !.op = "verify", !.by = b, !.on = flow[b].user])
    BY <1>6 DEF Verify
  <2>3. CallTypes' /\ made' \in Nat
    <3>1. /\ "activate" \in Free /\ "verify" \in Ops /\ flow[b].user \in OrNone(Users)
          /\ None \in OrNone(Emails) /\ None \in OrNone(Flow)
      BY <2>1, <1>1, <1>3, <1>k
    <3> QED
      BY <2>2, <3>1, BeginsTypes
  <2> QED
    BY <2>1, <2>3, <1>0 DEF Types, TableTypes
<1>7. CASE OpenLink(c, b)
  <2>1. UNCHANGED <<user, row, session, flow>>
    BY <1>7 DEF OpenLink
  <2>2. Begin(c, [Idle EXCEPT !.at = "invited", !.op = "accept", !.by = b, !.on = session[b].user])
    BY <1>7 DEF OpenLink
  <2>3. CallTypes' /\ made' \in Nat
    <3>1. /\ "invited" \in Free /\ "accept" \in Ops /\ session[b].user \in OrNone(Users)
          /\ None \in OrNone(Emails) /\ None \in OrNone(Flow)
      BY <1>1, <1>2, <1>k
    <3> QED
      BY <2>2, <3>1, BeginsTypes
  <2> QED
    BY <2>1, <2>3, <1>0 DEF Types, TableTypes
<1>8. ASSUME NEW u \in Users, Login(c, b, u) PROVE Types'
  <2>1. /\ UNCHANGED <<user, row, flow>>
        /\ session' = [session EXCEPT ![b] =
                          [user |-> u, invite |-> @.invite /\ @.user \in {None, u}]]
    BY <1>8 DEF Login
  <2>2. Begin(c, [Idle EXCEPT !.at = "find", !.by = b, !.on = u])
    BY <1>8 DEF Login
  <2>3. "find" \in Free /\ "login" \in Ops /\ u \in OrNone(Users) /\ None \in OrNone(Emails) /\ None \in OrNone(Flow)
    BY <1>1 DEF Ops, OrNone
  <2>4. CallTypes' /\ made' \in Nat
    BY <2>2, <2>3, BeginsTypes
  <2>5. session' \in [Browsers -> [user : OrNone(Users), invite : BOOLEAN]]
    BY <2>1, <2>3 DEF Types, TableTypes
  <2> QED
    BY <2>1, <2>4, <2>5, <1>0 DEF Types, TableTypes
<1>9. ASSUME NEW u \in Users, EditMember(c, b, u) PROVE Types'
  <2>1. UNCHANGED <<user, row, session, flow>>
    BY <1>9 DEF EditMember
  <2>2. Begin(c, [Idle EXCEPT !.at = "read", !.op = "edit", !.by = b, !.on = u])
    BY <1>9 DEF EditMember
  <2>3. CallTypes' /\ made' \in Nat
    BY <2>2, <1>0, <1>1, <1>2, BeginsTypes DEF Ops, OrNone
  <2> QED
    BY <2>1, <2>3, <1>0 DEF Types, TableTypes
<1> QED
  BY <1>4, <1>5, <1>6, <1>7, <1>8, <1>9 DEF RegistrationCall

LEMMA BrowserCallTypes ==
    ASSUME Types, NEW b \in Browsers, BrowserCall(b), UNCHANGED <<prepared, groups, asked, mixed, raced>>
    PROVE  Types'
<1> USE DEF tables, registrationVars
<1>0. MergeTypes'
  BY DEF Types, MergeTypes
<1>1. CASE Form(b) \/ Expire(b)
  <2>1. UNCHANGED <<user, row, session, call>> /\ made' = made + 1
    BY <1>1 DEF Form, Expire
  <2>2. flow' = [flow EXCEPT ![b] = [id |-> made, user |-> None]] \/ flow' = [flow EXCEPT ![b] = None]
    BY <1>1 DEF Form, Expire
  <2>3. [id |-> made, user |-> None] \in OrNone(Flow) /\ None \in OrNone(Flow)
    BY DEF Types, TableTypes, Flow, OrNone
  <2>4. flow' \in [Browsers -> OrNone(Flow)]
    BY <2>2, <2>3 DEF Types
  <2> QED
    BY <2>1, <2>4, <1>0 DEF Types, TableTypes, CallTypes, Complete
<1>2. CASE Invite(b) \/ RememberLink(b)
  <2>1. UNCHANGED <<user, row, call, flow>> /\ made' = made + 1
    BY <1>2 DEF Invite, RememberLink
  <2>2. session' = session \/ session' = [session EXCEPT ![b].invite = TRUE]
    BY <1>2 DEF Invite, RememberLink
  <2>3. [session[b] EXCEPT !.invite = TRUE] \in [user : OrNone(Users), invite : BOOLEAN]
    BY DEF Types, TableTypes
  <2>4. session' \in [Browsers -> [user : OrNone(Users), invite : BOOLEAN]]
    BY <2>2, <2>3 DEF Types, TableTypes
  <2> QED
    BY <2>1, <2>4, <1>0 DEF Types, TableTypes, CallTypes, Complete
<1>3. ASSUME NEW e \in Emails, NEW u \in Users, NEW k \in Rows, AddProfile(b, e, u, k) PROVE Types'
  <2>1. /\ UNCHANGED <<session, call, flow>> /\ made' = made + 1
        /\ user' = [user EXCEPT ![u] = [email |-> e, active |-> TRUE]]
        /\ row' = [row EXCEPT ![k] = [user |-> u, project |-> Main]]
    BY <1>3 DEF AddProfile
  <2>2. u \in OrNone(Users) /\ e \in OrNone(Emails)
    BY DEF OrNone
  <2>3. user' \in [Users -> OrNone(Account)]
    BY <2>1, <2>2, UserTypes
  <2>4. row' \in [Rows -> OrNone(RowOf)]
    BY <2>1, <2>2, RowTypes
  <2> QED
    BY <2>1, <2>3, <2>4, <1>0 DEF Types, TableTypes, CallTypes, Complete
<1> QED
  BY <1>1, <1>2, <1>3 DEF BrowserCall

-----------------------------------------------------------------------------
(* The step of a call changes this call only *)

LEMMA CallAfter ==
    ASSUME CallTypes, NEW c \in Calls, NEW s, Become(c, s)
    PROVE  call'[c] = s /\ \A d \in Calls \ {c} : call'[d] = call[d]
BY DEF CallTypes, Become

LEMMA AfterGo ==
    ASSUME CallTypes, NEW c \in Calls, NEW place, Go(c, place)
    PROVE  /\ call'[c].at = place /\ call'[c].op = call[c].op /\ call'[c].by = call[c].by
           /\ call'[c].on = call[c].on /\ call'[c].email = call[c].email /\ call'[c].list = call[c].list
           /\ call'[c].group = call[c].group /\ call'[c].flow = call[c].flow /\ call'[c].seen = call[c].seen
           /\ \A d \in Calls \ {c} : call'[d] = call[d]
<1>1. call'[c] = [call[c] EXCEPT !.at = place] /\ \A d \in Calls \ {c} : call'[d] = call[d]
  BY DEF Go, Become, CallTypes
<1>2. call[c] \in CallState
  BY CallOf
<1> QED
  BY <1>1, <1>2 DEF CallState

LEMMA AfterAnswered ==
    ASSUME CallTypes, NEW c \in Calls, Answered(c)
    PROVE  /\ call'[c] = Idle /\ call'[c].at = "idle" /\ call'[c].op = "login"
           /\ \A d \in Calls \ {c} : call'[d] = call[d]
<1>1. Idle.at = "idle" /\ Idle.op = "login"
  BY DEF Idle
<1> QED
  BY <1>1, CallAfter DEF Answered

MergePlaces == {"idle", "list", "check", "write", "insert", "commit", "find", "move", "merge", "welcome"}

\* Where a call is after a step of a merge.
MergeMove(c) ==
    /\ \A d \in Calls \ {c} : call'[d] = call[d]
    /\ call'[c].at \in MergePlaces
    /\ call'[c].op = "register" => call[c].op = "register"

LEMMA MergeMoves ==
    ASSUME Types, NEW c \in Calls, MergeCall(c) \/ Merging(c) PROVE MergeMove(c)
<1>0. CallTypes /\ call[c] \in CallState
  BY CallOf DEF Types
<1>1. CASE Answered(c)
  BY <1>0, <1>1, AfterAnswered DEF MergeMove, MergePlaces
<1>2. ASSUME NEW place \in MergePlaces, Go(c, place) PROVE MergeMove(c)
  BY <1>0, <1>2, AfterGo DEF MergeMove
<1>3. ASSUME NEW s, Become(c, s), s.at \in MergePlaces, s.op = "register" => call[c].op = "register"
      PROVE  MergeMove(c)
  BY <1>0, <1>3, CallAfter DEF MergeMove
<1>4. CASE ReadList(c)
  <2> DEFINE place == IF call[c].op = "create" THEN "check" ELSE "write"
  <2> DEFINE r == [call[c] EXCEPT !.at = place, !.list = prepared[call[c].by]]
  <2>1. Become(c, r)
    BY <1>4 DEF ReadList
  <2>2. place \in MergePlaces /\ r.at = place /\ r.op = call[c].op
    BY <1>0 DEF CallState, MergePlaces
  <2> QED
    BY <2>1, <2>2, <1>3
<1>5. CASE WriteList(c) \/ Commit(c)
  BY <1>1, <1>5 DEF WriteList, Commit
<1>6. CASE Check(c)
  BY <1>1, <1>2, <1>6 DEF Check, MergePlaces
<1>7. CASE EmptyList(c) \/ Merge(c)
  BY <1>2, <1>7 DEF EmptyList, Merge, MergePlaces
<1>8. CASE Find(c)
  <2>1. ASSUME NEW g \in groups, Become(c, [call[c] EXCEPT !.at = "move", !.group = g]) PROVE MergeMove(c)
    <3>1. /\ [call[c] EXCEPT !.at = "move", !.group = g].at = "move"
          /\ [call[c] EXCEPT !.at = "move", !.group = g].op = call[c].op
      BY <1>0 DEF CallState
    <3> QED
      BY <2>1, <3>1, <1>3 DEF MergePlaces
  <2> QED
    BY <1>2, <1>8, <2>1 DEF Find, MergePlaces
<1>9. CASE Move(c)
  <2>1. Become(c, [call[c] EXCEPT !.at = "merge", !.seen = Moved(c)])
    BY <1>9 DEF Move
  <2>2. /\ [call[c] EXCEPT !.at = "merge", !.seen = Moved(c)].at = "merge"
        /\ [call[c] EXCEPT !.at = "merge", !.seen = Moved(c)].op = call[c].op
    BY <1>0 DEF CallState
  <2> QED
    BY <2>1, <2>2, <1>3 DEF MergePlaces
<1>10. ASSUME NEW s \in Staff, NEW u, NEW o \in {"add", "remove", "create", "clear"}, Collect(c, s, o, u)
       PROVE  MergeMove(c)
  <2>1. Become(c, [Idle EXCEPT !.at = "list", !.op = o, !.by = s, !.on = u])
    BY <1>10 DEF Collect, Begin
  <2>2. /\ [Idle EXCEPT !.at = "list", !.op = o, !.by = s, !.on = u].at = "list"
        /\ [Idle EXCEPT !.at = "list", !.op = o, !.by = s, !.on = u].op = o
    BY DEF Idle
  <2> QED
    BY <2>1, <2>2, <1>3 DEF MergePlaces
<1>11. ASSUME NEW b, NEW u, MergeAccounts(c, b, u) PROVE MergeMove(c)
  <2>1. PICK v : Become(c, [Idle EXCEPT !.at = "find", !.op = "merge", !.on = v])
    BY <1>11 DEF MergeAccounts, Begin
  <2>2. /\ [Idle EXCEPT !.at = "find", !.op = "merge", !.on = v].at = "find"
        /\ [Idle EXCEPT !.at = "find", !.op = "merge", !.on = v].op = "merge"
    BY DEF Idle
  <2> QED
    BY <2>1, <2>2, <1>3 DEF MergePlaces
<1> QED
  BY <1>4, <1>5, <1>6, <1>7, <1>8, <1>9, <1>10, <1>11 DEF Merging, MergeCall

-----------------------------------------------------------------------------
(* An invitation takes one user in *)

\* A call that found the invitation open, and will accept it.
Past(c) == call[c].op # "edit" /\ call[c].at \in {"member", "read", "save row", "accept"}

\* There is one such call, and while there is, nobody has accepted.
OneAccepts ==
    /\ \A c, d \in Calls : Past(c) /\ Past(d) => c = d
    /\ \A c \in Calls : Past(c) => invite = "open"
    /\ invite = "open" => joined = {}
    /\ joined = {} \/ \E u : joined = {u}

JoinedInv ==
    /\ invite \in {"open", "accepted"}
    /\ \A c \in Calls : At(c, "accept") => call[c].op # "edit"
    /\ "accept" \in twins \/ OneAccepts

\* What lets no call past the check, and accepts nothing, keeps it.
LEMMA JoinedKept ==
    ASSUME JoinedInv, UNCHANGED <<invite, joined>>, twins \subseteq twins',
           \A d \in Calls : Past(d)' => Past(d),
           \A d \in Calls : At(d, "accept")' => call'[d].op # "edit"
    PROVE  JoinedInv'
BY DEF JoinedInv, OneAccepts

\* So does a call that goes elsewhere, or edits.
LEMMA JoinedElsewhere ==
    ASSUME JoinedInv, UNCHANGED <<invite, joined>>, twins \subseteq twins', NEW c \in Calls,
           \A d \in Calls \ {c} : call'[d] = call[d],
           \/ call'[c].at \notin {"member", "read", "save row", "accept"}
           \/ call'[c].op = "edit" /\ call'[c].at # "accept"
           \/ Past(c) /\ Past(c)'
    PROVE  JoinedInv'
<1>1. ASSUME NEW d \in Calls PROVE (Past(d)' => Past(d)) /\ (At(d, "accept")' => call'[d].op # "edit")
  <2>1. CASE d = c
    BY <2>1 DEF Past, At
  <2>2. CASE d # c
    BY <2>2 DEF Past, At, JoinedInv
  <2> QED
    BY <2>1, <2>2
<1> QED
  BY <1>1, JoinedKept

LEMMA JoinedMergeStep ==
    ASSUME JoinedInv, Types, NEW c \in Calls, MergeCall(c) \/ Merging(c), UNCHANGED registrationVars
    PROVE  JoinedInv'
<1>1. UNCHANGED <<invite, joined, twins>>
  BY DEF registrationVars
<1>2. MergeMove(c)
  BY MergeMoves
<1> QED
  BY <1>1, <1>2, JoinedElsewhere DEF MergeMove, MergePlaces

\* A registration takes the user in when nobody else does.
LEMMA JoinedSaveInvited ==
    ASSUME JoinedInv, Types, NEW c \in Calls, SaveInvited(c)
    PROVE  JoinedInv'
<1>1. call'[c].at = "idle" /\ \A d \in Calls \ {c} : call'[d] = call[d]
  BY AfterAnswered DEF SaveInvited, Types
<1>2. twins \subseteq twins'
  BY DEF SaveInvited
<1>3. CASE invite = "accepted"
  BY <1>1, <1>2, <1>3, JoinedElsewhere DEF SaveInvited
<1>4. CASE invite # "accepted"
  <2>1. invite' = "accepted" /\ joined' = joined \union {call[c].on} /\ invite = "open"
    BY <1>4 DEF SaveInvited, JoinedInv
  <2>2. ASSUME NEW d \in Calls PROVE At(d, "accept")' => call'[d].op # "edit"
    BY <1>1 DEF JoinedInv, At
  <2>3. CASE "accept" \in twins'
    BY <2>1, <2>2, <2>3 DEF JoinedInv
  <2>4. CASE "accept" \notin twins'
    <3>1. \A d \in Calls \ {c} : ~Joining(d)
      BY <2>4 DEF SaveInvited
    <3>2. \A d \in Calls : ~Past(d)'
      BY <1>1, <3>1 DEF Past, Joining
    <3>3. joined' = {call[c].on}
      BY <1>2, <2>1, <2>4 DEF JoinedInv, OneAccepts
    <3>4. OneAccepts'
      BY <2>1, <3>2, <3>3 DEF OneAccepts
    <3> QED
      BY <2>1, <2>2, <3>4 DEF JoinedInv
  <2> QED
    BY <2>3, <2>4
<1> QED
  BY <1>3, <1>4

\* Who finds the invitation open, and nobody else about to join, is the one.
LEMMA JoinedFindMember ==
    ASSUME JoinedInv, Types, NEW c \in Calls, FindMember(c)
    PROVE  JoinedInv'
<1>0. CallTypes /\ twins \subseteq twins' /\ UNCHANGED <<invite, joined>>
  BY DEF FindMember, Types
<1>1. CASE Answered(c)
  BY <1>0, <1>1, AfterAnswered, JoinedElsewhere
<1>2. CASE ~Accepted(c) /\ (Go(c, "read") \/ Go(c, "member"))
  <2>1. /\ \A d \in Calls \ {c} : call'[d] = call[d]
        /\ call'[c].at # "accept" /\ invite = "open"
    BY <1>0, <1>2, AfterGo DEF Accepted, JoinedInv
  <2>2. ASSUME NEW d \in Calls PROVE At(d, "accept")' => call'[d].op # "edit"
    BY <2>1 DEF JoinedInv, At
  <2>3. CASE "accept" \in twins'
    BY <1>0, <2>2, <2>3 DEF JoinedInv
  <2>4. CASE "accept" \notin twins'
    <3>1. \A d \in Calls \ {c} : ~Joining(d)
      BY <2>4 DEF FindMember
    <3>2. \A d \in Calls : Past(d)' => d = c
      BY <2>1, <3>1 DEF Past, Joining
    <3>3. OneAccepts
      BY <1>0, <2>4 DEF JoinedInv
    <3>4. OneAccepts'
      BY <1>0, <2>1, <3>2, <3>3 DEF OneAccepts
    <3> QED
      BY <1>0, <2>2, <3>4 DEF JoinedInv
  <2> QED
    BY <2>3, <2>4
<1> QED
  BY <1>1, <1>2 DEF FindMember

LEMMA JoinedAccept ==
    ASSUME JoinedInv, Types, NEW c \in Calls, Accept(c)
    PROVE  JoinedInv'
<1>1. call'[c].at = "idle" /\ \A d \in Calls \ {c} : call'[d] = call[d]
  BY AfterAnswered DEF Accept, Types
<1>2. /\ invite' = "accepted" /\ joined' = joined \union {call[c].on} /\ twins' = twins /\ At(c, "accept")
  BY DEF Accept
<1>3. ASSUME NEW d \in Calls PROVE At(d, "accept")' => call'[d].op # "edit"
  BY <1>1 DEF JoinedInv, At
<1>4. ASSUME OneAccepts PROVE OneAccepts'
  <2>1. Past(c)
    BY <1>2 DEF JoinedInv, Past, At
  <2>2. joined' = {call[c].on}
    BY <1>2, <1>4, <2>1 DEF OneAccepts
  <2>3. \A d \in Calls : ~Past(d)'
    BY <1>1, <1>4, <2>1 DEF OneAccepts, Past
  <2> QED
    BY <1>2, <2>2, <2>3 DEF OneAccepts
<1> QED
  BY <1>2, <1>3, <1>4 DEF JoinedInv

LEMMA JoinedRegistering ==
    ASSUME JoinedInv, Types, NEW c \in Calls, Registering(c)
    PROVE  JoinedInv'
<1> USE DEF registrationVars
<1>0. CallTypes /\ call[c] \in CallState
  BY CallOf DEF Types
<1>1. ASSUME Answered(c), UNCHANGED <<invite, joined, twins>> PROVE JoinedInv'
  BY <1>0, <1>1, AfterAnswered, JoinedElsewhere
<1>2. ASSUME NEW place \in {"invited", "mail", "cache", "save", "find"}, Go(c, place), UNCHANGED <<invite, joined, twins>>
      PROVE  JoinedInv'
  BY <1>0, <1>2, AfterGo, JoinedElsewhere
<1>3. ASSUME Go(c, "read") \/ Go(c, "accept"), call[c].op = "edit" => Go(c, "read"),
             call[c].at \in {"member", "read", "save row"}, UNCHANGED <<invite, joined, twins>>
      PROVE  JoinedInv'
  <2>1. call'[c].op = call[c].op /\ \A d \in Calls \ {c} : call'[d] = call[d]
    BY <1>0, <1>3, AfterGo
  <2>2. CASE call[c].op = "edit"
    <3>1. call'[c].at = "read"
      BY <1>0, <1>3, <2>2, AfterGo
    <3> QED
      BY <1>3, <2>1, <2>2, <3>1, JoinedElsewhere
  <2>3. CASE call[c].op # "edit"
    <3>1. Past(c) /\ Past(c)'
      BY <1>0, <1>3, <2>1, <2>3, AfterGo DEF Past
    <3> QED
      BY <1>3, <2>1, <3>1, JoinedElsewhere
  <2> QED
    BY <2>2, <2>3
<1>4. CASE CheckAddress(c)
  <2>1. UNCHANGED <<invite, joined, twins>>
    BY <1>4 DEF CheckAddress
  <2>2. ASSUME NEW u, NEW place \in {"invited", "mail", "save"}, Become(c, [call[c] EXCEPT !.on = u, !.at = place])
        PROVE  JoinedInv'
    <3>1. [call[c] EXCEPT !.on = u, !.at = place].at = place
      BY <1>0 DEF CallState
    <3> QED
      BY <1>0, <2>1, <2>2, <3>1, CallAfter, JoinedElsewhere
  <2> QED
    BY <1>1, <1>4, <2>1, <2>2 DEF CheckAddress
<1>5. CASE Mail(c)
  BY <1>1, <1>2, <1>5 DEF Mail
<1>6. CASE CacheUser(c)
  BY <1>1, <1>2, <1>6 DEF CacheUser
<1>7. CASE Save(c)
  BY <1>1, <1>7 DEF Save
<1>8. CASE Activate(c)
  BY <1>1, <1>2, <1>8 DEF Activate
<1>9. CASE SaveEmail(c)
  BY <1>1, <1>2, <1>9 DEF SaveEmail
<1>10. CASE Welcome(c)
  BY <1>1, <1>2, <1>10 DEF Welcome
<1>11. CASE AddMember(c)
  BY <1>1, <1>3, <1>11 DEF AddMember, At
<1>12. CASE ReadMember(c)
  <2>1. UNCHANGED <<invite, joined, twins>>
    BY <1>12 DEF ReadMember
  <2>2. ASSUME NEW k, Become(c, [call[c] EXCEPT !.at = "save row", !.seen = {k}]) PROVE JoinedInv'
    <3>1. /\ [call[c] EXCEPT !.at = "save row", !.seen = {k}].at = "save row"
          /\ [call[c] EXCEPT !.at = "save row", !.seen = {k}].op = call[c].op
      BY <1>0 DEF CallState
    <3>2. call'[c].at = "save row" /\ call'[c].op = call[c].op /\ \A d \in Calls \ {c} : call'[d] = call[d]
      BY <1>0, <2>2, <3>1, CallAfter
    <3>3. call[c].at = "read"
      BY <1>12 DEF ReadMember, At
    <3>4. call[c].op # "edit" => Past(c) /\ Past(c)'
      BY <3>2, <3>3 DEF Past
    <3> QED
      BY <2>1, <3>2, <3>4, JoinedElsewhere
  <2>3. CASE Answered(c)
    BY <1>1, <2>1, <2>3
  <2>4. CASE call[c].op # "edit" /\ Go(c, "accept")
    BY <1>3, <1>12, <2>1, <2>4 DEF ReadMember, At
  <2> QED
    BY <1>12, <2>2, <2>3, <2>4 DEF ReadMember
<1>13. CASE SaveMember(c)
  BY <1>1, <1>3, <1>13 DEF SaveMember, At
<1> QED
  BY <1>4, <1>5, <1>6, <1>7, <1>8, <1>9, <1>10, <1>11, <1>12, <1>13,
     JoinedSaveInvited, JoinedFindMember, JoinedAccept DEF Registering

LEMMA JoinedRegistrationCall ==
    ASSUME JoinedInv, Types, NEW c \in Calls, NEW b, RegistrationCall(c, b)
    PROVE  JoinedInv'
<1> USE DEF registrationVars
<1>1. ASSUME NEW s, Begin(c, s), s.at \in {"address", "change", "activate", "invited", "find"} \/ (s.at = "read" /\ s.op = "edit"),
             UNCHANGED <<invite, joined>>, twins \subseteq twins'
      PROVE  JoinedInv'
  <2>1. call'[c] = s /\ \A d \in Calls \ {c} : call'[d] = call[d]
    BY <1>1, CallAfter DEF Begin, Types
  <2> QED
    BY <1>1, <2>1, JoinedElsewhere
<1>2. ASSUME NEW e, Register(c, b, e) PROVE JoinedInv'
  BY <1>1, <1>2 DEF Register, Idle
<1>3. ASSUME NEW e, ChangeEmail(c, b, e) PROVE JoinedInv'
  BY <1>1, <1>3 DEF ChangeEmail, Idle
<1>4. CASE Verify(c, b)
  BY <1>1, <1>4 DEF Verify, Idle
<1>5. CASE OpenLink(c, b)
  BY <1>1, <1>5 DEF OpenLink, Idle
<1>6. ASSUME NEW u, Login(c, b, u) PROVE JoinedInv'
  BY <1>1, <1>6 DEF Login, Idle
<1>7. ASSUME NEW u, EditMember(c, b, u) PROVE JoinedInv'
  BY <1>1, <1>7 DEF EditMember, Idle
<1> QED
  BY <1>2, <1>3, <1>4, <1>5, <1>6, <1>7 DEF RegistrationCall

LEMMA JoinedBrowserCall ==
    ASSUME JoinedInv, Types, NEW b, BrowserCall(b)
    PROVE  JoinedInv'
<1> USE DEF registrationVars
<1>1. CASE Invite(b)
  <2>1. UNCHANGED <<call, twins>> /\ invite' = "open" /\ joined' = {} /\ \A c \in Calls : ~Joining(c)
    BY <1>1 DEF Invite
  <2>2. \A c \in Calls : ~Past(c)'
    BY <2>1 DEF Past, Joining
  <2>3. OneAccepts'
    BY <2>1, <2>2 DEF OneAccepts
  <2> QED
    BY <2>1, <2>3 DEF JoinedInv, At
<1>2. CASE UNCHANGED <<call, invite, joined, twins>>
  BY <1>2, JoinedKept DEF Past, At, JoinedInv
<1> QED
  BY <1>1, <1>2 DEF BrowserCall, Form, Expire, RememberLink, AddProfile

LEMMA JoinedFollows == JoinedInv => JoinedOnce
<1> SUFFICES ASSUME JoinedInv, "accept" \notin twins PROVE Cardinality(joined) <= 1
  BY DEF JoinedOnce
<1>1. joined = {} \/ \E u : joined = {u}
  BY DEF JoinedInv, OneAccepts
<1> QED
  BY <1>1, FS_EmptySet, FS_Singleton

-----------------------------------------------------------------------------
(* The lists and the groups of the staff *)

\* A registration, a login or an invitation leaves the places of a merge alone.
RegistrationMove(c) ==
    /\ \A d \in Calls \ {c} : call'[d] = call[d]
    /\ call'[c].at \notin {"list", "write", "check", "insert", "commit", "move", "merge"}

LEMMA RegistrationMoves ==
    ASSUME Types, NEW c \in Calls, NEW b, Registering(c) \/ RegistrationCall(c, b)
    PROVE  RegistrationMove(c)
<1>0. CallTypes /\ call[c] \in CallState
  BY CallOf DEF Types
<1>1. CASE Answered(c)
  BY <1>0, <1>1, AfterAnswered DEF RegistrationMove
<1>2. ASSUME NEW place \in {"invited", "mail", "cache", "save", "find", "read", "member", "accept"}, Go(c, place)
      PROVE  RegistrationMove(c)
  BY <1>0, <1>2, AfterGo DEF RegistrationMove
<1>3. ASSUME NEW s, Become(c, s),
             s.at \in {"invited", "mail", "save", "save row", "address", "change", "activate", "find", "read"}
      PROVE  RegistrationMove(c)
  BY <1>0, <1>3, CallAfter DEF RegistrationMove
<1>4. CASE CheckAddress(c)
  <2>1. ASSUME NEW u, NEW place \in {"invited", "mail", "save"}, Become(c, [call[c] EXCEPT !.on = u, !.at = place])
        PROVE  RegistrationMove(c)
    <3>1. [call[c] EXCEPT !.on = u, !.at = place].at = place
      BY <1>0 DEF CallState
    <3> QED
      BY <2>1, <3>1, <1>3
  <2> QED
    BY <1>1, <1>4, <2>1 DEF CheckAddress
<1>5. CASE Mail(c) \/ CacheUser(c) \/ Save(c) \/ SaveInvited(c)
  BY <1>1, <1>2, <1>5 DEF Mail, CacheUser, Save, SaveInvited
<1>6. CASE Activate(c) \/ SaveEmail(c) \/ Welcome(c) \/ FindMember(c)
  BY <1>1, <1>2, <1>6 DEF Activate, SaveEmail, Welcome, FindMember
<1>7. CASE AddMember(c) \/ SaveMember(c) \/ Accept(c)
  BY <1>1, <1>2, <1>7 DEF AddMember, SaveMember, Accept
<1>8. CASE ReadMember(c)
  <2>1. ASSUME NEW k, Become(c, [call[c] EXCEPT !.at = "save row", !.seen = {k}]) PROVE RegistrationMove(c)
    <3>1. [call[c] EXCEPT !.at = "save row", !.seen = {k}].at = "save row"
      BY <1>0 DEF CallState
    <3> QED
      BY <2>1, <3>1, <1>3
  <2> QED
    BY <1>1, <1>2, <1>8, <2>1 DEF ReadMember
<1>9. CASE Registering(c)
  BY <1>4, <1>5, <1>6, <1>7, <1>8, <1>9 DEF Registering
<1>10. ASSUME NEW e, Register(c, b, e) PROVE RegistrationMove(c)
  BY <1>3, <1>10 DEF Register, Begin, Idle
<1>11. ASSUME NEW e, ChangeEmail(c, b, e) PROVE RegistrationMove(c)
  BY <1>3, <1>11 DEF ChangeEmail, Begin, Idle
<1>12. CASE Verify(c, b)
  BY <1>3, <1>12 DEF Verify, Begin, Idle
<1>13. CASE OpenLink(c, b)
  BY <1>3, <1>13 DEF OpenLink, Begin, Idle
<1>14. ASSUME NEW u, Login(c, b, u) PROVE RegistrationMove(c)
  BY <1>3, <1>14 DEF Login, Begin, Idle
<1>15. ASSUME NEW u, EditMember(c, b, u) PROVE RegistrationMove(c)
  BY <1>3, <1>15 DEF EditMember, Begin, Idle
<1> QED
  BY <1>9, <1>10, <1>11, <1>12, <1>13, <1>14, <1>15 DEF RegistrationCall

\* A call whose list was checked, and is about to become a group.
Creating(c) == call[c].op = "create" /\ call[c].at \in {"insert", "commit"}

OneCreates ==
    /\ \A g, h \in groups : g # h => g.users \intersect h.users = {}
    /\ \A c, d \in Calls : Creating(c) /\ Creating(d) => c = d
    /\ \A c \in Calls, g \in groups : Creating(c) => g.users \intersect call[c].list = {}

GroupInv == raced \/ OneCreates

\* A call that reads or changes the list of its staff.
Collecting(c) == call[c].at \in {"list", "write", "check", "insert", "commit"}

ListInv ==
    /\ \A s \in Staff \ mixed : prepared[s] = asked[s]
    /\ \A c, d \in Calls :
         Collecting(c) /\ Collecting(d) /\ call[c].by = call[d].by /\ call[c].by \in Staff \ mixed => c = d
    /\ \A c \in Calls :
         At(c, "write") /\ call[c].by \in Staff \ mixed => call[c].list = prepared[call[c].by]

\* What creates no group keeps the groups apart.
LEMMA GroupKept ==
    ASSUME GroupInv, UNCHANGED raced, groups' \subseteq groups,
           \A c \in Calls : Creating(c)' => Creating(c) /\ call'[c].list = call[c].list
    PROVE  GroupInv'
BY DEF GroupInv, OneCreates

LEMMA GroupElsewhere ==
    ASSUME GroupInv, UNCHANGED raced, groups' \subseteq groups, NEW c \in Calls,
           \A d \in Calls \ {c} : call'[d] = call[d],
           call'[c].at \notin {"insert", "commit"}
    PROVE  GroupInv'
<1>1. \A d \in Calls : Creating(d)' => Creating(d) /\ call'[d].list = call[d].list
  BY DEF Creating
<1> QED
  BY <1>1, GroupKept

\* What leaves the lists alone keeps them.
LEMMA ListElsewhere ==
    ASSUME ListInv, UNCHANGED <<prepared, asked, mixed>>, NEW c \in Calls,
           \A d \in Calls \ {c} : call'[d] = call[d],
           \/ call'[c].at \notin {"list", "write", "check", "insert", "commit"}
           \/ Collecting(c) /\ call'[c].by = call[c].by /\ (At(c, "write")' => call'[c].list = prepared[call[c].by])
    PROVE  ListInv'
<1>1. ASSUME NEW d \in Calls, Collecting(d)' PROVE Collecting(d) /\ call'[d].by = call[d].by
  BY <1>1 DEF Collecting
<1>2. ASSUME NEW d \in Calls, At(d, "write")', call'[d].by \in Staff \ mixed' PROVE call'[d].list = prepared'[call'[d].by]
  BY <1>2 DEF At, ListInv
<1> QED
  BY <1>1, <1>2 DEF ListInv

\* When the call of a list ends, or writes what it means, the list is as asked.
LEMMA ListWritten ==
    ASSUME ListInv, Types, UNCHANGED mixed, NEW c \in Calls, Collecting(c),
           \A d \in Calls \ {c} : call'[d] = call[d],
           call'[c].at \notin {"list", "write", "check"}, call'[c].by = call[c].by \/ ~Collecting(c)',
           NEW new, NEW old,
           prepared' = [prepared EXCEPT ![call[c].by] = new],
           asked' = [asked EXCEPT ![call[c].by] = old],
           call[c].by \in Staff \ mixed => new = old
    PROVE  ListInv'
<1>1. DOMAIN prepared = Staff /\ DOMAIN asked = Staff
  BY DEF Types, MergeTypes
<1>2. ASSUME NEW s \in Staff \ mixed PROVE prepared'[s] = asked'[s]
  BY <1>1 DEF ListInv
<1>3. ASSUME NEW d \in Calls, Collecting(d)' PROVE Collecting(d) /\ call'[d].by = call[d].by
  BY <1>3 DEF Collecting
<1>4. ASSUME NEW d \in Calls, At(d, "write")', call'[d].by \in Staff \ mixed
      PROVE  call'[d].list = prepared'[call'[d].by]
  <2>1. d # c /\ call'[d] = call[d]
    BY <1>4 DEF At
  <2>2. Collecting(d) /\ At(d, "write")
    BY <1>4, <2>1 DEF At, Collecting
  <2>3. call[d].by # call[c].by
    BY <1>4, <2>1, <2>2 DEF ListInv
  <2> QED
    BY <1>1, <1>4, <2>1, <2>2, <2>3 DEF ListInv
<1> QED
  BY <1>2, <1>3, <1>4 DEF ListInv

LEMMA GroupMerging ==
    ASSUME GroupInv, Types, NEW c \in Calls, Merging(c) PROVE GroupInv'
<1> USE DEF mergeVars
<1>0. CallTypes /\ call[c] \in CallState /\ groups \subseteq Group
  BY CallOf DEF Types, MergeTypes
<1>1. CASE ReadList(c)
  <2> DEFINE place == IF call[c].op = "create" THEN "check" ELSE "write"
  <2> DEFINE r == [call[c] EXCEPT !.at = place, !.list = prepared[call[c].by]]
  <2>1. Become(c, r) /\ UNCHANGED <<groups, raced>>
    BY <1>1 DEF ReadList
  <2>2. r.at \in {"check", "write"}
    BY <1>0 DEF CallState
  <2> QED
    BY <1>0, <2>1, <2>2, CallAfter, GroupElsewhere
<1>2. CASE WriteList(c)
  BY <1>0, <1>2, AfterAnswered, GroupElsewhere DEF WriteList
<1>3. CASE Check(c)
  <2>1. UNCHANGED groups /\ raced' = (raced \/ \E d \in Calls \ {c} : At(d, "insert") \/ At(d, "commit"))
    BY <1>3 DEF Check
  <2>2. CASE raced'
    BY <2>2 DEF GroupInv
  <2>3. CASE ~raced' /\ Answered(c)
    <3>1. raced' = raced
      BY <2>1, <2>3 DEF Types, MergeTypes
    <3> QED
      BY <1>0, <2>1, <2>3, <3>1, AfterAnswered, GroupElsewhere
  <2>4. CASE ~raced' /\ Go(c, "insert") /\ Valid(call[c].list)
    <3>1. OneCreates /\ \A d \in Calls \ {c} : ~Creating(d)
      BY <2>1, <2>4 DEF GroupInv, Creating, At
    <3>2. call'[c].list = call[c].list /\ \A d \in Calls \ {c} : call'[d] = call[d]
      BY <1>0, <2>4, AfterGo
    <3>3. \A d \in Calls : Creating(d)' => d = c
      BY <3>1, <3>2 DEF Creating
    <3>4. \A g \in groups : g.users \intersect call[c].list = {}
      BY <2>4 DEF Valid
    <3>5. OneCreates'
      BY <2>1, <3>1, <3>2, <3>3, <3>4 DEF OneCreates
    <3> QED
      BY <3>5 DEF GroupInv
  <2> QED
    BY <1>3, <2>2, <2>3, <2>4 DEF Check
<1>4. CASE EmptyList(c)
  <2>1. Go(c, "commit") /\ UNCHANGED <<groups, raced>> /\ (call[c].op = "create" => At(c, "insert"))
    BY <1>4 DEF EmptyList
  <2>2. \A d \in Calls : Creating(d)' => Creating(d) /\ call'[d].list = call[d].list
    BY <1>0, <2>1, AfterGo DEF Creating, At
  <2> QED
    BY <2>1, <2>2, GroupKept
<1>5. CASE Commit(c)
  <2>1. /\ call'[c].at = "idle" /\ \A d \in Calls \ {c} : call'[d] = call[d]
    BY <1>0, <1>5, AfterAnswered DEF Commit
  <2>2. At(c, "commit") /\ UNCHANGED raced
    BY <1>5 DEF Commit
  <2>3. CASE call[c].op # "create"
    BY <1>5, <2>1, <2>3, GroupElsewhere DEF Commit
  <2>4. CASE call[c].op = "create" /\ ~raced
    <3> DEFINE new == [users |-> call[c].list, by |-> call[c].by]
    <3>1. groups' = groups \union {new} /\ new.users = call[c].list
      BY <1>5, <2>4 DEF Commit
    <3>2. Creating(c) /\ OneCreates
      BY <2>2, <2>4 DEF Creating, At, GroupInv
    <3>3. \A g \in groups : g.users \intersect new.users = {}
      BY <3>1, <3>2 DEF OneCreates
    <3>4. \A g, h \in groups' : g # h => g.users \intersect h.users = {}
      BY <3>1, <3>2, <3>3 DEF OneCreates
    <3>5. \A d \in Calls : ~Creating(d)'
      BY <2>1, <3>2 DEF OneCreates, Creating
    <3> QED
      BY <3>4, <3>5 DEF GroupInv, OneCreates
  <2> QED
    BY <2>2, <2>3, <2>4 DEF GroupInv
<1>6. CASE Find(c)
  <2>1. UNCHANGED <<groups, raced>>
    BY <1>6 DEF Find
  <2>2. ASSUME NEW g, Become(c, [call[c] EXCEPT !.at = "move", !.group = g]) PROVE GroupInv'
    <3>1. [call[c] EXCEPT !.at = "move", !.group = g].at = "move"
      BY <1>0 DEF CallState
    <3> QED
      BY <1>0, <2>1, <2>2, <3>1, CallAfter, GroupElsewhere
  <2>3. CASE Go(c, "welcome")
    BY <1>0, <2>1, <2>3, AfterGo, GroupElsewhere
  <2> QED
    BY <1>6, <2>2, <2>3 DEF Find
<1>7. CASE Move(c)
  <2>1. Become(c, [call[c] EXCEPT !.at = "merge", !.seen = Moved(c)]) /\ UNCHANGED <<groups, raced>>
    BY <1>7 DEF Move
  <2>2. [call[c] EXCEPT !.at = "merge", !.seen = Moved(c)].at = "merge"
    BY <1>0 DEF CallState
  <2> QED
    BY <1>0, <2>1, <2>2, CallAfter, GroupElsewhere
<1>8. CASE Merge(c)
  <2>1. Go(c, "welcome") /\ UNCHANGED raced /\ groups' \subseteq groups
    BY <1>8 DEF Merge
  <2> QED
    BY <1>0, <2>1, AfterGo, GroupElsewhere
<1> QED
  BY <1>1, <1>2, <1>3, <1>4, <1>5, <1>6, <1>7, <1>8 DEF Merging

LEMMA ListMerging ==
    ASSUME ListInv, Types, NEW c \in Calls, Merging(c) PROVE ListInv'
<1> USE DEF mergeVars
<1>0. CallTypes /\ call[c] \in CallState
  BY CallOf DEF Types
<1>1. CASE ReadList(c)
  <2> DEFINE place == IF call[c].op = "create" THEN "check" ELSE "write"
  <2> DEFINE r == [call[c] EXCEPT !.at = place, !.list = prepared[call[c].by]]
  <2>1. At(c, "list") /\ Become(c, r) /\ UNCHANGED <<prepared, asked, mixed>>
    BY <1>1 DEF ReadList
  <2>2. r.by = call[c].by /\ r.list = prepared[call[c].by]
    BY <1>0 DEF CallState
  <2>3. call'[c] = r /\ \A d \in Calls \ {c} : call'[d] = call[d]
    BY <1>0, <2>1, CallAfter
  <2> QED
    BY <2>1, <2>2, <2>3, ListElsewhere DEF Collecting, At
<1>2. CASE WriteList(c)
  <2> DEFINE s == call[c].by
  <2> DEFINE new == Put(c, call[c].list)
  <2> DEFINE old == (asked[s] \union {call[c].on}) \ (IF call[c].op = "add" THEN {} ELSE {call[c].on})
  <2>1. /\ prepared' = [prepared EXCEPT ![s] = new] /\ asked' = [asked EXCEPT ![s] = old]
        /\ UNCHANGED mixed /\ At(c, "write")
    BY <1>2 DEF WriteList
  <2>2. call'[c].at = "idle" /\ \A d \in Calls \ {c} : call'[d] = call[d]
    BY <1>0, <1>2, AfterAnswered DEF WriteList
  <2>3. s \in Staff \ mixed => new = old
    BY <2>1 DEF ListInv, Put
  <2>4. Collecting(c) /\ ~Collecting(c)'
    BY <2>1, <2>2 DEF Collecting, At
  <2> HIDE DEF new, old
  <2> QED
    BY <2>1, <2>2, <2>3, <2>4, ListWritten
<1>3. CASE Check(c)
  <2>1. At(c, "check") /\ UNCHANGED <<prepared, asked, mixed>> /\ (Go(c, "insert") \/ Answered(c))
    BY <1>3 DEF Check
  <2>2. CASE Answered(c)
    BY <1>0, <2>1, <2>2, AfterAnswered, ListElsewhere
  <2>3. CASE Go(c, "insert")
    <3>1. /\ call'[c].at = "insert" /\ call'[c].by = call[c].by
          /\ \A d \in Calls \ {c} : call'[d] = call[d]
      BY <1>0, <2>3, AfterGo
    <3> QED
      BY <2>1, <3>1, ListElsewhere DEF Collecting, At
  <2> QED
    BY <2>1, <2>2, <2>3
<1>4. CASE EmptyList(c)
  <2>1. /\ prepared' = [prepared EXCEPT ![call[c].by] = {}] /\ asked' = [asked EXCEPT ![call[c].by] = {}]
        /\ Go(c, "commit") /\ UNCHANGED mixed /\ Collecting(c)
    BY <1>4 DEF EmptyList, Collecting, At
  <2>2. /\ call'[c].at = "commit" /\ call'[c].by = call[c].by
        /\ \A d \in Calls \ {c} : call'[d] = call[d]
    BY <1>0, <2>1, AfterGo
  <2> QED
    BY <2>1, <2>2, ListWritten
<1>5. CASE Commit(c)
  BY <1>0, <1>5, AfterAnswered, ListElsewhere DEF Commit
<1>6. CASE Find(c) \/ Move(c) \/ Merge(c)
  <2>1. UNCHANGED <<prepared, asked, mixed>>
    BY <1>6 DEF Find, Move, Merge
  <2>2. ASSUME NEW s, Become(c, s), s.at \in {"move", "merge"} PROVE ListInv'
    BY <1>0, <2>1, <2>2, CallAfter, ListElsewhere
  <2>3. ASSUME Go(c, "welcome") PROVE ListInv'
    BY <1>0, <2>1, <2>3, AfterGo, ListElsewhere
  <2>4. ASSUME NEW g PROVE [call[c] EXCEPT !.at = "move", !.group = g].at = "move"
    BY <1>0 DEF CallState
  <2>5. [call[c] EXCEPT !.at = "merge", !.seen = Moved(c)].at = "merge"
    BY <1>0 DEF CallState
  <2>6. CASE Find(c)
    BY <2>2, <2>3, <2>4, <2>6 DEF Find
  <2>7. CASE Move(c)
    BY <2>2, <2>5, <2>7 DEF Move
  <2>8. CASE Merge(c)
    BY <2>3, <2>8 DEF Merge
  <2> QED
    BY <1>6, <2>6, <2>7, <2>8
<1> QED
  BY <1>1, <1>2, <1>3, <1>4, <1>5, <1>6 DEF Merging

LEMMA GroupMergeCall ==
    ASSUME GroupInv, ListInv, Types, NEW c \in Calls, MergeCall(c) PROVE GroupInv' /\ ListInv'
<1> USE DEF mergeVars
<1>0. CallTypes
  BY DEF Types
<1>1. ASSUME NEW s \in Staff, NEW u, NEW o, Collect(c, s, o, u) PROVE GroupInv' /\ ListInv'
  <2> DEFINE r == [Idle EXCEPT !.at = "list", !.op = o, !.by = s, !.on = u]
  <2>1. At(c, "idle") /\ Become(c, r) /\ UNCHANGED <<prepared, groups, asked, raced>>
    BY <1>1 DEF Collect, Begin
  <2>2. r.at = "list" /\ r.by = s
    BY DEF Idle
  <2>3. call'[c].at = "list" /\ call'[c].by = s /\ \A d \in Calls \ {c} : call'[d] = call[d]
    BY <1>0, <2>1, <2>2, CallAfter
  <2>4. GroupInv'
    BY <2>1, <2>3, GroupElsewhere
  <2>5. mixed \subseteq mixed' /\ (s \notin mixed' => \A d \in Calls : call[d].by # s)
    BY <1>1 DEF Collect
  <2>6. ASSUME NEW d \in Calls, NEW e \in Calls, Collecting(d)', Collecting(e)',
               call'[d].by = call'[e].by, call'[d].by \in Staff \ mixed'
        PROVE  d = e
    <3>1. CASE d # c /\ e # c
      BY <2>3, <2>5, <2>6, <3>1 DEF ListInv, Collecting
    <3>2. CASE d = c \/ e = c
      BY <2>3, <2>5, <2>6, <3>2
    <3> QED
      BY <3>1, <3>2
  <2>7. ASSUME NEW d \in Calls, At(d, "write")', call'[d].by \in Staff \ mixed' PROVE call'[d].list = prepared'[call'[d].by]
    BY <2>1, <2>3, <2>5, <2>7 DEF ListInv, At
  <2>8. ListInv'
    BY <2>1, <2>5, <2>6, <2>7 DEF ListInv
  <2> QED
    BY <2>4, <2>8
<1>2. ASSUME NEW b, NEW u, MergeAccounts(c, b, u) PROVE GroupInv' /\ ListInv'
  <2>1. PICK v : Become(c, [Idle EXCEPT !.at = "find", !.op = "merge", !.on = v])
    BY <1>2 DEF MergeAccounts, Begin
  <2>2. [Idle EXCEPT !.at = "find", !.op = "merge", !.on = v].at = "find"
    BY DEF Idle
  <2>3. UNCHANGED <<prepared, groups, asked, mixed, raced>>
    BY <1>2 DEF MergeAccounts
  <2> QED
    BY <1>0, <2>1, <2>2, <2>3, CallAfter, GroupElsewhere, ListElsewhere
<1> QED
  BY <1>1, <1>2 DEF MergeCall

LEMMA GroupRegistration ==
    ASSUME GroupInv, ListInv, Types, RegistrationStep PROVE GroupInv' /\ ListInv'
<1>0. UNCHANGED <<prepared, groups, asked, mixed, raced>>
  BY DEF RegistrationStep
<1>1. ASSUME NEW c \in Calls, NEW b, Registering(c) \/ RegistrationCall(c, b) PROVE GroupInv' /\ ListInv'
  <2>1. RegistrationMove(c)
    BY <1>1, RegistrationMoves
  <2> QED
    BY <1>0, <2>1, GroupElsewhere, ListElsewhere DEF RegistrationMove
<1>2. ASSUME NEW b, BrowserCall(b) PROVE GroupInv' /\ ListInv'
  <2>1. UNCHANGED call
    BY <1>2 DEF BrowserCall, Form, Expire, Invite, RememberLink, AddProfile
  <2> QED
    BY <1>0, <2>1 DEF GroupInv, OneCreates, Creating, ListInv, Collecting, At
<1> QED
  BY <1>1, <1>2 DEF RegistrationStep

LEMMA GroupFollows == GroupInv /\ ListInv => InOneGroup
BY DEF GroupInv, OneCreates, ListInv, InOneGroup, UserInOneGroup, ListIsAsAsked

-----------------------------------------------------------------------------
(* Who is active was mailed a code *)

Backed(u) == \E m \in mailed : m[1] = u

MailedFlows ==
    \A b \in Browsers : flow[b] # None => flow[b].user = None \/ <<flow[b].user, flow[b].id>> \in mailed

MailedUsers ==
    \A u \in Users \ (DOMAIN Address \union given) : Exists(u) /\ user[u].active => Backed(u)

\* The call that caches a user has mailed him the code, and the user to be
\* activated was found under a code.
MailedCalls ==
    \A c \in Calls :
        /\ At(c, "cache") => <<call[c].on, call[c].flow.id>> \in mailed
        /\ At(c, "activate") => Backed(call[c].on)

MailedInv == MailedFlows /\ MailedUsers /\ MailedCalls

LEMMA MailedCallsKept ==
    ASSUME MailedCalls, mailed \subseteq mailed', NEW c \in Calls,
           \A d \in Calls \ {c} : call'[d] = call[d],
           At(c, "cache")' => <<call'[c].on, call'[c].flow.id>> \in mailed',
           At(c, "activate")' => Backed(call'[c].on)
    PROVE  MailedCalls'
BY DEF MailedCalls, At, Backed

\* No step makes a user active but one that saves or activates him.
LEMMA MailedUsersKept ==
    ASSUME MailedUsers, mailed \subseteq mailed', given \subseteq given',
           \A u \in Users : Exists(u)' /\ user'[u].active => (Exists(u) /\ user[u].active) \/ u \in given'
    PROVE  MailedUsers'
BY DEF MailedUsers, Backed

LEMMA MailedMergeStep ==
    ASSUME MailedInv, Types, NEW c \in Calls, MergeCall(c) \/ Merging(c), UNCHANGED registrationVars
    PROVE  MailedInv'
<1>1. UNCHANGED <<flow, mailed, given>>
  BY DEF registrationVars
<1>2. MergeMove(c)
  BY MergeMoves
<1>3. MailedCalls'
  BY <1>1, <1>2, MailedCallsKept DEF MailedInv, MergeMove, MergePlaces, At
<1>4. UNCHANGED user \/ user' = [u \in Users |-> IF u \in Deleted(c) THEN None ELSE user[u]]
  BY DEF MergeCall, Merging, Collect, MergeAccounts, ReadList, WriteList, Check, EmptyList, Commit, Find, Move, Merge, tables
<1>5. \A u \in Users : Exists(u)' => user'[u] = user[u]
  BY <1>4 DEF Exists
<1>6. MailedUsers'
  BY <1>1, <1>5, MailedUsersKept DEF MailedInv, Exists
<1>7. MailedFlows'
  BY <1>1 DEF MailedInv, MailedFlows
<1> QED
  BY <1>3, <1>6, <1>7 DEF MailedInv

\* Saving a user, or another column of his, does not make him active.
LEMMA InactiveSaved ==
    ASSUME Types, NEW v, NEW e,
           \/ user' = user
           \/ user' = [user EXCEPT ![v] = [email |-> e, active |-> FALSE]]
           \/ Exists(v) /\ user' = [user EXCEPT ![v].email = e]
    PROVE  \A u \in Users : Exists(u)' /\ user'[u].active => Exists(u) /\ user[u].active
<1> TAKE u \in Users
<1>1. user[u] # None => user[u] \in Account
  BY DEF Types, TableTypes, OrNone
<1>2. CASE u = v
  <2>1. CASE user' = [user EXCEPT ![v].email = e] /\ Exists(v)
    <3>1. user'[u] = [user[u] EXCEPT !.email = e]
      BY <1>2, <2>1 DEF Types, TableTypes
    <3> QED
      BY <1>1, <1>2, <2>1, <3>1 DEF Account, Exists
  <2>2. CASE user' = [user EXCEPT ![v] = [email |-> e, active |-> FALSE]]
    <3>1. user'[u] = [email |-> e, active |-> FALSE]
      BY <1>2, <2>2 DEF Types, TableTypes
    <3> QED
      BY <3>1
  <2> QED
    BY <2>1, <2>2 DEF Exists
<1>3. CASE u # v
  <2>1. user'[u] = user[u]
    BY <1>3 DEF Types, TableTypes
  <2> QED
    BY <2>1 DEF Exists
<1> QED
  BY <1>2, <1>3

LEMMA MailedRegistering ==
    ASSUME MailedInv, Types, NEW c \in Calls, Registering(c)
    PROVE  MailedInv'
<1> USE DEF registrationVars, tables
<1>0. CallTypes /\ call[c] \in CallState
  BY CallOf DEF Types
<1>1. ASSUME \/ Answered(c)
             \/ \E place \in {"invited", "mail", "save", "find", "read", "member", "accept"} : Go(c, place),
             mailed \subseteq mailed'
      PROVE  MailedCalls'
  <2>1. /\ \A d \in Calls \ {c} : call'[d] = call[d]
        /\ call'[c].at \notin {"cache", "activate"}
    BY <1>0, <1>1, AfterAnswered, AfterGo
  <2> QED
    BY <1>1, <2>1, MailedCallsKept DEF MailedInv, At
<1>2. ASSUME UNCHANGED <<flow, mailed>> PROVE MailedFlows'
  BY <1>2 DEF MailedInv, MailedFlows
<1>3. ASSUME UNCHANGED <<user, mailed, given>> PROVE MailedUsers'
  BY <1>3 DEF MailedInv, MailedUsers, Exists, Backed
<1>4. CASE CheckAddress(c)
  <2>1. UNCHANGED <<user, flow, mailed, given>>
    BY <1>4 DEF CheckAddress
  <2>2. ASSUME NEW u, NEW place \in {"invited", "mail", "save"}, Become(c, [call[c] EXCEPT !.on = u, !.at = place])
        PROVE  MailedCalls'
    <3>1. [call[c] EXCEPT !.on = u, !.at = place].at = place
      BY <1>0 DEF CallState
    <3>2. call'[c].at = place /\ \A d \in Calls \ {c} : call'[d] = call[d]
      BY <1>0, <2>2, <3>1, CallAfter
    <3> QED
      BY <2>1, <3>2, MailedCallsKept DEF MailedInv, At
  <2>3. MailedCalls'
    BY <1>1, <1>4, <2>1, <2>2 DEF CheckAddress
  <2> QED
    BY <1>2, <1>3, <2>1, <2>3 DEF MailedInv
<1>5. CASE Mail(c)
  <2>1. UNCHANGED <<user, flow, given>> /\ mailed \subseteq mailed'
    BY <1>5 DEF Mail
  <2>2. MailedUsers' /\ MailedFlows'
    BY <2>1, MailedUsersKept DEF MailedInv, MailedFlows, Exists
  <2>3. CASE Answered(c)
    BY <1>1, <2>1, <2>2, <2>3 DEF MailedInv
  <2>4. CASE Go(c, "cache") /\ mailed' = mailed \union {<<call[c].on, call[c].flow.id>>}
    <3>1. /\ call'[c].at = "cache" /\ call'[c].on = call[c].on /\ call'[c].flow = call[c].flow
          /\ \A d \in Calls \ {c} : call'[d] = call[d]
      BY <1>0, <2>4, AfterGo
    <3>2. MailedCalls'
      BY <2>1, <2>4, <3>1, MailedCallsKept DEF MailedInv, At
    <3> QED
      BY <2>2, <3>2 DEF MailedInv
  <2> QED
    BY <1>5, <2>3, <2>4 DEF Mail
<1>6. CASE CacheUser(c)
  <2> DEFINE b == call[c].by
  <2>1. /\ UNCHANGED <<user, mailed, given>> /\ (Go(c, "save") \/ Answered(c)) /\ At(c, "cache")
        /\ \/ flow' = flow
           \/ /\ flow[b] # None /\ flow[b].id = call[c].flow.id
              /\ flow' = [flow EXCEPT ![b].user = call[c].on]
    BY <1>6 DEF CacheUser
  <2>2. MailedCalls' /\ MailedUsers'
    BY <1>1, <1>3, <2>1
  <2>3. ASSUME NEW d \in Browsers, flow'[d] # None
        PROVE  flow'[d].user = None \/ <<flow'[d].user, flow'[d].id>> \in mailed'
    <3>1. CASE flow'[d] = flow[d]
      BY <2>1, <2>3, <3>1 DEF MailedInv, MailedFlows
    <3>2. CASE flow'[d] # flow[d]
      <4>1. d = b /\ flow[b].id = call[c].flow.id /\ flow'[d] = [flow[d] EXCEPT !.user = call[c].on] /\ flow[d] # None
        BY <2>1, <3>2 DEF Types
      <4>2. flow'[d].user = call[c].on /\ flow'[d].id = flow[d].id
        BY <4>1, FlowTypes DEF Flow
      <4> QED
        BY <2>1, <4>1, <4>2 DEF MailedInv, MailedCalls
    <3> QED
      BY <3>1, <3>2
  <2> QED
    BY <2>2, <2>3 DEF MailedInv, MailedFlows
<1>7. CASE Save(c) \/ SaveInvited(c)
  <2>1. /\ UNCHANGED <<flow, mailed, given>> /\ Answered(c)
        /\ user' = user \/ user' = [user EXCEPT ![call[c].on] = [email |-> call[c].email, active |-> FALSE]]
    BY <1>7 DEF Save, SaveInvited
  <2>2. \A u \in Users : Exists(u)' /\ user'[u].active => Exists(u) /\ user[u].active
    BY <2>1, InactiveSaved
  <2> QED
    BY <1>1, <1>2, <2>1, <2>2, MailedUsersKept DEF MailedInv
<1>8. CASE Activate(c)
  <2>1. UNCHANGED <<mailed, given>> /\ (Go(c, "find") \/ Answered(c)) /\ At(c, "activate")
    BY <1>8 DEF Activate
  <2>2. flow' = flow \/ flow' = [flow EXCEPT ![call[c].by] = None]
    BY <1>8 DEF Activate
  <2>3. MailedCalls' /\ Backed(call[c].on)
    BY <1>1, <2>1 DEF MailedInv, MailedCalls
  <2>4. \A d \in Browsers : flow'[d] # None => flow'[d] = flow[d]
    BY <2>2 DEF Types
  <2>5. MailedFlows'
    BY <2>1, <2>4 DEF MailedInv, MailedFlows
  <2>6. user' = user \/ user' = [user EXCEPT ![call[c].on].active = TRUE]
    BY <1>8 DEF Activate
  <2>7. (user' # user => Exists(call[c].on)) /\ \A u \in Users : u # call[c].on => user'[u] = user[u]
    BY <1>8, <2>6 DEF Activate, Types, TableTypes
  <2>8. MailedUsers'
    BY <2>1, <2>3, <2>7 DEF MailedInv, MailedUsers, Backed, Exists
  <2> QED
    BY <2>3, <2>5, <2>8 DEF MailedInv
<1>9. CASE SaveEmail(c)
  <2>1. UNCHANGED <<flow, mailed, given>> /\ (Go(c, "mail") \/ Answered(c))
    BY <1>9 DEF SaveEmail
  <2>2. user' = user \/ (Exists(call[c].on) /\ user' = [user EXCEPT ![call[c].on].email = call[c].email])
    BY <1>9 DEF SaveEmail
  <2>3. \A u \in Users : Exists(u)' /\ user'[u].active => Exists(u) /\ user[u].active
    BY <2>2, InactiveSaved
  <2> QED
    BY <1>1, <1>2, <2>1, <2>3, MailedUsersKept DEF MailedInv
<1>10. CASE Welcome(c) \/ FindMember(c) \/ AddMember(c) \/ SaveMember(c) \/ Accept(c)
  <2>1. /\ UNCHANGED <<user, flow, mailed, given>>
        /\ \/ Answered(c)
           \/ \E place \in {"invited", "mail", "save", "find", "read", "member", "accept"} : Go(c, place)
    BY <1>10 DEF Welcome, FindMember, AddMember, SaveMember, Accept
  <2> QED
    BY <1>1, <1>2, <1>3, <2>1 DEF MailedInv
<1>11. CASE ReadMember(c)
  <2>1. UNCHANGED <<user, flow, mailed, given>>
    BY <1>11 DEF ReadMember
  <2>2. ASSUME NEW k, Become(c, [call[c] EXCEPT !.at = "save row", !.seen = {k}]) PROVE MailedCalls'
    <3>1. [call[c] EXCEPT !.at = "save row", !.seen = {k}].at = "save row"
      BY <1>0 DEF CallState
    <3>2. call'[c].at = "save row" /\ \A d \in Calls \ {c} : call'[d] = call[d]
      BY <1>0, <2>2, <3>1, CallAfter
    <3> QED
      BY <2>1, <3>2, MailedCallsKept DEF MailedInv, At
  <2>3. MailedCalls'
    BY <1>1, <1>11, <2>1, <2>2 DEF ReadMember
  <2> QED
    BY <1>2, <1>3, <2>1, <2>3 DEF MailedInv
<1> QED
  BY <1>4, <1>5, <1>6, <1>7, <1>8, <1>9, <1>10, <1>11 DEF Registering

LEMMA MailedCall ==
    ASSUME MailedInv, Types, NEW c \in Calls, NEW b \in Browsers, RegistrationCall(c, b)
    PROVE  MailedInv'
<1> USE DEF registrationVars, tables
<1>0. UNCHANGED <<user, flow, mailed, given>>
  BY DEF RegistrationCall, Register, ChangeEmail, Verify, OpenLink, Login, EditMember
<1>1. ASSUME NEW s, Begin(c, s), s.at # "cache", s.at = "activate" => Backed(s.on) PROVE MailedCalls'
  <2>1. call'[c] = s /\ \A d \in Calls \ {c} : call'[d] = call[d]
    BY <1>1, CallAfter DEF Begin, Types
  <2> QED
    BY <1>0, <1>1, <2>1, MailedCallsKept DEF MailedInv, At
<1>2. ASSUME NEW e, Register(c, b, e) PROVE MailedCalls'
  BY <1>1, <1>2 DEF Register, Idle
<1>3. ASSUME NEW e, ChangeEmail(c, b, e) PROVE MailedCalls'
  BY <1>1, <1>3 DEF ChangeEmail, Idle
<1>4. ASSUME Verify(c, b) PROVE MailedCalls'
  <2> DEFINE r == [Idle EXCEPT !.at = "activate", !.op = "verify", !.by = b, !.on = flow[b].user]
  <2>1. Begin(c, r) /\ flow[b] # None /\ flow[b].user # None
    BY <1>4 DEF Verify
  <2>2. r.at = "activate" /\ r.on = flow[b].user
    BY DEF Idle
  <2>3. <<flow[b].user, flow[b].id>> \in mailed
    BY <2>1 DEF MailedInv, MailedFlows
  <2>4. <<flow[b].user, flow[b].id>>[1] = flow[b].user
    OBVIOUS
  <2>5. Backed(flow[b].user)
    BY <2>3, <2>4 DEF Backed
  <2> HIDE DEF r
  <2> QED
    BY <2>1, <2>2, <2>5, <1>1
<1>5. ASSUME OpenLink(c, b) PROVE MailedCalls'
  BY <1>1, <1>5 DEF OpenLink, Idle
<1>6. ASSUME NEW u, Login(c, b, u) PROVE MailedCalls'
  BY <1>1, <1>6 DEF Login, Idle
<1>7. ASSUME NEW u, EditMember(c, b, u) PROVE MailedCalls'
  BY <1>1, <1>7 DEF EditMember, Idle
<1>8. MailedCalls'
  BY <1>2, <1>3, <1>4, <1>5, <1>6, <1>7 DEF RegistrationCall
<1> QED
  BY <1>0, <1>8 DEF MailedInv, MailedFlows, MailedUsers, Exists, Backed

LEMMA MailedBrowserCall ==
    ASSUME MailedInv, Types, NEW b \in Browsers, BrowserCall(b)
    PROVE  MailedInv'
<1> USE DEF registrationVars, tables
<1>1. UNCHANGED <<call, mailed>>
  BY DEF BrowserCall, Form, Expire, Invite, RememberLink, AddProfile
<1>2. MailedCalls'
  BY <1>1 DEF MailedInv, MailedCalls, At, Backed
<1>3. CASE Form(b) \/ Expire(b)
  <2>1. UNCHANGED <<user, given>>
    BY <1>3 DEF Form, Expire
  <2>2. \A d \in Browsers : flow'[d] = flow[d] \/ flow'[d] = None \/ flow'[d] = [id |-> made, user |-> None]
    BY <1>3 DEF Form, Expire, Types
  <2>3. [id |-> made, user |-> None].user = None
    OBVIOUS
  <2>4. MailedFlows'
    BY <1>1, <2>2, <2>3 DEF MailedInv, MailedFlows
  <2> QED
    BY <1>1, <1>2, <2>1, <2>4 DEF MailedInv, MailedUsers, Exists, Backed
<1>4. CASE Invite(b) \/ RememberLink(b)
  <2>1. UNCHANGED <<user, given, flow>>
    BY <1>4 DEF Invite, RememberLink
  <2> QED
    BY <1>1, <1>2, <2>1 DEF MailedInv, MailedUsers, MailedFlows, Exists, Backed
<1>5. ASSUME NEW e \in Emails, NEW u \in Users, NEW k \in Rows, AddProfile(b, e, u, k) PROVE MailedInv'
  <2>1. UNCHANGED flow /\ given' = given \union {u} /\ \A v \in Users \ {u} : user'[v] = user[v]
    BY <1>5 DEF AddProfile, Types, TableTypes
  <2>2. MailedUsers'
    BY <1>1, <2>1 DEF MailedInv, MailedUsers, Exists, Backed
  <2> QED
    BY <1>1, <1>2, <2>1, <2>2 DEF MailedInv, MailedFlows
<1> QED
  BY <1>3, <1>4, <1>5 DEF BrowserCall

LEMMA MailedFollows == MailedInv => ActiveWasMailed
BY DEF MailedInv, MailedFlows, MailedUsers, ActiveWasMailed, Backed

-----------------------------------------------------------------------------
(* Addresses differ *)

\* A registration whose address was looked for, until its user is saved.
Checked(c) == Registers(c) /\ call[c].at \in {"mail", "cache", "save", "invited"}

Counted == Users \ (unchecked \union given)

\* Its address is that of nobody whose address is checked.
OneRegisters ==
    /\ \A c, d \in Calls : Registers(c) /\ Registers(d) => c = d
    /\ \A c \in Calls, v \in Counted : Checked(c) /\ Exists(v) => user[v].email # call[c].email
    /\ \A u, v \in Counted : u # v /\ Exists(u) /\ Exists(v) => user[u].email # user[v].email

InPlace(c) ==
    /\ call[c].at \in {"address", "save"} => Registers(c)
    /\ call[c].at = "change" => ~Registers(c)

AddressInv ==
    /\ \A c \in Calls : InPlace(c)
    /\ "register" \in twins \/ OneRegisters

\* Nobody gets another address, and no call is checked.
LEMMA AddressKept ==
    ASSUME AddressInv, twins \subseteq twins', unchecked \subseteq unchecked', given \subseteq given',
           \A u \in Counted' : Exists(u)' => Exists(u) /\ user'[u].email = user[u].email,
           \A c \in Calls : InPlace(c)',
           \A c \in Calls : Registers(c)' => Registers(c),
           \A c \in Calls : Checked(c)' => Checked(c) /\ call'[c].email = call[c].email
    PROVE  AddressInv'
<1>1. ASSUME OneRegisters PROVE OneRegisters'
  <2>1. Counted' \subseteq Counted
    BY DEF Counted
  <2> QED
    BY <1>1, <2>1 DEF OneRegisters
<1> QED
  BY <1>1 DEF AddressInv

\* A call that registers nobody, or goes on with a checked registration.
LEMMA AddressElsewhere ==
    ASSUME AddressInv, twins \subseteq twins', unchecked \subseteq unchecked', given \subseteq given',
           \A u \in Counted' : Exists(u)' => Exists(u) /\ user'[u].email = user[u].email,
           NEW c \in Calls, \A d \in Calls \ {c} : call'[d] = call[d],
           \/ call'[c].at \notin {"address", "save"} /\ ~Registers(c)'
           \/ Checked(c) /\ Registers(c)' /\ call'[c].email = call[c].email /\ call'[c].at # "change"
           \/ Registers(c) /\ call'[c].at \notin {"mail", "cache", "save", "invited", "address", "change"}
    PROVE  AddressInv'
<1>1. ASSUME NEW d \in Calls
      PROVE  /\ InPlace(d)'
             /\ Registers(d)' => Registers(d)
             /\ Checked(d)' => Checked(d) /\ call'[d].email = call[d].email
  <2>1. CASE d = c
    BY <2>1 DEF Checked, Registers, InPlace
  <2>2. CASE d # c
    BY <2>2 DEF Checked, Registers, AddressInv, InPlace
  <2> QED
    BY <2>1, <2>2
<1> QED
  BY <1>1, AddressKept

\* Users who go leave no addresses behind, and an activation keeps them.
LEMMA EmailsKept ==
    ASSUME Types, NEW c,
           \/ user' = user
           \/ user' = [u \in Users |-> IF u \in Deleted(c) THEN None ELSE user[u]]
           \/ Exists(call[c].on) /\ user' = [user EXCEPT ![call[c].on].active = TRUE]
    PROVE  \A u \in Users : Exists(u)' => Exists(u) /\ user'[u].email = user[u].email
<1> TAKE u \in Users
<1>1. user[u] # None => user[u] \in Account
  BY DEF Types, TableTypes, OrNone
<1>2. CASE user' = [user EXCEPT ![call[c].on].active = TRUE] /\ Exists(call[c].on)
  <2>1. CASE u = call[c].on
    <3>1. user'[u] = [user[u] EXCEPT !.active = TRUE]
      BY <1>2, <2>1 DEF Types, TableTypes
    <3> QED
      BY <1>1, <1>2, <2>1, <3>1 DEF Account, Exists
  <2>2. CASE u # call[c].on
    BY <1>2, <2>2 DEF Types, TableTypes, Exists
  <2> QED
    BY <2>1, <2>2
<1>3. CASE user' = [v \in Users |-> IF v \in Deleted(c) THEN None ELSE user[v]]
  BY <1>3 DEF Exists
<1> QED
  BY <1>2, <1>3 DEF Exists

LEMMA AddressMergeStep ==
    ASSUME AddressInv, Types, NEW c \in Calls, MergeCall(c) \/ Merging(c), UNCHANGED registrationVars
    PROVE  AddressInv'
<1>1. UNCHANGED <<twins, unchecked, given>>
  BY DEF registrationVars
<1>2. MergeMove(c)
  BY MergeMoves
<1>3. UNCHANGED user \/ user' = [u \in Users |-> IF u \in Deleted(c) THEN None ELSE user[u]]
  BY DEF MergeCall, Merging, Collect, MergeAccounts, ReadList, WriteList, Check, EmptyList, Commit, Find, Move, Merge, tables
<1>4. \A u \in Users : Exists(u)' => Exists(u) /\ user'[u].email = user[u].email
  BY <1>3, EmailsKept
<1>5. \A u \in Counted' : Exists(u)' => Exists(u) /\ user'[u].email = user[u].email
  BY <1>4 DEF Counted
<1> QED
  BY <1>1, <1>2, <1>5, AddressElsewhere DEF MergeMove, MergePlaces, Registers

\* A registration finds its address unused, or ends.
LEMMA AddressCheck ==
    ASSUME AddressInv, Types, NEW c \in Calls, CheckAddress(c) PROVE AddressInv'
<1> USE DEF registrationVars
<1>0. CallTypes /\ call[c] \in CallState /\ UNCHANGED <<user, twins, unchecked, given>> /\ call[c].at = "address"
  BY CallOf DEF Types, CheckAddress, At
<1>1. Registers(c)
  BY <1>0 DEF AddressInv, InPlace
<1>2. CASE Answered(c)
  BY <1>0, <1>1, <1>2, AfterAnswered, AddressElsewhere DEF Exists, Counted
<1>3. ASSUME ~Taken(call[c].email), NEW u, NEW place \in {"invited", "mail", "save"},
             Become(c, [call[c] EXCEPT !.on = u, !.at = place])
      PROVE  AddressInv'
  <2> DEFINE r == [call[c] EXCEPT !.on = u, !.at = place]
  <2>1. r.op = call[c].op /\ r.email = call[c].email /\ r.at = place
    BY <1>0 DEF CallState
  <2>2. call'[c] = r /\ \A d \in Calls \ {c} : call'[d] = call[d]
    BY <1>0, <1>3, CallAfter
  <2>3. call'[c].op = call[c].op /\ call'[c].email = call[c].email /\ call'[c].at = place
    BY <2>1, <2>2
  <2>4. \A d \in Calls : Registers(d)' <=> Registers(d)
    BY <2>2, <2>3 DEF Registers
  <2>5. \A d \in Calls : InPlace(d)'
    BY <1>1, <1>3, <2>2, <2>3, <2>4 DEF AddressInv, InPlace, Registers
  <2>6. ASSUME OneRegisters PROVE OneRegisters'
    <3>1. \A d \in Calls : Checked(d)' => d = c
      BY <1>1, <2>4, <2>6 DEF OneRegisters, Checked
    <3>2. \A v \in Users : Exists(v) => user[v].email # call[c].email
      BY <1>3 DEF Taken
    <3> QED
      BY <1>0, <2>3, <2>4, <2>6, <3>1, <3>2 DEF OneRegisters, Counted, Exists
  <2> QED
    BY <1>0, <2>5, <2>6 DEF AddressInv
<1> QED
  BY <1>2, <1>3 DEF CheckAddress

\* The user is saved with an address nobody else has.
LEMMA AddressSave ==
    ASSUME AddressInv, Types, NEW c \in Calls, Checked(c), Answered(c),
           UNCHANGED <<unchecked, given>>, twins \subseteq twins',
           \/ user' = user
           \/ user' = [user EXCEPT ![call[c].on] = [email |-> call[c].email, active |-> FALSE]]
    PROVE  AddressInv'
<1>0. /\ call'[c].at = "idle" /\ call'[c].op = "login"
      /\ \A d \in Calls \ {c} : call'[d] = call[d]
  BY AfterAnswered DEF Types
<1>1. \A d \in Calls : InPlace(d)'
  BY <1>0 DEF AddressInv, Registers, InPlace
<1>2. ASSUME OneRegisters PROVE OneRegisters'
  <2>1. \A d \in Calls : ~Registers(d)'
    BY <1>0, <1>2 DEF OneRegisters, Registers, Checked
  <2>2. \A v \in Counted : Exists(v) => user[v].email # call[c].email
    BY <1>2 DEF OneRegisters
  <2>3. ASSUME NEW v \in Users, Exists(v)'
        PROVE  \/ v = call[c].on /\ user'[v].email = call[c].email
               \/ Exists(v) /\ user'[v] = user[v]
    <3>1. CASE user' = user
      BY <2>3, <3>1 DEF Exists
    <3>2. CASE user' = [user EXCEPT ![call[c].on] = [email |-> call[c].email, active |-> FALSE]] /\ v = call[c].on
      <4>1. user'[v] = [email |-> call[c].email, active |-> FALSE]
        BY <3>2 DEF Types, TableTypes
      <4> QED
        BY <3>2, <4>1
    <3>3. CASE user' = [user EXCEPT ![call[c].on] = [email |-> call[c].email, active |-> FALSE]] /\ v # call[c].on
      BY <2>3, <3>3 DEF Types, TableTypes, Exists
    <3> QED
      BY <3>1, <3>2, <3>3
  <2>4. Counted' = Counted /\ Counted \subseteq Users
    BY DEF Counted
  <2>5. ASSUME NEW u \in Counted, NEW v \in Counted, u # v, Exists(u)', Exists(v)'
        PROVE  user'[u].email # user'[v].email
    BY <1>2, <2>2, <2>3, <2>4, <2>5 DEF OneRegisters
  <2> QED
    BY <2>1, <2>4, <2>5 DEF OneRegisters, Checked
<1> QED
  BY <1>1, <1>2 DEF AddressInv

LEMMA AddressRegistering ==
    ASSUME AddressInv, Types, NEW c \in Calls, Registering(c) PROVE AddressInv'
<1> USE DEF registrationVars, tables
<1>0. CallTypes /\ call[c] \in CallState
  BY CallOf DEF Types
<1>1. ASSUME UNCHANGED <<user, unchecked, given>>, twins \subseteq twins', Answered(c) PROVE AddressInv'
  BY <1>0, <1>1, AfterAnswered, AddressElsewhere DEF Registers, Counted, Exists
\* A call goes on that is no registration, or a checked one.
<1>2. ASSUME twins \subseteq twins', unchecked \subseteq unchecked', given \subseteq given',
             \A u \in Counted' : Exists(u)' => Exists(u) /\ user'[u].email = user[u].email,
             NEW place \in {"invited", "mail", "cache", "find", "read", "member", "accept", "save"}, Go(c, place),
             \/ ~Registers(c) /\ place # "save"
             \/ Checked(c)
             \/ Registers(c) /\ place \in {"find", "read", "member", "accept"}
      PROVE  AddressInv'
  BY <1>0, <1>2, AfterGo, AddressElsewhere DEF Registers, Checked
<1>3. CASE Mail(c)
  <2>1. UNCHANGED <<user, twins, unchecked, given>> /\ (Go(c, "cache") \/ Answered(c)) /\ At(c, "mail")
    BY <1>3 DEF Mail
  <2>2. Checked(c) \/ ~Registers(c)
    BY <2>1 DEF Checked, At
  <2> QED
    BY <2>1, <2>2, <1>1, <1>2 DEF Exists, Counted
<1>4. CASE CacheUser(c)
  <2>1. UNCHANGED <<user, twins, unchecked, given>> /\ ((Go(c, "save") /\ Registers(c)) \/ Answered(c)) /\ At(c, "cache")
    BY <1>4 DEF CacheUser
  <2>2. Registers(c) => Checked(c)
    BY <2>1 DEF Checked, At
  <2> QED
    BY <2>1, <2>2, <1>1, <1>2 DEF Exists, Counted
<1>5. CASE Save(c)
  <2>1. /\ UNCHANGED <<twins, unchecked, given>> /\ Answered(c) /\ At(c, "save")
        /\ user' = user \/ user' = [user EXCEPT ![call[c].on] = [email |-> call[c].email, active |-> FALSE]]
    BY <1>5 DEF Save
  <2>2. Checked(c)
    BY <2>1 DEF AddressInv, Checked, At, InPlace
  <2> QED
    BY <2>1, <2>2, AddressSave
<1>6. CASE SaveInvited(c)
  <2>1. /\ UNCHANGED <<unchecked, given>> /\ twins \subseteq twins' /\ Answered(c) /\ At(c, "invited") /\ Registers(c)
        /\ user' = [user EXCEPT ![call[c].on] = [email |-> call[c].email, active |-> FALSE]]
    BY <1>6 DEF SaveInvited
  <2>2. Checked(c)
    BY <2>1 DEF Checked, At
  <2> QED
    BY <2>1, <2>2, AddressSave
<1>7. CASE Activate(c)
  <2>1. /\ UNCHANGED <<twins, unchecked, given>> /\ (Go(c, "find") \/ (Answered(c) /\ user' = user)) /\ At(c, "activate")
        /\ (user' = user) \/ (Exists(call[c].on) /\ user' = [user EXCEPT ![call[c].on].active = TRUE])
    BY <1>7 DEF Activate
  <2>2. \A u \in Users : Exists(u)' => Exists(u) /\ user'[u].email = user[u].email
    BY <2>1, EmailsKept
  <2> QED
    BY <1>7, <2>1, <2>2, <1>1, <1>2 DEF Activate, Counted
<1>8. CASE SaveEmail(c)
  <2>1. UNCHANGED <<twins, given>> /\ At(c, "change")
    BY <1>8 DEF SaveEmail
  <2>2. CASE Answered(c) /\ UNCHANGED <<user, unchecked>>
    BY <2>1, <2>2, <1>1
  <2>3. CASE /\ Go(c, "mail") /\ user' = [user EXCEPT ![call[c].on].email = call[c].email]
             /\ unchecked' = unchecked \union {call[c].on}
    <3>1. \A u \in Counted' : user'[u] = user[u]
      BY <2>3 DEF Counted, Types, TableTypes
    <3>2. \A u \in Counted' : Exists(u)' => Exists(u) /\ user'[u].email = user[u].email
      BY <3>1 DEF Exists
    <3>3. ~Registers(c)
      BY <2>1 DEF AddressInv, InPlace, At
    <3> QED
      BY <2>1, <2>3, <3>2, <3>3, <1>2
  <2> QED
    BY <1>8, <2>2, <2>3 DEF SaveEmail
<1>9. CASE Welcome(c) \/ FindMember(c) \/ AddMember(c) \/ SaveMember(c) \/ Accept(c)
  <2>1. /\ UNCHANGED <<user, unchecked, given>> /\ twins \subseteq twins'
        /\ \/ Answered(c)
           \/ call[c].op = "login" /\ Go(c, "invited")
           \/ Go(c, "read") \/ Go(c, "member") \/ Go(c, "accept")
    BY <1>9 DEF Welcome, FindMember, AddMember, SaveMember, Accept
  <2> QED
    BY <2>1, <1>1, <1>2 DEF Exists, Counted, Registers
<1>10. CASE ReadMember(c)
  <2>1. UNCHANGED <<user, unchecked, given, twins>>
    BY <1>10 DEF ReadMember
  <2>2. ASSUME NEW k, Become(c, [call[c] EXCEPT !.at = "save row", !.seen = {k}]) PROVE AddressInv'
    <3>1. /\ [call[c] EXCEPT !.at = "save row", !.seen = {k}].at = "save row"
          /\ [call[c] EXCEPT !.at = "save row", !.seen = {k}].op = call[c].op
      BY <1>0 DEF CallState
    <3>2. call'[c].at = "save row" /\ call'[c].op = call[c].op /\ \A d \in Calls \ {c} : call'[d] = call[d]
      BY <1>0, <2>2, <3>1, CallAfter
    <3> QED
      BY <2>1, <3>2, AddressElsewhere DEF Registers, Exists, Counted
  <2>3. CASE Answered(c) \/ Go(c, "accept")
    BY <2>1, <2>3, <1>1, <1>2 DEF Exists, Counted
  <2> QED
    BY <1>10, <2>2, <2>3 DEF ReadMember
<1> QED
  BY <1>3, <1>4, <1>5, <1>6, <1>7, <1>8, <1>9, <1>10, AddressCheck DEF Registering

LEMMA AddressCall ==
    ASSUME AddressInv, Types, NEW c \in Calls, NEW b, RegistrationCall(c, b) PROVE AddressInv'
<1> USE DEF registrationVars, tables
<1>0. UNCHANGED <<user, unchecked, given>> /\ twins \subseteq twins'
  BY DEF RegistrationCall, Register, ChangeEmail, Verify, OpenLink, Login, EditMember
<1>1. ASSUME NEW s, Begin(c, s), s.at \notin {"address", "save"}, s.op # "register" PROVE AddressInv'
  <2>1. call'[c] = s /\ \A d \in Calls \ {c} : call'[d] = call[d]
    BY <1>1, CallAfter DEF Begin, Types
  <2> QED
    BY <1>0, <1>1, <2>1, AddressElsewhere DEF Registers, Exists, Counted
<1>2. ASSUME NEW e, Register(c, b, e) PROVE AddressInv'
  <2> DEFINE r == [Idle EXCEPT !.at = "address", !.op = "register", !.by = b, !.email = e, !.flow = flow[b]]
  <2>1. Begin(c, r) /\ ("register" \notin twins' => \A d \in Calls : ~Registers(d))
    BY <1>2 DEF Register
  <2>2. r.at = "address" /\ r.op = "register"
    BY DEF Idle
  <2>3. call'[c].at = "address" /\ Registers(c)' /\ \A d \in Calls \ {c} : call'[d] = call[d]
    BY <2>1, <2>2, CallAfter DEF Begin, Types, Registers
  <2>4. \A d \in Calls : InPlace(d)'
    BY <2>3 DEF AddressInv, Registers, InPlace
  <2>5. ASSUME OneRegisters, "register" \notin twins' PROVE OneRegisters'
    <3>1. \A d \in Calls : Registers(d)' => d = c
      BY <2>1, <2>3, <2>5 DEF Registers
    <3>2. \A d \in Calls : ~Checked(d)'
      BY <2>3, <3>1 DEF Checked
    <3> QED
      BY <1>0, <2>5, <3>1, <3>2 DEF OneRegisters, Exists, Counted
  <2> QED
    BY <1>0, <2>4, <2>5 DEF AddressInv
<1>3. ASSUME NEW e, ChangeEmail(c, b, e) PROVE AddressInv'
  BY <1>1, <1>3 DEF ChangeEmail, Idle
<1>4. CASE Verify(c, b)
  BY <1>1, <1>4 DEF Verify, Idle
<1>5. CASE OpenLink(c, b)
  BY <1>1, <1>5 DEF OpenLink, Idle
<1>6. ASSUME NEW u, Login(c, b, u) PROVE AddressInv'
  BY <1>1, <1>6 DEF Login, Idle
<1>7. ASSUME NEW u, EditMember(c, b, u) PROVE AddressInv'
  BY <1>1, <1>7 DEF EditMember, Idle
<1> QED
  BY <1>2, <1>3, <1>4, <1>5, <1>6, <1>7 DEF RegistrationCall

LEMMA AddressBrowserCall ==
    ASSUME AddressInv, Types, NEW b, BrowserCall(b) PROVE AddressInv'
<1> USE DEF registrationVars, tables
<1>1. UNCHANGED <<call, twins, unchecked>> /\ given \subseteq given'
  BY DEF BrowserCall, Form, Expire, Invite, RememberLink, AddProfile
<1>2. \A u \in Counted' : user'[u] = user[u]
  <2>1. CASE UNCHANGED user
    BY <2>1
  <2>2. ASSUME NEW e \in Emails, NEW u \in Users, NEW k \in Rows, AddProfile(b, e, u, k)
        PROVE  \A v \in Counted' : user'[v] = user[v]
    BY <2>2 DEF AddProfile, Counted, Types, TableTypes
  <2> QED
    BY <2>1, <2>2 DEF BrowserCall, Form, Expire, Invite, RememberLink
<1> QED
  BY <1>1, <1>2, AddressKept DEF Exists, AddressInv, Registers, Checked, InPlace

LEMMA AddressFollows == AddressInv => AddressesDiffer
BY DEF AddressInv, OneRegisters, AddressesDiffer, Counted

-----------------------------------------------------------------------------
(* Nothing is lost *)

\* From its login on, a call has a user.
NamedPlaces == {"find", "move", "merge", "welcome", "activate", "invited", "member", "read", "save row", "accept"}

Named == \A c \in Calls : call[c].at \in NamedPlaces => call[c].on \in Users

LEMMA NamedKept ==
    ASSUME Named, NEW c \in Calls, \A d \in Calls \ {c} : call'[d] = call[d],
           \/ call'[c].at \notin NamedPlaces
           \/ call[c].at \in NamedPlaces /\ call'[c].on = call[c].on
           \/ call'[c].on \in Users
    PROVE  Named'
<1>1. ASSUME NEW d \in Calls, call'[d].at \in NamedPlaces PROVE call'[d].on \in Users
  <2>1. CASE d = c
    BY <1>1, <2>1 DEF Named
  <2>2. CASE d # c
    BY <1>1, <2>2 DEF Named
  <2> QED
    BY <2>1, <2>2
<1> QED
  BY <1>1 DEF Named

LEMMA NamedMerging ==
    ASSUME Named, Types, NEW c \in Calls, Merging(c) PROVE Named'
<1>0. CallTypes /\ call[c] \in CallState
  BY CallOf DEF Types
<1>1. CASE ReadList(c)
  <2> DEFINE place == IF call[c].op = "create" THEN "check" ELSE "write"
  <2> DEFINE r == [call[c] EXCEPT !.at = place, !.list = prepared[call[c].by]]
  <2>1. Become(c, r)
    BY <1>1 DEF ReadList
  <2>2. r.at \in {"check", "write"}
    BY <1>0 DEF CallState
  <2> QED
    BY <1>0, <2>1, <2>2, CallAfter, NamedKept DEF NamedPlaces
<1>2. CASE Answered(c)
  BY <1>0, <1>2, AfterAnswered, NamedKept DEF NamedPlaces
<1>3. ASSUME NEW place, Go(c, place), place \in {"insert", "commit"} \/ call[c].at \in NamedPlaces PROVE Named'
  BY <1>0, <1>3, AfterGo, NamedKept DEF NamedPlaces
<1>4. CASE Find(c) /\ ~Go(c, "welcome")
  <2>1. PICK g : Become(c, [call[c] EXCEPT !.at = "move", !.group = g])
    BY <1>4 DEF Find
  <2>2. [call[c] EXCEPT !.at = "move", !.group = g].on = call[c].on /\ call[c].at = "find"
    BY <1>0, <1>4 DEF CallState, Find, At
  <2> QED
    BY <1>0, <2>1, <2>2, CallAfter, NamedKept DEF NamedPlaces
<1>5. CASE Move(c)
  <2>1. Become(c, [call[c] EXCEPT !.at = "merge", !.seen = Moved(c)])
    BY <1>5 DEF Move
  <2>2. [call[c] EXCEPT !.at = "merge", !.seen = Moved(c)].on = call[c].on /\ call[c].at = "move"
    BY <1>0, <1>5 DEF CallState, Move, At
  <2> QED
    BY <1>0, <2>1, <2>2, CallAfter, NamedKept DEF NamedPlaces
<1>6. CASE WriteList(c) \/ Check(c) \/ EmptyList(c) \/ Commit(c)
  BY <1>2, <1>3, <1>6 DEF WriteList, Check, EmptyList, Commit
<1>7. CASE Merge(c) \/ (Find(c) /\ Go(c, "welcome"))
  BY <1>3, <1>7 DEF Merge, Find, NamedPlaces, At
<1> QED
  BY <1>1, <1>4, <1>5, <1>6, <1>7 DEF Merging

LEMMA NamedMergeCall ==
    ASSUME Named, Types, NEW c \in Calls, MergeCall(c) PROVE Named'
<1>0. CallTypes
  BY DEF Types
<1>1. ASSUME NEW s, NEW o, NEW u, Collect(c, s, o, u) PROVE Named'
  <2>1. Become(c, [Idle EXCEPT !.at = "list", !.op = o, !.by = s, !.on = u])
    BY <1>1 DEF Collect, Begin
  <2>2. [Idle EXCEPT !.at = "list", !.op = o, !.by = s, !.on = u].at = "list"
    BY DEF Idle
  <2> QED
    BY <1>0, <2>1, <2>2, CallAfter, NamedKept DEF NamedPlaces
<1>2. ASSUME NEW b \in Browsers, NEW u \in Users, MergeAccounts(c, b, u) PROVE Named'
  <2>1. PICK v \in {session[b].user, u} : Become(c, [Idle EXCEPT !.at = "find", !.op = "merge", !.on = v])
    BY <1>2 DEF MergeAccounts, Begin
  <2>2. [Idle EXCEPT !.at = "find", !.op = "merge", !.on = v].on = v
    BY DEF Idle
  <2>3. v \in Users
    BY <1>2 DEF MergeAccounts, LoggedIn, Types, TableTypes, OrNone
  <2> QED
    BY <1>0, <2>1, <2>2, <2>3, CallAfter, NamedKept
<1> QED
  BY <1>1, <1>2 DEF MergeCall

LEMMA NamedRegistering ==
    ASSUME Named, Types, NEW c \in Calls, Registering(c) PROVE Named'
<1>0. CallTypes /\ call[c] \in CallState
  BY CallOf DEF Types
<1>1. CASE Answered(c)
  BY <1>0, <1>1, AfterAnswered, NamedKept DEF NamedPlaces
<1>2. ASSUME NEW place, Go(c, place), place \in {"cache", "save", "mail"} \/ call[c].at \in NamedPlaces PROVE Named'
  BY <1>0, <1>2, AfterGo, NamedKept DEF NamedPlaces
<1>3. CASE CheckAddress(c)
  <2>1. ASSUME NEW u \in Unused, NEW place, Become(c, [call[c] EXCEPT !.on = u, !.at = place]) PROVE Named'
    <3>1. [call[c] EXCEPT !.on = u, !.at = place].on = u /\ u \in Users
      BY <1>0 DEF CallState, Unused
    <3> QED
      BY <1>0, <2>1, <3>1, CallAfter, NamedKept
  <2> QED
    BY <1>1, <1>3, <2>1 DEF CheckAddress
<1>4. CASE Mail(c) \/ CacheUser(c) \/ Save(c) \/ SaveInvited(c) \/ SaveEmail(c) \/ Accept(c)
  BY <1>1, <1>2, <1>4 DEF Mail, CacheUser, Save, SaveInvited, SaveEmail, Accept
<1>5. CASE Activate(c) \/ Welcome(c) \/ FindMember(c) \/ AddMember(c) \/ SaveMember(c)
  BY <1>1, <1>2, <1>5 DEF Activate, Welcome, FindMember, AddMember, SaveMember, At, NamedPlaces
<1>6. CASE ReadMember(c)
  <2>1. ASSUME NEW k, Become(c, [call[c] EXCEPT !.at = "save row", !.seen = {k}]) PROVE Named'
    <3>1. [call[c] EXCEPT !.at = "save row", !.seen = {k}].on = call[c].on /\ call[c].at = "read"
      BY <1>0, <1>6 DEF CallState, ReadMember, At
    <3> QED
      BY <1>0, <2>1, <3>1, CallAfter, NamedKept DEF NamedPlaces
  <2> QED
    BY <1>1, <1>2, <1>6, <2>1 DEF ReadMember, At, NamedPlaces
<1> QED
  BY <1>3, <1>4, <1>5, <1>6 DEF Registering

LEMMA NamedCall ==
    ASSUME Named, Types, NEW c \in Calls, NEW b \in Browsers, RegistrationCall(c, b) PROVE Named'
<1>0. CallTypes /\ (flow[b] # None => flow[b].user \in OrNone(Users)) /\ session[b].user \in OrNone(Users)
  BY FlowTypes DEF Types, TableTypes
<1>1. ASSUME NEW s, Begin(c, s), s.at \notin NamedPlaces \/ s.on \in Users PROVE Named'
  BY <1>0, <1>1, CallAfter, NamedKept DEF Begin
<1>2. ASSUME NEW e, Register(c, b, e) \/ ChangeEmail(c, b, e) PROVE Named'
  BY <1>1, <1>2 DEF Register, ChangeEmail, Idle, NamedPlaces
<1>3. CASE Verify(c, b)
  <2>1. [Idle EXCEPT !.at = "activate", !.op = "verify", !.by = b, !.on = flow[b].user].on = flow[b].user
    BY DEF Idle
  <2>2. flow[b].user \in Users
    BY <1>0, <1>3 DEF Verify, OrNone
  <2> QED
    BY <1>1, <1>3, <2>1, <2>2 DEF Verify
<1>4. CASE OpenLink(c, b)
  <2>1. [Idle EXCEPT !.at = "invited", !.op = "accept", !.by = b, !.on = session[b].user].on = session[b].user
    BY DEF Idle
  <2>2. session[b].user \in Users
    BY <1>0, <1>4 DEF OpenLink, LoggedIn, OrNone
  <2> QED
    BY <1>1, <1>4, <2>1, <2>2 DEF OpenLink
<1>5. ASSUME NEW u \in Users, Login(c, b, u) PROVE Named'
  <2>1. [Idle EXCEPT !.at = "find", !.by = b, !.on = u].on = u
    BY DEF Idle
  <2> QED
    BY <1>1, <1>5, <2>1 DEF Login
<1>6. ASSUME NEW u \in Users, EditMember(c, b, u) PROVE Named'
  <2>1. [Idle EXCEPT !.at = "read", !.op = "edit", !.by = b, !.on = u].on = u
    BY DEF Idle
  <2> QED
    BY <1>1, <1>6, <2>1 DEF EditMember
<1> QED
  BY <1>2, <1>3, <1>4, <1>5, <1>6 DEF RegistrationCall

\* Whoever merges is of the group.
Chosen == \A c \in Calls : call[c].at \in {"move", "merge"} => call[c].on \in call[c].group.users

\* A merge has found every row of the others, but for the late ones.
AllSeen ==
    \A c \in Calls, k \in Rows \ late :
        At(c, "merge") /\ row[k] # None /\ row[k].project # Other /\ row[k].user \in Others(c) => k \in call[c].seen

\* What two merges of the same user have found is late.
OverlapIsLate ==
    \A c, d \in Calls :
        c # d /\ At(c, "merge") /\ At(d, "merge") /\ call[c].group.users \intersect call[d].group.users # {} =>
          call[c].seen \subseteq late

LostInv == NothingIsLost /\ RowsThere /\ Chosen /\ AllSeen /\ OverlapIsLate

\* A step that is none of a merge's transaction: users stay, and a row that
\* changes gets a user there is, or is late.
LEMMA LostKept ==
    ASSUME LostInv, Types, Types', late \subseteq late',
           \A u \in Users : Exists(u) => user'[u] # None,
           \A k \in Rows : \/ row'[k] = row[k]
                           \/ /\ row'[k] # None /\ row'[k].user \in Users /\ user'[row'[k].user] # None
                              /\ \A d \in Calls : At(d, "merge") /\ row'[k].user \in Others(d) => k \in late',
           \A d \in Calls : At(d, "merge")' => call'[d] = call[d],
           Chosen'
    PROVE  LostInv'
<1>1. \A k \in Rows : row[k] # None => row[k] \in RowOf
  BY DEF Types, TableTypes, OrNone
<1>2. None \notin Users
  BY AccountAssumption
<1>3. NothingIsLost'
  <2> SUFFICES ASSUME NEW k \in Rows \ late', row'[k] # None, row'[k].project # Other
               PROVE  row'[k].user # None /\ user'[row'[k].user] # None
    BY DEF NothingIsLost, Exists
  <2>1. CASE row'[k] = row[k]
    <3>1. row[k].user # None /\ Exists(row[k].user)
      BY <2>1 DEF LostInv, NothingIsLost
    <3>2. row[k].user \in Users
      BY <1>1, <2>1, <3>1 DEF RowOf, OrNone
    <3> QED
      BY <2>1, <3>1, <3>2
  <2>2. CASE row'[k] # row[k]
    BY <1>2, <2>2
  <2> QED
    BY <2>1, <2>2
<1>4. RowsThere'
  <2>1. ASSUME NEW c \in Calls, At(c, "merge")', NEW k \in call'[c].seen PROVE row'[k] # None
    <3>1. call'[c] = call[c] /\ At(c, "merge")
      BY <2>1 DEF At
    <3>2. call[c].seen \subseteq Rows
      BY CallOf DEF Types, CallState
    <3>3. row[k] # None /\ k \in Rows
      BY <2>1, <3>1, <3>2 DEF LostInv, RowsThere
    <3> QED
      BY <3>3
  <2> QED
    BY <2>1 DEF RowsThere
<1>5. AllSeen'
  <2> SUFFICES ASSUME NEW c \in Calls, NEW k \in Rows \ late', At(c, "merge")', row'[k] # None,
                      row'[k].project # Other, row'[k].user \in Others(c)'
               PROVE  k \in call'[c].seen
    BY DEF AllSeen
  <2>1. call'[c] = call[c] /\ At(c, "merge")
    BY DEF At
  <2>2. row'[k].user \in Others(c)
    BY <2>1 DEF Others
  <2>3. row'[k] = row[k] /\ k \notin late
    BY <2>1, <2>2
  <2> QED
    BY <2>1, <2>2, <2>3 DEF LostInv, AllSeen
<1>6. OverlapIsLate'
  BY DEF LostInv, OverlapIsLate, At
<1> QED
  BY <1>3, <1>4, <1>5, <1>6 DEF LostInv

\* Of a call that does not merge.
LEMMA ChosenKept ==
    ASSUME Chosen, NEW c \in Calls, \A d \in Calls \ {c} : call'[d] = call[d],
           call'[c].at \notin {"move", "merge"}
    PROVE  Chosen' /\ \A d \in Calls : At(d, "merge")' => call'[d] = call[d]
BY DEF Chosen, At

LEMMA RowsAreRecords ==
    ASSUME Types, NEW k \in Rows, row[k] # None
    PROVE  /\ row[k] \in RowOf /\ row[k].user \in OrNone(Users)
           /\ \A u : /\ [row[k] EXCEPT !.user = u].user = u
                     /\ [row[k] EXCEPT !.user = u].project = row[k].project
                     /\ u \in OrNone(Users) => [row[k] EXCEPT !.user = u] # None
<1>1. row[k] \in RowOf
  BY DEF Types, TableTypes, OrNone
<1>2. None \notin RowOf
  BY AccountAssumption DEF RowOf
<1>3. \A u \in OrNone(Users) : [row[k] EXCEPT !.user = u] \in RowOf
  BY <1>1 DEF RowOf
<1> QED
  BY <1>1, <1>2, <1>3 DEF RowOf

LEMMA LostMove ==
    ASSUME LostInv, Types, NEW c \in Calls, Move(c) PROVE LostInv'
<1> DEFINE r == [call[c] EXCEPT !.at = "merge", !.seen = Moved(c)]
<1>0. CallTypes /\ call[c] \in CallState /\ call[c].at = "move" /\ UNCHANGED <<user, row>>
  BY CallOf DEF Types, Move, At, tables
<1>1. r.at = "merge" /\ r.seen = Moved(c) /\ r.on = call[c].on /\ r.group = call[c].group
  BY <1>0 DEF CallState
<1>2. call'[c] = r /\ \A d \in Calls \ {c} : call'[d] = call[d]
  BY <1>0, CallAfter DEF Move
<1> HIDE DEF r
<1>3. late' = late \union {k \in Rows : \E d \in Calls \ {c} :
                             /\ At(d, "merge")
                             /\ call[c].group.users \intersect call[d].group.users # {}
                             /\ row[k] # None
                             /\ \/ row[k].user \in call[c].group.users \union call[d].group.users
                                \/ k \in call[d].seen}
  BY DEF Move
<1>4. late \subseteq late' /\ \A d \in Calls : Others(d)' = Others(d)
  BY <1>1, <1>2, <1>3 DEF Others
<1>5. NothingIsLost' /\ Chosen'
  BY <1>0, <1>1, <1>2, <1>4 DEF LostInv, NothingIsLost, Chosen, Exists
<1>6. RowsThere'
  BY <1>0, <1>1, <1>2 DEF LostInv, RowsThere, At, Moved
<1>7. ASSUME NEW d \in Calls, NEW k \in Rows \ late', At(d, "merge")', row'[k] # None, row'[k].project # Other,
             row'[k].user \in Others(d)'
      PROVE  k \in call'[d].seen
  <2>1. CASE d = c
    BY <1>0, <1>1, <1>2, <1>4, <1>7, <2>1 DEF Moved
  <2>2. CASE d # c
    BY <1>0, <1>2, <1>4, <1>7, <2>2 DEF LostInv, AllSeen, At
  <2> QED
    BY <2>1, <2>2
<1>8. ASSUME NEW d \in Calls, d # c, At(d, "merge"), call[c].group.users \intersect call[d].group.users # {}
      PROVE  Moved(c) \subseteq late' /\ call[d].seen \subseteq late'
  <2>1. Moved(c) \subseteq late'
    BY <1>3, <1>8 DEF Moved, Others
  <2>2. call[d].seen \subseteq Rows /\ \A k \in call[d].seen : row[k] # None
    BY <1>8, CallOf DEF Types, CallState, LostInv, RowsThere
  <2> QED
    BY <1>3, <1>8, <2>1, <2>2
<1>9. ASSUME NEW d \in Calls, NEW e \in Calls, d # e, At(d, "merge")', At(e, "merge")',
             call'[d].group.users \intersect call'[e].group.users # {}
      PROVE  call'[d].seen \subseteq late'
  <2>1. CASE d = c
    BY <1>1, <1>2, <1>8, <1>9, <2>1 DEF At
  <2>2. CASE e = c
    BY <1>1, <1>2, <1>8, <1>9, <2>2 DEF At
  <2>3. CASE d # c /\ e # c
    BY <1>2, <1>4, <1>9, <2>3 DEF LostInv, OverlapIsLate, At
  <2> QED
    BY <2>1, <2>2, <2>3
<1> QED
  BY <1>5, <1>6, <1>7, <1>9 DEF LostInv, AllSeen, OverlapIsLate

LEMMA LostMerge ==
    ASSUME LostInv, Named, Types, Types', NEW c \in Calls, Merge(c) PROVE LostInv'
<1>0. CallTypes /\ call[c] \in CallState /\ call[c].at = "merge" /\ UNCHANGED late
  BY CallOf DEF Types, Merge, At
<1>1. call'[c].at = "welcome" /\ \A d \in Calls \ {c} : call'[d] = call[d]
  BY <1>0, AfterGo DEF Merge
<1>2. Chosen' /\ \A d \in Calls : At(d, "merge")' => call'[d] = call[d]
  BY <1>1, ChosenKept DEF LostInv
<1>3. CASE Fails(c)
  <2>1. UNCHANGED <<user, row>>
    BY <1>3 DEF Merge
  <2> QED
    BY <1>0, <1>2, <2>1, LostKept DEF Exists
<1>4. CASE ~Fails(c)
  <2> DEFINE on == call[c].on
  <2> DEFINE gone == Deleted(c)
  <2>1. /\ user' = [u \in Users |-> IF u \in gone THEN None ELSE user[u]]
        /\ row' = Cascaded(c)
    BY <1>4 DEF Merge
  <2>2. /\ on \in call[c].group.users /\ on \in Users /\ on \notin gone /\ gone \subseteq Others(c)
        /\ (call[c].seen # {} => Exists(on)) /\ call[c].seen \subseteq Rows
    BY <1>0, <1>4 DEF LostInv, Chosen, Named, NamedPlaces, Deleted, Others, Fails, CallState
  <2>3. None \notin Users
    BY AccountAssumption
  <2>4. ASSUME NEW k \in Rows, k \in call[c].seen
        PROVE  row'[k] # None /\ row'[k].user = on /\ row[k] # None
    <3>1. row[k] # None
      BY <1>0, <2>4 DEF LostInv, RowsThere, At
    <3>2. Renamed(c)[k] = [row[k] EXCEPT !.user = on]
      BY <2>4 DEF Renamed
    <3>3. Renamed(c)[k].user = on /\ Renamed(c)[k] # None
      BY <2>2, <3>1, <3>2, RowsAreRecords DEF OrNone
    <3>4. row'[k] = Renamed(c)[k]
      BY <2>1, <2>2, <3>3 DEF Cascaded
    <3> QED
      BY <3>1, <3>3, <3>4
  <2>5. ASSUME NEW k \in Rows, k \notin call[c].seen
        PROVE  \/ row'[k] = row[k] /\ (row[k] # None => row[k].user \notin gone)
               \/ /\ row[k] # None /\ row[k].user \in gone
                  /\ row'[k] # None /\ row'[k].user = None /\ row'[k].project = row[k].project
    <3>1. Renamed(c)[k] = row[k]
      BY <2>5 DEF Renamed
    <3>2. row'[k] = IF row[k] # None /\ row[k].user \in gone THEN [row[k] EXCEPT !.user = None] ELSE row[k]
      BY <2>1, <3>1 DEF Cascaded
    <3>3. CASE row[k] # None /\ row[k].user \in gone
      BY <3>2, <3>3, RowsAreRecords DEF OrNone
    <3> QED
      BY <3>2, <3>3
  <2>6. ASSUME NEW k \in Rows \ late, row[k] # None, row[k].project # Other, k \notin call[c].seen
        PROVE  row[k].user \notin gone
    BY <1>0, <2>2, <2>6 DEF LostInv, AllSeen, At
  <2> HIDE DEF on, gone
  <2>7. NothingIsLost'
    <3> SUFFICES ASSUME NEW k \in Rows \ late', row'[k] # None, row'[k].project # Other
                 PROVE  row'[k].user # None /\ user'[row'[k].user] # None
      BY DEF NothingIsLost, Exists
    <3>1. CASE k \in call[c].seen
      <4>1. row'[k].user = on /\ Exists(on)
        BY <2>2, <2>4, <3>1
      <4>2. user'[on] = user[on]
        BY <2>1, <2>2
      <4> QED
        BY <2>2, <2>3, <4>1, <4>2 DEF Exists
    <3>2. CASE k \notin call[c].seen
      <4>1. row'[k] = row[k] /\ row[k].user \notin gone
        BY <1>0, <2>5, <2>6, <3>2
      <4>2. row[k].user # None /\ Exists(row[k].user)
        BY <1>0, <4>1 DEF LostInv, NothingIsLost
      <4>3. row[k].user \in Users
        BY <4>1, <4>2, RowsAreRecords DEF OrNone
      <4>4. user'[row[k].user] = user[row[k].user]
        BY <2>1, <4>1, <4>3
      <4> QED
        BY <4>1, <4>2, <4>4 DEF Exists
    <3> QED
      BY <3>1, <3>2
  <2>8. RowsThere'
    <3>1. \A k \in Rows : row[k] # None => row'[k] # None
      BY <2>4, <2>5
    <3>2. \A d \in Calls : call[d].seen \subseteq Rows
      BY CallOf DEF Types, CallState
    <3> QED
      BY <1>2, <3>1, <3>2 DEF LostInv, RowsThere, At
  <2>9. ASSUME NEW d \in Calls, NEW k \in Rows \ late', At(d, "merge")', row'[k] # None, row'[k].project # Other,
               row'[k].user \in Others(d)'
        PROVE  k \in call'[d].seen
    <3>1. d # c /\ call'[d] = call[d] /\ At(d, "merge") /\ row'[k].user \in Others(d)
      BY <1>1, <1>2, <2>9 DEF At, Others
    <3>2. call[d].group.users \subseteq Users
      BY <1>0, <3>1 DEF CallTypes, Complete, Group, At
    <3>3. row'[k].user \in Users
      BY <3>1, <3>2 DEF Others
    <3>4. CASE k \in call[c].seen
      <4>1. on \in call[c].group.users \intersect call[d].group.users
        BY <2>2, <2>4, <3>1, <3>4 DEF Others
      <4>2. call[c].seen \subseteq late
        BY <1>0, <3>1, <4>1 DEF LostInv, OverlapIsLate, At
      <4> QED
        BY <1>0, <3>4, <4>2
    <3>5. CASE k \notin call[c].seen
      <4>1. row'[k] = row[k]
        BY <2>3, <2>5, <3>3, <3>5
      <4> QED
        BY <1>0, <2>9, <3>1, <4>1 DEF LostInv, AllSeen
    <3> QED
      BY <3>4, <3>5
  <2>10. OverlapIsLate'
    BY <1>0, <1>2 DEF LostInv, OverlapIsLate, At
  <2> QED
    BY <1>2, <2>7, <2>8, <2>9, <2>10 DEF LostInv, AllSeen
<1> QED
  BY <1>3, <1>4

\* A call of a merge that changes no row leaves the rows alone.
LEMMA LostStands ==
    ASSUME LostInv, Types, Types', UNCHANGED <<user, row, late>>, NEW c \in Calls,
           \A d \in Calls \ {c} : call'[d] = call[d], call'[c].at # "merge",
           call'[c].at = "move" => call'[c].on \in call'[c].group.users
    PROVE  LostInv'
<1>1. Chosen' /\ \A d \in Calls : At(d, "merge")' => call'[d] = call[d]
  <2>1. ASSUME NEW d \in Calls, call'[d].at \in {"move", "merge"} PROVE call'[d].on \in call'[d].group.users
    <3>1. CASE d = c
      BY <2>1, <3>1
    <3>2. CASE d # c
      BY <2>1, <3>2 DEF LostInv, Chosen
    <3> QED
      BY <3>1, <3>2
  <2>2. ASSUME NEW d \in Calls, At(d, "merge")' PROVE call'[d] = call[d]
    BY <2>2 DEF At
  <2> QED
    BY <2>1, <2>2 DEF Chosen
<1> QED
  BY <1>1, LostKept DEF Exists

LEMMA LostMerging ==
    ASSUME LostInv, Named, Types, Types', NEW c \in Calls, Merging(c) PROVE LostInv'
<1>0. CallTypes /\ call[c] \in CallState
  BY CallOf DEF Types
<1>1. CASE ReadList(c)
  <2> DEFINE place == IF call[c].op = "create" THEN "check" ELSE "write"
  <2> DEFINE r == [call[c] EXCEPT !.at = place, !.list = prepared[call[c].by]]
  <2>1. Become(c, r) /\ UNCHANGED <<user, row, late>>
    BY <1>1 DEF ReadList, tables, mergeVars
  <2>2. r.at \in {"check", "write"}
    BY <1>0 DEF CallState
  <2> QED
    BY <1>0, <2>1, <2>2, CallAfter, LostStands
<1>2. CASE WriteList(c) \/ Check(c) \/ EmptyList(c) \/ Commit(c)
  <2>1. UNCHANGED <<user, row, late>>
    BY <1>2 DEF WriteList, Check, EmptyList, Commit, tables
  <2>2. CASE Answered(c)
    BY <1>0, <2>1, <2>2, AfterAnswered, LostStands
  <2>3. CASE Go(c, "insert") \/ Go(c, "commit")
    BY <1>0, <2>1, <2>3, AfterGo, LostStands
  <2> QED
    BY <1>2, <2>2, <2>3 DEF WriteList, Check, EmptyList, Commit
<1>3. CASE Find(c)
  <2>1. UNCHANGED <<user, row, late>>
    BY <1>3 DEF Find, tables, mergeVars
  <2>2. CASE Go(c, "welcome")
    BY <1>0, <2>1, <2>2, AfterGo, LostStands
  <2>3. ASSUME NEW g, call[c].on \in g.users, Become(c, [call[c] EXCEPT !.at = "move", !.group = g])
        PROVE  LostInv'
    <3> DEFINE r == [call[c] EXCEPT !.at = "move", !.group = g]
    <3>1. r.at = "move" /\ r.on = call[c].on /\ r.group = g
      BY <1>0 DEF CallState
    <3>2. call'[c] = r /\ \A d \in Calls \ {c} : call'[d] = call[d]
      BY <1>0, <2>3, CallAfter
    <3> HIDE DEF r
    <3> QED
      BY <2>1, <2>3, <3>1, <3>2, LostStands
  <2> QED
    BY <1>3, <2>2, <2>3 DEF Find
<1> QED
  BY <1>1, <1>2, <1>3, LostMove, LostMerge DEF Merging

LEMMA LostMergeCall ==
    ASSUME LostInv, Types, Types', NEW c \in Calls, MergeCall(c) PROVE LostInv'
<1>0. CallTypes /\ UNCHANGED <<user, row, late>>
  BY DEF Types, MergeCall, Collect, MergeAccounts, tables, mergeVars
<1>1. ASSUME NEW s, Begin(c, s), s.at \in {"list", "find"} PROVE LostInv'
  BY <1>0, <1>1, CallAfter, LostStands DEF Begin
<1>2. ASSUME NEW s, NEW o, NEW u, Collect(c, s, o, u) PROVE LostInv'
  <2>1. [Idle EXCEPT !.at = "list", !.op = o, !.by = s, !.on = u].at = "list"
    BY DEF Idle
  <2> QED
    BY <1>1, <1>2, <2>1 DEF Collect
<1>3. ASSUME NEW b, NEW u, MergeAccounts(c, b, u) PROVE LostInv'
  <2>1. \A v : [Idle EXCEPT !.at = "find", !.op = "merge", !.on = v].at = "find"
    BY DEF Idle
  <2> QED
    BY <1>1, <1>3, <2>1 DEF MergeAccounts
<1> QED
  BY <1>2, <1>3 DEF MergeCall

\* A row that is made or saved belongs to a user there is then.
RowMade(k, u) == row'[k] = [user |-> u, project |-> Main] /\ u \in Users /\ user'[u] # None

LEMMA UsersStay ==
    ASSUME Types, NEW v \in OrNone(Users), NEW e \in OrNone(Emails), NEW a \in BOOLEAN,
           \/ user' = user
           \/ user' = [user EXCEPT ![v] = [email |-> e, active |-> a]]
           \/ user' = [user EXCEPT ![v].email = e]
           \/ user' = [user EXCEPT ![v].active = a]
    PROVE  /\ \A u \in Users : Exists(u) => user'[u] # None
           /\ user' = [user EXCEPT ![v] = [email |-> e, active |-> a]] /\ v \in Users => user'[v] # None
<1>1. None \notin Account /\ [email |-> e, active |-> a] \in Account
  BY AccountAssumption DEF Account
<1>2. ASSUME NEW u \in Users, Exists(u)
      PROVE  [user[u] EXCEPT !.email = e] \in Account /\ [user[u] EXCEPT !.active = a] \in Account
  <2>1. user[u] \in Account
    BY <1>2 DEF Types, TableTypes, Exists, OrNone
  <2> QED
    BY <2>1 DEF Account
<1>3. user \in [Users -> OrNone(Account)]
  BY DEF Types, TableTypes
<1>4. ASSUME NEW u \in Users, Exists(u) PROVE user'[u] # None
  BY <1>1, <1>2, <1>3, <1>4 DEF Exists
<1> QED
  BY <1>1, <1>3, <1>4

\* What a call of a registration, a login or an invitation does to users and
\* rows.
LEMMA RowsMade ==
    ASSUME Types, Named, NEW c \in Calls, Registering(c)
    PROVE  /\ \A u \in Users : Exists(u) => user'[u] # None
           /\ \A k \in Rows : row'[k] = row[k] \/ \E u : RowMade(k, u)
<1> DEFINE on == call[c].on
<1> DEFINE email == call[c].email
<1> DEFINE saved == [email |-> email, active |-> FALSE]
<1>0. /\ CallTypes /\ on \in OrNone(Users) /\ email \in OrNone(Emails)
      /\ user \in [Users -> OrNone(Account)] /\ row \in [Rows -> OrNone(RowOf)]
  BY CallOf DEF Types, TableTypes, CallState
<1>1. CASE SaveInvited(c)
  <2>1. on \in Users
    BY <1>1 DEF SaveInvited, At, Named, NamedPlaces
  <2>2. user' = [user EXCEPT ![on] = saved]
    BY <1>1 DEF SaveInvited
  <2>3. user'[on] # None /\ \A u \in Users : Exists(u) => user'[u] # None
    BY <1>0, <2>1, <2>2, UsersStay
  <2>4. row' = row \/ \E k \in Rows : row' = [row EXCEPT ![k] = [user |-> on, project |-> Main]]
    BY <1>1 DEF SaveInvited
  <2>5. \A k \in Rows : row'[k] = row[k] \/ RowMade(k, on)
    BY <1>0, <2>1, <2>3, <2>4 DEF RowMade
  <2> QED
    BY <2>3, <2>5
<1>2. CASE AddMember(c) \/ SaveMember(c)
  <2>1. on \in Users
    BY <1>2 DEF AddMember, SaveMember, At, Named, NamedPlaces
  <2>2. UNCHANGED user /\ \A u \in Users : Exists(u) => user'[u] # None
    BY <1>2 DEF AddMember, SaveMember, Exists
  <2>3. \/ row' = row
        \/ Exists(on) /\ \E k \in Rows : row' = [row EXCEPT ![k] = [user |-> on, project |-> Main]]
        \/ /\ Exists(on)
           /\ row' = [k \in Rows |-> IF k \in call[c].seen THEN [user |-> on, project |-> Main] ELSE row[k]]
    BY <1>2 DEF AddMember, SaveMember
  <2>4. \A k \in Rows : row'[k] = row[k] \/ RowMade(k, on)
    BY <1>0, <2>1, <2>2, <2>3 DEF RowMade, Exists
  <2> QED
    BY <2>2, <2>4
<1>3. CASE CheckAddress(c) \/ Mail(c) \/ CacheUser(c) \/ Save(c) \/ Activate(c) \/ SaveEmail(c) \/ Welcome(c)
           \/ FindMember(c) \/ ReadMember(c) \/ Accept(c)
  <2>1. UNCHANGED row
    BY <1>3 DEF CheckAddress, Mail, CacheUser, Save, Activate, SaveEmail, Welcome, FindMember, ReadMember, Accept, tables
  <2>2. \/ user' = user
        \/ user' = [user EXCEPT ![on] = saved]
        \/ user' = [user EXCEPT ![on].email = email]
        \/ user' = [user EXCEPT ![on].active = TRUE]
    BY <1>3 DEF CheckAddress, Mail, CacheUser, Save, Activate, SaveEmail, Welcome, FindMember, ReadMember, Accept, tables
  <2>3. \A u \in Users : Exists(u) => user'[u] # None
    BY <1>0, <2>2, UsersStay
  <2> QED
    BY <2>1, <2>3
<1> QED
  BY <1>1, <1>2, <1>3 DEF Registering

LEMMA RowsMadeByBrowser ==
    ASSUME Types, NEW b, BrowserCall(b)
    PROVE  /\ \A u \in Users : Exists(u) => user'[u] # None
           /\ \A k \in Rows : row'[k] = row[k] \/ \E u : RowMade(k, u)
<1>1. CASE UNCHANGED <<user, row>>
  BY <1>1 DEF Exists
<1>2. ASSUME NEW e \in Emails, NEW u \in Users, NEW k \in Rows, AddProfile(b, e, u, k)
      PROVE  /\ \A v \in Users : Exists(v) => user'[v] # None
             /\ \A n \in Rows : row'[n] = row[n] \/ RowMade(n, u)
  <2>1. /\ user' = [user EXCEPT ![u] = [email |-> e, active |-> TRUE]]
        /\ row' = [row EXCEPT ![k] = [user |-> u, project |-> Main]]
    BY <1>2 DEF AddProfile
  <2>2. u \in OrNone(Users) /\ e \in OrNone(Emails)
    BY DEF OrNone
  <2>3. user'[u] # None /\ \A v \in Users : Exists(v) => user'[v] # None
    BY <2>1, <2>2, UsersStay
  <2>4. row \in [Rows -> OrNone(RowOf)]
    BY DEF Types, TableTypes
  <2> QED
    BY <2>1, <2>3, <2>4 DEF RowMade
<1> QED
  BY <1>1, <1>2 DEF BrowserCall, Form, Expire, Invite, RememberLink, tables

LEMMA LostRegistration ==
    ASSUME LostInv, Named, Types, Types', RegistrationStep PROVE LostInv' /\ Named'
<1>1. /\ late \subseteq late'
      /\ \A k \in Rows, d \in Calls : row[k] # row'[k] /\ At(d, "merge") /\ row'[k].user \in Others(d) => k \in late'
  BY DEF RegistrationStep, Late
<1>2. ASSUME NEW k \in Rows, NEW u, RowMade(k, u)
      PROVE  row'[k] # None /\ row'[k].user \in Users /\ user'[row'[k].user] # None
  <2>1. row'[k].user = u /\ u \in OrNone(Users)
    BY <1>2 DEF RowMade, OrNone
  <2>2. [user |-> u, project |-> Main] # None
    BY <2>1, AccountAssumption DEF OrNone, Projects
  <2> QED
    BY <1>2, <2>1, <2>2 DEF RowMade
<1>3. ASSUME \A u \in Users : Exists(u) => user'[u] # None,
             \A k \in Rows : row'[k] = row[k] \/ \E u : RowMade(k, u),
             \A d \in Calls : At(d, "merge")' => call'[d] = call[d],
             Chosen'
      PROVE  LostInv'
  <2>1. ASSUME NEW k \in Rows
        PROVE  \/ row'[k] = row[k]
               \/ /\ row'[k] # None /\ row'[k].user \in Users /\ user'[row'[k].user] # None
                  /\ \A d \in Calls : At(d, "merge") /\ row'[k].user \in Others(d) => k \in late'
    BY <1>1, <1>2, <1>3
  <2> QED
    BY <1>1, <1>3, <2>1, LostKept
<1>4. ASSUME NEW c \in Calls, Registering(c) PROVE LostInv' /\ Named'
  <2>1. RegistrationMove(c)
    BY <1>4, RegistrationMoves
  <2>2. Chosen' /\ \A d \in Calls : At(d, "merge")' => call'[d] = call[d]
    BY <2>1, ChosenKept DEF RegistrationMove, LostInv
  <2> QED
    BY <1>3, <1>4, <2>2, RowsMade, NamedRegistering
<1>5. ASSUME NEW c \in Calls, NEW b \in Browsers, RegistrationCall(c, b) PROVE LostInv' /\ Named'
  <2>1. RegistrationMove(c)
    BY <1>5, RegistrationMoves
  <2>2. Chosen' /\ \A d \in Calls : At(d, "merge")' => call'[d] = call[d]
    BY <2>1, ChosenKept DEF RegistrationMove, LostInv
  <2>3. UNCHANGED <<user, row>>
    BY <1>5 DEF RegistrationCall, Register, ChangeEmail, Verify, OpenLink, Login, EditMember, tables
  <2> QED
    BY <1>3, <1>5, <2>2, <2>3, NamedCall DEF Exists
<1>6. ASSUME NEW b \in Browsers, BrowserCall(b) PROVE LostInv' /\ Named'
  <2>1. UNCHANGED call
    BY <1>6 DEF BrowserCall, Form, Expire, Invite, RememberLink, AddProfile
  <2>2. Named' /\ Chosen'
    BY <2>1 DEF Named, LostInv, Chosen
  <2> QED
    BY <1>3, <1>6, <2>1, <2>2, RowsMadeByBrowser
<1> QED
  BY <1>4, <1>5, <1>6 DEF RegistrationStep

LEMMA LostFollows == LostInv => NothingIsLost
BY DEF LostInv

-----------------------------------------------------------------------------
(* The types, and the theorems *)

TypeInv == Types /\ Named /\ LostInv

LEMMA InitTypes == Init => Types
<1> SUFFICES ASSUME Init PROVE Types
  OBVIOUS
<1> USE DEF Init, InitTables, InitMerge, InitRegistration
<1>1. user \in [Users -> OrNone(Account)]
  <2>1. \A u \in DOMAIN Address : [email |-> Address[u], active |-> TRUE] \in Account
    BY AccountAssumption DEF Account, OrNone
  <2> QED
    BY <2>1 DEF OrNone
<1>2. row \in [Rows -> OrNone(RowOf)]
  <2>1. ASSUME NEW k \in DOMAIN Held PROVE Held[k] \in RowOf
    <3>1. Held[k] \in [user : DOMAIN Address, project : OrNone(Projects)] /\ DOMAIN Address \subseteq Users
      BY AccountAssumption
    <3> QED
      BY <3>1 DEF RowOf, OrNone
  <2> QED
    BY <2>1 DEF OrNone
<1>3. session \in [Browsers -> [user : OrNone(Users), invite : BOOLEAN]] /\ flow \in [Browsers -> OrNone(Flow)] /\ made \in Nat
  BY DEF OrNone
<1>4. CallTypes
  BY IdleIsCall DEF CallTypes, Complete
<1>5. prepared \in [Staff -> SUBSET Users] /\ asked \in [Staff -> SUBSET Users]
  BY MergeAssumption, UsersThere
<1>6. Grouped \subseteq Group
  <2>1. [users : SUBSET DOMAIN Address, by : Staff] \subseteq Group
    BY UsersThere DEF Group, Callers, OrNone
  <2> QED
    BY <2>1, MergeAssumption
<1> QED
  BY <1>1, <1>2, <1>3, <1>4, <1>5, <1>6 DEF Types, TableTypes, MergeTypes

\* At the start every call is idle, and every row has its user.
LEMMA InitLost == Init => Named /\ LostInv
<1> SUFFICES ASSUME Init PROVE Named /\ LostInv
  OBVIOUS
<1> USE DEF Init, InitTables, InitMerge, InitRegistration
<1>1. \A c \in Calls : call[c].at = "idle"
  BY IdleIsCall
<1>2. NothingIsLost
  <2> SUFFICES ASSUME NEW k \in Rows, row[k] # None PROVE row[k].user # None /\ Exists(row[k].user)
    BY DEF NothingIsLost
  <2>1. k \in DOMAIN Held /\ row[k] = Held[k]
    OBVIOUS
  <2>2. row[k].user \in DOMAIN Address /\ DOMAIN Address \subseteq Users /\ None \notin Users
    BY <2>1, AccountAssumption
  <2>3. user[row[k].user] = [email |-> Address[row[k].user], active |-> TRUE]
    BY <2>2
  <2>4. [email |-> Address[row[k].user], active |-> TRUE] \in [email : OrNone(Emails), active : BOOLEAN]
    BY <2>2, AccountAssumption DEF OrNone
  <2> QED
    BY <2>2, <2>3, <2>4, AccountAssumption DEF Exists
<1> QED
  BY <1>1, <1>2 DEF LostInv, Named, NamedPlaces, RowsThere, Chosen, AllSeen, OverlapIsLate, At

\* The calls of the staff, and the merge of two accounts.
LEMMA TypesOfStaff ==
    ASSUME Types, NEW c \in Calls, MergeCall(c), UNCHANGED registrationVars PROVE Types'
<1>1. \A u \in DOMAIN Address : u \in Users /\ u \in OrNone(Users)
  BY UsersThere DEF OrNone
<1>2. None \in OrNone(Users)
  BY DEF OrNone
<1> QED
  BY <1>1, <1>2, CollectTypes, MergeAccountsTypes DEF MergeCall

LEMMA NextTypes ==
    ASSUME TypeInv, [Next]_vars PROVE Types'
<1>1. CASE UNCHANGED vars
  BY <1>1 DEF TypeInv, vars, tables, mergeVars, registrationVars, Types, TableTypes, MergeTypes, CallTypes
<1>2. CASE MergeStep
  BY <1>2, TypesOfStaff, MergingTypes DEF MergeStep, TypeInv, LostInv
<1>3. CASE RegistrationStep
  BY <1>3, RegisteringTypes, RegistrationCallTypes, BrowserCallTypes DEF RegistrationStep, TypeInv
<1> QED
  BY <1>1, <1>2, <1>3 DEF Next

LEMMA NextLost ==
    ASSUME TypeInv, [Next]_vars PROVE TypeInv'
<1>0. Types' /\ Types /\ Named /\ LostInv
  BY NextTypes DEF TypeInv
<1>1. CASE UNCHANGED vars
  <2>1. UNCHANGED <<call, row, user, late>>
    BY <1>1 DEF vars, tables, mergeVars
  <2>2. Named' /\ RowsThere' /\ Chosen'
    BY <1>0, <2>1 DEF Named, LostInv, RowsThere, Chosen, At
  <2>3. NothingIsLost' /\ AllSeen' /\ OverlapIsLate'
    BY <1>0, <2>1 DEF LostInv, NothingIsLost, AllSeen, OverlapIsLate, At, Others, Exists
  <2> QED
    BY <1>0, <2>2, <2>3 DEF TypeInv, LostInv
<1>2. ASSUME NEW c \in Calls, MergeCall(c) \/ Merging(c) PROVE Named' /\ LostInv'
  BY <1>0, <1>2, NamedMerging, NamedMergeCall, LostMerging, LostMergeCall
<1>3. CASE RegistrationStep
  BY <1>0, <1>3, LostRegistration DEF TypeInv
<1> QED
  BY <1>0, <1>1, <1>2, <1>3 DEF Next, MergeStep, TypeInv

LEMMA TypesHold == Spec => []TypeInv
<1>1. Init => TypeInv
  BY InitTypes, InitLost DEF TypeInv
<1>2. TypeInv /\ [Next]_vars => TypeInv'
  BY NextLost
<1> QED
  BY <1>1, <1>2, PTL DEF Spec

\* NothingIsLost: a merge that fails is rolled back as a whole, and one that
\* does not moves every row of the users it deletes (merge_users_service.py).
\* The invariant: a merge that is about to commit knows every row of the
\* others, but for those that another merge or a new membership made late.
THEOREM NoRowIsLost == Spec => []NothingIsLost
<1>1. TypeInv => NothingIsLost
  BY LostFollows DEF TypeInv
<1> QED
  BY <1>1, TypesHold, PTL

\* JoinedOnce: between the check of an invitation and its save there is one
\* call at most, unless two acceptances overlapped (event.py:93-114).
THEOREM InvitationTakesOneIn == Spec => []JoinedOnce
<1>1. Init => JoinedInv
  <2> SUFFICES ASSUME Init PROVE JoinedInv
    OBVIOUS
  <2>1. \A c \in Calls : call[c].at = "idle"
    BY IdleIsCall DEF Init, InitTables
  <2>2. invite = "open" /\ joined = {}
    BY DEF Init, InitRegistration
  <2> QED
    BY <2>1, <2>2 DEF JoinedInv, OneAccepts, Past, At
<1>2. TypeInv /\ JoinedInv /\ [Next]_vars => JoinedInv'
  <2> SUFFICES ASSUME Types, JoinedInv, [Next]_vars PROVE JoinedInv'
    BY DEF TypeInv
  <2>1. CASE UNCHANGED vars
    BY <2>1 DEF vars, registrationVars, JoinedInv, OneAccepts, Past, At
  <2>2. CASE MergeStep
    BY <2>2, JoinedMergeStep DEF MergeStep
  <2>3. CASE RegistrationStep
    BY <2>3, JoinedRegistering, JoinedRegistrationCall, JoinedBrowserCall DEF RegistrationStep
  <2> QED
    BY <2>1, <2>2, <2>3 DEF Next
<1> QED
  BY <1>1, <1>2, TypesHold, JoinedFollows, PTL DEF Spec

\* InOneGroup: while one call creates a group, none of the list it has checked
\* is in another one, and the list of a staff is written by one call
\* (profile.py:603-610, profile_merge.py:82-151).
THEOREM GroupsAndListsAreRight == Spec => []InOneGroup
<1>1. Init => GroupInv /\ ListInv
  <2> SUFFICES ASSUME Init PROVE GroupInv /\ ListInv
    OBVIOUS
  <2>1. \A c \in Calls : call[c].at = "idle"
    BY IdleIsCall DEF Init, InitTables
  <2>2. prepared = asked /\ \A g, h \in groups : g = h
    BY DEF Init, InitMerge
  <2> QED
    BY <2>1, <2>2 DEF GroupInv, OneCreates, Creating, ListInv, Collecting, At
<1>2. TypeInv /\ GroupInv /\ ListInv /\ [Next]_vars => GroupInv' /\ ListInv'
  <2> SUFFICES ASSUME Types, GroupInv, ListInv, [Next]_vars PROVE GroupInv' /\ ListInv'
    BY DEF TypeInv
  <2>1. CASE UNCHANGED vars
    BY <2>1 DEF vars, mergeVars, GroupInv, OneCreates, Creating, ListInv, Collecting, At
  <2>2. CASE MergeStep
    BY <2>2, GroupMerging, ListMerging, GroupMergeCall DEF MergeStep
  <2>3. CASE RegistrationStep
    BY <2>3, GroupRegistration
  <2> QED
    BY <2>1, <2>2, <2>3 DEF Next
<1> QED
  BY <1>1, <1>2, TypesHold, GroupFollows, PTL DEF Spec

\* ActiveWasMailed: the mail comes before the user is cached under the code,
\* and only a cached user is activated (account.py:224-267).
THEOREM ActiveUsersWereMailed == Spec => []ActiveWasMailed
<1>1. Init => MailedInv
  <2> SUFFICES ASSUME Init PROVE MailedInv
    OBVIOUS
  <2>1. \A c \in Calls : call[c].at = "idle"
    BY IdleIsCall DEF Init, InitTables
  <2>2. MailedUsers
    BY DEF MailedUsers, Init, InitTables, Exists
  <2>3. MailedFlows
    BY DEF MailedFlows, Init, InitRegistration
  <2> QED
    BY <2>1, <2>2, <2>3 DEF MailedInv, MailedCalls, At
<1>2. TypeInv /\ MailedInv /\ [Next]_vars => MailedInv'
  <2> SUFFICES ASSUME Types, MailedInv, [Next]_vars PROVE MailedInv'
    BY DEF TypeInv
  <2>1. CASE UNCHANGED vars
    BY <2>1 DEF vars, tables, registrationVars, MailedInv, MailedFlows, MailedUsers, MailedCalls, Backed, Exists, At
  <2>2. CASE MergeStep
    BY <2>2, MailedMergeStep DEF MergeStep
  <2>3. CASE RegistrationStep
    BY <2>3, MailedRegistering, MailedCall, MailedBrowserCall DEF RegistrationStep
  <2> QED
    BY <2>1, <2>2, <2>3 DEF Next
<1> QED
  BY <1>1, <1>2, TypesHold, MailedFollows, PTL DEF Spec

\* AddressesDiffer: from the check of an address to the commit of its user
\* there is one registration, unless two overlapped (profile.py:412-417).
THEOREM AddressesStayDifferent == Spec => []AddressesDiffer
<1>1. Init => AddressInv
  <2> SUFFICES ASSUME Init PROVE AddressInv
    OBVIOUS
  <2>1. \A c \in Calls : call[c].at = "idle" /\ call[c].op = "login"
    <3>1. Idle.op = "login"
      BY DEF Idle
    <3> QED
      BY <3>1, IdleIsCall DEF Init, InitTables
  <2>2. ASSUME NEW u \in Users, NEW v \in Users, u # v, Exists(u), Exists(v) PROVE user[u].email # user[v].email
    <3>1. u \in DOMAIN Address /\ v \in DOMAIN Address
      BY <2>2 DEF Init, InitTables, Exists
    <3>2. user[u].email = Address[u] /\ user[v].email = Address[v]
      BY <3>1 DEF Init, InitTables
    <3> QED
      BY <2>2, <3>1, <3>2, AccountAssumption
  <2> QED
    BY <2>1, <2>2 DEF AddressInv, InPlace, OneRegisters, Registers, Checked, Counted
<1>2. TypeInv /\ AddressInv /\ [Next]_vars => AddressInv'
  <2> SUFFICES ASSUME Types, AddressInv, [Next]_vars PROVE AddressInv'
    BY DEF TypeInv
  <2>1. CASE UNCHANGED vars
    BY <2>1 DEF vars, tables, registrationVars, AddressInv, InPlace, OneRegisters, Registers, Checked, Counted, Exists
  <2>2. CASE MergeStep
    BY <2>2, AddressMergeStep DEF MergeStep
  <2>3. CASE RegistrationStep
    BY <2>3, AddressRegistering, AddressCall, AddressBrowserCall DEF RegistrationStep
  <2> QED
    BY <2>1, <2>2, <2>3 DEF Next
<1> QED
  BY <1>1, <1>2, TypesHold, AddressFollows, PTL DEF Spec

\* Who joins, by a registration or an invitation that overlaps with no other
\* (account.py:224-267, event.py:93-114).
THEOREM JoiningStaysRight == Spec => []JoiningIsRight
<1>1. AddressesDiffer /\ ActiveWasMailed /\ JoinedOnce => JoiningIsRight
  BY DEF JoiningIsRight
<1> QED BY <1>1, AddressesStayDifferent, ActiveUsersWereMailed, InvitationTakesOneIn, PTL

\* Groups and merges together (profile_merge.py:114-151, merge_users_service.py:25-123).
THEOREM MergesStayRight == Spec => []MergesAreRight
<1>1. InOneGroup /\ NothingIsLost => MergesAreRight
  BY DEF MergesAreRight
<1> QED BY <1>1, GroupsAndListsAreRight, NoRowIsLost, PTL

=============================================================================
