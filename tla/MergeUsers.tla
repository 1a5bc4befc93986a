----------------------------- MODULE MergeUsers -----------------------------
(***************************************************************************)
(* The merging of users.  The staff collect users in a list in the cache   *)
(* (ProfileViewSet.merge, ProfileMergeViewSet) and turn the list into a    *)
(* row of MergeUserGroup.  The first user of a group who logs in survives  *)
(* (MergeUsersService.handle): in one transaction the rows of the others   *)
(* become his, and the others are deleted.                                 *)
(*                                                                         *)
(* No table with a foreign key to a user has a unique constraint that the  *)
(* change of the user could violate, so no row is deleted as a duplicate.  *)
(* Groups are those of the first project: the others wait forever (the     *)
(* TODO at merge_users_service.py:19).                                     *)
(***************************************************************************)
EXTENDS AccountTables

CONSTANTS
    Staff,          \* who may merge users
    Listed,         \* their lists at the start
    Grouped         \* the groups there may be at the start

ASSUME MergeAssumption ==
    /\ Staff \subseteq DOMAIN Address
    /\ Listed \in [Staff -> SUBSET DOMAIN Address]
    /\ Grouped \subseteq [users : SUBSET DOMAIN Address, by : Staff]

VARIABLES
    prepared,   \* per staff, the list under MERGE_USERS_QS_CK
    groups,     \* the rows of MergeUserGroup
    asked,      \* history: the lists as the calls meant them
    mixed,      \* history: staff of whom two calls overlapped
    raced,      \* history: a group was created while another one was
    late        \* history: rows of users who were being merged twice, or made meanwhile

mergeVars == <<prepared, groups, asked, mixed, raced, late>>

InitMerge ==
    /\ prepared = Listed
    /\ groups \in {{}} \union {{g} : g \in Grouped}
    /\ asked = prepared
    /\ mixed = {}
    /\ raced = FALSE
    /\ late = {}

-----------------------------------------------------------------------------
(* The list in the cache, and the group *)

\* get_object() of a removal finds only users of the list.
Collect(c, s, op, u) ==
    /\ Exists(s)
    /\ op = "remove" => u \in prepared[s]
    /\ Begin(c, [Idle EXCEPT !.at = "list", !.op = op, !.by = s, !.on = u])
    /\ mixed' = IF \E d \in Calls : call[d].by = s THEN mixed \union {s} ELSE mixed
    /\ UNCHANGED <<tables, session, prepared, groups, asked, raced, late>>

ReadList(c) ==
    /\ At(c, "list")
    /\ call[c].op # "clear"
    /\ Become(c, [call[c] EXCEPT !.at = IF call[c].op = "create" THEN "check" ELSE "write",
                                 !.list = prepared[call[c].by]])
    /\ UNCHANGED <<tables, session, made, mergeVars>>

Put(c, list) == IF call[c].op = "add" THEN list \union {call[c].on} ELSE list \ {call[c].on}

WriteList(c) ==
    LET s == call[c].by IN
    /\ At(c, "write")
    /\ prepared' = [prepared EXCEPT ![s] = Put(c, call[c].list)]
    /\ asked' = [asked EXCEPT ![s] = (@ \union {call[c].on}) \ (IF call[c].op = "add" THEN {} ELSE {call[c].on})]
    /\ Answered(c)
    /\ UNCHANGED <<tables, session, made, groups, mixed, raced, late>>

\* Mutant: the groups are not looked at.
ValidAnyway(list) == Cardinality(list) >= 2

\* MergeUsersRequest: two users at least, none of them in any group.
Valid(list) == Cardinality(list) >= 2 /\ \A g \in groups : g.users \intersect list = {}

Check(c) ==
    /\ At(c, "check")
    /\ IF Valid(call[c].list) THEN Go(c, "insert") ELSE Answered(c)
    /\ raced' = (raced \/ \E d \in Calls \ {c} : At(d, "insert") \/ At(d, "commit"))
    /\ UNCHANGED <<tables, session, made, prepared, groups, asked, mixed, late>>

\* The list is emptied before the transaction of the new group commits, and
\* before the groups of a clear are deleted.
EmptyList(c) ==
    LET s == call[c].by IN
    /\ At(c, "insert") \/ (At(c, "list") /\ call[c].op = "clear")
    /\ prepared' = [prepared EXCEPT ![s] = {}]
    /\ asked' = [asked EXCEPT ![s] = {}]
    /\ Go(c, "commit")
    /\ UNCHANGED <<tables, session, made, groups, mixed, raced, late>>

Commit(c) ==
    LET s == call[c].by IN
    /\ At(c, "commit")
    /\ groups' = IF call[c].op = "create" THEN groups \union {[users |-> call[c].list, by |-> s]}
                 ELSE {g \in groups : g.by # s}
    /\ Answered(c)
    /\ UNCHANGED <<tables, session, made, prepared, asked, mixed, raced, late>>

-----------------------------------------------------------------------------
(* MergeUsersService.handle, which the signal user_logged_in calls *)

\* The group is found before the transaction.  A user without one is logged
\* in: only a login by password looks for an invitation then.
Find(c) ==
    /\ At(c, "find")
    /\ \/ \E g \in groups :
            /\ call[c].on \in g.users
            /\ Become(c, [call[c] EXCEPT !.at = "move", !.group = g])
       \/ /\ \A g \in groups : call[c].on \notin g.users
          /\ Go(c, "welcome")
    /\ UNCHANGED <<tables, session, made, mergeVars>>

Others(c) == call[c].group.users \ {call[c].on}

\* The rows of the others: of the group's project, or of none.
Moved(c) == {k \in Rows : row[k] # None /\ row[k].user \in Others(c) /\ row[k].project # Other}

\* The rows are read and changed one by one; until the commit nobody else
\* sees it, and the login of another user of the group may read what this one
\* is about to change.
Move(c) ==
    /\ At(c, "move")
    /\ Become(c, [call[c] EXCEPT !.at = "merge", !.seen = Moved(c)])
    /\ late' = late \union {k \in Rows : \E d \in Calls \ {c} :
                               /\ At(d, "merge")
                               /\ call[c].group.users \intersect call[d].group.users # {}
                               /\ row[k] # None
                               /\ \/ row[k].user \in call[c].group.users \union call[d].group.users
                                  \/ k \in call[d].seen}
    /\ UNCHANGED <<tables, session, made, prepared, groups, asked, mixed, raced>>

Renamed(c) == [k \in Rows |-> IF k \in call[c].seen THEN [row[k] EXCEPT !.user = call[c].on] ELSE row[k]]

\* The others, but for those on several projects.  Their memberships of the
\* group's project have moved by now: who was on two projects is deleted, with
\* his membership of the other one.
Deleted(c) == {v \in Others(c) : Cardinality(Memberships(Renamed(c), v)) <= 1}

\* A delete cascades to every row the user has then.
Cascaded(c) ==
    [k \in Rows |-> IF row[k] # None /\ Renamed(c)[k].user \in Deleted(c)
                    THEN [row[k] EXCEPT !.user = None] ELSE Renamed(c)[k]]

\* Mutant: the foreign keys are not checked.
FailsNever(c) == FALSE

\* When the user himself was merged in the meantime, the foreign keys of the
\* rows fail: the transaction is rolled back and what it raised is logged.
Fails(c) == ~Exists(call[c].on) /\ call[c].seen # {}

Merge(c) ==
    /\ At(c, "merge")
    /\ Go(c, "welcome")
    /\ IF Fails(c) THEN UNCHANGED <<user, row, groups>>
       ELSE /\ user' = [u \in Users |-> IF u \in Deleted(c) THEN None ELSE user[u]]
            /\ row' = Cascaded(c)
            /\ groups' = groups \ {call[c].group}
    /\ UNCHANGED <<session, made, born, prepared, asked, mixed, raced, late>>

\* merge_accounts: the group is given by a second login; get_or_create without
\* a project finds the group the user himself made, or fails.
MergeAccounts(c, b, u) ==
    /\ LoggedIn(b)
    /\ [users |-> {session[b].user, u}, by |-> session[b].user] \in groups
    /\ Exists(u) /\ user[u].active
    /\ \E v \in {session[b].user, u} : Begin(c, [Idle EXCEPT !.at = "find", !.op = "merge", !.on = v])
    /\ UNCHANGED <<tables, session, mergeVars>>

-----------------------------------------------------------------------------
Merging(c) ==
    \/ ReadList(c) \/ WriteList(c) \/ Check(c) \/ EmptyList(c) \/ Commit(c)
    \/ Find(c) \/ Move(c) \/ Merge(c)

MergeCall(c) ==
    \/ \E s \in Staff :
         \/ \E op \in {"add", "remove"}, u \in DOMAIN Address : Collect(c, s, op, u)
         \/ \E op \in {"create", "clear"} : Collect(c, s, op, None)
    \/ \E b \in Browsers, u \in Users : MergeAccounts(c, b, u)

-----------------------------------------------------------------------------
(* Properties *)

\* A user is in one group at most, unless two groups were created at the same
\* time: the check of the users and the commit of the group are apart
\* (profile_merge.py:82-126).
UserInOneGroup ==
    raced \/ \A g, h \in groups : g # h => g.users \intersect h.users = {}

\* As long as no two calls of one staff overlap, the list in the cache is what
\* they made of it (profile.py:603-610, profile_merge.py:114-151).
ListIsAsAsked ==
    \A s \in Staff \ mixed : prepared[s] = asked[s]

\* The groups and the lists they are made from are what the staff asked for.
InOneGroup == UserInOneGroup /\ ListIsAsAsked

\* Whatever logins and merges come together, a row of the first project, or of
\* no project, stays, and belongs to a user there is: when two users of a group
\* were found before either was merged, the transaction of the second fails.
\* Not so when the transactions themselves overlap, or a row is made for a user
\* whom another login merges (merge_users_service.py:25-123).
NothingIsLost ==
    \A k \in Rows \ late :
        row[k] # None /\ row[k].project # Other => row[k].user # None /\ Exists(row[k].user)

\* Users are merged with those of the group the staff put them in, and with
\* nothing lost.
MergesAreRight == InOneGroup /\ NothingIsLost

=============================================================================
