------------------------------ MODULE Accounts ------------------------------
(***************************************************************************)
(* Registration and the merging of users together: every login, and every  *)
(* verification, goes on with MergeUsersService.handle, and joins by an    *)
(* invitation afterwards; memberships and users come and go meanwhile.     *)
(***************************************************************************)
EXTENDS MergeUsers, Registration

vars == <<tables, session, call, made, mergeVars, registrationVars>>

Init == InitTables /\ InitMerge /\ InitRegistration

\* A membership that is made for a user whom another login is merging.
Late ==
    late' = late \union {k \in Rows : /\ row[k] # row'[k]
                                      /\ \E d \in Calls : At(d, "merge") /\ row'[k].user \in Others(d)}

MergeStep == (\E c \in Calls : MergeCall(c) \/ Merging(c)) /\ UNCHANGED registrationVars

RegistrationStep ==
    /\ \/ \E c \in Calls : Registering(c) \/ \E b \in Browsers : RegistrationCall(c, b)
       \/ \E b \in Browsers : BrowserCall(b)
    /\ Late
    /\ UNCHANGED <<prepared, groups, asked, mixed, raced>>

Next == MergeStep \/ RegistrationStep

Spec == Init /\ [][Next]_vars
=============================================================================
