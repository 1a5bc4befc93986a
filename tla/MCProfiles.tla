----------------------------- MODULE MCProfiles -----------------------------
(* Profiles, the tables of people (Members) and the roles of projects        *)
(* (Roles) for TLC: three parts that share nothing here, a behaviour is one  *)
(* of one part while the others rest.                                        *)
EXTENDS Profiles, Members, Roles, TLC

CONSTANTS u1, e1, e2, r1, r2, c1, c2

MCAddress == u1 :> e1
MCSymmetry == Permutations({r1, r2}) \union Permutations({c1, c2})

\* The key of one project is a prefix of the key of the other, and one label
\* has a delimiter.
MCKeys == {<<"1">>, <<"1", "1">>}
MCLabels == {<<"a">>, <<"a", "s", "b">>}

-----------------------------------------------------------------------------

VARIABLE part

\* All are members of the project that is shown, and one, in another state, of
\* another one; some have the same name.
MCInit ==
    /\ part \in {"profiles", "members", "roles"}
    /\ Init
    /\ member = ({Ours} \X People) \union (Projects \X {1})
    /\ state = [r \in Projects \X People |-> IF r[1] = Ours THEN "on" ELSE "off"]
    /\ MembersInit /\ (part # "members" => name = [p \in People |-> 1])
    /\ RolesInit /\ (part # "roles" => owner = [k \in Keys |-> "root"])

MCNext ==
    /\ UNCHANGED part
    /\ \/ part = "profiles" /\ Next /\ UNCHANGED <<membersVars, rolesVars>>
       \/ part = "members" /\ MembersNext /\ UNCHANGED <<vars, rolesVars>>
       \/ part = "roles" /\ RolesNext /\ UNCHANGED <<vars, membersVars>>

MCSpec == MCInit /\ [][MCNext]_<<part, vars, membersVars, rolesVars>>
=============================================================================
