-------------------------------- MODULE Roles -------------------------------
(* The roles of a project (rest/project_role.py).  A role is a group whose   *)
(* name is the project's key, a delimiter and the label a user gave it: the  *)
(* name alone says to which project a role belongs, who may see it and what  *)
(* it is called.  Names are sequences of characters here, as prefixes and    *)
(* delimiters are what this is about.                                        *)
EXTENDS Naturals, Sequences, SequencesExt

CONSTANTS
  Chars,
  Keys,        \* of projects, as the characters of their digits
  Labels,      \* what users call roles
  Delimiter,   \* ProjectRole.delimiter
  Persons, Admins,   \* Admins are superusers
  Ids, Calls

ASSUME RolesAssumption ==
  /\ Keys \subseteq Seq(Chars) /\ Labels \subseteq Seq(Chars) /\ Delimiter \in Chars
  /\ <<>> \notin Keys \union Labels /\ \A p \in Keys : ~Contains(p, Delimiter)
  /\ Admins \subseteq Persons /\ "nobody" \notin Persons /\ Ids \subseteq Nat \ {0}

VARIABLES
  owner,      \* the owner of each project there is
  role,       \* the name of each role there is
  selected,   \* the project in the session of each user
  call,       \* requests that change a role: what they read of it
  home,       \* history: the project a role was created for
  given       \* history: the label it was last given

rolesVars == <<owner, role, selected, call, home, given>>

NoName == <<>>
Nobody == "nobody"
NoCall == [kind |-> "idle", id |-> 0, name |-> NoName, label |-> NoName]

Live == {i \in Ids : role[i] # NoName}

RolesInit ==
  /\ owner \in [Keys -> Persons] /\ role = [i \in Ids |-> NoName]
  /\ selected = [u \in Persons |-> NoName]
  /\ call = [r \in Calls |-> NoCall]
  /\ home = role /\ given = role

-----------------------------------------------------------------------------
(* Names *)

\* str.split(delimiter): the part before the first delimiter ...
Cut(s) == CHOOSE n \in 0..Len(s) : /\ \A k \in 1..n : s[k] # Delimiter
                                   /\ n = Len(s) \/ s[n + 1] = Delimiter
ProjectOf(name) == SubSeq(name, 1, Cut(name))

\* ... and the one between it and the next.
Shown(name) == LET rest == SubSeq(name, Cut(name) + 2, Len(name))
               IN  SubSeq(rest, 1, Cut(rest))

InternalName(project, label) == project \o <<Delimiter>> \o label

-----------------------------------------------------------------------------
(* ProjectRoleViewSet.get_queryset *)

There(p) == p # NoName /\ owner[p] # Nobody

\* The project of the session goes before the one the address names.
ProjectFor(u, asked) == IF There(selected[u]) THEN selected[u]
                        ELSE IF There(asked) THEN asked ELSE NoName

\* Mutant: the prefix is the key alone.
OfProjectByKey(p) == {i \in Live : IsPrefix(p, role[i])}

OfProject(p) == {i \in Live : IsPrefix(p \o <<Delimiter>>, role[i])}

Listed(u, asked) ==
  LET p == ProjectFor(u, asked) IN
  IF u \in Admins THEN Live
  ELSE IF p # NoName /\ owner[p] = u THEN OfProject(p) ELSE {}

\* One role, for all but the list
Reachable(u, i) ==
  /\ i \in Live
  /\ \/ u \in Admins
     \/ /\ Contains(role[i], Delimiter)
        /\ There(ProjectOf(role[i])) /\ owner[ProjectOf(role[i])] = u

-----------------------------------------------------------------------------
(* Calls.  A label is compared with the names of groups as it is; that the   *)
(* names are unique as well is up to the database, which fails a call that   *)
(* breaks it.                                                                *)

Unique(label, name, id) == \A i \in Live \ {id} : role[i] \notin {label, name}

\* Whether there is such a project is not asked.  The key of a new group was
\* never used.
Create(p, label) ==
  /\ Unique(label, InternalName(p, label), 0)
  /\ \E i \in Ids :
       /\ \A j \in Ids : j < i <=> home[j] # NoName
       /\ role' = [role EXCEPT ![i] = InternalName(p, label)]
       /\ home' = [home EXCEPT ![i] = p] /\ given' = [given EXCEPT ![i] = label]
  /\ UNCHANGED <<owner, selected, call>>

\* An update or a deletion reads the role ...
ReadRole(r, u, i, kind, label) ==
  /\ call[r] = NoCall /\ Reachable(u, i)
  /\ kind = "update" => Unique(label, label, i)
  /\ call' = [call EXCEPT ![r] = [kind |-> kind, id |-> i, label |-> label,
                   name |-> InternalName(ProjectOf(role[i]), label)]]
  /\ UNCHANGED <<owner, role, selected, home, given>>

\* ... and writes it: Model.save inserts a row that is not there any more.
Save(r) ==
  LET q == call[r] IN
  /\ q.kind = "update"
  /\ call' = [call EXCEPT ![r] = NoCall]
  /\ IF Unique(q.name, q.name, q.id)
     THEN role' = [role EXCEPT ![q.id] = q.name] /\ given' = [given EXCEPT ![q.id] = q.label]
     ELSE UNCHANGED <<role, given>>
  /\ UNCHANGED <<owner, selected, home>>

Delete(r) ==
  /\ call[r].kind = "delete"
  /\ call' = [call EXCEPT ![r] = NoCall]
  /\ role' = [role EXCEPT ![call[r].id] = NoName]
  /\ UNCHANGED <<owner, selected, home, given>>

-----------------------------------------------------------------------------
(* What else changes what the names mean.  A call names the project that is  *)
(* kept in the session; a project that is deleted leaves its roles.          *)

SelectProject(u, p) ==
  /\ There(p) /\ selected' = [selected EXCEPT ![u] = p]
  /\ UNCHANGED <<owner, role, call, home, given>>

EndSession(u) ==
  /\ selected[u] # NoName /\ selected' = [selected EXCEPT ![u] = NoName]
  /\ UNCHANGED <<owner, role, call, home, given>>

DeleteProject(u) ==
  /\ There(selected[u]) /\ owner[selected[u]] = u
  /\ owner' = [owner EXCEPT ![selected[u]] = Nobody]
  /\ UNCHANGED <<role, selected, call, home, given>>

RolesNext ==
  \/ \E p \in Keys, l \in Labels : Create(p, l)
  \/ \E r \in Calls :
       \/ \E u \in Persons, i \in Ids :
            ReadRole(r, u, i, "delete", NoName) \/ \E l \in Labels : ReadRole(r, u, i, "update", l)
       \/ Save(r) \/ Delete(r)
  \/ \E u \in Persons : EndSession(u) \/ DeleteProject(u) \/ \E p \in Keys : SelectProject(u, p)

RolesSpec == RolesInit /\ [][RolesNext]_rolesVars

-----------------------------------------------------------------------------
(* Properties *)

RolesTypeOK ==
  /\ owner \in [Keys -> Persons \union {Nobody}] /\ selected \in [Persons -> Keys \union {NoName}]
  /\ role \in [Ids -> Seq(Chars)]
  /\ home \in [Ids -> Keys \union {NoName}] /\ given \in [Ids -> Labels \union {NoName}]

\* What a request is about to write, and what is written, is a label under the
\* key of the project the role was created for.
RolesInv ==
  /\ RolesTypeOK
  /\ \A i \in Ids : role[i] # NoName =>
       home[i] \in Keys /\ given[i] \in Labels /\ role[i] = InternalName(home[i], given[i])
  /\ DOMAIN call = Calls
  /\ \A r \in Calls :
       \/ call[r] = NoCall
       \/ /\ call[r].kind \in {"update", "delete"} /\ call[r].id \in Ids /\ home[call[r].id] \in Keys
          /\ call[r].kind = "update" =>
               call[r].label \in Labels /\ call[r].name = InternalName(home[call[r].id], call[r].label)

\* The owner of a project finds in its list the roles created for it and no
\* others, and can open exactly those, whatever they are called, however often
\* they were renamed and whoever renamed them at the same time; each is shown
\* under its label, unless that has a delimiter in it.
OwnersFindTheirRoles ==
  \A u \in Persons \ Admins, p \in Keys :
    owner[p] = u =>
      LET own == {i \in Live : home[i] = p} IN
      /\ ProjectFor(u, p) = p => Listed(u, p) = own
      /\ \A i \in own : Reachable(u, i) /\ (Contains(given[i], Delimiter) \/ Shown(role[i]) = given[i])
      /\ \A v \in Persons \ (Admins \union {u}) : \A i \in own : ~Reachable(v, i)
=============================================================================
