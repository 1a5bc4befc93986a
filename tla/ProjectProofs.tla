--------------------------- MODULE ProjectProofs ----------------------------
(***************************************************************************)
(* What is proved about a project.  ProjectSettings: the active value of a *)
(* setting was approved, and a pending sender is known to SES, for any     *)
(* names, values and number of requests; the invariant says, beside the    *)
(* two properties, what a request under way is about to write.  Roles: the *)
(* owner of a project finds its roles, whatever the keys and the labels.   *)
(* Members: the table of its people is complete and its file agrees.       *)
(***************************************************************************)
EXTENDS ProjectSettings, Members, Roles, WellFoundedInduction, FiniteSetTheorems, SequenceTheorems,
        TLAPS

\* The invariant holds when there is no row and no request.
LEMMA InitSettings == Init => SettingsInv
  BY SettingsAssumption
     DEF Init, SettingsInv, TypeOK, ActiveWasApproved, PendingIsRegistered, WriteIsApproved, Idle,
         Rows, OrNone, Exists

\* What an edit is about to write is a row whose value is approved.
LEMMA EditKeepsInv ==
  ASSUME SettingsInv, NEW r \in Requests, NEW n \in Names, NEW x \in Values, NEW named \in BOOLEAN,
         Edit(r, n, x, named)
  PROVE  SettingsInv'
  <1>1. Edited(n, x) \in Rows
    BY DEF SettingsInv, TypeOK, Rows, OrNone, Edited, Exists
  <1>2. /\ Exists(n) => Edited(n, x).value \in approved[n]
        /\ Exists(n) => Edited(n, x).pending \in {x, NoValue}
        /\ ~Exists(n) => Edited(n, x).pending = NoValue
    BY DEF SettingsInv, TypeOK, Rows, ActiveWasApproved, Edited, Exists
  <1>6. ~Exists(n) => Edited(n, x).value # NoValue
    BY SettingsAssumption DEF Edited
  <1>3. TypeOK'
    BY <1>1, SettingsAssumption DEF SettingsInv, TypeOK, Edit, Become, At
  <1>4. ActiveWasApproved' /\ PendingIsRegistered'
    BY DEF SettingsInv, ActiveWasApproved, PendingIsRegistered, Edit, Exists, OrNone
  <1>5. ASSUME NEW q \in Requests PROVE WriteIsApproved(request[q])'
    <2>1. CASE q = r
      BY <1>2, <1>6, <2>1, SettingsAssumption
         DEF SettingsInv, TypeOK, WriteIsApproved, Edit, Become, OrNone
    <2>2. CASE q # r
      BY <2>2 DEF SettingsInv, TypeOK, WriteIsApproved, Edit, Become, OrNone
    <2> QED BY <2>1, <2>2
  <1> QED BY <1>3, <1>4, <1>5 DEF SettingsInv

\* Every step of a request keeps the invariant.
LEMMA StepKeepsInv ==
  ASSUME SettingsInv, NEW r \in Requests, Step(r) \/ SesFails(r)
  PROVE  SettingsInv'
  <1> USE DEF At, Become, Goto, Finish, Idle
  <1> DEFINE s == request[r]
  <1>0. /\ s.write \in Rows
        /\ s.at # "idle" => s.name \in Names
    BY DEF SettingsInv, TypeOK, WriteIsApproved
  <1>1. CASE Register(r)
    <2>1. TypeOK'
      BY <1>0, <1>1 DEF SettingsInv, TypeOK, Register, ToRegister, Rows, OrNone
    <2>2. ActiveWasApproved' /\ PendingIsRegistered'
      BY <1>1 DEF SettingsInv, ActiveWasApproved, PendingIsRegistered, Register, Exists, OrNone
    <2>3. ASSUME NEW q \in Requests PROVE WriteIsApproved(request[q])'
      <3>1. CASE q = r
        <4>1. /\ request'[r].name = s.name /\ request'[r].kind = s.kind /\ request'[r].write = s.write
              /\ request'[r].at = IF s.kind = "reset" THEN "commit" ELSE "save"
              /\ s.at = "register" /\ s.name \in Names /\ WriteIsApproved(s)
          BY <1>1 DEF SettingsInv, TypeOK, WriteIsApproved, Register
        <4>2. s.kind = "edit" => s.write.pending \in OrNone(identities')
          BY <1>0, <1>1 DEF Register, ToRegister, Rows, OrNone
        <4>3. approved' = approved /\ nameless' = nameless
          BY <1>1 DEF Register
        <4> QED BY <3>1, <4>1, <4>2, <4>3 DEF WriteIsApproved, OrNone
      <3>2. CASE q # r
        BY <1>1, <3>2 DEF SettingsInv, TypeOK, WriteIsApproved, Register, OrNone
      <3> QED BY <3>1, <3>2
    <2> QED BY <2>1, <2>2, <2>3 DEF SettingsInv
  <1>2. CASE SaveEdit(r)
    <2>1. TypeOK'
      BY <1>0, <1>2 DEF SettingsInv, TypeOK, SaveEdit, Rows, OrNone
    <2>2. ActiveWasApproved'
      BY <1>0, <1>2 DEF SettingsInv, TypeOK, ActiveWasApproved, WriteIsApproved, SaveEdit, Exists, OrNone
    <2>3. PendingIsRegistered'
      BY <1>0, <1>2 DEF SettingsInv, TypeOK, PendingIsRegistered, WriteIsApproved, SaveEdit, OrNone
    <2>4. ASSUME NEW q \in Requests PROVE WriteIsApproved(request[q])'
      <3>1. CASE q = r
        BY <1>2, <3>1 DEF SettingsInv, TypeOK, WriteIsApproved, SaveEdit
      <3>2. CASE q # r
        BY <1>0, <1>2, <3>2 DEF SettingsInv, TypeOK, WriteIsApproved, SaveEdit, OrNone
      <3> QED BY <3>1, <3>2
    <2> QED BY <2>1, <2>2, <2>3, <2>4 DEF SettingsInv
  <1>3. CASE SaveNew(r)
    <2>1. TypeOK'
      <3>1. s.write.value \in Values
        BY <1>0, <1>3 DEF SettingsInv, WriteIsApproved, SaveNew, Rows, OrNone
      <3>2. approved' \in [Names -> SUBSET Values] /\ row' \in [Names -> Rows]
        BY <1>0, <1>3, <3>1 DEF SettingsInv, TypeOK, SaveNew
      <3> QED BY <1>3, <3>2 DEF SettingsInv, TypeOK, SaveNew, Rows, OrNone
    <2>2. ActiveWasApproved'
      BY <1>0, <1>3 DEF SettingsInv, TypeOK, ActiveWasApproved, SaveNew, Exists
    <2>3. PendingIsRegistered'
      BY <1>0, <1>3 DEF SettingsInv, TypeOK, PendingIsRegistered, WriteIsApproved, SaveNew, OrNone
    <2>4. ASSUME NEW q \in Requests PROVE WriteIsApproved(request[q])'
      <3>1. CASE q = r
        BY <1>3, <3>1 DEF SettingsInv, TypeOK, WriteIsApproved, SaveNew
      <3>2. CASE q # r
        BY <1>0, <1>3, <3>2 DEF SettingsInv, TypeOK, WriteIsApproved, SaveNew, OrNone
      <3> QED BY <3>1, <3>2
    <2> QED BY <2>1, <2>2, <2>3, <2>4 DEF SettingsInv
  <1>4. CASE Verify(r)
    <2>1. TypeOK'
      <3>1. approved' \in [Names -> SUBSET Values]
        <4>1. approved \in [Names -> SUBSET Values] /\ s.write.value \in Values \union {NoValue}
          BY <1>0 DEF SettingsInv, TypeOK, Rows, OrNone
        <4>2. s.write.value \notin {NoValue} => s.write.value \in Values
          BY <4>1
        <4>3. \/ approved' = [approved EXCEPT ![s.name] = @ \union ({s.write.value} \ {NoValue})]
              \/ approved' = approved
          BY <1>4 DEF Verify, Approve
        <4> QED
          BY <4>1, <4>2, <4>3
      <3>2. request' = [request EXCEPT ![r] = [s EXCEPT !.at = "save"]] \/ request' = [request EXCEPT ![r] = Idle]
        BY <1>4 DEF Verify
      <3>3. [s EXCEPT !.at = "save"].write \in Rows /\ Idle.write \in Rows
        BY <1>0 DEF Rows, OrNone
      <3>5. request' \in [Requests -> [at : {"idle", "register", "verify", "save", "clear", "commit"},
                                       kind : {"create", "edit", "confirm", "reset"},
                                       name : Names \union {EmailSender}, operator : BOOLEAN, write : Rows]]
        <4>1. CASE request' = [request EXCEPT ![r] = [s EXCEPT !.at = "save"]]
          BY <1>0, <4>1 DEF SettingsInv, TypeOK
        <4>2. CASE request' = [request EXCEPT ![r] = Idle]
          BY <3>3, <4>2 DEF SettingsInv, TypeOK
        <4> QED BY <3>2, <4>1, <4>2
      <3> QED BY <1>4, <3>1, <3>5 DEF SettingsInv, TypeOK, Verify
    <2>2. ActiveWasApproved' /\ PendingIsRegistered'
      BY <1>0, <1>4
         DEF SettingsInv, TypeOK, ActiveWasApproved, PendingIsRegistered, Verify, Approve, Exists, OrNone
    <2>3. ASSUME NEW q \in Requests PROVE WriteIsApproved(request[q])'
      BY <1>0, <1>4 DEF SettingsInv, TypeOK, WriteIsApproved, Verify, Approve, OrNone
    <2> QED BY <2>1, <2>2, <2>3 DEF SettingsInv
  <1>5. CASE SaveConfirmed(r)
    <2>1. TypeOK'
      BY <1>0, <1>5 DEF SettingsInv, TypeOK, SaveConfirmed, Confirmed, Rows, OrNone
    <2>2. ActiveWasApproved'
      BY <1>0, <1>5
         DEF SettingsInv, TypeOK, ActiveWasApproved, WriteIsApproved, SaveConfirmed, Confirmed, Rows,
             Exists, OrNone
    <2>3. PendingIsRegistered'
      BY <1>0, <1>5
         DEF SettingsInv, TypeOK, PendingIsRegistered, SaveConfirmed, Confirmed, Rows, OrNone
    <2>4. ASSUME NEW q \in Requests PROVE WriteIsApproved(request[q])'
      <3>1. CASE q = r
        BY <1>5, <3>1 DEF SettingsInv, TypeOK, WriteIsApproved, SaveConfirmed
      <3>2. CASE q # r
        BY <1>0, <1>5, <3>2 DEF SettingsInv, TypeOK, WriteIsApproved, SaveConfirmed, OrNone
      <3> QED BY <3>1, <3>2
    <2> QED BY <2>1, <2>2, <2>3, <2>4 DEF SettingsInv
  <1>6. CASE Clear(r)
    <2>1. TypeOK'
      BY <1>0, <1>6 DEF SettingsInv, TypeOK, Clear
    <2>2. ActiveWasApproved' /\ PendingIsRegistered'
      BY <1>6 DEF SettingsInv, ActiveWasApproved, PendingIsRegistered, Clear, Exists, OrNone
    <2>3. ASSUME NEW q \in Requests PROVE WriteIsApproved(request[q])'
      BY <1>0, <1>6 DEF SettingsInv, TypeOK, WriteIsApproved, Clear, OrNone
    <2> QED BY <2>1, <2>2, <2>3 DEF SettingsInv
  <1>7. CASE Commit(r)
    <2>1. TypeOK'
      BY <1>0, <1>7 DEF SettingsInv, TypeOK, Commit, NeedsAction, Rows, OrNone
    <2>2. ActiveWasApproved'
      BY <1>0, <1>7 DEF SettingsInv, TypeOK, ActiveWasApproved, Commit, Rows, Exists
    <2>3. PendingIsRegistered'
      BY <1>0, <1>7 DEF SettingsInv, TypeOK, PendingIsRegistered, Commit, Rows, OrNone
    <2>4. ASSUME NEW q \in Requests PROVE WriteIsApproved(request[q])'
      <3>1. CASE q = r
        BY <1>7, <3>1 DEF SettingsInv, TypeOK, WriteIsApproved, Commit
      <3>2. CASE q # r
        BY <1>0, <1>7, <3>2 DEF SettingsInv, TypeOK, WriteIsApproved, Commit, OrNone
      <3> QED BY <3>1, <3>2
    <2> QED BY <2>1, <2>2, <2>3, <2>4 DEF SettingsInv
  <1>8. CASE SesFails(r)
    <2>1. TypeOK'
      BY <1>8, SettingsAssumption DEF SettingsInv, TypeOK, SesFails, Rows, OrNone
    <2>2. ActiveWasApproved' /\ PendingIsRegistered'
      BY <1>8 DEF SettingsInv, ActiveWasApproved, PendingIsRegistered, SesFails, Exists, OrNone
    <2>3. ASSUME NEW q \in Requests PROVE WriteIsApproved(request[q])'
      <3>1. CASE q = r
        BY <1>8, <3>1 DEF SettingsInv, TypeOK, WriteIsApproved, SesFails
      <3>2. CASE q # r
        BY <1>0, <1>8, <3>2 DEF SettingsInv, TypeOK, WriteIsApproved, SesFails, OrNone
      <3> QED BY <3>1, <3>2
    <2> QED BY <2>1, <2>2, <2>3 DEF SettingsInv
  <1> QED BY <1>1, <1>2, <1>3, <1>4, <1>5, <1>6, <1>7, <1>8 DEF Step

\* The invariant is kept by every step of the system.
LEMMA NextSettings == SettingsInv /\ [Next]_vars => SettingsInv'
  <1> SUFFICES ASSUME SettingsInv, [Next]_vars PROVE SettingsInv'
    OBVIOUS
  <1>1. ASSUME NEW n \in Names, CreateDefault(n) PROVE SettingsInv'
    <2>1. TypeOK'
      BY <1>1, SettingsAssumption DEF SettingsInv, TypeOK, CreateDefault, Rows, OrNone
    <2>2. ActiveWasApproved'
      BY <1>1, SettingsAssumption DEF SettingsInv, TypeOK, ActiveWasApproved, CreateDefault, Exists
    <2>3. PendingIsRegistered'
      BY <1>1 DEF SettingsInv, TypeOK, PendingIsRegistered, CreateDefault, OrNone
    <2>4. ASSUME NEW q \in Requests PROVE WriteIsApproved(request[q])'
      BY <1>1 DEF SettingsInv, TypeOK, WriteIsApproved, CreateDefault, OrNone
    <2> QED BY <2>1, <2>2, <2>3, <2>4 DEF SettingsInv
  <1>2. ASSUME NEW r \in Requests, NEW n \in Names, NEW operator \in BOOLEAN, Confirm(r, n, operator)
        PROVE  SettingsInv'
    <2>1. TypeOK'
      <3>0. row[n] \in Rows
        BY DEF SettingsInv, TypeOK
      <3>1. [row[n] EXCEPT !.value = row[n].pending, !.pending = NoValue] \in Rows
        BY <3>0 DEF Rows, OrNone
      <3> QED BY <1>2, <3>1 DEF SettingsInv, TypeOK, Confirm, Become
    <2>2. ActiveWasApproved' /\ PendingIsRegistered'
      BY <1>2 DEF SettingsInv, ActiveWasApproved, PendingIsRegistered, Confirm, Exists, OrNone
    <2>3. ASSUME NEW q \in Requests PROVE WriteIsApproved(request[q])'
      BY <1>2 DEF SettingsInv, TypeOK, WriteIsApproved, Confirm, Become, Rows, OrNone
    <2> QED BY <2>1, <2>2, <2>3 DEF SettingsInv
  <1>3. ASSUME NEW r \in Requests, NEW n \in Names, Reset(r, n) PROVE SettingsInv'
    <2>1. TypeOK'
      <3>0. row[n] \in Rows
        BY DEF SettingsInv, TypeOK
      <3>1. [row[n] EXCEPT !.pending = NoValue] \in Rows
        BY <3>0 DEF Rows, OrNone
      <3> QED BY <1>3, <3>1 DEF SettingsInv, TypeOK, Reset, Become
    <2>2. ActiveWasApproved' /\ PendingIsRegistered'
      BY <1>3 DEF SettingsInv, ActiveWasApproved, PendingIsRegistered, Reset, Exists, OrNone
    <2>3. ASSUME NEW q \in Requests PROVE WriteIsApproved(request[q])'
      BY <1>3 DEF SettingsInv, TypeOK, ActiveWasApproved, WriteIsApproved, Reset, Become, Rows, OrNone, Exists
    <2> QED BY <2>1, <2>2, <2>3 DEF SettingsInv
  <1>4. ASSUME NEW x \in Values, OwnerVerifies(x) PROVE SettingsInv'
    BY <1>4 DEF SettingsInv, TypeOK, ActiveWasApproved, PendingIsRegistered, WriteIsApproved,
                OwnerVerifies, Exists, OrNone
  <1>6. ASSUME NEW n \in Names PROVE Wanted[n] \subseteq Values
    BY SettingsAssumption
  <1>5. CASE UNCHANGED vars
    BY <1>5 DEF vars, SettingsInv, TypeOK, ActiveWasApproved, PendingIsRegistered, WriteIsApproved,
                Exists, OrNone
  <1> QED
    BY <1>1, <1>2, <1>3, <1>4, <1>5, <1>6, EditKeepsInv, StepKeepsInv DEF Next

\* What is written back to a row is always approved and registered.
THEOREM SettingsInvariant == Spec => []SettingsInv
  BY InitSettings, NextSettings, PTL DEF Spec

\* The active value of every setting was approved, and the address of a pending
\* sender is known to SES (rest/project.py:272-291, 426-471), with any number of
\* requests that overlap in any way and calls of SES that fail.
THEOREM SettingsStayRight == Spec => []SettingsAreRight
  <1>1. SettingsInv => SettingsAreRight
    BY DEF SettingsInv, SettingsAreRight
  <1> QED BY <1>1, SettingsInvariant, PTL

-----------------------------------------------------------------------------
(* Roles *)

\* A sequence, one element more and another sequence
LEMMA Joined ==
  ASSUME NEW S, NEW p \in Seq(S), NEW d \in S, NEW l \in Seq(S)
  PROVE  /\ p \o <<d>> \in Seq(S) /\ Len(p \o <<d>>) = Len(p) + 1
         /\ \A k \in 1..Len(p) : (p \o <<d>>)[k] = p[k]
         /\ (p \o <<d>>)[Len(p) + 1] = d
         /\ p \o <<d>> \o l \in Seq(S) /\ Len(p \o <<d>> \o l) = Len(p) + 1 + Len(l)
         /\ \A k \in 1..Len(p) : (p \o <<d>> \o l)[k] = p[k]
         /\ (p \o <<d>> \o l)[Len(p) + 1] = d
         /\ \A k \in 1..Len(l) : (p \o <<d>> \o l)[Len(p) + 1 + k] = l[k]
  <1>1. PICK q : q = Append(p, d)
    OBVIOUS
  <1>2. q = p \o <<d>>
    BY <1>1, AppendIsConcat
  <1>3. /\ q \in Seq(S) /\ Len(q) = Len(p) + 1
        /\ \A k \in 1..Len(p) : q[k] = p[k]
        /\ q[Len(p) + 1] = d
    BY <1>1, AppendProperties
  <1>4. PICK s : s = q \o l
    OBVIOUS
  <1>5. /\ s \in Seq(S) /\ Len(s) = Len(q) + Len(l)
        /\ \A k \in 1..Len(q) + Len(l) : s[k] = IF k <= Len(q) THEN q[k] ELSE l[k - Len(q)]
    <2>1. /\ q \o l \in Seq(S) /\ Len(q \o l) = Len(q) + Len(l)
          /\ \A k \in 1..Len(q) + Len(l) : (q \o l)[k] = IF k <= Len(q) THEN q[k] ELSE l[k - Len(q)]
      BY <1>3, ConcatProperties
    <2> QED BY <1>4, <2>1
  <1>6. Len(p) \in Nat /\ Len(q) \in Nat /\ Len(l) \in Nat
    BY <1>3
  <1>7. (\A k \in 1..Len(p) : s[k] = p[k]) /\ s[Len(p) + 1] = d
    BY <1>3, <1>5, <1>6
  <1>8. ASSUME NEW k \in 1..Len(l) PROVE s[Len(p) + 1 + k] = l[k]
    <2>1. /\ Len(p) + 1 + k \in 1..Len(q) + Len(l) /\ ~(Len(p) + 1 + k <= Len(q))
          /\ Len(p) + 1 + k - Len(q) = k
      BY <1>3, <1>6
    <2> QED BY <2>1, <1>5
  <1> QED BY <1>2, <1>3, <1>4, <1>5, <1>7, <1>8

\* The characters of a key, the delimiter and a label, one after the other
LEMMA NameChars ==
  ASSUME NEW p \in Keys, NEW l \in Seq(Chars)
  PROVE  LET s == InternalName(p, l) IN
         /\ p \in Seq(Chars) /\ s \in Seq(Chars) /\ Len(s) = Len(p) + 1 + Len(l)
         /\ \A k \in 1..Len(p) : s[k] = p[k] /\ p[k] # Delimiter
         /\ s[Len(p) + 1] = Delimiter
         /\ \A k \in 1..Len(l) : s[Len(p) + 1 + k] = l[k]
  <1>1. p \in Seq(Chars) /\ Delimiter \in Chars /\ \A k \in 1..Len(p) : p[k] # Delimiter
    BY RolesAssumption DEF Contains
  <1>2. InternalName(p, l) = p \o <<Delimiter>> \o l
    BY DEF InternalName
  <1>3. /\ p \o <<Delimiter>> \o l \in Seq(Chars)
        /\ Len(p \o <<Delimiter>> \o l) = Len(p) + 1 + Len(l)
        /\ \A k \in 1..Len(p) : (p \o <<Delimiter>> \o l)[k] = p[k]
        /\ (p \o <<Delimiter>> \o l)[Len(p) + 1] = Delimiter
        /\ \A k \in 1..Len(l) : (p \o <<Delimiter>> \o l)[Len(p) + 1 + k] = l[k]
    BY <1>1, Joined
  <1> QED BY <1>1, <1>2, <1>3

\* The part of a role's name before its first delimiter is the key it was made
\* with.
LEMMA KeyOfName ==
  ASSUME NEW p \in Keys, NEW l \in Seq(Chars)
  PROVE  /\ Cut(InternalName(p, l)) = Len(p) /\ ProjectOf(InternalName(p, l)) = p
         /\ Contains(InternalName(p, l), Delimiter)
  <1>0. PICK s : s = InternalName(p, l)
    OBVIOUS
  <1>1. /\ p \in Seq(Chars) /\ s \in Seq(Chars) /\ Len(s) = Len(p) + 1 + Len(l)
        /\ \A k \in 1..Len(p) : s[k] = p[k] /\ p[k] # Delimiter
        /\ s[Len(p) + 1] = Delimiter
    BY <1>0, NameChars
  <1>2. Len(p) \in Nat /\ Len(s) \in Nat /\ Len(l) \in Nat
    BY <1>1
  <1>3. ASSUME NEW n \in 0..Len(s), \A k \in 1..n : s[k] # Delimiter, n = Len(s) \/ s[n + 1] = Delimiter
        PROVE  n = Len(p)
    <2>1. CASE n < Len(p)
      <3>1. n + 1 \in 1..Len(p) /\ n # Len(s)
        BY <1>1, <1>2, <2>1
      <3> QED BY <1>1, <1>3, <3>1
    <2>2. CASE n > Len(p)
      <3>1. Len(p) + 1 \in 1..n
        BY <1>2, <2>2
      <3> QED BY <1>1, <1>3, <3>1
    <2> QED BY <2>1, <2>2, <1>2
  <1>4. Cut(s) = Len(p)
    <2>1. Len(p) \in 0..Len(s)
      BY <1>1, <1>2
    <2> QED BY <1>1, <1>3, <2>1 DEF Cut
  <1>5. SubSeq(s, 1, Len(p)) = p
    <2>1. SubSeq(s, 1, Len(p)) \in Seq(Chars) /\ Len(SubSeq(s, 1, Len(p))) = Len(p)
      BY <1>1, <1>2
    <2>2. \A k \in 1..Len(p) : SubSeq(s, 1, Len(p))[k] = p[k]
      BY <1>1, <1>2
    <2> QED BY <2>1, <2>2, <1>1
  <1>6. Contains(s, Delimiter)
    BY <1>1, <1>2 DEF Contains
  <1> QED BY <1>0, <1>4, <1>5, <1>6 DEF ProjectOf

\* A label without a delimiter is shown as it was given.
LEMMA LabelOfName ==
  ASSUME NEW p \in Keys, NEW l \in Seq(Chars), ~Contains(l, Delimiter)
  PROVE  Shown(InternalName(p, l)) = l
  <1>0. PICK s : s = InternalName(p, l)
    OBVIOUS
  <1>1. /\ p \in Seq(Chars) /\ s \in Seq(Chars) /\ Len(s) = Len(p) + 1 + Len(l)
        /\ \A k \in 1..Len(l) : s[Len(p) + 1 + k] = l[k]
    BY <1>0, NameChars
  <1>2. Cut(s) = Len(p)
    BY <1>0, KeyOfName
  <1>3. Len(p) \in Nat /\ Len(s) \in Nat /\ Len(l) \in Nat
    BY <1>1
  <1>4. PICK rest : rest = SubSeq(s, Cut(s) + 2, Len(s))
    OBVIOUS
  <1>5. rest \in Seq(Chars) /\ Len(rest) = Len(l)
    BY <1>1, <1>2, <1>3, <1>4
  <1>6. ASSUME NEW k \in 1..Len(l) PROVE rest[k] = l[k]
    <2>1. rest[k] = s[Len(p) + 1 + k]
      BY <1>1, <1>2, <1>3, <1>4
    <2> QED BY <2>1, <1>1
  <1>7. rest = l
    BY <1>5, <1>6
  <1>8. \A k \in 1..Len(l) : l[k] # Delimiter
    BY DEF Contains
  <1>9. Cut(l) = Len(l)
    <2>1. Len(l) \in 0..Len(l)
      BY <1>3
    <2>2. ASSUME NEW n \in 0..Len(l), n = Len(l) \/ l[n + 1] = Delimiter PROVE n = Len(l)
      <3>1. n # Len(l) => n + 1 \in 1..Len(l)
        BY <1>3
      <3> QED BY <3>1, <2>2, <1>8
    <2> QED BY <2>1, <2>2, <1>8 DEF Cut
  <1>10. SubSeq(l, 1, Len(l)) = l
    BY <1>3
  <1> QED BY <1>0, <1>4, <1>7, <1>9, <1>10 DEF Shown

\* The prefix of the list of a project is that of its roles alone.
LEMMA PrefixOfName ==
  ASSUME NEW p \in Keys, NEW h \in Keys, NEW l \in Seq(Chars)
  PROVE  IsPrefix(p \o <<Delimiter>>, InternalName(h, l)) <=> p = h
  <1>0. PICK s : s = InternalName(h, l)
    OBVIOUS
  <1>1. /\ h \in Seq(Chars) /\ s \in Seq(Chars) /\ Len(s) = Len(h) + 1 + Len(l)
        /\ \A k \in 1..Len(h) : s[k] = h[k] /\ h[k] # Delimiter
        /\ s[Len(h) + 1] = Delimiter
    BY <1>0, NameChars
  <1>2. PICK q : q = p \o <<Delimiter>>
    OBVIOUS
  <1>3. /\ p \in Seq(Chars) /\ q \in Seq(Chars) /\ Len(q) = Len(p) + 1
        /\ \A k \in 1..Len(p) : q[k] = p[k] /\ p[k] # Delimiter
        /\ q[Len(p) + 1] = Delimiter
    <2>1. p \in Seq(Chars) /\ Delimiter \in Chars /\ \A k \in 1..Len(p) : p[k] # Delimiter
      BY RolesAssumption DEF Contains
    <2> QED BY <1>2, <2>1, Joined
  <1>4. Len(p) \in Nat /\ Len(h) \in Nat /\ Len(l) \in Nat
    BY <1>1, <1>3
  <1>5. ASSUME p = h PROVE IsPrefix(q, s)
    <2>1. Len(q) <= Len(s) /\ Len(q) \in Nat
      BY <1>1, <1>3, <1>4, <1>5
    <2>2. \A k \in 1..Len(q) : q[k] = s[k]
      BY <1>1, <1>3, <1>4, <1>5
    <2> QED BY <2>1, <2>2, <1>1, <1>3 DEF IsPrefix
  <1>6. ASSUME IsPrefix(q, s) PROVE p = h
    <2>1. Len(q) <= Len(s) /\ SubSeq(q, 1, Len(q)) = SubSeq(s, 1, Len(q))
      BY <1>6 DEF IsPrefix
    <2>2. ASSUME NEW k \in 1..Len(q) PROVE q[k] = s[k]
      <3>1. SubSeq(q, 1, Len(q))[k] = q[k] /\ SubSeq(s, 1, Len(q))[k] = s[k]
        BY <1>1, <1>3, <1>4, <2>1
      <3> QED BY <3>1, <2>1
    <2>3. ~(Len(p) < Len(h))
      <3>1. SUFFICES ASSUME Len(p) < Len(h) PROVE FALSE
        OBVIOUS
      <3>2. Len(p) + 1 \in 1..Len(q) /\ Len(p) + 1 \in 1..Len(h)
        BY <3>1, <1>3, <1>4
      <3> QED BY <3>2, <1>1, <1>3, <2>2
    <2>4. ~(Len(h) < Len(p))
      <3>1. SUFFICES ASSUME Len(h) < Len(p) PROVE FALSE
        OBVIOUS
      <3>2. Len(h) + 1 \in 1..Len(q) /\ Len(h) + 1 \in 1..Len(p)
        BY <3>1, <1>3, <1>4
      <3> QED BY <3>2, <1>1, <1>3, <2>2
    <2>5. Len(p) = Len(h)
      BY <1>4, <2>3, <2>4
    <2>6. \A k \in 1..Len(p) : p[k] = h[k]
      BY <1>1, <1>3, <1>4, <2>2, <2>5
    <2> QED BY <2>5, <2>6, <1>1, <1>3
  <1> QED BY <1>0, <1>2, <1>5, <1>6

\* A role's name says for which project it was created.
LEMMA NameOfRole ==
  ASSUME RolesInv, NEW i \in Live
  PROVE  /\ i \in Ids /\ home[i] \in Keys /\ ProjectOf(role[i]) = home[i]
         /\ Contains(role[i], Delimiter)
  <1>1. i \in Ids /\ home[i] \in Keys /\ given[i] \in Labels /\ role[i] = InternalName(home[i], given[i])
    BY DEF RolesInv, Live
  <1>2. given[i] \in Seq(Chars)
    BY <1>1, RolesAssumption
  <1> QED BY <1>1, <1>2, KeyOfName

LEMMA RolesInitInv == RolesInit => RolesInv
  BY RolesAssumption DEF RolesInit, RolesInv, RolesTypeOK, NoName, Nobody

LEMMA RolesStepInv == ASSUME RolesInv, [RolesNext]_rolesVars PROVE RolesInv'
  <1> USE DEF RolesInv, RolesTypeOK
  <1>1. ASSUME NEW p \in Keys, NEW l \in Labels, Create(p, l) PROVE RolesInv'
    <2>1. PICK i \in Ids : /\ \A j \in Ids : j < i <=> home[j] # NoName
                           /\ role' = [role EXCEPT ![i] = InternalName(p, l)]
                           /\ home' = [home EXCEPT ![i] = p] /\ given' = [given EXCEPT ![i] = l]
      BY <1>1 DEF Create
    <2>2. home[i] = NoName
      BY <2>1, RolesAssumption
    <2>3. InternalName(p, l) \in Seq(Chars) /\ NoName \notin Keys
      BY RolesAssumption DEF InternalName, NoName
    <2>4. UNCHANGED <<owner, selected, call>>
      BY <1>1 DEF Create
    <2>5. RolesTypeOK'
      BY <2>1, <2>3, <2>4
    <2>6. \A j \in Ids : role'[j] # NoName =>
            home'[j] \in Keys /\ given'[j] \in Labels /\ role'[j] = InternalName(home'[j], given'[j])
      BY <2>1
    <2>7. \A r \in Calls : call[r] # NoCall => call[r].id # i
      BY <2>2, <2>3
    <2>8. \A r \in Calls : call[r] # NoCall => home'[call[r].id] = home[call[r].id]
      BY <2>1, <2>7
    <2> QED BY <2>4, <2>5, <2>6, <2>8
  <1>2. ASSUME NEW r \in Calls, NEW u \in Persons, NEW i \in Ids, NEW k \in {"update", "delete"},
               NEW l \in Labels \union {NoName}, k = "update" => l \in Labels, ReadRole(r, u, i, k, l)
        PROVE RolesInv'
    <2>1. i \in Live
      BY <1>2 DEF ReadRole, Reachable
    <2>2. home[i] \in Keys /\ ProjectOf(role[i]) = home[i]
      BY <2>1, NameOfRole
    <2>3. /\ call' = [call EXCEPT ![r] = [kind |-> k, id |-> i, label |-> l,
                                          name |-> InternalName(home[i], l)]]
          /\ UNCHANGED <<owner, role, selected, home, given>>
      BY <1>2, <2>2 DEF ReadRole
    <2> QED BY <2>2, <2>3, <1>2
  <1>3. ASSUME NEW r \in Calls, Save(r) PROVE RolesInv'
    <2>1. call[r] # NoCall /\ call[r].kind = "update"
      BY <1>3 DEF Save, NoCall
    <2>2. /\ call[r].id \in Ids /\ home[call[r].id] \in Keys /\ call[r].label \in Labels
          /\ call[r].name = InternalName(home[call[r].id], call[r].label)
      BY <2>1
    <2>3. call[r].name \in Seq(Chars)
      BY <2>2, RolesAssumption DEF InternalName
    <2>4. call' = [call EXCEPT ![r] = NoCall] /\ UNCHANGED <<owner, selected, home>>
      BY <1>3 DEF Save
    <2>5. \/ role' = [role EXCEPT ![call[r].id] = call[r].name]
             /\ given' = [given EXCEPT ![call[r].id] = call[r].label]
          \/ UNCHANGED <<role, given>>
      BY <1>3 DEF Save
    <2>6. \A i \in Ids : role'[i] # NoName =>
            home'[i] \in Keys /\ given'[i] \in Labels /\ role'[i] = InternalName(home'[i], given'[i])
      BY <2>2, <2>4, <2>5
    <2>7. role' \in [Ids -> Seq(Chars)] /\ given' \in [Ids -> Labels \union {NoName}]
      BY <2>2, <2>3, <2>5
    <2>8. \A q \in Calls : call'[q] = NoCall \/ call'[q] = call[q]
      BY <2>4
    <2>9. DOMAIN call' = Calls
      BY <2>4
    <2> QED BY <2>4, <2>6, <2>7, <2>8, <2>9
  <1>4. ASSUME NEW r \in Calls, Delete(r) PROVE RolesInv'
    <2>1. NoName \in Seq(Chars)
      BY DEF NoName
    <2> QED BY <1>4, <2>1 DEF Delete
  <1>5. ASSUME NEW u \in Persons, EndSession(u) \/ \E p \in Keys : SelectProject(u, p) PROVE RolesInv'
    BY <1>5 DEF EndSession, SelectProject
  <1>6. ASSUME NEW u \in Persons, DeleteProject(u) PROVE RolesInv'
    BY <1>6 DEF DeleteProject
  <1>7. ASSUME UNCHANGED rolesVars PROVE RolesInv'
    BY <1>7 DEF rolesVars
  <1>8. NoName \in Labels \union {NoName}
    OBVIOUS
  <1> QED BY <1>1, <1>2, <1>3, <1>4, <1>5, <1>6, <1>7, <1>8 DEF RolesNext

LEMMA RolesFound == RolesInv => OwnersFindTheirRoles
  <1> SUFFICES ASSUME RolesInv, NEW u \in Persons \ Admins, NEW p \in Keys, owner[p] = u
               PROVE  /\ ProjectFor(u, p) = p => Listed(u, p) = {i \in Live : home[i] = p}
                      /\ \A i \in {j \in Live : home[j] = p} :
                           Reachable(u, i) /\ (Contains(given[i], Delimiter) \/ Shown(role[i]) = given[i])
                      /\ \A v \in Persons \ (Admins \union {u}) :
                           \A i \in {j \in Live : home[j] = p} : ~Reachable(v, i)
    BY DEF OwnersFindTheirRoles
  <1>1. p # NoName /\ There(p)
    BY RolesAssumption DEF There, NoName, Nobody
  <1>2. \A i \in Live : IsPrefix(p \o <<Delimiter>>, role[i]) <=> home[i] = p
    <2> TAKE i \in Live
    <2>1. i \in Ids /\ home[i] \in Keys /\ given[i] \in Labels /\ role[i] = InternalName(home[i], given[i])
      BY DEF RolesInv, Live
    <2>2. given[i] \in Seq(Chars)
      BY <2>1, RolesAssumption
    <2> QED BY <2>1, <2>2, PrefixOfName
  <1>3. OfProject(p) = {i \in Live : home[i] = p}
    BY <1>2 DEF OfProject
  <1>4. ProjectFor(u, p) = p => Listed(u, p) = {i \in Live : home[i] = p}
    BY <1>1, <1>3 DEF Listed
  <1>5. ASSUME NEW i \in Live, home[i] = p PROVE Reachable(u, i)
    BY <1>1, <1>5, NameOfRole DEF Reachable
  <1>6. ASSUME NEW v \in Persons \ (Admins \union {u}), NEW i \in Live, home[i] = p PROVE ~Reachable(v, i)
    BY <1>6, NameOfRole DEF Reachable
  <1>7. ASSUME NEW i \in Live, ~Contains(given[i], Delimiter) PROVE Shown(role[i]) = given[i]
    <2>1. i \in Ids /\ home[i] \in Keys /\ given[i] \in Labels /\ role[i] = InternalName(home[i], given[i])
      BY DEF RolesInv, Live
    <2>2. given[i] \in Seq(Chars)
      BY <2>1, RolesAssumption
    <2> QED BY <2>1, <2>2, <1>7, LabelOfName
  <1> QED BY <1>4, <1>5, <1>6, <1>7

\* The owner of a project finds the roles created for it, and no others, in its
\* list (project_role.py:69-97), each under its label unless that has a
\* delimiter, for any keys, one a prefix of the other or not, any labels and any
\* number of requests.
THEOREM RolesAreFound == RolesSpec => []OwnersFindTheirRoles
  <1>1. RolesInit => RolesInv
    BY RolesInitInv
  <1>2. RolesInv /\ [RolesNext]_rolesVars => RolesInv'
    BY RolesStepInv
  <1>3. RolesInv => OwnersFindTheirRoles
    BY RolesFound
  <1> QED BY <1>1, <1>2, <1>3, PTL DEF RolesSpec

-----------------------------------------------------------------------------
(* Members *)

\* Whoever get_project_members and a filter of the table find
Fitting(p, h, f) ==
  /\ p \in People /\ <<Ours, p>> \in member /\ p \notin gone /\ (h => p \notin grouped)
  /\ f[1] = "full_name" => name[p] = f[2]
  /\ f[1] = "state" => HasState(p, f[2])

\* What a person finds of himself in the table: whoever was left alone fits now
\* if he did when it was opened, and is in its rows or still to be read; of the
\* rows only the renamed are after the cursor again.
OfTable(p) ==
  /\ p \notin touched => (p \in fit <=> Fitting(p, table.hide, table.filter))
  /\ p \in fit \ touched => p \in table.rows \/ (~table.end /\ After(p, table.cursor))
  /\ p \in table.rows \ renamed => ~After(p, table.cursor)
  /\ p \in table.rows => p \in fit \union touched
  /\ p \in table.twice => p \in renamed

OfFile(p) ==
  p \notin touched => (p \in file.rows <=> Fitting(p, FALSE, table.filter))

TableInv ==
  /\ MembersTypeOK
  /\ ~table.open => table = Closed /\ file = NoFile
  /\ table.open => \A p \in People : OfTable(p)
  /\ file.step # "none" => file.filter = table.filter
  /\ file.step = "done" => \A p \in People : OfFile(p)

LEMMA WhoFits ==
  ASSUME NEW f, NEW h, NEW p
  PROVE  /\ p \in TableFilter(ProjectMembers(h), f) <=> Fitting(p, h, f)
         /\ p \in ExportFilter(ProjectMembers(h), f) <=> Fitting(p, h, f)
  BY DEF TableFilter, ExportFilter, ProjectMembers, Fitting

LEMMA FiltersPaired == \A f \in Filters : f = <<f[1], f[2]>>
  BY DEF Filters, NoFilter

\* The order of the table is that of pairs of naturals.
LEMMA OrderOfRows ==
  ASSUME MembersTypeOK
  PROVE  \A p, q, r \in People :
           /\ ~(Before(p, q) /\ Before(q, p)) /\ ~Before(p, p)
           /\ Before(p, q) /\ Before(q, r) => Before(p, r)
           /\ ~Before(p, q) /\ p # q => Before(q, p)
  <1>1. \A p \in People : p \in Nat /\ name[p] \in Nat
    BY MembersAssumption DEF MembersTypeOK
  <1> QED BY <1>1 DEF Before

\* A nonempty set of naturals has a least element.
LEMMA LeastExists ==
  ASSUME NEW T, T \subseteq Nat, T # {}
  PROVE  \E i \in T : \A j \in T : i <= j
  <1> DEFINE less == OpToRel(<, Nat)
  <1>1. less = {ss \in Nat \X Nat : ss[1] < ss[2]}
    BY DEF OpToRel
  <1>2. IsWellFoundedOn(less, Nat)
    BY NatLessThanWellFounded
  <1> HIDE DEF less
  <1>3. \E i \in T : \A j \in T : <<j, i>> \notin less
    BY <1>2, WFMin
  <1>4. \A i, j \in T : <<j, i>> \notin less => i <= j
    BY <1>1
  <1> QED BY <1>3, <1>4

\* A page that has a row has a last one: that with the fewest rows after it.
LEMMA LastOfPage ==
  ASSUME MembersTypeOK, NEW S, S \subseteq People, S # {}
  PROVE  \E m \in S : \A q \in S : ~Before(m, q)
  <1> DEFINE later(p) == {q \in S : Before(p, q)}
             sizes == {Cardinality(later(p)) : p \in S}
  <1>1. \A p \in S : IsFiniteSet(later(p))
    BY FS_Subset, MembersAssumption
  <1>2. \A p \in S : Cardinality(later(p)) \in Nat
    BY <1>1, FS_CardinalityType
  <1>3. PICK n \in sizes : \A k \in sizes : n <= k
    <2>1. sizes \subseteq Nat /\ sizes # {}
      BY <1>2
    <2> HIDE DEF sizes
    <2> QED BY <2>1, LeastExists
  <1>4. PICK m \in S : n = Cardinality(later(m))
    BY <1>3
  <1>5. ASSUME NEW q \in S, Before(m, q) PROVE FALSE
    <2>1. later(q) \subseteq later(m) /\ q \in later(m) /\ q \notin later(q)
      BY <1>5, OrderOfRows
    <2>2. Cardinality(later(m)) <= Cardinality(later(q))
      BY <1>3, <1>4
    <2> HIDE DEF later
    <2>3. Cardinality(later(q)) <= Cardinality(later(m))
          /\ (Cardinality(later(q)) = Cardinality(later(m)) => later(q) = later(m))
      BY <1>1, <2>1, FS_Subset
    <2>4. later(q) = later(m)
      BY <1>2, <2>2, <2>3
    <2> QED BY <2>1, <2>4
  <1> QED BY <1>5

\* What is left out of a page is after all of it.
LEMMA PageComesFirst ==
  ASSUME MembersTypeOK, NEW left, left \subseteq People
  PROVE  Page(left) \subseteq left /\ \A p \in Page(left), q \in left \ Page(left) : Before(p, q)
  <1>1. ASSUME NEW p \in Page(left), NEW q \in left \ Page(left), ~Before(p, q) PROVE FALSE
    <2>1. p \in left /\ q \in left /\ p # q
      BY <1>1 DEF Page
    <2>2. Before(q, p)
      BY <1>1, <2>1, OrderOfRows
    <2> DEFINE A == {r \in left : Before(r, q)}
               B == {r \in left : Before(r, p)}
    <2>3. A \subseteq B
      BY <2>1, <2>2, OrderOfRows
    <2>4. IsFiniteSet(A) /\ IsFiniteSet(B)
      BY FS_Subset, MembersAssumption
    <2>5. Cardinality(B) < PageSize /\ ~(Cardinality(A) < PageSize)
      BY <1>1 DEF Page
    <2> HIDE DEF A, B
    <2>6. Cardinality(A) <= Cardinality(B) /\ Cardinality(A) \in Nat /\ Cardinality(B) \in Nat
      BY <2>3, <2>4, FS_Subset, FS_CardinalityType
    <2> QED BY <2>5, <2>6, MembersAssumption
  <1> QED BY <1>1 DEF Page

LEMMA TableInitInv == MembersInit => TableInv
  BY DEF MembersInit, TableInv, MembersTypeOK, Closed, NoFile, NoFilter, Filters

LEMMA OpenInv ==
  ASSUME TableInv, NEW f \in Filters, NEW h \in BOOLEAN, OpenTable(f, h)
  PROVE  TableInv'
  <1>1. /\ table' = [Closed EXCEPT !.open = TRUE, !.filter = f, !.hide = h] /\ file' = NoFile
        /\ fit' = TableFilter(ProjectMembers(h), f) /\ touched' = {} /\ renamed' = {}
        /\ UNCHANGED <<member, state, name, gone, grouped>>
    BY DEF OpenTable
  <1>2. /\ table'.open = TRUE /\ table'.filter = f /\ table'.hide = h /\ table'.rows = {}
        /\ table'.twice = {} /\ table'.cursor = <<0, 0>> /\ table'.end = FALSE
    BY <1>1 DEF Closed
  <1>3. \A p \in People : p \in fit' <=> Fitting(p, h, f)
    BY <1>1, WhoFits
  <1>4. \A p \in People : Fitting(p, h, f)' <=> Fitting(p, h, f)
    BY <1>1 DEF Fitting, HasState
  <1>5. \A p \in People : After(p, <<0, 0>>)'
    BY <1>1, MembersAssumption DEF After, TableInv, MembersTypeOK
  <1>6. fit' \subseteq People
    BY <1>1, WhoFits DEF Fitting
  <1>7. MembersTypeOK'
    <2>1. table' \in [open : BOOLEAN, filter : Filters, hide : BOOLEAN, rows : SUBSET People,
                      twice : SUBSET People, cursor : Nat \X Nat, end : BOOLEAN]
      BY <1>1 DEF Closed
    <2>2. file' \in [step : {"none", "dialog", "done"}, filter : Filters, rows : SUBSET People]
      BY <1>1 DEF NoFile, NoFilter, Filters
    <2> QED BY <1>1, <1>6, <2>1, <2>2 DEF MembersTypeOK, TableInv
  <1>8. \A p \in People : OfTable(p)'
    BY <1>1, <1>2, <1>3, <1>4, <1>5 DEF OfTable
  <1>9. file'.step = "none"
    BY <1>1 DEF NoFile
  <1> QED BY <1>2, <1>7, <1>8, <1>9 DEF TableInv

LEMMA ScrollInv == ASSUME TableInv, Scroll PROVE TableInv'
  <1>1. PICK left : left = {p \in TableFilter(ProjectMembers(table.hide), table.filter) :
                              After(p, table.cursor)}
    OBVIOUS
  <1>2. PICK page : page = Page(left)
    OBVIOUS
  <1>0. PICK last : last = CHOOSE p \in page : \A q \in page : ~Before(p, q)
    OBVIOUS
  <1>3. PICK cursor : cursor = IF page = {} THEN table.cursor ELSE <<name[last], last>>
    OBVIOUS
  <1>4. /\ table.open /\ ~table.end
        /\ table' = [table EXCEPT !.rows = @ \union page,
                       !.twice = @ \union (page \intersect table.rows),
                       !.cursor = cursor, !.end = (page = left)]
        /\ UNCHANGED <<member, state, name, gone, grouped, file, fit, touched, renamed>>
    BY <1>0, <1>1, <1>2, <1>3 DEF Scroll
  <1> HIDE DEF Page
  <1>5. /\ MembersTypeOK /\ \A p \in People : OfTable(p)
        /\ table.rows \subseteq People /\ table.twice \subseteq People
        /\ table.cursor \in Nat \X Nat
    BY <1>4 DEF TableInv, MembersTypeOK
  <1>6. /\ left \subseteq People
        /\ \A p \in People : p \in left <=>
             Fitting(p, table.hide, table.filter) /\ After(p, table.cursor)
    BY <1>1, WhoFits DEF Fitting
  <1>7. page \subseteq left /\ \A p \in page, q \in left \ page : Before(p, q)
    BY <1>2, <1>5, <1>6, PageComesFirst
  <1>8. page # {} => \E m \in page : cursor = <<name[m], m>> /\ \A q \in page : ~Before(m, q)
    <2>1. ASSUME page # {} PROVE \E m \in page : \A q \in page : ~Before(m, q)
      BY <1>5, <1>6, <1>7, <2>1, LastOfPage
    <2> QED BY <1>0, <1>3, <2>1
  <1>9. \A p \in People : p \in Nat /\ name[p] \in Nat
    BY <1>5, MembersAssumption DEF MembersTypeOK
  <1>10. cursor \in Nat \X Nat
    <2>1. CASE page = {}
      BY <1>3, <1>5, <2>1
    <2>2. CASE page # {}
      <3>1. PICK m \in page : cursor = <<name[m], m>>
        BY <1>8, <2>2
      <3>2. m \in People
        BY <1>6, <1>7
      <3> QED BY <1>9, <3>1, <3>2
    <2> QED BY <2>1, <2>2
  <1>11. /\ table' \in [open : BOOLEAN, filter : Filters, hide : BOOLEAN, rows : SUBSET People,
                        twice : SUBSET People, cursor : Nat \X Nat, end : BOOLEAN]
         /\ table'.open = TRUE /\ table'.filter = table.filter /\ table'.hide = table.hide
         /\ table'.rows = table.rows \union page
         /\ table'.twice = table.twice \union (page \intersect table.rows)
         /\ table'.cursor = cursor /\ table'.end = (page = left)
    BY <1>4, <1>5, <1>6, <1>7, <1>10 DEF MembersTypeOK
  \* The cursor moves on: what is after the new one was after the old one ...
  <1>12. ASSUME NEW p \in People, After(p, cursor) PROVE After(p, table.cursor)
    <2>1. CASE page = {}
      BY <1>3, <1>12, <2>1
    <2>2. CASE page # {}
      <3>1. PICK m \in page : cursor = <<name[m], m>>
        BY <1>8, <2>2
      <3>2. m \in People /\ After(m, table.cursor)
        BY <1>6, <1>7
      <3> QED BY <1>5, <1>9, <1>12, <3>1, <3>2 DEF After
    <2> QED BY <2>1, <2>2
  \* ... no row of the page is after it, and all that are left are.
  <1>13. ASSUME NEW p \in page PROVE ~After(p, cursor)
    <2>1. PICK m \in page : cursor = <<name[m], m>> /\ \A q \in page : ~Before(m, q)
      BY <1>8, <1>13
    <2>2. m \in People /\ p \in People /\ ~Before(m, p)
      BY <1>6, <1>7, <2>1
    <2> QED BY <1>9, <2>1, <2>2 DEF After, Before
  <1>14. ASSUME NEW p \in left \ page PROVE After(p, cursor)
    <2>1. CASE page = {}
      BY <1>3, <1>6, <1>14, <2>1
    <2>2. CASE page # {}
      <3>1. PICK m \in page : cursor = <<name[m], m>>
        BY <1>8, <2>2
      <3>2. Before(m, p) /\ m \in People /\ p \in People
        BY <1>6, <1>7, <1>14, <3>1
      <3> QED BY <1>9, <3>1, <3>2 DEF After, Before
    <2> QED BY <2>1, <2>2
  <1>15. /\ \A p \in People : Fitting(p, table.hide, table.filter)' <=>
                              Fitting(p, table.hide, table.filter)
         /\ \A p \in People : Fitting(p, FALSE, table.filter)' <=>
                              Fitting(p, FALSE, table.filter)
    BY <1>4, <1>11 DEF Fitting, HasState
  <1>16. \A p \in People : After(p, table.cursor)' <=> After(p, cursor)
    BY <1>4, <1>11 DEF After
  <1>17. ASSUME NEW p \in People PROVE OfTable(p)'
    <2>1. OfTable(p)
      BY <1>5
    <2>2. p \in page => Fitting(p, table.hide, table.filter) /\ After(p, table.cursor) /\ p \in left
      BY <1>6, <1>7
    <2>3. p \in left => p \in page \/ (page # left /\ After(p, cursor))
      BY <1>14
    <2>4. p \in fit \ touched => p \in table.rows \/ p \in left
      BY <2>1, <1>6 DEF OfTable
    <2>5. p \in page => p \in fit \union touched
      BY <2>1, <2>2 DEF OfTable
    <2>6. p \in page \intersect table.rows => p \in renamed
      BY <2>1, <2>2 DEF OfTable
    <2>7. p \in (table.rows \union page) \ renamed => ~After(p, cursor)
      BY <2>1, <1>12, <1>13 DEF OfTable
    <2> QED BY <1>4, <1>11, <1>15, <1>16, <2>1, <2>3, <2>4, <2>5, <2>6, <2>7 DEF OfTable
  <1>18. MembersTypeOK'
    BY <1>4, <1>5, <1>11 DEF MembersTypeOK
  <1>19. file'.step = "done" => \A p \in People : OfFile(p)'
    BY <1>4, <1>15 DEF TableInv, OfFile
  <1>20. file'.step # "none" => file'.filter = table'.filter
    BY <1>4, <1>11 DEF TableInv
  <1> QED BY <1>11, <1>17, <1>18, <1>19, <1>20 DEF TableInv

LEMMA FileInv == ASSUME TableInv, OpenExport \/ Download PROVE TableInv'
  <1>1. /\ table.open = TRUE /\ table' = table
        /\ UNCHANGED <<member, state, name, gone, grouped, fit, touched, renamed>>
    BY DEF OpenExport, Download, TableInv, MembersTypeOK, NoFile
  <1>2. \A p \in People, h \in BOOLEAN :
          Fitting(p, h, table.filter)' <=> Fitting(p, h, table.filter)
    BY <1>1 DEF Fitting, HasState
  <1>3. \A p \in People : OfTable(p)'
    <2>1. table.hide \in BOOLEAN
      BY DEF TableInv, MembersTypeOK
    <2> TAKE p \in People
    <2>2. OfTable(p)
      BY <1>1 DEF TableInv
    <2>3. Fitting(p, table.hide, table.filter)' <=> Fitting(p, table.hide, table.filter)
      BY <1>1 DEF Fitting, HasState
    <2> QED BY <1>1, <2>2, <2>3 DEF OfTable, After
  <1>4. CASE OpenExport
    <2>1. file' = [NoFile EXCEPT !.step = "dialog", !.filter = table.filter]
      BY <1>4 DEF OpenExport
    <2>2. /\ file' \in [step : {"none", "dialog", "done"}, filter : Filters, rows : SUBSET People]
          /\ file'.step = "dialog" /\ file'.filter = table.filter
      BY <2>1 DEF NoFile, TableInv, MembersTypeOK
    <2>3. MembersTypeOK'
      BY <1>1, <2>2 DEF TableInv, MembersTypeOK
    <2> QED BY <1>1, <1>3, <2>2, <2>3 DEF TableInv
  <1>5. CASE Download
    <2>1. PICK S : S = ExportFilter(ProjectMembers(FALSE), file.filter)
      OBVIOUS
    <2>2. file' = [file EXCEPT !.step = "done", !.rows = S] /\ file.filter = table.filter
      BY <1>5, <2>1 DEF Download, TableInv
    <2>3. \A p : p \in S <=> Fitting(p, FALSE, table.filter)
      BY <2>1, <2>2, WhoFits
    <2>4. S \subseteq People
      BY <2>3 DEF Fitting
    <2>5. /\ file' \in [step : {"none", "dialog", "done"}, filter : Filters, rows : SUBSET People]
          /\ file'.rows = S /\ file'.filter = table.filter
      BY <2>2, <2>4 DEF TableInv, MembersTypeOK
    <2>6. MembersTypeOK'
      BY <1>1, <2>5 DEF TableInv, MembersTypeOK
    <2>7. \A p \in People : OfFile(p)'
      BY <1>2, <2>3, <2>5 DEF OfFile
    <2> QED BY <1>1, <1>3, <2>5, <2>6, <2>7 DEF TableInv
  <1> QED BY <1>4, <1>5

\* Whatever happens to one person leaves what the others find.
LEMMA ChangeInv ==
  ASSUME TableInv, NEW p \in People, Change(p),
         name' \in [People -> FullNames], renamed' \subseteq renamed \union {p},
         renamed \subseteq renamed',
         \A q \in People \ {p} :
           /\ name'[q] = name[q] /\ (q \in gone' <=> q \in gone) /\ (q \in grouped' <=> q \in grouped)
           /\ \A r \in Projects : /\ <<r, q>> \in member' <=> <<r, q>> \in member
                                  /\ state'[<<r, q>>] = state[<<r, q>>],
         name' = name \/ p \in renamed'
  PROVE  TableInv'
  <1>1. /\ table.open = TRUE /\ table' = table /\ file' = file /\ fit' = fit
        /\ touched' = touched \union {p}
    BY DEF Change, TableInv, MembersTypeOK
  <1>2. MembersTypeOK'
    BY <1>1 DEF TableInv, MembersTypeOK
  <1>3. ASSUME NEW q \in People \ {p}, NEW h, NEW f PROVE Fitting(q, h, f)' <=> Fitting(q, h, f)
    BY MembersAssumption DEF Fitting, HasState
  <1>4. \A q \in People : q \notin renamed' => (After(q, table.cursor)' <=> After(q, table.cursor))
    BY <1>1 DEF After
  <1>5. ASSUME NEW q \in People PROVE OfTable(q)'
    <2>1. OfTable(q)
      BY <1>1 DEF TableInv
    <2>2. q \notin touched' => (Fitting(q, table.hide, table.filter)' <=> Fitting(q, table.hide, table.filter))
      <3>1. PICK h, f : h = table.hide /\ f = table.filter
        OBVIOUS
      <3>2. q # p => (Fitting(q, h, f)' <=> Fitting(q, h, f))
        BY <1>3
      <3>3. Fitting(q, table.hide, table.filter)' <=> Fitting(q, h, f)'
        BY <1>1, <3>1 DEF Fitting, HasState
      <3> QED BY <1>1, <3>1, <3>2, <3>3
    <2>3. q \notin touched' => q \notin renamed'
      BY <1>2 DEF MembersTypeOK
    <2> QED BY <1>1, <1>4, <2>1, <2>2, <2>3 DEF OfTable
  <1>6. ASSUME file.step = "done", NEW q \in People PROVE OfFile(q)'
    <2>1. OfFile(q)
      BY <1>6 DEF TableInv
    <2>2. PICK f : f = table.filter
      OBVIOUS
    <2>3. q # p => (Fitting(q, FALSE, f)' <=> Fitting(q, FALSE, f))
      BY <1>3
    <2>4. Fitting(q, FALSE, table.filter)' <=> Fitting(q, FALSE, f)'
      BY <1>1, <2>2 DEF Fitting, HasState
    <2> QED BY <1>1, <2>1, <2>2, <2>3, <2>4 DEF OfFile
  <1> QED BY <1>1, <1>2, <1>5, <1>6 DEF TableInv

LEMMA TableStepInv == ASSUME TableInv, [MembersNext]_membersVars PROVE TableInv'
  <1>1. ASSUME NEW f \in Filters, NEW h \in BOOLEAN, OpenTable(f, h) PROVE TableInv'
    BY <1>1, OpenInv
  <1>2. ASSUME NEW p \in People, NEW q \in Projects, Join(p, q) PROVE TableInv'
    <2>1. Change(p) /\ UNCHANGED <<state, name, gone, grouped, renamed>>
          /\ member' = member \union {<<q, p>>}
      BY <1>2 DEF Join
    <2> QED BY <2>1, ChangeInv DEF TableInv, MembersTypeOK
  <1>3. ASSUME NEW p \in People, NEW q \in Projects, Leave(p, q) PROVE TableInv'
    <2>1. Change(p) /\ UNCHANGED <<state, name, gone, grouped, renamed>>
          /\ member' = member \ {<<q, p>>}
      BY <1>3 DEF Leave
    <2> QED BY <2>1, ChangeInv DEF TableInv, MembersTypeOK
  <1>4. ASSUME NEW p \in People, NEW q \in Projects, NEW s \in States, EditState(p, q, s)
        PROVE  TableInv'
    <2>1. Change(p) /\ UNCHANGED <<member, name, gone, grouped, renamed>>
          /\ state' = [state EXCEPT ![<<q, p>>] = s]
      BY <1>4 DEF EditState
    <2>2. \A r \in Projects, o \in People \ {p} : state'[<<r, o>>] = state[<<r, o>>]
      BY <2>1
    <2> QED BY <2>1, <2>2, ChangeInv DEF TableInv, MembersTypeOK
  <1>5. ASSUME NEW p \in People, NEW n \in FullNames, Rename(p, n) PROVE TableInv'
    <2>1. Change(p) /\ UNCHANGED <<member, state, gone, grouped>>
          /\ name' = [name EXCEPT ![p] = n] /\ renamed' = renamed \union {p}
      BY <1>5 DEF Rename
    <2> QED BY <2>1, ChangeInv DEF TableInv, MembersTypeOK
  <1>6. ASSUME NEW p \in People, ExpireMember(p) PROVE TableInv'
    <2>1. Change(p) /\ UNCHANGED <<member, state, name, grouped, renamed>>
          /\ gone' = IF p \in gone THEN gone \ {p} ELSE gone \union {p}
      BY <1>6 DEF ExpireMember
    <2> QED BY <2>1, ChangeInv DEF TableInv, MembersTypeOK
  <1>7. ASSUME NEW p \in People, Group(p) PROVE TableInv'
    <2>1. Change(p) /\ UNCHANGED <<member, state, name, gone, renamed>>
          /\ grouped' = IF p \in grouped THEN grouped \ {p} ELSE grouped \union {p}
      BY <1>7 DEF Group
    <2> QED BY <2>1, ChangeInv DEF TableInv, MembersTypeOK
  <1>8. ASSUME UNCHANGED membersVars PROVE TableInv'
    BY <1>8 DEF membersVars, TableInv, MembersTypeOK, OfTable, OfFile, Fitting, HasState, After
  <1> QED BY <1>1, <1>2, <1>3, <1>4, <1>5, <1>6, <1>7, <1>8, ScrollInv, FileInv DEF MembersNext

LEMMA TableShows == TableInv => EachInTheTableOnce /\ FileHasTheTable
  <1> SUFFICES ASSUME TableInv PROVE EachInTheTableOnce /\ FileHasTheTable
    OBVIOUS
  <1>1. /\ MembersTypeOK /\ table.rows \subseteq People /\ table.twice \subseteq People
        /\ file.rows \subseteq People
    BY DEF TableInv, MembersTypeOK
  <1>2. CASE ~table.open
    BY <1>2 DEF TableInv, Closed, NoFile, EachInTheTableOnce, FileHasTheTable
  <1>3. CASE table.open
    <2>1. \A p \in People : OfTable(p)
      BY <1>3 DEF TableInv
    <2>2. EachInTheTableOnce
      BY <1>1, <2>1 DEF EachInTheTableOnce, OfTable, MembersTypeOK
    <2>3. ASSUME table.end, file.step = "done", NEW p \in table.rows \ touched PROVE p \in file.rows
      BY <1>1, <2>1, <2>3 DEF TableInv, OfTable, OfFile, Fitting
    <2>4. ASSUME table.end, file.step = "done", ~table.hide, NEW p \in file.rows \ touched
          PROVE  p \in table.rows
      BY <1>1, <2>1, <2>4 DEF TableInv, OfTable, OfFile, Fitting
    <2> QED BY <2>2, <2>3, <2>4 DEF FileHasTheTable
  <1> QED BY <1>2, <1>3

\* Read page by page to its end, the table has everybody who fitted its filter
\* all along, and nobody twice who was not renamed (account/rest/profile.py:295-362);
\* the file exported from it has the same people (project_profiles.py:198-287)
\* but for those a change in between reached, and one that hides people for
\* merging has no more of them than its file: for any number of people, any of
\* them with the same name, and any size of a page.
THEOREM TableStaysRight == MembersSpec => []TableIsRight
  <1>1. MembersInit => TableInv
    BY TableInitInv
  <1>2. TableInv /\ [MembersNext]_membersVars => TableInv'
    BY TableStepInv
  <1>3. TableInv => TableIsRight
    BY TableShows DEF TableIsRight
  <1> QED BY <1>1, <1>2, <1>3, PTL DEF MembersSpec
=============================================================================
