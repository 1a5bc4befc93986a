--------------------------- MODULE ProfilesProofs ---------------------------
(***************************************************************************)
(* ProfilesInv is inductive, so that, for any number of users and          *)
(* requests, calls that do not overlap are not taken back, the cached user *)
(* is the row, and the codes of a session are those that were mailed.      *)
(***************************************************************************)
EXTENDS Profiles, TLAPS

\* What a step of a request does to its own record and to the others'.
LEMMA Becomes ==
    ASSUME TypeOK, NEW r \in Requests, NEW s \in Works, Become(r, s)
    PROVE  /\ req'[r] = s
           /\ \A q \in Requests \ {r} : req'[q] = req[q]
           /\ req' \in [Requests -> Works]
BY DEF Become, TypeOK

LEMMA Goes ==
    ASSUME TypeOK, NEW r \in Requests, NEW place \in Places, Go(r, place)
    PROVE  /\ req'[r].at = place
           /\ req'[r].op = req[r].op
           /\ req'[r].user = req[r].user
           /\ req'[r].email = req[r].email
           /\ req'[r].copy = req[r].copy
           /\ req'[r].codes = req[r].codes
           /\ req'[r].invalid = req[r].invalid
           /\ \A q \in Requests \ {r} : req'[q] = req[q]
           /\ req' \in [Requests -> Works]
<1>1. [req[r] EXCEPT !.at = place] \in Works
  BY DEF TypeOK, Works
<1>2. /\ req'[r] = [req[r] EXCEPT !.at = place]
      /\ \A q \in Requests \ {r} : req'[q] = req[q]
      /\ req' \in [Requests -> Works]
  BY <1>1, Becomes DEF Go
<1> QED
  BY <1>2 DEF TypeOK, Works

LEMMA AnsweredIsIdle ==
    ASSUME TypeOK, NEW r \in Requests, Answered(r)
    PROVE  /\ req'[r].at = "idle"
           /\ req'[r].op = "read"
           /\ req'[r].user = None
           /\ \A q \in Requests \ {r} : req'[q] = req[q]
           /\ req' \in [Requests -> Works]
<1>1. Idle \in Works
  BY DEF Idle, Works, Places, Ops, OrNone
<1>2. /\ req'[r] = Idle
      /\ \A q \in Requests \ {r} : req'[q] = req[q]
      /\ req' \in [Requests -> Works]
  BY <1>1, Becomes DEF Answered
<1> QED
  BY <1>2 DEF Idle

\* The changes of one column keep a row a row.
LEMMA ChangedTyped ==
    ASSUME TypeOK, NEW r \in Requests, NEW old \in OrNone(Rows), req[r].op = "confirm" => req[r].email \in Emails
    PROVE  /\ Changed(r, old) \in OrNone(Rows)
           /\ Changed(r, old) = None <=> old = None
<1>1. now + Delta \in Nat
  BY ProfilesAssumption DEF TypeOK
<1>2. CASE old = None
  BY <1>2 DEF Changed, OrNone
<1>3. CASE old # None
  <2>1. old \in Rows
    BY <1>3 DEF OrNone
  <2>2. Changed(r, old) \in Rows
    BY <1>1, <1>3, <2>1 DEF Changed, Rows
  <2> QED
    BY <1>3, <2>2, ProfilesAssumption DEF OrNone, Rows
<1> QED
  BY <1>2, <1>3

\* Who is served has a user, and the mail of a confirmation is an address.
LEMMA Served ==
    ASSUME TypeOK, NEW r \in Requests, RequestInv(r)
    PROVE  /\ req[r] \in Works
           /\ ~At(r, "idle") => req[r].user \in Users
           /\ req[r].op = "confirm" => req[r].email \in Emails
<1>1. req[r] \in Works
  BY DEF TypeOK
<1> QED
  BY <1>1 DEF RequestInv, Works, OrNone

\* A request that comes in, and what the backend does for it.
LEMMA TypedArrival ==
    ASSUME TypeOK, NEW r \in Requests, NEW s \in Works, s.user \in Users, Arrive(r, s)
    PROVE  TypeOK'
<1>1. req' \in [Requests -> Works]
  BY Becomes DEF Arrive
<1>2. made' \in 0..MaxRequests /\ mixed' \subseteq Users
  BY ProfilesAssumption DEF Arrive, TypeOK
<1> QED
  BY <1>1, <1>2 DEF Arrive, TypeOK

LEMMA TypedCalls ==
    ASSUME TypeOK, NEW r \in Requests, NEW u \in Users,
           \/ \E op \in Ops, e \in OrNone(Emails) : Call(r, u, op, e)
           \/ \E op \in {"invalidate", "destroy"} : Manage(r, u, op)
    PROVE  TypeOK'
<1>1. ASSUME NEW op \in Ops, NEW e \in OrNone(Emails), Call(r, u, op, e)
      PROVE  TypeOK'
  <2> DEFINE posted == op = "update" /\ form[u]
             s == [Idle EXCEPT !.at = "lookup", !.op = op, !.user = u, !.email = e,
                               !.invalid = posted, !.codes = session[u].codes]
  <2>0. posted \in BOOLEAN
    BY DEF TypeOK
  <2> HIDE DEF posted
  <2>1. s \in Works /\ s.user = u
    BY <2>0 DEF Idle, Works, Places, OrNone, TypeOK
  <2> USE DEF posted
  <2>2. Arrive(r, s)
    BY <1>1 DEF Call
  <2> HIDE DEF s
  <2> QED
    BY <2>1, <2>2, TypedArrival
<1>2. ASSUME NEW op \in {"invalidate", "destroy"}, Manage(r, u, op)
      PROVE  TypeOK'
  <2> DEFINE s == [Idle EXCEPT !.at = "handle", !.op = op, !.user = u]
  <2>1. s \in Works /\ s.user = u
    BY DEF Idle, Works, Places, OrNone, Ops, Columns
  <2>2. Arrive(r, s)
    BY <1>2 DEF Manage
  <2> HIDE DEF s
  <2> QED
    BY <2>1, <2>2, TypedArrival
<1> QED
  BY <1>1, <1>2

LEMMA TypedBackend ==
    ASSUME TypeOK, NEW r \in Requests, RequestInv(r), Lookup(r) \/ Load(r) \/ Fill(r)
    PROVE  TypeOK'
<1>1. req[r].user \in Users /\ req[r] \in Works
  BY Served DEF At, Lookup, Load, Fill
<1>2. CASE Lookup(r)
  <2> DEFINE s == [req[r] EXCEPT !.at = IF cached[req[r].user] = None THEN "load" ELSE "handle", !.copy = cached[req[r].user]]
  <2>1. s \in Works
    BY <1>1 DEF Works, Places, TypeOK
  <2>2. Become(r, s)
    BY <1>2 DEF Lookup
  <2> HIDE DEF s
  <2>3. req' \in [Requests -> Works]
    BY <2>1, <2>2, Becomes
  <2> QED
    BY <1>2, <2>3 DEF Lookup, TypeOK
<1>3. CASE Load(r)
  <2> DEFINE s == [req[r] EXCEPT !.at = "fill", !.copy = row[req[r].user]]
  <2>1. s \in Works
    BY <1>1 DEF Works, Places, TypeOK
  <2>2. Become(r, s) \/ Answered(r)
    BY <1>3 DEF Load
  <2> HIDE DEF s
  <2>3. req' \in [Requests -> Works]
    BY <2>1, <2>2, Becomes, AnsweredIsIdle
  <2> QED
    BY <1>3, <2>3 DEF Load, TypeOK
<1>4. CASE Fill(r)
  <2>1. req' \in [Requests -> Works]
    BY <1>4, Goes DEF Fill, Places
  <2>2. cached' \in [Users -> OrNone(Rows)]
    BY <1>1, <1>4 DEF Fill, TypeOK, Works
  <2> QED
    BY <1>4, <2>1, <2>2 DEF Fill, TypeOK
<1> QED
  BY <1>2, <1>3, <1>4

LEMMA TypedSaves ==
    ASSUME TypeOK, NEW r \in Requests, RequestInv(r),
           \/ Read(r) \/ SaveAll(r) \/ SaveColumn(r) \/ Destroy(r) \/ Invalidate(r)
           \/ SaveInTransaction(r) \/ Commit(r) \/ Fail(r)
    PROVE  TypeOK'
<1> DEFINE u == req[r].user
<1>1. u \in Users /\ req[r] \in Works /\ (req[r].op = "confirm" => req[r].email \in Emails)
  BY Served DEF At, Read, SaveAll, SaveColumn, Destroy, Invalidate, SaveInTransaction, Commit, Fail
<1>2. /\ Changed(r, row[u]) \in OrNone(Rows)
      /\ Changed(r, asked[u]) \in OrNone(Rows)
  BY <1>1, ChangedTyped DEF TypeOK
<1>3. None \in OrNone(Rows)
  BY DEF OrNone
<1>c. At(r, "handle") /\ req[r].op \in Saving \union {"read"} => req[r].copy \in Rows
  BY <1>1 DEF RequestInv, Works, OrNone
<1>4. CASE Read(r)
  <2>1. req[r].copy \in Rows
    BY <1>4, <1>c DEF Read
  <2>2. form' \in [Users -> BOOLEAN]
    BY <1>4, <2>1 DEF Read, Put, TypeOK, Rows
  <2> QED
    BY <1>4, <2>2, AnsweredIsIdle DEF Read, TypeOK
<1>5. CASE SaveAll(r)
  <2>1. req' \in [Requests -> Works]
    BY <1>5, Goes DEF SaveAll, Places
  <2>2. row' \in [Users -> OrNone(Rows)]
    <3>1. req[r].copy \in Rows /\ req[r].invalid \in BOOLEAN
      BY <1>1, <1>5, <1>c DEF SaveAll, Works
    <3>2. ToSave(req[r]) \in OrNone(Rows)
      BY <3>1 DEF ToSave, OrNone, Rows
    <3> QED
      BY <1>5, <3>2 DEF SaveAll, Put, TypeOK
  <2> QED
    BY <1>5, <2>1, <2>2 DEF SaveAll, TypeOK
<1>6. CASE SaveColumn(r)
  <2>1. req' \in [Requests -> Works]
    BY <1>6, Goes DEF SaveColumn, Places
  <2>2. row' \in [Users -> OrNone(Rows)] /\ asked' \in [Users -> OrNone(Rows)]
    BY <1>2, <1>6 DEF SaveColumn, Put, TypeOK
  <2> QED
    BY <1>6, <2>1, <2>2 DEF SaveColumn, TypeOK
<1>7. CASE Destroy(r)
  <2>1. req' \in [Requests -> Works]
    BY <1>7, Goes DEF Destroy, Places
  <2>2. row' \in [Users -> OrNone(Rows)] /\ asked' \in [Users -> OrNone(Rows)]
    BY <1>3, <1>7 DEF Destroy, Put, TypeOK
  <2> QED
    BY <1>7, <2>1, <2>2 DEF Destroy, TypeOK
<1>8. CASE Invalidate(r)
  <2> DEFINE s == [req[r] EXCEPT !.at = "handle", !.op = "validate"]
  <2>1. s \in Works
    BY <1>1 DEF Works, Places, Ops, Columns
  <2>2. Become(r, s) \/ Go(r, "answer")
    BY <1>8 DEF Invalidate
  <2> HIDE DEF s
  <2>3. req' \in [Requests -> Works]
    BY <2>1, <2>2, Becomes, Goes DEF Places
  <2>4. cached' \in [Users -> OrNone(Rows)]
    BY <1>3, <1>8 DEF Invalidate, Drop, TypeOK
  <2>5. LoggedOut \in [live : BOOLEAN, codes : SUBSET Emails]
    BY DEF LoggedOut
  <2>6. session' = Put(session, u, LoggedOut) \/ UNCHANGED session
    BY <1>8 DEF Invalidate
  <2>7. session' \in [Users -> [live : BOOLEAN, codes : SUBSET Emails]]
    BY <2>5, <2>6 DEF Put, TypeOK
  <2> QED
    BY <1>8, <2>3, <2>4, <2>7 DEF Invalidate, TypeOK
<1>9. CASE SaveInTransaction(r)
  <2>1. req' \in [Requests -> Works]
    BY <1>9, Goes DEF SaveInTransaction, Places
  <2>2. cached' \in [Users -> OrNone(Rows)]
    BY <1>3, <1>9 DEF SaveInTransaction, Drop, TypeOK
  <2> QED
    BY <1>9, <2>1, <2>2 DEF SaveInTransaction, TypeOK
<1>10. CASE Commit(r)
  <2>1. req' \in [Requests -> Works]
    BY <1>10, Goes DEF Commit, Places
  <2>2. row' \in [Users -> OrNone(Rows)] /\ asked' \in [Users -> OrNone(Rows)]
    BY <1>2, <1>10 DEF Commit, Put, TypeOK
  <2>3. mailed' \in [Users -> [Emails -> 0..MaxTime]]
    BY <1>1, <1>10, ProfilesAssumption DEF Commit, TypeOK
  <2> QED
    BY <1>10, <2>1, <2>2, <2>3 DEF Commit, TypeOK
<1>11. CASE Fail(r)
  BY <1>11, AnsweredIsIdle DEF Fail, TypeOK
<1> QED
  BY <1>4, <1>5, <1>6, <1>7, <1>8, <1>9, <1>10, <1>11

\* What is stored in a session is a session.
LEMMA StoreTyped ==
    ASSUME TypeOK, NEW u \in Users, NEW codes \in SUBSET Emails, Store(u, codes)
    PROVE  session' \in [Users -> [live : BOOLEAN, codes : SUBSET Emails]]
<1>1. [session[u] EXCEPT !.codes = codes] \in [live : BOOLEAN, codes : SUBSET Emails]
  BY DEF TypeOK
<1>2. session' = [session EXCEPT ![u] = [session[u] EXCEPT !.codes = codes]] \/ session' = session
  BY DEF Store
<1> QED
  BY <1>1, <1>2 DEF TypeOK

LEMMA TypedAnswers ==
    ASSUME TypeOK, NEW r \in Requests, RequestInv(r),
           \/ AnswerNewEmail(r) \/ AnswerConfirm(r) \/ AnswerMark(r)
           \/ AnswerPassword(r) \/ AnswerOther(r)
    PROVE  TypeOK'
<1>1. req[r].user \in Users /\ req[r] \in Works
  BY Served DEF At, AnswerNewEmail, AnswerConfirm, AnswerMark, AnswerPassword, AnswerOther
<1>2. req' \in [Requests -> Works]
  BY AnsweredIsIdle DEF AnswerNewEmail, AnswerConfirm, AnswerMark, AnswerPassword, AnswerOther
<1>3. CASE AnswerNewEmail(r)
  <2>1. req[r].email \in Emails
    BY <1>1, <1>3 DEF AnswerNewEmail, Asks, Works, OrNone
  <2>n. now \in 0..MaxTime
    BY ProfilesAssumption DEF TypeOK
  <2>a. mailed' = [mailed EXCEPT ![req[r].user][req[r].email] = now] \/ UNCHANGED mailed
    BY <1>3 DEF AnswerNewEmail
  <2>b. [mailed[req[r].user] EXCEPT ![req[r].email] = now] \in [Emails -> 0..MaxTime]
    BY <1>1, <2>n DEF TypeOK
  <2>2. mailed' \in [Users -> [Emails -> 0..MaxTime]]
    BY <1>1, <2>a, <2>b DEF TypeOK
  <2>3. session' \in [Users -> [live : BOOLEAN, codes : SUBSET Emails]]
    <3>1. req[r].codes \union {req[r].email} \in SUBSET Emails
      BY <1>1, <2>1 DEF Works
    <3>2. Store(req[r].user, req[r].codes \union {req[r].email}) \/ UNCHANGED session
      BY <1>3 DEF AnswerNewEmail
    <3> QED
      BY <1>1, <3>1, <3>2, StoreTyped DEF TypeOK
  <2> QED
    BY <1>2, <1>3, <2>2, <2>3 DEF AnswerNewEmail, TypeOK
<1>4. CASE AnswerConfirm(r)
  <2>1. session' \in [Users -> [live : BOOLEAN, codes : SUBSET Emails]]
    <3>1. req[r].codes \ {req[r].email} \in SUBSET Emails
      BY <1>1 DEF Works
    <3>2. Store(req[r].user, req[r].codes \ {req[r].email})
      BY <1>4 DEF AnswerConfirm
    <3> QED
      BY <1>1, <3>1, <3>2, StoreTyped DEF TypeOK
  <2> QED
    BY <1>2, <1>4, <2>1 DEF AnswerConfirm, TypeOK
<1>5. CASE AnswerMark(r)
  <2>1. session' \in [Users -> [live : BOOLEAN, codes : SUBSET Emails]]
    BY <1>5 DEF AnswerMark, Put, LoggedOut, TypeOK
  <2>n. 0 \in 0..MaxTime
    BY ProfilesAssumption
  <2>a. NoMail \in [Emails -> 0..MaxTime]
    BY <2>n DEF NoMail
  <2>2. mailed' \in [Users -> [Emails -> 0..MaxTime]]
    BY <1>5, <2>a DEF AnswerMark, Put, TypeOK
  <2> QED
    BY <1>2, <1>5, <2>1, <2>2 DEF AnswerMark, TypeOK
<1>6. CASE AnswerPassword(r)
  <2>1. session' \in [Users -> [live : BOOLEAN, codes : SUBSET Emails]]
    BY <1>1, <1>6 DEF AnswerPassword, Put, TypeOK, Works
  <2> QED
    BY <1>2, <1>6, <2>1 DEF AnswerPassword, TypeOK
<1>7. CASE AnswerOther(r)
  BY <1>2, <1>7 DEF AnswerOther, TypeOK
<1> QED
  BY <1>3, <1>4, <1>5, <1>6, <1>7

LEMMA TypedRest ==
    ASSUME TypeOK,
           \/ \E u \in Users : Login(u) \/ Expire(u) \/ DeleteDue(u) \/ SkipDue(u)
           \/ ReadDue \/ Tick
    PROVE  TypeOK'
<1>1. None \in OrNone(Rows)
  BY DEF OrNone
<1>2. ASSUME NEW u \in Users, Login(u) PROVE TypeOK'
  <2>1. cached' \in [Users -> OrNone(Rows)]
    BY <1>1, <1>2 DEF Login, Drop, TypeOK
  <2>2. session' \in [Users -> [live : BOOLEAN, codes : SUBSET Emails]]
    BY <1>2 DEF Login, TypeOK
  <2>3. mixed' \subseteq Users
    BY <1>2 DEF Login, TypeOK
  <2> QED
    BY <1>2, <2>1, <2>2, <2>3 DEF Login, TypeOK
<1>3. ASSUME NEW u \in Users, Expire(u) PROVE TypeOK'
  <2>1. cached' \in [Users -> OrNone(Rows)]
    BY <1>1, <1>3 DEF Expire, Drop, TypeOK
  <2>2. asked' \in [Users -> OrNone(Rows)]
    BY <1>3 DEF Expire, Put, TypeOK
  <2> DEFINE kept == [e \in Emails |-> IF e \notin session[u].codes THEN 0
                                      ELSE IF e \in Mailed(u) THEN mailed[u][e] ELSE now]
  <2>n. 0 \in 0..MaxTime /\ now \in 0..MaxTime
    BY ProfilesAssumption DEF TypeOK
  <2>a. kept \in [Emails -> 0..MaxTime]
    BY <2>n DEF TypeOK
  <2>b. mailed' = Put(mailed, u, kept) \/ UNCHANGED mailed
    BY <1>3 DEF Expire
  <2> HIDE DEF kept
  <2>3. mailed' \in [Users -> [Emails -> 0..MaxTime]]
    BY <2>a, <2>b DEF Put, TypeOK
  <2>4. mixed' \subseteq Users
    BY <1>3 DEF Expire, TypeOK
  <2> QED
    BY <1>3, <2>1, <2>2, <2>3, <2>4 DEF Expire, TypeOK
<1>4. ASSUME NEW u \in Users, DeleteDue(u) PROVE TypeOK'
  <2>1. row' \in [Users -> OrNone(Rows)] /\ asked' \in [Users -> OrNone(Rows)]
    BY <1>1, <1>4 DEF DeleteDue, Put, TypeOK
  <2>2. doomed' \subseteq Users /\ mixed' \subseteq Users
    BY <1>4 DEF DeleteDue, TypeOK
  <2> QED
    BY <1>4, <2>1, <2>2 DEF DeleteDue, TypeOK
<1>5. ASSUME NEW u \in Users, SkipDue(u) PROVE TypeOK'
  BY <1>5 DEF SkipDue, TypeOK
<1>6. CASE ReadDue
  BY <1>6 DEF ReadDue, TypeOK
<1>7. CASE Tick
  BY <1>7, ProfilesAssumption DEF Tick, TypeOK
<1> QED
  BY <1>2, <1>3, <1>4, <1>5, <1>6, <1>7

LEMMA TypeKept ==
    ASSUME TypeOK, \A r \in Requests : RequestInv(r), [Next]_vars
    PROVE  TypeOK'
<1>1. ASSUME NEW r \in Requests, NEW u \in Users,
             \/ \E op \in {"read", "mark"} \union Saving \union Atomic, e \in OrNone(Emails) : Call(r, u, op, e)
             \/ \E op \in {"invalidate", "destroy"} : Manage(r, u, op)
      PROVE  TypeOK'
  <2>1. {"read", "mark"} \union Saving \union Atomic \subseteq Ops
    BY DEF Ops, Columns
  <2> QED
    BY <1>1, <2>1, TypedCalls
<1>2. ASSUME NEW r \in Requests, Handle(r) PROVE TypeOK'
  BY <1>2, TypedBackend, TypedSaves, TypedAnswers DEF Handle
<1>3. CASE UNCHANGED vars
  BY <1>3 DEF vars, TypeOK
<1> QED
  BY <1>1, <1>2, <1>3, TypedRest DEF Next

-----------------------------------------------------------------------------
(* What a step of a request does to the records. *)

\* A request keeps to its user, and goes where a request may be.
LEMMA HandleRecord ==
    ASSUME TypeOK, NEW r \in Requests, RequestInv(r), Handle(r)
    PROVE  /\ RequestInv(r)'
           /\ req'[r].user \in {req[r].user, None}
           /\ \A q \in Requests \ {r} : req'[q] = req[q]
<1> DEFINE Kept == /\ RequestInv(r)'
                  /\ req'[r].user \in {req[r].user, None}
                  /\ \A q \in Requests \ {r} : req'[q] = req[q]
<1>1. req[r] \in Works
  BY Served
<1>2. ASSUME Answered(r) PROVE Kept
  BY <1>2, AnsweredIsIdle DEF RequestInv, At
<1>3. ASSUME NEW place \in {"handle", "saved", "commit", "answer"}, Go(r, place), ~At(r, "idle"),
             place = "saved" => req[r].op \in Saving \union Columns \union {"destroy"},
             place = "commit" => req[r].op \in Atomic,
             place = "answer" => req[r].op # "read",
             place = "handle" => req[r].copy # None
      PROVE  Kept
  <2>1. /\ req'[r].at = place /\ req'[r].op = req[r].op /\ req'[r].user = req[r].user
        /\ req'[r].email = req[r].email /\ req'[r].copy = req[r].copy
        /\ \A q \in Requests \ {r} : req'[q] = req[q]
    BY <1>3, Goes DEF Places
  <2> QED
    BY <1>3, <2>1 DEF RequestInv, At
<1>4. CASE Lookup(r)
  <2> DEFINE s == [req[r] EXCEPT !.at = IF cached[req[r].user] = None THEN "load" ELSE "handle", !.copy = cached[req[r].user]]
  <2>1. req[r].user \in Users
    BY <1>4, Served DEF Lookup, At
  <2>2. /\ s \in Works /\ s.at \in {"load", "handle"} /\ s.op = req[r].op /\ s.user = req[r].user
        /\ s.email = req[r].email /\ (s.at = "handle" => s.copy # None)
    BY <1>1, <2>1 DEF Works, Places, TypeOK
  <2>3. Become(r, s) /\ ~At(r, "idle")
    BY <1>4 DEF Lookup, At
  <2> HIDE DEF s
  <2>4. req'[r] = s /\ \A q \in Requests \ {r} : req'[q] = req[q]
    BY <2>2, <2>3, Becomes
  <2> QED
    BY <2>2, <2>3, <2>4 DEF RequestInv, At
<1>5. CASE Load(r)
  <2> DEFINE s == [req[r] EXCEPT !.at = "fill", !.copy = row[req[r].user]]
  <2>1. req[r].user \in Users
    BY <1>5, Served DEF Load, At
  <2>2. s \in Works /\ s.at = "fill" /\ s.op = req[r].op /\ s.user = req[r].user /\ s.email = req[r].email
    BY <1>1, <2>1 DEF Works, Places, TypeOK
  <2>3. ((Become(r, s) /\ s.copy # None) \/ Answered(r)) /\ ~At(r, "idle")
    BY <1>1, <1>5 DEF Load, At, Works
  <2> HIDE DEF s
  <2>4. Become(r, s) => req'[r] = s /\ \A q \in Requests \ {r} : req'[q] = req[q]
    BY <2>2, Becomes
  <2> QED
    BY <1>2, <2>2, <2>3, <2>4 DEF RequestInv, At
<1>6. CASE Invalidate(r)
  <2> DEFINE s == [req[r] EXCEPT !.at = "handle", !.op = "validate"]
  <2>1. s \in Works /\ s.at = "handle" /\ s.op = "validate" /\ s.user = req[r].user
    BY <1>1 DEF Works, Places, Ops, Columns
  <2>2. /\ Become(r, s) \/ Go(r, "answer")
        /\ ~At(r, "idle")
        /\ req[r].op # "read"
    BY <1>6 DEF Invalidate, At, RequestInv, Saving, Columns
  <2> HIDE DEF s
  <2>3. Become(r, s) => req'[r] = s /\ \A q \in Requests \ {r} : req'[q] = req[q]
    BY <2>1, Becomes
  <2>4. CASE Become(r, s)
    BY <2>1, <2>2, <2>3, <2>4 DEF RequestInv, At, Saving
  <2> QED
    BY <1>3, <2>2, <2>4
<1>7. CASE Fill(r)
  BY <1>3, <1>7 DEF Fill, At, RequestInv
<1>8. CASE SaveAll(r) \/ SaveColumn(r) \/ Destroy(r)
  BY <1>3, <1>8 DEF SaveAll, SaveColumn, Destroy, At
<1>9. CASE SaveInTransaction(r)
  BY <1>3, <1>9 DEF SaveInTransaction, At
<1>10. CASE Commit(r)
  <2>1. req[r].op # "read" /\ ~At(r, "idle") /\ Go(r, "answer")
    BY <1>10 DEF Commit, At, RequestInv, Atomic
  <2> QED
    BY <1>3, <2>1
<1>11. CASE \/ Read(r) \/ Fail(r) \/ AnswerNewEmail(r) \/ AnswerConfirm(r)
            \/ AnswerMark(r) \/ AnswerPassword(r) \/ AnswerOther(r)
  BY <1>2, <1>11 DEF Read, Fail, AnswerNewEmail, AnswerConfirm, AnswerMark, AnswerPassword, AnswerOther
<1> QED
  BY <1>4, <1>5, <1>6, <1>7, <1>8, <1>9, <1>10, <1>11 DEF Handle

\* It leaves what is kept of the other users alone.
LEMMA HandleFrame ==
    ASSUME TypeOK, NEW r \in Requests, RequestInv(r), Handle(r), NEW u \in Users \ {req[r].user}
    PROVE  /\ row'[u] = row[u]
           /\ cached'[u] = cached[u]
           /\ session'[u] = session[u]
           /\ asked'[u] = asked[u]
           /\ mailed'[u] = mailed[u]
           /\ UNCHANGED <<doomed, now, mixed>>
<1>1. CASE Lookup(r) \/ Load(r) \/ Fill(r) \/ Read(r) \/ Fail(r) \/ AnswerOther(r)
  BY <1>1 DEF Lookup, Load, Fill, Read, Fail, AnswerOther, TypeOK
<1>2. CASE SaveAll(r) \/ SaveColumn(r) \/ Destroy(r)
  BY <1>2 DEF SaveAll, SaveColumn, Destroy, Put, TypeOK
<1>3. CASE Invalidate(r)
  BY <1>3 DEF Invalidate, Drop, Put, TypeOK
<1>4. CASE SaveInTransaction(r) \/ Commit(r)
  BY <1>4 DEF SaveInTransaction, Commit, Drop, Put, TypeOK
<1>5. CASE AnswerNewEmail(r) \/ AnswerConfirm(r)
  BY <1>5 DEF AnswerNewEmail, AnswerConfirm, Store, TypeOK
<1>6. CASE AnswerMark(r) \/ AnswerPassword(r)
  BY <1>6 DEF AnswerMark, AnswerPassword, Put, TypeOK
<1> QED
  BY <1>1, <1>2, <1>3, <1>4, <1>5, <1>6 DEF Handle

\* A request that comes in has a user, and has not been anywhere yet.
LEMMA ArriveRecord ==
    ASSUME TypeOK, NEW r \in Requests, NEW s \in Works, Arrive(r, s),
           s.user \in Users, s.at \in {"lookup", "handle"}, s.op = "confirm" => s.email # None,
           s.at = "handle" => s.op \in {"invalidate", "destroy"}
    PROVE  /\ RequestInv(r)'
           /\ req'[r] = s
           /\ \A q \in Requests \ {r} : req'[q] = req[q]
<1>1. /\ req'[r] = s
      /\ \A q \in Requests \ {r} : req'[q] = req[q]
  BY Becomes DEF Arrive
<1> QED
  BY <1>1, ProfilesAssumption DEF RequestInv, At, Saving

\* What the two kinds of arrivals put into the record.
LEMMA CallRecord ==
    ASSUME TypeOK, NEW r \in Requests, NEW u \in Users,
           NEW op \in {"read", "mark"} \union Saving \union Atomic, NEW e \in OrNone(Emails), Call(r, u, op, e)
    PROVE  \E s \in Works :
             /\ Arrive(r, s)
             /\ s.at = "lookup" /\ s.op = op /\ s.user = u /\ s.email = e /\ s.codes = session[u].codes
<1> DEFINE posted == op = "update" /\ form[u]
           s == [Idle EXCEPT !.at = "lookup", !.op = op, !.user = u, !.email = e,
                             !.invalid = posted, !.codes = session[u].codes]
<1>0. posted \in BOOLEAN
  BY DEF TypeOK
<1> HIDE DEF posted
<1>1. s \in Works
  BY <1>0 DEF Idle, Works, Places, Ops, Columns, OrNone, TypeOK
<1> USE DEF posted
<1>2. s.at = "lookup" /\ s.op = op /\ s.user = u /\ s.email = e /\ s.codes = session[u].codes
  BY DEF Idle
<1>3. Arrive(r, s)
  BY DEF Call
<1> HIDE DEF s
<1> QED
  BY <1>1, <1>2, <1>3

LEMMA ManageRecord ==
    ASSUME TypeOK, NEW r \in Requests, NEW u \in Users, NEW op \in {"invalidate", "destroy"}, Manage(r, u, op)
    PROVE  \E s \in Works : Arrive(r, s) /\ s.at = "handle" /\ s.op = op /\ s.user = u
<1> DEFINE s == [Idle EXCEPT !.at = "handle", !.op = op, !.user = u]
<1>1. s \in Works
  BY DEF Idle, Works, Places, Ops, Columns, OrNone, TypeOK
<1>2. s.at = "handle" /\ s.op = op /\ s.user = u
  BY DEF Idle
<1>3. Arrive(r, s)
  BY DEF Manage
<1> HIDE DEF s
<1> QED
  BY <1>1, <1>2, <1>3

LEMMA RequestsKept ==
    ASSUME TypeOK, \A r \in Requests : RequestInv(r), [Next]_vars
    PROVE  \A r \in Requests : RequestInv(r)'
<1>1. ASSUME NEW q \in Requests, NEW r \in Requests, q # r => req'[q] = req[q], RequestInv(r)'
      PROVE  RequestInv(q)'
  BY <1>1 DEF RequestInv, At
<1>2. ASSUME NEW q \in Requests, UNCHANGED req
      PROVE  RequestInv(q)'
  BY <1>2 DEF RequestInv, At
<1>3. ASSUME NEW r \in Requests, NEW u \in Users,
             NEW op \in {"read", "mark"} \union Saving \union Atomic, NEW e \in OrNone(Emails), Call(r, u, op, e)
      PROVE  \A q \in Requests : RequestInv(q)'
  <2>1. PICK s \in Works : /\ Arrive(r, s)
                           /\ s.at = "lookup" /\ s.op = op /\ s.user = u /\ s.email = e
    BY <1>3, CallRecord
  <2>2. op = "confirm" => e # None
    BY <1>3 DEF Call
  <2>3. RequestInv(r)' /\ \A q \in Requests \ {r} : req'[q] = req[q]
    BY <2>1, <2>2, ArriveRecord
  <2> QED
    BY <1>1, <2>3
<1>4. ASSUME NEW r \in Requests, NEW u \in Users, NEW op \in {"invalidate", "destroy"}, Manage(r, u, op)
      PROVE  \A q \in Requests : RequestInv(q)'
  <2>1. PICK s \in Works : Arrive(r, s) /\ s.at = "handle" /\ s.op = op /\ s.user = u
    BY <1>4, ManageRecord
  <2>2. RequestInv(r)' /\ \A q \in Requests \ {r} : req'[q] = req[q]
    BY <2>1, ArriveRecord
  <2> QED
    BY <1>1, <2>2
<1>5. ASSUME NEW r \in Requests, Handle(r)
      PROVE  \A q \in Requests : RequestInv(q)'
  BY <1>1, <1>5, HandleRecord
<1>6. CASE \/ \E u \in Users : Login(u) \/ Expire(u) \/ DeleteDue(u) \/ SkipDue(u)
           \/ ReadDue \/ Tick \/ UNCHANGED vars
  BY <1>2, <1>6 DEF Login, Expire, DeleteDue, SkipDue, ReadDue, Tick, vars
<1> QED
  BY <1>3, <1>4, <1>5, <1>6 DEF Next

-----------------------------------------------------------------------------
(* What a step may do for a user without taking his invariant away. *)

\* A user whose requests and tables stay, but for a copy that is dropped.
LEMMA Undisturbed ==
    ASSUME TypeOK, TypeOK', NEW u \in Users, UserInv(u),
           row'[u] = row[u], cached'[u] \in {cached[u], None}, session'[u] = session[u],
           asked'[u] = asked[u], mailed'[u] = mailed[u], now <= now',
           u \in doomed' => u \in doomed \/ (Due(row[u]) /\ ~Changing(u)),
           \A q \in Requests : req[q].user = u \/ req'[q].user = u => req'[q] = req[q]
    PROVE  UserInv(u)'
<1>1. Alone(u)'
  BY DEF UserInv, Alone
<1>2. SessionInv(u)'
  <2>1. Mailed(u)' = Mailed(u)
    BY DEF Mailed
  <2> QED
    BY <2>1 DEF UserInv, SessionInv, Owners, At
<1>3. Due(row[u]) => Due(row[u])'
  BY DEF Due, TypeOK, OrNone, Rows
<1>4. ~Changing(u) => ~Changing(u)'
  BY DEF Changing
<1>5. CopiesInv(u)'
  <2>1. \A q \in Requests : req'[q].user = u => req[q].user = u /\ req'[q] = req[q]
    OBVIOUS
  <2>2. cached'[u] \in {None, row'[u]} \/ \E q \in Requests : req'[q].user = u /\ At(q, "saved")'
    BY DEF UserInv, CopiesInv, At
  <2>3. u \in doomed' => Due(row[u])' /\ ~Changing(u)'
    BY <1>3, <1>4 DEF UserInv, CopiesInv
  <2>4. ASSUME NEW q \in Requests, req'[q].user = u
        PROVE  /\ At(q, "commit")' => cached'[u] = None
               /\ Holds(q)' => req'[q].copy = row'[u]
               /\ Posts(q)' /\ row'[u] # None => req'[q].invalid = row'[u].invalid
               /\ Holds(q)' \/ req'[q].op = "validate" => row'[u] # None
    BY <2>1, <2>4 DEF UserInv, CopiesInv, Holds, Posts, At
  <2> QED
    BY <2>2, <2>3, <2>4 DEF UserInv, CopiesInv
<1> QED
  BY <1>1, <1>2, <1>5 DEF UserInv

\* A call that changes something has the user for itself.
LEMMA Only ==
    ASSUME NEW u \in Users, UserInv(u), NEW r \in Requests, req[r].user = u, req[r].op # "read"
    PROVE  /\ \A q \in Requests \ {r} : req[q].user # u
           /\ u \notin doomed
BY DEF UserInv, Alone, CopiesInv, Changing

\* A user that no request works for.
LEMMA Free ==
    ASSUME NEW u \in Users, \A q \in Requests : req'[q].user # u,
           row'[u] = asked'[u], cached'[u] \in {None, row'[u]},
           u \in doomed' => Due(row[u])', session'[u].codes = Mailed(u)'
    PROVE  UserInv(u)'
BY DEF UserInv, Alone, CopiesInv, SessionInv, Changing

\* A user that one request works for.
LEMMA Lone ==
    ASSUME NEW u \in Users, NEW r \in Requests, req'[r].user = u,
           \A q \in Requests \ {r} : req'[q].user # u,
           row'[u] = asked'[u], u \notin doomed',
           cached'[u] \in {None, row'[u]} \/ At(r, "saved")',
           At(r, "commit")' => cached'[u] = None,
           Holds(r)' => req'[r].copy = row'[u],
           Posts(r)' /\ row'[u] # None => req'[r].invalid = row'[u].invalid,
           Holds(r)' \/ req'[r].op = "validate" => row'[u] # None,
           \/ session'[u].codes = Mailed(u)'
           \/ req'[r].op = "validate" \/ (req'[r].op = "confirm" /\ At(r, "answer")'),
           Owners(r)' =>
             /\ req'[r].op # "validate" => session'[u].live
             /\ Mailed(u)' = IF req'[r].op = "confirm" /\ At(r, "answer")' THEN req'[r].codes \ {req'[r].email} ELSE req'[r].codes
    PROVE  UserInv(u)'
<1>1. Alone(u)'
  BY DEF Alone
<1>2. CopiesInv(u)'
  BY DEF CopiesInv
<1>3. SessionInv(u)'
  BY DEF SessionInv
<1> QED
  BY <1>1, <1>2, <1>3 DEF UserInv

\* A request of the user that only moves: it gives up, or goes on without
\* having saved anything, with a copy that is the row.
LEMMA Moves ==
    ASSUME NEW u \in Users, UserInv(u), NEW r \in Requests, req[r].user = u,
           \A q \in Requests \ {r} : req'[q] = req[q],
           UNCHANGED <<row, session, asked, mailed, doomed, now>>,
           req[r].at \notin {"saved", "commit", "answer"}, req'[r].at \notin {"saved", "commit", "answer"},
           \/ req'[r].user = None /\ req[r].op # "validate"
           \/ req'[r].user = u /\ req'[r].op = req[r].op /\ req'[r].email = req[r].email /\ req'[r].codes = req[r].codes,
           req'[r].user = u /\ Holds(r)' => req'[r].copy = row[u] /\ row[u] # None,
           req'[r].user = u /\ Posts(r)' => req'[r].invalid = req[r].invalid /\ Posts(r),
           \/ cached'[u] = cached[u]
           \/ cached'[u] = row[u] /\ \A q \in Requests \ {r} : req[q].user = u => ~At(q, "commit")
    PROVE  UserInv(u)'
<1>1. u # None
  BY ProfilesAssumption
<1>2. Alone(u)'
  BY <1>1 DEF UserInv, Alone
<1>m. Mailed(u)' = Mailed(u)
  BY DEF Mailed
<1>3. SessionInv(u)'
  <2>1. \/ session'[u].codes = Mailed(u)'
        \/ \E q \in Requests : /\ req'[q].user = u
                               /\ req'[q].op = "validate" \/ (req'[q].op = "confirm" /\ At(q, "answer")')
    BY <1>m DEF UserInv, SessionInv, At
  <2>2. ASSUME NEW q \in Requests, req'[q].user = u, Owners(q)'
        PROVE  /\ req'[q].op # "validate" => session'[u].live
               /\ Mailed(u)' = IF req'[q].op = "confirm" /\ At(q, "answer")' THEN req'[q].codes \ {req'[q].email} ELSE req'[q].codes
    <3>1. CASE q # r
      BY <1>m, <2>2, <3>1 DEF UserInv, SessionInv, Owners, At
    <3>2. CASE q = r
      BY <1>1, <1>m, <2>2, <3>2 DEF UserInv, SessionInv, Owners, At
    <3> QED
      BY <3>1, <3>2
  <2> QED
    BY <2>1, <2>2 DEF SessionInv
<1>4. CopiesInv(u)'
  <2>1. cached'[u] \in {None, row'[u]} \/ \E q \in Requests : req'[q].user = u /\ At(q, "saved")'
    BY DEF UserInv, CopiesInv, At
  <2>2. Due(row[u])' = Due(row[u])
    BY DEF Due
  <2>3. ~Changing(u) => ~Changing(u)'
    BY <1>1 DEF Changing
  <2>4. ASSUME NEW q \in Requests, req'[q].user = u
        PROVE  /\ At(q, "commit")' => cached'[u] = None
               /\ Holds(q)' => req'[q].copy = row'[u]
               /\ Posts(q)' /\ row'[u] # None => req'[q].invalid = row'[u].invalid
               /\ Holds(q)' \/ req'[q].op = "validate" => row'[u] # None
    <3>1. CASE q # r
      BY <2>4, <3>1 DEF UserInv, CopiesInv, Holds, Posts, At
    <3>2. CASE q = r
      BY <1>1, <2>4, <3>2 DEF UserInv, CopiesInv, Holds, Posts, At
    <3> QED
      BY <3>1, <3>2
  <2> QED
    BY <2>1, <2>2, <2>3, <2>4 DEF UserInv, CopiesInv
<1> QED
  BY <1>2, <1>3, <1>4 DEF UserInv

-----------------------------------------------------------------------------
(* The steps of a request keep the invariant of its user. *)

LEMMA KeptByBackend ==
    ASSUME TypeOK, \A q \in Requests : RequestInv(q), NEW r \in Requests, NEW u \in Users, req[r].user = u,
           UserInv(u), Lookup(r) \/ Load(r) \/ Fill(r)
    PROVE  UserInv(u)'
<1>1. req[r] \in Works
  BY DEF TypeOK
<1>2. \A q \in Requests \ {r} : req'[q] = req[q]
  BY HandleRecord DEF Handle
<1>3. CASE Lookup(r)
  <2> DEFINE s == [req[r] EXCEPT !.at = IF cached[u] = None THEN "load" ELSE "handle", !.copy = cached[u]]
  <2>1. s \in Works
    BY <1>1 DEF Works, Places, TypeOK
  <2>2. /\ s.at = IF cached[u] = None THEN "load" ELSE "handle"
        /\ s.copy = cached[u]
        /\ s.op = req[r].op /\ s.user = u /\ s.email = req[r].email /\ s.codes = req[r].codes
        /\ s.invalid = req[r].invalid
    BY <1>1 DEF Works
  <2>3. Become(r, s)
    BY <1>3 DEF Lookup
  <2> HIDE DEF s
  <2>4. req'[r] = s
    BY <2>1, <2>3, Becomes
  <2>5. At(r, "lookup") /\ cached' = cached /\ UNCHANGED <<row, session, asked, mailed, doomed, now>>
    BY <1>3 DEF Lookup
  <2>6. Holds(r)' => req'[r].copy = row[u] /\ row[u] # None
    <3>1. SUFFICES ASSUME Holds(r)' PROVE cached[u] = row[u] /\ cached[u] # None
      BY <2>2, <2>4
    <3>2. cached[u] # None /\ req[r].op \in Saving
      BY <2>2, <2>4, <3>1 DEF Holds, At
    <3>3. \A q \in Requests : req[q].user = u => ~At(q, "saved")
      BY <2>5, <3>2, Only DEF Saving, At
    <3> QED
      BY <3>2, <3>3 DEF UserInv, CopiesInv
  <2> QED
    BY <1>2, <2>2, <2>4, <2>5, <2>6, Moves DEF At, Posts
<1>4. CASE Load(r)
  <2>1. At(r, "load") /\ cached' = cached /\ UNCHANGED <<row, session, asked, mailed, doomed, now>>
    BY <1>4 DEF Load
  <2>2. CASE row[u] = None
    <3>1. req'[r].user = None /\ req'[r].at = "idle" /\ req[r].op # "validate"
      BY <1>4, <2>2, AnsweredIsIdle DEF Load, UserInv, CopiesInv
    <3> QED
      BY <1>2, <2>1, <3>1, Moves, ProfilesAssumption DEF At
  <2>3. CASE row[u] # None
    <3> DEFINE s == [req[r] EXCEPT !.at = "fill", !.copy = row[u]]
    <3>1. s \in Works
      BY <1>1 DEF Works, Places, TypeOK
    <3>2. /\ s.at = "fill" /\ s.copy = row[u] /\ s.op = req[r].op /\ s.user = u /\ s.email = req[r].email
          /\ s.codes = req[r].codes /\ s.invalid = req[r].invalid
      BY <1>1 DEF Works
    <3>3. Become(r, s)
      BY <1>4, <2>3 DEF Load
    <3> HIDE DEF s
    <3>4. req'[r] = s
      BY <3>1, <3>3, Becomes
    <3> QED
      BY <1>2, <2>1, <2>3, <3>2, <3>4, Moves DEF At, Posts
  <2> QED
    BY <2>2, <2>3
<1>5. CASE Fill(r)
  <2>1. At(r, "fill") /\ UNCHANGED <<row, session, asked, mailed, doomed, now>>
    BY <1>5 DEF Fill
  <2>2. /\ req'[r].at = "handle" /\ req'[r].op = req[r].op /\ req'[r].user = u /\ req'[r].email = req[r].email
        /\ req'[r].copy = req[r].copy /\ req'[r].codes = req[r].codes /\ req'[r].invalid = req[r].invalid
    BY <1>5, Goes DEF Fill, Places
  <2>3. req[r].copy = row[u] /\ row[u] # None
    BY <2>1 DEF UserInv, CopiesInv, Holds
  <2>4. cached'[u] = row[u]
    BY <1>5, <2>3 DEF Fill, TypeOK
  <2>5. \A q \in Requests \ {r} : req[q].user = u => ~At(q, "commit")
    BY DEF UserInv, Alone, RequestInv, Atomic
  <2> QED
    BY <1>2, <2>1, <2>2, <2>3, <2>4, <2>5, Moves DEF At, Posts
<1> QED
  BY <1>3, <1>4, <1>5

LEMMA KeptByRefusals ==
    ASSUME TypeOK, NEW r \in Requests, NEW u \in Users, req[r].user = u, UserInv(u), Read(r) \/ Fail(r)
    PROVE  UserInv(u)'
<1>1. /\ req'[r].user = None /\ req'[r].at = "idle"
      /\ \A q \in Requests \ {r} : req'[q] = req[q]
  BY AnsweredIsIdle DEF Read, Fail
<1>2. At(r, "handle") /\ cached' = cached /\ UNCHANGED <<row, session, asked, mailed, doomed, now>>
  BY DEF Read, Fail
<1>3. req[r].op # "validate"
  BY DEF Read, Fail, UserInv, CopiesInv
<1> QED
  BY <1>1, <1>2, <1>3, Moves, ProfilesAssumption DEF At

\* The sessions of a lone call that neither confirms nor renews.
LEMMA LoneSession ==
    ASSUME NEW u \in Users, UserInv(u), NEW r \in Requests, req[r].user = u, req[r].op # "read",
           req[r].op # "validate", req[r].op = "confirm" => ~At(r, "answer")
    PROVE  /\ session[u].codes = Mailed(u)
           /\ Owners(r) => session[u].live /\ Mailed(u) = req[r].codes
BY Only DEF UserInv, SessionInv

LEMMA KeptBySaves ==
    ASSUME TypeOK, \A q \in Requests : RequestInv(q), NEW r \in Requests, NEW u \in Users, req[r].user = u,
           UserInv(u), SaveAll(r) \/ SaveColumn(r) \/ Destroy(r)
    PROVE  UserInv(u)'
<1>1. req[r].op # "read" /\ At(r, "handle") /\ UNCHANGED <<cached, session, doomed, mailed>>
  BY DEF SaveAll, SaveColumn, Destroy, Saving, Columns
<1>2. /\ req'[r].at = "saved" /\ req'[r].op = req[r].op /\ req'[r].user = u /\ req'[r].email = req[r].email
      /\ req'[r].copy = req[r].copy /\ req'[r].codes = req[r].codes
      /\ \A q \in Requests \ {r} : req'[q] = req[q]
  BY Goes DEF SaveAll, SaveColumn, Destroy, Places
<1>3. /\ \A q \in Requests \ {r} : req'[q].user # u
      /\ u \notin doomed'
  BY <1>1, <1>2, Only
<1>4. row[u] = asked[u]
  BY DEF UserInv, CopiesInv
<1>5. /\ row'[u] = asked'[u]
      /\ Holds(r)' => req'[r].copy = row'[u]
      /\ Holds(r)' \/ req'[r].op = "validate" => row'[u] # None
      /\ ~Posts(r)'
  <2>0. ~Posts(r)'
    BY <1>2 DEF Posts
  <2>1. CASE SaveAll(r)
    <3>1. req[r].op \in Saving /\ Holds(r)
      BY <2>1 DEF SaveAll, Holds
    <3>2. req[r].copy = row[u] /\ row[u] # None
      BY <3>1 DEF UserInv, CopiesInv
    <3>3. ToSave(req[r]) = row[u]
      <4>1. row[u] \in Rows
        BY <3>2 DEF TypeOK, OrNone
      <4>2. req[r].op = "update" => req[r].invalid = row[u].invalid
        BY <1>1, <3>2 DEF UserInv, CopiesInv, Posts, At
      <4> QED
        BY <3>2, <4>1, <4>2 DEF ToSave, Rows
    <3>4. row'[u] = row[u] /\ asked' = asked
      BY <2>1, <3>3 DEF SaveAll, Put, TypeOK
    <3> QED
      BY <1>2, <1>4, <2>0, <3>2, <3>4
  <2>2. CASE SaveColumn(r)
    <3>1. req[r].op \in Columns /\ row[u] # None
      BY <2>2 DEF SaveColumn
    <3>2. row'[u] = Changed(r, row[u]) /\ asked'[u] = Changed(r, asked[u])
      BY <2>2 DEF SaveColumn, Put, TypeOK
    <3>3. Changed(r, row[u]) # None
      BY <3>1, Served, ChangedTyped DEF TypeOK
    <3>4. ~Holds(r)'
      BY <1>2, <3>1 DEF Holds, At, Columns
    <3> QED
      BY <1>4, <2>0, <3>2, <3>3, <3>4
  <2>3. CASE Destroy(r)
    <3>1. req[r].op = "destroy"
      BY <2>3 DEF Destroy
    <3>2. row'[u] = None /\ asked'[u] = None
      BY <2>3 DEF Destroy, Put, TypeOK
    <3>3. ~Holds(r)'
      BY <1>2, <3>1 DEF Holds, At
    <3> QED
      BY <1>2, <2>0, <3>1, <3>2, <3>3
  <2> QED
    BY <2>1, <2>2, <2>3
<1>6. /\ At(r, "saved")' /\ ~At(r, "commit")' /\ ~At(r, "answer")'
      /\ Owners(r)' <=> Owners(r)
  BY <1>2 DEF At, Owners
<1>m. Mailed(u)' = Mailed(u)
  BY <1>1 DEF Mailed
<1>7. /\ session'[u].codes = Mailed(u)' \/ req'[r].op = "validate"
      /\ Owners(r)' => /\ req'[r].op # "validate" => session'[u].live
                       /\ Mailed(u)' = req'[r].codes
  <2>1. ~At(r, "answer")
    BY <1>1 DEF At
  <2>2. CASE req[r].op = "validate"
    BY <1>1, <1>2, <1>6, <1>m, <2>1, <2>2 DEF UserInv, SessionInv
  <2>3. CASE req[r].op # "validate"
    BY <1>1, <1>2, <1>6, <1>m, <2>1, <2>3, LoneSession
  <2> QED
    BY <2>2, <2>3
<1>8. Owners(r)' =>
        /\ req'[r].op # "validate" => session'[u].live
        /\ Mailed(u)' = IF req'[r].op = "confirm" /\ At(r, "answer")' THEN req'[r].codes \ {req'[r].email} ELSE req'[r].codes
  BY <1>6, <1>7
<1> QED
  BY <1>2, <1>3, <1>5, <1>6, <1>7, <1>8, Lone

LEMMA KeptByInvalidate ==
    ASSUME TypeOK, \A q \in Requests : RequestInv(q), NEW r \in Requests, NEW u \in Users, req[r].user = u,
           UserInv(u), Invalidate(r)
    PROVE  UserInv(u)'
<1>1. /\ req[r].op \in Saving \union Columns \union {"destroy"}
      /\ At(r, "saved")
      /\ UNCHANGED <<row, asked, mailed, doomed>>
  BY DEF Invalidate, RequestInv
<1>2. req[r].op # "read" /\ req[r].op # "confirm"
  BY <1>1 DEF Saving, Columns
<1>3. cached'[u] = None
  BY DEF Invalidate, Drop, TypeOK
<1>4. /\ \A q \in Requests \ {r} : req'[q].user # u
      /\ u \notin doomed'
  BY <1>1, <1>2, Only, HandleRecord DEF Handle
<1>5. row'[u] = asked'[u] /\ Mailed(u)' = Mailed(u)
  BY <1>1 DEF UserInv, CopiesInv, Mailed
<1>6. CASE req[r].op = "password"
  <2> DEFINE s == [req[r] EXCEPT !.at = "handle", !.op = "validate"]
  <2>1. req[r] \in Works
    BY DEF TypeOK
  <2>2. s \in Works /\ s.at = "handle" /\ s.op = "validate" /\ s.user = u /\ s.codes = req[r].codes
    BY <2>1 DEF Works, Places, Ops, Columns
  <2>3. Become(r, s)
    BY <1>6 DEF Invalidate
  <2> HIDE DEF s
  <2>4. req'[r] = s
    BY <2>2, <2>3, Becomes
  <2>5. row'[u] # None
    BY <1>1, <1>6 DEF UserInv, CopiesInv, Holds
  <2>6. Mailed(u)' = req'[r].codes
    BY <1>1, <1>2, <1>5, <1>6, <2>2, <2>4, LoneSession DEF Owners, At
  <2>7. ~Holds(r)' /\ ~Posts(r)' /\ ~At(r, "commit")'
    BY <2>2, <2>4 DEF Holds, Posts, At, Saving
  <2> QED
    BY <1>3, <1>4, <1>5, <2>2, <2>4, <2>5, <2>6, <2>7, Lone
<1>7. CASE req[r].op # "password"
  <2>1. Go(r, "answer") /\ session' = session
    BY <1>7 DEF Invalidate
  <2>2. /\ req'[r].at = "answer" /\ req'[r].op = req[r].op /\ req'[r].user = u
        /\ req'[r].codes = req[r].codes
    BY <2>1, Goes DEF Places
  <2>3. ~Holds(r)' /\ ~Posts(r)' /\ ~At(r, "commit")' /\ (Owners(r)' <=> Owners(r))
    BY <2>2 DEF Holds, Posts, At, Owners
  <2>4. req'[r].op = "validate" => row'[u] # None
    BY <1>1, <2>2 DEF UserInv, CopiesInv
  <2>5. /\ session'[u].codes = Mailed(u)' \/ req'[r].op = "validate"
        /\ Owners(r)' => /\ req'[r].op # "validate" => session'[u].live
                         /\ Mailed(u)' = req'[r].codes
    <3>1. CASE req[r].op = "validate"
      BY <1>1, <1>5, <2>1, <2>2, <2>3, <3>1 DEF UserInv, SessionInv, At
    <3>2. CASE req[r].op # "validate"
      BY <1>1, <1>2, <1>5, <2>1, <2>2, <2>3, <3>2, LoneSession
    <3> QED
      BY <3>1, <3>2
  <2> QED
    BY <1>2, <1>3, <1>4, <1>5, <2>2, <2>3, <2>4, <2>5, Lone
<1> QED
  BY <1>6, <1>7

LEMMA KeptByTransactions ==
    ASSUME TypeOK, \A q \in Requests : RequestInv(q), NEW r \in Requests, NEW u \in Users, req[r].user = u,
           UserInv(u), SaveInTransaction(r) \/ Commit(r)
    PROVE  UserInv(u)'
<1>1. req[r].op \in Atomic /\ req[r].op # "read" /\ req[r].op # "validate" /\ ~At(r, "answer")
  BY DEF SaveInTransaction, Commit, RequestInv, Atomic, At
<1>2. /\ \A q \in Requests \ {r} : req'[q].user # u
      /\ u \notin doomed'
  BY <1>1, Only, HandleRecord DEF Handle, SaveInTransaction, Commit
<1>3. row[u] = asked[u] /\ (At(r, "commit") => cached[u] = None)
  BY DEF UserInv, CopiesInv
<1>4. Owners(r) /\ session[u].codes = Mailed(u) /\ session[u].live /\ Mailed(u) = req[r].codes
  BY <1>1, LoneSession DEF Owners, Atomic
<1>5. CASE SaveInTransaction(r)
  <2>1. /\ req'[r].at = "commit" /\ req'[r].op = req[r].op /\ req'[r].user = u
        /\ req'[r].codes = req[r].codes
    BY <1>5, Goes DEF SaveInTransaction, Places
  <2>2. cached'[u] = None /\ UNCHANGED <<row, asked, session, mailed>>
    BY <1>5 DEF SaveInTransaction, Drop, TypeOK
  <2>3. ~Holds(r)' /\ ~Posts(r)' /\ ~At(r, "answer")'
    BY <2>1 DEF Holds, Posts, At
  <2>4. Mailed(u)' = Mailed(u)
    BY <2>2 DEF Mailed
  <2> QED
    BY <1>1, <1>2, <1>3, <1>4, <2>1, <2>2, <2>3, <2>4, Lone
<1>6. CASE Commit(r)
  <2>1. /\ req'[r].at = "answer" /\ req'[r].op = req[r].op /\ req'[r].user = u
        /\ req'[r].codes = req[r].codes /\ req'[r].email = req[r].email
    BY <1>6, Goes DEF Commit, Places
  <2>2. row'[u] = Changed(r, row[u]) /\ asked'[u] = Changed(r, asked[u]) /\ UNCHANGED <<cached, session>>
    BY <1>6 DEF Commit, Put, TypeOK
  <2>3. cached[u] = None
    BY <1>3, <1>6 DEF Commit
  <2>4. Mailed(u)' = IF req[r].op = "confirm" THEN Mailed(u) \ {req[r].email} ELSE Mailed(u)
    BY <1>6 DEF Commit, Mailed, TypeOK
  <2>5. ~Holds(r)' /\ ~Posts(r)' /\ At(r, "answer")' /\ ~At(r, "commit")'
    BY <2>1 DEF Holds, Posts, At
  <2>6. \/ session'[u].codes = Mailed(u)'
        \/ req'[r].op = "confirm" /\ At(r, "answer")'
    BY <1>4, <2>1, <2>2, <2>4, <2>5
  <2>7. Mailed(u)' = IF req'[r].op = "confirm" /\ At(r, "answer")' THEN req'[r].codes \ {req'[r].email} ELSE req'[r].codes
    BY <1>4, <2>1, <2>4, <2>5
  <2>8. row'[u] = asked'[u]
    BY <1>3, <2>2
  <2> QED
    BY <1>1, <1>2, <1>4, <2>1, <2>2, <2>3, <2>5, <2>6, <2>7, <2>8, Lone
<1> QED
  BY <1>5, <1>6

LEMMA KeptByAnswers ==
    ASSUME TypeOK, \A q \in Requests : RequestInv(q), NEW r \in Requests, NEW u \in Users, req[r].user = u,
           UserInv(u),
           \/ AnswerNewEmail(r) \/ AnswerConfirm(r) \/ AnswerMark(r)
           \/ AnswerPassword(r) \/ AnswerOther(r)
    PROVE  UserInv(u)'
<1>1. At(r, "answer") /\ UNCHANGED <<row, cached, doomed, asked>>
  BY DEF AnswerNewEmail, AnswerConfirm, AnswerMark, AnswerPassword, AnswerOther
<1>2. req[r].op # "read"
  BY <1>1 DEF RequestInv
<1>3. /\ \A q \in Requests \ {r} : req[q].user # u
      /\ u \notin doomed'
  BY <1>1, <1>2, Only
<1>4. \A q \in Requests : req'[q].user # u
  BY <1>3, AnsweredIsIdle, ProfilesAssumption
     DEF AnswerNewEmail, AnswerConfirm, AnswerMark, AnswerPassword, AnswerOther
<1>5. row'[u] = asked'[u] /\ cached'[u] \in {None, row'[u]}
  BY <1>1, <1>3 DEF UserInv, CopiesInv, At
<1>6. session'[u].codes = Mailed(u)'
  <2>1. CASE AnswerNewEmail(r)
    <3>1. req[r].op = "update"
      BY <2>1 DEF AnswerNewEmail, Asks
    <3>2. session[u].codes = Mailed(u) /\ session[u].live /\ Mailed(u) = req[r].codes
      BY <3>1, LoneSession DEF Owners
    <3>3. CASE UNCHANGED <<mailed, session>>
      BY <3>2, <3>3 DEF Mailed
    <3>4. CASE /\ mailed' = [mailed EXCEPT ![u][req[r].email] = now]
               /\ Store(u, req[r].codes \union {req[r].email})
      <4>1. session' = [session EXCEPT ![u].codes = req[r].codes \union {req[r].email}]
        BY <3>2, <3>4 DEF Store
      <4>2. session'[u].codes = req[r].codes \union {req[r].email}
        BY <4>1 DEF TypeOK
      <4>3. req[r].email \in Emails
        BY <2>1, Served DEF AnswerNewEmail, Asks, Works, OrNone
      <4>4. now # 0
        BY DEF TypeOK
      <4>5. \A e \in Emails : mailed'[u][e] = IF e = req[r].email THEN now ELSE mailed[u][e]
        BY <3>4, <4>3 DEF TypeOK
      <4>6. Mailed(u)' = Mailed(u) \union {req[r].email}
        BY <4>3, <4>4, <4>5 DEF Mailed
      <4> QED
        BY <3>2, <4>2, <4>6
    <3> QED
      BY <2>1, <3>3, <3>4 DEF AnswerNewEmail
  <2>2. CASE AnswerConfirm(r)
    <3>1. req[r].op = "confirm" /\ mailed' = mailed
      BY <2>2 DEF AnswerConfirm
    <3>2. session[u].live /\ Mailed(u) = req[r].codes \ {req[r].email}
      BY <1>1, <3>1 DEF UserInv, SessionInv, Owners
    <3>3. session' = [session EXCEPT ![u].codes = req[r].codes \ {req[r].email}]
      BY <2>2, <3>2 DEF AnswerConfirm, Store
    <3>4. session'[u].codes = req[r].codes \ {req[r].email}
      BY <3>3 DEF TypeOK
    <3> QED
      BY <3>1, <3>2, <3>4 DEF Mailed
  <2>3. CASE AnswerMark(r)
    BY <2>3 DEF AnswerMark, Put, LoggedOut, NoMail, Mailed, TypeOK
  <2>4. CASE AnswerPassword(r)
    <3>1. req[r].op = "validate" /\ mailed' = mailed /\ session' = Put(session, u, [live |-> TRUE, codes |-> req[r].codes])
      BY <2>4 DEF AnswerPassword
    <3>2. Mailed(u) = req[r].codes
      BY <3>1 DEF UserInv, SessionInv, Owners
    <3> QED
      BY <3>1, <3>2 DEF Put, Mailed, TypeOK
  <2>5. CASE AnswerOther(r)
    <3>1. req[r].op \in {"update", "restore", "invalidate", "destroy"} /\ UNCHANGED <<session, mailed>>
      BY <2>5 DEF AnswerOther
    <3> QED
      BY <3>1, LoneSession DEF Mailed
  <2> QED
    BY <2>1, <2>2, <2>3, <2>4, <2>5
<1> QED
  BY <1>3, <1>4, <1>5, <1>6, Free

LEMMA KeptByHandle ==
    ASSUME TypeOK, TypeOK', \A q \in Requests : RequestInv(q), NEW r \in Requests, Handle(r),
           NEW u \in Users, UserInv(u)
    PROVE  UserInv(u)'
<1>1. CASE req[r].user = u
  BY <1>1, KeptByBackend, KeptByRefusals, KeptBySaves, KeptByInvalidate, KeptByTransactions, KeptByAnswers DEF Handle
<1>2. CASE req[r].user # u
  <2>1. /\ req'[r].user # u
        /\ \A q \in Requests \ {r} : req'[q] = req[q]
    BY <1>2, HandleRecord, ProfilesAssumption
  <2>2. /\ row'[u] = row[u] /\ cached'[u] = cached[u] /\ session'[u] = session[u]
        /\ asked'[u] = asked[u] /\ mailed'[u] = mailed[u]
        /\ UNCHANGED <<doomed, now>>
    BY <1>2, HandleFrame
  <2>3. now <= now'
    BY <2>2 DEF TypeOK
  <2> QED
    BY <1>2, <2>1, <2>2, <2>3, Undisturbed
<1> QED
  BY <1>1, <1>2

\* A request that comes in for a user overlaps with nothing, or is one of
\* several that read, if he is not among those whose calls are mixed.
LEMMA KeptByArrival ==
    ASSUME TypeOK, TypeOK', \A q \in Requests : RequestInv(q), NEW r \in Requests, NEW s \in Works,
           Arrive(r, s), s.user \in Users, s.at \in {"lookup", "handle"}, s.op # "validate",
           s.at = "handle" => s.op \in {"invalidate", "destroy"},
           s.at = "lookup" => session[s.user].live /\ s.codes = session[s.user].codes,
           req'[r] = s, \A q \in Requests \ {r} : req'[q] = req[q],
           NEW u \in Users \ mixed', UserInv(u)
    PROVE  UserInv(u)'
<1>1. UNCHANGED <<row, cached, session, doomed, now, asked, mailed>> /\ At(r, "idle")
  BY DEF Arrive
<1>2. req[r].user # u
  BY <1>1, ProfilesAssumption DEF RequestInv
<1>3. CASE s.user # u
  <2>1. now <= now'
    BY <1>1 DEF TypeOK
  <2>2. \A q \in Requests : req[q].user = u \/ req'[q].user = u => req'[q] = req[q]
    BY <1>2, <1>3
  <2> QED
    BY <1>1, <2>1, <2>2, Undisturbed
<1>4. CASE s.user = u
  <2>1. ~Overlaps(u, s.op) /\ ~Outdated(s)
    BY <1>4 DEF Arrive
  <2>m. Mailed(u)' = Mailed(u)
    BY <1>1 DEF Mailed
  <2>p. Posts(r)' /\ row'[u] # None => req'[r].invalid = row'[u].invalid
    BY <1>1, <1>4, <2>1 DEF Posts, Outdated
  <2>2. ~Holds(r)' /\ ~At(r, "commit")' /\ ~At(r, "saved")' /\ ~At(r, "answer")'
    BY DEF Holds, At, Saving
  <2>3. ~Changing(u)
    BY <2>1 DEF Overlaps
  <2>4. \A q \in Requests : req[q].user = u => ~At(q, "saved") /\ ~At(q, "commit") /\ ~At(q, "answer") /\ req[q].op = "read"
    BY <2>3 DEF Changing, RequestInv, Saving, Columns, Atomic
  <2>5. cached[u] \in {None, row[u]} /\ row[u] = asked[u] /\ session[u].codes = Mailed(u)
    BY <2>4 DEF UserInv, CopiesInv, SessionInv
  <2>6. CASE s.op = "read"
    <3>1. Alone(u)'
      BY <1>2, <2>4, <2>6 DEF Alone
    <3>2. CopiesInv(u)'
      <4>1. Due(row[u])' = Due(row[u])
        BY <1>1 DEF Due
      <4>2. ~Changing(u)'
        BY <2>4, <2>6 DEF Changing
      <4>3. ASSUME NEW q \in Requests, req'[q].user = u
            PROVE  /\ At(q, "commit")' => cached'[u] = None
                   /\ Holds(q)' => req'[q].copy = row'[u]
                   /\ Posts(q)' /\ row'[u] # None => req'[q].invalid = row'[u].invalid
                   /\ Holds(q)' \/ req'[q].op = "validate" => row'[u] # None
        BY <1>1, <2>2, <2>6, <2>p, <4>3 DEF UserInv, CopiesInv, Holds, Posts, At
      <4>4. row'[u] = asked'[u] /\ cached'[u] \in {None, row'[u]}
        BY <1>1, <2>5
      <4>5. u \in doomed' => Due(row[u])' /\ ~Changing(u)'
        BY <1>1, <4>1, <4>2 DEF UserInv, CopiesInv
      <4> QED
        BY <4>3, <4>4, <4>5 DEF CopiesInv
    <3>3. SessionInv(u)'
      BY <1>1, <2>4, <2>5, <2>6, <2>m DEF SessionInv, Owners
    <3> QED
      BY <3>1, <3>2, <3>3 DEF UserInv
  <2>7. CASE s.op # "read"
    <3>1. ~Busy(u) /\ u \notin doomed
      BY <2>1, <2>7 DEF Overlaps
    <3>2. \A q \in Requests \ {r} : req'[q].user # u
      BY <3>1 DEF Busy
    <3>3. Owners(r)' => session'[u].live /\ Mailed(u)' = req'[r].codes
      BY <1>1, <1>4, <2>5, <2>m DEF Owners
    <3>4. Owners(r)' =>
            /\ req'[r].op # "validate" => session'[u].live
            /\ Mailed(u)' = IF req'[r].op = "confirm" /\ At(r, "answer")' THEN req'[r].codes \ {req'[r].email} ELSE req'[r].codes
      BY <2>2, <3>3
    <3>5. /\ req'[r].user = u /\ row'[u] = asked'[u] /\ u \notin doomed' /\ cached'[u] \in {None, row'[u]}
          /\ session'[u].codes = Mailed(u)'
      BY <1>1, <1>4, <2>5, <2>m, <3>1
    <3> QED
      BY <2>2, <2>p, <3>2, <3>4, <3>5, Lone
  <2> QED
    BY <2>6, <2>7
<1> QED
  BY <1>3, <1>4

LEMMA KeptByRest ==
    ASSUME TypeOK, TypeOK', NEW u \in Users \ mixed', u \notin mixed => UserInv(u),
           \/ \E v \in Users : Login(v) \/ Expire(v) \/ DeleteDue(v) \/ SkipDue(v)
           \/ ReadDue \/ Tick
    PROVE  UserInv(u)'
<1>1. ASSUME NEW v \in Users, v # u, Login(v) \/ Expire(v) \/ DeleteDue(v) \/ SkipDue(v)
      PROVE  UserInv(u)'
  <2>1. /\ row'[u] = row[u] /\ cached'[u] = cached[u] /\ session'[u] = session[u]
        /\ asked'[u] = asked[u] /\ mailed'[u] = mailed[u]
        /\ UNCHANGED <<req, now>> /\ (u \in doomed' => u \in doomed)
    BY <1>1 DEF Login, Expire, DeleteDue, SkipDue, Drop, Put, TypeOK
  <2>2. u \notin mixed
    BY <1>1 DEF Login, Expire, DeleteDue, SkipDue
  <2>3. now <= now'
    BY <2>1 DEF TypeOK
  <2> QED
    BY <2>1, <2>2, <2>3, Undisturbed
<1>2. CASE Login(u)
  <2>1. u \notin mixed /\ ~Busy(u)
    BY <1>2 DEF Login
  <2>2. cached'[u] = None /\ session'[u].codes = session[u].codes /\ UNCHANGED <<row, req, doomed, now, asked, mailed>>
    BY <1>2 DEF Login, Drop, TypeOK
  <2>3. Due(row[u])' = Due(row[u])
    BY <2>2 DEF Due
  <2> QED
    BY <2>1, <2>2, <2>3, Free DEF Busy, UserInv, CopiesInv, SessionInv, Mailed
<1>3. CASE Expire(u)
  <2>1. cached'[u] = None /\ UNCHANGED <<row, session, req, doomed, now>>
    BY <1>3 DEF Expire, Drop, TypeOK
  <2>2. CASE Busy(u) \/ u \in doomed
    <3>1. UNCHANGED <<asked, mailed, mixed>>
      BY <1>3, <2>2 DEF Expire
    <3>2. now <= now'
      BY <2>1 DEF TypeOK
    <3> QED
      BY <2>1, <3>1, <3>2, Undisturbed
  <2>3. CASE ~(Busy(u) \/ u \in doomed)
    <3>1. asked'[u] = row[u]
      BY <1>3, <2>3 DEF Expire, Put, TypeOK
    <3> DEFINE kept == [e \in Emails |-> IF e \notin session[u].codes THEN 0
                                        ELSE IF e \in Mailed(u) THEN mailed[u][e] ELSE now]
    <3>a. mailed' = Put(mailed, u, kept)
      BY <1>3, <2>3 DEF Expire
    <3>b. mailed'[u] = kept
      <4> HIDE DEF kept
      <4> QED
        BY <3>a DEF Put, TypeOK
    <3>2. \A e \in Emails : mailed'[u][e] = IF e \notin session[u].codes THEN 0 ELSE IF e \in Mailed(u) THEN mailed[u][e] ELSE now
      BY <3>b
    <3> HIDE DEF kept
    <3>3. \A e \in Emails : mailed'[u][e] # 0 <=> e \in session[u].codes
      <4>1. now # 0 /\ \A e \in Mailed(u) : mailed[u][e] # 0
        BY ProfilesAssumption DEF Mailed, TypeOK
      <4> QED
        BY <3>2, <4>1
    <3>4. Mailed(u)' = session[u].codes
      BY <3>3 DEF Mailed, TypeOK
    <3> QED
      BY <2>1, <2>3, <3>1, <3>4, Free DEF Busy
  <2> QED
    BY <2>2, <2>3
<1>4. CASE DeleteDue(u)
  <2>1. u \notin mixed /\ ~Busy(u) /\ cached[u] = None /\ u \in doomed
    BY <1>4 DEF DeleteDue
  <2>2. Due(asked[u]) /\ session[u].codes = Mailed(u)
    BY <2>1 DEF UserInv, CopiesInv, SessionInv, Busy
  <2>3. /\ row'[u] = None /\ asked'[u] = None /\ u \notin doomed'
        /\ UNCHANGED <<cached, session, req, mailed>>
    BY <1>4, <2>2 DEF DeleteDue, Put, TypeOK
  <2> QED
    BY <2>1, <2>2, <2>3, Free DEF Busy, Mailed
<1>5. CASE SkipDue(u)
  <2>1. u \notin mixed /\ UNCHANGED <<row, cached, session, req, now, asked, mailed>> /\ u \notin doomed'
    BY <1>5 DEF SkipDue
  <2>2. now <= now'
    BY <2>1 DEF TypeOK
  <2> QED
    BY <2>1, <2>2, Undisturbed
<1>6. CASE ReadDue
  <2>1. /\ UNCHANGED <<row, cached, session, req, now, asked, mailed>>
        /\ u \notin mixed
        /\ u \in doomed' => Due(row[u]) /\ ~Changing(u)
    BY <1>6 DEF ReadDue
  <2>2. now <= now'
    BY <2>1 DEF TypeOK
  <2> QED
    BY <2>1, <2>2, Undisturbed
<1>7. CASE Tick
  <2>1. now <= now' /\ UNCHANGED <<row, cached, session, req, doomed, asked, mailed, mixed>>
    BY <1>7 DEF Tick, TypeOK
  <2> QED
    BY <2>1, Undisturbed
<1> QED
  BY <1>1, <1>2, <1>3, <1>4, <1>5, <1>6, <1>7

LEMMA Starts == Init => ProfilesInv
<1> SUFFICES ASSUME Init PROVE ProfilesInv
  OBVIOUS
<1>1. \A u \in Users : row[u] \in Rows
  BY ProfilesAssumption DEF Init, Rows
<1>2. \A r \in Requests : req[r] = Idle
  BY DEF Init
<1>3. Idle \in Works /\ Idle.at = "idle" /\ Idle.op = "read" /\ Idle.user = None
  BY DEF Idle, Works, Places, Ops, OrNone
<1>4. \A u \in Users : session[u] = LoggedOut
  BY DEF Init
<1>5. TypeOK
  <2>1. LoggedOut \in [live : BOOLEAN, codes : SUBSET Emails]
    BY DEF LoggedOut
  <2>2. row \in [Users -> OrNone(Rows)]
    BY <1>1 DEF Init, OrNone
  <2> QED
    BY <1>3, <2>1, <2>2, ProfilesAssumption DEF Init, NoMail, TypeOK, OrNone
<1>6. \A r \in Requests : RequestInv(r)
  BY <1>2, <1>3 DEF RequestInv, At
<1>7. ASSUME NEW u \in Users PROVE UserInv(u)
  <2>1. \A r \in Requests : req[r].user # u
    BY <1>2, <1>3, ProfilesAssumption
  <2>2. session[u].codes = Mailed(u)
    BY <1>4 DEF LoggedOut, Mailed, NoMail, Init
  <2> QED
    BY <2>1, <2>2 DEF UserInv, Alone, CopiesInv, SessionInv, Init
<1> QED
  BY <1>5, <1>6, <1>7 DEF ProfilesInv

LEMMA Inductive == ProfilesInv /\ [Next]_vars => ProfilesInv'
<1> SUFFICES ASSUME ProfilesInv, [Next]_vars PROVE ProfilesInv'
  OBVIOUS
<1>1. /\ TypeOK /\ TypeOK'
      /\ \A r \in Requests : RequestInv(r) /\ RequestInv(r)'
      /\ \A u \in Users \ mixed : UserInv(u)
  BY TypeKept, RequestsKept DEF ProfilesInv
<1>2. ASSUME NEW u \in Users \ mixed' PROVE UserInv(u)'
  <2>1. ASSUME NEW r \in Requests, NEW v \in Users,
               NEW op \in {"read", "mark"} \union Saving \union Atomic, NEW e \in OrNone(Emails), Call(r, v, op, e)
        PROVE  UserInv(u)'
    <3>1. PICK s \in Works : /\ Arrive(r, s)
                             /\ s.at = "lookup" /\ s.op = op /\ s.user = v /\ s.email = e /\ s.codes = session[v].codes
      BY <1>1, <2>1, CallRecord
    <3>2. (op = "confirm" => e # None) /\ session[v].live /\ op # "validate"
      BY <2>1 DEF Call, Saving, Atomic
    <3>3. req'[r] = s /\ \A q \in Requests \ {r} : req'[q] = req[q]
      BY <1>1, <3>1, <3>2, ArriveRecord
    <3>4. u \notin mixed
      BY <3>1 DEF Arrive
    <3> QED
      BY <1>1, <3>1, <3>2, <3>3, <3>4, KeptByArrival
  <2>2. ASSUME NEW r \in Requests, NEW v \in Users, NEW op \in {"invalidate", "destroy"}, Manage(r, v, op)
        PROVE  UserInv(u)'
    <3>1. PICK s \in Works : Arrive(r, s) /\ s.at = "handle" /\ s.op = op /\ s.user = v
      BY <1>1, <2>2, ManageRecord
    <3>2. req'[r] = s /\ \A q \in Requests \ {r} : req'[q] = req[q]
      BY <1>1, <3>1, ArriveRecord
    <3>3. u \notin mixed
      BY <3>1 DEF Arrive
    <3> QED
      BY <1>1, <3>1, <3>2, <3>3, KeptByArrival
  <2>3. ASSUME NEW r \in Requests, Handle(r) PROVE UserInv(u)'
    <3>1. u \notin mixed
      BY <2>3 DEF Handle, Lookup, Load, Fill, Read, SaveAll, SaveColumn, Destroy, Invalidate, SaveInTransaction,
                  Commit, Fail, AnswerNewEmail, AnswerConfirm, AnswerMark, AnswerPassword, AnswerOther
    <3> QED
      BY <1>1, <2>3, <3>1, KeptByHandle
  <2>4. CASE \/ \E v \in Users : Login(v) \/ Expire(v) \/ DeleteDue(v) \/ SkipDue(v)
             \/ ReadDue \/ Tick
    BY <1>1, <2>4, KeptByRest
  <2>5. CASE UNCHANGED vars
    <3>1. now <= now' /\ UNCHANGED <<row, cached, session, req, doomed, asked, mailed, mixed>>
      BY <1>1, <2>5 DEF vars, TypeOK
    <3> QED
      BY <1>1, <3>1, Undisturbed
  <2> QED
    BY <2>1, <2>2, <2>3, <2>4, <2>5 DEF Next
<1> QED
  BY <1>1, <1>2 DEF ProfilesInv

-----------------------------------------------------------------------------

\* In every reachable state a request is where its operation takes it, and the
\* copies of the row and of the session of a user whose calls do not overlap
\* are up to date wherever they may still be saved or cached (auth_backends.py:11-49,
\* profile.py:442-635, account.py:171-200).
THEOREM ProfilesInvariant == Spec => []ProfilesInv
BY Starts, Inductive, PTL DEF Spec

\* However many users and requests there are, the row of a user is what his
\* calls and the calls of the staff made of it, as long as no two of them
\* overlap and delete_users finds no copy of him (profile.py:485-635).  A form
\* that is posted with a password_invalid that is no longer the row's overlaps
\* with the call that changed it (profile.py:122).
THEOREM ProfilesRow == Spec => []RowIsAsAsked
<1>1. ProfilesInv => RowIsAsAsked
  BY DEF ProfilesInv, UserInv, CopiesInv, RowIsAsAsked
<1> QED
  BY <1>1, ProfilesInvariant, PTL

\* The cached copy of such a user is his row, but between a save and the
\* signal that drops it (auth_backends.py:11-49).
THEOREM ProfilesCache == Spec => []CacheIsRow
<1>1. ProfilesInv => CacheIsRow
  BY DEF ProfilesInv, UserInv, CopiesInv, CacheIsRow
<1> QED
  BY <1>1, ProfilesInvariant, PTL

\* Between the calls of such a user, his session holds no address but those to
\* which a code was mailed that he has not used, and each of them at least as
\* long as the mail says (profile.py:478-533).
THEOREM ProfilesCodes == Spec => []CodesAreMailed
<1>1. ProfilesInv => CodesAreMailed
  BY DEF ProfilesInv, UserInv, SessionInv, CodesAreMailed, Busy, InTime
<1> QED
  BY <1>1, ProfilesInvariant, PTL
=============================================================================
