----------------------- MODULE NotificationFrontProofs -----------------------
(***************************************************************************)
(* FrontInv and AloneInv are inductive, so that, for any number of         *)
(* requests and any settings, what was answered is sent, nothing starts    *)
(* before its time, and a request served alone is neither duplicated nor   *)
(* forgotten.                                                              *)
(***************************************************************************)
EXTENDS NotificationFront, FiniteSetTheorems, TLAPS

\* The invariant of a request that does not move is kept by a step that
\* leaves its row where it is and what others may see (notification.py:158-243).
LEMMA RowInvKept ==
    ASSUME NEW r \in Requests, TypeOK, RowInv(r), req'[r] = req[r],
           \/ rows'[r] = rows[r]
           \/ rows[r].stored /\ rows'[r].stored /\ rows'[r].committed = rows[r].committed,
           Sent(r)' <=> Sent(r),
           \A q \in Requests : Visible(q) => Visible(q)'
    PROVE  RowInv(r)'
<1> req[r].target \in Requests
  BY DEF TypeOK, Locals
<1> rows[r] = NoRow => ~rows[r].stored
  BY DEF NoRow
<1> QED
  BY DEF RowInv, At, Visible

\* A step of a request that only moves it among the places before it stores
\* anything keeps the invariant (email_notification.py:122-147).
LEMMA EarlyStep ==
    ASSUME FrontInv, TypeOK', NEW r \in Requests,
           UNCHANGED <<rows, queue, started>>,
           \A q \in Requests \ {r} : req'[q] = req[q],
           req[r].at \in Early,
           req'[r].at \in (Early \ {"bump"}) \union {"read", "denied"},
           \A t \in queue : TaskInv(t)'
    PROVE  FrontInv'
<1>1. \A q \in Requests : /\ Visible(q) => Visible(q)'
                          /\ Sent(q)' <=> Sent(q)
  BY DEF Visible, Sent
<1>2. rows[r] = NoRow /\ ~Sent(r) /\ ~Visible(r)
  BY DEF FrontInv, RowInv, Visible, NoRow
<1>3. RowInv(r)'
  BY <1>1, <1>2 DEF RowInv, At, Visible, Early
<1>4. ASSUME NEW q \in Requests \ {r} PROVE RowInv(q)'
  BY <1>1, RowInvKept DEF FrontInv
<1> QED
  BY <1>3, <1>4 DEF FrontInv

\* A step that stores the row of a request or moves it on from there, with
\* its task, keeps the invariant when it does so for this request
\* (notification.py:158-243).
LEMMA RowStep ==
    ASSUME FrontInv, TypeOK', NEW r \in Requests,
           \A q \in Requests \ {r} :
             /\ req'[q] = req[q]
             /\ \/ rows'[q] = rows[q]
                \/ rows[q].stored /\ rows'[q].stored /\ rows'[q].committed = rows[q].committed
             /\ Sent(q)' <=> Sent(q),
           Visible(r) => Visible(r)',
           RowInv(r)',
           \A t \in queue' : TaskInv(t)'
    PROVE  FrontInv'
<1>1. ASSUME NEW q \in Requests PROVE Visible(q) => Visible(q)'
  <2>1. CASE q = r
    BY <2>1
  <2>2. CASE q # r
    BY <2>2 DEF Visible
  <2> QED
    BY <2>1, <2>2
<1>2. ASSUME NEW q \in Requests \ {r} PROVE RowInv(q)'
  BY <1>1, RowInvKept DEF FrontInv
<1> QED
  BY <1>2 DEF FrontInv

\* What is assumed of the calls of each request holds of all calls.
LEMMA CallFacts ==
    ASSUME FrontAssumption, NEW c \in AllCalls
    PROVE  /\ c.kind \in {"mail", "system", "notice", "read"}
           /\ c.delay \in Nat \union {Now}
           /\ c.atomic \in BOOLEAN
  BY DEF FrontAssumption, AllCalls

\* The invariant holds in the initial states.
LEMMA FrontInit == ASSUME FrontAssumption, Init PROVE FrontInv
<1>1. ASSUME NEW r \in Requests PROVE (CHOOSE c \in Calls[r] : TRUE) \in Calls[r]
  BY DEF FrontAssumption
<1>2. 0 \in Times /\ 0 \div Minute = 0
  BY DEF FrontAssumption, Times
<1>3. 0 \in Minutes
  BY <1>2 DEF Minutes
<1>4. req \in [Requests -> Locals]
  BY <1>1, <1>3 DEF Init, Locals, AllCalls, Places
<1>5. TypeOK
  BY <1>2, <1>3, <1>4 DEF Init, TypeOK
<1>6. ASSUME NEW r \in Requests PROVE RowInv(r)
  BY DEF Init, RowInv, At, Sent, Visible, Early, NoRow
<1> QED
  BY <1>5, <1>6 DEF FrontInv, Init

\* The local variables keep their types when they are set.
LEMMA LocalTypes ==
    ASSUME NEW l \in Locals, NEW p \in Places
    PROVE  /\ [l EXCEPT !.at = p] \in Locals
           /\ \A c \in AllCalls, i \in Int : [l EXCEPT !.at = p, !.call = c, !.to = i] \in Locals
           /\ \A m \in Minutes : [l EXCEPT !.at = p, !.minute = m] \in Locals
           /\ \A n \in Nat : [l EXCEPT !.at = p, !.seen = n] \in Locals
           /\ \A S \in SUBSET Requests : [l EXCEPT !.at = p, !.session = S] \in Locals
           /\ \A q \in Requests, n \in Nat :
                [l EXCEPT !.at = p, !.target = q, !.seen = n] \in Locals
  BY DEF Locals

LEMMA BecomeType ==
    ASSUME TypeOK, NEW r \in Requests, NEW l \in Locals, Become(r, l)
    PROVE  req' \in [Requests -> Locals]
  BY DEF TypeOK, Become

\* Every step keeps the types.
LEMMA FrontTypes == ASSUME FrontAssumption, FrontInv, Next PROVE TypeOK'
<1> USE DEF Go
<1>0. /\ TypeOK
      /\ \A r \in Requests : req[r] \in Locals /\ RowInv(r)
  BY DEF FrontInv, TypeOK
<1>1. ThisMinute \in Minutes /\ throttle[ThisMinute] \in Nat
  BY <1>0 DEF TypeOK, ThisMinute, Minutes
<1>p. Active \union Answers \subseteq Places
  BY DEF Places
<1>2. ASSUME NEW r \in Requests, NEW c \in Calls[r], Call(r, c) PROVE TypeOK'
  <2>1. c \in AllCalls /\ now + c.delay \in Int
    BY <1>0, CallFacts DEF AllCalls, Now, TypeOK, Times
  <2>2. First(c) \in Places
    BY <2>1, CallFacts DEF First, Places, Active
  <2>3. req' \in [Requests -> Locals]
    BY <1>0, <1>2, <2>1, <2>2, LocalTypes, BecomeType DEF Call
  <2> QED
    BY <1>0, <1>2, <2>3 DEF Call, TypeOK
<1>3. ASSUME NEW r \in Requests, CheckLimit(r) PROVE TypeOK'
  <2>1. (IF TooMany(throttle[ThisMinute]) THEN "denied" ELSE "register") \in Places
    BY <1>p DEF Active, Answers
  <2>2. req' \in [Requests -> Locals]
    BY <1>0, <1>1, <1>3, <2>1, LocalTypes, BecomeType DEF CheckLimit
  <2> QED
    BY <1>0, <1>3, <2>2 DEF CheckLimit, TypeOK
<1>4. ASSUME NEW r \in Requests, ReadCount(r) PROVE TypeOK'
  <2>1. (IF throttle[ThisMinute] > Limit + 1 THEN "similar" ELSE "count") \in Places
    BY <1>p DEF Active
  <2>2. (IF throttle[ThisMinute] > Limit + 1 THEN 0 ELSE throttle[ThisMinute]) \in Nat
    BY <1>1
  <2>3. req' \in [Requests -> Locals]
    BY <1>0, <1>4, <2>1, <2>2, LocalTypes, BecomeType DEF ReadCount
  <2> QED
    BY <1>0, <1>4, <2>3 DEF ReadCount, TypeOK
<1>5. ASSUME NEW r \in Requests, WriteCount(r) PROVE TypeOK'
  <2>1. "similar" \in Places /\ req[r].seen + 1 \in Nat
    BY <1>0, <1>p DEF Active, Locals
  <2>2. req' \in [Requests -> Locals]
    BY <1>0, <1>5, <2>1, LocalTypes, BecomeType DEF WriteCount
  <2> QED
    BY <1>0, <1>5, <2>1, <2>2 DEF WriteCount, TypeOK
<1>6. ASSUME NEW r \in Requests, CheckOverlap(r) PROVE TypeOK'
  <2>1. {"denied", "similar"} \subseteq Places
    BY <1>p DEF Active, Answers
  <2>2. req' \in [Requests -> Locals]
    BY <1>0, <1>6, <2>1, LocalTypes, BecomeType DEF CheckOverlap
  <2> QED
    BY <1>0, <1>6, <2>2 DEF CheckOverlap, TypeOK
<1>7. ASSUME NEW r \in Requests, ReadSession(r) PROVE TypeOK'
  <2>1. "write" \in Places /\ read \union {r} \in SUBSET Requests
    BY <1>0, <1>p DEF Active, TypeOK
  <2>2. req' \in [Requests -> Locals]
    BY <1>0, <1>7, <2>1, LocalTypes, BecomeType DEF ReadSession
  <2> QED
    BY <1>0, <1>7, <2>2 DEF ReadSession, TypeOK
<1>8. ASSUME NEW r \in Requests, WriteSession(r) PROVE TypeOK'
  <2>1. "read" \in Places /\ req[r].session \subseteq Requests /\ {} \in SUBSET Requests
    BY <1>0, <1>p DEF Answers, Locals
  <2>2. req' \in [Requests -> Locals]
    BY <1>0, <1>8, <2>1, LocalTypes, BecomeType DEF WriteSession
  <2> QED
    BY <1>0, <1>8, <2>1, <2>2 DEF WriteSession, TypeOK
<1>9. ASSUME NEW r \in Requests, FindSimilar(r) PROVE TypeOK'
  <2>1. {"save", "bump"} \subseteq Places
    BY <1>p DEF Active
  <2>2. ASSUME NEW q \in Newest(SimilarTo(r)) PROVE q \in Requests /\ rows[q].counter \in Nat
    <3>1. q \in Requests /\ rows[q].stored
      BY DEF Newest, SimilarTo, Visible
    <3>2. rows[q] \in Rows
      BY <1>0, <3>1 DEF TypeOK, NoRow
    <3> QED
      BY <3>1, <3>2 DEF Rows
  <2>3. req' \in [Requests -> Locals]
    BY <1>0, <1>9, <2>1, <2>2, LocalTypes, BecomeType DEF FindSimilar
  <2> QED
    BY <1>0, <1>9, <2>3 DEF FindSimilar, TypeOK
<1>10. ASSUME NEW r \in Requests, Bump(r) PROVE TypeOK'
  <2>1. "merged" \in Places /\ CountedUp(r) \in Nat /\ req[r].target \in Requests
    BY <1>0, <1>p DEF Answers, Locals, CountedUp
  <2>2. rows[req[r].target] \in Rows
    BY <1>0, <1>10, <2>1 DEF Bump, RowInv, Visible, At, TypeOK, NoRow
  <2>3. [rows[req[r].target] EXCEPT !.counter = CountedUp(r)] \in Rows
    BY <2>1, <2>2 DEF Rows
  <2>4. rows' \in [Requests -> Rows \union {NoRow}]
    BY <1>0, <1>10, <2>1, <2>3 DEF Bump, TypeOK
  <2>5. req' \in [Requests -> Locals]
    BY <1>0, <1>10, <2>1, LocalTypes, BecomeType DEF Bump
  <2> QED
    BY <1>0, <1>10, <2>4, <2>5 DEF Bump, TypeOK
<1>11. ASSUME NEW r \in Requests, Save(r) PROVE TypeOK'
  <2>1. "enqueue" \in Places /\ req[r].to \in Int /\ (~req[r].call.atomic) \in BOOLEAN
    BY <1>0, <1>p, CallFacts DEF Active, Locals
  <2>2. [stored |-> TRUE, at |-> now, to |-> req[r].to, counter |-> 1,
         committed |-> ~req[r].call.atomic] \in Rows
    BY <1>0, <2>1 DEF TypeOK, Rows
  <2>3. req' \in [Requests -> Locals]
    BY <1>0, <1>11, <2>1, LocalTypes, BecomeType DEF Save
  <2> QED
    BY <1>0, <1>11, <2>2, <2>3 DEF Save, TypeOK
<1>12. ASSUME NEW r \in Requests, Abort(r) PROVE TypeOK'
  <2>1. "failed" \in Places
    BY <1>p DEF Answers
  <2>2. req' \in [Requests -> Locals]
    BY <1>0, <1>12, <2>1, LocalTypes, BecomeType DEF Abort
  <2> QED
    BY <1>0, <1>12, <2>2 DEF Abort, TypeOK
<1>13. ASSUME NEW r \in Requests, Enqueue(r) PROVE TypeOK'
  <2>1. Eta(r) \in Int
    BY <1>0 DEF Eta, TypeOK, Locals, Times
  <2>2. (IF req[r].call.atomic THEN "commit" ELSE "queued") \in Places
    BY <1>p DEF Active, Answers
  <2>3. req' \in [Requests -> Locals]
    BY <1>0, <1>13, <2>2, LocalTypes, BecomeType DEF Enqueue
  <2> QED
    BY <1>0, <1>13, <2>1, <2>3 DEF Enqueue, TypeOK, Tasks
<1>14. ASSUME NEW r \in Requests, SendNow(r) PROVE TypeOK'
  <2>1. (IF req[r].call.atomic THEN "commit" ELSE "sent") \in Places
    BY <1>p DEF Active, Answers
  <2>2. req' \in [Requests -> Locals]
    BY <1>0, <1>14, <2>1, LocalTypes, BecomeType DEF SendNow
  <2> QED
    BY <1>0, <1>14, <2>2 DEF SendNow, TypeOK
<1>15. ASSUME NEW r \in Requests, Commit(r) PROVE TypeOK'
  <2>1. rows[r] \in Rows
    BY <1>0, <1>15 DEF Commit, RowInv, At, TypeOK, NoRow
  <2>2. [rows[r] EXCEPT !.committed = TRUE] \in Rows
    BY <2>1 DEF Rows
  <2>3. (IF req[r].call.delay = Now THEN "sent" ELSE "queued") \in Places
    BY <1>p DEF Answers
  <2>4. req' \in [Requests -> Locals]
    BY <1>0, <1>15, <2>3, LocalTypes, BecomeType DEF Commit
  <2> QED
    BY <1>0, <1>15, <2>2, <2>4 DEF Commit, TypeOK
<1>16. ASSUME NEW t \in queue, StartTask(t) PROVE TypeOK'
  BY <1>0, <1>16 DEF StartTask, TypeOK, Tasks
<1>17. CASE Tick
  BY <1>0, <1>17 DEF Tick, TypeOK, Times, FrontAssumption
<1>18. CASE Finished
  BY <1>0, <1>18 DEF Finished, vars, TypeOK
<1> QED
  BY <1>2, <1>3, <1>4, <1>5, <1>6, <1>7, <1>8, <1>9, <1>10, <1>11, <1>12, <1>13, <1>14, <1>15,
     <1>16, <1>17, <1>18 DEF Next, Step, EnqueueRaises, Break

\* Every step keeps what ties requests, rows and tasks together.
LEMMA FrontNext == ASSUME FrontAssumption, FrontInv, Next, TypeOK' PROVE FrontInv'
<1> USE DEF Go, Become
<1>0. /\ TypeOK
      /\ \A r \in Requests : req[r] \in Locals /\ RowInv(r)
      /\ \A t \in queue : TaskInv(t) /\ t.of \in Requests
  BY DEF FrontInv, TypeOK, Tasks
<1>1. \A r \in Requests : rows[r] = NoRow => ~rows[r].stored
  BY DEF NoRow
<1>2. ASSUME NEW r \in Requests, UNCHANGED queue, req'[r].call = req[r].call, req'[r].to = req[r].to,
             \A q \in Requests \ {r} : req'[q] = req[q]
      PROVE  \A t \in queue' : TaskInv(t)'
  BY <1>0, <1>2 DEF TaskInv
<1>3. ASSUME NEW r \in Requests, NEW c \in Calls[r], Call(r, c) PROVE FrontInv'
  <2>1. At(r, "new") /\ ~Sent(r)
    BY <1>0, <1>3 DEF Call, RowInv, At, Early
  <2>2. \A t \in queue : TaskInv(t)'
    BY <1>0, <1>3, <2>1 DEF Call, TaskInv, Sent, TypeOK
  <2>3. req'[r].at \in Early \ {"bump"}
    <3>1. req'[r].at = First(c)
      BY <1>0, <1>3 DEF Call, TypeOK, Locals
    <3> QED
      BY <3>1, CallFacts DEF First, Early, AllCalls
  <2> QED
    BY <1>0, <1>3, <2>1, <2>2, <2>3, EarlyStep DEF Call, At, Early, TypeOK
<1>5. ASSUME NEW r \in Requests, CheckLimit(r) PROVE FrontInv'
  <2>1. /\ At(r, "limit")
        /\ UNCHANGED <<rows, queue, started>>
        /\ \A q \in Requests \ {r} : req'[q] = req[q]
        /\ req'[r].at = "denied" \/ req'[r].at = "register"
        /\ req'[r].call = req[r].call /\ req'[r].to = req[r].to
    BY <1>0, <1>5 DEF CheckLimit, TypeOK, Locals
  <2> QED
    BY <1>2, <2>1, EarlyStep DEF At, Early
<1>15. ASSUME NEW r \in Requests, ReadCount(r) PROVE FrontInv'
  <2>1. /\ At(r, "register")
        /\ UNCHANGED <<rows, queue, started>>
        /\ \A q \in Requests \ {r} : req'[q] = req[q]
        /\ req'[r].at = "similar" \/ req'[r].at = "count"
        /\ req'[r].call = req[r].call /\ req'[r].to = req[r].to
    BY <1>0, <1>15 DEF ReadCount, TypeOK, Locals
  <2> QED
    BY <1>2, <2>1, EarlyStep DEF At, Early
<1>16. ASSUME NEW r \in Requests, WriteCount(r) PROVE FrontInv'
  <2>1. /\ At(r, "count")
        /\ UNCHANGED <<rows, queue, started>>
        /\ \A q \in Requests \ {r} : req'[q] = req[q]
        /\ req'[r].at = "similar"
        /\ req'[r].call = req[r].call /\ req'[r].to = req[r].to
    BY <1>0, <1>16 DEF WriteCount, TypeOK, Locals
  <2> QED
    BY <1>2, <2>1, EarlyStep DEF At, Early
<1>17. ASSUME NEW r \in Requests, CheckOverlap(r) PROVE FrontInv'
  <2>1. /\ At(r, "overlap")
        /\ UNCHANGED <<rows, queue, started>>
        /\ \A q \in Requests \ {r} : req'[q] = req[q]
        /\ req'[r].at = "denied" \/ req'[r].at = "similar"
        /\ req'[r].call = req[r].call /\ req'[r].to = req[r].to
    BY <1>0, <1>17 DEF CheckOverlap, TypeOK, Locals
  <2> QED
    BY <1>2, <2>1, EarlyStep DEF At, Early
<1>18. ASSUME NEW r \in Requests, ReadSession(r) PROVE FrontInv'
  <2>1. /\ At(r, "reading")
        /\ UNCHANGED <<rows, queue, started>>
        /\ \A q \in Requests \ {r} : req'[q] = req[q]
        /\ req'[r].at = "write"
        /\ req'[r].call = req[r].call /\ req'[r].to = req[r].to
    BY <1>0, <1>18 DEF ReadSession, TypeOK, Locals
  <2> QED
    BY <1>2, <2>1, EarlyStep DEF At, Early
<1>19. ASSUME NEW r \in Requests, WriteSession(r) PROVE FrontInv'
  <2>1. /\ At(r, "write")
        /\ UNCHANGED <<rows, queue, started>>
        /\ \A q \in Requests \ {r} : req'[q] = req[q]
        /\ req'[r].at = "read"
        /\ req'[r].call = req[r].call /\ req'[r].to = req[r].to
    BY <1>0, <1>19 DEF WriteSession, TypeOK, Locals
  <2> QED
    BY <1>2, <2>1, EarlyStep DEF At, Early
<1>20. ASSUME NEW r \in Requests, FindSimilar(r) PROVE FrontInv'
  <2>1. UNCHANGED <<rows, queue, started>> /\ At(r, "similar")
    BY <1>20 DEF FindSimilar
  <2>2. CASE Go(r, "save")
    <3>1. /\ req'[r].at = "save"
          /\ req'[r].call = req[r].call /\ req'[r].to = req[r].to
          /\ \A p \in Requests \ {r} : req'[p] = req[p]
      BY <1>0, <2>2 DEF TypeOK, Locals
    <3> QED
      BY <1>2, <2>1, <3>1, EarlyStep DEF At, Early
  <2>3. ASSUME NEW q \in Newest(SimilarTo(r)),
               Become(r, [req[r] EXCEPT !.at = "bump", !.target = q, !.seen = rows[q].counter])
        PROVE  FrontInv'
    <3>1. q \in Requests /\ Visible(q)
      BY DEF Newest, SimilarTo
    <3>2. /\ req'[r].at = "bump" /\ req'[r].target = q
          /\ req'[r].call = req[r].call /\ req'[r].to = req[r].to
          /\ \A p \in Requests \ {r} : req'[p] = req[p]
      BY <1>0, <2>3 DEF TypeOK, Locals
    <3>3. RowInv(r)'
      BY <1>0, <2>1, <3>1, <3>2 DEF RowInv, At, Visible, Early, Sent
    <3> QED
      BY <1>2, <2>1, <3>2, <3>3, RowStep DEF Sent, Visible
  <2> QED
    BY <1>20, <2>2, <2>3 DEF FindSimilar
<1>6. ASSUME NEW r \in Requests, Bump(r) PROVE FrontInv'
  <2> DEFINE q == req[r].target
  <2>1. At(r, "bump") /\ q \in Requests /\ Visible(q) /\ rows[q] \in Rows
    BY <1>0, <1>6 DEF Bump, At, RowInv, Visible, Locals, TypeOK, NoRow
  <2>2. rows[r] = NoRow /\ q # r
    BY <1>0, <1>1, <2>1 DEF RowInv, Early, At, Visible
  <2>3. /\ rows'[q].stored /\ rows'[q].committed
        /\ \A p \in Requests \ {q} : rows'[p] = rows[p]
    BY <1>0, <1>6, <2>1 DEF Bump, TypeOK, Rows, Visible
  <2>4. /\ UNCHANGED <<queue, started>>
        /\ \A p \in Requests \ {r} : req'[p] = req[p]
        /\ req'[r].at = "merged" /\ req'[r].target = q
        /\ req'[r].call = req[r].call /\ req'[r].to = req[r].to
    BY <1>0, <1>6 DEF Bump, TypeOK, Locals
  <2>5. RowInv(r)'
    BY <1>0, <2>1, <2>2, <2>3, <2>4 DEF RowInv, At, Visible, Early, Sent
  <2>6. \A p \in Requests : Sent(p)' <=> Sent(p)
    BY <2>4 DEF Sent
  <2>7. \A p \in Requests \ {r} :
          \/ rows'[p] = rows[p]
          \/ rows[p].stored /\ rows'[p].stored /\ rows'[p].committed = rows[p].committed
    BY <2>1, <2>3 DEF Visible, Rows
  <2>8. Visible(r) => Visible(r)'
    BY <1>1, <2>2 DEF Visible
  <2>9. \A t \in queue' : TaskInv(t)'
    BY <1>2, <2>4
  <2> HIDE DEF q
  <2> QED
    BY <2>4, <2>5, <2>6, <2>7, <2>8, <2>9, RowStep
<1>7. ASSUME NEW r \in Requests, Save(r) PROVE FrontInv'
  <2>1. At(r, "save") /\ rows[r] = NoRow /\ ~Sent(r)
    BY <1>0, <1>7 DEF Save, RowInv, At, Early
  <2>2. /\ UNCHANGED <<queue, started>>
        /\ \A p \in Requests \ {r} : req'[p] = req[p] /\ rows'[p] = rows[p]
        /\ req'[r].at = "enqueue"
        /\ req'[r].call = req[r].call /\ req'[r].to = req[r].to
        /\ rows'[r].stored /\ rows'[r].committed = ~req[r].call.atomic
    BY <1>0, <1>7 DEF Save, TypeOK, Locals
  <2>3. \A p \in Requests : Sent(p)' <=> Sent(p)
    BY <2>2 DEF Sent
  <2>4. RowInv(r)'
    BY <2>1, <2>2, <2>3 DEF RowInv, At, Visible, Early
  <2> QED
    BY <1>1, <1>2, <2>1, <2>2, <2>3, <2>4, RowStep DEF Visible
<1>8. ASSUME NEW r \in Requests, Abort(r), Served(r) PROVE FrontInv'
  <2>1. /\ UNCHANGED <<queue, started>>
        /\ \A p \in Requests \ {r} : req'[p] = req[p] /\ rows'[p] = rows[p]
        /\ req'[r].at = "failed"
        /\ req'[r].call = req[r].call /\ req'[r].to = req[r].to
        /\ rows'[r] = IF req[r].call.atomic THEN NoRow ELSE rows[r]
    BY <1>0, <1>8 DEF Abort, TypeOK, Locals
  <2>2. \A p \in Requests : Sent(p)' <=> Sent(p)
    BY <2>1 DEF Sent
  <2>3. req[r].call.atomic => ~Visible(r)
    BY <1>0, <1>1, <1>8 DEF Served, Active, RowInv, At, Visible, Early
  <2>4. RowInv(r)'
    BY <1>0, <2>1, <2>2, <2>3 DEF RowInv, At, Visible, Early, NoRow
  <2> QED
    BY <1>2, <2>1, <2>2, <2>3, <2>4, RowStep DEF Visible
<1>9. ASSUME NEW r \in Requests, Enqueue(r) PROVE FrontInv'
  <2>0. PICK t : t = [of |-> r, at |-> Eta(r)]
    OBVIOUS
  <2>1. /\ queue' = queue \union {t} /\ UNCHANGED <<rows, started>>
        /\ \A p \in Requests \ {r} : req'[p] = req[p]
        /\ req'[r].at = IF req[r].call.atomic THEN "commit" ELSE "queued"
        /\ req'[r].call = req[r].call /\ req'[r].to = req[r].to
        /\ At(r, "enqueue") /\ req[r].call.delay # Now
    BY <1>0, <1>9, <2>0 DEF Enqueue, TypeOK, Locals
  <2>2. \A p \in Requests \ {r} : Sent(p)' <=> Sent(p)
    BY <2>0, <2>1 DEF Sent
  <2>3. Sent(r)'
    <3>1. t \in queue' /\ t.of = r
      BY <2>0, <2>1
    <3> QED
      BY <3>1 DEF Sent
  <2>4. RowInv(r)'
    BY <1>0, <2>1, <2>3 DEF RowInv, At, Visible, Early
  <2>5. TaskInv(t)'
    BY <1>0, <2>0, <2>1 DEF TaskInv, Eta, Locals, TypeOK, Times
  <2>6. \A s \in queue : TaskInv(s)'
    BY <1>0, <2>1 DEF TaskInv
  <2>7. \A s \in queue' : TaskInv(s)'
    BY <2>1, <2>5, <2>6
  <2>8. Visible(r) => Visible(r)'
    BY <2>1 DEF Visible
  <2> QED
    BY <2>1, <2>2, <2>4, <2>7, <2>8, RowStep
<1>10. ASSUME NEW r \in Requests, SendNow(r) PROVE FrontInv'
  <2>1. /\ started' = started \union {r} /\ UNCHANGED <<rows, queue>>
        /\ \A p \in Requests \ {r} : req'[p] = req[p]
        /\ req'[r].at = IF req[r].call.atomic THEN "commit" ELSE "sent"
        /\ req'[r].call = req[r].call /\ req'[r].to = req[r].to
        /\ At(r, "enqueue")
    BY <1>0, <1>10 DEF SendNow, TypeOK, Locals
  <2>2. /\ \A p \in Requests \ {r} : Sent(p)' <=> Sent(p)
        /\ Sent(r)'
    BY <2>1 DEF Sent
  <2>3. RowInv(r)'
    BY <1>0, <2>1, <2>2 DEF RowInv, At, Visible, Early
  <2> QED
    BY <1>2, <2>1, <2>2, <2>3, RowStep DEF Visible
<1>11. ASSUME NEW r \in Requests, Commit(r) PROVE FrontInv'
  <2>1. At(r, "commit") /\ rows[r] \in Rows
    BY <1>0, <1>11 DEF Commit, RowInv, At, TypeOK, NoRow
  <2>2. /\ UNCHANGED <<queue, started>>
        /\ \A p \in Requests \ {r} : req'[p] = req[p] /\ rows'[p] = rows[p]
        /\ req'[r].at \in {"queued", "sent"}
        /\ req'[r].call = req[r].call /\ req'[r].to = req[r].to
        /\ rows'[r].stored /\ rows'[r].committed
    <3>1. /\ UNCHANGED <<queue, started>>
          /\ rows' = [rows EXCEPT ![r].committed = TRUE]
          /\ Become(r, [req[r] EXCEPT !.at = IF req[r].call.delay = Now THEN "sent" ELSE "queued"])
      BY <1>11 DEF Commit
    <3>2. /\ \A p \in Requests \ {r} : rows'[p] = rows[p]
          /\ rows'[r].stored /\ rows'[r].committed
      <4>1. rows'[r] = [rows[r] EXCEPT !.committed = TRUE] /\ \A p \in Requests \ {r} : rows'[p] = rows[p]
        BY <1>0, <3>1 DEF TypeOK
      <4>2. \A x \in Rows : [x EXCEPT !.committed = TRUE].stored /\ [x EXCEPT !.committed = TRUE].committed
        BY DEF Rows
      <4> QED
        BY <2>1, <4>1, <4>2
    <3>3. /\ \A p \in Requests \ {r} : req'[p] = req[p]
          /\ req'[r].at \in {"queued", "sent"}
          /\ req'[r].call = req[r].call /\ req'[r].to = req[r].to
      BY <1>0, <3>1 DEF TypeOK, Locals
    <3> QED
      BY <3>1, <3>2, <3>3
  <2>3. \A p \in Requests : Sent(p)' <=> Sent(p)
    BY <2>2 DEF Sent
  <2>4. RowInv(r)'
    BY <1>0, <2>1, <2>2, <2>3 DEF RowInv, At, Visible, Early
  <2> QED
    BY <1>2, <2>2, <2>3, <2>4, RowStep DEF Visible
<1>12. ASSUME NEW t \in queue, StartTask(t) PROVE FrontInv'
  <2>1. \A p \in Requests : Sent(p)' <=> Sent(p)
    BY <1>0, <1>12 DEF StartTask, Sent
  <2>2. \A p \in Requests : RowInv(p)'
    BY <1>0, <1>12, <2>1, RowInvKept DEF StartTask, Visible
  <2>3. \A s \in queue' : TaskInv(s)'
    BY <1>0, <1>12 DEF StartTask, TaskInv
  <2> QED
    BY <2>2, <2>3 DEF FrontInv
<1>13. CASE Tick \/ Finished
  <2>1. UNCHANGED <<rows, queue, started, req>>
    BY <1>13 DEF Tick, Finished, vars
  <2>2. \A p \in Requests : RowInv(p)'
    BY <1>0, <2>1, RowInvKept DEF Sent, Visible
  <2>3. \A s \in queue' : TaskInv(s)'
    BY <1>0, <2>1 DEF TaskInv
  <2> QED
    BY <2>2, <2>3 DEF FrontInv
<1>14. ASSUME NEW r \in Requests, EnqueueRaises(r) \/ Break(r) PROVE Abort(r) /\ Served(r)
  BY <1>14 DEF EnqueueRaises, Break, Served, At, Active
<1> QED
  BY <1>3, <1>5, <1>6, <1>7, <1>8, <1>9, <1>10, <1>11, <1>12, <1>13, <1>14, <1>15, <1>16, <1>17,
     <1>18, <1>19, <1>20 DEF Next, Step

\* FrontInv is an invariant, for any number of requests, threads and any
\* settings (notification.py:158-243).
THEOREM FrontInvariant == Spec => []FrontInv
<1> USE FrontAssumption
<1>1. Init => FrontInv
  BY FrontInit
<1>2. FrontInv /\ [Next]_vars => FrontInv'
  <2> SUFFICES ASSUME FrontInv, [Next]_vars PROVE FrontInv'
    OBVIOUS
  <2>1. CASE Next
    BY <2>1, FrontTypes, FrontNext
  <2>2. CASE UNCHANGED vars
    BY <2>2 DEF vars, FrontInv, TypeOK, RowInv, TaskInv, At, Visible, Sent
  <2> QED
    BY <2>1, <2>2
<1> QED
  BY <1>1, <1>2, PTL DEF Spec

\* What was answered as queued or merged is sent or will be
\* (notification.py:183-214).
THEOREM FrontAnsweredIsSent == Spec => []AnsweredIsSent
<1>1. ASSUME FrontInv PROVE AnsweredIsSent
  <2>1. ASSUME NEW r \in Requests
        PROVE  /\ req[r].target \in Requests
               /\ RowInv(r) /\ RowInv(req[r].target)
    BY <1>1 DEF FrontInv, TypeOK, Locals
  <2> QED
    BY <2>1 DEF AnsweredIsSent, RowInv, At
<1> QED
  BY <1>1, FrontInvariant, PTL

\* Nothing is sent before its time, or before it was stored
\* (queable_notification_mixin.py:16-29).
THEOREM FrontStartedInTime == Spec => [][StartsInTime]_vars
<1>1. ASSUME FrontInv, Next PROVE [StartsInTime]_vars
  <2> SUFFICES ASSUME NEW r \in started' \ started
               PROVE  /\ req[r].call.delay # Now => req[r].to - now < Pause \/ now >= req[r].to
                      /\ Visible(r) \/ req[r].call.atomic
    BY DEF StartsInTime
  <2>1. CASE \E q \in Requests : SendNow(q)
    <3>1. PICK q \in Requests : SendNow(q)
      BY <2>1
    <3>2. q = r /\ At(r, "enqueue") /\ req[r].call.delay = Now
      BY <3>1 DEF SendNow
    <3> QED
      BY <1>1, <3>2 DEF FrontInv, RowInv, At, Visible
  <2>2. CASE \E t \in queue : StartTask(t)
    <3>1. PICK t \in queue : StartTask(t)
      BY <2>2
    <3>2. t.of = r /\ now >= t.at /\ t.at \in Int /\ r \in Requests
      BY <1>1, <3>1 DEF StartTask, FrontInv, TypeOK, Tasks
    <3>3. TaskInv(t) /\ RowInv(r) /\ Sent(r)
      BY <1>1, <3>1, <3>2 DEF FrontInv, Sent
    <3>4. req[r].to \in Int /\ now \in Int /\ Pause \in Int
      BY <1>1, <3>2, FrontAssumption DEF FrontInv, TypeOK, Locals, Times, FrontAssumption
    <3>5. req[r].to - now < Pause \/ now >= req[r].to
      BY <3>2, <3>3, <3>4 DEF TaskInv
    <3> QED
      BY <3>3, <3>5 DEF RowInv
  <2> QED
    BY <1>1, <2>1, <2>2
       DEF Next, Call, Step, CheckLimit, ReadCount, WriteCount, CheckOverlap, ReadSession,
           WriteSession, FindSimilar, Bump, Save, Enqueue, EnqueueRaises, Abort, Commit, Break,
           Tick, Finished, vars
<1>2. FrontInv /\ [Next]_vars => [StartsInTime]_vars
  BY <1>1
<1> QED
  BY <1>2, FrontInvariant, PTL DEF Spec

\* A request answered as queued is sent, and nothing is sent before its time
\* (queable_notification_mixin.py:12-29).
THEOREM FrontDispatchedAsAnswered == Spec => DispatchedAsAnswered
  BY FrontAnsweredIsSent, FrontStartedInTime, PTL DEF DispatchedAsAnswered

-----------------------------------------------------------------------------
(* Requests served alone: what ClashesOverlapped, LoneIsNeverLost and        *)
(* ThrottleHolds rest on                                                     *)

\* Requests that are served at the same time are in the history, and a row
\* that is stored is of a request that is on its way or has committed it.
ServedInv ==
    /\ \A r, q \in Requests : r # q /\ Served(r) /\ Served(q) => Overlapped(r, q)
    /\ \A r \in Requests :
        /\ req[r].at \in {"limit", "register", "count"} => req[r].call.kind = "system"
        /\ At(r, "overlap") => req[r].call.kind = "notice"
        /\ rows[r].stored => Served(r) \/ rows[r].committed

Twins(r, q) == req[r].call.context = req[q].call.context /\ req[r].call.context # Own

Notices(r, q) == req[r].call.kind = "notice" /\ req[q].call.kind = "notice"

\* A request that looked for duplicates, or for notices near by, found none
\* that a request served before it had stored; the rows they store then are as
\* far apart.
PairInv(r, q) ==
    /\ At(r, "save") /\ Visible(q) /\ Twins(r, q) => rows[q].at + Aggregation <= now
    /\ rows[r].stored /\ rows[q].stored /\ Twins(r, q) =>
         rows[r].at + Aggregation <= rows[q].at \/ rows[q].at + Aggregation <= rows[r].at
    /\ req[r].at \in {"similar", "bump", "save"} /\ Visible(q) /\ Notices(r, q) => ~Near(rows[q].to, req[r].to)
    /\ rows[r].stored /\ rows[q].stored /\ Notices(r, q) =>
         ~Near(rows[r].to, rows[q].to) /\ ~Near(rows[q].to, rows[r].to)

ClashInv == \A r, q \in Requests : r # q /\ ~Overlapped(r, q) => PairInv(r, q)

MergedInto(r) == {q \in Requests : Merged(r, q)}
LoneInto(r) == {q \in Requests : Merged(r, q) /\ Lone(q)}

\* What a request read of a counter is no less than what lone requests have
\* counted since, as none of them was served beside it; the same of a session.
CountInv ==
    /\ \A r \in Requests : rows[r].stored =>
        /\ rows[r].counter >= 1 + Cardinality(LoneInto(r))
        /\ rows[r].counter <= 1 + Cardinality(MergedInto(r))
    /\ \A q \in Requests : At(q, "bump") =>
        /\ req[q].seen >= 1 + Cardinality(LoneInto(req[q].target))
        /\ req[q].seen <= 1 + Cardinality(MergedInto(req[q].target))
    /\ \A r \in Requests : At(r, "read") /\ Lone(r) => r \in read
    /\ \A q \in Requests : At(q, "write") =>
        /\ q \in req[q].session
        /\ \A r \in Requests : At(r, "read") /\ Lone(r) => r \in req[q].session

\* The list of this minute counts the lone requests that passed, and nobody who
\* was let through alone finds more of them later.
ThrottleInv ==
    /\ \A r \in Requests : req[r].minute <= ThisMinute
    /\ Cardinality(Passed(ThisMinute)) <= throttle[ThisMinute]
    /\ \A q \in Requests : At(q, "count") => Cardinality(Passed(ThisMinute)) <= req[q].seen
    /\ \A r \in Requests : At(r, "register") /\ Lone(r) /\ req[r].minute = ThisMinute =>
         throttle[ThisMinute] <= Limit
    /\ \A r \in Requests : req[r].at \in {"register", "count"} /\ Lone(r) =>
         Cardinality(Passed(req[r].minute)) <= Limit
    /\ ThrottleHolds

AloneInv == ServedInv /\ ClashInv /\ CountInv /\ ThrottleInv

\* What a step of a request does to its locals.  Only a call changes call and
\* to; nobody else's locals change.
Keeps(r) == /\ req'[r].call = req[r].call /\ req'[r].to = req[r].to
            /\ \A q \in Requests \ {r} : req'[q] = req[q]

LEMMA CallDoes ==
    ASSUME TypeOK, NEW r \in Requests, NEW c \in Calls[r], Call(r, c)
    PROVE  /\ At(r, "new") /\ req'[r].at = First(c) /\ req'[r].call = c /\ req'[r].to = now + c.delay
           /\ req'[r].minute = req[r].minute
           /\ \A q \in Requests \ {r} : req'[q] = req[q]
           /\ \A q \in Requests : Served(q) => {r, q} \in overlaps'
           /\ overlaps \subseteq overlaps'
           /\ UNCHANGED <<now, rows, throttle, read>>
<1>1. req[r] \in Locals
  BY DEF TypeOK
<1>2. /\ At(r, "new") /\ req'[r].at = First(c) /\ req'[r].call = c /\ req'[r].to = now + c.delay
      /\ req'[r].minute = req[r].minute
      /\ \A q \in Requests \ {r} : req'[q] = req[q]
  BY <1>1 DEF Call, Become, Locals, TypeOK
<1>3. overlaps' = overlaps \union {{r, q} : q \in {q \in Requests : Served(q)}}
  BY DEF Call
<1> QED
  BY <1>2, <1>3 DEF Call

LEMMA CheckLimitDoes ==
    ASSUME TypeOK, NEW r \in Requests, CheckLimit(r)
    PROVE  /\ At(r, "limit") /\ Keeps(r) /\ req'[r].minute = ThisMinute
           /\ req'[r].at = IF TooMany(throttle[ThisMinute]) THEN "denied" ELSE "register"
           /\ UNCHANGED <<now, rows, throttle, read, overlaps>>
<1>1. req[r] \in Locals
  BY DEF TypeOK
<1> QED
  BY <1>1 DEF CheckLimit, Become, Locals, TypeOK, Keeps

LEMMA ReadCountDoes ==
    ASSUME TypeOK, NEW r \in Requests, ReadCount(r)
    PROVE  /\ At(r, "register") /\ Keeps(r) /\ req'[r].minute = req[r].minute
           /\ \/ throttle[ThisMinute] > Limit + 1 /\ req'[r].at = "similar"
              \/ ~(throttle[ThisMinute] > Limit + 1) /\ req'[r].at = "count"
                 /\ req'[r].seen = throttle[ThisMinute]
           /\ UNCHANGED <<now, rows, throttle, read, overlaps>>
<1>1. req[r] \in Locals
  BY DEF TypeOK
<1> QED
  BY <1>1 DEF ReadCount, Become, Locals, TypeOK, Keeps

LEMMA WriteCountDoes ==
    ASSUME TypeOK, NEW r \in Requests, WriteCount(r)
    PROVE  /\ At(r, "count") /\ Keeps(r) /\ req'[r].minute = req[r].minute /\ req'[r].at = "similar"
           /\ throttle' = [throttle EXCEPT ![ThisMinute] = req[r].seen + 1]
           /\ UNCHANGED <<now, rows, read, overlaps>>
<1>1. req[r] \in Locals
  BY DEF TypeOK
<1> QED
  BY <1>1 DEF WriteCount, Become, Locals, TypeOK, Keeps

LEMMA CheckOverlapDoes ==
    ASSUME TypeOK, NEW r \in Requests, CheckOverlap(r)
    PROVE  /\ At(r, "overlap") /\ Keeps(r) /\ req'[r].minute = req[r].minute
           /\ \/ req'[r].at = "denied"
              \/ /\ req'[r].at = "similar"
                 /\ \A q \in Requests : Visible(q) /\ req[q].call.delay # Now => ~Near(rows[q].to, req[r].to)
           /\ UNCHANGED <<now, rows, throttle, read, overlaps>>
<1>1. req[r] \in Locals
  BY DEF TypeOK
<1> QED
  BY <1>1 DEF CheckOverlap, Go, Become, Locals, TypeOK, Keeps

LEMMA ReadSessionDoes ==
    ASSUME TypeOK, NEW r \in Requests, ReadSession(r)
    PROVE  /\ At(r, "reading") /\ Keeps(r) /\ req'[r].minute = req[r].minute
           /\ req'[r].at = "write" /\ req'[r].session = read \union {r}
           /\ UNCHANGED <<now, rows, throttle, read, overlaps>>
<1>1. req[r] \in Locals
  BY DEF TypeOK
<1> QED
  BY <1>1 DEF ReadSession, Become, Locals, TypeOK, Keeps

LEMMA WriteSessionDoes ==
    ASSUME TypeOK, NEW r \in Requests, WriteSession(r)
    PROVE  /\ At(r, "write") /\ Keeps(r) /\ req'[r].minute = req[r].minute
           /\ req'[r].at = "read" /\ read' = req[r].session
           /\ UNCHANGED <<now, rows, throttle, overlaps>>
<1>1. req[r] \in Locals
  BY DEF TypeOK
<1> QED
  BY <1>1 DEF WriteSession, Become, Locals, TypeOK, Keeps

LEMMA FindSimilarDoes ==
    ASSUME TypeOK, NEW r \in Requests, FindSimilar(r)
    PROVE  /\ At(r, "similar") /\ Keeps(r) /\ req'[r].minute = req[r].minute
           /\ \/ SimilarTo(r) = {} /\ req'[r].at = "save"
              \/ /\ req'[r].at = "bump" /\ req'[r].target \in Requests /\ Visible(req'[r].target)
                 /\ req'[r].seen = rows[req'[r].target].counter
           /\ UNCHANGED <<now, rows, throttle, read, overlaps>>
<1>1. req[r] \in Locals
  BY DEF TypeOK
<1>2. ASSUME SimilarTo(r) = {}, Go(r, "save")
      PROVE  Keeps(r) /\ req'[r].minute = req[r].minute /\ req'[r].at = "save"
  BY <1>1, <1>2 DEF Go, Become, Locals, TypeOK, Keeps
<1>3. ASSUME NEW q \in Newest(SimilarTo(r)),
             Become(r, [req[r] EXCEPT !.at = "bump", !.target = q, !.seen = rows[q].counter])
      PROVE  /\ Keeps(r) /\ req'[r].minute = req[r].minute
             /\ req'[r].at = "bump" /\ req'[r].target \in Requests /\ Visible(req'[r].target)
             /\ req'[r].seen = rows[req'[r].target].counter
  <2>1. q \in Requests /\ Visible(q)
    BY DEF Newest, SimilarTo
  <2>2. /\ req'[r].at = "bump" /\ req'[r].target = q /\ req'[r].seen = rows[q].counter
        /\ Keeps(r) /\ req'[r].minute = req[r].minute
    BY <1>1, <1>3 DEF Become, Locals, TypeOK, Keeps
  <2> QED
    BY <2>1, <2>2
<1> QED
  BY <1>2, <1>3 DEF FindSimilar

LEMMA BumpDoes ==
    ASSUME TypeOK, NEW r \in Requests, RowInv(r), Bump(r)
    PROVE  /\ At(r, "bump") /\ Keeps(r) /\ req'[r].minute = req[r].minute
           /\ req'[r].at = "merged" /\ req'[r].target = req[r].target
           /\ req[r].target \in Requests /\ Visible(req[r].target)
           /\ rows'[req[r].target].counter = req[r].seen + 1
           /\ \A q \in Requests : /\ rows'[q].stored = rows[q].stored
                                  /\ rows[q].stored => /\ rows'[q].at = rows[q].at
                                                       /\ rows'[q].to = rows[q].to
                                                       /\ rows'[q].committed = rows[q].committed
                                  /\ q # req[r].target => rows'[q] = rows[q]
           /\ UNCHANGED <<now, throttle, read, overlaps>>
<1>1. req[r] \in Locals
  BY DEF TypeOK
<1> DEFINE q == req[r].target
<1>2. At(r, "bump") /\ q \in Requests /\ Visible(q) /\ rows[q] \in Rows
  BY <1>1 DEF Bump, At, RowInv, Visible, Locals, TypeOK, NoRow
<1>3. /\ rows' = [rows EXCEPT ![q].counter = req[r].seen + 1]
      /\ Become(r, [req[r] EXCEPT !.at = "merged", !.seen = 0])
      /\ UNCHANGED <<now, throttle, read, overlaps>>
  BY DEF Bump, CountedUp
<1>4. /\ rows'[q].counter = req[r].seen + 1 /\ rows'[q].stored = rows[q].stored
      /\ rows'[q].at = rows[q].at /\ rows'[q].to = rows[q].to /\ rows'[q].committed = rows[q].committed
      /\ \A p \in Requests : p # q => rows'[p] = rows[p]
  BY <1>2, <1>3 DEF TypeOK, Rows
<1>5. /\ req'[r].at = "merged" /\ req'[r].target = q
      /\ Keeps(r) /\ req'[r].minute = req[r].minute
  BY <1>1, <1>3 DEF Become, Locals, TypeOK, Keeps
<1> HIDE DEF q
<1>6. \A p \in Requests : /\ rows'[p].stored = rows[p].stored
                          /\ rows[p].stored => /\ rows'[p].at = rows[p].at
                                               /\ rows'[p].to = rows[p].to
                                               /\ rows'[p].committed = rows[p].committed
                          /\ p # q => rows'[p] = rows[p]
  BY <1>4
<1> QED
  BY <1>2, <1>3, <1>4, <1>5, <1>6 DEF q

LEMMA SaveDoes ==
    ASSUME TypeOK, NEW r \in Requests, Save(r)
    PROVE  /\ At(r, "save") /\ Keeps(r) /\ req'[r].minute = req[r].minute
           /\ req'[r].at = "enqueue"
           /\ rows'[r].stored /\ rows'[r].at = now /\ rows'[r].to = req[r].to /\ rows'[r].counter = 1
           /\ \A q \in Requests \ {r} : rows'[q] = rows[q]
           /\ UNCHANGED <<now, throttle, read, overlaps>>
<1>1. req[r] \in Locals
  BY DEF TypeOK
<1>2. /\ At(r, "save") /\ Keeps(r) /\ req'[r].minute = req[r].minute /\ req'[r].at = "enqueue"
      /\ UNCHANGED <<now, throttle, read, overlaps>>
  BY <1>1 DEF Save, Go, Become, Locals, TypeOK, Keeps
<1> QED
  BY <1>2 DEF Save, TypeOK

\* The steps after the row was stored: it stays as it is, or is taken back.
LEMMA LateDoes ==
    ASSUME TypeOK, NEW r \in Requests, RowInv(r), Served(r),
           Enqueue(r) \/ SendNow(r) \/ Commit(r) \/ Abort(r)
    PROVE  /\ Keeps(r) /\ req'[r].minute = req[r].minute
           /\ req'[r].at \in {"commit", "queued", "sent", "failed"}
           /\ rows'[r].stored => /\ rows[r].stored /\ rows'[r].at = rows[r].at /\ rows'[r].to = rows[r].to
                                 /\ rows'[r].counter = rows[r].counter
           /\ \A q \in Requests \ {r} : rows'[q] = rows[q]
           /\ UNCHANGED <<now, throttle, read, overlaps>>
<1>1. req[r] \in Locals
  BY DEF TypeOK
<1>2. ASSUME Enqueue(r) \/ SendNow(r)
      PROVE  /\ Keeps(r) /\ req'[r].minute = req[r].minute
             /\ req'[r].at \in {"commit", "queued", "sent"}
             /\ UNCHANGED <<now, rows, throttle, read, overlaps>>
  BY <1>1, <1>2 DEF Enqueue, SendNow, Go, Become, Locals, TypeOK, Keeps
<1>3. ASSUME Commit(r)
      PROVE  /\ Keeps(r) /\ req'[r].minute = req[r].minute /\ req'[r].at \in {"queued", "sent"}
             /\ rows' = [rows EXCEPT ![r].committed = TRUE] /\ rows[r].stored /\ rows[r] \in Rows
             /\ UNCHANGED <<now, throttle, read, overlaps>>
  <2>1. rows[r].stored /\ rows[r] \in Rows
    BY <1>3 DEF Commit, RowInv, At, TypeOK, NoRow
  <2> QED
    BY <1>1, <1>3, <2>1 DEF Commit, Go, Become, Locals, TypeOK, Keeps
<1>4. ASSUME Abort(r)
      PROVE  /\ Keeps(r) /\ req'[r].minute = req[r].minute /\ req'[r].at = "failed"
             /\ rows' = IF req[r].call.atomic THEN [rows EXCEPT ![r] = NoRow] ELSE rows
             /\ UNCHANGED <<now, throttle, read, overlaps>>
  BY <1>1, <1>4 DEF Abort, Go, Become, Locals, TypeOK, Keeps
<1>5. CASE Enqueue(r) \/ SendNow(r)
  BY <1>2, <1>5
<1>6. CASE Commit(r)
  BY <1>3, <1>6 DEF TypeOK, Rows
<1>7. CASE Abort(r)
  BY <1>4, <1>7 DEF TypeOK, NoRow
<1> QED
  BY <1>5, <1>6, <1>7

\* Every step but a call, a start of a task and a tick.
LEMMA StepIsServed ==
    ASSUME NEW r \in Requests, Step(r) \/ Break(r)
    PROVE  /\ Served(r)
           /\ \/ CheckLimit(r) \/ ReadCount(r) \/ WriteCount(r) \/ CheckOverlap(r) \/ ReadSession(r)
              \/ WriteSession(r) \/ FindSimilar(r) \/ Bump(r) \/ Save(r)
              \/ Enqueue(r) \/ SendNow(r) \/ Commit(r) \/ Abort(r)
  BY DEF Step, Break, Served, Active, At, CheckLimit, ReadCount, WriteCount, CheckOverlap, ReadSession,
         WriteSession, FindSimilar, Bump, Save, Enqueue, EnqueueRaises, SendNow, Commit

LEMMA StepKeeps ==
    ASSUME TypeOK, NEW r \in Requests, RowInv(r), Step(r) \/ Break(r)
    PROVE  Keeps(r) /\ UNCHANGED <<now, overlaps>>
  BY StepIsServed, CheckLimitDoes, ReadCountDoes, WriteCountDoes, CheckOverlapDoes, ReadSessionDoes,
     WriteSessionDoes, FindSimilarDoes, BumpDoes, SaveDoes, LateDoes

\* The steps of nobody's request.
LEMMA OthersDo ==
    ASSUME (\E t \in queue : StartTask(t)) \/ Tick \/ Finished \/ UNCHANGED vars
    PROVE  /\ UNCHANGED <<rows, throttle, read, overlaps, req>>
           /\ Tick \/ now' = now
  BY DEF StartTask, Tick, Finished, vars

\* Who is served beside another is not alone, and never alone again.
LEMMA NotAlone ==
    ASSUME ServedInv, NEW r \in Requests, NEW q \in Requests, r # q, Served(r), Served(q)
    PROVE  ~Lone(r) /\ ~Lone(q)
<1>1. Overlapped(r, q) /\ Overlapped(q, r)
  BY DEF ServedInv
<1> QED
  BY <1>1 DEF Lone

LEMMA LoneBefore ==
    ASSUME overlaps \subseteq overlaps', NEW r \in Requests, Lone(r)'
    PROVE  Lone(r)
  BY DEF Lone, Overlapped

LEMMA OverlapsGrow ==
    ASSUME FrontInv, [Next]_vars
    PROVE  overlaps \subseteq overlaps'
<1>1. TypeOK /\ \A r \in Requests : RowInv(r)
  BY DEF FrontInv
<1> QED
  BY <1>1, CallDoes, StepKeeps, OthersDo DEF Next

LEMMA ServedNext ==
    ASSUME FrontAssumption, FrontInv, ServedInv, [Next]_vars
    PROVE  ServedInv'
<1>0. TypeOK /\ \A r \in Requests : RowInv(r)
  BY DEF FrontInv
<1>r. \A r \in Requests : /\ rows[r] = NoRow => ~rows[r].stored
                          /\ req[r].at \in Early => ~rows[r].stored
  BY <1>0 DEF NoRow, RowInv
<1>a. \A r \in Requests : Served(r) <=> req[r].at \in Active
  BY DEF Served
<1>1. ASSUME NEW r \in Requests, NEW c \in Calls[r], Call(r, c) PROVE ServedInv'
  <2>1. ASSUME NEW p \in Requests, NEW q \in Requests, p # q, Served(p)', Served(q)'
        PROVE  {p, q} \in overlaps'
    <3>1. CASE p = r
      <4>1. Served(q)
        BY <1>0, <1>1, <2>1, <3>1, CallDoes DEF Served
      <4> QED
        BY <1>0, <1>1, <3>1, <4>1, CallDoes
    <3>2. CASE q = r
      <4>1. Served(p)
        BY <1>0, <1>1, <2>1, <3>2, CallDoes DEF Served
      <4>2. {r, p} \in overlaps'
        BY <1>0, <1>1, <4>1, CallDoes
      <4>3. {r, p} = {p, q}
        BY <3>2
      <4> QED
        BY <4>2, <4>3
    <3>3. CASE p # r /\ q # r
      <4>1. Served(p) /\ Served(q)
        BY <1>0, <1>1, <2>1, <3>3, CallDoes DEF Served
      <4> QED
        BY <1>0, <1>1, <2>1, <4>1, CallDoes DEF ServedInv, Overlapped
    <3> QED
      BY <3>1, <3>2, <3>3
  <2>2. c.kind \in {"mail", "system", "notice", "read"}
    BY CallFacts DEF AllCalls
  <2>3. ASSUME NEW q \in Requests
        PROVE  /\ req'[q].at \in {"limit", "register", "count"} => req'[q].call.kind = "system"
               /\ req'[q].at = "overlap" => req'[q].call.kind = "notice"
               /\ rows'[q].stored => req'[q].at \in Active \/ rows'[q].committed
    <3>1. CASE q = r
      <4>1. req'[q].at = First(c) /\ req'[q].call = c /\ rows'[q] = rows[q] /\ ~rows[q].stored
        BY <1>0, <1>1, <1>r, <3>1, CallDoes DEF At, Early
      <4> QED
        BY <2>2, <4>1 DEF First
    <3>2. CASE q # r
      BY <1>0, <1>1, <3>2, CallDoes DEF ServedInv, At, Served
    <3> QED
      BY <3>1, <3>2
  <2> QED
    BY <2>1, <2>3 DEF ServedInv, Overlapped, Served, At
<1>2. ASSUME NEW r \in Requests, Step(r) \/ Break(r) PROVE ServedInv'
  <2>0. Served(r) /\ Keeps(r) /\ UNCHANGED overlaps
    BY <1>0, <1>2, StepIsServed, StepKeeps
  <2>1. \A p, q \in Requests : p # q /\ Served(p)' /\ Served(q)' => Overlapped(p, q)'
    <3>1. \A q \in Requests : Served(q)' => Served(q)
      BY <2>0 DEF Served, Keeps
    <3> QED
      BY <2>0, <3>1 DEF ServedInv, Overlapped
  <2>2. ASSUME NEW q \in Requests, q # r
        PROVE  /\ req'[q].at \in {"limit", "register", "count"} => req'[q].call.kind = "system"
               /\ req'[q].at = "overlap" => req'[q].call.kind = "notice"
               /\ rows'[q].stored => req'[q].at \in Active \/ rows'[q].committed
    <3>1. req'[q] = req[q]
      BY <2>0, <2>2 DEF Keeps
    <3>2. rows'[q].stored => rows[q].stored /\ rows'[q].committed = rows[q].committed
      BY <1>0, <1>2, <2>0, <2>2, StepIsServed, CheckLimitDoes, ReadCountDoes, WriteCountDoes, CheckOverlapDoes,
         ReadSessionDoes, WriteSessionDoes, FindSimilarDoes, BumpDoes, SaveDoes, LateDoes
    <3> QED
      BY <3>1, <3>2 DEF ServedInv, At, Served
  <2>3. /\ req'[r].at \in {"limit", "register", "count"} => req'[r].call.kind = "system"
        /\ req'[r].at = "overlap" => req'[r].call.kind = "notice"
        /\ rows'[r].stored => req'[r].at \in Active \/ rows'[r].committed
    <3>1. CASE \/ CheckLimit(r) \/ ReadCount(r) \/ WriteCount(r) \/ CheckOverlap(r) \/ ReadSession(r)
               \/ WriteSession(r) \/ FindSimilar(r)
      <4>1. /\ req'[r].at \notin {"limit", "overlap"} /\ rows' = rows /\ Keeps(r)
            /\ req'[r].at \in {"register", "count"} => At(r, "limit") \/ At(r, "register")
            /\ req[r].at \in Early
        BY <1>0, <3>1, CheckLimitDoes, ReadCountDoes, WriteCountDoes, CheckOverlapDoes, ReadSessionDoes,
           WriteSessionDoes, FindSimilarDoes DEF At, Early
      <4> QED
        BY <1>r, <4>1 DEF ServedInv, Keeps, At
    <3>2. CASE Bump(r)
      BY <1>0, <1>r, <3>2, BumpDoes DEF At, Early
    <3>3. CASE Save(r)
      BY <1>0, <3>3, SaveDoes DEF Active
    <3>4. CASE Enqueue(r) \/ SendNow(r) \/ Commit(r) \/ Abort(r)
      <4>1. req'[r].at \in {"commit", "queued", "sent", "failed"} /\ (rows'[r].stored => rows[r].stored)
        BY <1>0, <2>0, <3>4, LateDoes
      <4>2. ASSUME rows'[r].stored, req'[r].at \in {"queued", "sent", "failed"} PROVE rows'[r].committed
        <5>1. rows[r].stored
          BY <4>1, <4>2
        <5>2. req[r].at \in {"enqueue", "commit"}
          BY <1>r, <2>0, <5>1 DEF Served, Active, Early
        <5>3. CASE Enqueue(r) \/ SendNow(r)
          <6>1. rows' = rows /\ ~req[r].call.atomic /\ At(r, "enqueue")
            <7>1. /\ Go(r, IF req[r].call.atomic THEN "commit" ELSE "queued")
                     \/ Go(r, IF req[r].call.atomic THEN "commit" ELSE "sent")
                  /\ rows' = rows /\ At(r, "enqueue")
              BY <5>3 DEF Enqueue, SendNow
            <7> QED
              BY <1>0, <4>2, <7>1 DEF Go, Become, TypeOK, Locals
          <6> QED
            BY <1>0, <6>1 DEF RowInv
        <5>4. CASE Commit(r)
          <6>1. rows[r] \in Rows
            BY <1>0, <5>1 DEF TypeOK, NoRow
          <6> QED
            BY <1>0, <5>4, <6>1 DEF Commit, TypeOK, Rows
        <5>5. CASE Abort(r)
          <6>1. rows' = IF req[r].call.atomic THEN [rows EXCEPT ![r] = NoRow] ELSE rows
            BY <5>5 DEF Abort
          <6>2. ~req[r].call.atomic
            BY <1>0, <4>2, <6>1 DEF TypeOK, NoRow
          <6> QED
            BY <1>0, <5>2, <6>1, <6>2 DEF RowInv, At
        <5> QED
          BY <3>4, <5>3, <5>4, <5>5
      <4> QED
        BY <4>1, <4>2 DEF Active
    <3> QED
      BY <1>2, <3>1, <3>2, <3>3, <3>4, StepIsServed
  <2>4. ASSUME NEW q \in Requests
        PROVE  /\ req'[q].at \in {"limit", "register", "count"} => req'[q].call.kind = "system"
               /\ req'[q].at = "overlap" => req'[q].call.kind = "notice"
               /\ rows'[q].stored => req'[q].at \in Active \/ rows'[q].committed
    BY <2>2, <2>3
  <2> QED
    BY <2>1, <2>4 DEF ServedInv, Served, At
<1>3. ASSUME (\E t \in queue : StartTask(t)) \/ Tick \/ Finished \/ UNCHANGED vars PROVE ServedInv'
  BY <1>3, OthersDo DEF ServedInv, Served, Overlapped, At
<1> QED
  BY <1>1, <1>2, <1>3 DEF Next

-----------------------------------------------------------------------------
\* What is stored has the types of a row.
LEMMA RowTypes ==
    ASSUME FrontAssumption, TypeOK
    PROVE  /\ now \in Int /\ Aggregation \in Int
           /\ \A q \in Requests : rows[q].stored => /\ rows[q].at \in Int /\ rows[q].to \in Int
                                                   /\ rows[q].counter \in Nat
           /\ \A q \in Requests : req[q].to \in Int /\ req[q].call \in AllCalls /\ req[q].minute \in Minutes
                                  /\ req[q].seen \in Nat /\ req[q].target \in Requests
<1>1. Times \subseteq Int /\ Aggregation \in Int
  BY DEF Times, FrontAssumption
<1>2. ASSUME NEW q \in Requests, rows[q].stored
      PROVE  rows[q].at \in Int /\ rows[q].to \in Int /\ rows[q].counter \in Nat
  <2>1. rows[q] \in Rows
    BY <1>2 DEF TypeOK, NoRow
  <2> QED
    BY <1>1, <2>1 DEF Rows
<1>3. ASSUME NEW q \in Requests
      PROVE  /\ req[q].to \in Int /\ req[q].call \in AllCalls /\ req[q].minute \in Minutes
             /\ req[q].seen \in Nat /\ req[q].target \in Requests
  <2>1. req[q] \in Locals
    BY DEF TypeOK
  <2> QED
    BY <2>1 DEF Locals
<1> QED
  BY <1>1, <1>2, <1>3 DEF TypeOK

\* What pairs of requests know of each other stays while their rows and what
\* they ask for do.
LEMMA PairKept ==
    ASSUME TypeOK, NEW r \in Requests, NEW q \in Requests, PairInv(r, q), req'[r] = req[r], req'[q] = req[q],
           \A p \in {r, q} : rows'[p].stored => /\ rows[p].stored
                                                /\ rows'[p].at = rows[p].at
                                                /\ rows'[p].to = rows[p].to
                                                /\ rows'[p].committed = rows[p].committed,
           now' = now \/ now' = now + 1
    PROVE  PairInv(r, q)'
<1>1. /\ now \in Int /\ Aggregation \in Int
      /\ \A p \in Requests : rows[p].stored => rows[p].at \in Int
  BY RowTypes, FrontAssumption
<1>2. Visible(q)' => Visible(q) /\ rows'[q].at = rows[q].at /\ rows'[q].to = rows[q].to
  BY DEF Visible
<1>3. At(r, "save")' /\ Visible(q)' /\ Twins(r, q)' => rows'[q].at + Aggregation <= now'
  <2>1. Visible(q) => rows[q].stored
    BY DEF Visible
  <2> QED
    BY <1>1, <1>2, <2>1 DEF PairInv, At, Twins
<1>4. rows'[r].stored /\ rows'[q].stored /\ Twins(r, q)' =>
         rows'[r].at + Aggregation <= rows'[q].at \/ rows'[q].at + Aggregation <= rows'[r].at
  BY DEF PairInv, Twins
<1>5. req'[r].at \in {"similar", "bump", "save"} /\ Visible(q)' /\ Notices(r, q)' => ~Near(rows'[q].to, req'[r].to)
  BY <1>2 DEF PairInv, Notices
<1>6. rows'[r].stored /\ rows'[q].stored /\ Notices(r, q)' =>
         ~Near(rows'[r].to, rows'[q].to) /\ ~Near(rows'[q].to, rows'[r].to)
  BY DEF PairInv, Notices
<1> QED
  BY <1>3, <1>4, <1>5, <1>6 DEF PairInv

\* It is enough to look at the request that moves and one that is not served.
LEMMA ClashMoves ==
    ASSUME FrontAssumption, FrontInv, ServedInv, ServedInv', ClashInv, overlaps \subseteq overlaps', now' = now,
           NEW r \in Requests, Served(r) \/ Served(r)',
           \A q \in Requests \ {r} :
             /\ req'[q] = req[q]
             /\ rows'[q].stored => /\ rows[q].stored
                                   /\ rows'[q].at = rows[q].at
                                   /\ rows'[q].to = rows[q].to
                                   /\ rows'[q].committed = rows[q].committed,
           \A q \in Requests \ {r} :
             ~Served(q) /\ ~Overlapped(r, q) => PairInv(r, q)' /\ PairInv(q, r)'
    PROVE  ClashInv'
<1> SUFFICES ASSUME NEW p \in Requests, NEW q \in Requests, p # q, ~Overlapped(p, q)'
             PROVE  PairInv(p, q)'
  BY DEF ClashInv
<1>0. ~Overlapped(p, q) /\ TypeOK
  BY DEF Overlapped, FrontInv
<1>s. \A s \in Requests : {r, s} = {s, r}
  OBVIOUS
<1>1. CASE p # r /\ q # r
  <2>1. PairInv(p, q)
    BY <1>0 DEF ClashInv
  <2> QED
    BY <1>0, <1>1, <2>1, PairKept
<1>2. CASE p = r
  <2>1. ~Served(q)
    BY <1>0, <1>2 DEF ServedInv, Overlapped, Served
  <2> QED
    BY <1>0, <1>2, <2>1
<1>3. CASE q = r
  <2>1. ~Overlapped(r, p) /\ ~Overlapped(r, p)'
    BY <1>0, <1>3, <1>s DEF Overlapped
  <2>2. ~Served(p)
    BY <1>3, <2>1 DEF ServedInv, Overlapped, Served
  <2> QED
    BY <1>3, <2>1, <2>2
<1> QED
  BY <1>1, <1>2, <1>3

\* Another request that is not served is past looking and has committed what
\* it stored.
LEMMA Idle ==
    ASSUME ServedInv, NEW q \in Requests, ~Served(q)
    PROVE  /\ req[q].at \notin {"similar", "bump", "save"}
           /\ rows[q].stored => Visible(q)
  BY DEF ServedInv, Served, Active, Visible

\* A request that moves and stores nothing.
LEMMA PairEarly ==
    ASSUME ServedInv, NEW r \in Requests, NEW q \in Requests, ~Served(q), req'[q] = req[q],
           ~rows'[r].stored,
           At(r, "save")' /\ Visible(q)' /\ Twins(r, q)' => rows'[q].at + Aggregation <= now',
           req'[r].at \in {"similar", "bump", "save"} /\ Visible(q)' /\ Notices(r, q)' => ~Near(rows'[q].to, req'[r].to)
    PROVE  PairInv(r, q)' /\ PairInv(q, r)'
<1>1. req'[q].at \notin {"similar", "bump", "save"}
  BY Idle
<1>2. ~Visible(r)'
  BY DEF Visible
<1> QED
  BY <1>1, <1>2 DEF PairInv, At

LEMMA NearToo == ASSUME NEW a \in Int, NEW b \in Int, FrontAssumption PROVE Near(a, b) <=> Near(b, a)
  BY DEF Near, FrontAssumption

LEMMA ClashNext ==
    ASSUME FrontAssumption, FrontInv, ServedInv, ServedInv', ClashInv, [Next]_vars
    PROVE  ClashInv'
<1>0. TypeOK /\ \A r \in Requests : RowInv(r)
  BY DEF FrontInv
<1>g. overlaps \subseteq overlaps'
  BY OverlapsGrow
<1>r. \A r \in Requests : /\ rows[r] = NoRow => ~rows[r].stored
                          /\ req[r].at \in Early => ~rows[r].stored
  BY <1>0 DEF NoRow, RowInv
<1>i. \A p, q \in Requests : p # q /\ ~Overlapped(p, q) => PairInv(p, q)
  BY DEF ClashInv
<1>y. /\ Aggregation \in Int /\ now \in Int
      /\ \A q \in Requests : rows[q].stored => rows[q].at \in Int /\ rows[q].to \in Int
      /\ \A q \in Requests : req[q].to \in Int /\ req[q].call \in AllCalls
  BY <1>0, RowTypes
<1>1. ASSUME NEW r \in Requests, NEW c \in Calls[r], Call(r, c) PROVE ClashInv'
  <2>1. /\ At(r, "new") /\ ~rows[r].stored /\ rows' = rows /\ now' = now
        /\ req'[r].at = First(c) /\ req'[r].call = c
        /\ \A q \in Requests \ {r} : req'[q] = req[q]
    BY <1>0, <1>1, <1>r, CallDoes DEF At, Early
  <2>2. c.kind \in {"mail", "system", "notice", "read"}
    BY CallFacts DEF AllCalls
  <2>3. /\ req'[r].at # "save" /\ req'[r].at \in Active
        /\ (req'[r].at \in {"similar", "bump", "save"} => req'[r].call.kind # "notice")
    BY <2>1, <2>2 DEF First, Active
  <2>4. \A q \in Requests \ {r} : ~Served(q) => PairInv(r, q)' /\ PairInv(q, r)'
    BY <2>1, <2>3, PairEarly DEF At, Notices
  <2>5. Served(r)'
    BY <2>3 DEF Served
  <2> QED
    BY <1>g, <2>1, <2>4, <2>5, ClashMoves
<1>2. ASSUME NEW r \in Requests,
             \/ CheckLimit(r) \/ ReadCount(r) \/ WriteCount(r) \/ CheckOverlap(r) \/ ReadSession(r)
             \/ WriteSession(r) \/ FindSimilar(r)
      PROVE  ClashInv'
  <2>1. Served(r) /\ Keeps(r) /\ rows' = rows /\ now' = now /\ ~rows[r].stored
    <3>1. Served(r) /\ Keeps(r) /\ rows' = rows /\ now' = now /\ req[r].at \in Early
      BY <1>0, <1>2, CheckLimitDoes, ReadCountDoes, WriteCountDoes, CheckOverlapDoes, ReadSessionDoes,
         WriteSessionDoes, FindSimilarDoes DEF At, Early, Served, Active
    <3> QED
      BY <1>r, <3>1
  <2>2. ASSUME NEW q \in Requests \ {r}, ~Served(q), ~Overlapped(r, q)
        PROVE  PairInv(r, q)' /\ PairInv(q, r)'
    <3>1. req'[q] = req[q] /\ (Visible(q)' <=> Visible(q)) /\ req'[r].to = req[r].to
      BY <2>1 DEF Keeps, Visible
    <3>2. (Twins(r, q)' <=> Twins(r, q)) /\ (Notices(r, q)' <=> Notices(r, q))
      BY <2>1, <3>1 DEF Keeps, Twins, Notices
    <3>3. ASSUME At(r, "save")', Visible(q), Twins(r, q) PROVE rows[q].at + Aggregation <= now
      <4>1. FindSimilar(r) /\ SimilarTo(r) = {}
        BY <1>0, <1>2, <3>3, CheckLimitDoes, ReadCountDoes, WriteCountDoes, CheckOverlapDoes, ReadSessionDoes,
           WriteSessionDoes, FindSimilarDoes DEF At
      <4>2. ~(rows[q].at > now - Aggregation)
        BY <3>3, <4>1 DEF SimilarTo, Twins
      <4>3. rows[q].at \in Int
        BY <1>y, <3>3 DEF Visible
      <4> QED
        BY <1>y, <4>2, <4>3
    <3>4. ASSUME req'[r].at \in {"similar", "bump", "save"}, Visible(q), Notices(r, q)
          PROVE  ~Near(rows[q].to, req[r].to)
      <4>1. \/ CheckOverlap(r) /\ \A p \in Requests : Visible(p) /\ req[p].call.delay # Now => ~Near(rows[p].to, req[r].to)
            \/ At(r, "similar") \/ At(r, "register") \/ At(r, "count")
        BY <1>0, <1>2, <3>4, CheckLimitDoes, ReadCountDoes, WriteCountDoes, CheckOverlapDoes, ReadSessionDoes,
           WriteSessionDoes, FindSimilarDoes
      <4>2. ~At(r, "register") /\ ~At(r, "count")
        BY <3>4 DEF ServedInv, At, Notices
      <4>3. req[q].call.delay # Now
        BY <1>y, <3>4 DEF FrontAssumption, AllCalls, Notices
      <4>4. PairInv(r, q)
        BY <1>i, <2>2
      <4> QED
        BY <3>4, <4>1, <4>2, <4>3, <4>4 DEF PairInv, At
    <3> QED
      BY <2>1, <2>2, <3>1, <3>2, <3>3, <3>4, PairEarly
  <2>3. \A q \in Requests \ {r} : req'[q] = req[q] /\ rows'[q] = rows[q]
    BY <2>1 DEF Keeps
  <2> QED
    BY <1>g, <2>1, <2>2, <2>3, ClashMoves
<1>3. ASSUME NEW r \in Requests, Bump(r) PROVE ClashInv'
  <2>1. /\ Served(r) /\ Keeps(r) /\ now' = now /\ ~rows'[r].stored /\ req'[r].at = "merged"
        /\ \A q \in Requests : /\ rows'[q].stored = rows[q].stored
                               /\ rows[q].stored => /\ rows'[q].at = rows[q].at
                                                    /\ rows'[q].to = rows[q].to
                                                    /\ rows'[q].committed = rows[q].committed
    BY <1>0, <1>3, <1>r, BumpDoes DEF At, Early, Served, Active
  <2>2. \A q \in Requests \ {r} : req'[q] = req[q]
    BY <2>1 DEF Keeps
  <2>3. \A q \in Requests \ {r} : ~Served(q) => PairInv(r, q)' /\ PairInv(q, r)'
    BY <2>1, <2>2, PairEarly DEF At
  <2> QED
    BY <1>g, <2>1, <2>2, <2>3, ClashMoves
<1>4. ASSUME NEW r \in Requests, Save(r) PROVE ClashInv'
  <2>1. /\ Served(r) /\ At(r, "save") /\ Keeps(r) /\ now' = now /\ req'[r].at = "enqueue"
        /\ rows'[r].stored /\ rows'[r].at = now /\ rows'[r].to = req[r].to
        /\ \A q \in Requests \ {r} : rows'[q] = rows[q]
    BY <1>0, <1>4, SaveDoes DEF At, Served, Active
  <2>2. ASSUME NEW q \in Requests \ {r}, ~Served(q), ~Overlapped(r, q)
        PROVE  PairInv(r, q)' /\ PairInv(q, r)'
    <3>1. req'[q] = req[q] /\ rows'[q] = rows[q] /\ req'[q].at \notin {"similar", "bump", "save"}
      BY <2>1, <2>2, Idle DEF Keeps
    <3>2. rows[q].stored => Visible(q) /\ rows[q].at \in Int /\ rows[q].to \in Int
      BY <1>y, <2>2, Idle
    <3>3. PairInv(r, q)
      BY <1>i, <2>2
    <3>4. /\ Twins(r, q)' <=> Twins(r, q)
          /\ Twins(q, r)' <=> Twins(r, q)
          /\ Notices(r, q)' <=> Notices(r, q)
          /\ Notices(q, r)' <=> Notices(r, q)
      BY <2>1, <3>1 DEF Keeps, Twins, Notices
    <3>5. rows[q].stored /\ Twins(r, q) => rows[q].at + Aggregation <= now
      BY <2>1, <3>2, <3>3 DEF PairInv
    <3>6. rows[q].stored /\ Notices(r, q) => ~Near(rows[q].to, req[r].to) /\ ~Near(req[r].to, rows[q].to)
      BY <1>y, <2>1, <3>2, <3>3, NearToo DEF PairInv, At
    <3> QED
      BY <2>1, <3>1, <3>4, <3>5, <3>6 DEF PairInv, At
  <2>3. \A q \in Requests \ {r} : req'[q] = req[q]
    BY <2>1 DEF Keeps
  <2> QED
    BY <1>g, <2>1, <2>2, <2>3, ClashMoves
<1>5. ASSUME NEW r \in Requests, Served(r), Enqueue(r) \/ SendNow(r) \/ Commit(r) \/ Abort(r) PROVE ClashInv'
  <2>1. /\ Keeps(r) /\ now' = now /\ req'[r].at \notin {"similar", "bump", "save"}
        /\ rows'[r].stored => rows[r].stored /\ rows'[r].at = rows[r].at /\ rows'[r].to = rows[r].to
        /\ \A q \in Requests \ {r} : rows'[q] = rows[q]
    BY <1>0, <1>5, LateDoes
  <2>2. ASSUME NEW q \in Requests \ {r}, ~Served(q), ~Overlapped(r, q)
        PROVE  PairInv(r, q)' /\ PairInv(q, r)'
    <3>1. req'[q] = req[q] /\ rows'[q] = rows[q] /\ req'[q].at \notin {"similar", "bump", "save"}
      BY <2>1, <2>2, Idle DEF Keeps
    <3>2. PairInv(r, q)
      BY <1>i, <2>2
    <3>3. /\ Twins(r, q)' <=> Twins(r, q)
          /\ Twins(q, r)' <=> Twins(r, q)
          /\ Notices(r, q)' <=> Notices(r, q)
          /\ Notices(q, r)' <=> Notices(r, q)
      BY <2>1, <3>1 DEF Keeps, Twins, Notices
    <3> QED
      BY <2>1, <3>1, <3>2, <3>3 DEF PairInv, At
  <2>3. \A q \in Requests \ {r} : req'[q] = req[q]
    BY <2>1 DEF Keeps
  <2> QED
    BY <1>g, <1>5, <2>1, <2>2, <2>3, ClashMoves
<1>6. ASSUME (\E t \in queue : StartTask(t)) \/ Tick \/ Finished \/ UNCHANGED vars PROVE ClashInv'
  <2>1. UNCHANGED <<rows, overlaps, req>> /\ (now' = now \/ now' = now + 1)
    BY <1>6, OthersDo DEF Tick
  <2> SUFFICES ASSUME NEW p \in Requests, NEW q \in Requests, p # q, ~Overlapped(p, q)'
               PROVE  PairInv(p, q)'
    BY DEF ClashInv
  <2>2. ~Overlapped(p, q)
    BY <2>1 DEF Overlapped
  <2>3. PairInv(p, q)
    BY <1>i, <2>2
  <2> QED
    BY <1>0, <2>1, <2>3, PairKept
<1> QED
  BY <1>1, <1>2, <1>3, <1>4, <1>5, <1>6, StepIsServed DEF Next

LEMMA ClashInvImplies ==
    ASSUME FrontAssumption, FrontInv, ClashInv
    PROVE  ClashesOverlapped
<1> SUFFICES ASSUME NEW r \in Requests, NEW q \in Requests, r # q, Visible(r), Visible(q), ~Overlapped(r, q)
             PROVE  /\ ~(/\ req[r].call.context = req[q].call.context /\ req[r].call.context # Own
                         /\ rows[r].at - rows[q].at < Aggregation /\ rows[q].at - rows[r].at < Aggregation)
                    /\ ~(/\ req[r].call.kind = "notice" /\ req[q].call.kind = "notice"
                         /\ Near(rows[r].to, rows[q].to))
  BY DEF ClashesOverlapped
<1>1. PairInv(r, q) /\ rows[r].stored /\ rows[q].stored
  BY DEF ClashInv, Visible
<1>2. Aggregation \in Int /\ rows[r].at \in Int /\ rows[q].at \in Int
  BY <1>1, RowTypes DEF FrontInv
<1> QED
  BY <1>1, <1>2 DEF PairInv, Twins, Notices

-----------------------------------------------------------------------------
LEMMA IntosAreFinite ==
    ASSUME FrontAssumption, NEW r
    PROVE  /\ IsFiniteSet(MergedInto(r)) /\ Cardinality(MergedInto(r)) \in Nat
           /\ IsFiniteSet(LoneInto(r)) /\ Cardinality(LoneInto(r)) \in Nat
<1>1. MergedInto(r) \in SUBSET Requests /\ LoneInto(r) \in SUBSET Requests /\ IsFiniteSet(Requests)
  BY DEF MergedInto, LoneInto, FrontAssumption
<1>2. IsFiniteSet(MergedInto(r)) /\ IsFiniteSet(LoneInto(r))
  BY <1>1, FS_Subset
<1> QED
  BY <1>2, FS_CardinalityType

\* Steps but an update of a counter: who was merged stays so, and fewer were
\* alone.
LEMMA IntosKept ==
    ASSUME FrontAssumption, overlaps \subseteq overlaps',
           \A q \in Requests : At(q, "merged")' <=> At(q, "merged"),
           \A q \in Requests : At(q, "merged") => req'[q].target = req[q].target,
           NEW r \in Requests
    PROVE  /\ MergedInto(r)' = MergedInto(r)
           /\ Cardinality(LoneInto(r)') <= Cardinality(LoneInto(r))
           /\ Cardinality(LoneInto(r)') \in Nat /\ IsFiniteSet(LoneInto(r)')
<1>1. \A q \in Requests : Merged(r, q)' <=> Merged(r, q)
  BY DEF Merged
<1>2. LoneInto(r)' \subseteq LoneInto(r) /\ MergedInto(r)' = MergedInto(r)
  BY <1>1, LoneBefore DEF LoneInto, MergedInto
<1>3. IsFiniteSet(LoneInto(r)') /\ Cardinality(LoneInto(r)') <= Cardinality(LoneInto(r))
  BY <1>2, IntosAreFinite, FS_Subset
<1> QED
  BY <1>2, <1>3, FS_CardinalityType

\* The part of CountInv about counters, and the one about sessions.
Counters ==
    /\ \A r \in Requests : rows[r].stored =>
        /\ rows[r].counter >= 1 + Cardinality(LoneInto(r))
        /\ rows[r].counter <= 1 + Cardinality(MergedInto(r))
    /\ \A q \in Requests : At(q, "bump") =>
        /\ req[q].seen >= 1 + Cardinality(LoneInto(req[q].target))
        /\ req[q].seen <= 1 + Cardinality(MergedInto(req[q].target))

Sessions ==
    /\ \A r \in Requests : At(r, "read") /\ Lone(r) => r \in read
    /\ \A q \in Requests : At(q, "write") =>
        /\ q \in req[q].session
        /\ \A r \in Requests : At(r, "read") /\ Lone(r) => r \in req[q].session

LEMMA CountersKept ==
    ASSUME FrontAssumption, TypeOK, Counters, overlaps \subseteq overlaps',
           \A q \in Requests : At(q, "merged")' <=> At(q, "merged"),
           \A q \in Requests : At(q, "merged") => req'[q].target = req[q].target,
           \A q \in Requests : rows'[q].stored =>
             \/ rows[q].stored /\ rows'[q].counter = rows[q].counter
             \/ rows'[q].counter = 1 /\ MergedInto(q) = {},
           \A q \in Requests : At(q, "bump")' =>
             \/ At(q, "bump") /\ req'[q].seen = req[q].seen /\ req'[q].target = req[q].target
             \/ /\ req'[q].target \in Requests /\ rows[req'[q].target].stored
                /\ req'[q].seen = rows[req'[q].target].counter
    PROVE  Counters'
<1>0. ASSUME NEW r \in Requests
      PROVE  /\ MergedInto(r)' = MergedInto(r)
             /\ Cardinality(LoneInto(r)') <= Cardinality(LoneInto(r))
             /\ Cardinality(LoneInto(r)') \in Nat /\ Cardinality(LoneInto(r)) \in Nat
             /\ Cardinality(MergedInto(r)) \in Nat
  BY IntosKept, IntosAreFinite
<1>t. \A q \in Requests : /\ req[q].target \in Requests /\ req[q].seen \in Nat
                          /\ rows[q].stored => rows[q].counter \in Nat
  BY RowTypes
<1>1. ASSUME NEW r \in Requests, rows'[r].stored
      PROVE  /\ rows'[r].counter >= 1 + Cardinality(LoneInto(r)')
             /\ rows'[r].counter <= 1 + Cardinality(MergedInto(r)')
  <2>1. CASE rows[r].stored /\ rows'[r].counter = rows[r].counter
    BY <1>0, <1>t, <2>1 DEF Counters
  <2>2. CASE rows'[r].counter = 1 /\ MergedInto(r) = {}
    <3>1. LoneInto(r)' = {}
      BY <1>0, <2>2 DEF LoneInto, MergedInto
    <3> QED
      BY <1>0, <2>2, <3>1, FS_EmptySet
  <2> QED
    BY <1>1, <2>1, <2>2
<1>2. ASSUME NEW q \in Requests, At(q, "bump")'
      PROVE  /\ req'[q].seen >= 1 + Cardinality(LoneInto(req[q].target)')
             /\ req'[q].seen <= 1 + Cardinality(MergedInto(req[q].target)')
  <2>1. PICK p \in Requests : p = req'[q].target
    BY <1>2, <1>t
  <2>2. req'[q].seen >= 1 + Cardinality(LoneInto(p)) /\ req'[q].seen <= 1 + Cardinality(MergedInto(p))
        /\ req'[q].seen \in Nat
    BY <1>2, <1>t, <2>1 DEF Counters
  <2>3. /\ req'[q].seen >= 1 + Cardinality(LoneInto(p)') /\ req'[q].seen <= 1 + Cardinality(MergedInto(p)')
    BY <1>0, <2>2
  <2>4. LoneInto(req[q].target)' = LoneInto(p)' /\ MergedInto(req[q].target)' = MergedInto(p)'
    BY <2>1 DEF LoneInto, MergedInto, Merged
  <2> QED
    BY <2>3, <2>4
<1> QED
  BY <1>1, <1>2 DEF Counters

\* One more was merged into the target.
LEMMA BumpCounters ==
    ASSUME FrontAssumption, TypeOK, ServedInv, Counters, NEW r \in Requests, RowInv(r), Bump(r)
    PROVE  Counters'
<1>t. PICK p \in Requests : p = req[r].target
  BY RowTypes
<1>1. /\ At(r, "bump") /\ Served(r) /\ Keeps(r) /\ req'[r].at = "merged" /\ req'[r].target = p
      /\ Visible(p) /\ rows'[p].counter = req[r].seen + 1
      /\ \A q \in Requests : rows'[q].stored = rows[q].stored /\ (q # p => rows'[q] = rows[q])
      /\ overlaps' = overlaps
  BY <1>t, BumpDoes DEF At, Served, Active
<1>2. \A x, q : q \in Requests => (Merged(x, q)' <=> Merged(x, q) \/ (x = p /\ q = r))
  BY <1>1 DEF Merged, At, Keeps
<1>3. \A q \in Requests : Lone(q)' <=> Lone(q)
  BY <1>1 DEF Lone, Overlapped
<1>4. ASSUME NEW x
      PROVE  /\ Cardinality(MergedInto(x)') = IF x = p THEN Cardinality(MergedInto(x)) + 1
                                              ELSE Cardinality(MergedInto(x))
             /\ Cardinality(LoneInto(x)') = IF x = p /\ Lone(r) THEN Cardinality(LoneInto(x)) + 1
                                            ELSE Cardinality(LoneInto(x))
             /\ Cardinality(MergedInto(x)) \in Nat /\ Cardinality(LoneInto(x)) \in Nat
  <2>1. r \notin MergedInto(x) /\ r \notin LoneInto(x)
    BY <1>1 DEF MergedInto, LoneInto, Merged, At
  <2>2. MergedInto(x)' = (IF x = p THEN MergedInto(x) \cup {r} ELSE MergedInto(x))
    BY <1>2 DEF MergedInto
  <2>3. LoneInto(x)' = (IF x = p /\ Lone(r) THEN LoneInto(x) \cup {r} ELSE LoneInto(x))
    BY <1>2, <1>3 DEF LoneInto
  <2>4. /\ IsFiniteSet(MergedInto(x)) /\ Cardinality(MergedInto(x)) \in Nat
        /\ IsFiniteSet(LoneInto(x)) /\ Cardinality(LoneInto(x)) \in Nat
    BY IntosAreFinite
  <2>5. Cardinality(MergedInto(x) \cup {r}) = Cardinality(MergedInto(x)) + 1
    BY <2>1, <2>4, FS_AddElement
  <2>6. Cardinality(LoneInto(x) \cup {r}) = Cardinality(LoneInto(x)) + 1
    BY <2>1, <2>4, FS_AddElement
  <2>7. Cardinality(MergedInto(x)') = IF x = p THEN Cardinality(MergedInto(x)) + 1 ELSE Cardinality(MergedInto(x))
    BY <2>2, <2>5
  <2>8. Cardinality(LoneInto(x)') = IF x = p /\ Lone(r) THEN Cardinality(LoneInto(x)) + 1
                                    ELSE Cardinality(LoneInto(x))
    BY <2>3, <2>6
  <2> QED
    BY <2>4, <2>7, <2>8
<1>5. \A q \in Requests : req[q].target \in Requests /\ req[q].seen \in Nat
  BY RowTypes
<1>6. ASSUME NEW x \in Requests, rows'[x].stored
      PROVE  /\ rows'[x].counter >= 1 + Cardinality(LoneInto(x)')
             /\ rows'[x].counter <= 1 + Cardinality(MergedInto(x)')
  <2>1. CASE x = p
    <3>1. /\ req[r].seen >= 1 + Cardinality(LoneInto(p))
          /\ req[r].seen <= 1 + Cardinality(MergedInto(p))
      BY <1>1, <1>t DEF Counters
    <3> QED
      BY <1>1, <1>4, <1>5, <2>1, <3>1
  <2>2. CASE x # p
    BY <1>1, <1>4, <1>6, <2>2 DEF Counters
  <2> QED
    BY <2>1, <2>2
<1>7. ASSUME NEW q \in Requests, At(q, "bump")'
      PROVE  /\ req'[q].seen >= 1 + Cardinality(LoneInto(req[q].target)')
             /\ req'[q].seen <= 1 + Cardinality(MergedInto(req[q].target)')
  <2>1. q # r /\ req'[q] = req[q] /\ At(q, "bump")
    BY <1>1, <1>7 DEF At, Keeps
  <2>2. ~Lone(r)
    BY <1>1, <2>1, NotAlone DEF At, Served, Active
  <2>3. PICK x \in Requests : x = req[q].target
    BY <1>5
  <2>4. LoneInto(req[q].target)' = LoneInto(x)' /\ MergedInto(req[q].target)' = MergedInto(x)'
    BY <2>1, <2>3 DEF LoneInto, MergedInto, Merged
  <2>5. req[q].seen >= 1 + Cardinality(LoneInto(x)) /\ req[q].seen <= 1 + Cardinality(MergedInto(x))
    BY <2>1, <2>3 DEF Counters
  <2> QED
    BY <1>4, <1>5, <2>1, <2>2, <2>4, <2>5
<1> QED
  BY <1>6, <1>7 DEF Counters

LEMMA SessionsKept ==
    ASSUME Sessions, overlaps \subseteq overlaps', read' = read,
           \A q \in Requests : /\ At(q, "read")' => At(q, "read")
                               /\ At(q, "write")' => At(q, "write") /\ req'[q].session = req[q].session
    PROVE  Sessions'
  BY LoneBefore DEF Sessions

LEMMA CountNext ==
    ASSUME FrontAssumption, FrontInv, ServedInv, CountInv, [Next]_vars
    PROVE  CountInv'
<1>0. TypeOK /\ \A r \in Requests : RowInv(r)
  BY DEF FrontInv
<1>g. overlaps \subseteq overlaps'
  BY OverlapsGrow
<1>c. Counters /\ Sessions
  BY DEF CountInv, Counters, Sessions
<1>1. ASSUME NEW r \in Requests, NEW c \in Calls[r], Call(r, c) PROVE Counters' /\ Sessions'
  <2>1. /\ At(r, "new") /\ rows' = rows /\ read' = read /\ req'[r].at = First(c)
        /\ \A q \in Requests \ {r} : req'[q] = req[q]
    BY <1>0, <1>1, CallDoes
  <2>2. First(c) \notin {"merged", "bump", "read", "write"}
    BY CallFacts DEF First, AllCalls
  <2>3. Counters'
    BY <1>0, <1>c, <1>g, <2>1, <2>2, CountersKept DEF At
  <2>4. Sessions'
    BY <1>c, <1>g, <2>1, <2>2, SessionsKept DEF At
  <2> QED
    BY <2>3, <2>4
<1>2. ASSUME NEW r \in Requests,
             \/ CheckLimit(r) \/ ReadCount(r) \/ WriteCount(r) \/ CheckOverlap(r) \/ FindSimilar(r)
             \/ Save(r) \/ (Served(r) /\ (Enqueue(r) \/ SendNow(r) \/ Commit(r) \/ Abort(r)))
      PROVE  Counters' /\ Sessions'
  <2>1. /\ Keeps(r) /\ read' = read /\ ~At(r, "merged") /\ req'[r].at \notin {"merged", "read", "write"}
        /\ \A q \in Requests \ {r} : rows'[q] = rows[q]
        /\ At(r, "bump")' => /\ req'[r].target \in Requests /\ rows[req'[r].target].stored
                             /\ req'[r].seen = rows[req'[r].target].counter
        /\ rows'[r].stored => \/ rows[r].stored /\ rows'[r].counter = rows[r].counter
                              \/ rows'[r].counter = 1 /\ At(r, "save")
    BY <1>0, <1>2, CheckLimitDoes, ReadCountDoes, WriteCountDoes, CheckOverlapDoes, FindSimilarDoes, SaveDoes,
       LateDoes DEF At, Visible, Served, Active
  <2>2. At(r, "save") => MergedInto(r) = {}
    <3>1. ASSUME At(r, "save"), NEW q \in Requests, Merged(r, q) PROVE FALSE
      <4>1. Visible(r)
        BY <1>0, <3>1 DEF RowInv, Merged, At
      <4>2. rows[r] = NoRow
        BY <1>0, <3>1 DEF RowInv, At, Early
      <4> QED
        BY <4>1, <4>2 DEF Visible, NoRow
    <3> QED
      BY <3>1 DEF MergedInto
  <2>3. Counters'
    BY <1>0, <1>c, <1>g, <2>1, <2>2, CountersKept DEF At, Keeps
  <2>4. Sessions'
    BY <1>c, <1>g, <2>1, SessionsKept DEF At, Keeps
  <2> QED
    BY <2>3, <2>4
<1>3. ASSUME NEW r \in Requests, Bump(r) PROVE Counters' /\ Sessions'
  <2>1. Keeps(r) /\ read' = read /\ req'[r].at = "merged"
    BY <1>0, <1>3, BumpDoes
  <2>2. Sessions'
    BY <1>c, <1>g, <2>1, SessionsKept DEF At, Keeps
  <2> QED
    BY <1>0, <1>3, <1>c, <2>2, BumpCounters
<1>4. ASSUME NEW r \in Requests, ReadSession(r) \/ WriteSession(r) PROVE Counters'
  <2>1. /\ Keeps(r) /\ rows' = rows /\ ~At(r, "merged") /\ req'[r].at \in {"write", "read"}
    BY <1>0, <1>4, ReadSessionDoes, WriteSessionDoes DEF At
  <2> QED
    BY <1>0, <1>c, <1>g, <2>1, CountersKept DEF At, Keeps
<1>5. ASSUME NEW r \in Requests, ReadSession(r) PROVE Sessions'
  <2>1. /\ Keeps(r) /\ req'[r].at = "write" /\ req'[r].session = read \union {r} /\ read' = read
    BY <1>0, <1>5, ReadSessionDoes
  <2> QED
    BY <1>c, <1>g, <2>1, LoneBefore DEF Sessions, At, Keeps
<1>6. ASSUME NEW r \in Requests, WriteSession(r) PROVE Sessions'
  <2>1. /\ Keeps(r) /\ At(r, "write") /\ Served(r) /\ req'[r].at = "read" /\ read' = req[r].session
    BY <1>0, <1>6, WriteSessionDoes DEF At, Served, Active
  <2>2. \A q \in Requests : At(q, "read")' /\ Lone(q)' => q \in read'
    BY <1>c, <1>g, <2>1, LoneBefore DEF Sessions, At, Keeps
  <2>3. ASSUME NEW q \in Requests, At(q, "write")'
        PROVE  /\ q \in req'[q].session
               /\ \A p \in Requests : At(p, "read")' /\ Lone(p)' => p \in req'[q].session
    <3>1. q # r /\ req'[q] = req[q] /\ At(q, "write")
      BY <2>1, <2>3 DEF At, Keeps
    <3>2. ~Lone(r)
      BY <2>1, <3>1, NotAlone DEF At, Served, Active
    <3> QED
      BY <1>c, <1>g, <2>1, <3>1, <3>2, LoneBefore DEF Sessions, At, Keeps
  <2> QED
    BY <2>2, <2>3 DEF Sessions
<1>7. ASSUME (\E t \in queue : StartTask(t)) \/ Tick \/ Finished \/ UNCHANGED vars PROVE Counters' /\ Sessions'
  <2>1. UNCHANGED <<rows, read, overlaps, req>>
    BY <1>7, OthersDo
  <2>2. Counters'
    BY <1>0, <1>c, <1>g, <2>1, CountersKept DEF At
  <2> QED
    BY <1>c, <1>g, <2>1, <2>2, SessionsKept DEF At
<1>8. Counters' /\ Sessions'
  BY <1>1, <1>2, <1>3, <1>4, <1>5, <1>6, <1>7, StepIsServed DEF Next
<1> QED
  BY <1>8 DEF CountInv, Counters, Sessions

LEMMA CountInvImplies == CountInv => LoneIsNeverLost
  BY DEF CountInv, LoneIsNeverLost, LoneInto, MergedInto

-----------------------------------------------------------------------------
\* The minute does not go back.
LEMMA MinuteGrows ==
    ASSUME NEW a \in Nat, NEW m \in Nat \ {0}
    PROVE  a \div m \in Nat /\ a \div m <= (a + 1) \div m
<1>1. \A b \in Nat : b \div m \in Nat /\ b = m * (b \div m) + (b % m) /\ 0 <= b % m /\ b % m < m
  OBVIOUS
<1> QED
  BY <1>1

LEMMA ThisMinuteIs ==
    ASSUME FrontAssumption, TypeOK
    PROVE  ThisMinute \in Minutes /\ ThisMinute \in Nat /\ throttle[ThisMinute] \in Nat /\ Minutes \subseteq Nat
<1>1. ThisMinute \in Minutes
  BY DEF TypeOK, ThisMinute, Minutes
<1>2. Minutes \subseteq Nat
  BY MinuteGrows DEF Minutes, Times, FrontAssumption
<1> QED
  BY <1>1, <1>2 DEF TypeOK

LEMMA PassedIsFinite ==
    ASSUME FrontAssumption, NEW m
    PROVE  IsFiniteSet(Passed(m)) /\ Cardinality(Passed(m)) \in Nat
<1>1. Passed(m) \in SUBSET Requests /\ IsFiniteSet(Requests)
  BY DEF Passed, FrontAssumption
<1>2. IsFiniteSet(Passed(m))
  BY <1>1, FS_Subset
<1> QED
  BY <1>2, FS_CardinalityType

\* A step of a request lets at most this one pass.
LEMMA PassedMoves ==
    ASSUME FrontAssumption, FrontInv, overlaps \subseteq overlaps', NEW r \in Requests,
           \A q \in Requests \ {r} : req'[q] = req[q], NEW m
    PROVE  /\ Passed(m)' \subseteq Passed(m) \union {r}
           /\ r \notin Passed(m)' \/ r \in Passed(m) => Cardinality(Passed(m)') <= Cardinality(Passed(m))
           /\ Cardinality(Passed(m)') <= Cardinality(Passed(m)) + 1
           /\ Cardinality(Passed(m)') \in Nat /\ Cardinality(Passed(m)) \in Nat
<1>1. Passed(m)' \subseteq Passed(m) \union {r}
  BY LoneBefore DEF Passed
<1>2. /\ IsFiniteSet(Passed(m)) /\ Cardinality(Passed(m)) \in Nat
      /\ IsFiniteSet(Passed(m) \union {r})
      /\ Cardinality(Passed(m) \union {r}) <= Cardinality(Passed(m)) + 1
  <2>1. IsFiniteSet(Passed(m)) /\ Cardinality(Passed(m)) \in Nat
    BY PassedIsFinite
  <2>2. /\ IsFiniteSet(Passed(m) \cup {r})
        /\ Cardinality(Passed(m) \cup {r}) = IF r \in Passed(m) THEN Cardinality(Passed(m))
                                             ELSE Cardinality(Passed(m)) + 1
    BY <2>1, FS_AddElement
  <2> QED
    BY <2>1, <2>2
<1>3. Cardinality(Passed(m)') <= Cardinality(Passed(m) \union {r}) /\ IsFiniteSet(Passed(m)')
  BY <1>1, <1>2, FS_Subset
<1>4. r \notin Passed(m)' \/ r \in Passed(m) => Cardinality(Passed(m)') <= Cardinality(Passed(m))
  <2>1. r \notin Passed(m)' \/ r \in Passed(m) => Passed(m)' \subseteq Passed(m)
    BY <1>1
  <2> QED
    BY <1>2, <2>1, FS_Subset
<1>5. Cardinality(Passed(m)') \in Nat /\ Cardinality(Passed(m) \union {r}) \in Nat
  BY <1>2, <1>3, FS_CardinalityType
<1> QED
  BY <1>1, <1>2, <1>3, <1>4, <1>5

\* Steps of a request that is not in the throttle, or leaves it for good.
LEMMA ThrottleKept ==
    ASSUME FrontAssumption, FrontInv, ThrottleInv, overlaps \subseteq overlaps', NEW r \in Requests,
           \A q \in Requests \ {r} : req'[q] = req[q],
           UNCHANGED <<now, throttle>>, req'[r].minute <= ThisMinute,
           \A m : r \notin Passed(m)' \/ r \in Passed(m),
           req'[r].at \notin {"register", "count"}
    PROVE  ThrottleInv'
<1>0. TypeOK /\ ThisMinute' = ThisMinute
  BY DEF FrontInv, ThisMinute
<1>1. ASSUME NEW m
      PROVE  /\ Cardinality(Passed(m)') <= Cardinality(Passed(m))
             /\ Cardinality(Passed(m)') \in Nat /\ Cardinality(Passed(m)) \in Nat
  BY PassedMoves
<1>2. /\ Limit \in Nat /\ ThisMinute \in Nat /\ throttle[ThisMinute] \in Nat
      /\ \A q \in Requests : req[q].seen \in Nat
  BY <1>0, ThisMinuteIs, RowTypes DEF FrontAssumption
<1>3. \A q \in Requests : req'[q].minute <= ThisMinute
  BY DEF ThrottleInv
<1>k. PICK k : k = ThisMinute
  OBVIOUS
<1>p. Passed(ThisMinute)' = Passed(k)' /\ Passed(ThisMinute) = Passed(k)
  BY <1>0, <1>k DEF Passed
<1>h. Cardinality(Passed(k)') <= Cardinality(Passed(k)) /\ Cardinality(Passed(k)') \in Nat /\ Cardinality(Passed(k)) \in Nat
  BY <1>1
<1>4. Cardinality(Passed(ThisMinute)') <= throttle[ThisMinute]
  BY <1>2, <1>h, <1>p DEF ThrottleInv
<1>5. \A q \in Requests : At(q, "count")' => Cardinality(Passed(ThisMinute)') <= req'[q].seen
  BY <1>2, <1>h, <1>p DEF ThrottleInv, At
<1>6. \A q \in Requests : At(q, "register")' /\ Lone(q)' /\ req'[q].minute = ThisMinute =>
         throttle[ThisMinute] <= Limit
  BY LoneBefore DEF ThrottleInv, At
<1>7. ASSUME NEW q \in Requests, req'[q].at \in {"register", "count"}, Lone(q)'
      PROVE  Cardinality(Passed(req[q].minute)') <= Limit
  <2>1. req'[q] = req[q] /\ Lone(q)
    BY <1>7, LoneBefore
  <2>2. PICK m : m = req[q].minute
    OBVIOUS
  <2>3. Cardinality(Passed(m)) <= Limit
    BY <1>7, <2>1, <2>2 DEF ThrottleInv
  <2>4. Passed(req[q].minute)' = Passed(m)'
    BY <2>1, <2>2 DEF Passed
  <2> QED
    BY <1>1, <1>2, <2>3, <2>4
<1>8. \A m \in Minutes : Cardinality(Passed(m)') <= Limit + 1
  BY <1>1, <1>2 DEF ThrottleInv, ThrottleHolds
<1> QED
  BY <1>0, <1>3, <1>4, <1>5, <1>6, <1>7, <1>8 DEF ThrottleInv, ThrottleHolds

\* A request that was served alone in the throttle passes at the end of it.
LEMMA ThrottlePasses ==
    ASSUME FrontAssumption, FrontInv, ServedInv, ThrottleInv, overlaps' = overlaps, NEW r \in Requests,
           Keeps(r), now' = now, req'[r].minute = req[r].minute, req'[r].at = "similar",
           req[r].at \in {"register", "count"},
           At(r, "register") => throttle[ThisMinute] > Limit + 1 /\ throttle' = throttle,
           At(r, "count") => throttle' = [throttle EXCEPT ![ThisMinute] = req[r].seen + 1]
    PROVE  ThrottleInv'
<1>0. TypeOK /\ ThisMinute' = ThisMinute /\ \A q \in Requests \ {r} : req'[q] = req[q]
  BY DEF FrontInv, ThisMinute, Keeps
<1>1. ASSUME NEW m
      PROVE  /\ r \notin Passed(m)' \/ r \in Passed(m) => Cardinality(Passed(m)') <= Cardinality(Passed(m))
             /\ Cardinality(Passed(m)') <= Cardinality(Passed(m)) + 1
             /\ Cardinality(Passed(m)') \in Nat /\ Cardinality(Passed(m)) \in Nat
  BY <1>0, PassedMoves
<1>2. /\ Limit \in Nat /\ ThisMinute \in Minutes /\ throttle[ThisMinute] \in Nat
      /\ \A q \in Requests : req[q].seen \in Nat
  BY <1>0, ThisMinuteIs, RowTypes DEF FrontAssumption
<1>a. \A q \in Requests : Lone(q)' <=> Lone(q)
  BY DEF Lone, Overlapped
<1>s. Served(r)
  BY DEF Served, Active
<1>l. \A q \in Requests : q # r /\ Served(q) => ~Lone(r) /\ ~Lone(q)
  BY <1>s, NotAlone
<1>e. \A m : r \in Passed(m)' => Lone(r) /\ req[r].minute = m
  BY <1>a DEF Passed
<1>3. \A q \in Requests : req'[q].minute <= ThisMinute
  BY <1>0 DEF ThrottleInv
<1>k. PICK k : k = ThisMinute
  OBVIOUS
<1>p. Passed(ThisMinute)' = Passed(k)' /\ Passed(ThisMinute) = Passed(k)
  BY <1>0, <1>k DEF Passed
<1>4. Cardinality(Passed(k)') <= throttle'[k]
  <2>1. CASE At(r, "count")
    <3>1. throttle'[k] = req[r].seen + 1
      BY <1>0, <1>2, <1>k, <2>1 DEF TypeOK
    <3>2. Cardinality(Passed(k)) <= req[r].seen
      BY <1>p, <2>1 DEF ThrottleInv
    <3> QED
      BY <1>1, <1>2, <3>1, <3>2
  <2>2. CASE At(r, "register")
    <3>1. r \notin Passed(k)'
      BY <1>2, <1>e, <1>k, <2>2 DEF ThrottleInv
    <3>2. Cardinality(Passed(k)) <= throttle[k]
      BY <1>k, <1>p DEF ThrottleInv
    <3> QED
      BY <1>1, <1>2, <1>k, <2>2, <3>1, <3>2
  <2> QED
    BY <2>1, <2>2 DEF At
<1>5. ASSUME NEW q \in Requests, At(q, "count")' PROVE Cardinality(Passed(k)') <= req'[q].seen
  <2>1. q # r /\ req'[q] = req[q] /\ At(q, "count")
    BY <1>0, <1>5 DEF At
  <2>2. r \notin Passed(k)'
    BY <1>e, <1>l, <2>1 DEF Served, Active, At
  <2>3. Cardinality(Passed(k)) <= req[q].seen
    BY <1>p, <2>1 DEF ThrottleInv
  <2> QED
    BY <1>1, <1>2, <2>1, <2>2, <2>3
<1>6. \A q \in Requests : ~(req'[q].at \in {"register", "count"} /\ Lone(q)')
  <2> SUFFICES ASSUME NEW q \in Requests, req'[q].at \in {"register", "count"}, Lone(q)' PROVE FALSE
    OBVIOUS
  <2>1. q # r /\ Served(q) /\ Lone(q)
    BY <1>0, <1>a DEF Served, Active
  <2> QED
    BY <1>l, <2>1
<1>7. ASSUME NEW m \in Minutes PROVE Cardinality(Passed(m)') <= Limit + 1
  <2>1. CASE r \notin Passed(m)'
    BY <1>1, <1>2, <2>1 DEF ThrottleInv, ThrottleHolds
  <2>2. CASE r \in Passed(m)'
    <3>1. Lone(r) /\ req[r].minute = m
      BY <1>e, <2>2
    <3>2. Cardinality(Passed(m)) <= Limit
      BY <3>1 DEF ThrottleInv
    <3> QED
      BY <1>1, <1>2, <3>2
  <2> QED
    BY <2>1, <2>2
<1>8. /\ Cardinality(Passed(ThisMinute)') <= throttle'[ThisMinute]
      /\ \A q \in Requests : At(q, "count")' => Cardinality(Passed(ThisMinute)') <= req'[q].seen
  BY <1>k, <1>4, <1>5, <1>p
<1>9. /\ \A q \in Requests : ~(At(q, "register")' /\ Lone(q)')
      /\ \A q \in Requests : ~(req'[q].at \in {"register", "count"} /\ Lone(q)')
  BY <1>6 DEF At
<1> QED
  BY <1>0, <1>3, <1>7, <1>8, <1>9 DEF ThrottleInv, ThrottleHolds

\* A request that is let in finds as many before it as the list has.
LEMMA ThrottleEnters ==
    ASSUME FrontAssumption, FrontInv, ServedInv, ThrottleInv, overlaps' = overlaps, NEW r \in Requests,
           Keeps(r), UNCHANGED <<now, throttle>>,
           \/ /\ req'[r].at = "register" /\ req'[r].minute = ThisMinute /\ throttle[ThisMinute] <= Limit
              /\ At(r, "limit")
           \/ /\ req'[r].at = "count" /\ req'[r].minute = req[r].minute /\ req'[r].seen = throttle[ThisMinute]
              /\ At(r, "register")
    PROVE  ThrottleInv'
<1>0. TypeOK /\ ThisMinute' = ThisMinute /\ \A q \in Requests \ {r} : req'[q] = req[q]
  BY DEF FrontInv, ThisMinute, Keeps
<1>e. \A m : r \notin Passed(m)'
  BY DEF Passed
<1>1. ASSUME NEW m
      PROVE  /\ Cardinality(Passed(m)') <= Cardinality(Passed(m))
             /\ Cardinality(Passed(m)') \in Nat /\ Cardinality(Passed(m)) \in Nat
  BY <1>0, <1>e, PassedMoves
<1>2. /\ Limit \in Nat /\ ThisMinute \in Nat /\ throttle[ThisMinute] \in Nat
      /\ \A q \in Requests : req[q].seen \in Nat
  BY <1>0, ThisMinuteIs, RowTypes DEF FrontAssumption
<1>a. \A q \in Requests : Lone(q)' <=> Lone(q)
  BY DEF Lone, Overlapped
<1>k. PICK k : k = ThisMinute
  OBVIOUS
<1>p. Passed(ThisMinute)' = Passed(k)' /\ Passed(ThisMinute) = Passed(k)
  BY <1>0, <1>k DEF Passed
<1>h. /\ Cardinality(Passed(k)') <= Cardinality(Passed(k)) /\ Cardinality(Passed(k)') \in Nat
      /\ Cardinality(Passed(k)) \in Nat /\ Cardinality(Passed(k)) <= throttle[ThisMinute]
  BY <1>1, <1>p DEF ThrottleInv
<1>3. \A q \in Requests : req'[q].minute <= ThisMinute
  BY <1>0, <1>2 DEF ThrottleInv
<1>4. Cardinality(Passed(ThisMinute)') <= throttle[ThisMinute]
  BY <1>2, <1>h, <1>p
<1>5. ASSUME NEW q \in Requests, At(q, "count")' PROVE Cardinality(Passed(ThisMinute)') <= req'[q].seen
  <2>1. CASE q = r
    BY <1>4, <1>5, <2>1 DEF At
  <2>2. CASE q # r
    <3>1. Cardinality(Passed(k)) <= req[q].seen
      BY <1>0, <1>5, <1>p, <2>2 DEF ThrottleInv, At
    <3> QED
      BY <1>0, <1>2, <1>h, <1>p, <2>2, <3>1
  <2> QED
    BY <2>1, <2>2
<1>6. \A q \in Requests : At(q, "register")' /\ Lone(q)' /\ req'[q].minute = ThisMinute =>
         throttle[ThisMinute] <= Limit
  BY <1>0, <1>a DEF ThrottleInv, At
<1>7. ASSUME NEW q \in Requests, req'[q].at \in {"register", "count"}, Lone(q)'
      PROVE  Cardinality(Passed(req[q].minute)') <= Limit
  <2>1. PICK m : m = req'[q].minute
    OBVIOUS
  <2>2. Passed(req[q].minute)' = Passed(m)'
    BY <2>1 DEF Passed
  <2>3. Cardinality(Passed(m)) <= Limit
    <3>1. CASE q # r
      BY <1>0, <1>7, <1>a, <2>1, <3>1 DEF ThrottleInv
    <3>2. CASE q = r /\ req'[r].at = "register"
      BY <1>2, <1>h, <1>k, <2>1, <3>2 DEF At
    <3>3. CASE q = r /\ req'[r].at = "count"
      BY <1>7, <1>a, <2>1, <3>3 DEF ThrottleInv, At
    <3> QED
      BY <1>7, <3>1, <3>2, <3>3
  <2> QED
    BY <1>1, <1>2, <2>2, <2>3
<1>8. \A m \in Minutes : Cardinality(Passed(m)') <= Limit + 1
  BY <1>1, <1>2 DEF ThrottleInv, ThrottleHolds
<1> QED
  BY <1>0, <1>3, <1>4, <1>5, <1>6, <1>7, <1>8 DEF ThrottleInv, ThrottleHolds

\* In a new minute nobody has passed yet.
LEMMA ThrottleTick ==
    ASSUME FrontAssumption, FrontInv, FrontInv', ThrottleInv, UNCHANGED <<throttle, overlaps, req>>, Tick
    PROVE  ThrottleInv'
<1>0. TypeOK /\ TypeOK'
  BY DEF FrontInv
<1>1. /\ ThisMinute \in Nat /\ throttle[ThisMinute] \in Nat
      /\ \A q \in Requests : req[q].seen \in Nat /\ req[q].minute \in Nat
  BY <1>0, ThisMinuteIs, RowTypes
<1>2. ThisMinute' \in Minutes /\ ThisMinute' \in Nat
  BY <1>0, ThisMinuteIs DEF ThisMinute, TypeOK, Minutes
<1>3. ThisMinute <= ThisMinute'
  <2>1. now \in Nat /\ Minute \in Nat \ {0} /\ now' = now + 1
    BY <1>0 DEF TypeOK, Times, FrontAssumption, Tick
  <2> QED
    BY <2>1, MinuteGrows DEF ThisMinute
<1>4. \A m : Passed(m)' = Passed(m)
  BY DEF Passed, Lone, Overlapped
<1>k. PICK k \in Minutes : k = ThisMinute'
  BY <1>2
<1>5. CASE ThisMinute' = ThisMinute
  <2>1. /\ \A q \in Requests : Lone(q)' <=> Lone(q)
        /\ \A q \in Requests : Passed(req[q].minute)' = Passed(req[q].minute)
        /\ Passed(ThisMinute)' = Passed(ThisMinute)
    BY <1>5 DEF Lone, Overlapped, Passed
  <2>2. ThrottleHolds'
    BY <1>4 DEF ThrottleInv, ThrottleHolds
  <2> QED
    BY <1>5, <2>1, <2>2 DEF ThrottleInv, At
<1>6. CASE ThisMinute' # ThisMinute
  <2>1. \A q \in Requests : req[q].minute # k
    BY <1>1, <1>3, <1>6, <1>k DEF ThrottleInv
  <2>2. Passed(k) = {}
    BY <2>1 DEF Passed
  <2>3. Cardinality(Passed(k)) = 0
    BY <2>2, FS_EmptySet
  <2>4. Passed(ThisMinute)' = Passed(k) /\ throttle'[ThisMinute'] \in Nat
    BY <1>0, <1>2, <1>k DEF Passed, Lone, Overlapped, TypeOK
  <2>5. \A q \in Requests : req'[q].minute <= ThisMinute'
    BY <1>1, <1>2, <1>3 DEF ThrottleInv
  <2>6. \A q \in Requests : req[q].at \in {"register", "count"} /\ Lone(q) =>
          Cardinality(Passed(req[q].minute)) <= Limit
    BY DEF ThrottleInv
  <2>7. /\ \A q \in Requests : Lone(q)' <=> Lone(q)
        /\ \A q \in Requests : Passed(req[q].minute)' = Passed(req[q].minute)
    BY DEF Lone, Overlapped, Passed
  <2>8. ThrottleHolds'
    BY <1>4 DEF ThrottleInv, ThrottleHolds
  <2> QED
    BY <1>1, <1>k, <2>1, <2>3, <2>4, <2>5, <2>6, <2>7, <2>8 DEF ThrottleInv, At
<1> QED
  BY <1>5, <1>6

LEMMA ThrottleNext ==
    ASSUME FrontAssumption, FrontInv, FrontInv', ServedInv, ThrottleInv, [Next]_vars
    PROVE  ThrottleInv'
<1>0. TypeOK /\ \A r \in Requests : RowInv(r) /\ req[r].minute <= ThisMinute
  BY DEF FrontInv, ThrottleInv
<1>g. overlaps \subseteq overlaps'
  BY OverlapsGrow
<1>1. ASSUME NEW r \in Requests, NEW c \in Calls[r], Call(r, c) PROVE ThrottleInv'
  <2>1. /\ req'[r].at = First(c) /\ req'[r].call = c /\ req'[r].minute = req[r].minute
        /\ \A q \in Requests \ {r} : req'[q] = req[q]
        /\ UNCHANGED <<now, throttle>>
    BY <1>0, <1>1, CallDoes
  <2>2. First(c) \notin {"register", "count"} /\ (c.kind = "system" => First(c) = "limit")
    BY CallFacts DEF First, AllCalls
  <2>3. \A m : r \notin Passed(m)'
    BY <2>1, <2>2 DEF Passed
  <2> QED
    BY <1>0, <1>g, <2>1, <2>2, <2>3, ThrottleKept
<1>2. ASSUME NEW r \in Requests, CheckLimit(r) PROVE ThrottleInv'
  <2>1. /\ At(r, "limit") /\ Keeps(r) /\ req'[r].minute = ThisMinute
        /\ req'[r].at = IF TooMany(throttle[ThisMinute]) THEN "denied" ELSE "register"
        /\ UNCHANGED <<now, throttle, overlaps>>
    BY <1>0, <1>2, CheckLimitDoes
  <2>2. ThisMinute \in Nat /\ throttle[ThisMinute] \in Nat /\ Limit \in Nat
    BY <1>0, ThisMinuteIs DEF FrontAssumption
  <2>3. CASE TooMany(throttle[ThisMinute])
    <3>1. req'[r].at = "denied"
      BY <2>1, <2>3
    <3>2. \A m : r \notin Passed(m)'
      BY <3>1 DEF Passed
    <3> QED
      BY <1>g, <2>1, <2>2, <3>1, <3>2, ThrottleKept DEF Keeps
  <2>4. CASE ~TooMany(throttle[ThisMinute])
    BY <2>1, <2>2, <2>4, ThrottleEnters DEF TooMany
  <2> QED
    BY <2>3, <2>4
<1>3. ASSUME NEW r \in Requests, ReadCount(r) PROVE ThrottleInv'
  <2>1. /\ At(r, "register") /\ Keeps(r) /\ req'[r].minute = req[r].minute
        /\ \/ throttle[ThisMinute] > Limit + 1 /\ req'[r].at = "similar"
           \/ req'[r].at = "count" /\ req'[r].seen = throttle[ThisMinute]
        /\ UNCHANGED <<now, throttle, overlaps>>
    BY <1>0, <1>3, ReadCountDoes
  <2>2. CASE req'[r].at = "count"
    BY <2>1, <2>2, ThrottleEnters
  <2>3. CASE req'[r].at = "similar"
    BY <2>1, <2>3, ThrottlePasses DEF At
  <2> QED
    BY <2>1, <2>2, <2>3
<1>4. ASSUME NEW r \in Requests, WriteCount(r) PROVE ThrottleInv'
  <2>1. /\ At(r, "count") /\ Keeps(r) /\ req'[r].minute = req[r].minute /\ req'[r].at = "similar"
        /\ throttle' = [throttle EXCEPT ![ThisMinute] = req[r].seen + 1]
        /\ UNCHANGED <<now, overlaps>>
    BY <1>0, <1>4, WriteCountDoes
  <2> QED
    BY <2>1, ThrottlePasses DEF At
<1>5. ASSUME NEW r \in Requests, CheckOverlap(r) \/ ReadSession(r) \/ WriteSession(r) PROVE ThrottleInv'
  <2>1. /\ Keeps(r) /\ req'[r].minute = req[r].minute /\ UNCHANGED <<now, throttle>>
        /\ At(r, "overlap") \/ req'[r].at \in {"write", "read"}
        /\ req'[r].at \notin {"register", "count"}
    BY <1>0, <1>5, CheckOverlapDoes, ReadSessionDoes, WriteSessionDoes
  <2>2. \A m : r \notin Passed(m)'
    BY <2>1 DEF Passed, ServedInv, Keeps
  <2> QED
    BY <1>0, <1>g, <2>1, <2>2, ThrottleKept DEF Keeps
<1>6. ASSUME NEW r \in Requests,
             FindSimilar(r) \/ Bump(r) \/ Save(r) \/ (Served(r) /\ (Enqueue(r) \/ SendNow(r) \/ Commit(r)))
      PROVE  ThrottleInv'
  <2>1. /\ Keeps(r) /\ req'[r].minute = req[r].minute /\ UNCHANGED <<now, throttle>>
        /\ req[r].at \in {"similar", "bump", "save", "enqueue", "commit"}
        /\ req'[r].at \notin {"register", "count"}
    BY <1>0, <1>6, FindSimilarDoes, BumpDoes, SaveDoes, LateDoes DEF At, Enqueue, SendNow, Commit
  <2>2. \A m : r \in Passed(m)' => r \in Passed(m)
    BY <1>g, <2>1, LoneBefore DEF Passed, Keeps
  <2> QED
    BY <1>0, <1>g, <2>1, <2>2, ThrottleKept DEF Keeps
<1>7. ASSUME NEW r \in Requests, Served(r), Abort(r) PROVE ThrottleInv'
  <2>1. /\ Keeps(r) /\ req'[r].minute = req[r].minute /\ UNCHANGED <<now, throttle>>
        /\ req'[r].at = "failed"
    <3>1. req[r] \in Locals
      BY <1>0 DEF TypeOK
    <3> QED
      BY <1>0, <1>7, <3>1 DEF Abort, Go, Become, Locals, TypeOK, Keeps
  <2>2. \A m : r \notin Passed(m)'
    BY <2>1 DEF Passed
  <2> QED
    BY <1>0, <1>g, <2>1, <2>2, ThrottleKept DEF Keeps
<1>8. ASSUME (\E t \in queue : StartTask(t)) \/ Tick \/ Finished \/ UNCHANGED vars PROVE ThrottleInv'
  <2>1. UNCHANGED <<throttle, overlaps, req>> /\ (Tick \/ now' = now)
    BY <1>8, OthersDo
  <2>2. CASE now' = now
    BY <2>1, <2>2 DEF ThrottleInv, ThrottleHolds, At, Lone, Overlapped, Passed, ThisMinute
  <2> QED
    BY <2>1, <2>2, ThrottleTick
<1> QED
  BY <1>1, <1>2, <1>3, <1>4, <1>5, <1>6, <1>7, <1>8, StepIsServed DEF Next

LEMMA AloneInit == ASSUME FrontAssumption, FrontInv, Init PROVE AloneInv
<1>0. /\ \A r \in Requests : req[r].at = "new" /\ req[r].minute = 0 /\ ~rows[r].stored /\ ~Served(r)
      /\ TypeOK
  BY DEF Init, NoRow, Served, Active, FrontInv
<1>1. ServedInv
  BY <1>0 DEF ServedInv, At
<1>2. ClashInv
  BY <1>0 DEF ClashInv, PairInv, At
<1>3. CountInv
  BY <1>0 DEF CountInv, At
<1>4. \A m : Cardinality(Passed(m)) = 0
  <2>1. \A m : Passed(m) = {}
    BY <1>0 DEF Passed
  <2> QED
    BY <2>1, FS_EmptySet
<1>5. ThisMinute \in Nat /\ throttle[ThisMinute] \in Nat /\ Limit \in Nat
  BY <1>0, ThisMinuteIs DEF FrontAssumption
<1>6. ThrottleInv
  BY <1>0, <1>4, <1>5 DEF ThrottleInv, ThrottleHolds, At
<1> QED
  BY <1>1, <1>2, <1>3, <1>6 DEF AloneInv

\* What a request reads and writes back has not changed in between unless
\* another request was served beside it, for any number of requests and any
\* settings (notification.py:158-243, email_notification.py:122-147).
THEOREM FrontAloneInvariant == Spec => []AloneInv
<1> USE FrontAssumption
<1>1. Init /\ FrontInv => AloneInv
  BY AloneInit
<1>2. FrontInv /\ FrontInv' /\ AloneInv /\ [Next]_vars => AloneInv'
  BY ServedNext, ClashNext, CountNext, ThrottleNext DEF AloneInv
<1> QED
  BY <1>1, <1>2, FrontInvariant, PTL DEF Spec

\* Duplicates within the aggregation time and maintenance notices near each
\* other come from requests that were served at the same time
\* (duplicate_notification_mixin.py:8-33, maintenance_notification.py:76-81).
THEOREM FrontClashesOverlapped == Spec => []ClashesOverlapped
<1>1. FrontInv /\ AloneInv => ClashesOverlapped
  BY ClashInvImplies, FrontAssumption DEF AloneInv
<1> QED
  BY <1>1, FrontInvariant, FrontAloneInvariant, PTL

\* The counter of a notification and the acknowledgements in the session lose
\* nothing a request served alone has written
\* (duplicate_notification_mixin.py:28-32, maintenance_notification.py:187-198).
THEOREM FrontLoneIsNeverLost == Spec => []LoneIsNeverLost
<1>1. AloneInv => LoneIsNeverLost
  BY CountInvImplies DEF AloneInv
<1> QED
  BY <1>1, FrontAloneInvariant, PTL

\* Of the system e-mails of one minute that were served alone, one more than
\* the limit passes at most, for any limit and length of a minute
\* (email_notification.py:122-147).
THEOREM FrontThrottleHolds == Spec => []ThrottleHolds
<1>1. AloneInv => ThrottleHolds
  BY DEF AloneInv, ThrottleInv
<1> QED
  BY <1>1, FrontAloneInvariant, PTL

\* The three together: requests served alone neither double, lose nor exceed
\* anything (duplicate_notification_mixin.py:8-33, maintenance_notification.py:187-198,
\* email_notification.py:122-147).
THEOREM FrontLoneAreServed == Spec => []LoneAreServed
<1>1. ClashesOverlapped /\ LoneIsNeverLost /\ ThrottleHolds => LoneAreServed
  BY DEF LoneAreServed
<1> QED BY <1>1, FrontClashesOverlapped, FrontLoneIsNeverLost, FrontThrottleHolds, PTL

=============================================================================
