--------------------------- MODULE DeliveryProofs ---------------------------
(***************************************************************************)
(* Proofs about Delivery, for any number of resends, recipients and        *)
(* providers, with overlapping runs, kills and failing calls; about        *)
(* Envelope, the senders and the addresses of what is delivered, for any   *)
(* settings and profiles however they change; and about Notices, what the  *)
(* title bars show of maintenance, for any notices and pages.              *)
(***************************************************************************)
EXTENDS Delivery, Envelope, Notices, WellFoundedInduction, FiniteSetTheorems, TLAPS

\* A nonempty set of naturals has a least element.
LEMMA LeastExists ==
    ASSUME NEW T, T \subseteq Nat, T # {}
    PROVE  \E i \in T : \A j \in T : i <= j
<1> DEFINE less == OpToRel(<, Nat)
<1>1. less = {ss \in Nat \X Nat : ss[1] < ss[2]}
  BY DEF OpToRel
<1>2. IsWellFoundedOn(less, Nat)
  BY NatLessThanWellFounded
<1> HIDE DEF less
<1>3. \E i \in T : \A j \in T : <<j, i>> \notin less
  BY <1>2, WFMin
<1>4. \A i, j \in T : <<j, i>> \notin less => i <= j
  BY <1>1
<1> QED
  BY <1>3, <1>4

LEMMA SomeOneIsRecipient == SomeOne \in Recipients
BY DeliveryAssumption DEF SomeOne

LEMMA FreshType == Fresh \in Locals
<1>1. 1 \in Indexes
  BY DeliveryAssumption DEF Indexes, Providers, Channels
<1> QED
  BY <1>1, SomeOneIsRecipient DEF Fresh, Locals, Empty, Rows, Channels, Runs, Places

\* The local variables keep their types when a channel is closed or failed
\* and when the next provider takes over.
LEMMA ClosedType ==
    ASSUME NEW s \in Locals
    PROVE  Closed(s) \in Locals
<1>1. 1 \in Indexes
  BY DeliveryAssumption DEF Indexes, Providers, Channels
<1> QED
  BY <1>1, SomeOneIsRecipient DEF Closed, Locals, Channels, Runs

LEMMA FailType ==
    ASSUME NEW s \in Locals, NEW c \in Channels
    PROVE  Fail(s, c) \in Locals
BY ClosedType DEF Fail, Locals, Places

LEMMA FailOverType ==
    ASSUME NEW s \in Locals
    PROVE  /\ FailOver(s) \in Locals
           /\ FailOver(s).at \in {"next", "lookup"}
<1> DEFINE exclude == s.exclude \union {s.provider}
           rest == Providers(s.channel) \ exclude
           least == CHOOSE i \in rest : \A j \in rest : i <= j
<1>1. exclude \subseteq Indexes
  BY DEF Locals
<1>2. rest \subseteq Nat /\ rest \subseteq Indexes
  BY DeliveryAssumption DEF Providers, Indexes, Locals
<1>3. rest # {} => least \in Indexes
  BY <1>2, LeastExists
<1> HIDE DEF least, rest, exclude
<1>4. /\ [s EXCEPT !.at = "next", !.exclude = exclude] \in Locals
      /\ [s EXCEPT !.at = "next", !.exclude = exclude].at = "next"
  BY <1>1 DEF Locals, Places
<1>5. rest # {} => /\ [s EXCEPT !.at = "lookup", !.exclude = exclude, !.provider = least] \in Locals
                   /\ [s EXCEPT !.at = "lookup", !.exclude = exclude, !.provider = least].at = "lookup"
  BY <1>1, <1>3 DEF Locals, Places
<1> QED
  BY <1>4, <1>5 DEF FailOver, rest, exclude, least

-----------------------------------------------------------------------------
LEMMA InitDeliveryInv == Init => DeliveryInv
<1> SUFFICES ASSUME Init PROVE DeliveryInv
  OBVIOUS
<1>1. TypeOK
  BY FreshType DEF Init, TypeOK, Rows, Empty
<1>2. \A r \in Runs : Covers(run[r]) /\ Backed(run[r])
  BY DEF Init, Covers, Backed, Fresh, Empty
<1>3. NothingForgotten /\ SentWasTaken
  BY DEF Init, NothingForgotten, SentWasTaken, Fresh, Empty
<1> QED
  BY <1>1, <1>2, <1>3 DEF DeliveryInv

\* A step of one run that writes neither the row nor the history of what
\* was taken keeps the invariant if the run's new locals satisfy it.
LEMMA LocalStep ==
    ASSUME DeliveryInv, NEW r \in Runs, NEW s \in Locals,
           Become(r, s), UNCHANGED <<kind, row, handed>>,
           reports' \subseteq Reports, charged' \in [Channels -> Nat],
           s.at # "done", Covers(s), Backed(s)
    PROVE  DeliveryInv'
<1>1. TypeOK'
  BY DEF DeliveryInv, TypeOK, Become
<1>2. \A q \in Runs : run'[q] = IF q = r THEN s ELSE run[q]
  BY DEF DeliveryInv, TypeOK, Become
<1>3. \A c : Taken(c)' <=> Taken(c)
  BY DEF Taken
<1>4. \A q \in Runs : Covers(run[q])'
  BY <1>2 DEF DeliveryInv, Covers
<1>5. \A q \in Runs : Backed(run[q])'
  BY <1>2, <1>3 DEF DeliveryInv, Backed
<1>6. NothingForgotten'
  BY <1>2 DEF DeliveryInv, NothingForgotten
<1>7. SentWasTaken'
  BY <1>3 DEF DeliveryInv, SentWasTaken
<1> QED
  BY <1>1, <1>4, <1>5, <1>6, <1>7 DEF DeliveryInv

\* A step in which the provider takes the message of a run.
LEMMA TakeStep ==
    ASSUME DeliveryInv, NEW r \in Runs, NEW s \in Locals,
           Become(r, s), Take(run[r]), UNCHANGED <<kind, row, reports, charged>>,
           s.at \in {"report", "next", "lookup"}, Covers(s),
           s.sent = run[r].sent, s.row = run[r].row, s.channel = run[r].channel
    PROVE  DeliveryInv'
<1>0. run[r] \in Locals
  BY DEF DeliveryInv, TypeOK
<1> DEFINE u == run[r].user  c == run[r].channel
<1>1. u \in Recipients /\ c \in Channels
  BY <1>0 DEF Locals
<1>2. handed' = [handed EXCEPT ![u][c] = @ + 1]
  BY DEF Take
<1>3. handed \in [Recipients -> [Channels -> Nat]]
  BY DEF DeliveryInv, TypeOK
<1>4. handed' \in [Recipients -> [Channels -> Nat]]
  BY <1>1, <1>2, <1>3
<1>5. handed'[u][c] > 0
  BY <1>1, <1>2, <1>3
<1>6. \A v \in Recipients, d \in Channels : handed[v][d] > 0 => handed'[v][d] > 0
  BY <1>1, <1>2, <1>3
<1>7. \A d \in Channels : d = c => Taken(d)'
  BY <1>1, <1>5 DEF Taken
<1>8. \A d \in Channels : Taken(d) => Taken(d)'
  BY <1>6 DEF Taken
<1>9. \A q \in Runs : run'[q] = IF q = r THEN s ELSE run[q]
  BY DEF DeliveryInv, TypeOK, Become
<1>10. TypeOK'
  BY <1>4 DEF DeliveryInv, TypeOK, Become
<1>11. \A q \in Runs : Covers(run[q])'
  BY <1>9 DEF DeliveryInv, Covers
<1>12. ASSUME NEW q \in Runs
       PROVE  Backed(run[q])'
  <2>1. CASE q = r
    <3>1. run'[q] = s
      BY <1>9, <2>1
    <3>2. \A d \in s.sent \union s.row.sent : Taken(d)'
      BY <1>0, <1>8 DEF DeliveryInv, Backed, Locals, Rows
    <3>3. Taken(s.channel)'
      BY <1>1, <1>7
    <3> QED
      BY <3>1, <3>2, <3>3 DEF Backed
  <2>2. CASE q # r
    <3>1. run'[q] = run[q] /\ run[q] \in Locals
      BY <1>9, <2>2 DEF DeliveryInv, TypeOK
    <3>2. Backed(run[q])
      BY DEF DeliveryInv
    <3> QED
      BY <1>8, <3>1, <3>2 DEF Backed, Locals, Rows
  <2> QED  BY <2>1, <2>2
<1>13. NothingForgotten'
  BY <1>9 DEF DeliveryInv, NothingForgotten
<1>14. SentWasTaken'
  BY <1>8 DEF DeliveryInv, SentWasTaken, TypeOK, Rows
<1> QED
  BY <1>10, <1>11, <1>12, <1>13, <1>14 DEF DeliveryInv

-----------------------------------------------------------------------------
\* A channel that is given up is in failed_channels afterwards.
LEMMA FailKeeps ==
    ASSUME NEW s \in Locals, s.at \notin {"queued", "done", "killed"}, Covers(s), Backed(s),
           NEW c \in Channels
    PROVE  /\ Fail(s, c) \in Locals
           /\ Fail(s, c).at = "license"
           /\ Covers(Fail(s, c))
           /\ Backed(Fail(s, c))
<1> DEFINE f == Fail(s, c)
<1>1. f \in Locals
  BY FailType
<1>2. /\ f.at = "license" /\ f.row = s.row /\ f.sent = s.sent /\ f.count = 0
      /\ f.todo = s.todo \ {c} /\ f.failed = s.failed \union {c}
  BY DEF Fail, Closed, Locals
<1> HIDE DEF f
<1>3. Covers(f)
  BY <1>2 DEF Covers
<1>4. Backed(f)
  BY <1>2 DEF Backed
<1> QED
  BY <1>1, <1>2, <1>3, <1>4 DEF f

\* Failing over changes neither the recipient nor what the run has done.
LEMMA FailOverKeeps ==
    ASSUME NEW s \in Locals, s.at \in {"lookup", "call"}, Covers(s)
    PROVE  LET f == FailOver(s)
           IN  /\ f.sent = s.sent /\ f.row = s.row /\ f.count = s.count
               /\ f.channel = s.channel /\ f.user = s.user
               /\ Covers(f)
               /\ Backed(s) => Backed(f)
<1> DEFINE f == FailOver(s)
<1>1. /\ f.sent = s.sent /\ f.row = s.row /\ f.count = s.count
      /\ f.channel = s.channel /\ f.user = s.user
      /\ f.todo = s.todo /\ f.failed = s.failed
  BY DEF FailOver, Locals
<1>2. f.at \in {"next", "lookup"}
  BY FailOverType
<1> HIDE DEF f
<1>3. Covers(f)
  BY <1>1, <1>2 DEF Covers
<1>4. Backed(s) => Backed(f)
  BY <1>1, <1>2 DEF Backed
<1> QED
  BY <1>1, <1>3, <1>4 DEF f

\* Every step keeps the invariant.
LEMMA NextDeliveryInv == DeliveryInv /\ [Next]_vars => DeliveryInv'
<1> SUFFICES ASSUME DeliveryInv, [Next]_vars PROVE DeliveryInv'
  OBVIOUS
<1>0. /\ \A r \in Runs : run[r] \in Locals /\ Covers(run[r]) /\ Backed(run[r])
      /\ row \in Rows /\ reports \subseteq Reports
      /\ charged \in [Channels -> Nat]
  BY DEF DeliveryInv, TypeOK
<1>k. /\ kind \in Kinds /\ kind.to \subseteq Recipients /\ kind.required \subseteq Channels
  BY DeliveryAssumption DEF DeliveryInv, TypeOK, KindType
<1>1. ASSUME NEW r \in Runs, Start(r) PROVE DeliveryInv'
  <2> DEFINE object == IF r = Task THEN Empty ELSE row
             todo == (kind.required \ (IF r = Task THEN object.sent ELSE {}))
                        \union (IF kind.smsNotice THEN {"SMS"} ELSE {})
             s == [run[r] EXCEPT !.at = "license", !.row = object, !.todo = todo]
  <2>1. object \in Rows /\ todo \subseteq Channels
    BY <1>0, <1>k DEF Empty, Rows, Channels
  <2>2. s \in Locals
    <3>1. run[r] \in Locals /\ "license" \in Places
      BY <1>0 DEF Places
    <3> HIDE DEF object, todo
    <3> QED  BY <2>1, <3>1 DEF Locals
  <2>3. kind.required \subseteq todo \union object.sent
    OBVIOUS
  <2>4. \A c \in object.sent : Taken(c)
    BY DEF DeliveryInv, SentWasTaken, Empty
  <2>5. Become(r, s) /\ UNCHANGED <<kind, row, reports, charged, handed>>
    BY <1>1 DEF Start
  <2>6. /\ s.at = "license" /\ s.row = object /\ s.todo = todo /\ s.sent = run[r].sent
        /\ s.count = run[r].count /\ s.channel = run[r].channel
    BY <1>0 DEF Locals
  <2> HIDE DEF s, todo, object
  <2>7. Covers(s)
    BY <2>3, <2>6 DEF Covers
  <2>8. Backed(s)
    BY <1>0, <2>4, <2>6 DEF Backed
  <2> QED
    BY <1>0, <2>2, <2>5, <2>6, <2>7, <2>8, LocalStep
<1>2. ASSUME NEW r \in Runs, NEW c \in Channels, Refuse(r, c) PROVE DeliveryInv'
  BY <1>0, <1>2, FailKeeps, LocalStep DEF Refuse
<1>3. ASSUME NEW r \in Runs, NEW c \in Channels, Open(r, c) PROVE DeliveryInv'
  <2> DEFINE place == IF c = "EMail" THEN "copy" ELSE "next"
             s == [run[r] EXCEPT !.at = place,
                                 !.channel = c, !.left = kind.to, !.provider = 1,
                                 !.exclude = {}, !.count = 0]
  <2>1. 1 \in Indexes
    BY DeliveryAssumption DEF Indexes, Providers, Channels
  <2>2. s \in Locals
    <3>1. run[r] \in Locals /\ place \in Places
      BY <1>0 DEF Places
    <3> HIDE DEF place
    <3> QED  BY <1>k, <2>1, <3>1 DEF Locals
  <2>3. /\ s.at \in {"copy", "next"} /\ s.row = run[r].row /\ s.todo = run[r].todo
        /\ s.sent = run[r].sent /\ s.failed = run[r].failed /\ s.count = 0
    BY <1>0 DEF Locals
  <2>4. Become(r, s) /\ UNCHANGED <<kind, row, reports, charged, handed>> /\ run[r].at = "license"
    BY <1>3 DEF Open
  <2> HIDE DEF s
  <2>5. Covers(s) /\ Backed(s)
    BY <1>0, <2>3, <2>4 DEF Covers, Backed
  <2> QED
    BY <1>0, <2>2, <2>3, <2>4, <2>5, LocalStep
<1>4. ASSUME NEW r \in Runs, SenderCopy(r) PROVE DeliveryInv'
  <2>1. CASE Become(r, [run[r] EXCEPT !.at = "next"])
    <3> DEFINE s == [run[r] EXCEPT !.at = "next"]
    <3>1. s \in Locals /\ s.at = "next" /\ Covers(s) /\ Backed(s)
      BY <1>0, <1>4 DEF Locals, Places, Covers, Backed, SenderCopy
    <3> QED
      BY <1>0, <1>4, <2>1, <3>1, LocalStep DEF SenderCopy
  <2>2. CASE Become(r, Fail(run[r], run[r].channel))
    <3>1. run[r].channel \in Channels
      BY <1>0 DEF Locals
    <3> QED
      BY <1>0, <1>4, <2>2, <3>1, FailKeeps, LocalStep DEF SenderCopy
  <2> QED  BY <1>4, <2>1, <2>2 DEF SenderCopy
<1>5. ASSUME NEW r \in Runs, Charge(r) PROVE DeliveryInv'
  <2>1. run[r].channel \in Channels /\ run[r].count \in Nat
    BY <1>0 DEF Locals
  <2>2. charged' \in [Channels -> Nat]
    BY <1>0, <1>5, <2>1 DEF Charge, Amount
  <2>3. CASE run[r].count > 0
    <3> DEFINE t == Closed(run[r])
               s == [t EXCEPT !.at = "license", !.todo = @ \ {run[r].channel},
                              !.sent = @ \union {run[r].channel}]
    <3>1. t \in Locals
      BY <1>0, ClosedType
    <3>2. /\ t.row = run[r].row /\ t.todo = run[r].todo /\ t.sent = run[r].sent
          /\ t.failed = run[r].failed /\ t.count = 0
      BY <1>0 DEF Closed, Locals
    <3>3. s \in Locals
      BY <2>1, <3>1 DEF Locals, Places
    <3>4. /\ s.at = "license" /\ s.row = t.row /\ s.todo = t.todo \ {run[r].channel}
          /\ s.sent = t.sent \union {run[r].channel} /\ s.failed = t.failed /\ s.count = 0
      BY <3>1, <3>2 DEF Locals
    <3>5. Become(r, s) /\ UNCHANGED <<kind, row, reports, handed>> /\ run[r].at = "charge"
      BY <1>5, <2>3 DEF Charge, AnySent
    <3> HIDE DEF s, t
    <3>6. Covers(s) /\ Backed(s)
      BY <1>0, <2>3, <3>2, <3>4, <3>5 DEF Covers, Backed
    <3> QED
      BY <1>0, <2>2, <3>3, <3>4, <3>5, <3>6, LocalStep
  <2>4. CASE ~(run[r].count > 0)
    BY <1>0, <1>5, <2>1, <2>2, <2>4, FailKeeps, LocalStep DEF Charge, AnySent
  <2> QED  BY <2>3, <2>4
<1>6. ASSUME NEW r \in Runs, ChargeFails(r) PROVE DeliveryInv'
  <2>1. run[r].channel \in Channels
    BY <1>0 DEF Locals
  <2> QED
    BY <1>0, <1>6, <2>1, FailKeeps, LocalStep DEF ChargeFails
<1>7. ASSUME NEW r \in Runs, Save(r) PROVE DeliveryInv'
  <2> DEFINE s == [Fresh EXCEPT !.at = "done"]
             o == Outcome(run[r])
  <2>1. s \in Locals /\ s.at = "done" /\ s.row = Empty /\ s.sent = {} /\ s.count = 0
    BY FreshType DEF Locals, Places, Fresh
  <2>2. /\ run' = [run EXCEPT ![r] = s] /\ row' = o /\ UNCHANGED <<kind, reports, charged, handed>>
        /\ run[r].at = "license" /\ run[r].todo = {}
    BY <1>7 DEF Save, Become
  <2>3. o \in Rows /\ o.sent = run[r].sent \union run[r].row.sent
    BY <1>0 DEF Outcome, Locals, Rows
  <2>4. kind.required \subseteq o.sent \union o.failed
    BY <1>0, <2>2 DEF Covers, Outcome
  <2>5. \A c \in o.sent : Taken(c)
    BY <1>0, <2>3 DEF Backed
  <2> HIDE DEF o, s
  <2>6. \A q \in Runs : run'[q] = IF q = r THEN s ELSE run[q]
    BY <2>2 DEF DeliveryInv, TypeOK
  <2>7. \A c : Taken(c)' <=> Taken(c)
    BY <2>2 DEF Taken
  <2>8. TypeOK'
    BY <2>1, <2>2, <2>3 DEF DeliveryInv, TypeOK
  <2>9. \A q \in Runs : Covers(run[q])'
    BY <1>0, <2>1, <2>2, <2>6 DEF Covers
  <2>10. \A q \in Runs : Backed(run[q])'
    BY <1>0, <2>1, <2>2, <2>6, <2>7 DEF Backed, Empty
  <2>11. NothingForgotten'
    BY <2>2, <2>4 DEF NothingForgotten
  <2>12. SentWasTaken'
    BY <2>2, <2>5, <2>7 DEF SentWasTaken
  <2> QED
    BY <2>8, <2>9, <2>10, <2>11, <2>12 DEF DeliveryInv
<1>8. ASSUME NEW r \in Runs, NEW u \in Recipients, Pick(r, u) PROVE DeliveryInv'
  <2> DEFINE s == [run[r] EXCEPT !.at = "lookup", !.left = @ \ {u}, !.user = u]
  <2>1. s \in Locals
    <3>1. run[r] \in Locals /\ "lookup" \in Places
      BY <1>0 DEF Places
    <3> QED  BY <3>1 DEF Locals
  <2>2. /\ s.at = "lookup" /\ s.user = u /\ s.channel = run[r].channel /\ s.row = run[r].row
        /\ s.todo = run[r].todo /\ s.sent = run[r].sent /\ s.failed = run[r].failed
        /\ s.count = run[r].count
    BY <1>0 DEF Locals
  <2>3. /\ Become(r, s) /\ UNCHANGED <<kind, row, reports, charged, handed>>
        /\ run[r].at = "next" /\ ~FallsBack(run[r], u)
    BY <1>8 DEF Pick
  <2> HIDE DEF s
  <2>4. Covers(s) /\ Backed(s)
    BY <1>0, <2>2, <2>3 DEF Covers, Backed
  <2> QED
    BY <1>0, <2>1, <2>2, <2>3, <2>4, LocalStep
<1>9. ASSUME NEW r \in Runs, NEW u \in Recipients, FallBack(r, u) PROVE DeliveryInv'
  <2> DEFINE s == [run[r] EXCEPT !.left = @ \ {u}]
  <2>1. s \in Locals
    BY <1>0 DEF Locals, Places
  <2>2. /\ Become(r, s) /\ UNCHANGED <<kind, row, reports, charged, handed>>
        /\ run[r].at = "next"
    BY <1>0, <1>9 DEF FallBack
  <2>3. s.at = "next" /\ Covers(s) /\ Backed(s)
    BY <1>0, <2>2 DEF Covers, Backed, Locals
  <2> QED
    BY <1>0, <2>1, <2>2, <2>3, LocalStep
<1>10. ASSUME NEW r \in Runs, AllTried(r) PROVE DeliveryInv'
  <2> DEFINE s == [run[r] EXCEPT !.at = "charge"]
  <2>1. s \in Locals /\ s.at = "charge" /\ Covers(s) /\ Backed(s)
    BY <1>0, <1>10 DEF AllTried, Locals, Places, Covers, Backed
  <2> QED
    BY <1>0, <1>10, <2>1, LocalStep DEF AllTried
<1>11. ASSUME NEW r \in Runs, Lookup(r) PROVE DeliveryInv'
  <2>1. run[r].at = "lookup" /\ UNCHANGED <<kind, row, reports, charged, handed>>
    BY <1>11 DEF Lookup
  <2>2. CASE MaySend(run[r])
    <3> DEFINE pk == IF Found(run[r]) = {} THEN r ELSE (CHOOSE d \in Found(run[r]) : TRUE).pk
               s == [run[r] EXCEPT !.at = "call", !.pk = pk]
    <3>1. pk \in Runs
      <4>1. \A d \in Found(run[r]) : d.pk \in Runs
        BY <1>0 DEF Found, Reports
      <4> QED  BY <4>1
    <3>2. Become(r, s)
      BY <1>11, <2>2 DEF Lookup
    <3> HIDE DEF pk
    <3>3. s \in Locals /\ s.at = "call"
      <4>1. run[r] \in Locals /\ "call" \in Places
        BY <1>0 DEF Places
      <4> QED  BY <3>1, <4>1 DEF Locals
    <3>4. Covers(s) /\ Backed(s)
      BY <1>0, <2>1 DEF Locals, Covers, Backed
    <3> QED
      BY <1>0, <2>1, <3>2, <3>3, <3>4, LocalStep
  <2>3. CASE ~MaySend(run[r])
    BY <1>0, <1>11, <2>1, <2>3, FailOverType, FailOverKeeps, LocalStep DEF Lookup
  <2> QED  BY <2>2, <2>3
<1>12. ASSUME NEW r \in Runs, Accepted(r) PROVE DeliveryInv'
  <2> DEFINE s == [run[r] EXCEPT !.at = "report"]
  <2>1. /\ Become(r, s) /\ Take(run[r]) /\ UNCHANGED <<kind, row, reports, charged>>
        /\ run[r].at = "call"
    BY <1>12 DEF Accepted
  <2>2. /\ s \in Locals /\ s.at = "report" /\ s.sent = run[r].sent /\ s.row = run[r].row
        /\ s.channel = run[r].channel
    BY <1>0 DEF Locals, Places
  <2>3. Covers(s)
    BY <1>0, <2>1 DEF Locals, Covers
  <2> QED
    BY <2>1, <2>2, <2>3, TakeStep
<1>13. ASSUME NEW r \in Runs, Ignored(r) PROVE DeliveryInv'
  <2> DEFINE s == [run[r] EXCEPT !.at = "report"]
  <2>1. /\ Become(r, s) /\ Take(run[r]) /\ UNCHANGED <<kind, row, reports, charged>>
        /\ run[r].at = "call"
    BY <1>13 DEF Ignored
  <2>2. /\ s \in Locals /\ s.at = "report" /\ s.sent = run[r].sent /\ s.row = run[r].row
        /\ s.channel = run[r].channel
    BY <1>0 DEF Locals, Places
  <2>3. Covers(s)
    BY <1>0, <2>1 DEF Locals, Covers
  <2> QED
    BY <2>1, <2>2, <2>3, TakeStep
<1>14. ASSUME NEW r \in Runs, Rejected(r) PROVE DeliveryInv'
  BY <1>0, <1>14, FailOverType, FailOverKeeps, LocalStep DEF Rejected
<1>15. ASSUME NEW r \in Runs, AnswerLost(r) PROVE DeliveryInv'
  <2> QED
    BY <1>0, <1>15, FailOverType, FailOverKeeps, TakeStep DEF AnswerLost
<1>16. ASSUME NEW r \in Runs, CreateReport(r) PROVE DeliveryInv'
  <2> DEFINE s == [run[r] EXCEPT !.at = "confirm"]
  <2>1. s \in Locals /\ s.at = "confirm" /\ Covers(s) /\ Backed(s)
    BY <1>0, <1>16 DEF CreateReport, Locals, Places, Covers, Backed
  <2>2. reports' \subseteq Reports
    BY <1>0, <1>16 DEF CreateReport, Reports, Locals, Status
  <2> QED
    BY <1>0, <1>16, <2>1, <2>2, LocalStep DEF CreateReport
<1>17. ASSUME NEW r \in Runs, ReportFails(r) PROVE DeliveryInv'
  <2> DEFINE s == [run[r] EXCEPT !.at = "next"]
  <2>1. s \in Locals /\ s.at = "next" /\ Covers(s) /\ Backed(s)
    BY <1>0, <1>17 DEF ReportFails, Locals, Places, Covers, Backed
  <2> QED
    BY <1>0, <1>17, <2>1, LocalStep DEF ReportFails
<1>18. ASSUME NEW r \in Runs, Confirm(r) PROVE DeliveryInv'
  <2> DEFINE s == [run[r] EXCEPT !.at = "next", !.user = SomeOne, !.pk = Task, !.count = @ + 1]
  <2>1. /\ Become(r, s) /\ UNCHANGED <<kind, row, charged, handed>> /\ run[r].at = "confirm"
    BY <1>18 DEF Confirm
  <2>2. s \in Locals
    <3>1. run[r] \in Locals /\ "next" \in Places /\ Task \in Runs
      BY <1>0 DEF Places, Runs
    <3>2. run[r].count + 1 \in Nat
      BY <3>1 DEF Locals
    <3> QED  BY <3>1, <3>2, SomeOneIsRecipient DEF Locals
  <2>3. /\ s.at = "next" /\ s.row = run[r].row /\ s.todo = run[r].todo /\ s.sent = run[r].sent
        /\ s.failed = run[r].failed /\ s.channel = run[r].channel
    BY <1>0 DEF Locals
  <2>4. Delivered(run[r]) \subseteq Reports
    BY <1>0 DEF Delivered, Reports, Status
  <2>5. reports' \subseteq Reports
    BY <1>0, <1>18, <2>4 DEF Confirm
  <2> HIDE DEF s
  <2>6. Covers(s) /\ Backed(s)
    BY <1>0, <2>1, <2>3 DEF Covers, Backed
  <2> QED
    BY <1>0, <2>1, <2>2, <2>3, <2>5, <2>6, LocalStep
<1>19. ASSUME NEW d \in reports, NEW delivered \in BOOLEAN, Callback(d, delivered) PROVE DeliveryInv'
  <2>1. reports' \subseteq Reports /\ UNCHANGED <<kind, row, charged, handed, run>>
    BY <1>0, <1>19 DEF Callback, Reports, Status
  <2>2. \A c : Taken(c)' <=> Taken(c)
    BY <2>1 DEF Taken
  <2>3. TypeOK' /\ \A r \in Runs : Covers(run[r])'
    BY <2>1 DEF DeliveryInv, TypeOK, Covers
  <2>4. \A r \in Runs : Backed(run[r])'
    BY <2>1, <2>2 DEF DeliveryInv, Backed
  <2>5. NothingForgotten' /\ SentWasTaken'
    BY <2>1, <2>2 DEF DeliveryInv, NothingForgotten, SentWasTaken
  <2> QED
    BY <2>3, <2>4, <2>5 DEF DeliveryInv
<1>20. ASSUME NEW r \in Runs, Kill(r) PROVE DeliveryInv'
  <2> DEFINE s == [Fresh EXCEPT !.at = "killed"]
  <2>1. s \in Locals
    BY FreshType DEF Locals, Places
  <2>2. /\ s.at = "killed" /\ s.sent = {} /\ s.row.sent = {} /\ s.count = 0
    BY DEF Fresh, Empty
  <2> HIDE DEF s
  <2>3. Covers(s) /\ Backed(s)
    BY <2>2 DEF Covers, Backed
  <2> QED
    BY <1>0, <1>20, <2>1, <2>2, <2>3, LocalStep DEF Kill, s
<1>21. CASE UNCHANGED vars
  <2>1. \A c : Taken(c)' <=> Taken(c)
    BY <1>21 DEF Taken, vars
  <2>2. TypeOK' /\ (\A r \in Runs : Covers(run[r])') /\ (\A r \in Runs : Backed(run[r])')
    BY <1>21, <2>1 DEF DeliveryInv, TypeOK, Covers, Backed, vars
  <2> QED
    BY <1>21, <2>1, <2>2 DEF DeliveryInv, NothingForgotten, SentWasTaken, vars
<1> QED
  BY <1>1, <1>2, <1>3, <1>4, <1>5, <1>6, <1>7, <1>8, <1>9, <1>10, <1>11, <1>12, <1>13, <1>14,
     <1>15, <1>16, <1>17, <1>18, <1>19, <1>20, <1>21
     DEF Next, MakeSend, Send

-----------------------------------------------------------------------------
\* The locals of a run, the row and the reports keep their types, and what a
\* run will save accounts for every channel and is backed by a delivery.
THEOREM DeliveryInvariant == Spec => []DeliveryInv
<1> QED  BY InitDeliveryInv, NextDeliveryInv, PTL DEF Spec

\* make_send: once a run has saved, sent_channels and failed_channels together
\* name every required channel, whichever run saved last.
THEOREM DeliveryNothingForgotten == Spec => []NothingForgotten
<1>1. DeliveryInv => NothingForgotten
  BY DEF DeliveryInv
<1> QED  BY <1>1, DeliveryInvariant, PTL

\* make_send: a channel in sent_channels had a message taken by its provider,
\* or a recipient passed over in silence by it.
THEOREM DeliverySentWasTaken == Spec => []SentWasTaken
<1>1. DeliveryInv => SentWasTaken
  BY DEF DeliveryInv
<1> QED  BY <1>1, DeliveryInvariant, PTL

-----------------------------------------------------------------------------
(* Runs that do not overlap, when no call of the database and no answer of a *)
(* provider fails                                                            *)

Active(s) == s.at \notin {"queued", "done", "killed"}

\* A resend has saved.
Resent == \E q \in Resends : run[q].at = "done"

\* One run at a time; what it has read of the row is the row, but for a task
\* that comes after a resend.
Solo ==
    /\ \A r, q \in Runs : Active(run[r]) /\ Active(run[q]) => r = q
    /\ run[Task].at = "queued" => row = Empty \/ Resent
    /\ \A r \in Runs : Active(run[r]) => run[r].row = row \/ (r = Task /\ Resent)

\* The report a run goes on with is the one it found.
Reported(s) ==
    /\ s.at \in {"call", "report"} => Found(s) = {} \/ \E d \in Found(s) : d.pk = s.pk
    /\ s.at = "confirm" => \E d \in Found(s) : d.pk = s.pk

OwnReport == OneReport /\ \A r \in Runs : Reported(run[r])

\* The provider's report of a mail shows it delivered.
Got(u, i) == \E d \in reports : d.user = u /\ d.channel = "EMail" /\ d.provider = i /\ d.status = "DELIVERED"

Holds(s, u) == s.at \in {"report", "confirm"} /\ s.channel = "EMail" /\ s.user = u

GotMail == {m \in Recipients \X Providers("EMail") : Got(m[1], m[2])}

Killed == {r \in Runs : run[r].at = "killed"}

\* A mail of this provider is taken, or passed over in silence.
MayMail(u, i) == i = 1 \/ u \in kind.unreachable["EMail"]

\* Whom a run sends to, and what it knows of his report.
Knows(s) ==
    /\ s.at \in {"copy", "next", "lookup", "call", "report", "confirm"} =>
         s.left \subseteq kind.to /\ s.provider \in Providers(s.channel)
    /\ s.at \in {"lookup", "call", "report", "confirm"} => s.user \in kind.to
    /\ s.at \in {"report", "confirm"} /\ s.channel = "EMail" => MayMail(s.user, s.provider)
    /\ s.at \in {"call", "report", "confirm"} /\ s.channel = "EMail" => ~Got(s.user, s.provider)

\* A mail that was taken is reported delivered, is about to be, or was taken
\* by a run that was killed.
MailOnce ==
    /\ \A r \in Runs : Knows(run[r])
    /\ \A d \in reports : d.channel = "EMail" => d.user \in kind.to /\ MayMail(d.user, d.provider)
    /\ IsFiniteSet(Killed)
    /\ \A u \in Recipients \ kind.unreachable["EMail"] :
         handed[u]["EMail"] <= Cardinality(Killed) + (IF Got(u, 1) \/ \E r \in Runs : Holds(run[r], u) THEN 1 ELSE 0)

\* What is charged, or counted to be charged, is reported delivered.
ChargedOnce ==
    /\ charged["EMail"] <= Cardinality(GotMail)
    /\ \A r \in Runs : /\ run[r].channel = "EMail" => charged["EMail"] + run[r].count <= Cardinality(GotMail)
                       /\ ~Active(run[r]) \/ run[r].at = "license" => run[r].count = 0

OnceInv == Solo /\ OwnReport /\ MailOnce /\ ChargedOnce

LEMMA MailsAreFinite ==
    ASSUME TypeOK
    PROVE  IsFiniteSet(Mails) /\ Cardinality(Mails) \in Nat
<1>1. kind.to \subseteq Recipients /\ IsFiniteSet(Recipients)
  BY DeliveryAssumption DEF TypeOK, KindType
<1>2. IsFiniteSet(kind.to)
  BY <1>1, FS_Subset
<1>3. ProviderNo["EMail"] \in Nat
  BY DeliveryAssumption DEF Channels
<1>4. IsFiniteSet(Providers("EMail"))
  BY <1>3, FS_Interval DEF Providers
<1>5. IsFiniteSet(kind.to \X Providers("EMail"))
  BY <1>2, <1>4, FS_Product
<1>6. Mails \subseteq kind.to \X Providers("EMail")
  BY DEF Mails
<1>7. IsFiniteSet(Mails)
  BY <1>5, <1>6, FS_Subset
<1> QED
  BY <1>7, FS_CardinalityType

LEMMA GotMailIsFinite ==
    ASSUME TypeOK, MailOnce
    PROVE  /\ GotMail \subseteq Mails
           /\ IsFiniteSet(GotMail) /\ Cardinality(GotMail) \in Nat
           /\ Cardinality(GotMail) <= Cardinality(Mails)
<1>1. GotMail \subseteq Mails
  BY DEF GotMail, Got, MailOnce, Mails, MayMail
<1>2. IsFiniteSet(GotMail) /\ Cardinality(GotMail) <= Cardinality(Mails)
  BY <1>1, MailsAreFinite, FS_Subset
<1> QED
  BY <1>1, <1>2, FS_CardinalityType

LEMMA BecomeOf ==
    ASSUME TypeOK, NEW r \in Runs, NEW s, Become(r, s)
    PROVE  \A q \in Runs : run'[q] = IF q = r THEN s ELSE run[q]
BY DEF TypeOK, Become

LEMMA InitOnceInv == Init => OnceInv
<1> SUFFICES ASSUME Init PROVE OnceInv
  OBVIOUS
<1>1. \A r \in Runs : run[r] = Fresh
  BY DEF Init
<1>2. /\ Fresh.at = "queued" /\ Fresh.count = 0 /\ Fresh.channel = "EMail"
  BY DEF Fresh
<1>3. row = Empty /\ reports = {} /\ charged["EMail"] = 0 /\ \A u \in Recipients : handed[u]["EMail"] = 0
  BY DEF Init, Channels
<1>4. Solo
  BY <1>1, <1>2, <1>3, DeliveryAssumption DEF Solo, Active, Runs, Resent
<1>5. OwnReport
  BY <1>1, <1>2, <1>3 DEF OwnReport, OneReport, Reported
<1>6. Killed = {} /\ GotMail = {}
  BY <1>1, <1>2, <1>3 DEF Killed, GotMail, Got
<1>7. IsFiniteSet({}) /\ Cardinality({}) = 0
  BY FS_EmptySet
<1>8. MailOnce
  BY <1>1, <1>2, <1>3, <1>6, <1>7 DEF MailOnce, Knows
<1>9. ChargedOnce
  BY <1>1, <1>2, <1>3, <1>6, <1>7 DEF ChargedOnce
<1> QED
  BY <1>4, <1>5, <1>8, <1>9 DEF OnceInv

\* A run that goes on stays the only one.
LEMMA SoloStep ==
    ASSUME TypeOK, Solo, NEW r \in Runs, NEW s, Become(r, s), UNCHANGED row,
           Active(run[r]), s.at # "queued", Active(s) => s.row = run[r].row
    PROVE  Solo'
<1>1. \A q \in Runs : run'[q] = IF q = r THEN s ELSE run[q]
  BY BecomeOf
<1>2. Task \in Runs /\ Resends \subseteq Runs /\ run[r].at # "queued"
  BY DEF Runs, Active
<1>3. ASSUME NEW p \in Runs, NEW q \in Runs, Active(run'[p]), Active(run'[q]) PROVE p = q
  BY <1>1, <1>3 DEF Solo
<1>r. Resent => Resent'
  BY <1>1, <1>2 DEF Resent, Active
<1>4. run'[Task].at = "queued" => row' = Empty \/ Resent'
  BY <1>1, <1>2, <1>r DEF Solo
<1>5. \A q \in Runs : Active(run'[q]) => run'[q].row = row' \/ (q = Task /\ Resent')
  BY <1>1, <1>r DEF Solo
<1> QED
  BY <1>3, <1>4, <1>5 DEF Solo

\* No run is on its way when one may start.
LEMMA SoloStart ==
    ASSUME TypeOK, Solo, ~kind.overlap, NEW r \in Runs, Start(r)
    PROVE  Solo'
<1> DEFINE object == IF r = Task THEN Empty ELSE row
           todo == (kind.required \ (IF r = Task THEN object.sent ELSE {}))
                      \union (IF kind.smsNotice THEN {"SMS"} ELSE {})
           s == [run[r] EXCEPT !.at = "license", !.row = object, !.todo = todo]
<1>0. Become(r, s) /\ UNCHANGED row /\ run[r].at = "queued" /\ MayStart(r)
  BY DEF Start
<1>1. s.at = "license" /\ s.row = object
  BY DEF TypeOK, Locals
<1>2. \A q \in Runs : run'[q] = IF q = r THEN s ELSE run[q]
  BY <1>0, BecomeOf
<1> HIDE DEF s
<1>3. Task \in Runs /\ Task \notin Resends /\ Resends \subseteq Runs
  BY DeliveryAssumption DEF Runs
<1>4. \A q \in Runs : q # r => ~Active(run[q])
  BY <1>0 DEF MayStart, Over, Active
<1>5. Resent => Resent'
  BY <1>0, <1>1, <1>2, <1>3 DEF Resent
<1>6. object = row \/ (r = Task /\ Resent)
  BY <1>0 DEF Solo
<1>7. \A p, q \in Runs : Active(run'[p]) /\ Active(run'[q]) => p = q
  BY <1>2, <1>4
<1>8. run'[Task].at = "queued" => row' = Empty \/ Resent'
  BY <1>0, <1>1, <1>2, <1>3, <1>5 DEF Solo
<1>9. \A q \in Runs : Active(run'[q]) => run'[q].row = row' \/ (q = Task /\ Resent')
  BY <1>0, <1>1, <1>2, <1>4, <1>5, <1>6
<1> QED
  BY <1>7, <1>8, <1>9 DEF Solo

\* A step of a run that no report, no charge and no provider sees.
LEMMA QuietStep ==
    ASSUME TypeOK, OnceInv, Solo', NEW r \in Runs, NEW s, Become(r, s),
           UNCHANGED <<kind, reports, charged, handed>>,
           run[r].at \notin {"report", "confirm", "killed"}, s.at \notin {"confirm", "killed"},
           s.at = "report" => s.channel = "SMS", Knows(s),
           s.at \in {"call", "report"} => Found(s) = {} \/ \E d \in Found(s) : d.pk = s.pk,
           s.count = 0 \/ (s.count = run[r].count /\ s.channel = run[r].channel),
           ~Active(s) \/ s.at = "license" => s.count = 0
    PROVE  OnceInv'
<1>1. \A q \in Runs : run'[q] = IF q = r THEN s ELSE run[q]
  BY BecomeOf
<1>2. /\ \A t : Found(t)' = Found(t)
      /\ \A t : Knows(t)' <=> Knows(t)
      /\ \A u, i : Got(u, i)' <=> Got(u, i)
      /\ \A u, i : MayMail(u, i)' <=> MayMail(u, i)
  BY DEF Found, Knows, Got, MayMail
<1>3. GotMail' = GotMail
  BY DEF GotMail, Got, Providers
<1>4. Killed' = Killed
  BY <1>1 DEF Killed
<1>5. OwnReport'
  <2>1. OneReport'
    BY DEF OnceInv, OwnReport, OneReport
  <2>2. \A t : Reported(t)' <=> Reported(t)
    BY <1>2 DEF Reported
  <2>3. Reported(s)
    BY DEF Reported
  <2> QED
    BY <1>1, <2>1, <2>2, <2>3 DEF OnceInv, OwnReport
<1>6. MailOnce'
  <2>1. \A q \in Runs : Knows(run[q])'
    BY <1>1, <1>2 DEF OnceInv, MailOnce, Knows
  <2>2. \A u, q : q \in Runs => (Holds(run'[q], u) <=> Holds(run[q], u))
    BY <1>1 DEF Holds
  <2>3. \A u \in Recipients \ kind.unreachable["EMail"] :
          handed'[u]["EMail"] <= Cardinality(Killed') + (IF Got(u, 1)' \/ \E q \in Runs : Holds(run'[q], u) THEN 1 ELSE 0)
    BY <1>2, <1>4, <2>2 DEF OnceInv, MailOnce
  <2>4. /\ \A d \in reports' : d.channel = "EMail" => d.user \in kind'.to /\ MayMail(d.user, d.provider)'
        /\ IsFiniteSet(Killed')
    BY <1>2, <1>4 DEF OnceInv, MailOnce
  <2> QED
    BY <2>1, <2>3, <2>4 DEF MailOnce
<1>7. ChargedOnce'
  <2>1. charged'["EMail"] = charged["EMail"] /\ charged["EMail"] \in Nat
    BY DEF TypeOK, Channels
  <2> QED
    BY <1>1, <1>3, <2>1 DEF OnceInv, ChargedOnce
<1> QED
  BY <1>5, <1>6, <1>7 DEF OnceInv

\* What failing over, closing and failing a channel leave alone.
LEMMA FailOverFields ==
    ASSUME NEW s \in Locals
    PROVE  LET f == FailOver(s)
           IN  /\ f.at \in {"next", "lookup"} /\ f.row = s.row /\ f.count = s.count
               /\ f.channel = s.channel /\ f.user = s.user /\ f.left = s.left
               /\ s.provider \in Providers(s.channel) => f.provider \in Providers(s.channel)
<1>1. FailOver(s).at \in {"next", "lookup"}
  BY FailOverType
<1>2. LET f == FailOver(s)
      IN  /\ f.row = s.row /\ f.count = s.count
          /\ f.channel = s.channel /\ f.user = s.user /\ f.left = s.left
  BY DEF FailOver, Locals
<1>3. s.provider \in Providers(s.channel) => FailOver(s).provider \in Providers(s.channel)
  <2> DEFINE exclude == s.exclude \union {s.provider}
             rest == Providers(s.channel) \ exclude
  <2>1. CASE rest = {}
    BY <2>1 DEF FailOver, Locals
  <2>2. CASE rest # {}
    <3>1. rest \subseteq Nat
      BY DEF Providers
    <3>2. \E i \in rest : \A j \in rest : i <= j
      BY <2>2, <3>1, LeastExists
    <3>3. FailOver(s).provider = CHOOSE i \in rest : \A j \in rest : i <= j
      BY <2>2 DEF FailOver, Locals
    <3> QED
      BY <3>2, <3>3
  <2> QED
    BY <2>1, <2>2
<1> QED
  BY <1>1, <1>2, <1>3

LEMMA FailFields ==
    ASSUME NEW s \in Locals, NEW c
    PROVE  LET f == Fail(s, c)
           IN  f.at = "license" /\ f.row = s.row /\ f.count = 0 /\ f.channel = "EMail"
BY DEF Fail, Closed, Locals

LEMMA RunIs == TypeOK => \A r \in Runs : run[r] \in Locals
BY DEF TypeOK

LEMMA ToIs == TypeOK => kind.to \subseteq Recipients
BY DeliveryAssumption DEF TypeOK, KindType

\* One lemma for each step.
LEMMA StartOnce ==
    ASSUME TypeOK, OnceInv, ~kind.overlap, NEW r \in Runs, Start(r)
    PROVE  OnceInv'
<1> DEFINE object == IF r = Task THEN Empty ELSE row
           todo == (kind.required \ (IF r = Task THEN object.sent ELSE {}))
                      \union (IF kind.smsNotice THEN {"SMS"} ELSE {})
           s == [run[r] EXCEPT !.at = "license", !.row = object, !.todo = todo]
<1>0. /\ Become(r, s) /\ UNCHANGED <<kind, reports, charged, handed>>
      /\ run[r].at = "queued" /\ run[r] \in Locals
  BY RunIs DEF Start
<1>1. s.at = "license" /\ s.count = run[r].count
  BY <1>0 DEF Locals
<1>2. run[r].count = 0
  BY <1>0 DEF OnceInv, ChargedOnce, Active
<1>3. Solo'
  BY SoloStart DEF OnceInv
<1> HIDE DEF s
<1>4. Knows(s)
  BY <1>1 DEF Knows
<1> QED
  BY <1>0, <1>1, <1>2, <1>3, <1>4, QuietStep

LEMMA FailOnce ==
    ASSUME TypeOK, OnceInv, NEW r \in Runs, NEW c, Become(r, Fail(run[r], c)),
           UNCHANGED <<kind, row, reports, charged, handed>>,
           run[r].at \in {"license", "copy", "charge"}
    PROVE  OnceInv'
<1> DEFINE s == Fail(run[r], c)
<1>0. run[r] \in Locals /\ Active(run[r])
  BY RunIs DEF Active
<1>1. s.at = "license" /\ s.row = run[r].row /\ s.count = 0
  BY <1>0, FailFields
<1> HIDE DEF s
<1>2. Become(r, s)
  BY DEF s
<1>3. Solo'
  BY <1>0, <1>1, <1>2, SoloStep DEF OnceInv
<1>4. Knows(s)
  BY <1>1 DEF Knows
<1> QED
  BY <1>1, <1>2, <1>3, <1>4, QuietStep

LEMMA OpenOnce ==
    ASSUME TypeOK, OnceInv, NEW r \in Runs, NEW c \in Channels, Open(r, c)
    PROVE  OnceInv'
<1> DEFINE place == IF c = "EMail" THEN "copy" ELSE "next"
           s == [run[r] EXCEPT !.at = place, !.channel = c, !.left = kind.to, !.provider = 1,
                               !.exclude = {}, !.count = 0]
<1>0. /\ Become(r, s) /\ UNCHANGED <<kind, row, reports, charged, handed>>
      /\ run[r].at = "license" /\ run[r] \in Locals /\ Active(run[r])
  BY RunIs DEF Open, Active
<1>1. /\ s.at \in {"copy", "next"} /\ s.row = run[r].row /\ s.count = 0 /\ s.left = kind.to
      /\ s.channel = c /\ s.provider = 1
  BY <1>0 DEF Locals
<1> HIDE DEF s
<1>2. Solo'
  BY <1>0, <1>1, SoloStep DEF OnceInv
<1>3. Knows(s)
  BY <1>1, DeliveryAssumption DEF Knows, Providers
<1> QED
  BY <1>0, <1>1, <1>2, <1>3, QuietStep

LEMMA CopyOnce ==
    ASSUME TypeOK, OnceInv, NEW r \in Runs, SenderCopy(r)
    PROVE  OnceInv'
<1>0. /\ UNCHANGED <<kind, row, reports, charged, handed>>
      /\ run[r].at = "copy" /\ run[r] \in Locals /\ Active(run[r])
  BY RunIs DEF SenderCopy, Active
<1>1. ASSUME Become(r, [run[r] EXCEPT !.at = "next"]) PROVE OnceInv'
  <2> DEFINE s == [run[r] EXCEPT !.at = "next"]
  <2>1. /\ s.at = "next" /\ s.row = run[r].row /\ s.count = run[r].count
        /\ s.channel = run[r].channel /\ s.left = run[r].left /\ s.provider = run[r].provider
    BY <1>0 DEF Locals
  <2>2. Become(r, s)
    BY <1>1
  <2> HIDE DEF s
  <2>3. Solo'
    BY <1>0, <2>1, <2>2, SoloStep DEF OnceInv
  <2>4. Knows(s)
    BY <1>0, <2>1 DEF Knows, OnceInv, MailOnce
  <2> QED
    BY <1>0, <2>1, <2>2, <2>3, <2>4, QuietStep DEF Active
<1>2. ASSUME Become(r, Fail(run[r], run[r].channel)) PROVE OnceInv'
  BY <1>0, <1>2, FailOnce
<1> QED
  BY <1>1, <1>2 DEF SenderCopy

LEMMA PickOnce ==
    ASSUME TypeOK, OnceInv, NEW r \in Runs, NEW u \in Recipients, Pick(r, u)
    PROVE  OnceInv'
<1> DEFINE s == [run[r] EXCEPT !.at = "lookup", !.left = @ \ {u}, !.user = u]
<1>0. /\ Become(r, s) /\ UNCHANGED <<kind, row, reports, charged, handed>>
      /\ run[r].at = "next" /\ u \in run[r].left /\ run[r] \in Locals /\ Active(run[r])
  BY RunIs DEF Pick, Active
<1>1. /\ s.at = "lookup" /\ s.row = run[r].row /\ s.count = run[r].count
      /\ s.channel = run[r].channel /\ s.left = run[r].left \ {u} /\ s.user = u /\ s.provider = run[r].provider
  BY <1>0 DEF Locals
<1> HIDE DEF s
<1>2. Solo'
  BY <1>0, <1>1, SoloStep DEF OnceInv
<1>3. Knows(s)
  BY <1>0, <1>1 DEF Knows, OnceInv, MailOnce
<1> QED
  BY <1>0, <1>1, <1>2, <1>3, QuietStep DEF Active

LEMMA FallBackOnce ==
    ASSUME TypeOK, OnceInv, NEW r \in Runs, NEW u \in Recipients, FallBack(r, u)
    PROVE  OnceInv'
<1> DEFINE s == [run[r] EXCEPT !.left = @ \ {u}]
<1>0. /\ Become(r, s) /\ UNCHANGED <<kind, row, reports, charged, handed>>
      /\ run[r].at = "next" /\ run[r] \in Locals /\ Active(run[r])
  BY RunIs DEF FallBack, Active
<1>1. /\ s.at = "next" /\ s.row = run[r].row /\ s.count = run[r].count
      /\ s.channel = run[r].channel /\ s.left = run[r].left \ {u} /\ s.provider = run[r].provider
  BY <1>0 DEF Locals
<1> HIDE DEF s
<1>2. Solo'
  BY <1>0, <1>1, SoloStep DEF OnceInv
<1>3. Knows(s)
  BY <1>0, <1>1 DEF Knows, OnceInv, MailOnce
<1> QED
  BY <1>0, <1>1, <1>2, <1>3, QuietStep DEF Active

LEMMA AllTriedOnce ==
    ASSUME TypeOK, OnceInv, NEW r \in Runs, AllTried(r)
    PROVE  OnceInv'
<1> DEFINE s == [run[r] EXCEPT !.at = "charge"]
<1>0. /\ Become(r, s) /\ UNCHANGED <<kind, row, reports, charged, handed>>
      /\ run[r].at = "next" /\ run[r] \in Locals /\ Active(run[r])
  BY RunIs DEF AllTried, Active
<1>1. /\ s.at = "charge" /\ s.row = run[r].row /\ s.count = run[r].count /\ s.channel = run[r].channel
  BY <1>0 DEF Locals
<1> HIDE DEF s
<1>2. Solo'
  BY <1>0, <1>1, SoloStep DEF OnceInv
<1>3. Knows(s)
  BY <1>1 DEF Knows
<1> QED
  BY <1>0, <1>1, <1>2, <1>3, QuietStep DEF Active

LEMMA FailOverOnce ==
    ASSUME TypeOK, OnceInv, NEW r \in Runs, Become(r, FailOver(run[r])),
           UNCHANGED <<kind, row, reports, charged, handed>>, run[r].at \in {"lookup", "call"}
    PROVE  OnceInv'
<1> DEFINE s == FailOver(run[r])
<1>0. run[r] \in Locals /\ Active(run[r])
  BY RunIs DEF Active
<1>1. /\ s.at \in {"next", "lookup"} /\ s.row = run[r].row /\ s.count = run[r].count
      /\ s.channel = run[r].channel /\ s.user = run[r].user /\ s.left = run[r].left
      /\ run[r].provider \in Providers(s.channel) => s.provider \in Providers(s.channel)
  BY <1>0, FailOverFields
<1> HIDE DEF s
<1>2. Become(r, s)
  BY DEF s
<1>3. Solo'
  BY <1>0, <1>1, <1>2, SoloStep DEF OnceInv
<1>4. Knows(s)
  BY <1>1 DEF Knows, OnceInv, MailOnce
<1> QED
  BY <1>0, <1>1, <1>2, <1>3, <1>4, QuietStep DEF Active

\* A run that goes on to call AwsSes found no delivered report.
LEMMA LookupOnce ==
    ASSUME TypeOK, OnceInv, NEW r \in Runs, Lookup(r)
    PROVE  OnceInv'
<1>0. /\ UNCHANGED <<kind, row, reports, charged, handed>>
      /\ run[r].at = "lookup" /\ run[r] \in Locals /\ Active(run[r])
  BY RunIs DEF Lookup, Active
<1>1. ASSUME MaySend(run[r]) PROVE OnceInv'
  <2> DEFINE pk == IF Found(run[r]) = {} THEN r ELSE (CHOOSE d \in Found(run[r]) : TRUE).pk
             s == [run[r] EXCEPT !.at = "call", !.pk = pk]
  <2>1. Become(r, s)
    BY <1>1 DEF Lookup
  <2>2. /\ s.at = "call" /\ s.row = run[r].row /\ s.count = run[r].count /\ s.left = run[r].left
        /\ s.channel = run[r].channel /\ s.user = run[r].user /\ s.provider = run[r].provider
        /\ s.pk = pk
    BY <1>0 DEF Locals
  <2>3. Found(run[r]) = {} \/ \E d \in Found(run[r]) : d.pk = pk
    OBVIOUS
  <2> HIDE DEF s, pk
  <2>4. Found(s) = Found(run[r])
    BY <2>2 DEF Found
  <2>5. Solo'
    BY <1>0, <2>1, <2>2, SoloStep DEF OnceInv
  <2>6. s.channel = "EMail" => ~Got(s.user, s.provider)
    BY <1>1, <2>2 DEF MaySend, Found, Got
  <2>7. Knows(s)
    BY <1>0, <2>2, <2>6 DEF Knows, OnceInv, MailOnce
  <2> QED
    BY <1>0, <2>1, <2>2, <2>3, <2>4, <2>5, <2>7, QuietStep DEF Active
<1>2. ASSUME ~MaySend(run[r]) PROVE OnceInv'
  BY <1>0, <1>2, FailOverOnce DEF Lookup
<1> QED
  BY <1>1, <1>2

\* What is known of the reports when a run takes a step that shows none.
LEMMA OthersIdle ==
    ASSUME Solo, NEW r \in Runs, Active(run[r])
    PROVE  \A q \in Runs : q # r => ~Active(run[q])
BY DEF Solo

LEMMA SaveOnce ==
    ASSUME TypeOK, OnceInv, NEW r \in Runs, Save(r)
    PROVE  OnceInv' /\ (row.sent \subseteq row'.sent \/ LateTask)
<1> DEFINE s == [Fresh EXCEPT !.at = "done"]
<1>0. /\ Become(r, s) /\ UNCHANGED <<kind, reports, charged, handed>> /\ row' = Outcome(run[r])
      /\ run[r].at = "license" /\ run[r] \in Locals /\ Active(run[r])
  BY RunIs DEF Save, Active
<1>1. s.at = "done" /\ s.count = 0
  BY DEF Fresh
<1> HIDE DEF s
<1>2. \A q \in Runs : run'[q] = IF q = r THEN s ELSE run[q]
  BY <1>0, BecomeOf
<1>3. \A q \in Runs : q # r => ~Active(run[q])
  BY <1>0, OthersIdle DEF OnceInv
<1>4. Solo'
  <2>1. \A q \in Runs : ~Active(run'[q])
    BY <1>1, <1>2, <1>3 DEF Active
  <2>2. run'[Task].at = "queued" => Resent'
    BY <1>1, <1>2 DEF Runs, Resent
  <2> QED
    BY <2>1, <2>2 DEF Solo
<1>5. Knows(s)
  BY <1>1 DEF Knows
<1>6. OnceInv'
  BY <1>0, <1>1, <1>4, <1>5, QuietStep
<1>7. row'.sent = run[r].sent \union run[r].row.sent
  BY <1>0 DEF Outcome
<1>8. CASE run[r].row = row
  BY <1>6, <1>7, <1>8
<1>9. CASE r = Task /\ Resent
  <2>1. LateTask
    BY <1>0, <1>1, <1>2, <1>9 DEF LateTask, Resent
  <2> QED
    BY <1>6, <2>1
<1> QED
  BY <1>0, <1>8, <1>9 DEF OnceInv, Solo

\* What does not depend on the step a run takes, as long as the reports of
\* mails, what was charged and who was killed stay.
LEMMA ReportsStay ==
    ASSUME TypeOK, OnceInv, UNCHANGED <<kind, reports>>
    PROVE  /\ OneReport'
           /\ \A t : Reported(t)' <=> Reported(t)
           /\ \A t : Knows(t)' <=> Knows(t)
           /\ \A u, i : Got(u, i)' <=> Got(u, i)
           /\ GotMail' = GotMail
           /\ \A d \in reports' : d.channel = "EMail" => d.user \in kind'.to /\ MayMail(d.user, d.provider)'
<1>1. OneReport'
  BY DEF OnceInv, OwnReport, OneReport
<1>2. \A t : Found(t)' = Found(t)
  BY DEF Found
<1>3. \A u, i : Got(u, i)' <=> Got(u, i)
  BY DEF Got
<1>m. \A u, i : MayMail(u, i)' <=> MayMail(u, i)
  BY DEF MayMail
<1>4. \A t : Knows(t)' <=> Knows(t)
  BY <1>3, <1>m DEF Knows, Providers
<1>5. \A t : Reported(t)' <=> Reported(t)
  BY <1>2 DEF Reported
<1>6. GotMail' = GotMail
  BY <1>3 DEF GotMail, Providers
<1> QED
  BY <1>1, <1>3, <1>4, <1>5, <1>6, <1>m DEF OnceInv, MailOnce

\* What a run counted becomes what is charged.
LEMMA ChargeOnce ==
    ASSUME TypeOK, OnceInv, NEW r \in Runs, Charge(r)
    PROVE  OnceInv'
<1>0. /\ UNCHANGED <<kind, row, reports, handed>>
      /\ charged' = [charged EXCEPT ![run[r].channel] = @ + run[r].count]
      /\ run[r].at = "charge" /\ run[r] \in Locals /\ Active(run[r])
      /\ charged \in [Channels -> Nat]
  BY RunIs DEF Charge, Amount, Active, TypeOK
<1>1. PICK s \in Locals : /\ Become(r, s) /\ s.at = "license" /\ s.count = 0 /\ s.row = run[r].row
  <2>1. CASE AnySent(run[r])
    <3> DEFINE t == Closed(run[r])
               s == [t EXCEPT !.at = "license", !.todo = @ \ {run[r].channel},
                              !.sent = @ \union {run[r].channel}]
    <3>1. t \in Locals /\ t.row = run[r].row /\ t.count = 0
      <4>1. t \in Locals
        BY <1>0, ClosedType
      <4>2. t.row = run[r].row /\ t.count = 0
        BY <1>0 DEF Closed, Locals
      <4> QED  BY <4>1, <4>2
    <3>2. run[r].channel \in Channels
      BY <1>0 DEF Locals
    <3>3. Become(r, s)
      BY <2>1 DEF Charge
    <3> HIDE DEF t
    <3>4. s \in Locals /\ s.at = "license" /\ s.count = 0 /\ s.row = run[r].row
      BY <3>1, <3>2 DEF Locals, Places
    <3> QED
      BY <3>3, <3>4
  <2>2. CASE ~AnySent(run[r])
    <3>1. run[r].channel \in Channels
      BY <1>0 DEF Locals
    <3> QED
      BY <1>0, <2>2, <3>1, FailType, FailFields DEF Charge
  <2> QED
    BY <2>1, <2>2
<1>2. \A q \in Runs : run'[q] = IF q = r THEN s ELSE run[q]
  BY <1>1, BecomeOf
<1>3. \A q \in Runs : q # r => ~Active(run[q])
  BY <1>0, OthersIdle DEF OnceInv
<1>4. Solo'
  BY <1>0, <1>1, SoloStep DEF OnceInv
<1>5. OwnReport'
  <2>1. Reported(s)
    BY <1>1 DEF Reported
  <2> QED
    BY <1>0, <1>2, <2>1, ReportsStay DEF OnceInv, OwnReport
<1>6. MailOnce'
  <2>1. Knows(s)
    BY <1>1 DEF Knows
  <2>2. \A q \in Runs : Knows(run[q])'
    BY <1>0, <1>2, <2>1, ReportsStay DEF OnceInv, MailOnce, Knows
  <2>3. Killed' = Killed
    BY <1>0, <1>1, <1>2 DEF Killed
  <2>4. \A u, q : q \in Runs => (Holds(run'[q], u) <=> Holds(run[q], u))
    BY <1>0, <1>1, <1>2 DEF Holds
  <2>5. \A u, i : Got(u, i)' <=> Got(u, i)
    BY <1>0, ReportsStay
  <2>6. \A u \in Recipients \ kind.unreachable["EMail"] :
          handed'[u]["EMail"] <= Cardinality(Killed') + (IF Got(u, 1)' \/ \E q \in Runs : Holds(run'[q], u) THEN 1 ELSE 0)
    BY <1>0, <2>3, <2>4, <2>5 DEF OnceInv, MailOnce
  <2> QED
    BY <1>0, <2>2, <2>3, <2>6, ReportsStay DEF OnceInv, MailOnce
<1>7. ChargedOnce'
  <2>1. charged'["EMail"] <= Cardinality(GotMail)
    <3>1. CASE run[r].channel = "EMail"
      BY <1>0, <3>1 DEF OnceInv, ChargedOnce, Channels
    <3>2. CASE run[r].channel = "SMS"
      BY <1>0, <3>2 DEF OnceInv, ChargedOnce, Channels
    <3> QED
      BY <1>0, <3>1, <3>2 DEF Locals, Channels
  <2>2. charged'["EMail"] \in Nat /\ Cardinality(GotMail) \in Nat
    <3>1. run[r].channel \in Channels /\ run[r].count \in Nat
      BY <1>0 DEF Locals
    <3> QED
      BY <1>0, <3>1, GotMailIsFinite DEF Channels, OnceInv
  <2>3. \A q \in Runs : run'[q].count = 0
    BY <1>1, <1>2, <1>3 DEF OnceInv, ChargedOnce
  <2>4. GotMail' = GotMail
    BY <1>0, ReportsStay
  <2> QED
    BY <2>1, <2>2, <2>3, <2>4 DEF ChargedOnce
<1> QED
  BY <1>4, <1>5, <1>6, <1>7 DEF OnceInv

\* AwsSes takes a mail no other run has taken and that is not reported, or
\* passes over one who is unreachable.
LEMMA TakenOnce ==
    ASSUME TypeOK, OnceInv, NEW r \in Runs, Accepted(r) \/ Ignored(r)
    PROVE  OnceInv'
<1> DEFINE s == [run[r] EXCEPT !.at = "report"]
           u == run[r].user
           c == run[r].channel
<1>0. /\ Become(r, s) /\ UNCHANGED <<kind, row, reports, charged>>
      /\ handed' = [handed EXCEPT ![u][c] = @ + 1]
      /\ run[r].at = "call" /\ run[r] \in Locals /\ Active(run[r])
      /\ handed \in [Recipients -> [Channels -> Nat]]
  BY RunIs DEF Accepted, Ignored, Take, Active, TypeOK
<1>p. run[r].provider = 1 \/ u \in kind.unreachable[c]
  BY DEF Accepted, Ignored, Reached, Silent
<1>1. /\ s.at = "report" /\ s.row = run[r].row /\ s.count = run[r].count /\ s.left = run[r].left
      /\ s.channel = c /\ s.user = u /\ s.provider = run[r].provider /\ s.pk = run[r].pk
  BY <1>0 DEF Locals
<1>t. u \in Recipients /\ c \in Channels
  BY <1>0 DEF Locals
<1>i. \A q \in Runs : q # r => ~Active(run[q])
  BY <1>0, OthersIdle DEF OnceInv
<1> HIDE DEF s
<1>2. \A q \in Runs : run'[q] = IF q = r THEN s ELSE run[q]
  BY <1>0, BecomeOf
<1>3. Solo'
  BY <1>0, <1>1, SoloStep DEF OnceInv
<1>4. OwnReport'
  <2>1. Found(s) = Found(run[r])
    BY <1>0, <1>1 DEF Found
  <2>2. Reported(s)
    BY <1>0, <1>1, <2>1 DEF OnceInv, OwnReport, Reported
  <2> QED
    BY <1>0, <1>2, <2>2, ReportsStay DEF OnceInv, OwnReport
<1>k. Knows(run[r])
  BY DEF OnceInv, MailOnce
<1>5. MailOnce'
  <2>1. Knows(s)
    BY <1>0, <1>1, <1>k, <1>p DEF Knows, MayMail
  <2>2. \A q \in Runs : Knows(run[q])'
    BY <1>0, <1>2, <2>1, ReportsStay DEF OnceInv, MailOnce, Knows
  <2>3. Killed' = Killed
    BY <1>0, <1>1, <1>2 DEF Killed
  <2>4. IsFiniteSet(Killed) /\ Cardinality(Killed) \in Nat
    BY FS_CardinalityType DEF OnceInv, MailOnce
  <2>5. ASSUME NEW v \in Recipients \ kind.unreachable["EMail"]
        PROVE  handed'[v]["EMail"] <= Cardinality(Killed') + (IF Got(v, 1)' \/ \E q \in Runs : Holds(run'[q], v) THEN 1 ELSE 0)
    <3>1. Got(v, 1)' <=> Got(v, 1)
      BY <1>0, ReportsStay
    <3>2. \A q \in Runs : ~Holds(run[q], v)
      BY <1>0, <1>i DEF Holds, Active
    <3>3. handed[v]["EMail"] <= Cardinality(Killed) + (IF Got(v, 1) THEN 1 ELSE 0) /\ handed[v]["EMail"] \in Nat
      BY <1>0, <3>2 DEF OnceInv, MailOnce, Channels
    <3>4. CASE v = u /\ c = "EMail"
      <4>1. ~Got(v, 1)
        BY <1>0, <1>k, <1>p, <3>4 DEF Knows
      <4>2. Holds(run'[r], v)
        BY <1>1, <1>2, <3>4 DEF Holds
      <4>3. handed'[v]["EMail"] = handed[v]["EMail"] + 1
        BY <1>0, <1>t, <3>4 DEF Channels
      <4> QED
        BY <2>3, <2>4, <3>3, <4>1, <4>2, <4>3
    <3>5. CASE ~(v = u /\ c = "EMail")
      <4>1. handed'[v]["EMail"] = handed[v]["EMail"]
        BY <1>0, <1>t, <3>5 DEF Channels
      <4> QED
        BY <2>3, <2>4, <3>1, <3>3, <4>1
    <3> QED
      BY <3>4, <3>5
  <2> QED
    BY <1>0, <2>2, <2>3, <2>5, ReportsStay DEF OnceInv, MailOnce
<1>6. ChargedOnce'
  <2>1. GotMail' = GotMail
    BY <1>0, ReportsStay
  <2>2. s.count = run[r].count /\ s.channel = run[r].channel /\ Active(s) /\ s.at # "license"
    BY <1>1 DEF Active
  <2> QED
    BY <1>0, <1>2, <2>1, <2>2 DEF OnceInv, ChargedOnce
<1> QED
  BY <1>3, <1>4, <1>5, <1>6 DEF OnceInv

\* A run that is killed may have lost the mail it held.
LEMMA KillOnce ==
    ASSUME TypeOK, OnceInv, NEW r \in Runs, Kill(r)
    PROVE  OnceInv'
<1> DEFINE s == [Fresh EXCEPT !.at = "killed"]
<1>0. /\ Become(r, s) /\ UNCHANGED <<kind, row, reports, charged, handed>>
      /\ run[r].at # "queued" /\ run[r].at # "killed" /\ Active(run[r])
  BY DEF Kill, Over, Active
<1>1. s.at = "killed" /\ s.count = 0
  BY DEF Fresh
<1>i. \A q \in Runs : q # r => ~Active(run[q])
  BY <1>0, OthersIdle DEF OnceInv
<1> HIDE DEF s
<1>2. \A q \in Runs : run'[q] = IF q = r THEN s ELSE run[q]
  BY <1>0, BecomeOf
<1>3. Solo'
  BY <1>0, <1>1, SoloStep DEF OnceInv, Active
<1>4. OwnReport'
  <2>1. Reported(s)
    BY <1>1 DEF Reported
  <2> QED
    BY <1>0, <1>2, <2>1, ReportsStay DEF OnceInv, OwnReport
<1>5. MailOnce'
  <2>1. Knows(s)
    BY <1>1 DEF Knows
  <2>2. \A q \in Runs : Knows(run[q])'
    BY <1>0, <1>2, <2>1, ReportsStay DEF OnceInv, MailOnce, Knows
  <2>3. Killed' = Killed \union {r} /\ r \notin Killed
    BY <1>0, <1>1, <1>2 DEF Killed
  <2>4. /\ IsFiniteSet(Killed) /\ Cardinality(Killed) \in Nat
        /\ IsFiniteSet(Killed') /\ Cardinality(Killed') = Cardinality(Killed) + 1
    <3>1. IsFiniteSet(Killed)
      BY DEF OnceInv, MailOnce
    <3>2. IsFiniteSet(Killed \cup {r}) /\ Cardinality(Killed \cup {r}) = Cardinality(Killed) + 1
      BY <2>3, <3>1, FS_AddElement
    <3> QED
      BY <2>3, <3>1, <3>2, FS_CardinalityType
  <2>5. ASSUME NEW v \in Recipients \ kind.unreachable["EMail"]
        PROVE  handed'[v]["EMail"] <= Cardinality(Killed') + (IF Got(v, 1)' \/ \E q \in Runs : Holds(run'[q], v) THEN 1 ELSE 0)
    <3>1. handed[v]["EMail"] <= Cardinality(Killed) + 1 /\ handed[v]["EMail"] \in Nat
      <4>1. handed[v]["EMail"] \in Nat
        BY DEF TypeOK, Channels
      <4> QED
        BY <2>4, <4>1 DEF OnceInv, MailOnce
    <3> QED
      BY <1>0, <2>4, <3>1
  <2> QED
    BY <1>0, <2>2, <2>4, <2>5, ReportsStay DEF OnceInv, MailOnce
<1>6. ChargedOnce'
  <2>1. GotMail' = GotMail
    BY <1>0, ReportsStay
  <2>2. charged["EMail"] \in Nat
    BY DEF TypeOK, Channels
  <2> QED
    BY <1>0, <1>1, <1>2, <2>1, <2>2 DEF OnceInv, ChargedOnce
<1> QED
  BY <1>3, <1>4, <1>5, <1>6 DEF OnceInv

\* The report of a message that was taken.
LEMMA CreateOnce ==
    ASSUME TypeOK, OnceInv, NEW r \in Runs, CreateReport(r)
    PROVE  OnceInv'
<1> DEFINE s == [run[r] EXCEPT !.at = "confirm"]
           new == [pk |-> run[r].pk, user |-> run[r].user, channel |-> run[r].channel,
                   provider |-> run[r].provider, status |-> "PENDING_DELIVERY"]
<1>0. /\ Become(r, s) /\ UNCHANGED <<kind, row, charged, handed>>
      /\ reports' = IF \E d \in Found(run[r]) : d.pk = run[r].pk THEN reports ELSE reports \union {new}
      /\ run[r].at = "report" /\ run[r] \in Locals /\ Active(run[r])
  BY RunIs DEF CreateReport, Active
<1>1. /\ s.at = "confirm" /\ s.row = run[r].row /\ s.count = run[r].count /\ s.left = run[r].left
      /\ s.channel = run[r].channel /\ s.user = run[r].user /\ s.provider = run[r].provider
      /\ s.pk = run[r].pk
  BY <1>0 DEF Locals
<1>n. /\ new.pk = run[r].pk /\ new.user = run[r].user /\ new.channel = run[r].channel
      /\ new.provider = run[r].provider /\ new.status = "PENDING_DELIVERY"
  OBVIOUS
<1>i. \A q \in Runs : q # r => ~Active(run[q])
  BY <1>0, OthersIdle DEF OnceInv
<1>k. Knows(run[r]) /\ Reported(run[r])
  BY DEF OnceInv, MailOnce, OwnReport
<1> HIDE DEF s, new
<1>2. \A q \in Runs : run'[q] = IF q = r THEN s ELSE run[q]
  BY <1>0, BecomeOf
<1>3. Solo'
  BY <1>0, <1>1, SoloStep DEF OnceInv
<1>4. \A d \in reports' : d \in reports \/ (d = new /\ Found(run[r]) = {})
  BY <1>0, <1>k DEF Reported
<1>g. \A u, i : Got(u, i)' <=> Got(u, i)
  BY <1>0, <1>4, <1>n DEF Got
<1>5. OwnReport'
  <2>1. OneReport'
    <3> SUFFICES ASSUME NEW d \in reports', NEW e \in reports',
                        d.user = e.user, d.channel = e.channel, d.provider = e.provider
                 PROVE  d = e
      BY DEF OneReport
    <3> QED
      BY <1>4, <1>n DEF OnceInv, OwnReport, OneReport, Found
  <2>2. \E d \in reports' : d.user = s.user /\ d.channel = s.channel /\ d.provider = s.provider /\ d.pk = s.pk
    BY <1>0, <1>1, <1>n DEF Found
  <2>4. ASSUME NEW q \in Runs, q # r PROVE Reported(run[q])'
    <3>1. ~Active(run[q]) /\ run'[q] = run[q]
      BY <1>2, <1>i, <2>4
    <3> QED
      BY <3>1 DEF Reported, Active
  <2>5. Reported(run[r])'
    <3>1. run'[r] = s
      BY <1>2
    <3> QED
      BY <1>1, <2>2, <3>1 DEF Reported, Found
  <2> QED
    BY <2>1, <2>4, <2>5 DEF OwnReport
<1>6. MailOnce'
  <2>1. Knows(run[r])'
    <3>1. run'[r] = s
      BY <1>2
    <3> QED
      BY <1>0, <1>1, <1>k, <1>g, <3>1 DEF Knows, MayMail, Providers
  <2>2. ASSUME NEW q \in Runs, q # r PROVE Knows(run[q])'
    <3>1. ~Active(run[q]) /\ run'[q] = run[q]
      BY <1>2, <1>i, <2>2
    <3> QED
      BY <3>1 DEF Knows, Active
  <2>3. Killed' = Killed
    BY <1>0, <1>1, <1>2 DEF Killed
  <2>4. \A u, q : q \in Runs => (Holds(run'[q], u) <=> Holds(run[q], u))
    BY <1>0, <1>1, <1>2 DEF Holds
  <2>5. \A u \in Recipients \ kind.unreachable["EMail"] :
          handed'[u]["EMail"] <= Cardinality(Killed') + (IF Got(u, 1)' \/ \E q \in Runs : Holds(run'[q], u) THEN 1 ELSE 0)
    BY <1>0, <1>g, <2>3, <2>4 DEF OnceInv, MailOnce
  <2>6. \A d \in reports' : d.channel = "EMail" => d.user \in kind'.to /\ MayMail(d.user, d.provider)'
    BY <1>0, <1>4, <1>n, <1>k DEF OnceInv, MailOnce, Knows, MayMail
  <2> QED
    BY <1>0, <2>1, <2>2, <2>3, <2>5, <2>6 DEF OnceInv, MailOnce
<1>7. ChargedOnce'
  <2>1. GotMail' = GotMail
    BY <1>g DEF GotMail, Providers
  <2>2. s.count = run[r].count /\ s.channel = run[r].channel /\ Active(s) /\ s.at # "license"
    BY <1>1 DEF Active
  <2> QED
    BY <1>0, <1>2, <2>1, <2>2 DEF OnceInv, ChargedOnce
<1> QED
  BY <1>3, <1>5, <1>6, <1>7 DEF OnceInv

LEMMA ConfirmOnce ==
    ASSUME TypeOK, OnceInv, NEW r \in Runs, Confirm(r)
    PROVE  OnceInv'
<1> DEFINE s == [run[r] EXCEPT !.at = "next", !.user = SomeOne, !.pk = Task, !.count = @ + 1]
           u == run[r].user
           c == run[r].channel
<1>0. /\ Become(r, s) /\ UNCHANGED <<kind, row, charged, handed>>
      /\ reports' = IF c = "EMail" THEN Delivered(run[r]) ELSE reports
      /\ run[r].at = "confirm" /\ run[r] \in Locals /\ Active(run[r])
  BY RunIs DEF Confirm, Active
<1>1. /\ s.at = "next" /\ s.row = run[r].row /\ s.count = run[r].count + 1 /\ s.left = run[r].left
      /\ s.channel = c /\ s.provider = run[r].provider
  BY <1>0 DEF Locals
<1>t. u \in Recipients /\ c \in Channels /\ run[r].count \in Nat
  BY <1>0 DEF Locals
<1>i. \A q \in Runs : q # r => ~Active(run[q])
  BY <1>0, OthersIdle DEF OnceInv
<1>k. Knows(run[r]) /\ Reported(run[r])
  BY DEF OnceInv, MailOnce, OwnReport
<1> HIDE DEF s
<1>2. \A q \in Runs : run'[q] = IF q = r THEN s ELSE run[q]
  BY <1>0, BecomeOf
<1>3. Solo'
  BY <1>0, <1>1, SoloStep DEF OnceInv
<1> DEFINE move(d) == IF d \in Found(run[r]) /\ d.pk = run[r].pk THEN [d EXCEPT !.status = "DELIVERED"] ELSE d
<1>m. ASSUME c = "EMail"
      PROVE  /\ reports' = {move(d) : d \in reports}
             /\ \A d \in reports : /\ move(d).user = d.user /\ move(d).channel = d.channel
                                   /\ move(d).provider = d.provider /\ move(d).pk = d.pk
                                   /\ move(d).status = (IF d \in Found(run[r]) /\ d.pk = run[r].pk
                                                        THEN "DELIVERED" ELSE d.status)
  <2>1. reports \subseteq Reports
    BY DEF TypeOK
  <2>2. \A d \in reports : d = [pk |-> d.pk, user |-> d.user, channel |-> d.channel,
                                provider |-> d.provider, status |-> d.status]
    BY <2>1 DEF Reports
  <2> QED
    BY <1>0, <1>m, <2>2 DEF Delivered
<1> HIDE DEF move
<1>g. \A v, i : Got(v, i)' <=> Got(v, i) \/ (c = "EMail" /\ v = u /\ i = run[r].provider)
  <2>1. CASE c = "EMail"
    <3>1. \E d \in Found(run[r]) : d.pk = run[r].pk
      BY <1>0, <1>k DEF Reported
    <3>3. \A d \in Found(run[r]) : d \in reports /\ d.user = u /\ d.channel = "EMail" /\ d.provider = run[r].provider
      BY <2>1 DEF Found
    <3>4. \E d \in reports' : /\ d.user = u /\ d.channel = "EMail" /\ d.provider = run[r].provider
                              /\ d.status = "DELIVERED"
      BY <1>m, <2>1, <3>1, <3>3
    <3>5. \A v, i : Got(v, i) => Got(v, i)'
      BY <1>m, <2>1 DEF Got
    <3>6. \A v, i : Got(v, i)' => Got(v, i) \/ (v = u /\ i = run[r].provider)
      BY <1>m, <2>1, <3>3 DEF Got
    <3>7. \A v, i : v = u /\ i = run[r].provider => Got(v, i)'
      BY <3>4 DEF Got
    <3> QED
      BY <2>1, <3>5, <3>6, <3>7
  <2>2. CASE c # "EMail"
    <3>1. reports' = reports
      BY <1>0, <2>2
    <3>2. \A v, i : Got(v, i)' <=> Got(v, i)
      BY <3>1 DEF Got
    <3> QED
      BY <2>2, <3>2
  <2> QED
    BY <2>1, <2>2
<1>5. OwnReport'
  <2>1. OneReport'
    <3>1. CASE c = "EMail"
      BY <1>m, <3>1 DEF OnceInv, OwnReport, OneReport
    <3>2. CASE c # "EMail"
      BY <1>0, <3>2 DEF OnceInv, OwnReport, OneReport
    <3> QED
      BY <3>1, <3>2
  <2>2. ASSUME NEW q \in Runs PROVE Reported(run[q])'
    <3>1. run'[q].at \notin {"call", "report", "confirm"}
      BY <1>1, <1>2, <1>i DEF Active
    <3> QED
      BY <3>1 DEF Reported
  <2> QED
    BY <2>1, <2>2 DEF OwnReport
<1>6. MailOnce'
  <2>1. ASSUME NEW q \in Runs PROVE Knows(run[q])'
    <3>1. run'[q].at \notin {"lookup", "call", "report", "confirm"} /\ kind' = kind
      BY <1>0, <1>1, <1>2, <1>i DEF Active
    <3>2. run'[q].at \in {"copy", "next"} =>
            run'[q].left \subseteq kind.to /\ run'[q].provider \in Providers(run'[q].channel)
      BY <1>0, <1>1, <1>2, <1>i, <1>k DEF Knows, Active
    <3> QED
      BY <3>1, <3>2 DEF Knows, Providers
  <2>2. Killed' = Killed
    BY <1>0, <1>1, <1>2 DEF Killed
  <2>3. \A v, q : q \in Runs => ~Holds(run'[q], v)
    BY <1>1, <1>2, <1>i DEF Holds, Active
  <2>4. \A v, q : q \in Runs /\ Holds(run[q], v) => c = "EMail" /\ v = u
    BY <1>i DEF Holds, Active
  <2>5. \A v \in Recipients \ kind.unreachable["EMail"] :
          handed'[v]["EMail"] <= Cardinality(Killed') + (IF Got(v, 1)' \/ \E q \in Runs : Holds(run'[q], v) THEN 1 ELSE 0)
    <3> SUFFICES ASSUME NEW v \in Recipients \ kind.unreachable["EMail"]
                 PROVE  handed[v]["EMail"] <= Cardinality(Killed) + (IF Got(v, 1)' THEN 1 ELSE 0)
      <4>1. handed' = handed /\ Cardinality(Killed') = Cardinality(Killed)
        BY <1>0, <2>2
      <4>2. \A v : ~\E q \in Runs : Holds(run'[q], v)
        BY <2>3
      <4> QED
        BY <4>1, <4>2
    <3>1. Cardinality(Killed) \in Nat /\ handed[v]["EMail"] \in Nat
      BY FS_CardinalityType DEF OnceInv, MailOnce, TypeOK, Channels
    <3>2. (Got(v, 1) \/ \E q \in Runs : Holds(run[q], v)) => Got(v, 1)'
      <4>1. ASSUME NEW q \in Runs, Holds(run[q], v) PROVE Got(v, 1)'
        <5>1. c = "EMail" /\ v = u
          BY <2>4, <4>1
        <5>2. MayMail(u, run[r].provider)
          BY <1>0, <1>k, <5>1 DEF Knows
        <5>3. run[r].provider = 1
          BY <5>1, <5>2 DEF MayMail
        <5> QED
          BY <1>g, <5>1, <5>3
      <4>2. Got(v, 1) => Got(v, 1)'
        BY <1>g
      <4> QED
        BY <4>1, <4>2
    <3>3. handed[v]["EMail"] <= Cardinality(Killed) + (IF Got(v, 1) \/ \E q \in Runs : Holds(run[q], v) THEN 1 ELSE 0)
      BY DEF OnceInv, MailOnce
    <3> QED
      BY <3>1, <3>2, <3>3
  <2>6. \A d \in reports' : d.channel = "EMail" => d.user \in kind'.to /\ MayMail(d.user, d.provider)'
    <3>1. CASE c = "EMail"
      BY <1>0, <1>m, <3>1 DEF OnceInv, MailOnce, MayMail
    <3>2. CASE c # "EMail"
      BY <1>0, <3>2 DEF OnceInv, MailOnce, MayMail
    <3> QED
      BY <3>1, <3>2
  <2> QED
    BY <1>0, <2>1, <2>2, <2>5, <2>6 DEF OnceInv, MailOnce
<1>7. ChargedOnce'
  <2> DEFINE n == Cardinality(GotMail)
  <2>1. /\ Cardinality(GotMail') = IF c = "EMail" THEN n + 1 ELSE n
        /\ n \in Nat /\ charged["EMail"] \in Nat
    <3>1. CASE c = "EMail"
      <4> DEFINE m == <<u, run[r].provider>>
      <4>1. GotMail' = GotMail \cup {m}
        <5>1. m \in Recipients \X Providers("EMail")
          BY <1>0, <1>k, <1>t, <3>1 DEF Knows
        <5> QED
          BY <1>g, <3>1, <5>1 DEF GotMail, Providers
      <4>2. m \notin GotMail
        BY <1>0, <1>k, <3>1 DEF Knows, GotMail
      <4> QED
        BY <3>1, <4>1, <4>2, GotMailIsFinite, FS_AddElement DEF TypeOK, Channels, OnceInv
    <3>2. CASE c # "EMail"
      <4>1. GotMail' = GotMail
        BY <1>g, <3>2 DEF GotMail, Providers
      <4> QED
        BY <3>2, <4>1, GotMailIsFinite DEF TypeOK, Channels, OnceInv
    <3> QED
      BY <3>1, <3>2
  <2>2. /\ charged["EMail"] <= n /\ (c = "EMail" => charged["EMail"] + run[r].count <= n)
        /\ \A q \in Runs : q # r => run[q].count = 0
    BY <1>i DEF OnceInv, ChargedOnce
  <2> HIDE DEF n
  <2>3. charged'["EMail"] <= Cardinality(GotMail')
    BY <1>0, <2>1, <2>2
  <2>4. ASSUME NEW q \in Runs, run'[q].channel = "EMail"
        PROVE  charged'["EMail"] + run'[q].count <= Cardinality(GotMail')
    <3>1. CASE q = r
      BY <1>0, <1>1, <1>2, <1>t, <2>1, <2>2, <2>4, <3>1
    <3>2. CASE q # r
      BY <1>0, <1>2, <2>1, <2>2, <2>4, <3>2
    <3> QED
      BY <3>1, <3>2
  <2>5. \A q \in Runs : (~Active(run'[q]) \/ run'[q].at = "license") => run'[q].count = 0
    BY <1>1, <1>2, <2>2 DEF Active
  <2> QED
    BY <2>3, <2>4, <2>5 DEF ChargedOnce
<1> QED
  BY <1>3, <1>5, <1>6, <1>7 DEF OnceInv

\* What T2 posts changes the status of a report of an SMS.
LEMMA CallbackOnce ==
    ASSUME TypeOK, OnceInv, NEW d \in reports, NEW delivered \in BOOLEAN, Callback(d, delivered)
    PROVE  OnceInv'
<1> DEFINE status == IF delivered THEN "DELIVERED" ELSE "NOT_DELIVERED"
           new == [d EXCEPT !.status = status]
<1>0. /\ UNCHANGED <<kind, row, charged, handed, run>> /\ d.channel = "SMS"
      /\ reports' = (reports \ {d}) \union {new}
  BY DEF Callback
<1>1. new.user = d.user /\ new.channel = d.channel /\ new.provider = d.provider /\ new.pk = d.pk
  BY DEF TypeOK, Reports
<1> HIDE DEF new
<1>2. \A e \in reports' : e.channel = "EMail" <=> e \in reports /\ e.channel = "EMail"
  BY <1>0, <1>1
<1>3. \A u, i : Got(u, i)' <=> Got(u, i)
  BY <1>0, <1>1 DEF Got
<1>m. \A u, i : MayMail(u, i)' <=> MayMail(u, i)
  BY <1>0 DEF MayMail
<1>4. \A t : Knows(t)' <=> Knows(t)
  BY <1>0, <1>3, <1>m DEF Knows, Providers
<1>5. OneReport'
  BY <1>0, <1>1 DEF OnceInv, OwnReport, OneReport
<1>6. \A t : Reported(t) => Reported(t)'
  <2>1. \A t : Found(t) = {} => Found(t)' = {}
    BY <1>0, <1>1 DEF Found
  <2>2. \A t : (\E e \in Found(t) : e.pk = t.pk) => \E e \in Found(t)' : e.pk = t.pk
    BY <1>0, <1>1 DEF Found
  <2> QED
    BY <2>1, <2>2 DEF Reported
<1>7. Solo'
  BY <1>0 DEF OnceInv, Solo, Resent
<1>8. OwnReport'
  BY <1>0, <1>5, <1>6 DEF OnceInv, OwnReport
<1>9. MailOnce'
  <2>1. Killed' = Killed
    BY <1>0 DEF Killed
  <2>2. \A r \in Runs : Knows(run[r])'
    BY <1>0, <1>4 DEF OnceInv, MailOnce
  <2> QED
    BY <1>0, <1>2, <1>3, <1>m, <2>1, <2>2 DEF OnceInv, MailOnce
<1>10. ChargedOnce'
  <2>1. GotMail' = GotMail
    BY <1>3 DEF GotMail, Providers
  <2> QED
    BY <1>0, <2>1 DEF OnceInv, ChargedOnce
<1> QED
  BY <1>7, <1>8, <1>9, <1>10 DEF OnceInv

\* Every step of runs that do not overlap keeps the invariant.
LEMMA NextOnceInv ==
    ASSUME TypeOK, Undisturbed, OnceInv, [Next]_vars
    PROVE  OnceInv'
<1>0. ~kind.overlap /\ ~kind.faulty
  BY DEF Undisturbed
<1>1. ASSUME NEW r \in Runs, NEW c \in Channels, Refuse(r, c) PROVE OnceInv'
  BY <1>1, FailOnce DEF Refuse
<1>2. ASSUME NEW r \in Runs, Rejected(r) PROVE OnceInv'
  BY <1>2, FailOverOnce DEF Rejected
<1>3. ASSUME NEW r \in Runs, Send(r) PROVE OnceInv'
  BY <1>0, <1>2, <1>3, CopyOnce, AllTriedOnce, LookupOnce, PickOnce, FallBackOnce, TakenOnce,
     CreateOnce, ConfirmOnce DEF Send, AnswerLost, ReportFails
<1>4. ASSUME NEW r \in Runs, MakeSend(r) PROVE OnceInv'
  BY <1>0, <1>1, <1>3, <1>4, StartOnce, SaveOnce, ChargeOnce, OpenOnce DEF MakeSend, ChargeFails
<1>5. CASE UNCHANGED vars
  BY <1>5 DEF vars, OnceInv, Solo, Resent, OwnReport, OneReport, Reported, Found, MailOnce, Knows, Got, MayMail,
              Killed, ChargedOnce, GotMail, Providers
<1> QED
  BY <1>4, <1>5, KillOnce, CallbackOnce DEF Next

\* Only a run that saves writes the row, and what it adds to is what it read:
\* the row, or for a late task the row of the request.
LEMMA SentStays ==
    ASSUME TypeOK, OnceInv, Next
    PROVE  row.sent \subseteq row'.sent \/ LateTask
<1>1. ASSUME NEW r \in Runs, MakeSend(r) PROVE row.sent \subseteq row'.sent \/ LateTask
  <2>1. Save(r) \/ row' = row
    BY <1>1 DEF MakeSend, Start, Charge, ChargeFails, Refuse, Open, Send, SenderCopy, AllTried, Lookup,
                Pick, FallBack, Accepted, Ignored, Rejected, AnswerLost, CreateReport, ReportFails, Confirm
  <2> QED
    BY <2>1, SaveOnce
<1> QED
  BY <1>1 DEF Next, Kill, Callback

LEMMA OnceInvImplies ==
    ASSUME TypeOK, OnceInv
    PROVE  OnceUndisturbed
<1> DEFINE Reachable == Recipients \ kind.unreachable["EMail"]
<1>1. \A u \in Reachable : handed[u]["EMail"] <= 1 + Cardinality(Killed)
  <2> SUFFICES ASSUME NEW u \in Reachable PROVE handed[u]["EMail"] <= 1 + Cardinality(Killed)
    OBVIOUS
  <2>1. Cardinality(Killed) \in Nat /\ handed[u]["EMail"] \in Nat
    BY FS_CardinalityType DEF OnceInv, MailOnce, TypeOK, Channels
  <2>2. handed[u]["EMail"] <= Cardinality(Killed) + (IF Got(u, 1) \/ \E q \in Runs : Holds(run[q], u) THEN 1 ELSE 0)
    BY DEF OnceInv, MailOnce
  <2> QED
    BY <2>1, <2>2
<1>2. charged["EMail"] <= Cardinality(Mails)
  BY GotMailIsFinite, MailsAreFinite DEF OnceInv, ChargedOnce, TypeOK, Channels
<1>3. OneReport
  BY DEF OnceInv, OwnReport
<1> QED
  BY <1>1, <1>2, <1>3 DEF OnceUndisturbed, Killed

\* When runs do not overlap and no database call or answer is lost: one run
\* at a time works on the row as it is, goes on with the only report there is,
\* and neither sends, nor counts, what a report shows as delivered.
THEOREM DeliveryOnceInvariant == Spec => [](Undisturbed => OnceInv)
<1>1. DeliveryInv => TypeOK
  BY DEF DeliveryInv
<1>2. Undisturbed' /\ [Next]_vars => Undisturbed
  <2>1. [Next]_vars => kind' = kind
    BY DEF Next, vars, MakeSend, Start, Save, Charge, ChargeFails, Refuse, Open, Send, SenderCopy, AllTried,
           Lookup, Pick, FallBack, Accepted, Ignored, Rejected, AnswerLost, CreateReport, ReportFails, Confirm,
           Kill, Callback
  <2> QED
    BY <2>1 DEF Undisturbed
<1>3. DeliveryInv /\ (Undisturbed => OnceInv) /\ [Next]_vars => (Undisturbed => OnceInv)'
  BY <1>1, <1>2, NextOnceInv
<1>4. Init => (Undisturbed => OnceInv)
  BY InitOnceInv
<1> QED
  BY <1>3, <1>4, DeliveryInvariant, PTL DEF Spec

\* _make_send and create_delivery_report: however often a notification is
\* resent, AwsSes is given a mail once per recipient, and once more per run
\* killed; it is charged once per recipient, and once per provider for one
\* without an address, and has one report.
THEOREM DeliveryOnceUndisturbed == Spec => []OnceUndisturbed
<1>1. DeliveryInv /\ (Undisturbed => OnceInv) => OnceUndisturbed
  BY OnceInvImplies DEF DeliveryInv, OnceUndisturbed
<1> QED
  BY <1>1, DeliveryInvariant, DeliveryOnceInvariant, PTL

\* make_send: a channel in sent_channels stays there, as a run merges what it
\* sent with the row it read, and no other run has written the row since; only
\* the task merges with the row as it was enqueued, and takes back what a
\* resend has saved before it starts.
THEOREM DeliverySentIsKept == Spec => SentIsKept
<1>1. DeliveryInv /\ (Undisturbed => OnceInv) /\ [Next]_vars
        => [Undisturbed => row.sent \subseteq row'.sent \/ LateTask]_vars
  BY SentStays DEF DeliveryInv
<1> QED
  BY <1>1, DeliveryInvariant, DeliveryOnceInvariant, PTL DEF Spec, SentIsKept

-----------------------------------------------------------------------------
(* The sums of the ledger.  SumFunction is a fold, whose recursive function   *)
(* is reasoned about by the size of the sets it is applied to.                *)

\* The element a fold takes out of a set first.
AnyOf(s) == CHOOSE x \in s : TRUE

\* it holds the sums of f over the subsets of S of up to n elements, as the
\* recursion of SumFunction defines them.
AddsUp(it, f, S, n) ==
    \A s \in SUBSET S : Cardinality(s) <= n =>
        it[s] = IF s = {} THEN 0 ELSE f[AnyOf(s)] + it[s \ {AnyOf(s)}]

\* Induction on the subsets of a finite set, without the one that is chosen.
LEMMA SubsetInduction ==
    ASSUME NEW S, IsFiniteSet(S), NEW Good, {} \in Good,
           \A s \in SUBSET S : s # {} /\ s \ {AnyOf(s)} \in Good => s \in Good
    PROVE  \A s \in SUBSET S : s \in Good
<1> SUFFICES ASSUME NEW bad \in SUBSET S, bad \notin Good PROVE FALSE
  OBVIOUS
<1> DEFINE Sizes == {n \in Nat : \E s \in SUBSET S : s \notin Good /\ Cardinality(s) = n}
<1>0. \A s \in SUBSET S : IsFiniteSet(s) /\ Cardinality(s) \in Nat
  BY FS_Subset, FS_CardinalityType
<1>1. Sizes # {} /\ Sizes \subseteq Nat
  BY <1>0
<1>2. PICK n \in Sizes : \A m \in Sizes : n <= m
  BY <1>1, LeastExists
<1>3. PICK s \in SUBSET S : s \notin Good /\ Cardinality(s) = n
  OBVIOUS
<1>4. s # {} /\ AnyOf(s) \in s
  <2>1. s # {}
    BY <1>3
  <2> QED
    BY <2>1 DEF AnyOf
<1>5. Cardinality(s \ {AnyOf(s)}) = n - 1
  BY <1>0, <1>3, <1>4, FS_RemoveElement
<1>6. s \ {AnyOf(s)} \in SUBSET S /\ n - 1 \in Nat
  BY <1>0, <1>4, <1>5
<1>7. s \ {AnyOf(s)} \in Good
  <2>1. n - 1 \notin Sizes
    BY <1>1, <1>2, <1>6
  <2> QED
    BY <2>1, <1>5, <1>6
<1> QED
  BY <1>3, <1>4, <1>7

\* it is the recursive function whose value at S is SumFunction(f).
SumsOf(it, f, S) ==
    it = [s \in SUBSET S |-> IF s = {} THEN 0 ELSE f[AnyOf(s)] + it[s \ {AnyOf(s)}]]

\* The recursion has a solution: one for the sets of n elements gives one for
\* the sets of one more.
LEMMA SumsExist ==
    ASSUME NEW S, IsFiniteSet(S), NEW f \in [S -> Nat]
    PROVE  \E it : SumsOf(it, f, S)
<1>0. \A s \in SUBSET S : IsFiniteSet(s) /\ Cardinality(s) \in Nat
  BY FS_Subset, FS_CardinalityType
<1>1. \A s \in SUBSET S : s # {} => /\ AnyOf(s) \in s
                                    /\ s \ {AnyOf(s)} \in SUBSET S
                                    /\ Cardinality(s \ {AnyOf(s)}) = Cardinality(s) - 1
  BY <1>0, FS_RemoveElement DEF AnyOf
<1>2. \A s \in SUBSET S : Cardinality(s) = 0 => s = {}
  BY <1>0, FS_EmptySet
<1> DEFINE Missing == {n \in Nat : ~ \E it \in [SUBSET S -> Nat] : AddsUp(it, f, S, n)}
<1>3. Missing = {}
  <2> SUFFICES ASSUME Missing # {} PROVE FALSE
    OBVIOUS
  <2>1. PICK n \in Missing : \A m \in Missing : n <= m
    BY LeastExists
  <2>2. 0 \notin Missing
    <3> DEFINE it == [s \in SUBSET S |-> 0]
    <3>1. AddsUp(it, f, S, 0)
      BY <1>0, <1>2 DEF AddsUp
    <3> QED
      BY <3>1
  <2>3. n - 1 \in Nat /\ n - 1 \notin Missing
    <3>1. Missing \subseteq Nat
      OBVIOUS
    <3> HIDE DEF Missing
    <3> QED
      BY <2>1, <2>2, <3>1
  <2>4. PICK it \in [SUBSET S -> Nat] : AddsUp(it, f, S, n - 1)
    BY <2>3
  <2> DEFINE next == [s \in SUBSET S |-> IF Cardinality(s) = n THEN f[AnyOf(s)] + it[s \ {AnyOf(s)}] ELSE it[s]]
  <2>5. next \in [SUBSET S -> Nat]
    <3>1. \A s \in SUBSET S : Cardinality(s) = n => s # {}
      BY <2>1, <2>2, FS_EmptySet
    <3> QED
      BY <1>1, <3>1
  <2>6. AddsUp(next, f, S, n)
    <3> SUFFICES ASSUME NEW s \in SUBSET S, Cardinality(s) <= n
                 PROVE  next[s] = IF s = {} THEN 0 ELSE f[AnyOf(s)] + next[s \ {AnyOf(s)}]
      BY DEF AddsUp
    <3>1. CASE s = {}
      <4>1. Cardinality(s) = 0 /\ Cardinality(s) # n
        BY <3>1, <2>1, <2>2, FS_EmptySet
      <4>2. it[s] = 0
        BY <2>3, <2>4, <3>1, <4>1 DEF AddsUp
      <4> QED
        BY <3>1, <4>1, <4>2
    <3>2. CASE s # {}
      <4>1. next[s \ {AnyOf(s)}] = it[s \ {AnyOf(s)}]
        BY <1>0, <1>1, <3>2
      <4>2. Cardinality(s) # n => it[s] = f[AnyOf(s)] + it[s \ {AnyOf(s)}]
        <5>1. Cardinality(s) # n => Cardinality(s) <= n - 1
          BY <1>0
        <5> QED
          BY <2>4, <3>2, <5>1 DEF AddsUp
      <4> QED
        BY <3>2, <4>1, <4>2
    <3> QED
      BY <3>1, <3>2
  <2> QED
    BY <2>1, <2>5, <2>6
<1>4. PICK it \in [SUBSET S -> Nat] : AddsUp(it, f, S, Cardinality(S))
  BY <1>0, <1>3
<1>5. \A s \in SUBSET S : Cardinality(s) <= Cardinality(S)
  BY FS_Subset
<1>6. \A s \in SUBSET S : it[s] = IF s = {} THEN 0 ELSE f[AnyOf(s)] + it[s \ {AnyOf(s)}]
  BY <1>4, <1>5 DEF AddsUp
<1>7. SumsOf(it, f, S)
  BY <1>4, <1>6 DEF SumsOf
<1> QED
  BY <1>7

\* SumFunction is defined by a CHOOSE of that function.
LEMMA SumAddsUp ==
    ASSUME NEW S, IsFiniteSet(S), NEW f \in [S -> Nat]
    PROVE  \E it : SumFunction(f) = it[S] /\ SumsOf(it, f, S)
<1> DEFINE it == CHOOSE h : SumsOf(h, f, S)
<1>1. SumsOf(it, f, S)
  BY SumsExist, Zenon
<1>2. SumFunction(f) = it[S]
  BY Zenon DEF SumFunction, SumFunctionOnSet, FoldFunctionOnSet, MapThenFoldSet, AnyOf, SumsOf
<1> QED
  BY <1>1, <1>2

LEMMA SumOfZeros ==
    ASSUME NEW S, IsFiniteSet(S), NEW f \in [S -> Nat], \A x \in S : f[x] = 0
    PROVE  SumFunction(f) = 0
<1>1. PICK it : SumFunction(f) = it[S] /\ SumsOf(it, f, S)
  BY SumAddsUp
<1> DEFINE Good == {s \in SUBSET S : it[s] = 0}
<1>2. \A s \in SUBSET S : it[s] = IF s = {} THEN 0 ELSE f[AnyOf(s)] + it[s \ {AnyOf(s)}]
  BY <1>1 DEF SumsOf
<1>3. {} \in Good
  BY <1>2
<1>4. ASSUME NEW s \in SUBSET S, s # {}, s \ {AnyOf(s)} \in Good PROVE s \in Good
  <2>1. AnyOf(s) \in s
    BY <1>4 DEF AnyOf
  <2> QED
    BY <2>1, <1>2, <1>4
<1> HIDE DEF Good
<1>5. S \in Good
  BY <1>3, <1>4, SubsetInduction
<1> QED
  BY <1>1, <1>5 DEF Good

\* The type of a sum.
LEMMA SumIsNat ==
    ASSUME NEW S, IsFiniteSet(S), NEW f \in [S -> Nat]
    PROVE  SumFunction(f) \in Nat
<1>1. PICK it : SumFunction(f) = it[S] /\ SumsOf(it, f, S)
  BY SumAddsUp
<1> DEFINE Good == {s \in SUBSET S : it[s] \in Nat}
<1>2. \A s \in SUBSET S : it[s] = IF s = {} THEN 0 ELSE f[AnyOf(s)] + it[s \ {AnyOf(s)}]
  BY <1>1 DEF SumsOf
<1>3. {} \in Good
  BY <1>2
<1>4. ASSUME NEW s \in SUBSET S, s # {}, s \ {AnyOf(s)} \in Good PROVE s \in Good
  <2>1. AnyOf(s) \in s
    BY <1>4 DEF AnyOf
  <2>2. f[AnyOf(s)] \in Nat /\ it[s \ {AnyOf(s)}] \in Nat
    BY <2>1, <1>4
  <2>3. it[s] = f[AnyOf(s)] + it[s \ {AnyOf(s)}]
    BY <1>2, <1>4
  <2> QED
    BY <2>2, <2>3
<1> HIDE DEF Good
<1>5. S \in Good
  BY <1>3, <1>4, SubsetInduction
<1> QED
  BY <1>1, <1>5 DEF Good

\* Two summands that differ at one place only: so do the sums.
LEMMA SumChanges ==
    ASSUME NEW S, IsFiniteSet(S), NEW f \in [S -> Nat], NEW g \in [S -> Nat],
           NEW x \in S, \A y \in S \ {x} : g[y] = f[y]
    PROVE  SumFunction(g) = SumFunction(f) + g[x] - f[x]
<1>1. PICK it : SumFunction(f) = it[S] /\ SumsOf(it, f, S)
  BY SumAddsUp
<1>2. PICK jt : SumFunction(g) = jt[S] /\ SumsOf(jt, g, S)
  BY SumAddsUp
<1> DEFINE Good == {s \in SUBSET S : it[s] \in Nat /\ jt[s] = it[s] + (IF x \in s THEN g[x] - f[x] ELSE 0)}
<1>3. \A s \in SUBSET S : it[s] = IF s = {} THEN 0 ELSE f[AnyOf(s)] + it[s \ {AnyOf(s)}]
  BY <1>1 DEF SumsOf
<1>4. \A s \in SUBSET S : jt[s] = IF s = {} THEN 0 ELSE g[AnyOf(s)] + jt[s \ {AnyOf(s)}]
  BY <1>2 DEF SumsOf
<1>5. {} \in Good
  <2>1. it[{}] = 0 /\ jt[{}] = 0
    BY <1>3, <1>4
  <2> QED
    BY <2>1
<1>6. ASSUME NEW s \in SUBSET S, s # {}, s \ {AnyOf(s)} \in Good PROVE s \in Good
  <2> DEFINE a == AnyOf(s)
  <2>1. a \in s /\ a \in S
    BY <1>6 DEF AnyOf
  <2>2. it[s] = f[a] + it[s \ {a}] /\ jt[s] = g[a] + jt[s \ {a}]
    BY <1>3, <1>4, <1>6
  <2>3. it[s \ {a}] \in Nat /\ jt[s \ {a}] = it[s \ {a}] + (IF x \in s \ {a} THEN g[x] - f[x] ELSE 0)
    BY <1>6
  <2> HIDE DEF a
  <2>4. f[a] \in Nat /\ g[a] \in Nat /\ f[x] \in Nat /\ g[x] \in Nat
    BY <2>1
  <2>5. CASE a = x
    BY <2>1, <2>2, <2>3, <2>4, <2>5
  <2>6. CASE a # x
    BY <2>1, <2>2, <2>3, <2>4, <2>6
  <2> QED
    BY <2>5, <2>6
<1> HIDE DEF Good
<1>7. S \in Good
  BY <1>5, <1>6, SubsetInduction
<1> QED
  BY <1>1, <1>2, <1>7 DEF Good

-----------------------------------------------------------------------------
(* The ledger: what is charged was taken *)

\* The products of the budget.
LEMMA ProductIsNat == ASSUME NEW a \in Nat, NEW b \in Nat PROVE a * b \in Nat
OBVIOUS

LEMMA ProductGrows ==
    ASSUME NEW a \in Nat, NEW b \in Nat, NEW c \in Nat, a <= b PROVE a * c <= b * c
OBVIOUS

LEMMA ProductOfLess ==
    ASSUME NEW a \in Nat, NEW c \in Nat PROVE (a - 1) * c = a * c - c
OBVIOUS

LEMMA ProductOfThree ==
    ASSUME NEW a \in Nat, NEW b \in Nat, NEW c \in Nat PROVE a * b * c = a * (b * c)
OBVIOUS

\* A channel is open: from the check of the license to the charge.
IsSending(s) == s.at \notin {"queued", "license", "done", "killed"}
\* It is at a recipient that is no longer left and not yet counted.
IsBusy(s) == s.at \in {"lookup", "call", "report", "confirm"}
\* The copies on a channel that were taken, or passed over in silence, and
\* that this run has yet to charge.
Held(s, c) ==
    IF s.channel = c THEN s.count + (IF s.at \in {"report", "confirm"} THEN 1 ELSE 0) ELSE 0
\* A run counts each recipient of its channel once.
Counts(s) ==
    /\ ~IsSending(s) => s.count = 0
    /\ s.left \subseteq kind.to
    /\ IsSending(s) =>
         s.count + Cardinality(s.left) + (IF IsBusy(s) THEN 1 ELSE 0) <= Cardinality(kind.to)
HeldNow(c) == [r \in Runs |-> Held(run[r], c)]
TakenNow(c) == [u \in Recipients |-> handed[u][c]]

\* The most a run may charge for one channel.
Dearest == IF Price["SMS"] > Price["EMail"] THEN Price["SMS"] ELSE Price["EMail"]
Worth == Cardinality(kind.to) * Dearest
Underway == {r \in Runs : IsSending(run[r])}

\* What is charged and what the runs hold to be charged was taken: with what
\* is charged alone the invariant would not survive a charge.
Backing ==
    \A c \in Channels :
        charged[c] + SumFunction(HeldNow(c)) <= SumFunction(TakenNow(c))
\* Once credit was used up no channel is opened any more: what is open may
\* still be charged.
Budget ==
    ~kind.system => \/ Used < 0
                    \/ Used = -kind.credit /\ Underway = {}
                    \/ Used + Cardinality(Underway) * Worth < Cardinality(Runs) * Worth
LedgerInv == (\A r \in Runs : Counts(run[r])) /\ Backing /\ Budget

\* The types of what the ledger is made of.
LEMMA LedgerTypes ==
    ASSUME IsFiniteSet(Runs), TypeOK
    PROVE  /\ Cardinality(kind.to) \in Nat /\ IsFiniteSet(kind.to)
           /\ Dearest \in Nat /\ \A c \in Channels : Price[c] \in Nat /\ Price[c] <= Dearest
           /\ Worth \in Nat /\ Used \in Int /\ kind.credit \in Nat
           /\ IsFiniteSet(Underway) /\ Cardinality(Underway) \in Nat /\ Cardinality(Runs) \in Nat
           /\ \A c \in Channels : HeldNow(c) \in [Runs -> Nat] /\ TakenNow(c) \in [Recipients -> Nat]
<1>1. kind.to \subseteq Recipients /\ kind.credit \in Nat /\ kind \in KindType
  BY ToIs, DeliveryAssumption DEF TypeOK, KindType
<1>2. IsFiniteSet(kind.to) /\ Cardinality(kind.to) \in Nat
  BY <1>1, DeliveryAssumption, FS_Subset, FS_CardinalityType
<1>3. Dearest \in Nat /\ \A c \in Channels : Price[c] \in Nat /\ Price[c] <= Dearest
  BY DeliveryAssumption DEF Dearest, Channels
<1>4. Worth \in Nat
  BY <1>2, <1>3, ProductIsNat DEF Worth
<1>5. Used \in Int
  <2>1. charged["EMail"] \in Nat /\ charged["SMS"] \in Nat /\ Price["EMail"] \in Nat /\ Price["SMS"] \in Nat
    BY <1>3 DEF TypeOK, Channels
  <2> QED
    BY <1>1, <2>1, ProductIsNat DEF Used
<1>6. IsFiniteSet(Underway) /\ Cardinality(Underway) \in Nat /\ Cardinality(Runs) \in Nat
  BY FS_Subset, FS_CardinalityType DEF Underway
<1>7. \A c \in Channels : HeldNow(c) \in [Runs -> Nat]
  BY RunIs DEF HeldNow, Held, Locals
<1>8. \A c \in Channels : TakenNow(c) \in [Recipients -> Nat]
  BY DEF TypeOK, TakenNow
<1> QED
  BY <1>1, <1>2, <1>3, <1>4, <1>5, <1>6, <1>7, <1>8

LEMMA InitLedgerInv == IsFiniteSet(Runs) /\ Init => LedgerInv
<1> SUFFICES ASSUME IsFiniteSet(Runs), Init PROVE LedgerInv
  OBVIOUS
<1>0. TypeOK /\ kind.credit \in Nat
  BY InitDeliveryInv, LedgerTypes DEF DeliveryInv
<1>1. /\ \A r \in Runs : run[r].at = "queued" /\ run[r].count = 0 /\ run[r].left = {} /\ run[r].channel = "EMail"
      /\ \A c \in Channels : charged[c] = 0
      /\ \A u \in Recipients, c \in Channels : handed[u][c] = 0
  BY DEF Init, Fresh
<1>2. \A r \in Runs : Counts(run[r])
  BY <1>1 DEF Counts, IsSending
<1>3. Backing
  <2> SUFFICES ASSUME NEW c \in Channels
               PROVE  charged[c] + SumFunction(HeldNow(c)) <= SumFunction(TakenNow(c))
    BY DEF Backing
  <2>1. HeldNow(c) \in [Runs -> Nat] /\ TakenNow(c) \in [Recipients -> Nat]
    BY <1>0, LedgerTypes
  <2>2. \A r \in Runs : HeldNow(c)[r] = 0
    BY <1>1 DEF HeldNow, Held
  <2>3. SumFunction(HeldNow(c)) = 0
    BY <2>1, <2>2, SumOfZeros
  <2>4. SumFunction(TakenNow(c)) \in Nat
    BY <2>1, DeliveryAssumption, SumIsNat
  <2> QED
    BY <1>1, <2>3, <2>4
<1>4. Budget
  <2>1. Underway = {}
    BY <1>1 DEF Underway, IsSending
  <2>2. Used = -kind.credit
    BY <1>0, <1>1, DeliveryAssumption DEF Used, Channels
  <2> QED
    BY <2>1, <2>2 DEF Budget
<1> QED
  BY <1>2, <1>3, <1>4 DEF LedgerInv

\* The runs under way after a step of one run.
LEMMA UnderwayStep ==
    ASSUME TypeOK, NEW r \in Runs, NEW s, Become(r, s), IsFiniteSet(Runs)
    PROVE  /\ IsSending(s) => Underway' = Underway \union {r}
           /\ ~IsSending(s) => Underway' = Underway \ {r}
           /\ (IsSending(s) => r \in Underway) => Cardinality(Underway') <= Cardinality(Underway)
           /\ ~IsSending(s) /\ r \in Underway => Cardinality(Underway') = Cardinality(Underway) - 1
           /\ Cardinality(Underway) <= Cardinality(Runs)
<1>1. \A q \in Runs : run'[q] = IF q = r THEN s ELSE run[q]
  BY BecomeOf
<1>2. IsSending(s) => Underway' = Underway \union {r}
  BY <1>1 DEF Underway, IsSending
<1>3. ~IsSending(s) => Underway' = Underway \ {r}
  BY <1>1 DEF Underway, IsSending
<1>4. IsFiniteSet(Underway) /\ Cardinality(Underway) \in Nat /\ Cardinality(Underway) <= Cardinality(Runs)
  BY FS_Subset, FS_CardinalityType DEF Underway
<1>5. r \in Underway => Cardinality(Underway \ {r}) = Cardinality(Underway) - 1
  BY <1>4, FS_RemoveElement
<1>6. r \notin Underway => Underway \ {r} = Underway
  OBVIOUS
<1>7. r \in Underway => Underway \union {r} = Underway
  OBVIOUS
<1> QED
  BY <1>2, <1>3, <1>4, <1>5, <1>6, <1>7

\* A step of a run that neither takes nor charges more than it held.
LEMMA BackingStep ==
    ASSUME TypeOK, TypeOK', IsFiniteSet(Runs), Backing, NEW r \in Runs, NEW s, Become(r, s), kind' = kind,
           \A c \in Channels :
               charged'[c] + Held(s, c) + SumFunction(TakenNow(c))
                 <= charged[c] + Held(run[r], c) + SumFunction(TakenNow(c)')
    PROVE  Backing'
<1> SUFFICES ASSUME NEW c \in Channels
             PROVE  charged'[c] + SumFunction(HeldNow(c)') <= SumFunction(TakenNow(c)')
  BY DEF Backing
<1>1. \A q \in Runs : run'[q] = IF q = r THEN s ELSE run[q]
  BY BecomeOf
<1>2. HeldNow(c) \in [Runs -> Nat] /\ HeldNow(c)' \in [Runs -> Nat]
  BY RunIs, RunIs, <1>1 DEF HeldNow, Held, TypeOK, Locals
<1>3. HeldNow(c)[r] = Held(run[r], c) /\ HeldNow(c)'[r] = Held(s, c)
  BY <1>1 DEF HeldNow, Held
<1>4. \A q \in Runs \ {r} : HeldNow(c)'[q] = HeldNow(c)[q]
  BY <1>1 DEF HeldNow, Held
<1>5. SumFunction(HeldNow(c)') = SumFunction(HeldNow(c)) + Held(s, c) - Held(run[r], c)
  <2> DEFINE f == HeldNow(c)  g == HeldNow(c)'
  <2> HIDE DEF f, g
  <2>1. f \in [Runs -> Nat] /\ g \in [Runs -> Nat] /\ \A q \in Runs \ {r} : g[q] = f[q]
    BY <1>2, <1>4 DEF f, g
  <2>2. SumFunction(g) = SumFunction(f) + g[r] - f[r]
    BY <2>1, SumChanges
  <2> QED
    BY <1>3, <2>2 DEF f, g
<1>6. /\ SumFunction(HeldNow(c)) \in Nat /\ Held(s, c) \in Nat /\ Held(run[r], c) \in Nat
      /\ charged[c] \in Nat /\ charged'[c] \in Nat
  BY <1>2, <1>3, SumIsNat DEF TypeOK
<1>7. SumFunction(TakenNow(c)) \in Nat /\ SumFunction(TakenNow(c)') \in Nat
  <2>1. TakenNow(c) \in [Recipients -> Nat] /\ TakenNow(c)' \in [Recipients -> Nat]
    BY DEF TypeOK, TakenNow
  <2> QED
    BY <2>1, SumIsNat, DeliveryAssumption
<1>8. charged[c] + SumFunction(HeldNow(c)) <= SumFunction(TakenNow(c))
  BY DEF Backing
<1> QED
  BY <1>5, <1>6, <1>7, <1>8

\* A step without a charge keeps the budget, if a run opens a channel only
\* while there is credit.
LEMMA BudgetStep ==
    ASSUME TypeOK, TypeOK', IsFiniteSet(Runs), Budget, NEW r \in Runs, NEW s, Become(r, s), kind' = kind,
           charged' = charged, IsSending(s) /\ ~kind.system => IsSending(run[r]) \/ Used < 0
    PROVE  Budget'
<1>1. Used' = Used /\ Worth' = Worth
  BY DEF Used, Worth
<1> SUFFICES ASSUME ~kind.system, ~(Used < 0)
             PROVE  \/ Used = -kind.credit /\ Underway' = {}
                    \/ Used + Cardinality(Underway') * Worth < Cardinality(Runs) * Worth
  BY <1>1 DEF Budget
<1>2. IsSending(s) => r \in Underway
  BY DEF Underway
<1>3. /\ IsSending(s) => Underway' = Underway \union {r}
      /\ ~IsSending(s) => Underway' = Underway \ {r}
      /\ Cardinality(Underway') <= Cardinality(Underway)
  BY <1>2, UnderwayStep
<1>4. CASE Used = -kind.credit /\ Underway = {}
  BY <1>2, <1>3, <1>4
<1>5. CASE Used + Cardinality(Underway) * Worth < Cardinality(Runs) * Worth
  <2> DEFINE k == Cardinality(Underway)  n == Cardinality(Underway')  m == Cardinality(Runs)
  <2>1. k \in Nat /\ n \in Nat /\ m \in Nat /\ Worth \in Nat /\ Used \in Int
    <3>1. Cardinality(Underway') \in Nat
      BY <1>3, LedgerTypes, FS_RemoveElement, FS_AddElement, FS_CardinalityType
    <3> QED
      BY <3>1, LedgerTypes
  <2>2. n <= k /\ Used + k * Worth < m * Worth
    BY <1>3, <1>5
  <2> HIDE DEF k, n, m
  <2>3. n * Worth <= k * Worth
    BY <2>1, <2>2, ProductGrows
  <2>4. n * Worth \in Int /\ k * Worth \in Int /\ m * Worth \in Int
    BY <2>1, ProductIsNat
  <2>5. Used + n * Worth < m * Worth
    BY <2>1, <2>2, <2>3, <2>4
  <2> QED
    BY <2>5 DEF n, m
<1> QED
  BY <1>4, <1>5 DEF Budget

LEMMA CountsStep ==
    ASSUME TypeOK, \A q \in Runs : Counts(run[q]), NEW r \in Runs, NEW s, Become(r, s), kind' = kind, Counts(s)
    PROVE  \A q \in Runs : Counts(run[q])'
<1>1. \A q \in Runs : run'[q] = IF q = r THEN s ELSE run[q]
  BY BecomeOf
<1> QED
  BY <1>1 DEF Counts

\* A step of a run that charges nothing, and is given nothing it holds.
LEMMA StillLedger ==
    ASSUME TypeOK, TypeOK', IsFiniteSet(Runs), LedgerInv, NEW r \in Runs, NEW s \in Locals, Become(r, s),
           UNCHANGED <<kind, charged, handed>>, Counts(s),
           \A c \in Channels : Held(s, c) <= Held(run[r], c),
           IsSending(s) /\ ~kind.system => IsSending(run[r]) \/ Used < 0
    PROVE  LedgerInv'
<1>1. \A q \in Runs : Counts(run[q])'
  BY CountsStep DEF LedgerInv
<1>2. Backing'
  <2>1. \A c \in Channels : TakenNow(c)' = TakenNow(c)
    BY DEF TakenNow
  <2>2. ASSUME NEW c \in Channels
        PROVE  /\ SumFunction(TakenNow(c)) \in Nat /\ charged[c] \in Nat
               /\ Held(s, c) \in Nat /\ Held(run[r], c) \in Nat
    BY SumIsNat, LedgerTypes, RunIs, DeliveryAssumption DEF Held, Locals, TypeOK
  <2>3. ASSUME NEW c \in Channels
        PROVE  charged'[c] + Held(s, c) + SumFunction(TakenNow(c))
                 <= charged[c] + Held(run[r], c) + SumFunction(TakenNow(c)')
    BY <2>1, <2>2
  <2> QED
    BY <2>3, BackingStep DEF LedgerInv
<1>3. Budget'
  BY BudgetStep DEF LedgerInv
<1> QED
  BY <1>1, <1>2, <1>3 DEF LedgerInv

\* A step in which the provider takes the message of a run.
LEMMA TakeLedger ==
    ASSUME TypeOK, TypeOK', IsFiniteSet(Runs), LedgerInv, NEW r \in Runs, NEW s \in Locals, Become(r, s),
           UNCHANGED <<kind, charged>>, Take(run[r]), Counts(s), IsSending(run[r]),
           \A c \in Channels : Held(s, c) <= Held(run[r], c) + (IF run[r].channel = c THEN 1 ELSE 0)
    PROVE  LedgerInv'
<1>1. \A q \in Runs : Counts(run[q])'
  BY CountsStep DEF LedgerInv
<1>2. Backing'
  <2> DEFINE u == run[r].user
  <2>0. u \in Recipients /\ run[r].channel \in Channels
    BY RunIs DEF Locals
  <2>1. ASSUME NEW c \in Channels
        PROVE  SumFunction(TakenNow(c)') = SumFunction(TakenNow(c)) + (IF run[r].channel = c THEN 1 ELSE 0)
    <3> DEFINE f == TakenNow(c)  g == TakenNow(c)'
    <3>1. f \in [Recipients -> Nat] /\ g \in [Recipients -> Nat]
      BY DEF TypeOK, TakenNow
    <3>2. \A v \in Recipients \ {u} : g[v] = f[v]
      BY <2>0 DEF Take, TakenNow, TypeOK
    <3>3. g[u] = f[u] + (IF run[r].channel = c THEN 1 ELSE 0)
      BY <2>0 DEF Take, TakenNow, TypeOK
    <3> HIDE DEF f, g
    <3>4. SumFunction(g) = SumFunction(f) + g[u] - f[u]
      BY <2>0, <3>1, <3>2, SumChanges, DeliveryAssumption
    <3>5. SumFunction(f) \in Nat /\ f[u] \in Nat /\ g[u] \in Nat
      BY <2>0, <3>1, SumIsNat, DeliveryAssumption
    <3>6. SumFunction(g) = SumFunction(f) + (IF run[r].channel = c THEN 1 ELSE 0)
      BY <3>3, <3>4, <3>5
    <3> QED
      BY <3>6 DEF f, g
  <2>2. ASSUME NEW c \in Channels
        PROVE  /\ SumFunction(TakenNow(c)) \in Nat /\ charged[c] \in Nat
               /\ Held(s, c) \in Nat /\ Held(run[r], c) \in Nat
    BY SumIsNat, LedgerTypes, RunIs, DeliveryAssumption DEF Held, Locals, TypeOK
  <2>3. ASSUME NEW c \in Channels
        PROVE  charged'[c] + Held(s, c) + SumFunction(TakenNow(c))
                 <= charged[c] + Held(run[r], c) + SumFunction(TakenNow(c)')
    BY <2>1, <2>2
  <2> QED
    BY <2>3, BackingStep DEF LedgerInv
<1>3. Budget'
  BY BudgetStep DEF LedgerInv
<1> QED
  BY <1>1, <1>2, <1>3 DEF LedgerInv

\* A charge moves what a run held to what is charged.
LEMMA ChargeLedger ==
    ASSUME DeliveryInv, TypeOK', IsFiniteSet(Runs), LedgerInv, NEW r \in Runs, Charge(r)
    PROVE  LedgerInv'
<1> DEFINE s == run[r]  c == s.channel  t == run'[r]
<1>0. TypeOK /\ s \in Locals /\ c \in Channels /\ s.count \in Nat /\ s.at = "charge"
  BY RunIs DEF DeliveryInv, Locals, Charge
<1>1. /\ Become(r, t) /\ t.at = "license" /\ t.count = 0 /\ t.left = {} /\ t.channel = "EMail"
  <2> DEFINE sent == [Closed(s) EXCEPT !.at = "license", !.todo = @ \ {c}, !.sent = @ \union {c}]
  <2>1. Become(r, sent) \/ Become(r, Fail(s, c))
    BY DEF Charge
  <2>2. Closed(s) \in Locals /\ Closed(s).count = 0 /\ Closed(s).left = {} /\ Closed(s).channel = "EMail"
    BY <1>0, ClosedType DEF Closed, Locals
  <2>3. /\ sent.at = "license" /\ sent.count = 0 /\ sent.left = {} /\ sent.channel = "EMail"
    BY <2>2 DEF Locals
  <2>4. /\ Fail(s, c).at = "license" /\ Fail(s, c).count = 0 /\ Fail(s, c).left = {} /\ Fail(s, c).channel = "EMail"
    BY <2>2 DEF Locals, Fail
  <2> HIDE DEF sent, s, c
  <2> QED
    BY <1>0, <2>1, <2>3, <2>4 DEF Become, TypeOK
<1>2. /\ kind' = kind /\ handed' = handed
      /\ charged' = [charged EXCEPT ![c] = @ + s.count]
  BY DEF Charge, Amount
<1> HIDE DEF s, c, t
<1>3. ~IsSending(t) /\ Counts(t) /\ IsSending(s)
  BY <1>0, <1>1 DEF IsSending, Counts
<1>4. \A q \in Runs : Counts(run[q])'
  BY <1>0, <1>1, <1>2, <1>3, CountsStep DEF LedgerInv
<1>5. \A d \in Channels : charged'[d] = charged[d] + (IF d = c THEN s.count ELSE 0)
  BY <1>0, <1>2 DEF TypeOK
<1>6. Backing'
  <2>1. \A d \in Channels : TakenNow(d)' = TakenNow(d)
    BY <1>2 DEF TakenNow
  <2>2. \A d \in Channels : Held(t, d) = 0 /\ Held(s, d) = (IF d = c THEN s.count ELSE 0)
    BY <1>0, <1>1 DEF Held, c
  <2>3. ASSUME NEW d \in Channels PROVE SumFunction(TakenNow(d)) \in Nat /\ charged[d] \in Nat
    BY <1>0, SumIsNat, LedgerTypes, DeliveryAssumption DEF TypeOK
  <2>4. ASSUME NEW d \in Channels
        PROVE  charged'[d] + Held(t, d) + SumFunction(TakenNow(d))
                 <= charged[d] + Held(s, d) + SumFunction(TakenNow(d)')
    BY <1>0, <1>5, <2>1, <2>2, <2>3
  <2> QED
    BY <1>0, <1>1, <1>2, <2>4, BackingStep DEF LedgerInv, s
<1>7. Budget'
  <2> SUFFICES ASSUME ~kind.system
               PROVE  \/ Used' < 0
                      \/ Used' + Cardinality(Underway') * Worth < Cardinality(Runs) * Worth
    BY <1>2 DEF Budget, Worth
  <2>0. r \in Underway
    BY <1>3 DEF Underway, s
  <2>1. Used' <= Used + Worth /\ Used' \in Int
    <3>1. /\ Price["EMail"] \in Nat /\ Price["SMS"] \in Nat /\ Dearest \in Nat /\ kind.credit \in Nat
          /\ Price["EMail"] <= Dearest /\ Price["SMS"] <= Dearest /\ Cardinality(kind.to) \in Nat
      BY <1>0, LedgerTypes DEF Channels
    <3>2. s.count <= Cardinality(kind.to)
      <4>1. Counts(s)
        BY DEF LedgerInv, s
      <4>2. IsFiniteSet(s.left) /\ Cardinality(s.left) \in Nat
        BY <1>0, <4>1, LedgerTypes, FS_Subset, FS_CardinalityType DEF Counts
      <4> QED
        BY <1>0, <1>3, <3>1, <4>1, <4>2 DEF Counts
    <3>3. ASSUME NEW p \in Nat, p <= Dearest PROVE p * s.count <= Worth
      <4>1. p * s.count <= Dearest * s.count
        BY <1>0, <3>1, <3>3, ProductGrows
      <4>2. s.count * Dearest <= Cardinality(kind.to) * Dearest
        BY <1>0, <3>1, <3>2, ProductGrows
      <4>3. Dearest * s.count = s.count * Dearest /\ p * s.count \in Nat /\ s.count * Dearest \in Nat
        BY <1>0, <3>1, ProductIsNat
      <4> QED
        BY <1>0, <3>1, <4>1, <4>2, <4>3, ProductIsNat DEF Worth
    <3>4. /\ charged["EMail"] \in Nat /\ charged["SMS"] \in Nat
          /\ charged'["EMail"] \in Nat /\ charged'["SMS"] \in Nat
      BY <1>0 DEF TypeOK, Channels
    <3>5. ASSUME NEW p \in Nat, NEW a \in Nat, NEW b \in Nat PROVE p * (a + b) = p * a + p * b
      OBVIOUS
    <3> DEFINE e == Price["EMail"] * charged["EMail"]
               m == Price["SMS"] * charged["SMS"]
    <3>x. e \in Nat /\ m \in Nat /\ Used = e + m - kind.credit /\ Worth \in Nat
      BY <1>0, <3>1, <3>4, ProductIsNat, LedgerTypes DEF Used
    <3>6. CASE c = "EMail"
      <4>1. charged'["EMail"] = charged["EMail"] + s.count /\ charged'["SMS"] = charged["SMS"]
        BY <1>0, <1>5, <3>4, <3>6 DEF Channels
      <4> DEFINE x == Price["EMail"] * s.count
      <4>2. Price["EMail"] * charged'["EMail"] = e + x
        BY <1>0, <3>1, <3>4, <3>5, <4>1
      <4>3. x \in Nat /\ x <= Worth
        BY <1>0, <3>1, <3>3, ProductIsNat
      <4>4. Used' = e + m + x - kind.credit
        <5>1. Price["SMS"] * charged'["SMS"] = m
          BY <4>1
        <5>2. Used' = Price["EMail"] * charged'["EMail"] + Price["SMS"] * charged'["SMS"] - kind.credit
          BY <1>2 DEF Used
        <5> HIDE DEF e, m, x
        <5> QED
          BY <3>1, <3>x, <4>2, <4>3, <5>1, <5>2
      <4> HIDE DEF e, m, x
      <4> QED
        BY <3>1, <3>x, <4>3, <4>4
    <3>7. CASE c = "SMS"
      <4>1. charged'["SMS"] = charged["SMS"] + s.count /\ charged'["EMail"] = charged["EMail"]
        BY <1>0, <1>5, <3>4, <3>7 DEF Channels
      <4> DEFINE x == Price["SMS"] * s.count
      <4>2. Price["SMS"] * charged'["SMS"] = m + x
        BY <1>0, <3>1, <3>4, <3>5, <4>1
      <4>3. x \in Nat /\ x <= Worth
        BY <1>0, <3>1, <3>3, ProductIsNat
      <4>4. Used' = e + m + x - kind.credit
        <5>1. Price["EMail"] * charged'["EMail"] = e
          BY <4>1
        <5>2. Used' = Price["EMail"] * charged'["EMail"] + Price["SMS"] * charged'["SMS"] - kind.credit
          BY <1>2 DEF Used
        <5> HIDE DEF e, m, x
        <5> QED
          BY <3>1, <3>x, <4>2, <4>3, <5>1, <5>2
      <4> HIDE DEF e, m, x
      <4> QED
        BY <3>1, <3>x, <4>3, <4>4
    <3> QED
      BY <1>0, <3>6, <3>7 DEF Channels
  <2> DEFINE k == Cardinality(Underway)  n == Cardinality(Underway')  m == Cardinality(Runs)
  <2>2. n = k - 1 /\ k <= m /\ k \in Nat /\ m \in Nat /\ Worth \in Nat /\ Used \in Int
    BY <1>0, <1>1, <1>3, <2>0, UnderwayStep, LedgerTypes
  <2>3. k # 0
    BY <1>0, <2>0, LedgerTypes, FS_EmptySet
  <2>4. Used < 0 \/ Used + k * Worth < m * Worth
    BY <2>0 DEF LedgerInv, Budget
  <2> HIDE DEF k, n, m
  <2>5. n * Worth = k * Worth - Worth /\ k * Worth <= m * Worth /\ k * Worth \in Nat /\ m * Worth \in Nat
    BY <2>2, ProductOfLess, ProductGrows, ProductIsNat
  <2>6. Used' + n * Worth < m * Worth
    <3> DEFINE kw == k * Worth  mw == m * Worth
    <3>1. n * Worth = kw - Worth /\ kw <= mw /\ kw \in Nat /\ mw \in Nat /\ (Used < 0 \/ Used + kw < mw)
      BY <2>4, <2>5
    <3> HIDE DEF kw, mw
    <3>3. ASSUME NEW u \in Int, NEW v \in Int, NEW a \in Nat, NEW b \in Nat, NEW w \in Nat,
                 v <= u + w, a <= b, u < 0 \/ u + a < b
          PROVE  v + (a - w) < b
      BY <3>3
    <3>2. Used' + (kw - Worth) < mw
      BY <2>1, <2>2, <3>1, <3>3
    <3> QED
      BY <3>1, <3>2 DEF mw
  <2> QED
    BY <2>6 DEF n, m
<1> QED
  BY <1>4, <1>6, <1>7 DEF LedgerInv

\* What keeps the count of a run.
LEMMA CountsAlike ==
    ASSUME NEW s, NEW t, Counts(s), t.left = s.left, t.count = s.count,
           IsSending(s), IsSending(t), IsBusy(t) => IsBusy(s),
           Cardinality(kind.to) \in Nat, Cardinality(s.left) \in Nat, s.count \in Nat
    PROVE  Counts(t)
BY DEF Counts

LEMMA FailCounts ==
    ASSUME NEW s \in Locals, NEW c
    PROVE  Counts(Fail(s, c)) /\ ~IsSending(Fail(s, c)) /\ \A d : Held(Fail(s, c), d) = 0
<1>1. Fail(s, c).at = "license" /\ Fail(s, c).count = 0 /\ Fail(s, c).left = {}
  BY DEF Fail, Closed, Locals
<1> QED
  BY <1>1 DEF Counts, IsSending, Held

LEMMA FreshCounts ==
    ASSUME NEW a \in {"done", "killed"}
    PROVE  LET t == [Fresh EXCEPT !.at = a]
           IN  Counts(t) /\ ~IsSending(t) /\ \A d : Held(t, d) = 0
BY DEF Fresh, Counts, IsSending, Held

\* Every step of Delivery keeps it.
LEMMA NextLedgerInv ==
    ASSUME DeliveryInv, TypeOK', IsFiniteSet(Runs), LedgerInv, [Next]_vars
    PROVE  LedgerInv'
<1>0. /\ TypeOK
      /\ \A r \in Runs : /\ run[r] \in Locals /\ Counts(run[r]) /\ Backed(run[r])
                         /\ run[r].channel \in Channels /\ run[r].count \in Nat
                         /\ IsFiniteSet(run[r].left) /\ Cardinality(run[r].left) \in Nat
      /\ Cardinality(kind.to) \in Nat /\ IsFiniteSet(kind.to)
  <2>1. TypeOK /\ \A r \in Runs : run[r] \in Locals /\ Counts(run[r]) /\ Backed(run[r])
    BY RunIs DEF DeliveryInv, LedgerInv
  <2>2. Cardinality(kind.to) \in Nat /\ IsFiniteSet(kind.to)
    BY <2>1, LedgerTypes
  <2>3. \A r \in Runs : run[r].left \subseteq kind.to
    BY <2>1 DEF Counts
  <2>4. \A r \in Runs : IsFiniteSet(run[r].left) /\ Cardinality(run[r].left) \in Nat
    BY <2>2, <2>3, FS_Subset, FS_CardinalityType
  <2>5. \A r \in Runs : run[r].channel \in Channels /\ run[r].count \in Nat
    BY <2>1 DEF Locals
  <2> QED
    BY <2>1, <2>2, <2>4, <2>5
<1>1. ASSUME NEW r \in Runs, Start(r) PROVE LedgerInv'
  <2> DEFINE t == run'[r]
  <2>1. Become(r, t) /\ t.at = "license" /\ t.count = run[r].count /\ t.left = run[r].left /\ t.channel = run[r].channel
    BY <1>0, <1>1 DEF Start, Become, TypeOK, Locals
  <2>2. run[r].at = "queued" /\ UNCHANGED <<kind, charged, handed>>
    BY <1>1 DEF Start
  <2>3. t \in Locals
    BY DEF TypeOK
  <2> HIDE DEF t
  <2>4. Counts(t) /\ ~IsSending(t) /\ \A c \in Channels : Held(t, c) <= Held(run[r], c)
    BY <1>0, <2>1, <2>2 DEF Counts, IsSending, Held
  <2> QED
    BY <1>0, <2>1, <2>2, <2>3, <2>4, StillLedger
<1>2. ASSUME NEW r \in Runs, NEW c \in Channels, Refuse(r, c) PROVE LedgerInv'
  <2>1. Fail(run[r], c) \in Locals
    BY <1>0, FailType
  <2>2. \A d \in Channels : Held(run[r], d) \in Nat
    BY <1>0 DEF Held
  <2>3. \A d \in Channels : Held(Fail(run[r], c), d) <= Held(run[r], d)
    BY <1>0, <2>2, FailCounts
  <2> QED
    BY <1>0, <1>2, <2>1, <2>3, FailCounts, StillLedger DEF Refuse
<1>3. ASSUME NEW r \in Runs, NEW c \in Channels, Open(r, c) PROVE LedgerInv'
  <2> DEFINE t == run'[r]
  <2>1. /\ Become(r, t) /\ t.at \in {"copy", "next"} /\ t.count = 0 /\ t.left = kind.to /\ t.channel = c
        /\ UNCHANGED <<kind, charged, handed>> /\ ~Consumed(r)
    BY <1>0, <1>3 DEF Open, Become, TypeOK, Locals
  <2>2. t \in Locals
    BY DEF TypeOK
  <2> HIDE DEF t
  <2>3. Counts(t) /\ \A d \in Channels : Held(t, d) <= Held(run[r], d)
    BY <1>0, <2>1 DEF Counts, IsBusy, Held
  <2>4. ~kind.system => Used < 0
    BY <1>0, <2>1, LedgerTypes DEF Consumed
  <2> QED
    BY <1>0, <2>1, <2>2, <2>3, <2>4, StillLedger
<1>f. ASSUME NEW r \in Runs, Become(r, Fail(run[r], run[r].channel)), UNCHANGED <<kind, charged, handed>>
      PROVE  LedgerInv'
  <2>1. Fail(run[r], run[r].channel) \in Locals
    BY <1>0, FailType
  <2>2. \A d \in Channels : Held(run[r], d) \in Nat
    BY <1>0 DEF Held
  <2>3. \A d \in Channels : Held(Fail(run[r], run[r].channel), d) <= Held(run[r], d)
    BY <1>0, <2>2, FailCounts
  <2> QED
    BY <1>0, <1>f, <2>1, <2>3, FailCounts, StillLedger
<1>n. ASSUME NEW r \in Runs, NEW t \in Locals, Become(r, t), UNCHANGED <<kind, charged, handed>>,
             IsSending(run[r]), IsSending(t), t.left = run[r].left, t.count = run[r].count, t.channel = run[r].channel,
             IsBusy(t) => IsBusy(run[r]), t.at \in {"report", "confirm"} => run[r].at \in {"report", "confirm"}
      PROVE  LedgerInv'
  <2>1. Counts(t)
    BY <1>0, <1>n, CountsAlike
  <2>2. \A d \in Channels : Held(t, d) <= Held(run[r], d)
    BY <1>0, <1>n DEF Held
  <2> QED
    BY <1>0, <1>n, <2>1, <2>2, StillLedger
<1>4. ASSUME NEW r \in Runs, SenderCopy(r) PROVE LedgerInv'
  <2>1. CASE Become(r, [run[r] EXCEPT !.at = "next"])
    <3> DEFINE t == [run[r] EXCEPT !.at = "next"]
    <3>1. t.at = "next" /\ t.left = run[r].left /\ t.count = run[r].count /\ t.channel = run[r].channel /\ t \in Locals
      BY <1>0 DEF Locals, Places
    <3> QED
      BY <1>4, <2>1, <3>1, <1>n DEF SenderCopy, IsSending, IsBusy
  <2> QED
    BY <1>4, <1>f, <2>1 DEF SenderCopy
<1>5. ASSUME NEW r \in Runs, Charge(r) PROVE LedgerInv'
  BY <1>5, ChargeLedger
<1>6. ASSUME NEW r \in Runs, ChargeFails(r) PROVE LedgerInv'
  BY <1>6, <1>f DEF ChargeFails
<1>e. ASSUME NEW r \in Runs, NEW a \in {"done", "killed"}, Become(r, [Fresh EXCEPT !.at = a]),
             UNCHANGED <<kind, charged, handed>>
      PROVE  LedgerInv'
  <2> DEFINE t == [Fresh EXCEPT !.at = a]
  <2>1. t \in Locals
    BY FreshType DEF Locals, Places
  <2>2. \A d \in Channels : Held(t, d) <= Held(run[r], d)
    BY <1>0, FreshCounts DEF Held
  <2> QED
    BY <1>0, <1>e, <2>1, <2>2, FreshCounts, StillLedger
<1>7. ASSUME NEW r \in Runs, Save(r) PROVE LedgerInv'
  BY <1>7, <1>e DEF Save
<1>8. ASSUME NEW r \in Runs, Kill(r) PROVE LedgerInv'
  BY <1>8, <1>e DEF Kill
<1>9. ASSUME NEW r \in Runs, NEW u \in Recipients, Pick(r, u) PROVE LedgerInv'
  <2> DEFINE t == run'[r]
  <2>1. /\ Become(r, t) /\ t.at = "lookup" /\ t.left = run[r].left \ {u} /\ t.count = run[r].count
        /\ t.channel = run[r].channel /\ run[r].at = "next" /\ u \in run[r].left
        /\ UNCHANGED <<kind, charged, handed>>
    BY <1>0, <1>9 DEF Pick, Become, TypeOK, Locals
  <2>2. t \in Locals
    BY DEF TypeOK
  <2> HIDE DEF t
  <2>3. Cardinality(run[r].left \ {u}) = Cardinality(run[r].left) - 1
    BY <1>0, <2>1, FS_RemoveElement
  <2>4. Counts(t) /\ IsSending(run[r]) /\ \A d \in Channels : Held(t, d) <= Held(run[r], d)
    BY <1>0, <2>1, <2>3 DEF Counts, IsSending, IsBusy, Held
  <2> QED
    BY <1>0, <2>1, <2>2, <2>4, StillLedger
<1>10. ASSUME NEW r \in Runs, NEW u \in Recipients, FallBack(r, u) PROVE LedgerInv'
  <2> DEFINE t == run'[r]
  <2>1. /\ Become(r, t) /\ t.at = "next" /\ t.left = run[r].left \ {u} /\ t.count = run[r].count
        /\ t.channel = run[r].channel /\ run[r].at = "next" /\ u \in run[r].left
        /\ UNCHANGED <<kind, charged, handed>>
    BY <1>0, <1>10 DEF FallBack, Become, TypeOK, Locals
  <2>2. t \in Locals
    BY DEF TypeOK
  <2> HIDE DEF t
  <2>3. Cardinality(run[r].left \ {u}) = Cardinality(run[r].left) - 1
    BY <1>0, <2>1, FS_RemoveElement
  <2>4. Counts(t) /\ IsSending(run[r]) /\ \A d \in Channels : Held(t, d) <= Held(run[r], d)
    BY <1>0, <2>1, <2>3 DEF Counts, IsSending, IsBusy, Held
  <2> QED
    BY <1>0, <2>1, <2>2, <2>4, StillLedger
<1>11. ASSUME NEW r \in Runs, AllTried(r) PROVE LedgerInv'
  <2> DEFINE t == [run[r] EXCEPT !.at = "charge"]
  <2>1. t.at = "charge" /\ t.left = run[r].left /\ t.count = run[r].count /\ t.channel = run[r].channel /\ t \in Locals
    BY <1>0 DEF Locals, Places
  <2> QED
    BY <1>11, <2>1, <1>n DEF AllTried, IsSending, IsBusy
<1>o. ASSUME NEW r \in Runs
      PROVE  /\ FailOver(run[r]) \in Locals /\ FailOver(run[r]).at \in {"next", "lookup"}
             /\ FailOver(run[r]).left = run[r].left /\ FailOver(run[r]).count = run[r].count
             /\ FailOver(run[r]).channel = run[r].channel
  BY <1>0, FailOverType, FailOverFields
<1>12. ASSUME NEW r \in Runs, Lookup(r) PROVE LedgerInv'
  <2>1. run[r].at = "lookup" /\ UNCHANGED <<kind, charged, handed>> /\ run'[r] \in Locals
    BY <1>12 DEF Lookup, TypeOK
  <2>2. CASE MaySend(run[r])
    <3> DEFINE pk == IF Found(run[r]) = {} THEN r ELSE (CHOOSE d \in Found(run[r]) : TRUE).pk
               t == [run[r] EXCEPT !.at = "call", !.pk = pk]
    <3>1. Become(r, t)
      BY <1>12, <2>2 DEF Lookup
    <3> HIDE DEF pk
    <3>2. /\ t.at = "call" /\ t.left = run[r].left /\ t.count = run[r].count
          /\ t.channel = run[r].channel
      BY <1>0 DEF Locals
    <3> HIDE DEF t
    <3>3. t \in Locals
      BY <1>0, <2>1, <3>1 DEF Become, TypeOK
    <3> QED
      BY <2>1, <3>1, <3>2, <3>3, <1>n DEF IsSending, IsBusy
  <2>3. CASE ~MaySend(run[r])
    BY <1>12, <1>n, <1>o, <2>1, <2>3 DEF Lookup, IsSending, IsBusy
  <2> QED
    BY <2>2, <2>3
<1>13. ASSUME NEW r \in Runs, Accepted(r) PROVE LedgerInv'
  <2> DEFINE t == [run[r] EXCEPT !.at = "report"]
  <2>1. t.at = "report" /\ t.left = run[r].left /\ t.count = run[r].count /\ t.channel = run[r].channel /\ t \in Locals
    BY <1>0 DEF Locals, Places
  <2>2. run[r].at = "call" /\ Become(r, t) /\ Take(run[r]) /\ UNCHANGED <<kind, charged>>
    BY <1>13 DEF Accepted
  <2> HIDE DEF t
  <2>3. Counts(t) /\ IsSending(run[r])
    BY <1>0, <2>1, <2>2, CountsAlike DEF IsSending, IsBusy
  <2>4. \A c \in Channels : Held(t, c) <= Held(run[r], c) + (IF run[r].channel = c THEN 1 ELSE 0)
    BY <1>0, <2>1, <2>2 DEF Held
  <2> QED
    BY <1>0, <2>1, <2>2, <2>3, <2>4, TakeLedger
<1>14. ASSUME NEW r \in Runs, Ignored(r) PROVE LedgerInv'
  <2> DEFINE t == [run[r] EXCEPT !.at = "report"]
  <2>1. t.at = "report" /\ t.left = run[r].left /\ t.count = run[r].count /\ t.channel = run[r].channel /\ t \in Locals
    BY <1>0 DEF Locals, Places
  <2>2. run[r].at = "call" /\ Become(r, t) /\ Take(run[r]) /\ UNCHANGED <<kind, charged>>
    BY <1>14 DEF Ignored
  <2> HIDE DEF t
  <2>3. Counts(t) /\ IsSending(run[r])
    BY <1>0, <2>1, <2>2, CountsAlike DEF IsSending, IsBusy
  <2>4. \A c \in Channels : Held(t, c) <= Held(run[r], c) + (IF run[r].channel = c THEN 1 ELSE 0)
    BY <1>0, <2>1, <2>2 DEF Held
  <2> QED
    BY <1>0, <2>1, <2>2, <2>3, <2>4, TakeLedger
<1>15. ASSUME NEW r \in Runs, Rejected(r) PROVE LedgerInv'
  BY <1>15, <1>n, <1>o DEF Rejected, IsSending, IsBusy
<1>16. ASSUME NEW r \in Runs, AnswerLost(r) PROVE LedgerInv'
  <2> DEFINE t == FailOver(run[r])
  <2>1. /\ t.at \in {"next", "lookup"} /\ t.left = run[r].left /\ t.count = run[r].count
        /\ t.channel = run[r].channel /\ t \in Locals
    BY <1>o
  <2>2. run[r].at = "call" /\ Become(r, t) /\ Take(run[r]) /\ UNCHANGED <<kind, charged>>
    BY <1>16 DEF AnswerLost
  <2> HIDE DEF t
  <2>3. Counts(t) /\ IsSending(run[r])
    BY <1>0, <2>1, <2>2, CountsAlike DEF IsSending, IsBusy
  <2>4. \A c \in Channels : Held(t, c) <= Held(run[r], c) + (IF run[r].channel = c THEN 1 ELSE 0)
    BY <1>0, <2>1, <2>2 DEF Held
  <2> QED
    BY <1>0, <2>1, <2>2, <2>3, <2>4, TakeLedger
<1>17. ASSUME NEW r \in Runs, CreateReport(r) PROVE LedgerInv'
  <2> DEFINE t == [run[r] EXCEPT !.at = "confirm"]
  <2>1. t.at = "confirm" /\ t.left = run[r].left /\ t.count = run[r].count /\ t.channel = run[r].channel /\ t \in Locals
    BY <1>0 DEF Locals, Places
  <2>2. run[r].at = "report" /\ Become(r, t) /\ UNCHANGED <<kind, charged, handed>>
    BY <1>17 DEF CreateReport
  <2> HIDE DEF t
  <2> QED
    BY <2>1, <2>2, <1>n DEF IsSending, IsBusy
<1>18. ASSUME NEW r \in Runs, ReportFails(r) PROVE LedgerInv'
  <2> DEFINE t == [run[r] EXCEPT !.at = "next"]
  <2>1. t.at = "next" /\ t.left = run[r].left /\ t.count = run[r].count /\ t.channel = run[r].channel /\ t \in Locals
    BY <1>0 DEF Locals, Places
  <2> QED
    BY <1>18, <2>1, <1>n DEF ReportFails, IsSending, IsBusy
<1>19. ASSUME NEW r \in Runs, Confirm(r) PROVE LedgerInv'
  <2> DEFINE t == run'[r]
  <2>1. /\ Become(r, t) /\ t.at = "next" /\ t.left = run[r].left /\ t.count = run[r].count + 1
        /\ t.channel = run[r].channel /\ run[r].at = "confirm" /\ UNCHANGED <<kind, charged, handed>>
    BY <1>0, <1>19 DEF Confirm, Become, TypeOK, Locals
  <2>2. t \in Locals
    BY DEF TypeOK
  <2> HIDE DEF t
  <2>3. Counts(t) /\ IsSending(run[r]) /\ \A d \in Channels : Held(t, d) <= Held(run[r], d)
    BY <1>0, <2>1 DEF Counts, IsSending, IsBusy, Held
  <2> QED
    BY <1>0, <2>1, <2>2, <2>3, StillLedger
<1>20. ASSUME UNCHANGED <<kind, charged, handed, run>> PROVE LedgerInv'
  <2>1. \A r \in Runs : Counts(run[r])' <=> Counts(run[r])
    BY <1>20 DEF Counts
  <2>2. Used' = Used /\ Underway' = Underway /\ Worth' = Worth
    BY <1>20 DEF Used, Underway, Worth
  <2>3. \A c \in Channels : HeldNow(c)' = HeldNow(c) /\ TakenNow(c)' = TakenNow(c)
    BY <1>20 DEF HeldNow, TakenNow
  <2> QED
    BY <1>20, <2>1, <2>2, <2>3 DEF LedgerInv, Backing, Budget
<1>21. CASE \E r \in Runs : MakeSend(r) \/ Kill(r)
  BY <1>21, <1>1, <1>2, <1>3, <1>4, <1>5, <1>6, <1>7, <1>8, <1>9, <1>10, <1>11, <1>12, <1>13, <1>14,
     <1>15, <1>16, <1>17, <1>18, <1>19 DEF MakeSend, Send
<1>22. CASE \E d \in reports, delivered \in BOOLEAN : Callback(d, delivered)
  BY <1>20, <1>22 DEF Callback
<1>23. CASE UNCHANGED vars
  BY <1>20, <1>23 DEF vars
<1> QED
  BY <1>21, <1>22, <1>23 DEF Next

LEMMA LedgerInvImplies == ASSUME TypeOK, IsFiniteSet(Runs), LedgerInv PROVE LedgerIsBacked
<1>1. ASSUME NEW c \in Channels PROVE charged[c] <= SumFunction([u \in Recipients |-> handed[u][c]])
  <2>1. SumFunction(HeldNow(c)) \in Nat /\ SumFunction(TakenNow(c)) \in Nat /\ charged[c] \in Nat
    BY SumIsNat, LedgerTypes, DeliveryAssumption DEF TypeOK
  <2>2. charged[c] <= SumFunction(TakenNow(c))
    BY <2>1 DEF LedgerInv, Backing
  <2> QED
    BY <2>2 DEF TakenNow
<1>2. ASSUME ~kind.system PROVE Used < Cardinality(Runs) * Cardinality(kind.to) * Dearest \/ Used = -kind.credit
  <2> DEFINE m == Cardinality(Runs) * Worth  k == Cardinality(Underway) * Worth
  <2>1. m \in Nat /\ k \in Nat /\ Used \in Int
    BY LedgerTypes, ProductIsNat
  <2>2. Cardinality(Runs) * Cardinality(kind.to) * Dearest = m
    BY LedgerTypes, ProductOfThree DEF Worth
  <2>3. Used < 0 \/ Used = -kind.credit \/ Used + k < m
    BY <1>2 DEF LedgerInv, Budget
  <2> HIDE DEF m, k
  <2>4. Used < m \/ Used = -kind.credit
    BY <2>1, <2>3
  <2> QED
    BY <2>2, <2>4
<1> QED
  BY <1>1, <1>2 DEF LedgerIsBacked, Dearest

\* LogAccessService.log never charges for more copies than the providers took
\* or passed over, and each of the runs overdraws the license by the copies of
\* one channel at most, however they interleave and whatever fails, for any
\* number of runs.
THEOREM DeliveryLedgerIsBacked ==
    ASSUME IsFiniteSet(Resends)
    PROVE  Spec => []LedgerIsBacked
<1>1. IsFiniteSet(Runs)
  BY FS_AddElement DEF Runs
<1>2. Init => LedgerInv
  BY <1>1, InitLedgerInv
<1>3. DeliveryInv /\ DeliveryInv' /\ LedgerInv /\ [Next]_vars => LedgerInv'
  BY <1>1, NextLedgerInv DEF DeliveryInv
<1>4. DeliveryInv /\ LedgerInv => LedgerIsBacked
  BY <1>1, LedgerInvImplies DEF DeliveryInv
<1> QED
  BY <1>2, <1>3, <1>4, DeliveryInvariant, PTL DEF Spec

-----------------------------------------------------------------------------
(* Envelope *)

Reading == {"EMail", "SMS", "fallback", "signed"}
Ready == {"gather", "enqueue", "send"}
Persons == [id : Users \union {Nothing}, EMail : Addresses \union {Nothing},
            SMS : {Dial(n) : n \in Numbers \union {Nothing}}]
Sendings ==
    [at : {"new", "over", "failed"} \union Reading \union Ready,
     sender : [Media -> Senders \union {Nothing, SystemSender}],
     fallback : BOOLEAN \union {Nothing}, people : SUBSET Persons, todo : SUBSET Media,
     from : Nat, upto : Nat]

\* Settings and profiles are read between the call and the moment the task is
\* enqueued, or until now.
Till(s) == IF s.at = "send" /\ s.people # {} THEN s.upto ELSE Len(past)

SignedFrom(o, s) ==
    \A c \in Media :
        IF Form(o).system /\ Original(o) /\ s.at \in Ready THEN s.sender[c] = SystemSender
        ELSE s.sender[c] = Nothing \/ \E i \in s.from..Till(s) : s.sender[c] = past[i].sender[c]

WasFound(o, p, from, upto) ==
    /\ p.id \in Form(o).to
    /\ \E i \in from..upto : past[i].profile[p.id] # Nothing /\ p = Person(p.id, past[i].profile[p.id])

PeopleFrom(o, s) ==
    \A p \in s.people : IF Form(o).by = "list" THEN \E a \in Form(o).to : p = Listed(a)
                        ELSE WasFound(o, p, s.from, Till(s))

Course(o, s, rows) ==
    /\ s.todo \subseteq Form(o).channels
    /\ s.at = "new" => \A c \in Media : s.sender[c] = Nothing
    /\ s.people # {} => s.at \in {"gather", "send"}
    /\ s.at = "gather" => Original(o) /\ Form(o).by = "task"
    /\ s.at = "enqueue" => Original(o) /\ Form(o).by = "list"
    /\ ~Original(o) /\ s.at # "new" => o[1] \in rows
    /\ Original(o) /\ o[1] \in rows => s.at \notin {"new"} \union Reading
    /\ Original(o) /\ o[1] \in rows /\ s.at = "failed" =>
         Form(o).by = "task" /\ \E u \in Form(o).to : Present.profile[u] = Nothing

Good(o, s, rows) ==
    /\ s \in Sendings /\ s.from \in 1..Len(past) /\ s.upto \in 1..Len(past)
    /\ SignedFrom(o, s) /\ PeopleFrom(o, s) /\ Course(o, s, rows)

\* What the properties say of one message
GoodLetter(h) ==
    /\ h.of \in Objects /\ h.from \in 1..Len(past) /\ h.upto \in 1..Len(past) /\ h.channel \in Media
    /\ IF Form(h.of).system /\ Original(h.of) THEN h.sender = SystemSender
       ELSE h.sender # Nothing /\ \E i \in Moments(h) : h.sender = past[i].sender[h.channel]
    /\ IF Form(h.of).by = "list" THEN h.to \in Form(h.of).to
       ELSE /\ h.id \in Form(h.of).to
            /\ \E i \in Moments(h) : past[i].profile[h.id] # Nothing
                                   /\ h.to = Person(h.id, past[i].profile[h.id])[h.channel]

\* A channel that handed something over is not served again.
Served(h) == sending[h.of].at \in {"send", "over"} /\ h.channel \notin sending[h.of].todo

EnvelopeInv ==
    /\ past \in Seq(Worlds) /\ Len(past) >= 1
    /\ \A l \in Letters : form[l] \in Forms[l]
    /\ stored \subseteq Letters
    /\ DOMAIN sending = Objects /\ \A o \in Objects : Good(o, sending[o], stored)
    /\ \A h \in posted : GoodLetter(h) /\ Served(h)
    /\ OneCopyEach /\ MailedOnce

-----------------------------------------------------------------------------
LEMMA PresentWorld ==
  ASSUME EnvelopeInv
  PROVE  /\ Len(past) \in Nat /\ Len(past) \in 1..Len(past) /\ Present = past[Len(past)]
         /\ Present \in Worlds
         /\ \A i \in 1..Len(past) : past[i] \in Worlds
  BY DEF EnvelopeInv, Present

LEMMA FormOf ==
  ASSUME EnvelopeInv, NEW o \in Objects
  PROVE  /\ Form(o) \in FormType /\ o[1] \in Letters /\ Form(o).by \in {"task", "now", "list"}
         /\ Form(o).channels \subseteq Media /\ Form(o).to # {}
         /\ Form(o).by = "list" => Form(o).channels = {"EMail"}
         /\ IF Form(o).by = "list" THEN Form(o).to \subseteq Addresses ELSE Form(o).to \subseteq Users
  <1>1. o[1] \in Letters /\ form[o[1]] \in Forms[o[1]]
    BY DEF Objects, EnvelopeInv
  <1>2. form[o[1]] \in FormType
    BY <1>1, EnvelopeAssumption
  <1> QED BY <1>1, <1>2, EnvelopeAssumption DEF Form, FormType

LEMMA UnsentGood ==
  ASSUME EnvelopeInv, NEW o \in Objects, NEW at \in {"new", "over", "failed"}
  PROVE  LET s == [Unsent EXCEPT !.at = at] IN
         /\ s \in Sendings /\ s.at = at /\ s.people = {} /\ s.todo = {}
         /\ \A c \in Media : s.sender[c] = Nothing
         /\ s.from \in 1..Len(past) /\ s.upto \in 1..Len(past) /\ SignedFrom(o, s) /\ PeopleFrom(o, s)
  <1>1. PICK s : s = [Unsent EXCEPT !.at = at]
    OBVIOUS
  <1>2. /\ s \in Sendings /\ s.at = at /\ s.people = {} /\ s.todo = {} /\ s.from = 1 /\ s.upto = 1
        /\ \A c \in Media : s.sender[c] = Nothing
    BY <1>1 DEF Unsent, Sendings
  <1>3. SignedFrom(o, s) /\ PeopleFrom(o, s)
    BY <1>2 DEF SignedFrom, PeopleFrom, Ready
  <1> QED BY <1>1, <1>2, <1>3, PresentWorld

\* A step of one object: the others keep what is known of them.
LEMMA ObjectKept ==
  ASSUME EnvelopeInv, NEW o \in Objects, NEW s,
         sending' = [sending EXCEPT ![o] = s],
         UNCHANGED <<past, form>>,
         stored' = stored \/ (Original(o) /\ stored' = stored \union {o[1]}),
         Good(o, s, stored')
  PROVE  /\ DOMAIN sending' = Objects /\ \A q \in Objects : Good(q, sending[q], stored)'
         /\ past' \in Seq(Worlds) /\ Len(past') >= 1 /\ stored' \subseteq Letters
         /\ \A l \in Letters : form'[l] \in Forms[l]
         /\ \A h : GoodLetter(h)' <=> GoodLetter(h)
  <1>1. ASSUME NEW q \in Objects PROVE Good(q, sending[q], stored)'
    <2>1. CASE q = o
      <3>1. sending'[q] = s
        BY <2>1 DEF EnvelopeInv
      <3> QED BY <3>1, <2>1 DEF Good, SignedFrom, PeopleFrom, WasFound, Course, Till, Form, Present
    <2>2. CASE q # o
      <3>1. sending'[q] = sending[q] /\ Good(q, sending[q], stored)
        BY <2>2 DEF EnvelopeInv
      <3>2. Original(q) /\ Original(o) => q[1] # o[1]
        BY <2>2 DEF Original, Objects
      <3>3. Course(q, sending[q], stored')
        BY <3>1, <3>2 DEF Good, Course
      <3> QED BY <3>1, <3>3 DEF Good, SignedFrom, PeopleFrom, WasFound, Course, Till, Form, Present
    <2> QED BY <2>1, <2>2
  <1>2. \A h : GoodLetter(h)' <=> GoodLetter(h)
    BY DEF GoodLetter, Form, Moments
  <1>3. DOMAIN sending' = Objects /\ stored' \subseteq Letters
    BY DEF EnvelopeInv, Objects
  <1> QED BY <1>1, <1>2, <1>3 DEF EnvelopeInv

\* ... and if nothing is handed over, so do the messages.
LEMMA QuietSending ==
  ASSUME EnvelopeInv, NEW o \in Objects, NEW s,
         sending' = [sending EXCEPT ![o] = s],
         UNCHANGED <<past, form, posted>>,
         stored' = stored \/ (Original(o) /\ stored' = stored \union {o[1]}),
         Good(o, s, stored'),
         sending[o].at \notin {"send", "over"}
  PROVE  EnvelopeInv'
  <1>1. \A h \in posted : Served(h)'
    <2> TAKE h \in posted
    <2>1. h.of # o /\ h.of \in Objects /\ Served(h)
      BY DEF EnvelopeInv, Served, GoodLetter
    <2> QED BY <2>1 DEF Served, EnvelopeInv
  <1>2. OneCopyEach' /\ MailedOnce'
    BY DEF EnvelopeInv, OneCopyEach, MailedOnce
  <1> QED BY <1>1, <1>2, ObjectKept DEF EnvelopeInv

LEMMA EnvelopeStarts == EnvelopeInit => EnvelopeInv
  <1> SUFFICES ASSUME EnvelopeInit PROVE EnvelopeInv
    OBVIOUS
  <1>1. PICK w \in Origins : past = <<w>>
    BY DEF EnvelopeInit
  <1>2. w \in Worlds /\ past \in Seq(Worlds) /\ Len(past) = 1
    BY <1>1, OriginAssumption
  <1>3. ASSUME NEW o \in Objects PROVE Good(o, sending[o], stored)
    <2>1. sending[o] = Unsent /\ stored = {}
      BY DEF EnvelopeInit
    <2>2. /\ sending[o] \in Sendings /\ sending[o].at = "new" /\ sending[o].people = {}
          /\ sending[o].todo = {} /\ \A c \in Media : sending[o].sender[c] = Nothing
          /\ sending[o].from = 1 /\ sending[o].upto = 1
      BY <2>1 DEF Unsent, Sendings
    <2> QED BY <1>2, <2>1, <2>2 DEF Good, SignedFrom, PeopleFrom, Course, Ready, Reading
  <1> QED BY <1>2, <1>3 DEF EnvelopeInit, EnvelopeInv, OneCopyEach, MailedOnce

LEMMA BeginGood == ASSUME EnvelopeInv, NEW o \in Objects, Begin(o) PROVE EnvelopeInv'
  <1>1. Good(o, sending[o], stored) /\ sending[o].at = "new" /\ (Original(o) \/ o[1] \in stored)
    BY DEF EnvelopeInv, Begin, In
  <1>2. PICK s : s = [sending[o] EXCEPT !.at = IF Form(o).project THEN "EMail" ELSE "signed",
                                        !.from = Len(past)]
    OBVIOUS
  <1>3. /\ s \in Sendings /\ s.at \in {"EMail", "signed"} /\ s.from = Len(past)
        /\ s.upto = sending[o].upto /\ s.people = sending[o].people /\ s.sender = sending[o].sender
          /\ s.todo = sending[o].todo
    BY <1>1, <1>2, PresentWorld DEF Good, Sendings, Reading
  <1>4. s.people = {} /\ \A c \in Media : s.sender[c] = Nothing
    BY <1>1, <1>3 DEF Good, Course
  <1>5. Original(o) => o[1] \notin stored
    BY <1>1 DEF Good, Course
  <1>6. Good(o, s, stored)
    BY <1>1, <1>3, <1>4, <1>5, PresentWorld DEF Good, SignedFrom, PeopleFrom, Course, Ready
  <1>7. sending' = [sending EXCEPT ![o] = s] /\ UNCHANGED <<past, form, posted, stored>>
    BY <1>2 DEF Begin, Put
  <1> QED BY <1>1, <1>6, <1>7, QuietSending

LEMMA ReadSenderGood ==
  ASSUME EnvelopeInv, NEW o \in Objects, NEW c \in Media, ReadSender(o, c)
  PROVE  EnvelopeInv'
  <1>1. Good(o, sending[o], stored) /\ sending[o].at = c /\ c \in Reading
    BY DEF EnvelopeInv, ReadSender, In, Media, Reading
  <1>2. PICK s : s = [sending[o] EXCEPT !.at = IF c = "EMail" THEN "SMS" ELSE "fallback",
                                        !.sender[c] = Present.sender[c]]
    OBVIOUS
  <1>3. Present.sender[c] \in Senders \union {Nothing}
    BY PresentWorld DEF Worlds
  <1>4. /\ s \in Sendings /\ s.at \in Reading /\ s.from = sending[o].from
        /\ s.upto = sending[o].upto /\ s.people = sending[o].people
        /\ s.todo = sending[o].todo
    BY <1>1, <1>2, <1>3 DEF Good, Sendings, Reading
  <1>5. s.sender[c] = Present.sender[c] /\ \A d \in Media \ {c} : s.sender[d] = sending[o].sender[d]
    BY <1>1, <1>2 DEF Good, Sendings
  <1>6. s.people = {}
    BY <1>1, <1>4 DEF Good, Course, Reading
  <1>7. Till(s) = Len(past) /\ Till(sending[o]) = Len(past)
    BY <1>1, <1>4, <1>6 DEF Till
  <1>8. SignedFrom(o, s)
    <2>1. s.at \notin Ready /\ sending[o].at \notin Ready
      BY <1>1, <1>4 DEF Reading, Ready
    <2>2. Len(past) \in s.from..Len(past) /\ Present = past[Len(past)]
      BY <1>1, <1>4, PresentWorld DEF Good
    <2>3. \A d \in Media : s.sender[d] = Nothing \/ \E i \in s.from..Len(past) : s.sender[d] = past[i].sender[d]
      BY <1>1, <1>4, <1>5, <1>7, <2>1, <2>2 DEF Good, SignedFrom
    <2> QED BY <1>7, <2>1, <2>3 DEF SignedFrom
  <1>9. Course(o, s, stored)
    BY <1>1, <1>4, <1>6 DEF Good, Course, Reading
  <1>10. Good(o, s, stored)
    BY <1>1, <1>4, <1>6, <1>8, <1>9 DEF Good, PeopleFrom
  <1>11. sending' = [sending EXCEPT ![o] = s] /\ UNCHANGED <<past, form, posted, stored>>
    BY <1>2 DEF ReadSender, Put
  <1>12. sending[o].at \notin {"send", "over"}
    BY <1>1 DEF Reading
  <1> QED BY <1>10, <1>11, <1>12, QuietSending

LEMMA ReadFallbackGood == ASSUME EnvelopeInv, NEW o \in Objects, ReadFallback(o) PROVE EnvelopeInv'
  <1>1. Good(o, sending[o], stored) /\ sending[o].at = "fallback"
    BY DEF EnvelopeInv, ReadFallback, In
  <1>2. Original(o) => o[1] \notin stored
    BY <1>1 DEF Good, Course, Reading
  <1>3. ~Original(o) => o[1] \in stored
    BY <1>1 DEF Good, Course
  <1>4. CASE Present.fallback = Nothing
    <2>1. PICK s : s = [Unsent EXCEPT !.at = "failed"]
      OBVIOUS
    <2>2. Good(o, s, stored)
      BY <1>2, <1>3, <2>1, UnsentGood DEF Good, Course
    <2>3. sending' = [sending EXCEPT ![o] = s] /\ UNCHANGED <<past, form, posted, stored>>
      BY <1>4, <2>1 DEF ReadFallback, Put
    <2> QED BY <1>1, <2>2, <2>3, QuietSending
  <1>5. CASE Present.fallback # Nothing
    <2>1. PICK s : s = [sending[o] EXCEPT !.at = "signed", !.fallback = Present.fallback]
      OBVIOUS
    <2>2. Present.fallback \in BOOLEAN \union {Nothing}
      BY PresentWorld DEF Worlds
    <2>3. /\ s \in Sendings /\ s.at = "signed" /\ s.from = sending[o].from /\ s.upto = sending[o].upto
          /\ s.people = sending[o].people /\ s.sender = sending[o].sender
          /\ s.todo = sending[o].todo
      BY <1>1, <2>1, <2>2 DEF Good, Sendings, Reading
    <2>4. s.people = {}
      BY <1>1, <2>3 DEF Good, Course
    <2>5. SignedFrom(o, s)
      BY <1>1, <2>3, <2>4 DEF Good, SignedFrom, Till, Ready
    <2>6. Good(o, s, stored)
      BY <1>1, <1>2, <1>3, <2>3, <2>4, <2>5 DEF Good, PeopleFrom, Course
    <2>7. sending' = [sending EXCEPT ![o] = s] /\ UNCHANGED <<past, form, posted, stored>>
      BY <1>5, <2>1 DEF ReadFallback, Put
    <2> QED BY <1>1, <2>6, <2>7, QuietSending
  <1> QED BY <1>4, <1>5

LEMMA StoreRowGood == ASSUME EnvelopeInv, NEW o \in Objects, StoreRow(o) PROVE EnvelopeInv'
  <1>1. Good(o, sending[o], stored) /\ sending[o].at = "signed"
    BY DEF EnvelopeInv, StoreRow, In
  <1>2. PICK next : next = IF ~Original(o) \/ Form(o).by = "now" THEN "send"
                           ELSE IF Form(o).by = "list" THEN "enqueue" ELSE "gather"
    OBVIOUS
  <1>3. /\ next \in Ready
        /\ next = "gather" => Original(o) /\ Form(o).by = "task"
        /\ next = "enqueue" => Original(o) /\ Form(o).by = "list"
    <2>1. Form(o).by \in {"task", "now", "list"}
      BY FormOf
    <2>2. CASE ~Original(o) \/ Form(o).by = "now"
      BY <1>2, <2>2 DEF Ready
    <2>3. CASE Original(o) /\ Form(o).by # "now"
      BY <1>2, <2>1, <2>3 DEF Ready
    <2> QED BY <2>2, <2>3
  <1>4. PICK s : s = [sending[o] EXCEPT !.at = next, !.sender = Signed(o), !.todo = Form(o).channels]
    OBVIOUS
  <1>5. Signed(o) \in [Media -> Senders \union {Nothing, SystemSender}]
    BY <1>1 DEF Signed, Good, Sendings
  <1>6. /\ s \in Sendings /\ s.at = next /\ s.from = sending[o].from /\ s.upto = sending[o].upto
        /\ s.people = sending[o].people /\ s.sender = Signed(o) /\ s.todo = Form(o).channels
    BY <1>1, <1>3, <1>4, <1>5, FormOf DEF Good, Sendings
  <1>7. s.people = {}
    BY <1>1, <1>6 DEF Good, Course
  <1>8. SignedFrom(o, s)
    <2>1. CASE Form(o).system /\ Original(o)
      BY <1>3, <1>6, <2>1 DEF SignedFrom, Signed
    <2>2. CASE ~(Form(o).system /\ Original(o))
      BY <1>1, <1>6, <1>7, <2>2 DEF Good, SignedFrom, Till, Signed
    <2> QED BY <2>1, <2>2
  <1>9. Course(o, s, stored \union {o[1]})
    BY <1>3, <1>6, <1>7 DEF Course, Ready, Reading
  <1>10. Good(o, s, stored \union {o[1]})
    BY <1>1, <1>6, <1>7, <1>8, <1>9 DEF Good, PeopleFrom
  <1>11. /\ sending' = [sending EXCEPT ![o] = s] /\ UNCHANGED <<past, form, posted>>
         /\ stored' = stored \union {o[1]}
    BY <1>2, <1>4 DEF StoreRow, Put
  <1>12. ~Original(o) => stored' = stored
    BY <1>1, <1>11 DEF Good, Course
  <1> QED BY <1>1, <1>10, <1>11, <1>12, QuietSending

LEMMA PersonType ==
  ASSUME EnvelopeInv, NEW u \in Users, NEW i \in 1..Len(past), past[i].profile[u] # Nothing
  PROVE  Person(u, past[i].profile[u]) \in Persons /\ Person(u, past[i].profile[u]).id = u
  <1>1. past[i].profile[u] \in Profile
    BY PresentWorld DEF Worlds
  <1>2. past[i].profile[u].mail \in Addresses \union {Nothing}
        /\ past[i].profile[u].phone \in Numbers \union {Nothing}
    BY <1>1 DEF Profile
  <1> QED BY <1>2 DEF Person, Persons

LEMMA GatherGood ==
  ASSUME EnvelopeInv, NEW o \in Objects, NEW u \in Users, Gather(o, u)
  PROVE  EnvelopeInv'
  <1>1. /\ Good(o, sending[o], stored) /\ sending[o].at = "gather"
        /\ u \in Form(o).to
    BY DEF EnvelopeInv, Gather, In
  <1>2. Original(o) /\ Form(o).by = "task"
    BY <1>1 DEF Good, Course
  <1>3. CASE Present.profile[u] = Nothing
    <2>1. PICK s : s = [Unsent EXCEPT !.at = "failed"]
      OBVIOUS
    <2>2. Good(o, s, stored)
      BY <1>1, <1>2, <1>3, <2>1, UnsentGood DEF Good, Course, Reading
    <2>3. sending' = [sending EXCEPT ![o] = s] /\ UNCHANGED <<past, form, posted, stored>>
      BY <1>3, <2>1 DEF Gather, Put
    <2> QED BY <1>1, <2>2, <2>3, QuietSending
  <1>4. CASE Present.profile[u] # Nothing
    <2>1. PICK p : p = Person(u, Present.profile[u])
      OBVIOUS
    <2>2. PICK s : s = [sending[o] EXCEPT !.people = @ \union {p}]
      OBVIOUS
    <2>3. p \in Persons /\ p.id = u
      BY <1>4, <2>1, PersonType, PresentWorld
    <2>4. /\ s \in Sendings /\ s.at = "gather" /\ s.from = sending[o].from /\ s.upto = sending[o].upto
          /\ s.people = sending[o].people \union {p} /\ s.sender = sending[o].sender
          /\ s.todo = sending[o].todo
      BY <1>1, <2>2, <2>3 DEF Good, Sendings, Reading
    <2>5. Till(s) = Len(past) /\ Till(sending[o]) = Len(past)
      BY <1>1, <2>4 DEF Till
    <2>6. SignedFrom(o, s)
      BY <1>1, <2>4, <2>5 DEF Good, SignedFrom
    <2>7. WasFound(o, p, s.from, Len(past))
      <3>1. Len(past) \in s.from..Len(past)
        BY <1>1, <2>4, PresentWorld DEF Good
      <3> QED BY <1>1, <1>4, <2>1, <2>3, <3>1, PresentWorld DEF WasFound
    <2>8. PeopleFrom(o, s)
      BY <1>1, <1>2, <2>4, <2>5, <2>7 DEF Good, PeopleFrom
    <2>9. Course(o, s, stored)
      BY <1>1, <1>2, <2>4 DEF Good, Course, Reading
    <2>10. Good(o, s, stored)
      BY <1>1, <2>4, <2>6, <2>8, <2>9 DEF Good
    <2>11. sending' = [sending EXCEPT ![o] = s] /\ UNCHANGED <<past, form, posted, stored>>
      BY <1>4, <2>1, <2>2 DEF Gather, Put
    <2> QED BY <1>1, <2>10, <2>11, QuietSending
  <1> QED BY <1>3, <1>4

LEMMA EnqueueGood == ASSUME EnvelopeInv, NEW o \in Objects, EnqueueLetter(o) PROVE EnvelopeInv'
  <1>1. Good(o, sending[o], stored) /\ sending[o].at \in {"gather", "enqueue"}
    BY DEF EnvelopeInv, EnqueueLetter, In
  <1>2. UNCHANGED <<past, form, posted, stored>>
    BY DEF EnqueueLetter
  <1>3. ASSUME In(o, "gather"), {p.id : p \in sending[o].people} = Form(o).to,
               Put(o, [sending[o] EXCEPT !.at = "send", !.upto = Len(past)])
        PROVE  EnvelopeInv'
    <2>1. PICK s : s = [sending[o] EXCEPT !.at = "send", !.upto = Len(past)]
      OBVIOUS
    <2>2. /\ s \in Sendings /\ s.at = "send" /\ s.from = sending[o].from /\ s.upto = Len(past)
          /\ s.people = sending[o].people /\ s.sender = sending[o].sender
          /\ s.todo = sending[o].todo
      BY <1>1, <2>1, PresentWorld DEF Good, Sendings, Ready
    <2>3. sending[o].at = "gather"
      BY <1>3 DEF In
    <2>4. Till(s) = Len(past) /\ Till(sending[o]) = Len(past)
      BY <2>2, <2>3 DEF Till
    <2>5. SignedFrom(o, s)
      BY <1>1, <2>2, <2>3, <2>4 DEF Good, SignedFrom, Ready
    <2>6. PeopleFrom(o, s)
      BY <1>1, <2>2, <2>4 DEF Good, PeopleFrom
    <2>7. Course(o, s, stored)
      BY <1>1, <2>2, <2>3 DEF Good, Course, Reading
    <2>8. Good(o, s, stored)
      BY <1>1, <2>2, <2>5, <2>6, <2>7, PresentWorld DEF Good
    <2>9. sending' = [sending EXCEPT ![o] = s]
      BY <1>3, <2>1 DEF Put
    <2> QED BY <1>2, <2>3, <2>8, <2>9, QuietSending
  <1>4. ASSUME In(o, "enqueue"),
               Put(o, [sending[o] EXCEPT !.at = "send", !.people = {Listed(a) : a \in Form(o).to},
                                         !.upto = Len(past)])
        PROVE  EnvelopeInv'
    <2>1. PICK people : people = {Listed(a) : a \in Form(o).to}
      OBVIOUS
    <2>2. PICK s : s = [sending[o] EXCEPT !.at = "send", !.people = people, !.upto = Len(past)]
      OBVIOUS
    <2>3. sending[o].at = "enqueue" /\ Form(o).by = "list" /\ Original(o)
      BY <1>1, <1>4 DEF In, Good, Course
    <2>4. Form(o).to \subseteq Addresses /\ Form(o).to # {}
      BY <2>3, FormOf
    <2>5. people \subseteq Persons /\ people # {}
      <3>1. \A a \in Addresses : Listed(a) \in Persons
        <4>1. Nothing = Dial(Nothing)
          BY DEF Dial
        <4> QED BY <4>1 DEF Listed, Persons
      <3> QED BY <2>1, <2>4, <3>1
    <2>6. /\ s \in Sendings /\ s.at = "send" /\ s.from = sending[o].from /\ s.upto = Len(past)
          /\ s.people = people /\ s.sender = sending[o].sender
          /\ s.todo = sending[o].todo
      BY <1>1, <2>2, <2>5, PresentWorld DEF Good, Sendings, Ready
    <2>7. Till(s) = Len(past) /\ Till(sending[o]) = Len(past)
      BY <2>3, <2>6 DEF Till
    <2>8. SignedFrom(o, s)
      BY <1>1, <2>3, <2>6, <2>7 DEF Good, SignedFrom, Ready
    <2>9. PeopleFrom(o, s)
      BY <2>1, <2>3, <2>6 DEF PeopleFrom
    <2>10. Course(o, s, stored)
      BY <1>1, <2>3, <2>6 DEF Good, Course, Reading
    <2>11. Good(o, s, stored)
      BY <1>1, <2>6, <2>8, <2>9, <2>10, PresentWorld DEF Good
    <2>12. sending' = [sending EXCEPT ![o] = s]
      BY <1>4, <2>1, <2>2 DEF Put
    <2> QED BY <1>2, <2>3, <2>11, <2>12, QuietSending
  <1> QED BY <1>3, <1>4 DEF EnqueueLetter

\* The settings and profiles change: those there were stay in the past, and
\* who is deleted is not there again.
LEMMA PastGrows ==
  ASSUME EnvelopeInv, NEW w \in Worlds, past' = Append(past, w),
         UNCHANGED <<form, stored, sending, posted>>,
         \A u \in Users : Present.profile[u] = Nothing => w.profile[u] = Nothing
  PROVE  EnvelopeInv'
  <1>1. /\ past' \in Seq(Worlds) /\ Len(past') = Len(past) + 1 /\ past'[Len(past')] = w
        /\ \A i \in 1..Len(past) : past'[i] = past[i]
    BY DEF EnvelopeInv
  <1>2. Len(past) \in Nat /\ Len(past) >= 1 /\ Present' = w
    BY <1>1, PresentWorld DEF EnvelopeInv, Present
  <1>3. ASSUME NEW o \in Objects PROVE Good(o, sending[o], stored)'
    <2>1. PICK s : s = sending[o]
      OBVIOUS
    <2>2. Good(o, s, stored)
      BY <2>1 DEF EnvelopeInv
    <2>3. s.from \in 1..Len(past) /\ s.upto \in 1..Len(past)
      BY <2>2 DEF Good
    <2>4. Till(s) \in 1..Len(past)
      BY <2>3, PresentWorld DEF Till
    <2>5. Till(s)' = Till(s) \/ (Till(s) = Len(past) /\ Till(s)' = Len(past) + 1)
      BY <1>1 DEF Till
    <2>6. \A i \in s.from..Till(s) : i \in 1..Len(past) /\ i \in s.from..Till(s)'
      BY <1>2, <2>3, <2>4, <2>5
    <2>7. Form(o)' = Form(o) /\ (Original(o)' <=> Original(o))
      BY DEF Form, Original
    <2>8. SignedFrom(o, s)'
      BY <1>1, <2>2, <2>6, <2>7 DEF Good, SignedFrom
    <2>9. \A p : WasFound(o, p, s.from, Till(s)) => WasFound(o, p, s.from, Till(s))'
      BY <1>1, <2>6, <2>7 DEF WasFound
    <2>10. PeopleFrom(o, s)'
      BY <2>2, <2>7, <2>9 DEF Good, PeopleFrom
    <2>11. Course(o, s, stored)'
      <3>1. Form(o).by = "task" => Form(o).to \subseteq Users
        BY FormOf
      <3> QED BY <1>2, <2>2, <2>7, <3>1 DEF Good, Course
    <2>12. Good(o, s, stored)'
      BY <1>1, <1>2, <2>2, <2>3, <2>8, <2>10, <2>11 DEF Good
    <2> QED BY <2>1, <2>12 DEF EnvelopeInv
  <1>4. ASSUME NEW h \in posted PROVE GoodLetter(h)' /\ Served(h)'
    <2>1. GoodLetter(h) /\ Served(h)
      BY DEF EnvelopeInv
    <2>2. Moments(h)' = Moments(h) /\ \A i \in Moments(h) : i \in 1..Len(past)
      BY <1>2, <2>1 DEF Moments, GoodLetter
    <2>3. GoodLetter(h)'
      BY <1>1, <1>2, <2>1, <2>2 DEF GoodLetter, Form
    <2> QED BY <2>1, <2>3 DEF Served
  <1>5. OneCopyEach' /\ MailedOnce'
    BY DEF EnvelopeInv, OneCopyEach, MailedOnce
  <1> QED BY <1>1, <1>2, <1>3, <1>4, <1>5 DEF EnvelopeInv

\* Whom a channel is served with: one who is on the object, or the profile he
\* has now.
LEMMA PeopleFound ==
  ASSUME EnvelopeInv, NEW o \in Objects, sending[o].at = "send", Readable(o), NEW p \in People(o)
  PROVE  LET upto == IF sending[o].people # {} THEN sending[o].upto ELSE Len(past)
         IN  IF Form(o).by = "list" THEN \E a \in Form(o).to : p = Listed(a)
             ELSE WasFound(o, p, sending[o].from, upto)
  <1>1. Good(o, sending[o], stored)
    BY DEF EnvelopeInv
  <1>2. CASE sending[o].people # {}
    <2>1. p \in sending[o].people /\ Till(sending[o]) = sending[o].upto
      BY <1>2 DEF People, Till
    <2> QED BY <1>1, <1>2, <2>1 DEF Good, PeopleFrom
  <1>3. CASE sending[o].people = {}
    <2>1. PICK u \in Form(o).to \intersect Users :
            Present.profile[u] # Nothing /\ p = Person(u, Present.profile[u])
      BY <1>3 DEF People
    <2>2. Form(o).by # "list"
      <3>1. Form(o).by = "list" => Form(o).to \subseteq Addresses
        BY FormOf
      <3> QED BY <2>1, <3>1, EnvelopeAssumption
    <2>3. p.id = u
      BY <2>1 DEF Person
    <2>4. Len(past) \in sending[o].from..Len(past) /\ Present = past[Len(past)]
      BY <1>1, PresentWorld DEF Good
    <2>5. WasFound(o, p, sending[o].from, Len(past))
      BY <2>1, <2>3, <2>4 DEF WasFound
    <2> QED BY <1>3, <2>2, <2>5
  <1> QED BY <1>2, <1>3

LEMMA LetterGood ==
  ASSUME EnvelopeInv, NEW o \in Objects, NEW c \in sending[o].todo, sending[o].at = "send",
         sending[o].sender[c] # Nothing, Readable(o), NEW p \in People(o)
  PROVE  GoodLetter(Letter(o, c, p))
  <1>1. Good(o, sending[o], stored)
    BY DEF EnvelopeInv
  <1>2. PICK upto : upto = IF sending[o].people # {} THEN sending[o].upto ELSE Len(past)
    OBVIOUS
  <1>3. Till(sending[o]) = upto /\ upto \in 1..Len(past)
    BY <1>1, <1>2, PresentWorld DEF Till, Good
  <1>4. PICK h : h = Letter(o, c, p)
    OBVIOUS
  <1>5. /\ h.of = o /\ h.channel = c /\ h.sender = sending[o].sender[c] /\ h.to = p[c] /\ h.id = p.id
        /\ h.from = sending[o].from /\ h.upto = upto
    BY <1>2, <1>4 DEF Letter
  <1>6. IF Form(o).system /\ Original(o) THEN h.sender = SystemSender
        ELSE h.sender # Nothing /\ \E i \in Moments(h) : h.sender = past[i].sender[h.channel]
    <2>1. c \in Media
      BY <1>1, FormOf DEF Good, Course, Sendings
    <2>2. IF Form(o).system /\ Original(o) THEN sending[o].sender[c] = SystemSender
          ELSE \E i \in sending[o].from..upto : sending[o].sender[c] = past[i].sender[c]
      BY <1>1, <1>3, <2>1 DEF Good, SignedFrom, Ready
    <2> QED BY <1>5, <2>2 DEF Moments
  <1>7. IF Form(o).by = "list" THEN \E a \in Form(o).to : p = Listed(a)
        ELSE WasFound(o, p, sending[o].from, upto)
    BY <1>2, PeopleFound
  <1>8. c \in Media /\ (Form(o).by = "list" => c = "EMail")
    BY <1>1, FormOf DEF Good, Course, Sendings
  <1>9. ASSUME Form(o).by = "list" PROVE h.to \in Form(o).to
    <2>1. PICK a \in Form(o).to : p = Listed(a)
      BY <1>7, <1>9
    <2> QED BY <1>5, <1>8, <1>9, <2>1 DEF Listed
  <1>10. ASSUME Form(o).by # "list"
         PROVE  /\ h.id \in Form(o).to
                /\ \E i \in Moments(h) : past[i].profile[h.id] # Nothing
                                       /\ h.to = Person(h.id, past[i].profile[h.id])[h.channel]
    <2>1. WasFound(o, p, sending[o].from, upto)
      BY <1>7, <1>10
    <2> QED BY <1>5, <2>1 DEF WasFound, Moments
  <1>11. h.from \in 1..Len(past)
    BY <1>1, <1>5 DEF Good
  <1>12. Form(h.of) = Form(o) /\ (Original(h.of) <=> Original(o))
    BY <1>5
  <1>13. GoodLetter(h)
    BY <1>3, <1>5, <1>6, <1>8, <1>9, <1>10, <1>11, <1>12 DEF GoodLetter
  <1> QED BY <1>4, <1>13

\* A channel is left for the others of its run.
LEMMA LeftGood ==
  ASSUME EnvelopeInv, NEW o \in Objects, NEW c \in sending[o].todo, In(o, "send"), Leave(o, c),
         UNCHANGED <<past, form, stored>>
  PROVE  /\ DOMAIN sending' = Objects /\ \A q \in Objects : Good(q, sending[q], stored)'
         /\ past' \in Seq(Worlds) /\ Len(past') >= 1 /\ stored' \subseteq Letters
         /\ \A l \in Letters : form'[l] \in Forms[l]
         /\ \A h : GoodLetter(h)' <=> GoodLetter(h)
         /\ sending'[o].at \in {"send", "over"} /\ c \notin sending'[o].todo
         /\ \A h \in posted : Served(h)'
  <1>1. Good(o, sending[o], stored) /\ sending[o].at = "send"
    BY DEF EnvelopeInv, In
  <1>2. PICK s : s = IF sending[o].todo = {c} THEN [Unsent EXCEPT !.at = "over"]
                     ELSE [sending[o] EXCEPT !.todo = @ \ {c}]
    OBVIOUS
  <1>3. sending' = [sending EXCEPT ![o] = s]
    BY <1>2 DEF Leave, Put
  <1>4. Good(o, s, stored) /\ s.at \in {"send", "over"} /\ s.todo \subseteq sending[o].todo \ {c}
    <2>1. CASE sending[o].todo = {c}
      <3>1. s = [Unsent EXCEPT !.at = "over"]
        BY <1>2, <2>1
      <3>2. /\ s \in Sendings /\ s.at = "over" /\ s.people = {} /\ s.todo = {}
            /\ s.from \in 1..Len(past) /\ s.upto \in 1..Len(past) /\ SignedFrom(o, s) /\ PeopleFrom(o, s)
        BY <3>1, UnsentGood
      <3>3. Course(o, s, stored)
        BY <1>1, <3>2 DEF Good, Course, Reading
      <3> QED BY <3>2, <3>3 DEF Good
    <2>2. CASE sending[o].todo # {c}
      <3>1. /\ s \in Sendings /\ s.at = "send" /\ s.from = sending[o].from /\ s.upto = sending[o].upto
            /\ s.people = sending[o].people /\ s.sender = sending[o].sender
            /\ s.todo = sending[o].todo \ {c}
        BY <1>1, <1>2, <2>2 DEF Good, Sendings
      <3>2. Till(s) = Till(sending[o])
        BY <1>1, <3>1 DEF Till
      <3>3. SignedFrom(o, s) /\ PeopleFrom(o, s) /\ Course(o, s, stored)
        BY <1>1, <3>1, <3>2 DEF Good, SignedFrom, PeopleFrom, Course
      <3> QED BY <1>1, <3>1, <3>3 DEF Good
    <2> QED BY <2>1, <2>2
  <1>5. sending'[o] = s /\ \A q \in Objects \ {o} : sending'[q] = sending[q]
    BY <1>3 DEF EnvelopeInv
  <1>6. ASSUME NEW h \in posted PROVE Served(h)'
    BY <1>4, <1>5 DEF EnvelopeInv, Served, GoodLetter
  <1>7. Good(o, s, stored')
    BY <1>4
  <1> QED BY <1>3, <1>4, <1>5, <1>6, <1>7, ObjectKept

LEMMA ServeGood ==
  ASSUME EnvelopeInv, NEW o \in Objects, NEW c \in Media, Serve(o, c)
  PROVE  EnvelopeInv'
  <1>1. /\ In(o, "send") /\ c \in sending[o].todo /\ Leave(o, c) /\ UNCHANGED <<past, form, stored>>
        /\ sending[o].at = "send"
    BY DEF Serve, In
  <1>2. /\ DOMAIN sending' = Objects /\ \A q \in Objects : Good(q, sending[q], stored)'
        /\ past' \in Seq(Worlds) /\ Len(past') >= 1 /\ stored' \subseteq Letters
        /\ \A l \in Letters : form'[l] \in Forms[l]
        /\ \A h : GoodLetter(h)' <=> GoodLetter(h)
        /\ sending'[o].at \in {"send", "over"} /\ c \notin sending'[o].todo
        /\ \A h \in posted : Served(h)'
    BY <1>1, LeftGood
  <1>3. CASE posted' = posted
    <2>1. OneCopyEach' /\ MailedOnce'
      BY <1>3 DEF EnvelopeInv, OneCopyEach, MailedOnce
    <2> QED BY <1>2, <1>3, <2>1 DEF EnvelopeInv
  <1>4. CASE posted' # posted
    <2>1. /\ sending[o].sender[c] # Nothing /\ Readable(o)
          /\ \E S \in Unique(o, c) : \E T \in Outcomes(o, c, S) :
               posted' = posted \union {Letter(o, c, p) : p \in T}
      BY <1>4 DEF Serve
    <2>0. PICK S \in Unique(o, c) : \E T \in Outcomes(o, c, S) :
            posted' = posted \union {Letter(o, c, p) : p \in T}
      BY <2>1
    <2>2. PICK T \in Outcomes(o, c, S) :
            posted' = posted \union {Letter(o, c, p) : p \in T}
      BY <2>0
    <2>3. S \subseteq People(o) /\ \A p, q \in S : p[c] = q[c] => p = q
      BY DEF Unique
    <2>5. /\ T \subseteq {p \in S : ~Done(o, c, p)}
          /\ \A p, q \in T : p.id = q.id => p = q
      <3>1. T \subseteq {p \in S : ~Replaced(o, c, p) /\ ~Done(o, c, p) /\ p[c] # Nothing}
            /\ \A p, q \in T : p.id = q.id => p = q
        BY DEF Outcomes
      <3> QED BY <3>1
    <2>6. ASSUME NEW p \in T
          PROVE  LET h == Letter(o, c, p) IN
                 GoodLetter(h) /\ h.of = o /\ h.channel = c /\ h.id = p.id /\ h.to = p[c]
      <3>1. p \in People(o)
        BY <2>3, <2>5
      <3>2. GoodLetter(Letter(o, c, p))
        BY <1>1, <2>1, <3>1, LetterGood
      <3> QED BY <3>2 DEF Letter
    <2>8. \A h \in posted' : h \in posted \/ \E p \in T : h = Letter(o, c, p)
      BY <2>2
    <2>9. \A h \in posted' : GoodLetter(h)' /\ Served(h)'
      <3> TAKE h \in posted'
      <3>1. CASE h \in posted
        BY <1>2, <3>1 DEF EnvelopeInv
      <3>2. ASSUME NEW p \in T, h = Letter(o, c, p) PROVE GoodLetter(h)' /\ Served(h)'
        BY <1>2, <2>6, <3>2 DEF Served
      <3> QED BY <2>8, <3>1, <3>2
    \* What was handed over before was on another channel, in another run, or
    \* stops the mail to its recipient.
    <2>10. ASSUME NEW h \in posted, NEW p \in T PROVE ~(h.of = o /\ h.channel = c)
      BY <1>1 DEF EnvelopeInv, Served
    <2>11. ASSUME NEW h \in posted, NEW p \in T, c = "EMail"
           PROVE  ~(h.channel = "EMail" /\ h.of[1] = o[1] /\ h.id = p.id)
      BY <2>5, <2>11 DEF Done
    <2>12. ASSUME NEW h \in posted', NEW k \in posted', h.of = k.of, h.channel = k.channel, h.to = k.to
           PROVE  h = k
      <3>1. CASE h \in posted /\ k \in posted
        BY <2>12, <3>1 DEF EnvelopeInv, OneCopyEach
      <3>2. ASSUME NEW p \in T, NEW q \in T, h = Letter(o, c, p), k = Letter(o, c, q) PROVE h = k
        <4>1. p[c] = q[c] /\ p \in S /\ q \in S
          BY <2>5, <2>6, <2>12, <3>2
        <4> QED BY <2>3, <3>2, <4>1
      <3> QED BY <2>6, <2>8, <2>10, <2>12, <3>1, <3>2
    <2>13. ASSUME NEW h \in posted', NEW k \in posted', h.channel = "EMail", k.channel = "EMail",
                  h.of[1] = k.of[1], h.id = k.id
           PROVE  h = k
      <3>1. CASE h \in posted /\ k \in posted
        BY <2>13, <3>1 DEF EnvelopeInv, MailedOnce
      <3>2. ASSUME NEW p \in T, NEW q \in T, h = Letter(o, c, p), k = Letter(o, c, q) PROVE h = k
        BY <2>5, <2>6, <2>13, <3>2
      <3> QED BY <2>6, <2>8, <2>11, <2>13, <3>1, <3>2
    <2>14. OneCopyEach' /\ MailedOnce'
      BY <2>12, <2>13 DEF OneCopyEach, MailedOnce
    <2> QED BY <1>2, <2>9, <2>14 DEF EnvelopeInv
  <1> QED BY <1>3, <1>4

LEMMA EditGood ==
  ASSUME EnvelopeInv,
         \/ \E c \in Media, s \in Senders : EditSender(c, s)
         \/ \E b \in BOOLEAN : EditFallback(b)
         \/ \E u \in Users : \/ \E a \in Addresses : EditMail(u, a)
                             \/ \E n \in Numbers \union {Nothing} : EditPhone(u, n)
                             \/ Delete(u)
  PROVE  EnvelopeInv'
  <1>1. Present \in Worlds
    BY PresentWorld
  <1>2. ASSUME NEW w \in Worlds, Edit(w), \A u \in Users : Present.profile[u] = Nothing => w.profile[u] = Nothing
        PROVE  EnvelopeInv'
    BY <1>2, PastGrows DEF Edit
  <1>3. ASSUME NEW c \in Media, NEW s \in Senders, EditSender(c, s) PROVE EnvelopeInv'
    <2>1. PICK w : w = [Present EXCEPT !.sender[c] = s]
      OBVIOUS
    <2>2. w \in Worlds /\ w.profile = Present.profile
      BY <1>1, <2>1 DEF Worlds
    <2> QED BY <1>2, <1>3, <2>1, <2>2 DEF EditSender
  <1>4. ASSUME NEW b \in BOOLEAN, EditFallback(b) PROVE EnvelopeInv'
    <2>1. PICK w : w = [Present EXCEPT !.fallback = b]
      OBVIOUS
    <2>2. w \in Worlds /\ w.profile = Present.profile
      BY <1>1, <2>1 DEF Worlds
    <2> QED BY <1>2, <1>4, <2>1, <2>2 DEF EditFallback
  <1>5. ASSUME NEW u \in Users, NEW p \in Profile \union {Nothing}, EditProfile(u, p),
               Present.profile[u] = Nothing => p = Nothing
        PROVE  EnvelopeInv'
    <2>1. PICK w : w = [Present EXCEPT !.profile[u] = p]
      OBVIOUS
    <2>2. w \in Worlds /\ w.profile = [Present.profile EXCEPT ![u] = p]
      BY <1>1, <2>1 DEF Worlds
    <2>3. Present.profile \in [Users -> Profile \union {Nothing}]
      BY <1>1 DEF Worlds
    <2>4. \A v \in Users : Present.profile[v] = Nothing => w.profile[v] = Nothing
      BY <1>5, <2>2, <2>3
    <2> QED BY <1>2, <1>5, <2>1, <2>2, <2>4 DEF EditProfile
  <1>6. \A u \in Users : Present.profile[u] # Nothing => Present.profile[u] \in Profile
    BY <1>1 DEF Worlds
  <1>7. ASSUME NEW u \in Users, NEW a \in Addresses, EditMail(u, a) PROVE EnvelopeInv'
    <2>1. PICK p : p = [Present.profile[u] EXCEPT !.mail = a]
      OBVIOUS
    <2>2. p \in Profile /\ Present.profile[u] # Nothing /\ EditProfile(u, p)
      BY <1>6, <1>7, <2>1 DEF EditMail, Profile
    <2> QED BY <1>5, <2>2
  <1>8. ASSUME NEW u \in Users, NEW n \in Numbers \union {Nothing}, EditPhone(u, n) PROVE EnvelopeInv'
    <2>1. PICK p : p = [Present.profile[u] EXCEPT !.phone = n]
      OBVIOUS
    <2>2. p \in Profile /\ Present.profile[u] # Nothing /\ EditProfile(u, p)
      BY <1>6, <1>8, <2>1 DEF EditPhone, Profile
    <2> QED BY <1>5, <2>2
  <1>9. ASSUME NEW u \in Users, Delete(u) PROVE EnvelopeInv'
    BY <1>5, <1>9 DEF Delete
  <1> QED BY <1>3, <1>4, <1>7, <1>8, <1>9

LEMMA EnvelopeStep == ASSUME EnvelopeInv, [EnvelopeNext]_envelopeVars PROVE EnvelopeInv'
  <1>1. ASSUME NEW o \in Objects, Steps(o) PROVE EnvelopeInv'
    BY <1>1, BeginGood, ReadFallbackGood, StoreRowGood, EnqueueGood, ReadSenderGood, ServeGood, GatherGood
       DEF Steps
  <1>2. ASSUME UNCHANGED envelopeVars PROVE EnvelopeInv'
    <2>1. UNCHANGED <<past, form, stored, sending, posted>>
      BY <1>2 DEF envelopeVars
    <2>2. \A o, s, rows : Good(o, s, rows)' <=> Good(o, s, rows)
      BY <2>1 DEF Good, SignedFrom, PeopleFrom, WasFound, Course, Till, Form, Present
    <2>3. \A h : (GoodLetter(h)' <=> GoodLetter(h)) /\ (Served(h)' <=> Served(h))
      BY <2>1 DEF GoodLetter, Served, Form, Moments
    <2>4. \A o \in Objects : Good(o, sending[o], stored)'
      <3> TAKE o \in Objects
      <3>1. PICK s, rows : s = sending[o] /\ rows = stored
        OBVIOUS
      <3>2. Good(o, s, rows)'
        BY <2>2, <3>1 DEF EnvelopeInv
      <3> QED BY <2>1, <3>1, <3>2
    <2> QED BY <2>1, <2>3, <2>4 DEF EnvelopeInv, OneCopyEach, MailedOnce
  <1> QED BY <1>1, <1>2, EditGood DEF EnvelopeNext

LEMMA EnvelopeShows ==
  EnvelopeInv => SignedInTime /\ AddressedInTime /\ OneCopyEach /\ MailedOnce /\ RowsHaveTasks
  <1> SUFFICES ASSUME EnvelopeInv
               PROVE  SignedInTime /\ AddressedInTime /\ OneCopyEach /\ MailedOnce /\ RowsHaveTasks
    OBVIOUS
  <1>1. SignedInTime /\ AddressedInTime
    BY DEF EnvelopeInv, GoodLetter, SignedInTime, AddressedInTime, Form
  <1>2. RowsHaveTasks
    <2> SUFFICES ASSUME NEW l \in stored, In(<<l, "first">>, "failed")
                 PROVE  form[l].by = "task" /\ \E u \in form[l].to : Present.profile[u] = Nothing
      BY DEF RowsHaveTasks
    <2>1. PICK o : o = <<l, "first">>
      OBVIOUS
    <2>2. o \in Objects /\ Original(o) /\ o[1] = l /\ Form(o) = form[l] /\ sending[o].at = "failed"
      BY <2>1 DEF Objects, Original, Form, In, EnvelopeInv
    <2> QED BY <2>2 DEF EnvelopeInv, Good, Course
  <1> QED BY <1>1, <1>2 DEF EnvelopeInv

LEMMA EnvelopeAlways == EnvelopeSpec => []EnvelopeInv
  <1>1. EnvelopeInv /\ [EnvelopeNext]_envelopeVars => EnvelopeInv'
    BY EnvelopeStep
  <1> QED BY <1>1, EnvelopeStarts, PTL DEF EnvelopeSpec

\* A message is sent under a sender its project had between the call and the
\* moment its task was enqueued (notification.py:134-156), a system mail under
\* the system's when it is sent first; it goes where its recipient was in that
\* time, and one of a list to the list (channel.py:131-155): for any settings
\* and profiles, and however often they change.
THEOREM EnvelopesAreInTime == EnvelopeSpec => []SentInTime
  <1>1. EnvelopeInv => SentInTime
    BY EnvelopeShows DEF SentInTime
  <1> QED BY <1>1, EnvelopeAlways, PTL

\* No run sends to an address or number twice (sms_channel.py:19-28), and no
\* recipient is mailed twice for a notification, resent or not, though his
\* address changed (channel.py:157-192, by the delivery reports).
THEOREM EnvelopesAreSentOnce == EnvelopeSpec => []SentOnce
  <1>1. EnvelopeInv => SentOnce
    BY EnvelopeShows DEF SentOnce
  <1> QED BY <1>1, EnvelopeAlways, PTL

\* A row without a task is of a request that met a deleted user
\* (notification.py:194-207).
THEOREM RowsOfTheFailed == EnvelopeSpec => []RowsHaveTasks
  BY EnvelopeAlways, EnvelopeShows, PTL

-----------------------------------------------------------------------------
(* Notices *)

AckLists == [Planned -> Seq(Ranges)]
Titles ==
  [poll : {"idle", "sent", "served"}, list : SUBSET Planned, data : AckLists \union {<<>>},
   known : SUBSET (Planned \X Ranges), item : Planned \union {NoNotice}, range : Ranges \union {0},
   ack : {"none", "open", "read", "done"}, session : AckLists \union {<<>>}]

\* Each range is in a list once.
Once(s) == \A i, j \in 1..Len(s) : s[i] = s[j] => i = j

GoodTitle(s) ==
  /\ s \in Titles
  /\ s.poll = "served" => s.data \in AckLists
  /\ s.ack \in {"open", "read"} => s.item \in Planned /\ s.range \in Ranges
  /\ s.ack = "read" => s.session \in AckLists /\ \A n \in Planned : Once(s.session[n])

\* As long as no two acknowledgements ran beside each other, the only one that
\* runs has read what there is, what was answered is there, and an answer to a
\* poll has what had been answered when it was sent.
Alone ==
  /\ \A p, q \in Pages : page[p].ack = "read" /\ page[q].ack = "read" => p = q
  /\ \A p \in Pages : page[p].ack = "read" => page[p].session = acks
  /\ \A x \in answered : Contains(acks[x[1]], x[2])
  /\ \A p \in Pages : /\ page[p].poll \in {"sent", "served"} => page[p].known \subseteq answered
                      /\ page[p].poll = "served" =>
                           \A x \in page[p].known : Contains(page[p].data[x[1]], x[2])
  /\ repeated = {}

NoticesInv ==
  /\ acks \in AckLists /\ \A n \in Planned : Once(acks[n])
  /\ DOMAIN page = Pages /\ \A p \in Pages : GoodTitle(page[p])
  /\ answered \subseteq Planned \X Ranges /\ mixed \in BOOLEAN
  /\ ~mixed => Alone

LEMMA WithRange ==
  ASSUME NEW s \in Seq(Ranges), NEW r \in Ranges, Once(s)
  PROVE  /\ With(s, r) \in Seq(Ranges) /\ Once(With(s, r))
         /\ Contains(With(s, r), r) /\ \A q : Contains(s, q) => Contains(With(s, r), q)
  <1>1. CASE Contains(s, r)
    BY <1>1 DEF With
  <1>2. CASE ~Contains(s, r)
    <2>1. PICK t : t = Append(s, r)
      OBVIOUS
    <2>2. /\ t \in Seq(Ranges) /\ Len(t) = Len(s) + 1 /\ Len(s) \in Nat /\ t[Len(s) + 1] = r
          /\ \A i \in 1..Len(s) : t[i] = s[i]
      BY <2>1
    <2>3. \A i \in 1..Len(s) : s[i] # r
      BY <1>2 DEF Contains
    <2>4. Once(t)
      <3> SUFFICES ASSUME NEW i \in 1..Len(t), NEW j \in 1..Len(t), t[i] = t[j] PROVE i = j
        BY DEF Once
      <3>1. (i \in 1..Len(s) \/ i = Len(s) + 1) /\ (j \in 1..Len(s) \/ j = Len(s) + 1)
        BY <2>2
      <3> QED BY <3>1, <2>2, <2>3 DEF Once
    <2>5. Contains(t, r) /\ \A q : Contains(s, q) => Contains(t, q)
      <3>1. \A i \in 1..Len(s) : i \in 1..Len(t)
        BY <2>2
      <3>2. Len(s) + 1 \in 1..Len(t)
        BY <2>2
      <3> QED BY <2>2, <3>1, <3>2 DEF Contains
    <2>6. With(s, r) = t
      BY <1>2, <2>1 DEF With
    <2> QED BY <2>2, <2>4, <2>5, <2>6
  <1> QED BY <1>1, <1>2

\* A list that has three ranges has all.
LEMMA AllRanges ==
  ASSUME NEW s \in Seq(Ranges), Once(s), Len(s) >= 3
  PROVE  Ranges \subseteq ToSet(s)
  <1>1. {1, 2, 3} \subseteq 1..Len(s) /\ 1..Len(s) = DOMAIN s
    OBVIOUS
  <1>2. s[1] # s[2] /\ s[1] # s[3] /\ s[2] # s[3]
    BY <1>1 DEF Once
  <1>3. s[1] \in Ranges /\ s[2] \in Ranges /\ s[3] \in Ranges
    BY <1>1
  <1>4. \A r \in Ranges : r = s[1] \/ r = s[2] \/ r = s[3]
    BY <1>2, <1>3 DEF Ranges
  <1> QED BY <1>1, <1>4 DEF ToSet

LEMMA OpenedGood == GoodTitle(Opened)
  BY DEF GoodTitle, Titles, Opened, Ranges

LEMMA NoticesStart == NoticesInit => NoticesInv
  <1>1. Once(<<>>) /\ <<>> \in Seq(Ranges)
    BY DEF Once
  <1> SUFFICES ASSUME NoticesInit PROVE NoticesInv
    OBVIOUS
  <1>2. /\ acks \in AckLists /\ \A n \in Planned : Once(acks[n])
    BY <1>1 DEF NoticesInit, AckLists
  <1>3. DOMAIN page = Pages /\ \A p \in Pages : page[p] = Opened
    BY DEF NoticesInit
  <1>4. Opened.ack = "none" /\ Opened.poll = "idle"
    BY DEF Opened
  <1>5. Alone
    BY <1>3, <1>4 DEF NoticesInit, Alone
  <1> QED BY <1>2, <1>3, <1>5, OpenedGood DEF NoticesInit, NoticesInv

\* A step of a page that leaves the session and what was answered
LEMMA TitleStep ==
  ASSUME NoticesInv, NEW p \in Pages, NEW s, page' = [page EXCEPT ![p] = s], GoodTitle(s),
         UNCHANGED <<acks, answered, mixed>>,
         s.ack = "read" => page[p].ack = "read" /\ s.session = page[p].session,
         ~mixed => /\ repeated' = {}
                   /\ s.poll \in {"sent", "served"} => s.known \subseteq answered
                   /\ s.poll = "served" => \A x \in s.known : Contains(s.data[x[1]], x[2])
  PROVE  NoticesInv'
  <1>1. DOMAIN page' = Pages /\ page'[p] = s /\ \A q \in Pages \ {p} : page'[q] = page[q]
    BY DEF NoticesInv
  <1>2. \A q \in Pages : GoodTitle(page'[q])
    BY <1>1 DEF NoticesInv
  <1>3. ASSUME ~mixed PROVE Alone'
    BY <1>1, <1>3 DEF NoticesInv, Alone
  <1>4. \A q \in Pages : GoodTitle(page[q])'
    BY <1>2 DEF GoodTitle, Titles, AckLists, Once
  <1> QED BY <1>1, <1>3, <1>4 DEF NoticesInv, AckLists, Once

LEMMA NoticesStep == ASSUME NoticesInv, [NoticesNext]_noticesVars PROVE NoticesInv'
  <1>0. \A p \in Pages : GoodTitle(page[p])
    BY DEF NoticesInv
  <1>1. ASSUME UNCHANGED <<acks, page, repeated, answered, mixed>> PROVE NoticesInv'
    BY <1>1 DEF NoticesInv, Alone, GoodTitle, Once, AckLists, Titles
  <1>2. ASSUME NEW p \in Pages, SendPoll(p) PROVE NoticesInv'
    <2>1. PICK s : s = [page[p] EXCEPT !.poll = "sent", !.known = answered]
      OBVIOUS
    <2>2. /\ page' = [page EXCEPT ![p] = s] /\ UNCHANGED <<acks, answered, mixed, repeated>>
      BY <1>2, <2>1 DEF SendPoll, SetPage
    <2>3. /\ GoodTitle(s) /\ s.poll = "sent" /\ s.known = answered
          /\ s.ack = page[p].ack /\ s.session = page[p].session
      BY <1>0, <2>1 DEF GoodTitle, Titles, NoticesInv
    <2> QED BY <2>2, <2>3, TitleStep DEF NoticesInv, Alone
  <1>3. ASSUME NEW p \in Pages, ServeList(p) PROVE NoticesInv'
    <2>1. PICK offered : offered = Offered
      OBVIOUS
    <2>2. offered \subseteq Planned
      BY <2>1 DEF Offered, Upcoming
    <2>3. PICK s : s = [page[p] EXCEPT !.poll = "served", !.list = offered, !.data = acks]
      OBVIOUS
    <2>4. /\ page' = [page EXCEPT ![p] = s] /\ UNCHANGED <<acks, answered, mixed, repeated>>
          /\ page[p].poll = "sent"
      BY <1>3, <2>1, <2>3 DEF ServeList, SetPage
    <2>5. /\ GoodTitle(s) /\ s.poll = "served" /\ s.known = page[p].known /\ s.data = acks
          /\ s.ack = page[p].ack /\ s.session = page[p].session
      BY <1>0, <2>2, <2>3 DEF GoodTitle, Titles, NoticesInv
    <2>6. ~mixed => s.known \subseteq answered /\ repeated' = {}
                    /\ \A x \in s.known : Contains(s.data[x[1]], x[2])
      BY <2>4, <2>5 DEF NoticesInv, Alone
    <2> QED BY <2>4, <2>5, <2>6, TitleStep
  <1>4. ASSUME NEW p \in Pages, Receive(p) \/ PollFails(p) PROVE NoticesInv'
    <2>1. PICK idle : idle = [page[p] EXCEPT !.poll = "idle", !.list = {}, !.data = <<>>, !.known = {}]
      OBVIOUS
    <2>2. /\ GoodTitle(idle) /\ idle.poll = "idle" /\ idle.item = page[p].item
          /\ idle.ack = page[p].ack /\ idle.session = page[p].session
      BY <1>0, <2>1 DEF GoodTitle, Titles
    <2>3. UNCHANGED <<acks, answered, mixed>>
      BY <1>4 DEF Receive, PollFails
    <2>4. ASSUME page' = [page EXCEPT ![p] = idle], repeated' = repeated PROVE NoticesInv'
      BY <2>2, <2>3, <2>4, TitleStep DEF NoticesInv, Alone
    <2>5. ASSUME NEW n \in page[p].list, NEW r \in Ranges, page[p].poll = "served",
                 Due(page[p].data, n, r), page[p].item = NoNotice,
                 page' = [page EXCEPT ![p] = [idle EXCEPT !.item = n, !.range = r, !.ack = "open"]],
                 repeated' = IF <<n, r>> \in page[p].known THEN repeated \union {<<n, r>>} ELSE repeated
          PROVE  NoticesInv'
      <3>1. PICK s : s = [idle EXCEPT !.item = n, !.range = r, !.ack = "open"]
        OBVIOUS
      <3>2. n \in Planned
        BY <1>0, <2>5 DEF GoodTitle, Titles
      <3>3. GoodTitle(s) /\ s.poll = "idle" /\ s.ack = "open"
        BY <2>2, <3>1, <3>2 DEF GoodTitle, Titles
      <3>4. ~mixed => repeated' = {}
        BY <2>5 DEF NoticesInv, Alone, Due
      <3> QED BY <2>3, <2>5, <3>1, <3>3, <3>4, TitleStep
    <2> QED BY <1>4, <2>1, <2>4, <2>5 DEF Receive, PollFails, SetPage
  <1>5. ASSUME NEW p \in Pages, ReadAcks(p) PROVE NoticesInv'
    <2>1. PICK s : s = [page[p] EXCEPT !.ack = "read", !.session = acks]
      OBVIOUS
    <2>2. /\ page' = [page EXCEPT ![p] = s] /\ UNCHANGED <<acks, answered, repeated>>
          /\ page[p].ack = "open" /\ mixed' = (mixed \/ \E q \in Pages : page[q].ack = "read")
      BY <1>5, <2>1 DEF ReadAcks, SetPage
    <2>3. /\ GoodTitle(s) /\ s.ack = "read" /\ s.session = acks /\ s.poll = page[p].poll
          /\ s.known = page[p].known /\ s.data = page[p].data
      BY <1>0, <2>1, <2>2 DEF GoodTitle, Titles, NoticesInv
    <2>4. DOMAIN page' = Pages /\ page'[p] = s /\ \A q \in Pages \ {p} : page'[q] = page[q]
      BY <2>2 DEF NoticesInv
    <2>5. \A q \in Pages : GoodTitle(page[q])'
      <3>1. \A q \in Pages : GoodTitle(page'[q])
        BY <1>0, <2>3, <2>4
      <3> QED BY <3>1 DEF GoodTitle, Titles, AckLists, Once
    <2>6. ASSUME ~mixed' PROVE Alone'
      <3>1. ~mixed /\ \A q \in Pages : page[q].ack # "read"
        BY <2>2, <2>6 DEF NoticesInv
      <3> QED BY <2>2, <2>3, <2>4, <3>1 DEF NoticesInv, Alone
    <2> QED BY <2>2, <2>4, <2>5, <2>6 DEF NoticesInv, AckLists, Once
  <1>6. ASSUME NEW p \in Pages, SaveAcks(p) PROVE NoticesInv'
    <2>1. PICK n, r, session : n = page[p].item /\ r = page[p].range /\ session = page[p].session
      OBVIOUS
    <2>2. /\ page[p].ack = "read" /\ n \in Planned /\ r \in Ranges /\ session \in AckLists
          /\ \A m \in Planned : Once(session[m])
      BY <1>0, <1>6, <2>1 DEF SaveAcks, GoodTitle
    <2>3. PICK s : s = [page[p] EXCEPT !.ack = "done", !.session = <<>>]
      OBVIOUS
    <2>4. PICK list : list = With(session[n], r)
      OBVIOUS
    <2>5. /\ page' = [page EXCEPT ![p] = s] /\ UNCHANGED <<mixed, repeated>>
          /\ acks' = [session EXCEPT ![n] = list] /\ answered' = answered \union {<<n, r>>}
      BY <1>6, <2>1, <2>3, <2>4 DEF SaveAcks, SetPage
    <2>6. /\ list \in Seq(Ranges) /\ Once(list) /\ Contains(list, r)
          /\ \A q : Contains(session[n], q) => Contains(list, q)
      <3>1. session[n] \in Seq(Ranges) /\ Once(session[n])
        BY <2>2 DEF AckLists
      <3> QED BY <2>2, <2>4, <3>1, WithRange
    <2>7. acks' \in AckLists /\ \A m \in Planned : Once(acks'[m])
      BY <2>2, <2>5, <2>6 DEF AckLists
    <2>8. /\ GoodTitle(s) /\ s.ack = "done" /\ s.poll = page[p].poll
          /\ s.known = page[p].known /\ s.data = page[p].data
      BY <1>0, <2>3 DEF GoodTitle, Titles
    <2>9. DOMAIN page' = Pages /\ page'[p] = s /\ \A q \in Pages \ {p} : page'[q] = page[q]
      BY <2>5 DEF NoticesInv
    <2>10. \A q \in Pages : GoodTitle(page[q])'
      <3>1. \A q \in Pages : GoodTitle(page'[q])
        BY <1>0, <2>8, <2>9
      <3> QED BY <3>1 DEF GoodTitle, Titles, AckLists, Once
    <2>11. ASSUME ~mixed PROVE Alone'
      <3>1. Alone /\ session = acks
        BY <2>1, <2>2, <2>11 DEF NoticesInv, Alone
      <3>2. \A x \in answered' : Contains(acks'[x[1]], x[2])
        <4> TAKE x \in answered'
        <4>1. CASE x = <<n, r>>
          BY <2>2, <2>5, <2>6, <4>1 DEF AckLists
        <4>2. CASE x \in answered
          <5>1. x[1] \in Planned /\ Contains(session[x[1]], x[2])
            BY <3>1, <4>2 DEF Alone, NoticesInv
          <5> QED BY <2>2, <2>5, <2>6, <5>1 DEF AckLists
        <4> QED BY <2>5, <4>1, <4>2
      <3>3. \A q \in Pages : page'[q].ack # "read"
        BY <2>2, <2>8, <2>9, <3>1 DEF Alone
      <3> QED BY <2>5, <2>8, <2>9, <3>1, <3>2, <3>3 DEF Alone
    <2>12. answered' \subseteq Planned \X Ranges
      BY <2>2, <2>5 DEF NoticesInv
    <2>13. \A m \in Planned : Once(acks[m])'
      BY <2>7 DEF Once
    <2> QED BY <2>5, <2>7, <2>9, <2>10, <2>11, <2>12, <2>13 DEF NoticesInv, AckLists
  <1>7. ASSUME NEW p \in Pages, Reload(p) PROVE NoticesInv'
    <2>1. page' = [page EXCEPT ![p] = Opened] /\ UNCHANGED <<acks, answered, mixed, repeated>>
      BY <1>7 DEF Reload, SetPage
    <2>2. Opened.ack = "none" /\ Opened.poll = "idle"
      BY DEF Opened
    <2> QED BY <2>1, <2>2, OpenedGood, TitleStep DEF NoticesInv, Alone
  <1>8. Tick \/ UNCHANGED noticesVars => UNCHANGED <<acks, page, repeated, answered, mixed>>
    BY DEF Tick, noticesVars
  <1> QED BY <1>1, <1>2, <1>3, <1>4, <1>5, <1>6, <1>7, <1>8 DEF NoticesNext

LEMMA NoticesShow == NoticesInv => HiddenWhenRead /\ NotShownAgain
  <1> SUFFICES ASSUME NoticesInv PROVE HiddenWhenRead /\ NotShownAgain
    OBVIOUS
  <1>1. HiddenWhenRead
    BY AllRanges DEF NoticesInv, AckLists, HiddenWhenRead
  <1> QED BY <1>1 DEF NoticesInv, Alone, NotShownAgain

LEMMA NoticesAlways == NoticesSpec => []NoticesInv
  <1>1. NoticesInv /\ [NoticesNext]_noticesVars => NoticesInv'
    BY NoticesStep
  <1> QED BY <1>1, NoticesStart, PTL DEF NoticesSpec

\* A notice is left out of the list before its time only when it was read in
\* all of its ranges (rest/maintenance_notification.py:149-156, 192-197), and a
\* page that polls after the answer to an acknowledgement does not show the
\* notice again in that range, if no two acknowledgements ran beside each other
\* (titlebar.vue:105-139): for any notices, pages and clock.
THEOREM NoticesAreRead == NoticesSpec => []ReadIsRead
  <1>1. NoticesInv => ReadIsRead
    BY NoticesShow DEF ReadIsRead
  <1> QED BY <1>1, NoticesAlways, PTL
=============================================================================
