--------------------------- MODULE ServicesProofs ---------------------------
(* What SMSCounter.count promises, for every text; and the invariants of the *)
(* parts that Services puts side by side, each with the inductive          *)
(* invariant of its part.                                                    *)
EXTENDS Services, SequenceTheorems, TLAPS

LEMMA ClassOfType == ASSUME NEW code \in Int PROVE ClassOf(code) \in Classes
BY DEF ClassOf, Classes

LEMMA LengthType ==
  ASSUME NEW text \in Text
  PROVE  /\ Length(text) \in Nat
         /\ PerMessage(text) \in {67, 70, 153, 160}
BY DEF Text, Classes, Length, Characters, PerMessage, Encoding

\* The number of parts, without the division.
LEMMA CountIs ==
  ASSUME NEW n \in Nat, NEW per \in {67, 70, 153, 160}
  PROVE  LET count == (n + per - 1) \div per
         IN count \in Nat /\ per * count - n \in 0..(per - 1)
<1>1. CASE per = 67 BY <1>1
<1>2. CASE per = 70 BY <1>2
<1>3. CASE per = 153 BY <1>3
<1>4. CASE per = 160 BY <1>4
<1> QED BY <1>1, <1>2, <1>3, <1>4

(* The parts hold the text, and the last one is not empty                    *)
(* (t2.py, count: messages and remaining).                                   *)
THEOREM CountFits ==
  ASSUME NEW text \in Text
  PROVE  Count(text) \in Nat /\ Remaining(text) \in 0..(PerMessage(text) - 1)
BY LengthType, CountIs DEF Count, Remaining

\* More characters in parts that are no larger take no fewer parts.
LEMMA LongerInSmaller ==
  ASSUME NEW n \in Nat, NEW m \in Nat, n <= m, NEW k \in Nat, NEW l \in Nat,
         NEW p \in {67, 70, 153, 160}, NEW q \in {67, 70, 153, 160}, q <= p,
         p * k - n \in 0..(p - 1), q * l - m \in 0..(q - 1)
  PROVE  k <= l
<1>1. CASE p = 67 BY <1>1
<1>2. CASE p = 70 BY <1>2
<1>3. CASE p = 153 BY <1>3
<1>4. CASE p = 160 BY <1>4
<1> QED BY <1>1, <1>2, <1>3, <1>4

\* A text of the extended map that becomes UTF16 is at least half as long, in
\* parts of less than half the size.
LEMMA HalfAsLong ==
  ASSUME NEW n \in Nat, NEW m \in Nat, n + 2 <= 2 * m, NEW k \in Nat, NEW l \in Nat,
         NEW p \in Nat, p = (IF n > 160 THEN 153 ELSE 160),
         NEW q \in Nat, q = (IF m > 70 THEN 67 ELSE 70),
         p * k - n \in 0..(p - 1), q * l - m \in 0..(q - 1)
  PROVE  k <= l
<1>1. CASE n > 160
  <2>1. p = 153 /\ q = 67 BY <1>1
  <2> QED BY <2>1
<1>2. CASE n <= 160
  <2>1. p = 160 /\ k <= 1 BY <1>2
  <2>2. CASE q = 67 BY <2>1, <2>2
  <2>3. CASE q = 70 BY <2>1, <2>3
  <2> QED BY <2>1, <2>2, <2>3
<1> QED BY <1>1, <1>2

(* A text that is typed on never takes fewer messages, whatever character    *)
(* changes its encoding (t2.py, count).                                      *)
THEOREM CountGrows ==
  ASSUME NEW text \in Text, NEW code \in Int
  PROVE  Count(text) <= Count(Typed(text, code))
<1> DEFINE c == ClassOf(code)
<1>1. PICK more \in Text : more = Typed(text, code)
  <2>1. c \in Classes BY ClassOfType
  <2>2. [text EXCEPT ![c] = @ + 1] \in [Classes -> Nat] BY <2>1 DEF Text
  <2> QED BY <2>2 DEF Typed, Text
<1>2. /\ text["basic"] \in Nat /\ text["both"] \in Nat
      /\ text["extended"] \in Nat /\ text["other"] \in Nat
  BY DEF Text, Classes
<1>3. /\ c \in Classes
      /\ more["basic"] = IF c = "basic" THEN text["basic"] + 1 ELSE text["basic"]
      /\ more["both"] = IF c = "both" THEN text["both"] + 1 ELSE text["both"]
      /\ more["extended"] = IF c = "extended" THEN text["extended"] + 1 ELSE text["extended"]
      /\ more["other"] = IF c = "other" THEN text["other"] + 1 ELSE text["other"]
  BY <1>1, ClassOfType DEF Typed, Text, Classes
<1>4. /\ Length(text) \in Nat /\ PerMessage(text) \in {67, 70, 153, 160}
      /\ Length(more) \in Nat /\ PerMessage(more) \in {67, 70, 153, 160}
  BY LengthType
<1>5. /\ Count(text) \in Nat /\ Count(more) \in Nat
      /\ PerMessage(text) * Count(text) - Length(text) \in 0..(PerMessage(text) - 1)
      /\ PerMessage(more) * Count(more) - Length(more) \in 0..(PerMessage(more) - 1)
  BY CountFits DEF Remaining
<1>6. CASE Encoding(text) = "GSM_7BIT_EX" /\ Encoding(more) = "UTF16"
  <2>1. Length(text) + 2 <= 2 * Length(more)
    BY <1>2, <1>3, <1>6 DEF Length, Characters, Encoding, Classes
  <2>2. /\ PerMessage(text) = IF Length(text) > 160 THEN 153 ELSE 160
        /\ PerMessage(more) = IF Length(more) > 70 THEN 67 ELSE 70
    BY <1>6 DEF PerMessage
  <2> QED BY <1>1, <1>4, <1>5, <2>1, <2>2, HalfAsLong
<1>7. CASE ~(Encoding(text) = "GSM_7BIT_EX" /\ Encoding(more) = "UTF16")
  <2>1. Length(text) <= Length(more)
    BY <1>2, <1>3, <1>7 DEF Length, Characters, Encoding, Classes
  <2>2. Encoding(text) = "UTF16" => Encoding(more) = "UTF16"
    BY <1>2, <1>3 DEF Encoding, Classes
  <2>3. PerMessage(more) <= PerMessage(text)
    BY <2>1, <2>2, <1>4 DEF PerMessage
  <2> QED BY <1>1, <1>4, <1>5, <2>1, <2>3, LongerInSmaller
<1> QED BY <1>6, <1>7

(* The messages a text is counted as hold it, and fewer would not, whatever  *)
(* its encoding takes off for the joining (t2.py, count: per_message).       *)
THEOREM CountIsFewest ==
  ASSUME NEW text \in Text
  PROVE  /\ Holds(Count(text), text)
         /\ \A fewer \in 0..(Count(text) - 1) : ~Holds(fewer, text)
<1> DEFINE n == Length(text)
           k == Count(text)
<1>1. n \in Nat /\ k \in Nat
  BY LengthType, CountFits
<1>2. PerMessage(text) * k - n \in 0..(PerMessage(text) - 1)
  BY CountFits DEF Remaining
<1>3. CASE Encoding(text) = "UTF16"
  <2>1. PerMessage(text) = IF n > 70 THEN 67 ELSE 70
    BY <1>3 DEF PerMessage
  <2>2. \A messages \in Nat : Holds(messages, text) <=> n <= (IF messages = 1 THEN 70 ELSE 67 * messages)
    BY <1>3 DEF Holds
  <2> HIDE DEF n, k
  <2>3. CASE n > 70
    BY <1>1, <1>2, <2>1, <2>2, <2>3 DEF n, k
  <2>4. CASE n <= 70
    BY <1>1, <1>2, <2>1, <2>2, <2>4 DEF n, k
  <2> QED BY <1>1, <2>3, <2>4
<1>4. CASE Encoding(text) # "UTF16"
  <2>1. PerMessage(text) = IF n > 160 THEN 153 ELSE 160
    BY <1>4 DEF PerMessage
  <2>2. \A messages \in Nat : Holds(messages, text) <=> n <= (IF messages = 1 THEN 160 ELSE 153 * messages)
    BY <1>4 DEF Holds
  <2> HIDE DEF n, k
  <2>3. CASE n > 160
    BY <1>1, <1>2, <2>1, <2>2, <2>3 DEF n, k
  <2>4. CASE n <= 160
    BY <1>1, <1>2, <2>1, <2>2, <2>4 DEF n, k
  <2> QED BY <1>1, <2>3, <2>4
<1> QED BY <1>3, <1>4

(* Every text that is sent is charged as the fewest messages that hold it,   *)
(* and as no fewer once it is typed on (t2.py, count).                       *)
THEOREM ChargedAsFewestMessages == Spec => []ChargedAsFewest
<1>1. ChargedAsFewest
  <2> SUFFICES ASSUME NEW text \in ShortTexts PROVE ChargedAsFewest!(text)
    BY DEF ChargedAsFewest
  <2>1. text \in Text
    BY LicenceAssumption
  <2>2. \A code \in Gsm7Bit \union Gsm7BitEx \union {1} : code \in Int
    BY DEF Gsm7Bit, Gsm7BitEx
  <2> QED BY <2>1, <2>2, CountIsFewest, CountGrows
<1> QED BY <1>1, PTL

-----------------------------------------------------------------------------
(* Whichever part a behaviour is of, each part makes its own steps or rests. *)

LEMMA EachPartSteps ==
  ASSUME [Next]_vars
  PROVE  /\ [UserSessionNext]_sessionVars /\ [DebugNext]_debugVars /\ [LogNext]_logVars
         /\ [MessagesNext]_messageVars /\ [LicenceNext]_licenceVars /\ [RowNext]_rowVars
         /\ [ResetNext]_resetVars /\ [SettingsPageNext]_settingsPageVars /\ [CodeDialogsNext]_dialogVars
<1>1. CASE UNCHANGED vars
  BY <1>1 DEF vars
<1>2. CASE Next
  <2> USE <1>2 DEF Next, Rests
  <2>1. [UserSessionNext]_sessionVars
    OBVIOUS
  <2>2. [DebugNext]_debugVars
    OBVIOUS
  <2>3. [LogNext]_logVars
    OBVIOUS
  <2>4. [MessagesNext]_messageVars
    OBVIOUS
  <2>5. [LicenceNext]_licenceVars
    OBVIOUS
  <2>6. [RowNext]_rowVars
    OBVIOUS
  <2>7. [ResetNext]_resetVars
    OBVIOUS
  <2>8. [SettingsPageNext]_settingsPageVars
    OBVIOUS
  <2>9. [CodeDialogsNext]_dialogVars
    OBVIOUS
  <2> QED
    BY <2>1, <2>2, <2>3, <2>4, <2>5, <2>6, <2>7, <2>8, <2>9
<1> QED
  BY <1>1, <1>2

-----------------------------------------------------------------------------
(* Sequences: what an element is removed from, and more is appended to.      *)

LEMMA AppendIs ==
  ASSUME NEW S, NEW s \in Seq(S), NEW e \in S
  PROVE  /\ Append(s, e) \in Seq(S) /\ Len(s) \in Nat
         /\ Len(Append(s, e)) = Len(s) + 1
         /\ \A i \in 1..Len(s) : Append(s, e)[i] = s[i]
         /\ Append(s, e)[Len(s) + 1] = e
OBVIOUS

\* The elements of two sequences one after the other, by their lengths.
LEMMA ConcatIs ==
  ASSUME NEW S, NEW s1 \in Seq(S), NEW s2 \in Seq(S), NEW m, NEW n, Len(s1) = m, Len(s2) = n
  PROVE  /\ s1 \o s2 \in Seq(S) /\ Len(s1 \o s2) = m + n
         /\ \A j \in 1..(m + n) : (s1 \o s2)[j] = IF j <= m THEN s1[j] ELSE s2[j - m]
BY ConcatProperties

LEMMA RemoveAtIs ==
  ASSUME NEW S, NEW s \in Seq(S), NEW i \in DOMAIN s
  PROVE  /\ RemoveAt(s, i) \in Seq(S) /\ Len(RemoveAt(s, i)) = Len(s) - 1
         /\ \A j \in 1..(Len(s) - 1) : RemoveAt(s, i)[j] = s[IF j < i THEN j ELSE j + 1]
<1> DEFINE f == SubSeq(s, 1, i - 1)
           b == SubSeq(s, i + 1, Len(s))
<1>1. Len(s) \in Nat /\ i \in 1..Len(s)
  OBVIOUS
<1>2. /\ f \in Seq(S) /\ Len(f) = i - 1 /\ \A j \in 1..(i - 1) : f[j] = s[j]
  <2>1. \A j \in 1..(i - 1) : s[j] \in S
    BY <1>1
  <2> QED
    BY <1>1, <2>1, SubSeqProperties
<1>3. /\ b \in Seq(S) /\ Len(b) = Len(s) - i /\ \A j \in 1..(Len(s) - i) : b[j] = s[j + i]
  <2>1. \A j \in (i + 1)..Len(s) : s[j] \in S
    BY <1>1
  <2> QED
    BY <1>1, <2>1, SubSeqProperties
<1> HIDE DEF f, b
<1>4. /\ f \o b \in Seq(S) /\ Len(f \o b) = Len(s) - 1
      /\ \A j \in 1..(Len(s) - 1) : (f \o b)[j] = IF j <= i - 1 THEN f[j] ELSE b[j - (i - 1)]
  <2>1. (i - 1) + (Len(s) - i) = Len(s) - 1
    BY <1>1
  <2>2. /\ f \o b \in Seq(S) /\ Len(f \o b) = (i - 1) + (Len(s) - i)
        /\ \A j \in 1..((i - 1) + (Len(s) - i)) : (f \o b)[j] = IF j <= i - 1 THEN f[j] ELSE b[j - (i - 1)]
    <3>1. f \in Seq(S) /\ b \in Seq(S) /\ Len(f) = i - 1 /\ Len(b) = Len(s) - i
      BY <1>2, <1>3
    <3> QED
      BY <3>1, ConcatIs
  <2> QED
    BY <2>1, <2>2
<1>5. ASSUME NEW j \in 1..(Len(s) - 1) PROVE (f \o b)[j] = s[IF j < i THEN j ELSE j + 1]
  <2>0. (f \o b)[j] = IF j <= i - 1 THEN f[j] ELSE b[j - (i - 1)]
    BY <1>4
  <2>1. CASE j < i
    <3>1. j <= i - 1 /\ j \in 1..(i - 1)
      BY <1>1, <2>1
    <3>2. f[j] = s[j]
      BY <1>2, <3>1
    <3> QED
      BY <2>0, <2>1, <3>1, <3>2
  <2>2. CASE j >= i
    <3>1. j - (i - 1) \in 1..(Len(s) - i) /\ j - (i - 1) + i = j + 1
      BY <1>1, <2>2
    <3>2. b[j - (i - 1)] = s[j + 1]
      BY <1>3, <3>1
    <3>3. ~(j <= i - 1)
      BY <1>1, <2>2
    <3>4. (f \o b)[j] = b[j - (i - 1)]
      BY <2>0, <3>3
    <3> QED
      BY <1>1, <2>2, <3>2, <3>4
  <2>3. j < i \/ j >= i
    BY <1>1
  <2> QED
    BY <2>1, <2>2, <2>3
<1> QED
  BY <1>4, <1>5 DEF RemoveAt, f, b

\* What is left of a sequence without its element i (0: all of it), and more:
\* where the elements come from.
Before(i, k) == IF i = 0 \/ k < i THEN k ELSE k + 1
LeftOf(s, i) == IF i = 0 THEN Len(s) ELSE Len(s) - 1
RestAnd(s, i, t) == (IF i = 0 THEN s ELSE RemoveAt(s, i)) \o t

\* r is what RestAnd leaves of s, of which the first n were there before.
IsRest(S, s, i, t, n, r) ==
  /\ r \in Seq(S) /\ n \in Nat /\ DOMAIN r = 1..(n + Len(t))
  /\ \A k \in 1..n : Before(i, k) \in DOMAIN s \ {i} /\ r[k] = s[Before(i, k)]
  /\ \A j \in 1..Len(t) : r[n + j] = t[j]
  /\ \A j \in DOMAIN s \ {i} : \E k \in 1..n : Before(i, k) = j
  /\ \A k, l \in 1..n : k < l <=> Before(i, k) < Before(i, l)
  /\ \A k \in DOMAIN r : k \in 1..n \/ (k > n /\ \E j \in DOMAIN t : k = n + j)

LEMMA RestAndIs ==
  ASSUME NEW S, NEW s \in Seq(S), NEW t \in Seq(S), NEW i \in {0} \union DOMAIN s
  PROVE  \E n, r : n = LeftOf(s, i) /\ r = RestAnd(s, i, t) /\ IsRest(S, s, i, t, n, r)
<1>0. PICK n, r : n = LeftOf(s, i) /\ r = RestAnd(s, i, t)
  OBVIOUS
<1>1. /\ r \in Seq(S) /\ n \in Nat /\ DOMAIN r = 1..(n + Len(t))
      /\ \A k \in 1..n : Before(i, k) \in DOMAIN s \ {i} /\ r[k] = s[Before(i, k)]
      /\ \A j \in 1..Len(t) : r[n + j] = t[j]
  <2> DEFINE left == IF i = 0 THEN s ELSE RemoveAt(s, i)
             m == IF i = 0 THEN Len(s) ELSE Len(s) - 1
  <2>1. Len(s) \in Nat /\ Len(t) \in Nat /\ DOMAIN s = 1..Len(s) /\ (i = 0 \/ i \in 1..Len(s))
    OBVIOUS
  <2>2. /\ left \in Seq(S) /\ Len(left) = m /\ m \in Nat
        /\ \A k \in 1..m : Before(i, k) \in DOMAIN s \ {i} /\ left[k] = s[Before(i, k)]
    <3>1. CASE i = 0
      BY <2>1, <3>1 DEF Before
    <3>2. CASE i # 0
      <4>1. i \in 1..Len(s) /\ m = Len(s) - 1
        BY <2>1, <3>2
      <4>2. left \in Seq(S) /\ Len(left) = m /\ \A k \in 1..m : left[k] = s[IF k < i THEN k ELSE k + 1]
        BY <2>1, <3>2, <4>1, RemoveAtIs
      <4>3. \A k \in 1..m : Before(i, k) \in 1..Len(s) /\ Before(i, k) # i
        BY <2>1, <3>2, <4>1 DEF Before
      <4>4. \A k \in 1..m : Before(i, k) = IF k < i THEN k ELSE k + 1
        BY <3>2 DEF Before
      <4>5. m \in Nat
        <5>1. \A l \in Nat : \A k \in 1..l : l - 1 \in Nat
          OBVIOUS
        <5>2. Len(s) - 1 \in Nat
          BY <2>1, <4>1, <5>1
        <5> HIDE DEF m
        <5> QED
          BY <4>1, <5>2
      <4> HIDE DEF left, m
      <4> QED
        BY <2>1, <4>2, <4>3, <4>4, <4>5
    <3> QED
      BY <3>1, <3>2
  <2> HIDE DEF left, m
  <2>3. /\ left \o t \in Seq(S) /\ Len(left \o t) = m + Len(t)
        /\ \A k \in 1..(m + Len(t)) : (left \o t)[k] = IF k <= m THEN left[k] ELSE t[k - m]
    <3>1. left \in Seq(S) /\ Len(left) = m
      BY <2>2
    <3> QED
      BY <3>1, ConcatIs
  <2>4. \A k \in 1..m : (left \o t)[k] = left[k]
    BY <2>1, <2>2, <2>3
  <2>5. ASSUME NEW j \in 1..Len(t) PROVE (left \o t)[m + j] = t[j]
    <3>1. m + j \in 1..(m + Len(t)) /\ ~(m + j <= m) /\ (m + j) - m = j
      BY <2>1, <2>2
    <3> QED
      BY <2>3, <3>1
  <2>6. DOMAIN (left \o t) = 1..(m + Len(t))
    BY <2>3
  <2> QED
    BY <1>0, <2>2, <2>3, <2>4, <2>5, <2>6 DEF left, m, LeftOf, RestAnd
<1>2. /\ Len(s) \in Nat /\ Len(t) \in Nat /\ DOMAIN s = 1..Len(s) /\ DOMAIN t = 1..Len(t)
      /\ i = 0 \/ i \in 1..Len(s)
  OBVIOUS
<1>3. ASSUME NEW j \in DOMAIN s \ {i} PROVE \E k \in 1..n : Before(i, k) = j
  <2>1. CASE i = 0 \/ j < i
    <3>1. j \in 1..n
      <4>1. CASE i = 0
        BY <1>2, <4>1, <1>0 DEF LeftOf
      <4>2. CASE i # 0 /\ j < i
        BY <1>2, <4>2, <1>0 DEF LeftOf
      <4> QED
        BY <2>1, <4>1, <4>2
    <3>2. Before(i, j) = j
      BY <2>1 DEF Before
    <3> QED
      BY <3>1, <3>2
  <2>2. CASE ~(i = 0 \/ j < i)
    <3>1. j - 1 \in 1..n /\ ~(j - 1 < i) /\ i # 0
      BY <1>2, <2>2, <1>0 DEF LeftOf
    <3>2. Before(i, j - 1) = j
      BY <1>2, <3>1 DEF Before
    <3> QED
      BY <3>1, <3>2
  <2> QED
    BY <2>1, <2>2
<1>4. \A k, l \in 1..n : k < l <=> Before(i, k) < Before(i, l)
  BY <1>1, <1>2 DEF Before
<1>5. ASSUME NEW k \in DOMAIN r PROVE k \in 1..n \/ (k > n /\ \E j \in DOMAIN t : k = n + j)
  <2>1. CASE k > n
    <3>1. k - n \in DOMAIN t /\ k = n + (k - n)
      BY <1>1, <1>2, <2>1
    <3> QED
      BY <2>1, <3>1
  <2> QED
    BY <1>1, <1>2, <2>1
<1>6. IsRest(S, s, i, t, n, r)
  BY <1>1, <1>3, <1>4, <1>5 DEF IsRest
<1> QED
  BY <1>0, <1>6

\* The elements of r are those of s but for its element i, and those of t.
AreLeft(s, i, t, r) ==
  /\ \A k \in DOMAIN r : (\E j \in DOMAIN s : j # i /\ r[k] = s[j]) \/ \E j \in DOMAIN t : r[k] = t[j]
  /\ \A j \in DOMAIN s : j # i => \E k \in DOMAIN r : r[k] = s[j]
  /\ \A j \in DOMAIN t : \E k \in DOMAIN r : r[k] = t[j]

LEMMA RestAreLeft ==
  ASSUME NEW S, NEW s \in Seq(S), NEW t \in Seq(S), NEW i \in {0} \union DOMAIN s
  PROVE  AreLeft(s, i, t, RestAnd(s, i, t))
<1>0. PICK n, r : r = RestAnd(s, i, t) /\ IsRest(S, s, i, t, n, r)
  BY RestAndIs
<1>1. DOMAIN t = 1..Len(t) /\ Len(t) \in Nat
  OBVIOUS
<1>2. ASSUME NEW k \in DOMAIN r
      PROVE  (\E j \in DOMAIN s : j # i /\ r[k] = s[j]) \/ \E j \in DOMAIN t : r[k] = t[j]
  BY <1>0, <1>1, <1>2 DEF IsRest
<1>3. ASSUME NEW j \in DOMAIN s, j # i PROVE \E k \in DOMAIN r : r[k] = s[j]
  <2>1. PICK k \in 1..n : Before(i, k) = j
    BY <1>0, <1>3 DEF IsRest
  <2>2. r[k] = s[Before(i, k)]
    BY <1>0 DEF IsRest
  <2>3. k \in DOMAIN r
    BY <1>0, <1>1 DEF IsRest
  <2> QED
    BY <2>1, <2>2, <2>3
<1>4. ASSUME NEW j \in DOMAIN t PROVE \E k \in DOMAIN r : r[k] = t[j]
  <2>1. n + j \in DOMAIN r /\ r[n + j] = t[j]
    BY <1>0, <1>1, <1>4 DEF IsRest
  <2> QED
    BY <2>1
<1> QED
  BY <1>0, <1>2, <1>3, <1>4 DEF AreLeft

AtMostOne(s, D) == \A j, k \in DOMAIN s : s[j] \in D /\ s[k] \in D => j = k

LEMMA RestAndMore ==
  ASSUME NEW S, NEW s \in Seq(S), NEW t \in Seq(S), NEW i \in {0} \union DOMAIN s, NEW D
  PROVE  LET r == RestAnd(s, i, t) IN
         /\ r \in Seq(S)
         /\ \A j \in DOMAIN s \ {i} : \E k \in DOMAIN r : r[k] = s[j]
         /\ \A j \in DOMAIN t : \E k \in DOMAIN r : r[k] = t[j]
         /\ \A k \in DOMAIN r : (\E j \in DOMAIN s \ {i} : r[k] = s[j]) \/ (\E l \in DOMAIN t : r[k] = t[l])
         /\ AtMostOne(s, D) /\ (\A j \in DOMAIN t : t[j] \notin D) => AtMostOne(r, D)
         /\ (\A j \in DOMAIN s \ {i} : s[j] \notin D) /\ Len(t) = 1 => AtMostOne(r, D)
<1>0. PICK n, r : r = RestAnd(s, i, t) /\ IsRest(S, s, i, t, n, r)
  BY RestAndIs
<1>1. /\ r \in Seq(S) /\ n \in Nat /\ DOMAIN t = 1..Len(t) /\ Len(t) \in Nat
      /\ \A k \in 1..n : Before(i, k) \in DOMAIN s \ {i} /\ r[k] = s[Before(i, k)]
      /\ \A j \in 1..Len(t) : r[n + j] = t[j]
      /\ \A k, l \in 1..n : k < l <=> Before(i, k) < Before(i, l)
      /\ \A k \in DOMAIN r : k \in 1..n \/ (k > n /\ \E j \in DOMAIN t : k = n + j)
  <2>1. DOMAIN t = 1..Len(t) /\ Len(t) \in Nat
    OBVIOUS
  <2> QED
    BY <1>0, <2>1 DEF IsRest
<1>2. \A k, l \in 1..n : Before(i, k) = Before(i, l) => k = l
  <2>1. \A k, l \in 1..n : k < l \/ l < k \/ k = l
    BY <1>1
  <2>2. DOMAIN s \subseteq Int
    OBVIOUS
  <2> QED
    BY <1>1, <2>1, <2>2
<1>3. ASSUME AtMostOne(s, D), \A j \in DOMAIN t : t[j] \notin D PROVE AtMostOne(r, D)
  <2>1. \A k \in DOMAIN r : r[k] \in D => k \in 1..n /\ s[Before(i, k)] \in D /\ Before(i, k) \in DOMAIN s
    BY <1>1, <1>3
  <2> QED
    BY <1>2, <1>3, <2>1 DEF AtMostOne
<1>4. ASSUME \A j \in DOMAIN s \ {i} : s[j] \notin D, Len(t) = 1 PROVE AtMostOne(r, D)
  <2>0. \A j \in DOMAIN t : j = 1
    BY <1>1, <1>4
  <2>1. \A k \in DOMAIN r : r[k] \in D => k = n + 1
    <3> SUFFICES ASSUME NEW k \in DOMAIN r, r[k] \in D PROVE k = n + 1
      OBVIOUS
    <3>1. k \notin 1..n
      BY <1>1, <1>4
    <3> QED
      BY <1>1, <2>0, <3>1
  <2> QED
    BY <2>1 DEF AtMostOne
<1>5. AreLeft(s, i, t, r)
  BY <1>0, RestAreLeft
<1>6. /\ \A j \in DOMAIN s \ {i} : \E k \in DOMAIN r : r[k] = s[j]
      /\ \A j \in DOMAIN t : \E k \in DOMAIN r : r[k] = t[j]
      /\ \A k \in DOMAIN r : (\E j \in DOMAIN s \ {i} : r[k] = s[j]) \/ (\E l \in DOMAIN t : r[k] = t[l])
  BY <1>5 DEF AreLeft
<1>7. r \in Seq(S)
  BY <1>1
<1> QED
  BY <1>0, <1>3, <1>4, <1>6, <1>7

-----------------------------------------------------------------------------
(* Cached query sets.  A copy in the cache is at most Timeout + lag older    *)
(* than the version that followed it, because a reader that waits has asked  *)
(* before; and while no write was missed, nobody holds an older version but  *)
(* the cache, until the copies are dropped.                                  *)

Versions == [there : BOOLEAN, from : Nat]
CopyRecords == [version : Nat, until : Nat]
ReaderRecords == [key : Keys \union {"none"}, version : Nat, since : Nat]

RowTypes ==
  /\ versions \in Seq(Versions) /\ Newest \in Nat \ {0}
  /\ DOMAIN copies \subseteq Keys /\ copies \in [DOMAIN copies -> CopyRecords]
  /\ reader \in [Readers -> ReaderRecords]
  /\ clock \in Nat /\ lag \in Nat
  /\ patterns \in BOOLEAN /\ dropping \in BOOLEAN /\ missed \in BOOLEAN

ReadersAreRight ==
  \A r \in Readers : reader[r] # Away =>
    LET v == reader[r].version
    IN /\ reader[r].key \in Keys /\ v \in 1..Newest /\ reader[r].since <= clock
       /\ reader[r].key = "get" => versions[v].there
       /\ v < Newest => reader[r].since <= versions[v + 1].from
       /\ ~missed => v = Newest

CopiesAreRight ==
  \A k \in DOMAIN copies :
    LET v == copies[k].version
    IN /\ v \in 1..Newest /\ copies[k].until <= clock + Timeout
       /\ k = "get" => versions[v].there
       /\ v < Newest => copies[k].until <= versions[v + 1].from + Timeout + lag
       /\ patterns /\ ~missed /\ ~dropping => v = Newest

RowInv == RowTypes /\ ReadersAreRight /\ CopiesAreRight

LEMMA RowInitInv == RowInit => RowInv
<1> SUFFICES ASSUME RowInit PROVE RowInv
  OBVIOUS
<1>1. PICK b \in BOOLEAN : versions = <<[there |-> b, from |-> 0]>>
  BY DEF RowInit
<1>2. versions \in Seq(Versions) /\ Newest = 1
  BY <1>1 DEF Versions, Newest
<1>3. DOMAIN copies = {}
  BY DEF RowInit
<1>4. copies \in [DOMAIN copies -> CopyRecords]
  BY <1>3 DEF RowInit
<1>5. reader = [r \in Readers |-> Away] /\ Away \in ReaderRecords
  BY DEF RowInit, Away, ReaderRecords
<1>6. /\ reader \in [Readers -> ReaderRecords] /\ clock \in Nat /\ lag \in Nat
      /\ patterns \in BOOLEAN /\ dropping \in BOOLEAN /\ missed \in BOOLEAN
  BY <1>5 DEF RowInit
<1>7. RowTypes
  BY <1>2, <1>3, <1>4, <1>6 DEF RowTypes
<1>8. ReadersAreRight /\ CopiesAreRight
  BY <1>3, <1>5 DEF ReadersAreRight, CopiesAreRight
<1> QED
  BY <1>7, <1>8 DEF RowInv

\* A write makes a version that no reader and no copy has.
LEMMA NewVersionInv ==
  ASSUME RowInv, NEW there \in BOOLEAN, NewVersion(there),
         missed' \in BOOLEAN, dropping' \in BOOLEAN, Reading \/ missed => missed',
         missed' \/ dropping'
  PROVE  RowInv'
<1> DEFINE new == [there |-> there, from |-> clock]
<1>0. versions' = Append(versions, new) /\ UNCHANGED <<patterns, copies, reader, clock, lag>>
  BY DEF NewVersion
<1>1. versions \in Seq(Versions) /\ new \in Versions
  BY DEF RowInv, RowTypes, Versions
<1> HIDE DEF new
<1>2. /\ versions' \in Seq(Versions) /\ Newest \in Nat \ {0} /\ Newest' = Newest + 1
      /\ \A i \in 1..Newest : versions'[i] = versions[i]
      /\ versions'[Newest + 1] = new
  BY <1>0, <1>1, AppendIs DEF Newest, RowInv, RowTypes
<1>3. RowTypes'
  BY <1>0, <1>2 DEF RowInv, RowTypes
<1>4. new.from = clock
  BY DEF new
<1>5. ASSUME NEW r \in Readers, reader[r] # Away PROVE ReadersAreRight!(r)!2'
  <2>1. reader[r] \in ReaderRecords /\ ReadersAreRight!(r)!2
    BY <1>5 DEF RowInv, RowTypes, ReadersAreRight
  <2>2. reader[r].version \in 1..Newest /\ reader[r].since <= clock /\ missed'
    BY <1>5, <2>1 DEF Reading
  <2> DEFINE v == reader[r].version
  <2>3. v \in 1..Newest' /\ (reader[r].key = "get" => versions'[v].there)
    BY <1>2, <2>1, <2>2
  <2>4. v < Newest' => reader[r].since <= versions'[v + 1].from
    <3>1. CASE v = Newest
      BY <1>2, <1>4, <2>2, <3>1
    <3>2. CASE v < Newest
      BY <1>2, <2>1, <2>2, <3>2
    <3> QED
      BY <1>2, <2>2, <3>1, <3>2
  <2> QED
    BY <1>0, <2>1, <2>2, <2>3, <2>4
<1>6. ASSUME NEW k \in DOMAIN copies PROVE CopiesAreRight!(k)'
  <2>1. copies[k] \in CopyRecords /\ CopiesAreRight!(k)
    BY <1>6 DEF RowInv, RowTypes, CopiesAreRight
  <2>2. copies[k].version \in 1..Newest /\ copies[k].until \in Nat
    BY <2>1 DEF CopyRecords
  <2>3. clock \in Nat /\ lag \in Nat /\ Timeout \in Nat
    BY CachedRowsAssumption DEF RowInv, RowTypes
  <2> DEFINE v == copies[k].version
  <2>4. v \in 1..Newest' /\ (k = "get" => versions'[v].there)
    BY <1>2, <2>1, <2>2
  <2>5. copies[k].until <= clock + Timeout + lag
    BY <2>1, <2>2, <2>3
  <2>6. v < Newest' => copies[k].until <= versions'[v + 1].from + Timeout + lag
    <3>1. CASE v = Newest
      BY <1>2, <1>4, <2>5, <3>1
    <3>2. CASE v < Newest
      BY <1>2, <2>1, <2>2, <3>2
    <3> QED
      BY <1>2, <2>2, <3>1, <3>2
  <2> QED
    BY <1>0, <2>1, <2>4, <2>6
<1> QED
  BY <1>0, <1>3, <1>5, <1>6 DEF RowInv, ReadersAreRight, CopiesAreRight

LEMMA RowNextInv == RowInv /\ [RowNext]_rowVars => RowInv'
<1> SUFFICES ASSUME RowInv, [RowNext]_rowVars PROVE RowInv'
  OBVIOUS
<1>0. RowTypes /\ ReadersAreRight /\ CopiesAreRight /\ Timeout \in Nat
  BY CachedRowsAssumption DEF RowInv
<1>1. ASSUME NEW r \in Readers, NEW k \in Keys, Query(r, k) PROVE RowInv'
  <2> DEFINE new == [key |-> k, version |-> Newest, since |-> clock]
  <2>1. /\ reader' = [reader EXCEPT ![r] = new]
        /\ UNCHANGED <<versions, patterns, copies, dropping, clock, lag, missed>>
        /\ k = "get" => versions[Newest].there
    BY <1>1 DEF Query, Present
  <2>2. Newest' = Newest
    BY <2>1 DEF Newest
  <2>3. new \in ReaderRecords
    BY <1>0 DEF RowTypes, ReaderRecords
  <2>4. RowTypes'
    BY <1>0, <2>1, <2>2, <2>3 DEF RowTypes
  <2>5. ASSUME NEW s \in Readers, reader'[s] # Away PROVE ReadersAreRight!(s)!2'
    <3>1. CASE s = r
      <4>1. reader'[s] = new
        BY <1>0, <2>1, <3>1 DEF RowTypes
      <4> QED
        BY <1>0, <2>1, <2>2, <4>1 DEF RowTypes
    <3>2. CASE s # r
      BY <1>0, <2>1, <2>2, <2>5, <3>2 DEF RowTypes, ReadersAreRight
    <3> QED
      BY <3>1, <3>2
  <2>6. CopiesAreRight'
    BY <1>0, <2>1, <2>2 DEF CopiesAreRight
  <2> QED
    BY <2>4, <2>5, <2>6 DEF RowInv, ReadersAreRight
<1>2. ASSUME NEW r \in Readers, SetCopy(r) PROVE RowInv'
  <2> DEFINE k == reader[r].key
             copy == [version |-> reader[r].version, until |-> clock + Timeout]
  <2>1. /\ copies' = [j \in DOMAIN copies \union {k} |-> IF j = k THEN copy ELSE copies[j]]
        /\ lag' = IF clock - reader[r].since > lag THEN clock - reader[r].since ELSE lag
        /\ reader' = [reader EXCEPT ![r] = Away]
        /\ reader[r] # Away
        /\ UNCHANGED <<versions, patterns, dropping, clock, missed>>
    BY <1>2 DEF SetCopy
  <2>2. Newest' = Newest
    BY <2>1 DEF Newest
  <2>3. /\ reader[r] \in ReaderRecords /\ ReadersAreRight!(r)!2
        /\ reader[r].version \in Nat /\ reader[r].since \in Nat
    BY <1>0, <2>1 DEF RowTypes, ReadersAreRight, ReaderRecords
  <2>4. clock \in Nat /\ lag \in Nat /\ Newest \in Nat
    BY <1>0 DEF RowTypes
  <2>5. lag' \in Nat /\ lag <= lag' /\ clock <= reader[r].since + lag'
    BY <2>1, <2>3, <2>4
  <2>6. RowTypes'
    <3>1. copy \in CopyRecords
      BY <1>0, <2>3, <2>4 DEF CopyRecords
    <3>2. DOMAIN copies' \subseteq Keys /\ copies' \in [DOMAIN copies' -> CopyRecords]
      BY <1>0, <2>1, <2>3, <3>1 DEF RowTypes
    <3>3. Away \in ReaderRecords
      BY DEF Away, ReaderRecords
    <3> QED
      BY <1>0, <2>1, <2>2, <2>5, <3>2, <3>3 DEF RowTypes
  <2>7. ReadersAreRight'
    BY <1>0, <2>1, <2>2 DEF RowTypes, ReadersAreRight
  <2>8. ASSUME NEW j \in DOMAIN copies' PROVE CopiesAreRight!(j)'
    <3>1. CASE j = k
      <4>1. copies'[j] = copy
        BY <2>1, <3>1
      <4>2. copy.version = reader[r].version /\ copy.until = clock + Timeout
        OBVIOUS
      <4>3. ASSUME reader[r].version < Newest
            PROVE  copy.until <= versions[reader[r].version + 1].from + Timeout + lag'
        <5>1. versions[reader[r].version + 1] \in Versions
          BY <1>0, <2>3, <2>4, <4>3 DEF RowTypes, Newest
        <5>2. versions[reader[r].version + 1].from \in Nat
          BY <5>1 DEF Versions
        <5> QED
          BY <1>0, <2>3, <2>4, <2>5, <4>2, <4>3, <5>2
      <4>4. /\ copies'[j].version = reader[r].version /\ copies'[j].until = clock + Timeout
            /\ clock' = clock /\ versions' = versions
        BY <2>1, <4>1, <4>2
      <4>5. /\ copies'[j].version \in 1..Newest' /\ copies'[j].until <= clock' + Timeout
            /\ j = "get" => versions'[copies'[j].version].there
        BY <1>0, <2>2, <2>3, <2>4, <3>1, <4>4
      <4>6. copies'[j].version < Newest' =>
              copies'[j].until <= versions'[copies'[j].version + 1].from + Timeout + lag'
        BY <2>2, <4>1, <4>2, <4>3, <4>4
      <4>7. patterns' /\ ~missed' /\ ~dropping' => copies'[j].version = Newest'
        BY <2>1, <2>2, <2>3, <4>4
      <4> QED
        BY <4>5, <4>6, <4>7
    <3>2. CASE j # k
      <4>1. j \in DOMAIN copies /\ copies'[j] = copies[j] /\ copies[j] \in CopyRecords
        BY <1>0, <2>1, <2>8, <3>2 DEF RowTypes
      <4>2. CopiesAreRight!(j)
        BY <1>0, <4>1 DEF CopiesAreRight
      <4>3. ASSUME copies[j].version < Newest
            PROVE  copies[j].until <= versions[copies[j].version + 1].from + Timeout + lag'
        <5>1. versions[copies[j].version + 1] \in Versions
          BY <1>0, <2>4, <4>2, <4>3 DEF RowTypes, Newest
        <5>2. versions[copies[j].version + 1].from \in Nat /\ copies[j].until \in Nat
          BY <4>1, <5>1 DEF Versions, CopyRecords
        <5> QED
          BY <1>0, <2>4, <2>5, <4>2, <4>3, <5>2
      <4>4. patterns' /\ ~missed' /\ ~dropping' => copies[j].version = Newest
        BY <2>1, <4>2
      <4>5. /\ copies[j].version \in 1..Newest /\ copies[j].until <= clock + Timeout
            /\ j = "get" => versions[copies[j].version].there
        BY <4>2
      <4>6. clock' = clock /\ versions' = versions
        BY <2>1
      <4>7. /\ copies'[j].version \in 1..Newest' /\ copies'[j].until <= clock' + Timeout
            /\ j = "get" => versions'[copies'[j].version].there
        BY <2>2, <4>1, <4>5, <4>6
      <4>8. copies'[j].version < Newest' =>
              copies'[j].until <= versions'[copies'[j].version + 1].from + Timeout + lag'
        BY <2>2, <4>1, <4>3, <4>6
      <4>9. patterns' /\ ~missed' /\ ~dropping' => copies'[j].version = Newest'
        BY <2>2, <4>1, <4>4
      <4> QED
        BY <4>7, <4>8, <4>9
    <3> QED
      BY <3>1, <3>2
  <2> QED
    BY <2>6, <2>7, <2>8 DEF RowInv, CopiesAreRight
<1>3. ASSUME NEW there \in BOOLEAN, WritePast(there) PROVE RowInv'
  <2>1. NewVersion(there) /\ missed' = TRUE /\ dropping' = dropping
    BY <1>3 DEF WritePast
  <2> QED
    BY <1>0, <2>1, NewVersionInv DEF RowTypes
<1>4. CASE WriteThrough
  <2>1. NewVersion(TRUE) /\ dropping' = TRUE /\ missed' = (missed \/ Reading)
    BY <1>4 DEF WriteThrough
  <2>2. missed' \in BOOLEAN
    BY <1>0, <2>1 DEF RowTypes, Reading
  <2> QED
    BY <2>1, <2>2, NewVersionInv
<1>5. CASE DropCopies
  <2>1. /\ dropping /\ dropping' = FALSE /\ copies' = IF patterns THEN <<>> ELSE copies
        /\ missed' = (missed \/ Reading) /\ UNCHANGED <<versions, patterns, reader, clock, lag>>
        /\ Newest' = Newest
    BY <1>5 DEF DropCopies, Newest
  <2>2. missed' \in BOOLEAN
    BY <1>0, <2>1 DEF RowTypes, Reading
  <2>3. DOMAIN copies' = IF patterns THEN {} ELSE DOMAIN copies
    BY <2>1
  <2>4. RowTypes'
    <3>1. DOMAIN copies' \subseteq Keys /\ copies' \in [DOMAIN copies' -> CopyRecords]
      <4>1. CASE patterns
        BY <2>1, <2>3, <4>1
      <4>2. CASE ~patterns
        BY <1>0, <2>1, <4>2 DEF RowTypes
      <4> QED
        BY <4>1, <4>2
    <3>2. dropping' \in BOOLEAN
      BY <2>1
    <3> QED
      BY <1>0, <2>1, <2>2, <3>1, <3>2 DEF RowTypes
  <2>5. ReadersAreRight'
    BY <1>0, <2>1 DEF ReadersAreRight
  <2>6. CopiesAreRight'
    BY <1>0, <2>1, <2>3 DEF CopiesAreRight
  <2> QED
    BY <2>4, <2>5, <2>6 DEF RowInv
<1>6. CASE PassSecond
  <2>1. /\ clock' = clock + 1 /\ UNCHANGED <<versions, patterns, copies, reader, dropping, lag, missed>>
        /\ Newest' = Newest
    BY <1>6 DEF PassSecond, Newest
  <2>2. RowTypes'
    BY <1>0, <2>1 DEF RowTypes
  <2>3. ReadersAreRight'
    BY <1>0, <2>1 DEF ReadersAreRight, RowTypes, ReaderRecords
  <2>4. CopiesAreRight'
    BY <1>0, <2>1 DEF CopiesAreRight, RowTypes, CopyRecords
  <2> QED
    BY <2>2, <2>3, <2>4 DEF RowInv
<1>7. CASE UNCHANGED rowVars
  <2>1. Newest' = Newest
    BY <1>7 DEF rowVars, Newest
  <2> QED
    BY <1>0, <1>7, <2>1 DEF rowVars, RowInv, RowTypes, ReadersAreRight, CopiesAreRight
<1> QED
  BY <1>1, <1>2, <1>3, <1>4, <1>5, <1>6, <1>7 DEF RowNext

LEMMA RowInvImplies == RowInv => CopiesAreRecent
<1> SUFFICES ASSUME RowInv, NEW k \in Keys, Cached(k) PROVE CopiesAreRecent!(k)!2
  BY DEF CopiesAreRecent
<1>1. k \in DOMAIN copies /\ clock < copies[k].until
  BY DEF Cached
<1>2. copies[k] \in CopyRecords /\ CopiesAreRight!(k) /\ versions \in Seq(Versions)
  BY <1>1 DEF RowInv, RowTypes, CopiesAreRight
<1>3. copies[k].version \in Nat /\ copies[k].until \in Nat /\ clock \in Nat /\ lag \in Nat
  BY <1>2 DEF CopyRecords, RowInv, RowTypes
<1>4. Timeout \in Nat /\ Newest \in Nat
  BY CachedRowsAssumption DEF RowInv, RowTypes
<1>5. ASSUME copies[k].version < Newest
      PROVE  clock - versions[copies[k].version + 1].from < Timeout + lag
  <2>1. versions[copies[k].version + 1] \in Versions
    BY <1>2, <1>3, <1>5 DEF Newest
  <2>2. versions[copies[k].version + 1].from \in Nat
    BY <2>1 DEF Versions
  <2>3. copies[k].until <= versions[copies[k].version + 1].from + Timeout + lag
    BY <1>2, <1>5
  <2>4. \A t, u, f, m, l \in Nat : t < u /\ u <= f + m + l => t - f < m + l
    OBVIOUS
  <2> QED
    BY <1>1, <1>3, <1>4, <2>2, <2>3, <2>4
<1> QED
  BY <1>2, <1>5 DEF Present

(* What a reader of a cached query set is answered is recent, and is the     *)
(* newest when no write was missed (cached_queryset.py).                     *)
THEOREM CopiesStayRecent == Spec => []CopiesAreRecent
<1>1. Init => RowInv
  BY RowInitInv DEF Init
<1>2. RowInv /\ [Next]_vars => RowInv'
  BY RowNextInv, EachPartSteps
<1> QED
  BY <1>1, <1>2, RowInvImplies, PTL DEF Spec

-----------------------------------------------------------------------------
(* The licence and its warning.                                              *)

LedgerRecords == [credit : Nat, used : Nat, other : Nat]

LicenceInv == ledger \in LedgerRecords /\ WarningFollowsCredit

LEMMA MaxPriceIsPositive == MaxPrice \in Nat \ {0}
<1> DEFINE prices == {Price[c] : c \in Channels}
<1>1. PICK dearest \in Channels : \A c \in Channels : Price[c] <= Price[dearest]
  BY LicenceAssumption
<1>2. Price[dearest] \in prices /\ \A y \in prices : Price[dearest] >= y
  BY <1>1, LicenceAssumption
<1>3. MaxPrice \in prices
  BY <1>2 DEF MaxPrice, Max
<1> QED
  BY <1>3, LicenceAssumption

LEMMA AccessesType ==
  ASSUME NEW c \in Channels, NEW n \in 1..MaxCopies, NEW text \in ShortTexts
  PROVE  AccessesUsed(c, n, text) * Price[c] \in Nat
<1>1. Count(text) \in Nat /\ n \in Nat /\ Price[c] \in Nat
  BY CountFits, LicenceAssumption
<1>2. \A i, j \in Nat : i * j \in Nat
  OBVIOUS
<1>3. n * Count(text) \in Nat
  BY <1>1, <1>2
<1> QED
  BY <1>1, <1>2, <1>3 DEF AccessesUsed

LEMMA LicenceNextInv == LicenceInv /\ [LicenceNext]_licenceVars => LicenceInv'
<1> SUFFICES ASSUME LicenceInv, [LicenceNext]_licenceVars PROVE LicenceInv'
  OBVIOUS
<1>0. /\ ledger \in LedgerRecords /\ WarningFollowsCredit
      /\ ledger.credit \in Nat /\ ledger.used \in Nat /\ ledger.other \in Nat
  BY DEF LicenceInv, LedgerRecords
<1>1. ASSUME NEW new \in LedgerRecords, Written(new) PROVE LicenceInv'
  BY <1>1 DEF Written, LicenceInv, WarningFollowsCredit
<1>2. ASSUME NEW c \in Channels, NEW n \in 1..MaxCopies, NEW text \in ShortTexts, Deliver(c, n, text)
      PROVE  LicenceInv'
  <2>1. ledger.used + AccessesUsed(c, n, text) * Price[c] \in Nat
    BY <1>0, AccessesType
  <2>2. [ledger EXCEPT !.used = @ + AccessesUsed(c, n, text) * Price[c]] \in LedgerRecords
    BY <1>0, <2>1 DEF LedgerRecords
  <2> QED
    BY <1>1, <1>2, <2>2 DEF Deliver
<1>3. CASE Grant
  <2>1. [ledger EXCEPT !.credit = @ + TopUp] \in LedgerRecords
    BY <1>0, LicenceAssumption DEF LedgerRecords
  <2> QED
    BY <1>1, <1>3, <2>1 DEF Grant
<1>4. CASE UseOther
  <2>1. [ledger EXCEPT !.other = @ + 1] \in LedgerRecords
    BY <1>0 DEF LedgerRecords
  <2> QED
    BY <1>1, <1>4, <2>1 DEF UseOther
<1>5. CASE UNCHANGED <<ledger, shown, current>> /\ (toast' => toast)
  BY <1>0, <1>5 DEF LicenceInv, WarningFollowsCredit, LetThrough, RemainingCredit
<1>6. ASSUME NEW p \in DOMAIN polls, Answer(p) PROVE LicenceInv'
  <2>1. /\ ledger' = ledger
        /\ current' => polls[p] = RemainingCredit
        /\ toast' => polls[p] < MaxPrice
        /\ polls[p] < MaxPrice => shown'
    BY <1>6 DEF Answer
  <2>2. ~LetThrough /\ ledger.other = 0 => RemainingCredit < MaxPrice
    BY <1>0, MaxPriceIsPositive DEF LetThrough, RemainingCredit
  <2> QED
    BY <1>0, <2>1, <2>2 DEF LicenceInv, WarningFollowsCredit, LetThrough, RemainingCredit
<1> QED
  BY <1>2, <1>3, <1>4, <1>5, <1>6 DEF LicenceNext, Poll, CloseToast, Report, licenceVars

(* A user whose notifications are refused was warned, and the warning is not *)
(* on the screen for longer than it is true (log_access_service.py and       *)
(* notifications-editor.vue).                                                *)
THEOREM WarningIsRight == Spec => []WarningFollowsCredit
<1>1. Init => LicenceInv
  BY DEF Init, LicenceInit, LicenceInv, LedgerRecords, WarningFollowsCredit
<1>2. LicenceInv /\ [Next]_vars => LicenceInv'
  BY LicenceNextInv, EachPartSteps
<1>3. LicenceInv => WarningFollowsCredit
  BY DEF LicenceInv
<1> QED
  BY <1>1, <1>2, <1>3, PTL DEF Spec

-----------------------------------------------------------------------------
(* Lost passwords.  A code is the number of the call that asked for it, so   *)
(* it is of one user; what is posted was mailed to somebody, and what is in  *)
(* the cache was made for the user it is cached for.                         *)

Places == {"find", "mail", "answer", "over", "reset"}
RequestRecords == [at : Places, user : Owners, code : Nat]
CodeRecords == [code : Nat, until : Nat]

Mailed(u, code) == \E j \in DOMAIN inbox[u] : inbox[u][j] = code

ResetTypes ==
  /\ request \in Seq(RequestRecords) /\ cachedCode \in [Owners -> CodeRecords]
  /\ inbox \in [Owners -> Seq(Nat)] /\ hour \in Nat
  /\ form \in [data : Owners \union {Nobody}, dialogs : SUBSET Owners]
  /\ resets \subseteq [code : Nat, user : Owners]

DialogHasData ==
  form.data \in Owners \/ (form.dialogs = {} /\ \A i \in DOMAIN request : request[i].at # "reset")

CodesAreAsked ==
  /\ \A i \in DOMAIN request : request[i].at \in {"find", "mail", "answer"} => request[i].code = 0
  /\ \A i \in DOMAIN request : request[i].at = "reset" => \E u \in Owners : Mailed(u, request[i].code)
  /\ \A u \in Owners : cachedCode[u].until > 0 => cachedCode[u].code \in Asked(u)
  /\ \A u \in Owners : \A j \in DOMAIN inbox[u] : inbox[u][j] \in Asked(u)

Undisturbed(u) ==
  /\ \A i, j \in DOMAIN request :
       /\ request[i].user = u /\ request[i].at \in {"find", "mail"}
       /\ request[j].user = u /\ request[j].at \in {"find", "mail"}
       => i = j
  /\ \A i \in DOMAIN request : request[i].user = u /\ request[i].at = "mail" => cachedCode[u].code = i
  /\ cachedCode[u].until > 0 /\ (\A i \in DOMAIN request : request[i].user = u => request[i].at # "mail")
       => inbox[u] # <<>> /\ Last(inbox[u]) = cachedCode[u].code

ResetInv ==
  /\ ResetTypes /\ DialogHasData /\ CodesAreAsked
  /\ \A u \in Owners \ disturbed : Undisturbed(u)
  /\ \A r \in resets : Mailed(r.user, r.code)

LEMMA StepIs ==
  ASSUME ResetTypes, NEW i \in DOMAIN request, NEW place \in Places, Step(i, place)
  PROVE  /\ request' \in Seq(RequestRecords) /\ DOMAIN request' = DOMAIN request
         /\ \A j \in DOMAIN request :
              /\ request'[j].user = request[j].user /\ request'[j].code = request[j].code
              /\ request'[j].at = IF j = i THEN place ELSE request[j].at
         /\ \A u \in Owners : Asked(u)' = Asked(u)
<1>1. request \in Seq(RequestRecords) /\ request' = [request EXCEPT ![i].at = place]
  BY DEF ResetTypes, Step
<1>2. DOMAIN request = 1..Len(request) /\ \A j \in DOMAIN request : request[j] \in RequestRecords
  BY <1>1
<1>3. [request[i] EXCEPT !.at = place] \in RequestRecords
  BY <1>2 DEF RequestRecords
<1>4. request' = [request EXCEPT ![i] = [request[i] EXCEPT !.at = place]]
  BY <1>1
<1>5. request' \in Seq(RequestRecords) /\ DOMAIN request' = DOMAIN request
  BY <1>1, <1>3, <1>4
<1>6. \A j \in DOMAIN request : j # i => request'[j] = request[j]
  BY <1>4
<1>7. request'[i].user = request[i].user /\ request'[i].code = request[i].code /\ request'[i].at = place
  BY <1>2, <1>4 DEF RequestRecords
<1>8. \A j \in DOMAIN request :
        /\ request'[j].user = request[j].user /\ request'[j].code = request[j].code
        /\ request'[j].at = IF j = i THEN place ELSE request[j].at
  BY <1>6, <1>7
<1> QED
  BY <1>5, <1>8 DEF Asked

LEMMA CallIs ==
  ASSUME ResetTypes, NEW new \in RequestRecords, request' = Append(request, new)
  PROVE  /\ request' \in Seq(RequestRecords) /\ Len(request) \in Nat
         /\ DOMAIN request = 1..Len(request) /\ DOMAIN request' = 1..(Len(request) + 1)
         /\ \A j \in DOMAIN request : request'[j] = request[j]
         /\ request'[Len(request) + 1] = new
         /\ \A u \in Owners : Asked(u) \subseteq Asked(u)'
<1>1. request \in Seq(RequestRecords)
  BY DEF ResetTypes
<1>2. /\ request' \in Seq(RequestRecords) /\ Len(request) \in Nat
      /\ DOMAIN request = 1..Len(request) /\ DOMAIN request' = 1..(Len(request) + 1)
      /\ \A j \in DOMAIN request : request'[j] = request[j]
      /\ request'[Len(request) + 1] = new
  BY <1>1, AppendIs
<1>3. DOMAIN request \subseteq DOMAIN request'
  BY <1>2
<1> QED
  BY <1>2, <1>3 DEF Asked

LEMMA ResetInitInv == ResetInit => ResetInv
<1> SUFFICES ASSUME ResetInit PROVE ResetInv
  OBVIOUS
<1>1. request = <<>> /\ DOMAIN request = {}
  BY DEF ResetInit
<1>2. \A u \in Owners : /\ cachedCode[u] = [code |-> 0, until |-> 0] /\ cachedCode[u].until = 0
                        /\ inbox[u] = <<>> /\ DOMAIN inbox[u] = {}
  BY DEF ResetInit
<1>3. ResetTypes
  <2>1. [code |-> 0, until |-> 0] \in CodeRecords
    BY DEF CodeRecords
  <2>2. cachedCode \in [Owners -> CodeRecords]
    BY <2>1 DEF ResetInit
  <2> QED
    BY <1>1, <2>2 DEF ResetInit, ResetTypes
<1>4. DialogHasData
  BY <1>1 DEF ResetInit, DialogHasData
<1>5. CodesAreAsked
  BY <1>1, <1>2 DEF CodesAreAsked
<1>6. \A u \in Owners : Undisturbed(u)
  BY <1>1, <1>2 DEF Undisturbed
<1>7. resets = {}
  BY DEF ResetInit
<1> QED
  BY <1>3, <1>4, <1>5, <1>6, <1>7 DEF ResetInv

LEMMA AskLinkInv == ASSUME ResetInv, NEW w \in Owners, AskLink(w) PROVE ResetInv'
<1> DEFINE new == [at |-> "find", user |-> w, code |-> 0]
<1>0. ResetTypes /\ DialogHasData /\ CodesAreAsked
  BY DEF ResetInv
<1>1. /\ request' = Append(request, new)
      /\ disturbed' = IF UnderWay(w) THEN disturbed \union {w} ELSE disturbed
      /\ UNCHANGED <<cachedCode, inbox, form, resets, hour>>
  BY DEF AskLink
<1>2. new \in RequestRecords
  BY DEF RequestRecords, Places
<1>3. new.at = "find" /\ new.user = w /\ new.code = 0
  OBVIOUS
<1> HIDE DEF new
<1>4. /\ request' \in Seq(RequestRecords) /\ Len(request) \in Nat
      /\ DOMAIN request = 1..Len(request) /\ DOMAIN request' = 1..(Len(request) + 1)
      /\ \A j \in DOMAIN request : request'[j] = request[j]
      /\ request'[Len(request) + 1] = new
      /\ \A u \in Owners : Asked(u) \subseteq Asked(u)'
  BY <1>0, <1>1, <1>2, CallIs
<1>5. \A j \in DOMAIN request' : (j \in DOMAIN request /\ request'[j] = request[j])
                                 \/ (j = Len(request) + 1 /\ request'[j] = new)
  BY <1>4
<1>6. ResetTypes'
  BY <1>0, <1>1, <1>4 DEF ResetTypes
<1>7. DialogHasData'
  BY <1>0, <1>1, <1>3, <1>5 DEF DialogHasData
<1>8. CodesAreAsked'
  <2>1. \A i \in DOMAIN request' : request'[i].at \in {"find", "mail", "answer"} => request'[i].code = 0
    BY <1>0, <1>3, <1>5 DEF CodesAreAsked
  <2>2. CodesAreAsked!2'
    BY <1>0, <1>1, <1>3, <1>5 DEF CodesAreAsked, Mailed
  <2>3. CodesAreAsked!3' /\ CodesAreAsked!4'
    BY <1>0, <1>1, <1>4 DEF CodesAreAsked
  <2> QED
    BY <2>1, <2>2, <2>3 DEF CodesAreAsked
<1>9. ASSUME NEW u \in Owners \ disturbed' PROVE Undisturbed(u)'
  <2>1. Undisturbed(u) /\ (u = w => ~UnderWay(u))
    BY <1>1, <1>9 DEF ResetInv
  <2>2. CASE u = w
    <3>1. \A j \in DOMAIN request : request[j].user = u => request[j].at \notin {"find", "mail"}
      BY <2>1, <2>2 DEF UnderWay
    <3>2. \A j \in DOMAIN request' : request'[j].user = u /\ request'[j].at \in {"find", "mail"} => j = Len(request) + 1
      BY <1>5, <3>1
    <3>3. \A j \in DOMAIN request' : request'[j].user = u => request'[j].at # "mail"
      BY <1>3, <1>5, <3>1
    <3> QED
      BY <1>1, <2>1, <3>1, <3>2, <3>3 DEF Undisturbed
  <2>3. CASE u # w
    <3>1. \A j \in DOMAIN request' : request'[j].user = u => j \in DOMAIN request /\ request'[j] = request[j]
      BY <1>3, <1>5, <2>3
    <3>2. \A j \in DOMAIN request : j \in DOMAIN request' /\ request'[j] = request[j]
      BY <1>4
    <3> QED
      BY <1>1, <2>1, <3>1, <3>2 DEF Undisturbed
  <2> QED
    BY <2>2, <2>3
<1>10. \A r \in resets' : Mailed(r.user, r.code)'
  BY <1>1 DEF ResetInv, Mailed
<1> QED
  BY <1>6, <1>7, <1>8, <1>9, <1>10 DEF ResetInv

\* The code cached last for w is that of call i, which is about to be mailed.
LEMMA CacheCodeInv == ASSUME ResetInv, NEW i \in DOMAIN request, CacheCode(i) PROVE ResetInv'
<1> DEFINE w == request[i].user
           new == [code |-> i, until |-> hour + Validity]
<1>0. /\ ResetTypes /\ DialogHasData /\ CodesAreAsked /\ Validity \in Nat \ {0}
      /\ request \in Seq(RequestRecords) /\ hour \in Nat /\ cachedCode \in [Owners -> CodeRecords]
  BY PasswordResetAssumption DEF ResetInv, ResetTypes
<1>1. /\ request[i].at = "find" /\ Step(i, "mail") /\ cachedCode' = [cachedCode EXCEPT ![w] = new]
      /\ UNCHANGED <<inbox, form, resets, hour, disturbed>>
  BY DEF CacheCode
<1>2. w \in Owners /\ i \in Nat
  <2>1. i \in 1..Len(request) /\ request[i] \in RequestRecords
    BY <1>0
  <2> QED
    BY <2>1 DEF RequestRecords
<1>3. new \in CodeRecords /\ new.code = i /\ new.until > 0
  BY <1>0, <1>2 DEF CodeRecords
<1>4. /\ cachedCode' \in [Owners -> CodeRecords] /\ cachedCode'[w] = new
      /\ \A u \in Owners : u # w => cachedCode'[u] = cachedCode[u]
  BY <1>0, <1>1, <1>2, <1>3
<1>5. /\ request' \in Seq(RequestRecords) /\ DOMAIN request' = DOMAIN request
      /\ \A j \in DOMAIN request :
           /\ request'[j].user = request[j].user /\ request'[j].code = request[j].code
           /\ request'[j].at = IF j = i THEN "mail" ELSE request[j].at
      /\ \A u \in Owners : Asked(u)' = Asked(u)
  <2>1. "mail" \in Places
    BY DEF Places
  <2> QED
    BY <1>0, <1>1, <2>1, StepIs
<1>6. i \in Asked(w)
  BY <1>0, <1>1 DEF CodesAreAsked, Asked
<1> HIDE DEF w, new
<1>7. ResetTypes'
  BY <1>0, <1>1, <1>4, <1>5 DEF ResetTypes
<1>8. DialogHasData'
  BY <1>0, <1>1, <1>5 DEF DialogHasData
<1>9. CodesAreAsked'
  <2>1. CodesAreAsked!1'
    BY <1>0, <1>1, <1>5 DEF CodesAreAsked
  <2>2. CodesAreAsked!2'
    BY <1>0, <1>1, <1>5 DEF CodesAreAsked, Mailed
  <2>3. CodesAreAsked!3'
    BY <1>0, <1>3, <1>4, <1>5, <1>6 DEF CodesAreAsked
  <2>4. CodesAreAsked!4'
    BY <1>0, <1>1, <1>5 DEF CodesAreAsked
  <2> QED
    BY <2>1, <2>2, <2>3, <2>4 DEF CodesAreAsked
<1>10. ASSUME NEW u \in Owners \ disturbed' PROVE Undisturbed(u)'
  <2>1. Undisturbed(u)
    BY <1>1, <1>10 DEF ResetInv
  <2>2. Undisturbed(u)!1'
    BY <1>1, <1>5, <2>1 DEF Undisturbed
  <2>3. CASE u = w
    <3>1. \A j \in DOMAIN request : request[j].user = u /\ request[j].at \in {"find", "mail"} => j = i
      BY <1>1, <2>1, <2>3 DEF Undisturbed, w
    <3>2. Undisturbed(u)!2'
      BY <1>3, <1>4, <1>5, <2>3, <3>1
    <3>3. request'[i].user = u /\ request'[i].at = "mail"
      BY <1>5, <2>3 DEF w
    <3> QED
      BY <1>5, <2>2, <3>2, <3>3 DEF Undisturbed
  <2>4. CASE u # w
    <3>1. \A j \in DOMAIN request : request[j].user = u => request'[j].at = request[j].at
      BY <1>5, <2>4 DEF w
    <3> QED
      BY <1>1, <1>4, <1>5, <2>1, <2>2, <2>4, <3>1 DEF Undisturbed
  <2> QED
    BY <2>3, <2>4
<1>11. \A r \in resets' : Mailed(r.user, r.code)'
  BY <1>1 DEF ResetInv, Mailed
<1> QED
  BY <1>7, <1>8, <1>9, <1>10, <1>11 DEF ResetInv

LEMMA MailCodeInv == ASSUME ResetInv, NEW i \in DOMAIN request, MailCode(i) PROVE ResetInv'
<1> DEFINE w == request[i].user
<1>0. /\ ResetTypes /\ DialogHasData /\ CodesAreAsked
      /\ request \in Seq(RequestRecords) /\ inbox \in [Owners -> Seq(Nat)]
  BY DEF ResetInv, ResetTypes
<1>1. /\ request[i].at = "mail" /\ Step(i, "answer") /\ inbox' = [inbox EXCEPT ![w] = Append(inbox[w], i)]
      /\ UNCHANGED <<cachedCode, form, resets, hour, disturbed>>
  BY DEF MailCode
<1>2. w \in Owners /\ i \in Nat /\ inbox[w] \in Seq(Nat)
  <2>1. i \in 1..Len(request) /\ request[i] \in RequestRecords
    BY <1>0
  <2>2. w \in Owners
    BY <2>1 DEF RequestRecords
  <2> QED
    BY <1>0, <2>1, <2>2
<1>3. /\ Append(inbox[w], i) \in Seq(Nat) /\ Len(inbox[w]) \in Nat
      /\ DOMAIN Append(inbox[w], i) = 1..(Len(inbox[w]) + 1) /\ DOMAIN inbox[w] = 1..Len(inbox[w])
      /\ \A j \in 1..Len(inbox[w]) : Append(inbox[w], i)[j] = inbox[w][j]
      /\ Append(inbox[w], i)[Len(inbox[w]) + 1] = i
      /\ Append(inbox[w], i) # <<>> /\ Last(Append(inbox[w], i)) = i
  BY <1>2, AppendIs DEF Last
<1>4. /\ inbox' \in [Owners -> Seq(Nat)] /\ inbox'[w] = Append(inbox[w], i)
      /\ \A u \in Owners : u # w => inbox'[u] = inbox[u]
  BY <1>0, <1>1, <1>2, <1>3
<1>5. /\ request' \in Seq(RequestRecords) /\ DOMAIN request' = DOMAIN request
      /\ \A j \in DOMAIN request :
           /\ request'[j].user = request[j].user /\ request'[j].code = request[j].code
           /\ request'[j].at = IF j = i THEN "answer" ELSE request[j].at
      /\ \A u \in Owners : Asked(u)' = Asked(u)
  <2>1. "answer" \in Places
    BY DEF Places
  <2> QED
    BY <1>0, <1>1, <2>1, StepIs
<1>6. i \in Asked(w)
  BY <1>0, <1>1 DEF CodesAreAsked, Asked
<1> HIDE DEF w
<1>7. ResetTypes'
  BY <1>0, <1>1, <1>4, <1>5 DEF ResetTypes
<1>8. DialogHasData'
  BY <1>0, <1>1, <1>5 DEF DialogHasData
<1>9. \A u \in Owners : \A code : Mailed(u, code) => \E j \in DOMAIN inbox'[u] : inbox'[u][j] = code
  <2> SUFFICES ASSUME NEW u \in Owners, NEW code, Mailed(u, code)
               PROVE  \E j \in DOMAIN inbox'[u] : inbox'[u][j] = code
    OBVIOUS
  <2>1. PICK j \in DOMAIN inbox[u] : inbox[u][j] = code
    BY DEF Mailed
  <2>2. CASE u = w
    <3>1. j \in 1..Len(inbox[w]) /\ inbox[w][j] = code
      BY <1>3, <2>1, <2>2
    <3>2. j \in DOMAIN Append(inbox[w], i) /\ Append(inbox[w], i)[j] = code
      BY <1>3, <3>1
    <3> QED
      BY <1>4, <2>2, <3>2
  <2>3. CASE u # w
    BY <1>4, <2>1, <2>3
  <2> QED
    BY <2>2, <2>3
<1>10. CodesAreAsked'
  <2>1. CodesAreAsked!1'
    BY <1>0, <1>1, <1>5 DEF CodesAreAsked
  <2>2. ASSUME NEW j \in DOMAIN request', request'[j].at = "reset"
        PROVE  \E u \in Owners : \E k \in DOMAIN inbox'[u] : inbox'[u][k] = request'[j].code
    <3>1. j \in DOMAIN request /\ request[j].at = "reset" /\ request'[j].code = request[j].code
      BY <1>5, <2>2
    <3>2. PICK u \in Owners : Mailed(u, request[j].code)
      BY <1>0, <3>1 DEF CodesAreAsked
    <3> QED
      BY <1>9, <3>1, <3>2
  <2>3. CodesAreAsked!3'
    BY <1>0, <1>1, <1>5 DEF CodesAreAsked
  <2>4. ASSUME NEW u \in Owners, NEW j \in DOMAIN inbox'[u] PROVE inbox'[u][j] \in Asked(u)
    <3>1. CASE u = w
      <4>1. inbox'[u] = Append(inbox[w], i) /\ j \in 1..(Len(inbox[w]) + 1)
        BY <1>3, <1>4, <2>4, <3>1
      <4>2. CASE j = Len(inbox[w]) + 1
        BY <1>3, <1>6, <3>1, <4>1, <4>2
      <4>3. CASE j # Len(inbox[w]) + 1
        <5>1. j \in 1..Len(inbox[w])
          BY <1>3, <4>1, <4>3
        <5>2. j \in DOMAIN inbox[w] /\ inbox'[u][j] = inbox[w][j]
          BY <1>3, <4>1, <5>1
        <5> QED
          BY <1>0, <1>2, <3>1, <5>2 DEF CodesAreAsked
      <4> QED
        BY <4>2, <4>3
    <3>2. CASE u # w
      BY <1>0, <1>4, <2>4, <3>2 DEF CodesAreAsked
    <3> QED
      BY <3>1, <3>2
  <2> QED
    BY <1>5, <2>1, <2>2, <2>3, <2>4 DEF CodesAreAsked, Mailed
<1>11. ASSUME NEW u \in Owners \ disturbed' PROVE Undisturbed(u)'
  <2>1. Undisturbed(u)
    BY <1>1, <1>11 DEF ResetInv
  <2>2. Undisturbed(u)!1' /\ Undisturbed(u)!2'
    BY <1>1, <1>5, <2>1 DEF Undisturbed
  <2>3. CASE u = w
    <3>1. cachedCode[u].code = i
      BY <1>1, <2>1, <2>3 DEF Undisturbed, w
    <3> QED
      BY <1>1, <1>3, <1>4, <2>2, <2>3, <3>1 DEF Undisturbed
  <2>4. CASE u # w
    <3>1. \A j \in DOMAIN request : request[j].user = u => request'[j].at = request[j].at
      BY <1>5, <2>4 DEF w
    <3> QED
      BY <1>1, <1>4, <1>5, <2>1, <2>2, <2>4, <3>1 DEF Undisturbed
  <2> QED
    BY <2>3, <2>4
<1>12. \A r \in resets' : Mailed(r.user, r.code)'
  <2>1. \A r \in resets : r.user \in Owners
    BY <1>0 DEF ResetTypes
  <2> QED
    BY <1>1, <1>9, <2>1 DEF ResetInv, Mailed
<1> QED
  BY <1>7, <1>8, <1>10, <1>11, <1>12 DEF ResetInv

\* A call that is over changes nothing of the codes.
LEMMA CallOver ==
  ASSUME ResetInv, NEW i \in DOMAIN request, Step(i, "over"), UNCHANGED <<cachedCode, inbox, hour>>,
         disturbed \subseteq disturbed',
         request[i].user \in disturbed' \/ request[i].at \notin {"find", "mail"}
  PROVE  /\ request' \in Seq(RequestRecords) /\ DOMAIN request' = DOMAIN request
         /\ \A j \in DOMAIN request : request'[j].at = "reset" => request[j].at = "reset"
         /\ CodesAreAsked' /\ \A u \in Owners \ disturbed' : Undisturbed(u)'
<1>0. ResetTypes /\ CodesAreAsked
  BY DEF ResetInv
<1>1. /\ request' \in Seq(RequestRecords) /\ DOMAIN request' = DOMAIN request
      /\ \A j \in DOMAIN request :
           /\ request'[j].user = request[j].user /\ request'[j].code = request[j].code
           /\ request'[j].at = IF j = i THEN "over" ELSE request[j].at
      /\ \A u \in Owners : Asked(u)' = Asked(u)
  <2>1. "over" \in Places
    BY DEF Places
  <2> QED
    BY <1>0, <2>1, StepIs
<1>2. CodesAreAsked'
  <2>1. CodesAreAsked!1'
    BY <1>0, <1>1 DEF CodesAreAsked
  <2>2. CodesAreAsked!2'
    BY <1>0, <1>1 DEF CodesAreAsked, Mailed
  <2>3. CodesAreAsked!3'
    BY <1>0, <1>1 DEF CodesAreAsked
  <2>4. CodesAreAsked!4'
    BY <1>0, <1>1 DEF CodesAreAsked
  <2> QED
    BY <2>1, <2>2, <2>3, <2>4 DEF CodesAreAsked
<1>3. ASSUME NEW u \in Owners \ disturbed' PROVE Undisturbed(u)'
  <2>1. Undisturbed(u) /\ (request[i].user = u => request[i].at \notin {"find", "mail"})
    BY <1>3 DEF ResetInv
  <2>2. \A j \in DOMAIN request : request[j].user = u =>
          /\ request'[j].at \in {"find", "mail"} <=> request[j].at \in {"find", "mail"}
          /\ request'[j].at = "mail" <=> request[j].at = "mail"
    BY <1>1, <2>1
  <2>3. Undisturbed(u)!1'
    BY <1>1, <2>1, <2>2 DEF Undisturbed
  <2>4. Undisturbed(u)!2'
    BY <1>1, <2>1, <2>2 DEF Undisturbed
  <2>5. Undisturbed(u)!3'
    BY <1>1, <2>1, <2>2 DEF Undisturbed
  <2> QED
    BY <2>3, <2>4, <2>5 DEF Undisturbed
<1>4. \A j \in DOMAIN request : request'[j].at = "reset" => request[j].at = "reset"
  BY <1>1
<1> QED
  BY <1>1, <1>2, <1>3, <1>4

\* The dialog of w posts a code that was mailed to w.
LEMMA ConfirmInv == ASSUME ResetInv, NEW w \in Owners, Confirm(w) PROVE ResetInv'
<1> DEFINE new == [at |-> "reset", user |-> form.data, code |-> Last(inbox[w])]
<1>0. /\ ResetTypes /\ DialogHasData /\ CodesAreAsked
      /\ inbox[w] \in Seq(Nat) /\ form \in [data : Owners \union {Nobody}, dialogs : SUBSET Owners]
  BY DEF ResetInv, ResetTypes
<1>1. /\ w \in form.dialogs /\ inbox[w] # <<>> /\ form' = [form EXCEPT !.dialogs = @ \ {w}]
      /\ request' = Append(request, new)
      /\ UNCHANGED <<cachedCode, inbox, resets, hour, disturbed>>
  BY DEF Confirm
<1>2. form.data \in Owners
  BY <1>0, <1>1 DEF DialogHasData
<1>3. Len(inbox[w]) \in DOMAIN inbox[w] /\ Last(inbox[w]) = inbox[w][Len(inbox[w])]
  BY <1>0, <1>1 DEF Last
<1>4. Last(inbox[w]) \in Nat /\ Mailed(w, Last(inbox[w]))
  BY <1>0, <1>3 DEF Mailed
<1>5. new \in RequestRecords /\ new.at = "reset" /\ new.code = Last(inbox[w])
  BY <1>2, <1>4 DEF RequestRecords, Places
<1> HIDE DEF new
<1>6. /\ request' \in Seq(RequestRecords) /\ Len(request) \in Nat
      /\ DOMAIN request = 1..Len(request) /\ DOMAIN request' = 1..(Len(request) + 1)
      /\ \A j \in DOMAIN request : request'[j] = request[j]
      /\ request'[Len(request) + 1] = new
      /\ \A u \in Owners : Asked(u) \subseteq Asked(u)'
  BY <1>0, <1>1, <1>5, CallIs
<1>7. /\ \A j \in DOMAIN request' : (j \in DOMAIN request /\ request'[j] = request[j])
                                    \/ (j = Len(request) + 1 /\ request'[j] = new)
      /\ \A j \in DOMAIN request : j \in DOMAIN request'
  BY <1>6
<1>8. ResetTypes'
  BY <1>0, <1>1, <1>6 DEF ResetTypes
<1>9. DialogHasData'
  BY <1>0, <1>1, <1>2 DEF DialogHasData
<1>10. CodesAreAsked'
  <2>1. CodesAreAsked!1'
    BY <1>0, <1>5, <1>7 DEF CodesAreAsked
  <2>2. CodesAreAsked!2'
    BY <1>0, <1>1, <1>4, <1>5, <1>7 DEF CodesAreAsked, Mailed
  <2>3. CodesAreAsked!3' /\ CodesAreAsked!4'
    BY <1>0, <1>1, <1>6 DEF CodesAreAsked
  <2> QED
    BY <2>1, <2>2, <2>3 DEF CodesAreAsked
<1>11. ASSUME NEW u \in Owners \ disturbed' PROVE Undisturbed(u)'
  <2>1. Undisturbed(u)
    BY <1>1, <1>11 DEF ResetInv
  <2>2. Undisturbed(u)!1' /\ Undisturbed(u)!2'
    BY <1>1, <1>5, <1>7, <2>1 DEF Undisturbed
  <2>3. Undisturbed(u)!3'
    BY <1>1, <1>6, <1>7, <2>1 DEF Undisturbed
  <2> QED
    BY <2>2, <2>3 DEF Undisturbed
<1>12. \A r \in resets' : Mailed(r.user, r.code)'
  BY <1>1 DEF ResetInv, Mailed
<1> QED
  BY <1>8, <1>9, <1>10, <1>11, <1>12 DEF ResetInv

\* The code that resets a password is the one cached for the user in the data,
\* so it is a call of his; and it was mailed to somebody, who asked for it.
LEMMA ResetPasswordInv == ASSUME ResetInv, NEW i \in DOMAIN request, ResetPassword(i) PROVE ResetInv'
<1> DEFINE w == request[i].user
           code == request[i].code
<1>0. /\ ResetTypes /\ DialogHasData /\ CodesAreAsked /\ hour \in Nat
      /\ form \in [data : Owners \union {Nobody}, dialogs : SUBSET Owners]
  BY DEF ResetInv, ResetTypes
<1>1. /\ request[i].at = "reset" /\ Step(i, "over")
      /\ resets' = IF code \in Codes(w) THEN resets \union {[code |-> code, user |-> w]} ELSE resets
      /\ form' = IF code \in Codes(w) THEN form ELSE [form EXCEPT !.dialogs = @ \union {w}]
      /\ UNCHANGED <<cachedCode, inbox, hour, disturbed>>
  BY DEF ResetPassword
<1>2. w \in Owners /\ code \in Nat
  <2>1. i \in 1..Len(request) /\ request[i] \in RequestRecords
    BY <1>0 DEF ResetTypes
  <2> QED
    BY <2>1 DEF RequestRecords
<1>3. /\ request' \in Seq(RequestRecords) /\ CodesAreAsked'
      /\ \A u \in Owners \ disturbed' : Undisturbed(u)'
  BY <1>1, CallOver
<1>4. form' \in [data : Owners \union {Nobody}, dialogs : SUBSET Owners] /\ form'.data = form.data
  BY <1>0, <1>1, <1>2
<1>5. resets' \subseteq [code : Nat, user : Owners]
  BY <1>0, <1>1, <1>2 DEF ResetTypes
<1>6. ResetTypes'
  BY <1>0, <1>1, <1>3, <1>4, <1>5 DEF ResetTypes
<1>7. DialogHasData'
  BY <1>0, <1>1, <1>4 DEF DialogHasData
<1>8. ASSUME code \in Codes(w) PROVE Mailed(w, code)
  <2>1. cachedCode[w].code = code /\ hour < cachedCode[w].until
    BY <1>8 DEF Codes
  <2>2. cachedCode[w].until > 0
    <3>1. cachedCode[w] \in CodeRecords
      BY <1>0, <1>2 DEF ResetTypes
    <3> QED
      BY <1>0, <2>1, <3>1 DEF CodeRecords
  <2>3. code \in Asked(w)
    BY <1>0, <1>2, <2>1, <2>2 DEF CodesAreAsked
  <2>4. PICK u \in Owners : Mailed(u, code)
    BY <1>0, <1>1 DEF CodesAreAsked
  <2>5. code \in Asked(u)
    BY <1>0, <2>4 DEF CodesAreAsked, Mailed
  <2>6. u = w
    BY <2>3, <2>5 DEF Asked
  <2> QED
    BY <2>4, <2>6
<1>9. \A r \in resets' : Mailed(r.user, r.code)
  <2>1. [code |-> code, user |-> w].code = code /\ [code |-> code, user |-> w].user = w
    OBVIOUS
  <2> HIDE DEF w, code
  <2> QED
    BY <1>1, <1>8, <2>1 DEF ResetInv
<1>10. \A r \in resets' : Mailed(r.user, r.code)'
  BY <1>1, <1>9 DEF Mailed
<1> QED
  BY <1>3, <1>6, <1>7, <1>10 DEF ResetInv

LEMMA ResetNextInv == ResetInv /\ [ResetNext]_resetVars => ResetInv'
<1> SUFFICES ASSUME ResetInv, [ResetNext]_resetVars PROVE ResetInv'
  OBVIOUS
<1>0. /\ ResetTypes /\ DialogHasData
      /\ form \in [data : Owners \union {Nobody}, dialogs : SUBSET Owners]
  BY DEF ResetInv, ResetTypes
<1>1. ASSUME NEW i \in DOMAIN request, MailFails(i) PROVE ResetInv'
  <2>1. /\ Step(i, "over") /\ disturbed' = disturbed \union {request[i].user}
        /\ UNCHANGED <<cachedCode, inbox, form, resets, hour>>
    BY <1>1 DEF MailFails
  <2>2. /\ request' \in Seq(RequestRecords) /\ DOMAIN request' = DOMAIN request
        /\ \A j \in DOMAIN request : request'[j].at = "reset" => request[j].at = "reset"
        /\ CodesAreAsked' /\ \A u \in Owners \ disturbed' : Undisturbed(u)'
    BY <2>1, CallOver
  <2> QED
    BY <1>0, <2>1, <2>2 DEF ResetInv, ResetTypes, DialogHasData, Mailed
<1>2. ASSUME NEW i \in DOMAIN request, OpenDialog(i) PROVE ResetInv'
  <2> DEFINE w == request[i].user
  <2>1. /\ request[i].at = "answer" /\ Step(i, "over")
        /\ form' = [data |-> w, dialogs |-> form.dialogs \union {w}]
        /\ UNCHANGED <<cachedCode, inbox, resets, hour, disturbed>>
    BY <1>2 DEF OpenDialog
  <2>2. /\ request' \in Seq(RequestRecords) /\ CodesAreAsked'
        /\ \A u \in Owners \ disturbed' : Undisturbed(u)'
    BY <2>1, CallOver
  <2>3. w \in Owners
    <3>1. i \in 1..Len(request) /\ request[i] \in RequestRecords
      BY <1>0 DEF ResetTypes
    <3> QED
      BY <3>1 DEF RequestRecords
  <2>4. form' \in [data : Owners \union {Nobody}, dialogs : SUBSET Owners] /\ form'.data \in Owners
    BY <1>0, <2>1, <2>3
  <2> QED
    BY <1>0, <2>1, <2>2, <2>4 DEF ResetInv, ResetTypes, DialogHasData, Mailed
<1>3. CASE PassHour
  BY <1>3 DEF PassHour, ResetInv, ResetTypes, DialogHasData, CodesAreAsked, Asked, Undisturbed, Mailed
<1>4. CASE UNCHANGED resetVars
  BY <1>4 DEF resetVars, ResetInv, ResetTypes, DialogHasData, CodesAreAsked, Asked, Undisturbed, Mailed
<1> QED
  BY <1>1, <1>2, <1>3, <1>4, AskLinkInv, CacheCodeInv, MailCodeInv, ConfirmInv, ResetPasswordInv DEF ResetNext

LEMMA ResetInvImplies == ResetInv => CodeResetsItsUser
<1> SUFFICES ASSUME ResetInv PROVE CodeResetsItsUser
  OBVIOUS
<1>1. \A r \in resets : \E i \in DOMAIN inbox[r.user] : inbox[r.user][i] = r.code
  BY DEF ResetInv, Mailed
<1>2. ASSUME NEW u \in Owners \ disturbed, hour < cachedCode[u].until
      PROVE  /\ cachedCode[u].code \in Asked(u)
             /\ ~UnderWay(u) => inbox[u] # <<>> /\ cachedCode[u].code = Last(inbox[u])
  <2>1. cachedCode[u] \in CodeRecords /\ hour \in Nat
    BY DEF ResetInv, ResetTypes
  <2>2. cachedCode[u].until > 0
    BY <1>2, <2>1 DEF CodeRecords
  <2>3. cachedCode[u].code \in Asked(u)
    BY <2>2 DEF ResetInv, CodesAreAsked
  <2>4. ASSUME ~UnderWay(u) PROVE inbox[u] # <<>> /\ Last(inbox[u]) = cachedCode[u].code
    <3>1. \A i \in DOMAIN request : request[i].user = u => request[i].at # "mail"
      BY <2>4 DEF UnderWay
    <3> QED
      BY <2>2, <3>1 DEF ResetInv, Undisturbed
  <2> QED
    BY <2>3, <2>4
<1>3. \A u \in Owners : Codes(u) = IF hour < cachedCode[u].until THEN {cachedCode[u].code} ELSE {}
  BY DEF Codes
<1> QED
  BY <1>1, <1>2, <1>3 DEF CodeResetsItsUser

(* A code resets the password of the user it was mailed to and of no other,  *)
(* and is the one mailed last unless calls overlapped or failed              *)
(* (reset_password.py, login.ts).                                            *)
THEOREM CodesResetTheirUsers == Spec => []CodeResetsItsUser
<1>1. Init => ResetInv
  BY ResetInitInv DEF Init
<1>2. ResetInv /\ [Next]_vars => ResetInv'
  BY ResetNextInv, EachPartSteps
<1> QED
  BY <1>1, <1>2, ResetInvImplies, PTL DEF Spec

-----------------------------------------------------------------------------
(* The page of a project's settings.  What the cookie says is wrong only     *)
(* while a list is on its way or will be asked for, or a confirmation is     *)
(* followed to its end; and what is followed is one call at a time.          *)

Does == {"list", "check", "resetRow", "activate", "confirm", "look", "reset"}
FlowDoes == {"confirm", "look", "reset"}
ListDoes == {"list", "resetRow", "activate", "reset"}
SettingsCalls == [do : Does, of : Senders, served : BOOLEAN, got : SUBSET Senders]

SettingsTypes ==
  /\ pending \in SUBSET Senders /\ cookie \in SUBSET Senders
  /\ unanswered \in Seq(SettingsCalls)
  /\ \A i \in DOMAIN unanswered : unanswered[i].do = "confirm" => unanswered[i].of = "mail"
  /\ issued \in Nat /\ outside \in Nat
  /\ dialog \in Senders \union {"none", "again"}
  /\ verified \in BOOLEAN /\ visible \in BOOLEAN /\ stale \in BOOLEAN

OneQuestion ==
  /\ \A i, j \in Flow : i = j
  /\ Flow # {} => dialog = "none"
  /\ visible <=> (Flow # {} \/ dialog # "none")

ListComes == dialog = "again" \/ \E i \in DOMAIN unanswered : unanswered[i].do \in ListDoes

Follows(c) ==
  \/ c.do = "confirm" /\ c.served /\ pending = cookie \ {"mail"}
  \/ c.do = "look" /\ cookie = pending \ {"mail"} /\ (c.served => "mail" \in c.got)

CookieIsRight ==
  stale \/ cookie = pending \/ ListComes \/ \E i \in DOMAIN unanswered : Follows(unanswered[i])

SettingsInv == SettingsTypes /\ OneQuestion /\ CookieIsRight

FlowCalls == {c \in SettingsCalls : c.do \in FlowDoes}
Quietly(next) == \A j \in DOMAIN next : next[j].do \notin FlowDoes

\* The calls of the page after an answer, and the one that is followed.
LEMMA IssuesIs ==
  ASSUME SettingsTypes, NEW i \in {0} \union DOMAIN unanswered, NEW next \in Seq(SettingsCalls),
         \A j \in DOMAIN next : next[j].do = "confirm" => next[j].of = "mail", Issues(i, next)
  PROVE  /\ unanswered' \in Seq(SettingsCalls) /\ issued' \in Nat
         /\ \A k \in DOMAIN unanswered' : unanswered'[k].do = "confirm" => unanswered'[k].of = "mail"
         /\ \A j \in DOMAIN unanswered \ {i} : \E k \in DOMAIN unanswered' : unanswered'[k] = unanswered[j]
         /\ \A j \in DOMAIN next : \E k \in DOMAIN unanswered' : unanswered'[k] = next[j]
         /\ (\A j, k \in Flow : j = k) /\ Quietly(next) => \A j, k \in Flow' : j = k
         /\ Flow \subseteq {i} /\ Len(next) = 1 => \A j, k \in Flow' : j = k
         /\ Quietly(next) => (Flow' = {} <=> Flow \subseteq {i})
         /\ ~Quietly(next) => Flow' # {}
<1> DEFINE r == RestAnd(unanswered, i, next)
<1>1. /\ unanswered \in Seq(SettingsCalls) /\ Len(next) \in Nat /\ issued \in Nat
      /\ \A j \in DOMAIN unanswered : unanswered[j].do = "confirm" => unanswered[j].of = "mail"
  BY DEF SettingsTypes
<1>2. unanswered' = r /\ issued' = issued + Len(next)
  BY DEF Issues, RestAnd
<1>3. /\ r \in Seq(SettingsCalls)
      /\ \A j \in DOMAIN unanswered \ {i} : \E k \in DOMAIN r : r[k] = unanswered[j]
      /\ \A j \in DOMAIN next : \E k \in DOMAIN r : r[k] = next[j]
      /\ \A k \in DOMAIN r : (\E j \in DOMAIN unanswered \ {i} : r[k] = unanswered[j])
                             \/ (\E l \in DOMAIN next : r[k] = next[l])
      /\ AtMostOne(unanswered, FlowCalls) /\ (\A j \in DOMAIN next : next[j] \notin FlowCalls)
           => AtMostOne(r, FlowCalls)
      /\ (\A j \in DOMAIN unanswered \ {i} : unanswered[j] \notin FlowCalls) /\ Len(next) = 1
           => AtMostOne(r, FlowCalls)
  BY <1>1, RestAndMore
<1> HIDE DEF r
<1>4. /\ \A j \in DOMAIN unanswered : unanswered[j] \in SettingsCalls
      /\ \A j \in DOMAIN next : next[j] \in SettingsCalls
      /\ \A j \in DOMAIN r : r[j] \in SettingsCalls
  BY <1>1, <1>3
<1>5. /\ \A j \in DOMAIN unanswered : j \in Flow <=> unanswered[j] \in FlowCalls
      /\ \A j \in DOMAIN next : next[j].do \in FlowDoes <=> next[j] \in FlowCalls
      /\ \A j \in DOMAIN r : r[j].do \in FlowDoes <=> r[j] \in FlowCalls
  BY <1>4 DEF Flow, FlowCalls, FlowDoes
<1>6. Flow' = {j \in DOMAIN r : r[j] \in FlowCalls} /\ Flow \subseteq DOMAIN unanswered
  BY <1>2, <1>5 DEF Flow, FlowDoes
<1>7. (\A j, k \in Flow : j = k) /\ Quietly(next) => \A j, k \in Flow' : j = k
  BY <1>3, <1>5, <1>6 DEF AtMostOne, Quietly
<1>8. Flow \subseteq {i} /\ Len(next) = 1 => \A j, k \in Flow' : j = k
  BY <1>3, <1>5, <1>6 DEF AtMostOne
<1>9. ASSUME Quietly(next) PROVE Flow' = {} <=> Flow \subseteq {i}
  BY <1>3, <1>5, <1>6, <1>9 DEF Quietly
<1>10. ASSUME ~Quietly(next) PROVE Flow' # {}
  BY <1>3, <1>5, <1>6, <1>10 DEF Quietly
<1>11. \A k \in DOMAIN r : r[k].do = "confirm" => r[k].of = "mail"
  BY <1>1, <1>3
<1> QED
  BY <1>1, <1>2, <1>3, <1>7, <1>8, <1>9, <1>10, <1>11


LEMMA NextCalls ==
  ASSUME cookie \in SUBSET Senders
  PROVE  /\ Lists \in Seq(SettingsCalls) /\ Checks \in Seq(SettingsCalls) /\ Lists \o Checks \in Seq(SettingsCalls)
         /\ <<>> \in Seq(SettingsCalls) /\ DOMAIN <<>> = {} /\ Quietly(<<>>)
         /\ Quietly(Lists) /\ Quietly(Checks) /\ Quietly(Lists \o Checks)
         /\ 1 \in DOMAIN Lists /\ Lists[1].do = "list"
         /\ \A j \in DOMAIN Lists : Lists[j].do # "confirm"
         /\ \A j \in DOMAIN Checks : Checks[j].do # "confirm"
         /\ \A j \in DOMAIN (Lists \o Checks) : (Lists \o Checks)[j].do # "confirm"
<1>1. /\ Unserved("list", "mail") \in SettingsCalls /\ Unserved("list", "mail").do = "list"
      /\ Unserved("check", First(cookie)) \in SettingsCalls /\ Unserved("check", First(cookie)).do = "check"
  BY DEF Unserved, SettingsCalls, Senders, First, Does
<1>2. /\ Lists \in Seq(SettingsCalls) /\ Len(Lists) = 1 /\ Lists[1].do = "list"
  BY <1>1 DEF Lists
<1>3. /\ Checks \in Seq(SettingsCalls) /\ Len(Checks) \in {0, 1}
      /\ \A j \in 1..Len(Checks) : Checks[j].do = "check"
  BY <1>1 DEF Checks
<1>4. /\ Lists \o Checks \in Seq(SettingsCalls) /\ Len(Lists \o Checks) = Len(Lists) + Len(Checks)
      /\ \A j \in 1..(Len(Lists) + Len(Checks)) :
           (Lists \o Checks)[j] = IF j <= Len(Lists) THEN Lists[j] ELSE Checks[j - Len(Lists)]
  BY <1>2, <1>3, ConcatProperties
<1>5. ASSUME NEW j \in DOMAIN (Lists \o Checks) PROVE (Lists \o Checks)[j].do \in {"list", "check"}
  <2>1. j \in 1..(1 + Len(Checks))
    BY <1>2, <1>4, <1>5
  <2>2. CASE j = 1
    BY <1>2, <1>4, <2>1, <2>2
  <2>3. CASE j # 1
    <3>1. j - 1 \in 1..Len(Checks) /\ ~(j <= 1)
      BY <1>3, <2>1, <2>3
    <3> QED
      BY <1>2, <1>3, <1>4, <2>1, <3>1
  <2> QED
    BY <2>2, <2>3
<1>6. DOMAIN Lists = 1..1 /\ DOMAIN Checks = 1..Len(Checks)
  BY <1>2, <1>3
<1>7. 1 \in DOMAIN Lists /\ \A j \in DOMAIN Lists : Lists[j].do = "list"
  BY <1>2, <1>6
<1> QED
  BY <1>2, <1>3, <1>4, <1>5, <1>6, <1>7 DEF Quietly, FlowDoes

LEMMA NextCall ==
  ASSUME NEW do \in Does, NEW s \in Senders
  PROVE  LET next == <<Unserved(do, s)>>
         IN /\ next \in Seq(SettingsCalls) /\ Len(next) = 1 /\ DOMAIN next = {1} /\ next[1] = Unserved(do, s)
            /\ next[1].do = do /\ next[1].of = s /\ next[1].served = FALSE
            /\ Quietly(next) <=> do \notin FlowDoes
<1>1. /\ Unserved(do, s) \in SettingsCalls /\ Unserved(do, s).do = do /\ Unserved(do, s).of = s
      /\ Unserved(do, s).served = FALSE
  BY DEF Unserved, SettingsCalls
<1>2. /\ <<Unserved(do, s)>> \in Seq(SettingsCalls) /\ Len(<<Unserved(do, s)>>) = 1
      /\ DOMAIN <<Unserved(do, s)>> = {1} /\ <<Unserved(do, s)>>[1] = Unserved(do, s)
  BY <1>1
<1> QED
  BY <1>1, <1>2 DEF Quietly

\* When what is pending and what the cookie says stay, an answer that neither
\* was followed nor had a list to come leaves the cookie right.
LEMMA CookieStaysRight ==
  ASSUME SettingsTypes, CookieIsRight, NEW i \in {0} \union DOMAIN unanswered, NEW next \in Seq(SettingsCalls),
         \A j \in DOMAIN next : next[j].do = "confirm" => next[j].of = "mail", Issues(i, next),
         UNCHANGED <<cookie, pending, stale>>,
         dialog = "again" => dialog' = "again" \/ \E j \in DOMAIN next : next[j].do \in ListDoes,
         i # 0 /\ unanswered[i].do \in ListDoes => \E j \in DOMAIN next : next[j].do \in ListDoes,
         i # 0 => ~Follows(unanswered[i])
  PROVE  CookieIsRight'
<1>1. /\ \A j \in DOMAIN unanswered \ {i} : \E k \in DOMAIN unanswered' : unanswered'[k] = unanswered[j]
      /\ \A j \in DOMAIN next : \E k \in DOMAIN unanswered' : unanswered'[k] = next[j]
  BY IssuesIs
<1>2. ASSUME NEW j \in DOMAIN next, next[j].do \in ListDoes PROVE ListComes'
  BY <1>1, <1>2 DEF ListComes
<1>3. ASSUME ListComes PROVE ListComes'
  <2>1. ASSUME NEW j \in DOMAIN unanswered, unanswered[j].do \in ListDoes PROVE ListComes'
    <3>1. CASE j = i
      <4>1. unanswered[i].do \in ListDoes
        BY <2>1, <3>1
      <4>2. i # 0
        BY <3>1 DEF SettingsTypes
      <4> QED
        BY <1>2, <4>1, <4>2
    <3>2. CASE j # i
      BY <1>1, <2>1, <3>2 DEF ListComes
    <3> QED
      BY <3>1, <3>2
  <2>2. ASSUME dialog = "again" PROVE ListComes'
    BY <1>2, <2>2 DEF ListComes
  <2> QED
    BY <1>3, <2>1, <2>2 DEF ListComes
<1>4. ASSUME NEW j \in DOMAIN unanswered, Follows(unanswered[j])
      PROVE  \E k \in DOMAIN unanswered' : Follows(unanswered[k])'
  <2>1. j # i
    BY <1>4 DEF SettingsTypes
  <2>2. PICK k \in DOMAIN unanswered' : unanswered'[k] = unanswered[j]
    BY <1>1, <2>1
  <2> QED
    BY <1>4, <2>2 DEF Follows
<1> QED
  BY <1>3, <1>4 DEF CookieIsRight

\* What the user or the timer does, and an answer that needs no more than a
\* list or nothing after it.
LEMMA PageAsks ==
  ASSUME SettingsInv, NEW next \in Seq(SettingsCalls), Quietly(next), Issues(0, next),
         \A j \in DOMAIN next : next[j].do = "confirm" => next[j].of = "mail",
         UNCHANGED <<SettingsServer, PageState, outside>>
  PROVE  SettingsInv'
<1>1. SettingsTypes /\ OneQuestion /\ CookieIsRight
  BY DEF SettingsInv
<1>2. UNCHANGED <<pending, verified, cookie, dialog, visible, stale, outside>>
  BY DEF SettingsServer, PageState
<1>3. CookieIsRight'
  BY <1>1, <1>2, CookieStaysRight
<1>4. /\ unanswered' \in Seq(SettingsCalls) /\ issued' \in Nat
      /\ \A k \in DOMAIN unanswered' : unanswered'[k].do = "confirm" => unanswered'[k].of = "mail"
      /\ (\A j, k \in Flow : j = k) => \A j, k \in Flow' : j = k
      /\ Flow' = {} <=> Flow \subseteq {0}
  BY <1>1, IssuesIs
<1>5. Flow \subseteq {0} <=> Flow = {}
  BY <1>1 DEF Flow, SettingsTypes
<1>6. SettingsTypes'
  BY <1>1, <1>2, <1>4 DEF SettingsTypes
<1>7. OneQuestion'
  BY <1>1, <1>2, <1>4, <1>5 DEF OneQuestion
<1> QED
  BY <1>3, <1>6, <1>7 DEF SettingsInv

LEMMA ServeSettingsInv ==
  ASSUME SettingsInv, NEW i \in DOMAIN unanswered, ServeSettings(i)
  PROVE  SettingsInv'
<1> DEFINE c == unanswered[i]
           new == [c EXCEPT !.served = TRUE, !.got = pending]
<1>1. /\ SettingsTypes /\ OneQuestion /\ CookieIsRight
      /\ unanswered \in Seq(SettingsCalls) /\ pending \in SUBSET Senders
  BY DEF SettingsInv, SettingsTypes
<1>2. /\ ~c.served /\ unanswered' = [unanswered EXCEPT ![i] = new] /\ pending' = pending \ Gone(c)
      /\ UNCHANGED <<verified, cookie, dialog, visible, stale, issued, outside>>
  BY DEF ServeSettings, PageState
<1>3. c \in SettingsCalls
  BY <1>1
<1>4. /\ new \in SettingsCalls /\ new.do = c.do /\ new.of = c.of /\ new.served /\ new.got = pending
  BY <1>1, <1>3 DEF SettingsCalls
<1>5. /\ unanswered' \in Seq(SettingsCalls) /\ DOMAIN unanswered' = DOMAIN unanswered /\ unanswered'[i] = new
      /\ \A j \in DOMAIN unanswered : j # i => unanswered'[j] = unanswered[j]
  BY <1>1, <1>2, <1>4
<1>6. c.do = "confirm" => c.of = "mail"
  BY <1>1 DEF SettingsTypes
<1> HIDE DEF new
<1>7. \A j \in DOMAIN unanswered : unanswered'[j].do = unanswered[j].do /\ unanswered'[j].of = unanswered[j].of
  BY <1>4, <1>5
<1>8. SettingsTypes'
  BY <1>1, <1>2, <1>5, <1>7 DEF SettingsTypes
<1>9. Flow' = Flow
  BY <1>5, <1>7 DEF Flow
<1>10. OneQuestion'
  BY <1>1, <1>2, <1>9 DEF OneQuestion
<1>11. ListComes => ListComes'
  BY <1>2, <1>5, <1>7 DEF ListComes
<1>12. CookieIsRight'
  <2>1. CASE c.do \in ListDoes
    BY <1>5, <1>7, <2>1 DEF CookieIsRight, ListComes
  <2>2. CASE c.do \notin ListDoes \union {"confirm"}
    <3>1. pending' = pending
      BY <1>2, <2>2 DEF Gone, ListDoes
    <3>2. ASSUME NEW j \in DOMAIN unanswered, Follows(unanswered[j])
          PROVE  pending = cookie \/ Follows(unanswered[j])'
      <4>1. CASE j = i
        <5>1. c.do = "look" /\ cookie = pending \ {"mail"}
          BY <1>2, <2>2, <3>2, <4>1 DEF Follows
        <5>2. CASE "mail" \in pending
          BY <1>2, <1>4, <1>5, <3>1, <4>1, <5>1, <5>2 DEF Follows
        <5>3. CASE "mail" \notin pending
          BY <5>1, <5>3
        <5> QED
          BY <5>2, <5>3
      <4>2. CASE j # i
        BY <1>2, <1>5, <3>1, <3>2, <4>2 DEF Follows
      <4> QED
        BY <4>1, <4>2
    <3> QED
      BY <1>1, <1>2, <1>5, <1>11, <3>1, <3>2 DEF CookieIsRight
  <2>3. CASE c.do = "confirm"
    <3>1. pending' = IF verified THEN pending \ {"mail"} ELSE pending
      BY <1>2, <1>6, <2>3 DEF Gone
    <3>2. ASSUME NEW j \in DOMAIN unanswered, Follows(unanswered[j]) PROVE FALSE
      <4>1. j \in Flow /\ i \in Flow
        BY <2>3, <3>2 DEF Follows, Flow
      <4>2. j = i
        BY <1>1, <4>1 DEF OneQuestion
      <4> QED
        BY <1>2, <2>3, <3>2, <4>2 DEF Follows
    <3>3. ASSUME cookie = pending, verified PROVE Follows(unanswered[i])'
      BY <1>2, <1>4, <1>5, <2>3, <3>1, <3>3 DEF Follows
    <3> QED
      BY <1>1, <1>2, <1>5, <1>11, <3>1, <3>2, <3>3 DEF CookieIsRight
  <2> QED
    BY <2>1, <2>2, <2>3
<1> QED
  BY <1>8, <1>10, <1>12 DEF SettingsInv

\* The answers of the calls that are followed: one ends them or leads to the next.
LEMMA FollowedInv ==
  ASSUME SettingsInv, NEW i \in DOMAIN unanswered,
         Confirmed(i) \/ LookedAt(i) \/ ResetDone(i)
  PROVE  SettingsInv'
<1>1. /\ SettingsTypes /\ OneQuestion /\ CookieIsRight /\ i # 0
      /\ pending \in SUBSET Senders /\ cookie \in SUBSET Senders
  BY DEF SettingsInv, SettingsTypes
<1>2. i \in Flow
  BY DEF Flow, Confirmed, LookedAt, ResetDone, Arrived
<1>3. Flow = {i} /\ dialog = "none" /\ visible
  BY <1>1, <1>2 DEF OneQuestion
<1>4. ASSUME NEW j \in DOMAIN unanswered, Follows(unanswered[j]) PROVE j = i
  BY <1>3, <1>4 DEF Follows, Flow
<1>5. CASE Confirmed(i)
  <2> DEFINE next == <<Unserved("look", "mail")>>
  <2>1. /\ unanswered[i].do = "confirm" /\ Issues(i, next) /\ cookie' = cookie \ {"mail"}
        /\ UNCHANGED <<pending, verified, dialog, visible, stale, outside>>
    BY <1>5 DEF Confirmed, Arrived, SettingsServer
  <2>2. /\ next \in Seq(SettingsCalls) /\ Len(next) = 1 /\ DOMAIN next = {1} /\ ~Quietly(next)
        /\ next[1].do = "look" /\ ~next[1].served
    BY NextCall DEF Does, Senders, FlowDoes
  <2> HIDE DEF next
  <2>3. /\ unanswered' \in Seq(SettingsCalls) /\ issued' \in Nat
        /\ \A k \in DOMAIN unanswered' : unanswered'[k].do = "confirm" => unanswered'[k].of = "mail"
        /\ \A j \in DOMAIN unanswered \ {i} : \E k \in DOMAIN unanswered' : unanswered'[k] = unanswered[j]
        /\ \E k \in DOMAIN unanswered' : unanswered'[k] = next[1]
        /\ \A j, k \in Flow' : j = k
        /\ Flow' # {}
    BY <1>1, <1>3, <2>1, <2>2, IssuesIs
  <2>4. SettingsTypes'
    BY <1>1, <2>1, <2>3 DEF SettingsTypes
  <2>5. OneQuestion'
    BY <1>3, <2>1, <2>3 DEF OneQuestion
  <2>6. ListComes => ListComes'
    BY <1>3, <2>1, <2>3 DEF ListComes, ListDoes
  <2>7. PICK k \in DOMAIN unanswered' : unanswered'[k] = next[1]
    BY <2>3
  <2>8. cookie' = pending \ {"mail"} => Follows(unanswered[k])'
    BY <2>1, <2>2, <2>7 DEF Follows
  <2>9. cookie = pending \/ Follows(unanswered[i]) => cookie' = pending \ {"mail"}
    BY <2>1 DEF Follows
  <2>10. CookieIsRight'
    BY <1>1, <1>4, <2>1, <2>6, <2>8, <2>9 DEF CookieIsRight
  <2> QED
    BY <2>4, <2>5, <2>10 DEF SettingsInv
<1>6. CASE LookedAt(i)
  <2>1. /\ unanswered[i].do = "look" /\ unanswered[i].served /\ Issues(i, <<>>)
        /\ UNCHANGED <<pending, verified, cookie, stale, outside>>
        /\ IF "mail" \in unanswered[i].got THEN dialog' = "again" /\ visible' = visible
           ELSE visible' = FALSE /\ dialog' = dialog
    BY <1>6 DEF LookedAt, Arrived, SettingsServer
  <2>2. <<>> \in Seq(SettingsCalls) /\ DOMAIN <<>> = {} /\ Quietly(<<>>)
    BY <1>1, NextCalls
  <2>3. /\ unanswered' \in Seq(SettingsCalls) /\ issued' \in Nat
        /\ \A k \in DOMAIN unanswered' : unanswered'[k].do = "confirm" => unanswered'[k].of = "mail"
        /\ \A j, k \in Flow' : j = k
        /\ Flow' = {}
    BY <1>1, <1>3, <2>1, <2>2, IssuesIs
  <2>4. SettingsTypes'
    BY <1>1, <1>3, <2>1, <2>3 DEF SettingsTypes
  <2>5. OneQuestion'
    BY <1>3, <2>1, <2>3 DEF OneQuestion
  <2>6. CookieIsRight'
    <3>1. CASE "mail" \in unanswered[i].got
      BY <2>1, <3>1 DEF CookieIsRight, ListComes
    <3>2. CASE "mail" \notin unanswered[i].got
      <4>1. ~Follows(unanswered[i])
        BY <2>1, <3>2 DEF Follows
      <4> QED
        BY <1>1, <1>3, <2>1, <2>2, <4>1, CookieStaysRight DEF ListDoes
    <3> QED
      BY <3>1, <3>2
  <2> QED
    BY <2>4, <2>5, <2>6 DEF SettingsInv
<1>7. CASE ResetDone(i)
  <2>1. /\ unanswered[i].do = "reset" /\ Issues(i, Lists) /\ visible' = FALSE
        /\ UNCHANGED <<pending, verified, cookie, dialog, stale, outside>>
    BY <1>7 DEF ResetDone, Arrived, SettingsServer
  <2>2. /\ Lists \in Seq(SettingsCalls) /\ Quietly(Lists) /\ 1 \in DOMAIN Lists /\ Lists[1].do = "list"
        /\ \A j \in DOMAIN Lists : Lists[j].do # "confirm"
    BY <1>1, NextCalls
  <2>3. /\ unanswered' \in Seq(SettingsCalls) /\ issued' \in Nat
        /\ \A k \in DOMAIN unanswered' : unanswered'[k].do = "confirm" => unanswered'[k].of = "mail"
        /\ \A j, k \in Flow' : j = k
        /\ Flow' = {}
        /\ \E k \in DOMAIN unanswered' : unanswered'[k] = Lists[1]
    BY <1>1, <1>3, <2>1, <2>2, IssuesIs
  <2>4. SettingsTypes'
    BY <1>1, <2>1, <2>3 DEF SettingsTypes
  <2>5. OneQuestion'
    BY <1>3, <2>1, <2>3 DEF OneQuestion
  <2>6. CookieIsRight'
    BY <2>2, <2>3 DEF CookieIsRight, ListComes, ListDoes
  <2> QED
    BY <2>4, <2>5, <2>6 DEF SettingsInv
<1> QED
  BY <1>5, <1>6, <1>7

\* The answer to a question leads to a call, which is followed or lists.
LEMMA AnswersInv ==
  ASSUME SettingsInv, SaysConfirmed \/ TryLater \/ UseOldSender
  PROVE  SettingsInv'
<1>1. SettingsTypes /\ OneQuestion /\ CookieIsRight /\ cookie \in SUBSET Senders
  BY DEF SettingsInv, SettingsTypes
<1>2. Flow = {} /\ visible
  BY <1>1 DEF OneQuestion, SaysConfirmed, TryLater, UseOldSender
<1>3. CASE SaysConfirmed \/ UseOldSender
  <2>1. PICK do \in {"confirm", "reset"} :
          /\ dialog = (IF do = "confirm" THEN "mail" ELSE "again") /\ dialog' = "none"
          /\ Issues(0, <<Unserved(do, "mail")>>)
          /\ UNCHANGED <<pending, verified, cookie, visible, stale, outside>>
    BY <1>3 DEF SaysConfirmed, UseOldSender, SettingsServer
  <2> DEFINE next == <<Unserved(do, "mail")>>
  <2>2. /\ next \in Seq(SettingsCalls) /\ Len(next) = 1 /\ DOMAIN next = {1} /\ ~Quietly(next)
        /\ next[1].do = do /\ next[1].of = "mail"
    BY NextCall DEF Does, Senders, FlowDoes
  <2> HIDE DEF next
  <2>3. Issues(0, next)
    BY <2>1 DEF next
  <2>4. /\ unanswered' \in Seq(SettingsCalls) /\ issued' \in Nat
        /\ \A k \in DOMAIN unanswered' : unanswered'[k].do = "confirm" => unanswered'[k].of = "mail"
        /\ \A j, k \in Flow' : j = k
        /\ Flow' # {}
    BY <1>1, <1>2, <2>2, <2>3, IssuesIs
  <2>5. SettingsTypes'
    BY <1>1, <2>1, <2>4 DEF SettingsTypes
  <2>6. OneQuestion'
    BY <1>2, <2>1, <2>4 DEF OneQuestion
  <2>7. CookieIsRight'
    <3>1. dialog = "again" => \E j \in DOMAIN next : next[j].do \in ListDoes
      BY <2>1, <2>2 DEF ListDoes
    <3> QED
      BY <1>1, <2>1, <2>2, <2>3, <3>1, CookieStaysRight
  <2> QED
    BY <2>5, <2>6, <2>7 DEF SettingsInv
<1>4. CASE TryLater
  <2>1. /\ dialog' = "none" /\ visible' = FALSE /\ Issues(0, Lists)
        /\ UNCHANGED <<pending, verified, cookie, stale, outside>>
    BY <1>4 DEF TryLater, SettingsServer
  <2>2. /\ Lists \in Seq(SettingsCalls) /\ Quietly(Lists) /\ 1 \in DOMAIN Lists /\ Lists[1].do = "list"
        /\ \A j \in DOMAIN Lists : Lists[j].do # "confirm"
    BY <1>1, NextCalls
  <2>3. /\ unanswered' \in Seq(SettingsCalls) /\ issued' \in Nat
        /\ \A k \in DOMAIN unanswered' : unanswered'[k].do = "confirm" => unanswered'[k].of = "mail"
        /\ \A j, k \in Flow' : j = k
        /\ Flow' = {}
        /\ \E k \in DOMAIN unanswered' : unanswered'[k] = Lists[1]
    BY <1>1, <1>2, <2>1, <2>2, IssuesIs
  <2>4. SettingsTypes'
    BY <1>1, <2>1, <2>3 DEF SettingsTypes
  <2>5. OneQuestion'
    BY <2>1, <2>3 DEF OneQuestion
  <2>6. CookieIsRight'
    BY <2>2, <2>3 DEF CookieIsRight, ListComes, ListDoes
  <2> QED
    BY <2>4, <2>5, <2>6 DEF SettingsInv
<1> QED
  BY <1>3, <1>4

\* The other answers.
LEMMA OtherAnswersInv ==
  ASSUME SettingsInv, NEW i \in DOMAIN unanswered, Listed(i) \/ Checked(i) \/ TableDone(i)
  PROVE  SettingsInv'
<1>1. /\ SettingsTypes /\ OneQuestion /\ CookieIsRight /\ i # 0
      /\ pending \in SUBSET Senders /\ cookie \in SUBSET Senders /\ unanswered[i] \in SettingsCalls
  BY DEF SettingsInv, SettingsTypes
<1>2. unanswered[i].do \notin FlowDoes /\ i \notin Flow
  BY DEF Flow, FlowDoes, Listed, Checked, TableDone, Arrived
<1>3. ~Follows(unanswered[i])
  BY <1>2 DEF Follows, FlowDoes
<1>4. PICK next \in {<<>>, Lists} : /\ Issues(i, next)
                                    /\ next = IF unanswered[i].do \in {"list", "check"} THEN <<>> ELSE Lists
  BY DEF Listed, Checked, TableDone, Arrived
<1>5. /\ next \in Seq(SettingsCalls) /\ Quietly(next) /\ \A j \in DOMAIN next : next[j].do # "confirm"
      /\ next = Lists => 1 \in DOMAIN next /\ next[1].do = "list"
  BY <1>1, <1>4, NextCalls
<1>6. /\ unanswered' \in Seq(SettingsCalls) /\ issued' \in Nat
      /\ \A k \in DOMAIN unanswered' : unanswered'[k].do = "confirm" => unanswered'[k].of = "mail"
      /\ \A j, k \in Flow' : j = k
      /\ Flow' = {} <=> Flow \subseteq {i}
  BY <1>1, <1>4, <1>5, IssuesIs DEF OneQuestion
<1>7. Flow' = {} <=> Flow = {}
  BY <1>2, <1>6
<1>8. CASE Listed(i)
  <2>1. /\ cookie' = unanswered[i].got /\ stale' = (cookie' # pending)
        /\ UNCHANGED <<pending, verified, dialog, visible, outside>>
    BY <1>8 DEF Listed, SettingsServer
  <2>2. cookie' \in SUBSET Senders /\ stale' \in BOOLEAN
    BY <1>1, <2>1 DEF SettingsCalls
  <2>3. SettingsTypes'
    BY <1>1, <1>6, <2>1, <2>2 DEF SettingsTypes
  <2>4. OneQuestion'
    BY <1>1, <1>6, <1>7, <2>1 DEF OneQuestion
  <2>5. CookieIsRight'
    BY <2>1 DEF CookieIsRight
  <2> QED
    BY <2>3, <2>4, <2>5 DEF SettingsInv
<1>9. CASE Checked(i)
  <2>1. /\ unanswered[i].do = "check" /\ visible' = TRUE
        /\ dialog' = IF visible THEN dialog ELSE unanswered[i].of
        /\ UNCHANGED <<pending, verified, cookie, stale, outside>>
    BY <1>9 DEF Checked, SettingsServer, Arrived
  <2>2. unanswered[i].of \in Senders
    BY <1>1 DEF SettingsCalls
  <2>3. SettingsTypes'
    BY <1>1, <1>6, <2>1, <2>2 DEF SettingsTypes
  <2>4. OneQuestion'
    BY <1>1, <1>6, <1>7, <2>1, <2>2 DEF OneQuestion, Senders
  <2>5. dialog = "again" => dialog' = "again"
    BY <1>1, <2>1 DEF OneQuestion
  <2>6. CookieIsRight'
    BY <1>1, <1>3, <1>4, <1>5, <2>1, <2>5, CookieStaysRight DEF ListDoes
  <2> QED
    BY <2>3, <2>4, <2>6 DEF SettingsInv
<1>10. CASE TableDone(i)
  <2>1. /\ unanswered[i].do \in {"resetRow", "activate"}
        /\ UNCHANGED <<pending, verified, cookie, dialog, visible, stale, outside>>
    BY <1>10 DEF TableDone, SettingsServer, PageState, Arrived
  <2>2. SettingsTypes'
    BY <1>1, <1>6, <2>1 DEF SettingsTypes
  <2>3. OneQuestion'
    BY <1>1, <1>6, <1>7, <2>1 DEF OneQuestion
  <2>4. \E j \in DOMAIN next : next[j].do \in ListDoes
    BY <1>4, <1>5, <2>1 DEF ListDoes
  <2>5. CookieIsRight'
    BY <1>1, <1>3, <1>4, <1>5, <2>1, <2>4, CookieStaysRight
  <2> QED
    BY <2>2, <2>3, <2>5 DEF SettingsInv
<1> QED
  BY <1>8, <1>9, <1>10

LEMMA FailSettingsInv ==
  ASSUME SettingsInv, NEW i \in DOMAIN unanswered, FailSettings(i)
  PROVE  SettingsInv'
<1> DEFINE next == IF unanswered[i].do = "reset" THEN Lists ELSE <<>>
<1>1. /\ SettingsTypes /\ OneQuestion /\ CookieIsRight /\ i # 0 /\ outside \in Nat
      /\ cookie \in SUBSET Senders
  BY DEF SettingsInv, SettingsTypes
<1>2. /\ Issues(i, next)
      /\ visible' = (visible /\ unanswered[i].do \notin {"confirm", "look", "reset"})
      /\ stale' = (stale \/ unanswered[i].do # "check")
      /\ outside' = outside + 1 /\ UNCHANGED <<pending, verified, cookie, dialog>>
  BY DEF FailSettings, SettingsServer
<1>3. next \in Seq(SettingsCalls) /\ Quietly(next) /\ \A j \in DOMAIN next : next[j].do # "confirm"
  BY <1>1, NextCalls
<1>4. /\ unanswered' \in Seq(SettingsCalls) /\ issued' \in Nat
      /\ \A k \in DOMAIN unanswered' : unanswered'[k].do = "confirm" => unanswered'[k].of = "mail"
      /\ \A j, k \in Flow' : j = k
      /\ Flow' = {} <=> Flow \subseteq {i}
  <2> HIDE DEF next
  <2> QED
    BY <1>1, <1>2, <1>3, IssuesIs DEF OneQuestion
<1>5. visible' \in BOOLEAN /\ stale' \in BOOLEAN
  BY <1>1, <1>2 DEF SettingsTypes
<1>6. SettingsTypes'
  BY <1>1, <1>2, <1>4, <1>5 DEF SettingsTypes
<1>7. OneQuestion'
  <2>1. i \in Flow <=> unanswered[i].do \in {"confirm", "look", "reset"}
    BY DEF Flow
  <2>2. CASE i \in Flow
    <3>1. Flow = {i} /\ dialog = "none"
      BY <1>1, <2>2 DEF OneQuestion
    <3> QED
      BY <1>2, <1>4, <2>1, <2>2, <3>1 DEF OneQuestion
  <2>3. CASE i \notin Flow
    <3>1. Flow' = {} <=> Flow = {}
      BY <1>4, <2>3
    <3> QED
      BY <1>1, <1>2, <1>4, <2>1, <2>3, <3>1 DEF OneQuestion
  <2> QED
    BY <2>2, <2>3
<1>8. CookieIsRight'
  <2>1. CASE unanswered[i].do = "check"
    <3>1. stale' = stale
      BY <1>1, <1>2, <2>1 DEF SettingsTypes
    <3>2. ~Follows(unanswered[i])
      BY <2>1 DEF Follows
    <3> HIDE DEF next
    <3> QED
      BY <1>1, <1>2, <1>3, <2>1, <3>1, <3>2, CookieStaysRight DEF ListDoes
  <2>2. CASE unanswered[i].do # "check"
    BY <1>2, <2>2 DEF CookieIsRight
  <2> QED
    BY <2>1, <2>2
<1> QED
  BY <1>6, <1>7, <1>8 DEF SettingsInv

LEMMA SettingsNextInv == SettingsInv /\ [SettingsPageNext]_settingsPageVars => SettingsInv'
<1> SUFFICES ASSUME SettingsInv, [SettingsPageNext]_settingsPageVars PROVE SettingsInv'
  OBVIOUS
<1>1. SettingsTypes /\ OneQuestion /\ CookieIsRight /\ cookie \in SUBSET Senders
  BY DEF SettingsInv, SettingsTypes
<1>2. CASE OpenSettings \/ CheckSettings
  BY <1>1, <1>2, NextCalls, PageAsks DEF OpenSettings, CheckSettings
<1>3. ASSUME NEW do \in {"resetRow", "activate"}, NEW s \in Senders, OfTable(do, s) PROVE SettingsInv'
  <2> DEFINE next == <<Unserved(do, s)>>
  <2>1. Issues(0, next) /\ UNCHANGED <<SettingsServer, PageState, outside>>
    BY <1>3 DEF OfTable
  <2>2. do \in Does /\ do \notin FlowDoes /\ do # "confirm"
    BY DEF Does, FlowDoes
  <2>3. /\ next \in Seq(SettingsCalls) /\ Quietly(next) /\ DOMAIN next = {1} /\ next[1].do = do
    BY <2>2, NextCall
  <2> HIDE DEF next
  <2> QED
    BY <2>1, <2>2, <2>3, PageAsks
<1>4. CASE CloseQuestion
  <2>1. /\ dialog # "none" /\ dialog # "again" /\ dialog' = "none" /\ visible' = FALSE
        /\ UNCHANGED <<pending, verified, cookie, stale, unanswered, issued, outside>>
    BY <1>4 DEF CloseQuestion, SettingsServer
  <2>2. Flow' = Flow
    BY <2>1 DEF Flow
  <2>3. SettingsTypes'
    BY <1>1, <2>1 DEF SettingsTypes
  <2>4. OneQuestion'
    BY <1>1, <2>1, <2>2 DEF OneQuestion
  <2>5. CookieIsRight'
    BY <1>1, <2>1 DEF CookieIsRight, ListComes, Follows
  <2> QED
    BY <2>3, <2>4, <2>5 DEF SettingsInv
<1>5. ASSUME NEW new \in SUBSET Senders, OthersChange(new) PROVE SettingsInv'
  <2>1. /\ outside' = outside + 1 /\ stale' = TRUE /\ pending' = new
        /\ verified' = (verified /\ "mail" \in new \intersect pending)
        /\ UNCHANGED <<cookie, dialog, visible, unanswered, issued>>
    BY <1>5 DEF OthersChange
  <2>2. verified' \in BOOLEAN /\ stale' \in BOOLEAN
    BY <1>1, <2>1 DEF SettingsTypes
  <2>3. SettingsTypes'
    BY <1>1, <2>1, <2>2 DEF SettingsTypes
  <2>4. OneQuestion' /\ CookieIsRight'
    BY <1>1, <2>1 DEF OneQuestion, Flow, CookieIsRight
  <2> QED
    BY <2>3, <2>4 DEF SettingsInv
<1>6. CASE OwnerClicksLink
  <2>1. verified' = TRUE /\ UNCHANGED <<pending, cookie, dialog, visible, stale, unanswered, issued, outside>>
    BY <1>6 DEF OwnerClicksLink, PageState
  <2> QED
    BY <1>1, <2>1 DEF SettingsInv, SettingsTypes, OneQuestion, Flow, CookieIsRight, ListComes, Follows
<1>7. CASE UNCHANGED settingsPageVars
  BY <1>1, <1>7 DEF settingsPageVars, SettingsInv, SettingsTypes, OneQuestion, Flow, CookieIsRight, ListComes, Follows
<1> QED
  BY <1>2, <1>3, <1>4, <1>5, <1>6, <1>7, AnswersInv, ServeSettingsInv, FollowedInv, OtherAnswersInv,
     FailSettingsInv DEF SettingsPageNext

(* One question at a time, the page asks again after it, and the cookie is   *)
(* right when the page could know (project-settings.vue, rest/project.py).   *)
THEOREM QuestionsStayRight == Spec => []QuestionsAreRight
<1>1. Init => SettingsInv
  <2> SUFFICES ASSUME SettingsPageInit PROVE SettingsInv
    BY DEF Init
  <2>1. unanswered = <<>> /\ DOMAIN unanswered = {} /\ unanswered \in Seq(SettingsCalls)
    BY DEF SettingsPageInit
  <2>2. Flow = {}
    BY <2>1 DEF Flow
  <2> QED
    BY <2>1, <2>2 DEF SettingsPageInit, SettingsInv, SettingsTypes, OneQuestion, CookieIsRight
<1>2. SettingsInv /\ [Next]_vars => SettingsInv'
  BY SettingsNextInv, EachPartSteps
<1>3. SettingsInv => QuestionsAreRight
  <2> SUFFICES ASSUME SettingsInv, unanswered = <<>>, ~visible, ~stale PROVE cookie = pending
    BY DEF SettingsInv, OneQuestion, QuestionsAreRight
  <2>1. DOMAIN unanswered = {}
    OBVIOUS
  <2> QED
    BY <2>1 DEF SettingsInv, OneQuestion, CookieIsRight, ListComes
<1> QED
  BY <1>1, <1>2, <1>3, PTL DEF Spec

-----------------------------------------------------------------------------
(* The dialogs for codes.  While tabs do not cross, one tab at a time is in  *)
(* a registration and one in a change of the address, which begins only when *)
(* somebody is logged in, and then nobody registers any more.                *)

RegisterPlaces == {"form", "code", "verify", "address", "readdress"}
ChangePlaces == {"update", "change", "confirm"}
Names == Tabs \union {"none"}
TabRecords == [at : {"page"} \union RegisterPlaces \union ChangePlaces, code : Nat,
               answer : {"none", "ok", "bad"}, waits : BOOLEAN, user : Names]

DialogTypes ==
  /\ tab \in [Tabs -> TabRecords]
  /\ registerFlow \in Nat /\ verifyEmail \in Names /\ loggedIn \in Names
  /\ flows \subseteq [code : Nat \ {0}, of : Names]
  /\ \A f \in flows : f.code <= made
  /\ \A f, g \in flows : f.code = g.code => f = g
  /\ signedUp \in [Tabs -> [state : {"no", "inactive", "active"}, mailed : SUBSET Nat]]
  /\ codes \subseteq Nat /\ made \in Nat /\ typed \in Nat

\* The flow that is current is of the tab, and its code was mailed.
Owns(t) == tab[t].at \in RegisterPlaces \ {"form"} \/ (tab[t].at = "form" /\ tab[t].answer = "ok")
WasMailed(t) ==
  tab[t].at \in {"code", "verify"} \/ (tab[t].at \in {"form", "readdress"} /\ tab[t].answer = "ok")

RegisterInv ==
  "register" \notin confused =>
    /\ \A t, o \in Tabs : tab[t].at \in RegisterPlaces /\ tab[o].at \in RegisterPlaces => t = o
    /\ \A t \in Tabs : Owns(t) => \A f \in Current : f.of = t
    /\ \A t \in Tabs : WasMailed(t) /\ Current # {} => registerFlow \in signedUp[t].mailed

ChangeBegun == verifyEmail # "none" \/ codes # {} \/ \E t \in Tabs : tab[t].at \in ChangePlaces

ChangeInv ==
  "change" \notin confused =>
    /\ ChangeBegun => loggedIn # "none" /\ \A t \in Tabs : tab[t].at \notin RegisterPlaces
    /\ \A t, o \in Tabs : tab[t].at \in ChangePlaces /\ tab[o].at \in ChangePlaces => t = o
    /\ verifyEmail # "none" =>
         /\ verifyEmail = loggedIn
         /\ codes # {} \/ \E t \in Tabs : tab[t].at = "confirm" /\ tab[t].answer = "ok"
    /\ \A t \in Tabs : tab[t].at \in {"change", "confirm"} => tab[t].user = verifyEmail
    /\ \A t \in Tabs : tab[t].at = "update" => tab[t].user = loggedIn /\ codes # {}

DialogInv == DialogTypes /\ RegisterInv /\ ChangeInv

PagePlaces == {"page"} \union RegisterPlaces \union ChangePlaces

LEMMA TabIs ==
  ASSUME DialogTypes, NEW t \in Tabs, NEW new \in TabRecords, Tab(t, new)
  PROVE  tab' \in [Tabs -> TabRecords] /\ tab'[t] = new /\ \A o \in Tabs : o # t => tab'[o] = tab[o]
BY DEF DialogTypes, Tab

LEMMA OpensIs ==
  ASSUME DialogTypes, NEW t \in Tabs, NEW place \in PagePlaces, Opens(t, place)
  PROVE  /\ tab' \in [Tabs -> TabRecords] /\ \A o \in Tabs : o # t => tab'[o] = tab[o]
         /\ tab'[t].at = place /\ tab'[t].answer = "none"
<1> DEFINE new == [NewTab EXCEPT !.at = place]
<1>1. new \in TabRecords /\ new.at = place /\ new.answer = "none"
  BY DEF NewTab, TabRecords, PagePlaces, Names
<1>2. Tab(t, new)
  BY DEF Opens
<1> HIDE DEF new
<1> QED
  BY <1>1, <1>2, TabIs

LEMMA AnswersIs ==
  ASSUME DialogTypes, NEW t \in Tabs, NEW answer \in {"none", "ok", "bad"}, Answers(t, answer)
  PROVE  /\ tab' \in [Tabs -> TabRecords] /\ \A o \in Tabs : o # t => tab'[o] = tab[o]
         /\ tab'[t].at = tab[t].at /\ tab'[t].user = tab[t].user /\ tab'[t].answer = answer
<1> DEFINE new == [tab[t] EXCEPT !.answer = answer]
<1>1. tab[t] \in TabRecords
  BY DEF DialogTypes
<1>2. new \in TabRecords /\ new.at = tab[t].at /\ new.user = tab[t].user /\ new.answer = answer
  BY <1>1 DEF TabRecords
<1>3. Tab(t, new)
  BY DEF Answers
<1> HIDE DEF new
<1> QED
  BY <1>2, <1>3, TabIs

LEMMA TypesIs ==
  ASSUME DialogTypes, NEW t \in Tabs, NEW place, NEW then \in PagePlaces, NEW code \in Nat, Types(t, place, then, code)
  PROVE  /\ tab' \in [Tabs -> TabRecords] /\ \A o \in Tabs : o # t => tab'[o] = tab[o]
         /\ tab[t].at = place /\ tab[t].answer = "none"
         /\ tab'[t].at = then /\ tab'[t].user = tab[t].user /\ tab'[t].answer = "none"
         /\ typed' \in Nat /\ UNCHANGED <<FlowCookies, AccountServer, made, confused>>
<1> DEFINE new == [tab[t] EXCEPT !.at = then, !.code = code]
<1>1. tab[t] \in TabRecords /\ tab[t].answer = "none" /\ tab[t].at = place
  BY DEF DialogTypes, Types, On
<1>2. new \in TabRecords /\ new.at = then /\ new.user = tab[t].user /\ new.answer = "none"
  BY <1>1 DEF TabRecords, PagePlaces
<1>3. Tab(t, new) /\ typed' \in Nat /\ UNCHANGED <<FlowCookies, AccountServer, made, confused>>
  BY DEF Types, DialogTypes
<1> HIDE DEF new
<1> QED
  BY <1>1, <1>2, <1>3, TabIs

LEMMA AsksForIs ==
  ASSUME DialogTypes, NEW t \in Tabs, NEW user \in Names, AsksFor(t, user)
  PROVE  /\ tab' \in [Tabs -> TabRecords] /\ \A o \in Tabs : o # t => tab'[o] = tab[o]
         /\ tab'[t].at = "change" /\ tab'[t].user = user /\ tab'[t].answer = "none"
<1> DEFINE new == [NewTab EXCEPT !.at = "change", !.user = user]
<1>1. new \in TabRecords /\ new.at = "change" /\ new.user = user /\ new.answer = "none"
  BY DEF NewTab, TabRecords, ChangePlaces
<1>2. Tab(t, new)
  BY DEF AsksFor
<1> HIDE DEF new
<1> QED
  BY <1>1, <1>2, TabIs

\* A step of tab t that begins no registration and keeps what is mailed.
LEMMA RegisterKept ==
  ASSUME RegisterInv, NEW t \in Tabs, confused \subseteq confused',
         \A o \in Tabs : o # t => tab'[o] = tab[o],
         tab'[t].at \in RegisterPlaces => tab[t].at \in RegisterPlaces,
         Owns(t)' => Owns(t), WasMailed(t)' => WasMailed(t),
         Current' \subseteq Current, Current' # {} => registerFlow' = registerFlow,
         \A o \in Tabs : signedUp'[o].mailed = signedUp[o].mailed
  PROVE  RegisterInv'
<1> SUFFICES ASSUME "register" \notin confused' PROVE RegisterInv!2'
  BY DEF RegisterInv
<1>1. RegisterInv!2
  BY DEF RegisterInv
<1>2. \A o \in Tabs : /\ tab'[o].at \in RegisterPlaces => tab[o].at \in RegisterPlaces
                      /\ Owns(o)' => Owns(o)
                      /\ WasMailed(o)' => WasMailed(o)
  BY DEF Owns, WasMailed
<1> QED
  BY <1>1, <1>2

\* A step of tab t outside a change of the address, or that gives it up.
LEMMA ChangeKept ==
  ASSUME ChangeInv, NEW t \in Tabs, confused \subseteq confused',
         \A o \in Tabs : o # t => tab'[o] = tab[o],
         tab'[t].at \in RegisterPlaces => tab[t].at \in RegisterPlaces,
         tab'[t].at \in ChangePlaces => /\ tab[t].at \in ChangePlaces /\ tab'[t].user = tab[t].user
                                        /\ (tab'[t].at = "update") <=> (tab[t].at = "update"),
         (tab[t].at = "confirm" /\ tab[t].answer = "ok") => (tab'[t].at = "confirm" /\ tab'[t].answer = "ok"),
         UNCHANGED <<verifyEmail, loggedIn, codes>>
  PROVE  ChangeInv'
<1> SUFFICES ASSUME "change" \notin confused' PROVE ChangeInv!2'
  BY DEF ChangeInv
<1>1. ChangeInv!2
  BY DEF ChangeInv
<1>2. \A o \in Tabs : /\ tab'[o].at \in RegisterPlaces => tab[o].at \in RegisterPlaces
                      /\ tab'[o].at \in ChangePlaces => /\ tab[o].at \in ChangePlaces /\ tab'[o].user = tab[o].user
                                                        /\ (tab'[o].at = "update") <=> (tab[o].at = "update")
                      /\ (tab[o].at = "confirm" /\ tab[o].answer = "ok") => (tab'[o].at = "confirm" /\ tab'[o].answer = "ok")
  OBVIOUS
<1>3. ChangeBegun' => ChangeBegun
  BY <1>2 DEF ChangeBegun
<1>4. \A o \in Tabs : tab'[o].at \in {"change", "confirm"} => tab[o].at \in {"change", "confirm"} /\ tab'[o].user = tab[o].user
  BY <1>2 DEF ChangePlaces
<1>5. \A o \in Tabs : tab'[o].at = "update" => tab[o].at = "update" /\ tab'[o].user = tab[o].user
  BY <1>2 DEF ChangePlaces
<1>6. ChangeInv!2!1'
  BY <1>1, <1>2, <1>3
<1>7. ChangeInv!2!2'
  BY <1>1, <1>2
<1>8. ChangeInv!2!3'
  BY <1>1, <1>2
<1>9. ChangeInv!2!4' /\ ChangeInv!2!5'
  BY <1>1, <1>4, <1>5
<1> QED
  BY <1>6, <1>7, <1>8, <1>9

\* Nobody changes an address.
LEMMA NoChange == ~ChangeBegun' => ChangeInv'
<1> SUFFICES ASSUME ~ChangeBegun', "change" \notin confused' PROVE ChangeInv!2'
  BY DEF ChangeInv
<1>1. verifyEmail' = "none" /\ codes' = {} /\ \A t \in Tabs : tab'[t].at \notin ChangePlaces
  BY DEF ChangeBegun
<1>2. ChangeInv!2!1' /\ ChangeInv!2!2' /\ ChangeInv!2!3'
  BY <1>1
<1>3. ChangeInv!2!4' /\ ChangeInv!2!5'
  BY <1>1 DEF ChangePlaces
<1> QED
  BY <1>2, <1>3

LEMMA CrossesIs ==
  ASSUME NEW t \in Tabs, NEW kind
  PROVE  /\ confused \subseteq Crosses(t, kind)
         /\ kind \notin Crosses(t, kind) => \A o \in Tabs : o # t => tab[o].at = "page"
BY DEF Crosses

\* A step that changes nothing but tab t, and begins neither dialog.
LEMMA PageStepInv ==
  ASSUME DialogInv, NEW t \in Tabs, tab' \in [Tabs -> TabRecords],
         \A o \in Tabs : o # t => tab'[o] = tab[o],
         tab'[t].at \in RegisterPlaces => tab[t].at \in RegisterPlaces,
         Owns(t)' => Owns(t), WasMailed(t)' => WasMailed(t),
         tab'[t].at \in ChangePlaces => /\ tab[t].at \in ChangePlaces /\ tab'[t].user = tab[t].user
                                        /\ (tab'[t].at = "update") <=> (tab[t].at = "update"),
         (tab[t].at = "confirm" /\ tab[t].answer = "ok") => (tab'[t].at = "confirm" /\ tab'[t].answer = "ok"),
         UNCHANGED <<FlowCookies, AccountServer, made, confused>>, typed' \in Nat
  PROVE  DialogInv'
<1>1. DialogTypes /\ RegisterInv /\ ChangeInv
  BY DEF DialogInv
<1>2. UNCHANGED <<registerFlow, verifyEmail, flows, signedUp, loggedIn, codes, made, confused>>
  BY DEF FlowCookies, AccountServer
<1>3. Current' = Current
  BY <1>2 DEF Current
<1>4. DialogTypes'
  BY <1>1, <1>2 DEF DialogTypes
<1>5. RegisterInv'
  BY <1>1, <1>2, <1>3, RegisterKept
<1>6. ChangeInv'
  BY <1>1, <1>2, ChangeKept
<1> QED
  BY <1>4, <1>5, <1>6 DEF DialogInv

LEMMA MovesInv ==
  ASSUME DialogInv, NEW t \in Tabs, NEW place \in PagePlaces, Moves(t, place),
         place \in RegisterPlaces => tab[t].at \in RegisterPlaces,
         place \notin ChangePlaces, ~(tab[t].at = "confirm" /\ tab[t].answer = "ok"),
         place \in RegisterPlaces \ {"form"} => Owns(t),
         place \in {"code", "verify"} => WasMailed(t)
  PROVE  DialogInv'
<1>1. Opens(t, place) /\ UNCHANGED <<FlowCookies, AccountServer, made, typed, confused>>
  BY DEF Moves
<1>2. DialogTypes /\ typed \in Nat
  BY DEF DialogInv, DialogTypes
<1>3. /\ tab' \in [Tabs -> TabRecords] /\ \A o \in Tabs : o # t => tab'[o] = tab[o]
      /\ tab'[t].at = place /\ tab'[t].answer = "none"
  BY <1>1, <1>2, OpensIs
<1>4. Owns(t)' => Owns(t)
  BY <1>3 DEF Owns
<1>5. WasMailed(t)' => WasMailed(t)
  BY <1>3 DEF WasMailed
<1>6. tab'[t].at \notin ChangePlaces /\ typed' \in Nat
  BY <1>1, <1>2, <1>3
<1> QED
  BY <1>1, <1>3, <1>4, <1>5, <1>6, PageStepInv

LEMMA OpenFormInv == ASSUME DialogInv, NEW t \in Tabs, OpenForm(t) PROVE DialogInv'
<1>1. DialogTypes /\ RegisterInv /\ ChangeInv
  BY DEF DialogInv
<1>2. /\ loggedIn = "none" /\ made' = made + 1 /\ registerFlow' = made'
      /\ flows' = (flows \union {[code |-> made', of |-> "none"]})
      /\ Opens(t, "form") /\ confused' = Crosses(t, "register")
      /\ signedUp' = [signedUp EXCEPT ![t] = [state |-> "no", mailed |-> {}]]
      /\ UNCHANGED <<verifyEmail, loggedIn, codes, typed>>
  BY DEF OpenForm
<1>3. "form" \in PagePlaces
  BY DEF PagePlaces, RegisterPlaces
<1>4. /\ tab' \in [Tabs -> TabRecords] /\ \A o \in Tabs : o # t => tab'[o] = tab[o]
      /\ tab'[t].at = "form" /\ tab'[t].answer = "none"
  BY <1>1, <1>2, <1>3, OpensIs
<1>5. DialogTypes'
  <2>1. /\ made \in Nat /\ made' \in Nat \ {0} /\ flows \subseteq [code : Nat \ {0}, of : Names]
        /\ \A f \in flows : f.code <= made
    BY <1>1, <1>2 DEF DialogTypes
  <2>2. [code |-> made', of |-> "none"] \in [code : Nat \ {0}, of : Names]
    BY <2>1 DEF Names
  <2>3. \A f \in flows : f.code \in Nat /\ f.code < made' /\ f.code # made'
    BY <1>2, <2>1
  <2>4. flows' \subseteq [code : Nat \ {0}, of : Names] /\ \A f \in flows' : f.code <= made'
    BY <1>2, <2>1, <2>2, <2>3
  <2>5. \A f, g \in flows' : f.code = g.code => f = g
    <3>1. \A f, g \in flows : f.code = g.code => f = g
      BY <1>1 DEF DialogTypes
    <3> QED
      BY <1>2, <2>3, <3>1
  <2>6. signedUp' \in [Tabs -> [state : {"no", "inactive", "active"}, mailed : SUBSET Nat]]
    BY <1>1, <1>2 DEF DialogTypes
  <2> QED
    BY <1>1, <1>2, <1>4, <2>1, <2>4, <2>5, <2>6 DEF DialogTypes
<1>6. confused \subseteq confused' /\ ("register" \notin confused' => \A o \in Tabs : o # t => tab[o].at = "page")
  BY <1>2, CrossesIs
<1>7. RegisterInv'
  <2> SUFFICES ASSUME "register" \notin confused' PROVE RegisterInv!2'
    BY DEF RegisterInv
  <2>1. \A o \in Tabs : o # t => tab'[o].at = "page"
    BY <1>4, <1>6
  <2>2. \A o \in Tabs : tab'[o].at \in RegisterPlaces => o = t
    BY <2>1 DEF RegisterPlaces
  <2>3. \A o \in Tabs : ~Owns(o)' /\ ~WasMailed(o)'
    BY <1>4, <2>1 DEF Owns, WasMailed, RegisterPlaces
  <2> QED
    BY <2>2, <2>3
<1>8. ChangeInv'
  <2>1. CASE "change" \in confused'
    BY <2>1 DEF ChangeInv
  <2>2. CASE "change" \notin confused'
    <3>1. ~ChangeBegun
      BY <1>1, <1>2, <1>6, <2>2 DEF ChangeInv
    <3>2. \A o \in Tabs : tab'[o].at \notin ChangePlaces
      BY <1>4, <3>1 DEF ChangeBegun, ChangePlaces
    <3>3. ~ChangeBegun'
      BY <1>2, <3>1, <3>2 DEF ChangeBegun
    <3> QED
      BY <3>3, NoChange
  <2> QED
    BY <2>1, <2>2
<1> QED
  BY <1>5, <1>7, <1>8 DEF DialogInv

LEMMA SignUpInv == ASSUME DialogInv, NEW t \in Tabs, SignUp(t) PROVE DialogInv'
<1>1. DialogTypes /\ RegisterInv /\ ChangeInv /\ typed \in Nat
  BY DEF DialogInv, DialogTypes
<1>2. tab[t].at = "form" /\ tab[t].answer = "none" /\ UNCHANGED <<registerFlow, verifyEmail, loggedIn, codes, made, typed, confused>>
  BY DEF SignUp, On, FlowCookies
<1>3. CASE Answers(t, "bad") /\ UNCHANGED <<flows, signedUp>>
  <2>1. /\ tab' \in [Tabs -> TabRecords] /\ \A o \in Tabs : o # t => tab'[o] = tab[o]
        /\ tab'[t].at = tab[t].at /\ tab'[t].user = tab[t].user /\ tab'[t].answer = "bad"
    BY <1>1, <1>3, AnswersIs
  <2>2. ~Owns(t)' /\ ~WasMailed(t)'
    BY <1>2, <2>1 DEF Owns, WasMailed
  <2>3. tab'[t].at \notin ChangePlaces /\ tab[t].at # "confirm" /\ UNCHANGED <<FlowCookies, AccountServer, made, confused>>
    BY <1>2, <1>3, <2>1 DEF FlowCookies, AccountServer, ChangePlaces
  <2> QED
    BY <1>1, <1>2, <2>1, <2>2, <2>3, PageStepInv
<1>4. CASE /\ Answers(t, "ok") /\ Cache(t)
           /\ signedUp' = [signedUp EXCEPT ![t] = [state |-> "inactive", mailed |-> CodesOf(Current)]]
  <2>1. /\ tab' \in [Tabs -> TabRecords] /\ \A o \in Tabs : o # t => tab'[o] = tab[o]
        /\ tab'[t].at = "form" /\ tab'[t].answer = "ok"
    BY <1>1, <1>2, <1>4, AnswersIs
  <2>2. /\ flows \subseteq [code : Nat \ {0}, of : Names] /\ \A f \in flows : f.code <= made
        /\ \A f, g \in flows : f.code = g.code => f = g
    BY <1>1 DEF DialogTypes
  <2>3. \A f \in Current : f \in flows /\ f.code = registerFlow
    BY DEF Current
  <2>4. \A f \in Current : LET g == [f EXCEPT !.of = t] IN
          g \in [code : Nat \ {0}, of : Names] /\ g.code = registerFlow /\ g.of = t /\ g.code <= made
    BY <2>2, <2>3 DEF Names
  <2>5. flows' = (flows \ Current) \union {[f EXCEPT !.of = t] : f \in Current}
    BY <1>4 DEF Cache
  <2>6. \A g \in flows' : (g \in flows /\ g.code # registerFlow)
                          \/ (g.code = registerFlow /\ g.of = t /\ (\E f \in Current : g = [f EXCEPT !.of = t]))
    <3>1. \A g \in flows \ Current : g.code # registerFlow
      BY DEF Current
    <3> QED
      BY <2>4, <2>5, <3>1
  <2>7. \A f \in Current' : f.of = t /\ (\E g \in Current : f = [g EXCEPT !.of = t])
    BY <1>2, <2>6 DEF Current
  <2>8. DialogTypes'
    <3>1. flows' \subseteq [code : Nat \ {0}, of : Names] /\ \A f \in flows' : f.code <= made
      BY <2>2, <2>4, <2>5
    <3>2. \A f, g \in Current : f = g
      BY <2>2, <2>3
    <3>3. \A f, g \in flows' : f.code = g.code => f = g
      BY <2>2, <2>6, <3>2
    <3>4. CodesOf(Current) \subseteq Nat
      BY <2>2, <2>3 DEF CodesOf
    <3>5. signedUp' \in [Tabs -> [state : {"no", "inactive", "active"}, mailed : SUBSET Nat]]
      BY <1>1, <1>4, <3>4 DEF DialogTypes
    <3> QED
      BY <1>1, <1>2, <2>1, <3>1, <3>3, <3>5 DEF DialogTypes
  <2>9. RegisterInv'
    <3> SUFFICES ASSUME "register" \notin confused' PROVE RegisterInv!2'
      BY DEF RegisterInv
    <3>1. \A o \in Tabs : tab[o].at \in RegisterPlaces => o = t
      BY <1>1, <1>2 DEF RegisterInv, RegisterPlaces
    <3>2. \A o \in Tabs : tab'[o].at \in RegisterPlaces => o = t
      BY <2>1, <3>1
    <3>3. \A o \in Tabs : (Owns(o) \/ WasMailed(o))' => o = t
      BY <3>2 DEF Owns, WasMailed, RegisterPlaces
    <3>4. signedUp'[t].mailed = CodesOf(Current)
      BY <1>1, <1>4 DEF DialogTypes
    <3>5. Current # {} => registerFlow \in CodesOf(Current)
      BY <2>3 DEF CodesOf
    <3> QED
      BY <1>2, <2>7, <3>2, <3>3, <3>4, <3>5
  <2>10. ChangeInv'
    BY <1>1, <1>2, <2>1, ChangeKept DEF ChangePlaces
  <2> QED
    BY <2>8, <2>9, <2>10 DEF DialogInv
<1> QED
  BY <1>3, <1>4 DEF SignUp

LEMMA ToldInv == ASSUME DialogInv, NEW t \in Tabs, Told(t) PROVE DialogInv'
<1> DEFINE new == [NewTab EXCEPT !.at = "code", !.waits = TRUE]
<1>1. /\ tab[t].at = "form" /\ tab[t].answer = "ok" /\ Tab(t, new)
      /\ UNCHANGED <<FlowCookies, AccountServer, made, typed, confused>>
  BY DEF Told, Got
<1>2. DialogTypes /\ typed \in Nat
  BY DEF DialogInv, DialogTypes
<1>3. new \in TabRecords /\ new.at = "code" /\ new.answer = "none"
  BY DEF NewTab, TabRecords, RegisterPlaces, Names
<1> HIDE DEF new
<1>4. /\ tab' \in [Tabs -> TabRecords] /\ \A o \in Tabs : o # t => tab'[o] = tab[o]
      /\ tab'[t].at = "code" /\ tab'[t].answer = "none"
  BY <1>1, <1>2, <1>3, TabIs
<1>5. tab[t].at \in RegisterPlaces /\ Owns(t) /\ WasMailed(t) /\ tab'[t].at \notin ChangePlaces
  BY <1>1, <1>4 DEF Owns, WasMailed, RegisterPlaces, ChangePlaces
<1>6. ~(tab[t].at = "confirm" /\ tab[t].answer = "ok") /\ typed' \in Nat
  BY <1>1, <1>2
<1> QED
  BY <1>1, <1>4, <1>5, <1>6, PageStepInv

LEMMA ProceedInv ==
  ASSUME DialogInv, NEW t \in Tabs, NEW code \in 0..made, Proceed(t, code) PROVE DialogInv'
<1>1. DialogTypes /\ Types(t, "code", "verify", code) /\ code \in Nat /\ "verify" \in PagePlaces
  BY DEF DialogInv, DialogTypes, Proceed, PagePlaces, RegisterPlaces
<1>2. /\ tab' \in [Tabs -> TabRecords] /\ \A o \in Tabs : o # t => tab'[o] = tab[o]
      /\ tab[t].at = "code" /\ tab[t].answer = "none"
      /\ tab'[t].at = "verify" /\ tab'[t].user = tab[t].user /\ tab'[t].answer = "none"
      /\ typed' \in Nat /\ UNCHANGED <<FlowCookies, AccountServer, made, confused>>
  BY <1>1, TypesIs
<1>3. tab[t].at \in RegisterPlaces /\ Owns(t) /\ WasMailed(t) /\ tab'[t].at \notin ChangePlaces
  BY <1>2 DEF Owns, WasMailed, RegisterPlaces, ChangePlaces
<1> QED
  BY <1>2, <1>3, PageStepInv

LEMMA NewEmailInv == ASSUME DialogInv, NEW t \in Tabs, NewEmail(t) PROVE DialogInv'
<1>1. DialogTypes /\ Types(t, "address", "readdress", 0) /\ 0 \in Nat /\ "readdress" \in PagePlaces
  BY DEF DialogInv, NewEmail, PagePlaces, RegisterPlaces
<1>2. /\ tab' \in [Tabs -> TabRecords] /\ \A o \in Tabs : o # t => tab'[o] = tab[o]
      /\ tab[t].at = "address" /\ tab[t].answer = "none"
      /\ tab'[t].at = "readdress" /\ tab'[t].user = tab[t].user /\ tab'[t].answer = "none"
      /\ typed' \in Nat /\ UNCHANGED <<FlowCookies, AccountServer, made, confused>>
  BY <1>1, TypesIs
<1>3. tab[t].at \in RegisterPlaces /\ Owns(t) /\ ~WasMailed(t)' /\ tab'[t].at \notin ChangePlaces
  BY <1>2 DEF Owns, WasMailed, RegisterPlaces, ChangePlaces
<1> QED
  BY <1>2, <1>3, PageStepInv

LEMMA VerifyCodeInv == ASSUME DialogInv, NEW t \in Tabs, VerifyCode(t) PROVE DialogInv'
<1> DEFINE found == CacheOf(tab[t].code)
           answer == IF found # {} THEN "ok" ELSE "bad"
<1>1. DialogTypes /\ RegisterInv /\ ChangeInv
  BY DEF DialogInv
<1>2. /\ tab[t].at = "verify" /\ tab[t].answer = "none"
      /\ Answers(t, answer)
      /\ loggedIn' = IF found = {} THEN loggedIn ELSE (CHOOSE f \in found : TRUE).of
      /\ codes' = IF loggedIn' = loggedIn THEN codes ELSE {}
      /\ signedUp' = [o \in Tabs |-> IF \E f \in found : f.of = o
                                     THEN [signedUp[o] EXCEPT !.state = "active"] ELSE signedUp[o]]
      /\ UNCHANGED <<registerFlow, verifyEmail, flows, made, typed, confused>>
  BY DEF VerifyCode, On, FlowCookies
<1>3. found \subseteq flows
  BY DEF CacheOf, Current
<1> HIDE DEF found
<1>4. answer \in {"none", "ok", "bad"}
  OBVIOUS
<1> HIDE DEF answer
<1>5. /\ tab' \in [Tabs -> TabRecords] /\ \A o \in Tabs : o # t => tab'[o] = tab[o]
      /\ tab'[t].at = "verify" /\ tab'[t].answer = answer
  BY <1>1, <1>2, <1>4, AnswersIs
<1>6. DialogTypes'
  <2>1. \A f \in flows : f.of \in Names
    BY <1>1 DEF DialogTypes
  <2>2. loggedIn' \in Names
    <3>1. found # {} => (CHOOSE f \in found : TRUE) \in found
      OBVIOUS
    <3>2. loggedIn \in Names
      BY <1>1 DEF DialogTypes
    <3> QED
      BY <1>2, <1>3, <2>1, <3>1, <3>2
  <2>3. signedUp' \in [Tabs -> [state : {"no", "inactive", "active"}, mailed : SUBSET Nat]]
    BY <1>1, <1>2 DEF DialogTypes
  <2>4. codes' \subseteq Nat
    BY <1>1, <1>2 DEF DialogTypes
  <2> QED
    BY <1>1, <1>2, <1>5, <2>2, <2>3, <2>4 DEF DialogTypes
<1>7. \A o \in Tabs : signedUp'[o].mailed = signedUp[o].mailed
  <2>1. signedUp \in [Tabs -> [state : {"no", "inactive", "active"}, mailed : SUBSET Nat]]
    BY <1>1 DEF DialogTypes
  <2> QED
    BY <1>2, <2>1
<1>8. RegisterInv'
  <2>1. Current' = Current
    BY <1>2 DEF Current
  <2>2. tab[t].at \in RegisterPlaces /\ Owns(t) /\ WasMailed(t)
    BY <1>2 DEF Owns, WasMailed, RegisterPlaces
  <2> QED
    BY <1>1, <1>2, <1>5, <1>7, <2>1, <2>2, RegisterKept
<1>9. ChangeInv'
  <2>1. CASE "change" \in confused'
    BY <2>1 DEF ChangeInv
  <2>2. CASE "change" \notin confused'
    <3>1. tab[t].at \in RegisterPlaces
      BY <1>2 DEF RegisterPlaces
    <3>2. ~ChangeBegun
      BY <1>1, <1>2, <2>2, <3>1 DEF ChangeInv
    <3>3. \A o \in Tabs : tab'[o].at \notin ChangePlaces
      BY <1>5, <3>2 DEF ChangeBegun, ChangePlaces
    <3>4. ~ChangeBegun'
      BY <1>2, <3>2, <3>3 DEF ChangeBegun
    <3> QED
      BY <3>4, NoChange
  <2> QED
    BY <2>1, <2>2
<1> QED
  BY <1>6, <1>8, <1>9 DEF DialogInv

LEMMA VerifiedInv == ASSUME DialogInv, NEW t \in Tabs, Verified(t) PROVE DialogInv'
<1>1. DialogTypes /\ RegisterInv /\ ChangeInv
  BY DEF DialogInv
<1>2. /\ tab[t].at = "verify" /\ tab[t].answer = "ok" /\ Opens(t, "page") /\ registerFlow' = 0
      /\ UNCHANGED <<verifyEmail, flows, signedUp, loggedIn, codes, made, typed, confused>>
  BY DEF Verified, Got, AccountServer
<1>3. "page" \in PagePlaces
  BY DEF PagePlaces
<1>4. /\ tab' \in [Tabs -> TabRecords] /\ \A o \in Tabs : o # t => tab'[o] = tab[o]
      /\ tab'[t].at = "page" /\ tab'[t].answer = "none"
  BY <1>1, <1>2, <1>3, OpensIs
<1>5. Current' = {}
  <2>1. \A f \in flows : f.code # 0
    BY <1>1 DEF DialogTypes
  <2> QED
    BY <1>2, <2>1 DEF Current
<1>6. DialogTypes'
  BY <1>1, <1>2, <1>4 DEF DialogTypes
<1>7. ~Owns(t)' /\ ~WasMailed(t)' /\ tab'[t].at \notin RegisterPlaces /\ tab'[t].at \notin ChangePlaces
  BY <1>4 DEF Owns, WasMailed, RegisterPlaces, ChangePlaces
<1>8. RegisterInv'
  BY <1>1, <1>2, <1>4, <1>5, <1>7, RegisterKept
<1>9. ChangeInv'
  BY <1>1, <1>2, <1>4, <1>7, ChangeKept
<1> QED
  BY <1>6, <1>8, <1>9 DEF DialogInv

LEMMA ReaddressInv == ASSUME DialogInv, NEW t \in Tabs, Readdress(t) PROVE DialogInv'
<1>1. DialogTypes /\ RegisterInv /\ ChangeInv
  BY DEF DialogInv
<1>2. /\ tab[t].at = "readdress" /\ tab[t].answer = "none"
      /\ UNCHANGED <<registerFlow, verifyEmail, flows, loggedIn, codes, made, typed, confused>>
  BY DEF Readdress, On, FlowCookies
<1>3. CASE Answers(t, "bad") /\ UNCHANGED signedUp
  <2>1. /\ tab' \in [Tabs -> TabRecords] /\ \A o \in Tabs : o # t => tab'[o] = tab[o]
        /\ tab'[t].at = tab[t].at /\ tab'[t].user = tab[t].user /\ tab'[t].answer = "bad"
    BY <1>1, <1>3, AnswersIs
  <2>2. Owns(t) /\ ~WasMailed(t)' /\ tab'[t].at \notin ChangePlaces
    BY <1>2, <2>1 DEF Owns, WasMailed, RegisterPlaces, ChangePlaces
  <2>3. UNCHANGED <<FlowCookies, AccountServer, made, confused>> /\ typed' \in Nat /\ tab[t].at # "confirm"
    BY <1>1, <1>2, <1>3 DEF FlowCookies, AccountServer, DialogTypes
  <2> QED
    BY <2>1, <2>2, <2>3, PageStepInv
<1>4. ASSUME NEW f \in CacheOf(registerFlow), NEW mailSent \in BOOLEAN,
             Answers(t, IF mailSent THEN "ok" ELSE "bad"),
             signedUp' = [signedUp EXCEPT ![f.of].mailed = IF mailSent THEN {f.code} ELSE {}]
      PROVE  DialogInv'
  <2> DEFINE answer == IF mailSent THEN "ok" ELSE "bad"
             mailed == IF mailSent THEN {f.code} ELSE {}
  <2>1. answer \in {"none", "ok", "bad"} /\ Answers(t, answer) /\ (answer = "ok" => mailSent)
    BY <1>4
  <2>2. f \in Current /\ f.code = registerFlow /\ f.of \in Tabs /\ f.code \in Nat
    <3>1. f \in Current /\ f.code = registerFlow /\ f.of # "none" /\ f \in flows
      BY DEF CacheOf, Current
    <3> QED
      BY <1>1, <3>1 DEF DialogTypes, Names
  <2>3. mailed \subseteq Nat /\ (mailSent => registerFlow \in mailed) /\ signedUp' = [signedUp EXCEPT ![f.of].mailed = mailed]
    BY <1>4, <2>2
  <2> HIDE DEF answer, mailed
  <2>4. /\ tab' \in [Tabs -> TabRecords] /\ \A o \in Tabs : o # t => tab'[o] = tab[o]
        /\ tab'[t].at = "readdress" /\ tab'[t].answer = answer
    BY <1>1, <1>2, <2>1, AnswersIs
  <2>5. signedUp' \in [Tabs -> [state : {"no", "inactive", "active"}, mailed : SUBSET Nat]] /\ signedUp'[f.of].mailed = mailed
    BY <1>1, <2>2, <2>3 DEF DialogTypes
  <2>6. DialogTypes'
    BY <1>1, <1>2, <2>4, <2>5 DEF DialogTypes
  <2>7. RegisterInv'
    <3> SUFFICES ASSUME "register" \notin confused' PROVE RegisterInv!2'
      BY DEF RegisterInv
    <3>1. RegisterInv!2
      BY <1>1, <1>2 DEF RegisterInv
    <3>2. tab[t].at \in RegisterPlaces /\ Owns(t)
      BY <1>2 DEF Owns, RegisterPlaces
    <3>3. f.of = t
      BY <2>2, <3>1, <3>2
    <3>4. \A o \in Tabs : tab'[o].at \in RegisterPlaces => o = t
      BY <2>4, <3>1, <3>2
    <3>5. \A o \in Tabs : (Owns(o) \/ WasMailed(o))' => o = t
      BY <3>4 DEF Owns, WasMailed, RegisterPlaces
    <3>6. Current' = Current /\ registerFlow' = registerFlow
      BY <1>2 DEF Current
    <3>7. WasMailed(t)' => mailSent
      BY <2>1, <2>4 DEF WasMailed
    <3>8. \A g \in Current : g.of = t
      BY <3>1, <3>2
    <3> QED
      BY <2>3, <2>5, <3>3, <3>4, <3>5, <3>6, <3>7, <3>8
  <2>8. ChangeInv'
    BY <1>1, <1>2, <2>4, ChangeKept DEF ChangePlaces
  <2> QED
    BY <2>6, <2>7, <2>8 DEF DialogInv
<1> QED
  BY <1>3, <1>4 DEF Readdress

LEMMA SaveProfileInv == ASSUME DialogInv, NEW t \in Tabs, SaveProfile(t) PROVE DialogInv'
<1> DEFINE new == [NewTab EXCEPT !.at = "update", !.answer = "ok", !.user = loggedIn]
<1>1. DialogTypes /\ RegisterInv /\ ChangeInv
  BY DEF DialogInv
<1>2. /\ loggedIn # "none" /\ made' = made + 1 /\ codes' = codes \union {made'}
      /\ Tab(t, new) /\ confused' = Crosses(t, "change")
      /\ UNCHANGED <<registerFlow, verifyEmail, flows, signedUp, loggedIn, typed>>
  BY DEF SaveProfile, FlowCookies
<1>3. new \in TabRecords /\ new.at = "update" /\ new.user = loggedIn
  BY <1>1 DEF NewTab, TabRecords, ChangePlaces, DialogTypes
<1> HIDE DEF new
<1>4. /\ tab' \in [Tabs -> TabRecords] /\ \A o \in Tabs : o # t => tab'[o] = tab[o]
      /\ tab'[t].at = "update" /\ tab'[t].user = loggedIn
  BY <1>1, <1>2, <1>3, TabIs
<1>5. DialogTypes'
  <2>1. made \in Nat /\ made' \in Nat /\ codes' \subseteq Nat
    BY <1>1, <1>2 DEF DialogTypes
  <2>2. \A f \in flows' : f.code <= made'
    <3>1. \A f \in flows : f.code \in Nat /\ f.code <= made
      BY <1>1 DEF DialogTypes
    <3> QED
      BY <1>2, <2>1, <3>1
  <2> QED
    BY <1>1, <1>2, <1>4, <2>1, <2>2 DEF DialogTypes
<1>6. confused \subseteq confused' /\ ("change" \notin confused' => \A o \in Tabs : o # t => tab[o].at = "page")
  BY <1>2, CrossesIs
<1>7. RegisterInv'
  <2>1. ~Owns(t)' /\ ~WasMailed(t)' /\ tab'[t].at \notin RegisterPlaces
    BY <1>4 DEF Owns, WasMailed, RegisterPlaces
  <2>2. Current' = Current
    BY <1>2 DEF Current
  <2> QED
    BY <1>1, <1>2, <1>4, <1>6, <2>1, <2>2, RegisterKept
<1>8. ChangeInv'
  <2> SUFFICES ASSUME "change" \notin confused' PROVE ChangeInv!2'
    BY DEF ChangeInv
  <2>1. ChangeInv!2
    BY <1>1, <1>6 DEF ChangeInv
  <2>2. \A o \in Tabs : o # t => tab'[o].at = "page"
    BY <1>4, <1>6
  <2>3. codes' # {}
    BY <1>2
  <2>4. ChangeInv!2!1'
    BY <1>2, <1>4, <2>2 DEF RegisterPlaces
  <2>5. \A o \in Tabs : tab'[o].at \in ChangePlaces => o = t
    BY <2>2 DEF ChangePlaces
  <2>6. ChangeInv!2!3'
    BY <1>2, <2>1, <2>3
  <2>7. \A o \in Tabs : tab'[o].at \notin {"change", "confirm"}
    BY <1>4, <2>2
  <2>8. ChangeInv!2!5'
    BY <1>2, <1>4, <2>2, <2>3
  <2> QED
    BY <2>4, <2>5, <2>6, <2>7, <2>8
<1> QED
  BY <1>5, <1>7, <1>8 DEF DialogInv

LEMMA ProfileSavedInv == ASSUME DialogInv, NEW t \in Tabs, ProfileSaved(t) PROVE DialogInv'
<1>1. DialogTypes /\ RegisterInv /\ ChangeInv /\ tab[t].user \in Names
  BY DEF DialogInv, DialogTypes, TabRecords
<1>2. /\ tab[t].at = "update" /\ tab[t].answer = "ok" /\ verifyEmail' = tab[t].user /\ AsksFor(t, tab[t].user)
      /\ UNCHANGED <<registerFlow, flows, signedUp, loggedIn, codes, made, typed, confused>>
  BY DEF ProfileSaved, Got, AccountServer
<1>3. /\ tab' \in [Tabs -> TabRecords] /\ \A o \in Tabs : o # t => tab'[o] = tab[o]
      /\ tab'[t].at = "change" /\ tab'[t].user = tab[t].user /\ tab'[t].answer = "none"
  BY <1>1, <1>2, AsksForIs
<1>4. DialogTypes'
  BY <1>1, <1>2, <1>3 DEF DialogTypes
<1>5. RegisterInv'
  <2>1. ~Owns(t)' /\ ~WasMailed(t)' /\ tab'[t].at \notin RegisterPlaces
    BY <1>3 DEF Owns, WasMailed, RegisterPlaces
  <2>2. Current' = Current
    BY <1>2 DEF Current
  <2> QED
    BY <1>1, <1>2, <1>3, <2>1, <2>2, RegisterKept
<1>6. ChangeInv'
  <2> SUFFICES ASSUME "change" \notin confused' PROVE ChangeInv!2'
    BY DEF ChangeInv
  <2>1. ChangeInv!2
    BY <1>1, <1>2 DEF ChangeInv
  <2>2. tab[t].at \in ChangePlaces /\ tab'[t].at \in ChangePlaces /\ tab'[t].at \notin RegisterPlaces
    BY <1>2, <1>3 DEF ChangePlaces, RegisterPlaces
  <2>3. tab[t].user = loggedIn /\ codes # {} /\ ChangeBegun
    BY <1>2, <2>1, <2>2 DEF ChangeBegun
  <2>4. \A o \in Tabs : tab'[o].at \in ChangePlaces => o = t
    BY <1>3, <2>1, <2>2
  <2>5. ChangeInv!2!1'
    BY <1>2, <1>3, <2>1, <2>2, <2>3
  <2>6. ChangeInv!2!3'
    BY <1>2, <2>3
  <2>7. ChangeInv!2!4' /\ ChangeInv!2!5'
    BY <1>2, <1>3, <2>4 DEF ChangePlaces
  <2> QED
    BY <2>4, <2>5, <2>6, <2>7
<1> QED
  BY <1>4, <1>5, <1>6 DEF DialogInv

LEMMA LoadPageInv == ASSUME DialogInv, NEW t \in Tabs, LoadPage(t) PROVE DialogInv'
<1>1. DialogTypes /\ RegisterInv /\ ChangeInv /\ loggedIn \in Names
  BY DEF DialogInv, DialogTypes
<1>2. /\ verifyEmail = loggedIn /\ loggedIn # "none" /\ AsksFor(t, loggedIn) /\ confused' = Crosses(t, "change")
      /\ UNCHANGED <<registerFlow, verifyEmail, flows, signedUp, loggedIn, codes, made, typed>>
      /\ tab[t].at = "page"
  BY DEF LoadPage, On, AccountServer, FlowCookies
<1>3. /\ tab' \in [Tabs -> TabRecords] /\ \A o \in Tabs : o # t => tab'[o] = tab[o]
      /\ tab'[t].at = "change" /\ tab'[t].user = loggedIn /\ tab'[t].answer = "none"
  BY <1>1, <1>2, AsksForIs
<1>4. DialogTypes'
  BY <1>1, <1>2, <1>3 DEF DialogTypes
<1>5. confused \subseteq confused' /\ ("change" \notin confused' => \A o \in Tabs : o # t => tab[o].at = "page")
  BY <1>2, CrossesIs
<1>6. RegisterInv'
  <2>1. ~Owns(t)' /\ ~WasMailed(t)' /\ tab'[t].at \notin RegisterPlaces
    BY <1>3 DEF Owns, WasMailed, RegisterPlaces
  <2>2. Current' = Current
    BY <1>2 DEF Current
  <2> QED
    BY <1>1, <1>2, <1>3, <1>5, <2>1, <2>2, RegisterKept
<1>7. ChangeInv'
  <2> SUFFICES ASSUME "change" \notin confused' PROVE ChangeInv!2'
    BY DEF ChangeInv
  <2>1. ChangeInv!2
    BY <1>1, <1>5 DEF ChangeInv
  <2>2. \A o \in Tabs : o # t => tab'[o].at = "page"
    BY <1>3, <1>5
  <2>3. \A o \in Tabs : tab[o].at = "page"
    BY <1>2, <1>5
  <2>4. ChangeInv!2!1'
    BY <1>2, <1>3, <2>2 DEF RegisterPlaces
  <2>5. \A o \in Tabs : tab'[o].at \in ChangePlaces => o = t
    BY <2>2 DEF ChangePlaces
  <2>6. ChangeInv!2!3'
    BY <1>2, <2>1, <2>3
  <2>7. ChangeInv!2!4' /\ ChangeInv!2!5'
    BY <1>2, <1>3, <2>2
  <2> QED
    BY <2>4, <2>5, <2>6, <2>7
<1> QED
  BY <1>4, <1>6, <1>7 DEF DialogInv

LEMMA ConfirmNewInv ==
  ASSUME DialogInv, NEW t \in Tabs, NEW code \in 0..made, ConfirmNew(t, code) PROVE DialogInv'
<1>1. DialogTypes /\ Types(t, "change", "confirm", code) /\ code \in Nat /\ "confirm" \in PagePlaces
  BY DEF DialogInv, DialogTypes, ConfirmNew, PagePlaces, ChangePlaces
<1>2. /\ tab' \in [Tabs -> TabRecords] /\ \A o \in Tabs : o # t => tab'[o] = tab[o]
      /\ tab[t].at = "change" /\ tab[t].answer = "none"
      /\ tab'[t].at = "confirm" /\ tab'[t].user = tab[t].user /\ tab'[t].answer = "none"
      /\ typed' \in Nat /\ UNCHANGED <<FlowCookies, AccountServer, made, confused>>
  BY <1>1, TypesIs
<1>3. ~Owns(t)' /\ ~WasMailed(t)' /\ tab'[t].at \notin RegisterPlaces /\ tab[t].at \in ChangePlaces
  BY <1>2 DEF Owns, WasMailed, RegisterPlaces, ChangePlaces
<1> QED
  BY <1>2, <1>3, PageStepInv

LEMMA ConfirmNewEmailInv == ASSUME DialogInv, NEW t \in Tabs, ConfirmNewEmail(t) PROVE DialogInv'
<1> DEFINE answer == IF tab[t].code \in codes THEN "ok" ELSE "bad"
<1>1. DialogTypes /\ RegisterInv /\ ChangeInv
  BY DEF DialogInv
<1>2. /\ tab[t].at = "confirm" /\ tab[t].answer = "none" /\ Answers(t, answer) /\ codes' = codes \ {tab[t].code}
      /\ UNCHANGED <<registerFlow, verifyEmail, flows, signedUp, loggedIn, made, typed, confused>>
  BY DEF ConfirmNewEmail, On, FlowCookies
<1>3. answer \in {"none", "ok", "bad"} /\ (answer # "ok" => codes' = codes)
  BY <1>2
<1> HIDE DEF answer
<1>4. /\ tab' \in [Tabs -> TabRecords] /\ \A o \in Tabs : o # t => tab'[o] = tab[o]
      /\ tab'[t].at = "confirm" /\ tab'[t].user = tab[t].user /\ tab'[t].answer = answer
  BY <1>1, <1>2, <1>3, AnswersIs
<1>5. DialogTypes'
  BY <1>1, <1>2, <1>4 DEF DialogTypes
<1>6. RegisterInv'
  <2>1. ~Owns(t)' /\ ~WasMailed(t)' /\ tab'[t].at \notin RegisterPlaces
    BY <1>4 DEF Owns, WasMailed, RegisterPlaces
  <2>2. Current' = Current
    BY <1>2 DEF Current
  <2> QED
    BY <1>1, <1>2, <1>4, <2>1, <2>2, RegisterKept
<1>7. ChangeInv'
  <2> SUFFICES ASSUME "change" \notin confused' PROVE ChangeInv!2'
    BY DEF ChangeInv
  <2>1. ChangeInv!2
    BY <1>1, <1>2 DEF ChangeInv
  <2>2. tab[t].at \in ChangePlaces /\ tab'[t].at \in ChangePlaces /\ tab'[t].at \notin RegisterPlaces
    BY <1>2, <1>4 DEF ChangePlaces, RegisterPlaces
  <2>3. ChangeBegun
    BY <2>2 DEF ChangeBegun
  <2>4. ChangeInv!2!1'
    BY <1>2, <1>4, <2>1, <2>2, <2>3
  <2>5. \A o \in Tabs : tab[o].at \in ChangePlaces => o = t
    BY <2>1, <2>2
  <2>6. \A o \in Tabs : tab'[o].at \in ChangePlaces => o = t
    BY <1>4, <2>5
  <2>7. ChangeInv!2!3'
    <3>1. \A o \in Tabs : ~(tab[o].at = "confirm" /\ tab[o].answer = "ok")
      BY <1>2, <2>5 DEF ChangePlaces
    <3>2. verifyEmail # "none" => verifyEmail = loggedIn /\ codes # {}
      BY <2>1, <3>1
    <3> QED
      BY <1>2, <1>3, <1>4, <3>2
  <2>8. ChangeInv!2!4' /\ ChangeInv!2!5'
    <3>1. \A o \in Tabs : tab'[o].at \in {"change", "confirm", "update"} => o = t
      BY <2>6 DEF ChangePlaces
    <3>2. tab[t].user = verifyEmail
      BY <1>2, <2>1
    <3> QED
      BY <1>2, <1>4, <3>1, <3>2
  <2> QED
    BY <2>4, <2>6, <2>7, <2>8
<1> QED
  BY <1>5, <1>6, <1>7 DEF DialogInv

LEMMA NewEmailConfirmedInv == ASSUME DialogInv, NEW t \in Tabs, NewEmailConfirmed(t) PROVE DialogInv'
<1>1. DialogTypes /\ RegisterInv /\ ChangeInv
  BY DEF DialogInv
<1>2. /\ tab[t].at = "confirm" /\ tab[t].answer = "ok" /\ verifyEmail' = "none" /\ Opens(t, "page")
      /\ UNCHANGED <<registerFlow, flows, signedUp, loggedIn, codes, made, typed, confused>>
  BY DEF NewEmailConfirmed, Got, AccountServer
<1>3. "page" \in PagePlaces
  BY DEF PagePlaces
<1>4. /\ tab' \in [Tabs -> TabRecords] /\ \A o \in Tabs : o # t => tab'[o] = tab[o]
      /\ tab'[t].at = "page" /\ tab'[t].answer = "none"
  BY <1>1, <1>2, <1>3, OpensIs
<1>5. DialogTypes'
  BY <1>1, <1>2, <1>4 DEF DialogTypes, Names
<1>6. RegisterInv'
  <2>1. ~Owns(t)' /\ ~WasMailed(t)' /\ tab'[t].at \notin RegisterPlaces
    BY <1>4 DEF Owns, WasMailed, RegisterPlaces
  <2>2. Current' = Current
    BY <1>2 DEF Current
  <2> QED
    BY <1>1, <1>2, <1>4, <2>1, <2>2, RegisterKept
<1>7. ChangeInv'
  <2> SUFFICES ASSUME "change" \notin confused' PROVE ChangeInv!2'
    BY DEF ChangeInv
  <2>1. ChangeInv!2
    BY <1>1, <1>2 DEF ChangeInv
  <2>2. tab[t].at \in ChangePlaces /\ tab'[t].at \notin ChangePlaces /\ tab'[t].at \notin RegisterPlaces
    BY <1>2, <1>4 DEF ChangePlaces, RegisterPlaces
  <2>3. ChangeBegun
    BY <2>2 DEF ChangeBegun
  <2>4. \A o \in Tabs : tab'[o].at \notin ChangePlaces
    BY <1>4, <2>1, <2>2
  <2>5. ChangeInv!2!1'
    BY <1>2, <1>4, <2>1, <2>2, <2>3
  <2>6. ChangeInv!2!4' /\ ChangeInv!2!5'
    BY <2>4 DEF ChangePlaces
  <2> QED
    BY <1>2, <2>4, <2>5, <2>6
<1> QED
  BY <1>5, <1>6, <1>7 DEF DialogInv

LEMMA NotConfirmedInv == ASSUME DialogInv, NEW t \in Tabs, NotConfirmed(t) PROVE DialogInv'
<1>1. DialogTypes /\ typed \in Nat /\ verifyEmail \in Names
  BY DEF DialogInv, DialogTypes
<1>2. /\ tab[t].at = "confirm" /\ tab[t].answer = "bad"
      /\ UNCHANGED <<FlowCookies, AccountServer, made, typed, confused>>
  BY DEF NotConfirmed, Got
<1>3. CASE verifyEmail = tab[t].user /\ AsksFor(t, verifyEmail)
  <2>1. /\ tab' \in [Tabs -> TabRecords] /\ \A o \in Tabs : o # t => tab'[o] = tab[o]
        /\ tab'[t].at = "change" /\ tab'[t].user = verifyEmail /\ tab'[t].answer = "none"
    BY <1>1, <1>3, AsksForIs
  <2>2. ~Owns(t)' /\ ~WasMailed(t)' /\ tab'[t].at \notin RegisterPlaces /\ tab[t].at \in ChangePlaces
    BY <1>2, <2>1 DEF Owns, WasMailed, RegisterPlaces, ChangePlaces
  <2>3. typed' \in Nat
    BY <1>1, <1>2
  <2> QED
    BY <1>2, <1>3, <2>1, <2>2, <2>3, PageStepInv
<1>4. CASE Opens(t, "page")
  <2>1. "page" \in PagePlaces
    BY DEF PagePlaces
  <2>2. /\ tab' \in [Tabs -> TabRecords] /\ \A o \in Tabs : o # t => tab'[o] = tab[o]
        /\ tab'[t].at = "page" /\ tab'[t].answer = "none"
    BY <1>1, <1>4, <2>1, OpensIs
  <2>3. ~Owns(t)' /\ ~WasMailed(t)' /\ tab'[t].at \notin RegisterPlaces /\ tab'[t].at \notin ChangePlaces
    BY <2>2 DEF Owns, WasMailed, RegisterPlaces, ChangePlaces
  <2>4. typed' \in Nat
    BY <1>1, <1>2
  <2> QED
    BY <1>2, <2>2, <2>3, <2>4, PageStepInv
<1> QED
  BY <1>3, <1>4 DEF NotConfirmed

LEMMA LoseAnswerInv == ASSUME DialogInv, NEW t \in Tabs, LoseAnswer(t) PROVE DialogInv'
<1>1. DialogTypes /\ RegisterInv /\ typed \in Nat
  BY DEF DialogInv, DialogTypes
<1>2. /\ tab[t].answer = "ok" /\ Answers(t, "bad") /\ typed' = typed + 1
      /\ confused' = confused \union {"change"}
      /\ UNCHANGED <<registerFlow, verifyEmail, flows, signedUp, loggedIn, codes, made>>
  BY DEF LoseAnswer, FlowCookies, AccountServer
<1>3. /\ tab' \in [Tabs -> TabRecords] /\ \A o \in Tabs : o # t => tab'[o] = tab[o]
      /\ tab'[t].at = tab[t].at /\ tab'[t].user = tab[t].user /\ tab'[t].answer = "bad"
  BY <1>1, <1>2, AnswersIs
<1>4. DialogTypes'
  BY <1>1, <1>2, <1>3 DEF DialogTypes
<1>5. RegisterInv'
  <2>1. (Owns(t)' => Owns(t)) /\ (WasMailed(t)' => WasMailed(t))
    BY <1>3 DEF Owns, WasMailed
  <2>2. Current' = Current
    BY <1>2 DEF Current
  <2> QED
    BY <1>1, <1>2, <1>3, <2>1, <2>2, RegisterKept
<1>6. ChangeInv'
  BY <1>2 DEF ChangeInv
<1> QED
  BY <1>4, <1>5, <1>6 DEF DialogInv

LEMMA ExpireFlowInv == ASSUME DialogInv, ExpireFlow PROVE DialogInv'
<1>1. DialogTypes /\ RegisterInv /\ ChangeInv
  BY DEF DialogInv
<1>2. /\ flows' \subseteq flows
      /\ UNCHANGED <<tab, registerFlow, verifyEmail, signedUp, loggedIn, codes, made, typed, confused>>
  BY DEF ExpireFlow, FlowCookies
<1>3. DialogTypes'
  <2>1. /\ flows' \subseteq [code : Nat \ {0}, of : Names]
        /\ \A f \in flows' : f.code <= made
        /\ \A f, g \in flows' : f.code = g.code => f = g
    BY <1>1, <1>2 DEF DialogTypes
  <2> QED
    BY <1>1, <1>2, <2>1 DEF DialogTypes
<1>4. Current' \subseteq Current
  BY <1>2 DEF Current
<1>5. RegisterInv'
  BY <1>1, <1>2, <1>4 DEF RegisterInv, Owns, WasMailed
<1>6. ChangeInv'
  BY <1>1, <1>2 DEF ChangeInv, ChangeBegun
<1> QED
  BY <1>3, <1>5, <1>6 DEF DialogInv

LEMMA LogInAgainInv == ASSUME DialogInv, LogInAgain PROVE DialogInv'
<1>1. DialogTypes /\ RegisterInv
  BY DEF DialogInv
<1>2. /\ codes' = {} /\ confused' = confused \union {"change"}
      /\ UNCHANGED <<tab, registerFlow, verifyEmail, flows, signedUp, loggedIn, made, typed>>
  BY DEF LogInAgain, FlowCookies
<1>3. DialogTypes'
  BY <1>1, <1>2 DEF DialogTypes
<1>4. Current' = Current
  BY <1>2 DEF Current
<1>5. RegisterInv'
  BY <1>1, <1>2, <1>4 DEF RegisterInv, Owns, WasMailed
<1>6. ChangeInv'
  BY <1>2 DEF ChangeInv
<1> QED
  BY <1>3, <1>5, <1>6 DEF DialogInv

\* The steps in which only a page opens another dialog, or none.
LEMMA OnlyMovesInv ==
  ASSUME DialogInv, NEW t \in Tabs,
         NotVerified(t) \/ DifferentEmail(t) \/ Readdressed(t) \/ CancelDialog(t) \/ ShowRefusal(t)
  PROVE  DialogInv'
<1> USE DEF PagePlaces, RegisterPlaces, ChangePlaces
<1>1. CASE NotVerified(t)
  BY <1>1, MovesInv DEF NotVerified, Got, Owns, WasMailed
<1>2. CASE DifferentEmail(t)
  <2>1. PICK place \in {"address", "page"} : Moves(t, place)
    BY <1>2 DEF DifferentEmail
  <2>2. tab[t].at = "code" /\ Owns(t)
    BY <1>2 DEF DifferentEmail, On, Owns
  <2> QED
    BY <2>1, <2>2, MovesInv
<1>3. CASE Readdressed(t)
  <2>1. CASE Got(t, "readdress", "ok") /\ Moves(t, "code")
    BY <2>1, MovesInv DEF Got, Owns, WasMailed
  <2>2. CASE Got(t, "readdress", "bad") /\ Moves(t, "address")
    BY <2>2, MovesInv DEF Got, Owns
  <2> QED
    BY <1>3, <2>1, <2>2 DEF Readdressed
<1>4. CASE CancelDialog(t)
  BY <1>4, MovesInv DEF CancelDialog, On
<1>5. CASE ShowRefusal(t)
  <2>1. CASE Got(t, "form", "bad") /\ Moves(t, "form")
    BY <2>1, MovesInv DEF Got
  <2>2. CASE Got(t, "update", "bad") /\ Moves(t, "page")
    BY <2>2, MovesInv DEF Got
  <2> QED
    BY <1>5, <2>1, <2>2 DEF ShowRefusal
<1> QED
  BY <1>1, <1>2, <1>3, <1>4, <1>5

LEMMA DialogInitInv == CodeDialogsInit => DialogInv
<1> SUFFICES ASSUME CodeDialogsInit PROVE DialogInv
  OBVIOUS
<1>1. NewTab \in TabRecords /\ NewTab.at = "page"
  BY DEF NewTab, TabRecords, Names
<1>2. [state |-> "no", mailed |-> {}] \in [state : {"no", "inactive", "active"}, mailed : SUBSET Nat]
  OBVIOUS
<1>3. /\ tab = [t \in Tabs |-> NewTab] /\ registerFlow = 0 /\ verifyEmail = "none" /\ flows = {}
      /\ signedUp = [t \in Tabs |-> [state |-> "no", mailed |-> {}]]
      /\ loggedIn = "none" /\ codes = {} /\ made = 0 /\ typed = 0
  BY DEF CodeDialogsInit
<1>4. DialogTypes
  BY <1>1, <1>2, <1>3 DEF DialogTypes, Names
<1>5. \A t \in Tabs : tab[t].at = "page"
  BY <1>1, <1>3
<1>6. RegisterInv
  BY <1>5 DEF RegisterInv, Owns, WasMailed, RegisterPlaces
<1>7. ~ChangeBegun
  BY <1>3, <1>5 DEF ChangeBegun, ChangePlaces
<1>8. ChangeInv
  BY <1>3, <1>5, <1>7 DEF ChangeInv, ChangePlaces
<1> QED
  BY <1>4, <1>6, <1>8 DEF DialogInv

LEMMA DialogStepInv == DialogInv /\ CodeDialogsNext => DialogInv'
<1> SUFFICES ASSUME DialogInv, CodeDialogsNext PROVE DialogInv'
  OBVIOUS
<1>1. CASE ExpireFlow \/ LogInAgain
  BY <1>1, ExpireFlowInv, LogInAgainInv
<1>2. ASSUME NEW t \in Tabs,
             \/ OpenForm(t) \/ SignUp(t) \/ Told(t) \/ VerifyCode(t) \/ Verified(t) \/ NotVerified(t)
             \/ DifferentEmail(t) \/ NewEmail(t) \/ Readdress(t) \/ Readdressed(t)
             \/ CancelDialog(t) \/ ShowRefusal(t)
      PROVE  DialogInv'
  BY <1>2, OpenFormInv, SignUpInv, ToldInv, VerifyCodeInv, VerifiedInv, OnlyMovesInv, NewEmailInv, ReaddressInv
<1>3. ASSUME NEW t \in Tabs,
             \/ SaveProfile(t) \/ ProfileSaved(t) \/ LoadPage(t) \/ ConfirmNewEmail(t)
             \/ NewEmailConfirmed(t) \/ NotConfirmed(t) \/ LoseAnswer(t)
             \/ \E code \in 0..made : Proceed(t, code) \/ ConfirmNew(t, code)
      PROVE  DialogInv'
  BY <1>3, SaveProfileInv, ProfileSavedInv, LoadPageInv, ConfirmNewEmailInv, NewEmailConfirmedInv,
     NotConfirmedInv, LoseAnswerInv, ProceedInv, ConfirmNewInv
<1> QED
  BY <1>1, <1>2, <1>3 DEF CodeDialogsNext

LEMMA AskedFollows == DialogInv => AskedCanAnswer
<1> SUFFICES ASSUME DialogInv PROVE AskedCanAnswer
  OBVIOUS
<1>1. ASSUME "register" \notin confused, NEW t \in Tabs, tab[t].at = "code", Current # {}
      PROVE  registerFlow \in signedUp[t].mailed /\ \E f \in CacheOf(registerFlow) : f.of = t
  <2>1. Owns(t) /\ WasMailed(t)
    BY <1>1 DEF Owns, WasMailed, RegisterPlaces
  <2>2. \A f \in Current : f.of = t
    BY <1>1, <2>1 DEF DialogInv, RegisterInv
  <2>3. registerFlow \in signedUp[t].mailed
    BY <1>1, <2>1 DEF DialogInv, RegisterInv
  <2>4. \A f \in Current : f.code = registerFlow
    BY DEF Current
  <2>5. t # "none"
    BY CodeDialogsAssumption
  <2> QED
    BY <1>1, <2>2, <2>3, <2>4, <2>5 DEF CacheOf
<1>2. ASSUME "change" \notin confused, NoCallPending
      PROVE  /\ verifyEmail # "none" => codes # {} /\ verifyEmail = loggedIn
             /\ \A t \in Tabs : tab[t].at = "change" => tab[t].user = verifyEmail
  <2>1. ChangeInv!2
    BY <1>2 DEF DialogInv, ChangeInv
  <2>2. \A t \in Tabs : tab[t].answer # "ok"
    BY <1>2 DEF NoCallPending
  <2> QED
    BY <2>1, <2>2
<1> QED
  BY <1>1, <1>2 DEF AskedCanAnswer

\* Who is asked for a code, after a registration or a change of the address,
\* can enter one that works, as AskedCanAnswer says.
THEOREM CodesCanBeEntered == Spec => []AskedCanAnswer
<1>1. Init => DialogInv
  BY DialogInitInv DEF Init
<1>2. ASSUME DialogInv, [Next]_vars PROVE DialogInv'
  <2>1. CASE UNCHANGED dialogVars
    <3>1. /\ UNCHANGED <<tab, registerFlow, verifyEmail, flows, signedUp, loggedIn, codes, made, typed, confused>>
          /\ DialogTypes /\ RegisterInv /\ ChangeInv
      BY <1>2, <2>1 DEF dialogVars, DialogInv
    <3>2. DialogTypes'
      BY <3>1 DEF DialogTypes
    <3>3. RegisterInv'
      BY <3>1 DEF RegisterInv, Owns, WasMailed, Current
    <3>4. ChangeInv'
      BY <3>1 DEF ChangeInv, ChangeBegun
    <3> QED
      BY <3>2, <3>3, <3>4 DEF DialogInv
  <2>2. CASE CodeDialogsNext
    BY <1>2, <2>2, DialogStepInv
  <2>3. UNCHANGED dialogVars \/ CodeDialogsNext
    BY <1>2, EachPartSteps
  <2> QED
    BY <2>1, <2>2, <2>3
<1> QED
  BY <1>1, <1>2, AskedFollows, PTL DEF Spec
-----------------------------------------------------------------------------
(* The REST interface of a message.  Users and tags only go; a message is    *)
(* saved once; and while no view and no resend ran beside a resend, there is *)
(* one resend at a time, whose recipients are those of the saved message.    *)

MessageCalls == [pc : {"idle", "save", "enqueue", "viewed", "resend", "resent", "done"},
                 payload : SUBSET Items, got : SUBSET Items]

MessageTypes ==
  /\ users \subseteq People /\ DOMAIN tagged \subseteq Tags
  /\ \A t \in DOMAIN tagged : tagged[t] \subseteq People
  /\ row \in [payload : SUBSET Items, to : SUBSET Items, names : {NoNames} \union (SUBSET Items)]
  /\ call \in [Calls -> MessageCalls] /\ mixed \in BOOLEAN

SavedOnce ==
  /\ row # NoRow => row.payload # {}
  /\ row = NoRow => sent = {} /\ ~Busy({"enqueue", "viewed", "resend", "resent"})
  /\ \A c \in Calls : call[c].pc = "save" => call[c].payload # {}
  /\ \A c \in Calls : call[c].pc = "enqueue" => row.to = call[c].got /\ ~Busy({"resend", "resent"})

GoneAreGone == \A i \in gone : ~There(i)

\* What a view shows or the search finds.
Found(names) == names \intersect gone = {} /\ row.payload \intersect users \subseteq names

ResendsApart ==
  ~mixed =>
    /\ \A c, d \in Calls : {call[c].pc, call[d].pc} \subseteq {"resend", "resent"} => c = d
    /\ Busy({"viewed"}) => ~Busy({"resend"})
    /\ \A c \in Calls : call[c].pc = "resent" => row.to = call[c].got
    /\ \A c \in Calls : call[c].pc = "viewed" => Found(call[c].got)
    /\ row.names # NoNames => Found(row.names)
    /\ ~Busy({"resent"}) => sent \intersect users \subseteq row.to

MessageInv == MessageTypes /\ SavedOnce /\ GoneAreGone /\ ResendsApart

LEMMA GotoIs ==
  ASSUME MessageTypes, NEW c \in Calls, NEW pc \in {"save", "enqueue", "viewed", "resend", "resent", "done"},
         Goto(c, pc)
  PROVE  /\ call' \in [Calls -> MessageCalls] /\ \A d \in Calls : d # c => call'[d] = call[d]
         /\ call'[c].pc = pc /\ call'[c].payload = call[c].payload /\ call'[c].got = call[c].got
<1> DEFINE new == [call[c] EXCEPT !.pc = pc]
<1>1. call \in [Calls -> MessageCalls] /\ call[c] \in MessageCalls
  BY DEF MessageTypes
<1>2. new \in MessageCalls /\ new.pc = pc /\ new.payload = call[c].payload /\ new.got = call[c].got
  BY <1>1 DEF MessageCalls
<1>3. call' = [call EXCEPT ![c] = new]
  BY <1>1 DEF Goto
<1> HIDE DEF new
<1> QED
  BY <1>1, <1>2, <1>3

LEMMA KeepIs ==
  ASSUME MessageTypes, NEW c \in Calls, NEW pc \in {"viewed", "resend"}, NEW got \in SUBSET Items, Keep(c, pc, got)
  PROVE  /\ call' \in [Calls -> MessageCalls] /\ \A d \in Calls : d # c => call'[d] = call[d]
         /\ call'[c].pc = pc /\ call'[c].payload = call[c].payload /\ call'[c].got = got
<1> DEFINE new == [call[c] EXCEPT !.pc = pc, !.got = got]
<1>1. call \in [Calls -> MessageCalls] /\ call[c] \in MessageCalls
  BY DEF MessageTypes
<1>2. new \in MessageCalls /\ new.pc = pc /\ new.payload = call[c].payload /\ new.got = got
  BY <1>1 DEF MessageCalls
<1>3. call' = [call EXCEPT ![c] = new]
  BY <1>1 DEF Keep
<1> HIDE DEF new
<1> QED
  BY <1>1, <1>2, <1>3

LEMMA ParseType ==
  ASSUME MessageTypes, NEW payload \in SUBSET Items, NEW bare \in SUBSET People
  PROVE  Parse(payload, bare) \in SUBSET Items /\ (Parse(payload, bare) # {} => payload # {})
<1>1. \A t \in payload \intersect DOMAIN tagged : tagged[t] \subseteq People
  BY DEF MessageTypes
<1>2. UNION {tagged[t] : t \in payload \intersect DOMAIN tagged} \subseteq People
  BY <1>1
<1>3. payload = {} => UNION {tagged[t] : t \in payload \intersect DOMAIN tagged} = {}
  OBVIOUS
<1> QED
  BY <1>2, <1>3 DEF Parse, Items

LEMMA ComposeInv == ASSUME MessageInv, NEW c \in Calls, Compose(c) PROVE MessageInv'
<1>1. MessageTypes /\ SavedOnce /\ GoneAreGone /\ ResendsApart
  BY DEF MessageInv
<1>2. call[c].pc = "idle" /\ row = NoRow /\ UNCHANGED <<users, tagged, row, sent, changes, gone, mixed>>
  BY DEF Compose
<1>3. PICK payload \in SUBSET Items, bare \in SUBSET People :
        /\ Parse(payload, bare) # {}
        /\ call' = [call EXCEPT ![c] = [Idle EXCEPT !.pc = "save", !.payload = payload, !.got = Parse(payload, bare)]]
  BY DEF Compose
<1> DEFINE to == Parse(payload, bare)
           new == [Idle EXCEPT !.pc = "save", !.payload = payload, !.got = to]
<1>4. to \in SUBSET Items /\ payload # {}
  BY <1>1, <1>3, ParseType
<1>5. new \in MessageCalls /\ new.pc = "save" /\ new.payload = payload
  BY <1>4 DEF MessageCalls, Idle
<1> HIDE DEF new
<1>6. /\ call' \in [Calls -> MessageCalls] /\ \A d \in Calls : d # c => call'[d] = call[d]
      /\ call'[c].pc = "save" /\ call'[c].payload # {}
  BY <1>1, <1>3, <1>4, <1>5 DEF MessageTypes, new
<1>7. MessageTypes'
  BY <1>1, <1>2, <1>6 DEF MessageTypes
<1>8. \A d \in Calls : call'[d].pc \notin {"enqueue", "viewed", "resend", "resent"}
  BY <1>1, <1>2, <1>6 DEF SavedOnce, Busy
<1>9. SavedOnce'
  BY <1>1, <1>2, <1>6, <1>8 DEF SavedOnce, Busy, NoRow
<1>10. GoneAreGone'
  BY <1>1, <1>2 DEF GoneAreGone, There
<1>11. ResendsApart'
  <2>1. \A names : Found(names)' <=> Found(names)
    BY <1>2 DEF Found
  <2>2. sent = {} /\ row.names = NoNames
    BY <1>1, <1>2 DEF SavedOnce, NoRow
  <2> QED
    BY <1>2, <1>8, <2>2 DEF ResendsApart, Busy
<1> QED
  BY <1>7, <1>9, <1>10, <1>11 DEF MessageInv

LEMMA SaveMessageInv == ASSUME MessageInv, NEW c \in Calls, SaveMessage(c) PROVE MessageInv'
<1>1. MessageTypes /\ SavedOnce /\ GoneAreGone /\ ResendsApart
  BY DEF MessageInv
<1>2. /\ call[c].pc = "save" /\ row = NoRow
      /\ row' = [payload |-> call[c].payload, to |-> call[c].got, names |-> NoNames]
      /\ Goto(c, "enqueue") /\ UNCHANGED <<users, tagged, sent, changes, gone, mixed>>
  BY DEF SaveMessage
<1>3. /\ call' \in [Calls -> MessageCalls] /\ \A d \in Calls : d # c => call'[d] = call[d]
      /\ call'[c].pc = "enqueue" /\ call'[c].payload = call[c].payload /\ call'[c].got = call[c].got
  BY <1>1, <1>2, GotoIs
<1>4. call[c].payload \in SUBSET Items /\ call[c].payload # {} /\ call[c].got \in SUBSET Items
  BY <1>1, <1>2 DEF MessageTypes, MessageCalls, SavedOnce
<1>5. MessageTypes'
  BY <1>1, <1>2, <1>3, <1>4 DEF MessageTypes
<1>6. \A d \in Calls : call'[d].pc \notin {"viewed", "resend", "resent"} /\ (call'[d].pc = "enqueue" => d = c)
  BY <1>1, <1>2, <1>3 DEF SavedOnce, Busy
<1>7. row' # NoRow /\ row'.payload # {} /\ row'.to = call'[c].got /\ row'.names = NoNames
  BY <1>2, <1>3, <1>4 DEF NoRow
<1>8. \A d \in Calls : call'[d].pc = "save" => call'[d].payload # {}
  BY <1>1, <1>3 DEF SavedOnce
<1>9. SavedOnce'
  BY <1>6, <1>7, <1>8 DEF SavedOnce, Busy
<1>10. GoneAreGone'
  BY <1>1, <1>2 DEF GoneAreGone, There
<1>11. sent' = {}
  BY <1>1, <1>2 DEF SavedOnce
<1>12. ResendsApart'
  BY <1>6, <1>7, <1>11 DEF ResendsApart, Busy
<1> QED
  BY <1>5, <1>9, <1>10, <1>12 DEF MessageInv

LEMMA EnqueueInv == ASSUME MessageInv, NEW c \in Calls, Enqueue(c) PROVE MessageInv'
<1>1. MessageTypes /\ SavedOnce /\ GoneAreGone /\ ResendsApart
  BY DEF MessageInv
<1>2. /\ call[c].pc = "enqueue" /\ sent' = (IF call[c].got \subseteq users THEN call[c].got ELSE sent)
      /\ Goto(c, "done") /\ UNCHANGED <<users, tagged, row, changes, gone, mixed>>
  BY DEF Enqueue
<1>3. /\ call' \in [Calls -> MessageCalls] /\ \A d \in Calls : d # c => call'[d] = call[d]
      /\ call'[c].pc = "done"
  BY <1>1, <1>2, GotoIs
<1>4. MessageTypes'
  BY <1>1, <1>2, <1>3 DEF MessageTypes
<1>5. row # NoRow /\ row.to = call[c].got /\ ~Busy({"resend", "resent"})
  BY <1>1, <1>2 DEF SavedOnce, Busy
<1>6. SavedOnce'
  BY <1>1, <1>2, <1>3, <1>5 DEF SavedOnce, Busy
<1>7. GoneAreGone'
  BY <1>1, <1>2 DEF GoneAreGone, There
<1>8. \A d \in Calls : call'[d].pc \notin {"resend", "resent"} /\ (call'[d].pc = "viewed" => call'[d] = call[d])
  BY <1>3, <1>5 DEF Busy
<1>9. \A names : Found(names)' <=> Found(names)
  BY <1>2 DEF Found
<1>10. ~mixed => sent' \intersect users \subseteq row.to
  BY <1>1, <1>2, <1>5 DEF ResendsApart, Busy
<1>11. ResendsApart'
  <2> SUFFICES ASSUME ~mixed' PROVE ResendsApart!2'
    BY DEF ResendsApart
  <2>1. ResendsApart!2
    BY <1>1, <1>2 DEF ResendsApart
  <2>2. ResendsApart!2!4'
    BY <1>8, <1>9, <2>1
  <2>3. ResendsApart!2!5'
    BY <1>2, <1>9, <2>1
  <2>4. Busy({"viewed"})' => ~Busy({"resend"})'
    BY <1>8 DEF Busy
  <2>5. ~Busy({"resent"})' => sent' \intersect users' \subseteq row'.to
    BY <1>2, <1>10
  <2> QED
    BY <1>8, <2>2, <2>3, <2>4, <2>5
<1> QED
  BY <1>4, <1>6, <1>7, <1>11 DEF MessageInv

LEMMA ViewInv == ASSUME MessageInv, NEW c \in Calls, View(c) PROVE MessageInv'
<1> DEFINE got == {i \in row.payload : There(i)}
<1>1. MessageTypes /\ SavedOnce /\ GoneAreGone /\ ResendsApart
  BY DEF MessageInv
<1>2. /\ call[c].pc = "idle" /\ row # NoRow /\ Keep(c, "viewed", got) /\ mixed' = (mixed \/ Busy({"resend"}))
      /\ UNCHANGED <<users, tagged, row, sent, changes, gone>>
  BY DEF View
<1>3. got \in SUBSET Items /\ Found(got)
  BY <1>1 DEF MessageTypes, Found, GoneAreGone, There
<1> HIDE DEF got
<1>4. /\ call' \in [Calls -> MessageCalls] /\ \A d \in Calls : d # c => call'[d] = call[d]
      /\ call'[c].pc = "viewed" /\ call'[c].got = got
  BY <1>1, <1>2, <1>3, KeepIs
<1>5. mixed' \in BOOLEAN /\ (~mixed' => ~mixed /\ ~Busy({"resend"}))
  BY <1>1, <1>2 DEF MessageTypes, Busy
<1>6. MessageTypes'
  BY <1>1, <1>2, <1>4, <1>5 DEF MessageTypes
<1>7. SavedOnce'
  BY <1>1, <1>2, <1>4 DEF SavedOnce, Busy
<1>8. GoneAreGone'
  BY <1>1, <1>2 DEF GoneAreGone, There
<1>9. \A names : Found(names)' <=> Found(names)
  BY <1>2 DEF Found
<1>10. ResendsApart'
  <2> SUFFICES ASSUME ~mixed' PROVE ResendsApart!2'
    BY DEF ResendsApart
  <2>1. ResendsApart!2 /\ ~Busy({"resend"})
    BY <1>1, <1>5 DEF ResendsApart
  <2>2. \A d \in Calls : /\ call'[d].pc = "viewed" => call'[d] = call[d] \/ call'[d].got = got
                         /\ call'[d].pc \in {"resend", "resent"} => call'[d] = call[d]
    BY <1>4
  <2>3. ~Busy({"resend"})'
    BY <1>4, <2>1 DEF Busy
  <2>4. ResendsApart!2!4'
    BY <1>3, <1>9, <2>1, <2>2
  <2>5. ResendsApart!2!5'
    BY <1>2, <1>9, <2>1
  <2>6. ~Busy({"resent"})' => ~Busy({"resent"})
    BY <1>2, <1>4 DEF Busy
  <2>7. ~Busy({"resent"})' => sent' \intersect users' \subseteq row'.to
    BY <1>2, <2>1, <2>6
  <2> QED
    BY <1>2, <2>1, <2>2, <2>3, <2>4, <2>5, <2>7
<1> QED
  BY <1>6, <1>7, <1>8, <1>10 DEF MessageInv

LEMMA StoreNamesInv == ASSUME MessageInv, NEW c \in Calls, StoreNames(c) PROVE MessageInv'
<1>1. MessageTypes /\ SavedOnce /\ GoneAreGone /\ ResendsApart
  BY DEF MessageInv
<1>2. /\ call[c].pc = "viewed" /\ row' = [row EXCEPT !.names = call[c].got] /\ Goto(c, "done")
      /\ UNCHANGED <<users, tagged, sent, changes, gone, mixed>>
  BY DEF StoreNames
<1>3. /\ call' \in [Calls -> MessageCalls] /\ \A d \in Calls : d # c => call'[d] = call[d]
      /\ call'[c].pc = "done"
  BY <1>1, <1>2, GotoIs
<1>4. /\ row \in [payload : SUBSET Items, to : SUBSET Items, names : {NoNames} \union (SUBSET Items)]
      /\ call[c].got \in SUBSET Items
  BY <1>1 DEF MessageTypes, MessageCalls
<1>5. /\ row' \in [payload : SUBSET Items, to : SUBSET Items, names : {NoNames} \union (SUBSET Items)]
      /\ row'.payload = row.payload /\ row'.to = row.to /\ row'.names = call[c].got
  BY <1>2, <1>4
<1>6. MessageTypes'
  BY <1>1, <1>2, <1>3, <1>5 DEF MessageTypes
<1>7. row.payload # {}
  BY <1>1, <1>2 DEF SavedOnce, Busy
<1>8. row' # NoRow
  BY <1>5, <1>7 DEF NoRow
<1>9. SavedOnce'
  BY <1>1, <1>2, <1>3, <1>5, <1>7, <1>8 DEF SavedOnce, Busy
<1>10. GoneAreGone'
  BY <1>1, <1>2 DEF GoneAreGone, There
<1>11. \A names : Found(names)' <=> Found(names)
  BY <1>2, <1>5 DEF Found
<1>12. ResendsApart'
  <2> SUFFICES ASSUME ~mixed' PROVE ResendsApart!2'
    BY DEF ResendsApart
  <2>1. ResendsApart!2
    BY <1>1, <1>2 DEF ResendsApart
  <2>2. \A d \in Calls : call'[d].pc \in {"viewed", "resend", "resent"} => call'[d] = call[d]
    BY <1>3
  <2>3. ResendsApart!2!4'
    BY <1>11, <2>1, <2>2
  <2>4. ResendsApart!2!5'
    BY <1>2, <1>5, <1>11, <2>1
  <2>5. (Busy({"viewed"})' => Busy({"viewed"})) /\ (Busy({"resend"})' => Busy({"resend"}))
    BY <2>2 DEF Busy
  <2>6. ~Busy({"resent"})' => ~Busy({"resent"})
    BY <1>2, <1>3 DEF Busy
  <2>7. \A d \in Calls : call'[d].pc = "resent" => row'.to = call'[d].got
    BY <1>5, <2>1, <2>2
  <2>8. ~Busy({"resent"})' => sent' \intersect users' \subseteq row'.to
    BY <1>2, <1>5, <2>1, <2>6
  <2>9. \A e, d \in Calls : {call'[e].pc, call'[d].pc} \subseteq {"resend", "resent"} => e = d
    BY <2>1, <2>2
  <2> QED
    BY <2>1, <2>3, <2>4, <2>5, <2>7, <2>8, <2>9
<1> QED
  BY <1>6, <1>9, <1>10, <1>12 DEF MessageInv

LEMMA ResendInv == ASSUME MessageInv, NEW c \in Calls, Resend(c) PROVE MessageInv'
<1> DEFINE got == Parse(row.payload, {})
<1>1. MessageTypes /\ SavedOnce /\ GoneAreGone /\ ResendsApart
  BY DEF MessageInv
<1>2. /\ call[c].pc = "idle" /\ row # NoRow /\ ~Busy({"enqueue"}) /\ Keep(c, "resend", got)
      /\ mixed' = (mixed \/ Busy({"viewed", "resend", "resent"}))
      /\ UNCHANGED <<users, tagged, row, sent, changes, gone>>
  BY DEF Resend
<1>3. got \in SUBSET Items
  <2>1. row.payload \in SUBSET Items
    BY <1>1 DEF MessageTypes
  <2> QED
    BY <1>1, <2>1, ParseType
<1> HIDE DEF got
<1>4. /\ call' \in [Calls -> MessageCalls] /\ \A d \in Calls : d # c => call'[d] = call[d]
      /\ call'[c].pc = "resend"
  BY <1>1, <1>2, <1>3, KeepIs
<1>5. mixed' \in BOOLEAN /\ (~mixed' => ~mixed /\ ~Busy({"viewed", "resend", "resent"}))
  BY <1>1, <1>2 DEF MessageTypes, Busy
<1>6. MessageTypes'
  BY <1>1, <1>2, <1>4, <1>5 DEF MessageTypes
<1>7. \A d \in Calls : call'[d].pc # "enqueue"
  BY <1>2, <1>4 DEF Busy
<1>8. SavedOnce'
  BY <1>1, <1>2, <1>4, <1>7 DEF SavedOnce, Busy
<1>9. GoneAreGone'
  BY <1>1, <1>2 DEF GoneAreGone, There
<1>10. \A names : Found(names)' <=> Found(names)
  BY <1>2 DEF Found
<1>11. ResendsApart'
  <2> SUFFICES ASSUME ~mixed' PROVE ResendsApart!2'
    BY DEF ResendsApart
  <2>1. ResendsApart!2 /\ ~Busy({"viewed", "resend", "resent"})
    BY <1>1, <1>5 DEF ResendsApart
  <2>2. \A d \in Calls : /\ call'[d].pc \notin {"viewed", "resent"}
                         /\ call'[d].pc = "resend" => d = c
    BY <1>4, <2>1 DEF Busy
  <2>3. ResendsApart!2!5'
    BY <1>2, <1>10, <2>1
  <2>4. ~Busy({"resent"})
    BY <2>1 DEF Busy
  <2>5. sent' \intersect users' \subseteq row'.to
    BY <1>2, <2>1, <2>4
  <2>6. ~Busy({"viewed"})'
    BY <2>2 DEF Busy
  <2> QED
    BY <2>2, <2>3, <2>5, <2>6
<1> QED
  BY <1>6, <1>8, <1>9, <1>11 DEF MessageInv

LEMMA SaveRecipientsInv == ASSUME MessageInv, NEW c \in Calls, SaveRecipients(c) PROVE MessageInv'
<1>1. MessageTypes /\ SavedOnce /\ GoneAreGone /\ ResendsApart
  BY DEF MessageInv
<1>2. /\ call[c].pc = "resend" /\ row' = [row EXCEPT !.to = call[c].got, !.names = NoNames]
      /\ gone' = {i \in Items : ~There(i)} /\ Goto(c, "resent")
      /\ UNCHANGED <<users, tagged, sent, changes, mixed>>
  BY DEF SaveRecipients
<1>3. /\ call' \in [Calls -> MessageCalls] /\ \A d \in Calls : d # c => call'[d] = call[d]
      /\ call'[c].pc = "resent" /\ call'[c].got = call[c].got
  BY <1>1, <1>2, GotoIs
<1>4. /\ row \in [payload : SUBSET Items, to : SUBSET Items, names : {NoNames} \union (SUBSET Items)]
      /\ call[c].got \in SUBSET Items
  BY <1>1 DEF MessageTypes, MessageCalls
<1>5. /\ row' \in [payload : SUBSET Items, to : SUBSET Items, names : {NoNames} \union (SUBSET Items)]
      /\ row'.payload = row.payload /\ row'.to = call[c].got /\ row'.names = NoNames
  BY <1>2, <1>4
<1>6. MessageTypes'
  BY <1>1, <1>2, <1>3, <1>5 DEF MessageTypes
<1>7. row.payload # {} /\ \A d \in Calls : call[d].pc # "enqueue"
  BY <1>1, <1>2 DEF SavedOnce, Busy
<1>8. row' # NoRow
  BY <1>5, <1>7 DEF NoRow
<1>9. \A d \in Calls : call'[d].pc # "enqueue" /\ (call'[d].pc = "save" => call'[d] = call[d])
  BY <1>3, <1>7
<1>10. SavedOnce'
  BY <1>1, <1>5, <1>7, <1>8, <1>9 DEF SavedOnce
<1>11. GoneAreGone'
  BY <1>2 DEF GoneAreGone, There
<1>12. ResendsApart'
  <2> SUFFICES ASSUME ~mixed' PROVE ResendsApart!2'
    BY DEF ResendsApart
  <2>1. ResendsApart!2
    BY <1>1, <1>2 DEF ResendsApart
  <2>2. \A d \in Calls : call[d].pc \in {"resend", "resent"} => d = c
    BY <1>2, <2>1
  <2>3. \A d \in Calls : call[d].pc # "viewed"
    BY <1>2, <2>1 DEF Busy
  <2>4. \A d \in Calls : call'[d].pc \in {"resend", "resent"} => d = c
    BY <1>3, <2>2
  <2>5. \A d \in Calls : call'[d].pc # "viewed"
    BY <1>3, <2>3
  <2>6. ~Busy({"viewed"})' /\ Busy({"resent"})'
    BY <1>3, <2>5 DEF Busy
  <2> QED
    BY <1>3, <1>5, <2>4, <2>5, <2>6
<1> QED
  BY <1>6, <1>10, <1>11, <1>12 DEF MessageInv

LEMMA SendAgainInv == ASSUME MessageInv, NEW c \in Calls, SendAgain(c) PROVE MessageInv'
<1>1. MessageTypes /\ SavedOnce /\ GoneAreGone /\ ResendsApart
  BY DEF MessageInv
<1>2. /\ call[c].pc = "resent" /\ sent' = call[c].got /\ Goto(c, "done")
      /\ UNCHANGED <<users, tagged, row, changes, gone, mixed>>
  BY DEF SendAgain
<1>3. /\ call' \in [Calls -> MessageCalls] /\ \A d \in Calls : d # c => call'[d] = call[d]
      /\ call'[c].pc = "done"
  BY <1>1, <1>2, GotoIs
<1>4. MessageTypes'
  BY <1>1, <1>2, <1>3 DEF MessageTypes
<1>5. row # NoRow /\ \A d \in Calls : call[d].pc # "enqueue"
  BY <1>1, <1>2 DEF SavedOnce, Busy
<1>6. \A d \in Calls : call'[d].pc # "enqueue" /\ (call'[d].pc = "save" => call'[d] = call[d])
  BY <1>3, <1>5
<1>7. SavedOnce'
  BY <1>1, <1>2, <1>5, <1>6 DEF SavedOnce
<1>8. GoneAreGone'
  BY <1>1, <1>2 DEF GoneAreGone, There
<1>9. \A names : Found(names)' <=> Found(names)
  BY <1>2 DEF Found
<1>10. ResendsApart'
  <2> SUFFICES ASSUME ~mixed' PROVE ResendsApart!2'
    BY DEF ResendsApart
  <2>1. ResendsApart!2
    BY <1>1, <1>2 DEF ResendsApart
  <2>2. \A d \in Calls : call'[d].pc \in {"viewed", "resend", "resent"} => call'[d] = call[d]
    BY <1>3
  <2>3. ResendsApart!2!4'
    BY <1>9, <2>1, <2>2
  <2>4. ResendsApart!2!5'
    BY <1>2, <1>9, <2>1
  <2>5. (Busy({"viewed"})' => Busy({"viewed"})) /\ (Busy({"resend"})' => Busy({"resend"}))
    BY <2>2 DEF Busy
  <2>6. sent' \intersect users' \subseteq row'.to
    BY <1>2, <2>1
  <2>7. \A d \in Calls : call'[d].pc = "resent" => row'.to = call'[d].got
    BY <1>2, <2>1, <2>2
  <2>8. \A e, d \in Calls : {call'[e].pc, call'[d].pc} \subseteq {"resend", "resent"} => e = d
    BY <2>1, <2>2
  <2> QED
    BY <2>1, <2>3, <2>4, <2>5, <2>6, <2>7, <2>8
<1> QED
  BY <1>4, <1>7, <1>8, <1>10 DEF MessageInv

LEMMA LeaveInv == ASSUME MessageInv, Leave PROVE MessageInv'
<1>1. MessageTypes /\ SavedOnce /\ GoneAreGone /\ ResendsApart
  BY DEF MessageInv
<1>2. UNCHANGED <<row, sent, call, gone, mixed>>
  BY DEF Leave
<1>3. /\ users' \subseteq users /\ DOMAIN tagged' \subseteq DOMAIN tagged
      /\ \A t \in DOMAIN tagged' : tagged'[t] \subseteq People
  <2>1. users \subseteq People /\ \A t \in DOMAIN tagged : tagged[t] \subseteq People
    BY <1>1 DEF MessageTypes
  <2>2. ASSUME NEW u \in users, users' = users \ {u}, tagged' = [t \in DOMAIN tagged |-> tagged[t] \ {u}]
        PROVE  <1>3!:
    BY <2>1, <2>2
  <2>3. ASSUME UNCHANGED users, NEW t \in DOMAIN tagged, tagged' = [s \in DOMAIN tagged \ {t} |-> tagged[s]]
        PROVE  <1>3!:
    BY <2>1, <2>3
  <2>4. ASSUME UNCHANGED users, NEW t \in DOMAIN tagged, NEW S \in SUBSET users, tagged' = [tagged EXCEPT ![t] = S]
        PROVE  <1>3!:
    BY <2>1, <2>4
  <2> QED
    BY <2>2, <2>3, <2>4 DEF Leave
<1>4. MessageTypes'
  BY <1>1, <1>2, <1>3 DEF MessageTypes
<1>5. SavedOnce'
  BY <1>1, <1>2 DEF SavedOnce, Busy
<1>6. GoneAreGone'
  BY <1>1, <1>2, <1>3 DEF GoneAreGone, There
<1>7. \A names : Found(names) => Found(names)'
  BY <1>2, <1>3 DEF Found
<1>8. ResendsApart'
  <2> SUFFICES ASSUME ~mixed' PROVE ResendsApart!2'
    BY DEF ResendsApart
  <2>1. ResendsApart!2
    BY <1>1, <1>2 DEF ResendsApart
  <2>2. ResendsApart!2!4' /\ ResendsApart!2!5'
    BY <1>2, <1>7, <2>1
  <2>3. ResendsApart!2!6'
    BY <1>2, <1>3, <2>1 DEF Busy
  <2> QED
    BY <1>2, <2>1, <2>2, <2>3 DEF Busy
<1> QED
  BY <1>4, <1>5, <1>6, <1>8 DEF MessageInv

LEMMA MessageInitInv == MessagesInit => MessageInv
<1> SUFFICES ASSUME MessagesInit PROVE MessageInv
  OBVIOUS
<1>1. Idle \in MessageCalls /\ Idle.pc = "idle"
  BY DEF Idle, MessageCalls
<1>2. call = [c \in Calls |-> Idle] /\ row = NoRow /\ sent = {} /\ gone = {} /\ mixed = FALSE
  BY DEF MessagesInit
<1>3. \A c \in Calls : call[c].pc = "idle"
  BY <1>1, <1>2
<1>4. row \in [payload : SUBSET Items, to : SUBSET Items, names : {NoNames} \union (SUBSET Items)] /\ row.names = NoNames
  BY <1>2 DEF NoRow
<1>5. users \subseteq People /\ DOMAIN tagged \subseteq Tags /\ \A t \in DOMAIN tagged : tagged[t] \subseteq People
  BY DEF MessagesInit
<1>6. MessageTypes
  BY <1>1, <1>2, <1>4, <1>5 DEF MessageTypes
<1>7. SavedOnce
  BY <1>2, <1>3 DEF SavedOnce, Busy
<1>8. ResendsApart
  BY <1>2, <1>3, <1>4 DEF ResendsApart, Busy
<1> QED
  BY <1>2, <1>6, <1>7, <1>8 DEF MessageInv, GoneAreGone

\* Who was sent the message last can open it, and the search finds it by the
\* names that are there, as MessageFollowsResend says.
THEOREM MessagesFollowResends == Spec => []MessageFollowsResend
<1>1. Init => MessageInv
  BY MessageInitInv DEF Init
<1>2. ASSUME MessageInv, [Next]_vars PROVE MessageInv'
  <2>1. CASE UNCHANGED messageVars
    <3>1. UNCHANGED <<users, tagged, row, sent, call, gone, mixed>> /\ MessageTypes /\ SavedOnce /\ GoneAreGone /\ ResendsApart
      BY <1>2, <2>1 DEF messageVars, MessageInv
    <3>2. MessageTypes' /\ GoneAreGone'
      BY <3>1 DEF MessageTypes, GoneAreGone, There
    <3>3. SavedOnce'
      BY <3>1 DEF SavedOnce, Busy
    <3>4. ResendsApart'
      BY <3>1 DEF ResendsApart, Busy, Found
    <3> QED
      BY <3>2, <3>3, <3>4 DEF MessageInv
  <2>2. CASE MessagesNext
    BY <1>2, <2>2, ComposeInv, SaveMessageInv, EnqueueInv, ViewInv, StoreNamesInv, ResendInv,
       SaveRecipientsInv, SendAgainInv, LeaveInv DEF MessagesNext
  <2>3. UNCHANGED messageVars \/ MessagesNext
    BY <1>2, EachPartSteps
  <2> QED
    BY <2>1, <2>2, <2>3
<1>3. MessageInv => MessageFollowsResend
  <2> SUFFICES ASSUME MessageInv PROVE MessageFollowsResend
    OBVIOUS
  <2>1. LinkOpens
    BY DEF MessageInv, ResendsApart, LinkOpens, MayOpen
  <2>2. NamesFollowResend
    BY DEF MessageInv, ResendsApart, Found, NamesFollowResend
  <2> QED
    BY <2>1, <2>2 DEF MessageFollowsResend
<1> QED
  BY <1>1, <1>2, <1>3, PTL DEF Spec
-----------------------------------------------------------------------------
(* The debug view.  A request that was pushed is in the queue of its         *)
(* interval until its hour is over, and a queue expires an hour after a      *)
(* push of its interval; the slot of a long request is never empty again.    *)

QueueRecords == [items : SUBSET Requests, expires : Nat]

DebugTypes ==
  /\ at \in [Requests -> {"ended", "slot", "push", "pushed"}] /\ time \in Nat
  /\ pointer \in Nat \union {-1}
  /\ slotOf \in [Requests -> Nat \union {-1}] /\ pushedAt \in [Requests -> Nat \union {-1}]
  /\ ring \in [0..(Slots - 1) -> Requests \union {NoRequest}]
  /\ DOMAIN queues \subseteq Nat /\ \A i \in DOMAIN queues : queues[i] \in QueueRecords

IsQueued(r) ==
  at[r] = "pushed" =>
    /\ pushedAt[r] \in 0..time
    /\ time < pushedAt[r] + Hour =>
         /\ Interval(pushedAt[r]) \in DOMAIN queues
         /\ r \in queues[Interval(pushedAt[r])].items
         /\ pushedAt[r] + Hour <= queues[Interval(pushedAt[r])].expires

QueuesAreRight ==
  \A i \in DOMAIN queues :
    /\ Interval(queues[i].expires - Hour) = i
    /\ \A r \in queues[i].items : at[r] = "pushed" /\ Interval(pushedAt[r]) = i

SlotsAreRight ==
  /\ \A r \in Requests : at[r] \in {"slot", "push"} => slotOf[r] # -1
  /\ \A r \in Requests : at[r] = "ended" => slotOf[r] = -1
  /\ \A r \in Requests : slotOf[r] # -1 /\ at[r] # "slot" => ring[slotOf[r] % Slots] # NoRequest
  /\ \A n \in DOMAIN ring : ring[n] # NoRequest => slotOf[ring[n]] # -1 /\ slotOf[ring[n]] % Slots = n

DebugInv == DebugTypes /\ (\A r \in Requests : IsQueued(r)) /\ QueuesAreRight /\ SlotsAreRight

\* Arithmetic: an interval is as long as Span, and times are in the order of theirs.
LEMMA IntervalIs ==
  /\ \A x \in Int : Interval(x) \in Int
  /\ \A x \in Nat : Interval(x) \in Nat
  /\ \A x, y \in Int : x <= y => Interval(x) <= Interval(y)
  /\ \A x, y \in Int : Interval(x) = Interval(y) => x - y < Span
<1>1. Span \in Nat \ {0}
  BY DebugViewAssumption
<1>2. \A x \in Int : x \div Span \in Int
  BY <1>1
<1>3. \A x \in Nat : x \div Span \in Nat
  BY <1>1
<1>4. \A x, y \in Int : x <= y => x \div Span <= y \div Span
  BY <1>1
<1>5. \A x, y \in Int : x \div Span = y \div Span => x - y < Span
  BY <1>1
<1> QED
  BY <1>2, <1>3, <1>4, <1>5 DEF Interval

LEMMA SlotIs ==
  /\ \A x \in Nat \union {-1} : x # -1 => x % Slots \in 0..(Slots - 1)
  /\ \A x, y \in Int : x % Slots = y % Slots => (x - y) % Slots = 0
<1>1. Slots \in Nat \ {0}
  BY DebugViewAssumption
<1>2. \A x \in Nat : x % Slots \in 0..(Slots - 1)
  BY <1>1
<1>3. \A x, y \in Int : x % Slots = y % Slots => (x - y) % Slots = 0
  BY <1>1
<1> QED
  BY <1>2, <1>3

LEMMA CountUpInv == ASSUME DebugInv, NEW r \in Requests, CountUp(r) PROVE DebugInv'
<1>1. DebugTypes /\ (\A q \in Requests : IsQueued(q)) /\ QueuesAreRight /\ SlotsAreRight
  BY DEF DebugInv
<1>2. /\ at[r] = "ended" /\ at' = [at EXCEPT ![r] = "slot"]
      /\ pointer' = pointer + 1 /\ slotOf' = [slotOf EXCEPT ![r] = pointer + 1]
      /\ UNCHANGED <<ring, queues, pushedAt, time>>
  BY DEF CountUp
<1>3. pointer + 1 \in Nat
  BY <1>1 DEF DebugTypes
<1>4. /\ at' \in [Requests -> {"ended", "slot", "push", "pushed"}] /\ slotOf' \in [Requests -> Nat \union {-1}]
      /\ at'[r] = "slot" /\ slotOf'[r] # -1
      /\ \A q \in Requests : q # r => at'[q] = at[q] /\ slotOf'[q] = slotOf[q]
  <2>1. at \in [Requests -> {"ended", "slot", "push", "pushed"}] /\ slotOf \in [Requests -> Nat \union {-1}]
    BY <1>1 DEF DebugTypes
  <2>2. pointer + 1 # -1
    BY <1>3
  <2> QED
    BY <1>2, <1>3, <2>1, <2>2
<1>5. DebugTypes'
  BY <1>1, <1>2, <1>3, <1>4 DEF DebugTypes
<1>6. ASSUME NEW q \in Requests PROVE IsQueued(q)'
  BY <1>1, <1>2, <1>4 DEF IsQueued, Interval
<1>7. QueuesAreRight'
  <2>1. \A i \in DOMAIN queues : \A q \in queues[i].items : q \in Requests /\ q # r
    BY <1>1, <1>2 DEF QueuesAreRight, DebugTypes, QueueRecords
  <2> QED
    BY <1>1, <1>2, <1>4, <2>1 DEF QueuesAreRight, Interval
<1>8. SlotsAreRight'
  <2>1. \A n \in DOMAIN ring : ring[n] # NoRequest => ring[n] \in Requests /\ ring[n] # r
    BY <1>1, <1>2 DEF SlotsAreRight, DebugTypes
  <2>2. SlotsAreRight!1' /\ SlotsAreRight!2'
    BY <1>1, <1>4 DEF SlotsAreRight
  <2>3. SlotsAreRight!3'
    BY <1>1, <1>2, <1>4 DEF SlotsAreRight
  <2>4. SlotsAreRight!4'
    BY <1>1, <1>2, <1>4, <2>1 DEF SlotsAreRight
  <2> QED
    BY <2>2, <2>3, <2>4 DEF SlotsAreRight
<1> QED
  BY <1>5, <1>6, <1>7, <1>8 DEF DebugInv

LEMMA SetSlotInv == ASSUME DebugInv, NEW r \in Requests, SetSlot(r) PROVE DebugInv'
<1> DEFINE n == slotOf[r] % Slots
<1>1. DebugTypes /\ (\A q \in Requests : IsQueued(q)) /\ QueuesAreRight /\ SlotsAreRight
  BY DEF DebugInv
<1>2. /\ at[r] = "slot" /\ at' = [at EXCEPT ![r] = "push"] /\ ring' = [ring EXCEPT ![n] = r]
      /\ UNCHANGED <<pointer, slotOf, queues, pushedAt, time>>
  BY DEF SetSlot
<1>3. /\ at \in [Requests -> {"ended", "slot", "push", "pushed"}] /\ slotOf \in [Requests -> Nat \union {-1}]
      /\ ring \in [0..(Slots - 1) -> Requests \union {NoRequest}] /\ slotOf[r] # -1
  BY <1>1, <1>2 DEF DebugTypes, SlotsAreRight
<1>4. n \in 0..(Slots - 1)
  BY <1>3, SlotIs
<1>5. r # NoRequest
  BY DebugViewAssumption
<1>6. /\ at' \in [Requests -> {"ended", "slot", "push", "pushed"}] /\ at'[r] = "push"
      /\ \A q \in Requests : q # r => at'[q] = at[q]
  BY <1>2, <1>3
<1>7. n = slotOf[r] % Slots
  OBVIOUS
<1> HIDE DEF n
<1>8. /\ ring' \in [0..(Slots - 1) -> Requests \union {NoRequest}] /\ ring'[n] = r
      /\ DOMAIN ring = 0..(Slots - 1) /\ DOMAIN ring' = 0..(Slots - 1)
      /\ \A m \in 0..(Slots - 1) : m # n => ring'[m] = ring[m]
  BY <1>2, <1>3, <1>4
<1>9. DebugTypes'
  BY <1>1, <1>2, <1>6, <1>8 DEF DebugTypes
<1>10. ASSUME NEW q \in Requests PROVE IsQueued(q)'
  BY <1>1, <1>2, <1>6 DEF IsQueued, Interval
<1>11. QueuesAreRight'
  <2>1. \A i \in DOMAIN queues : \A q \in queues[i].items : q \in Requests /\ q # r
    BY <1>1, <1>2 DEF QueuesAreRight, DebugTypes, QueueRecords
  <2> QED
    BY <1>1, <1>2, <1>6, <2>1 DEF QueuesAreRight, Interval
<1>12. SlotsAreRight'
  <2>1. SlotsAreRight!1' /\ SlotsAreRight!2'
    BY <1>1, <1>2, <1>3, <1>6 DEF SlotsAreRight
  <2>2. ASSUME NEW q \in Requests, slotOf[q] # -1, at'[q] # "slot" PROVE ring'[slotOf[q] % Slots] # NoRequest
    <3>1. slotOf[q] % Slots \in 0..(Slots - 1)
      BY <1>3, <2>2, SlotIs
    <3>2. q # r => ring[slotOf[q] % Slots] # NoRequest
      BY <1>1, <1>6, <2>2 DEF SlotsAreRight
    <3> QED
      BY <1>5, <1>7, <1>8, <3>1, <3>2
  <2>3. SlotsAreRight!3'
    BY <1>2, <2>2
  <2>4. SlotsAreRight!4'
    BY <1>1, <1>2, <1>3, <1>7, <1>8 DEF SlotsAreRight
  <2> QED
    BY <2>1, <2>3, <2>4 DEF SlotsAreRight
<1> QED
  BY <1>9, <1>10, <1>11, <1>12 DEF DebugInv

LEMMA PushTimesInv == ASSUME DebugInv, NEW r \in Requests, PushTimes(r) PROVE DebugInv'
<1> DEFINE now == Interval(time)
           new == [items |-> Pushed(now) \union {r}, expires |-> time + Hour]
<1>1. DebugTypes /\ (\A q \in Requests : IsQueued(q)) /\ QueuesAreRight /\ SlotsAreRight
  BY DEF DebugInv
<1>2. /\ at[r] \in {"ended", "push"} /\ at' = [at EXCEPT ![r] = "pushed"]
      /\ queues' = [j \in DOMAIN queues \union {now} |-> IF j = now THEN new ELSE queues[j]]
      /\ pushedAt' = [pushedAt EXCEPT ![r] = time]
      /\ UNCHANGED <<pointer, slotOf, ring, time>>
  BY DEF PushTimes
<1>3. /\ DOMAIN queues' = DOMAIN queues \union {now} /\ queues'[now] = new
      /\ \A i \in DOMAIN queues : i # now => queues'[i] = queues[i]
  BY <1>2
<1>4. time \in Nat /\ Hour \in Nat \ {0} /\ time + Hour \in Nat /\ time + Hour - Hour = time
  BY <1>1, DebugViewAssumption DEF DebugTypes
<1>5. now \in Nat
  BY <1>4, IntervalIs
<1>6. /\ at \in [Requests -> {"ended", "slot", "push", "pushed"}] /\ pushedAt \in [Requests -> Nat \union {-1}]
      /\ \A i \in DOMAIN queues : queues[i] \in QueueRecords
  BY <1>1 DEF DebugTypes
<1>7. /\ at' \in [Requests -> {"ended", "slot", "push", "pushed"}] /\ pushedAt' \in [Requests -> Nat \union {-1}]
      /\ at'[r] = "pushed" /\ pushedAt'[r] = time
      /\ \A q \in Requests : q # r => at'[q] = at[q] /\ pushedAt'[q] = pushedAt[q]
  BY <1>2, <1>4, <1>6
<1>8. Pushed(now) \subseteq Requests /\ \A q \in Pushed(now) : now \in DOMAIN queues /\ q \in queues[now].items
  BY <1>6 DEF Pushed, QueueRecords
<1>9. new \in QueueRecords /\ new.items = Pushed(now) \union {r} /\ new.expires = time + Hour
  BY <1>4, <1>8 DEF QueueRecords
<1>10. now = Interval(time)
  OBVIOUS
<1> HIDE DEF now, new
<1>11. DebugTypes'
  <2>1. DOMAIN queues' \subseteq Nat /\ \A i \in DOMAIN queues' : queues'[i] \in QueueRecords
    BY <1>1, <1>3, <1>5, <1>6, <1>9 DEF DebugTypes
  <2> QED
    BY <1>1, <1>2, <1>7, <2>1 DEF DebugTypes
<1>12. ASSUME NEW q \in Requests PROVE IsQueued(q)'
  <2>1. CASE q = r
    <3>1. Interval(time) \in DOMAIN queues' /\ r \in queues'[now].items /\ queues'[now].expires = time + Hour
      BY <1>3, <1>9, <1>10
    <3> QED
      BY <1>2, <1>4, <1>7, <1>10, <2>1, <3>1 DEF IsQueued, Interval
  <2>2. CASE q # r /\ at[q] = "pushed"
    <3> DEFINE i == Interval(pushedAt[q])
    <3>1. pushedAt[q] \in 0..time
      BY <1>1, <2>2 DEF IsQueued
    <3>2. ASSUME time < pushedAt[q] + Hour
          PROVE  i \in DOMAIN queues' /\ q \in queues'[i].items /\ pushedAt[q] + Hour <= queues'[i].expires
      <4>1. i \in DOMAIN queues /\ q \in queues[i].items /\ pushedAt[q] + Hour <= queues[i].expires
        BY <1>1, <2>2, <3>2 DEF IsQueued
      <4>2. CASE i # now
        BY <1>3, <4>1, <4>2
      <4>3. CASE i = now
        <5>1. queues[now].expires \in Nat
          BY <1>6, <4>1, <4>3 DEF QueueRecords
        <5>2. time < queues[now].expires
          BY <1>4, <3>1, <3>2, <4>1, <4>3, <5>1
        <5>3. q \in Pushed(now)
          BY <4>1, <4>3, <5>2 DEF Pushed
        <5>4. pushedAt[q] + Hour <= time + Hour
          BY <1>4, <3>1
        <5> QED
          BY <1>3, <1>9, <4>3, <5>3, <5>4
      <4> QED
        BY <4>2, <4>3
    <3> QED
      BY <1>2, <1>7, <2>2, <3>1, <3>2 DEF IsQueued, Interval
  <2>3. CASE q # r /\ at[q] # "pushed"
    BY <1>7, <2>3 DEF IsQueued
  <2> QED
    BY <2>1, <2>2, <2>3
<1>13. QueuesAreRight'
  <2>1. ASSUME NEW i \in DOMAIN queues', i # now
        PROVE  /\ Interval(queues'[i].expires - Hour) = i
               /\ \A q \in queues'[i].items : at'[q] = "pushed" /\ Interval(pushedAt'[q]) = i
    <3>1. i \in DOMAIN queues /\ queues'[i] = queues[i]
      BY <1>3, <2>1
    <3>2. \A q \in queues[i].items : q \in Requests /\ at[q] = "pushed" /\ Interval(pushedAt[q]) = i /\ q # r
      BY <1>1, <1>2, <1>6, <3>1 DEF QueuesAreRight, QueueRecords
    <3>3. Interval(queues[i].expires - Hour) = i
      BY <1>1, <3>1 DEF QueuesAreRight
    <3> QED
      BY <1>7, <3>1, <3>2, <3>3
  <2>2. Interval(queues'[now].expires - Hour) = now
    BY <1>3, <1>4, <1>9, <1>10
  <2>3. \A q \in queues'[now].items : at'[q] = "pushed" /\ Interval(pushedAt'[q]) = now
    <3>1. \A q \in Pushed(now) : q \in Requests /\ at[q] = "pushed" /\ Interval(pushedAt[q]) = now /\ q # r
      BY <1>1, <1>2, <1>8 DEF QueuesAreRight
    <3> QED
      BY <1>3, <1>7, <1>9, <1>10, <3>1
  <2> QED
    BY <2>1, <2>2, <2>3 DEF QueuesAreRight, Interval
<1>14. SlotsAreRight'
  <2>1. at[r] # "slot" /\ at'[r] \notin {"slot", "push", "ended"}
    BY <1>2, <1>7
  <2> QED
    BY <1>1, <1>2, <1>7, <2>1 DEF SlotsAreRight
<1> QED
  BY <1>11, <1>12, <1>13, <1>14 DEF DebugInv


LEMMA TimePasses == ASSUME DebugInv, PassTime PROVE DebugInv'
<1>1. DebugTypes /\ (\A q \in Requests : IsQueued(q)) /\ QueuesAreRight /\ SlotsAreRight
  BY DEF DebugInv
<1>2. time' = time + 1 /\ UNCHANGED <<at, pointer, slotOf, ring, queues, pushedAt>>
  BY DEF PassTime
<1>3. DebugTypes'
  BY <1>1, <1>2 DEF DebugTypes
<1>4. QueuesAreRight' /\ SlotsAreRight'
  BY <1>1, <1>2 DEF QueuesAreRight, SlotsAreRight, Interval
<1>5. ASSUME NEW q \in Requests PROVE IsQueued(q)'
  <2>1. time \in Nat /\ Hour \in Nat /\ pushedAt[q] \in Nat \union {-1}
    BY <1>1, DebugViewAssumption DEF DebugTypes
  <2>2. IsQueued(q)
    BY <1>1
  <2>3. pushedAt[q] \in 0..time => pushedAt[q] \in 0..time'
    BY <1>2, <2>1
  <2>4. time' < pushedAt[q] + Hour => time < pushedAt[q] + Hour
    BY <1>2, <2>1
  <2> QED
    BY <1>2, <2>2, <2>3, <2>4 DEF IsQueued, Interval
<1> QED
  BY <1>3, <1>4, <1>5 DEF DebugInv

LEMMA DebugInitInv == DebugInit => DebugInv
<1> SUFFICES ASSUME DebugInit PROVE DebugInv
  OBVIOUS
<1>1. /\ at = [r \in Requests |-> "ended"] /\ slotOf = [r \in Requests |-> -1] /\ pointer = -1
      /\ ring = [s \in 0..(Slots - 1) |-> NoRequest] /\ queues = <<>> /\ DOMAIN queues = {}
      /\ pushedAt = [r \in Requests |-> -1] /\ time = 0
  BY DEF DebugInit
<1>2. DebugTypes
  BY <1>1 DEF DebugTypes
<1>3. \A r \in Requests : IsQueued(r)
  BY <1>1 DEF IsQueued
<1>4. QueuesAreRight
  BY <1>1 DEF QueuesAreRight
<1>5. SlotsAreRight
  BY <1>1 DEF SlotsAreRight
<1> QED
  BY <1>2, <1>3, <1>4, <1>5 DEF DebugInv

LEMMA ViewFollows == DebugInv => ViewIsComplete
<1> SUFFICES ASSUME DebugInv PROVE ViewIsComplete
  OBVIOUS
<1>1. DebugTypes /\ (\A q \in Requests : IsQueued(q)) /\ QueuesAreRight /\ SlotsAreRight
  BY DEF DebugInv
<1>2. time \in Nat /\ Hour \in Nat \ {0} /\ Span \in Nat \ {0} /\ time - Hour \in Int
  BY <1>1, DebugViewAssumption DEF DebugTypes
<1>3. ASSUME NEW r \in Requests, at[r] = "pushed", time - pushedAt[r] < Hour PROVE r \in LastHour
  <2> DEFINE i == Interval(pushedAt[r])
  <2>1. pushedAt[r] \in 0..time /\ IsQueued(r)
    BY <1>1, <1>3 DEF IsQueued
  <2>2. time < pushedAt[r] + Hour
    BY <1>2, <1>3, <2>1
  <2>3. i \in DOMAIN queues /\ r \in queues[i].items /\ pushedAt[r] + Hour <= queues[i].expires
    BY <1>3, <2>1, <2>2 DEF IsQueued
  <2>4. queues[i].expires \in Nat
    BY <1>1, <2>3 DEF DebugTypes, QueueRecords
  <2>5. time < queues[i].expires
    BY <1>2, <2>1, <2>2, <2>3, <2>4
  <2>6. r \in Pushed(i)
    BY <2>3, <2>5 DEF Pushed
  <2>7. time - Hour <= pushedAt[r] /\ pushedAt[r] <= time /\ pushedAt[r] \in Int
    BY <1>2, <2>1, <2>2
  <2>8. Interval(time - Hour) <= i /\ i <= Interval(time)
    BY <1>2, <2>7, IntervalIs
  <2>9. i \in Int /\ Interval(time - Hour) \in Int /\ Interval(time) \in Int
    BY <1>2, <2>7, IntervalIs
  <2> QED
    BY <2>6, <2>8, <2>9 DEF LastHour
<1>4. ASSUME NEW r \in Requests, at[r] = "pushed", r \in LastHour PROVE time - pushedAt[r] < Hour + Span
  <2>1. PICK i \in Interval(time - Hour)..Interval(time) : r \in Pushed(i)
    BY <1>4 DEF LastHour
  <2>2. i \in DOMAIN queues /\ time < queues[i].expires /\ r \in queues[i].items
    BY <2>1 DEF Pushed
  <2>3. Interval(queues[i].expires - Hour) = i /\ Interval(pushedAt[r]) = i /\ queues[i].expires \in Nat
    BY <1>1, <2>2 DEF QueuesAreRight, DebugTypes, QueueRecords
  <2>4. pushedAt[r] \in 0..time
    BY <1>1, <1>4 DEF IsQueued
  <2>5. queues[i].expires - Hour \in Int /\ pushedAt[r] \in Int
    BY <1>2, <2>3, <2>4
  <2>6. queues[i].expires - Hour - pushedAt[r] < Span
    BY <2>3, <2>5, IntervalIs
  <2> QED
    BY <1>2, <2>2, <2>3, <2>4, <2>6
<1>5. ASSUME NEW r \in Requests, slotOf[r] # -1, at[r] # "slot", r \notin InRing
      PROVE  \E s \in Requests \ {r} : s \in InRing /\ (slotOf[s] - slotOf[r]) % Slots = 0
  <2> DEFINE n == slotOf[r] % Slots
             other == ring[n]
  <2>1. slotOf \in [Requests -> Nat \union {-1}] /\ ring \in [0..(Slots - 1) -> Requests \union {NoRequest}]
    BY <1>1 DEF DebugTypes
  <2>2. n \in DOMAIN ring
    BY <1>5, <2>1, SlotIs
  <2>3. other # NoRequest /\ other \in Requests
    BY <1>1, <1>5, <2>1, <2>2 DEF SlotsAreRight
  <2>4. other \in InRing
    BY <2>2, <2>3 DEF InRing
  <2>5. slotOf[other] % Slots = slotOf[r] % Slots
    BY <1>1, <2>2, <2>3 DEF SlotsAreRight
  <2>6. slotOf[other] \in Int /\ slotOf[r] \in Int
    BY <2>1, <2>3
  <2>7. (slotOf[other] - slotOf[r]) % Slots = 0
    BY <2>5, <2>6, SlotIs
  <2> QED
    BY <1>5, <2>3, <2>4, <2>7
<1> QED
  BY <1>3, <1>4, <1>5 DEF ViewIsComplete

\* The debug view shows the requests of the last hour, and the last long
\* request of each slot, as ViewIsComplete says.
THEOREM ViewStaysComplete == Spec => []ViewIsComplete
<1>1. Init => DebugInv
  BY DebugInitInv DEF Init
<1>2. ASSUME DebugInv, [Next]_vars PROVE DebugInv'
  <2>1. CASE UNCHANGED debugVars
    <3>1. UNCHANGED <<at, pointer, slotOf, ring, queues, pushedAt, time>>
      BY <2>1 DEF debugVars
    <3>2. DebugTypes' /\ QueuesAreRight' /\ SlotsAreRight'
      BY <1>2, <3>1 DEF DebugInv, DebugTypes, QueuesAreRight, SlotsAreRight, Interval
    <3>3. \A r \in Requests : IsQueued(r)'
      BY <1>2, <3>1 DEF DebugInv, IsQueued, Interval
    <3> QED
      BY <3>2, <3>3 DEF DebugInv
  <2>2. CASE DebugNext
    BY <1>2, <2>2, CountUpInv, SetSlotInv, PushTimesInv, TimePasses DEF DebugNext
  <2>3. UNCHANGED debugVars \/ DebugNext
    BY <1>2, EachPartSteps
  <2> QED
    BY <2>1, <2>2, <2>3
<1> QED
  BY <1>1, <1>2, ViewFollows, PTL DEF Spec
-----------------------------------------------------------------------------
(* The log files.  While requests do not cross, a rotation is alone, and     *)
(* otherwise the files are numbered without a gap and the newest records are *)
(* in the last files, which a rotation keeps.                                *)

LastTwo(records) == \A i \in DOMAIN logged : i > Len(logged) - 2 => logged[i] \in records

Numbered(m) ==
  /\ Numbers = 1..m /\ (m = 0 => logged = <<>>)
  /\ LastTwo(UNION {files[n] : n \in Numbers})
  /\ m >= 3 /\ logged # <<>> => logged[Len(logged)] \in files[m]
  /\ m >= 4 => LastTwo(files[m] \union files[m - 1])

Left(m, k) ==
  CASE k = 5 -> <<Removal({1}), Removal({2}), Renaming(m, 1), Renaming(m - 1, 2), Removal((1..m) \ {1, 2})>>
    [] k = 4 -> <<Removal({2}), Renaming(m, 1), Renaming(m - 1, 2), Removal((1..m) \ {1, 2})>>
    [] k = 3 -> <<Renaming(m, 1), Renaming(m - 1, 2), Removal((1..m) \ {1, 2})>>
    [] k = 2 -> <<Renaming(m - 1, 2), Removal((1..m) \ {1, 2})>>
    [] k = 1 -> <<Removal((1..m) \ {1, 2})>>

\* The files when the last k operations are left.
Rotating(m, k) ==
  /\ m >= 4
  /\ k \in {5, 4, 3} => Numbers = (6 - k)..m /\ LastTwo(files[m] \union files[m - 1])
  /\ k = 2 => Numbers = {1} \union (3..(m - 1)) /\ LastTwo(files[1] \union files[m - 1])
  /\ k = 1 => Numbers = {1, 2} \union (3..(m - 2)) /\ LastTwo(files[1] \union files[2])

LogTypes ==
  /\ saw \in [Writers -> Nat] /\ todo = [r \in Writers |-> todo[r]]
  /\ logged \in Seq(Writers)
  /\ \A r \in Writers : saw[r] = 0 => todo[r] = <<>> /\ r \notin written

Calm == \A r \in Writers : todo[r] = <<>>
Alone(r) == InUse(r) /\ \A s \in Writers \ {r} : ~InUse(s) /\ todo[s] = <<>>

LogInv ==
  /\ crossed \in BOOLEAN
  /\ ~crossed => /\ LogTypes
                 /\ \/ Calm /\ \E m \in Nat : Numbered(m)
                    \/ \E r \in Writers, m \in Nat, k \in 1..5 : Alone(r) /\ todo[r] = Left(m, k) /\ Rotating(m, k)

LEMMA LeftIs ==
  ASSUME NEW m
  PROVE  /\ \A k \in 1..5 : Left(m, k) # <<>>
         /\ Head(Left(m, 5)) = Removal({1}) /\ Tail(Left(m, 5)) = Left(m, 4)
         /\ Head(Left(m, 4)) = Removal({2}) /\ Tail(Left(m, 4)) = Left(m, 3)
         /\ Head(Left(m, 3)) = Renaming(m, 1) /\ Tail(Left(m, 3)) = Left(m, 2)
         /\ Head(Left(m, 2)) = Renaming(m - 1, 2) /\ Tail(Left(m, 2)) = Left(m, 1)
         /\ Head(Left(m, 1)) = Removal((1..m) \ {1, 2}) /\ Tail(Left(m, 1)) = <<>>
<1>1. \A a1, a2, a3, a4, a5 : /\ Head(<<a1, a2, a3, a4, a5>>) = a1 /\ Tail(<<a1, a2, a3, a4, a5>>) = <<a2, a3, a4, a5>>
                              /\ <<a1, a2, a3, a4, a5>> # <<>>
  OBVIOUS
<1>2. \A a1, a2, a3, a4 : /\ Head(<<a1, a2, a3, a4>>) = a1 /\ Tail(<<a1, a2, a3, a4>>) = <<a2, a3, a4>>
                          /\ <<a1, a2, a3, a4>> # <<>>
  OBVIOUS
<1>3. \A a1, a2, a3 : Head(<<a1, a2, a3>>) = a1 /\ Tail(<<a1, a2, a3>>) = <<a2, a3>> /\ <<a1, a2, a3>> # <<>>
  OBVIOUS
<1>4. \A a1, a2 : Head(<<a1, a2>>) = a1 /\ Tail(<<a1, a2>>) = <<a2>> /\ <<a1, a2>> # <<>>
  OBVIOUS
<1>5. \A a1 : Head(<<a1>>) = a1 /\ Tail(<<a1>>) = <<>> /\ <<a1>> # <<>>
  OBVIOUS
<1> DEFINE o1 == Removal({1})
           o2 == Removal({2})
           o3 == Renaming(m, 1)
           o4 == Renaming(m - 1, 2)
           o5 == Removal((1..m) \ {1, 2})
<1>6. /\ Left(m, 5) = <<o1, o2, o3, o4, o5>> /\ Left(m, 4) = <<o2, o3, o4, o5>>
      /\ Left(m, 3) = <<o3, o4, o5>> /\ Left(m, 2) = <<o4, o5>> /\ Left(m, 1) = <<o5>>
  BY DEF Left
<1> HIDE DEF o1, o2, o3, o4, o5
<1>7. \A k \in 1..5 : k = 1 \/ k = 2 \/ k = 3 \/ k = 4 \/ k = 5
  OBVIOUS
<1>8. \A k \in 1..5 : Left(m, k) # <<>>
  <2>1. Left(m, 5) # <<>>
    BY <1>1, <1>6
  <2>2. Left(m, 4) # <<>>
    BY <1>2, <1>6
  <2>3. Left(m, 3) # <<>>
    BY <1>3, <1>6
  <2>4. Left(m, 2) # <<>>
    BY <1>4, <1>6
  <2>5. Left(m, 1) # <<>>
    BY <1>5, <1>6
  <2> QED
    BY <1>7, <2>1, <2>2, <2>3, <2>4, <2>5
<1>9. Head(Left(m, 5)) = o1 /\ Tail(Left(m, 5)) = Left(m, 4)
  <2>1. Head(<<o1, o2, o3, o4, o5>>) = o1 /\ Tail(<<o1, o2, o3, o4, o5>>) = <<o2, o3, o4, o5>>
    OBVIOUS
  <2> QED
    BY <1>6, <2>1
<1>10. Head(Left(m, 4)) = o2 /\ Tail(Left(m, 4)) = Left(m, 3)
  <2>1. Head(<<o2, o3, o4, o5>>) = o2 /\ Tail(<<o2, o3, o4, o5>>) = <<o3, o4, o5>>
    OBVIOUS
  <2> QED
    BY <1>6, <2>1
<1>11. Head(Left(m, 3)) = o3 /\ Tail(Left(m, 3)) = Left(m, 2)
  BY <1>3, <1>6
<1>12. Head(Left(m, 2)) = o4 /\ Tail(Left(m, 2)) = Left(m, 1)
  BY <1>4, <1>6
<1>13. Head(Left(m, 1)) = o5 /\ Tail(Left(m, 1)) = <<>>
  BY <1>5, <1>6
<1> QED
  BY <1>8, <1>9, <1>10, <1>11, <1>12, <1>13 DEF o1, o2, o3, o4, o5

\* The greatest number, of files without a gap.
LEMMA MaxIs ==
  ASSUME NEW m \in Nat, Numbers = 1..m
  PROVE  Max(Numbers \union {1}) = IF m = 0 THEN 1 ELSE m
<1> DEFINE S == Numbers \union {1}
           top == IF m = 0 THEN 1 ELSE m
<1>1. top \in S /\ S \subseteq Nat /\ top \in Nat
  OBVIOUS
<1>2. \A y \in S : top >= y
  OBVIOUS
<1>3. \A x \in S : (\A y \in S : x >= y) => x = top
  BY <1>1, <1>2
<1> HIDE DEF S, top
<1>4. Max(S) = top
  BY <1>1, <1>2, <1>3 DEF Max
<1> QED
  BY <1>4 DEF S, top

LEMMA WriteToIs ==
  ASSUME NEW r, NEW n, WriteTo(r, n)
  PROVE  /\ Numbers' = Numbers \union {n} /\ logged' = Append(logged, r)
         /\ r \in files'[n] /\ \A k \in Numbers : files[k] \subseteq files'[k]
<1>1. /\ files' = [k \in Numbers \union {n} |->
                     (IF k \in Numbers THEN files[k] ELSE {}) \union (IF k = n THEN {r} ELSE {})]
      /\ logged' = Append(logged, r)
  BY DEF WriteTo
<1>2. Numbers' = Numbers \union {n}
  BY <1>1 DEF Numbers
<1>3. \A k \in Numbers : files[k] \subseteq files'[k]
  BY <1>1
<1>4. r \in files'[n]
  BY <1>1
<1> QED
  BY <1>1, <1>2, <1>3, <1>4

\* A record that is written to the last file, or behind it.
LEMMA WriteKeeps ==
  ASSUME NEW r \in Writers, NEW m \in Nat, NEW n \in {m, m + 1}, n >= 1,
         logged \in Seq(Writers), Numbered(m), WriteTo(r, n)
  PROVE  logged' \in Seq(Writers) /\ Numbered(n)'
<1>1. /\ Numbers' = Numbers \union {n} /\ logged' = Append(logged, r)
      /\ r \in files'[n] /\ \A k \in Numbers : files[k] \subseteq files'[k]
  BY WriteToIs
<1>2. /\ Numbers = 1..m /\ (m = 0 => logged = <<>>)
      /\ \A i \in DOMAIN logged : i > Len(logged) - 2 => \E k \in Numbers : logged[i] \in files[k]
      /\ m >= 3 /\ logged # <<>> => logged[Len(logged)] \in files[m]
      /\ m >= 4 => LastTwo(files[m] \union files[m - 1])
  BY DEF Numbered, LastTwo
<1>3. n \in Nat /\ Numbers' = 1..n
  BY <1>1, <1>2
<1>4. /\ logged' \in Seq(Writers) /\ Len(logged) \in Nat /\ DOMAIN logged = 1..Len(logged)
      /\ Len(logged') = Len(logged) + 1 /\ DOMAIN logged' = 1..(Len(logged) + 1)
      /\ \A j \in DOMAIN logged : logged'[j] = logged[j]
      /\ logged'[Len(logged) + 1] = r
  BY <1>1, AppendIs
<1>5. \A i \in DOMAIN logged' : i > Len(logged') - 2 => (i = Len(logged) + 1 \/ (i = Len(logged) /\ i \in DOMAIN logged))
  BY <1>4
<1>6. logged # <<>> => Len(logged) \in DOMAIN logged
  OBVIOUS
<1>7. ASSUME NEW i \in DOMAIN logged', i > Len(logged') - 2
      PROVE  \E k \in Numbers' : logged'[i] \in files'[k]
  <2>1. CASE i = Len(logged) + 1
    BY <1>1, <1>4, <2>1
  <2>2. CASE i = Len(logged) /\ i \in DOMAIN logged
    <3>1. PICK k \in Numbers : logged[i] \in files[k]
      BY <1>2, <1>4, <2>2
    <3> QED
      BY <1>1, <1>4, <2>2, <3>1
  <2> QED
    BY <1>5, <1>7, <2>1, <2>2
<1>8. LastTwo(UNION {files[k] : k \in Numbers})'
  BY <1>7 DEF LastTwo
<1>9. logged'[Len(logged')] \in files'[n]
  BY <1>1, <1>4
<1>10. ASSUME n >= 4 PROVE LastTwo(files[n] \union files[n - 1])'
  <2> SUFFICES ASSUME NEW i \in DOMAIN logged', i > Len(logged') - 2
               PROVE  logged'[i] \in files'[n] \union files'[n - 1]
    BY DEF LastTwo
  <2>1. CASE i = Len(logged) + 1
    BY <1>1, <1>4, <2>1
  <2>2. CASE i = Len(logged) /\ i \in DOMAIN logged
    <3>1. m >= 3 /\ m \in Numbers /\ logged # <<>>
      BY <1>2, <1>10, <2>2
    <3>2. logged[i] \in files[m]
      BY <1>2, <2>2, <3>1
    <3>3. m = n \/ m = n - 1
      OBVIOUS
    <3> QED
      BY <1>1, <1>4, <2>2, <3>1, <3>2, <3>3
  <2> QED
    BY <1>5, <2>1, <2>2
<1>11. n # 0
  OBVIOUS
<1>12. Numbered(n)!1' /\ (n = 0 => logged' = <<>>)
  BY <1>3, <1>11
<1> QED
  BY <1>3, <1>4, <1>8, <1>9, <1>10, <1>11 DEF Numbered

\* What an operation of a rotation does to the files, and the rotation.
LEMMA RotateIs ==
  ASSUME LogTypes, NEW r \in Writers, Rotate(r)
  PROVE  LET do == Head(todo[r])
         IN /\ todo[r] # <<>> /\ InUse(r) /\ todo' = [todo EXCEPT ![r] = Tail(todo[r])]
            /\ do.op = "remove" => /\ Numbers' = Numbers \ do.from
                                   /\ \A n \in Numbers \ do.from : files'[n] = files[n]
                                   /\ UNCHANGED written
            /\ do.op = "rename" /\ do.from \subseteq Numbers =>
                 /\ Numbers' = (Numbers \ do.from) \union {do.to}
                 /\ \A n \in (Numbers \ do.from) \ {do.to} : files'[n] = files[n]
                 /\ files'[do.to] = UNION {files[k] : k \in do.from}
                 /\ UNCHANGED written
            /\ UNCHANGED <<saw, logged, crossed>>
<1> DEFINE do == Head(todo[r])
<1>1. /\ todo[r] # <<>> /\ InUse(r) /\ UNCHANGED <<saw, logged, crossed>> /\ todo' = [todo EXCEPT ![r] = Tail(@)]
      /\ files' = CASE do.op = "remove" -> [n \in Numbers \ do.from |-> files[n]]
                    [] Raises(do) -> files
                    [] OTHER -> [n \in (Numbers \ do.from) \union {do.to} |->
                                   IF n = do.to THEN UNION {files[k] : k \in do.from} ELSE files[n]]
      /\ written' = IF Raises(do) THEN written \union {r} ELSE written
  BY DEF Rotate
<1> HIDE DEF do
<1>2. todo' = [todo EXCEPT ![r] = Tail(todo[r])]
  BY <1>1
<1>3. ASSUME do.op = "remove"
      PROVE  Numbers' = Numbers \ do.from /\ (\A n \in Numbers \ do.from : files'[n] = files[n]) /\ UNCHANGED written
  <2>1. files' = [n \in Numbers \ do.from |-> files[n]] /\ ~Raises(do)
    BY <1>1, <1>3 DEF Raises
  <2> QED
    BY <1>1, <2>1 DEF Numbers
<1>4. ASSUME do.op = "rename", do.from \subseteq Numbers
      PROVE  /\ Numbers' = (Numbers \ do.from) \union {do.to}
             /\ \A n \in (Numbers \ do.from) \ {do.to} : files'[n] = files[n]
             /\ files'[do.to] = UNION {files[k] : k \in do.from}
             /\ UNCHANGED written
  <2>1. ~Raises(do) /\ do.op # "remove"
    BY <1>4 DEF Raises
  <2>2. files' = [n \in (Numbers \ do.from) \union {do.to} |->
                    IF n = do.to THEN UNION {files[k] : k \in do.from} ELSE files[n]]
    BY <1>1, <2>1
  <2> QED
    BY <1>1, <2>1, <2>2 DEF Numbers
<1> QED
  BY <1>1, <1>2, <1>3, <1>4 DEF do

LEMMA AloneStays ==
  ASSUME LogTypes, NEW r \in Writers, Alone(r), UNCHANGED <<saw, written>>, NEW v, todo' = [todo EXCEPT ![r] = v]
  PROVE  Alone(r)' /\ todo'[r] = v /\ todo' = [s \in Writers |-> todo'[s]]
<1>1. InUse(r) /\ \A s \in Writers \ {r} : ~InUse(s) /\ todo[s] = <<>>
  BY DEF Alone
<1>2. todo = [s \in Writers |-> todo[s]]
  BY DEF LogTypes
<1>3. todo'[r] = v /\ \A s \in Writers \ {r} : todo'[s] = todo[s]
  BY <1>2
<1>4. todo' = [s \in Writers |-> todo'[s]]
  BY <1>2
<1> QED
  BY <1>1, <1>3, <1>4 DEF Alone, InUse

\* The operations of a rotation that is alone.
LEMMA RotationKeeps ==
  ASSUME LogTypes, NEW r \in Writers, NEW m \in Nat, NEW k \in 1..5,
         Alone(r), todo[r] = Left(m, k), Rotating(m, k), Rotate(r)
  PROVE  /\ LogTypes'
         /\ \/ Calm' /\ Numbered(2)'
            \/ \E j \in 1..5 : Alone(r)' /\ todo'[r] = Left(m, j) /\ Rotating(m, j)'
<1> DEFINE do == Head(Left(m, k))
<1>1. /\ todo' = [todo EXCEPT ![r] = Tail(Left(m, k))]
      /\ do.op = "remove" => /\ Numbers' = Numbers \ do.from
                             /\ \A n \in Numbers \ do.from : files'[n] = files[n]
                             /\ UNCHANGED written
      /\ do.op = "rename" /\ do.from \subseteq Numbers =>
           /\ Numbers' = (Numbers \ do.from) \union {do.to}
           /\ \A n \in (Numbers \ do.from) \ {do.to} : files'[n] = files[n]
           /\ files'[do.to] = UNION {files[j] : j \in do.from}
           /\ UNCHANGED written
      /\ UNCHANGED <<saw, logged, crossed>>
  BY RotateIs
<1> HIDE DEF do
<1>2. m >= 4 /\ (k = 1 \/ k = 2 \/ k = 3 \/ k = 4 \/ k = 5)
  BY DEF Rotating
<1>3. UNCHANGED written => Alone(r)' /\ todo'[r] = Tail(Left(m, k)) /\ todo' = [s \in Writers |-> todo'[s]]
  BY <1>1, AloneStays
<1>4. ASSUME UNCHANGED written PROVE LogTypes'
  <2>1. todo' = [s \in Writers |-> todo'[s]] /\ Alone(r)
    BY <1>3, <1>4
  <2>2. \A s \in Writers \ {r} : todo'[s] = todo[s]
    BY <1>1 DEF LogTypes
  <2>3. saw[r] # 0
    BY DEF Alone, InUse
  <2> QED
    BY <1>1, <1>4, <2>1, <2>2, <2>3 DEF LogTypes
<1>5. \A S, T : S \subseteq T /\ LastTwo(S) => LastTwo(T)'
  BY <1>1 DEF LastTwo
<1>6. CASE k = 5
  <2>1. do = Removal({1}) /\ Tail(Left(m, k)) = Left(m, 4)
    BY <1>6, LeftIs DEF do
  <2>2. do.op = "remove" /\ do.from = {1}
    BY <2>1 DEF Removal
  <2>3. Numbers = 1..m /\ LastTwo(files[m] \union files[m - 1])
    BY <1>6 DEF Rotating
  <2>4. Numbers' = 2..m /\ files'[m] = files[m] /\ files'[m - 1] = files[m - 1]
    <3>1. Numbers' = Numbers \ {1} /\ \A n \in Numbers \ {1} : files'[n] = files[n]
      BY <1>1, <2>2
    <3>2. m \in (1..m) \ {1} /\ m - 1 \in (1..m) \ {1} /\ (1..m) \ {1} = 2..m
      BY <1>2
    <3> QED
      BY <2>3, <3>1, <3>2
  <2>5. LastTwo(files[m] \union files[m - 1])'
    BY <1>1, <2>3, <2>4 DEF LastTwo
  <2>6. Rotating(m, 4)'
    BY <1>2, <2>4, <2>5 DEF Rotating
  <2>9. \E j \in 1..5 : Alone(r)' /\ todo'[r] = Left(m, j) /\ Rotating(m, j)'
    <3> WITNESS 4 \in 1..5
    <3> QED
      BY <1>1, <1>3, <2>1, <2>2, <2>6
  <2> QED
    BY <1>1, <1>4, <2>2, <2>6, <2>9
<1>7. CASE k = 4
  <2>1. do = Removal({2}) /\ Tail(Left(m, k)) = Left(m, 3)
    BY <1>7, LeftIs DEF do
  <2>2. do.op = "remove" /\ do.from = {2}
    BY <2>1 DEF Removal
  <2>3. Numbers = 2..m /\ LastTwo(files[m] \union files[m - 1])
    BY <1>7 DEF Rotating
  <2>4. Numbers' = 3..m /\ files'[m] = files[m] /\ files'[m - 1] = files[m - 1]
    <3>1. Numbers' = Numbers \ {2} /\ \A n \in Numbers \ {2} : files'[n] = files[n]
      BY <1>1, <2>2
    <3>2. m \in (2..m) \ {2} /\ m - 1 \in (2..m) \ {2} /\ (2..m) \ {2} = 3..m
      BY <1>2
    <3> QED
      BY <2>3, <3>1, <3>2
  <2>5. LastTwo(files[m] \union files[m - 1])'
    BY <1>1, <2>3, <2>4 DEF LastTwo
  <2>6. Rotating(m, 3)'
    BY <1>2, <2>4, <2>5 DEF Rotating
  <2>9. \E j \in 1..5 : Alone(r)' /\ todo'[r] = Left(m, j) /\ Rotating(m, j)'
    <3> WITNESS 3 \in 1..5
    <3> QED
      BY <1>1, <1>3, <2>1, <2>2, <2>6
  <2> QED
    BY <1>1, <1>4, <2>2, <2>6, <2>9
<1>8. CASE k = 3
  <2>1. do = Renaming(m, 1) /\ Tail(Left(m, k)) = Left(m, 2)
    BY <1>8, LeftIs DEF do
  <2>2. do.op = "rename" /\ do.from = {m} /\ do.to = 1
    BY <2>1 DEF Renaming
  <2>3. Numbers = 3..m /\ LastTwo(files[m] \union files[m - 1])
    BY <1>8 DEF Rotating
  <2>4. do.from \subseteq Numbers
    BY <1>2, <2>2, <2>3
  <2>5. Numbers' = (Numbers \ {m}) \union {1} /\ files'[1] = files[m]
    <3>1. Numbers' = (Numbers \ {m}) \union {1} /\ files'[1] = UNION {files[j] : j \in {m}}
      BY <1>1, <2>2, <2>4
    <3> QED
      BY <3>1
  <2>6. Numbers' = {1} \union (3..(m - 1)) /\ files'[m - 1] = files[m - 1]
    BY <1>1, <1>2, <2>2, <2>3, <2>4, <2>5
  <2>7. LastTwo(files[1] \union files[m - 1])'
    BY <1>1, <2>3, <2>5, <2>6 DEF LastTwo
  <2>8. Rotating(m, 2)'
    BY <1>2, <2>6, <2>7 DEF Rotating
  <2>9. \E j \in 1..5 : Alone(r)' /\ todo'[r] = Left(m, j) /\ Rotating(m, j)'
    <3> WITNESS 2 \in 1..5
    <3> QED
      BY <1>1, <1>3, <2>1, <2>2, <2>4, <2>8
  <2> QED
    BY <1>1, <1>4, <2>2, <2>4, <2>8, <2>9
<1>9. CASE k = 2
  <2>1. do = Renaming(m - 1, 2) /\ Tail(Left(m, k)) = Left(m, 1)
    BY <1>9, LeftIs DEF do
  <2>2. do.op = "rename" /\ do.from = {m - 1} /\ do.to = 2
    BY <2>1 DEF Renaming
  <2>3. Numbers = {1} \union (3..(m - 1)) /\ LastTwo(files[1] \union files[m - 1])
    BY <1>9 DEF Rotating
  <2>4. do.from \subseteq Numbers
    BY <1>2, <2>2, <2>3
  <2>5. Numbers' = (Numbers \ {m - 1}) \union {2} /\ files'[2] = files[m - 1]
    <3>1. Numbers' = (Numbers \ {m - 1}) \union {2} /\ files'[2] = UNION {files[j] : j \in {m - 1}}
      BY <1>1, <2>2, <2>4
    <3> QED
      BY <3>1
  <2>6. Numbers' = {1, 2} \union (3..(m - 2)) /\ files'[1] = files[1]
    BY <1>1, <1>2, <2>2, <2>3, <2>4, <2>5
  <2>7. LastTwo(files[1] \union files[2])'
    BY <1>1, <2>3, <2>5, <2>6 DEF LastTwo
  <2>8. Rotating(m, 1)'
    BY <1>2, <2>6, <2>7 DEF Rotating
  <2>9. \E j \in 1..5 : Alone(r)' /\ todo'[r] = Left(m, j) /\ Rotating(m, j)'
    <3> WITNESS 1 \in 1..5
    <3> QED
      BY <1>1, <1>3, <2>1, <2>2, <2>4, <2>8
  <2> QED
    BY <1>1, <1>4, <2>2, <2>4, <2>8, <2>9
<1>10. CASE k = 1
  <2>1. do = Removal((1..m) \ {1, 2}) /\ Tail(Left(m, k)) = <<>>
    BY <1>10, LeftIs DEF do
  <2>2. do.op = "remove" /\ do.from = (1..m) \ {1, 2}
    BY <2>1 DEF Removal
  <2>3. Numbers = {1, 2} \union (3..(m - 2)) /\ LastTwo(files[1] \union files[2])
    BY <1>10 DEF Rotating
  <2>4. Numbers' = 1..2 /\ files'[1] = files[1] /\ files'[2] = files[2]
    BY <1>1, <1>2, <2>2, <2>3
  <2>5. LastTwo(UNION {files[n] : n \in Numbers})'
    BY <1>1, <2>3, <2>4 DEF LastTwo
  <2>6. Numbered(2)'
    BY <2>4, <2>5 DEF Numbered
  <2>7. Calm'
    BY <1>1, <1>3, <2>1, <2>2 DEF Calm, Alone
  <2> QED
    BY <1>1, <1>4, <1>10, <2>2, <2>6, <2>7
<1> QED
  BY <1>2, <1>6, <1>7, <1>8, <1>9, <1>10

LEMMA ListFilesInv == ASSUME LogInv, NEW r \in Writers, ListFiles(r) PROVE LogInv'
<1> DEFINE max == Max(Numbers \union {1})
           others == {s \in Writers \ {r} : InUse(s)}
           steps == IF max > 3 THEN Rotation(max) ELSE <<>>
           passed == IF max > 3 THEN others # {} ELSE \E s \in others : todo[s] # <<>>
<1>1. /\ saw[r] = 0 /\ saw' = [saw EXCEPT ![r] = max] /\ todo' = [todo EXCEPT ![r] = steps]
      /\ crossed' = (crossed \/ passed)
      /\ IF Numbers = {} THEN WriteTo(r, 1) ELSE UNCHANGED <<files, logged>>
      /\ UNCHANGED written
  BY DEF ListFiles
<1>2. passed \in BOOLEAN
  OBVIOUS
<1>3. max > 3 => steps = Rotation(max) /\ (~passed => others = {})
  OBVIOUS
<1>4. ~(max > 3) => steps = <<>> /\ (~passed => \A s \in others : todo[s] = <<>>)
  OBVIOUS
<1>5. \A s \in Writers \ {r} : InUse(s) => s \in others
  OBVIOUS
<1> HIDE DEF others, steps, passed
<1>6. crossed \in BOOLEAN
  BY DEF LogInv
<1>7. crossed' \in BOOLEAN /\ (~crossed' => ~crossed /\ ~passed)
  BY <1>1, <1>2, <1>6
<1>8. CASE crossed'
  BY <1>7, <1>8 DEF LogInv
<1>9. CASE ~crossed'
  <2>1. ~crossed /\ ~passed /\ LogTypes
    BY <1>7, <1>9 DEF LogInv
  <2>2. saw \in [Writers -> Nat] /\ todo = [s \in Writers |-> todo[s]] /\ r \notin written /\ todo[r] = <<>> /\ logged \in Seq(Writers)
    BY <1>1, <2>1 DEF LogTypes
  <2>3. PICK m \in Nat : Calm /\ Numbered(m)
    <3>1. ASSUME NEW s \in Writers, NEW j \in Nat, NEW k \in 1..5, Alone(s), todo[s] = Left(j, k) PROVE FALSE
      <4>1. todo[s] # <<>>
        BY <3>1, LeftIs
      <4>2. InUse(s) /\ s # r
        BY <1>1, <3>1 DEF Alone, InUse
      <4>3. s \in others
        BY <1>5, <4>2
      <4> QED
        BY <1>3, <1>4, <2>1, <4>1, <4>3
    <3> QED
      BY <2>1, <3>1 DEF LogInv
  <2>4. Numbers = 1..m /\ max = IF m = 0 THEN 1 ELSE m
    BY <2>3, MaxIs DEF Numbered
  <2> HIDE DEF max
  <2>5. max \in Nat \ {0} /\ (max > 3 <=> m >= 4) /\ (Numbers = {} <=> m = 0)
    BY <2>4
  <2>6. /\ saw' \in [Writers -> Nat] /\ saw'[r] = max /\ \A s \in Writers \ {r} : saw'[s] = saw[s] /\ todo'[s] = todo[s]
        /\ todo'[r] = steps /\ todo' = [s \in Writers |-> todo'[s]]
    BY <1>1, <2>2, <2>5
  <2>7. \A s \in Writers : saw'[s] = 0 => todo'[s] = <<>> /\ s \notin written'
    BY <1>1, <2>1, <2>5, <2>6 DEF LogTypes
  <2>8. CASE m >= 4
    <3>1. UNCHANGED <<files, logged>> /\ steps = Rotation(m) /\ others = {}
      BY <1>1, <1>3, <2>1, <2>4, <2>5, <2>8
    <3>2. Rotation(m) = Left(m, 5)
      BY <2>4 DEF Rotation, Left
    <3>3. Alone(r)'
      BY <1>1, <1>5, <2>2, <2>3, <2>5, <2>6, <3>1 DEF Alone, InUse, Calm
    <3>4. Rotating(m, 5)'
      BY <2>3, <2>4, <2>8, <3>1 DEF Rotating, Numbered, LastTwo, Numbers
    <3>5. LogTypes'
      BY <2>2, <2>6, <2>7, <3>1 DEF LogTypes
    <3>6. \E s \in Writers, j \in Nat, k \in 1..5 : Alone(s)' /\ todo'[s] = Left(j, k) /\ Rotating(j, k)'
      <4> WITNESS r \in Writers, m \in Nat, 5 \in 1..5
      <4> QED
        BY <2>6, <3>1, <3>2, <3>3, <3>4
    <3> QED
      BY <1>7, <3>5, <3>6 DEF LogInv
  <2>9. CASE m < 4
    <3>1. Calm'
      BY <1>4, <2>3, <2>5, <2>6, <2>9 DEF Calm
    <3>2. CASE m = 0
      <4>1. WriteTo(r, 1) /\ 1 \in {m, m + 1}
        BY <1>1, <2>5, <3>2
      <4>2. logged' \in Seq(Writers) /\ Numbered(1)'
        BY <2>2, <2>3, <4>1, WriteKeeps
      <4>3. LogTypes'
        BY <2>6, <2>7, <4>2 DEF LogTypes
      <4>4. \E j \in Nat : Numbered(j)'
        <5> WITNESS 1 \in Nat
        <5> QED
          BY <4>2
      <4> QED
        BY <1>7, <3>1, <4>3, <4>4 DEF LogInv
    <3>3. CASE m # 0
      <4>1. UNCHANGED <<files, logged>>
        BY <1>1, <2>5, <3>3
      <4>2. Numbered(m)'
        BY <2>3, <4>1 DEF Numbered, LastTwo, Numbers
      <4>3. LogTypes'
        BY <2>2, <2>6, <2>7, <4>1 DEF LogTypes
      <4>4. \E j \in Nat : Numbered(j)'
        <5> WITNESS m \in Nat
        <5> QED
          BY <4>2
      <4> QED
        BY <1>7, <3>1, <4>3, <4>4 DEF LogInv
    <3> QED
      BY <3>2, <3>3
  <2> QED
    BY <2>8, <2>9
<1> QED
  BY <1>8, <1>9

LEMMA WriteRecordInv == ASSUME LogInv, NEW r \in Writers, WriteRecord(r) PROVE LogInv'
<1> DEFINE max == saw[r]
           next == IF Cardinality(files[max]) >= Full THEN max + 1 ELSE max
           behind == \E n \in Numbers : n > max
<1>1. /\ InUse(r) /\ todo[r] = <<>> /\ crossed' = (crossed \/ behind) /\ written' = written \union {r} /\ UNCHANGED <<saw, todo>>
      /\ Numbers = {} => WriteTo(r, 1)
      /\ Numbers # {} /\ max \notin Numbers => UNCHANGED <<files, logged>>
      /\ Numbers # {} /\ max \in Numbers => WriteTo(r, next)
  BY DEF WriteRecord
<1>2. behind \in BOOLEAN /\ next \in {max, max + 1}
  OBVIOUS
<1>3. ~behind => \A n \in Numbers : ~(n > max)
  OBVIOUS
<1>4. crossed \in BOOLEAN
  BY DEF LogInv
<1> HIDE DEF next, behind
<1>5. crossed' \in BOOLEAN /\ (~crossed' => ~crossed /\ ~behind)
  BY <1>1, <1>2, <1>4
<1>6. CASE crossed'
  BY <1>5, <1>6 DEF LogInv
<1>7. CASE ~crossed'
  <2>1. ~crossed /\ ~behind /\ LogTypes
    BY <1>5, <1>7 DEF LogInv
  <2>2. PICK m \in Nat : Calm /\ Numbered(m)
    <3>1. ASSUME NEW s \in Writers, NEW j \in Nat, NEW k \in 1..5, Alone(s), todo[s] = Left(j, k) PROVE FALSE
      <4>1. todo[s] # <<>>
        BY <3>1, LeftIs
      <4> QED
        BY <1>1, <3>1, <4>1 DEF Alone
    <3> QED
      BY <2>1, <3>1 DEF LogInv
  <2>3. logged \in Seq(Writers) /\ saw \in [Writers -> Nat] /\ max \in Nat \ {0} /\ Numbers = 1..m
    BY <1>1, <2>1, <2>2 DEF LogTypes, InUse, Numbered
  <2>4. PICK j \in Nat : Numbered(j)' /\ logged' \in Seq(Writers)
    <3>1. CASE Numbers = {}
      <4>1. m = 0 /\ 1 \in {m, m + 1} /\ WriteTo(r, 1)
        BY <1>1, <2>3, <3>1
      <4>2. logged' \in Seq(Writers) /\ Numbered(1)'
        BY <2>2, <2>3, <4>1, WriteKeeps
      <4> WITNESS 1 \in Nat
      <4> QED
        BY <4>2
    <3>2. CASE Numbers # {} /\ max \notin Numbers
      <4>1. Numbered(m)' /\ logged' \in Seq(Writers)
        BY <1>1, <2>2, <2>3, <3>2 DEF Numbered, LastTwo, Numbers
      <4> WITNESS m \in Nat
      <4> QED
        BY <4>1
    <3>3. CASE Numbers # {} /\ max \in Numbers
      <4>1. max = m
        BY <1>3, <2>1, <2>3, <3>3
      <4>2. PICK n \in {m, m + 1} : n = next
        BY <1>2, <4>1
      <4>3. WriteTo(r, n) /\ n >= 1 /\ n \in Nat
        BY <1>1, <2>3, <3>3, <4>1, <4>2
      <4>4. logged' \in Seq(Writers) /\ Numbered(n)'
        BY <2>2, <2>3, <4>3, WriteKeeps
      <4> WITNESS n \in Nat
      <4> QED
        BY <4>4
    <3> QED
      BY <3>1, <3>2, <3>3
  <2>5. LogTypes'
    BY <1>1, <2>1, <2>3, <2>4 DEF LogTypes
  <2>6. Calm'
    BY <1>1, <2>2 DEF Calm
  <2> QED
    BY <1>5, <2>4, <2>5, <2>6 DEF LogInv
<1> QED
  BY <1>6, <1>7

LEMMA RotateInv == ASSUME LogInv, NEW r \in Writers, Rotate(r) PROVE LogInv'
<1>1. crossed' = crossed /\ crossed \in BOOLEAN
  BY DEF LogInv, Rotate
<1>2. CASE crossed
  BY <1>1, <1>2 DEF LogInv
<1>3. CASE ~crossed
  <2>1. LogTypes
    BY <1>3 DEF LogInv
  <2>2. todo[r] # <<>> /\ InUse(r)
    BY DEF Rotate
  <2>3. PICK s \in Writers, m \in Nat, k \in 1..5 : Alone(s) /\ todo[s] = Left(m, k) /\ Rotating(m, k)
    BY <1>3, <2>2 DEF LogInv, Calm
  <2>4. s = r
    BY <2>2, <2>3 DEF Alone
  <2>5. /\ LogTypes'
        /\ \/ Calm' /\ Numbered(2)'
           \/ \E j \in 1..5 : Alone(r)' /\ todo'[r] = Left(m, j) /\ Rotating(m, j)'
    BY <2>1, <2>3, <2>4, RotationKeeps
  <2>6. CASE Calm' /\ Numbered(2)'
    <3>1. \E j \in Nat : Numbered(j)'
      <4> WITNESS 2 \in Nat
      <4> QED
        BY <2>6
    <3> QED
      BY <1>1, <2>5, <2>6, <3>1 DEF LogInv
  <2>7. CASE \E j \in 1..5 : Alone(r)' /\ todo'[r] = Left(m, j) /\ Rotating(m, j)'
    <3>1. PICK j \in 1..5 : Alone(r)' /\ todo'[r] = Left(m, j) /\ Rotating(m, j)'
      BY <2>7
    <3>2. \E q \in Writers, n \in Nat, k2 \in 1..5 : Alone(q)' /\ todo'[q] = Left(n, k2) /\ Rotating(n, k2)'
      <4> WITNESS r \in Writers, m \in Nat, j \in 1..5
      <4> QED
        BY <3>1
    <3> QED
      BY <1>1, <2>5, <3>2 DEF LogInv
  <2> QED
    BY <2>5, <2>6, <2>7
<1> QED
  BY <1>2, <1>3

LEMMA LogInitInv == LogInit => LogInv
<1> SUFFICES ASSUME LogInit PROVE LogInv
  OBVIOUS
<1>1. PICK n \in 0..4 : files = [k \in 1..n |-> {OldRecord}]
  BY DEF LogInit
<1>2. /\ saw = [r \in Writers |-> 0] /\ todo = [r \in Writers |-> <<>>]
      /\ written = {} /\ logged = <<>> /\ crossed = FALSE
  BY DEF LogInit
<1>3. LogTypes /\ Calm
  BY <1>2 DEF LogTypes, Calm
<1>4. n \in Nat /\ Numbers = 1..n /\ DOMAIN logged = {}
  BY <1>1, <1>2 DEF Numbers
<1>5. Numbered(n)
  BY <1>2, <1>4 DEF Numbered, LastTwo
<1> QED
  BY <1>2, <1>3, <1>4, <1>5 DEF LogInv

LEMMA NewestFollow == LogInv => NewestSurvive
<1> SUFFICES ASSUME LogInv, ~crossed, NEW i \in DOMAIN logged, i > Len(logged) - 2
             PROVE  \E n \in Numbers : logged[i] \in files[n]
  BY DEF NewestSurvive
<1>1. CASE \E m \in Nat : Numbered(m)
  BY <1>1 DEF Numbered, LastTwo
<1>2. ASSUME NEW m \in Nat, NEW k \in 1..5, Rotating(m, k) PROVE \E n \in Numbers : logged[i] \in files[n]
  <2>1. m >= 4 /\ (k \in {5, 4, 3} \/ k = 2 \/ k = 1)
    BY <1>2 DEF Rotating
  <2>2. CASE k \in {5, 4, 3}
    <3>1. Numbers = (6 - k)..m /\ LastTwo(files[m] \union files[m - 1])
      BY <1>2, <2>2 DEF Rotating
    <3>2. m \in Numbers /\ m - 1 \in Numbers
      BY <2>1, <2>2, <3>1
    <3> QED
      BY <3>1, <3>2 DEF LastTwo
  <2>3. CASE k = 2
    <3>1. Numbers = {1} \union (3..(m - 1)) /\ LastTwo(files[1] \union files[m - 1])
      BY <1>2, <2>3 DEF Rotating
    <3>2. 1 \in Numbers /\ m - 1 \in Numbers
      BY <2>1, <3>1
    <3> QED
      BY <3>1, <3>2 DEF LastTwo
  <2>4. CASE k = 1
    <3>1. Numbers = {1, 2} \union (3..(m - 2)) /\ LastTwo(files[1] \union files[2])
      BY <1>2, <2>4 DEF Rotating
    <3> QED
      BY <3>1 DEF LastTwo
  <2> QED
    BY <2>1, <2>2, <2>3, <2>4
<1> QED
  BY <1>1, <1>2 DEF LogInv

\* The last two records are in the files as long as no rotation runs beside
\* another request, as NewestSurvive says.
THEOREM NewestAlwaysSurvive == Spec => []NewestSurvive
<1>1. Init => LogInv
  BY LogInitInv DEF Init
<1>2. ASSUME LogInv, [Next]_vars PROVE LogInv'
  <2>1. CASE UNCHANGED logVars
    <3>1. UNCHANGED <<files, saw, todo, written, logged, crossed>>
      BY <2>1 DEF logVars
    <3>2. Numbers' = Numbers /\ (LogTypes' <=> LogTypes) /\ (Calm' <=> Calm) /\ \A r : Alone(r)' <=> Alone(r)
      BY <3>1 DEF Numbers, LogTypes, Calm, Alone, InUse
    <3>3. \A m : Numbered(m)' <=> Numbered(m)
      BY <3>1, <3>2 DEF Numbered, LastTwo
    <3>4. \A m, k : Rotating(m, k)' <=> Rotating(m, k)
      BY <3>1, <3>2 DEF Rotating, LastTwo
    <3>5. \A m, k : Left(m, k)' = Left(m, k)
      BY DEF Left, Removal, Renaming
    <3> QED
      BY <1>2, <3>1, <3>2, <3>3, <3>4, <3>5 DEF LogInv
  <2>2. CASE LogNext
    BY <1>2, <2>2, ListFilesInv, RotateInv, WriteRecordInv DEF LogNext
  <2>3. UNCHANGED logVars \/ LogNext
    BY <1>2, EachPartSteps
  <2> QED
    BY <2>1, <2>2, <2>3
<1> QED
  BY <1>1, <1>2, NewestFollow, PTL DEF Spec

-----------------------------------------------------------------------------
(* The session of a browser.  While answers come in their order, a page that *)
(* does not show what the server keeps waits for a call that will tell it, or *)
(* for one whose answer makes it ask: each part below says so of one of the  *)
(* things that PageAgrees compares.                                          *)

Somebody == Users \union {NoUser}
Somewhere == Projects \union {NoProject}
PageTypes == [user : Somebody, imp : BOOLEAN, project : Somewhere, basis : Somebody \X Somewhere, header : Somewhere]
StoreTypes == [user : Somebody, imp : BOOLEAN, project : Somewhere, basis : Somebody \X Somewhere, header : Somewhere, asks : Nat]
AnswerTypes == [ok : BOOLEAN, user : Somebody, imp : BOOLEAN, basis : Somebody \X Somewhere, project : Somewhere]


LEMMA NowIs ==
  ASSUME page \in PageTypes
  PROVE  Now = [user |-> page.user, imp |-> page.imp, project |-> page.project, basis |-> page.basis,
                header |-> page.header, asks |-> 0]
<1>1. DOMAIN page \union {"asks"} = {"user", "imp", "project", "basis", "header", "asks"}
  BY DEF PageTypes
<1> QED
  BY <1>1 DEF Now

LEMMA ShownPageIs ==
  ASSUME page \in PageTypes, NEW pg \in StoreTypes
  PROVE  [f \in DOMAIN page |-> pg[f]]
           = [user |-> pg.user, imp |-> pg.imp, project |-> pg.project, basis |-> pg.basis, header |-> pg.header]
<1>1. DOMAIN page = {"user", "imp", "project", "basis", "header"}
  BY DEF PageTypes
<1> QED
  BY <1>1 DEF StoreTypes

LEMMA ResetIs ==
  ASSUME NEW pg \in StoreTypes, NEW keep \in BOOLEAN
  PROVE  ResetData(pg, keep)
           = [user |-> NoUser, imp |-> FALSE, project |-> IF keep THEN pg.project ELSE NoProject,
              basis |-> <<NoUser, NoProject>>, header |-> IF keep THEN pg.project ELSE pg.header,
              asks |-> IF keep THEN pg.asks + 1 ELSE pg.asks]
<1>1. DOMAIN pg = {"user", "imp", "project", "basis", "header", "asks"}
  BY DEF StoreTypes
<1> DEFINE reset == [f \in DOMAIN pg |-> IF f \in {"header", "asks"} THEN pg[f] ELSE Anonymous[f]]
<1>2. reset = [user |-> NoUser, imp |-> FALSE, project |-> NoProject,
              basis |-> <<NoUser, NoProject>>, header |-> pg.header, asks |-> pg.asks]
  <2> DEFINE names == {"user", "imp", "project", "basis", "header", "asks"}
             t == [user |-> NoUser, imp |-> FALSE, project |-> NoProject,
                   basis |-> <<NoUser, NoProject>>, header |-> pg.header, asks |-> pg.asks]
  <2>1. Anonymous["user"] = NoUser /\ Anonymous["imp"] = FALSE /\ Anonymous["project"] = NoProject
        /\ Anonymous["basis"] = <<NoUser, NoProject>>
    BY DEF Anonymous
  <2>2. reset = [f \in names |-> IF f \in {"header", "asks"} THEN pg[f] ELSE Anonymous[f]]
    BY <1>1
  <2>3. \A f \in names : t[f] = IF f \in {"header", "asks"} THEN pg[f] ELSE Anonymous[f]
    <3>1. t["user"] = NoUser /\ t["imp"] = FALSE /\ t["project"] = NoProject /\ t["basis"] = <<NoUser, NoProject>>
          /\ t["header"] = pg["header"] /\ t["asks"] = pg["asks"]
      OBVIOUS
    <3>2. \A f \in names : f \in {"user", "imp", "project", "basis"} \/ f \in {"header", "asks"}
      OBVIOUS
    <3>3. \A f \in {"user", "imp", "project", "basis"} : t[f] = Anonymous[f] /\ f \notin {"header", "asks"}
      BY <2>1, <3>1
    <3>4. \A f \in {"header", "asks"} : t[f] = pg[f]
      BY <3>1
    <3> HIDE DEF t
    <3> QED
      BY <3>2, <3>3, <3>4
  <2>4. t = [f \in names |-> t[f]]
    OBVIOUS
  <2> QED
    BY <2>2, <2>3, <2>4
<1>3. ResetData(pg, keep) = IF keep THEN SetSelectedProject(reset, pg.project) ELSE reset
  BY DEF ResetData
<1> HIDE DEF reset
<1> QED
  BY <1>2, <1>3 DEF SetSelectedProject

-----------------------------------------------------------------------------
(* The calls that wait for an answer, and their order.                       *)

Asking(c) == c.heard /\ c.kind = "profile"
UnheardFirst(s) == \A i, j \in DOMAIN s : i < j /\ s[i].heard => s[j].heard
InOrder(s) == \A i, j \in DOMAIN s : i < j /\ s[j].heard /\ s[j].served => s[i].served
SameHeader(s, h) ==
  \A i \in DOMAIN s : s[i].heard => s[i].header = h \/ \E j \in DOMAIN s : i < j /\ Asking(s[j])

LEMMA RestInOrder ==
  ASSUME NEW S, NEW s \in Seq(S), NEW t \in Seq(S), NEW i \in {0} \union DOMAIN s,
         \A j \in DOMAIN t : t[j].heard /\ ~t[j].served
  PROVE  /\ UnheardFirst(s) => UnheardFirst(RestAnd(s, i, t))
         /\ InOrder(s) => InOrder(RestAnd(s, i, t))
<1>0. PICK n, r : r = RestAnd(s, i, t) /\ IsRest(S, s, i, t, n, r)
  BY RestAndIs
<1>1. /\ r \in Seq(S) /\ n \in Nat /\ DOMAIN r = 1..(n + Len(t)) /\ DOMAIN t = 1..Len(t)
      /\ \A k \in 1..n : Before(i, k) \in DOMAIN s \ {i} /\ r[k] = s[Before(i, k)]
      /\ \A j \in 1..Len(t) : r[n + j] = t[j]
      /\ \A j \in DOMAIN s \ {i} : \E k \in 1..n : Before(i, k) = j
      /\ \A k, l \in 1..n : k < l <=> Before(i, k) < Before(i, l)
      /\ \A k \in DOMAIN r : k \in 1..n \/ (k > n /\ \E j \in DOMAIN t : k = n + j)
  <2>1. DOMAIN t = 1..Len(t)
    OBVIOUS
  <2> QED
    BY <1>0, <2>1 DEF IsRest
<1>2. \A k \in DOMAIN r : k \in 1..n \/ (k > n /\ r[k].heard /\ ~r[k].served)
  BY <1>1
<1>3. ASSUME UnheardFirst(s) PROVE UnheardFirst(r)
  <2> SUFFICES ASSUME NEW k \in DOMAIN r, NEW l \in DOMAIN r, k < l, r[k].heard PROVE r[l].heard
    BY DEF UnheardFirst
  <2>1. CASE l \in 1..n
    <3>1. k \in 1..n
      BY <1>1, <2>1
    <3> QED
      BY <1>1, <1>3, <2>1, <3>1 DEF UnheardFirst
  <2> QED
    BY <1>2, <2>1
<1>4. ASSUME InOrder(s) PROVE InOrder(r)
  <2> SUFFICES ASSUME NEW k \in DOMAIN r, NEW l \in DOMAIN r, k < l, r[l].heard, r[l].served PROVE r[k].served
    BY DEF InOrder
  <2>1. l \in 1..n
    BY <1>2
  <2>2. k \in 1..n
    BY <1>1, <2>1
  <2> QED
    BY <1>1, <1>4, <2>1, <2>2 DEF InOrder
<1> QED
  BY <1>0, <1>3, <1>4

\* No call that waits for an answer was sent before call i.
IsNext(s, i) == \A d \in DOMAIN s : d < i => ~s[d].heard

LEMMA RestHeader ==
  ASSUME NEW S, NEW s \in Seq(S), NEW t \in Seq(S), NEW i \in {0} \union DOMAIN s, NEW g,
         \A j \in DOMAIN t : t[j].header = g,
         (SameHeader(s, g) /\ (i = 0 \/ IsNext(s, i) \/ ~Asking(s[i]))) \/ (t # <<>> /\ \A j \in DOMAIN t : Asking(t[j]))
  PROVE  SameHeader(RestAnd(s, i, t), g)
<1>0. PICK n, r : r = RestAnd(s, i, t) /\ IsRest(S, s, i, t, n, r)
  BY RestAndIs
<1>1. /\ r \in Seq(S) /\ n \in Nat /\ DOMAIN r = 1..(n + Len(t)) /\ DOMAIN t = 1..Len(t)
      /\ \A k \in 1..n : Before(i, k) \in DOMAIN s \ {i} /\ r[k] = s[Before(i, k)]
      /\ \A j \in 1..Len(t) : r[n + j] = t[j]
      /\ \A j \in DOMAIN s \ {i} : \E k \in 1..n : Before(i, k) = j
      /\ \A k, l \in 1..n : k < l <=> Before(i, k) < Before(i, l)
      /\ \A k \in DOMAIN r : k \in 1..n \/ (k > n /\ \E j \in DOMAIN t : k = n + j)
  <2>1. DOMAIN t = 1..Len(t)
    OBVIOUS
  <2> QED
    BY <1>0, <2>1 DEF IsRest
<1>2. \A k \in DOMAIN r : k \in 1..n \/ (k > n /\ r[k].header = g)
  BY <1>1
<1> SUFFICES ASSUME NEW k \in DOMAIN r, r[k].heard PROVE r[k].header = g \/ \E l \in DOMAIN r : k < l /\ Asking(r[l])
  BY <1>0 DEF SameHeader
<1>3. CASE k \in 1..n
  <2>1. CASE SameHeader(s, g) /\ (i = 0 \/ IsNext(s, i) \/ ~Asking(s[i]))
    <3>1. Before(i, k) \in DOMAIN s \ {i} /\ r[k] = s[Before(i, k)]
      BY <1>1, <1>3
    <3>2. CASE s[Before(i, k)].header = g
      BY <3>1, <3>2
    <3>3. ASSUME NEW j \in DOMAIN s, Before(i, k) < j, Asking(s[j]) PROVE \E l \in DOMAIN r : k < l /\ Asking(r[l])
      <4>1. j # i
        <5>1. CASE i = 0
          BY <5>1
        <5>2. CASE IsNext(s, i)
          BY <3>1, <3>3, <5>2 DEF IsNext
        <5>3. CASE ~Asking(s[i])
          BY <3>3, <5>3
        <5> QED
          BY <2>1, <5>1, <5>2, <5>3
      <4>2. PICK l \in 1..n : Before(i, l) = j
        BY <1>1, <4>1
      <4>3. k < l /\ l \in DOMAIN r /\ r[l] = s[j]
        BY <1>1, <1>3, <3>3, <4>2
      <4> QED
        BY <3>3, <4>3
    <3> QED
      BY <2>1, <3>1, <3>2, <3>3 DEF SameHeader
  <2>2. CASE t # <<>> /\ \A j \in DOMAIN t : Asking(t[j])
    <3>1. 1 \in DOMAIN t /\ 1 \in 1..Len(t) /\ Len(t) \in Nat
      BY <2>2
    <3>2. n + 1 \in DOMAIN r /\ r[n + 1] = t[1] /\ k < n + 1
      BY <1>1, <1>3, <3>1
    <3> QED
      BY <2>2, <3>1, <3>2
  <2> QED
    BY <2>1, <2>2
<1> QED
  BY <1>2, <1>3

CallTypes ==
  [kind : {"profile", "login", "logout", "impersonate", "release"}, arg : Somebody,
   then : {"stay", "profile", "reload"}, header : Somewhere,
   served : BOOLEAN, heard : BOOLEAN, old : BOOLEAN, answer : AnswerTypes]

AnswerFits(c) ==
  /\ c.kind \in {"login", "impersonate"} => c.arg \in Users
  /\ c.kind = "profile" => c.then \in {"stay", "reload"}
  /\ c.old => c.served
  /\ ~c.served => c.answer = Unanswered
  /\ c.served /\ c.kind = "profile" =>
       IF c.answer.ok
       THEN /\ c.answer.user \in Users /\ c.answer.basis[1] = c.answer.user
            /\ c.header # NoProject => c.answer.basis[2] = c.header /\ c.answer.project = c.header
            /\ c.answer.project = NoProject => c.answer.basis[2] = NoProject
       ELSE c.answer = Unanswered

SentCalls == {c \in CallTypes : AnswerFits(c)}

PageFits(pg) ==
  /\ pg \in PageTypes
  /\ pg.user = NoUser => ~pg.imp /\ pg.project = NoProject
  /\ pg.user # NoUser => pg.header = pg.project /\ pg.basis[1] = pg.user

SessionTypes == [user : Somebody, hist : Seq(Users), project : Somewhere]
SessionFits(se) == se \in SessionTypes /\ (se.user = NoUser => se.hist = <<>>)

GoneServed(s, pg) == pg.user # NoUser => \A i \in DOMAIN s : s[i].heard \/ s[i].served
AsksFirst(s, un) ==
  ~un /\ (\E i \in DOMAIN s : ~s[i].heard /\ ~s[i].served) =>
    \E i \in DOMAIN s : Asking(s[i]) /\ ~s[i].served
RightHeader(s, pg) == pg.user # NoUser => SameHeader(s, pg.header)
RightBasis(s, pg) ==
  pg.user # NoUser => pg.basis = <<pg.user, pg.project>> \/ \E i \in DOMAIN s : Asking(s[i])
MayChoose(c) == Asking(c) /\ (~c.served \/ ~c.answer.ok \/ c.answer.project # NoProject)
RightProject(s, pg, se) ==
  pg.user # NoUser /\ pg.header = NoProject =>
    se.project = NoProject \/ \E i \in DOMAIN s : MayChoose(s[i])
Orderly(s, pg, se, un) ==
  /\ InOrder(s) /\ GoneServed(s, pg) /\ AsksFirst(s, un)
  /\ RightHeader(s, pg) /\ RightBasis(s, pg) /\ RightProject(s, pg, se)

WillAsk(c) ==
  /\ c.heard /\ c.served
  /\ c.kind \in {"logout", "impersonate"} \/ (c.kind \in {"login", "release"} /\ c.answer.ok)
Tells(a, se) ==
  IF a.ok THEN a.user = se.user /\ a.imp = (se.hist # <<>>) ELSE se.user = NoUser
LastTells(s, se) ==
  \E i \in DOMAIN s : /\ Asking(s[i]) /\ s[i].served /\ ~s[i].old /\ Tells(s[i].answer, se)
                      /\ \A j \in DOMAIN s : i < j => ~Asking(s[j])
RightUser(s, pg, se, un) ==
  \/ \E i \in DOMAIN s : Asking(s[i]) /\ ~s[i].served
  \/ \E i \in DOMAIN s : WillAsk(s[i])
  \/ LastTells(s, se)
  \/ /\ ~un /\ \A i \in DOMAIN s : ~Asking(s[i])
     /\ pg.user = se.user /\ pg.imp = (se.hist # <<>>)
  \/ un /\ \A i \in DOMAIN s : Asking(s[i]) /\ s[i].served => s[i].old

SessionParts(s, pg, se, un, ot) ==
  /\ PageFits(pg) /\ SessionFits(se) /\ s \in Seq(SentCalls)
  /\ un \in BOOLEAN /\ ot \in BOOLEAN
  /\ UnheardFirst(s)
  /\ ~ot => Orderly(s, pg, se, un) /\ RightUser(s, pg, se, un)

SessionInv == SessionParts(calls, page, session, unaware, overtaken) /\ last \in [Users -> Somewhere]

LEMMA SessionInvImplies == SessionInv => PageAgrees
<1> SUFFICES ASSUME SessionInv, Quiet, ~overtaken, ~unaware
             PROVE  /\ page.user = session.user /\ page.imp = (session.hist # <<>>)
                    /\ page.user # NoUser =>
                         /\ page.basis = <<page.user, page.project>>
                         /\ Selected([header |-> page.header]) = page.project
  BY DEF PageAgrees
<1>1. DOMAIN calls = {}
  BY DEF Quiet
<1>2. /\ PageFits(page) /\ RightUser(calls, page, session, unaware)
      /\ RightBasis(calls, page) /\ RightProject(calls, page, session)
  BY DEF SessionInv, SessionParts, Orderly
<1>3. page.user = session.user /\ page.imp = (session.hist # <<>>)
  BY <1>1, <1>2 DEF RightUser, LastTells
<1>4. ASSUME page.user # NoUser PROVE page.basis = <<page.user, page.project>>
  BY <1>1, <1>2, <1>4 DEF RightBasis
<1>5. ASSUME page.user # NoUser PROVE Selected([header |-> page.header]) = page.project
  <2>1. page.header = page.project
    BY <1>2, <1>5 DEF PageFits
  <2>2. page.header = NoProject => session.project = NoProject
    BY <1>1, <1>2, <1>5 DEF RightProject
  <2> QED
    BY <2>1, <2>2 DEF Selected
<1> QED
  BY <1>3, <1>4, <1>5

-----------------------------------------------------------------------------
(* The calls a page sends.                                                   *)
Unsent(c) == c.heard /\ ~c.served /\ ~c.old

LEMMA SentCallIs ==
  ASSUME NEW k \in {"profile", "login", "logout", "impersonate", "release"}, NEW arg \in Somebody,
         NEW then \in {"stay", "profile", "reload"}, NEW h \in Somewhere,
         k \in {"login", "impersonate"} => arg \in Users,
         k = "profile" => then \in {"stay", "reload"}
  PROVE  /\ Call(k, arg, then, h) \in SentCalls /\ Unsent(Call(k, arg, then, h))
         /\ Call(k, arg, then, h).header = h /\ Call(k, arg, then, h).kind = k
<1> DEFINE c == Call(k, arg, then, h)
<1>2. Unanswered \in AnswerTypes
  BY DEF Unanswered, AnswerTypes, Somebody, Somewhere
<1>3. /\ c.kind = k /\ c.arg = arg /\ c.then = then /\ c.header = h /\ c.served = FALSE /\ c.heard = TRUE
      /\ c.old = FALSE /\ c.answer = Unanswered
  BY DEF Call
<1>4. c \in CallTypes
  BY <1>2 DEF Call, CallTypes
<1> HIDE DEF c
<1>5. AnswerFits(c)
  BY <1>3 DEF AnswerFits
<1> QED
  BY <1>3, <1>4, <1>5 DEF SentCalls, Unsent, c

LEMMA ProfileIs ==
  ASSUME NEW then \in {"stay", "reload"}, NEW h \in Somewhere
  PROVE  /\ Profile(then, h) \in SentCalls /\ Unsent(Profile(then, h))
         /\ Profile(then, h).header = h /\ Asking(Profile(then, h))
<1>1. NoUser \in Somebody /\ "profile" \notin {"login", "impersonate"}
  BY DEF Somebody
<1>2. /\ Profile(then, h) \in SentCalls /\ Unsent(Profile(then, h))
      /\ Profile(then, h).header = h /\ Profile(then, h).kind = "profile"
  <2>1. Profile(then, h) = Call("profile", NoUser, then, h)
    BY DEF Profile
  <2> QED
    BY <1>1, <2>1, SentCallIs
<1> QED
  BY <1>2 DEF Asking, Unsent

\* The calls t are new, and ask for the profile with the header h.
AllAsk(t, h) == t # <<>> /\ \A j \in DOMAIN t : Asking(t[j]) /\ Unsent(t[j]) /\ t[j].header = h

\* The calls that the store sends for the profile.
AskedBy(pg, t) == (pg.asks = 0 => t = <<>>) /\ (pg.asks # 0 => AllAsk(t, pg.header))

LEMMA SentIs ==
  ASSUME NEW pg \in StoreTypes, NEW rest \in Seq(SentCalls)
  PROVE  \E t \in Seq(SentCalls) : Sent(pg, rest) = rest \o t /\ AskedBy(pg, t)
<1> DEFINE t == [i \in 1..pg.asks |-> Profile("stay", pg.header)]
<1>1. pg.asks \in Nat /\ pg.header \in Somewhere
  BY DEF StoreTypes
<1>2. \A i \in 1..pg.asks : t[i] \in SentCalls /\ Unsent(t[i]) /\ t[i].header = pg.header /\ Asking(t[i])
  BY <1>1, ProfileIs
<1>3. t \in Seq(SentCalls) /\ Len(t) = pg.asks /\ DOMAIN t = 1..pg.asks
  BY <1>1, <1>2
<1>4. Sent(pg, rest) = rest \o t
  BY DEF Sent
<1> HIDE DEF t
<1>5. pg.asks = 0 => t = <<>>
  BY <1>3
<1>6. pg.asks # 0 => AllAsk(t, pg.header)
  BY <1>1, <1>2, <1>3 DEF AllAsk
<1> QED
  BY <1>3, <1>4, <1>5, <1>6 DEF AskedBy

LEMMA AnonymousFits == PageFits(Anonymous)
<1>1. Anonymous \in PageTypes
  BY DEF Anonymous, PageTypes, Somebody, Somewhere
<1> QED
  BY <1>1 DEF Anonymous, PageFits

\* A new page waits for the profile it asks for first.
LEMMA FreshPage ==
  ASSUME NEW rest \in Seq(SentCalls), NEW se, SessionFits(se)
  PROVE  SessionParts(Reloaded(rest).calls, Anonymous, se, FALSE, FALSE)
<1> DEFINE left == [i \in DOMAIN rest |-> [rest[i] EXCEPT !.heard = FALSE]]
           c == Profile("stay", NoProject)
           s == Append(left, c)
<1>0. c \in SentCalls /\ Unsent(c) /\ Asking(c)
  BY ProfileIs DEF Somewhere
<1>1. ASSUME NEW i \in DOMAIN rest PROVE left[i] \in SentCalls /\ ~left[i].heard
  <2>1. PICK d : d = rest[i]
    OBVIOUS
  <2>2. d \in CallTypes /\ AnswerFits(d)
    BY <2>1 DEF SentCalls
  <2>3. PICK e : e = [d EXCEPT !.heard = FALSE]
    OBVIOUS
  <2>4. /\ e \in CallTypes /\ e.heard = FALSE /\ e.kind = d.kind /\ e.arg = d.arg /\ e.header = d.header
        /\ e.then = d.then /\ e.served = d.served /\ e.old = d.old /\ e.answer = d.answer
    BY <2>2, <2>3 DEF CallTypes
  <2>5. AnswerFits(e)
    BY <2>2, <2>4 DEF AnswerFits
  <2> QED
    BY <2>1, <2>3, <2>4, <2>5 DEF SentCalls
<1>2. left \in Seq(SentCalls)
  <2>1. DOMAIN left = 1..Len(rest) /\ Len(rest) \in Nat
    OBVIOUS
  <2> QED
    BY <1>1, <2>1
<1>3. \A i \in DOMAIN left : ~left[i].heard
  BY <1>1
<1> HIDE DEF left, c
<1>4. /\ s \in Seq(SentCalls) /\ Len(left) \in Nat /\ DOMAIN s = 1..(Len(left) + 1)
      /\ \A i \in 1..Len(left) : s[i] = left[i]
      /\ s[Len(left) + 1] = c
  BY <1>0, <1>2, AppendIs
<1>5. DOMAIN left = 1..Len(left)
  BY <1>2
<1> HIDE DEF s
<1>6. \A i \in DOMAIN s : s[i].heard => i = Len(left) + 1
  BY <1>3, <1>4, <1>5
<1>7. Len(left) + 1 \in DOMAIN s
  BY <1>4
<1>8. UnheardFirst(s)
  BY <1>4, <1>6 DEF UnheardFirst
<1>9. InOrder(s)
  BY <1>0, <1>4, <1>6 DEF InOrder, Unsent
<1>10. Anonymous.user = NoUser
  BY DEF Anonymous
<1>11. Asking(s[Len(left) + 1]) /\ ~s[Len(left) + 1].served
  BY <1>0, <1>4 DEF Unsent
<1>12. Orderly(s, Anonymous, se, FALSE)
  BY <1>7, <1>9, <1>10, <1>11 DEF Orderly, GoneServed, AsksFirst, RightHeader, RightBasis, RightProject
<1>13. RightUser(s, Anonymous, se, FALSE)
  BY <1>7, <1>11 DEF RightUser
<1>14. Reloaded(rest).calls = s
  BY DEF Reloaded, s, left, c
<1> QED
  BY <1>4, <1>8, <1>12, <1>13, <1>14, AnonymousFits DEF SessionParts

-----------------------------------------------------------------------------
LEMMA NowFits ==
  ASSUME page \in PageTypes
  PROVE  /\ Now \in StoreTypes /\ Now.asks = 0 /\ Now.user = page.user /\ Now.imp = page.imp
         /\ Now.project = page.project /\ Now.basis = page.basis /\ Now.header = page.header
<1>1. /\ page.user \in Somebody /\ page.imp \in BOOLEAN /\ page.project \in Somewhere
      /\ page.basis \in Somebody \X Somewhere /\ page.header \in Somewhere
  BY DEF PageTypes
<1> QED
  BY <1>1, NowIs DEF StoreTypes

LEMMA ResetFits ==
  ASSUME NEW pg \in StoreTypes, NEW keep \in BOOLEAN, NEW r, r = ResetData(pg, keep)
  PROVE  /\ r \in StoreTypes /\ r.user = NoUser /\ r.imp = FALSE
         /\ keep => r.project = pg.project /\ r.header = pg.project /\ r.asks = pg.asks + 1
         /\ ~keep => r.project = NoProject /\ r.header = pg.header /\ r.asks = pg.asks
<1>1. pg.project \in Somewhere /\ pg.header \in Somewhere /\ pg.asks \in Nat
  BY DEF StoreTypes
<1>2. NoUser \in Somebody /\ NoProject \in Somewhere
  BY DEF Somebody, Somewhere
<1>3. r = [user |-> NoUser, imp |-> FALSE, project |-> IF keep THEN pg.project ELSE NoProject,
           basis |-> <<NoUser, NoProject>>, header |-> IF keep THEN pg.project ELSE pg.header,
           asks |-> IF keep THEN pg.asks + 1 ELSE pg.asks]
  BY ResetIs
<1>4. r \in StoreTypes
  BY <1>1, <1>2, <1>3 DEF StoreTypes
<1> QED
  BY <1>3, <1>4

LEMMA SelectFits ==
  ASSUME NEW pg \in StoreTypes, NEW p \in Somewhere, NEW r, r = SetSelectedProject(pg, p)
  PROVE  /\ r \in StoreTypes /\ r.user = pg.user /\ r.imp = pg.imp /\ r.basis = pg.basis
         /\ r.project = p /\ r.header = p /\ r.asks = pg.asks + 1
<1>1. r = [user |-> pg.user, imp |-> pg.imp, project |-> p, basis |-> pg.basis, header |-> p, asks |-> pg.asks + 1]
  BY DEF SetSelectedProject, StoreTypes
<1>2. pg.asks + 1 \in Nat
  BY DEF StoreTypes
<1> QED
  BY <1>1, <1>2 DEF StoreTypes

LEMMA SetUserFits ==
  ASSUME NEW pg \in StoreTypes, NEW a \in AnswerTypes, NEW r, r = SetUserData(pg, a)
  PROVE  /\ r \in StoreTypes /\ r.user = a.user /\ r.imp = a.imp /\ r.basis = a.basis
         /\ IF pg.project = NoProject /\ a.project # NoProject
            THEN r.project = a.project /\ r.header = a.project /\ r.asks = pg.asks + 1
            ELSE r.project = pg.project /\ r.header = pg.header /\ r.asks = pg.asks
<1> DEFINE set == [pg EXCEPT !.user = a.user, !.imp = a.imp, !.basis = a.basis]
<1>1. a.project \in Somewhere
  BY DEF AnswerTypes
<1>2. /\ set \in StoreTypes /\ set.user = a.user /\ set.imp = a.imp /\ set.basis = a.basis
      /\ set.project = pg.project /\ set.header = pg.header /\ set.asks = pg.asks
  BY DEF AnswerTypes, StoreTypes
<1>3. r = IF set.project = NoProject /\ a.project # NoProject
          THEN SetSelectedProject(set, a.project) ELSE set
  BY DEF SetUserData
<1> HIDE DEF set
<1>4. CASE pg.project = NoProject /\ a.project # NoProject
  <2>1. r = SetSelectedProject(set, a.project)
    BY <1>2, <1>3, <1>4
  <2>2. /\ r \in StoreTypes /\ r.user = set.user /\ r.imp = set.imp /\ r.basis = set.basis
        /\ r.project = a.project /\ r.header = a.project /\ r.asks = set.asks + 1
    BY <1>1, <1>2, <2>1, SelectFits
  <2> QED
    BY <1>2, <1>4, <2>2
<1>5. CASE ~(pg.project = NoProject /\ a.project # NoProject)
  BY <1>2, <1>3, <1>5
<1> QED
  BY <1>4, <1>5

\* What the answer a makes of the page.
LEMMA CheckLoginFits ==
  ASSUME page \in PageTypes, NEW a \in AnswerTypes, NEW r, r = CheckLogin(Now, a)
  PROVE  /\ r \in StoreTypes
         /\ ~a.ok => /\ r.user = NoUser /\ r.imp = FALSE /\ r.project = NoProject
                     /\ r.header = page.header /\ r.asks = 0
         /\ a.ok => /\ r.user = a.user /\ r.imp = a.imp /\ r.basis = a.basis
                    /\ page.header = page.project \/ page.user # a.user => r.header = r.project
                    /\ r.asks = 0 =>
                         /\ page.user = a.user /\ r.project = page.project /\ r.header = page.header
                         /\ page.project = NoProject => a.project = NoProject
<1>1. /\ Now \in StoreTypes /\ Now.asks = 0 /\ Now.user = page.user /\ Now.imp = page.imp
      /\ Now.project = page.project /\ Now.basis = page.basis /\ Now.header = page.header
  BY NowFits
<1>2. CASE ~a.ok
  <2>1. r = ResetData(Now, FALSE)
    BY <1>2 DEF CheckLogin
  <2> QED
    BY <1>1, <1>2, <2>1, ResetFits
<1>3. CASE a.ok
  <2>1. PICK w : w = IF Now.user # a.user THEN ResetData(Now, TRUE) ELSE Now
    OBVIOUS
  <2>2. r = SetUserData(w, a)
    BY <1>3, <2>1 DEF CheckLogin
  <2>3. CASE page.user = a.user
    <3>1. w = Now
      BY <1>1, <2>1, <2>3
    <3>2. /\ r \in StoreTypes /\ r.user = a.user /\ r.imp = a.imp /\ r.basis = a.basis
          /\ IF Now.project = NoProject /\ a.project # NoProject
             THEN r.project = a.project /\ r.header = a.project /\ r.asks = Now.asks + 1
             ELSE r.project = Now.project /\ r.header = Now.header /\ r.asks = Now.asks
      BY <1>1, <2>2, <3>1, SetUserFits
    <3>3. CASE page.project = NoProject /\ a.project # NoProject
      <4>1. r.project = a.project /\ r.header = a.project /\ r.asks = 1
        BY <1>1, <3>2, <3>3
      <4> QED
        BY <1>3, <3>2, <4>1
    <3>4. CASE ~(page.project = NoProject /\ a.project # NoProject)
      <4>1. r.project = page.project /\ r.header = page.header
        BY <1>1, <3>2, <3>4
      <4> QED
        BY <1>3, <2>3, <3>2, <3>4, <4>1
    <3> QED
      BY <3>3, <3>4
  <2>4. CASE page.user # a.user
    <3>1. w = ResetData(Now, TRUE)
      BY <1>1, <2>1, <2>4
    <3>2. w \in StoreTypes /\ w.project = page.project /\ w.header = page.project /\ w.asks = 1
      <4>1. /\ w \in StoreTypes /\ w.project = Now.project /\ w.header = Now.project
            /\ w.asks = Now.asks + 1
        BY <1>1, <3>1, ResetFits
      <4> QED
        BY <1>1, <4>1
    <3>3. /\ r \in StoreTypes /\ r.user = a.user /\ r.imp = a.imp /\ r.basis = a.basis
          /\ IF w.project = NoProject /\ a.project # NoProject
             THEN r.project = a.project /\ r.header = a.project /\ r.asks = w.asks + 1
             ELSE r.project = w.project /\ r.header = w.header /\ r.asks = w.asks
      BY <2>2, <3>2, SetUserFits
    <3>4. r.asks # 0 /\ r.header = r.project
      BY <3>2, <3>3
    <3> QED
      BY <1>3, <3>3, <3>4
  <2> QED
    BY <2>3, <2>4
<1> QED
  BY <1>2, <1>3

\* New calls, with the header h.
AllNew(t, h) == \A j \in DOMAIN t : Unsent(t[j]) /\ t[j].header = h

\* Nobody who is heard asked before call i, or i asks for no profile.
MayGo(s, i) == i = 0 \/ IsNext(s, i) \/ ~Asking(s[i])

LEMMA HeaderStays ==
  ASSUME NEW s \in Seq(SentCalls), NEW t \in Seq(SentCalls), NEW i \in {0} \union DOMAIN s, NEW pg, NEW q,
         RightHeader(s, pg), AllNew(t, q.header),
         q.user # NoUser => \/ AllAsk(t, q.header)
                            \/ pg.user # NoUser /\ q.header = pg.header /\ MayGo(s, i)
  PROVE  RightHeader(RestAnd(s, i, t), q)
<1> SUFFICES ASSUME q.user # NoUser PROVE SameHeader(RestAnd(s, i, t), q.header)
  BY DEF RightHeader
<1>1. \A j \in DOMAIN t : t[j].header = q.header
  BY DEF AllNew
<1>2. CASE AllAsk(t, q.header)
  BY <1>1, <1>2, RestHeader DEF AllAsk
<1>3. CASE pg.user # NoUser /\ q.header = pg.header /\ MayGo(s, i)
  <2>1. SameHeader(s, q.header) /\ (i = 0 \/ IsNext(s, i) \/ ~Asking(s[i]))
    BY <1>3 DEF RightHeader, MayGo
  <2> QED
    BY <1>1, <2>1, RestHeader
<1> QED
  BY <1>2, <1>3

LEMMA OrderStays ==
  ASSUME NEW s \in Seq(SentCalls), NEW t \in Seq(SentCalls), NEW i \in {0} \union DOMAIN s, NEW h, AllNew(t, h)
  PROVE  /\ UnheardFirst(s) => UnheardFirst(RestAnd(s, i, t))
         /\ InOrder(s) => InOrder(RestAnd(s, i, t))
<1>1. \A j \in DOMAIN t : t[j].heard /\ ~t[j].served
  BY DEF AllNew, Unsent
<1> QED
  BY <1>1, RestInOrder

(* A handler that asks for the profile.                                      *)
LEMMA AskedStep ==
  ASSUME NEW s \in Seq(SentCalls), NEW t \in Seq(SentCalls), NEW i \in {0} \union DOMAIN s,
         NEW pg, NEW q, NEW se, NEW un,
         InOrder(s), UnheardFirst(s), GoneServed(s, pg), RightHeader(s, pg), AllAsk(t, q.header),
         q.user # NoUser => pg.user # NoUser \/ (i # 0 /\ s[i].heard /\ s[i].served)
  PROVE  Orderly(RestAnd(s, i, t), q, se, un) /\ RightUser(RestAnd(s, i, t), q, se, un)
<1> DEFINE r == RestAnd(s, i, t)
<1>1. AreLeft(s, i, t, r)
  BY RestAreLeft
<1>2. AllNew(t, q.header) /\ \A j \in DOMAIN t : Asking(t[j]) /\ t[j].heard /\ ~t[j].served
  BY DEF AllAsk, AllNew, Unsent
<1>3. InOrder(r) /\ RightHeader(r, q)
  <2>1. InOrder(r)
    BY <1>2, OrderStays
  <2>2. RightHeader(r, q)
    BY <1>2, HeaderStays
  <2> QED
    BY <2>1, <2>2
<1> HIDE DEF r
<1>4. PICK k \in DOMAIN r : Asking(r[k]) /\ ~r[k].served
  <2>1. 1 \in DOMAIN t
    BY DEF AllAsk
  <2> QED
    BY <1>1, <1>2, <2>1 DEF AreLeft
<1>5. GoneServed(r, q)
  <2> SUFFICES ASSUME q.user # NoUser, NEW l \in DOMAIN r PROVE r[l].heard \/ r[l].served
    BY DEF GoneServed
  <2>1. CASE \E j \in DOMAIN t : r[l] = t[j]
    BY <1>2, <2>1
  <2>2. ASSUME NEW j \in DOMAIN s, j # i, r[l] = s[j] PROVE s[j].heard \/ s[j].served
    <3>1. CASE pg.user # NoUser
      BY <3>1 DEF GoneServed
    <3>2. CASE i # 0 /\ s[i].heard /\ s[i].served
      <4>1. i \in DOMAIN s /\ (j < i \/ i < j)
        BY <2>2, <3>2
      <4> QED
        BY <3>2, <4>1 DEF InOrder, UnheardFirst
    <3> QED
      BY <3>1, <3>2
  <2> QED
    BY <1>1, <2>1, <2>2 DEF AreLeft
<1>6. AsksFirst(r, un) /\ RightBasis(r, q) /\ RightProject(r, q, se) /\ RightUser(r, q, se, un)
  BY <1>4 DEF AsksFirst, RightBasis, RightProject, MayChoose, RightUser
<1> QED
  BY <1>3, <1>5, <1>6 DEF Orderly, r

(* A handler that leaves what the page shows.                                *)
LEMMA PlainStep ==
  ASSUME NEW s \in Seq(SentCalls), NEW t \in Seq(SentCalls), NEW i \in {0} \union DOMAIN s,
         NEW pg, NEW q, NEW se, NEW un,
         Orderly(s, pg, se, un), RightUser(s, pg, se, un), AllNew(t, q.header),
         i # 0 => ~Asking(s[i]) /\ ~WillAsk(s[i]),
         q.user = pg.user, q.imp = pg.imp, q.project = pg.project, q.header = pg.header,
         q.user # NoUser => q.basis = pg.basis
  PROVE  Orderly(RestAnd(s, i, t), q, se, un) /\ RightUser(RestAnd(s, i, t), q, se, un)
<1>0. PICK n, r : r = RestAnd(s, i, t) /\ IsRest(SentCalls, s, i, t, n, r)
  BY RestAndIs
<1>1. AreLeft(s, i, t, r)
  BY <1>0, RestAreLeft
<1>2. \A j \in DOMAIN t : t[j].heard /\ ~t[j].served
  BY DEF AllNew, Unsent
<1>3. MayGo(s, i)
  BY DEF MayGo
<1>4. InOrder(r)
  BY <1>0, OrderStays DEF Orderly
<1>5. RightHeader(r, q)
  BY <1>0, <1>3, HeaderStays DEF Orderly
<1>6. GoneServed(r, q)
  BY <1>1, <1>2 DEF Orderly, GoneServed, AreLeft
<1>7. \A j \in DOMAIN s : Asking(s[j]) \/ WillAsk(s[j]) => \E k \in DOMAIN r : r[k] = s[j]
  BY <1>1 DEF AreLeft
<1>8. AsksFirst(r, un)
  <2> SUFFICES ASSUME ~un, NEW k \in DOMAIN r, ~r[k].heard, ~r[k].served
               PROVE  \E l \in DOMAIN r : Asking(r[l]) /\ ~r[l].served
    BY DEF AsksFirst
  <2>1. PICK j \in DOMAIN s : r[k] = s[j]
    BY <1>1, <1>2 DEF AreLeft
  <2>2. PICK l \in DOMAIN s : Asking(s[l]) /\ ~s[l].served
    BY <2>1 DEF Orderly, AsksFirst
  <2> QED
    BY <1>7, <2>2
<1>9. RightBasis(r, q)
  BY <1>7 DEF Orderly, RightBasis
<1>10. RightProject(r, q, se)
  <2> SUFFICES ASSUME q.user # NoUser, q.header = NoProject, se.project # NoProject
               PROVE  \E k \in DOMAIN r : MayChoose(r[k])
    BY DEF RightProject
  <2>1. PICK j \in DOMAIN s : MayChoose(s[j])
    BY DEF Orderly, RightProject
  <2>2. Asking(s[j])
    BY <2>1 DEF MayChoose
  <2> QED
    BY <1>7, <2>1, <2>2
<1>11. RightUser(r, q, se, un)
  <2>1. CASE \E j \in DOMAIN t : Asking(t[j])
    BY <1>1, <1>2, <2>1 DEF AreLeft, RightUser
  <2>2. CASE \A j \in DOMAIN t : ~Asking(t[j])
    <3>1. CASE \E j \in DOMAIN s : (Asking(s[j]) /\ ~s[j].served) \/ WillAsk(s[j])
      BY <1>7, <3>1 DEF RightUser
    <3>2. ASSUME LastTells(s, se) PROVE LastTells(r, se)
      <4>1. PICK j \in DOMAIN s : /\ Asking(s[j]) /\ s[j].served /\ ~s[j].old /\ Tells(s[j].answer, se)
                                  /\ \A m \in DOMAIN s : j < m => ~Asking(s[m])
        BY <3>2 DEF LastTells
      <4>2. j # i
        BY <4>1
      <4>3. PICK k \in 1..n : Before(i, k) = j
        BY <1>0, <4>2 DEF IsRest
      <4>4. k \in DOMAIN r /\ r[k] = s[j] /\ n \in Nat
        BY <1>0, <4>3 DEF IsRest
      <4>5. ASSUME NEW l \in DOMAIN r, k < l PROVE ~Asking(r[l])
        <5>1. CASE l \in 1..n
          <6>1. j < Before(i, l) /\ Before(i, l) \in DOMAIN s /\ r[l] = s[Before(i, l)]
            BY <1>0, <4>3, <4>5, <5>1 DEF IsRest
          <6> QED
            BY <4>1, <6>1
        <5>2. CASE l > n /\ \E m \in DOMAIN t : l = n + m
          <6>1. \E m \in DOMAIN t : r[l] = t[m]
            <7>1. DOMAIN t = 1..Len(t)
              OBVIOUS
            <7> QED
              BY <1>0, <5>2, <7>1 DEF IsRest
          <6> QED
            BY <2>2, <6>1
        <5> QED
          BY <1>0, <5>1, <5>2 DEF IsRest
      <4> QED
        BY <4>1, <4>4, <4>5 DEF LastTells
    <3>3. CASE (\A j \in DOMAIN s : ~Asking(s[j])) /\ ~un
               /\ pg.user = se.user /\ pg.imp = (se.hist # <<>>)
      <4>1. \A k \in DOMAIN r : ~Asking(r[k])
        BY <1>1, <2>2, <3>3 DEF AreLeft
      <4> QED
        BY <3>3, <4>1 DEF RightUser
    <3>4. CASE un /\ \A j \in DOMAIN s : Asking(s[j]) /\ s[j].served => s[j].old
      <4>1. \A k \in DOMAIN r : Asking(r[k]) /\ r[k].served => r[k].old
        BY <1>1, <1>2, <3>4 DEF AreLeft
      <4> QED
        BY <3>4, <4>1 DEF RightUser
    <3> QED
      BY <3>1, <3>2, <3>3, <3>4 DEF RightUser
  <2> QED
    BY <2>1, <2>2
<1> QED
  BY <1>0, <1>4, <1>5, <1>6, <1>8, <1>9, <1>10, <1>11 DEF Orderly

(* The answer of the oldest profile call, which the page knew already but    *)
(* for the permissions.                                                      *)
LEMMA ToldStep ==
  ASSUME NEW s \in Seq(SentCalls), NEW i \in DOMAIN s, NEW pg, NEW q, NEW se, NEW un, NEW a, a = s[i].answer,
         PageFits(pg), PageFits(q), SessionFits(se),
         UnheardFirst(s), Orderly(s, pg, se, un), RightUser(s, pg, se, un),
         IsNext(s, i), Asking(s[i]), s[i].served,
         ~a.ok => q.user = NoUser /\ q.imp = FALSE,
         a.ok => /\ q.user = a.user /\ q.imp = a.imp /\ q.basis = a.basis /\ pg.user = a.user
                 /\ q.project = pg.project /\ q.header = pg.header
                 /\ pg.project = NoProject => a.project = NoProject,
         NEW v, v = (un /\ ~(a.ok /\ ~s[i].old))
  PROVE  Orderly(RestAnd(s, i, <<>>), q, se, v) /\ RightUser(RestAnd(s, i, <<>>), q, se, v)
<1> DEFINE none == <<>>
<1>n. none \in Seq(SentCalls) /\ Len(none) = 0 /\ DOMAIN none = {}
  OBVIOUS
<1> HIDE DEF none
<1>0. PICK r : r = RestAnd(s, i, none)
  OBVIOUS
<1>1. (\A k \in DOMAIN r : \E j \in DOMAIN s : j # i /\ r[k] = s[j])
      /\ (\A j \in DOMAIN s : j # i => \E k \in DOMAIN r : r[k] = s[j])
  <2>1. AreLeft(s, i, none, r)
    BY <1>0, <1>n, RestAreLeft
  <2> QED
    BY <1>n, <2>1 DEF AreLeft
<1>2. s[i] \in CallTypes /\ AnswerFits(s[i])
  BY DEF SentCalls
<1>3. InOrder(r)
  <2>1. AllNew(none, q.header)
    BY <1>n DEF AllNew
  <2> QED
    BY <1>0, <1>n, <2>1, OrderStays DEF Orderly
<1>4. q.user # NoUser => a.ok /\ pg.user # NoUser /\ q.header = pg.header /\ q.project = pg.project
                          /\ q.basis = a.basis /\ a.user = q.user
  OBVIOUS
<1>5. RightHeader(r, q)
  <2>1. AllNew(none, q.header) /\ MayGo(s, i)
    BY <1>n DEF AllNew, MayGo
  <2> QED
    BY <1>0, <1>n, <1>4, <2>1, HeaderStays DEF Orderly
<1>6. ASSUME NEW j \in DOMAIN s PROVE s[j].heard \/ s[j].served
  <2>1. j < i => s[j].served
    BY DEF Orderly, InOrder, Asking
  <2>2. i < j => s[j].heard
    BY DEF UnheardFirst, Asking
  <2> QED
    BY <2>1, <2>2 DEF Asking
<1>7. GoneServed(r, q) /\ AsksFirst(r, v)
  BY <1>1, <1>6 DEF GoneServed, AsksFirst
<1>8. RightBasis(r, q)
  <2> SUFFICES ASSUME q.user # NoUser, \A k \in DOMAIN r : ~Asking(r[k])
               PROVE  q.basis = <<q.user, q.project>>
    BY DEF RightBasis
  <2>1. s[i].header = pg.header
    <3>1. ~\E j \in DOMAIN s : i < j /\ Asking(s[j])
      BY <1>1
    <3> QED
      BY <1>4, <3>1 DEF Orderly, RightHeader, SameHeader, Asking
  <2>2. a.basis \in Somebody \X Somewhere
    BY <1>2 DEF CallTypes, AnswerTypes
  <2>3. a.basis[1] = a.user /\ (s[i].header # NoProject => a.basis[2] = s[i].header)
        /\ (a.project = NoProject => a.basis[2] = NoProject)
    BY <1>2, <1>4 DEF AnswerFits, Asking
  <2>4. pg.header = pg.project
    BY <1>4 DEF PageFits
  <2>5. a.basis[2] = q.project
    BY <1>4, <2>1, <2>3, <2>4
  <2> QED
    BY <1>4, <2>2, <2>3, <2>5
<1>9. RightProject(r, q, se)
  <2> SUFFICES ASSUME q.user # NoUser, q.header = NoProject, se.project # NoProject
               PROVE  \E k \in DOMAIN r : MayChoose(r[k])
    BY DEF RightProject
  <2>1. PICK j \in DOMAIN s : MayChoose(s[j])
    BY <1>4 DEF Orderly, RightProject
  <2>2. j # i
    <3>1. pg.project = NoProject
      BY <1>4 DEF PageFits
    <3> QED
      BY <1>4, <2>1, <3>1 DEF MayChoose
  <2> QED
    BY <1>1, <2>1, <2>2
<1>10. RightUser(r, q, se, v)
  <2>1. CASE \E j \in DOMAIN s : (Asking(s[j]) /\ ~s[j].served) \/ WillAsk(s[j])
    <3>1. PICK j \in DOMAIN s : (Asking(s[j]) /\ ~s[j].served) \/ WillAsk(s[j])
      BY <2>1
    <3>2. j # i
      BY <3>1 DEF Asking, WillAsk
    <3> QED
      BY <1>1, <3>1, <3>2 DEF RightUser
  <2>2. ASSUME LastTells(s, se) PROVE RightUser(r, q, se, v)
    <3>1. PICK j \in DOMAIN s : /\ Asking(s[j]) /\ s[j].served /\ ~s[j].old /\ Tells(s[j].answer, se)
                                /\ \A m \in DOMAIN s : j < m => ~Asking(s[m])
      BY <2>2 DEF LastTells
    <3>2. CASE j # i
      <4>0. PICK n, w : w = RestAnd(s, i, none) /\ IsRest(SentCalls, s, i, none, n, w)
        BY <1>n, RestAndIs
      <4>1. PICK k \in 1..n : Before(i, k) = j
        BY <3>2, <4>0 DEF IsRest
      <4>2. k \in DOMAIN r /\ r[k] = s[j] /\ n \in Nat /\ DOMAIN r = 1..n
        BY <1>0, <1>n, <4>0, <4>1 DEF IsRest
      <4>3. ASSUME NEW l \in DOMAIN r, k < l PROVE ~Asking(r[l])
        <5>1. j < Before(i, l) /\ Before(i, l) \in DOMAIN s /\ r[l] = s[Before(i, l)]
          BY <1>0, <4>0, <4>1, <4>2, <4>3 DEF IsRest
        <5> QED
          BY <3>1, <5>1
      <4>4. LastTells(r, se)
        BY <3>1, <4>2, <4>3 DEF LastTells
      <4> QED
        BY <4>4 DEF RightUser
    <3>3. CASE j = i
      <4>1. \A m \in DOMAIN s : m # i => ~Asking(s[m])
        BY <3>1, <3>3 DEF IsNext, Asking
      <4>2. \A k \in DOMAIN r : ~Asking(r[k])
        BY <1>1, <4>1
      <4>3. Tells(a, se) /\ ~s[i].old
        BY <3>1, <3>3
      <4>4. CASE a.ok
        <5>1. ~v /\ q.user = se.user /\ q.imp = (se.hist # <<>>)
          BY <4>3, <4>4 DEF Tells
        <5> QED
          BY <4>2, <5>1 DEF RightUser
      <4>5. CASE ~a.ok
        <5>1. q.user = se.user /\ q.imp = (se.hist # <<>>)
          BY <4>3, <4>5 DEF Tells, SessionFits
        <5> QED
          BY <4>2, <5>1 DEF RightUser
      <4> QED
        BY <4>4, <4>5
    <3> QED
      BY <3>2, <3>3
  <2>3. CASE un /\ \A j \in DOMAIN s : Asking(s[j]) /\ s[j].served => s[j].old
    <3>1. v /\ \A k \in DOMAIN r : Asking(r[k]) /\ r[k].served => r[k].old
      BY <1>1, <2>3
    <3> QED
      BY <3>1 DEF RightUser
  <2>4. ~\A j \in DOMAIN s : ~Asking(s[j])
    OBVIOUS
  <2> QED
    BY <2>1, <2>2, <2>3, <2>4 DEF RightUser
<1> QED
  BY <1>0, <1>3, <1>5, <1>7, <1>8, <1>9, <1>10 DEF Orderly, none

(* A call that is lost, with the answers on their way out of date.           *)
LEMMA LostStep ==
  ASSUME NEW s \in Seq(SentCalls), NEW t \in Seq(SentCalls), NEW i \in DOMAIN s, NEW pg, NEW q, NEW se, NEW un,
         Orderly(s, pg, se, un), AllNew(t, q.header), \A j \in DOMAIN s : s[j].old = s[j].served,
         q.user # NoUser => /\ ~Asking(s[i]) /\ q.user = pg.user /\ q.project = pg.project
                            /\ q.header = pg.header /\ q.basis = pg.basis
  PROVE  Orderly(RestAnd(s, i, t), q, se, TRUE) /\ RightUser(RestAnd(s, i, t), q, se, TRUE)
<1>0. PICK r : r = RestAnd(s, i, t)
  OBVIOUS
<1>1. AreLeft(s, i, t, r)
  BY <1>0, RestAreLeft
<1>2. \A j \in DOMAIN t : t[j].heard /\ ~t[j].served
  BY DEF AllNew, Unsent
<1>3. InOrder(r)
  BY <1>0, OrderStays DEF Orderly
<1>4. RightHeader(r, q)
  <2>1. q.user # NoUser => pg.user # NoUser /\ q.header = pg.header /\ MayGo(s, i)
    BY DEF MayGo
  <2> QED
    BY <1>0, <2>1, HeaderStays DEF Orderly
<1>5. GoneServed(r, q) /\ AsksFirst(r, TRUE)
  BY <1>1, <1>2 DEF Orderly, GoneServed, AsksFirst, AreLeft
<1>6. q.user # NoUser => \A j \in DOMAIN s : Asking(s[j]) => \E k \in DOMAIN r : r[k] = s[j]
  BY <1>1 DEF AreLeft
<1>7. RightBasis(r, q)
  BY <1>6 DEF Orderly, RightBasis
<1>8. RightProject(r, q, se)
  <2> SUFFICES ASSUME q.user # NoUser, q.header = NoProject, se.project # NoProject
               PROVE  \E k \in DOMAIN r : MayChoose(r[k])
    BY DEF RightProject
  <2>1. PICK j \in DOMAIN s : MayChoose(s[j])
    BY DEF Orderly, RightProject
  <2> QED
    BY <1>6, <2>1 DEF MayChoose
<1>9. RightUser(r, q, se, TRUE)
  BY <1>1, <1>2 DEF RightUser, AreLeft
<1> QED
  BY <1>0, <1>3, <1>4, <1>5, <1>7, <1>8, <1>9 DEF Orderly

(* Answers that get out of date change nothing else.                         *)
LEMMA AgedIs ==
  ASSUME calls \in Seq(SentCalls)
  PROVE  /\ Aged \in Seq(SentCalls) /\ DOMAIN Aged = DOMAIN calls
         /\ \A i \in DOMAIN calls :
              /\ Aged[i].kind = calls[i].kind /\ Aged[i].heard = calls[i].heard
              /\ Aged[i].served = calls[i].served /\ Aged[i].answer = calls[i].answer
              /\ Aged[i].header = calls[i].header /\ Aged[i].arg = calls[i].arg
              /\ Aged[i].old = Aged[i].served
<1>1. ASSUME NEW i \in DOMAIN calls
      PROVE  /\ Aged[i] \in SentCalls
             /\ Aged[i].kind = calls[i].kind /\ Aged[i].heard = calls[i].heard
             /\ Aged[i].served = calls[i].served /\ Aged[i].answer = calls[i].answer
             /\ Aged[i].header = calls[i].header /\ Aged[i].arg = calls[i].arg
             /\ Aged[i].old = Aged[i].served
  <2>1. PICK d : d = calls[i]
    OBVIOUS
  <2>2. d \in CallTypes /\ AnswerFits(d)
    BY <2>1 DEF SentCalls
  <2>3. PICK e : e = [d EXCEPT !.old = d.served]
    OBVIOUS
  <2>4. /\ e \in CallTypes /\ e.heard = d.heard /\ e.kind = d.kind /\ e.arg = d.arg /\ e.header = d.header
        /\ e.then = d.then /\ e.served = d.served /\ e.old = d.served /\ e.answer = d.answer
    BY <2>2, <2>3 DEF CallTypes
  <2>5. e \in SentCalls
    BY <2>2, <2>4 DEF SentCalls, AnswerFits
  <2>6. Aged[i] = e
    BY <2>1, <2>3 DEF Aged
  <2> QED
    BY <2>1, <2>4, <2>5, <2>6
<1>2. DOMAIN Aged = DOMAIN calls /\ DOMAIN calls = 1..Len(calls) /\ Len(calls) \in Nat
      /\ Aged = [i \in DOMAIN Aged |-> Aged[i]]
  BY DEF Aged
<1>3. Aged \in Seq(SentCalls)
  <2> HIDE DEF Aged
  <2> QED
    BY <1>1, <1>2
<1> QED
  BY <1>1, <1>2, <1>3

LEMMA AgedOrderly ==
  ASSUME calls \in Seq(SentCalls), NEW pg, NEW se, NEW un
  PROVE  /\ UnheardFirst(calls) => UnheardFirst(Aged)
         /\ Orderly(calls, pg, se, un) => Orderly(Aged, pg, se, un)
<1> DEFINE s == calls
           w == Aged
<1>1. /\ DOMAIN w = DOMAIN s
      /\ \A i \in DOMAIN s : /\ w[i].kind = s[i].kind /\ w[i].heard = s[i].heard
                             /\ w[i].served = s[i].served /\ w[i].answer = s[i].answer
                             /\ w[i].header = s[i].header
  BY AgedIs
<1> HIDE DEF s, w
<1>2. \A i \in DOMAIN s : (Asking(s[i]) <=> Asking(w[i])) /\ (MayChoose(s[i]) <=> MayChoose(w[i]))
  BY <1>1 DEF Asking, MayChoose
<1>3. UnheardFirst(s) => UnheardFirst(w)
  BY <1>1 DEF UnheardFirst
<1>4. InOrder(s) => InOrder(w)
  BY <1>1 DEF InOrder
<1>5. GoneServed(s, pg) => GoneServed(w, pg)
  BY <1>1 DEF GoneServed
<1>6. AsksFirst(s, un) => AsksFirst(w, un)
  BY <1>1, <1>2 DEF AsksFirst
<1>7. RightHeader(s, pg) => RightHeader(w, pg)
  BY <1>1, <1>2 DEF RightHeader, SameHeader
<1>8. RightBasis(s, pg) => RightBasis(w, pg)
  BY <1>1, <1>2 DEF RightBasis
<1>9. RightProject(s, pg, se) => RightProject(w, pg, se)
  BY <1>1, <1>2 DEF RightProject
<1> QED
  BY <1>3, <1>4, <1>5, <1>6, <1>7, <1>8, <1>9 DEF Orderly, s, w

\* The page that the store makes.
PageOf(pg) == [user |-> pg.user, imp |-> pg.imp, project |-> pg.project, basis |-> pg.basis, header |-> pg.header]

LEMMA PageOfFits ==
  ASSUME NEW pg \in StoreTypes
  PROVE  /\ PageOf(pg) \in PageTypes
         /\ PageOf(pg).user = pg.user /\ PageOf(pg).imp = pg.imp /\ PageOf(pg).project = pg.project
         /\ PageOf(pg).basis = pg.basis /\ PageOf(pg).header = pg.header
BY DEF PageOf, PageTypes, StoreTypes

LEMMA ShownIs ==
  ASSUME page \in PageTypes, NEW pg \in StoreTypes, NEW rest \in Seq(SentCalls), NEW e, e = Shown(pg, rest)
  PROVE  \/ \E x \in Seq(SentCalls) : e = Reloaded(x)
         \/ /\ e.fresh = FALSE /\ e.page = PageOf(pg) /\ (page.user # NoUser => pg.imp = page.imp)
            /\ \E t \in Seq(SentCalls) : e.calls = rest \o t /\ AskedBy(pg, t)
<1>1. PICK t \in Seq(SentCalls) : Sent(pg, rest) = rest \o t /\ AskedBy(pg, t)
  BY SentIs
<1>2. Sent(pg, rest) \in Seq(SentCalls)
  BY <1>1, ConcatProperties
<1>3. CASE page.user # NoUser /\ pg.imp # page.imp
  <2>1. e = Reloaded(Sent(pg, rest))
    BY <1>3 DEF Shown
  <2> QED
    BY <1>2, <2>1
<1>4. CASE ~(page.user # NoUser /\ pg.imp # page.imp)
  <2>1. e = [page |-> [f \in DOMAIN page |-> pg[f]], fresh |-> FALSE, calls |-> Sent(pg, rest)]
    BY <1>4 DEF Shown
  <2>2. [f \in DOMAIN page |-> pg[f]] = PageOf(pg)
    BY ShownPageIs DEF PageOf
  <2>3. e.page = PageOf(pg) /\ e.fresh = FALSE /\ e.calls = Sent(pg, rest)
    BY <2>1, <2>2
  <2> QED
    BY <1>1, <1>4, <2>3
<1> QED
  BY <1>3, <1>4

SessionRests == session' = session /\ last' = last

LEMMA FreshStep ==
  ASSUME SessionInv, NEW rest \in Seq(SentCalls), NEW e, e = Reloaded(rest), NEW ot, NEW lo,
         Become(e, ot, lo), SessionRests
  PROVE  SessionInv'
<1>1. e.page = Anonymous /\ e.fresh = TRUE
  BY DEF Reloaded
<1>2. page' = Anonymous /\ calls' = Reloaded(rest).calls /\ overtaken' = FALSE /\ unaware' = FALSE
  BY <1>1 DEF Become
<1>3. SessionFits(session) /\ last \in [Users -> Somewhere]
  BY DEF SessionInv, SessionParts
<1>4. SessionParts(calls', page', session', unaware', overtaken')
  BY <1>2, <1>3, FreshPage DEF SessionRests
<1>5. last' \in [Users -> Somewhere]
  BY <1>3 DEF SessionRests
<1> QED
  BY <1>4, <1>5 DEF SessionInv

\* What is left to show of a step that neither opens a page nor is the server's.
LEMMA StillStep ==
  ASSUME SessionInv, NEW s \in Seq(SentCalls), UnheardFirst(s), NEW t \in Seq(SentCalls),
         NEW i \in {0} \union DOMAIN s, calls' = RestAnd(s, i, t),
         NEW h, AllNew(t, h), PageFits(page'), SessionRests, unaware' \in BOOLEAN, overtaken' \in BOOLEAN,
         ~overtaken' => Orderly(calls', page', session, unaware') /\ RightUser(calls', page', session, unaware')
  PROVE  SessionInv'
<1>1. SessionFits(session) /\ last \in [Users -> Somewhere]
  BY DEF SessionInv, SessionParts
<1>2. UnheardFirst(calls')
  BY OrderStays
<1>3. calls' \in Seq(SentCalls)
  <2>1. PICK n, r : r = RestAnd(s, i, t) /\ IsRest(SentCalls, s, i, t, n, r)
    BY RestAndIs
  <2> QED
    BY <2>1 DEF IsRest
<1>4. SessionParts(calls', page', session', unaware', overtaken')
  BY <1>1, <1>2, <1>3 DEF SessionParts, SessionRests
<1>5. last' \in [Users -> Somewhere]
  BY <1>1 DEF SessionRests
<1> QED
  BY <1>4, <1>5 DEF SessionInv

LEMMA AllAskNew ==
  ASSUME NEW t, NEW h, AllAsk(t, h)
  PROVE  AllNew(t, h)
BY DEF AllAsk, AllNew

(* What the user does: a call is sent that leaves what the page shows, or    *)
(* the store asks for the profile.                                           *)
LEMMA ClickStep ==
  ASSUME SessionInv, NEW pg \in StoreTypes, NEW c \in Seq(SentCalls), Click(pg, c), PageFits(PageOf(pg)),
         pg.user = page.user, pg.imp = page.imp,
         \/ /\ pg.asks = 0 /\ AllNew(c, pg.header)
            /\ pg.project = page.project /\ pg.header = page.header
            /\ page.user # NoUser => pg.basis = page.basis
         \/ pg.asks # 0 /\ c = <<>> /\ page.user # NoUser
  PROVE  SessionInv'
<1>1. /\ page \in PageTypes /\ PageFits(page) /\ calls \in Seq(SentCalls)
      /\ unaware \in BOOLEAN /\ overtaken \in BOOLEAN
      /\ UnheardFirst(calls)
      /\ ~overtaken => Orderly(calls, page, session, unaware) /\ RightUser(calls, page, session, unaware)
  BY DEF SessionInv, SessionParts, PageFits
<1>2. SessionRests /\ Become(Shown(pg, calls \o c), overtaken, unaware)
  BY DEF Click, SessionRests
<1>3. PICK e : e = Shown(pg, calls \o c)
  OBVIOUS
<1>4. calls \o c \in Seq(SentCalls)
  BY <1>1, ConcatProperties
<1>5. CASE \E x \in Seq(SentCalls) : e = Reloaded(x)
  BY <1>2, <1>3, <1>5, FreshStep
<1>6. ASSUME e.fresh = FALSE, e.page = PageOf(pg), NEW t \in Seq(SentCalls), e.calls = (calls \o c) \o t, AskedBy(pg, t)
      PROVE  SessionInv'
  <2>1. page' = PageOf(pg) /\ calls' = (calls \o c) \o t /\ overtaken' = overtaken /\ unaware' = unaware
    BY <1>1, <1>2, <1>3, <1>6 DEF Become
  <2>2. PICK u \in Seq(SentCalls) :
          calls' = RestAnd(calls, 0, u) /\ (pg.asks = 0 => u = c) /\ (pg.asks # 0 => u = t)
    <3>1. CASE pg.asks = 0
      <4>1. t = <<>>
        BY <1>6, <3>1 DEF AskedBy
      <4>2. calls' = calls \o c
        BY <1>4, <2>1, <4>1, ConcatEmptySeq
      <4> QED
        BY <3>1, <4>2 DEF RestAnd
    <3>2. CASE pg.asks # 0
      <4>1. calls \o c = calls
        BY <1>1, <3>2, ConcatEmptySeq
      <4> QED
        BY <2>1, <3>2, <4>1 DEF RestAnd
    <3> QED
      BY <3>1, <3>2
  <2>3. /\ page'.user = pg.user /\ page'.imp = pg.imp /\ page'.project = pg.project
        /\ page'.basis = pg.basis /\ page'.header = pg.header
    BY <2>1, PageOfFits
  <2>4. AllNew(u, pg.header)
    BY <1>6, <2>2, AllAskNew DEF AskedBy
  <2>5. ASSUME ~overtaken
        PROVE  Orderly(calls', page', session, unaware') /\ RightUser(calls', page', session, unaware')
    <3>1. CASE pg.asks = 0
      BY <1>1, <2>1, <2>2, <2>3, <2>4, <2>5, <3>1, PlainStep
    <3>2. CASE pg.asks # 0
      <4>1. AllAsk(u, page'.header)
        BY <1>6, <2>2, <2>3, <3>2 DEF AskedBy
      <4>2. InOrder(calls) /\ GoneServed(calls, page) /\ RightHeader(calls, page)
        BY <1>1, <2>5 DEF Orderly
      <4> QED
        BY <1>1, <2>2, <2>3, <3>2, <4>1, <4>2, AskedStep
    <3> QED
      BY <3>1, <3>2
  <2> QED
    BY <1>1, <1>2, <2>1, <2>2, <2>4, <2>5, StillStep
<1> QED
  BY <1>1, <1>3, <1>4, <1>5, <1>6, ShownIs

LEMMA OneCall ==
  ASSUME NEW c \in SentCalls, Unsent(c), NEW h, c.header = h
  PROVE  <<c>> \in Seq(SentCalls) /\ AllNew(<<c>>, h) /\ (Asking(c) => AllAsk(<<c>>, h))
BY DEF AllNew, AllAsk

LEMMA ClicksKeep == ASSUME SessionInv, Clicks PROVE SessionInv'
<1>0. /\ page \in PageTypes /\ PageFits(page) /\ page.user \in Somebody /\ page.header \in Somewhere
      /\ NoUser \in Somebody /\ NoProject \in Somewhere
  BY DEF SessionInv, SessionParts, PageFits, PageTypes, Somebody, Somewhere
<1>1. /\ Now \in StoreTypes /\ Now.asks = 0 /\ Now.user = page.user /\ Now.imp = page.imp
      /\ Now.project = page.project /\ Now.basis = page.basis /\ Now.header = page.header
  BY <1>0, NowFits
<1>2. PageFits(PageOf(Now))
  BY <1>0, <1>1, PageOfFits DEF PageFits
<1>3. ASSUME NEW c \in SentCalls, Unsent(c), c.header = page.header, Click(Now, <<c>>) PROVE SessionInv'
  <2>1. <<c>> \in Seq(SentCalls) /\ AllNew(<<c>>, page.header)
    BY <1>3, OneCall
  <2> QED
    BY <1>1, <1>2, <1>3, <2>1, ClickStep
<1>4. ASSUME NEW u \in Users, Login(u) PROVE SessionInv'
  <2>1. PICK pg : pg = ResetData(Now, FALSE)
    OBVIOUS
  <2>2. /\ pg \in StoreTypes /\ pg.user = NoUser /\ pg.imp = FALSE /\ pg.project = NoProject
        /\ pg.header = Now.header /\ pg.asks = Now.asks
    BY <1>1, <2>1, ResetFits
  <2>3. page.user = NoUser /\ Click(pg, <<Call("login", u, "profile", pg.header)>>)
    BY <1>4, <2>1 DEF Login
  <2>4. PICK c : c = Call("login", u, "profile", pg.header)
    OBVIOUS
  <2>5. c \in SentCalls /\ Unsent(c) /\ c.header = pg.header
    BY <1>0, <1>1, <2>2, <2>4, SentCallIs DEF Somebody
  <2>6. <<c>> \in Seq(SentCalls) /\ AllNew(<<c>>, pg.header)
    BY <2>5, OneCall
  <2>7. page.imp = FALSE /\ page.project = NoProject
    BY <1>0, <2>3 DEF PageFits, PageTypes
  <2>8. PageFits(PageOf(pg))
    BY <2>2, PageOfFits DEF PageFits
  <2> QED
    BY <1>1, <2>2, <2>3, <2>4, <2>6, <2>7, <2>8, ClickStep
<1>5. ASSUME NEW u \in Users, Impersonate(u) PROVE SessionInv'
  <2>1. PICK c : c = Call("impersonate", u, "profile", page.header)
    OBVIOUS
  <2>2. c \in SentCalls /\ Unsent(c) /\ c.header = page.header
    BY <1>0, <2>1, SentCallIs DEF Somebody
  <2> QED
    BY <1>3, <1>5, <2>1, <2>2 DEF Impersonate
<1>6. ASSUME Logout PROVE SessionInv'
  <2>1. PICK c : c = Call("logout", NoUser, "reload", page.header)
    OBVIOUS
  <2>2. c \in SentCalls /\ Unsent(c) /\ c.header = page.header
    BY <1>0, <2>1, SentCallIs
  <2> QED
    BY <1>3, <1>6, <2>1, <2>2 DEF Logout
<1>7. ASSUME StopImpersonation PROVE SessionInv'
  <2>1. PICK c : c = Call("release", NoUser, "profile", page.header)
    OBVIOUS
  <2>2. c \in SentCalls /\ Unsent(c) /\ c.header = page.header
    BY <1>0, <2>1, SentCallIs
  <2> QED
    BY <1>3, <1>7, <2>1, <2>2 DEF StopImpersonation
<1>8. ASSUME Look PROVE SessionInv'
  <2>1. PICK c : c = Profile("stay", page.header)
    OBVIOUS
  <2>2. c \in SentCalls /\ Unsent(c) /\ c.header = page.header
    BY <1>0, <2>1, ProfileIs
  <2> QED
    BY <1>3, <1>8, <2>1, <2>2 DEF Look
<1>9. ASSUME NEW p \in Projects, ProjectSelected(p) PROVE SessionInv'
  <2>1. PICK pg : pg = SetSelectedProject(Now, p)
    OBVIOUS
  <2>2. /\ pg \in StoreTypes /\ pg.user = page.user /\ pg.imp = page.imp /\ pg.basis = page.basis
        /\ pg.project = p /\ pg.header = p /\ pg.asks = 1
    <3>1. p \in Somewhere
      BY DEF Somewhere
    <3>2. /\ pg \in StoreTypes /\ pg.user = Now.user /\ pg.imp = Now.imp /\ pg.basis = Now.basis
          /\ pg.project = p /\ pg.header = p /\ pg.asks = Now.asks + 1
      BY <1>1, <2>1, <3>1, SelectFits
    <3> QED
      BY <1>1, <3>2
  <2>3. page.user # NoUser /\ Click(pg, <<>>)
    BY <1>9, <2>1 DEF ProjectSelected
  <2>4. PageFits(PageOf(pg))
    <3>1. page.user # NoUser => page.basis[1] = page.user
      BY <1>0 DEF PageFits
    <3> QED
      BY <2>2, <2>3, <3>1, PageOfFits DEF PageFits
  <2>5. <<>> \in Seq(SentCalls) /\ pg.asks # 0
    BY <2>2
  <2> QED
    BY <2>2, <2>3, <2>4, <2>5, ClickStep
<1> QED
  BY <1>4, <1>5, <1>6, <1>7, <1>8, <1>9 DEF Clicks

-----------------------------------------------------------------------------
(* A handler that only sends calls, or none.                                 *)
LEMMA HandlerIs ==
  ASSUME PageFits(page), NEW rest \in Seq(SentCalls), NEW e, e = Shown(Now, rest)
  PROVE  e.fresh = FALSE /\ e.calls = rest /\ e.page = page
<1>0. page \in PageTypes
  BY DEF PageFits
<1>1. /\ Now \in StoreTypes /\ Now.asks = 0 /\ Now.user = page.user /\ Now.imp = page.imp
      /\ Now.project = page.project /\ Now.basis = page.basis /\ Now.header = page.header
  BY <1>0, NowFits
<1>2. PageOf(Now) = page
  BY <1>0, <1>1 DEF PageOf, PageTypes
<1>3. Sent(Now, rest) = rest
  <2>1. PICK t \in Seq(SentCalls) : Sent(Now, rest) = rest \o t /\ AskedBy(Now, t)
    BY <1>1, SentIs
  <2>2. t = <<>>
    BY <1>1, <2>1 DEF AskedBy
  <2>3. rest \o <<>> = rest
    BY ConcatEmptySeq
  <2> QED
    BY <2>1, <2>2, <2>3
<1>4. e = [page |-> [f \in DOMAIN page |-> Now[f]], fresh |-> FALSE, calls |-> Sent(Now, rest)]
  BY <1>1 DEF Shown
<1>5. [f \in DOMAIN page |-> Now[f]] = PageOf(Now)
  BY <1>0, <1>1, ShownPageIs DEF PageOf
<1> QED
  BY <1>2, <1>3, <1>4, <1>5

\* What an answer makes the page do: open anew, show the answer, or send calls.
IsHandled(kind, rest, a, e) ==
  \/ \E x \in Seq(SentCalls) : e = Reloaded(x)
  \/ kind = "profile" /\ e = Shown(CheckLogin(Now, a), rest)
  \/ /\ kind # "profile" /\ e.fresh = FALSE /\ e.page = page
     /\ \E t \in Seq(SentCalls) :
          /\ e.calls = rest \o t /\ AllNew(t, page.header)
          /\ AllAsk(t, page.header) \/ (kind \in {"login", "release"} /\ ~a.ok)

LEMMA HandledIs ==
  ASSUME PageFits(page), NEW c \in SentCalls, NEW d, d.kind = c.kind, d.then \in {c.then, "stay"},
         NEW rest \in Seq(SentCalls), NEW a \in AnswerTypes, NEW e, e = Handled(d, rest, a)
  PROVE  IsHandled(c.kind, rest, a, e)
<1>1. /\ c \in CallTypes /\ AnswerFits(c) /\ page.header \in Somewhere /\ page \in PageTypes
  BY DEF SentCalls, PageFits, PageTypes
<1>2. PICK then : then = d.then
  OBVIOUS
<1>3. c.kind = "profile" => then \in {"stay", "reload"}
  BY <1>1, <1>2 DEF AnswerFits
<1>4. CASE c.kind = "profile" /\ then = "stay"
  <2>1. e = Shown(CheckLogin(Now, a), rest)
    BY <1>2, <1>4 DEF Handled
  <2> QED
    BY <1>4, <2>1 DEF IsHandled
<1>5. CASE c.kind = "profile" /\ then = "reload"
  <2>1. e = Reloaded(Sent(CheckLogin(Now, a), rest))
    BY <1>2, <1>5 DEF Handled
  <2>2. CheckLogin(Now, a) \in StoreTypes
    BY <1>1, CheckLoginFits
  <2>3. Sent(CheckLogin(Now, a), rest) \in Seq(SentCalls)
    BY <2>2, SentIs, ConcatProperties
  <2> QED
    BY <2>1, <2>3 DEF IsHandled
<1>6. CASE c.kind = "logout"
  <2>1. e = Reloaded(rest)
    BY <1>2, <1>6 DEF Handled
  <2> QED
    BY <2>1 DEF IsHandled
<1>7. ASSUME NEW x, x = Profile("stay", page.header) \/ x = Profile("reload", page.header),
             c.kind # "profile", e = Shown(Now, Append(rest, x))
      PROVE  /\ c.kind # "profile" /\ e.fresh = FALSE /\ e.page = page
             /\ \E t \in Seq(SentCalls) :
                  e.calls = rest \o t /\ AllNew(t, page.header) /\ AllAsk(t, page.header)
  <2>1. x \in SentCalls /\ Unsent(x) /\ x.header = page.header /\ Asking(x)
    BY <1>1, <1>7, ProfileIs
  <2>2. <<x>> \in Seq(SentCalls) /\ AllNew(<<x>>, page.header) /\ AllAsk(<<x>>, page.header)
    BY <2>1, OneCall
  <2>3. Append(rest, x) = rest \o <<x>> /\ Append(rest, x) \in Seq(SentCalls)
    BY <2>1, AppendIsConcat, AppendProperties
  <2>4. e.fresh = FALSE /\ e.calls = rest \o <<x>> /\ e.page = page
    BY <1>7, <2>3, HandlerIs
  <2> QED
    BY <1>7, <2>2, <2>4
<1>8. CASE c.kind = "login" /\ a.ok
  <2>1. e = Shown(Now, Append(rest, Profile("reload", page.header)))
    BY <1>2, <1>8 DEF Handled
  <2> QED
    BY <1>7, <1>8, <2>1 DEF IsHandled
<1>9. CASE c.kind = "impersonate" \/ (c.kind = "release" /\ a.ok)
  <2>1. e = Shown(Now, Append(rest, Profile("stay", page.header)))
    BY <1>2, <1>9 DEF Handled
  <2> QED
    BY <1>7, <1>9, <2>1 DEF IsHandled
<1>10. CASE c.kind \in {"login", "release"} /\ ~a.ok
  <2>1. e = Shown(Now, rest)
    BY <1>2, <1>10 DEF Handled
  <2>2. e.fresh = FALSE /\ e.calls = rest /\ e.page = page
    BY <2>1, HandlerIs
  <2> DEFINE t == <<>>
  <2>3. t \in Seq(SentCalls) /\ DOMAIN t = {}
    OBVIOUS
  <2>4. rest \o t = rest /\ AllNew(t, page.header)
    BY <2>3, ConcatEmptySeq DEF AllNew
  <2> HIDE DEF t
  <2> QED
    BY <1>10, <2>2, <2>3, <2>4 DEF IsHandled
<1> QED
  BY <1>1, <1>3, <1>4, <1>5, <1>6, <1>8, <1>9, <1>10 DEF CallTypes

LEMMA SessionInvParts ==
  ASSUME SessionInv
  PROVE  /\ PageFits(page) /\ page \in PageTypes /\ SessionFits(session) /\ calls \in Seq(SentCalls)
         /\ unaware \in BOOLEAN /\ overtaken \in BOOLEAN /\ UnheardFirst(calls)
         /\ ~overtaken => Orderly(calls, page, session, unaware) /\ RightUser(calls, page, session, unaware)
         /\ last \in [Users -> Somewhere]
BY DEF SessionInv, SessionParts, PageFits

LEMMA AnswerIs ==
  ASSUME NEW c \in SentCalls
  PROVE  /\ c.answer \in AnswerTypes /\ AnswerFits(c) /\ Unanswered \in AnswerTypes
         /\ c.heard \in BOOLEAN /\ c.served \in BOOLEAN /\ c.old \in BOOLEAN
BY DEF SentCalls, CallTypes, Unanswered, AnswerTypes, Somebody, Somewhere

\* The page that an answer leaves fits, if the answer does.
LEMMA ToldPageFits ==
  ASSUME PageFits(page), NEW a \in AnswerTypes, NEW r, r = CheckLogin(Now, a),
         a.ok => a.user \in Users /\ a.basis[1] = a.user
  PROVE  r \in StoreTypes /\ PageFits(PageOf(r))
<1>1. /\ page \in PageTypes /\ (page.user # NoUser => page.header = page.project) /\ NoUser \notin Users
  BY UserSessionAssumption DEF PageFits
<1>2. /\ r \in StoreTypes
      /\ ~a.ok => r.user = NoUser /\ r.imp = FALSE /\ r.project = NoProject
      /\ a.ok => /\ r.user = a.user /\ r.basis = a.basis
                 /\ page.header = page.project \/ page.user # a.user => r.header = r.project
  BY <1>1, CheckLoginFits
<1>3. CASE ~a.ok
  BY <1>2, <1>3, PageOfFits DEF PageFits
<1>4. CASE a.ok
  <2>1. r.user # NoUser /\ r.basis[1] = r.user /\ r.header = r.project
    <3>1. page.user = a.user => page.header = page.project
      BY <1>1, <1>4
    <3> QED
      BY <1>1, <1>2, <1>4, <3>1
  <2> QED
    BY <1>2, <2>1, PageOfFits DEF PageFits
<1> QED
  BY <1>3, <1>4

LEMMA ReceiveKeeps == ASSUME SessionInv, NEW c \in DOMAIN calls, Receive(c) PROVE SessionInv'
<1>0. /\ PageFits(page) /\ page \in PageTypes /\ SessionFits(session) /\ calls \in Seq(SentCalls)
      /\ unaware \in BOOLEAN /\ overtaken \in BOOLEAN /\ UnheardFirst(calls)
      /\ ~overtaken => Orderly(calls, page, session, unaware) /\ RightUser(calls, page, session, unaware)
  BY SessionInvParts
<1> DEFINE d == calls[c]
           a == calls[c].answer
           rest == RemoveAt(calls, c)
           ot == overtaken \/ \E m \in 1..(c - 1) : calls[m].heard
           lo == unaware /\ ~(calls[c].answer.ok /\ calls[c].kind = "profile" /\ ~calls[c].old)
<1>1. d \in SentCalls /\ a \in AnswerTypes /\ AnswerFits(d) /\ d.served /\ d.heard
  BY <1>0, AnswerIs DEF Receive
<1>2. PICK e : e = Handled(d, rest, a)
  OBVIOUS
<1>3. Become(e, ot, lo) /\ SessionRests
  BY <1>2 DEF Receive, SessionRests
<1>4. rest \in Seq(SentCalls)
  BY <1>0, RemoveAtIs
<1>5. ASSUME NEW t \in Seq(SentCalls) PROVE rest \o t = RestAnd(calls, c, t)
  <2>1. c # 0
    BY <1>0
  <2> QED
    BY <2>1 DEF RestAnd
<1>6. ~ot => ~overtaken /\ IsNext(calls, c)
  <2>1. DOMAIN calls = 1..Len(calls) /\ Len(calls) \in Nat
    BY <1>0
  <2> QED
    BY <2>1 DEF IsNext
<1>7. ot \in BOOLEAN /\ lo \in BOOLEAN
  BY <1>0
<1> HIDE DEF rest, ot
<1>9. ASSUME e.fresh = FALSE PROVE page' = e.page /\ calls' = e.calls /\ overtaken' = ot /\ unaware' = lo
  BY <1>3, <1>7, <1>9 DEF Become
<1>10. CASE \E x \in Seq(SentCalls) : e = Reloaded(x)
  BY <1>3, <1>10, FreshStep
<1>11. CASE d.kind = "profile" /\ e = Shown(CheckLogin(Now, a), rest)
  <2>1. PICK r : r = CheckLogin(Now, a)
    OBVIOUS
  <2>2. a.ok => a.user \in Users /\ a.basis[1] = a.user
    BY <1>1, <1>11 DEF AnswerFits
  <2>3. r \in StoreTypes /\ PageFits(PageOf(r))
    BY <1>0, <1>1, <2>1, <2>2, ToldPageFits
  <2>4. ASSUME e.fresh = FALSE, e.page = PageOf(r), NEW t \in Seq(SentCalls), e.calls = rest \o t, AskedBy(r, t)
        PROVE  SessionInv'
    <3>1. page' = PageOf(r) /\ calls' = RestAnd(calls, c, t) /\ overtaken' = ot /\ unaware' = lo
      BY <1>5, <1>9, <2>4
    <3>2. /\ page'.user = r.user /\ page'.imp = r.imp /\ page'.project = r.project
          /\ page'.basis = r.basis /\ page'.header = r.header
      BY <2>3, <3>1, PageOfFits
    <3>3. CASE r.asks # 0
      <4>1. AllAsk(t, page'.header) /\ AllNew(t, page'.header)
        BY <2>4, <3>2, <3>3, AllAskNew DEF AskedBy
      <4>2. ASSUME ~ot
            PROVE  Orderly(calls', page', session, lo) /\ RightUser(calls', page', session, lo)
        <5>1. InOrder(calls) /\ GoneServed(calls, page) /\ RightHeader(calls, page)
          BY <1>0, <1>6, <4>2 DEF Orderly
        <5>2. c # 0 /\ calls[c].heard /\ calls[c].served
          BY <1>0, <1>1
        <5> QED
          BY <1>0, <3>1, <4>1, <5>1, <5>2, AskedStep
      <4> QED
        BY <1>0, <1>3, <1>7, <2>3, <3>1, <4>1, <4>2, StillStep
    <3>4. CASE r.asks = 0
      <4>1. t = <<>> /\ AllNew(t, page'.header)
        BY <2>4, <3>4 DEF AskedBy, AllNew
      <4>2. ASSUME ~ot
            PROVE  Orderly(calls', page', session, lo) /\ RightUser(calls', page', session, lo)
        <5>1. /\ ~a.ok => page'.user = NoUser /\ page'.imp = FALSE
              /\ a.ok => /\ page'.user = a.user /\ page'.imp = a.imp /\ page'.basis = a.basis
                         /\ page.user = a.user /\ page'.project = page.project /\ page'.header = page.header
                         /\ page.project = NoProject => a.project = NoProject
          BY <1>0, <1>1, <2>1, <3>2, <3>4, CheckLoginFits
        <5>2. Asking(d) /\ d.served
          BY <1>1, <1>11 DEF Asking
        <5>3. lo = (unaware /\ ~(a.ok /\ ~d.old))
          BY <1>11
        <5>4. /\ Orderly(calls, page, session, unaware) /\ RightUser(calls, page, session, unaware)
              /\ IsNext(calls, c) /\ PageFits(page')
          BY <1>0, <1>6, <2>3, <3>1, <4>2
        <5> HIDE DEF lo
        <5>5. /\ Orderly(RestAnd(calls, c, <<>>), page', session, lo)
              /\ RightUser(RestAnd(calls, c, <<>>), page', session, lo)
          BY <1>0, <5>1, <5>2, <5>3, <5>4, ToldStep
        <5> QED
          BY <3>1, <4>1, <5>5
      <4> QED
        BY <1>0, <1>3, <1>7, <2>3, <3>1, <4>1, <4>2, StillStep
    <3> QED
      BY <2>3, <3>3, <3>4
  <2> QED
    BY <1>0, <1>4, <1>10, <1>11, <2>1, <2>3, <2>4, ShownIs
<1>12. ASSUME d.kind # "profile", e.fresh = FALSE, e.page = page,
              NEW t \in Seq(SentCalls), e.calls = rest \o t, AllNew(t, page.header),
              AllAsk(t, page.header) \/ (d.kind \in {"login", "release"} /\ ~a.ok)
       PROVE  SessionInv'
  <2>1. page' = page /\ calls' = RestAnd(calls, c, t) /\ overtaken' = ot /\ unaware' = lo
    BY <1>5, <1>9, <1>12
  <2>2. lo = unaware
    BY <1>0, <1>12
  <2>3. ASSUME ~ot
        PROVE  Orderly(calls', page', session, lo) /\ RightUser(calls', page', session, lo)
    <3>1. CASE AllAsk(t, page.header)
      <4>1. InOrder(calls) /\ GoneServed(calls, page) /\ RightHeader(calls, page)
        BY <1>0, <1>6, <2>3 DEF Orderly
      <4> QED
        BY <1>0, <2>1, <3>1, <4>1, AskedStep
    <3>2. CASE d.kind \in {"login", "release"} /\ ~a.ok
      <4>1. ~Asking(d) /\ ~WillAsk(d)
        BY <1>12, <3>2 DEF Asking, WillAsk
      <4> QED
        BY <1>0, <1>6, <1>12, <2>1, <2>2, <2>3, <4>1, PlainStep
    <3> QED
      BY <1>12, <3>1, <3>2
  <2> QED
    BY <1>0, <1>3, <1>7, <1>12, <2>1, <2>3, StillStep
<1>13. IsHandled(d.kind, rest, a, e)
  <2>1. d.kind = d.kind /\ d.then \in {d.then, "stay"}
    OBVIOUS
  <2> QED
    BY <1>0, <1>1, <1>2, <1>4, <2>1, HandledIs
<1> QED
  BY <1>10, <1>11, <1>12, <1>13 DEF IsHandled

LEMMA LoseKeeps == ASSUME SessionInv, NEW c \in DOMAIN calls, Lose(c) PROVE SessionInv'
<1>0. /\ PageFits(page) /\ page \in PageTypes /\ SessionFits(session) /\ calls \in Seq(SentCalls)
      /\ overtaken \in BOOLEAN /\ UnheardFirst(calls)
      /\ ~overtaken => Orderly(calls, page, session, unaware)
  BY SessionInvParts
<1> DEFINE d == calls[c]
           a == Unanswered
           rest == RemoveAt(Aged, c)
<1>1. d \in SentCalls /\ a \in AnswerTypes /\ ~a.ok
  <2>1. d \in SentCalls /\ a \in AnswerTypes
    BY <1>0, AnswerIs
  <2>2. ~a.ok
    BY DEF Unanswered
  <2> QED
    BY <2>1, <2>2
<1>2. PICK e : e = Handled([calls[c] EXCEPT !.then = "stay"], rest, a)
  OBVIOUS
<1>3. Become(e, overtaken, TRUE) /\ SessionRests
  BY <1>2 DEF Lose, SessionRests
<1>4. /\ Aged \in Seq(SentCalls) /\ c \in DOMAIN Aged /\ UnheardFirst(Aged)
      /\ Aged[c].kind = d.kind /\ \A j \in DOMAIN Aged : Aged[j].old = Aged[j].served
      /\ ~overtaken => Orderly(Aged, page, session, unaware)
  BY <1>0, AgedIs, AgedOrderly
<1>5. rest \in Seq(SentCalls)
  BY <1>4, RemoveAtIs
<1>6. ASSUME NEW t \in Seq(SentCalls) PROVE rest \o t = RestAnd(Aged, c, t)
  <2>1. c # 0
    BY <1>0
  <2> QED
    BY <2>1 DEF RestAnd
<1>7. ASSUME e.fresh = FALSE PROVE page' = e.page /\ calls' = e.calls /\ overtaken' = overtaken /\ unaware' = TRUE
  BY <1>0, <1>3, <1>7 DEF Become
<1>8. IsHandled(d.kind, rest, a, e)
  <2>1. PICK f : f = [calls[c] EXCEPT !.then = "stay"]
    OBVIOUS
  <2>2. f.kind = d.kind /\ f.then \in {d.then, "stay"}
    <3>1. d \in CallTypes
      BY <1>1 DEF SentCalls
    <3> QED
      BY <2>1, <3>1 DEF CallTypes
  <2> HIDE DEF d
  <2> QED
    BY <1>0, <1>1, <1>2, <1>5, <2>1, <2>2, HandledIs
<1> HIDE DEF rest, a, d
\* What is left to show when the page stays.
<1>9. ASSUME NEW t \in Seq(SentCalls), calls' = RestAnd(Aged, c, t), overtaken' = overtaken, unaware' = TRUE,
             PageFits(page'), AllNew(t, page'.header),
             page'.user # NoUser => /\ ~Asking(Aged[c]) /\ page'.user = page.user /\ page'.project = page.project
                                    /\ page'.header = page.header /\ page'.basis = page.basis
      PROVE  SessionInv'
  <2>1. ASSUME ~overtaken
        PROVE  Orderly(calls', page', session, TRUE) /\ RightUser(calls', page', session, TRUE)
    BY <1>4, <1>9, <2>1, LostStep
  <2>2. overtaken' \in BOOLEAN /\ unaware' \in BOOLEAN
    BY <1>0, <1>9
  <2>3. c \in {0} \union DOMAIN Aged
    BY <1>4
  <2> QED
    BY <1>3, <1>4, <1>9, <2>1, <2>2, <2>3, StillStep
<1>10. CASE \E x \in Seq(SentCalls) : e = Reloaded(x)
  BY <1>3, <1>10, FreshStep
<1>11. CASE d.kind = "profile" /\ e = Shown(CheckLogin(Now, a), rest)
  <2>1. PICK r : r = CheckLogin(Now, a)
    OBVIOUS
  <2>2. r \in StoreTypes /\ PageFits(PageOf(r)) /\ r.user = NoUser /\ r.asks = 0
    BY <1>0, <1>1, <2>1, ToldPageFits, CheckLoginFits
  <2>3. ASSUME e.fresh = FALSE, e.page = PageOf(r), NEW t \in Seq(SentCalls), e.calls = rest \o t, AskedBy(r, t)
        PROVE  SessionInv'
    <3>1. page' = PageOf(r) /\ calls' = RestAnd(Aged, c, t) /\ overtaken' = overtaken /\ unaware' = TRUE
      BY <1>6, <1>7, <2>3
    <3>2. page'.user = NoUser
      BY <2>2, <3>1, PageOfFits
    <3>3. AllNew(t, page'.header)
      BY <2>2, <2>3 DEF AskedBy, AllNew
    <3> QED
      BY <1>9, <2>2, <3>1, <3>2, <3>3
  <2> QED
    BY <1>0, <1>5, <1>10, <1>11, <2>1, <2>2, <2>3, ShownIs
<1>12. ASSUME d.kind # "profile", e.fresh = FALSE, e.page = page,
              NEW t \in Seq(SentCalls), e.calls = rest \o t, AllNew(t, page.header)
       PROVE  SessionInv'
  <2>1. page' = page /\ calls' = RestAnd(Aged, c, t) /\ overtaken' = overtaken /\ unaware' = TRUE
    BY <1>6, <1>7, <1>12
  <2>2. ~Asking(Aged[c])
    BY <1>4, <1>12 DEF Asking
  <2> QED
    BY <1>0, <1>9, <1>12, <2>1, <2>2
<1> QED
  BY <1>8, <1>10, <1>11, <1>12 DEF IsHandled

LEMMA ForgetKeeps == ASSUME SessionInv, NEW c \in DOMAIN calls, Forget(c) PROVE SessionInv'
<1>0. /\ PageFits(page) /\ SessionFits(session) /\ calls \in Seq(SentCalls)
      /\ unaware \in BOOLEAN /\ overtaken \in BOOLEAN /\ UnheardFirst(calls)
      /\ ~overtaken => Orderly(calls, page, session, unaware) /\ RightUser(calls, page, session, unaware)
  BY SessionInvParts
<1> DEFINE t == <<>>
<1>1. t \in Seq(SentCalls) /\ AllNew(t, page.header)
  BY DEF AllNew
<1>2. calls' = RestAnd(calls, c, t)
  <2>1. RemoveAt(calls, c) \in Seq(SentCalls) /\ c # 0
    BY <1>0, RemoveAtIs
  <2> QED
    BY <2>1, ConcatEmptySeq DEF Forget, RestAnd
<1> HIDE DEF t
<1>3. /\ page' = page /\ overtaken' = overtaken /\ unaware' = unaware /\ SessionRests
      /\ ~Asking(calls[c]) /\ ~WillAsk(calls[c])
  BY DEF Forget, SessionRests, Asking, WillAsk
<1>4. ASSUME ~overtaken
      PROVE  Orderly(calls', page', session, unaware') /\ RightUser(calls', page', session, unaware')
  BY <1>0, <1>1, <1>2, <1>3, <1>4, PlainStep
<1> QED
  BY <1>0, <1>1, <1>2, <1>3, <1>4, StillStep

LEMMA EndSessionKeeps == ASSUME SessionInv, EndSession PROVE SessionInv'
<1>0. /\ PageFits(page) /\ calls \in Seq(SentCalls) /\ overtaken \in BOOLEAN /\ UnheardFirst(calls)
      /\ ~overtaken => Orderly(calls, page, session, unaware) /\ last \in [Users -> Somewhere]
  BY SessionInvParts
<1>1. /\ Aged \in Seq(SentCalls) /\ UnheardFirst(Aged)
      /\ \A j \in DOMAIN Aged : Aged[j].old = Aged[j].served
      /\ ~overtaken => Orderly(Aged, page, session, unaware)
  BY <1>0, AgedIs, AgedOrderly
<1>2. /\ page' = page /\ calls' = Aged /\ session' = NoSession /\ overtaken' = overtaken
      /\ unaware' = TRUE /\ last' = last
  BY DEF EndSession
<1>3. SessionFits(NoSession) /\ NoSession.project = NoProject
  <2>1. <<>> \in Seq(Users) /\ NoUser \in Somebody /\ NoProject \in Somewhere
    BY DEF Somebody, Somewhere
  <2> QED
    BY <2>1 DEF SessionFits, SessionTypes, NoSession
<1>4. ASSUME ~overtaken PROVE Orderly(Aged, page, NoSession, TRUE) /\ RightUser(Aged, page, NoSession, TRUE)
  BY <1>1, <1>3, <1>4 DEF Orderly, AsksFirst, RightProject, RightUser
<1>5. SessionParts(calls', page', session', unaware', overtaken')
  BY <1>0, <1>1, <1>2, <1>3, <1>4 DEF SessionParts
<1> QED
  BY <1>0, <1>2, <1>5 DEF SessionInv

\* What serving a call makes of the session: its project is the one that the
\* call carried, unless the session is new.
ServedSession(s, t) ==
  /\ SessionFits(t)
  /\ t.project \in {s.project, NoProject}

LEMMA LoggedInIs ==
  ASSUME NEW s, SessionFits(s), NEW u \in Users
  PROVE  ServedSession(s, LoggedIn(s, u)) /\ LoggedIn(s, u).user = u
<1>1. NoUser \notin Users /\ u \in Somebody /\ NoProject \in Somewhere /\ <<>> \in Seq(Users) /\ s \in SessionTypes
  BY UserSessionAssumption DEF Somebody, Somewhere, SessionFits
<1>2. CASE s.user \in {NoUser, u}
  <2>1. LoggedIn(s, u) = [s EXCEPT !.user = u]
    BY <1>2 DEF LoggedIn
  <2> QED
    BY <1>1, <2>1 DEF ServedSession, SessionFits, SessionTypes
<1>3. CASE s.user \notin {NoUser, u}
  <2>1. LoggedIn(s, u) = [NoSession EXCEPT !.user = u]
    BY <1>3 DEF LoggedIn
  <2>2. LoggedIn(s, u) = [user |-> u, hist |-> <<>>, project |-> NoProject]
    BY <2>1 DEF NoSession
  <2> QED
    BY <1>1, <2>2 DEF ServedSession, SessionFits, SessionTypes
<1> QED
  BY <1>2, <1>3

LEMMA HijackIs ==
  ASSUME NEW s, SessionFits(s), NEW u \in Users, s.user \in Staff
  PROVE  ServedSession(s, Hijack(s, u))
<1>1. s.user \in Users /\ NoUser \notin Users /\ s.hist \in Seq(Users) /\ NoProject \in Somewhere
  BY UserSessionAssumption DEF Somewhere, SessionFits, SessionTypes
<1>2. PICK l : l = LoggedIn(s, u)
  OBVIOUS
<1>3. l \in SessionTypes /\ l.user = u /\ l.project \in {s.project, NoProject}
  BY <1>2, LoggedInIs DEF ServedSession, SessionFits
<1>4. Append(s.hist, s.user) \in Seq(Users)
  BY <1>1, AppendProperties
<1>5. Hijack(s, u) = [l EXCEPT !.hist = Append(s.hist, s.user)]
  BY <1>2 DEF Hijack
<1> QED
  BY <1>1, <1>3, <1>4, <1>5 DEF ServedSession, SessionFits, SessionTypes

LEMMA ReleasedIs ==
  ASSUME NEW s, SessionFits(s), s.hist # <<>>
  PROVE  ServedSession(s, Released(s))
<1>1. NoUser \notin Users /\ s.hist \in Seq(Users) /\ NoProject \in Somewhere
  BY UserSessionAssumption DEF Somewhere, SessionFits, SessionTypes
<1>2. Last(s.hist) \in Users
  BY <1>1 DEF Last
<1>3. Front(s.hist) \in Seq(Users)
  <2>1. Front(s.hist) = SubSeq(s.hist, 1, Len(s.hist) - 1)
    BY DEF Front
  <2>2. Len(s.hist) \in Nat \ {0} /\ \A j \in 1..(Len(s.hist) - 1) : s.hist[j] \in Users
    BY <1>1
  <2> QED
    BY <1>1, <2>1, <2>2, SubSeqProperties
<1>4. PICK l : l = LoggedIn(s, Last(s.hist))
  OBVIOUS
<1>5. l \in SessionTypes /\ l.user = Last(s.hist) /\ l.project \in {s.project, NoProject}
  BY <1>2, <1>4, LoggedInIs DEF ServedSession, SessionFits
<1>6. Released(s) = [l EXCEPT !.hist = Front(s.hist)]
  BY <1>4 DEF Released
<1> QED
  BY <1>1, <1>2, <1>3, <1>5, <1>6 DEF ServedSession, SessionFits, SessionTypes

\* One call of those on their way is served.
Answered(s, c, a) == [s EXCEPT ![c].served = TRUE, ![c].answer = a]

IsAnswered(s, c, a, w) ==
  /\ w \in Seq(SentCalls) /\ DOMAIN w = DOMAIN s /\ \A i \in DOMAIN s : i # c => w[i] = s[i]
  /\ w[c].kind = s[c].kind /\ w[c].heard = s[c].heard /\ w[c].header = s[c].header
  /\ w[c].served /\ w[c].old = FALSE /\ w[c].answer = a

LEMMA AnsweredIs ==
  ASSUME NEW s \in Seq(SentCalls), NEW c \in DOMAIN s, NEW a \in AnswerTypes, ~s[c].served,
         s[c].kind = "profile" => AnswerFits([s[c] EXCEPT !.served = TRUE, !.answer = a]),
         NEW w, w = Answered(s, c, a)
  PROVE  IsAnswered(s, c, a, w)
<1>1. s[c] \in CallTypes /\ AnswerFits(s[c])
  BY DEF SentCalls
<1>2. PICK d : d = s[c]
  OBVIOUS
<1>3. PICK e : e = [d EXCEPT !.served = TRUE, !.answer = a]
  OBVIOUS
<1>4. /\ e \in CallTypes /\ e.kind = d.kind /\ e.arg = d.arg /\ e.then = d.then /\ e.heard = d.heard
      /\ e.header = d.header /\ e.served /\ e.old = d.old /\ e.answer = a
  BY <1>1, <1>2, <1>3 DEF CallTypes
<1>5. d.old = FALSE
  BY <1>1, <1>2 DEF CallTypes, AnswerFits
<1>6. AnswerFits(e)
  BY <1>1, <1>2, <1>3, <1>4 DEF AnswerFits
<1>7. e \in SentCalls
  BY <1>4, <1>6 DEF SentCalls
<1>8. w = [s EXCEPT ![c] = e]
  BY <1>2, <1>3 DEF Answered
<1> QED
  BY <1>2, <1>4, <1>5, <1>7, <1>8 DEF IsAnswered

(* The server serves call c, the oldest that is not served, and answers a.   *)
LEMMA ServedStep ==
  ASSUME NEW s \in Seq(SentCalls), NEW c \in DOMAIN s, NEW a \in AnswerTypes, ~s[c].served,
         s[c].kind = "profile" => AnswerFits([s[c] EXCEPT !.served = TRUE, !.answer = a]),
         NEW w, w = Answered(s, c, a), NEW pg, NEW se, NEW te, NEW un,
         UnheardFirst(s), Orderly(s, pg, se, un), RightUser(s, pg, se, un),
         \A d \in DOMAIN s : d < c => s[d].served,
         te.project \in {IF s[c].header # NoProject THEN s[c].header ELSE se.project, NoProject},
         s[c].kind = "profile" => Tells(a, te) /\ (a.ok /\ te.project # NoProject => a.project # NoProject),
         s[c].kind # "profile" => (s[c].heard => WillAsk(w[c])) \/ (te.user = se.user /\ te.hist = se.hist)
  PROVE  Orderly(w, pg, te, un) /\ RightUser(w, pg, te, un)
<1>1. /\ w \in Seq(SentCalls) /\ DOMAIN w = DOMAIN s /\ \A i \in DOMAIN s : i # c => w[i] = s[i]
      /\ w[c].kind = s[c].kind /\ w[c].heard = s[c].heard /\ w[c].header = s[c].header
      /\ w[c].served /\ w[c].old = FALSE /\ w[c].answer = a
  <2>1. IsAnswered(s, c, a, w)
    BY AnsweredIs
  <2> QED
    BY <2>1 DEF IsAnswered
<1>2. \A i \in DOMAIN s : /\ w[i].heard = s[i].heard /\ w[i].header = s[i].header
                          /\ (Asking(w[i]) <=> Asking(s[i])) /\ (s[i].served => w[i].served)
  BY <1>1 DEF Asking
<1>3. \A i, j \in DOMAIN s : i < j \/ j < i \/ i = j
  OBVIOUS
<1>4. InOrder(w)
  <2> SUFFICES ASSUME NEW i \in DOMAIN s, NEW j \in DOMAIN s, i < j, w[j].heard, w[j].served PROVE w[i].served
    BY <1>1 DEF InOrder
  <2>1. CASE j = c
    BY <1>2, <2>1
  <2>2. CASE j # c
    <3>1. s[i].served
      BY <1>1, <2>2 DEF Orderly, InOrder
    <3> QED
      BY <1>2, <3>1
  <2> QED
    BY <2>1, <2>2
<1>5. \A j \in DOMAIN s : c < j /\ Asking(s[j]) => ~s[j].served
  BY DEF Orderly, InOrder, Asking
<1>6. GoneServed(w, pg)
  BY <1>1, <1>2 DEF Orderly, GoneServed
<1>7. AsksFirst(w, un)
  <2> SUFFICES ASSUME ~un, NEW k \in DOMAIN s, ~w[k].heard, ~w[k].served
               PROVE  \E j \in DOMAIN s : Asking(w[j]) /\ ~w[j].served
    BY <1>1 DEF AsksFirst
  <2>1. k # c /\ ~s[k].heard /\ ~s[k].served
    BY <1>1
  <2>2. PICK j \in DOMAIN s : Asking(s[j]) /\ ~s[j].served
    BY <2>1 DEF Orderly, AsksFirst
  <2>3. j # c
    <3>1. ASSUME j = c PROVE FALSE
      <4>1. c < k
        BY <1>3, <2>1
      <4> QED
        BY <2>1, <2>2, <3>1, <4>1 DEF UnheardFirst, Asking
    <3> QED
      BY <3>1
  <2> QED
    BY <1>1, <1>2, <2>2, <2>3
<1>8. RightHeader(w, pg)
  BY <1>1, <1>2 DEF Orderly, RightHeader, SameHeader
<1>9. RightBasis(w, pg)
  BY <1>1, <1>2 DEF Orderly, RightBasis
<1>10. RightProject(w, pg, te)
  <2> SUFFICES ASSUME pg.user # NoUser, pg.header = NoProject, te.project # NoProject
               PROVE  \E k \in DOMAIN s : MayChoose(w[k])
    BY <1>1 DEF RightProject
  <2>1. s[c].heard
    BY DEF Orderly, GoneServed
  <2>2. CASE s[c].header = NoProject
    <3>1. se.project # NoProject
      BY <2>2
    <3>2. PICK j \in DOMAIN s : MayChoose(s[j])
      BY <3>1 DEF Orderly, RightProject
    <3>3. CASE j # c
      BY <1>1, <3>2, <3>3
    <3>4. CASE j = c
      <4>1. MayChoose(w[c])
        BY <1>1, <1>2, <3>2, <3>4 DEF MayChoose, Asking
      <4> QED
        BY <4>1
    <3> QED
      BY <3>3, <3>4
  <2>3. ASSUME NEW j \in DOMAIN s, c < j, Asking(s[j]) PROVE MayChoose(w[j])
    <3>1. j # c /\ ~s[j].served
      BY <1>5, <2>3
    <3> QED
      BY <1>1, <2>3, <3>1 DEF MayChoose
  <2> QED
    BY <2>1, <2>2, <2>3 DEF Orderly, RightHeader, SameHeader
<1>11. RightUser(w, pg, te, un)
  <2>1. CASE \E j \in DOMAIN s : j # c /\ Asking(s[j]) /\ ~s[j].served
    BY <1>1, <2>1 DEF RightUser
  <2>2. ASSUME \A j \in DOMAIN s : j # c /\ Asking(s[j]) => s[j].served PROVE RightUser(w, pg, te, un)
    <3>1. CASE Asking(s[c])
      <4>1. Asking(w[c]) /\ w[c].served /\ ~w[c].old /\ Tells(w[c].answer, te)
        BY <1>1, <1>2, <3>1 DEF Asking
      <4>2. \A j \in DOMAIN s : c < j => ~Asking(w[j])
        BY <1>2, <1>5, <2>2
      <4>3. LastTells(w, te)
        BY <1>1, <4>1, <4>2 DEF LastTells
      <4> QED
        BY <4>3 DEF RightUser
    <3>2. CASE s[c].heard /\ WillAsk(w[c])
      BY <1>1, <3>2 DEF RightUser
    <3>3. ASSUME ~Asking(s[c]), (te.user = se.user /\ te.hist = se.hist) \/ ~s[c].heard
          PROVE  RightUser(w, pg, te, un)
      <4>1. \A j \in DOMAIN s : Asking(s[j]) => s[j].served
        BY <2>2, <3>3
      <4>2. CASE \E j \in DOMAIN s : WillAsk(s[j])
        <5>1. PICK j \in DOMAIN s : WillAsk(s[j])
          BY <4>2
        <5>2. w[j] = s[j]
          BY <1>1, <5>1 DEF WillAsk
        <5> QED
          BY <1>1, <5>1, <5>2 DEF RightUser
      <4>3. CASE un /\ \A j \in DOMAIN s : Asking(s[j]) /\ s[j].served => s[j].old
        <5>1. \A j \in DOMAIN s : Asking(w[j]) => w[j] = s[j]
          BY <1>1, <1>2, <3>3
        <5>2. \A j \in DOMAIN w : Asking(w[j]) /\ w[j].served => w[j].old
          BY <1>1, <4>3, <5>1
        <5> QED
          BY <4>3, <5>2 DEF RightUser
      <4>4. ASSUME ~s[c].heard PROVE un /\ ~LastTells(s, se)
        <5>1. un \/ ~un
          OBVIOUS
        <5>2. ASSUME ~un PROVE FALSE
          BY <4>1, <4>4, <5>2 DEF Orderly, AsksFirst
        <5>3. ASSUME NEW i \in DOMAIN s, Asking(s[i]), s[i].served PROVE FALSE
          <6>1. c < i
            BY <1>3, <4>4, <5>3 DEF UnheardFirst, Asking
          <6> QED
            BY <5>3, <6>1 DEF Orderly, InOrder, Asking
        <5> QED
          BY <5>1, <5>2, <5>3 DEF LastTells
      <4>5. CASE LastTells(s, se)
        <5>1. te.user = se.user /\ te.hist = se.hist
          BY <3>3, <4>4, <4>5
        <5>2. PICK i \in DOMAIN s : /\ Asking(s[i]) /\ s[i].served /\ ~s[i].old /\ Tells(s[i].answer, se)
                                    /\ \A j \in DOMAIN s : i < j => ~Asking(s[j])
          BY <4>5 DEF LastTells
        <5>3. w[i] = s[i] /\ Tells(w[i].answer, te) /\ \A j \in DOMAIN s : i < j => ~Asking(w[j])
          BY <1>1, <1>2, <5>1, <5>2 DEF Tells
        <5>4. LastTells(w, te)
          BY <1>1, <5>2, <5>3 DEF LastTells
        <5> QED
          BY <5>4 DEF RightUser
      <4>6. CASE ~un /\ (\A i \in DOMAIN s : ~Asking(s[i])) /\ pg.user = se.user /\ pg.imp = (se.hist # <<>>)
        <5>1. te.user = se.user /\ te.hist = se.hist
          BY <3>3, <4>4, <4>6
        <5>2. \A i \in DOMAIN w : ~Asking(w[i])
          BY <1>1, <1>2, <4>6
        <5> QED
          BY <4>6, <5>1, <5>2 DEF RightUser
      <4> QED
        BY <4>1, <4>2, <4>3, <4>5, <4>6 DEF RightUser
    <3> QED
      BY <3>1, <3>2, <3>3 DEF Asking
  <2> QED
    BY <2>1, <2>2
<1> QED
  BY <1>4, <1>6, <1>7, <1>8, <1>9, <1>10, <1>11 DEF Orderly

LEMMA DefaultProjectIs ==
  ASSUME last \in [Users -> Somewhere], NEW u \in Users, NEW p \in Somewhere
  PROVE  DefaultProject(u, p) \in Somewhere /\ (p # NoProject => DefaultProject(u, p) = p)
<1>1. ProjectsOf[u] \subseteq Projects
  BY UserSessionAssumption
<1>2. CASE p # NoProject
  BY <1>2 DEF DefaultProject
<1>3. CASE p = NoProject /\ last[u] \in ProjectsOf[u]
  <2>1. DefaultProject(u, p) = last[u]
    BY <1>3 DEF DefaultProject
  <2> QED
    BY <1>1, <1>3, <2>1 DEF Somewhere
<1>4. CASE p = NoProject /\ last[u] \notin ProjectsOf[u]
  <2>1. DefaultProject(u, p) = IF ProjectsOf[u] = {} THEN NoProject ELSE CHOOSE q \in ProjectsOf[u] : TRUE
    BY <1>4 DEF DefaultProject
  <2>2. ProjectsOf[u] # {} => (CHOOSE q \in ProjectsOf[u] : TRUE) \in ProjectsOf[u]
    OBVIOUS
  <2> QED
    BY <1>1, <1>4, <2>1, <2>2 DEF Somewhere
<1> QED
  BY <1>2, <1>3, <1>4

LEMMA ServeKeeps == ASSUME SessionInv, NEW c \in DOMAIN calls, Serve(c) PROVE SessionInv'
<1>0. /\ PageFits(page) /\ SessionFits(session) /\ calls \in Seq(SentCalls)
      /\ unaware \in BOOLEAN /\ overtaken \in BOOLEAN /\ UnheardFirst(calls)
      /\ ~overtaken => Orderly(calls, page, session, unaware) /\ RightUser(calls, page, session, unaware)
      /\ last \in [Users -> Somewhere]
  BY SessionInvParts
<1>1. PICK d : d = calls[c]
  OBVIOUS
<1>2. /\ d \in SentCalls /\ d \in CallTypes /\ AnswerFits(d) /\ d.answer \in AnswerTypes /\ ~d.served
      /\ d.header \in Somewhere
  BY <1>0, <1>1, AnswerIs DEF Serve, SentCalls, CallTypes
<1>3. PICK s : s = [session EXCEPT !.project = Selected(d)]
  OBVIOUS
<1>4. /\ SessionFits(s) /\ s.user = session.user /\ s.hist = session.hist /\ s \in SessionTypes
      /\ s.project = IF d.header # NoProject THEN d.header ELSE session.project
  BY <1>0, <1>2, <1>3 DEF SessionFits, SessionTypes, Selected
<1>5. /\ overtaken' = (overtaken \/ \E m \in 1..(c - 1) : ~calls[m].served)
      /\ UNCHANGED <<page, unaware, clicks, faults>>
  BY DEF Serve
<1>6. overtaken' \in BOOLEAN /\ (~overtaken' => ~overtaken /\ \A m \in DOMAIN calls : m < c => calls[m].served)
  <2>1. DOMAIN calls = 1..Len(calls) /\ Len(calls) \in Nat
    BY <1>0
  <2>2. \A m \in DOMAIN calls : m < c => m \in 1..(c - 1)
    BY <2>1
  <2> DEFINE ot == overtaken \/ \E m \in 1..(c - 1) : ~calls[m].served
  <2>3. ot \in BOOLEAN /\ overtaken' = ot
    BY <1>5
  <2>4. ~ot => ~overtaken /\ \A m \in DOMAIN calls : m < c => calls[m].served
    BY <2>2
  <2> HIDE DEF ot
  <2> QED
    BY <2>3, <2>4
<1>7. ASSUME NEW a \in AnswerTypes, calls' = Answered(calls, c, a), ServedSession(s, session'),
             last' \in [Users -> Somewhere],
             d.kind = "profile" =>
               /\ AnswerFits([d EXCEPT !.served = TRUE, !.answer = a])
               /\ Tells(a, session') /\ (a.ok /\ session'.project # NoProject => a.project # NoProject),
             d.kind # "profile" =>
               (d.heard => \/ d.kind \in {"logout", "impersonate"}
                           \/ d.kind \in {"login", "release"} /\ a.ok)
                 \/ session' = s
      PROVE  SessionInv'
  <2>0. PICK w : w = Answered(calls, c, a)
    OBVIOUS
  <2>1. IsAnswered(calls, c, a, w)
    <3>1. ~calls[c].served
          /\ (calls[c].kind = "profile" => AnswerFits([calls[c] EXCEPT !.served = TRUE, !.answer = a]))
      BY <1>1, <1>2, <1>7
    <3> QED
      BY <1>0, <2>0, <3>1, AnsweredIs
  <2>2. UnheardFirst(w) /\ w \in Seq(SentCalls)
    <3>1. DOMAIN w = DOMAIN calls /\ \A i \in DOMAIN calls : w[i].heard = calls[i].heard
      BY <2>1 DEF IsAnswered
    <3> QED
      BY <1>0, <2>1, <3>1 DEF UnheardFirst, IsAnswered
  <2>3. ASSUME ~overtaken'
        PROVE  Orderly(w, page, session', unaware) /\ RightUser(w, page, session', unaware)
    <3>1. session'.project \in {IF calls[c].header # NoProject THEN calls[c].header ELSE session.project, NoProject}
      BY <1>1, <1>4, <1>7 DEF ServedSession
    <3>2. calls[c].kind # "profile" =>
            (calls[c].heard => WillAsk(w[c])) \/ (session'.user = session.user /\ session'.hist = session.hist)
      <4>1. w[c].kind = d.kind /\ w[c].heard = d.heard /\ w[c].served /\ w[c].answer = a
        BY <1>1, <2>1 DEF IsAnswered
      <4> QED
        BY <1>1, <1>4, <1>7, <4>1 DEF WillAsk
    <3>3. /\ Orderly(calls, page, session, unaware) /\ RightUser(calls, page, session, unaware)
          /\ \A m \in DOMAIN calls : m < c => calls[m].served
      BY <1>0, <1>6, <2>3
    <3>4. /\ ~calls[c].served
          /\ calls[c].kind = "profile" =>
               /\ AnswerFits([calls[c] EXCEPT !.served = TRUE, !.answer = a])
               /\ Tells(a, session') /\ (a.ok /\ session'.project # NoProject => a.project # NoProject)
      BY <1>1, <1>2, <1>7
    <3> QED
      BY <1>0, <2>0, <3>1, <3>2, <3>3, <3>4, ServedStep
  <2>4. SessionParts(calls', page', session', unaware', overtaken')
    BY <1>0, <1>5, <1>6, <1>7, <2>0, <2>2, <2>3 DEF SessionParts, ServedSession
  <2> QED
    BY <1>7, <2>4 DEF SessionInv
<1>8. ASSUME d.kind = "profile", CurrentProfile(c, s) PROVE SessionInv'
  <2> DEFINE a == IF s.user = NoUser THEN Unanswered
                  ELSE [ok |-> TRUE, user |-> s.user, imp |-> s.hist # <<>>,
                        basis |-> <<s.user, s.project>>,
                        project |-> DefaultProject(s.user, s.project)]
  <2>1. calls' = Answered(calls, c, a) /\ session' = s
    BY <1>8 DEF CurrentProfile, Answered
  <2>2. s.user \in Somebody /\ s.project \in Somewhere
    BY <1>4 DEF SessionTypes
  <2>3. s.user # NoUser => /\ s.user \in Users /\ DefaultProject(s.user, s.project) \in Somewhere
                           /\ s.project # NoProject => DefaultProject(s.user, s.project) = s.project
    BY <1>0, <2>2, DefaultProjectIs DEF Somebody
  <2>4. a \in AnswerTypes
    BY <1>2, <2>2, <2>3, AnswerIs DEF AnswerTypes
  <2>5. IF s.user = NoUser THEN a = Unanswered /\ ~a.ok
        ELSE /\ a.ok /\ a.user = s.user /\ a.imp = (s.hist # <<>>) /\ a.basis[1] = s.user
             /\ a.basis[2] = s.project /\ a.project = DefaultProject(s.user, s.project)
    BY DEF Unanswered
  <2> HIDE DEF a
  <2>6. PICK e : e = [d EXCEPT !.served = TRUE, !.answer = a]
    OBVIOUS
  <2>7. /\ e.kind = "profile" /\ e.then = d.then /\ e.header = d.header /\ e.served /\ e.answer = a
    BY <1>2, <1>8, <2>6 DEF CallTypes
  <2>8. AnswerFits(e)
    BY <1>2, <1>4, <1>8, <2>3, <2>5, <2>7 DEF AnswerFits
  <2>9. Tells(a, s) /\ (a.ok /\ s.project # NoProject => a.project # NoProject)
    BY <2>3, <2>5 DEF Tells
  <2>10. ServedSession(s, s)
    BY <1>4 DEF ServedSession
  <2>11. last' \in [Users -> Somewhere]
    BY <1>0, <1>8, <2>2 DEF CurrentProfile
  <2> QED
    BY <1>7, <1>8, <2>1, <2>4, <2>6, <2>8, <2>9, <2>10, <2>11
<1>9. ASSUME NEW te, Done(c, te), ServedSession(s, te), d.kind # "profile" PROVE SessionInv'
  <2>1. PICK a : a = [d.answer EXCEPT !.ok = TRUE]
    OBVIOUS
  <2>2. a \in AnswerTypes /\ a.ok
    BY <1>2, <2>1 DEF AnswerTypes
  <2>3. calls' = Answered(calls, c, a)
    <3>1. calls' = [calls EXCEPT ![c] = [d EXCEPT !.served = TRUE, !.answer = a]]
      BY <1>1, <1>2, <1>9, <2>1 DEF Done, CallTypes
    <3> QED
      BY <1>1, <3>1 DEF Answered
  <2>4. d.kind \in {"login", "logout", "impersonate", "release"}
    BY <1>2, <1>9 DEF CallTypes
  <2> QED
    BY <1>0, <1>7, <1>9, <2>2, <2>3, <2>4 DEF Done
<1>10. ASSUME Refused(c, s), d.kind # "profile" PROVE SessionInv'
  <2>1. calls' = Answered(calls, c, d.answer)
    <3>1. [d EXCEPT !.served = TRUE] = [d EXCEPT !.served = TRUE, !.answer = d.answer]
      BY <1>2 DEF CallTypes
    <3>2. calls' = [calls EXCEPT ![c] = [d EXCEPT !.served = TRUE]]
      BY <1>1, <1>10 DEF Refused
    <3> QED
      BY <1>1, <3>1, <3>2 DEF Answered
  <2>2. ServedSession(s, s)
    BY <1>4 DEF ServedSession
  <2> QED
    BY <1>0, <1>2, <1>7, <1>10, <2>1, <2>2 DEF Refused
<1>11. CASE d.kind = "profile"
  <2>1. CurrentProfile(c, s)
    BY <1>1, <1>3, <1>11 DEF Serve
  <2> QED
    BY <1>8, <1>11, <2>1
<1>12. CASE d.kind = "login"
  <2>1. Done(c, LoggedIn(s, d.arg)) \/ Refused(c, s)
    BY <1>1, <1>3, <1>12 DEF Serve
  <2>2. d.arg \in Users
    BY <1>2, <1>12 DEF AnswerFits
  <2> QED
    BY <1>4, <1>9, <1>10, <1>12, <2>1, <2>2, LoggedInIs
<1>13. CASE d.kind = "logout"
  <2>1. Done(c, NoSession)
    BY <1>1, <1>3, <1>13 DEF Serve
  <2>2. ServedSession(s, NoSession)
    <3>1. <<>> \in Seq(Users) /\ NoUser \in Somebody /\ NoProject \in Somewhere
      BY DEF Somebody, Somewhere
    <3> QED
      BY <3>1 DEF ServedSession, SessionFits, SessionTypes, NoSession
  <2> QED
    BY <1>9, <1>13, <2>1, <2>2
<1>14. CASE d.kind = "impersonate"
  <2>1. IF s.user \in Staff \ {d.arg} THEN Done(c, Hijack(s, d.arg)) ELSE Refused(c, s)
    BY <1>1, <1>3, <1>14 DEF Serve
  <2>2. d.arg \in Users
    BY <1>2, <1>14 DEF AnswerFits
  <2> QED
    BY <1>4, <1>9, <1>10, <1>14, <2>1, <2>2, HijackIs
<1>15. CASE d.kind = "release"
  <2>1. IF s.user # NoUser /\ s.hist # <<>> THEN Done(c, Released(s)) ELSE Refused(c, s)
    BY <1>1, <1>3, <1>15 DEF Serve
  <2> QED
    BY <1>4, <1>9, <1>10, <1>15, <2>1, ReleasedIs
<1> QED
  BY <1>2, <1>11, <1>12, <1>13, <1>14, <1>15 DEF CallTypes

LEMMA InitSessionInv == Init => SessionInv
<1> SUFFICES ASSUME Init PROVE SessionInv
  OBVIOUS
<1>0. NoUser \in Somebody /\ NoProject \in Somewhere /\ Users \subseteq Somebody
      /\ NoUser \notin Users
  BY UserSessionAssumption DEF Somebody, Somewhere
<1> DEFINE none == <<>>
<1>1. PICK c : c = Profile("stay", NoProject)
  OBVIOUS
<1>2. c \in SentCalls /\ Asking(c) /\ Unsent(c) /\ c.header = NoProject
  BY <1>0, <1>1, ProfileIs
<1>3. /\ page = Anonymous /\ last = [u \in Users |-> NoProject] /\ overtaken = FALSE /\ unaware = FALSE
      /\ session \in {NoSession} \union {[NoSession EXCEPT !.user = u] : u \in Users}
      /\ calls = <<c>> \/ (calls = none /\ session = NoSession)
  BY <1>1 DEF Init, UserSessionInit, Opened
<1>4. page.user = NoUser /\ ~page.imp /\ PageFits(page)
  BY <1>3, AnonymousFits DEF Anonymous
<1>5. SessionFits(session) /\ (session = NoSession => session.user = NoUser /\ session.hist = <<>>)
  <2>1. <<>> \in Seq(Users) /\ NoSession = [user |-> NoUser, hist |-> <<>>, project |-> NoProject]
    BY DEF NoSession
  <2>2. ASSUME NEW u \in Users
        PROVE  [NoSession EXCEPT !.user = u] = [user |-> u, hist |-> <<>>, project |-> NoProject]
    BY DEF NoSession
  <2>3. CASE session = NoSession
    BY <1>0, <2>1, <2>3 DEF SessionFits, SessionTypes
  <2>4. ASSUME NEW u \in Users, session = [NoSession EXCEPT !.user = u]
        PROVE  SessionFits(session) /\ session # NoSession
    BY <1>0, <2>1, <2>2, <2>4 DEF SessionFits, SessionTypes
  <2> QED
    BY <1>3, <2>3, <2>4
<1>6. calls \in Seq(SentCalls) /\ UnheardFirst(calls) /\ InOrder(calls)
  <2>1. CASE calls = <<c>>
    BY <1>2, <2>1 DEF UnheardFirst, InOrder
  <2>2. CASE calls = none
    BY <2>2 DEF UnheardFirst, InOrder
  <2> QED
    BY <1>3, <2>1, <2>2
<1>7. /\ \A i \in DOMAIN calls : calls[i].heard
      /\ \/ \E i \in DOMAIN calls : Asking(calls[i]) /\ ~calls[i].served
         \/ DOMAIN calls = {} /\ session = NoSession
  <2>1. CASE calls = <<c>>
    <3>1. DOMAIN calls = {1} /\ calls[1] = c
      BY <2>1
    <3> QED
      BY <1>2, <3>1 DEF Unsent
  <2>2. CASE calls = none /\ session = NoSession
    BY <2>2
  <2> QED
    BY <1>3, <2>1, <2>2
<1>8. Orderly(calls, page, session, FALSE)
  BY <1>4, <1>6, <1>7 DEF Orderly, GoneServed, AsksFirst, RightHeader, RightBasis, RightProject
<1>9. RightUser(calls, page, session, FALSE)
  <2>1. CASE DOMAIN calls = {} /\ session = NoSession
    <3>1. page.user = session.user /\ page.imp = (session.hist # <<>>)
      BY <1>3, <1>5, <2>1 DEF Anonymous
    <3> QED
      BY <2>1, <3>1 DEF RightUser
  <2> QED
    BY <1>7, <2>1 DEF RightUser
<1>10. last \in [Users -> Somewhere]
  BY <1>0, <1>3
<1> QED
  BY <1>3, <1>4, <1>5, <1>6, <1>8, <1>9, <1>10 DEF SessionInv, SessionParts

LEMMA NextSessionInv == SessionInv /\ [UserSessionNext]_sessionVars => SessionInv'
<1> SUFFICES ASSUME SessionInv, [UserSessionNext]_sessionVars PROVE SessionInv'
  OBVIOUS
<1>1. CASE UNCHANGED sessionVars
  BY <1>1 DEF sessionVars, SessionInv
<1>2. ASSUME Serving PROVE SessionInv'
  BY <1>2, ServeKeeps DEF Serving
<1>3. ASSUME Answering PROVE SessionInv'
  BY <1>3, ReceiveKeeps, ForgetKeeps DEF Answering
<1>4. ASSUME NEW c \in DOMAIN calls, Lose(c) PROVE SessionInv'
  BY <1>4, LoseKeeps
<1> QED
  BY <1>1, <1>2, <1>3, <1>4, ClicksKeep, EndSessionKeeps DEF UserSessionNext

(* When all calls are answered, in their order and none lost, the page shows *)
(* the user and the impersonation of the session, permissions of this user   *)
(* in the project it shows, and the project its next call will work in       *)
(* (state.ts, login.ts, project-list.ts; middleware.py, profile.py).         *)
THEOREM PagesAgree == Spec => []PageAgrees
<1>1. SessionInv /\ [Next]_vars => SessionInv'
  BY EachPartSteps, NextSessionInv
<1> QED
  BY <1>1, InitSessionInv, SessionInvImplies, PTL DEF Spec

-----------------------------------------------------------------------------
(* Users are warned in time, and of what their messages cost.                *)
THEOREM LicenceStaysRight == Spec => []LicenceIsRight
<1>1. WarningFollowsCredit /\ ChargedAsFewest => LicenceIsRight
  BY DEF LicenceIsRight
<1> QED BY <1>1, WarningIsRight, ChargedAsFewestMessages, PTL

=============================================================================
