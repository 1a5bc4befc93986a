------------------------------ MODULE Licence -------------------------------
(* What is left of a license: the ledger that deliveries write and check     *)
(* (LogAccessService), the report over it, and the notifications editor      *)
(* (notifications-editor.vue), which asks for the report every 15 seconds    *)
(* and warns.  Its calls are served and answered in any order.               *)
EXTENDS SMSCounter, FiniteSetsExt, TLC

CONSTANTS
  Channels, Price,    \* and what a message of a channel costs
  ShortTexts,         \* texts that are sent
  MaxCopies,          \* recipients of a delivery
  TopUp,              \* an amount of credit
  NoReport, MaxEntries, MaxPolls

ASSUME LicenceAssumption ==
  /\ "SMS" \in Channels /\ Price \in [Channels -> Nat \ {0}] /\ ShortTexts \subseteq Text
  /\ \E dearest \in Channels : \A c \in Channels : Price[c] <= Price[dearest]
  /\ {MaxCopies, TopUp, MaxEntries, MaxPolls} \subseteq Nat \ {0}

VARIABLES
  ledger,    \* sums over a user's rows: credit and use for notifications, the
             \* use of other records
  entries,   \* its rows, for the bound
  polls,     \* the calls of the editor: remaining as the report had it, or NoReport
  asked,
  shown,     \* licenseConsumedShown: the warning was shown once
  toast,     \* and it is on the screen
  current    \* the last answer is what a report would say now

licenceVars == <<ledger, entries, polls, asked, shown, toast, current>>

-----------------------------------------------------------------------------
\* log: the rows of the notification's content type only.
LetThrough == ledger.used - ledger.credit < 0

\* on_sucess: the messages a channel sent, for SMS times the parts of the text.
AccessesUsed(channel, copies, text) == IF channel = "SMS" THEN copies * Count(text) ELSE copies

Written(row) ==
  /\ entries < MaxEntries /\ entries' = entries + 1
  /\ ledger' = row /\ current' = FALSE
  /\ UNCHANGED <<polls, asked, shown, toast>>

Deliver(channel, copies, text) ==
  /\ LetThrough
  /\ Written([ledger EXCEPT !.used = @ + AccessesUsed(channel, copies, text) * Price[channel]])

Grant == Written([ledger EXCEPT !.credit = @ + TopUp])

UseOther == Written([ledger EXCEPT !.other = @ + 1])

-----------------------------------------------------------------------------
\* report: the rows of all content types.
RemainingCredit == ledger.credit - (ledger.used + ledger.other)

\* decorate-max-price
MaxPrice == Max({Price[c] : c \in Channels})

Poll ==
  /\ asked < MaxPolls /\ asked' = asked + 1
  /\ polls' = polls @@ (asked :> NoReport)
  /\ UNCHANGED <<ledger, entries, shown, toast, current>>

Report(p) ==
  /\ polls[p] = NoReport /\ polls' = [polls EXCEPT ![p] = RemainingCredit]
  /\ UNCHANGED <<ledger, entries, asked, shown, toast, current>>

\* Mutant: the warning stays.
AnswerKeepsToast(p) ==
  /\ polls[p] # NoReport
  /\ LET few == polls[p] < MaxPrice
     IN /\ toast' = (toast \/ (few /\ ~shown)) /\ shown' = (shown \/ few)
  /\ current' = (polls[p] = RemainingCredit)
  /\ polls' = [q \in DOMAIN polls \ {p} |-> polls[q]]
  /\ UNCHANGED <<ledger, entries, asked>>

\* The warning is shown once; what is on the screen closes with an answer that
\* there is enough.
Answer(p) ==
  /\ polls[p] # NoReport
  /\ LET few == polls[p] < MaxPrice
     IN /\ toast' = (few /\ (toast \/ ~shown)) /\ shown' = (shown \/ few)
  /\ current' = (polls[p] = RemainingCredit)
  /\ polls' = [q \in DOMAIN polls \ {p} |-> polls[q]]
  /\ UNCHANGED <<ledger, entries, asked>>

CloseToast == toast /\ toast' = FALSE /\ UNCHANGED <<ledger, entries, polls, asked, shown, current>>

LicenceInit ==
  /\ ledger = [credit |-> 0, used |-> 0, other |-> 0] /\ entries = 0
  /\ polls = <<>> /\ asked = 0 /\ shown = FALSE /\ toast = FALSE /\ current = FALSE

LicenceNext ==
  \/ \E c \in Channels, n \in 1..MaxCopies, text \in ShortTexts : Deliver(c, n, text)
  \/ Grant \/ UseOther \/ Poll \/ CloseToast
  \/ \E p \in DOMAIN polls : Report(p) \/ Answer(p)

-----------------------------------------------------------------------------
(* While the last answer is up to date, a user whose notifications are       *)
(* refused has been warned, if only notifications use his license, and the   *)
(* warning is on the screen only while a message may be too dear.            *)
WarningFollowsCredit ==
  current => /\ ~LetThrough /\ ledger.other = 0 => shown
             /\ toast => RemainingCredit < MaxPrice

(* A text is charged as the fewest messages that hold it, and never as fewer *)
(* once it is typed on, whichever encoding the character calls for (t2.py,   *)
(* count, which on_sucess of the channel multiplies by the recipients).      *)
ChargedAsFewest ==
  \A text \in ShortTexts :
    /\ Holds(Count(text), text)
    /\ \A fewer \in 0..(Count(text) - 1) : ~Holds(fewer, text)
    /\ \A code \in Gsm7Bit \union Gsm7BitEx \union {1} : Count(text) <= Count(Typed(text, code))

(* Users are warned in time, and of what their messages really cost.         *)
LicenceIsRight == WarningFollowsCredit /\ ChargedAsFewest

=============================================================================
