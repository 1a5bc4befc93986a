---------------------------- MODULE SettingsPage ----------------------------
(* The page of a project's settings (project-settings.vue): a cookie that    *)
(* the server sets with each list names the settings whose value is pending  *)
(* (rest/project.py), a timer asks for the first of them, and a dialog for   *)
(* its confirmation, whose calls lead to each other.  The calls are served   *)
(* and answered in any order and may fail; other pages edit and confirm.     *)
EXTENDS Naturals, Sequences, SequencesExt

CONSTANTS MaxIssued, MaxUnanswered, MaxOthers    \* bounds

ASSUME SettingsPageAssumption == {MaxIssued, MaxUnanswered, MaxOthers} \subseteq Nat \ {0}

VARIABLES
  pending,    \* the senders with a pending value
  verified,   \* SES knows that the owner has the pending address
  cookie,     \* setting-verification: the senders it names
  unanswered, \* the calls of the page: what for, of which sender, served, and
              \* the senders in the answer
  issued, outside,  \* calls, and what happened outside the page
  dialog,     \* "none", "sms", "mail", "again"
  visible,    \* settingsConfirmationVisible
  stale       \* the page cannot know what is pending: somebody else changed
              \* it, an answer was lost, or overtaken by a later one

settingsPageVars == <<pending, verified, cookie, unanswered, issued, outside, dialog, visible, stale>>

Senders == {"sms", "mail"}
\* The cookie has the newest first, and the sender of SMS is created last.
First(c) == IF "sms" \in c THEN "sms" ELSE "mail"

Unserved(do, s) == [do |-> do, of |-> s, served |-> FALSE, got |-> {}]
Lists == <<Unserved("list", "mail")>>
Checks == IF cookie = {} THEN <<>> ELSE <<Unserved("check", First(cookie))>>

\* Calls that follow the answer or failure of call i, if any (i = 0: none).
Issues(i, next) ==
  /\ issued + Len(next) <= MaxIssued /\ issued' = issued + Len(next)
  /\ unanswered' = (IF i = 0 THEN unanswered ELSE RemoveAt(unanswered, i)) \o next
  /\ Len(unanswered') <= MaxUnanswered

SettingsServer == <<pending, verified>>
PageState == <<cookie, dialog, visible, stale>>

-----------------------------------------------------------------------------
\* refreshSettingsLogicAndCheckSettings: the check finds the cookie as it was.
OpenSettings == Issues(0, Lists \o Checks) /\ UNCHANGED <<SettingsServer, PageState, outside>>

\* Every 45 seconds.
CheckSettings ==
  /\ cookie # {}
  /\ Issues(0, Checks)
  /\ UNCHANGED <<SettingsServer, PageState, outside>>

\* The actions of the table: reset-pending, and for operators
\* confirm-setting-active.
OfTable(do, s) == Issues(0, <<Unserved(do, s)>>) /\ UNCHANGED <<SettingsServer, PageState, outside>>

\* The user closes the dialog he was told of the SMS sender by, or cancels.
CloseQuestion ==
  /\ dialog \in {"sms", "mail"} /\ dialog' = "none" /\ visible' = FALSE
  /\ UNCHANGED <<SettingsServer, cookie, stale, unanswered, issued, outside>>

SaysConfirmed ==
  /\ dialog = "mail" /\ dialog' = "none"
  /\ Issues(0, <<Unserved("confirm", "mail")>>)
  /\ UNCHANGED <<SettingsServer, cookie, visible, stale, outside>>

TryLater ==
  /\ dialog = "again" /\ dialog' = "none" /\ visible' = FALSE
  /\ Issues(0, Lists)
  /\ UNCHANGED <<SettingsServer, cookie, stale, outside>>

UseOldSender ==
  /\ dialog = "again" /\ dialog' = "none"
  /\ Issues(0, <<Unserved("reset", "mail")>>)
  /\ UNCHANGED <<SettingsServer, cookie, visible, stale, outside>>

-----------------------------------------------------------------------------
(* The server.  What the pending values become is in ProjectSettings. *)

Gone(c) ==
  CASE c.do = "confirm" -> IF verified THEN {c.of} ELSE {}
    [] c.do \in {"reset", "resetRow", "activate"} -> {c.of}
    [] OTHER -> {}

ServeSettings(i) ==
  /\ ~unanswered[i].served
  /\ unanswered' = [unanswered EXCEPT ![i] = [@ EXCEPT !.served = TRUE, !.got = pending]]
  /\ pending' = pending \ Gone(unanswered[i])
  /\ UNCHANGED <<verified, PageState, issued, outside>>

\* Another page proposes a value, or its operator confirms one.
OthersChange(new) ==
  /\ outside < MaxOthers /\ outside' = outside + 1 /\ stale' = TRUE
  /\ pending' = new
  /\ verified' = (verified /\ "mail" \in new \intersect pending)
  /\ UNCHANGED <<cookie, dialog, visible, unanswered, issued>>

OwnerClicksLink ==
  /\ "mail" \in pending /\ ~verified /\ verified' = TRUE
  /\ UNCHANGED <<pending, PageState, unanswered, issued, outside>>

-----------------------------------------------------------------------------
(* The answers *)

Arrived(i, do) == unanswered[i].do = do /\ unanswered[i].served

\* The browser takes over the cookie of the answer.
Listed(i) ==
  /\ Arrived(i, "list") /\ Issues(i, <<>>)
  /\ cookie' = unanswered[i].got /\ stale' = (cookie' # pending)
  /\ UNCHANGED <<SettingsServer, dialog, visible, outside>>

\* confirmSetting, whatever the setting that came is like.
Checked(i) ==
  /\ Arrived(i, "check") /\ Issues(i, <<>>)
  /\ visible' = TRUE
  /\ dialog' = IF visible THEN dialog ELSE unanswered[i].of
  /\ UNCHANGED <<SettingsServer, cookie, stale, outside>>

\* Mutant: the sender stays in the cookie.
ConfirmedKeeps(i) ==
  /\ Arrived(i, "confirm") /\ Issues(i, <<Unserved("look", "mail")>>)
  /\ UNCHANGED <<SettingsServer, PageState, outside>>

\* It leaves the cookie, and the page looks whether it is still pending.
Confirmed(i) ==
  /\ Arrived(i, "confirm") /\ Issues(i, <<Unserved("look", "mail")>>)
  /\ cookie' = cookie \ {"mail"}
  /\ UNCHANGED <<SettingsServer, dialog, visible, stale, outside>>

LookedAt(i) ==
  /\ Arrived(i, "look") /\ Issues(i, <<>>)
  /\ IF "mail" \in unanswered[i].got
     THEN dialog' = "again" /\ UNCHANGED visible
     ELSE visible' = FALSE /\ UNCHANGED dialog
  /\ UNCHANGED <<SettingsServer, cookie, stale, outside>>

\* Reset by the dialog: in the end the list comes again, whatever happened.
ResetDone(i) ==
  /\ Arrived(i, "reset") /\ Issues(i, Lists) /\ visible' = FALSE
  /\ UNCHANGED <<SettingsServer, cookie, dialog, stale, outside>>

TableDone(i) ==
  /\ (Arrived(i, "resetRow") \/ Arrived(i, "activate")) /\ Issues(i, Lists)
  /\ UNCHANGED <<SettingsServer, PageState, outside>>

\* A call fails before or after it was served.
FailSettings(i) ==
  /\ LET do == unanswered[i].do
     IN /\ Issues(i, IF do = "reset" THEN Lists ELSE <<>>)
        /\ visible' = (visible /\ do \notin {"confirm", "look", "reset"})
        /\ stale' = (stale \/ do # "check")
  /\ outside < MaxOthers /\ outside' = outside + 1
  /\ UNCHANGED <<SettingsServer, cookie, dialog>>

SettingsPageInit ==
  /\ pending \in SUBSET Senders /\ verified = FALSE /\ cookie = pending
  /\ unanswered = <<>> /\ issued = 0 /\ outside = 0
  /\ dialog = "none" /\ visible = FALSE /\ stale = FALSE

SettingsPageNext ==
  \/ OpenSettings \/ CheckSettings \/ CloseQuestion \/ SaysConfirmed \/ TryLater \/ UseOldSender
  \/ OwnerClicksLink
  \/ \E s \in Senders : OfTable("resetRow", s) \/ OfTable("activate", s)
  \/ \E new \in SUBSET Senders : OthersChange(new)
  \/ \E i \in DOMAIN unanswered :
       \/ ServeSettings(i) \/ Listed(i) \/ Checked(i) \/ Confirmed(i) \/ LookedAt(i)
       \/ ResetDone(i) \/ TableDone(i) \/ FailSettings(i)

-----------------------------------------------------------------------------
Flow == {i \in DOMAIN unanswered : unanswered[i].do \in {"confirm", "look", "reset"}}

(* There is one question at a time, from the dialog to the last of its       *)
(* calls, and the page is free to ask again after it, whatever failed; and   *)
(* when nothing is under way, the cookie names just what is pending, unless  *)
(* the page could not know.                                                  *)
QuestionsAreRight ==
  /\ \A i, j \in Flow : i = j
  /\ Flow # {} => dialog = "none"
  /\ visible <=> (Flow # {} \/ dialog # "none")
  /\ unanswered = <<>> /\ ~visible /\ ~stale => cookie = pending

=============================================================================
