---------------------------- MODULE CodeDialogs -----------------------------
(* The dialogs that ask for a mailed code: after a registration              *)
(* (login-inline.vue) and after a change of the address (user-profile.vue).  *)
(* Each tab of a browser has one dialog or one call; the cookies             *)
(* register-flow and verify-email and the session are common to the tabs.    *)
(* What registration does to users is in Registration, what a confirmation   *)
(* does to profiles in Profiles.                                             *)
EXTENDS Naturals, FiniteSets

CONSTANTS Tabs, MaxCodes, MaxTyped    \* bounds: codes made and codes typed

ASSUME CodeDialogsAssumption == "none" \notin Tabs /\ {MaxCodes, MaxTyped} \subseteq Nat \ {0}

VARIABLES
  tab,       \* tab -> its dialog or call; the code typed; the answer; whether
             \* openRegistrationForm waits for the dialog; whose address changed
  registerFlow, verifyEmail,    \* the cookies: the code of the flow or 0; a user
  flows,     \* code -> the tab whose user is cached under it, or "none"; only
             \* of codes whose time is not up
  signedUp,  \* tab -> the user it registered: "no", "inactive", "active", and the codes
             \* mailed to the address he has now
  loggedIn,  \* the user, named by the tab that registered him, or "none"
  codes,     \* the codes for new addresses in the session
  made, typed,
  confused  \* which kind of codes may be confused: tabs crossed each other,
             \* an answer was lost, a session ended

dialogVars == <<tab, registerFlow, verifyEmail, flows, signedUp, loggedIn, codes, made, typed, confused>>

FlowCookies == <<registerFlow, verifyEmail>>
AccountServer == <<flows, signedUp, loggedIn, codes>>

NewTab == [at |-> "page", code |-> 0, answer |-> "none", waits |-> FALSE, user |-> "none"]
On(t, place) == tab[t].at = place /\ tab[t].answer = "none"
Tab(t, new) == tab' = [tab EXCEPT ![t] = new]
Opens(t, place) == Tab(t, [NewTab EXCEPT !.at = place])
Answers(t, answer) == Tab(t, [tab[t] EXCEPT !.answer = answer])
\* Only the page changes.
Moves(t, place) == Opens(t, place) /\ UNCHANGED <<FlowCookies, AccountServer, made, typed, confused>>
Got(t, place, answer) == tab[t].at = place /\ tab[t].answer = answer

Crosses(t, kind) == IF \E o \in Tabs \ {t} : tab[o].at # "page" THEN confused \union {kind} ELSE confused

-----------------------------------------------------------------------------
(* Registration *)

\* openRegistration: the form comes with a new flow, which replaces the old.
OpenForm(t) ==
  /\ On(t, "page") /\ loggedIn = "none" /\ made < MaxCodes
  /\ made' = made + 1 /\ registerFlow' = made' /\ flows' = (flows \union {[code |-> made', of |-> "none"]})
  /\ Opens(t, "form") /\ confused' = Crosses(t, "register")
  /\ signedUp' = [signedUp EXCEPT ![t] = [state |-> "no", mailed |-> {}]]
  /\ UNCHANGED <<verifyEmail, loggedIn, codes, typed>>

Current == {f \in flows : f.code = registerFlow}
Cache(t) == flows' = (flows \ Current) \union {[f EXCEPT !.of = t] : f \in Current}
CodesOf(fs) == {f.code : f \in fs}

\* The address is taken, or the mail fails and the user is rolled back.  When
\* the time of the flow is up, no code is mailed.
SignUp(t) ==
  /\ On(t, "form")
  /\ \/ /\ Answers(t, "ok") /\ Cache(t)
        /\ signedUp' = [signedUp EXCEPT ![t] = [state |-> "inactive", mailed |-> CodesOf(Current)]]
     \/ Answers(t, "bad") /\ UNCHANGED <<flows, signedUp>>
  /\ UNCHANGED <<FlowCookies, loggedIn, codes, made, typed, confused>>

\* openRegistrationForm, up to the first dialog for the code.
Told(t) ==
  /\ Got(t, "form", "ok")
  /\ Tab(t, [NewTab EXCEPT !.at = "code", !.waits = TRUE])
  /\ UNCHANGED <<FlowCookies, AccountServer, made, typed, confused>>

Types(t, place, then, code) ==
  /\ On(t, place) /\ typed < MaxTyped /\ typed' = typed + 1
  /\ Tab(t, [tab[t] EXCEPT !.at = then, !.code = code])
  /\ UNCHANGED <<FlowCookies, AccountServer, made, confused>>

Proceed(t, code) == code \in signedUp[t].mailed \union {0} /\ Types(t, "code", "verify", code)

CacheOf(code) == {f \in Current : f.code = code /\ f.of # "none"}

VerifyCode(t) ==
  /\ On(t, "verify")
  /\ LET found == CacheOf(tab[t].code)
     IN /\ Answers(t, IF found # {} THEN "ok" ELSE "bad")
        /\ loggedIn' = IF found = {} THEN loggedIn ELSE (CHOOSE f \in found : TRUE).of
        /\ codes' = IF loggedIn' = loggedIn THEN codes ELSE {}
        /\ signedUp' = [o \in Tabs |-> IF \E f \in found : f.of = o
                                       THEN [signedUp[o] EXCEPT !.state = "active"] ELSE signedUp[o]]
  /\ UNCHANGED <<FlowCookies, flows, made, typed, confused>>

Verified(t) ==
  /\ Got(t, "verify", "ok") /\ Opens(t, "page") /\ registerFlow' = 0
  /\ UNCHANGED <<verifyEmail, AccountServer, made, typed, confused>>

\* The dialog opens again, but nobody waits for what is chosen in it.
NotVerified(t) == Got(t, "verify", "bad") /\ Moves(t, "code")

DifferentEmail(t) == On(t, "code") /\ Moves(t, IF tab[t].waits THEN "address" ELSE "page")

\* changeRegisterMail
NewEmail(t) == Types(t, "address", "readdress", 0)

\* The address is saved; the mail, with the code of the flow, may fail.
Readdress(t) ==
  /\ On(t, "readdress")
  /\ IF CacheOf(registerFlow) = {} THEN Answers(t, "bad") /\ UNCHANGED signedUp
     ELSE \E f \in CacheOf(registerFlow), sent \in BOOLEAN :
            /\ Answers(t, IF sent THEN "ok" ELSE "bad")
            /\ signedUp' = [signedUp EXCEPT ![f.of].mailed = IF sent THEN {f.code} ELSE {}]
  /\ UNCHANGED <<FlowCookies, flows, loggedIn, codes, made, typed, confused>>

\* Mutant: the code is asked for whatever was answered.
ReaddressedAnyway(t) ==
  \E answer \in {"ok", "bad"} : Got(t, "readdress", answer) /\ Moves(t, "code")

Readdressed(t) ==
  \/ Got(t, "readdress", "ok") /\ Moves(t, "code")
  \/ Got(t, "readdress", "bad") /\ Moves(t, "address")

-----------------------------------------------------------------------------
(* Change of the address *)

AsksFor(t, user) == Tab(t, [NewTab EXCEPT !.at = "change", !.user = user])

\* update_current_profile with a new address, of the profile dialog.
SaveProfile(t) ==
  /\ On(t, "page") /\ loggedIn # "none" /\ made < MaxCodes
  /\ made' = made + 1 /\ codes' = codes \union {made'}
  /\ Tab(t, [NewTab EXCEPT !.at = "update", !.answer = "ok", !.user = loggedIn])
  /\ confused' = Crosses(t, "change")
  /\ UNCHANGED <<FlowCookies, flows, signedUp, loggedIn, typed>>

\* The answer sets the cookie; verifyEmailChanged asks for the code.
ProfileSaved(t) ==
  /\ Got(t, "update", "ok") /\ verifyEmail' = tab[t].user /\ AsksFor(t, verifyEmail')
  /\ UNCHANGED <<registerFlow, AccountServer, made, typed, confused>>

\* loadData: as long as the cookie is there, each page that is loaded asks.
LoadPage(t) ==
  /\ On(t, "page") /\ verifyEmail = loggedIn /\ loggedIn # "none" /\ AsksFor(t, loggedIn)
  /\ confused' = Crosses(t, "change")
  /\ UNCHANGED <<FlowCookies, AccountServer, made, typed>>

ConfirmNew(t, code) == code \in codes \union {0} /\ Types(t, "change", "confirm", code)

ConfirmNewEmail(t) ==
  /\ On(t, "confirm")
  /\ Answers(t, IF tab[t].code \in codes THEN "ok" ELSE "bad")
  /\ codes' = codes \ {tab[t].code}
  /\ UNCHANGED <<FlowCookies, flows, signedUp, loggedIn, made, typed, confused>>

NewEmailConfirmed(t) ==
  /\ Got(t, "confirm", "ok") /\ verifyEmail' = "none" /\ Opens(t, "page")
  /\ UNCHANGED <<registerFlow, AccountServer, made, typed, confused>>

NotConfirmed(t) ==
  /\ Got(t, "confirm", "bad")
  /\ IF verifyEmail = tab[t].user THEN AsksFor(t, verifyEmail) ELSE Opens(t, "page")
  /\ UNCHANGED <<FlowCookies, AccountServer, made, typed, confused>>

-----------------------------------------------------------------------------
CancelDialog(t) == (\E place \in {"form", "address", "change"} : On(t, place)) /\ Moves(t, "page")

\* The answer of a call is lost: an error for the page.
LoseAnswer(t) ==
  /\ tab[t].answer = "ok" /\ Answers(t, "bad") /\ typed < MaxTyped /\ typed' = typed + 1
  /\ confused' = confused \union {"change"}
  /\ UNCHANGED <<FlowCookies, AccountServer, made>>

\* The form shows the error; the profile dialog is closed.
ShowRefusal(t) ==
  \/ Got(t, "form", "bad") /\ Moves(t, "form")
  \/ Got(t, "update", "bad") /\ Moves(t, "page")

\* CONFIRMATION_CODE_TIMEOUT: the code and the user under it.
ExpireFlow ==
  /\ \E f \in flows : flows' = flows \ {f}
  /\ UNCHANGED <<tab, FlowCookies, signedUp, loggedIn, codes, made, typed, confused>>

\* The session ends with its codes, and the user logs in again.
LogInAgain ==
  /\ loggedIn # "none" /\ codes # {} /\ codes' = {} /\ confused' = confused \union {"change"}
  /\ UNCHANGED <<tab, FlowCookies, flows, signedUp, loggedIn, made, typed>>

CodeDialogsInit ==
  /\ tab = [t \in Tabs |-> NewTab] /\ registerFlow = 0 /\ verifyEmail = "none"
  /\ flows = {} /\ signedUp = [t \in Tabs |-> [state |-> "no", mailed |-> {}]]
  /\ loggedIn = "none" /\ codes = {} /\ made = 0 /\ typed = 0 /\ confused = {}

CodeDialogsNext ==
  \/ ExpireFlow \/ LogInAgain
  \/ \E t \in Tabs :
       \/ OpenForm(t) \/ SignUp(t) \/ Told(t) \/ VerifyCode(t) \/ Verified(t) \/ NotVerified(t)
       \/ DifferentEmail(t) \/ NewEmail(t) \/ Readdress(t) \/ Readdressed(t)
       \/ SaveProfile(t) \/ ProfileSaved(t) \/ LoadPage(t) \/ ConfirmNewEmail(t)
       \/ NewEmailConfirmed(t) \/ NotConfirmed(t) \/ CancelDialog(t) \/ LoseAnswer(t) \/ ShowRefusal(t)
       \/ \E code \in 0..made : Proceed(t, code) \/ ConfirmNew(t, code)

-----------------------------------------------------------------------------
\* No tab waits for an answer.
NoCallPending == \A t \in Tabs : tab[t].answer = "none"

(* Who is asked for a code can enter one that works.  After a registration   *)
(* the code of the flow was mailed to the address the user has now, unless   *)
(* its time is up or another tab registers.  After a change of the address   *)
(* the page asks just as long as the session holds a code, or one was used;  *)
(* unless tabs crossed, an answer was lost or a session ended.               *)
AskedCanAnswer ==
  /\ "register" \notin confused =>
       \A t \in Tabs : tab[t].at = "code" /\ Current # {} =>
         registerFlow \in signedUp[t].mailed /\ \E f \in CacheOf(registerFlow) : f.of = t
  /\ "change" \notin confused /\ NoCallPending =>
       /\ verifyEmail # "none" => codes # {} /\ verifyEmail = loggedIn
       /\ \A t \in Tabs : tab[t].at = "change" => tab[t].user = verifyEmail

=============================================================================
