---------------------------- MODULE UserSession ----------------------------
(* The session of one browser: the page's store (vue state.ts) with the      *)
(* header its calls carry (api-client.ts), the calls on their way, and the   *)
(* session the server keeps (the middlewares, login, impersonation and the   *)
(* current profile).  Calls are served and answered in any order, may get    *)
(* lost before or after the server served them, and outlive the page that    *)
(* sent them.                                                                *)
EXTENDS Naturals, Sequences, SequencesExt

CONSTANTS
  Users, Staff,         \* who can log in, and those who may impersonate
  Projects,
  ProjectsOf,           \* the projects a user owns or is a member of
  NoUser, NoProject,    \* the user 0 and the project '' of the store
  MaxEvents, MaxFaults, \* bounds: what the user does and what goes wrong,
  MaxBusy               \* and the calls on their way when he does it

ASSUME UserSessionAssumption ==
  /\ Staff \subseteq Users /\ ProjectsOf \in [Users -> SUBSET Projects]
  /\ NoUser \notin Users /\ NoProject \notin Projects
  /\ MaxEvents \in Nat /\ MaxFaults \in Nat /\ MaxBusy \in Nat

VARIABLES
  page,       \* the store: user, imp(ersonated), project, basis (whose
              \* permissions in which project it shows), and the header of calls
  calls,      \* the calls on their way, in the order they were sent
  session,    \* what the server keeps: user, hist(ory of hijackers), project
  last,       \* user-current-project-<pk> in the cache
  overtaken,  \* a call of this page was served or answered before an older one
  unaware,    \* an answer was lost, or the session ended under the page
  clicks, faults

sessionVars == <<page, calls, session, last, overtaken, unaware, clicks, faults>>

Anonymous == [user |-> NoUser, imp |-> FALSE, project |-> NoProject,
              basis |-> <<NoUser, NoProject>>, header |-> NoProject]
NoSession == [user |-> NoUser, hist |-> <<>>, project |-> NoProject]

-----------------------------------------------------------------------------
(* The actions of the store.  They run without a pause; "asks" counts the    *)
(* profile calls they send, which carry the header as it is at their end.    *)

\* Mutant: the header of the calls is not set.
SetProjectOnly(pg, p) == [pg EXCEPT !.project = p, !.asks = @ + 1]

SetSelectedProject(pg, p) == [pg EXCEPT !.project = p, !.header = p, !.asks = @ + 1]

ResetData(pg, keepProject) ==
  LET reset == [f \in DOMAIN pg |-> IF f \in {"header", "asks"} THEN pg[f] ELSE Anonymous[f]]
  IN IF keepProject THEN SetSelectedProject(reset, pg.project) ELSE reset

SetUserData(pg, a) ==
  LET set == [pg EXCEPT !.user = a.user, !.imp = a.imp, !.basis = a.basis]
  IN IF set.project = NoProject /\ a.project # NoProject
     THEN SetSelectedProject(set, a.project) ELSE set

\* Mutant: the store is reset for the same user as well.
CheckLoginResets(pg, a) ==
  IF ~a.ok THEN ResetData(pg, FALSE) ELSE SetUserData(ResetData(pg, TRUE), a)

CheckLogin(pg, a) ==
  IF ~a.ok THEN ResetData(pg, FALSE)
  ELSE SetUserData(IF pg.user # a.user THEN ResetData(pg, TRUE) ELSE pg, a)

-----------------------------------------------------------------------------
Unanswered == [ok |-> FALSE, user |-> NoUser, imp |-> FALSE,
               basis |-> <<NoUser, NoProject>>, project |-> NoProject]

Call(kind, arg, then, header) ==
  [kind |-> kind, arg |-> arg, then |-> then, header |-> header,
   served |-> FALSE, heard |-> TRUE, old |-> FALSE, answer |-> Unanswered]

Profile(then, header) == Call("profile", NoUser, then, header)

\* What a handler leaves: the page, the calls on their way, and whether the
\* page is a new one.  When a page goes, its calls may still reach the server,
\* but nobody hears the answers; the new page asks for the profile.
Reloaded(rest) ==
  [page |-> Anonymous, fresh |-> TRUE,
   calls |-> Append([i \in DOMAIN rest |-> [rest[i] EXCEPT !.heard = FALSE]],
                    Profile("stay", NoProject))]

Sent(pg, rest) == rest \o [i \in 1..pg.asks |-> Profile("stay", pg.header)]

\* A change of "impersonated" reloads a page that shows a user.
Shown(pg, rest) ==
  IF page.user # NoUser /\ pg.imp # page.imp THEN Reloaded(Sent(pg, rest))
  ELSE [page |-> [f \in DOMAIN page |-> pg[f]], fresh |-> FALSE, calls |-> Sent(pg, rest)]

Become(e, overtaking, losing) ==
  /\ page' = e.page /\ calls' = e.calls
  /\ overtaken' = (~e.fresh /\ overtaking) /\ unaware' = (~e.fresh /\ losing)

Now == [f \in DOMAIN page \union {"asks"} |-> IF f = "asks" THEN 0 ELSE page[f]]

-----------------------------------------------------------------------------
(* What the user does.                                                       *)
Click(pg, c) ==
  /\ clicks + faults < MaxEvents /\ clicks' = clicks + 1 /\ Len(calls) <= MaxBusy
  /\ Become(Shown(pg, calls \o c), overtaken, unaware)
  /\ UNCHANGED <<session, last, faults>>

Login(u) ==
  /\ page.user = NoUser
  /\ LET pg == ResetData(Now, FALSE) IN Click(pg, <<Call("login", u, "profile", pg.header)>>)

Logout == page.user # NoUser /\ Click(Now, <<Call("logout", NoUser, "reload", page.header)>>)

Impersonate(u) ==
  /\ page.user \in Staff /\ ~page.imp
  /\ Click(Now, <<Call("impersonate", u, "profile", page.header)>>)

StopImpersonation ==
  page.imp /\ Click(Now, <<Call("release", NoUser, "profile", page.header)>>)

\* Dialogs that ask for the profile when they open or close.
Look == Click(Now, <<Profile("stay", page.header)>>)

ProjectSelected(p) ==
  /\ page.user # NoUser /\ p \in ProjectsOf[page.user] /\ p # page.project
  /\ Click(SetSelectedProject(Now, p), <<>>)

-----------------------------------------------------------------------------
(* The server.  A call carries its project into the session first.           *)
Selected(c) == IF c.header # NoProject THEN c.header ELSE session.project

\* django.contrib.auth.login: the session of another user is not taken over.
LoggedIn(s, u) == IF s.user \in {NoUser, u} THEN [s EXCEPT !.user = u]
                  ELSE [NoSession EXCEPT !.user = u]

\* get_current_profile: the project of the request, else the one in the cache,
\* else the first of the user's projects.
DefaultProject(u, selected) ==
  LET mine == ProjectsOf[u]
  IN CASE selected # NoProject -> selected
       [] selected = NoProject /\ last[u] \in mine -> last[u]
       [] OTHER -> IF mine = {} THEN NoProject ELSE CHOOSE p \in mine : TRUE

\* What a call finds and leaves: the session, the answer, the cached project.
CurrentProfile(c, s) ==
  /\ session' = s
  /\ calls' = [calls EXCEPT ![c].served = TRUE,
       ![c].answer = IF s.user = NoUser THEN Unanswered
                     ELSE [ok |-> TRUE, user |-> s.user, imp |-> s.hist # <<>>,
                           basis |-> <<s.user, s.project>>,
                           project |-> DefaultProject(s.user, s.project)]]
  /\ last' = IF s.user = NoUser \/ s.project = NoProject THEN last
             ELSE [last EXCEPT ![s.user] = s.project]

Done(c, s) ==
  /\ session' = s
  /\ calls' = [calls EXCEPT ![c].served = TRUE, ![c].answer.ok = TRUE]
  /\ UNCHANGED last

Refused(c, s) ==
  /\ session' = s /\ calls' = [calls EXCEPT ![c].served = TRUE] /\ UNCHANGED last

Hijack(s, u) == [LoggedIn(s, u) EXCEPT !.hist = Append(s.hist, s.user)]
Released(s) == [LoggedIn(s, Last(s.hist)) EXCEPT !.hist = Front(s.hist)]

Serve(c) ==
  LET call == calls[c]
      s == [session EXCEPT !.project = Selected(call)]
  IN /\ ~call.served
     /\ overtaken' = (overtaken \/ \E d \in 1..(c - 1) : ~calls[d].served)
     /\ CASE call.kind = "profile" -> CurrentProfile(c, s)
          [] call.kind = "login" -> Done(c, LoggedIn(s, call.arg)) \/ Refused(c, s)
          [] call.kind = "logout" -> Done(c, NoSession)
          [] call.kind = "impersonate" ->
               IF s.user \in Staff \ {call.arg} THEN Done(c, Hijack(s, call.arg)) ELSE Refused(c, s)
          [] call.kind = "release" ->
               IF s.user # NoUser /\ s.hist # <<>> THEN Done(c, Released(s)) ELSE Refused(c, s)
     /\ UNCHANGED <<page, unaware, clicks, faults>>

-----------------------------------------------------------------------------
(* The answers.                                                              *)
\* A login that failed leaves the reset page; the dialog of an impersonation is
\* closed in the end, after an error, too.
Handled(call, rest, a) ==
  CASE call.kind = "profile" /\ call.then = "stay" -> Shown(CheckLogin(Now, a), rest)
    [] call.kind = "profile" /\ call.then = "reload" -> Reloaded(Sent(CheckLogin(Now, a), rest))
    [] call.kind = "logout" -> Reloaded(rest)
    [] call.kind = "login" /\ a.ok -> Shown(Now, Append(rest, Profile("reload", page.header)))
    [] call.kind = "impersonate" \/ (call.kind = "release" /\ a.ok) ->
         Shown(Now, Append(rest, Profile("stay", page.header)))
    [] OTHER -> Shown(Now, rest)

Receive(c) ==
  /\ calls[c].served /\ calls[c].heard
  /\ Become(Handled(calls[c], RemoveAt(calls, c), calls[c].answer),
            overtaken \/ \E d \in 1..(c - 1) : calls[d].heard,
            unaware /\ ~(calls[c].answer.ok /\ calls[c].kind = "profile" /\ ~calls[c].old))
  /\ UNCHANGED <<session, last, clicks, faults>>

\* The answers on their way know nothing of what just went wrong.
Aged == [i \in DOMAIN calls |-> [calls[i] EXCEPT !.old = calls[i].served]]

\* A call or its answer is lost: checkLogin throws, and login with it.
Lose(c) ==
  /\ faults < MaxFaults /\ clicks + faults < MaxEvents /\ faults' = faults + 1
  /\ calls[c].heard
  /\ Become(Handled([calls[c] EXCEPT !.then = "stay"], RemoveAt(Aged, c), Unanswered), overtaken, TRUE)
  /\ UNCHANGED <<session, last, clicks>>

\* The server served a call of a page that is gone.
Forget(c) ==
  /\ calls[c].served /\ ~calls[c].heard
  /\ calls' = RemoveAt(calls, c)
  /\ UNCHANGED <<page, session, last, overtaken, unaware, clicks, faults>>

\* The session ends: its time is up, or the user logs out elsewhere.
EndSession ==
  /\ faults < MaxFaults /\ clicks + faults < MaxEvents /\ faults' = faults + 1
  /\ session # NoSession /\ session' = NoSession /\ unaware' = TRUE /\ calls' = Aged
  /\ UNCHANGED <<page, last, overtaken, clicks>>

\* A page was opened, in a browser with or without a session.
Opened(sent) ==
  /\ page = Anonymous /\ calls = sent
  /\ session \in {NoSession} \union {[NoSession EXCEPT !.user = u] : u \in Users}
  /\ last = [u \in Users |-> NoProject]
  /\ overtaken = FALSE /\ unaware = FALSE /\ clicks = 0 /\ faults = 0

UserSessionInit == Opened(<<Profile("stay", NoProject)>>)

Clicks == \/ \E u \in Users : Login(u) \/ Impersonate(u)
          \/ Logout \/ StopImpersonation \/ Look
          \/ \E p \in Projects : ProjectSelected(p)
Answering == \E c \in DOMAIN calls : Receive(c) \/ Forget(c)
Serving == \E c \in DOMAIN calls : Serve(c)

UserSessionNext == Clicks \/ Serving \/ Answering \/ EndSession \/ \E c \in DOMAIN calls : Lose(c)

UserSessionFairness == WF_sessionVars(Serving) /\ WF_sessionVars(Answering)

-----------------------------------------------------------------------------
Quiet == calls = <<>>

(* When all calls are answered, in their order and none lost, the page shows *)
(* the user and the impersonation of the session, permissions of this user   *)
(* in the project it shows, and the project its next call will work in.      *)
PageAgrees ==
  Quiet /\ ~overtaken /\ ~unaware =>
    /\ page.user = session.user /\ page.imp = (session.hist # <<>>)
    /\ page.user # NoUser =>
         /\ page.basis = <<page.user, page.project>>
         /\ Selected([header |-> page.header]) = page.project

(* The calls that answers cause come to an end: when the user stops, the     *)
(* page does, too, whatever was lost or overtaken.                           *)
PageSettles == <>[]Quiet

=============================================================================
