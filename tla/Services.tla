------------------------------ MODULE Services ------------------------------
(* The parts of the system that share no state with each other nor with the  *)
(* modules of the other runs: each behaviour is one of one part, chosen in   *)
(* the beginning, while the others rest.                                     *)
EXTENDS UserSession, DebugView, LogFiles, Messages, Licence, CachedRows, PasswordReset,
        SettingsPage, CodeDialogs

VARIABLE part

Parts == {"session", "debug", "log", "messages", "licence", "rows", "reset", "settings", "dialogs"}

vars == <<sessionVars, debugVars, logVars, messageVars, licenceVars, rowVars, resetVars,
          settingsPageVars, dialogVars, part>>

Init ==
  /\ part \in Parts
  /\ IF part = "session" THEN UserSessionInit ELSE Opened(<<>>) /\ session = NoSession
  /\ DebugInit
  /\ LogInit /\ (part # "log" => files = <<>>)
  /\ MessagesInit /\ (part # "messages" => \A t \in Tags : tagged[t] = People)
  /\ LicenceInit
  /\ RowInit /\ (part # "rows" => patterns /\ Present(Newest))
  /\ ResetInit
  /\ SettingsPageInit /\ (part # "settings" => pending = {})
  /\ CodeDialogsInit

Rests(own, v) == part = own \/ UNCHANGED v

Next ==
  /\ UNCHANGED part
  /\ Rests("session", sessionVars) /\ Rests("debug", debugVars) /\ Rests("log", logVars)
  /\ Rests("messages", messageVars) /\ Rests("licence", licenceVars)
  /\ Rests("rows", rowVars) /\ Rests("reset", resetVars)
  /\ Rests("settings", settingsPageVars) /\ Rests("dialogs", dialogVars)
  /\ \/ part = "session" /\ UserSessionNext
     \/ part = "debug" /\ DebugNext
     \/ part = "log" /\ LogNext
     \/ part = "messages" /\ MessagesNext
     \/ part = "licence" /\ LicenceNext
     \/ part = "rows" /\ RowNext
     \/ part = "reset" /\ ResetNext
     \/ part = "settings" /\ SettingsPageNext
     \/ part = "dialogs" /\ CodeDialogsNext

Spec == Init /\ [][Next]_vars /\ UserSessionFairness

=============================================================================
