------------------------ MODULE MCNotificationFront ------------------------
(* What becomes of the requests that make notifications (NotificationFront)  *)
(* and what a notification says and to whom it goes (Envelope), for TLC: two *)
(* parts that share nothing here, a behaviour is one of one part while the   *)
(* other rests.                                                              *)
EXTENDS NotificationFront, Envelope

CONSTANTS MCParts, r1, r2, r3, u1, u2, a1, a2, l1

Mail(context, delay, atomic) == [kind |-> "mail", context |-> context, delay |-> delay, atomic |-> atomic]
System == [kind |-> "system", context |-> "x", delay |-> 0, atomic |-> TRUE]
Notice(delay) == [kind |-> "notice", context |-> Own, delay |-> delay, atomic |-> TRUE]
ReadIt == [kind |-> "read", context |-> Own, delay |-> Now, atomic |-> FALSE]

MCRequests == {r1, r2, r3}

MCCalls == [r \in MCRequests |->
    CASE r = r1 -> {System, Notice(1)}
      [] r = r2 -> {Mail("x", Now, FALSE), System, Notice(1), ReadIt}
      [] r = r3 -> {Mail("x", 2, FALSE), System, ReadIt}]

-----------------------------------------------------------------------------
(* Envelope: one notification of every form, to two users who share a        *)
(* telephone number in two spellings                                         *)

MCSpelling == [n \in Numbers |-> [digits |-> "38641", allowed |-> n # "41"]]

MCWorld(fallback, phone) ==
    [sender |-> [c \in Media |-> "s1"], fallback |-> fallback,
     profile |-> [u \in Users |-> [mail |-> IF u = u1 THEN a1 ELSE a2, phone |-> IF u = u1 THEN "+38641" ELSE phone]]]

MCOrigins ==
    {MCWorld(TRUE, "0038641"), [MCWorld(Nothing, "41") EXCEPT !.sender["SMS"] = Nothing]}

MCForm(by, channels, to) == [by |-> by, channels |-> channels, to |-> to, system |-> FALSE, project |-> TRUE]

MCSystem(f, project) == [f EXCEPT !.system = TRUE, !.project = project]

MCForms == [l \in Letters |->
    {MCForm("task", Media, {u1, u2}), MCForm("now", {"SMS"}, {u2}),
     MCForm("list", {"EMail"}, {a1, a2}), MCSystem(MCForm("list", {"EMail"}, {a1}), TRUE),
     MCSystem(MCForm("task", {"EMail"}, {u1}), FALSE)}]

\* An SMS to two users, one of them without a number, and a fallback
MCFallback == {MCWorld(TRUE, "41")}
MCShort == [l \in Letters |-> {MCForm("task", {"SMS"}, {u1, u2})}]

-----------------------------------------------------------------------------

VARIABLE part

MCInit ==
    /\ part \in MCParts
    /\ Init
    /\ EnvelopeInit
    /\ part # "envelope" => /\ past = <<CHOOSE w \in Origins : TRUE>>
                            /\ form = [l \in Letters |-> CHOOSE f \in Forms[l] : TRUE]

MCNext ==
    /\ UNCHANGED part
    /\ \/ part = "front" /\ Next /\ UNCHANGED envelopeVars
       \/ part = "envelope" /\ [EnvelopeNext]_envelopeVars /\ UNCHANGED vars

MCSpec == MCInit /\ [][MCNext]_<<part, vars, envelopeVars>>
=============================================================================
