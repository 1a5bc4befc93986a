----------------------------- MODULE MCDelivery -----------------------------
(* Delivery of several kinds of notifications, with one task and one resend, *)
(* and the notices of maintenance, for TLC: two parts that share nothing     *)
(* here, a behaviour is one of one part while the other rests.  Hours and    *)
(* minutes of the notices are scaled down to a clock of few ticks.           *)
EXTENDS Delivery, Notices, TLC

CONSTANTS MCParts, task, resend1, u1, u2, n1, p1, p2

MCProviderNo == [c \in Channels |-> 2]
MCPrice == [c \in Channels |-> IF c = "SMS" THEN 2 ELSE 1]

\* unmailed and phoneless are those without an e-mail address and without a
\* phone number.
MCKind(to, unmailed, phoneless, required, fallback, credit, disturbed) ==
    [to |-> to, unreachable |-> [c \in Channels |-> IF c = "EMail" THEN unmailed ELSE phoneless],
     required |-> required, fallback |-> fallback,
     smsNotice |-> FALSE, system |-> FALSE, credit |-> credit, overlap |-> disturbed, faulty |-> disturbed]

\* Both channels, two recipients, one of them without a phone number and the
\* other without an e-mail address, runs that do not overlap and nothing that
\* fails but the providers and the runs.
MCCalm == MCKind({u1, u2}, {u1}, {u2}, Channels, FALSE, 9, FALSE)

\* An SMS notice of a system notification by e-mail, for one recipient with
\* neither.
MCCalmNotice == [MCKind({u2}, {u2}, {u2}, {"EMail"}, FALSE, 9, FALSE) EXCEPT !.smsNotice = TRUE, !.system = TRUE]

\* Both channels, overlapping runs and every fault, and a license that is soon used up.
MCDisturbed == MCKind({u1}, {}, {}, Channels, FALSE, 2, TRUE)

\* An SMS that falls back to an e-mail.
MCByMail == MCKind({u1, u2}, {}, {u2}, {"SMS"}, TRUE, 9, TRUE)

MCKinds == {MCCalm, MCCalmNotice, MCDisturbed, MCByMail}

\* One e-mail to one recipient, and nothing that fails.
MCOverlap == {[MCKind({u1}, {}, {}, {"EMail"}, FALSE, 3, TRUE) EXCEPT !.faulty = FALSE]}

MCAt == [n \in Planned |-> 5]
MCStarts == [r \in Ranges |-> CASE r = 8 -> 5 [] r = 1 -> 2 [] OTHER -> 1]

-----------------------------------------------------------------------------

VARIABLE part

MCInit ==
    /\ part \in MCParts
    /\ Init /\ (part # "delivery" => kind = CHOOSE k \in Kinds : TRUE)
    /\ NoticesInit

MCNext ==
    /\ UNCHANGED part
    /\ \/ part = "delivery" /\ Next /\ UNCHANGED noticesVars
       \/ part = "notices" /\ NoticesNext /\ UNCHANGED vars

\* The runs of the notification begin only if it is the part that moves.
MCSpec == /\ MCInit /\ [][MCNext]_<<part, vars, noticesVars>>
          /\ \A r \in Runs : WF_vars(part = "delivery" /\ MakeSend(r))
=============================================================================
