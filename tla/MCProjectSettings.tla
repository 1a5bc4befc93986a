------------------------- MODULE MCProjectSettings -------------------------
(* ProjectSettings with two requests at a time, for TLC. *)
EXTENDS ProjectSettings, TLC

CONSTANTS r1, r2, a, b, c

MCRequests == {r1, r2}
MCValues == {a, b, c}
MCWanted == "email" :> {b, c} @@ "sms" :> {b}
=============================================================================
