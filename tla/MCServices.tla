----------------------------- MODULE MCServices -----------------------------
(* Two users, one of the staff, two projects, and texts at the bounds of a   *)
(* message.                                                                  *)
EXTENDS Services

CONSTANTS a, b, p, q

MCProjectsOf == (a :> {p, q}) @@ (b :> {q})
MCPrice == ("SMS" :> 3) @@ ("EMail" :> 1)
\* The bounds of one message and of two, in each encoding.
MCTexts ==
  {[NoText EXCEPT !["basic"] = n] : n \in {160, 161, 306, 307}} \union
  {[NoText EXCEPT !["extended"] = n] : n \in {80, 81, 153}} \union
  {[NoText EXCEPT !["both"] = 120, !["extended"] = 1], [NoText EXCEPT !["both"] = 120]} \union
  {[NoText EXCEPT !["basic"] = n, !["other"] = 1] : n \in {69, 70, 133, 134}}

=============================================================================
