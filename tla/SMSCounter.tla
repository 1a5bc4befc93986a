----------------------------- MODULE SMSCounter -----------------------------
(* How many messages a text takes (t2.py).  A text is the number of its      *)
(* characters of each class; the code of a character gives the class.        *)
EXTENDS Integers

Gsm7Bit ==
  32..90 \union 97..122 \union 163..165 \union 196..199 \union 228..230 \union
  {10, 12, 13, 92, 95, 161, 191, 201, 209, 214, 216, 220, 223, 224, 232, 233, 236, 241, 242, 246,
   248, 249, 252, 915, 916, 920, 923, 926, 928, 931, 934, 936, 937}
Gsm7BitEx == {12, 8364} \union 91..94 \union 123..126

Classes == {"basic", "both", "extended", "other"}
Text == [Classes -> Nat]
NoText == [c \in Classes |-> 0]

ClassOf(code) ==
  CASE code \in Gsm7Bit \intersect Gsm7BitEx -> "both"
    [] code \in Gsm7Bit \ Gsm7BitEx -> "basic"
    [] code \in Gsm7BitEx \ Gsm7Bit -> "extended"
    [] OTHER -> "other"

Typed(text, code) == [text EXCEPT ![ClassOf(code)] = @ + 1]

-----------------------------------------------------------------------------
Encoding(text) ==
  IF text["other"] > 0 THEN "UTF16" ELSE IF text["extended"] > 0 THEN "GSM_7BIT_EX" ELSE "GSM_7BIT"

Characters(text) == text["basic"] + text["both"] + text["extended"] + text["other"]

\* A character of the extended map counts twice, the one of both maps only
\* beside another one of the extended map.
Length(text) ==
  Characters(text) + IF Encoding(text) = "GSM_7BIT_EX" THEN text["extended"] + text["both"] ELSE 0

\* Mutant: what the parts of a long text give to their joining is not taken off.
PerMessageAlone(text) == IF Encoding(text) = "UTF16" THEN 70 ELSE 160

PerMessage(text) ==
  IF Encoding(text) = "UTF16" THEN IF Length(text) > 70 THEN 67 ELSE 70
  ELSE IF Length(text) > 160 THEN 153 ELSE 160

\* int(ceil(length / per))
Count(text) == (Length(text) + PerMessage(text) - 1) \div PerMessage(text)
Remaining(text) == PerMessage(text) * Count(text) - Length(text)

(* What a phone can join: a message alone holds 160 characters, or 70, and   *)
(* one of several holds 153, or 67.                                          *)
Holds(messages, text) ==
  Length(text) <=
    CASE Encoding(text) = "UTF16" -> IF messages = 1 THEN 70 ELSE 67 * messages
      [] OTHER -> IF messages = 1 THEN 160 ELSE 153 * messages

=============================================================================
