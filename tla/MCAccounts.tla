----------------------------- MODULE MCAccounts -----------------------------
(* Accounts with four users, two of them new, for TLC. *)
EXTENDS Accounts, TLC

CONSTANTS anna, bert, carl, dora, k1, k2, k3, k4, e1, e2, e3, b1, b2, c1, c2

MCUsers == {anna, bert, carl, dora}
MCAddress == anna :> e1 @@ bert :> e2
MCHeld == k1 :> [user |-> anna, project |-> None] @@ k2 :> [user |-> bert, project |-> Other]
          @@ k3 :> [user |-> bert, project |-> Main]
MCGrouped == {[users |-> {anna, bert}, by |-> bert]}
MCListed == anna :> {anna} @@ bert :> {anna, bert}
MCSymmetry == Permutations({carl, dora}) \union Permutations({b1, b2}) \union Permutations({c1, c2})
=============================================================================
