---------------------------- MODULE MCTransaction ----------------------------
(***************************************************************************)
(* Two payments from one card to a merchant with two cards, under one key. *)
(***************************************************************************)
EXTENDS Transaction, TLC

CONSTANTS u, m1, m2

\* A payment that can be made and one that validation refuses.
MCBodies == {[card |-> u, amount |-> 2], [card |-> u, amount |-> 0]}
MCBalance == (u :> 4) @@ (m1 :> 0) @@ (m2 :> 0)

\* Payments without a key do not meet: only those with one are checked.
MCInit == Init /\ \A c \in Calls : Key(c) # NoKey
MCSpec == MCInit /\ [][Next]_vars

MCSymmetry == Permutations(MerchantCards)
=============================================================================
