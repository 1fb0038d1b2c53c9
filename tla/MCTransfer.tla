----------------------------- MODULE MCTransfer -----------------------------
(***************************************************************************)
(* Two calls over two cards.  With one key the calls are retries of one    *)
(* another or reuse the key for another payload; without a key they are    *)
(* independent transfers that race for the same balance.                   *)
(***************************************************************************)
EXTENDS Transfer, TLC

CONSTANTS a, b

MCBodies == {[from |-> a, to |-> b, amount |-> 2],
             [from |-> b, to |-> a, amount |-> 1]}
MCBody == {[from |-> a, to |-> b, amount |-> 2]}
MCSmall == {[from |-> a, to |-> b, amount |-> 1]}
MCBalance == (a :> 2) @@ (b :> 1)

CallSymmetry == Permutations(Calls)
=============================================================================
