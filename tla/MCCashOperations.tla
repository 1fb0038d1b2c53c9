-------------------------- MODULE MCCashOperations --------------------------
(***************************************************************************)
(* Two calls on one card: withdrawals that exceed the limit or the         *)
(* balance together, the same one twice, top-ups, and one of each.         *)
(***************************************************************************)
EXTENDS CashOperations, TLC

CONSTANT card

Ask(kind, amount) == [kind |-> kind, card |-> card, amount |-> amount, time |-> 1]

MCBodies == {Ask("withdraw", 2), Ask("withdraw", 3), Ask("withdraw", 4), Ask("topup", 2)}
MCBalance == card :> 5

MCSymmetry == Permutations(Calls)
=============================================================================
