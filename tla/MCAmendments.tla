---------------------------- MODULE MCAmendments ----------------------------
(***************************************************************************)
(* Two amendments of a row with three amounts to choose from.              *)
(***************************************************************************)
EXTENDS Amendments, TLC

CONSTANTS payer, receiver

MCBalance == (payer :> 3) @@ (receiver :> 1)
MCSymmetry == Permutations(Amends)
=============================================================================
