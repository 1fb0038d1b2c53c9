---------------------------- MODULE MCValidation ----------------------------
(***************************************************************************)
(* Two requests on one instance, for the same subject or not, and another  *)
(* instance that may take their replies.                                   *)
(***************************************************************************)
EXTENDS Validation, TLC

CONSTANTS g1, g2

MCHome == [r \in Requests |-> g1]
MCSymmetry == Permutations(Requests) \cup Permutations(Subjects)
=============================================================================
