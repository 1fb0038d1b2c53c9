--------------------------- MODULE MCSaldoLedger ---------------------------
(***************************************************************************)
(* Small instances of SaldoLedger.                                         *)
(***************************************************************************)
EXTENDS SaldoLedger

CONSTANTS k1, o1

\* A debit, its retry with another amount, a credit under the same operation
\* id, and an update to an absolute balance.
MCRequests == {[op |-> o1, card |-> k1, direction |-> "debit", delta |-> -1],
               [op |-> o1, card |-> k1, direction |-> "debit", delta |-> -2],
               [op |-> o1, card |-> k1, direction |-> "credit", delta |-> 1],
               [id |-> 1, card |-> k1, target |-> 2]}
=============================================================================
