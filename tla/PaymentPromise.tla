--------------------------- MODULE PaymentPromise ---------------------------
(***************************************************************************)
(* What the transaction service promises about one payment to a merchant,  *)
(* with no handler, database or network in it: bookings follow one of two  *)
(* ways, there and back, or only as far as the user's debit and back; each *)
(* moves one card by the amount; and a verdict on the payment says where   *)
(* the money is.  Transaction.tla implements this module.                  *)
(***************************************************************************)
EXTENDS Integers

CONSTANTS Calls, InitialBalance, MerchantCards

VARIABLES
  request,   \* what each payment asks for
  balance,   \* money on every card
  booked,    \* bookings done for each payment
  verdict    \* "open", "settled", "refused", "reversed" or "doubt"

vars == <<request, balance, booked, verdict>>

There    == {"user-debit", "merchant-credit"}
Back     == {"user-compensation", "merchant-compensation"}
Outcomes == {"settled", "refused", "reversed", "doubt"}

\* The bookings after which a booking may be done.
Before(leg) ==
  CASE leg = "user-debit"            -> {{}}
    [] leg = "merchant-credit"       -> {{"user-debit"}}
    [] leg = "user-compensation"     -> {{"user-debit"}, There}
    [] leg = "merchant-compensation" -> {There \cup {"user-compensation"}}

\* The bookings on which a verdict may be given.
Warrants(done, v) ==
  CASE v = "settled"  -> done = There
    [] v = "reversed" -> done \in {{"user-debit", "user-compensation"}, There \cup Back}
    [] v = "refused"  -> done \subseteq {"user-debit"}
    [] OTHER          -> TRUE

Amount(c, leg) == IF leg \in {"user-debit", "merchant-compensation"}
                  THEN -request[c].body.amount ELSE request[c].body.amount

\* The merchant's card may be another one on the way back.
Owners(c, leg) == IF leg \in {"user-debit", "user-compensation"}
                  THEN {request[c].body.card} ELSE MerchantCards

Init == /\ balance = InitialBalance
        /\ booked = [c \in Calls |-> {}]
        /\ verdict = [c \in Calls |-> "open"]

\* A verdict of settlement or reversal is final: nothing moves after it.
Move(c, leg, card) ==
  /\ booked[c] \in Before(leg)
  /\ verdict[c] \notin {"settled", "reversed"}
  /\ verdict[c] = "refused" => leg = "user-debit"
  /\ booked' = [booked EXCEPT ![c] = @ \cup {leg}]
  /\ balance' = [balance EXCEPT ![card] = @ + Amount(c, leg)]
  /\ UNCHANGED <<request, verdict>>

Decide(c, v) ==
  /\ verdict[c] = "open"
  /\ Warrants(booked[c], v)
  /\ verdict' = [verdict EXCEPT ![c] = v]
  /\ UNCHANGED <<request, balance, booked>>

\* Rows deleted for good, or written over by an update, take their verdict
\* with them.
Forget(S) ==
  /\ verdict' = [c \in Calls |-> IF c \in S THEN "open" ELSE verdict[c]]
  /\ UNCHANGED <<request, balance, booked>>

Next == \/ \E c \in Calls, leg \in There \cup Back :
             \E card \in Owners(c, leg) : Move(c, leg, card)
        \/ \E c \in Calls, v \in Outcomes : Decide(c, v)
        \/ \E S \in SUBSET Calls : Forget(S)

Spec == Init /\ [][Next]_vars
=============================================================================
