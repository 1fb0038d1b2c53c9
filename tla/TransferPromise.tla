--------------------------- MODULE TransferPromise ---------------------------
(***************************************************************************)
(* What the transfer service promises about one transfer, with no handler, *)
(* database or network in it: the money walks one way along four bookings, *)
(* each changes one card by the amount, and a verdict on the transfer says *)
(* where the money is.  Transfer.tla implements this module.               *)
(***************************************************************************)
EXTENDS Integers

CONSTANTS Calls, InitialBalance

VARIABLES
  request,   \* what each transfer asks for
  balance,   \* money on every card
  booked,    \* bookings done for each transfer
  verdict    \* "open", "settled", "refused", "reversed" or "doubt"

vars == <<request, balance, booked, verdict>>

Path == {"sender-debit", "receiver-credit",
         "receiver-compensation", "sender-compensation"}
Outcomes == {"settled", "refused", "reversed", "doubt"}

\* The bookings that come before a booking.
Prior(leg) ==
  CASE leg = "sender-debit"          -> {}
    [] leg = "receiver-credit"       -> {"sender-debit"}
    [] leg = "receiver-compensation" -> {"sender-debit", "receiver-credit"}
    [] leg = "sender-compensation"   -> Path \ {"sender-compensation"}

\* What the bookings must be for a verdict to be given.
Warrants(done, v) ==
  CASE v = "settled"  -> done = {"sender-debit", "receiver-credit"}
    [] v = "reversed" -> done = Path
    [] v = "refused"  -> done \subseteq {"sender-debit"}
    [] OTHER          -> TRUE

Amount(c, leg) == IF leg \in {"sender-debit", "receiver-compensation"}
                  THEN -request[c].body.amount ELSE request[c].body.amount

Owner(c, leg) == IF leg \in {"sender-debit", "sender-compensation"}
                 THEN request[c].body.from ELSE request[c].body.to

Init == /\ balance = InitialBalance
        /\ booked = [c \in Calls |-> {}]
        /\ verdict = [c \in Calls |-> "open"]

\* A verdict of settlement or reversal is final: nothing moves after it.
Move(c, leg) ==
  /\ leg \notin booked[c] /\ Prior(leg) \subseteq booked[c]
  /\ verdict[c] \notin {"settled", "reversed"}
  /\ verdict[c] = "refused" => leg = "sender-debit"
  /\ booked' = [booked EXCEPT ![c] = @ \cup {leg}]
  /\ balance' = [balance EXCEPT ![Owner(c, leg)] = @ + Amount(c, leg)]
  /\ UNCHANGED <<request, verdict>>

Decide(c, v) ==
  /\ verdict[c] = "open"
  /\ Warrants(booked[c], v)
  /\ verdict' = [verdict EXCEPT ![c] = v]
  /\ UNCHANGED <<request, balance, booked>>

\* Rows deleted for good, or written over by an update, take their verdict
\* with them.
Forget(S) ==
  /\ verdict' = [c \in Calls |-> IF c \in S THEN "open" ELSE verdict[c]]
  /\ UNCHANGED <<request, balance, booked>>

Next == \/ \E c \in Calls, leg \in Path : Move(c, leg)
        \/ \E c \in Calls, v \in Outcomes : Decide(c, v)
        \/ \E S \in SUBSET Calls : Forget(S)

Spec == Init /\ [][Next]_vars
=============================================================================
