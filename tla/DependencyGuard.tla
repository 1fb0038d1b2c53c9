--------------------------- MODULE DependencyGuard ---------------------------
(***************************************************************************)
(* pkg/resilience: the guard around every gRPC call to another service, a  *)
(* bulkhead and a circuit breaker, with one action per atomic operation of *)
(* the breaker, since nothing locks it as a whole.  The counters are kept  *)
(* up to the values they are compared with.                                *)
(***************************************************************************)
EXTENDS Integers, FiniteSets

CONSTANTS
  Callers,         \* goroutines that call the dependency
  Threshold,       \* failures that open the circuit (5 in guardFor)
  HalfOpenMax,     \* successes that close it (5)
  MaxConcurrent    \* permits of the bulkhead (100)

ASSUME GuardAssumption ==
  /\ IsFiniteSet(Callers)
  /\ {Threshold, HalfOpenMax, MaxConcurrent} \subseteq Nat \ {0}

VARIABLES
  failures,   \* failureCount
  successes,  \* successCount
  isOpen,     \* isOpen
  aged,       \* more than the timeout has passed since lastFailureTime
  pc,         \* the next operation of each caller
  after,      \* where each caller goes when it has closed the circuit
  healthy     \* the dependency answers (a business error counts as an answer)

breaker == <<failures, successes, isOpen, aged>>
vars == <<breaker, pc, after, healthy>>

Places == {"idle", "allow", "timer", "halfOpen", "call", "success", "closable", "forgive",
           "failure", "openable", "open", "openSuccesses", "openTime", "close",
           "closeFailures", "closeSuccesses"}

Goto(c, place) == pc' = [pc EXCEPT ![c] = place]

UpTo(bound, n) == IF n < bound THEN n ELSE bound

\* Callers that hold a permit.
Holders == {c \in Callers : pc[c] # "idle"}

(***************************************************************************)
(* Call and ShouldAllowRequest.                                            *)
(***************************************************************************)

\* Mutant: the last permit is handed out twice.
AcquireOneMore(c) ==
  /\ pc[c] = "idle" /\ Cardinality(Holders) <= MaxConcurrent
  /\ Goto(c, "allow")
  /\ UNCHANGED <<breaker, after, healthy>>

\* A full bulkhead answers ResourceExhausted at once.
Acquire(c) ==
  /\ pc[c] = "idle" /\ Cardinality(Holders) < MaxConcurrent
  /\ Goto(c, "allow")
  /\ UNCHANGED <<breaker, after, healthy>>

AllowClosed(c) ==
  /\ pc[c] = "allow"
  /\ Goto(c, IF isOpen THEN "timer" ELSE "call")
  /\ UNCHANGED <<breaker, after, healthy>>

\* Mutant: the permit of a refused call is not released.
RefusalKeepsPermit(c) ==
  /\ pc[c] = "timer"
  /\ Goto(c, IF aged THEN "halfOpen" ELSE "gone")
  /\ UNCHANGED <<breaker, after, healthy>>

\* A refusal releases the permit and fails fast with Unavailable.
CheckTimer(c) ==
  /\ pc[c] = "timer"
  /\ Goto(c, IF aged THEN "halfOpen" ELSE "idle")
  /\ UNCHANGED <<breaker, after, healthy>>

\* Half-open: every call is let through, and enough successes close first.
CheckProbes(c) ==
  /\ pc[c] = "halfOpen"
  /\ Goto(c, IF successes < HalfOpenMax THEN "call" ELSE "close")
  /\ UNCHANGED <<breaker, after, healthy>>

\* Of the errors only Unavailable, DeadlineExceeded, Aborted and
\* ResourceExhausted count as failures: a dependency that is down also shows as
\* other codes, a cancelled call for one, which count as successes.
CallReturns(c) ==
  /\ pc[c] = "call"
  /\ Goto(c, "success") \/ (~healthy /\ Goto(c, "failure"))
  /\ UNCHANGED <<breaker, after, healthy>>

(***************************************************************************)
(* RecordSuccess, RecordFailure, OpenCircuit and CloseCircuit.             *)
(***************************************************************************)

CountSuccess(c) ==
  /\ pc[c] = "success"
  /\ successes' = UpTo(HalfOpenMax, successes + 1)
  /\ Goto(c, IF successes' = HalfOpenMax THEN "closable" ELSE "forgive")
  /\ UNCHANGED <<failures, isOpen, aged, after, healthy>>

CheckClosable(c) ==
  /\ pc[c] = "closable"
  /\ Goto(c, IF isOpen THEN "close" ELSE "forgive")
  /\ after' = [after EXCEPT ![c] = "forgive"]
  /\ UNCHANGED <<breaker, healthy>>

\* Permits are released as the call returns.
Forgive(c) ==
  /\ pc[c] = "forgive"
  /\ failures' = 0
  /\ Goto(c, "idle")
  /\ after' = [after EXCEPT ![c] = "call"]
  /\ UNCHANGED <<successes, isOpen, aged, healthy>>

CountFailure(c) ==
  /\ pc[c] = "failure"
  /\ failures' = UpTo(Threshold, failures + 1)
  /\ Goto(c, IF failures' = Threshold THEN "openable" ELSE "idle")
  /\ UNCHANGED <<successes, isOpen, aged, after, healthy>>

CheckOpenable(c) ==
  /\ pc[c] = "openable"
  /\ Goto(c, IF isOpen THEN "idle" ELSE "open")
  /\ UNCHANGED <<breaker, after, healthy>>

\* Another caller may store the same while this one is between its stores.
StoreOpen(c) ==
  /\ pc[c] = "open"
  /\ isOpen' = TRUE
  /\ Goto(c, "openSuccesses")
  /\ UNCHANGED <<failures, successes, aged, after, healthy>>

ResetSuccesses(c) ==
  /\ pc[c] = "openSuccesses"
  /\ successes' = 0
  /\ Goto(c, "openTime")
  /\ UNCHANGED <<failures, isOpen, aged, after, healthy>>

StoreTime(c) ==
  /\ pc[c] = "openTime"
  /\ aged' = FALSE
  /\ Goto(c, "idle")
  /\ UNCHANGED <<failures, successes, isOpen, after, healthy>>

StoreClosed(c) ==
  /\ pc[c] = "close"
  /\ isOpen' = FALSE
  /\ Goto(c, "closeFailures")
  /\ UNCHANGED <<failures, successes, aged, after, healthy>>

CloseFailures(c) ==
  /\ pc[c] = "closeFailures"
  /\ failures' = 0
  /\ Goto(c, "closeSuccesses")
  /\ UNCHANGED <<successes, isOpen, aged, after, healthy>>

CloseSuccesses(c) ==
  /\ pc[c] = "closeSuccesses"
  /\ successes' = 0
  /\ Goto(c, after[c])
  /\ UNCHANGED <<failures, isOpen, aged, after, healthy>>

\* Time passes: the timeout since the last store of lastFailureTime is over.
Tick == /\ ~aged /\ aged' = TRUE
        /\ UNCHANGED <<failures, successes, isOpen, pc, after, healthy>>

\* The dependency goes down or comes back.
Health == /\ healthy' = ~healthy
          /\ UNCHANGED <<breaker, pc, after>>

-----------------------------------------------------------------------------

\* lastFailureTime starts as the zero time.
Init ==
  /\ failures = 0 /\ successes = 0 /\ isOpen = FALSE /\ aged = TRUE
  /\ pc = [c \in Callers |-> "idle"]
  /\ after = [c \in Callers |-> "call"]
  /\ healthy \in BOOLEAN

Step(c) ==
  \/ Acquire(c) \/ AllowClosed(c) \/ CheckTimer(c) \/ CheckProbes(c) \/ CallReturns(c)
  \/ CountSuccess(c) \/ CheckClosable(c) \/ Forgive(c) \/ CountFailure(c)
  \/ CheckOpenable(c) \/ StoreOpen(c) \/ ResetSuccesses(c) \/ StoreTime(c)
  \/ StoreClosed(c) \/ CloseFailures(c) \/ CloseSuccesses(c)

Next == Tick \/ Health \/ \E c \in Callers : Step(c)

\* Callers keep calling, the call timeout ends every call, and time passes.
Fairness == WF_vars(Tick) /\ \A c \in Callers : WF_vars(Step(c))

Spec == Init /\ [][Next]_vars /\ Fairness

(***************************************************************************)
(* Properties.                                                             *)
(***************************************************************************)

\* Every caller is at a place of its code, the bulkhead never has more permits
\* out than it was made with, whatever is refused, fails or times out, and the
\* counters of the breaker are numbers.
TypeOK ==
  /\ failures \in Nat /\ successes \in Nat
  /\ isOpen \in BOOLEAN /\ aged \in BOOLEAN /\ healthy \in BOOLEAN
  /\ pc \in [Callers -> Places]
  /\ after \in [Callers -> {"call", "forgive"}]
  /\ Cardinality(Holders) <= MaxConcurrent

\* When the dependency has recovered for good, the circuit does not stay open,
\* whatever order the unlocked stores of the callers were made in.
RecoveredIsClosed == <>[]healthy => []<>~isOpen
=============================================================================
