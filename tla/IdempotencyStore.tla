-------------------------- MODULE IdempotencyStore --------------------------
(***************************************************************************)
(* The idempotency_records table as a command handler uses it: claim the   *)
(* client's key, look up who owns it, complete or release it.  Each        *)
(* service has a table of its own with the same four statements.           *)
(***************************************************************************)
CONSTANTS
  Calls,     \* invocations of the handlers
  Keys,      \* client idempotency keys
  NoKey,     \* a request without a key
  NoRecord   \* no record under a key

ASSUME KeyAssumption == NoKey \notin Keys

VARIABLES
  idem,    \* key -> [owner, hash, status] or NoRecord
  lapsed   \* calls whose claim is more than 24 hours old

\* No record that is still valid.
Free(key) == idem[key] # NoRecord => idem[key].owner \in lapsed

\* INSERT ... ON CONFLICT DO UPDATE WHERE the record has expired: whatever its
\* status, it is as good as no record.
ClaimKey(c, key, hash) ==
  /\ Free(key)
  /\ idem' = [idem EXCEPT ![key] =
                [owner |-> c, hash |-> hash, status |-> "processing"]]

\* What a handler that lost the claim answers, from the record it finds: Get
\* does not return an expired one.
LostClaimAnswers(key, hash) ==
  {"error"} \cup
  (IF Free(key) THEN {}
   ELSE IF idem[key].hash # hash THEN {"conflict"}
   ELSE IF idem[key].status = "success" THEN {"replayed"} ELSE {"inprogress"})

\* UPDATE ... WHERE the key and the hash match.
CompleteKey(key, hash) ==
  idem' = IF key \in Keys /\ idem[key] # NoRecord /\ idem[key].hash = hash
          THEN [idem EXCEPT ![key].status = "success"] ELSE idem

\* DELETE ... WHERE the key and the hash match and it is still processing.
ReleaseKey(key, hash) ==
  idem' = IF /\ key \in Keys /\ idem[key] # NoRecord
             /\ idem[key].hash = hash /\ idem[key].status = "processing"
          THEN [idem EXCEPT ![key] = NoRecord] ELSE idem
=============================================================================
