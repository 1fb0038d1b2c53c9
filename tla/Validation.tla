----------------------------- MODULE Validation -----------------------------
(***************************************************************************)
(* The API gateway asks the role service for a user's roles, and the       *)
(* merchant service for the owner of an API key, over Kafka: a middleware  *)
(* sends a request with a correlation id and waits on a channel, which the *)
(* gateway's reply consumer finds in a map.  The two validators are one    *)
(* protocol with differences that matter: the role validator registers its *)
(* channel before it sends, never blocks its consumer and closes channels; *)
(* the merchant validator registers afterwards, sends to the channel       *)
(* without a way out and leaves channels open.                             *)
(* Replies go to one consumer group, so any instance may take any reply.   *)
(***************************************************************************)
EXTENDS Integers

CONSTANTS
  Gateways,   \* instances of the gateway
  Requests,   \* HTTP requests, each with its correlation id
  Subjects,   \* users, or API keys
  Home,       \* the instance that serves each request
  MaxTakes,   \* replies to one request, redelivered or repeated, that are looked at
  Nothing     \* no reply: an empty buffer, an idle consumer

ASSUME ValidationAssumption ==
  /\ Home \in [Requests -> Gateways]
  /\ MaxTakes \in Nat

VARIABLES
  kind,      \* which validator: "role" or "merchant"
  subject,   \* who each request is for
  granted,   \* subjects that have a role, or are keys of a merchant, until removed
  cached,    \* subjects in the gateways' cache, until they expire
  pc,        \* where each request's middleware is
  chans,     \* requests whose channel is in the map of their instance
  closed,    \* requests whose channel has been closed
  buffer,    \* the reply in each channel's buffer of one
  asked,     \* requests in the request topic whose offset is not committed
  replies,   \* replies [to, valid] in the reply topic, not committed
  holding,   \* the reply each consumer handles: [to, valid, found] or Nothing
  takes      \* how often a reply to each request was taken

directory == <<kind, subject, granted>>
channels  == <<chans, closed, buffer>>
topics    == <<asked, replies>>
vars == <<directory, cached, pc, channels, topics, holding, takes>>

Outcomes == {"admitted", "denied", "timeout", "failed"}

Goto(r, place) == pc' = [pc EXCEPT ![r] = place]

\* Mutant: the role validator registers its channel after it has sent.
SendsFirst == FALSE

RegistersFirst == kind = "role"

(***************************************************************************)
(* The middleware of one request.                                          *)
(***************************************************************************)

Start(r) ==
  /\ pc[r] = "idle"
  /\ Goto(r, IF subject[r] \in cached THEN "admitted"
             ELSE IF RegistersFirst THEN "register" ELSE "send")
  /\ UNCHANGED <<directory, cached, channels, topics, holding, takes>>

Register(r) ==
  /\ pc[r] = "register"
  /\ chans' = chans \cup {r}
  /\ Goto(r, IF RegistersFirst THEN "send" ELSE "wait")
  /\ UNCHANGED <<directory, cached, closed, buffer, topics, holding, takes>>

\* A send that fails may have reached the broker.
Send(r) ==
  /\ pc[r] = "send"
  /\ \/ asked' = asked \cup {r} /\ Goto(r, IF RegistersFirst THEN "wait" ELSE "register")
     \/ asked' \in {asked, asked \cup {r}} /\ Goto(r, "failed")
  /\ UNCHANGED <<directory, cached, channels, replies, holding, takes>>

\* Mutant: whatever was answered is cached.
CachesAnyAnswer(r) ==
  /\ pc[r] = "wait" /\ buffer[r] # Nothing
  /\ buffer' = [buffer EXCEPT ![r] = Nothing]
  /\ cached' = cached \cup {subject[r]}
  /\ Goto(r, IF buffer[r].valid THEN "admitted" ELSE "denied")
  /\ UNCHANGED <<directory, chans, closed, topics, holding, takes>>

Receive(r) ==
  /\ pc[r] = "wait" /\ buffer[r] # Nothing
  /\ buffer' = [buffer EXCEPT ![r] = Nothing]
  /\ IF buffer[r].valid
     THEN Goto(r, "admitted") /\ cached' = cached \cup {subject[r]}
     ELSE Goto(r, "denied") /\ UNCHANGED cached
  /\ UNCHANGED <<directory, chans, closed, topics, holding, takes>>

\* The timer, also when a reply is ready: select takes either.
Timeout(r) ==
  /\ pc[r] = "wait"
  /\ Goto(r, "timeout")
  /\ UNCHANGED <<directory, cached, channels, topics, holding, takes>>

\* The deferred function, after the rest of the chain has returned.
Leave(r) ==
  /\ pc[r] \in Outcomes /\ r \in chans
  /\ chans' = chans \ {r}
  /\ closed' = IF kind = "role" THEN closed \cup {r} ELSE closed
  /\ UNCHANGED <<directory, cached, pc, buffer, topics, holding, takes>>

(***************************************************************************)
(* The reply consumer of one instance.                                     *)
(***************************************************************************)

\* The next reply, and the channel the map has for it now.
Take(g, m) ==
  /\ holding[g] = Nothing /\ takes[m.to] < MaxTakes
  /\ holding' = [holding EXCEPT ![g] =
       [to |-> m.to, valid |-> m.valid, found |-> m.to \in chans /\ Home[m.to] = g]]
  /\ takes' = [takes EXCEPT ![m.to] = @ + 1]
  /\ UNCHANGED <<directory, cached, pc, channels, topics>>

\* Marked; a rebalance before the commit delivers the reply again.
Marked(g, m) ==
  /\ holding' = [holding EXCEPT ![g] = Nothing]
  /\ replies' \in {replies, replies \ {[to |-> m.to, valid |-> m.valid]}}

Put(m) == buffer' = [buffer EXCEPT ![m.to] = [to |-> m.to, valid |-> m.valid]]

\* Mutant: the channel has no buffer, so a send needs a waiting receiver.
Unbuffered(r) == buffer[r] = Nothing /\ pc[r] = "wait"

Ready(r) == buffer[r] = Nothing

\* The role consumer drops what a channel cannot take; the merchant consumer
\* waits until it can.
Deliver(g) ==
  LET m == holding[g] IN
  /\ m # Nothing
  /\ \/ ~m.found /\ UNCHANGED buffer
     \/ m.found /\ m.to \notin closed /\ Ready(m.to) /\ Put(m)
     \/ m.found /\ m.to \notin closed /\ ~Ready(m.to) /\ kind = "role" /\ UNCHANGED buffer
  /\ Marked(g, m)
  /\ UNCHANGED <<directory, cached, pc, chans, closed, asked, takes>>

\* The channel was closed after it was found: the send panics, default or not,
\* and the instance dies with its requests.  The reply is not committed.
Panic(g) ==
  /\ holding[g] # Nothing /\ holding[g].found /\ holding[g].to \in closed
  /\ holding' = [holding EXCEPT ![g] = Nothing]
  /\ pc' = [r \in Requests |-> IF Home[r] = g /\ pc[r] # "idle" THEN "crashed" ELSE pc[r]]
  /\ chans' = {r \in chans : Home[r] # g}
  /\ UNCHANGED <<directory, cached, closed, buffer, topics, takes>>

(***************************************************************************)
(* The role and merchant services, and the TTL of the cache.               *)
(***************************************************************************)

\* What the service finds, unless the subject was removed in the meantime or,
\* in the role service, the lookup failed.
Verdicts(s) == {verdict \in BOOLEAN : verdict => s \in granted}

\* The role service marks a request whether or not its reply was sent; the
\* merchant service leaves it when the lookup or the reply failed.  A request
\* whose mark was not committed is delivered again.
Serve(r) ==
  /\ r \in asked /\ takes[r] < MaxTakes
  /\ asked' \in {asked, asked \ {r}}
  /\ \/ \E verdict \in Verdicts(subject[r]) :
          replies' = replies \cup {[to |-> r, valid |-> verdict]}
     \/ kind = "role" /\ UNCHANGED replies
  /\ UNCHANGED <<directory, cached, pc, channels, holding, takes>>

Expire(s) ==
  /\ s \in cached
  /\ cached' = cached \ {s}
  /\ UNCHANGED <<directory, pc, channels, topics, holding, takes>>

-----------------------------------------------------------------------------

Init ==
  /\ kind \in {"role", "merchant"} /\ subject \in [Requests -> Subjects]
  /\ granted \in SUBSET Subjects
  /\ cached = {} /\ pc = [r \in Requests |-> "idle"]
  /\ chans = {} /\ closed = {} /\ buffer = [r \in Requests |-> Nothing]
  /\ asked = {} /\ replies = {}
  /\ holding = [g \in Gateways |-> Nothing]
  /\ takes = [r \in Requests |-> 0]

Next ==
  \/ \E r \in Requests : \/ Start(r) \/ Register(r) \/ Send(r) \/ Receive(r)
                         \/ Timeout(r) \/ Leave(r) \/ Serve(r)
  \/ \E g \in Gateways : \/ \E m \in replies : Take(g, m)
                         \/ Deliver(g) \/ Panic(g)
  \/ \E s \in Subjects : Expire(s)

Spec == Init /\ [][Next]_vars

(***************************************************************************)
(* Properties.                                                             *)
(***************************************************************************)

\* A role reply that reaches the instance of its request and finds no channel
\* comes after the request was decided: no waiter is ever missed, because the
\* channel is in the map before the request is sent.
NoWaiterIsMissed ==
  kind = "role" => \A g \in Gateways :
    LET m == holding[g] IN
    m # Nothing /\ ~m.found /\ Home[m.to] = g => pc[m.to] \in Outcomes \cup {"crashed"}

Stuck(g) == /\ holding[g] # Nothing /\ holding[g].found
            /\ holding[g].to \notin closed /\ ~Ready(holding[g].to)
            /\ pc[holding[g].to] \in Outcomes

\* The merchant consumer hangs only behind a request that gave up with a reply
\* in its channel when a second reply found the channel: one reply never hangs
\* it, however late it comes.
HangsOnlyOnSecondReply ==
  \A g \in Gateways : kind = "merchant" /\ Stuck(g) => takes[holding[g].to] >= 2

\* A subject is admitted, or cached, only if the service knew it at some time:
\* replies are not mixed up, and no failure or refusal is cached as a success.
AdmittedWasGranted ==
  /\ cached \subseteq granted
  /\ \A r \in Requests : pc[r] = "admitted" => subject[r] \in granted

\* What the comment in the role consumer says: a reply whose channel is full
\* or already closed is dropped by the default branch, so no instance dies.
ClosedIsDropped == \A r \in Requests : pc[r] # "crashed"
=============================================================================
