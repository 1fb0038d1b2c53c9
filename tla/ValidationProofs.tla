-------------------------- MODULE ValidationProofs --------------------------
(***************************************************************************)
(* Theorems about Validation.tla, for any gateways, requests and subjects  *)
(* and any number of redelivered replies: no waiting role request misses   *)
(* its reply, one reply alone never hangs the merchant consumer, and only  *)
(* what a service answered is admitted or cached.                          *)
(***************************************************************************)
EXTENDS Validation, TLAPS

Places == {"idle", "register", "send", "wait", "crashed"} \cup Outcomes
Reply  == [to : Requests, valid : BOOLEAN]
Held   == [to : Requests, valid : BOOLEAN, found : BOOLEAN]

ValidationTypeOK ==
  /\ kind \in {"role", "merchant"} /\ subject \in [Requests -> Subjects]
  /\ pc \in [Requests -> Places]
  /\ buffer \in [Requests -> Reply \cup {Nothing}]
  /\ asked \subseteq Requests /\ replies \subseteq Reply
  /\ holding \in [Gateways -> Held \cup {Nothing}]
  /\ takes \in [Requests -> Nat]

Holds(g, r) == holding[g] # Nothing /\ holding[g].to = r

\* The role validator's requests are out only while their channel is in the map
\* or after they were decided.
Asked(r) == r \in asked \/ (\E m \in replies : m.to = r) \/ \E g \in Gateways : Holds(g, r)
RoleInv ==
  kind = "role" =>
    /\ \A r \in Requests : Asked(r) => pc[r] \notin {"idle", "register"}
    /\ \A r \in Requests : pc[r] \in {"send", "wait"} => r \in chans
    /\ NoWaiterIsMissed

\* Wherever a positive reply is, its subject was granted.
GrantInv ==
  /\ AdmittedWasGranted
  /\ \A m \in replies : m.valid => subject[m.to] \in granted
  /\ \A g \in Gateways :
       holding[g] # Nothing /\ holding[g].valid => subject[holding[g].to] \in granted
  /\ \A r \in Requests : buffer[r] # Nothing /\ buffer[r].valid => subject[r] \in granted

\* Every reply that is held or buffered was taken, each by a step of its own.
CountInv ==
  \A r \in Requests :
    /\ buffer[r] # Nothing => takes[r] >= 1
    /\ \A g \in Gateways : Holds(g, r) => /\ takes[r] >= 1
                                          /\ buffer[r] # Nothing => takes[r] >= 2
    /\ \A g, h \in Gateways : g # h /\ Holds(g, r) /\ Holds(h, r) => takes[r] >= 2

-----------------------------------------------------------------------------
(***************************************************************************)
(* Types.                                                                  *)
(***************************************************************************)

\* Nobody waits and nothing has been sent.
LEMMA InitType == Init => ValidationTypeOK
BY DEF Init, ValidationTypeOK, Places

\* Every step of a handler, a consumer or a service keeps the types.
LEMMA NextType == ValidationTypeOK /\ [Next]_vars => ValidationTypeOK'
<1> SUFFICES ASSUME ValidationTypeOK, [Next]_vars PROVE ValidationTypeOK'
  OBVIOUS
<1> USE DEF ValidationTypeOK
<1>1. CASE UNCHANGED vars
  BY <1>1 DEF vars, directory, channels, topics
<1>2. ASSUME NEW r \in Requests,
             Start(r) \/ Register(r) \/ Send(r) \/ Timeout(r) \/ Leave(r)
      PROVE  ValidationTypeOK'
  <2>1. PICK place \in Places : pc' = [pc EXCEPT ![r] = place]
    BY <1>2 DEF Start, Register, Send, Timeout, Leave, Goto, Places, Outcomes
  <2>2. asked' \subseteq Requests /\ UNCHANGED <<directory, buffer, replies, holding, takes>>
    BY <1>2 DEF Start, Register, Send, Timeout, Leave, channels, topics
  <2> QED
    BY <2>1, <2>2 DEF directory
<1>3. ASSUME NEW r \in Requests, Receive(r) PROVE ValidationTypeOK'
  BY <1>3 DEF Receive, Goto, Places, Outcomes, directory, topics
<1>4. ASSUME NEW r \in Requests, Serve(r) PROVE ValidationTypeOK'
  <2>1. \A s : \A verdict \in Verdicts(s) : verdict \in BOOLEAN
    BY DEF Verdicts
  <2>2. replies' \subseteq Reply /\ asked' \subseteq Requests
    BY <1>4, <2>1, SMT DEF Serve, Reply
  <2> QED
    BY <1>4, <2>2 DEF Serve, directory, channels
<1>5. ASSUME NEW g \in Gateways, NEW m \in replies, Take(g, m) PROVE ValidationTypeOK'
  <2>1. m \in Reply /\ [to |-> m.to, valid |-> m.valid,
                        found |-> m.to \in chans /\ Home[m.to] = g] \in Held
    BY DEF Reply, Held
  <2> QED
    BY <1>5, <2>1, SMT DEF Take, directory, channels, topics, Reply
<1>6. ASSUME NEW g \in Gateways, Deliver(g) PROVE ValidationTypeOK'
  <2> DEFINE m == holding[g]
  <2>1. m \in Held
    BY <1>6 DEF Deliver
  <2>2. [to |-> m.to, valid |-> m.valid] \in Reply /\ m.to \in Requests
    BY <2>1 DEF Held, Reply
  <2>3. buffer' \in [Requests -> Reply \cup {Nothing}]
    BY <1>6, <2>2 DEF Deliver, Put
  <2>4. replies' \subseteq Reply /\ holding' \in [Gateways -> Held \cup {Nothing}]
    BY <1>6 DEF Deliver, Marked
  <2> QED
    BY <1>6, <2>3, <2>4 DEF Deliver, directory
<1>7. ASSUME NEW g \in Gateways, Panic(g) PROVE ValidationTypeOK'
  BY <1>7 DEF Panic, Places, directory, topics
<1>8. ASSUME NEW s \in Subjects, Expire(s) PROVE ValidationTypeOK'
  BY <1>8 DEF Expire, directory, channels, topics
<1> QED
  BY <1>1, <1>2, <1>3, <1>4, <1>5, <1>6, <1>7, <1>8 DEF Next

-----------------------------------------------------------------------------
(***************************************************************************)
(* The role validator's channels.                                          *)
(***************************************************************************)

\* A role request has its channel registered from before it is sent.
LEMMA NextRole == ValidationTypeOK /\ RoleInv /\ [Next]_vars => RoleInv'
<1> SUFFICES ASSUME ValidationTypeOK, RoleInv, [Next]_vars, kind' = "role" PROVE RoleInv'
  BY DEF RoleInv
<1> USE DEF RoleInv, NoWaiterIsMissed, Asked, Holds
<1> DEFINE Decided == Outcomes \cup {"crashed"}
<1>1. CASE UNCHANGED vars
  BY <1>1 DEF vars, directory, channels, topics
<1>2. ASSUME NEW r \in Requests, Start(r) \/ Register(r) \/ Send(r) PROVE RoleInv'
  <2>1. kind = "role" /\ UNCHANGED <<holding, replies>>
    BY <1>2 DEF Start, Register, Send, directory, channels, topics
  <2>2. CASE Start(r)
    BY <2>1, <2>2 DEF Start, Goto, RegistersFirst, ValidationTypeOK, channels, topics, Outcomes
  <2>3. CASE Register(r)
    BY <2>1, <2>3 DEF Register, Goto, RegistersFirst, ValidationTypeOK, topics, Outcomes
  <2>4. CASE Send(r)
    <3>1. /\ pc[r] = "send" /\ UNCHANGED chans /\ asked' \subseteq asked \cup {r}
          /\ pc' = [pc EXCEPT ![r] = "wait"] \/ pc' = [pc EXCEPT ![r] = "failed"]
      BY <2>1, <2>4 DEF Send, Goto, RegistersFirst, channels
    <3>2. \A q \in Requests \ {r} : pc'[q] = pc[q] /\ (Asked(q)' => Asked(q))
      BY <2>1, <3>1 DEF ValidationTypeOK
    <3>3. pc'[r] \in {"wait", "failed"} /\ r \in chans'
      BY <2>1, <3>1 DEF ValidationTypeOK
    <3>4. \A q \in Requests : Asked(q)' => pc'[q] \notin {"idle", "register"}
      BY <2>1, <3>2, <3>3
    <3>5. \A q \in Requests : pc'[q] \in {"send", "wait"} => q \in chans'
      BY <2>1, <3>1, <3>2, <3>3
    <3>6. NoWaiterIsMissed'
      <4>1. \A g \in Gateways : holding[g] # Nothing => holding[g].to \in Requests
        BY DEF ValidationTypeOK, Held
      <4>2. pc[r] \notin Decided
        BY <3>1 DEF Outcomes
      <4> QED
        BY <2>1, <3>2, <4>1, <4>2
    <3> QED
      BY <3>4, <3>5, <3>6
  <2> QED
    BY <1>2, <2>2, <2>3, <2>4
<1>3. ASSUME NEW r \in Requests, Receive(r) \/ Timeout(r) \/ Leave(r) PROVE RoleInv'
  <2>1. kind = "role" /\ UNCHANGED <<asked, holding, replies>>
    BY <1>3 DEF Receive, Timeout, Leave, directory, topics
  <2>2. CASE Receive(r) \/ Timeout(r)
    <3>1. UNCHANGED chans /\ \E place \in Outcomes : pc' = [pc EXCEPT ![r] = place]
      BY <2>2 DEF Receive, Timeout, Goto, channels, Outcomes
    <3> QED
      BY <2>1, <3>1 DEF ValidationTypeOK, Outcomes
  <2>3. CASE Leave(r)
    BY <2>1, <2>3 DEF Leave, Outcomes
  <2> QED
    BY <1>3, <2>2, <2>3
<1>4. ASSUME NEW r \in Requests, Serve(r) PROVE RoleInv'
  <2>1. r \in asked /\ asked' \subseteq asked /\ \A m \in replies' : m \in replies \/ m.to = r
    BY <1>4 DEF Serve
  <2> QED
    BY <1>4, <2>1 DEF Serve, directory, channels
<1>5. ASSUME NEW g \in Gateways, NEW m \in replies, Take(g, m) PROVE RoleInv'
  <2>1. m.to \in Requests
    BY DEF ValidationTypeOK, Reply
  <2>2. kind = "role" /\ UNCHANGED <<pc, asked, replies, chans>>
    BY <1>5 DEF Take, directory, channels, topics
  <2>3. /\ \A h \in Gateways \ {g} : holding'[h] = holding[h]
        /\ holding'[g].to = m.to
        /\ holding'[g].found = (m.to \in chans /\ Home[m.to] = g)
    BY <1>5 DEF Take, ValidationTypeOK
  <2>4. \A q \in Requests : Asked(q)' => Asked(q)
    BY <2>2, <2>3
  <2>5. pc[m.to] \in {"send", "wait"} \cup Decided
    BY <2>1, <2>2 DEF ValidationTypeOK, Places
  <2> QED
    BY <2>1, <2>2, <2>3, <2>4, <2>5
<1>6. ASSUME NEW g \in Gateways, Deliver(g) PROVE RoleInv'
  <2>1. UNCHANGED <<kind, pc, asked, chans>> /\ replies' \subseteq replies
        /\ holding' = [holding EXCEPT ![g] = Nothing]
    BY <1>6 DEF Deliver, Marked, directory
  <2>2. \A h \in Gateways : holding'[h] = Nothing \/ holding'[h] = holding[h]
    BY <2>1 DEF ValidationTypeOK
  <2>3. \A q \in Requests : Asked(q)' => Asked(q)
    BY <2>1, <2>2
  <2>4. NoWaiterIsMissed'
    BY <2>1, <2>2
  <2> QED
    BY <2>1, <2>3, <2>4
<1>7. ASSUME NEW g \in Gateways, Panic(g) PROVE RoleInv'
  <2>1. /\ UNCHANGED <<kind, asked, replies>>
        /\ holding' = [holding EXCEPT ![g] = Nothing]
        /\ chans' = {r \in chans : Home[r] # g}
        /\ pc' = [r \in Requests |->
                    IF Home[r] = g /\ pc[r] # "idle" THEN "crashed" ELSE pc[r]]
    BY <1>7 DEF Panic, directory, topics
  <2>2. \A h \in Gateways : holding'[h] = Nothing \/ holding'[h] = holding[h]
    BY <2>1 DEF ValidationTypeOK
  <2>3. \A q \in Requests : pc'[q] = "crashed" \/ (pc'[q] = pc[q] /\ (Home[q] # g \/ pc[q] = "idle"))
    BY <2>1
  <2>4. \A q \in Requests : Asked(q)' => Asked(q)
    BY <2>1, <2>2
  <2>5. \A q \in Requests : Asked(q)' => pc'[q] \notin {"idle", "register"}
    BY <2>1, <2>3, <2>4
  <2>6. \A q \in Requests : pc'[q] \in {"send", "wait"} => q \in chans'
    BY <2>1, <2>3
  <2>7. NoWaiterIsMissed'
    <3>1. \A h \in Gateways : holding[h] # Nothing => holding[h].to \in Requests
      BY DEF ValidationTypeOK, Held
    <3> QED
      BY <2>1, <2>2, <2>3, <3>1
  <2> QED
    BY <2>5, <2>6, <2>7
<1>8. ASSUME NEW s \in Subjects, Expire(s) PROVE RoleInv'
  BY <1>8 DEF Expire, directory, channels, topics
<1> QED
  BY <1>1, <1>2, <1>3, <1>4, <1>5, <1>6, <1>7, <1>8 DEF Next

-----------------------------------------------------------------------------
(***************************************************************************)
(* What was granted.                                                       *)
(***************************************************************************)

\* A positive reply is of a granted subject wherever it is.
LEMMA NextGrant == ValidationTypeOK /\ GrantInv /\ [Next]_vars => GrantInv'
<1> SUFFICES ASSUME ValidationTypeOK, GrantInv, [Next]_vars PROVE GrantInv'
  OBVIOUS
<1> USE DEF GrantInv, AdmittedWasGranted
<1>1. CASE UNCHANGED vars
  BY <1>1 DEF vars, directory, channels, topics
<1>2. ASSUME NEW r \in Requests,
             Start(r) \/ Register(r) \/ Send(r) \/ Timeout(r) \/ Leave(r)
      PROVE  GrantInv'
  <2>1. UNCHANGED <<directory, cached, buffer, replies, holding>>
    BY <1>2 DEF Start, Register, Send, Timeout, Leave, channels, topics
  <2>2. \A q \in Requests : pc'[q] = "admitted" => pc[q] = "admitted" \/ subject[q] \in cached
    BY <1>2 DEF Start, Register, Send, Timeout, Leave, Goto, ValidationTypeOK, Outcomes
  <2> QED
    BY <2>1, <2>2 DEF directory
<1>3. ASSUME NEW r \in Requests, Receive(r) PROVE GrantInv'
  <2>1. /\ UNCHANGED <<directory, replies, holding>>
        /\ buffer' = [buffer EXCEPT ![r] = Nothing]
        /\ buffer[r] # Nothing
    BY <1>3 DEF Receive, topics
  <2>2. cached' \subseteq granted
    BY <1>3, <2>1 DEF Receive
  <2>3. \A q \in Requests : pc'[q] = "admitted" => subject[q] \in granted
    BY <1>3, <2>1 DEF Receive, Goto, ValidationTypeOK
  <2> QED
    BY <2>1, <2>2, <2>3 DEF directory, ValidationTypeOK
<1>4. ASSUME NEW r \in Requests, Serve(r) PROVE GrantInv'
  <2>1. UNCHANGED <<directory, cached, pc, channels, holding>>
    BY <1>4 DEF Serve
  <2>2. \A m \in replies' : m \in replies \/ (m.to = r /\ (m.valid => subject[r] \in granted))
    BY <1>4 DEF Serve, Verdicts
  <2> QED
    BY <2>1, <2>2 DEF directory, channels
<1>5. ASSUME NEW g \in Gateways, NEW m \in replies, Take(g, m) PROVE GrantInv'
  <2>1. UNCHANGED <<directory, cached, pc, channels, replies>>
    BY <1>5 DEF Take, topics
  <2>2. /\ \A h \in Gateways \ {g} : holding'[h] = holding[h]
        /\ holding'[g].to = m.to /\ holding'[g].valid = m.valid
    BY <1>5 DEF Take, ValidationTypeOK
  <2> QED
    BY <2>1, <2>2 DEF directory, channels
<1>6. ASSUME NEW g \in Gateways, Deliver(g) PROVE GrantInv'
  <2> DEFINE m == holding[g]
  <2>1. UNCHANGED <<directory, cached, pc>> /\ replies' \subseteq replies
        /\ holding' = [holding EXCEPT ![g] = Nothing] /\ m # Nothing
    BY <1>6 DEF Deliver, Marked
  <2>2. m.to \in Requests
    BY <2>1 DEF ValidationTypeOK, Held
  <2>3. UNCHANGED buffer \/ buffer' = [buffer EXCEPT ![m.to] = [to |-> m.to, valid |-> m.valid]]
    BY <1>6 DEF Deliver, Put
  <2>4. \A r \in Requests : buffer'[r] # Nothing /\ buffer'[r].valid => subject[r] \in granted
    BY <2>1, <2>2, <2>3 DEF ValidationTypeOK
  <2> QED
    BY <2>1, <2>4 DEF directory, ValidationTypeOK
<1>7. ASSUME NEW g \in Gateways, Panic(g) PROVE GrantInv'
  BY <1>7 DEF Panic, ValidationTypeOK, directory, topics
<1>8. ASSUME NEW s \in Subjects, Expire(s) PROVE GrantInv'
  BY <1>8 DEF Expire, directory, channels, topics
<1> QED
  BY <1>1, <1>2, <1>3, <1>4, <1>5, <1>6, <1>7, <1>8 DEF Next

-----------------------------------------------------------------------------
(***************************************************************************)
(* Replies that were taken.                                                *)
(***************************************************************************)

\* Every reply that is held or buffered was taken by a step of its own.
LEMMA NextCount == ValidationTypeOK /\ CountInv /\ [Next]_vars => CountInv'
<1> SUFFICES ASSUME ValidationTypeOK, CountInv, [Next]_vars PROVE CountInv'
  OBVIOUS
<1> USE DEF CountInv, Holds
<1>1. CASE UNCHANGED <<buffer, holding, takes>>
  BY <1>1
<1>2. ASSUME NEW r \in Requests, Receive(r) PROVE CountInv'
  BY <1>2 DEF Receive, ValidationTypeOK
<1>3. ASSUME NEW g \in Gateways, NEW m \in replies, Take(g, m) PROVE CountInv'
  <2>1. m.to \in Requests
    BY DEF ValidationTypeOK, Reply
  <2>2. /\ UNCHANGED buffer
        /\ \A h \in Gateways \ {g} : holding'[h] = holding[h]
        /\ holding'[g].to = m.to
        /\ \A q \in Requests : takes'[q] = IF q = m.to THEN takes[q] + 1 ELSE takes[q]
    BY <1>3, <2>1 DEF Take, ValidationTypeOK, channels
  <2> QED
    BY <2>1, <2>2 DEF ValidationTypeOK
<1>4. ASSUME NEW g \in Gateways, Deliver(g) PROVE CountInv'
  <2> DEFINE m == holding[g]
  <2>1. /\ UNCHANGED takes /\ m # Nothing
        /\ \A h \in Gateways : holding'[h] = IF h = g THEN Nothing ELSE holding[h]
    BY <1>4 DEF Deliver, Marked, ValidationTypeOK
  <2>2. m.to \in Requests
    BY <2>1 DEF ValidationTypeOK, Held
  <2>3. \A r \in Requests \ {m.to} : buffer'[r] = buffer[r]
    BY <1>4, <2>2 DEF Deliver, Put, ValidationTypeOK
  <2> QED
    BY <2>1, <2>2, <2>3
<1>5. ASSUME NEW g \in Gateways, Panic(g) PROVE CountInv'
  BY <1>5 DEF Panic, ValidationTypeOK
<1>6. ASSUME NEW r \in Requests,
             \/ Start(r) \/ Register(r) \/ Send(r) \/ Timeout(r) \/ Leave(r) \/ Serve(r)
      PROVE  UNCHANGED <<buffer, holding, takes>>
  BY <1>6 DEF Start, Register, Send, Timeout, Leave, Serve, channels
<1>7. ASSUME NEW s \in Subjects, Expire(s) PROVE UNCHANGED <<buffer, holding, takes>>
  BY <1>7 DEF Expire, channels
<1>8. CASE UNCHANGED vars
  BY <1>1, <1>8 DEF vars, channels
<1> QED
  BY <1>1, <1>2, <1>3, <1>4, <1>5, <1>6, <1>7, <1>8 DEF Next

-----------------------------------------------------------------------------

\* Every variable keeps its type.
LEMMA TypeHolds == Spec => []ValidationTypeOK
BY InitType, NextType, PTL DEF Spec

\* The channel is in the map before the request is sent and stays there until
\* the request is decided, so no role reply passes a waiting request by,
\* whatever else the consumers and the other requests do in between.
THEOREM NoRoleReplyIsMissed == Spec => []NoWaiterIsMissed
<1>1. Init => RoleInv
  BY DEF Init, RoleInv, NoWaiterIsMissed, Asked, Holds
<1>2. RoleInv => NoWaiterIsMissed
  BY DEF RoleInv, NoWaiterIsMissed
<1> QED
  BY <1>1, <1>2, NextRole, TypeHolds, PTL DEF Spec

\* Nobody is admitted, by a reply or from the cache, whom the role or merchant
\* service did not know, however often replies are redelivered or misrouted.
THEOREM OnlyGrantedAreAdmitted == Spec => []AdmittedWasGranted
<1>1. Init => GrantInv
  BY DEF Init, GrantInv, AdmittedWasGranted
<1>2. GrantInv => AdmittedWasGranted
  BY DEF GrantInv
<1> QED
  BY <1>1, <1>2, NextGrant, TypeHolds, PTL DEF Spec

\* The buffer of one absorbs a reply that comes after its request gave up: the
\* merchant consumer can hang only on a second reply to the same request.
THEOREM OneLateReplyIsHarmless == Spec => []HangsOnlyOnSecondReply
<1>1. Init => CountInv
  BY DEF Init, CountInv, Holds
<1>2. ValidationTypeOK /\ CountInv => HangsOnlyOnSecondReply
  BY DEF ValidationTypeOK, CountInv, Holds, HangsOnlyOnSecondReply, Stuck, Ready, Held
<1> QED
  BY <1>1, <1>2, NextCount, TypeHolds, PTL DEF Spec
=============================================================================
