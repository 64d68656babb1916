----------------------------- MODULE DeviceProofs -----------------------------
(***************************************************************************)
(* Theorems about DeviceAuthorization: whatever the CLIs, the network and  *)
(* the clock do, the two tables keep the promise of DeviceGrant.           *)
(***************************************************************************)
EXTENDS DeviceAuthorization, FiniteSetTheorems, TLAPS

USE DeviceAssumption

WorkingPcs == {"sentPoll", "select", "slot", "slow", "issue", "approve", "deny"}

\* The server's share of TypeOK
StoreType ==
    /\ authorizations \in [Devices -> Authorization]
    /\ agentTokens \in [Tokens -> AgentToken]
    /\ reqs \in [Requests -> Request]
    /\ owner \in Emails /\ now \in Nat

\* A request that works on a device, or has been granted one, knows it.
KnowsDevice(q) == q.pc \in WorkingPcs \/ q.answer = "granted" => q.device \in Devices

RequestsOK == \A r \in Requests : KnowsDevice(reqs[r])

ServerInv == StoreType /\ RequestsOK

\* A CLI that polls knows its device, and a CLI that waits its request.
CliOK(p) ==
    /\ p.pc \in {"sleeping", "polling"} => p.device \in Devices
    /\ p.pc \in {"starting", "polling"} => p.req \in Requests

CliInv ==
    /\ clis \in [Clis -> Process]
    /\ \A c \in Clis : CliOK(clis[c])
    /\ credential \in Tokens \cup {Null}

TypeInv == ServerInv /\ CliInv

StoreInv ==
    /\ \A t \in Tokens : agentTokens[t].row = "unused" => agentTokens[t].device = Null
    /\ \A d \in Devices : authorizations[d].row = "unused"
                             => authorizations[d].status = "pending"
    /\ OneTokenPerDevice
    /\ ConsumedMeansIssued

-------------------------------------------------------------------------------
(* The seven ways in which the tables change *)

Keeps(d) == /\ authorizations'[d].row = authorizations[d].row
            /\ authorizations'[d].status = authorizations[d].status

QuietStep ==
    /\ \A d \in Devices : Keeps(d)
    /\ UNCHANGED agentTokens

AskStep(d) ==
    /\ authorizations[d].row = "unused"
    /\ authorizations'[d].row = "present" /\ authorizations'[d].status = "pending"
    /\ \A e \in Devices \ {d} : Keeps(e)
    /\ UNCHANGED agentTokens

DecideStep(d) ==
    /\ authorizations[d].row = "present" /\ authorizations[d].status = "pending"
    /\ authorizations'[d].row = "present"
    /\ authorizations'[d].status \in {"approved", "denied"}
    /\ \A e \in Devices \ {d} : Keeps(e)
    /\ UNCHANGED agentTokens

IssueStep(d, t) ==
    /\ authorizations[d].row = "present" /\ authorizations[d].status = "approved"
    /\ authorizations'[d].row = "present" /\ authorizations'[d].status = "consumed"
    /\ \A e \in Devices \ {d} : Keeps(e)
    /\ agentTokens[t].row = "unused"
    /\ agentTokens'[t].row = "present" /\ agentTokens'[t].device = d
    /\ \A u \in Tokens \ {t} : agentTokens'[u] = agentTokens[u]

MakeStep(t) ==
    /\ UNCHANGED authorizations
    /\ agentTokens[t].row = "unused"
    /\ agentTokens'[t].row = "present" /\ agentTokens'[t].device = Null
    /\ \A u \in Tokens \ {t} : agentTokens'[u] = agentTokens[u]

EndStep(S) ==
    /\ UNCHANGED authorizations
    /\ \A t \in S : agentTokens[t].row = "present"
    /\ \A t \in Tokens :
          /\ agentTokens'[t].row = (IF t \in S THEN "deleted" ELSE agentTokens[t].row)
          /\ agentTokens'[t].device = agentTokens[t].device

SweepStep(S) ==
    /\ UNCHANGED agentTokens
    /\ \A d \in S : authorizations[d].row = "present"
    /\ \A d \in Devices :
          /\ authorizations'[d].row = (IF d \in S THEN "deleted"
                                       ELSE authorizations[d].row)
          /\ authorizations'[d].status = authorizations[d].status

StoreStep ==
    \/ QuietStep
    \/ \E d \in Devices : AskStep(d) \/ DecideStep(d)
    \/ \E d \in Devices, t \in Tokens : IssueStep(d, t)
    \/ \E t \in Tokens : MakeStep(t)
    \/ \E S \in SUBSET Tokens : EndStep(S)
    \/ \E S \in SUBSET Devices : SweepStep(S)
-------------------------------------------------------------------------------
(* Types *)

\* Storing a request that knows its device keeps the requests well-formed.
LEMMA StoreRequest ==
    ASSUME StoreType, RequestsOK, NEW r \in Requests, NEW q \in Request,
           KnowsDevice(q),
           Advance(r, q)
    PROVE  (reqs \in [Requests -> Request])' /\ RequestsOK'
BY DEF StoreType, RequestsOK, Advance

\* A request that moves on keeps the types and what it knows.
LEMMA GotoType ==
    ASSUME ServerInv, NEW r \in Requests, NEW pc \in {"issue", "slow"},
           reqs[r].device \in Devices, Goto(r, pc)
    PROVE  (reqs \in [Requests -> Request])' /\ RequestsOK'
<1>1. reqs[r] \in Request
  BY DEF ServerInv, StoreType
<1>2. ASSUME NEW p \in Request, p = reqs[r], NEW q, q = [p EXCEPT !.pc = pc]
      PROVE q \in Request /\ KnowsDevice(q)
  BY <1>2 DEF Request, ServerPcs, KnowsDevice
<1>3. PICK q : q = [reqs[r] EXCEPT !.pc = pc]
  OBVIOUS
<1>4. q \in Request /\ KnowsDevice(q)
  BY <1>1, <1>2, <1>3
<1>5. Advance(r, q)
  BY <1>3 DEF Goto
<1>. QED  BY <1>4, <1>5, StoreRequest DEF ServerInv

\* So does a request that answers, unless it answers "granted".
LEMMA AnswerType ==
    ASSUME ServerInv, NEW r \in Requests, NEW a \in Answers \ {"granted"}, Answer(r, a)
    PROVE  (reqs \in [Requests -> Request])' /\ RequestsOK'
<1>1. reqs[r] \in Request
  BY DEF ServerInv, StoreType
<1>2. ASSUME NEW p \in Request, NEW q, q = [p EXCEPT !.pc = "answered", !.answer = a]
      PROVE q \in Request /\ KnowsDevice(q)
  BY <1>2 DEF Request, KnowsDevice, WorkingPcs
<1>3. PICK q : q = [reqs[r] EXCEPT !.pc = "answered", !.answer = a]
  OBVIOUS
<1>4. q \in Request /\ KnowsDevice(q)
  BY <1>1, <1>2, <1>3
<1>5. Advance(r, q)
  BY <1>3 DEF Answer
<1>. QED  BY <1>4, <1>5, StoreRequest DEF ServerInv

\* The Worker's steps
LEMMA ServeType ==
    ASSUME ServerInv, NEW r \in Requests, Serve(r)
    PROVE  ServerInv'
<1>. USE DEF ServerInv, StoreType
<1>0. /\ reqs[r] \in Request /\ KnowsDevice(reqs[r])
      /\ reqs[r].device \in Devices => authorizations[reqs[r].device] \in Authorization
  BY DEF RequestsOK
<1>1. CASE Arrive(r)
  <2>1. PICK p \in Request : p = reqs[r]
    BY <1>0
  <2>2. PICK u : u = [p EXCEPT !.pc = IF @ = "sentStart" THEN "start" ELSE "select",
                               !.now = now, !.email = owner]
    OBVIOUS
  <2>3. p.pc \in {"sentStart", "sentPoll"} /\ KnowsDevice(p) /\ Advance(r, u)
    BY <1>0, <1>1, <2>1, <2>2, Zenon DEF Arrive
  <2>4. u \in Request /\ KnowsDevice(u)
    BY <2>2, <2>3 DEF Request, ServerPcs, KnowsDevice, WorkingPcs
  <2>5. UNCHANGED <<now, owner, authorizations, agentTokens>>
    BY <1>1 DEF Arrive, server
  <2>. QED  BY <2>3, <2>4, <2>5, StoreRequest
<1>2. CASE Start(r)
  <2>0. UNCHANGED <<now, owner, agentTokens>>
    BY <1>2 DEF Start
  <2>1. CASE Answer(r, "rate_limited") /\ UNCHANGED authorizations
    BY <2>0, <2>1, AnswerType DEF Answers
  <2>2. ASSUME NEW d \in Devices,
               authorizations' = [authorizations EXCEPT ![d] =
                   [row |-> "present", email |-> reqs[r].email,
                    status |-> "pending", days |-> 30, createdAt |-> reqs[r].now,
                    expiresAt |-> reqs[r].now + Lifetime,
                    nextPollAt |-> reqs[r].now + PollInterval,
                    interval |-> PollInterval]],
               Advance(r, [reqs[r] EXCEPT !.pc = "answered", !.answer = "granted",
                                          !.device = d, !.interval = PollInterval])
        PROVE  ServerInv'
    <3>1. ASSUME NEW p \in Request, NEW u,
                 u = [p EXCEPT !.pc = "answered", !.answer = "granted",
                               !.device = d, !.interval = PollInterval]
          PROVE  u \in Request /\ KnowsDevice(u)
      BY <3>1 DEF Request, Answers, KnowsDevice, WorkingPcs
    <3>2. PICK u : u = [reqs[r] EXCEPT !.pc = "answered", !.answer = "granted",
                                       !.device = d, !.interval = PollInterval]
      OBVIOUS
    <3>3. u \in Request /\ KnowsDevice(u) /\ Advance(r, u)
      BY <1>0, <2>2, <3>1, <3>2
    <3>4. (authorizations \in [Devices -> Authorization])'
      BY <1>0, <2>2 DEF Authorization, Request, Rows, Statuses
    <3>. QED  BY <2>0, <3>3, <3>4, StoreRequest
  <2>. QED  BY <1>2, <2>1, <2>2 DEF Start
<1>3. CASE Decide(r)
  <2>1. reqs[r].device \in Devices /\ Advance(r, Idle)
        /\ UNCHANGED <<now, owner, agentTokens>>
    BY <1>3, <1>0 DEF Decide, KnowsDevice, WorkingPcs
  <2>2. Idle \in Request /\ KnowsDevice(Idle)
    BY DEF Idle, Request, Answers, Statuses, KnowsDevice, WorkingPcs
  <2>3. (authorizations \in [Devices -> Authorization])'
    <3>1. ASSUME NEW s \in Statuses, NEW n \in Nat,
                 authorizations' = [authorizations EXCEPT ![reqs[r].device].status = s,
                                                          ![reqs[r].device].days = n]
          PROVE  (authorizations \in [Devices -> Authorization])'
      BY <2>1, <3>1 DEF Authorization
    <3>2. CASE UNCHANGED authorizations
      BY <3>2
    <3>3. ASSUME NEW days \in Days,
                 authorizations' = [authorizations EXCEPT
                    ![reqs[r].device].status =
                        IF reqs[r].pc = "approve" THEN "approved" ELSE "denied",
                    ![reqs[r].device].days = IF reqs[r].pc = "approve" THEN days ELSE 30]
          PROVE  (authorizations \in [Devices -> Authorization])'
      <4>1. CASE reqs[r].pc = "approve"
        BY <3>1, <3>3, <4>1 DEF Statuses
      <4>2. CASE reqs[r].pc # "approve"
        BY <3>1, <3>3, <4>2 DEF Statuses
      <4>. QED  BY <4>1, <4>2
    <3>. QED  BY <1>3, <3>2, <3>3 DEF Decide
  <2>. QED  BY <2>1, <2>2, <2>3, StoreRequest
<1>4. CASE PollSelect(r)
  <2>1. reqs[r].device \in Devices /\ UNCHANGED <<now, owner, authorizations, agentTokens>>
    BY <1>4, <1>0 DEF PollSelect, KnowsDevice, WorkingPcs, server
  <2>2. CASE \E a \in {"expired_token", "access_denied"} : Answer(r, a)
    BY <2>1, <2>2, AnswerType DEF Answers
  <2>3. ASSUME Advance(r, [reqs[r] EXCEPT !.pc = "slot",
                              !.status = authorizations[reqs[r].device].status])
        PROVE  ServerInv'
    <3>1. PICK s \in Statuses : s = authorizations[reqs[r].device].status
      BY <1>0, <2>1 DEF Authorization
    <3>2. PICK p \in Request : p = reqs[r]
      BY <1>0
    <3>3. PICK u : u = [p EXCEPT !.pc = "slot", !.status = s]
      OBVIOUS
    <3>4. u \in Request /\ KnowsDevice(u)
      BY <2>1, <3>2, <3>3 DEF Request, ServerPcs, KnowsDevice
    <3>5. Advance(r, u)
      BY <2>3, <3>1, <3>2, <3>3, Zenon
    <3>. QED  BY <2>1, <3>4, <3>5, StoreRequest
  <2>. QED  BY <1>4, <2>2, <2>3 DEF PollSelect
<1>5. CASE ReserveSlot(r)
  <2>1. reqs[r].device \in Devices /\ UNCHANGED <<now, owner, agentTokens>>
    BY <1>5, <1>0 DEF ReserveSlot, KnowsDevice, WorkingPcs
  <2>2. (authorizations \in [Devices -> Authorization])'
    <3>1. CASE UNCHANGED authorizations
      BY <3>1
    <3>2. CASE authorizations' = [authorizations EXCEPT ![reqs[r].device].nextPollAt =
                  reqs[r].now + authorizations[reqs[r].device].interval]
      BY <1>0, <2>1, <3>2 DEF Authorization, Request
    <3>. QED  BY <1>5, <3>1, <3>2 DEF ReserveSlot
  <2>3. Answer(r, "authorization_pending") \/ Goto(r, "issue") \/ Goto(r, "slow")
    BY <1>5 DEF ReserveSlot
  <2>. QED  BY <2>1, <2>2, <2>3, AnswerType, GotoType DEF Answers
<1>6. CASE SlowDown(r)
  <2>. DEFINE a      == authorizations[reqs[r].device]
              slower == Smaller(a.interval + SlowStep, MaxInterval)
  <2>1. reqs[r].device \in Devices /\ UNCHANGED <<now, owner, agentTokens>>
    BY <1>6, <1>0 DEF SlowDown, KnowsDevice, WorkingPcs
  <2>2. slower \in Nat /\ FallbackInterval \in Nat
    BY <1>0, <2>1 DEF Authorization, Smaller, FallbackInterval
  <2>3. ASSUME NEW n \in Nat,
               Advance(r, [reqs[r] EXCEPT !.pc = "answered", !.answer = "slow_down",
                                          !.interval = n])
        PROVE  (reqs \in [Requests -> Request])' /\ RequestsOK'
    <3>1. ASSUME NEW p \in Request, NEW u,
                 u = [p EXCEPT !.pc = "answered", !.answer = "slow_down", !.interval = n]
          PROVE  u \in Request /\ KnowsDevice(u)
      BY <3>1 DEF Request, Answers, KnowsDevice, WorkingPcs
    <3>2. PICK u : u = [reqs[r] EXCEPT !.pc = "answered", !.answer = "slow_down",
                                       !.interval = n]
      OBVIOUS
    <3>3. u \in Request /\ KnowsDevice(u) /\ Advance(r, u)
      BY <1>0, <2>3, <3>1, <3>2
    <3>. QED  BY <3>3, StoreRequest
  <2>4. CASE /\ authorizations' = [authorizations EXCEPT
                   ![reqs[r].device].interval = slower,
                   ![reqs[r].device].nextPollAt = reqs[r].now + slower]
             /\ Advance(r, [reqs[r] EXCEPT !.pc = "answered", !.answer = "slow_down",
                                           !.interval = slower])
    <3>1. (authorizations \in [Devices -> Authorization])'
      <4>. HIDE DEF slower
      <4>. QED  BY <1>0, <2>1, <2>2, <2>4 DEF Authorization, Request
    <3>2. (reqs \in [Requests -> Request])' /\ RequestsOK'
      <4>. HIDE DEF slower
      <4>. QED  BY <2>2, <2>3, <2>4
    <3>. QED  BY <2>1, <3>1, <3>2
  <2>5. CASE /\ UNCHANGED authorizations
             /\ Advance(r, [reqs[r] EXCEPT !.pc = "answered", !.answer = "slow_down",
                                           !.interval = FallbackInterval])
    BY <2>1, <2>2, <2>3, <2>5
  <2>. QED  BY <1>6, <2>4, <2>5 DEF SlowDown
<1>7. CASE Issue(r)
  <2>1. reqs[r].device \in Devices /\ UNCHANGED <<now, owner>>
    BY <1>7, <1>0 DEF Issue, KnowsDevice, WorkingPcs
  <2>2. CASE Answer(r, "authorization_pending") /\ UNCHANGED server
    BY <2>1, <2>2, AnswerType DEF Answers, server
  <2>3. ASSUME NEW t \in Tokens, InsertToken(t, reqs[r]),
               authorizations' = [authorizations EXCEPT
                                     ![reqs[r].device].status = "consumed"],
               Advance(r, [reqs[r] EXCEPT !.pc = "answered", !.answer = "token",
                                          !.token = t])
        PROVE  ServerInv'
    <3>1. ASSUME NEW p \in Request, NEW u,
                 u = [p EXCEPT !.pc = "answered", !.answer = "token", !.token = t]
          PROVE  u \in Request /\ KnowsDevice(u)
      BY <3>1 DEF Request, Answers, KnowsDevice, WorkingPcs
    <3>2. PICK u : u = [reqs[r] EXCEPT !.pc = "answered", !.answer = "token",
                                       !.token = t]
      OBVIOUS
    <3>3. u \in Request /\ KnowsDevice(u) /\ Advance(r, u)
      BY <1>0, <2>3, <3>1, <3>2
    <3>4. (authorizations \in [Devices -> Authorization])'
      BY <1>0, <2>1, <2>3 DEF Authorization, Statuses
    <3>5. (agentTokens \in [Tokens -> AgentToken])'
      BY <1>0, <2>1, <2>3 DEF InsertToken, AgentToken, Authorization, Request, Rows
    <3>. QED  BY <2>1, <3>3, <3>4, <3>5, StoreRequest
  <2>. QED  BY <1>7, <2>2, <2>3 DEF Issue
<1>. QED  BY <1>1, <1>2, <1>3, <1>4, <1>5, <1>6, <1>7 DEF Serve

\* A step of a CLI or of the network only frees requests or loses their client;
\* a CLI that never sent a request has none to free.
LEMMA FreeType ==
    ASSUME ServerInv, NEW r,
           Advance(r, Idle) \/ Advance(r, [reqs[r] EXCEPT !.cli = Null])
    PROVE  (reqs \in [Requests -> Request])' /\ RequestsOK'
<1>. USE DEF ServerInv, StoreType
<1>1. CASE r \notin Requests
  <2>1. reqs' = reqs
    BY <1>1 DEF Advance
  <2>. QED  BY <2>1 DEF RequestsOK
<1>2. CASE r \in Requests /\ Advance(r, Idle)
  <2>1. Idle \in Request /\ KnowsDevice(Idle)
    BY DEF Idle, Request, Answers, Statuses, KnowsDevice, WorkingPcs
  <2>. QED  BY <1>2, <2>1, StoreRequest
<1>3. CASE r \in Requests /\ Advance(r, [reqs[r] EXCEPT !.cli = Null])
  <2>1. PICK p \in Request : p = reqs[r]
    BY <1>3
  <2>2. PICK u : u = [p EXCEPT !.cli = Null]
    OBVIOUS
  <2>3. KnowsDevice(p)
    BY <1>3, <2>1 DEF RequestsOK
  <2>4. u \in Request /\ KnowsDevice(u)
    BY <2>2, <2>3 DEF Request, KnowsDevice
  <2>5. Advance(r, u)
    BY <1>3, <2>1, <2>2, Zenon
  <2>. QED  BY <1>3, <2>4, <2>5, StoreRequest
<1>. QED  BY <1>1, <1>2, <1>3

\* The other steps of the server, of its owner and of its environment
LEMMA OwnerType ==
    ASSUME ServerInv,
           \/ \E r \in Requests : BeginDecide(r) \/ ServerFails(r) \/ DropAnswer(r)
           \/ MakeToken \/ RevokeToken \/ SweepTokens \/ SweepAuthorizations
           \/ Redeploy \/ Tick
    PROVE  ServerInv'
<1>. USE DEF ServerInv, StoreType
<1>1. ASSUME NEW r \in Requests, BeginDecide(r)
      PROVE  ServerInv'
  <2>1. PICK i : i = Idle
    OBVIOUS
  <2>0. PICK d \in Devices, pc \in {"approve", "deny"} :
           Advance(r, [i EXCEPT !.pc = pc, !.device = d, !.email = owner, !.now = now])
    BY <1>1, <2>1 DEF BeginDecide
  <2>2. PICK u : /\ u = [i EXCEPT !.pc = pc, !.device = d, !.email = owner, !.now = now]
                 /\ Advance(r, u)
    BY <2>0
  <2>3. u \in Request /\ KnowsDevice(u)
    BY <2>1, <2>2 DEF Idle, Request, Answers, Statuses, ServerPcs, KnowsDevice
  <2>4. UNCHANGED <<now, owner, authorizations, agentTokens>>
    BY <1>1 DEF BeginDecide, server
  <2>. QED  BY <2>2, <2>3, <2>4, StoreRequest
<1>2. ASSUME NEW r \in Requests, ServerFails(r)
      PROVE  ServerInv'
  <2>1. UNCHANGED <<now, owner, authorizations, agentTokens>>
    BY <1>2 DEF ServerFails, server
  <2>2. CASE Advance(r, Idle)
    BY <2>1, <2>2, FreeType
  <2>3. CASE Advance(r, [reqs[r] EXCEPT !.pc = "answered", !.answer = "unavailable",
                                        !.token = Null])
    <3>1. PICK p \in Request : p = reqs[r]
      OBVIOUS
    <3>2. PICK u : u = [p EXCEPT !.pc = "answered", !.answer = "unavailable",
                                 !.token = Null]
      OBVIOUS
    <3>3. u \in Request /\ KnowsDevice(u)
      BY <3>2 DEF Request, Answers, KnowsDevice, WorkingPcs
    <3>4. Advance(r, u)
      BY <2>3, <3>1, <3>2, Zenon
    <3>. QED  BY <2>1, <3>3, <3>4, StoreRequest
  <2>. QED  BY <1>2, <2>2, <2>3 DEF ServerFails
<1>3. ASSUME NEW r \in Requests, DropAnswer(r)
      PROVE  ServerInv'
  <2>1. Advance(r, Idle) /\ UNCHANGED <<now, owner, authorizations, agentTokens>>
    BY <1>3 DEF DropAnswer, server
  <2>. QED  BY <2>1, FreeType
<1>4. CASE MakeToken
  <2>1. UNCHANGED <<now, owner, authorizations, reqs>>
    BY <1>4 DEF MakeToken
  <2>2. (agentTokens \in [Tokens -> AgentToken])'
    BY <1>4 DEF MakeToken, AgentToken, Rows
  <2>. QED  BY <2>1, <2>2 DEF RequestsOK
<1>5. CASE RevokeToken
  <2>1. UNCHANGED <<now, owner, authorizations, reqs>>
    BY <1>5 DEF RevokeToken
  <2>2. (agentTokens \in [Tokens -> AgentToken])'
    BY <1>5 DEF RevokeToken, AgentToken, Rows
  <2>. QED  BY <2>1, <2>2 DEF RequestsOK
<1>6. CASE SweepTokens
  <2>1. UNCHANGED <<now, owner, authorizations, reqs>>
    BY <1>6 DEF SweepTokens
  <2>2. (agentTokens \in [Tokens -> AgentToken])'
    BY <1>6 DEF SweepTokens, Swept, AgentToken, Rows
  <2>. QED  BY <2>1, <2>2 DEF RequestsOK
<1>7. CASE SweepAuthorizations
  <2>1. UNCHANGED <<now, owner, agentTokens, reqs>>
    BY <1>7 DEF SweepAuthorizations
  <2>2. (authorizations \in [Devices -> Authorization])'
    BY <1>7 DEF SweepAuthorizations, Swept, Authorization, Rows
  <2>. QED  BY <2>1, <2>2 DEF RequestsOK
<1>8. CASE Redeploy
  BY <1>8 DEF Redeploy, server, RequestsOK
<1>9. CASE Tick
  BY <1>9 DEF Tick, server, RequestsOK
<1>. QED  BY <1>1, <1>2, <1>3, <1>4, <1>5, <1>6, <1>7, <1>8, <1>9

\* Storing a CLI process that knows what it needs keeps the processes well-formed.
LEMMA StoreCli ==
    ASSUME CliInv, NEW c \in Clis, NEW p \in Process, CliOK(p), Become(c, p),
           UNCHANGED credential
    PROVE  CliInv'
BY DEF CliInv, Become

\* A login that has ended, in whatever way
LEMMA EndType ==
    ASSUME CliInv, NEW c \in Clis, NEW pc \in CliPcs \ {"starting", "sleeping", "polling"},
           End(c, pc), UNCHANGED credential
    PROVE  CliInv'
<1>1. PICK o : o = Out
  OBVIOUS
<1>2. PICK p : p = [o EXCEPT !.pc = pc]
  OBVIOUS
<1>3. p \in Process /\ CliOK(p)
  BY <1>1, <1>2 DEF Out, Process, CliPcs, CliOK
<1>4. Become(c, p)
  BY <1>1, <1>2, Zenon DEF End
<1>. QED  BY <1>3, <1>4, StoreCli

\* A CLI that sleeps, or finds its deadline passed, stays well-formed.
LEMMA SleepType ==
    ASSUME CliInv, now \in Nat, NEW c \in Clis, NEW p \in Process, p.device \in Devices,
           Sleep(c, p), UNCHANGED credential
    PROVE  CliInv'
<1>1. CASE now < p.deadline
  <2>1. PICK w : w = now + Smaller(p.interval, p.deadline - now)
    OBVIOUS
  <2>2. w \in Nat
    BY <1>1, <2>1 DEF Smaller, Process
  <2>3. PICK u : u = [p EXCEPT !.pc = "sleeping", !.req = Null, !.wake = w]
    OBVIOUS
  <2>4. u \in Process /\ CliOK(u)
    BY <2>2, <2>3 DEF Process, CliPcs, CliOK
  <2>5. Become(c, u)
    BY <1>1, <2>1, <2>3 DEF Sleep
  <2>. QED  BY <2>4, <2>5, StoreCli
<1>2. CASE ~ (now < p.deadline)
  <2>1. End(c, "expired")
    BY <1>2 DEF Sleep
  <2>. QED  BY <2>1, EndType DEF CliPcs
<1>. QED  BY <1>1, <1>2

\* The steps of a CLI and of its network
LEMMA ClientType ==
    ASSUME TypeInv, NEW c \in Clis,
           BeginLogin(c) \/ Run(c) \/ Unreachable(c) \/ Cancel(c)
    PROVE  TypeInv'
<1>. USE DEF TypeInv
<1>0. /\ clis[c] \in Process /\ CliOK(clis[c])
      /\ now \in Nat
      /\ clis[c].req \in Requests => /\ reqs[clis[c].req] \in Request
                                     /\ KnowsDevice(reqs[clis[c].req])
  BY DEF CliInv, ServerInv, StoreType, RequestsOK
<1>1. CASE BeginLogin(c)
  <2>1. PICK i, o : i = Idle /\ o = Out
    OBVIOUS
  <2>0. PICK r \in Requests : /\ Advance(r, [i EXCEPT !.pc = "sentStart", !.cli = c])
                              /\ Become(c, [o EXCEPT !.pc = "starting", !.req = r])
    BY <1>1, <2>1 DEF BeginLogin
  <2>2. PICK u, p : /\ u = [i EXCEPT !.pc = "sentStart", !.cli = c]
                    /\ p = [o EXCEPT !.pc = "starting", !.req = r]
                    /\ Advance(r, u) /\ Become(c, p)
    BY <2>0
  <2>3. u \in Request /\ KnowsDevice(u)
    BY <2>1, <2>2 DEF Idle, Request, Answers, Statuses, ServerPcs, KnowsDevice, WorkingPcs
  <2>4. p \in Process /\ CliOK(p)
    BY <2>1, <2>2 DEF Out, Process, CliPcs, CliOK
  <2>5. UNCHANGED <<now, owner, authorizations, agentTokens, credential>>
    BY <1>1 DEF BeginLogin, server
  <2>6. (reqs \in [Requests -> Request])' /\ RequestsOK'
    BY <2>2, <2>3, StoreRequest DEF ServerInv
  <2>7. CliInv'
    BY <2>2, <2>4, <2>5, StoreCli
  <2>. QED  BY <2>5, <2>6, <2>7 DEF ServerInv, StoreType
<1>2. CASE Granted(c)
  <2>1. /\ clis[c].req \in Requests
        /\ UNCHANGED <<now, owner, authorizations, agentTokens, credential>>
        /\ Advance(clis[c].req, Idle)
    BY <1>0, <1>2 DEF Granted, CliOK, server
  <2>2. (reqs \in [Requests -> Request])' /\ RequestsOK'
    BY <2>1, FreeType
  <2>3. CASE End(c, "failed")
    <3>1. CliInv'
      BY <2>1, <2>3, EndType DEF CliPcs
    <3>. QED  BY <2>1, <2>2, <3>1 DEF ServerInv, StoreType
  <2>4. CASE /\ reqs[clis[c].req].answer = "granted"
             /\ Sleep(c, [clis[c] EXCEPT !.device = reqs[clis[c].req].device,
                                         !.interval = reqs[clis[c].req].interval,
                                         !.deadline = now + Lifetime])
    <3>1. PICK d \in Devices, n \in Nat, p \in Process :
             /\ d = reqs[clis[c].req].device /\ n = reqs[clis[c].req].interval
             /\ p = clis[c]
      BY <1>0, <2>1, <2>4 DEF KnowsDevice, Request
    <3>0. PICK l \in Nat : l = now + Lifetime
      BY <1>0
    <3>2. PICK u : u = [p EXCEPT !.device = d, !.interval = n, !.deadline = l]
      OBVIOUS
    <3>3. u \in Process /\ u.device \in Devices
      BY <3>2 DEF Process
    <3>4. Sleep(c, u)
      BY <2>4, <3>0, <3>1, <3>2, Zenon
    <3>5. CliInv'
      BY <1>0, <2>1, <3>3, <3>4, SleepType
    <3>. QED  BY <2>1, <2>2, <3>5 DEF ServerInv, StoreType
  <2>. QED  BY <1>2, <2>3, <2>4 DEF Granted
<1>3. CASE Wake(c)
  <2>0. UNCHANGED <<now, owner, authorizations, agentTokens, credential>>
    BY <1>3 DEF Wake, server
  <2>1. CASE End(c, "expired") /\ UNCHANGED reqs
    <3>1. CliInv'
      BY <2>0, <2>1, EndType DEF CliPcs
    <3>. QED  BY <2>0, <2>1, <3>1 DEF ServerInv, StoreType, RequestsOK
  <2>2. ASSUME NEW r \in Requests,
               Advance(r, [Idle EXCEPT !.pc = "sentPoll", !.cli = c,
                                       !.device = clis[c].device]),
               Become(c, [clis[c] EXCEPT !.pc = "polling", !.req = r])
        PROVE  TypeInv'
    <3>0. PICK i : i = Idle
      OBVIOUS
    <3>1. PICK d \in Devices, p \in Process : d = clis[c].device /\ p = clis[c]
      BY <1>0, <1>3 DEF Wake, CliOK
    <3>2. PICK u, v : /\ u = [i EXCEPT !.pc = "sentPoll", !.cli = c, !.device = d]
                      /\ v = [p EXCEPT !.pc = "polling", !.req = r]
      OBVIOUS
    <3>3. u \in Request /\ KnowsDevice(u)
      BY <3>0, <3>1, <3>2 DEF Idle, Request, Answers, Statuses, ServerPcs, KnowsDevice
    <3>4. v \in Process /\ CliOK(v)
      BY <3>1, <3>2 DEF Process, CliPcs, CliOK
    <3>5. Advance(r, u) /\ Become(c, v)
      BY <2>2, <3>0, <3>1, <3>2, Zenon
    <3>6. (reqs \in [Requests -> Request])' /\ RequestsOK'
      BY <3>3, <3>5, StoreRequest DEF ServerInv
    <3>7. CliInv'
      BY <2>0, <3>4, <3>5, StoreCli
    <3>. QED  BY <2>0, <3>6, <3>7 DEF ServerInv, StoreType
  <2>. QED  BY <1>3, <2>1, <2>2 DEF Wake
<1>4. CASE Polled(c)
  <2>1. /\ clis[c].req \in Requests /\ clis[c].device \in Devices
        /\ UNCHANGED <<now, owner, authorizations, agentTokens, credential>>
        /\ Advance(clis[c].req, Idle)
    BY <1>0, <1>4 DEF Polled, CliOK, server
  <2>2. (reqs \in [Requests -> Request])' /\ RequestsOK'
    BY <2>1, FreeType
  <2>3. ASSUME CliInv' PROVE TypeInv'
    BY <2>1, <2>2, <2>3 DEF ServerInv, StoreType
  <2>4. CASE \E pc \in {"failed", "denied", "expired"} : End(c, pc)
    BY <2>1, <2>3, <2>4, EndType DEF CliPcs
  <2>5. CASE Sleep(c, clis[c])
    BY <1>0, <2>1, <2>3, <2>5, SleepType
  <2>6. PICK p \in Process, n \in Nat :
           p = clis[c] /\ n = reqs[clis[c].req].interval
    BY <1>0, <2>1 DEF Request
  <2>7. CASE Sleep(c, Obey(clis[c], reqs[clis[c].req].interval))
    <3>1. PICK u : u = [p EXCEPT !.interval = Larger(p.interval + SlowStep, n)]
      OBVIOUS
    <3>2. u \in Process /\ u.device \in Devices
      BY <2>1, <2>6, <3>1 DEF Process, Larger
    <3>3. Sleep(c, u)
      BY <2>6, <2>7, <3>1, Zenon DEF Obey
    <3>. QED  BY <1>0, <2>1, <2>3, <3>2, <3>3, SleepType
  <2>8. CASE Sleep(c, BackOff(clis[c]))
    <3>1. PICK u : u = [p EXCEPT !.interval = Smaller(2 * p.interval, CliMaxInterval)]
      OBVIOUS
    <3>2. u \in Process /\ u.device \in Devices
      BY <2>1, <2>6, <3>1 DEF Process, Smaller
    <3>3. Sleep(c, u)
      BY <2>6, <2>8, <3>1, Zenon DEF BackOff
    <3>. QED  BY <1>0, <2>1, <2>3, <3>2, <3>3, SleepType
  <2>9. CASE Become(c, [clis[c] EXCEPT !.pc = "saving", !.req = Null,
                                       !.token = reqs[clis[c].req].token])
    <3>1. PICK t \in Tokens \cup {Null} : t = reqs[clis[c].req].token
      BY <1>0, <2>1 DEF Request
    <3>2. PICK u : u = [p EXCEPT !.pc = "saving", !.req = Null, !.token = t]
      OBVIOUS
    <3>3. u \in Process /\ CliOK(u)
      BY <3>2 DEF Process, CliPcs, CliOK
    <3>4. Become(c, u)
      BY <2>6, <2>9, <3>1, <3>2, Zenon
    <3>. QED  BY <2>1, <2>3, <3>3, <3>4, StoreCli
  <2>. QED  BY <1>4, <2>4, <2>5, <2>7, <2>8, <2>9 DEF Polled
<1>5. CASE Save(c)
  <2>1. UNCHANGED <<now, owner, authorizations, agentTokens, reqs>>
    BY <1>5 DEF Save, server
  <2>2. PICK p \in Process : p = clis[c]
    BY <1>0
  <2>3. CASE /\ credential' = clis[c].token
             /\ Become(c, [Out EXCEPT !.pc = "in", !.device = clis[c].device,
                                      !.token = clis[c].token])
    <3>1. PICK o, u : o = Out /\ u = [o EXCEPT !.pc = "in", !.device = p.device,
                                               !.token = p.token]
      OBVIOUS
    <3>2. u \in Process /\ CliOK(u) /\ p.token \in Tokens \cup {Null}
      BY <3>1 DEF Out, Process, CliPcs, CliOK
    <3>3. Become(c, u) /\ credential' = p.token
      BY <2>2, <2>3, <3>1, Zenon
    <3>4. CliInv'
      BY <3>2, <3>3 DEF CliInv, Become
    <3>. QED  BY <2>1, <3>4 DEF ServerInv, StoreType, RequestsOK
  <2>4. CASE credential' = credential /\ End(c, "failed")
    <3>1. CliInv'
      BY <2>4, EndType DEF CliPcs
    <3>. QED  BY <2>1, <3>1 DEF ServerInv, StoreType, RequestsOK
  <2>. QED  BY <1>5, <2>3, <2>4 DEF Save
<1>6. CASE Unreachable(c)
  <2>1. /\ clis[c].req \in Requests
        /\ UNCHANGED <<now, owner, authorizations, agentTokens, credential>>
    BY <1>0, <1>6 DEF Unreachable, CliOK, server
  <2>2. (reqs \in [Requests -> Request])' /\ RequestsOK'
    BY <1>6, FreeType DEF Unreachable
  <2>3. CliInv'
    <3>1. CASE End(c, "failed")
      BY <2>1, <3>1, EndType DEF CliPcs
    <3>2. CASE clis[c].pc = "polling" /\ Sleep(c, [BackOff(clis[c]) EXCEPT !.lost = TRUE])
      <4>1. PICK p \in Process : p = clis[c]
        BY <1>0
      <4>2. PICK v : v = [p EXCEPT !.interval = Smaller(2 * p.interval, CliMaxInterval)]
        OBVIOUS
      <4>5. v \in Process /\ v.device \in Devices
        BY <1>0, <3>2, <4>1, <4>2 DEF Process, Smaller, CliOK
      <4>6. PICK u : u = [v EXCEPT !.lost = TRUE]
        OBVIOUS
      <4>3. u \in Process /\ u.device \in Devices
        BY <4>5, <4>6 DEF Process
      <4>4. Sleep(c, u)
        BY <3>2, <4>1, <4>2, <4>6, Zenon DEF BackOff
      <4>. QED  BY <1>0, <2>1, <4>3, <4>4, SleepType
    <3>. QED  BY <1>6, <3>1, <3>2 DEF Unreachable
  <2>. QED  BY <2>1, <2>2, <2>3 DEF ServerInv, StoreType
<1>7. CASE Cancel(c)
  <2>1. UNCHANGED <<now, owner, authorizations, agentTokens, credential>>
    BY <1>7 DEF Cancel, server
  <2>2. (reqs \in [Requests -> Request])' /\ RequestsOK'
    <3>1. CASE UNCHANGED reqs
      BY <3>1 DEF ServerInv, StoreType, RequestsOK
    <3>2. CASE Advance(clis[c].req, [reqs[clis[c].req] EXCEPT !.cli = Null])
      BY <3>2, FreeType
    <3>. QED  BY <1>7, <3>1, <3>2 DEF Cancel
  <2>3. CliInv'
    BY <1>7, <2>1, EndType DEF Cancel, CliPcs
  <2>. QED  BY <2>1, <2>2, <2>3 DEF ServerInv, StoreType
<1>. QED  BY <1>1, <1>2, <1>3, <1>4, <1>5, <1>6, <1>7 DEF Run

\* Every reachable state is well-typed, a request that works on a device code
\* knows it, and a CLI knows the device it polls for: none of the updates by
\* device code in Auth or in the CLI's loop misses its row.
THEOREM DeviceTypeCorrect == Spec => []TypeInv
<1>1. Init => TypeInv
  <2>1. PICK i, o : i = Idle /\ o = Out
    OBVIOUS
  <2>2. i \in Request /\ KnowsDevice(i)
    BY <2>1 DEF Idle, Request, Answers, Statuses, KnowsDevice, WorkingPcs
  <2>3. o \in Process /\ CliOK(o)
    BY <2>1 DEF Out, Process, CliPcs, CliOK
  <2>4. NoAuthorization \in Authorization /\ NoToken \in AgentToken
    BY DEF NoAuthorization, Authorization, NoToken, AgentToken, Rows, Statuses
  <2>. QED  BY <2>1, <2>2, <2>3, <2>4
            DEF Init, TypeInv, ServerInv, StoreType, RequestsOK, CliInv
<1>2. TypeInv /\ [Next]_vars => TypeInv'
  <2>. SUFFICES ASSUME TypeInv, [Next]_vars PROVE TypeInv'
    OBVIOUS
  <2>. USE DEF TypeInv
  <2>1. CASE UNCHANGED vars
    BY <2>1 DEF vars, ServerInv, StoreType, RequestsOK, CliInv
  <2>2. ASSUME NEW r \in Requests, Serve(r)
        PROVE  TypeInv'
    <3>1. ServerInv'
      BY <2>2, ServeType
    <3>2. UNCHANGED <<clis, credential>>
      BY <2>2 DEF Serve, Arrive, Start, Decide, PollSelect, ReserveSlot, SlowDown, Issue
    <3>. QED  BY <3>1, <3>2 DEF CliInv
  <2>3. CASE \/ \E r \in Requests : BeginDecide(r) \/ ServerFails(r) \/ DropAnswer(r)
             \/ MakeToken \/ RevokeToken \/ SweepTokens \/ SweepAuthorizations
             \/ Redeploy \/ Tick
    <3>1. ServerInv'
      BY <2>3, OwnerType
    <3>2. UNCHANGED <<clis, credential>>
      BY <2>3 DEF BeginDecide, ServerFails, DropAnswer, MakeToken, RevokeToken,
                  SweepTokens, SweepAuthorizations, Redeploy, Tick
    <3>. QED  BY <3>1, <3>2 DEF CliInv
  <2>4. ASSUME NEW c \in Clis, BeginLogin(c) \/ Run(c) \/ Unreachable(c) \/ Cancel(c)
        PROVE  TypeInv'
    BY <2>4, ClientType
  <2>5. CASE Logout
    BY <2>5 DEF Logout, server, ServerInv, StoreType, RequestsOK, CliInv
  <2>. QED  BY <2>1, <2>2, <2>3, <2>4, <2>5 DEF Next
<1>. QED  BY <1>1, <1>2, PTL DEF Spec

\* Tables, requests, CLIs and the credential file keep their types.
THEOREM DeviceTypesHold == Spec => []TypeOK
<1>1. TypeInv => TypeOK
  BY DEF TypeInv, ServerInv, StoreType, CliInv, TypeOK
<1>. QED  BY <1>1, DeviceTypeCorrect, PTL

-------------------------------------------------------------------------------
(* The tables *)

\* Every step changes the two tables in one of the seven ways.
LEMMA StepShape ==
    ASSUME TypeInv, [Next]_vars
    PROVE  StoreStep
<1>0. /\ authorizations \in [Devices -> Authorization]
      /\ agentTokens \in [Tokens -> AgentToken]
      /\ \A r \in Requests : KnowsDevice(reqs[r])
  BY DEF TypeInv, ServerInv, StoreType, RequestsOK
<1>1. CASE UNCHANGED server
  BY <1>1 DEF server, StoreStep, QuietStep, Keeps
<1>2. ASSUME NEW r \in Requests, Start(r)
      PROVE  StoreStep
  <2>1. CASE UNCHANGED authorizations
    BY <1>2, <2>1 DEF Start, StoreStep, QuietStep, Keeps
  <2>2. ASSUME NEW d \in Devices, NEW x, authorizations[d] = NoAuthorization,
               x.row = "present", x.status = "pending",
               authorizations' = [authorizations EXCEPT ![d] = x]
        PROVE  AskStep(d)
    <3>0. UNCHANGED agentTokens
      BY <1>2 DEF Start
    <3>1. authorizations[d].row = "unused"
      BY <2>2 DEF NoAuthorization
    <3>2. /\ authorizations'[d] = x
          /\ \A e \in Devices \ {d} : authorizations'[e] = authorizations[e]
      BY <1>0, <2>2
    <3>. QED  BY <2>2, <3>0, <3>1, <3>2 DEF AskStep, Keeps
  <2>. QED  BY <1>2, <2>1, <2>2 DEF Start, StoreStep
<1>3. ASSUME NEW r \in Requests, Decide(r)
      PROVE  StoreStep
  <2>1. CASE UNCHANGED authorizations
    BY <1>3, <2>1 DEF Decide, StoreStep, QuietStep, Keeps
  <2>2. ASSUME NEW stamp, Decidable(r, stamp), NEW days,
               authorizations' = [authorizations EXCEPT
                    ![reqs[r].device].status =
                        IF reqs[r].pc = "approve" THEN "approved" ELSE "denied",
                    ![reqs[r].device].days = IF reqs[r].pc = "approve" THEN days ELSE 30]
        PROVE  StoreStep
    <3>1. PICK d \in Devices : d = reqs[r].device
      BY <1>0, <1>3 DEF Decide, KnowsDevice, WorkingPcs
    <3>0. PICK s, n : /\ s = IF reqs[r].pc = "approve" THEN "approved" ELSE "denied"
                      /\ n = IF reqs[r].pc = "approve" THEN days ELSE 30
      OBVIOUS
    <3>2. authorizations' = [authorizations EXCEPT ![d].status = s, ![d].days = n]
      BY <2>2, <3>0, <3>1, Zenon
    <3>3. s \in {"approved", "denied"}
      BY <3>0
    <3>4. /\ authorizations[d].row = "present" /\ authorizations[d].status = "pending"
          /\ UNCHANGED agentTokens
      BY <1>3, <2>2, <3>1 DEF Decide, Decidable
    <3>5. DecideStep(d)
      BY <1>0, <3>1, <3>2, <3>3, <3>4 DEF DecideStep, Keeps, Authorization
    <3>. QED  BY <3>5 DEF StoreStep
  <2>. QED  BY <1>3, <2>1, <2>2 DEF Decide
<1>4. ASSUME NEW r \in Requests, ReserveSlot(r) \/ SlowDown(r)
      PROVE  StoreStep
  <2>1. UNCHANGED agentTokens
    BY <1>4 DEF ReserveSlot, SlowDown
  <2>2. CASE UNCHANGED authorizations
    BY <2>1, <2>2 DEF StoreStep, QuietStep, Keeps
  <2>3. ASSUME NEW d, NEW n,
               authorizations' = [authorizations EXCEPT ![d].nextPollAt = n]
        PROVE  StoreStep
    BY <1>0, <2>1, <2>3 DEF StoreStep, QuietStep, Keeps, Authorization
  <2>4. ASSUME NEW d, NEW i, NEW n,
               authorizations' = [authorizations EXCEPT ![d].interval = i, ![d].nextPollAt = n]
        PROVE  StoreStep
    BY <1>0, <2>1, <2>4 DEF StoreStep, QuietStep, Keeps, Authorization
  <2>. QED  BY <1>4, <2>2, <2>3, <2>4 DEF ReserveSlot, SlowDown
<1>5. ASSUME NEW r \in Requests, Issue(r)
      PROVE  StoreStep
  <2>1. PICK d \in Devices : d = reqs[r].device
    BY <1>0, <1>5 DEF Issue, KnowsDevice, WorkingPcs
  <2>2. CASE UNCHANGED server
    BY <1>1, <2>2
  <2>3. ASSUME Eligible(reqs[r]), NEW t \in Tokens, agentTokens[t] = NoToken,
               InsertToken(t, reqs[r]),
               authorizations' = [authorizations EXCEPT ![reqs[r].device].status = "consumed"]
        PROVE  IssueStep(d, t)
    <3>1. /\ authorizations[d].row = "present" /\ authorizations[d].status = "approved"
          /\ authorizations' = [authorizations EXCEPT ![d].status = "consumed"]
      BY <2>1, <2>3 DEF Eligible
    <3>2. /\ agentTokens[t].row = "unused"
          /\ agentTokens'[t].row = "present" /\ agentTokens'[t].device = d
          /\ \A u \in Tokens \ {t} : agentTokens'[u] = agentTokens[u]
      BY <1>0, <2>1, <2>3 DEF InsertToken, NoToken
    <3>. QED  BY <1>0, <3>1, <3>2 DEF IssueStep, Keeps, Authorization
  <2>. QED  BY <1>5, <2>2, <2>3 DEF Issue, StoreStep
<1>6. CASE MakeToken
  <2>1. PICK t, x :
           /\ t \in Tokens /\ agentTokens[t] = NoToken
           /\ x.row = "present" /\ x.device = Null
           /\ agentTokens' = [agentTokens EXCEPT ![t] = x]
    BY <1>6 DEF MakeToken
  <2>2. MakeStep(t)
    BY <1>0, <1>6, <2>1 DEF MakeToken, MakeStep, NoToken
  <2>. QED  BY <2>1, <2>2 DEF StoreStep
<1>7. CASE RevokeToken
  <2>1. PICK t \in Tokens : /\ agentTokens[t].row = "present"
                            /\ agentTokens' = [agentTokens EXCEPT ![t].row = "deleted"]
    BY <1>7 DEF RevokeToken
  <2>2. EndStep({t})
    BY <1>0, <1>7, <2>1 DEF RevokeToken, EndStep, AgentToken
  <2>. QED  BY <2>2 DEF StoreStep
<1>8. CASE SweepTokens
  <2>. DEFINE S == {t \in Tokens : agentTokens[t].row = "present"
                                     /\ agentTokens[t].expiresAt <= now}
  <2>1. EndStep(S)
    BY <1>0, <1>8 DEF SweepTokens, Swept, EndStep, AgentToken
  <2>2. S \in SUBSET Tokens
    OBVIOUS
  <2>. QED  BY <2>1, <2>2 DEF StoreStep
<1>9. CASE SweepAuthorizations
  <2>. DEFINE S == {d \in Devices : authorizations[d].row = "present"
                                      /\ authorizations[d].expiresAt <= now}
  <2>1. SweepStep(S)
    BY <1>0, <1>9 DEF SweepAuthorizations, Swept, SweepStep, Authorization
  <2>2. S \in SUBSET Devices
    OBVIOUS
  <2>. QED  BY <2>1, <2>2 DEF StoreStep
<1>10. CASE UNCHANGED vars
  BY <1>1, <1>10 DEF vars, server
<1>11. ASSUME NEW r \in Requests,
              \/ Arrive(r) \/ PollSelect(r) \/ BeginDecide(r) \/ ServerFails(r)
              \/ DropAnswer(r)
       PROVE  StoreStep
  BY <1>1, <1>11 DEF Arrive, PollSelect, BeginDecide, ServerFails, DropAnswer
<1>12. ASSUME NEW c \in Clis, BeginLogin(c) \/ Run(c) \/ Unreachable(c) \/ Cancel(c)
       PROVE  StoreStep
  BY <1>1, <1>12 DEF BeginLogin, Run, Granted, Wake, Polled, Save, Unreachable, Cancel
<1>13. CASE Redeploy \/ Logout \/ Tick
  BY <1>1, <1>13 DEF Redeploy, Logout, Tick
<1>. QED  BY <1>2, <1>3, <1>4, <1>5, <1>6, <1>7, <1>8, <1>9, <1>10, <1>11, <1>12, <1>13
          DEF Next, Serve

\* The tables' invariant needs no more of a step than its shape.
LEMMA StoreKept ==
    ASSUME TypeInv, StoreInv, StoreStep
    PROVE  StoreInv'
<1>. USE DEF StoreInv, OneTokenPerDevice, ConsumedMeansIssued
<1>0. Null \notin Devices
  OBVIOUS
<1>1. CASE QuietStep
  BY <1>1 DEF QuietStep, Keeps
<1>2. ASSUME NEW d \in Devices, AskStep(d)
      PROVE  StoreInv'
  BY <1>2 DEF AskStep, Keeps
<1>3. ASSUME NEW d \in Devices, DecideStep(d)
      PROVE  StoreInv'
  BY <1>3 DEF DecideStep, Keeps
<1>4. ASSUME NEW d \in Devices, NEW t \in Tokens, IssueStep(d, t)
      PROVE  StoreInv'
  <2>1. \A u \in Tokens : agentTokens[u].device # d
    BY <1>4 DEF IssueStep
  <2>2. /\ agentTokens[t].device = Null
        /\ agentTokens'[t].row = "present" /\ agentTokens'[t].device = d
        /\ \A u \in Tokens \ {t} : agentTokens'[u] = agentTokens[u]
    BY <1>4 DEF IssueStep
  <2>3. OneTokenPerDevice'
    BY <2>1, <2>2
  <2>4. /\ authorizations'[d].row = "present" /\ authorizations'[d].status = "consumed"
        /\ \A e \in Devices \ {d} : Keeps(e)
    BY <1>4 DEF IssueStep
  <2>5. ConsumedMeansIssued'
    BY <1>0, <2>1, <2>2, <2>4 DEF Keeps
  <2>. QED  BY <2>2, <2>3, <2>4, <2>5 DEF Keeps
<1>5. ASSUME NEW t \in Tokens, MakeStep(t)
      PROVE  StoreInv'
  <2>1. \A u \in Tokens : agentTokens'[u].device = agentTokens[u].device
    BY <1>5 DEF MakeStep
  <2>. QED  BY <1>5, <2>1 DEF MakeStep
<1>6. ASSUME NEW S \in SUBSET Tokens, EndStep(S)
      PROVE  StoreInv'
  BY <1>6 DEF EndStep
<1>7. ASSUME NEW S \in SUBSET Devices, SweepStep(S)
      PROVE  StoreInv'
  BY <1>7 DEF SweepStep
<1>. QED  BY <1>1, <1>2, <1>3, <1>4, <1>5, <1>6, <1>7 DEF StoreStep

\* The two tables agree at every step, in any interleaving of polls, decisions,
\* sweeps and redeployments.
THEOREM StoresAgree == Spec => [](TypeInv /\ StoreInv)
<1>1. Init => StoreInv
  BY DEF Init, StoreInv, OneTokenPerDevice, ConsumedMeansIssued, NoAuthorization, NoToken
<1>2. TypeInv /\ StoreInv /\ [Next]_vars => StoreInv'
  BY StepShape, StoreKept
<1>. QED  BY <1>1, <1>2, DeviceTypeCorrect, PTL DEF Spec

\* A device gets at most one agent token, however many polls overlap.
THEOREM OneTokenEach == Spec => []OneTokenPerDevice
<1>1. StoreInv => OneTokenPerDevice
  BY DEF StoreInv
<1>. QED  BY <1>1, StoresAgree, PTL

\* A request reads "consumed" exactly when its token exists.
THEOREM ConsumedIsIssued == Spec => []ConsumedMeansIssued
<1>1. StoreInv => ConsumedMeansIssued
  BY DEF StoreInv
<1>. QED  BY <1>1, StoresAgree, PTL

-------------------------------------------------------------------------------
(* The promise of DeviceGrant *)
\* A row that a step keeps is mapped to the same state before and after it.
LEMMA KeptGrants ==
    ASSUME NEW S \in SUBSET Devices, \A d \in S : Keeps(d)
    PROVE  \A d \in S : grantOf'[d] = grantOf[d]
BY DEF Keeps, grantOf

\* Where a token's row and device stay, the abstract token stays.
LEMMA KeptTokens ==
    ASSUME NEW S \in SUBSET Tokens, \A t \in S : agentTokens'[t] = agentTokens[t]
    PROVE  \A t \in S : tokenOf'[t] = tokenOf[t]
BY DEF tokenOf

\* The abstract grants and tokens are functions on devices and tokens.
LEMMA Functions ==
    /\ grantOf = [d \in Devices |-> grantOf[d]]
    /\ grantOf' = [d \in Devices |-> grantOf'[d]]
    /\ tokenOf = [t \in Tokens |-> tokenOf[t]]
    /\ tokenOf' = [t \in Tokens |-> tokenOf'[t]]
BY DEF grantOf, tokenOf

\* Each of the seven ways is a step of DeviceGrant, or none.
LEMMA GrantStep ==
    ASSUME TypeInv, StoreInv, StoreStep
    PROVE  [Grant!Next]_(Grant!vars)
<1>. USE DEF Grant!Next, Grant!vars
<1>0. /\ \A d \in Devices : /\ authorizations[d].row \in Rows
                            /\ authorizations[d].status \in Statuses
      /\ \A t \in Tokens : agentTokens[t].row \in Rows
  BY DEF TypeInv, ServerInv, StoreType, Authorization, AgentToken
<1>1. UNCHANGED agentTokens => UNCHANGED tokenOf
  BY DEF tokenOf
<1>2. UNCHANGED authorizations => UNCHANGED grantOf
  BY DEF grantOf
<1>3. CASE QuietStep
  <2>1. UNCHANGED grantOf
    BY <1>3, KeptGrants, Functions DEF QuietStep
  <2>. QED  BY <1>1, <1>3, <2>1 DEF QuietStep
<1>4. ASSUME NEW d \in Devices, AskStep(d)
      PROVE  Grant!Ask(d)
  <2>1. grantOf[d] = "none" /\ grantOf'[d] = "pending"
    BY <1>4 DEF AskStep, grantOf
  <2>2. \A e \in Devices \ {d} : grantOf'[e] = grantOf[e]
    BY <1>4, KeptGrants DEF AskStep
  <2>3. UNCHANGED tokenOf
    BY <1>1, <1>4 DEF AskStep
  <2>. QED  BY <2>1, <2>2, <2>3, Functions DEF Grant!Ask
<1>5. ASSUME NEW d \in Devices, DecideStep(d)
      PROVE  Grant!Approve(d) \/ Grant!Close({d})
  <2>1. grantOf[d] = "pending" /\ grantOf'[d] \in {"approved", "closed"}
    BY <1>5 DEF DecideStep, grantOf
  <2>2. \A e \in Devices \ {d} : grantOf'[e] = grantOf[e]
    BY <1>5, KeptGrants DEF DecideStep
  <2>3. UNCHANGED tokenOf
    BY <1>1, <1>5 DEF DecideStep
  <2>. QED  BY <2>1, <2>2, <2>3, Functions DEF Grant!Approve, Grant!Close
<1>6. ASSUME NEW d \in Devices, NEW t \in Tokens, IssueStep(d, t)
      PROVE  Grant!Issue(d, t)
  <2>1. grantOf[d] = "approved" /\ grantOf'[d] = "closed"
    BY <1>6 DEF IssueStep, grantOf
  <2>2. \A e \in Devices \ {d} : grantOf'[e] = grantOf[e]
    BY <1>6, KeptGrants DEF IssueStep
  <2>3. tokenOf[t] = [state |-> "none", device |-> Null]
    BY <1>6 DEF IssueStep, tokenOf, StoreInv
  <2>4. tokenOf'[t] = [state |-> "live", device |-> d]
    BY <1>6 DEF IssueStep, tokenOf
  <2>5. \A u \in Tokens \ {t} : tokenOf'[u] = tokenOf[u]
    BY <1>6, KeptTokens DEF IssueStep
  <2>. QED  BY <2>1, <2>2, <2>3, <2>4, <2>5, Functions DEF Grant!Issue, Grant!NoToken
<1>7. ASSUME NEW t \in Tokens, MakeStep(t)
      PROVE  Grant!Make(t)
  <2>1. UNCHANGED grantOf
    BY <1>2, <1>7 DEF MakeStep
  <2>2. tokenOf[t] = [state |-> "none", device |-> Null]
    BY <1>7 DEF MakeStep, tokenOf, StoreInv
  <2>3. tokenOf'[t] = [state |-> "live", device |-> Null]
    BY <1>7 DEF MakeStep, tokenOf
  <2>4. \A u \in Tokens \ {t} : tokenOf'[u] = tokenOf[u]
    BY <1>7, KeptTokens DEF MakeStep
  <2>. QED  BY <2>1, <2>2, <2>3, <2>4, Functions DEF Grant!Make, Grant!NoToken
<1>8. ASSUME NEW S \in SUBSET Tokens, EndStep(S)
      PROVE  Grant!End(S)
  <2>1. UNCHANGED grantOf
    BY <1>2, <1>8 DEF EndStep
  <2>2. \A t \in S : tokenOf[t].state = "live"
    BY <1>8 DEF EndStep, tokenOf
  <2>3. \A t \in S : tokenOf'[t] = [tokenOf[t] EXCEPT !.state = "ended"]
    <3>. SUFFICES ASSUME NEW t \in S
                 PROVE  tokenOf'[t] = [tokenOf[t] EXCEPT !.state = "ended"]
      OBVIOUS
    <3>1. tokenOf'[t] = [state |-> "ended", device |-> agentTokens[t].device]
      BY <1>8 DEF EndStep, tokenOf
    <3>2. PICK k : k = tokenOf[t]
      OBVIOUS
    <3>3. k = [state |-> "live", device |-> agentTokens[t].device]
      BY <1>8, <3>2 DEF EndStep, tokenOf
    <3>. QED  BY <3>1, <3>2, <3>3
  <2>4. \A t \in Tokens \ S : tokenOf'[t] = tokenOf[t]
    BY <1>8 DEF EndStep, tokenOf
  <2>. QED  BY <2>1, <2>2, <2>3, <2>4, Functions DEF Grant!End
<1>9. ASSUME NEW S \in SUBSET Devices, SweepStep(S)
      PROVE  [Grant!Next]_(Grant!vars)
  <2>. DEFINE T == {d \in S : authorizations[d].status \in {"pending", "approved"}}
  <2>1. \A d \in T : grantOf[d] \in {"pending", "approved"} /\ grantOf'[d] = "closed"
    BY <1>9 DEF SweepStep, grantOf
  <2>2. \A d \in Devices \ T : grantOf'[d] = grantOf[d]
    BY <1>9 DEF SweepStep, grantOf
  <2>3. UNCHANGED tokenOf
    BY <1>1, <1>9 DEF SweepStep
  <2>4. T \in SUBSET Devices
    OBVIOUS
  <2>5. Grant!Close(T)
    <3>. HIDE DEF T
    <3>. QED  BY <2>1, <2>2, <2>3, <2>4, Functions DEF Grant!Close
  <2>. QED  BY <2>4, <2>5
<1>. QED  BY <1>3, <1>4, <1>5, <1>6, <1>7, <1>8, <1>9 DEF StoreStep

\* The tables implement the promise of DeviceGrant: every statement of Auth is a
\* step of the abstract grant or none.
THEOREM GrantImplemented == Spec => ImplementsDeviceGrant
<1>1. Init => Grant!Init
  BY DEF Init, Grant!Init, Grant!NoToken, grantOf, tokenOf, NoAuthorization, NoToken
<1>2. TypeInv /\ StoreInv /\ [Next]_vars => [Grant!Next]_(Grant!vars)
  BY StepShape, GrantStep
<1>. QED  BY <1>1, <1>2, StoresAgree, PTL DEF Spec, ImplementsDeviceGrant, Grant!Spec

-------------------------------------------------------------------------------
(* The budget of requests per address *)

\* A stored request is what was stored; the others stay.
LEMMA Advanced ==
    ASSUME ServerInv, NEW r \in Requests, NEW q, Advance(r, q)
    PROVE  reqs'[r] = q /\ \A s \in Requests : s # r => reqs'[s] = reqs[s]
BY DEF ServerInv, StoreType, Advance

\* The fields of a request that goes on, that answers, or whose client has left.
LEMMA Advances ==
    ASSUME ServerInv, NEW r \in Requests
    PROVE  /\ \A pc : Goto(r, pc) =>
                 /\ \A s \in Requests : s # r => reqs'[s] = reqs[s]
                 /\ reqs'[r].pc = pc /\ reqs'[r].answer = reqs[r].answer
                 /\ reqs'[r].cli = reqs[r].cli /\ reqs'[r].device = reqs[r].device
                 /\ reqs'[r].now = reqs[r].now
           /\ \A a \in Answers : Answer(r, a) =>
                 /\ \A s \in Requests : s # r => reqs'[s] = reqs[s]
                 /\ reqs'[r].pc = "answered" /\ reqs'[r].answer = a
                 /\ reqs'[r].cli = reqs[r].cli /\ reqs'[r].device = reqs[r].device
           /\ Advance(r, Idle) =>
                 /\ \A s \in Requests : s # r => reqs'[s] = reqs[s]
                 /\ reqs'[r] = Idle
           /\ Advance(r, [reqs[r] EXCEPT !.cli = Null]) =>
                 /\ \A s \in Requests : s # r => reqs'[s] = reqs[s]
                 /\ reqs'[r].pc = reqs[r].pc /\ reqs'[r].answer = reqs[r].answer
                 /\ reqs'[r].cli = Null /\ reqs'[r].device = reqs[r].device
                 /\ reqs'[r].now = reqs[r].now
<1>0. PICK p \in Request : p = reqs[r]
  BY DEF ServerInv, StoreType
<1>1. ASSUME NEW pc, Goto(r, pc)
      PROVE  /\ \A s \in Requests : s # r => reqs'[s] = reqs[s]
             /\ reqs'[r].pc = pc /\ reqs'[r].answer = p.answer
             /\ reqs'[r].cli = p.cli /\ reqs'[r].device = p.device
             /\ reqs'[r].now = p.now
  <2>1. PICK u : u = [p EXCEPT !.pc = pc]
    OBVIOUS
  <2>2. Advance(r, u)
    BY <1>0, <1>1, <2>1 DEF Goto
  <2>. QED  BY <2>1, <2>2, Advanced DEF Request
<1>2. ASSUME NEW a \in Answers, Answer(r, a)
      PROVE  /\ \A s \in Requests : s # r => reqs'[s] = reqs[s]
             /\ reqs'[r].pc = "answered" /\ reqs'[r].answer = a
             /\ reqs'[r].cli = p.cli /\ reqs'[r].device = p.device
  <2>1. PICK u : u = [p EXCEPT !.pc = "answered", !.answer = a]
    OBVIOUS
  <2>2. Advance(r, u)
    BY <1>0, <1>2, <2>1 DEF Answer
  <2>3. u.pc = "answered" /\ u.answer = a /\ u.cli = p.cli /\ u.device = p.device
    BY <2>1 DEF Request
  <2>. QED  BY <2>2, <2>3, Advanced
<1>3. ASSUME Advance(r, [reqs[r] EXCEPT !.cli = Null])
      PROVE  /\ \A s \in Requests : s # r => reqs'[s] = reqs[s]
             /\ reqs'[r].pc = p.pc /\ reqs'[r].answer = p.answer
             /\ reqs'[r].cli = Null /\ reqs'[r].device = p.device
             /\ reqs'[r].now = p.now
  <2>1. PICK u : u = [p EXCEPT !.cli = Null]
    OBVIOUS
  <2>2. Advance(r, u)
    BY <1>0, <1>3, <2>1
  <2>. QED  BY <2>1, <2>2, Advanced DEF Request
<1>. QED  BY <1>0, <1>1, <1>2, <1>3, Advanced

\* The rows that have been used, and the ones that count for the budget.
Used    == {d \in Devices : authorizations[d].row # "unused"}
Counted == {d \in Used : authorizations[d].createdAt + Lifetime > now}

\* A row counts as long as it lives; it is swept only when it counts no more.  A
\* start that is under way counts with a reading that is not of the future.
BudgetInv ==
    /\ IsFiniteSet(Used)
    /\ \A d \in Used : authorizations[d].expiresAt = authorizations[d].createdAt + Lifetime
    /\ \A d \in Counted : authorizations[d].row = "present"
    /\ \A r \in Requests : reqs[r].pc = "start" => reqs[r].now <= now
    /\ Cardinality(Counted) <= Budget

\* A step that accepts no request.
LEMMA NoneAccepted ==
    ASSUME TypeInv, BudgetInv, now' \in Nat, now' >= now,
           \A d \in Devices :
              /\ authorizations'[d].createdAt = authorizations[d].createdAt
              /\ authorizations'[d].expiresAt = authorizations[d].expiresAt
              /\ \/ authorizations'[d].row = authorizations[d].row
                 \/ /\ authorizations[d].row = "present" /\ authorizations'[d].row = "deleted"
                    /\ authorizations[d].expiresAt <= now,
           \A r \in Requests : reqs'[r].pc = "start" =>
              reqs'[r].now = now \/ (reqs[r].pc = "start" /\ reqs'[r].now = reqs[r].now)
    PROVE  BudgetInv'
<1>0. /\ \A d \in Devices : authorizations[d].createdAt \in Nat /\ authorizations[d].expiresAt \in Nat
      /\ \A r \in Requests : reqs[r].now \in Nat
      /\ now \in Nat
  BY DEF TypeInv, ServerInv, StoreType, Authorization, Request
<1>1. Used' = Used
  BY DEF Used
<1>2. Counted' \subseteq Counted /\ Counted \subseteq Used
  BY <1>0, <1>1 DEF Counted, Used
<1>3. IsFiniteSet(Counted)
  BY <1>2, FS_Subset DEF BudgetInv
<1>4. Cardinality(Counted') <= Budget
  <2>1. Cardinality(Counted') <= Cardinality(Counted)
    BY <1>2, <1>3, FS_Subset
  <2>2. Cardinality(Counted') \in Nat /\ Cardinality(Counted) \in Nat
    BY <1>2, <1>3, FS_Subset, FS_CardinalityType
  <2>. QED  BY <2>1, <2>2 DEF BudgetInv
<1>5. \A d \in Counted' : authorizations'[d].row = "present"
  <2>1. ASSUME NEW d \in Counted' PROVE authorizations'[d].row = "present"
    <3>1. d \in Counted /\ d \in Used /\ d \in Devices
      BY <1>2 DEF Used
    <3>2. authorizations[d].row = "present" /\ ~ (authorizations[d].expiresAt <= now)
      BY <1>0, <3>1 DEF BudgetInv, Counted
    <3>. QED  BY <3>1, <3>2
  <2>. QED  BY <2>1
<1>6. \A r \in Requests : reqs'[r].pc = "start" => reqs'[r].now <= now'
  BY <1>0 DEF BudgetInv
<1>7. \A d \in Used' : authorizations'[d].expiresAt = authorizations'[d].createdAt + Lifetime
  BY <1>1 DEF BudgetInv, Used
<1>. QED  BY <1>1, <1>4, <1>5, <1>6, <1>7 DEF BudgetInv

\* A start is accepted: whatever counts now was counted.
LEMMA OneAccepted ==
    ASSUME TypeInv, BudgetInv, NEW r \in Requests, reqs[r].pc = "start", WithinBudget(reqs[r].now),
           NEW d \in Devices, authorizations[d].row = "unused", UNCHANGED now,
           authorizations'[d].row = "present", authorizations'[d].createdAt = reqs[r].now,
           authorizations'[d].expiresAt = reqs[r].now + Lifetime,
           \A e \in Devices : e # d => authorizations'[e] = authorizations[e],
           \A s \in Requests : s # r => reqs'[s] = reqs[s], reqs'[r].pc # "start"
    PROVE  BudgetInv'
<1>0. /\ \A e \in Devices : authorizations[e].createdAt \in Nat
      /\ reqs[r].now \in Nat /\ now \in Nat /\ reqs[r].now <= now
  BY DEF TypeInv, ServerInv, StoreType, Authorization, Request, BudgetInv
<1>1. Used' = Used \cup {d} /\ d \notin Used
  BY DEF Used
<1>2. IsFiniteSet(Used')
  BY <1>1, FS_AddElement DEF BudgetInv
<1>3. Counted \subseteq Recent(reqs[r].now) /\ Recent(reqs[r].now) \subseteq Used
  BY <1>0 DEF BudgetInv, Counted, Used, Recent
<1>4. IsFiniteSet(Recent(reqs[r].now)) /\ IsFiniteSet(Counted)
  BY <1>3, FS_Subset DEF BudgetInv
<1>5. Cardinality(Counted) < Budget
  <2>1. Cardinality(Counted) <= Cardinality(Recent(reqs[r].now))
    BY <1>3, <1>4, FS_Subset
  <2>2. Cardinality(Counted) \in Nat /\ Cardinality(Recent(reqs[r].now)) \in Nat
    BY <1>4, FS_CardinalityType
  <2>. QED  BY <2>1, <2>2 DEF WithinBudget
<1>6. Counted' \subseteq Counted \cup {d}
  BY <1>1 DEF Counted, Used
<1>7. Cardinality(Counted') <= Budget
  <2>1. IsFiniteSet(Counted \cup {d}) /\ Cardinality(Counted \cup {d}) <= Cardinality(Counted) + 1
    <3>1. Cardinality(Counted) \in Nat
      BY <1>4, FS_CardinalityType
    <3>2. Cardinality(Counted \cup {d}) =
             IF d \in Counted THEN Cardinality(Counted) ELSE Cardinality(Counted) + 1
      BY <1>4, FS_AddElement
    <3>3. IsFiniteSet(Counted \cup {d})
      BY <1>4, FS_AddElement
    <3>. QED  BY <3>1, <3>2, <3>3
  <2>2. Cardinality(Counted') <= Cardinality(Counted \cup {d})
    BY <1>6, <2>1, FS_Subset
  <2>3. /\ Cardinality(Counted) \in Nat /\ Cardinality(Counted \cup {d}) \in Nat
        /\ Cardinality(Counted') \in Nat
    BY <1>4, <1>6, <2>1, FS_Subset, FS_CardinalityType
  <2>. QED  BY <1>5, <2>1, <2>2, <2>3
<1>8. \A e \in Counted' : authorizations'[e].row = "present"
  BY <1>6 DEF BudgetInv, Counted, Used
<1>9. \A s \in Requests : reqs'[s].pc = "start" => reqs'[s].now <= now'
  BY DEF BudgetInv
<1>10. \A e \in Used' : authorizations'[e].expiresAt = authorizations'[e].createdAt + Lifetime
  BY <1>1 DEF BudgetInv, Used
<1>. QED  BY <1>2, <1>7, <1>8, <1>9, <1>10 DEF BudgetInv

\* Only the arrival of a start takes a reading of the clock for one.
Punctual ==
    \A r \in Requests : reqs'[r].pc = "start" =>
       reqs'[r].now = now \/ (reqs[r].pc = "start" /\ reqs'[r].now = reqs[r].now)

LEMMA StepPunctual ==
    ASSUME TypeInv, [Next]_vars
    PROVE  Punctual
<1>. USE DEF TypeInv
<1>0. \A r \in Requests : reqs[r] \in Request
  BY DEF ServerInv, StoreType
<1>1. ASSUME NEW r \in Requests, NEW q, Advance(r, q),
             q.pc = "start" => q.now = now \/ (reqs[r].pc = "start" /\ q.now = reqs[r].now)
      PROVE  Punctual
  BY <1>1, Advanced DEF Punctual
<1>2. ASSUME NEW r, Advance(r, Idle) \/ Advance(r, [reqs[r] EXCEPT !.cli = Null])
      PROVE  Punctual
  <2>1. CASE r \notin Requests
    BY <1>2, <2>1 DEF Advance, Punctual, ServerInv, StoreType
  <2>2. CASE r \in Requests
    <3>1. Idle.pc = "idle"
      BY DEF Idle
    <3>. QED  BY <1>2, <2>2, <3>1, Advances DEF Punctual
  <2>. QED  BY <2>1, <2>2
<1>3. ASSUME NEW r \in Requests, NEW a \in Answers, Answer(r, a) PROVE Punctual
  BY <1>3, Advances DEF Punctual
<1>4. ASSUME NEW r \in Requests, NEW pc, pc # "start", Goto(r, pc) PROVE Punctual
  BY <1>4, Advances, ZenonT(30) DEF Punctual
<1>5. CASE UNCHANGED reqs
  BY <1>5 DEF Punctual
<1>6. ASSUME NEW r \in Requests, Arrive(r) PROVE Punctual
  <2>1. PICK p \in Request : p = reqs[r]
    BY <1>0
  <2>2. PICK u : u = [p EXCEPT !.pc = IF @ = "sentStart" THEN "start" ELSE "select",
                               !.now = now, !.email = owner]
    OBVIOUS
  <2>3. Advance(r, u)
    BY <1>6, <2>1, <2>2, Zenon DEF Arrive
  <2>4. u.now = now
    BY <2>2 DEF Request
  <2>. QED  BY <1>1, <2>3, <2>4
<1>7. ASSUME NEW r \in Requests, Start(r) PROVE Punctual
  <2>1. ASSUME NEW d,
               Advance(r, [reqs[r] EXCEPT !.pc = "answered", !.answer = "granted",
                                          !.device = d, !.interval = PollInterval])
        PROVE  Punctual
    <3>1. PICK p \in Request : p = reqs[r]
      BY <1>0
    <3>2. PICK u : u = [p EXCEPT !.pc = "answered", !.answer = "granted",
                                 !.device = d, !.interval = PollInterval]
      OBVIOUS
    <3>3. Advance(r, u)
      BY <2>1, <3>1, <3>2, Zenon
    <3>4. u.pc = "answered"
      BY <3>2 DEF Request
    <3>. QED  BY <1>1, <3>3, <3>4
  <2>. QED  BY <1>3, <1>7, <2>1 DEF Start, Answers
<1>8. ASSUME NEW r \in Requests, Decide(r) \/ DropAnswer(r) PROVE Punctual
  BY <1>2, <1>8 DEF Decide, DropAnswer
<1>9. ASSUME NEW r \in Requests, PollSelect(r) PROVE Punctual
  <2>1. ASSUME Advance(r, [reqs[r] EXCEPT !.pc = "slot",
                              !.status = authorizations[reqs[r].device].status])
        PROVE  Punctual
    <3>1. PICK p, s : /\ p \in Request /\ p = reqs[r]
                     /\ s = authorizations[reqs[r].device].status
      BY <1>0
    <3>2. PICK u : u = [p EXCEPT !.pc = "slot", !.status = s]
      OBVIOUS
    <3>3. Advance(r, u)
      BY <2>1, <3>1, <3>2, Zenon
    <3>4. u.pc = "slot"
      BY <3>2 DEF Request
    <3>. QED  BY <1>1, <3>3, <3>4
  <2>. QED  BY <1>3, <1>9, <2>1 DEF PollSelect, Answers
<1>10. ASSUME NEW r \in Requests, ReserveSlot(r) PROVE Punctual
  BY <1>3, <1>4, <1>10 DEF ReserveSlot, Answers
<1>11. ASSUME NEW r \in Requests, NEW n,
              Advance(r, [reqs[r] EXCEPT !.pc = "answered", !.answer = "slow_down",
                                         !.interval = n])
       PROVE  Punctual
  <2>1. PICK p \in Request : p = reqs[r]
    BY <1>0
  <2>2. PICK u : u = [p EXCEPT !.pc = "answered", !.answer = "slow_down", !.interval = n]
    OBVIOUS
  <2>3. Advance(r, u)
    BY <1>11, <2>1, <2>2, Zenon
  <2>4. u.pc = "answered"
    BY <2>2 DEF Request
  <2>. QED  BY <1>1, <2>3, <2>4
<1>12. ASSUME NEW r \in Requests, SlowDown(r) PROVE Punctual
  BY <1>11, <1>12 DEF SlowDown
<1>13. ASSUME NEW r \in Requests, Issue(r) PROVE Punctual
  <2>1. ASSUME NEW t,
               Advance(r, [reqs[r] EXCEPT !.pc = "answered", !.answer = "token", !.token = t])
        PROVE  Punctual
    <3>1. PICK p \in Request : p = reqs[r]
      BY <1>0
    <3>2. PICK u : u = [p EXCEPT !.pc = "answered", !.answer = "token", !.token = t]
      OBVIOUS
    <3>3. Advance(r, u)
      BY <2>1, <3>1, <3>2, Zenon
    <3>4. u.pc = "answered"
      BY <3>2 DEF Request
    <3>. QED  BY <1>1, <3>3, <3>4
  <2>. QED  BY <1>3, <1>13, <2>1 DEF Issue, Answers
<1>14. ASSUME NEW r \in Requests, BeginDecide(r) PROVE Punctual
  <2>1. PICK i : i = Idle
    OBVIOUS
  <2>2. PICK d \in Devices, pc \in {"approve", "deny"} :
           Advance(r, [i EXCEPT !.pc = pc, !.device = d, !.email = owner, !.now = now])
    BY <1>14, <2>1 DEF BeginDecide
  <2>3. PICK u : u = [i EXCEPT !.pc = pc, !.device = d, !.email = owner, !.now = now]
    OBVIOUS
  <2>4. u.pc # "start"
    BY <2>1, <2>3 DEF Idle
  <2>. QED  BY <1>1, <2>2, <2>3, <2>4
<1>15. ASSUME NEW r \in Requests, ServerFails(r) PROVE Punctual
  <2>1. ASSUME Advance(r, [reqs[r] EXCEPT !.pc = "answered", !.answer = "unavailable",
                                          !.token = Null])
        PROVE  Punctual
    <3>1. PICK p \in Request : p = reqs[r]
      BY <1>0
    <3>2. PICK u : u = [p EXCEPT !.pc = "answered", !.answer = "unavailable", !.token = Null]
      OBVIOUS
    <3>3. Advance(r, u)
      BY <2>1, <3>1, <3>2, Zenon
    <3>4. u.pc = "answered"
      BY <3>2 DEF Request
    <3>. QED  BY <1>1, <3>3, <3>4
  <2>. QED  BY <1>2, <1>15, <2>1 DEF ServerFails
<1>16. ASSUME NEW r \in Requests, NEW pc, pc # "start", NEW c, NEW d,
              Advance(r, [Idle EXCEPT !.pc = pc, !.cli = c])
                \/ Advance(r, [Idle EXCEPT !.pc = pc, !.cli = c, !.device = d])
       PROVE  Punctual
  <2>1. PICK i : i = Idle
    OBVIOUS
  <2>2. PICK u, v : /\ u = [i EXCEPT !.pc = pc, !.cli = c]
                    /\ v = [i EXCEPT !.pc = pc, !.cli = c, !.device = d]
    OBVIOUS
  <2>3. u.pc = pc /\ v.pc = pc
    BY <2>1, <2>2 DEF Idle
  <2>4. Advance(r, u) \/ Advance(r, v)
    BY <1>16, <2>1, <2>2, Zenon
  <2>. QED  BY <1>1, <1>16, <2>3, <2>4
<1>17. ASSUME NEW c \in Clis, BeginLogin(c) PROVE Punctual
  BY <1>16, <1>17 DEF BeginLogin
<1>18. ASSUME NEW c \in Clis, Wake(c) PROVE Punctual
  BY <1>5, <1>16, <1>18 DEF Wake
<1>19. ASSUME NEW c \in Clis, Granted(c) \/ Polled(c) \/ Unreachable(c) \/ Cancel(c) PROVE Punctual
  BY <1>2, <1>5, <1>19 DEF Granted, Polled, Unreachable, Cancel
<1>20. CASE \/ MakeToken \/ RevokeToken \/ SweepTokens \/ SweepAuthorizations
            \/ Redeploy \/ Logout \/ Tick \/ UNCHANGED vars \/ \E c \in Clis : Save(c)
  BY <1>5, <1>20 DEF MakeToken, RevokeToken, SweepTokens, SweepAuthorizations, Redeploy, Logout,
                     Tick, Save, vars
<1>. QED  BY <1>6, <1>7, <1>8, <1>9, <1>10, <1>12, <1>13, <1>14, <1>15, <1>17, <1>18, <1>19, <1>20
          DEF Next, Serve, Run

\* What a step does to the dates of the rows.
DatesKept ==
    \A d \in Devices :
       /\ authorizations'[d].createdAt = authorizations[d].createdAt
       /\ authorizations'[d].expiresAt = authorizations[d].expiresAt
       /\ \/ authorizations'[d].row = authorizations[d].row
          \/ /\ authorizations[d].row = "present" /\ authorizations'[d].row = "deleted"
             /\ authorizations[d].expiresAt <= now

Accepted(r, d) ==
    /\ reqs[r].pc = "start" /\ WithinBudget(reqs[r].now)
    /\ authorizations[d].row = "unused" /\ UNCHANGED now
    /\ authorizations'[d].row = "present" /\ authorizations'[d].createdAt = reqs[r].now
    /\ authorizations'[d].expiresAt = reqs[r].now + Lifetime
    /\ \A e \in Devices : e # d => authorizations'[e] = authorizations[e]
    /\ \A s \in Requests : s # r => reqs'[s] = reqs[s]
    /\ reqs'[r].pc # "start"

LEMMA StepDates ==
    ASSUME TypeInv, [Next]_vars
    PROVE  DatesKept \/ \E r \in Requests, d \in Devices : Accepted(r, d)
<1>. USE DEF TypeInv, DatesKept
<1>0. /\ authorizations \in [Devices -> Authorization]
      /\ \A r \in Requests : reqs[r] \in Request /\ KnowsDevice(reqs[r])
  BY DEF ServerInv, StoreType, RequestsOK
<1>1. CASE UNCHANGED authorizations
  BY <1>1
<1>2. ASSUME NEW r \in Requests, Start(r), ~ UNCHANGED authorizations
      PROVE  \E d \in Devices : Accepted(r, d)
  <2>1. PICK d \in Devices :
          /\ WithinBudget(reqs[r].now) /\ authorizations[d] = NoAuthorization
          /\ authorizations' = [authorizations EXCEPT ![d] =
                     [row |-> "present", email |-> reqs[r].email,
                      status |-> "pending", days |-> 30, createdAt |-> reqs[r].now,
                      expiresAt |-> reqs[r].now + Lifetime,
                      nextPollAt |-> reqs[r].now + PollInterval, interval |-> PollInterval]]
          /\ Advance(r, [reqs[r] EXCEPT !.pc = "answered", !.answer = "granted",
                                        !.device = d, !.interval = PollInterval])
    BY <1>2 DEF Start
  <2>2. PICK p \in Request : p = reqs[r]
    BY <1>0
  <2>3. PICK u : u = [p EXCEPT !.pc = "answered", !.answer = "granted",
                               !.device = d, !.interval = PollInterval]
    OBVIOUS
  <2>4. Advance(r, u)
    BY <2>1, <2>2, <2>3, Zenon
  <2>5. u.pc = "answered"
    BY <2>3 DEF Request
  <2>6. reqs'[r].pc # "start" /\ \A s \in Requests : s # r => reqs'[s] = reqs[s]
    BY <2>4, <2>5, Advanced
  <2>7. authorizations[d].row = "unused"
    BY <2>1 DEF NoAuthorization
  <2>8. /\ authorizations'[d].row = "present" /\ authorizations'[d].createdAt = reqs[r].now
        /\ authorizations'[d].expiresAt = reqs[r].now + Lifetime
        /\ \A e \in Devices : e # d => authorizations'[e] = authorizations[e]
    BY <1>0, <2>1
  <2>. QED  BY <1>2, <2>1, <2>6, <2>7, <2>8 DEF Start, Accepted
<1>3. ASSUME NEW r \in Requests, Decide(r) PROVE DatesKept
  <2>1. ASSUME NEW s, NEW n, NEW d,
               authorizations' = [authorizations EXCEPT ![d].status = s, ![d].days = n]
        PROVE  DatesKept
    BY <1>0, <2>1 DEF Authorization
  <2>2. ASSUME NEW days,
               authorizations' = [authorizations EXCEPT
                    ![reqs[r].device].status =
                        IF reqs[r].pc = "approve" THEN "approved" ELSE "denied",
                    ![reqs[r].device].days = IF reqs[r].pc = "approve" THEN days ELSE 30]
        PROVE  DatesKept
    <3>1. PICK s, n, d : /\ s = IF reqs[r].pc = "approve" THEN "approved" ELSE "denied"
                         /\ n = IF reqs[r].pc = "approve" THEN days ELSE 30
                         /\ d = reqs[r].device
      OBVIOUS
    <3>2. authorizations' = [authorizations EXCEPT ![d].status = s, ![d].days = n]
      BY <2>2, <3>1, Zenon
    <3>. QED  BY <2>1, <3>2
  <2>. QED  BY <1>1, <1>3, <2>2 DEF Decide
<1>4. ASSUME NEW r \in Requests, ReserveSlot(r) \/ SlowDown(r) \/ Issue(r) PROVE DatesKept
  <2>1. ASSUME NEW d, NEW n, NEW i,
               \/ authorizations' = [authorizations EXCEPT ![d].nextPollAt = n]
               \/ authorizations' = [authorizations EXCEPT ![d].interval = i, ![d].nextPollAt = n]
               \/ authorizations' = [authorizations EXCEPT ![d].status = n]
        PROVE  DatesKept
    BY <1>0, <2>1 DEF Authorization
  <2>2. CASE ReserveSlot(r)
    BY <1>1, <2>1, <2>2 DEF ReserveSlot
  <2>3. CASE SlowDown(r)
    BY <1>1, <2>1, <2>3 DEF SlowDown
  <2>4. CASE Issue(r)
    BY <1>1, <2>1, <2>4 DEF Issue, server
  <2>. QED  BY <1>4, <2>2, <2>3, <2>4
<1>5. CASE SweepAuthorizations
  BY <1>0, <1>5 DEF SweepAuthorizations, Swept, Authorization
<1>6. ASSUME NEW r \in Requests,
             Arrive(r) \/ PollSelect(r) \/ BeginDecide(r) \/ ServerFails(r) \/ DropAnswer(r)
      PROVE  DatesKept
  BY <1>1, <1>6 DEF Arrive, PollSelect, BeginDecide, ServerFails, DropAnswer, server
<1>7. ASSUME NEW c \in Clis, BeginLogin(c) \/ Run(c) \/ Unreachable(c) \/ Cancel(c)
      PROVE  DatesKept
  BY <1>1, <1>7 DEF BeginLogin, Run, Granted, Wake, Polled, Save, Unreachable, Cancel, server
<1>8. CASE MakeToken \/ RevokeToken \/ SweepTokens \/ Redeploy \/ Logout \/ Tick \/ UNCHANGED vars
  BY <1>1, <1>8 DEF MakeToken, RevokeToken, SweepTokens, Redeploy, Logout, Tick, vars, server
<1>. QED  BY <1>1, <1>2, <1>3, <1>4, <1>5, <1>6, <1>7, <1>8 DEF Next, Serve

\* In any Lifetime at most Budget requests are accepted from one address, although
\* a start counts with a reading of the clock that is old when it inserts
\* (device-authorization.ts:60).
THEOREM BudgetIsKept == Spec => []BudgetHolds
<1>1. Init => BudgetInv
  <2> SUFFICES ASSUME Init PROVE BudgetInv
    OBVIOUS
  <2>1. Used = {} /\ Counted = {}
    BY DEF Init, Used, Counted, NoAuthorization
  <2>2. \A r \in Requests : reqs[r].pc # "start"
    BY DEF Init, Idle
  <2>. QED  BY <2>1, <2>2, FS_EmptySet DEF BudgetInv
<1>2. TypeInv /\ BudgetInv /\ [Next]_vars => BudgetInv'
  <2> SUFFICES ASSUME TypeInv, BudgetInv, [Next]_vars PROVE BudgetInv'
    OBVIOUS
  <2>1. now \in Nat /\ now' \in {now, now + 1}
    <3>1. ASSUME NEW r \in Requests,
                 Serve(r) \/ BeginDecide(r) \/ ServerFails(r) \/ DropAnswer(r)
          PROVE  now' = now
      BY <3>1 DEF Serve, Arrive, Start, Decide, PollSelect, ReserveSlot, SlowDown, Issue,
                  BeginDecide, ServerFails, DropAnswer
    <3>2. ASSUME NEW c \in Clis, BeginLogin(c) \/ Run(c) \/ Unreachable(c) \/ Cancel(c)
          PROVE  now' = now
      BY <3>2 DEF BeginLogin, Run, Granted, Wake, Polled, Save, Unreachable, Cancel
    <3>3. ASSUME \/ MakeToken \/ RevokeToken \/ SweepTokens \/ SweepAuthorizations
                 \/ Redeploy \/ Logout \/ UNCHANGED vars
          PROVE  now' = now
      BY <3>3 DEF MakeToken, RevokeToken, SweepTokens, SweepAuthorizations, Redeploy, Logout, vars
    <3>4. Tick => now' = now + 1
      BY DEF Tick
    <3>5. now \in Nat
      BY DEF TypeInv, ServerInv, StoreType
    <3>. QED  BY <3>1, <3>2, <3>3, <3>4, <3>5 DEF Next
  <2>2. CASE \E r \in Requests, d \in Devices : Accepted(r, d)
    BY <2>2, OneAccepted DEF Accepted
  <2>3. CASE DatesKept
    <3>1. Punctual
      BY StepPunctual
    <3>2. now' \in Nat /\ now' >= now
      BY <2>1
    <3>. QED  BY <2>3, <3>1, <3>2, NoneAccepted DEF DatesKept, Punctual
  <2>. QED  BY <2>2, <2>3, StepDates
<1>3. BudgetInv => BudgetHolds
  <2>1. Counted = {d \in Devices : /\ authorizations[d].row # "unused"
                                   /\ authorizations[d].createdAt + Lifetime > now}
    BY DEF Counted, Used
  <2>. QED  BY <2>1 DEF BudgetInv, BudgetHolds
<1>. QED  BY <1>1, <1>2, <1>3, DeviceTypeCorrect, PTL DEF Spec

-------------------------------------------------------------------------------
(* How requests and CLIs hang together, and the steps they take *)

Polls  == {"sentPoll", "select", "slot", "slow", "issue"}
Waits(c) == clis[c].pc \in {"starting", "polling"}
Holds(c) == clis[c].pc \in {"sleeping", "polling"}

ForStart(q) == \/ q.pc \in {"sentStart", "start"}
               \/ q.pc = "answered" /\ q.answer \in {"granted", "rate_limited", "unavailable"}
ForPoll(q)  == \/ q.pc \in Polls
               \/ q.pc = "answered" /\ q.answer # "granted"

\* A request and the CLI that waits for it know of each other.
Linked ==
    /\ \A r \in Requests : reqs[r].cli # Null =>
         /\ clis[reqs[r].cli].req = r
         /\ \/ clis[reqs[r].cli].pc = "starting" /\ ForStart(reqs[r])
            \/ /\ clis[reqs[r].cli].pc = "polling" /\ ForPoll(reqs[r])
               /\ clis[reqs[r].cli].device = reqs[r].device
    /\ \A c \in Clis : IF Waits(c) THEN reqs[clis[c].req].cli = c ELSE clis[c].req = Null
    /\ \A r \in Requests : reqs[r].pc # "answered" => reqs[r].answer = "none"
    /\ \A r \in Requests : reqs[r].now <= now

\* What a step leaves alone
RestOf(r)  == \A s \in Requests : s # r => reqs'[s] = reqs[s]
RestBut(c) == \A b \in Clis : b # c => clis'[b] = clis[b]
RowKept(d) == /\ authorizations'[d].row = authorizations[d].row
              /\ authorizations'[d].interval = authorizations[d].interval
              /\ authorizations'[d].nextPollAt = authorizations[d].nextPollAt
              /\ authorizations'[d].expiresAt = authorizations[d].expiresAt
RowsKept   == \A d \in Devices : RowKept(d)
RowsBut(d) == \A e \in Devices : e # d => RowKept(e)
Within(r)  == /\ RestOf(r) /\ now' = now /\ clis' = clis
              /\ reqs'[r].cli = reqs[r].cli /\ reqs'[r].now = reqs[r].now
Freed(r)   == \/ reqs'[r] = Idle
              \/ /\ reqs'[r].cli = Null /\ reqs'[r].pc = reqs[r].pc
                 /\ reqs'[r].answer = reqs[r].answer /\ reqs'[r].device = reqs[r].device
                 /\ reqs'[r].now = reqs[r].now
BacksOff(c) == clis'[c].interval = Smaller(2 * clis[c].interval, CliMaxInterval)

\* Time passes, rows are swept, or what happens is not about polling.
Elapses ==
    /\ UNCHANGED <<reqs, clis>> /\ now' \in {now, now + 1}
    /\ \A d \in Devices :
         /\ \/ authorizations'[d].row = authorizations[d].row
            \/ authorizations[d].row = "present" /\ authorizations'[d].row = "deleted"
         /\ authorizations'[d].interval = authorizations[d].interval
         /\ authorizations'[d].nextPollAt = authorizations[d].nextPollAt
         /\ authorizations'[d].expiresAt = authorizations[d].expiresAt

\* A request for which no CLI waits begins as the owner's or ends.
Apart(r) ==
    /\ RowsKept /\ RestOf(r) /\ now' = now /\ clis' = clis
    /\ reqs[r].cli = Null /\ reqs'[r].cli = Null
    /\ reqs'[r].pc \in {"idle", "approve", "deny"}
    /\ reqs'[r].answer = "none" /\ reqs'[r].now <= now

Arrives(r) ==
    /\ RowsKept /\ RestOf(r) /\ now' = now /\ clis' = clis
    /\ reqs'[r].cli = reqs[r].cli /\ reqs'[r].now = now
    /\ reqs'[r].answer = reqs[r].answer /\ reqs'[r].device = reqs[r].device
    /\ \/ reqs[r].pc = "sentStart" /\ reqs'[r].pc = "start"
       \/ reqs[r].pc = "sentPoll" /\ reqs'[r].pc = "select"

Reads(r) ==
    /\ RowsKept /\ Within(r)
    /\ reqs[r].pc = "select" /\ reqs'[r].pc = "slot"
    /\ authorizations[reqs[r].device].expiresAt > reqs[r].now
    /\ reqs'[r].answer = reqs[r].answer /\ reqs'[r].device = reqs[r].device

\* Answers that leave the row as it is
Replies(r) ==
    /\ RowsKept /\ RestOf(r) /\ now' = now /\ clis' = clis
    /\ reqs'[r].cli = reqs[r].cli /\ reqs'[r].now = reqs[r].now
    /\ reqs'[r].pc = "answered" /\ reqs'[r].device = reqs[r].device
    /\ \/ reqs[r].pc = "start" /\ reqs'[r].answer = "rate_limited"
       \/ reqs[r].pc = "select" /\ reqs'[r].answer \in {"expired_token", "access_denied"}
       \/ reqs[r].pc = "issue" /\ reqs'[r].answer \in {"token", "authorization_pending"}
       \/ /\ reqs[r].pc = "slow" /\ reqs'[r].answer = "slow_down"
          /\ authorizations[reqs[r].device].row # "present"
       \/ reqs[r].cli # Null /\ reqs'[r].answer = "unavailable"

Takes(r) ==
    /\ Within(r) /\ reqs[r].pc = "slot" /\ RowsBut(reqs[r].device)
    /\ LET d == reqs[r].device IN
         /\ authorizations[d].row = "present" /\ authorizations[d].nextPollAt <= reqs[r].now
         /\ authorizations'[d].row = "present"
         /\ authorizations'[d].interval = authorizations[d].interval
         /\ authorizations'[d].nextPollAt = reqs[r].now + authorizations[d].interval
         /\ authorizations'[d].expiresAt = authorizations[d].expiresAt
    /\ reqs'[r].device = reqs[r].device
    /\ \/ reqs'[r].pc = "issue" /\ reqs'[r].answer = reqs[r].answer
       \/ reqs'[r].pc = "answered" /\ reqs'[r].answer = "authorization_pending"

Misses(r) ==
    /\ Within(r) /\ reqs[r].pc = "slot" /\ RowsKept
    /\ ~ SlotFree(authorizations[reqs[r].device], reqs[r].now)
    /\ reqs'[r].device = reqs[r].device
    /\ reqs'[r].pc = "slow" /\ reqs'[r].answer = reqs[r].answer

Slows(r) ==
    /\ Within(r) /\ reqs[r].pc = "slow" /\ RowsBut(reqs[r].device)
    /\ LET d == reqs[r].device IN
         /\ authorizations[d].row = "present" /\ authorizations'[d].row = "present"
         /\ authorizations'[d].interval <= authorizations[d].interval + SlowStep
    /\ reqs'[r].device = reqs[r].device
    /\ reqs'[r].pc = "answered" /\ reqs'[r].answer = "slow_down"

Grants(r, d) ==
    /\ Within(r) /\ reqs[r].pc = "start" /\ RowsBut(d)
    /\ authorizations[d].row = "unused" /\ authorizations'[d].row = "present"
    /\ authorizations'[d].interval = PollInterval
    /\ authorizations'[d].nextPollAt = reqs[r].now + PollInterval
    /\ reqs'[r].device = d /\ reqs'[r].interval = PollInterval
    /\ reqs'[r].pc = "answered" /\ reqs'[r].answer = "granted"

Begins(c, r) ==
    /\ RowsKept /\ RestOf(r) /\ RestBut(c) /\ now' = now
    /\ ~ Waits(c) /\ ~ Holds(c) /\ reqs[r] = Idle
    /\ reqs'[r].pc = "sentStart" /\ reqs'[r].cli = c
    /\ reqs'[r].answer = "none" /\ reqs'[r].now = 0
    /\ clis'[c].pc = "starting" /\ clis'[c].req = r

\* A CLI goes to sleep with some interval.
Sleeps(c) ==
    /\ clis'[c].pc = "sleeping" /\ clis'[c].req = Null
    /\ clis'[c].wake >= clis'[c].deadline \/ clis'[c].wake >= now + clis'[c].interval

Accepts(c, r) ==
    /\ RowsKept /\ RestOf(r) /\ RestBut(c) /\ now' = now
    /\ clis[c].pc = "starting" /\ clis[c].req = r
    /\ reqs[r].pc = "answered" /\ reqs[r].answer = "granted" /\ reqs'[r] = Idle
    /\ Sleeps(c) /\ clis'[c].device = reqs[r].device /\ clis'[c].interval = reqs[r].interval

Asks(c, r) ==
    /\ RowsKept /\ RestOf(r) /\ RestBut(c) /\ now' = now
    /\ clis[c].pc = "sleeping" /\ clis[c].wake <= now /\ ~ DeadlinePassed(c)
    /\ reqs[r] = Idle
    /\ reqs'[r].pc = "sentPoll" /\ reqs'[r].cli = c /\ reqs'[r].device = clis[c].device
    /\ reqs'[r].answer = "none" /\ reqs'[r].now = 0
    /\ clis'[c].pc = "polling" /\ clis'[c].req = r /\ clis'[c].device = clis[c].device
    /\ clis'[c].interval = clis[c].interval /\ clis'[c].lost = clis[c].lost

Resumes(c, r) ==
    /\ RowsKept /\ RestOf(r) /\ RestBut(c) /\ now' = now
    /\ clis[c].pc = "polling" /\ clis[c].req = r /\ reqs[r].pc = "answered"
    /\ reqs'[r] = Idle
    /\ Sleeps(c) /\ clis'[c].device = clis[c].device /\ clis'[c].lost = clis[c].lost
    /\ \/ /\ reqs[r].answer = "authorization_pending"
          /\ clis'[c].interval = clis[c].interval
       \/ reqs[r].answer = "slow_down" /\ clis'[c].interval >= clis[c].interval + SlowStep
       \/ reqs[r].answer = "unavailable" /\ BacksOff(c)

Abandons(c, r) ==
    /\ RowsKept /\ RestOf(r) /\ RestBut(c) /\ now' = now
    /\ clis[c].pc = "polling" /\ clis[c].req = r /\ Freed(r)
    /\ reqs[r].pc = "answered" => reqs'[r] = Idle
    /\ Sleeps(c) /\ clis'[c].device = clis[c].device /\ clis'[c].lost = TRUE /\ BacksOff(c)

\* A login ends, or its token is to be saved, and nobody waits for its request.
Retires(c) ==
    /\ RowsKept /\ RestBut(c) /\ now' = now
    /\ clis'[c].pc \notin {"starting", "sleeping", "polling"} /\ clis'[c].req = Null
    /\ \/ ~ Waits(c) /\ reqs' = reqs
       \/ Waits(c) /\ RestOf(clis[c].req) /\ Freed(clis[c].req)

Motion ==
    \/ Elapses
    \/ \E r \in Requests : \/ Apart(r) \/ Arrives(r) \/ Reads(r) \/ Replies(r)
                           \/ Takes(r) \/ Misses(r) \/ Slows(r)
                           \/ \E d \in Devices : Grants(r, d)
    \/ \E c \in Clis : \/ Retires(c)
                       \/ \E r \in Requests : \/ Begins(c, r) \/ Accepts(c, r) \/ Asks(c, r)
                                              \/ Resumes(c, r) \/ Abandons(c, r)

\* A CLI that goes to sleep, unless its time is up.
LEMMA Slumbers ==
    ASSUME CliInv, now \in Nat, NEW c \in Clis, NEW p \in Process, Sleep(c, p)
    PROVE  /\ RestBut(c)
           /\ \/ /\ Sleeps(c) /\ clis'[c].device = p.device
                 /\ clis'[c].interval = p.interval /\ clis'[c].lost = p.lost
              \/ clis'[c].pc = "expired" /\ clis'[c].req = Null
<1>1. CASE now < p.deadline
  <2>1. PICK w : w = now + Smaller(p.interval, p.deadline - now)
    OBVIOUS
  <2>2. w >= p.deadline \/ w >= now + p.interval
    BY <1>1, <2>1 DEF Smaller, Process
  <2>3. PICK u : u = [p EXCEPT !.pc = "sleeping", !.req = Null, !.wake = w]
    OBVIOUS
  <2>4. /\ u.pc = "sleeping" /\ u.req = Null /\ u.wake = w /\ u.device = p.device
        /\ u.interval = p.interval /\ u.lost = p.lost /\ u.deadline = p.deadline
    BY <2>3 DEF Process
  <2>5. clis' = [clis EXCEPT ![c] = u]
    BY <1>1, <2>1, <2>3 DEF Sleep, Become
  <2>6. clis'[c] = u /\ RestBut(c)
    BY <2>5 DEF CliInv, RestBut
  <2>. QED  BY <2>2, <2>4, <2>6 DEF Sleeps
<1>2. CASE ~ (now < p.deadline)
  <2>1. PICK o : o = Out
    OBVIOUS
  <2>2. PICK u : u = [o EXCEPT !.pc = "expired"]
    OBVIOUS
  <2>3. u.pc = "expired" /\ u.req = Null
    BY <2>1, <2>2 DEF Out
  <2>4. clis' = [clis EXCEPT ![c] = u]
    BY <1>2, <2>1, <2>2 DEF Sleep, End, Become
  <2>. QED  BY <2>3, <2>4 DEF CliInv, RestBut
<1>. QED  BY <1>1, <1>2

\* A login that ends
LEMMA Ends ==
    ASSUME CliInv, NEW c \in Clis, NEW pc, End(c, pc)
    PROVE  RestBut(c) /\ clis'[c].pc = pc /\ clis'[c].req = Null
<1>1. PICK o : o = Out
  OBVIOUS
<1>2. PICK u : u = [o EXCEPT !.pc = pc]
  OBVIOUS
<1>3. u.pc = pc /\ u.req = Null
  BY <1>1, <1>2 DEF Out
<1>4. clis' = [clis EXCEPT ![c] = u]
  BY <1>1, <1>2 DEF End, Become
<1>. QED  BY <1>3, <1>4 DEF CliInv, RestBut

\* What an idle request is
LEMMA IdleIs ==
    /\ Idle.pc = "idle" /\ Idle.cli = Null /\ Idle.answer = "none" /\ Idle.now = 0
BY DEF Idle

\* A request that goes on within the Worker, or answers without a write
LEMMA Onwards ==
    ASSUME ServerInv, NEW r \in Requests, UNCHANGED <<now, clis>>
    PROVE  /\ \A pc : Goto(r, pc) =>
                 /\ Within(r) /\ reqs'[r].device = reqs[r].device
                 /\ reqs'[r].pc = pc /\ reqs'[r].answer = reqs[r].answer
           /\ \A a, i, t :
                 \/ Answer(r, a)
                 \/ Advance(r, [reqs[r] EXCEPT !.pc = "answered", !.answer = a, !.interval = i])
                 \/ Advance(r, [reqs[r] EXCEPT !.pc = "answered", !.answer = a, !.token = t])
                 =>
                 /\ Within(r) /\ reqs'[r].device = reqs[r].device
                 /\ reqs'[r].pc = "answered" /\ reqs'[r].answer = a
<1>0. PICK p \in Request : p = reqs[r]
  BY DEF ServerInv, StoreType
<1>1. ASSUME NEW pc, Goto(r, pc)
      PROVE  /\ Within(r) /\ reqs'[r].device = reqs[r].device
             /\ reqs'[r].pc = pc /\ reqs'[r].answer = reqs[r].answer
  BY <1>1, Advances DEF Within, RestOf
<1>2. ASSUME NEW a, NEW i, NEW t,
             \/ Answer(r, a)
             \/ Advance(r, [reqs[r] EXCEPT !.pc = "answered", !.answer = a, !.interval = i])
             \/ Advance(r, [reqs[r] EXCEPT !.pc = "answered", !.answer = a, !.token = t])
      PROVE  /\ Within(r) /\ reqs'[r].device = reqs[r].device
             /\ reqs'[r].pc = "answered" /\ reqs'[r].answer = a
  <2>1. PICK u, v, w : /\ u = [p EXCEPT !.pc = "answered", !.answer = a]
                       /\ v = [p EXCEPT !.pc = "answered", !.answer = a, !.interval = i]
                       /\ w = [p EXCEPT !.pc = "answered", !.answer = a, !.token = t]
    OBVIOUS
  <2>2. Advance(r, u) \/ Advance(r, v) \/ Advance(r, w)
    BY <1>0, <1>2, <2>1, Zenon DEF Answer
  <2>3. \A x \in {u, v, w} : /\ x.pc = "answered" /\ x.answer = a /\ x.cli = p.cli
                             /\ x.device = p.device /\ x.now = p.now
    <3>1. /\ u.pc = "answered" /\ u.answer = a /\ u.cli = p.cli
          /\ u.device = p.device /\ u.now = p.now
      BY <2>1, SMT DEF Request
    <3>2. /\ v.pc = "answered" /\ v.answer = a /\ v.cli = p.cli
          /\ v.device = p.device /\ v.now = p.now
      BY <2>1, SMT DEF Request
    <3>3. /\ w.pc = "answered" /\ w.answer = a /\ w.cli = p.cli
          /\ w.device = p.device /\ w.now = p.now
      BY <2>1, SMT DEF Request
    <3>. QED  BY <3>1, <3>2, <3>3
  <2>4. PICK x \in {u, v, w} : Advance(r, x)
    BY <2>2
  <2>5. reqs'[r] = x /\ RestOf(r)
    BY <2>4, Advanced DEF RestOf
  <2>. QED  BY <1>0, <2>3, <2>5 DEF Within
<1>. QED  BY <1>1, <1>2

\* The request of a CLI that does not wait for it any more
LEMMA Freeing ==
    ASSUME ServerInv, NEW r \in Requests,
           Advance(r, Idle) \/ Advance(r, [reqs[r] EXCEPT !.cli = Null])
    PROVE  RestOf(r) /\ Freed(r)
BY Advances DEF RestOf, Freed

\* The Worker's steps
LEMMA ServeMoves ==
    ASSUME TypeInv, Linked, NEW r \in Requests, Serve(r)
    PROVE  \/ Elapses \/ Apart(r) \/ Arrives(r) \/ Reads(r) \/ Replies(r)
           \/ Takes(r) \/ Misses(r) \/ Slows(r) \/ \E d \in Devices : Grants(r, d)
<1>. USE DEF TypeInv
<1>0. /\ authorizations \in [Devices -> Authorization]
      /\ reqs[r] \in Request /\ KnowsDevice(reqs[r]) /\ now \in Nat /\ ServerInv
  BY DEF ServerInv, StoreType, RequestsOK
<1>1. UNCHANGED <<now, clis>>
  BY DEF Serve, Arrive, Start, Decide, PollSelect, ReserveSlot, SlowDown, Issue
<1>2. UNCHANGED authorizations => RowsKept
  BY DEF RowsKept, RowKept
<1>3. CASE Arrive(r)
  <2>1. PICK p \in Request : p = reqs[r]
    BY <1>0
  <2>2. PICK u : u = [p EXCEPT !.pc = IF @ = "sentStart" THEN "start" ELSE "select",
                               !.now = now, !.email = owner]
    OBVIOUS
  <2>3. Advance(r, u) /\ p.pc \in {"sentStart", "sentPoll"} /\ UNCHANGED server
    BY <1>3, <2>1, <2>2, Zenon DEF Arrive
  <2>4. /\ u.now = now /\ u.cli = p.cli /\ u.answer = p.answer /\ u.device = p.device
        /\ u.pc = IF p.pc = "sentStart" THEN "start" ELSE "select"
    BY <2>2 DEF Request
  <2>5. reqs'[r] = u /\ RestOf(r)
    BY <1>0, <2>3, Advanced DEF RestOf
  <2>6. RowsKept
    BY <1>2, <2>3 DEF server
  <2>. QED  BY <1>1, <2>1, <2>3, <2>4, <2>5, <2>6 DEF Arrives
<1>4. CASE Start(r)
  <2>1. CASE Answer(r, "rate_limited") /\ UNCHANGED authorizations
    <3>1. /\ Within(r) /\ reqs'[r].device = reqs[r].device
          /\ reqs'[r].pc = "answered" /\ reqs'[r].answer = "rate_limited"
      BY <1>0, <1>1, <2>1, Onwards
    <3>. QED  BY <1>2, <1>4, <2>1, <3>1 DEF Start, Replies, Within
  <2>2. CASE \E d \in Devices :
               /\ authorizations[d] = NoAuthorization
               /\ authorizations' = [authorizations EXCEPT ![d] =
                     [row |-> "present", email |-> reqs[r].email,
                      status |-> "pending", days |-> 30, createdAt |-> reqs[r].now,
                      expiresAt |-> reqs[r].now + Lifetime,
                      nextPollAt |-> reqs[r].now + PollInterval, interval |-> PollInterval]]
               /\ Advance(r, [reqs[r] EXCEPT !.pc = "answered", !.answer = "granted",
                                 !.device = d, !.interval = PollInterval])
    <3>1. PICK d \in Devices :
               /\ authorizations[d] = NoAuthorization
               /\ authorizations' = [authorizations EXCEPT ![d] =
                     [row |-> "present", email |-> reqs[r].email,
                      status |-> "pending", days |-> 30, createdAt |-> reqs[r].now,
                      expiresAt |-> reqs[r].now + Lifetime,
                      nextPollAt |-> reqs[r].now + PollInterval, interval |-> PollInterval]]
               /\ Advance(r, [reqs[r] EXCEPT !.pc = "answered", !.answer = "granted",
                                 !.device = d, !.interval = PollInterval])
      BY <2>2
    <3>2. PICK p \in Request : p = reqs[r]
      BY <1>0
    <3>3. PICK u : u = [p EXCEPT !.pc = "answered", !.answer = "granted",
                                 !.device = d, !.interval = PollInterval]
      OBVIOUS
    <3>4. Advance(r, u)
      BY <3>1, <3>2, <3>3, Zenon
    <3>5. /\ u.pc = "answered" /\ u.answer = "granted" /\ u.device = d
          /\ u.interval = PollInterval /\ u.cli = p.cli /\ u.now = p.now
      BY <3>3 DEF Request
    <3>6. reqs'[r] = u /\ RestOf(r)
      BY <1>0, <3>4, Advanced DEF RestOf
    <3>7. /\ authorizations[d].row = "unused" /\ authorizations'[d].row = "present"
          /\ authorizations'[d].interval = PollInterval
          /\ authorizations'[d].nextPollAt = reqs[r].now + PollInterval
      BY <1>0, <3>1 DEF NoAuthorization
    <3>8. RowsBut(d)
      BY <1>0, <3>1 DEF RowsBut, RowKept
    <3>9. reqs[r].pc = "start"
      BY <1>4 DEF Start
    <3>10. Within(r)
      BY <1>1, <3>2, <3>5, <3>6 DEF Within
    <3>11. Grants(r, d)
      BY <3>5, <3>6, <3>7, <3>8, <3>9, <3>10 DEF Grants
    <3>. QED  BY <3>11
  <2>. QED  BY <1>4, <2>1, <2>2 DEF Start
<1>5. CASE Decide(r)
  <2>1. reqs[r].cli = Null
    BY <1>5 DEF Linked, ForStart, ForPoll, Polls, Decide
  <2>2. RowsKept
    <3>1. ASSUME NEW days,
                 authorizations' = [authorizations EXCEPT
                    ![reqs[r].device].status =
                        IF reqs[r].pc = "approve" THEN "approved" ELSE "denied",
                    ![reqs[r].device].days = IF reqs[r].pc = "approve" THEN days ELSE 30]
          PROVE  RowsKept
      <4>1. PICK s, n, d : /\ s = IF reqs[r].pc = "approve" THEN "approved" ELSE "denied"
                           /\ n = IF reqs[r].pc = "approve" THEN days ELSE 30
                           /\ d = reqs[r].device
        OBVIOUS
      <4>2. authorizations' = [authorizations EXCEPT ![d].status = s, ![d].days = n]
        BY <3>1, <4>1, Zenon
      <4>. QED  BY <1>0, <4>2 DEF RowsKept, RowKept, Authorization
    <3>. QED  BY <1>2, <1>5, <3>1 DEF Decide
  <2>3. Advance(r, Idle)
    BY <1>5 DEF Decide
  <2>4. RestOf(r) /\ reqs'[r] = Idle
    BY <1>0, <2>3, Advances DEF RestOf
  <2>. QED  BY <1>0, <1>1, <2>1, <2>2, <2>4, IdleIs DEF Apart
<1>6. CASE PollSelect(r)
  <2>0. UNCHANGED authorizations /\ RowsKept /\ reqs[r].pc = "select"
    BY <1>2, <1>6 DEF PollSelect, server
  <2>1. ASSUME NEW a \in {"expired_token", "access_denied"}, Answer(r, a)
        PROVE  Replies(r)
    <3>1. /\ Within(r) /\ reqs'[r].device = reqs[r].device
          /\ reqs'[r].pc = "answered" /\ reqs'[r].answer = a
      BY <1>0, <1>1, <2>1, Onwards
    <3>. QED  BY <2>0, <3>1 DEF Replies, Within
  <2>2. CASE /\ Advance(r, [reqs[r] EXCEPT !.pc = "slot",
                                  !.status = authorizations[reqs[r].device].status])
             /\ ~ (authorizations[reqs[r].device].expiresAt <= reqs[r].now)
    <3>1. PICK p, s : /\ p \in Request /\ p = reqs[r]
                      /\ s = authorizations[reqs[r].device].status
      BY <1>0
    <3>2. PICK u : u = [p EXCEPT !.pc = "slot", !.status = s]
      OBVIOUS
    <3>3. Advance(r, u)
      BY <2>2, <3>1, <3>2, Zenon
    <3>4. /\ u.pc = "slot" /\ u.cli = p.cli /\ u.answer = p.answer
          /\ u.device = p.device /\ u.now = p.now
      BY <3>1, <3>2 DEF Request
    <3>5. reqs'[r] = u /\ RestOf(r)
      BY <1>0, <3>3, Advanced DEF RestOf
    <3>6. reqs[r].device \in Devices /\ reqs[r].now \in Nat
      BY <1>0, <2>0 DEF KnowsDevice, WorkingPcs, Request
    <3>7. authorizations[reqs[r].device].expiresAt > reqs[r].now
      BY <1>0, <2>2, <3>6 DEF Authorization
    <3>. QED  BY <1>1, <2>0, <3>1, <3>4, <3>5, <3>7 DEF Reads, Within
  <2>. QED  BY <1>6, <2>1, <2>2 DEF PollSelect
<1>7. CASE ReserveSlot(r)
  <2>0. PICK d \in Devices : d = reqs[r].device
    BY <1>0, <1>7 DEF KnowsDevice, WorkingPcs, ReserveSlot
  <2>1. CASE /\ SlotFree(authorizations[reqs[r].device], reqs[r].now)
             /\ authorizations' =
                  [authorizations EXCEPT ![reqs[r].device].nextPollAt =
                        reqs[r].now + authorizations[reqs[r].device].interval]
             /\ (Answer(r, "authorization_pending") \/ Goto(r, "issue"))
    <3>1. /\ Within(r) /\ reqs'[r].device = reqs[r].device
          /\ \/ reqs'[r].pc = "issue" /\ reqs'[r].answer = reqs[r].answer
             \/ reqs'[r].pc = "answered" /\ reqs'[r].answer = "authorization_pending"
      BY <1>0, <1>1, <2>1, Onwards
    <3>2. PICK n : n = reqs[r].now + authorizations[d].interval
      OBVIOUS
    <3>3. authorizations' = [authorizations EXCEPT ![d].nextPollAt = n]
      BY <2>0, <2>1, <3>2, Zenon
    <3>6. PICK a \in Authorization : a = authorizations[d]
      BY <1>0
    <3>7. PICK b : b = [a EXCEPT !.nextPollAt = n]
      OBVIOUS
    <3>8. /\ b.row = a.row /\ b.interval = a.interval /\ b.nextPollAt = n
          /\ b.expiresAt = a.expiresAt
      BY <3>7 DEF Authorization
    <3>9. authorizations' = [authorizations EXCEPT ![d] = b]
      BY <3>3, <3>6, <3>7, Zenon
    <3>10. authorizations'[d] = b /\ \A e \in Devices : e # d => authorizations'[e] = authorizations[e]
      BY <1>0, <3>9
    <3>4. /\ RowsBut(d) /\ authorizations'[d].row = authorizations[d].row
          /\ authorizations'[d].interval = authorizations[d].interval
          /\ authorizations'[d].nextPollAt = n
          /\ authorizations'[d].expiresAt = authorizations[d].expiresAt
      BY <3>6, <3>8, <3>10 DEF RowsBut, RowKept
    <3>5. authorizations[d].row = "present" /\ authorizations[d].nextPollAt <= reqs[r].now
      BY <2>0, <2>1 DEF SlotFree
    <3>. QED  BY <1>7, <2>0, <3>1, <3>2, <3>4, <3>5 DEF ReserveSlot, Takes
  <2>2. CASE /\ ~ SlotFree(authorizations[reqs[r].device], reqs[r].now)
             /\ Goto(r, "slow") /\ UNCHANGED authorizations
    <3>1. /\ Within(r) /\ reqs'[r].device = reqs[r].device
          /\ reqs'[r].pc = "slow" /\ reqs'[r].answer = reqs[r].answer
      BY <1>0, <1>1, <2>2, Onwards
    <3>. QED  BY <1>2, <1>7, <2>2, <3>1 DEF ReserveSlot, Misses
  <2>. QED  BY <1>7, <2>1, <2>2 DEF ReserveSlot
<1>8. CASE SlowDown(r)
  <2>0. PICK d \in Devices : d = reqs[r].device
    BY <1>0, <1>8 DEF KnowsDevice, WorkingPcs, SlowDown
  <2>1. PICK slower : slower = Smaller(authorizations[d].interval + SlowStep, MaxInterval)
    OBVIOUS
  <2>2. ASSUME NEW i, Advance(r, [reqs[r] EXCEPT !.pc = "answered", !.answer = "slow_down",
                                                 !.interval = i])
        PROVE  /\ Within(r) /\ reqs'[r].device = reqs[r].device
               /\ reqs'[r].pc = "answered" /\ reqs'[r].answer = "slow_down"
    BY <1>0, <1>1, <2>2, Onwards
  <2>3. CASE /\ authorizations[d].row = "present"
             /\ authorizations' = [authorizations EXCEPT
                  ![d].interval = slower, ![d].nextPollAt = reqs[r].now + slower]
             /\ Advance(r, [reqs[r] EXCEPT !.pc = "answered", !.answer = "slow_down",
                                           !.interval = slower])
    <3>1. /\ Within(r) /\ reqs'[r].device = reqs[r].device
          /\ reqs'[r].pc = "answered" /\ reqs'[r].answer = "slow_down"
      BY <2>2, <2>3
    <3>2. PICK n : n = reqs[r].now + slower
      OBVIOUS
    <3>3. authorizations' = [authorizations EXCEPT ![d].interval = slower, ![d].nextPollAt = n]
      BY <2>3, <3>2, Zenon
    <3>6. PICK a \in Authorization : a = authorizations[d]
      BY <1>0
    <3>7. PICK b : b = [a EXCEPT !.interval = slower, !.nextPollAt = n]
      OBVIOUS
    <3>8. b.row = a.row /\ b.interval = slower
      BY <3>7 DEF Authorization
    <3>9. authorizations' = [authorizations EXCEPT ![d] = b]
      BY <3>3, <3>6, <3>7, Zenon
    <3>10. authorizations'[d] = b /\ \A e \in Devices : e # d => authorizations'[e] = authorizations[e]
      BY <1>0, <3>9
    <3>4. /\ RowsBut(d) /\ authorizations'[d].row = authorizations[d].row
          /\ authorizations'[d].interval = slower
      BY <3>6, <3>8, <3>10 DEF RowsBut, RowKept
    <3>5. slower <= authorizations[d].interval + SlowStep
      <4>1. authorizations[d].interval \in Nat
        BY <1>0 DEF Authorization
      <4>. QED  BY <2>1, <4>1 DEF Smaller
    <3>. QED  BY <1>8, <2>0, <2>3, <3>1, <3>4, <3>5 DEF SlowDown, Slows
  <2>4. CASE /\ authorizations[d].row # "present" /\ UNCHANGED authorizations
             /\ Advance(r, [reqs[r] EXCEPT !.pc = "answered", !.answer = "slow_down",
                                           !.interval = FallbackInterval])
    <3>1. /\ Within(r) /\ reqs'[r].device = reqs[r].device
          /\ reqs'[r].pc = "answered" /\ reqs'[r].answer = "slow_down"
      BY <2>2, <2>4
    <3>. QED  BY <1>2, <1>8, <2>0, <2>4, <3>1 DEF SlowDown, Replies, Within
  <2>. QED  BY <1>8, <2>0, <2>1, <2>3, <2>4 DEF SlowDown
<1>9. CASE Issue(r)
  <2>1. RowsKept
    <3>1. ASSUME NEW d, authorizations' = [authorizations EXCEPT ![d].status = "consumed"]
          PROVE  RowsKept
      BY <1>0, <3>1 DEF RowsKept, RowKept, Authorization
    <3>. QED  BY <1>2, <1>9, <3>1 DEF Issue, server
  <2>2. \E a \in {"token", "authorization_pending"} :
           /\ Within(r) /\ reqs'[r].device = reqs[r].device
           /\ reqs'[r].pc = "answered" /\ reqs'[r].answer = a
    <3>1. CASE Answer(r, "authorization_pending")
      BY <1>0, <1>1, <3>1, Onwards
    <3>2. ASSUME NEW t, Advance(r, [reqs[r] EXCEPT !.pc = "answered", !.answer = "token",
                                                   !.token = t])
          PROVE  /\ Within(r) /\ reqs'[r].device = reqs[r].device
                 /\ reqs'[r].pc = "answered" /\ reqs'[r].answer = "token"
      BY <1>0, <1>1, <3>2, Onwards
    <3>. QED  BY <1>9, <3>1, <3>2 DEF Issue
  <2>. QED  BY <1>9, <2>1, <2>2 DEF Issue, Replies, Within
<1>. QED  BY <1>3, <1>4, <1>5, <1>6, <1>7, <1>8, <1>9 DEF Serve

\* The other steps of requests, of the clock, and of the stores
LEMMA OtherMoves ==
    ASSUME TypeInv, Linked,
           \/ \E r \in Requests : BeginDecide(r) \/ ServerFails(r) \/ DropAnswer(r)
           \/ MakeToken \/ RevokeToken \/ SweepTokens \/ SweepAuthorizations
           \/ Redeploy \/ Logout \/ Tick \/ UNCHANGED vars
    PROVE  Elapses \/ \E r \in Requests : Apart(r) \/ Replies(r)
<1>. USE DEF TypeInv
<1>0. /\ authorizations \in [Devices -> Authorization] /\ ServerInv /\ now \in Nat
      /\ \A r \in Requests : reqs[r] \in Request
  BY DEF ServerInv, StoreType
<1>1. UNCHANGED authorizations => RowsKept
  BY DEF RowsKept, RowKept
<1>2. CASE UNCHANGED <<now, reqs, clis, authorizations>>
  BY <1>2 DEF Elapses
<1>3. CASE Tick
  BY <1>3 DEF Tick, Elapses, server
<1>4. CASE SweepAuthorizations
  <2>1. \A d \in Devices :
          authorizations'[d] = IF authorizations[d].row = "present" /\ authorizations[d].expiresAt <= now
                                 THEN [authorizations[d] EXCEPT !.row = "deleted"] ELSE authorizations[d]
    BY <1>0, <1>4 DEF SweepAuthorizations, Swept
  <2>2. ASSUME NEW d \in Devices
        PROVE  /\ \/ authorizations'[d].row = authorizations[d].row
                  \/ authorizations[d].row = "present" /\ authorizations'[d].row = "deleted"
               /\ authorizations'[d].interval = authorizations[d].interval
               /\ authorizations'[d].nextPollAt = authorizations[d].nextPollAt
               /\ authorizations'[d].expiresAt = authorizations[d].expiresAt
    <3>1. PICK a \in Authorization : a = authorizations[d]
      BY <1>0
    <3>2. PICK b : b = [a EXCEPT !.row = "deleted"]
      OBVIOUS
    <3>3. /\ b.row = "deleted" /\ b.interval = a.interval /\ b.nextPollAt = a.nextPollAt
          /\ b.expiresAt = a.expiresAt
      BY <3>2 DEF Authorization
    <3>4. authorizations'[d] = IF a.row = "present" /\ a.expiresAt <= now THEN b ELSE a
      BY <2>1, <3>1, <3>2, Zenon
    <3>. QED  BY <3>1, <3>3, <3>4
  <2>. QED  BY <1>4, <2>2 DEF SweepAuthorizations, Elapses
<1>5. ASSUME NEW r \in Requests, BeginDecide(r) PROVE Apart(r)
  <2>1. PICK i : i = Idle
    OBVIOUS
  <2>2. PICK d \in Devices, pc \in {"approve", "deny"} :
           Advance(r, [i EXCEPT !.pc = pc, !.device = d, !.email = owner, !.now = now])
    BY <1>5, <2>1 DEF BeginDecide
  <2>3. PICK u : u = [i EXCEPT !.pc = pc, !.device = d, !.email = owner, !.now = now]
    OBVIOUS
  <2>4. u.pc = pc /\ u.cli = Null /\ u.answer = "none" /\ u.now = now
    BY <2>1, <2>3 DEF Idle
  <2>5. reqs'[r] = u /\ RestOf(r)
    BY <1>0, <2>2, <2>3, Advanced DEF RestOf
  <2>6. reqs[r].cli = Null /\ UNCHANGED <<now, clis, authorizations>>
    BY <1>5, IdleIs DEF BeginDecide, server
  <2>. QED  BY <1>0, <1>1, <2>4, <2>5, <2>6 DEF Apart
<1>6. ASSUME NEW r \in Requests, DropAnswer(r) PROVE Apart(r)
  <2>1. /\ Advance(r, Idle) /\ reqs[r].cli = Null
        /\ UNCHANGED <<now, clis, authorizations>>
    BY <1>6 DEF DropAnswer, server
  <2>2. reqs'[r] = Idle /\ RestOf(r)
    BY <1>0, <2>1, Advances DEF RestOf
  <2>. QED  BY <1>0, <1>1, <2>1, <2>2, IdleIs DEF Apart
<1>7. ASSUME NEW r \in Requests, ServerFails(r) PROVE Apart(r) \/ Replies(r)
  <2>0. UNCHANGED <<now, clis, authorizations>>
    BY <1>7 DEF ServerFails, server
  <2>1. CASE reqs[r].cli = Null
    <3>1. Advance(r, Idle)
      BY <1>7, <2>1 DEF ServerFails
    <3>2. reqs'[r] = Idle /\ RestOf(r)
      BY <1>0, <3>1, Advances DEF RestOf
    <3>. QED  BY <1>0, <1>1, <2>0, <2>1, <3>2, IdleIs DEF Apart
  <2>2. CASE reqs[r].cli # Null
    <3>1. PICK p \in Request : p = reqs[r]
      BY <1>0
    <3>2. PICK u : u = [p EXCEPT !.pc = "answered", !.answer = "unavailable", !.token = Null]
      OBVIOUS
    <3>3. Advance(r, u)
      BY <1>7, <2>2, <3>1, <3>2, Zenon DEF ServerFails
    <3>4. /\ u.pc = "answered" /\ u.answer = "unavailable" /\ u.cli = p.cli
          /\ u.device = p.device /\ u.now = p.now
      BY <3>2 DEF Request
    <3>5. reqs'[r] = u /\ RestOf(r)
      BY <1>0, <3>3, Advanced DEF RestOf
    <3>. QED  BY <1>1, <2>0, <2>2, <3>1, <3>4, <3>5 DEF Replies
  <2>. QED  BY <2>1, <2>2
<1>. QED  BY <1>2, <1>3, <1>4, <1>5, <1>6, <1>7
          DEF MakeToken, RevokeToken, SweepTokens, Redeploy, Logout, vars, server

\* The steps of a CLI and of its network
LEMMA CliMoves ==
    ASSUME TypeInv, Linked, NEW c \in Clis,
           BeginLogin(c) \/ Run(c) \/ Unreachable(c) \/ Cancel(c)
    PROVE  \/ Retires(c)
           \/ \E r \in Requests : \/ Begins(c, r) \/ Accepts(c, r) \/ Asks(c, r)
                                  \/ Resumes(c, r) \/ Abandons(c, r)
<1>. USE DEF TypeInv
<1>0. /\ ServerInv /\ CliInv /\ now \in Nat /\ clis[c] \in Process /\ CliOK(clis[c])
      /\ \A r \in Requests : reqs[r] \in Request /\ KnowsDevice(reqs[r])
  BY DEF ServerInv, StoreType, CliInv, RequestsOK
<1>1. UNCHANGED <<now, authorizations>> /\ RowsKept
  BY DEF RowsKept, RowKept, BeginLogin, Run, Granted, Wake, Polled, Save, Unreachable, Cancel, server
<1>2. PICK p \in Process : p = clis[c]
  BY <1>0
<1>3. ASSUME NEW pc \in {"out", "in", "denied", "expired", "failed"}, End(c, pc)
      PROVE  RestBut(c) /\ clis'[c].pc = pc /\ clis'[c].req = Null
  BY <1>0, <1>3, Ends
<1>4. ASSUME Waits(c) PROVE clis[c].req \in Requests
  BY <1>0, <1>4 DEF CliOK, Waits
<1>5. ASSUME Waits(c), RestBut(c), clis'[c].req = Null,
             clis'[c].pc \notin {"starting", "sleeping", "polling"},
             Advance(clis[c].req, Idle) \/ Advance(clis[c].req, [reqs[clis[c].req] EXCEPT !.cli = Null])
      PROVE  Retires(c)
  BY <1>0, <1>1, <1>4, <1>5, Freeing DEF Retires
<1>6. CASE BeginLogin(c)
  <2>1. PICK i, o : i = Idle /\ o = Out
    OBVIOUS
  <2>2. PICK r \in Requests : /\ reqs[r] = Idle
                              /\ Advance(r, [i EXCEPT !.pc = "sentStart", !.cli = c])
                              /\ Become(c, [o EXCEPT !.pc = "starting", !.req = r])
    BY <1>6, <2>1 DEF BeginLogin
  <2>3. PICK u, v : /\ u = [i EXCEPT !.pc = "sentStart", !.cli = c]
                    /\ v = [o EXCEPT !.pc = "starting", !.req = r]
    OBVIOUS
  <2>4. /\ u.pc = "sentStart" /\ u.cli = c /\ u.answer = "none" /\ u.now = 0
        /\ v.pc = "starting" /\ v.req = r
    BY <2>1, <2>3 DEF Idle, Out
  <2>5. reqs'[r] = u /\ RestOf(r)
    BY <1>0, <2>2, <2>3, Advanced DEF RestOf
  <2>6. clis'[c] = v /\ RestBut(c)
    BY <1>0, <2>2, <2>3 DEF RestBut, Become, CliInv
  <2>7. ~ Waits(c) /\ ~ Holds(c)
    BY <1>6 DEF BeginLogin, Resting, Waits, Holds
  <2>8. Begins(c, r)
    BY <1>1, <2>2, <2>4, <2>5, <2>6, <2>7 DEF Begins
  <2>. QED  BY <2>8
<1>7. CASE Granted(c)
  <2>1. /\ Waits(c) /\ clis[c].req \in Requests /\ Advance(clis[c].req, Idle)
        /\ clis[c].pc = "starting" /\ reqs[clis[c].req].pc = "answered"
    BY <1>4, <1>7 DEF Granted, Waits
  <2>2. CASE End(c, "failed")
    BY <1>3, <1>5, <2>1, <2>2
  <2>3. CASE /\ reqs[clis[c].req].answer = "granted"
             /\ Sleep(c, [clis[c] EXCEPT !.device = reqs[clis[c].req].device,
                                         !.interval = reqs[clis[c].req].interval,
                                         !.deadline = now + Lifetime])
    <3>1. PICK r \in Requests, d \in Devices, n \in Nat, l \in Nat :
             /\ r = clis[c].req /\ d = reqs[r].device /\ n = reqs[r].interval
             /\ l = now + Lifetime
      BY <1>0, <2>1, <2>3 DEF KnowsDevice, Request
    <3>2. PICK u : u = [p EXCEPT !.device = d, !.interval = n, !.deadline = l]
      OBVIOUS
    <3>3. u \in Process /\ u.device = d /\ u.interval = n
      BY <3>2 DEF Process
    <3>4. Sleep(c, u)
      BY <1>2, <2>3, <3>1, <3>2, Zenon
    <3>5. /\ RestBut(c)
          /\ \/ Sleeps(c) /\ clis'[c].device = d /\ clis'[c].interval = n
             \/ clis'[c].pc = "expired" /\ clis'[c].req = Null
      BY <1>0, <3>3, <3>4, Slumbers
    <3>6. reqs'[r] = Idle /\ RestOf(r)
      BY <1>0, <2>1, <3>1, Advances DEF RestOf
    <3>7. CASE Sleeps(c) /\ clis'[c].device = d /\ clis'[c].interval = n
      <4>1. Accepts(c, r)
        BY <1>1, <2>1, <2>3, <3>1, <3>5, <3>6, <3>7 DEF Accepts
      <4>. QED  BY <4>1
    <3>8. CASE clis'[c].pc = "expired" /\ clis'[c].req = Null
      BY <1>5, <2>1, <3>5, <3>8
    <3>. QED  BY <3>5, <3>7, <3>8
  <2>. QED  BY <1>7, <2>2, <2>3 DEF Granted
<1>8. CASE Wake(c)
  <2>1. CASE End(c, "expired") /\ UNCHANGED reqs
    <3>1. ~ Waits(c)
      BY <1>8 DEF Wake, Waits
    <3>2. RestBut(c) /\ clis'[c].pc = "expired" /\ clis'[c].req = Null
      BY <1>3, <2>1
    <3>. QED  BY <1>1, <2>1, <3>1, <3>2 DEF Retires
  <2>2. CASE /\ ~ DeadlinePassed(c)
             /\ \E r \in Requests :
                  /\ reqs[r] = Idle
                  /\ Advance(r, [Idle EXCEPT !.pc = "sentPoll", !.cli = c,
                                             !.device = clis[c].device])
                  /\ Become(c, [clis[c] EXCEPT !.pc = "polling", !.req = r])
    <3>0. PICK i, d : i = Idle /\ d = clis[c].device
      OBVIOUS
    <3>1. PICK r \in Requests :
                  /\ reqs[r] = Idle
                  /\ Advance(r, [i EXCEPT !.pc = "sentPoll", !.cli = c, !.device = d])
                  /\ Become(c, [p EXCEPT !.pc = "polling", !.req = r])
      BY <1>2, <2>2, <3>0, Zenon
    <3>2. PICK u, v : /\ u = [i EXCEPT !.pc = "sentPoll", !.cli = c, !.device = d]
                      /\ v = [p EXCEPT !.pc = "polling", !.req = r]
      OBVIOUS
    <3>3. /\ u.pc = "sentPoll" /\ u.cli = c /\ u.device = d /\ u.answer = "none" /\ u.now = 0
          /\ v.pc = "polling" /\ v.req = r /\ v.device = p.device
          /\ v.interval = p.interval /\ v.lost = p.lost
      BY <3>0, <3>2 DEF Idle, Process
    <3>4. reqs'[r] = u /\ RestOf(r)
      BY <1>0, <3>1, <3>2, Advanced DEF RestOf
    <3>5. clis'[c] = v /\ RestBut(c)
      BY <1>0, <3>1, <3>2 DEF RestBut, Become, CliInv
    <3>6. clis[c].pc = "sleeping" /\ clis[c].wake <= now
      BY <1>0, <1>8 DEF Wake, Process
    <3>7. Asks(c, r)
      BY <1>1, <1>2, <2>2, <3>0, <3>1, <3>3, <3>4, <3>5, <3>6 DEF Asks
    <3>. QED  BY <3>7
  <2>. QED  BY <1>8, <2>1, <2>2 DEF Wake
<1>9. CASE Polled(c)
  <2>1. PICK r \in Requests : r = clis[c].req
    BY <1>4, <1>9 DEF Polled, Waits
  <2>2. /\ Waits(c) /\ Advance(r, Idle) /\ p.pc = "polling" /\ reqs[r].pc = "answered"
    BY <1>2, <1>9, <2>1 DEF Polled, Waits
  <2>3. reqs'[r] = Idle /\ RestOf(r)
    BY <1>0, <2>2, Advances DEF RestOf
  <2>4. ASSUME NEW u \in Process, u.device = p.device, u.lost = p.lost, Sleep(c, u),
               \/ reqs[r].answer = "authorization_pending" /\ u.interval = p.interval
               \/ reqs[r].answer = "slow_down" /\ u.interval >= p.interval + SlowStep
               \/ /\ reqs[r].answer = "unavailable"
                  /\ u.interval = Smaller(2 * p.interval, CliMaxInterval)
        PROVE  Retires(c) \/ Resumes(c, r)
    <3>1. /\ RestBut(c)
          /\ \/ /\ Sleeps(c) /\ clis'[c].device = u.device
                /\ clis'[c].interval = u.interval /\ clis'[c].lost = u.lost
             \/ clis'[c].pc = "expired" /\ clis'[c].req = Null
      BY <1>0, <2>4, Slumbers
    <3>2. CASE /\ Sleeps(c) /\ clis'[c].device = u.device
               /\ clis'[c].interval = u.interval /\ clis'[c].lost = u.lost
      BY <1>1, <1>2, <2>1, <2>2, <2>3, <2>4, <3>1, <3>2 DEF Resumes, BacksOff
    <3>3. CASE clis'[c].pc = "expired" /\ clis'[c].req = Null
      BY <1>5, <2>1, <2>2, <3>1, <3>3
    <3>. QED  BY <3>1, <3>2, <3>3
  <2>5. CASE \E pc \in {"failed", "denied", "expired"} : End(c, pc)
    BY <1>3, <1>5, <2>1, <2>2, <2>5
  <2>6. CASE reqs[r].answer = "authorization_pending" /\ Sleep(c, p)
    BY <2>4, <2>6
  <2>7. CASE reqs[r].answer = "slow_down" /\ Sleep(c, Obey(clis[c], reqs[r].interval))
    <3>1. PICK n \in Nat : n = reqs[r].interval
      BY <1>0 DEF Request
    <3>2. PICK u : u = [p EXCEPT !.interval = Larger(p.interval + SlowStep, n)]
      OBVIOUS
    <3>3. /\ u \in Process /\ u.device = p.device /\ u.lost = p.lost
          /\ u.interval >= p.interval + SlowStep
      BY <3>2 DEF Process, Larger
    <3>4. Sleep(c, u)
      BY <1>2, <2>7, <3>1, <3>2, Zenon DEF Obey
    <3>. QED  BY <2>4, <2>7, <3>3, <3>4
  <2>8. CASE reqs[r].answer = "unavailable" /\ Sleep(c, BackOff(clis[c]))
    <3>1. PICK u : u = [p EXCEPT !.interval = Smaller(2 * p.interval, CliMaxInterval)]
      OBVIOUS
    <3>2. /\ u \in Process /\ u.device = p.device /\ u.lost = p.lost
          /\ u.interval = Smaller(2 * p.interval, CliMaxInterval)
      BY <3>1 DEF Process, Smaller
    <3>3. Sleep(c, u)
      BY <1>2, <2>8, <3>1, Zenon DEF BackOff
    <3>. QED  BY <2>4, <2>8, <3>2, <3>3
  <2>9. CASE Become(c, [clis[c] EXCEPT !.pc = "saving", !.req = Null,
                                       !.token = reqs[clis[c].req].token])
    <3>1. PICK t : t = reqs[clis[c].req].token
      OBVIOUS
    <3>2. PICK u : u = [p EXCEPT !.pc = "saving", !.req = Null, !.token = t]
      OBVIOUS
    <3>3. u.pc = "saving" /\ u.req = Null
      BY <3>2 DEF Process
    <3>4. Become(c, u)
      BY <1>2, <2>9, <3>1, <3>2, Zenon
    <3>5. clis'[c] = u /\ RestBut(c)
      BY <1>0, <3>4 DEF RestBut, Become, CliInv
    <3>. QED  BY <1>5, <2>1, <2>2, <3>3, <3>5
  <2>. QED  BY <1>2, <1>9, <2>1, <2>5, <2>6, <2>7, <2>8, <2>9 DEF Polled
<1>10. CASE Save(c)
  <2>1. ~ Waits(c) /\ reqs' = reqs
    BY <1>10 DEF Save, Waits
  <2>2. RestBut(c) /\ clis'[c].pc \in {"in", "failed"} /\ clis'[c].req = Null
    <3>1. CASE End(c, "failed")
      BY <1>3, <3>1
    <3>2. CASE Become(c, [Out EXCEPT !.pc = "in", !.device = clis[c].device,
                                     !.token = clis[c].token])
      <4>1. PICK o, d, t : o = Out /\ d = clis[c].device /\ t = clis[c].token
        OBVIOUS
      <4>2. PICK u : u = [o EXCEPT !.pc = "in", !.device = d, !.token = t]
        OBVIOUS
      <4>3. u.pc = "in" /\ u.req = Null
        BY <4>1, <4>2 DEF Out
      <4>4. Become(c, u)
        BY <3>2, <4>1, <4>2, Zenon
      <4>. QED  BY <1>0, <4>3, <4>4 DEF RestBut, Become, CliInv
    <3>. QED  BY <1>10, <3>1, <3>2 DEF Save
  <2>. QED  BY <1>1, <2>1, <2>2 DEF Retires
<1>11. CASE Unreachable(c)
  <2>1. PICK r \in Requests : r = clis[c].req
    BY <1>4, <1>11 DEF Unreachable, Waits
  <2>2. /\ Waits(c)
        /\ \/ Advance(r, Idle)
           \/ reqs[r].pc # "answered" /\ Advance(r, [reqs[r] EXCEPT !.cli = Null])
    BY <1>11, <2>1 DEF Unreachable, Waits
  <2>3. CASE End(c, "failed")
    BY <1>3, <1>5, <2>1, <2>2, <2>3
  <2>4. CASE clis[c].pc = "polling" /\ Sleep(c, [BackOff(clis[c]) EXCEPT !.lost = TRUE])
    <3>1. PICK v : v = [p EXCEPT !.interval = Smaller(2 * p.interval, CliMaxInterval)]
      OBVIOUS
    <3>2. /\ v \in Process /\ v.device = p.device
          /\ v.interval = Smaller(2 * p.interval, CliMaxInterval)
      BY <3>1 DEF Process, Smaller
    <3>3. PICK u : u = [v EXCEPT !.lost = TRUE]
      OBVIOUS
    <3>4. u \in Process /\ u.device = p.device /\ u.lost = TRUE /\ u.interval = v.interval
      BY <3>2, <3>3 DEF Process
    <3>5. Sleep(c, u)
      BY <1>2, <2>4, <3>1, <3>3, Zenon DEF BackOff
    <3>6. /\ RestBut(c)
          /\ \/ /\ Sleeps(c) /\ clis'[c].device = u.device
                /\ clis'[c].interval = u.interval /\ clis'[c].lost = u.lost
             \/ clis'[c].pc = "expired" /\ clis'[c].req = Null
      BY <1>0, <3>4, <3>5, Slumbers
    <3>7. RestOf(r) /\ Freed(r)
      BY <1>0, <2>2, Freeing
    <3>8. reqs[r].pc = "answered" => reqs'[r] = Idle
      BY <1>0, <2>2, Advances
    <3>9. CASE /\ Sleeps(c) /\ clis'[c].device = u.device
               /\ clis'[c].interval = u.interval /\ clis'[c].lost = u.lost
      <4>1. Abandons(c, r)
        BY <1>1, <1>2, <2>1, <2>4, <3>2, <3>4, <3>6, <3>7, <3>8, <3>9 DEF Abandons, BacksOff
      <4>. QED  BY <4>1
    <3>10. CASE clis'[c].pc = "expired" /\ clis'[c].req = Null
      BY <1>5, <2>1, <2>2, <3>6, <3>10
    <3>. QED  BY <3>6, <3>9, <3>10
  <2>. QED  BY <1>11, <2>3, <2>4 DEF Unreachable
<1>12. CASE Cancel(c)
  <2>1. RestBut(c) /\ clis'[c].pc = "failed" /\ clis'[c].req = Null
    BY <1>3, <1>12 DEF Cancel
  <2>2. CASE Waits(c)
    <3>1. clis[c].req # Null
      BY <1>4, <2>2
    <3>. QED  BY <1>5, <1>12, <2>1, <2>2, <3>1 DEF Cancel
  <2>3. CASE ~ Waits(c)
    <3>1. clis[c].req = Null
      BY <2>3 DEF Linked
    <3>. QED  BY <1>1, <1>12, <2>1, <2>3, <3>1 DEF Cancel, Retires
  <2>. QED  BY <2>2, <2>3
<1>. QED  BY <1>6, <1>7, <1>8, <1>9, <1>10, <1>11, <1>12 DEF Run

\* Whatever happens is one of these steps.
LEMMA Moves ==
    ASSUME TypeInv, Linked, [Next]_vars
    PROVE  Motion
BY ServeMoves, OtherMoves, CliMoves DEF Next, Motion

\* What the types of requests, processes and rows come to
Typed ==
    /\ now \in Nat
    /\ \A r \in Requests :
         /\ reqs[r].cli \in Clis \cup {Null} /\ reqs[r].now \in Nat
         /\ reqs[r].interval \in Nat
         /\ reqs[r].pc \in Polls \/ reqs[r].answer = "granted" => reqs[r].device \in Devices
    /\ \A c \in Clis :
         /\ clis[c].interval \in Nat /\ clis[c].wake \in Nat /\ clis[c].deadline \in Nat
         /\ clis[c].lost \in BOOLEAN
         /\ Waits(c) => clis[c].req \in Requests
         /\ Holds(c) => clis[c].device \in Devices
    /\ \A d \in Devices :
         /\ authorizations[d].row \in Rows /\ authorizations[d].interval \in Nat
         /\ authorizations[d].nextPollAt \in Nat /\ authorizations[d].expiresAt \in Nat

\* Type correctness gives what the arguments below use of it.
LEMMA TypesAre == (TypeInv => Typed) /\ (TypeInv' => Typed')
<1>1. TypeInv => Typed
  BY DEF TypeInv, ServerInv, StoreType, RequestsOK, KnowsDevice, CliInv, CliOK, Typed,
         Request, Process, Authorization, Polls, WorkingPcs, Waits, Holds
<1>2. TypeInv' => Typed'
  BY DEF TypeInv, ServerInv, StoreType, RequestsOK, KnowsDevice, CliInv, CliOK, Typed,
         Request, Process, Authorization, Polls, WorkingPcs, Waits, Holds
<1>. QED  BY <1>1, <1>2

\* Every step keeps requests and CLIs linked.
LEMMA LinkedKept ==
    ASSUME Typed, Linked, Motion
    PROVE  Linked'
<1>. USE IdleIs
<1>0. Null \notin Clis /\ Null \notin Requests
  OBVIOUS
<1>1. CASE Elapses
  BY <1>1 DEF Elapses, Linked, Typed, Waits, ForStart, ForPoll
<1>2. ASSUME NEW r \in Requests, clis' = clis, RestOf(r), now' = now,
             reqs'[r].cli = reqs[r].cli, reqs'[r].now <= now,
             reqs'[r].pc # "answered" => reqs'[r].answer = "none",
             reqs[r].cli # Null =>
                \/ ForStart(reqs[r]) /\ ForStart(reqs'[r]) /\ clis[reqs[r].cli].pc = "starting"
                \/ /\ ForPoll(reqs[r]) /\ ForPoll(reqs'[r]) /\ clis[reqs[r].cli].pc = "polling"
                   /\ reqs'[r].device = reqs[r].device
      PROVE  Linked'
  BY <1>2 DEF Linked, RestOf, Typed, Waits, ForStart, ForPoll
<1>3. ASSUME NEW r \in Requests, Apart(r) PROVE Linked'
  BY <1>2, <1>3 DEF Apart, Linked
<1>4. ASSUME NEW r \in Requests, Arrives(r) PROVE Linked'
  BY <1>2, <1>4 DEF Arrives, Linked, Typed, ForStart, ForPoll, Polls
<1>5. ASSUME NEW r \in Requests, Reads(r) \/ Replies(r) \/ Takes(r) \/ Misses(r) \/ Slows(r)
      PROVE Linked'
  <2>1. /\ clis' = clis /\ RestOf(r) /\ now' = now /\ reqs'[r].cli = reqs[r].cli
        /\ reqs'[r].now <= now /\ reqs'[r].device = reqs[r].device
    BY <1>5 DEF Reads, Replies, Takes, Misses, Slows, Within, Linked
  <2>2. reqs'[r].pc # "answered" => reqs'[r].answer = "none"
    BY <1>5 DEF Reads, Replies, Takes, Misses, Slows, Linked
  <2>3. ASSUME reqs[r].cli # Null
        PROVE \/ ForStart(reqs[r]) /\ ForStart(reqs'[r]) /\ clis[reqs[r].cli].pc = "starting"
              \/ ForPoll(reqs[r]) /\ ForPoll(reqs'[r]) /\ clis[reqs[r].cli].pc = "polling"
    <3>1. CASE Reads(r) \/ Takes(r) \/ Misses(r) \/ Slows(r)
      BY <2>3, <3>1 DEF Reads, Takes, Misses, Slows, Linked, ForStart, ForPoll, Polls
    <3>2. CASE Replies(r)
      BY <2>3, <3>2 DEF Replies, Linked, ForStart, ForPoll, Polls
    <3>. QED  BY <1>5, <3>1, <3>2
  <2>. QED  BY <1>2, <2>1, <2>2, <2>3
<1>6. ASSUME NEW r \in Requests, NEW d \in Devices, Grants(r, d) PROVE Linked'
  BY <1>2, <1>6 DEF Grants, Within, Linked, ForStart, ForPoll, Polls
<1>7. ASSUME NEW c \in Clis, NEW r \in Requests, Begins(c, r) \/ Asks(c, r) PROVE Linked'
  <2>1. /\ RestOf(r) /\ RestBut(c) /\ now' = now /\ ~ Waits(c) /\ reqs[r].cli = Null
        /\ reqs'[r].cli = c /\ reqs'[r].answer = "none" /\ reqs'[r].now = 0
        /\ clis'[c].req = r
    BY <1>7 DEF Begins, Asks, Waits
  <2>2. \/ clis'[c].pc = "starting" /\ ForStart(reqs'[r])
        \/ clis'[c].pc = "polling" /\ ForPoll(reqs'[r]) /\ clis'[c].device = reqs'[r].device
    BY <1>7 DEF Begins, Asks, ForStart, ForPoll, Polls
  <2>3. \A s \in Requests : reqs[s].cli # c
    BY <1>0, <2>1 DEF Linked, Waits
  <2>. QED  BY <1>0, <2>1, <2>2, <2>3 DEF Linked, RestOf, RestBut, Typed, Waits, ForStart, ForPoll
<1>8. ASSUME NEW c \in Clis, NEW r \in Requests, RestOf(r), RestBut(c), now' = now,
             Waits(c), clis[c].req = r, Freed(r), clis'[c].req = Null,
             clis'[c].pc \notin {"starting", "polling"}
      PROVE  Linked'
  <2>1. reqs[r].cli = c
    BY <1>8 DEF Linked
  <2>2. /\ reqs'[r].cli = Null /\ reqs'[r].now <= now
        /\ reqs'[r].pc # "answered" => reqs'[r].answer = "none"
    BY <1>8 DEF Freed, Linked, Typed
  <2>3. \A s \in Requests : s # r => reqs[s].cli # c
    BY <1>8 DEF Linked
  <2>. QED  BY <1>0, <1>8, <2>1, <2>2, <2>3 DEF Linked, RestOf, RestBut, Typed, Waits, ForStart, ForPoll
<1>9. ASSUME NEW c \in Clis, NEW r \in Requests, Accepts(c, r) \/ Resumes(c, r) \/ Abandons(c, r)
      PROVE  Linked'
  BY <1>8, <1>9 DEF Accepts, Resumes, Abandons, Sleeps, Freed, Waits
<1>10. ASSUME NEW c \in Clis, Retires(c) PROVE Linked'
  <2>1. CASE Waits(c)
    BY <1>8, <1>10, <2>1 DEF Retires, Typed
  <2>2. CASE ~ Waits(c)
    <3>1. /\ reqs' = reqs /\ RestBut(c) /\ now' = now /\ clis'[c].req = Null
          /\ clis'[c].pc \notin {"starting", "polling"}
      BY <1>10, <2>2 DEF Retires
    <3>2. \A s \in Requests : reqs[s].cli # c
      BY <1>0, <2>2 DEF Linked, Waits
    <3>. QED  BY <1>0, <3>1, <3>2 DEF Linked, RestBut, Typed, Waits, ForStart, ForPoll
  <2>. QED  BY <2>1, <2>2
<1>. QED  BY <1>1, <1>3, <1>4, <1>5, <1>6, <1>7, <1>9, <1>10 DEF Motion

-------------------------------------------------------------------------------
(* Who holds a device *)

Filed(d)    == authorizations[d].row # "unused"
Polling(r) == reqs[r].pc \in Polls
Ready(r)   == reqs[r].answer = "granted"

\* A device is granted once, to one login, and only the polls of that login are
\* about it; a poll that no CLI waits for was lost by the CLI that holds its device.
Held ==
    /\ \A c \in Clis : Holds(c) => Filed(clis[c].device)
    /\ \A r \in Requests : Polling(r) \/ Ready(r) => Filed(reqs[r].device)
    /\ \A b, c \in Clis :
         Holds(b) /\ Holds(c) /\ clis[b].device = clis[c].device => b = c
    /\ \A r \in Requests, c \in Clis :
         Holds(c) /\ reqs[r].device = clis[c].device =>
             /\ ~ Ready(r)
             /\ Polling(r) /\ reqs[r].cli = Null => clis[c].lost
    /\ \A r, s \in Requests :
         Ready(r) /\ reqs[s].device = reqs[r].device =>
             /\ ~ Polling(s)
             /\ Ready(s) => s = r

\* No row comes back unused.
LEMMA StaysFiled ==
    ASSUME Typed, Motion, NEW d \in Devices, Filed(d)
    PROVE  Filed(d)'
<1>1. CASE Elapses
  BY <1>1 DEF Elapses, Filed
<1>2. ASSUME NEW r \in Requests, Takes(r) \/ Slows(r) PROVE Filed(d)'
  BY <1>2 DEF Takes, Slows, RowsBut, RowKept, Filed
<1>3. ASSUME NEW r \in Requests, NEW e \in Devices, Grants(r, e) PROVE Filed(d)'
  BY <1>3 DEF Grants, RowsBut, RowKept, Filed
<1>4. CASE RowsKept
  BY <1>4 DEF RowsKept, RowKept, Filed
<1>5. ASSUME NEW r \in Requests, Apart(r) \/ Arrives(r) \/ Reads(r) \/ Replies(r) \/ Misses(r)
      PROVE  RowsKept
  BY <1>5 DEF Apart, Arrives, Reads, Replies, Misses
<1>6. ASSUME NEW c \in Clis,
             \/ Retires(c)
             \/ \E r \in Requests : \/ Begins(c, r) \/ Accepts(c, r) \/ Asks(c, r)
                                    \/ Resumes(c, r) \/ Abandons(c, r)
      PROVE  RowsKept
  BY <1>6 DEF Retires, Begins, Accepts, Asks, Resumes, Abandons
<1>. QED  BY <1>1, <1>2, <1>3, <1>4, <1>5, <1>6 DEF Motion

\* A step after which there is nothing new to hold
LEMMA NothingNew ==
    ASSUME Typed, Held, \A d \in Devices : Filed(d) => Filed(d)',
           \A c \in Clis : Holds(c)' => /\ Holds(c) /\ clis'[c].device = clis[c].device
                                        /\ clis[c].lost => clis'[c].lost,
           \A r \in Requests :
              Polling(r)' => /\ Polling(r) /\ reqs'[r].device = reqs[r].device
                             /\ reqs'[r].cli = Null =>
                                  \/ reqs[r].cli = Null
                                  \/ \A c \in Clis :
                                       Holds(c)' /\ clis'[c].device = reqs[r].device
                                          => clis'[c].lost,
           \A r \in Requests :
              Ready(r)' => Ready(r) /\ reqs'[r].device = reqs[r].device
    PROVE  Held'
<1>1. \A c \in Clis : Holds(c)' => Filed(clis[c].device)'
  BY DEF Held, Typed
<1>2. \A r \in Requests : Polling(r)' \/ Ready(r)' => Filed(reqs[r].device)'
  BY DEF Held, Typed, Polling, Ready
<1>3. \A b, c \in Clis :
         Holds(b)' /\ Holds(c)' /\ clis'[b].device = clis'[c].device => b = c
  BY DEF Held
<1>4. \A r \in Requests, c \in Clis :
         Holds(c)' /\ reqs'[r].device = clis'[c].device =>
             /\ ~ Ready(r)'
             /\ Polling(r)' /\ reqs'[r].cli = Null => clis'[c].lost
  BY DEF Held
<1>5. \A r, s \in Requests :
         Ready(r)' /\ reqs'[s].device = reqs'[r].device =>
             /\ ~ Polling(s)'
             /\ Ready(s)' => s = r
  BY DEF Held
<1>. QED  BY <1>1, <1>2, <1>3, <1>4, <1>5 DEF Held

\* Every step keeps a device with one login and its polls.
LEMMA HeldKept ==
    ASSUME Typed, Linked, Held, Motion
    PROVE  Held'
<1>. USE IdleIs
<1>0. (\A d \in Devices : Filed(d) => Filed(d)') /\ Null \notin Clis
  BY StaysFiled
<1>1. CASE Elapses
  BY <1>0, <1>1, NothingNew DEF Elapses, Holds, Polling, Ready
<1>2. ASSUME NEW r \in Requests, Apart(r) \/ Arrives(r) PROVE Held'
  <2>1. clis' = clis /\ RestOf(r) /\ ~ Ready(r)' /\ reqs'[r].cli = reqs[r].cli
    BY <1>2 DEF Apart, Arrives, Ready, Linked
  <2>2. Polling(r)' => Polling(r) /\ reqs'[r].device = reqs[r].device
    BY <1>2 DEF Apart, Arrives, Polling, Polls
  <2>. QED  BY <1>0, <2>1, <2>2, NothingNew DEF RestOf, Holds, Polling, Ready
<1>3. ASSUME NEW r \in Requests, Reads(r) \/ Replies(r) \/ Takes(r) \/ Misses(r) \/ Slows(r)
      PROVE Held'
  <2>1. clis' = clis /\ RestOf(r) /\ reqs'[r].cli = reqs[r].cli /\ reqs'[r].device = reqs[r].device
    BY <1>3 DEF Reads, Replies, Takes, Misses, Slows, Within
  <2>2. ~ Ready(r)' /\ (Polling(r)' => Polling(r))
    BY <1>3 DEF Reads, Replies, Takes, Misses, Slows, Ready, Polling, Polls, Linked
  <2>. QED  BY <1>0, <2>1, <2>2, NothingNew DEF RestOf, Holds, Polling, Ready
<1>4. ASSUME NEW r \in Requests, NEW d \in Devices, Grants(r, d) PROVE Held'
  <2>1. /\ clis' = clis /\ RestOf(r) /\ ~ Filed(d) /\ Filed(d)' /\ reqs'[r].device = d
        /\ Ready(r)' /\ ~ Polling(r)'
    BY <1>4 DEF Grants, Within, Filed, Ready, Polling, Polls
  <2>2. /\ \A c \in Clis : Holds(c)' => Holds(c) /\ clis[c].device # d
        /\ \A s \in Requests : Polling(s) \/ Ready(s) => reqs[s].device # d
    BY <2>1 DEF Held, Holds
  <2>3. \A s \in Requests : s # r => /\ Polling(s)' = Polling(s) /\ Ready(s)' = Ready(s)
                                     /\ reqs'[s] = reqs[s]
    BY <2>1 DEF RestOf, Polling, Ready
  <2>4. \A c \in Clis : Holds(c)' => Filed(clis[c].device)'
    BY <1>0, <2>1, <2>2 DEF Held, Typed
  <2>5. \A s \in Requests : Polling(s)' \/ Ready(s)' => Filed(reqs[s].device)'
    <3>1. Filed(reqs[r].device)'
      BY <2>1 DEF Filed
    <3>2. ASSUME NEW s \in Requests, s # r, Polling(s)' \/ Ready(s)'
          PROVE  Filed(reqs[s].device)'
      <4>1. Filed(reqs[s].device) /\ reqs[s].device \in Devices
        BY <2>3, <3>2 DEF Held, Typed, Polling, Ready
      <4>2. Filed(reqs[s].device)' <=> authorizations'[reqs[s].device].row # "unused"
        BY <2>3, <3>2 DEF Filed
      <4>. QED  BY <1>0, <4>1, <4>2 DEF Filed
    <3>. QED  BY <3>1, <3>2
  <2>6. \A b, c \in Clis :
           Holds(b)' /\ Holds(c)' /\ clis'[b].device = clis'[c].device => b = c
    BY <2>1, <2>2 DEF Held
  <2>7. \A s \in Requests, c \in Clis :
           Holds(c)' /\ reqs'[s].device = clis'[c].device =>
               /\ ~ Ready(s)'
               /\ Polling(s)' /\ reqs'[s].cli = Null => clis'[c].lost
    BY <2>1, <2>2, <2>3 DEF Held
  <2>8. \A t, s \in Requests :
           Ready(t)' /\ reqs'[s].device = reqs'[t].device =>
               /\ ~ Polling(s)'
               /\ Ready(s)' => s = t
    BY <2>1, <2>2, <2>3 DEF Held
  <2>. QED  BY <2>4, <2>5, <2>6, <2>7, <2>8 DEF Held
<1>5. ASSUME NEW c \in Clis, NEW r \in Requests, Begins(c, r) PROVE Held'
  <2>2. RestOf(r) /\ RestBut(c) /\ ~ Holds(c)' /\ ~ Polling(r)' /\ ~ Ready(r)'
    BY <1>5 DEF Begins, Holds, Polling, Polls, Ready
  <2>. QED  BY <1>0, <2>2, NothingNew DEF RestOf, RestBut, Holds, Polling, Ready
<1>6. ASSUME NEW c \in Clis, NEW r \in Requests, Accepts(c, r) PROVE Held'
  <2>1. PICK d : d = reqs[r].device
    OBVIOUS
  <2>2. /\ RestOf(r) /\ RestBut(c) /\ Ready(r) /\ ~ Ready(r)' /\ ~ Polling(r)' /\ ~ Holds(c)
        /\ Holds(c)' /\ clis'[c].device = d /\ d \in Devices /\ Filed(d) /\ Filed(d)'
    BY <1>0, <1>6, <2>1
       DEF Accepts, Sleeps, Ready, Polling, Polls, Holds, Held, Typed
  <2>3. /\ \A b \in Clis : b # c => Holds(b)' = Holds(b) /\ clis'[b] = clis[b]
        /\ \A s \in Requests : s # r => /\ Polling(s)' = Polling(s) /\ Ready(s)' = Ready(s)
                                        /\ reqs'[s] = reqs[s]
    BY <2>2 DEF RestOf, RestBut, Holds, Polling, Ready
  <2>4. /\ \A b \in Clis : Holds(b) => clis[b].device # d
        /\ \A s \in Requests : reqs[s].device = d => ~ Polling(s) /\ (Ready(s) => s = r)
    BY <2>1, <2>2 DEF Held
  <2>5. \A b \in Clis : Holds(b)' => Filed(clis[b].device)'
    <3>1. ASSUME NEW b \in Clis, b # c, Holds(b)' PROVE Filed(clis[b].device)'
      <4>1. Filed(clis[b].device) /\ clis[b].device \in Devices
        BY <2>3, <3>1 DEF Held, Typed
      <4>2. Filed(clis[b].device)' <=> authorizations'[clis[b].device].row # "unused"
        BY <2>3, <3>1 DEF Filed
      <4>. QED  BY <1>0, <4>1, <4>2 DEF Filed
    <3>2. Filed(clis[c].device)'
      BY <2>2 DEF Filed
    <3>. QED  BY <3>1, <3>2
  <2>6. \A s \in Requests : Polling(s)' \/ Ready(s)' => Filed(reqs[s].device)'
    <3>1. ASSUME NEW s \in Requests, s # r, Polling(s)' \/ Ready(s)'
          PROVE  Filed(reqs[s].device)'
      <4>1. Filed(reqs[s].device) /\ reqs[s].device \in Devices
        BY <2>3, <3>1 DEF Held, Typed, Polling, Ready
      <4>2. Filed(reqs[s].device)' <=> authorizations'[reqs[s].device].row # "unused"
        BY <2>3, <3>1 DEF Filed
      <4>. QED  BY <1>0, <4>1, <4>2 DEF Filed
    <3>. QED  BY <2>2, <3>1
  <2>7. \A a, b \in Clis :
           Holds(a)' /\ Holds(b)' /\ clis'[a].device = clis'[b].device => a = b
    BY <2>2, <2>3, <2>4 DEF Held
  <2>8. \A s \in Requests, b \in Clis :
           Holds(b)' /\ reqs'[s].device = clis'[b].device =>
               /\ ~ Ready(s)'
               /\ Polling(s)' /\ reqs'[s].cli = Null => clis'[b].lost
    BY <2>2, <2>3, <2>4 DEF Held
  <2>9. \A t, s \in Requests :
           Ready(t)' /\ reqs'[s].device = reqs'[t].device =>
               /\ ~ Polling(s)'
               /\ Ready(s)' => s = t
    BY <2>2, <2>3, <2>4 DEF Held
  <2>. QED  BY <2>5, <2>6, <2>7, <2>8, <2>9 DEF Held
<1>7. ASSUME NEW c \in Clis, NEW r \in Requests, Asks(c, r) PROVE Held'
  <2>1. PICK d : d = clis[c].device
    OBVIOUS
  <2>2. /\ RestOf(r) /\ RestBut(c) /\ ~ Ready(r) /\ ~ Ready(r)' /\ Polling(r)' /\ Holds(c)
        /\ reqs'[r].cli = c /\ reqs'[r].device = d
        /\ Holds(c)' /\ clis'[c].device = d /\ clis'[c].lost = clis[c].lost
        /\ d \in Devices /\ Filed(d) /\ Filed(d)'
    BY <1>0, <1>7, <2>1
       DEF Asks, Ready, Polling, Polls, Holds, Held, Typed
  <2>3. /\ \A b \in Clis : /\ Holds(b)' = Holds(b) /\ clis'[b].device = clis[b].device
                           /\ clis'[b].lost = clis[b].lost
        /\ \A s \in Requests : s # r => /\ Polling(s)' = Polling(s) /\ Ready(s)' = Ready(s)
                                        /\ reqs'[s] = reqs[s]
    BY <2>1, <2>2 DEF RestOf, RestBut, Holds, Polling, Ready
  <2>4. \A b \in Clis : Holds(b)' => Filed(clis[b].device)'
    <3>1. ASSUME NEW b \in Clis, Holds(b)' PROVE Filed(clis[b].device)'
      <4>1. Filed(clis[b].device) /\ clis[b].device \in Devices
        BY <2>3, <3>1 DEF Held, Typed
      <4>2. Filed(clis[b].device)' <=> authorizations'[clis[b].device].row # "unused"
        BY <2>3, <3>1 DEF Filed
      <4>. QED  BY <1>0, <4>1, <4>2 DEF Filed
    <3>. QED  BY <3>1
  <2>5. \A s \in Requests : Polling(s)' \/ Ready(s)' => Filed(reqs[s].device)'
    <3>1. ASSUME NEW s \in Requests, s # r, Polling(s)' \/ Ready(s)'
          PROVE  Filed(reqs[s].device)'
      <4>1. Filed(reqs[s].device) /\ reqs[s].device \in Devices
        BY <2>3, <3>1 DEF Held, Typed, Polling, Ready
      <4>2. Filed(reqs[s].device)' <=> authorizations'[reqs[s].device].row # "unused"
        BY <2>3, <3>1 DEF Filed
      <4>. QED  BY <1>0, <4>1, <4>2 DEF Filed
    <3>2. Filed(reqs[r].device)'
      BY <2>2 DEF Filed
    <3>. QED  BY <3>1, <3>2
  <2>6. \A a, b \in Clis :
           Holds(a)' /\ Holds(b)' /\ clis'[a].device = clis'[b].device => a = b
    BY <2>3 DEF Held
  <2>7. \A s \in Requests, b \in Clis :
           Holds(b)' /\ reqs'[s].device = clis'[b].device =>
               /\ ~ Ready(s)'
               /\ Polling(s)' /\ reqs'[s].cli = Null => clis'[b].lost
    BY <1>0, <2>2, <2>3 DEF Held
  <2>8. \A t, s \in Requests :
           Ready(t)' /\ reqs'[s].device = reqs'[t].device =>
               /\ ~ Polling(s)'
               /\ Ready(s)' => s = t
    BY <2>1, <2>2, <2>3 DEF Held
  <2>. QED  BY <2>4, <2>5, <2>6, <2>7, <2>8 DEF Held
<1>8. ASSUME NEW c \in Clis, NEW r \in Requests, Resumes(c, r) \/ Abandons(c, r) PROVE Held'
  <2>1. /\ RestOf(r) /\ RestBut(c) /\ Holds(c) /\ clis'[c].device = clis[c].device
        /\ clis[c].lost => clis'[c].lost
    BY <1>8 DEF Resumes, Abandons, Holds
  <2>2. clis[c].device = reqs[r].device
    BY <1>8 DEF Resumes, Abandons, Linked, Waits
  <2>3. \/ ~ Polling(r)' /\ ~ Ready(r)'
        \/ /\ clis'[c].lost /\ Polling(r)' = Polling(r) /\ Ready(r)' = Ready(r)
           /\ reqs'[r].device = reqs[r].device
    BY <1>8 DEF Resumes, Abandons, Freed, Polling, Polls, Ready
  <2>4. \A b \in Clis : Holds(b)' /\ clis'[b].device = reqs[r].device => b = c
    BY <2>1, <2>2 DEF Held, RestBut, Holds
  <2>. QED  BY <1>0, <2>1, <2>3, <2>4, NothingNew DEF RestOf, RestBut, Holds, Polling, Ready
<1>9. ASSUME NEW c \in Clis, Retires(c) PROVE Held'
  <2>1. RestBut(c) /\ ~ Holds(c)'
    BY <1>9 DEF Retires, Holds
  <2>2. CASE ~ Waits(c)
    BY <1>0, <1>9, <2>1, <2>2, NothingNew DEF Retires, RestBut, Holds, Polling, Ready
  <2>3. ASSUME Waits(c), NEW r, r = clis[c].req PROVE Held'
    <3>1. r \in Requests /\ reqs[r].cli = c /\ RestOf(r) /\ Freed(r)
      BY <1>9, <2>3 DEF Linked, Typed, Retires
    <3>2. Polling(r) => Holds(c) /\ clis[c].device = reqs[r].device
      BY <1>0, <3>1 DEF Linked, Polling, Polls, ForStart, Holds
    <3>3. Polling(r) => \A b \in Clis : Holds(b)' => clis'[b].device # reqs[r].device
      BY <2>1, <3>2 DEF Held, RestBut, Holds
    <3>4. \/ ~ Polling(r)' /\ ~ Ready(r)'
          \/ /\ Polling(r)' = Polling(r) /\ Ready(r)' = Ready(r)
             /\ reqs'[r].device = reqs[r].device
      BY <3>1 DEF Freed, Polling, Polls, Ready
    <3>. QED  BY <1>0, <2>1, <3>1, <3>3, <3>4, NothingNew
              DEF RestOf, RestBut, Holds, Polling, Ready
  <2>. QED  BY <2>2, <2>3
<1>. QED  BY <1>1, <1>2, <1>3, <1>4, <1>5, <1>6, <1>7, <1>8, <1>9 DEF Motion

-------------------------------------------------------------------------------
(* A login that has lost no answer polls in time *)

Fresh(r) ==
    LET a == authorizations[reqs[r].device] IN
    /\ a.interval = PollInterval /\ a.nextPollAt <= now + PollInterval
    /\ reqs[r].cli # Null => reqs[r].interval = PollInterval

Composed(c) ==
    LET a == authorizations[clis[c].device] IN
    /\ a.interval = PollInterval /\ a.nextPollAt <= now + PollInterval
    /\ clis[c].interval >= PollInterval
    /\ clis[c].pc = "sleeping" =>
         clis[c].wake >= a.nextPollAt \/ clis[c].wake >= clis[c].deadline

Timely(r) ==
    LET q == reqs[r]  a == authorizations[q.device] IN
    /\ q.pc = "sentPoll" => now >= a.nextPollAt
    /\ q.pc \in {"select", "slot"} => q.now >= a.nextPollAt
    /\ q.pc = "slot" => a.expiresAt > q.now
    /\ q.pc = "slow" \/ q.answer = "slow_down" => a.row = "deleted"

Unhurried ==
    /\ \A r \in Requests : Ready(r) => Fresh(r)
    /\ \A c \in Clis : Holds(c) /\ ~ clis[c].lost => Composed(c)
    /\ \A r \in Requests : reqs[r].cli # Null /\ ~ clis[reqs[r].cli].lost => Timely(r)

\* A row that at most is swept
Still(d) ==
    /\ \/ authorizations'[d].row = authorizations[d].row
       \/ authorizations[d].row = "present" /\ authorizations'[d].row = "deleted"
    /\ authorizations'[d].interval = authorizations[d].interval
    /\ authorizations'[d].nextPollAt = authorizations[d].nextPollAt
    /\ authorizations'[d].expiresAt = authorizations[d].expiresAt

\* The row of a used device changes by its polls alone.
LEMMA StillUnlessPolled ==
    ASSUME Typed, Motion, NEW d \in Devices, Filed(d)
    PROVE  \/ Still(d)
           \/ \E r \in Requests : reqs[r].device = d /\ (Takes(r) \/ Slows(r))
<1>1. CASE Elapses
  BY <1>1 DEF Elapses, Still
<1>2. ASSUME NEW r \in Requests, Takes(r) \/ Slows(r), reqs[r].device # d PROVE Still(d)
  BY <1>2 DEF Takes, Slows, RowsBut, RowKept, Still
<1>3. ASSUME NEW r \in Requests, NEW e \in Devices, Grants(r, e) PROVE Still(d)
  BY <1>3 DEF Grants, RowsBut, RowKept, Filed, Still
<1>4. CASE RowsKept
  BY <1>4 DEF RowsKept, RowKept, Still
<1>5. ASSUME NEW r \in Requests, Apart(r) \/ Arrives(r) \/ Reads(r) \/ Replies(r) \/ Misses(r)
      PROVE  RowsKept
  BY <1>5 DEF Apart, Arrives, Reads, Replies, Misses
<1>6. ASSUME NEW c \in Clis,
             \/ Retires(c)
             \/ \E r \in Requests : \/ Begins(c, r) \/ Accepts(c, r) \/ Asks(c, r)
                                    \/ Resumes(c, r) \/ Abandons(c, r)
      PROVE  RowsKept
  BY <1>6 DEF Retires, Begins, Accepts, Asks, Resumes, Abandons
<1>. QED  BY <1>1, <1>2, <1>3, <1>4, <1>5, <1>6 DEF Motion

\* What was granted, and what is held by a CLI that has lost nothing, is polled
\* by nobody else.
LEMMA Undisturbed ==
    ASSUME Typed, Linked, Held, Unhurried, Motion
    PROVE  /\ \A r \in Requests : Ready(r) => Still(reqs[r].device)
           /\ \A c \in Clis : Holds(c) /\ ~ clis[c].lost =>
                 \/ Still(clis[c].device)
                 \/ Waits(c) /\ Takes(clis[c].req) /\ reqs[clis[c].req].device = clis[c].device
<1>1. ASSUME NEW r \in Requests, Ready(r) PROVE Still(reqs[r].device)
  <2>1. reqs[r].device \in Devices /\ Filed(reqs[r].device)
    BY <1>1 DEF Typed, Held, Ready
  <2>2. \A s \in Requests : reqs[s].device = reqs[r].device => ~ Polling(s)
    BY <1>1 DEF Held
  <2>. QED  BY <2>1, <2>2, StillUnlessPolled DEF Takes, Slows, Polling, Polls
<1>2. ASSUME NEW c \in Clis, Holds(c), ~ clis[c].lost
      PROVE  \/ Still(clis[c].device)
             \/ Waits(c) /\ Takes(clis[c].req) /\ reqs[clis[c].req].device = clis[c].device
  <2>1. clis[c].device \in Devices /\ Filed(clis[c].device)
    BY <1>2 DEF Typed, Held
  <2>2. ASSUME NEW s \in Requests, reqs[s].device = clis[c].device, Takes(s) \/ Slows(s)
        PROVE  Waits(c) /\ clis[c].req = s /\ Takes(s)
    <3>1. Polling(s) /\ reqs[s].cli # Null
      BY <1>2, <2>2 DEF Held, Takes, Slows, Polling, Polls
    <3>2. reqs[s].cli \in Clis
      BY <3>1 DEF Typed
    <3>3. /\ clis[reqs[s].cli].req = s /\ clis[reqs[s].cli].pc = "polling"
          /\ clis[reqs[s].cli].device = reqs[s].device
      BY <3>1 DEF Linked, ForStart, Polling, Polls
    <3>4. reqs[s].cli = c
      BY <1>2, <2>2, <3>2, <3>3 DEF Held, Holds
    <3>5. ~ Slows(s)
      BY <1>2, <3>1, <3>4 DEF Unhurried, Timely, Slows
    <3>. QED  BY <2>2, <3>3, <3>4, <3>5 DEF Waits
  <2>. QED  BY <2>1, <2>2, StillUnlessPolled
<1>. QED  BY <1>1, <1>2

\* What holds of a request or a CLI that a step does not touch goes on holding.
LEMMA Untouched ==
    ASSUME Typed, now' \in {now, now + 1}
    PROVE  /\ \A r \in Requests :
                Fresh(r) /\ reqs'[r] = reqs[r] /\ Ready(r) /\ Still(reqs[r].device) => Fresh(r)'
           /\ \A c \in Clis :
                Composed(c) /\ clis'[c] = clis[c] /\ Holds(c) /\ Still(clis[c].device)
                   => Composed(c)'
           /\ \A r \in Requests :
                Timely(r) /\ reqs'[r] = reqs[r] /\ Still(reqs[r].device) => Timely(r)'
<1>1. ASSUME NEW r \in Requests,
             Fresh(r), reqs'[r] = reqs[r], Ready(r), Still(reqs[r].device)
      PROVE  Fresh(r)'
  <2>1. reqs[r].device \in Devices
    BY <1>1 DEF Typed, Ready
  <2>. QED  BY <1>1, <2>1 DEF Fresh, Still, Typed
<1>2. ASSUME NEW c \in Clis,
             Composed(c), clis'[c] = clis[c], Holds(c), Still(clis[c].device)
      PROVE  Composed(c)'
  <2>1. clis[c].device \in Devices
    BY <1>2 DEF Typed
  <2>. QED  BY <1>2, <2>1 DEF Composed, Still, Typed
<1>3. ASSUME NEW r \in Requests,
             Timely(r), reqs'[r] = reqs[r], Still(reqs[r].device)
      PROVE  Timely(r)'
  <2>1. CASE reqs[r].pc = "sentPoll"
    <3>1. reqs[r].device \in Devices
      BY <2>1 DEF Typed, Polls
    <3>. QED  BY <1>3, <2>1, <3>1 DEF Timely, Still, Typed
  <2>2. CASE reqs[r].pc # "sentPoll"
    BY <1>3, <2>2 DEF Timely, Still
  <2>. QED  BY <2>1, <2>2
<1>. QED  BY <1>1, <1>2, <1>3

\* The step of one request: whatever is not about it stays in time.
LEMMA OthersInTime ==
    ASSUME Typed, Linked, Held, Unhurried, Motion,
           NEW r \in Requests, RestOf(r), clis' = clis, now' = now,
           reqs'[r].cli = reqs[r].cli,
           Ready(r)' => Fresh(r)',
           reqs'[r].cli # Null /\ ~ clis[reqs'[r].cli].lost => Timely(r)',
           \A c \in Clis : Holds(c) /\ ~ clis[c].lost /\ Takes(r) /\ clis[c].req = r
              /\ reqs[r].device = clis[c].device => Composed(c)'
    PROVE  Unhurried'
<1>1. ASSUME NEW s \in Requests, Ready(s)' PROVE Fresh(s)'
  <2>1. CASE s = r
    BY <1>1, <2>1
  <2>2. CASE s # r
    <3>1. reqs'[s] = reqs[s] /\ Ready(s) /\ Fresh(s)
      BY <1>1, <2>2 DEF RestOf, Ready, Unhurried
    <3>. QED  BY <3>1, Undisturbed, Untouched
  <2>. QED  BY <2>1, <2>2
<1>2. ASSUME NEW c \in Clis, Holds(c)', ~ clis'[c].lost PROVE Composed(c)'
  <2>1. Holds(c) /\ ~ clis[c].lost /\ clis'[c] = clis[c] /\ Composed(c)
    BY <1>2 DEF Holds, Unhurried
  <2>2. CASE Still(clis[c].device)
    BY <2>1, <2>2, Untouched
  <2>3. ASSUME Waits(c), Takes(clis[c].req), reqs[clis[c].req].device = clis[c].device
        PROVE  Composed(c)'
    <3>1. clis[c].req \in Requests
      BY <2>3 DEF Typed
    <3>2. clis[c].req = r
      BY <2>3, <3>1 DEF Takes, RestOf
    <3>. QED  BY <2>1, <2>3, <3>2
  <2>. QED  BY <2>1, <2>2, <2>3, Undisturbed
<1>3. ASSUME NEW s \in Requests, reqs'[s].cli # Null, ~ clis'[reqs'[s].cli].lost
      PROVE  Timely(s)'
  <2>1. CASE s = r
    BY <1>3, <2>1
  <2>2. ASSUME s # r, NEW c, c = reqs[s].cli PROVE Timely(s)'
    <3>1. reqs'[s] = reqs[s] /\ c \in Clis /\ c # Null /\ ~ clis[c].lost /\ Timely(s)
      BY <1>3, <2>2 DEF RestOf, Unhurried, Typed
    <3>2. CASE ~ Polling(s) /\ reqs[s].answer # "slow_down"
      BY <3>1, <3>2 DEF Timely, Polling, Polls
    <3>3. CASE Polling(s) \/ reqs[s].answer = "slow_down"
      <4>1. Holds(c) /\ clis[c].device = reqs[s].device /\ clis[c].req = s
        BY <2>2, <3>1, <3>3 DEF Linked, ForStart, Polling, Polls, Holds
      <4>2. ~ Takes(s)
        BY <3>1 DEF Takes
      <4>. QED  BY <3>1, <4>1, <4>2, Undisturbed, Untouched
    <3>. QED  BY <3>2, <3>3
  <2>. QED  BY <2>1, <2>2
<1>. QED  BY <1>1, <1>2, <1>3 DEF Unhurried

\* The step of one CLI, which leaves the rows alone: likewise.
LEMMA OthersInPace ==
    ASSUME Typed, Linked, Unhurried, RowsKept,
           NEW c \in Clis, NEW r, RestOf(r), RestBut(c), now' = now,
           \A s \in Requests : s # r => reqs[s].cli # c,
           Holds(c)' /\ ~ clis'[c].lost => Composed(c)',
           r \in Requests =>
              /\ Ready(r)' => /\ Ready(r) /\ reqs'[r].device = reqs[r].device
                              /\ reqs'[r].cli = Null
              /\ reqs'[r].cli # Null =>
                    reqs'[r].cli = c /\ (~ clis'[c].lost => Timely(r)')
    PROVE  Unhurried'
<1>0. /\ \A d \in Devices : Still(d)
      /\ \A s \in Requests : s # r => reqs'[s] = reqs[s]
      /\ \A b \in Clis : b # c => clis'[b] = clis[b]
  BY DEF RowsKept, RowKept, Still, RestOf, RestBut
<1>1. ASSUME NEW s \in Requests, Ready(s)' PROVE Fresh(s)'
  <2>1. /\ Ready(s) /\ Fresh(s) /\ reqs[s].device \in Devices /\ reqs'[s].device = reqs[s].device
        /\ reqs'[s] = reqs[s] \/ reqs'[s].cli = Null
    BY <1>0, <1>1 DEF Ready, Unhurried, Typed
  <2>2. RowKept(reqs[s].device)
    BY <2>1 DEF RowsKept
  <2>. QED  BY <2>1, <2>2 DEF Fresh, RowKept
<1>2. ASSUME NEW b \in Clis, b # c, Holds(b)', ~ clis'[b].lost PROVE Composed(b)'
  <2>1. Holds(b) /\ ~ clis[b].lost /\ Composed(b) /\ clis[b].device \in Devices
    BY <1>0, <1>2 DEF Holds, Unhurried, Typed
  <2>. QED  BY <1>0, <1>2, <2>1, Untouched
<1>3. ASSUME NEW s \in Requests, s # r, NEW b, b = reqs[s].cli, b # Null, ~ clis'[b].lost
      PROVE  Timely(s)'
  <2>1. /\ b \in Clis /\ reqs'[s] = reqs[s] /\ clis'[b] = clis[b]
        /\ ~ clis[b].lost /\ Timely(s)
    BY <1>0, <1>3 DEF Unhurried, Typed
  <2>2. CASE ~ Polling(s) /\ reqs[s].answer # "slow_down"
    BY <2>1, <2>2 DEF Timely, Polling, Polls
  <2>3. CASE Polling(s) \/ reqs[s].answer = "slow_down"
    <3>1. Holds(b) /\ clis[b].device = reqs[s].device
      BY <1>3, <2>3 DEF Linked, ForStart, Polling, Polls, Holds
    <3>2. reqs[s].device \in Devices
      BY <2>1, <3>1 DEF Typed
    <3>. QED  BY <1>0, <2>1, <3>2, Untouched
  <2>. QED  BY <2>2, <2>3
<1>4. \A s \in Requests : reqs'[s].cli # Null /\ ~ clis'[reqs'[s].cli].lost => Timely(s)'
  <2>1. ASSUME NEW s \in Requests, s # r, reqs'[s].cli # Null, ~ clis'[reqs'[s].cli].lost
        PROVE  Timely(s)'
    BY <1>0, <1>3, <2>1
  <2>. QED  BY <2>1
<1>. QED  BY <1>1, <1>2, <1>4 DEF Unhurried

\* Every step keeps a login that has lost nothing in time.
LEMMA UnhurriedKept ==
    ASSUME Typed, Typed', Linked, Held, Unhurried, Motion
    PROVE  Unhurried'
<1>. USE IdleIs
<1>1. CASE Elapses
  <2>1. UNCHANGED <<reqs, clis>> /\ now' \in {now, now + 1} /\ \A d \in Devices : Still(d)
    BY <1>1 DEF Elapses, Still
  <2>2. ASSUME NEW r \in Requests, Ready(r)' PROVE Fresh(r)'
    BY <2>1, <2>2, Untouched DEF Ready, Unhurried, Typed
  <2>3. ASSUME NEW c \in Clis, Holds(c)', ~ clis'[c].lost PROVE Composed(c)'
    BY <2>1, <2>3, Untouched DEF Holds, Unhurried, Typed
  <2>4. ASSUME NEW r \in Requests, reqs'[r].cli # Null, ~ clis'[reqs'[r].cli].lost
        PROVE  Timely(r)'
    <3>1. Timely(r) /\ reqs'[r] = reqs[r]
      BY <2>1, <2>4 DEF Unhurried
    <3>2. CASE ~ Polling(r) /\ reqs[r].answer # "slow_down"
      BY <3>1, <3>2 DEF Timely, Polling, Polls
    <3>3. CASE Polling(r) \/ reqs[r].answer = "slow_down"
      <4>1. reqs[r].device \in Devices
        BY <2>1, <2>4, <3>3 DEF Linked, Typed, ForStart, Polling, Polls, Holds
      <4>. QED  BY <2>1, <3>1, <4>1, Untouched
    <3>. QED  BY <3>2, <3>3
  <2>. QED  BY <2>2, <2>3, <2>4 DEF Unhurried
<1>2. ASSUME NEW r \in Requests, Apart(r) PROVE Unhurried'
  <2>1. ~ Ready(r)' /\ reqs'[r].cli = Null /\ ~ Takes(r)
    BY <1>2 DEF Apart, Ready, Takes
  <2>. QED  BY <1>2, <2>1, OthersInTime DEF Apart
<1>3. ASSUME NEW r \in Requests, Arrives(r) PROVE Unhurried'
  <2>1. ~ Ready(r)' /\ ~ Takes(r)
    BY <1>3 DEF Arrives, Ready, Takes, Linked
  <2>2. ASSUME reqs'[r].cli # Null, ~ clis[reqs'[r].cli].lost PROVE Timely(r)'
    <3>1. Timely(r)
      BY <1>3, <2>2 DEF Arrives, Unhurried
    <3>2. reqs'[r].answer # "slow_down"
      BY <1>3 DEF Arrives, Linked
    <3>3. CASE reqs[r].pc = "sentPoll" /\ reqs'[r].pc = "select"
      <4>1. reqs[r].device \in Devices
        BY <3>3 DEF Typed, Polls
      <4>. QED  BY <1>3, <3>1, <3>2, <3>3, <4>1 DEF Arrives, Timely, RowsKept, RowKept
    <3>4. CASE reqs'[r].pc = "start"
      BY <3>2, <3>4 DEF Timely
    <3>. QED  BY <1>3, <3>3, <3>4 DEF Arrives
  <2>. QED  BY <1>3, <2>1, <2>2, OthersInTime DEF Arrives
<1>4. ASSUME NEW r \in Requests, Reads(r) \/ Misses(r) PROVE Unhurried'
  <2>1. ~ Ready(r)' /\ ~ Takes(r) /\ RestOf(r) /\ clis' = clis /\ now' = now
        /\ reqs'[r].cli = reqs[r].cli
    BY <1>4 DEF Reads, Misses, Ready, Takes, Linked, Within, RowsKept, RowKept, SlotFree
  <2>2. ASSUME reqs'[r].cli # Null, ~ clis[reqs'[r].cli].lost PROVE Timely(r)'
    <3>1. Timely(r) /\ reqs'[r].answer # "slow_down"
      BY <1>4, <2>1, <2>2 DEF Reads, Misses, Unhurried, Linked
    <3>2. reqs[r].device \in Devices /\ Filed(reqs[r].device) /\ RowKept(reqs[r].device)
      BY <1>4 DEF Reads, Misses, Typed, Polls, Held, Polling, RowsKept
    <3>3. CASE Reads(r)
      BY <3>1, <3>2, <3>3 DEF Reads, Within, Timely, RowKept
    <3>4. CASE Misses(r)
      <4>1. authorizations[reqs[r].device].row # "present"
        BY <3>1, <3>2, <3>4 DEF Misses, Timely, SlotFree, Typed
      <4>2. authorizations[reqs[r].device].row = "deleted"
        BY <3>2, <4>1 DEF Filed, Typed, Rows
      <4>. QED  BY <3>1, <3>2, <3>4, <4>2 DEF Misses, Timely, RowKept
    <3>. QED  BY <1>4, <3>3, <3>4
  <2>. QED  BY <2>1, <2>2, OthersInTime
<1>5. ASSUME NEW r \in Requests, Replies(r) PROVE Unhurried'
  <2>1. ~ Ready(r)' /\ ~ Takes(r)
    BY <1>5 DEF Replies, Ready, Takes, RowsKept, RowKept
  <2>2. ASSUME reqs'[r].cli # Null, ~ clis[reqs'[r].cli].lost PROVE Timely(r)'
    <3>1. CASE reqs'[r].answer # "slow_down"
      BY <1>5, <3>1 DEF Replies, Timely
    <3>2. CASE reqs'[r].answer = "slow_down"
      <4>1. reqs[r].pc = "slow" /\ Timely(r)
        BY <1>5, <2>2, <3>2 DEF Replies, Unhurried
      <4>2. reqs[r].device \in Devices
        BY <4>1 DEF Typed, Polls
      <4>. QED  BY <1>5, <4>1, <4>2 DEF Replies, Timely, RowsKept, RowKept
    <3>. QED  BY <3>1, <3>2
  <2>. QED  BY <1>5, <2>1, <2>2, OthersInTime DEF Replies
<1>6. ASSUME NEW r \in Requests, Takes(r) PROVE Unhurried'
  <2>1. ~ Ready(r)' /\ reqs'[r].answer # "slow_down"
    BY <1>6 DEF Takes, Ready, Linked
  <2>2. Timely(r)'
    BY <1>6, <2>1 DEF Takes, Timely
  <2>3. ASSUME NEW c \in Clis, Holds(c), ~ clis[c].lost, clis[c].req = r,
               reqs[r].device = clis[c].device
        PROVE  Composed(c)'
    <3>1. Composed(c) /\ clis[c].device \in Devices /\ clis' = clis /\ now' = now
      BY <1>6, <2>3 DEF Unhurried, Typed, Takes, Within
    <3>2. reqs[r].cli # Null
      BY <1>6, <2>3 DEF Held, Takes, Polling, Polls
    <3>3. clis[c].pc = "polling"
      BY <2>3, <3>2 DEF Linked, Holds, Waits
    <3>4. /\ authorizations'[clis[c].device].interval = PollInterval
          /\ authorizations'[clis[c].device].nextPollAt = reqs[r].now + PollInterval
          /\ reqs[r].now <= now
      BY <1>6, <2>3, <3>1 DEF Takes, Composed, Linked
    <3>. QED  BY <3>1, <3>3, <3>4 DEF Composed, Typed
  <2>. QED  BY <1>6, <2>1, <2>2, <2>3, OthersInTime DEF Takes, Within
<1>7. ASSUME NEW r \in Requests, Slows(r) PROVE Unhurried'
  <2>1. ~ Ready(r)' /\ ~ Takes(r)
    BY <1>7 DEF Slows, Ready, Takes
  <2>2. ~ (reqs'[r].cli # Null /\ ~ clis[reqs'[r].cli].lost)
    BY <1>7 DEF Slows, Within, Unhurried, Timely
  <2>. QED  BY <1>7, <2>1, <2>2, OthersInTime DEF Slows, Within
<1>8. ASSUME NEW r \in Requests, NEW d \in Devices, Grants(r, d) PROVE Unhurried'
  <2>1. Timely(r)' /\ ~ Takes(r)
    BY <1>8 DEF Grants, Timely, Takes
  <2>2. Fresh(r)'
    <3>1. reqs[r].now <= now
      BY DEF Linked
    <3>. QED  BY <1>8, <3>1 DEF Grants, Within, Fresh, Typed
  <2>. QED  BY <1>8, <2>1, <2>2, OthersInTime DEF Grants, Within
<1>9. ASSUME NEW c \in Clis, NEW r \in Requests, Begins(c, r) PROVE Unhurried'
  <2>1. Timely(r)' /\ ~ Ready(r)' /\ ~ Holds(c)'
    BY <1>9 DEF Begins, Timely, Ready, Holds
  <2>2. \A s \in Requests : reqs[s].cli # c
    BY <1>9 DEF Begins, Linked, Waits
  <2>. QED  BY <1>9, <2>1, <2>2, OthersInPace DEF Begins
<1>10. ASSUME NEW c \in Clis, NEW r \in Requests, Accepts(c, r) PROVE Unhurried'
  <2>1. reqs[r].cli = c /\ Ready(r) /\ reqs[r].device \in Devices /\ Fresh(r)
    BY <1>10 DEF Accepts, Linked, Waits, Ready, Typed, Unhurried
  <2>2. \A s \in Requests : s # r => reqs[s].cli # c
    BY <1>10 DEF Accepts, Linked
  <2>3. Composed(c)'
    <3>1. clis'[c].interval = PollInterval
      BY <1>10, <2>1 DEF Accepts, Fresh
    <3>2. \/ clis'[c].wake >= clis'[c].deadline
          \/ clis'[c].wake >= now + PollInterval
      BY <1>10, <3>1 DEF Accepts, Sleeps
    <3>3. PICK d \in Devices : d = reqs[r].device
      BY <2>1
    <3>4. /\ clis'[c].device = d /\ authorizations'[d].interval = PollInterval
          /\ authorizations'[d].nextPollAt = authorizations[d].nextPollAt
          /\ authorizations[d].nextPollAt <= now + PollInterval /\ now' = now
      BY <1>10, <2>1, <3>3 DEF Accepts, RowsKept, RowKept, Fresh
    <3>5. clis'[c].wake \in Nat /\ clis'[c].deadline \in Nat
      BY DEF Typed
    <3>. QED  BY <3>1, <3>2, <3>4, <3>5 DEF Composed, Typed
  <2>4. ~ Ready(r)' /\ reqs'[r].cli = Null
    BY <1>10 DEF Accepts, Ready
  <2>. QED  BY <1>10, <2>2, <2>3, <2>4, OthersInPace DEF Accepts
<1>11. ASSUME NEW c \in Clis, NEW r \in Requests, Asks(c, r) PROVE Unhurried'
  <2>1. \A s \in Requests : reqs[s].cli # c
    BY <1>11 DEF Asks, Linked, Waits
  <2>2. ~ Ready(r)' /\ reqs'[r].cli = c
    BY <1>11 DEF Asks, Ready
  <2>3. ASSUME ~ clis'[c].lost PROVE Composed(c)' /\ Timely(r)'
    <3>1. PICK d \in Devices : d = clis[c].device
      BY <1>11 DEF Asks, Typed, Holds
    <3>2. Composed(c) /\ RowKept(d)
      BY <1>11, <2>3, <3>1 DEF Asks, Unhurried, Holds, RowsKept
    <3>3. authorizations[d].nextPollAt <= now
      BY <1>11, <3>1, <3>2 DEF Asks, Composed, DeadlinePassed, Typed
    <3>4. Timely(r)'
      BY <1>11, <3>1, <3>2, <3>3 DEF Asks, Timely, RowKept
    <3>5. Composed(c)'
      BY <1>11, <3>1, <3>2 DEF Asks, Composed, RowKept
    <3>. QED  BY <3>4, <3>5
  <2>. QED  BY <1>11, <2>1, <2>2, <2>3, OthersInPace DEF Asks
<1>12. ASSUME NEW c \in Clis, NEW r \in Requests, Resumes(c, r) PROVE Unhurried'
  <2>1. \A s \in Requests : s # r => reqs[s].cli # c
    BY <1>12 DEF Resumes, Linked
  <2>2. ~ Ready(r)' /\ reqs'[r].cli = Null
    BY <1>12 DEF Resumes, Ready
  <2>3. ASSUME ~ clis'[c].lost PROVE Composed(c)'
    <3>1. PICK d \in Devices : d = clis[c].device
      BY <1>12 DEF Resumes, Typed, Holds
    <3>2. Composed(c) /\ RowKept(d)
      BY <1>12, <2>3, <3>1 DEF Resumes, Unhurried, Holds, RowsKept
    <3>3. clis[c].interval >= PollInterval /\ clis[c].interval \in Nat
      BY <3>2 DEF Composed, Typed
    <3>4. clis'[c].interval >= PollInterval
      <4>0. clis'[c].interval \in Nat
        BY DEF Typed
      <4>1. CASE clis'[c].interval >= clis[c].interval + SlowStep
        BY <3>3, <4>0, <4>1
      <4>2. CASE BacksOff(c)
        BY <3>3, <4>2 DEF BacksOff, Smaller
      <4>. QED  BY <1>12, <3>3, <4>1, <4>2 DEF Resumes
    <3>5. \/ clis'[c].wake >= clis'[c].deadline
          \/ clis'[c].wake >= now + PollInterval
      <4>1. /\ clis'[c].wake \in Nat /\ clis'[c].deadline \in Nat /\ clis'[c].interval \in Nat
        BY DEF Typed
      <4>. QED  BY <1>12, <3>4, <4>1 DEF Resumes, Sleeps, Typed
    <3>6. /\ clis'[c].device = d /\ authorizations'[d].interval = PollInterval
          /\ authorizations'[d].nextPollAt = authorizations[d].nextPollAt
          /\ authorizations[d].nextPollAt <= now + PollInterval /\ now' = now
      BY <1>12, <3>1, <3>2 DEF Resumes, RowKept, Composed
    <3>7. clis'[c].wake \in Nat /\ clis'[c].deadline \in Nat
      BY DEF Typed
    <3>. QED  BY <3>4, <3>5, <3>6, <3>7 DEF Composed, Typed
  <2>. QED  BY <1>12, <2>1, <2>2, <2>3, OthersInPace DEF Resumes
<1>13. ASSUME NEW c \in Clis, NEW r \in Requests, Abandons(c, r) PROVE Unhurried'
  <2>1. \A s \in Requests : s # r => reqs[s].cli # c
    BY <1>13 DEF Abandons, Linked
  <2>2. ~ Ready(r)' /\ reqs'[r].cli = Null /\ clis'[c].lost = TRUE
    BY <1>13 DEF Abandons, Ready, Freed, Linked, ForPoll
  <2>. QED  BY <1>13, <2>1, <2>2, OthersInPace DEF Abandons
<1>14. ASSUME NEW c \in Clis, Retires(c) PROVE Unhurried'
  <2>1. RestBut(c) /\ ~ Holds(c)' /\ RowsKept /\ now' = now
    BY <1>14 DEF Retires, Holds
  <2>2. CASE Waits(c)
    <3>1. PICK r \in Requests : r = clis[c].req
      BY <2>2 DEF Typed
    <3>2. reqs[r].cli = c /\ RestOf(r) /\ Freed(r) /\ \A s \in Requests : s # r => reqs[s].cli # c
      BY <1>14, <2>2, <3>1 DEF Retires, Linked
    <3>3. reqs'[r].cli = Null
      BY <3>2 DEF Freed
    <3>4. Ready(r)' => Ready(r) /\ reqs'[r].device = reqs[r].device
      BY <3>2 DEF Freed, Ready
    <3>. QED  BY <2>1, <3>2, <3>3, <3>4, OthersInPace
  <2>3. CASE ~ Waits(c)
    <3>1. reqs' = reqs /\ \A s \in Requests : reqs[s].cli # c
      BY <1>14, <2>3 DEF Retires, Linked, Waits
    <3>. QED  BY <2>1, <3>1, OthersInPace DEF RestOf
  <2>. QED  BY <2>2, <2>3
<1>. QED  BY <1>1, <1>2, <1>3, <1>4, <1>5, <1>6, <1>7, <1>8, <1>9, <1>10, <1>11, <1>12, <1>13, <1>14
          DEF Motion

-------------------------------------------------------------------------------
(* What the polls that nobody waits for may still cost a login *)

Orphans(d) == {r \in Requests : /\ Polling(r) /\ reqs[r].device = d
                                /\ reqs[r].cli = Null}
Debt(d)    == SlowStep * Cardinality(Orphans(d))

\* The answer that a CLI has not read yet will make it wait longer.
Credit(c) == IF /\ clis[c].pc = "polling"
                /\ reqs[clis[c].req].answer \in {"slow_down", "unavailable"}
               THEN SlowStep ELSE 0

Steady(c) ==
    LET a == authorizations[clis[c].device] IN
    /\ clis[c].interval >= PollInterval
    /\ a.row = "present" =>
         \/ clis[c].interval >= CliMaxInterval
         \/ clis[c].interval + Credit(c) >= a.interval + Debt(clis[c].device)

Paced ==
    /\ \A d \in Devices : IsFiniteSet(Orphans(d))
    /\ \A c \in Clis : Holds(c) => Steady(c)

\* A step of one request changes what the orphans may cost by one step at most.
LEMMA DebtMoves ==
    ASSUME NEW d \in Devices, IsFiniteSet(Orphans(d)), NEW r \in Requests, RestOf(r)
    PROVE  /\ IsFiniteSet(Orphans(d)') /\ Debt(d) \in Nat /\ Debt(d)' \in Nat
           /\ Debt(d)' <= Debt(d) + SlowStep
           /\ r \in Orphans(d) \/ r \notin Orphans(d)' => Debt(d)' <= Debt(d)
           /\ r \in Orphans(d) /\ r \notin Orphans(d)' => Debt(d)' + SlowStep = Debt(d)
<1>1. PICK O, P : O = Orphans(d) /\ P = Orphans(d)'
  OBVIOUS
<1>2. \/ P = O
      \/ r \notin O /\ P = O \cup {r}
      \/ r \in O /\ P = O \ {r}
  <2>1. \A s \in Requests : s # r => (s \in O <=> s \in P)
    BY <1>1 DEF Orphans, RestOf, Polling
  <2>2. O \subseteq Requests /\ P \subseteq Requests
    BY <1>1 DEF Orphans
  <2>. QED  BY <2>1, <2>2
<1>3. IsFiniteSet(O) /\ Cardinality(O) \in Nat
  BY <1>1, FS_CardinalityType
<1>4. /\ IsFiniteSet(P) /\ Cardinality(P) \in Nat
      /\ \/ P = O /\ Cardinality(P) = Cardinality(O)
         \/ r \notin O /\ r \in P /\ Cardinality(P) = Cardinality(O) + 1
         \/ r \in O /\ r \notin P /\ Cardinality(O) = Cardinality(P) + 1
  <2>1. CASE P = O
    BY <1>3, <2>1
  <2>2. CASE r \notin O /\ P = O \cup {r}
    BY <1>3, <2>2, FS_AddElement
  <2>3. CASE r \in O /\ P = O \ {r}
    <3>1. IsFiniteSet(O \ {r}) /\ Cardinality(O \ {r}) = Cardinality(O) - 1
      BY <1>3, <2>3, FS_RemoveElement
    <3>2. IsFiniteSet(P) /\ Cardinality(P) = Cardinality(O) - 1 /\ r \notin P
      BY <2>3, <3>1
    <3>3. Cardinality(P) \in Nat
      BY <3>2, FS_CardinalityType
    <3>. QED  BY <1>3, <2>3, <3>2, <3>3
  <2>. QED  BY <1>2, <2>1, <2>2, <2>3
<1>5. \A n \in Nat : SlowStep * n \in Nat /\ SlowStep * (n + 1) = SlowStep * n + SlowStep
  OBVIOUS
<1>6. Debt(d) = SlowStep * Cardinality(O) /\ Debt(d)' = SlowStep * Cardinality(P)
  BY <1>1 DEF Debt
<1>. QED  BY <1>1, <1>3, <1>4, <1>5, <1>6

\* A CLI that waits as long as before, and owes no more
LEMMA StaysSteady ==
    ASSUME Typed, Typed', NEW c \in Clis, Steady(c), NEW d \in Devices,
           clis[c].device = d, clis'[c].device = d, Debt(d) \in Nat, Debt(d)' \in Nat,
           clis'[c].interval >= clis[c].interval,
           authorizations'[d].row = "present" => authorizations[d].row = "present",
           \/ clis'[c].interval >= CliMaxInterval
           \/ clis'[c].interval + Credit(c)' + authorizations[d].interval + Debt(d)
                >= clis[c].interval + Credit(c) + authorizations'[d].interval + Debt(d)'
    PROVE  Steady(c)'
<1>1. Credit(c) \in Nat /\ Credit(c)' \in Nat
  BY DEF Credit
<1>2. /\ clis[c].interval \in Nat /\ clis'[c].interval \in Nat
      /\ authorizations[d].interval \in Nat /\ authorizations'[d].interval \in Nat
  BY DEF Typed
<1>3. clis'[c].interval >= PollInterval
  BY <1>2 DEF Steady
<1>4. ASSUME authorizations'[d].row = "present"
      PROVE  \/ clis'[c].interval >= CliMaxInterval
             \/ clis'[c].interval + Credit(c)' >= authorizations'[d].interval + Debt(d)'
  BY <1>1, <1>2, <1>4 DEF Steady
<1>5. Debt(clis[c].device)' = Debt(d)'
  BY DEF Debt, Orphans
<1>. QED  BY <1>3, <1>4, <1>5 DEF Steady

\* A CLI keeps its credit in the step of another's request.
LEMMA CreditKept ==
    ASSUME Typed, Linked, NEW r \in Requests, RestOf(r), NEW c \in Clis,
           clis'[c] = clis[c], reqs[r].cli = c => reqs'[r].answer = reqs[r].answer
    PROVE  Credit(c)' = Credit(c)
<1>1. CASE clis[c].pc = "polling"
  <2>1. clis[c].req \in Requests /\ reqs[clis[c].req].cli = c
    BY <1>1 DEF Typed, Linked, Waits
  <2>. QED  BY <2>1 DEF Credit, RestOf
<1>2. CASE clis[c].pc # "polling"
  BY <1>2 DEF Credit
<1>. QED  BY <1>1, <1>2

\* The step of one request, and what it does to the debt of a CLI's device
LEMMA RequestSteady ==
    ASSUME Typed, Typed', Held, Paced, Motion, NEW r \in Requests, RestOf(r), clis' = clis,
           \A c \in Clis : Holds(c) =>
              /\ r \in Orphans(clis[c].device)' => r \in Orphans(clis[c].device)
              /\ authorizations'[clis[c].device].row = "present" =>
                    authorizations[clis[c].device].row = "present"
              /\ \/ /\ Credit(c)' >= Credit(c)
                    /\ authorizations'[clis[c].device].interval
                          = authorizations[clis[c].device].interval
                 \/ /\ authorizations'[clis[c].device].interval
                          <= authorizations[clis[c].device].interval + SlowStep
                    /\ \/ Credit(c)' = Credit(c) + SlowStep
                       \/ /\ r \in Orphans(clis[c].device) /\ r \notin Orphans(clis[c].device)'
                          /\ Credit(c)' = Credit(c)
    PROVE  Paced'
<1>1. \A d \in Devices : IsFiniteSet(Orphans(d)')
  BY DebtMoves DEF Paced
<1>2. ASSUME NEW c \in Clis, Holds(c)' PROVE Steady(c)'
  <2>1. PICK d : d = clis[c].device
    OBVIOUS
  <2>2. /\ Holds(c) /\ Steady(c) /\ d \in Devices /\ clis'[c].device = d
        /\ clis'[c].interval = clis[c].interval
    BY <1>2, <2>1 DEF Holds, Paced, Typed
  <2>3. /\ Debt(d) \in Nat /\ Debt(d)' \in Nat /\ IsFiniteSet(Orphans(d))
        /\ r \in Orphans(d) \/ r \notin Orphans(d)' => Debt(d)' <= Debt(d)
        /\ r \in Orphans(d) /\ r \notin Orphans(d)' => Debt(d)' + SlowStep = Debt(d)
    BY <2>2, DebtMoves DEF Paced
  <2>4. /\ r \in Orphans(clis[c].device)' <=> r \in Orphans(d)'
        /\ r \in Orphans(clis[c].device) <=> r \in Orphans(d)
    BY <2>1, <2>2 DEF Orphans
  <2>5. /\ authorizations[d].interval \in Nat /\ authorizations'[d].interval \in Nat
        /\ clis[c].interval \in Nat /\ Credit(c) \in Nat /\ Credit(c)' \in Nat
    BY <2>2 DEF Typed, Credit
  <2>6. /\ r \in Orphans(d)' => r \in Orphans(d)
        /\ authorizations'[d].row = "present" => authorizations[d].row = "present"
        /\ \/ /\ Credit(c)' >= Credit(c)
              /\ authorizations'[d].interval = authorizations[d].interval
           \/ /\ authorizations'[d].interval <= authorizations[d].interval + SlowStep
              /\ \/ Credit(c)' = Credit(c) + SlowStep
                 \/ /\ r \in Orphans(d) /\ r \notin Orphans(d)'
                    /\ Credit(c)' = Credit(c)
    BY <2>1, <2>2, <2>4
  <2>7. clis'[c].interval + Credit(c)' + authorizations[d].interval + Debt(d)
           >= clis[c].interval + Credit(c) + authorizations'[d].interval + Debt(d)'
    BY <2>2, <2>3, <2>5, <2>6
  <2>. QED  BY <2>1, <2>2, <2>3, <2>5, <2>6, <2>7, StaysSteady
<1>. QED  BY <1>1, <1>2 DEF Paced

\* The step of one CLI, which leaves the rows alone
LEMMA CliSteady ==
    ASSUME Typed, Typed', Linked, Held, Paced, RowsKept, NEW c \in Clis, NEW r \in Requests,
           RestOf(r), RestBut(c), reqs[r] = Idle \/ reqs[r].cli = c,
           \/ reqs'[r].cli # Null
           \/ ~ Polling(r)'
           \/ Polling(r) /\ reqs'[r].device = reqs[r].device,
           Holds(c)' => Steady(c)'
    PROVE  Paced'
<1>. USE IdleIs
<1>1. \A d \in Devices : IsFiniteSet(Orphans(d)')
  BY DebtMoves DEF Paced
<1>2. ASSUME NEW b \in Clis, b # c, Holds(b)' PROVE Steady(b)'
  <2>1. PICK d : d = clis[b].device
    OBVIOUS
  <2>2. /\ Holds(b) /\ Steady(b) /\ d \in Devices /\ clis'[b] = clis[b]
    BY <1>2, <2>1 DEF Holds, Paced, Typed, RestBut
  <2>3. reqs[r].cli # b
    BY <1>2
  <2>4. Credit(b)' = Credit(b)
    BY <2>2, <2>3, CreditKept
  <2>5. r \notin Orphans(d)'
    <3>1. CASE ~ Polling(r)
      BY <3>1 DEF Orphans
    <3>2. CASE Polling(r)
      <4>1. clis[c].pc = "polling" /\ clis[c].device = reqs[r].device
        BY <3>2 DEF Linked, ForStart, Polling, Polls
      <4>2. reqs[r].device # d
        BY <1>2, <2>1, <2>2, <4>1 DEF Held, Holds
      <4>. QED  BY <3>2, <4>2 DEF Orphans
    <3>. QED  BY <3>1, <3>2
  <2>6. Debt(d) \in Nat /\ Debt(d)' \in Nat /\ Debt(d)' <= Debt(d)
    BY <2>2, <2>5, DebtMoves DEF Paced
  <2>7. /\ authorizations[d].interval \in Nat /\ clis[b].interval \in Nat /\ Credit(b) \in Nat
        /\ authorizations'[d].interval = authorizations[d].interval
        /\ authorizations'[d].row = authorizations[d].row
    BY <2>2 DEF Typed, Credit, RowsKept, RowKept
  <2>8. clis'[b].interval + Credit(b)' + authorizations[d].interval + Debt(d)
           >= clis[b].interval + Credit(b) + authorizations'[d].interval + Debt(d)'
    BY <2>2, <2>4, <2>6, <2>7
  <2>9. clis'[b].interval >= clis[b].interval
    BY <2>2, <2>7
  <2>. QED  BY <2>1, <2>2, <2>6, <2>7, <2>8, <2>9, StaysSteady
<1>3. \A b \in Clis : Holds(b)' => Steady(b)'
  BY <1>2
<1>. QED  BY <1>1, <1>3 DEF Paced

\* A CLI that has read or given up what it asked goes to sleep long enough.
LEMMA SleepsSteady ==
    ASSUME Typed, Typed', Linked, Paced, NEW c \in Clis, NEW r \in Requests,
           Resumes(c, r) \/ Abandons(c, r)
    PROVE  Steady(c)'
<1>. USE IdleIs
<1>1. PICK d \in Devices : d = clis[c].device
  BY DEF Resumes, Abandons, Typed, Holds
<1>2. /\ Steady(c) /\ RestOf(r) /\ RowKept(d) /\ clis[c].pc = "polling" /\ clis[c].req = r
      /\ clis'[c].pc = "sleeping" /\ clis'[c].device = d /\ reqs[r].cli = c
  BY <1>1 DEF Resumes, Abandons, Paced, Holds, Waits, RowsKept, Sleeps, Linked
<1>3. Credit(c)' = 0 /\ Credit(c) \in Nat /\ Credit(c) <= SlowStep
  BY <1>2 DEF Credit
<1>4. /\ clis[c].interval \in Nat /\ clis'[c].interval \in Nat /\ authorizations[d].interval \in Nat
      /\ clis[c].interval >= PollInterval
      /\ authorizations'[d].interval = authorizations[d].interval
      /\ authorizations'[d].row = authorizations[d].row
  BY <1>2 DEF Typed, Steady, RowKept
<1>5. BacksOff(c) => \/ clis'[c].interval >= CliMaxInterval
                     \/ clis'[c].interval >= clis[c].interval + SlowStep
  BY <1>4 DEF BacksOff, Smaller
<1>6. BacksOff(c) => \/ clis'[c].interval >= CliMaxInterval
                     \/ clis'[c].interval >= clis[c].interval
  BY <1>4, <1>5
<1>7. /\ Debt(d) \in Nat /\ Debt(d)' \in Nat /\ Debt(d)' <= Debt(d) + SlowStep
      /\ r \notin Orphans(d)' => Debt(d)' <= Debt(d)
  BY <1>1, <1>2, DebtMoves DEF Paced
<1>8. \/ clis'[c].interval >= CliMaxInterval
      \/ clis'[c].interval + Credit(c)' + authorizations[d].interval + Debt(d)
           >= clis[c].interval + Credit(c) + authorizations'[d].interval + Debt(d)'
  <2>1. CASE Resumes(c, r)
    <3>1. r \notin Orphans(d)'
      BY <2>1 DEF Resumes, Orphans, Polling, Polls
    <3>2. CASE reqs[r].answer = "authorization_pending"
      <4>1. Credit(c) = 0 /\ clis'[c].interval = clis[c].interval
        BY <1>2, <2>1, <3>2 DEF Credit, Resumes
      <4>. QED  BY <1>3, <1>4, <1>7, <3>1, <4>1
    <3>3. CASE clis'[c].interval >= clis[c].interval + SlowStep
      BY <1>3, <1>4, <1>7, <3>1, <3>3
    <3>4. CASE BacksOff(c)
      BY <1>3, <1>4, <1>5, <1>7, <3>1, <3>4
    <3>. QED  BY <2>1, <3>2, <3>3, <3>4 DEF Resumes
  <2>2. CASE Abandons(c, r)
    <3>1. CASE reqs[r].pc = "answered"
      <4>1. r \notin Orphans(d)'
        BY <2>2, <3>1 DEF Abandons, Orphans, Polling, Polls
      <4>. QED  BY <1>3, <1>4, <1>5, <1>7, <2>2, <4>1 DEF Abandons
    <3>2. CASE reqs[r].pc # "answered"
      <4>1. Credit(c) = 0
        BY <1>2, <3>2 DEF Credit, Linked
      <4>. QED  BY <1>3, <1>4, <1>5, <1>7, <2>2, <4>1 DEF Abandons
    <3>. QED  BY <3>1, <3>2
  <2>. QED  BY <2>1, <2>2
<1>9. clis'[c].interval >= PollInterval
  <2>1. CASE BacksOff(c)
    BY <1>4, <1>5, <2>1
  <2>2. CASE ~ BacksOff(c)
    BY <1>4, <2>2 DEF Resumes, Abandons
  <2>. QED  BY <2>1, <2>2
<1>10. ASSUME authorizations'[d].row = "present"
       PROVE  \/ clis'[c].interval >= CliMaxInterval
              \/ clis'[c].interval + Credit(c)' >= authorizations'[d].interval + Debt(d)'
  <2>1. \/ clis[c].interval >= CliMaxInterval
        \/ clis[c].interval + Credit(c) >= authorizations[d].interval + Debt(d)
    BY <1>1, <1>2, <1>4, <1>10 DEF Steady
  <2>2. CASE clis[c].interval >= CliMaxInterval
    <3>1. CASE BacksOff(c)
      BY <1>4, <2>2, <3>1 DEF BacksOff, Smaller
    <3>2. CASE ~ BacksOff(c)
      BY <1>4, <2>2, <3>2 DEF Resumes, Abandons
    <3>. QED  BY <3>1, <3>2
  <2>3. CASE clis[c].interval + Credit(c) >= authorizations[d].interval + Debt(d)
    BY <1>3, <1>4, <1>7, <1>8, <2>3
  <2>. QED  BY <2>1, <2>2, <2>3
<1>11. Debt(clis[c].device)' = Debt(d)'
  BY <1>2 DEF Debt, Orphans
<1>. QED  BY <1>2, <1>9, <1>10, <1>11 DEF Steady

\* Every step keeps the CLI's interval at Auth's, what orphans may add included.
LEMMA PacedKept ==
    ASSUME Typed, Typed', Linked, Held, Unhurried, Paced, Motion
    PROVE  Paced'
<1>. USE IdleIs
<1>0. \A c \in Clis : Credit(c) \in Nat
  BY DEF Credit
<1>1. CASE Elapses
  <2>1. ASSUME NEW d \in Devices PROVE /\ Orphans(d)' = Orphans(d) /\ Debt(d)' = Debt(d)
                                       /\ Debt(d) \in Nat
    <3>1. Orphans(d)' = Orphans(d)
      BY <1>1 DEF Elapses, Orphans, Polling
    <3>2. Cardinality(Orphans(d)) \in Nat
      BY FS_CardinalityType DEF Paced
    <3>. QED  BY <3>1, <3>2 DEF Debt
  <2>2. ASSUME NEW c \in Clis, Holds(c)' PROVE Steady(c)'
    <3>1. PICK d : d = clis[c].device
      OBVIOUS
    <3>2. /\ Holds(c) /\ Steady(c) /\ d \in Devices /\ clis'[c] = clis[c]
          /\ Credit(c)' = Credit(c) /\ Debt(d)' = Debt(d) /\ Debt(d) \in Nat
          /\ authorizations'[d].interval = authorizations[d].interval
          /\ authorizations'[d].row = "present" => authorizations[d].row = "present"
      BY <1>1, <2>1, <2>2, <3>1 DEF Elapses, Holds, Paced, Typed, Credit
    <3>3. authorizations[d].interval \in Nat /\ clis[c].interval \in Nat
      BY <3>2 DEF Typed
    <3>4. clis'[c].interval + Credit(c)' + authorizations[d].interval + Debt(d)
             >= clis[c].interval + Credit(c) + authorizations'[d].interval + Debt(d)'
      BY <1>0, <3>2, <3>3
    <3>5. clis'[c].interval >= clis[c].interval
      BY <3>2, <3>3
    <3>. QED  BY <3>1, <3>2, <3>4, <3>5, StaysSteady
  <2>. QED  BY <2>1, <2>2 DEF Paced
<1>2. ASSUME NEW r \in Requests, RestOf(r), clis' = clis, reqs'[r].cli = reqs[r].cli,
             Polling(r)' => Polling(r) /\ reqs'[r].device = reqs[r].device,
             RowsKept,
             \A c \in Clis : Holds(c) => Credit(c)' >= Credit(c)
      PROVE  Paced'
  <2>1. ASSUME NEW c \in Clis, Holds(c)
        PROVE  /\ r \in Orphans(clis[c].device)' => r \in Orphans(clis[c].device)
               /\ authorizations'[clis[c].device].row = authorizations[clis[c].device].row
               /\ authorizations'[clis[c].device].interval
                     = authorizations[clis[c].device].interval
    BY <1>2, <2>1 DEF Orphans, RowsKept, RowKept, Typed
  <2>. QED  BY <1>2, <2>1, RequestSteady
<1>3. ASSUME NEW r \in Requests, Apart(r) \/ Arrives(r) \/ Reads(r) \/ Misses(r)
      PROVE  Paced'
  <2>1. /\ RestOf(r) /\ clis' = clis /\ reqs'[r].cli = reqs[r].cli /\ RowsKept
        /\ Polling(r)' => Polling(r) /\ reqs'[r].device = reqs[r].device
    BY <1>3 DEF Apart, Arrives, Reads, Misses, Within, Polling, Polls
  <2>2. ASSUME NEW c \in Clis PROVE Credit(c)' >= Credit(c)
    <3>1. reqs[r].cli = c => reqs'[r].answer = reqs[r].answer
      BY <1>3 DEF Apart, Arrives, Reads, Misses
    <3>2. Credit(c)' = Credit(c)
      BY <2>1, <3>1, CreditKept
    <3>. QED  BY <1>0, <3>2
  <2>. QED  BY <1>2, <2>1, <2>2
<1>4. ASSUME NEW r \in Requests, Replies(r) PROVE Paced'
  <2>1. /\ RestOf(r) /\ clis' = clis /\ reqs'[r].cli = reqs[r].cli /\ RowsKept /\ ~ Polling(r)'
    BY <1>4 DEF Replies, Polling, Polls
  <2>2. ASSUME NEW c \in Clis PROVE Credit(c)' >= Credit(c)
    <3>1. CASE reqs[r].cli = c
      <4>1. clis[c].req = r
        BY <3>1 DEF Linked
      <4>2. reqs'[r].answer = "unavailable" \/ Credit(c) = 0
        BY <1>4, <4>1 DEF Replies, Linked, Credit
      <4>3. CASE Credit(c) = 0
        BY <4>3 DEF Credit
      <4>4. CASE reqs'[r].answer = "unavailable"
        BY <2>1, <4>1, <4>4 DEF Credit
      <4>. QED  BY <4>2, <4>3, <4>4
    <3>2. CASE reqs[r].cli # c
      <4>1. Credit(c)' = Credit(c)
        BY <2>1, <3>2, CreditKept
      <4>. QED  BY <1>0, <4>1
    <3>. QED  BY <3>1, <3>2
  <2>. QED  BY <1>2, <2>1, <2>2
<1>5. ASSUME NEW r \in Requests, Takes(r) PROVE Paced'
  <2>1. /\ RestOf(r) /\ clis' = clis /\ reqs'[r].cli = reqs[r].cli
        /\ reqs'[r].device = reqs[r].device /\ Polling(r)
    BY <1>5 DEF Takes, Within, Polling, Polls
  <2>2. ASSUME NEW c \in Clis, Holds(c)
        PROVE  /\ r \in Orphans(clis[c].device)' => r \in Orphans(clis[c].device)
               /\ authorizations'[clis[c].device].row = "present" =>
                     authorizations[clis[c].device].row = "present"
               /\ authorizations'[clis[c].device].interval
                     = authorizations[clis[c].device].interval
               /\ Credit(c)' >= Credit(c)
    <3>1. r \in Orphans(clis[c].device)' => r \in Orphans(clis[c].device)
      BY <2>1 DEF Orphans
    <3>2. /\ authorizations'[clis[c].device].row = "present" =>
                authorizations[clis[c].device].row = "present"
          /\ authorizations'[clis[c].device].interval
                = authorizations[clis[c].device].interval
      BY <1>5, <2>2 DEF Takes, RowsBut, RowKept, Typed
    <3>3. Credit(c)' >= Credit(c)
      <4>1. CASE reqs[r].cli = c
        <5>1. clis[c].req = r /\ reqs[r].answer = "none"
          BY <1>5, <4>1 DEF Linked, Takes
        <5>2. Credit(c) = 0
          BY <5>1 DEF Credit
        <5>. QED  BY <5>2 DEF Credit
      <4>2. CASE reqs[r].cli # c
        <5>1. Credit(c)' = Credit(c)
          BY <2>1, <4>2, CreditKept
        <5>. QED  BY <1>0, <5>1
      <4>. QED  BY <4>1, <4>2
    <3>. QED  BY <3>1, <3>2, <3>3
  <2>. QED  BY <2>1, <2>2, RequestSteady
<1>6. ASSUME NEW r \in Requests, Slows(r) PROVE Paced'
  <2>1. /\ RestOf(r) /\ clis' = clis /\ reqs'[r].cli = reqs[r].cli
        /\ reqs'[r].device = reqs[r].device /\ Polling(r) /\ ~ Polling(r)'
        /\ reqs[r].answer = "none" /\ reqs'[r].answer = "slow_down"
    BY <1>6 DEF Slows, Within, Polling, Polls, Linked
  <2>2. ASSUME NEW c \in Clis, Holds(c)
        PROVE  /\ r \in Orphans(clis[c].device)' => r \in Orphans(clis[c].device)
               /\ authorizations'[clis[c].device].row = "present" =>
                     authorizations[clis[c].device].row = "present"
               /\ \/ /\ Credit(c)' >= Credit(c)
                     /\ authorizations'[clis[c].device].interval
                           = authorizations[clis[c].device].interval
                  \/ /\ authorizations'[clis[c].device].interval
                           <= authorizations[clis[c].device].interval + SlowStep
                     /\ \/ Credit(c)' = Credit(c) + SlowStep
                        \/ /\ r \in Orphans(clis[c].device)
                           /\ r \notin Orphans(clis[c].device)'
                           /\ Credit(c)' = Credit(c)
    <3>1. r \notin Orphans(clis[c].device)'
      BY <2>1 DEF Orphans
    <3>2. reqs[r].cli # c => Credit(c)' = Credit(c)
      BY <2>1, CreditKept
    <3>3. CASE clis[c].device = reqs[r].device
      <4>1. /\ authorizations[clis[c].device].row = "present"
            /\ authorizations'[clis[c].device].interval
                 <= authorizations[clis[c].device].interval + SlowStep
        BY <1>6, <3>3 DEF Slows
      <4>2. CASE reqs[r].cli = Null
        <5>1. r \in Orphans(clis[c].device)
          BY <2>1, <3>3, <4>2 DEF Orphans
        <5>2. reqs[r].cli # c
          BY <4>2
        <5>. QED  BY <3>1, <3>2, <4>1, <5>1, <5>2
      <4>3. ASSUME NEW b, b = reqs[r].cli, b # Null PROVE Credit(c)' = Credit(c) + SlowStep
        <5>1. /\ b \in Clis /\ clis[b].req = r /\ clis[b].pc = "polling"
              /\ clis[b].device = reqs[r].device
          BY <2>1, <4>3 DEF Typed, Linked, ForStart, Polling, Polls
        <5>2. b = c
          BY <2>2, <3>3, <5>1 DEF Held, Holds
        <5>. QED  BY <2>1, <5>1, <5>2 DEF Credit
      <4>. QED  BY <3>1, <4>1, <4>2, <4>3
    <3>4. CASE clis[c].device # reqs[r].device
      <4>1. /\ authorizations'[clis[c].device].row = authorizations[clis[c].device].row
            /\ authorizations'[clis[c].device].interval
                  = authorizations[clis[c].device].interval
        BY <1>6, <2>2, <3>4 DEF Slows, RowsBut, RowKept, Typed
      <4>2. reqs[r].cli # c
        BY <2>1, <3>4 DEF Linked, ForStart, Polling, Polls
      <4>3. Credit(c)' >= Credit(c)
        BY <1>0, <3>2, <4>2
      <4>. QED  BY <3>1, <4>1, <4>3
    <3>. QED  BY <3>3, <3>4
  <2>. QED  BY <2>1, <2>2, RequestSteady
<1>7. ASSUME NEW r \in Requests, NEW d \in Devices, Grants(r, d) PROVE Paced'
  <2>1. /\ RestOf(r) /\ clis' = clis /\ ~ Filed(d) /\ ~ Polling(r)'
    BY <1>7 DEF Grants, Within, Filed, Polling, Polls
  <2>2. ASSUME NEW c \in Clis, Holds(c)
        PROVE  /\ r \notin Orphans(clis[c].device)'
               /\ authorizations'[clis[c].device].row = authorizations[clis[c].device].row
               /\ authorizations'[clis[c].device].interval
                     = authorizations[clis[c].device].interval
               /\ Credit(c)' >= Credit(c)
    <3>1. clis[c].device # d /\ clis[c].device \in Devices
      BY <2>1, <2>2 DEF Held, Typed
    <3>2. RowKept(clis[c].device)
      BY <1>7, <3>1 DEF Grants, RowsBut
    <3>3. reqs[r].cli # c
      BY <1>7, <2>2 DEF Grants, Linked, ForPoll, Polls, Holds
    <3>4. Credit(c)' = Credit(c)
      BY <2>1, <3>3, CreditKept
    <3>5. r \notin Orphans(clis[c].device)'
      BY <2>1 DEF Orphans
    <3>. QED  BY <1>0, <3>2, <3>4, <3>5 DEF RowKept
  <2>. QED  BY <2>1, <2>2, RequestSteady
<1>8. ASSUME NEW c \in Clis, NEW r \in Requests, Begins(c, r) PROVE Paced'
  <2>1. ~ Holds(c)' /\ RestOf(r) /\ RestBut(c) /\ RowsKept /\ reqs[r] = Idle /\ ~ Polling(r)'
    BY <1>8 DEF Begins, Holds, Polling, Polls
  <2>. QED  BY <2>1, CliSteady
<1>9. ASSUME NEW c \in Clis, NEW r \in Requests, Accepts(c, r) PROVE Paced'
  <2>1. PICK d \in Devices : d = reqs[r].device
    BY <1>9 DEF Accepts, Typed
  <2>2. /\ Ready(r) /\ Fresh(r) /\ reqs[r].cli = c /\ RestOf(r) /\ RestBut(c) /\ RowKept(d)
        /\ clis'[c].device = d /\ clis'[c].pc = "sleeping" /\ ~ Polling(r)'
        /\ RowsKept
    BY <1>9, <2>1 DEF Accepts, Unhurried, Ready, Linked, Waits, RowsKept, Sleeps, Polling, Polls
  <2>3. clis'[c].interval = PollInterval /\ authorizations'[d].interval = PollInterval
    BY <1>9, <2>1, <2>2 DEF Accepts, Fresh, RowKept
  <2>4. Debt(d)' = 0
    <3>1. Orphans(d)' = {}
      BY <2>1, <2>2 DEF Held, Orphans, RestOf, Polling
    <3>2. Cardinality({}) = 0
      BY FS_EmptySet
    <3>3. SlowStep * 0 = 0
      OBVIOUS
    <3>. QED  BY <3>1, <3>2, <3>3 DEF Debt
  <2>5. Credit(c)' = 0
    BY <2>2 DEF Credit
  <2>6. Debt(clis[c].device)' = Debt(d)'
    BY <2>2 DEF Debt, Orphans
  <2>7. Steady(c)'
    <3>1. clis'[c].interval + Credit(c)' >= authorizations'[d].interval + Debt(d)'
      BY <2>3, <2>4, <2>5
    <3>2. clis'[c].interval >= PollInterval
      BY <2>3
    <3>. QED  BY <2>2, <2>6, <3>1, <3>2 DEF Steady
  <2>. QED  BY <2>2, <2>7, CliSteady
<1>10. ASSUME NEW c \in Clis, NEW r \in Requests, Asks(c, r) PROVE Paced'
  <2>1. PICK d \in Devices : d = clis[c].device
    BY <1>10 DEF Asks, Typed, Holds
  <2>2. /\ Steady(c) /\ RestOf(r) /\ RestBut(c) /\ RowKept(d) /\ RowsKept /\ reqs[r] = Idle
        /\ clis'[c].device = d /\ clis'[c].interval = clis[c].interval
        /\ reqs'[r].cli = c /\ c # Null
    BY <1>10, <2>1 DEF Asks, Paced, Holds, RowsKept
  <2>3. Credit(c) = 0 /\ Credit(c)' = 0
    BY <1>10 DEF Asks, Credit
  <2>4. r \notin Orphans(d)'
    BY <2>2 DEF Orphans
  <2>5. Debt(d) \in Nat /\ Debt(d)' \in Nat /\ Debt(d)' <= Debt(d)
    BY <2>2, <2>4, DebtMoves DEF Paced
  <2>6. /\ authorizations[d].interval \in Nat /\ clis[c].interval \in Nat
        /\ authorizations'[d].interval = authorizations[d].interval
        /\ authorizations'[d].row = authorizations[d].row
    BY <2>2 DEF Typed, RowKept
  <2>7. clis'[c].interval + Credit(c)' + authorizations[d].interval + Debt(d)
           >= clis[c].interval + Credit(c) + authorizations'[d].interval + Debt(d)'
    BY <2>2, <2>3, <2>5, <2>6
  <2>8. clis'[c].interval >= clis[c].interval
    BY <2>2, <2>6
  <2>9. Steady(c)'
    BY <2>1, <2>2, <2>5, <2>6, <2>7, <2>8, StaysSteady
  <2>. QED  BY <2>2, <2>9, CliSteady
<1>11. ASSUME NEW c \in Clis, NEW r \in Requests, Resumes(c, r) \/ Abandons(c, r) PROVE Paced'
  <2>1. /\ RestOf(r) /\ RestBut(c) /\ RowsKept /\ reqs[r].cli = c
        /\ Polling(r)' => Polling(r) /\ reqs'[r].device = reqs[r].device
    BY <1>11 DEF Resumes, Abandons, Freed, Linked, Waits, Polling, Polls
  <2>2. Steady(c)'
    BY <1>11, SleepsSteady
  <2>. QED  BY <2>1, <2>2, CliSteady
<1>12. ASSUME NEW c \in Clis, Retires(c) PROVE Paced'
  <2>1. RestBut(c) /\ ~ Holds(c)' /\ RowsKept
    BY <1>12 DEF Retires, Holds
  <2>2. CASE Waits(c)
    <3>1. PICK r \in Requests : r = clis[c].req
      BY <2>2 DEF Typed
    <3>2. /\ RestOf(r) /\ reqs[r].cli = c
          /\ Polling(r)' => Polling(r) /\ reqs'[r].device = reqs[r].device
      BY <1>12, <2>2, <3>1 DEF Retires, Freed, Linked, Polling, Polls
    <3>. QED  BY <2>1, <3>2, CliSteady
  <2>3. CASE ~ Waits(c)
    <3>1. reqs' = reqs
      BY <1>12, <2>3 DEF Retires
    <3>2. \A d : Orphans(d)' = Orphans(d) /\ Debt(d)' = Debt(d)
      BY <3>1 DEF Orphans, Debt, Polling
    <3>3. \A b \in Clis : Holds(b)' => b # c /\ Holds(b) /\ clis'[b] = clis[b]
      BY <2>1 DEF RestBut, Holds
    <3>4. ASSUME NEW b \in Clis, Holds(b)' PROVE Steady(b)'
      <4>1. Steady(b) /\ clis'[b] = clis[b] /\ clis[b].device \in Devices
        BY <3>3, <3>4 DEF Paced, Typed
      <4>2. RowKept(clis[b].device) /\ Credit(b)' = Credit(b)
        BY <2>1, <3>1, <4>1 DEF RowsKept, Credit
      <4>3. Debt(clis[b].device)' = Debt(clis[b].device)
        BY <3>1, <4>1 DEF Debt, Orphans, Polling
      <4>. QED  BY <4>1, <4>2, <4>3 DEF Steady, RowKept
    <3>. QED  BY <3>2, <3>4 DEF Paced
  <2>. QED  BY <2>2, <2>3
<1>. QED  BY <1>1, <1>3, <1>4, <1>5, <1>6, <1>7, <1>8, <1>9, <1>10, <1>11, <1>12 DEF Motion

-------------------------------------------------------------------------------
(* The theorems *)

PaceInv == Linked /\ Held /\ Unhurried /\ Paced

\* What requests, CLIs and rows know of each other, and how long a CLI waits for it
LEMMA PacesAgree == Spec => []PaceInv
<1>1. Init => PaceInv
  <2>. SUFFICES ASSUME Init PROVE PaceInv
    OBVIOUS
  <2>1. /\ \A r \in Requests : reqs[r] = Idle
        /\ \A c \in Clis : clis[c].pc = "out" /\ clis[c].req = Null
        /\ now = 0
    BY DEF Init, Out
  <2>2. Linked
    BY <2>1, IdleIs DEF Linked, Waits
  <2>3. Held /\ Unhurried
    BY <2>1, IdleIs DEF Held, Unhurried, Holds, Ready, Polling, Polls
  <2>4. \A d \in Devices : Orphans(d) = {}
    BY <2>1, IdleIs DEF Orphans, Polling, Polls
  <2>5. Paced
    BY <2>1, <2>4, FS_EmptySet DEF Paced, Holds
  <2>. QED  BY <2>2, <2>3, <2>5 DEF PaceInv
<1>2. TypeInv /\ TypeInv' /\ PaceInv /\ [Next]_vars => PaceInv'
  <2>. SUFFICES ASSUME TypeInv, TypeInv', PaceInv, [Next]_vars PROVE PaceInv'
    OBVIOUS
  <2>1. Typed /\ Typed' /\ Motion
    BY TypesAre, Moves DEF PaceInv
  <2>. QED  BY <2>1, LinkedKept, HeldKept, UnhurriedKept, PacedKept DEF PaceInv
<1>. QED  BY <1>1, <1>2, DeviceTypeCorrect, PTL DEF Spec

\* A CLI that has lost no answer is never told to slow down while its request is
\* kept: its delay starts when it has the answer, so its next poll is never
\* before next_poll_at (device-authorization.ts:128, device-login.ts:112).
THEOREM NeverSlowed == Spec => []NeverSlowedDown
<1>1. PaceInv => NeverSlowedDown
  BY DEF PaceInv, Unhurried, Timely, NeverSlowedDown
<1>. QED  BY <1>1, PacesAgree, PTL

\* The CLI never waits a shorter interval than the one Auth keeps for it, unless
\* it waits as long as it ever backs off to: whatever the requests it has abandoned
\* may still add to Auth's interval, it has added to its own when it abandoned them
\* (device-login.ts:129, 147).
THEOREM PaceIsKept == Spec => []CliKeepsPace
<1>1. TypeInv /\ PaceInv => CliKeepsPace
  <2>. SUFFICES ASSUME TypeInv, PaceInv, NEW c \in Clis, clis[c].pc = "sleeping",
                       authorizations[clis[c].device].row = "present"
                PROVE  \/ clis[c].interval >= authorizations[clis[c].device].interval
                       \/ clis[c].interval >= CliMaxInterval
    BY DEF CliKeepsPace
  <2>1. PICK d : d = clis[c].device
    OBVIOUS
  <2>2. Steady(c) /\ Typed /\ d \in Devices /\ IsFiniteSet(Orphans(d)) /\ Credit(c) = 0
    BY <2>1, TypesAre DEF PaceInv, Paced, Holds, Typed, Credit
  <2>3. Debt(d) \in Nat
    <3>1. Cardinality(Orphans(d)) \in Nat
      BY <2>2, FS_CardinalityType
    <3>2. \A n \in Nat : SlowStep * n \in Nat
      OBVIOUS
    <3>. QED  BY <3>1, <3>2 DEF Debt
  <2>4. clis[c].interval \in Nat /\ authorizations[d].interval \in Nat
    BY <2>2 DEF Typed
  <2>. QED  BY <2>1, <2>2, <2>3, <2>4 DEF Steady
<1>. QED  BY <1>1, PacesAgree, DeviceTypeCorrect, PTL

===============================================================================
