-------------------------- MODULE DeviceAuthorization --------------------------
(***************************************************************************)
(* Browser approval of a command line login: Auth's tables                 *)
(* agent_authorizations and agent_tokens, the requests that read and write *)
(* them, and the CLI's polling loop on the other side of the network.      *)
(*                                                                         *)
(* A poll is three or four D1 statements with one Date.now() captured      *)
(* before the first of them.  The CLI abandons an exchange after 15 s; the *)
(* request it has abandoned may still arrive, run to its end and write.    *)
(*                                                                         *)
(* The CLIs share one network address (the request budget is per address)  *)
(* and one credential file.  Codes and tokens are identifiers never taken  *)
(* twice; a deleted row keeps its columns for the properties to speak of.  *)
(***************************************************************************)
EXTENDS Naturals, FiniteSets

CONSTANTS
    Devices,      \* device codes, one for each browser login that is started
    Tokens,       \* agent tokens
    Clis,         \* CLI processes
    Requests,     \* requests on the network or in the Worker
    Emails, Days, Null,
    Lifetime,     \* LIFETIME_MS
    PollInterval, \* POLL_SECONDS
    SlowStep,     \* what slow_down adds to an interval
    MaxInterval, CliMaxInterval,
    Budget,       \* requests per address and Lifetime
    Faults,       \* subset of {"network", "server", "body", "user"}; "body" is an answer
                  \* that breaks off, "user" is SIGINT or a configuration directory that
                  \* cannot be written
    MaxTime       \* bound on the clock

ASSUME DeviceAssumption ==
    /\ Lifetime \in Nat \ {0} /\ PollInterval \in Nat \ {0} /\ SlowStep \in Nat
    /\ MaxInterval \in Nat /\ CliMaxInterval \in Nat /\ Budget \in Nat
    /\ MaxTime \in Nat
    /\ SlowStep <= PollInterval /\ PollInterval <= CliMaxInterval
    /\ Emails # {} /\ Days \subseteq Nat \ {0}
    /\ Null \notin Devices \cup Tokens \cup Clis \cup Requests \cup Emails

VARIABLES
    now,
    owner,           \* OWNER_EMAIL of the current deployment
    authorizations,  \* agent_authorizations
    agentTokens,     \* agent_tokens
    reqs,
    clis,
    credential       \* the token in the credential file

server == <<authorizations, agentTokens>>
vars   == <<now, owner, authorizations, agentTokens, reqs, clis, credential>>

-------------------------------------------------------------------------------
(* Rows, requests and processes *)

NoAuthorization ==
    [row |-> "unused", email |-> Null, status |-> "pending", days |-> 0,
     createdAt |-> 0, expiresAt |-> 0, nextPollAt |-> 0, interval |-> 0]

NoToken == [row |-> "unused", device |-> Null, email |-> Null, expiresAt |-> 0]

Idle == [pc |-> "idle", cli |-> Null, device |-> Null, email |-> Null, now |-> 0,
         status |-> "pending", answer |-> "none", interval |-> 0, token |-> Null]

Out == [pc |-> "out", req |-> Null, device |-> Null, deadline |-> 0,
        interval |-> 0, wake |-> 0, lost |-> FALSE, token |-> Null]

Statuses  == {"pending", "approved", "denied", "consumed"}
Rows      == {"unused", "present", "deleted"}
Answers   == {"none", "granted", "rate_limited", "expired_token", "access_denied",
              "slow_down", "authorization_pending", "token", "unavailable"}
ServerPcs == {"sentStart", "start", "sentPoll", "select", "slot", "slow", "issue",
              "approve", "deny"}
CliPcs    == {"out", "starting", "sleeping", "polling", "saving", "in", "denied",
              "expired", "failed"}

Authorization ==
    [row : Rows, email : Emails \cup {Null}, status : Statuses, days : Nat,
     createdAt : Nat, expiresAt : Nat, nextPollAt : Nat, interval : Nat]

AgentToken ==
    [row : Rows, device : Devices \cup {Null}, email : Emails \cup {Null},
     expiresAt : Nat]

Request ==
    [pc : ServerPcs \cup {"idle", "answered"}, cli : Clis \cup {Null},
     device : Devices \cup {Null}, email : Emails \cup {Null}, now : Nat,
     status : Statuses, answer : Answers, interval : Nat, token : Tokens \cup {Null}]

Process ==
    [pc : CliPcs, req : Requests \cup {Null}, device : Devices \cup {Null},
     deadline : Nat, interval : Nat, wake : Nat, lost : BOOLEAN,
     token : Tokens \cup {Null}]

TypeOK ==
    /\ now \in Nat
    /\ owner \in Emails
    /\ authorizations \in [Devices -> Authorization]
    /\ agentTokens \in [Tokens -> AgentToken]
    /\ reqs \in [Requests -> Request]
    /\ clis \in [Clis -> Process]
    /\ credential \in Tokens \cup {Null}

Init ==
    /\ now = 0
    /\ owner \in Emails
    /\ authorizations = [d \in Devices |-> NoAuthorization]
    /\ agentTokens = [t \in Tokens |-> NoToken]
    /\ reqs = [r \in Requests |-> Idle]
    /\ clis = [c \in Clis |-> Out]
    /\ credential = Null

Smaller(m, n) == IF m <= n THEN m ELSE n
Larger(m, n)  == IF m >= n THEN m ELSE n

-------------------------------------------------------------------------------
(* The Worker *)

\* The request runs on with q; or it answers.
Advance(r, q) == reqs' = [reqs EXCEPT ![r] = q]
Goto(r, a)    == Advance(r, [reqs[r] EXCEPT !.pc = a])
Answer(r, a)  == Advance(r, [reqs[r] EXCEPT !.pc = "answered", !.answer = a])

\* Date.now() is captured once, and the deployment's owner with it.
Arrive(r) ==
    /\ reqs[r].pc \in {"sentStart", "sentPoll"}
    /\ Advance(r, [reqs[r] EXCEPT !.pc = IF @ = "sentStart" THEN "start" ELSE "select",
                                  !.now = now, !.email = owner])
    /\ UNCHANGED <<now, owner, server, clis, credential>>

\* The requests of the last Lifetime, as a start that began at n counts them
Recent(n) == {d \in Devices : /\ authorizations[d].row = "present"
                              /\ authorizations[d].createdAt + Lifetime > n}

\* Mutant: the budget counts only what is still undecided.
WithinBudget_Pending(n) ==
    Cardinality({d \in Recent(n) : authorizations[d].status = "pending"}) < Budget

WithinBudget(n) == Cardinality(Recent(n)) < Budget

\* start: INSERT SELECT ... WHERE (count) < 10, one statement
Start(r) ==
    LET n == reqs[r].now IN
    /\ reqs[r].pc = "start"
    /\ \/ /\ WithinBudget(n)
          /\ \E d \in Devices :
               /\ authorizations[d] = NoAuthorization
               /\ authorizations' = [authorizations EXCEPT ![d] =
                     [row |-> "present", email |-> reqs[r].email,
                      status |-> "pending", days |-> 30, createdAt |-> n,
                      expiresAt |-> n + Lifetime,
                      nextPollAt |-> n + PollInterval, interval |-> PollInterval]]
               /\ Advance(r, [reqs[r] EXCEPT !.pc = "answered", !.answer = "granted",
                                 !.device = d, !.interval = PollInterval])
       \/ /\ ~ WithinBudget(n)
          /\ Answer(r, "rate_limited")
          /\ UNCHANGED authorizations
    /\ UNCHANGED <<now, owner, agentTokens, clis, credential>>

\* decide: the owner's form, from a browser that Auth has found signed in.
\* The last free slot is left to the CLIs.
BeginDecide(r) ==
    /\ reqs[r] = Idle
    /\ \E s \in Requests \ {r} : reqs[s] = Idle
    /\ \E d \in Devices, pc \in {"approve", "deny"} :
        /\ authorizations[d].row # "unused"
        /\ Advance(r, [Idle EXCEPT !.pc = pc, !.device = d, !.email = owner, !.now = now])
    /\ UNCHANGED <<now, owner, server, clis, credential>>

\* UPDATE ... WHERE status = 'pending' AND expires_at > stamp; 409 otherwise
Decidable(r, stamp) ==
    LET a == authorizations[reqs[r].device] IN
    /\ a.row = "present" /\ a.email = reqs[r].email
    /\ a.status = "pending" /\ a.expiresAt > stamp

Decide(r) ==
    LET d == reqs[r].device IN
    /\ reqs[r].pc \in {"approve", "deny"}
    /\ \E stamp \in reqs[r].now .. now :
        \/ /\ Decidable(r, stamp)
           /\ \E days \in Days :
                authorizations' = [authorizations EXCEPT
                    ![d].status = IF reqs[r].pc = "approve" THEN "approved" ELSE "denied",
                    ![d].days   = IF reqs[r].pc = "approve" THEN days ELSE 30]
        \/ /\ ~ Decidable(r, stamp)
           /\ UNCHANGED authorizations
    /\ Advance(r, Idle)
    /\ UNCHANGED <<now, owner, agentTokens, clis, credential>>

\* poll: SELECT the record, and answer for what is final
PollSelect(r) ==
    LET q == reqs[r]  a == authorizations[q.device] IN
    /\ q.pc = "select"
    /\ IF a.row # "present" \/ a.email # q.email \/ a.expiresAt <= q.now
             \/ a.status = "consumed"
         THEN Answer(r, "expired_token")
         ELSE IF a.status = "denied" THEN Answer(r, "access_denied")
         ELSE Advance(r, [q EXCEPT !.pc = "slot", !.status = a.status])
    /\ UNCHANGED <<now, owner, server, clis, credential>>

\* Mutant: a poll at the very instant it was told to come is too early.
SlotFree_Strict(a, n) == a.row = "present" /\ a.nextPollAt < n /\ a.expiresAt > n

SlotFree(a, n) == a.row = "present" /\ a.nextPollAt <= n /\ a.expiresAt > n

\* UPDATE next_poll_at: reserve the polling slot
ReserveSlot(r) ==
    LET q == reqs[r]  a == authorizations[q.device] IN
    /\ q.pc = "slot"
    /\ \/ /\ SlotFree(a, q.now)
          /\ authorizations' =
               [authorizations EXCEPT ![q.device].nextPollAt = q.now + a.interval]
          /\ IF q.status = "pending" THEN Answer(r, "authorization_pending")
                                     ELSE Goto(r, "issue")
       \/ /\ ~ SlotFree(a, q.now)
          /\ Goto(r, "slow")
          /\ UNCHANGED authorizations
    /\ UNCHANGED <<now, owner, agentTokens, clis, credential>>

\* Mutant: no row was updated and there is no interval to answer with.
FallbackInterval_Undefined == Null

FallbackInterval == PollInterval + SlowStep

\* No slot: UPDATE interval and next_poll_at, or nothing if the row is gone
SlowDown(r) ==
    LET q == reqs[r]  a == authorizations[q.device]
        slower == Smaller(a.interval + SlowStep, MaxInterval) IN
    /\ q.pc = "slow"
    /\ \/ /\ a.row = "present"
          /\ authorizations' = [authorizations EXCEPT
                ![q.device].interval = slower, ![q.device].nextPollAt = q.now + slower]
          /\ Advance(r, [q EXCEPT !.pc = "answered", !.answer = "slow_down",
                                  !.interval = slower])
       \/ /\ a.row # "present"
          /\ Advance(r, [q EXCEPT !.pc = "answered", !.answer = "slow_down",
                                  !.interval = FallbackInterval])
          /\ UNCHANGED authorizations
    /\ UNCHANGED <<now, owner, agentTokens, clis, credential>>

\* Mutant: the insert trusts the record that the poll has read.
Eligible_Read(q) ==
    LET a == authorizations[q.device] IN
    /\ a.row = "present" /\ q.status = "approved" /\ a.email = q.email
    /\ a.expiresAt > q.now

Eligible(q) ==
    LET a == authorizations[q.device] IN
    /\ a.row = "present" /\ a.status = "approved" /\ a.email = q.email
    /\ a.expiresAt > q.now

\* Mutant: the batch consumes the request and inserts nothing.
InsertToken_Lost(t, q) == agentTokens' = agentTokens

InsertToken(t, q) ==
    agentTokens' = [agentTokens EXCEPT ![t] =
        [row |-> "present", device |-> q.device,
         email |-> authorizations[q.device].email,
         expiresAt |-> q.now + authorizations[q.device].days]]

\* The batch: INSERT the token and UPDATE status = 'consumed', or neither
Issue(r) ==
    LET q == reqs[r] IN
    /\ q.pc = "issue"
    /\ \/ /\ Eligible(q)
          /\ \E t \in Tokens :
               /\ agentTokens[t] = NoToken
               /\ InsertToken(t, q)
               /\ authorizations' =
                    [authorizations EXCEPT ![q.device].status = "consumed"]
               /\ Advance(r, [q EXCEPT !.pc = "answered", !.answer = "token", !.token = t])
       \/ /\ ~ Eligible(q)
          /\ Answer(r, "authorization_pending")
          /\ UNCHANGED server
    /\ UNCHANGED <<now, owner, clis, credential>>

\* A statement fails, or ran and was not heard of: the Worker answers 503.
ServerFails(r) ==
    /\ "server" \in Faults
    /\ reqs[r].pc \in ServerPcs \cup {"answered"}
    /\ reqs[r].answer # "unavailable"
    /\ Advance(r, IF reqs[r].cli = Null THEN Idle
                  ELSE [reqs[r] EXCEPT !.pc = "answered", !.answer = "unavailable",
                                       !.token = Null])
    /\ UNCHANGED <<now, owner, server, clis, credential>>

\* Token management at the Auth home: create, revoke.  The last unused token is
\* left to the devices.
MakeToken ==
    /\ \E t \in Tokens, days \in Days :
        /\ agentTokens[t] = NoToken
        /\ \E u \in Tokens \ {t} : agentTokens[u] = NoToken
        /\ agentTokens' = [agentTokens EXCEPT ![t] =
              [row |-> "present", device |-> Null, email |-> owner,
               expiresAt |-> now + days]]
    /\ UNCHANGED <<now, owner, authorizations, reqs, clis, credential>>

RevokeToken ==
    /\ \E t \in Tokens :
        /\ agentTokens[t].row = "present" /\ agentTokens[t].email = owner
        /\ agentTokens' = [agentTokens EXCEPT ![t].row = "deleted"]
    /\ UNCHANGED <<now, owner, authorizations, reqs, clis, credential>>

\* The scheduled sweep: two statements of two stores
Swept(table) == [id \in DOMAIN table |->
    IF table[id].row = "present" /\ table[id].expiresAt <= now
      THEN [table[id] EXCEPT !.row = "deleted"] ELSE table[id]]

SweepTokens ==
    /\ agentTokens' = Swept(agentTokens)
    /\ UNCHANGED <<now, owner, authorizations, reqs, clis, credential>>

SweepAuthorizations ==
    /\ authorizations' = Swept(authorizations)
    /\ UNCHANGED <<now, owner, agentTokens, reqs, clis, credential>>

Redeploy ==
    /\ owner' \in Emails \ {owner}
    /\ UNCHANGED <<now, server, reqs, clis, credential>>

-------------------------------------------------------------------------------
(* The CLI: browserLogin *)

Become(c, p) == clis' = [clis EXCEPT ![c] = p]
End(c, pc)   == Become(c, [Out EXCEPT !.pc = pc])

Resting == {"out", "in", "denied", "expired", "failed"}

BeginLogin(c) ==
    /\ clis[c].pc \in Resting
    /\ now + Lifetime <= MaxTime
    /\ \E r \in Requests :
        /\ reqs[r] = Idle
        /\ Advance(r, [Idle EXCEPT !.pc = "sentStart", !.cli = c])
        /\ Become(c, [Out EXCEPT !.pc = "starting", !.req = r])
    /\ UNCHANGED <<now, owner, server, credential>>

\* while (Date.now() < deadline) delay(min(interval, deadline - now))
Sleep(c, p) ==
    IF now < p.deadline
      THEN Become(c, [p EXCEPT !.pc = "sleeping", !.req = Null,
                               !.wake = now + Smaller(p.interval, p.deadline - now)])
      ELSE End(c, "expired")

\* The answer to the start request; no retry if there is none.
Granted(c) ==
    LET r == clis[c].req  q == reqs[r] IN
    /\ clis[c].pc = "starting" /\ q.pc = "answered"
    /\ IF q.answer = "granted"
         THEN Sleep(c, [clis[c] EXCEPT !.device = q.device, !.interval = q.interval,
                                       !.deadline = now + Lifetime])
         ELSE End(c, "failed")
    /\ Advance(r, Idle)
    /\ UNCHANGED <<now, owner, server, credential>>

\* Mutant: the deadline is not looked at again after the delay.
DeadlinePassed_Never(c) == FALSE

DeadlinePassed(c) == now >= clis[c].deadline

Wake(c) ==
    /\ clis[c].pc = "sleeping" /\ now >= clis[c].wake
    /\ \/ /\ DeadlinePassed(c)
          /\ End(c, "expired")
          /\ UNCHANGED reqs
       \/ /\ ~ DeadlinePassed(c)
          /\ \E r \in Requests :
               /\ reqs[r] = Idle
               /\ Advance(r, [Idle EXCEPT !.pc = "sentPoll", !.cli = c,
                                          !.device = clis[c].device])
               /\ Become(c, [clis[c] EXCEPT !.pc = "polling", !.req = r])
    /\ UNCHANGED <<now, owner, server, credential>>

\* Mutant: an unreachable service is retried at the same pace as a reachable one.
BackOff_None(p) == [p EXCEPT !.interval = p.interval]

BackOff(p) == [p EXCEPT !.interval = Smaller(2 * p.interval, CliMaxInterval)]

Obey(p, interval) == [p EXCEPT !.interval = Larger(p.interval + SlowStep, interval)]

Polled(c) ==
    LET p == clis[c]  r == p.req  q == reqs[r] IN
    /\ p.pc = "polling" /\ q.pc = "answered"
    /\ \/ /\ q.answer = "token"
          /\ IF agentTokens[q.token].expiresAt > now
               THEN Become(c, [p EXCEPT !.pc = "saving", !.req = Null, !.token = q.token])
               ELSE End(c, "failed")
       \/ q.answer = "access_denied" /\ End(c, "denied")
       \/ q.answer = "expired_token" /\ End(c, "expired")
       \/ q.answer = "authorization_pending" /\ Sleep(c, p)
       \/ q.answer = "slow_down" /\ Sleep(c, Obey(p, q.interval))
       \/ q.answer = "unavailable" /\ Sleep(c, BackOff(p))
    /\ Advance(r, Idle)
    /\ UNCHANGED <<now, owner, server, credential>>

\* The exchange is abandoned: connection refused, or 15 s without an answer.
\* What was sent may be lost, or still be on its way; lost remembers it (history).
Unreachable(c) ==
    LET p == clis[c]  r == p.req IN
    /\ "network" \in Faults
    /\ p.pc \in {"starting", "polling"}
    /\ IF p.pc = "starting" THEN End(c, "failed") ELSE Sleep(c, [BackOff(p) EXCEPT !.lost = TRUE])
    /\ \/ /\ reqs[r].pc \in {"sentStart", "sentPoll", "answered"}
          /\ Advance(r, Idle)
       \/ /\ reqs[r].pc # "answered"
          /\ Advance(r, [reqs[r] EXCEPT !.cli = Null])
    /\ UNCHANGED <<now, owner, server, credential>>

\* Nobody waits for this answer any more.
DropAnswer(r) ==
    /\ reqs[r].pc = "answered" /\ reqs[r].cli = Null
    /\ Advance(r, Idle)
    /\ UNCHANGED <<now, owner, server, clis, credential>>

\* saveCredential: a new file renamed over the old one, or an error
Save(c) ==
    /\ clis[c].pc = "saving"
    /\ \/ credential' = clis[c].token /\ Become(c, [Out EXCEPT
                !.pc = "in", !.device = clis[c].device, !.token = clis[c].token])
       \/ "user" \in Faults /\ credential' = credential /\ End(c, "failed")
    /\ UNCHANGED <<now, owner, server, reqs>>

\* The body of an answer breaks off after its headers: invalid_response, no retry.
Garbled(c) ==
    /\ "body" \in Faults
    /\ clis[c].pc \in {"starting", "polling"} /\ reqs[clis[c].req].pc = "answered"

\* The login ends: SIGINT aborts the delay or the request, or its answer is garbled.
Cancel(c) ==
    LET p == clis[c] IN
    /\ "user" \in Faults \/ Garbled(c)
    /\ p.pc \in {"starting", "sleeping", "polling"}
    /\ End(c, "failed")
    /\ IF p.req = Null THEN UNCHANGED reqs
       ELSE Advance(p.req, [reqs[p.req] EXCEPT !.cli = Null])
    /\ UNCHANGED <<now, owner, server, credential>>

\* auth logout forgets the token and leaves it valid.
Logout ==
    /\ credential' = Null
    /\ UNCHANGED <<now, owner, server, reqs, clis>>

\* The clock stops at MaxTime, which no deadline may exceed.
Tick ==
    /\ now < MaxTime
    /\ now + Lifetime >= MaxTime => \A c \in Clis : clis[c].pc # "starting"
    /\ now' = now + 1
    /\ UNCHANGED <<owner, server, reqs, clis, credential>>

-------------------------------------------------------------------------------

Serve(r) == \/ Arrive(r) \/ Start(r) \/ Decide(r) \/ PollSelect(r)
            \/ ReserveSlot(r) \/ SlowDown(r) \/ Issue(r)

Run(c) == Granted(c) \/ Wake(c) \/ Polled(c) \/ Save(c)

Next ==
    \/ \E r \in Requests : \/ Serve(r) \/ BeginDecide(r) \/ ServerFails(r)
                           \/ DropAnswer(r)
    \/ \E c \in Clis : BeginLogin(c) \/ Run(c) \/ Unreachable(c) \/ Cancel(c)
    \/ MakeToken \/ RevokeToken \/ SweepTokens \/ SweepAuthorizations
    \/ Redeploy \/ Logout \/ Tick

Spec == Init /\ [][Next]_vars

\* Time passes and the CLI's own timers fire, the one that abandons an
\* unanswered exchange included; nothing is asked of the server.
CliFairSpec ==
    /\ Spec /\ WF_vars(Tick)
    /\ \A c \in Clis : WF_vars(Run(c)) /\ WF_vars(Unreachable(c))
    /\ \A r \in Requests : WF_vars(DropAnswer(r))

-------------------------------------------------------------------------------
(* Properties *)

\* However many polls of one device overlap (an abandoned one that arrives late
\* beside its successor), the device gets at most one token
\* (device-authorization.ts:160, "only one poll wins").
OneTokenPerDevice ==
    \A t, u \in Tokens :
        agentTokens[t].device # Null /\ agentTokens[t].device = agentTokens[u].device
            => t = u

\* A request is consumed exactly when its token has been issued: the approval
\* page, which shows token management once it reads "consumed", never does so
\* before the token exists (device-authorization.ts:159).
ConsumedMeansIssued ==
    \A d \in Devices :
        authorizations[d].status = "consumed" <=>
            \E t \in Tokens : agentTokens[t].device = d

\* In any Lifetime at most Budget requests are accepted from one address,
\* counting the ones that were decided, consumed or swept, although each start
\* counts with a clock reading that may be old when it inserts.
BudgetHolds ==
    Cardinality({d \in Devices : /\ authorizations[d].row # "unused"
                                 /\ authorizations[d].createdAt + Lifetime > now})
        <= Budget

\* The CLI never waits a shorter interval than the one Auth keeps for it, although
\* Auth may lengthen its own in an exchange that the CLI has abandoned, unless it
\* waits as long as it ever backs off to (device-login.ts:129, 147).
CliKeepsPace ==
    \A c \in Clis :
        clis[c].pc = "sleeping" /\ authorizations[clis[c].device].row = "present"
            => \/ clis[c].interval >= authorizations[clis[c].device].interval
               \/ clis[c].interval >= CliMaxInterval

\* A CLI that has lost no answer is never told to slow down while its request is
\* kept: its delay starts when it has the answer, so its next poll is never
\* before next_poll_at (device-authorization.ts:128, device-login.ts:112).
NeverSlowedDown ==
    \A r \in Requests :
        LET q == reqs[r] IN
        q.answer = "slow_down" /\ q.cli # Null =>
            authorizations[q.device].row = "deleted" \/ clis[q.cli].lost

\* A login that was started ends, whatever the network and Auth do
\* (device-login.ts:110, 118).
LoginEnds ==
    \A c \in Clis : clis[c].pc \notin Resting ~> clis[c].pc \in Resting

\* The tables implement the promise of DeviceGrant.
grantOf == [d \in Devices |->
    CASE authorizations[d].row = "unused" -> "none"
      [] /\ authorizations[d].row = "present"
         /\ authorizations[d].status \in {"pending", "approved"}
             -> authorizations[d].status
      [] OTHER -> "closed"]

tokenOf == [t \in Tokens |->
    [state  |-> CASE agentTokens[t].row = "unused"  -> "none"
                  [] agentTokens[t].row = "present" -> "live"
                  [] agentTokens[t].row = "deleted" -> "ended",
     device |-> agentTokens[t].device]]

Grant == INSTANCE DeviceGrant WITH grant <- grantOf, token <- tokenOf

ImplementsDeviceGrant == Grant!Spec
===============================================================================
