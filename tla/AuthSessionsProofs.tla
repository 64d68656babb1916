-------------------------- MODULE AuthSessionsProofs --------------------------
(***************************************************************************)
(* Theorems about AuthSessions, for any sets of tokens, clients, requests  *)
(* and deployments and any lifetimes.                                      *)
(***************************************************************************)
EXTENDS AuthSessions, TLAPS

USE SessionsAssumption

-------------------------------------------------------------------------------
(* Deleting rows *)

\* Deleting rows leaves every table a table of its rows (sessions.ts, cleanup).
LEMMA PurgeType ==
    ASSUME NEW doomed
    PROVE  /\ loginSessions \in [Logins -> LoginRow]
                 => Purge(loginSessions, doomed) \in [Logins -> LoginRow]
           /\ handoffs \in [Codes -> HandoffRow]
                 => Purge(handoffs, doomed) \in [Codes -> HandoffRow]
           /\ appSessions \in [Tokens -> SessionRow]
                 => Purge(appSessions, doomed) \in [Tokens -> SessionRow]
           /\ loginFlows \in [Flows -> FlowRow]
                 => Purge(loginFlows, doomed) \in [Flows -> FlowRow]
<1>1. loginSessions \in [Logins -> LoginRow]
         => Purge(loginSessions, doomed) \in [Logins -> LoginRow]
  BY DEF Purge, LoginRow, NoLogin, Used
<1>2. handoffs \in [Codes -> HandoffRow]
         => Purge(handoffs, doomed) \in [Codes -> HandoffRow]
  BY DEF Purge, HandoffRow, NoHandoff, Used
<1>3. appSessions \in [Tokens -> SessionRow]
         => Purge(appSessions, doomed) \in [Tokens -> SessionRow]
  BY DEF Purge, SessionRow, NoSession, Used
<1>4. loginFlows \in [Flows -> FlowRow]
         => Purge(loginFlows, doomed) \in [Flows -> FlowRow]
  BY DEF Purge, FlowRow, NoFlow, Used
<1>. QED  BY <1>1, <1>2, <1>3, <1>4

-------------------------------------------------------------------------------
(* Types *)

\* A deployment names an owner and clients that exist.
LEMMA EnvType ==
    \A e \in Envs : e.owner \in Emails /\ e.allowed \subseteq Clients
OBVIOUS

\* Storing a well-formed request keeps the requests well-formed.
LEMMA StoreRequest ==
    ASSUME TypeInv, NEW r \in Requests, NEW q \in Request, RequestOK(q),
           reqs' = [reqs EXCEPT ![r] = q], now' = now
    PROVE  (reqs \in [Requests -> Request])' /\ RequestsOK'
BY DEF TypeInv, TypeOK, RequestsOK, RequestOK

\* A request that has answered is well-formed, and so are the others.
LEMMA FinishRequest ==
    ASSUME TypeInv, NEW r \in Requests, Finish(r), now' = now
    PROVE  (reqs \in [Requests -> Request])' /\ RequestsOK'
<1>1. Idle \in Request /\ RequestOK(Idle)
  BY DEF Idle, Request, RequestOK, Awaits, Answered, TypeInv, TypeOK
<1>. QED  BY <1>1, StoreRequest DEF Finish, Advance

\* A request that has just arrived: its deployment, its instant, nothing else.
LEMMA NewFields ==
    ASSUME TypeInv, NEW a \in Awaits
    PROVE  /\ New(a) \in Request
           /\ New(a).pc = a /\ New(a).env = env /\ New(a).since = now
           /\ New(a).clientId = Null /\ New(a).verifier = Null
BY DEF New, Request, TypeInv, TypeOK

\* Whatever arrives is well-formed, and not in the middle of anything.
LEMMA ArriveRequest ==
    ASSUME TypeInv, NEW r \in Requests, Arrive(r)
    PROVE  \E q \in Request : /\ RequestOK(q)
                              /\ q.pc \notin {"grant", "findDevice", "createLogin",
                                             "authenticated"}
                              /\ Begin(r, q)
<1>. DEFINE Fresh(q) == q.pc \notin {"grant", "findDevice", "createLogin",
                                    "authenticated"}
<1>1. ASSUME NEW q \in Request, RequestOK(q), Fresh(q), Begin(r, q)
      PROVE  \E x \in Request : RequestOK(x) /\ Fresh(x) /\ Begin(r, x)
  BY <1>1
<1>2. env \in Envs /\ now \in Nat /\ env.allowed \subseteq Clients
  BY EnvType DEF TypeInv, TypeOK
<1>3. CASE BeginAuthorize(r)
  <2>1. ASSUME NEW client \in Clients, NEW v \in Verifiers, NEW l \in Logins, NEW p, p = New("lookup"),
               NEW q, q = [p EXCEPT !.clientId = client, !.verifier = v, !.login = l]
        PROVE  q \in Request /\ RequestOK(q) /\ Fresh(q)
    <3>1. p \in Request
      BY <2>1, NewFields DEF Awaits
    <3>2. q \in Request
      BY <2>1, <3>1, ZenonT(30) DEF Request
    <3>3. q.pc = "lookup" /\ q.env = env /\ q.since = now /\ q.clientId = client /\ q.verifier = v /\ q.login = l
      BY <2>1, NewFields DEF Request, Awaits
    <3>. QED  BY <1>2, <3>2, <3>3 DEF RequestOK, Awaits
  <2>. QED  BY <1>1, <1>2, <1>3, <2>1 DEF BeginAuthorize
<1>4. CASE BeginLogin(r)
  <2>1. ASSUME NEW client \in Clients, NEW v \in Verifiers, NEW p, p = New("startFlow"),
               NEW q, q = [p EXCEPT !.clientId = client, !.verifier = v]
        PROVE  q \in Request /\ RequestOK(q) /\ Fresh(q)
    <3>1. p \in Request
      BY <2>1, NewFields DEF Awaits
    <3>2. q \in Request
      BY <2>1, <3>1, ZenonT(30) DEF Request
    <3>3. q.pc = "startFlow" /\ q.env = env /\ q.since = now /\ q.clientId = client /\ q.verifier = v
      BY <2>1, NewFields DEF Request, Awaits
    <3>. QED  BY <1>2, <3>2, <3>3 DEF RequestOK, Awaits
  <2>. QED  BY <1>1, <1>2, <1>4, <2>1 DEF BeginLogin
<1>5. CASE BeginAgentLogin(r)
  <2>1. ASSUME NEW p, p = New("startAgentFlow"), NEW q, q = p
        PROVE  q \in Request /\ RequestOK(q) /\ Fresh(q)
    <3>1. p \in Request
      BY <2>1, NewFields DEF Awaits
    <3>2. q \in Request
      BY <2>1, <3>1 DEF Request
    <3>3. q.pc = "startAgentFlow" /\ q.env = env /\ q.since = now
      BY <2>1, NewFields DEF Request, Awaits
    <3>. QED  BY <1>2, <3>2, <3>3 DEF RequestOK, Awaits
  <2>. QED  BY <1>1, <1>2, <1>5, <2>1 DEF BeginAgentLogin
<1>6. CASE BeginCallback(r)
  <2>1. ASSUME NEW f \in Flows, NEW p, p = New("consumeAgentFlow"),
               NEW q, q = [p EXCEPT !.flow = f]
        PROVE  q \in Request /\ RequestOK(q) /\ Fresh(q)
    <3>1. p \in Request
      BY <2>1, NewFields DEF Awaits
    <3>2. q \in Request
      BY <2>1, <3>1 DEF Request
    <3>3. q.pc = "consumeAgentFlow" /\ q.env = env /\ q.since = now /\ q.flow = f /\ q.clientId = Null
      BY <2>1, NewFields DEF Request, Awaits
    <3>. QED  BY <1>2, <3>2, <3>3 DEF RequestOK, Awaits
  <2>. QED  BY <1>1, <1>2, <1>6, <2>1 DEF BeginCallback
<1>7. CASE BeginExchange(r)
  <2>1. ASSUME NEW client \in Clients, NEW c \in Codes, NEW v \in Verifiers, NEW p, p = New("consume"),
               NEW q, q = [p EXCEPT !.clientId = client, !.code = c, !.verifier = v]
        PROVE  q \in Request /\ RequestOK(q) /\ Fresh(q)
    <3>1. p \in Request
      BY <2>1, NewFields DEF Awaits
    <3>2. q \in Request
      BY <2>1, <3>1, ZenonT(30) DEF Request
    <3>3. q.pc = "consume" /\ q.env = env /\ q.since = now /\ q.clientId = client /\ q.code = c /\ q.verifier = v
      BY <2>1, NewFields DEF Request, Awaits
    <3>. QED  BY <1>2, <3>2, <3>3 DEF RequestOK, Awaits
  <2>. QED  BY <1>1, <1>2, <1>7, <2>1 DEF BeginExchange
<1>8. CASE BeginValidate(r)
  <2>1. ASSUME NEW client \in Clients, NEW t \in Tokens, NEW p, p = New("confirm"),
               NEW q, q = [p EXCEPT !.clientId = client, !.token = t]
        PROVE  q \in Request /\ RequestOK(q) /\ Fresh(q)
    <3>1. p \in Request
      BY <2>1, NewFields DEF Awaits
    <3>2. q \in Request
      BY <2>1, <3>1, ZenonT(30) DEF Request
    <3>3. q.pc = "confirm" /\ q.env = env /\ q.since = now /\ q.clientId = client /\ q.token = t
      BY <2>1, NewFields DEF Request, Awaits
    <3>. QED  BY <1>2, <3>2, <3>3 DEF RequestOK, Awaits
  <2>. QED  BY <1>1, <1>2, <1>8, <2>1 DEF BeginValidate
<1>9. CASE BeginRevokeSession(r)
  <2>1. ASSUME NEW client \in Clients, NEW t \in Tokens, NEW p, p = New("revokeSession"),
               NEW q, q = [p EXCEPT !.clientId = client, !.token = t]
        PROVE  q \in Request /\ RequestOK(q) /\ Fresh(q)
    <3>1. p \in Request
      BY <2>1, NewFields DEF Awaits
    <3>2. q \in Request
      BY <2>1, <3>1, ZenonT(30) DEF Request
    <3>3. q.pc = "revokeSession" /\ q.env = env /\ q.since = now /\ q.clientId = client /\ q.token = t
      BY <2>1, NewFields DEF Request, Awaits
    <3>. QED  BY <1>2, <3>2, <3>3 DEF RequestOK, Awaits
  <2>. QED  BY <1>1, <1>2, <1>9, <2>1 DEF BeginRevokeSession
<1>10. CASE BeginRevokeLogin(r)
  <2>1. ASSUME NEW l \in Logins, NEW p, p = New("revokeLogin"),
               NEW q, q = [p EXCEPT !.login = l]
        PROVE  q \in Request /\ RequestOK(q) /\ Fresh(q)
    <3>1. p \in Request
      BY <2>1, NewFields DEF Awaits
    <3>2. q \in Request
      BY <2>1, <3>1 DEF Request
    <3>3. q.pc = "revokeLogin" /\ q.env = env /\ q.since = now /\ q.login = l
      BY <2>1, NewFields DEF Request, Awaits
    <3>. QED  BY <1>2, <3>2, <3>3 DEF RequestOK, Awaits
  <2>. QED  BY <1>1, <1>2, <1>10, <2>1 DEF BeginRevokeLogin
<1>. QED  BY <1>3, <1>4, <1>5, <1>6, <1>7, <1>8, <1>9, <1>10 DEF Arrive

\* The arrival of a request keeps the types and the requests well-formed.
LEMMA BeginType ==
    ASSUME TypeInv, NEW r \in Requests, Arrive(r)
    PROVE  TypeInv'
<1>1. PICK q \in Request : RequestOK(q) /\ Begin(r, q)
  BY ArriveRequest
<1>. QED  BY <1>1, StoreRequest DEF Begin, TypeInv, TypeOK, tables

\* A request that moves on from one await to the next.
LEMMA AwaitingFields ==
    ASSUME TypeInv, NEW r \in Requests, NEW a \in Awaits \cup Answered
    PROVE  LET q == Awaiting(r, a) IN
           /\ q \in Request
           /\ q.pc = a /\ q.since = now
           /\ q.env = reqs[r].env /\ q.clientId = reqs[r].clientId
           /\ q.verifier = reqs[r].verifier /\ q.login = reqs[r].login
           /\ q.code = reqs[r].code /\ q.token = reqs[r].token
           /\ q.flow = reqs[r].flow
<1>1. ASSUME NEW p \in Request, NEW q, q = [p EXCEPT !.pc = a, !.since = now]
      PROVE  /\ q \in Request
             /\ q.pc = a /\ q.since = now
             /\ q.env = p.env /\ q.clientId = p.clientId
             /\ q.verifier = p.verifier /\ q.login = p.login
             /\ q.code = p.code /\ q.token = p.token /\ q.flow = p.flow
  BY <1>1 DEF Request, TypeInv, TypeOK
<1>2. reqs[r] \in Request
  BY DEF TypeInv, TypeOK
<1>. QED  BY <1>1, <1>2 DEF Awaiting

\* A step that only moves its request on.
LEMMA GotoType ==
    ASSUME TypeInv, NEW r \in Requests, NEW a \in Awaits \cup Answered,
           RequestOK(Awaiting(r, a)), Goto(r, a), UNCHANGED <<now, env>>,
           UNCHANGED loginSessions \/ (loginSessions \in [Logins -> LoginRow])',
           UNCHANGED handoffs \/ (handoffs \in [Codes -> HandoffRow])',
           UNCHANGED appSessions \/ (appSessions \in [Tokens -> SessionRow])',
           UNCHANGED loginFlows \/ (loginFlows \in [Flows -> FlowRow])'
    PROVE  TypeInv'
<1>1. (reqs \in [Requests -> Request])' /\ RequestsOK'
  BY AwaitingFields, StoreRequest DEF Goto, Advance
<1>. QED  BY <1>1 DEF TypeInv, TypeOK

\* So does a request that stops, having answered or failed.
LEMMA FinishType ==
    ASSUME TypeInv, NEW r \in Requests, Finish(r), UNCHANGED <<now, env>>,
           UNCHANGED loginSessions \/ (loginSessions \in [Logins -> LoginRow])',
           UNCHANGED handoffs \/ (handoffs \in [Codes -> HandoffRow])',
           UNCHANGED appSessions \/ (appSessions \in [Tokens -> SessionRow])',
           UNCHANGED loginFlows \/ (loginFlows \in [Flows -> FlowRow])'
    PROVE  TypeInv'
BY FinishRequest DEF TypeInv, TypeOK

\* The rows that are inserted have their columns' types.
LEMMA InsertType ==
    ASSUME TypeInv
    PROVE  /\ \A f \in Flows, c \in Clients, v \in Verifiers, n \in Nat :
                [loginFlows EXCEPT ![f] =
                   [row |-> "present", table |-> "login_flows", clientId |-> c,
                    challenge |-> v, expiresAt |-> n]] \in [Flows -> FlowRow]
           /\ \A f \in Flows, n \in Nat :
                [loginFlows EXCEPT ![f] =
                   [row |-> "present", table |-> "agent_login_flows",
                    clientId |-> Null, challenge |-> Null, expiresAt |-> n]]
                  \in [Flows -> FlowRow]
           /\ \A c \in Codes, l \in Logins, client \in Clients, v \in Verifiers,
                 n \in Nat :
                [handoffs EXCEPT ![c] =
                   [row |-> "present", loginId |-> l, clientId |-> client,
                    challenge |-> v, expiresAt |-> n]] \in [Codes -> HandoffRow]
           /\ \A l \in Logins, e \in Emails, n \in Nat, f \in Flows :
                [loginSessions EXCEPT ![l] =
                   [row |-> "present", email |-> e, expiresAt |-> n, flow |-> f]]
                  \in [Logins -> LoginRow]
           /\ \A t \in Tokens, l \in Logins, client \in Clients, c \in Codes :
                [appSessions EXCEPT ![t] =
                   [row |-> "present", loginId |-> l, clientId |-> client,
                    code |-> c]] \in [Tokens -> SessionRow]
BY DEF TypeInv, TypeOK, FlowRow, HandoffRow, LoginRow, SessionRow, Used

\* Clock readings are numbers.
LEMMA StampNat ==
    ASSUME TypeInv, NEW r \in Requests, NEW stamp \in Stamps(r)
    PROVE  stamp \in Nat /\ stamp <= now /\ reqs[r].since <= stamp
BY DEF Stamps, TypeInv, TypeOK, Request, RequestsOK, RequestOK

\* So does every statement of a request.
LEMMA StepType ==
    ASSUME TypeInv, NEW r \in Requests, Step(r)
    PROVE  TypeInv'
<1>. DEFINE q == reqs[r]
<1>1. q \in Request /\ RequestOK(q) /\ now \in Nat
  BY DEF TypeInv, TypeOK, RequestsOK
<1>2. q.pc \in Awaits => q.env \in Envs /\ q.env.owner \in Emails
  BY <1>1, EnvType DEF RequestOK
<1>3. \A a \in Awaits \cup Answered : RequestOK(Awaiting(r, a)) <=>
        /\ a \in Awaits => q.env \in Envs
        /\ a \in {"lookup", "startFlow", "createHandoff", "consume", "grant",
                  "confirm", "revokeSession"} => q.clientId \in Clients
        /\ a \in {"lookup", "startFlow", "createHandoff", "consume"}
              => q.verifier \in Verifiers
        /\ a \in {"lookup", "createHandoff", "grant", "revokeLogin"}
              => q.login \in Logins
        /\ a \in {"consume", "grant"} => q.code \in Codes
        /\ a \in {"confirm", "revokeSession"} => q.token \in Tokens
        /\ a \in {"consumeAgentFlow", "findDevice", "consumeFlow", "createLogin"}
              => q.flow \in Flows
        /\ a \in {"consumeAgentFlow", "findDevice"} => q.clientId = Null
        /\ a = "createLogin" /\ q.clientId # Null => q.verifier \in Verifiers
  BY <1>1, AwaitingFields DEF RequestOK
<1>. USE DEF At, tables
<1>4. CASE LoginFound(r)
  BY <1>1, <1>3, <1>4, GotoType DEF LoginFound, RequestOK, Awaits
<1>5. CASE LoginNotFound(r)
  <2>1. CASE Finish(r)
    BY <1>5, <2>1, FinishType DEF LoginNotFound
  <2>2. ASSUME NEW p, p = Awaiting(r, "startFlow"),
               NEW u, u = [p EXCEPT !.login = Null]
        PROVE  u \in Request /\ RequestOK(u)
    <3>1. p \in Request /\ p.pc = "startFlow" /\ p.since = now /\ p.env = q.env
          /\ p.clientId = q.clientId /\ p.verifier = q.verifier
      BY <2>2, AwaitingFields DEF Awaits
    <3>2. u \in Request /\ u.pc = "startFlow" /\ u.since = now /\ u.env = q.env
          /\ u.clientId = q.clientId /\ u.verifier = q.verifier
      BY <2>2, <3>1 DEF Request
    <3>. QED  BY <1>1, <1>5, <3>2 DEF LoginNotFound, RequestOK, Awaits
  <2>3. CASE Advance(r, [Awaiting(r, "startFlow") EXCEPT !.login = Null])
    BY <1>5, <2>2, <2>3, StoreRequest DEF LoginNotFound, Advance, TypeInv, TypeOK
  <2>. QED  BY <1>5, <2>1, <2>3 DEF LoginNotFound
<1>6. CASE StartFlow(r)
  BY <1>1, <1>6, StampNat, InsertType, FinishType
  DEF StartFlow, RequestOK
<1>7. CASE CreateHandoff(r)
  BY <1>1, <1>7, StampNat, InsertType, FinishType
  DEF CreateHandoff, RequestOK
<1>8. CASE StartAgentFlow(r)
  BY <1>8, StampNat, InsertType, FinishType DEF StartAgentFlow
<1>9. CASE ConsumeAgentFlow(r)
  BY <1>1, <1>3, <1>9, GotoType, PurgeType
  DEF ConsumeAgentFlow, RequestOK, Awaits, TypeInv, TypeOK
<1>10. CASE NoAgentFlow(r)
  BY <1>1, <1>3, <1>10, GotoType DEF NoAgentFlow, RequestOK, Awaits
<1>11. CASE FindDevice(r)
  BY <1>1, <1>3, <1>11, GotoType, FinishType DEF FindDevice, RequestOK, Awaits
<1>12. CASE ConsumeFlow(r)
  <2>. DEFINE f == q.flow
  <2>1. /\ f \in Flows
        /\ loginFlows[f].clientId \in Clients
        /\ loginFlows[f].challenge \in Verifiers
    BY <1>1, <1>12
    DEF ConsumeFlow, LiveFlow, Present, RequestOK, TypeInv, TypeOK, FlowRow, NoFlow
  <2>2. (loginFlows \in [Flows -> FlowRow])'
    BY <1>12, PurgeType DEF ConsumeFlow, TakeFlow, TypeInv, TypeOK
  <2>3. CASE Finish(r)
    BY <1>12, <2>2, <2>3, FinishType DEF ConsumeFlow
  <2>4. ASSUME NEW p, p = Awaiting(r, "createLogin"),
               NEW u, u = [p EXCEPT !.clientId = loginFlows[f].clientId,
                                    !.verifier = loginFlows[f].challenge]
        PROVE  u \in Request /\ RequestOK(u)
    <3>1. p \in Request /\ p.pc = "createLogin" /\ p.since = now /\ p.env = q.env
          /\ p.flow = f
      BY <2>4, AwaitingFields DEF Awaits
    <3>2. u \in Request /\ u.pc = "createLogin" /\ u.since = now /\ u.env = q.env
          /\ u.flow = f /\ u.verifier \in Verifiers
      BY <2>1, <2>4, <3>1 DEF Request
    <3>. QED  BY <1>1, <1>12, <2>1, <3>2 DEF ConsumeFlow, RequestOK, Awaits
  <2>5. CASE Advance(r, [Awaiting(r, "createLogin") EXCEPT
                            !.clientId = loginFlows[f].clientId,
                            !.verifier = loginFlows[f].challenge])
    BY <1>12, <2>2, <2>4, <2>5, StoreRequest
    DEF ConsumeFlow, Advance, TypeInv, TypeOK
  <2>. QED  BY <1>12, <2>3, <2>5 DEF ConsumeFlow
<1>13. CASE FlowGone(r)
  BY <1>13, FinishType DEF FlowGone
<1>14. CASE CreateLogin(r)
  <2>1. PICK l \in Logins, stamp \in Stamps(r) :
           /\ loginSessions' = [loginSessions EXCEPT ![l] =
                  [row |-> "present", email |-> reqs[r].env.owner,
                   expiresAt |-> stamp + SessionTtl, flow |-> reqs[r].flow]]
           /\ \/ /\ ForApp(r)
                 /\ Advance(r, [Awaiting(r, "createHandoff") EXCEPT
                                   !.login = l, !.flow = Null])
              \/ /\ ~ ForApp(r)
                 /\ Finish(r)
    BY <1>14 DEF CreateLogin
  <2>2. (loginSessions \in [Logins -> LoginRow])'
    BY <1>1, <1>2, <1>14, <2>1, StampNat, InsertType DEF CreateLogin, RequestOK, Awaits
  <2>3. CASE Finish(r)
    BY <1>14, <2>2, <2>3, FinishType DEF CreateLogin
  <2>4. ASSUME ForApp(r), NEW p, p = Awaiting(r, "createHandoff"),
               NEW u, u = [p EXCEPT !.login = l, !.flow = Null]
        PROVE  u \in Request /\ RequestOK(u)
    <3>1. /\ p \in Request /\ p.pc = "createHandoff" /\ p.since = now
          /\ p.env = q.env /\ p.clientId = q.clientId /\ p.verifier = q.verifier
      BY <2>4, AwaitingFields DEF Awaits
    <3>2. /\ u \in Request /\ u.pc = "createHandoff" /\ u.since = now
          /\ u.env = q.env /\ u.clientId = q.clientId /\ u.verifier = q.verifier
          /\ u.login = l
      BY <2>1, <2>4, <3>1 DEF Request
    <3>3. q.clientId \in Clients /\ q.verifier \in Verifiers
      BY <1>1, <1>14, <2>4 DEF CreateLogin, ForApp, RequestOK, Request
    <3>. QED  BY <1>1, <1>14, <2>1, <3>2, <3>3 DEF CreateLogin, RequestOK, Awaits
  <2>5. CASE ForApp(r) /\ Advance(r, [Awaiting(r, "createHandoff") EXCEPT
                                        !.login = l, !.flow = Null])
    BY <1>14, <2>2, <2>4, <2>5, StoreRequest
    DEF CreateLogin, Advance, TypeInv, TypeOK
  <2>. QED  BY <2>1, <2>3, <2>5
<1>15. CASE ConsumeHandoff(r)
  <2>. DEFINE c == q.code
  <2>1. c \in Codes /\ handoffs[c].loginId \in Logins
    BY <1>1, <1>15 DEF ConsumeHandoff, HandoffMatches, Present, RequestOK,
                       TypeInv, TypeOK, HandoffRow, NoHandoff
  <2>2. (handoffs \in [Codes -> HandoffRow])'
    BY <1>15, PurgeType DEF ConsumeHandoff, TakeHandoff, TypeInv, TypeOK
  <2>3. ASSUME NEW p, p = Awaiting(r, "grant"),
               NEW u, u = [p EXCEPT !.login = handoffs[c].loginId]
        PROVE  u \in Request /\ RequestOK(u)
    <3>1. /\ p \in Request /\ p.pc = "grant" /\ p.since = now
          /\ p.env = q.env /\ p.clientId = q.clientId /\ p.code = c
      BY <2>3, AwaitingFields DEF Awaits
    <3>2. /\ u \in Request /\ u.pc = "grant" /\ u.since = now
          /\ u.env = q.env /\ u.clientId = q.clientId /\ u.code = c
          /\ u.login = handoffs[c].loginId
      BY <2>1, <2>3, <3>1 DEF Request
    <3>. QED  BY <1>1, <1>15, <2>1, <3>2 DEF ConsumeHandoff, RequestOK, Awaits
  <2>. QED  BY <1>15, <2>2, <2>3, StoreRequest
            DEF ConsumeHandoff, Advance, TypeInv, TypeOK
<1>16. CASE HandoffRefused(r)
  BY <1>16, FinishType DEF HandoffRefused
<1>17. CASE GrantSession(r)
  <2>1. PICK t \in Tokens :
           /\ appSessions' = [appSessions EXCEPT ![t] =
                  [row |-> "present", loginId |-> reqs[r].login,
                   clientId |-> reqs[r].clientId, code |-> reqs[r].code]]
           /\ Advance(r, [Awaiting(r, "confirm") EXCEPT !.token = t])
    BY <1>17 DEF GrantSession
  <2>2. (appSessions \in [Tokens -> SessionRow])'
    BY <1>1, <1>17, <2>1, InsertType DEF GrantSession, RequestOK
  <2>3. ASSUME NEW p, p = Awaiting(r, "confirm"),
               NEW u, u = [p EXCEPT !.token = t]
        PROVE  u \in Request /\ RequestOK(u)
    <3>1. /\ p \in Request /\ p.pc = "confirm" /\ p.since = now
          /\ p.env = q.env /\ p.clientId = q.clientId
      BY <2>3, AwaitingFields DEF Awaits
    <3>2. /\ u \in Request /\ u.pc = "confirm" /\ u.since = now
          /\ u.env = q.env /\ u.clientId = q.clientId /\ u.token = t
      BY <2>1, <2>3, <3>1 DEF Request
    <3>. QED  BY <1>1, <1>17, <3>2 DEF GrantSession, RequestOK, Awaits
  <2>. QED  BY <1>17, <2>1, <2>2, <2>3, StoreRequest
            DEF GrantSession, Advance, TypeInv, TypeOK
<1>18. CASE GrantRefused(r)
  BY <1>18, FinishType DEF GrantRefused
<1>19. CASE Authenticate(r)
  BY <1>1, <1>3, <1>19, GotoType DEF Authenticate, Awaits, Answered
<1>20. CASE Reject(r)
  BY <1>20, FinishType DEF Reject
<1>21. CASE RevokeSession(r)
  BY <1>21, FinishType, PurgeType DEF RevokeSession, DeleteLogins, TypeInv, TypeOK
<1>22. CASE RevokeLogin(r)
  BY <1>22, FinishType, PurgeType DEF RevokeLogin, DeleteLogins, TypeInv, TypeOK
<1>. QED  BY <1>4, <1>5, <1>6, <1>7, <1>8, <1>9, <1>10, <1>11, <1>12, <1>13,
             <1>14, <1>15, <1>16, <1>17, <1>18, <1>19, <1>20, <1>21, <1>22 DEF Step

\* The state is always well typed, and every request in flight carries the
\* columns its pending statement needs.
THEOREM TypeCorrect == Spec => []TypeInv
<1>1. Init => TypeInv
  BY DEF Init, TypeInv, TypeOK, RequestsOK, RequestOK, LoginRow, HandoffRow,
         SessionRow, FlowRow, Idle, Request, Awaits, Answered
<1>2. ASSUME TypeInv, [Next]_vars
      PROVE  TypeInv'
  <2>1. CASE \E r \in Requests : Arrive(r)
    BY <1>2, <2>1, BeginType
  <2>2. CASE \E r \in Requests : Step(r)
    BY <1>2, <2>2, StepType
  <2>3. CASE \E r \in Requests : Fail(r)
    BY <1>2, <2>3, FinishType DEF Fail, tables
  <2>4. CASE Cleanup
    BY <1>2, <2>4, PurgeType
    DEF Cleanup, DeleteLogins, TypeInv, TypeOK, RequestsOK, RequestOK
  <2>5. CASE CleanupAgentFlows
    BY <1>2, <2>5, PurgeType
    DEF CleanupAgentFlows, TypeInv, TypeOK, RequestsOK, RequestOK
  <2>6. CASE Tick
    BY <1>2, <2>6 DEF Tick, tables, TypeInv, TypeOK, RequestsOK, RequestOK, Request
  <2>7. CASE Redeploy
    BY <1>2, <2>7 DEF Redeploy, tables, TypeInv, TypeOK, RequestsOK, RequestOK
  <2>8. CASE UNCHANGED vars
    BY <1>2, <2>8 DEF vars, tables, TypeInv, TypeOK, RequestsOK, RequestOK
  <2>. QED  BY <1>2, <2>1, <2>2, <2>3, <2>4, <2>5, <2>6, <2>7, <2>8 DEF Next
<1>. QED  BY <1>1, <1>2, PTL DEF Spec

-------------------------------------------------------------------------------
(* The tables agree *)

\* Deleting keeps every column but the row's own presence.
LEMMA PurgeRow ==
    ASSUME TypeInv, NEW doomed
    PROVE  /\ \A id \in Logins :
                 LET old == loginSessions[id]  new == Purge(loginSessions, doomed)[id] IN
                 /\ new.row = (IF id \in doomed /\ old.row = "present"
                                 THEN "deleted" ELSE old.row)
                 /\ new.flow = old.flow
           /\ \A id \in Codes :
                 LET old == handoffs[id]  new == Purge(handoffs, doomed)[id] IN
                 /\ new.row = (IF id \in doomed /\ old.row = "present"
                                 THEN "deleted" ELSE old.row)
                 /\ new.loginId = old.loginId /\ new.clientId = old.clientId
           /\ \A id \in Tokens :
                 LET old == appSessions[id]  new == Purge(appSessions, doomed)[id] IN
                 /\ new.row = (IF id \in doomed /\ old.row = "present"
                                 THEN "deleted" ELSE old.row)
                 /\ new.loginId = old.loginId /\ new.clientId = old.clientId
                 /\ new.code = old.code
           /\ \A id \in Flows :
                 Purge(loginFlows, doomed)[id].row =
                    (IF id \in doomed /\ loginFlows[id].row = "present"
                       THEN "deleted" ELSE loginFlows[id].row)
BY DEF Purge, TypeInv, TypeOK, LoginRow, HandoffRow, SessionRow, FlowRow,
       NoLogin, NoHandoff, NoSession, NoFlow

\* What is used has the columns that the properties compare.
LEMMA UsedRow ==
    ASSUME TypeInv
    PROVE  /\ \A t \in Tokens : appSessions[t].row # "unused" =>
                 /\ appSessions[t].code \in Codes
                 /\ appSessions[t].loginId \in Logins
           /\ \A t \in Tokens : appSessions[t].row = "unused" =>
                 appSessions[t].code = Null
           /\ \A c \in Codes : handoffs[c].row # "unused" =>
                 handoffs[c].loginId \in Logins /\ handoffs[c].clientId \in Clients
           /\ \A l \in Logins : loginSessions[l].row # "unused" =>
                 loginSessions[l].flow \in Flows
           /\ \A l \in Logins : loginSessions[l].row = "unused" =>
                 loginSessions[l].flow = Null
BY DEF TypeInv, TypeOK, LoginRow, HandoffRow, SessionRow, NoLogin, NoHandoff,
       NoSession, Used

\* A step that touches no table and does not take a request into the middle of
\* an exchange or of a callback.
LEMMA RequestFrame ==
    ASSUME TypeInv, TableInv, UNCHANGED tables, NEW r \in Requests, NEW q,
           reqs' = [reqs EXCEPT ![r] = q],
           q.pc \notin {"grant", "findDevice", "createLogin"}
    PROVE  TableInv'
BY DEF TableInv, CascadeHolds, OneSessionPerCode, SessionMatchesHandoff,
       OneLoginPerFlow, GrantHeld, FlowHeld, FlowsSpent, tables, TypeInv, TypeOK

\* Deleting no row changes nothing.
LEMMA PurgeNothing ==
    ASSUME TypeInv
    PROVE  loginFlows = Purge(loginFlows, {})
BY DEF Purge, TypeInv, TypeOK

\* Deleting logins with their children, and any handoffs and flows besides.
LEMMA DeleteFrame ==
    ASSUME TypeInv, TableInv,
           NEW D, NEW H, NEW F, DeleteLogins(D),
           handoffs' = Purge(handoffs, ChildrenOf(handoffs, D) \cup H),
           loginFlows' = Purge(loginFlows, F),
           UNCHANGED reqs \/ \E r \in Requests : Finish(r)
    PROVE  TableInv'
<1>0. \A r \in Requests : reqs'[r].pc \in {"grant", "findDevice", "createLogin"}
         => reqs'[r] = reqs[r]
  BY DEF Finish, Advance, Idle, TypeInv, TypeOK
<1>1. CascadeHolds'
  <2>1. \A l \in Logins : loginSessions[l].row = "present" /\ l \notin D
           => loginSessions'[l].row = "present"
    BY PurgeRow DEF DeleteLogins
  <2>2. \A t \in Tokens : appSessions'[t].row = "present" =>
           /\ appSessions[t].row = "present"
           /\ appSessions'[t].loginId = appSessions[t].loginId
           /\ appSessions[t].loginId \notin D
    BY PurgeRow DEF DeleteLogins, ChildrenOf, TypeInv, TypeOK
  <2>3. \A c \in Codes : handoffs'[c].row = "present" =>
           /\ handoffs[c].row = "present"
           /\ handoffs'[c].loginId = handoffs[c].loginId
           /\ handoffs[c].loginId \notin D
    BY PurgeRow DEF ChildrenOf, TypeInv, TypeOK
  <2>4. \A t \in Tokens : appSessions[t].row = "present" =>
           /\ appSessions[t].loginId \in Logins
           /\ loginSessions[appSessions[t].loginId].row = "present"
    BY UsedRow DEF TableInv, CascadeHolds
  <2>5. \A c \in Codes : handoffs[c].row = "present" =>
           /\ handoffs[c].loginId \in Logins
           /\ loginSessions[handoffs[c].loginId].row = "present"
    BY UsedRow DEF TableInv, CascadeHolds
  <2>. QED  BY <2>1, <2>2, <2>3, <2>4, <2>5, ZenonT(30) DEF CascadeHolds
<1>. USE DEF DeleteLogins, ChildrenOf, TypeInv, TypeOK
<1>2. OneSessionPerCode'
  BY PurgeRow, UsedRow DEF TableInv, OneSessionPerCode
<1>3. SessionMatchesHandoff'
  BY PurgeRow, UsedRow DEF TableInv, SessionMatchesHandoff
<1>4. OneLoginPerFlow'
  BY PurgeRow, UsedRow DEF TableInv, OneLoginPerFlow
<1>5. GrantHeld'
  BY <1>0, PurgeRow, UsedRow DEF TableInv, GrantHeld, RequestsOK, RequestOK
<1>6. FlowHeld'
  BY <1>0, PurgeRow, UsedRow DEF TableInv, FlowHeld, RequestsOK, RequestOK
<1>7. FlowsSpent'
  BY PurgeRow, UsedRow DEF TableInv, FlowsSpent
<1>. QED  BY <1>1, <1>2, <1>3, <1>4, <1>5, <1>6, <1>7 DEF TableInv

\* Every statement of a request keeps the tables in agreement: the heart of the
\* argument, one case for each statement.
LEMMA StepTables ==
    ASSUME TypeInv, TableInv, NEW r \in Requests, Step(r)
    PROVE  TableInv'
<1>. DEFINE q == reqs[r]
<1>1. q \in Request /\ RequestOK(q)
  BY DEF TypeInv, TypeOK, RequestsOK
<1>2. ASSUME NEW a \in (Awaits \cup Answered) \ {"grant", "findDevice", "createLogin"},
             Goto(r, a), UNCHANGED tables
      PROVE  TableInv'
  BY <1>2, AwaitingFields, RequestFrame DEF Goto, Advance
<1>3. ASSUME Finish(r), UNCHANGED tables
      PROVE  TableInv'
  BY <1>3, RequestFrame DEF Finish, Advance, Idle
<1>. USE DEF At
<1>4. CASE LoginFound(r)
  BY <1>2, <1>4 DEF LoginFound, Awaits
<1>5. CASE LoginNotFound(r)
  <2>1. ASSUME NEW p, p = Awaiting(r, "startFlow"),
               NEW u, u = [p EXCEPT !.login = Null]
        PROVE  u.pc = "startFlow"
    BY <2>1, AwaitingFields DEF Awaits, Request
  <2>. QED  BY <1>3, <1>5, <2>1, RequestFrame DEF LoginNotFound, Advance
<1>6. CASE StartFlow(r) \/ StartAgentFlow(r)
  <2>1. PICK f \in Flows : loginFlows[f].row = "unused" /\
           \A g \in Flows : g # f => loginFlows'[g] = loginFlows[g]
    BY <1>6 DEF StartFlow, StartAgentFlow, NoFlow, TypeInv, TypeOK
  <2>2. Finish(r) /\ UNCHANGED <<loginSessions, handoffs, appSessions>>
    BY <1>6 DEF StartFlow, StartAgentFlow
  <2>3. \A l \in Logins : loginSessions[l].row # "unused" => loginSessions[l].flow # f
    BY <2>1 DEF TableInv, FlowsSpent
  <2>4. CascadeHolds' /\ OneSessionPerCode' /\ SessionMatchesHandoff'
        /\ OneLoginPerFlow'
    BY <2>2 DEF TableInv, CascadeHolds, OneSessionPerCode,
                SessionMatchesHandoff, OneLoginPerFlow
  <2>5. GrantHeld'
    BY <2>2 DEF TableInv, GrantHeld, Finish, Advance, Idle, TypeInv, TypeOK
  <2>6. FlowHeld'
    BY <2>1, <2>2 DEF TableInv, FlowHeld, Finish, Advance, Idle, TypeInv, TypeOK,
                      RequestsOK, RequestOK
  <2>7. FlowsSpent'
    BY <2>1, <2>2, <2>3, UsedRow DEF TableInv, FlowsSpent
  <2>. QED  BY <2>4, <2>5, <2>6, <2>7 DEF TableInv
<1>7. CASE CreateHandoff(r)
  <2>1. PICK c \in Codes : handoffs[c].row = "unused" /\
           /\ handoffs'[c].loginId = q.login
           /\ \A d \in Codes : d # c => handoffs'[d] = handoffs[d]
    BY <1>7 DEF CreateHandoff, NoHandoff, TypeInv, TypeOK
  <2>2. /\ Finish(r) /\ UNCHANGED <<loginSessions, appSessions, loginFlows>>
        /\ loginSessions[q.login].row = "present"
    BY <1>7 DEF CreateHandoff, Present
  <2>3. CascadeHolds'
    BY <2>1, <2>2 DEF TableInv, CascadeHolds
  <2>4. OneSessionPerCode' /\ OneLoginPerFlow' /\ FlowsSpent'
    BY <2>2 DEF TableInv, OneSessionPerCode, OneLoginPerFlow, FlowsSpent
  <2>5. SessionMatchesHandoff'
    BY <2>1, <2>2, UsedRow DEF TableInv, SessionMatchesHandoff
  <2>6. GrantHeld'
    BY <2>1, <2>2 DEF TableInv, GrantHeld, Finish, Advance, Idle, TypeInv, TypeOK,
                      RequestsOK, RequestOK
  <2>7. FlowHeld'
    BY <2>2 DEF TableInv, FlowHeld, Finish, Advance, Idle, TypeInv, TypeOK
  <2>. QED  BY <2>3, <2>4, <2>5, <2>6, <2>7 DEF TableInv
<1>8. CASE NoAgentFlow(r) \/ Authenticate(r)
  BY <1>2, <1>8 DEF NoAgentFlow, Authenticate, Awaits, Answered
<1>9. CASE FlowGone(r) \/ HandoffRefused(r) \/ GrantRefused(r) \/ Reject(r)
  BY <1>3, <1>9 DEF FlowGone, HandoffRefused, GrantRefused, Reject
<1>10. ASSUME NEW D, DeleteLogins(D), Finish(r), UNCHANGED loginFlows,
              handoffs' = Purge(handoffs, ChildrenOf(handoffs, D))
       PROVE  TableInv'
  <2>1. handoffs' = Purge(handoffs, ChildrenOf(handoffs, D) \cup {})
    <3>1. ChildrenOf(handoffs, D) = ChildrenOf(handoffs, D) \cup {}
      OBVIOUS
    <3>. QED  BY <1>10, <3>1
  <2>2. loginFlows' = Purge(loginFlows, {})
    BY <1>10, PurgeNothing
  <2>. QED  BY <1>10, <2>1, <2>2, DeleteFrame
<1>11. CASE RevokeSession(r) \/ RevokeLogin(r)
  BY <1>10, <1>11 DEF RevokeSession, RevokeLogin
<1>12. ASSUME NEW f \in Flows, f = q.flow, loginFlows[f].row = "present",
              loginFlows' = Purge(loginFlows, {f}),
              UNCHANGED <<loginSessions, handoffs, appSessions>>,
              NEW u, reqs' = [reqs EXCEPT ![r] = u],
              u.pc \in {"findDevice", "createLogin", "idle"},
              u.pc = "idle" \/ u.flow = f
       PROVE  TableInv'
  <2>1. /\ loginFlows'[f].row = "deleted"
        /\ \A g \in Flows : loginFlows[g].row = "deleted"
                                => loginFlows'[g].row = "deleted"
    BY <1>12, PurgeRow, ZenonT(30)
  <2>2. \A l \in Logins : loginSessions[l].row # "unused" => loginSessions[l].flow # f
    BY <1>12 DEF TableInv, FlowsSpent
  <2>3. CascadeHolds' /\ OneSessionPerCode' /\ SessionMatchesHandoff'
        /\ OneLoginPerFlow'
    BY <1>12 DEF TableInv, CascadeHolds, OneSessionPerCode,
                 SessionMatchesHandoff, OneLoginPerFlow
  <2>4. GrantHeld'
    BY <1>12 DEF TableInv, GrantHeld, TypeInv, TypeOK
  <2>5. FlowHeld'
    <3>1. reqs'[r] = u /\ \A s \in Requests : s # r => reqs'[s] = reqs[s]
      BY <1>12 DEF TypeInv, TypeOK
    <3>2. \A s \in Requests : reqs[s].pc \in {"findDevice", "createLogin"}
             => reqs[s].flow \in Flows /\ reqs[s].flow # f
      BY <1>12 DEF TableInv, FlowHeld, TypeInv, RequestsOK, RequestOK
    <3>3. \A s \in Requests : s # r /\ reqs'[s].pc \in {"findDevice", "createLogin"}
             => /\ loginFlows'[reqs'[s].flow].row = "deleted"
                /\ \A l \in Logins : loginSessions'[l].row # "unused" =>
                       loginSessions'[l].flow # reqs'[s].flow
                /\ \A x \in Requests :
                      /\ x # r
                      /\ reqs'[x].pc \in {"findDevice", "createLogin"}
                      /\ reqs'[x].flow = reqs'[s].flow
                      => x = s
      <4>1. UNCHANGED loginSessions
        BY <1>12
      <4>2. FlowHeld
        BY DEF TableInv
      <4>. QED  BY <2>1, <3>1, <3>2, <4>1, <4>2 DEF FlowHeld
    <3>4. u.pc = "idle" \/ u.flow = f
      BY <1>12
    <3>5. u.flow = f => /\ loginFlows'[u.flow].row = "deleted"
                        /\ \A l \in Logins : loginSessions'[l].row # "unused" =>
                               loginSessions'[l].flow # u.flow
      BY <1>12, <2>1, <2>2
    <3>. QED  BY <3>1, <3>2, <3>3, <3>4, <3>5 DEF FlowHeld
  <2>6. FlowsSpent'
    BY <1>12, <2>1, UsedRow DEF TableInv, FlowsSpent
  <2>. QED  BY <2>3, <2>4, <2>5, <2>6 DEF TableInv
<1>13. CASE ConsumeAgentFlow(r)
  <2>1. Awaiting(r, "findDevice").pc = "findDevice" /\
        Awaiting(r, "findDevice").flow = q.flow
    BY AwaitingFields DEF Awaits
  <2>. QED  BY <1>1, <1>12, <1>13, <2>1
            DEF ConsumeAgentFlow, LiveFlow, Present, Goto, Advance, RequestOK
<1>14. CASE ConsumeFlow(r)
  <2>1. q.flow \in Flows /\ loginFlows[q.flow].row = "present"
    BY <1>1, <1>14 DEF ConsumeFlow, LiveFlow, Present, RequestOK
  <2>2. ASSUME NEW p, p = Awaiting(r, "createLogin"),
               NEW u, u = [p EXCEPT !.clientId = loginFlows[q.flow].clientId,
                                    !.verifier = loginFlows[q.flow].challenge]
        PROVE  u.pc = "createLogin" /\ u.flow = q.flow
    BY <2>2, AwaitingFields DEF Awaits, Request
  <2>3. loginFlows' = Purge(loginFlows, {q.flow})
        /\ UNCHANGED <<loginSessions, handoffs, appSessions>>
    BY <1>14 DEF ConsumeFlow, TakeFlow
  <2>4. CASE Finish(r)
    BY <1>12, <2>1, <2>3, <2>4 DEF Finish, Advance, Idle
  <2>5. CASE Advance(r, [Awaiting(r, "createLogin") EXCEPT
                            !.clientId = loginFlows[q.flow].clientId,
                            !.verifier = loginFlows[q.flow].challenge])
    BY <1>12, <2>1, <2>2, <2>3, <2>5 DEF Advance
  <2>. QED  BY <1>14, <2>4, <2>5 DEF ConsumeFlow
<1>15. CASE FindDevice(r)
  <2>1. /\ Awaiting(r, "createLogin").pc = "createLogin"
        /\ Awaiting(r, "createLogin").flow = q.flow
    BY AwaitingFields DEF Awaits
  <2>2. CASE Goto(r, "createLogin")
    <3>1. UNCHANGED tables
      BY <1>15 DEF FindDevice
    <3>2. CascadeHolds' /\ OneSessionPerCode' /\ SessionMatchesHandoff'
          /\ OneLoginPerFlow' /\ FlowsSpent'
      BY <3>1 DEF TableInv, CascadeHolds, OneSessionPerCode, tables,
                  SessionMatchesHandoff, OneLoginPerFlow, FlowsSpent
    <3>3. GrantHeld' /\ FlowHeld'
      BY <1>15, <2>1, <2>2, <3>1
      DEF TableInv, GrantHeld, FlowHeld, FindDevice, Goto, Advance, tables,
          TypeInv, TypeOK
    <3>. QED  BY <3>2, <3>3 DEF TableInv
  <2>. QED  BY <1>3, <1>15, <2>2 DEF FindDevice
<1>16. CASE CreateLogin(r)
  <2>1. PICK l \in Logins :
           /\ loginSessions[l].row = "unused"
           /\ loginSessions'[l].row = "present" /\ loginSessions'[l].flow = q.flow
           /\ \A m \in Logins : m # l => loginSessions'[m] = loginSessions[m]
    BY <1>16 DEF CreateLogin, NoLogin, TypeInv, TypeOK
  <2>2. /\ \A s \in Requests : s # r => reqs'[s] = reqs[s]
        /\ reqs'[r].pc \in {"createHandoff", "idle"}
    <3>1. ASSUME NEW p, p = Awaiting(r, "createHandoff"), NEW k,
                 NEW u, u = [p EXCEPT !.login = k, !.flow = Null]
          PROVE  u.pc = "createHandoff"
      BY <3>1, AwaitingFields DEF Awaits, Request
    <3>2. Finish(r) \/ \E k \in Logins :
             Advance(r, [Awaiting(r, "createHandoff") EXCEPT !.login = k, !.flow = Null])
      BY <1>16 DEF CreateLogin
    <3>3. ASSUME NEW u, Advance(r, u), u.pc \in {"createHandoff", "idle"}
          PROVE  /\ \A s \in Requests : s # r => reqs'[s] = reqs[s]
                 /\ reqs'[r].pc \in {"createHandoff", "idle"}
      BY <3>3 DEF Advance, TypeInv, TypeOK
    <3>. QED  BY <3>1, <3>2, <3>3 DEF Finish, Idle
  <2>3. UNCHANGED <<handoffs, appSessions, loginFlows>>
    BY <1>16 DEF CreateLogin
  <2>4. /\ q.flow \in Flows /\ loginFlows[q.flow].row = "deleted"
        /\ \A m \in Logins : loginSessions[m].row # "unused"
                => loginSessions[m].flow # q.flow
        /\ \A s \in Requests :
              s # r /\ reqs[s].pc \in {"findDevice", "createLogin"}
                => reqs[s].flow # q.flow
    BY <1>1, <1>16 DEF CreateLogin, TableInv, FlowHeld, RequestOK
  <2>5. CascadeHolds'
    BY <2>1, <2>3, UsedRow DEF TableInv, CascadeHolds
  <2>6. OneSessionPerCode' /\ SessionMatchesHandoff'
    BY <2>3 DEF TableInv, OneSessionPerCode, SessionMatchesHandoff
  <2>7. OneLoginPerFlow'
    BY <2>1, <2>4, UsedRow DEF TableInv, OneLoginPerFlow
  <2>8. GrantHeld'
    BY <2>2, <2>3 DEF TableInv, GrantHeld
  <2>9. FlowHeld'
    BY <2>1, <2>2, <2>3, <2>4 DEF TableInv, FlowHeld
  <2>10. FlowsSpent'
    BY <2>1, <2>3, <2>4 DEF TableInv, FlowsSpent
  <2>. QED  BY <2>5, <2>6, <2>7, <2>8, <2>9, <2>10 DEF TableInv
<1>17. CASE ConsumeHandoff(r)
  <2>. DEFINE c == q.code
  <2>1. /\ c \in Codes /\ handoffs[c].row = "present"
        /\ handoffs[c].clientId = q.clientId
    BY <1>1, <1>17 DEF ConsumeHandoff, HandoffMatches, Present, RequestOK
  <2>2. /\ handoffs' = Purge(handoffs, {c})
        /\ UNCHANGED <<loginSessions, appSessions, loginFlows>>
    BY <1>17 DEF ConsumeHandoff, TakeHandoff
  <2>3. /\ handoffs'[c].row = "deleted"
        /\ \A d \in Codes : /\ handoffs'[d].loginId = handoffs[d].loginId
                            /\ handoffs'[d].clientId = handoffs[d].clientId
                            /\ handoffs'[d].row = "present" => handoffs[d].row = "present"
                            /\ handoffs[d].row = "deleted" => handoffs'[d].row = "deleted"
    <3>1. ASSUME NEW P, P = Purge(handoffs, {c})
          PROVE  /\ P[c].row = "deleted"
                 /\ \A d \in Codes :
                       /\ P[d].loginId = handoffs[d].loginId
                       /\ P[d].clientId = handoffs[d].clientId
                       /\ P[d].row = "present" => handoffs[d].row = "present"
                       /\ handoffs[d].row = "deleted" => P[d].row = "deleted"
      <4>1. \A d \in Codes :
               /\ P[d].row = (IF d \in {c} /\ handoffs[d].row = "present"
                               THEN "deleted" ELSE handoffs[d].row)
               /\ P[d].loginId = handoffs[d].loginId
               /\ P[d].clientId = handoffs[d].clientId
        BY <3>1 DEF Purge, TypeInv, TypeOK, HandoffRow, NoHandoff
      <4>. QED  BY <2>1, <4>1
    <3>. QED  BY <2>2, <3>1
  <2>4. /\ \A s \in Requests : s # r => reqs'[s] = reqs[s]
        /\ reqs'[r].pc = "grant" /\ reqs'[r].code = c
        /\ reqs'[r].login = handoffs[c].loginId /\ reqs'[r].clientId = q.clientId
    <3>1. Advance(r, [Awaiting(r, "grant") EXCEPT !.login = handoffs[c].loginId])
      BY <1>17 DEF ConsumeHandoff
    <3>2. ASSUME NEW u, Advance(r, u)
          PROVE  /\ \A s \in Requests : s # r => reqs'[s] = reqs[s]
                 /\ reqs'[r] = u
      BY <3>2 DEF Advance, TypeInv, TypeOK
    <3>3. /\ \A s \in Requests : s # r => reqs'[s] = reqs[s]
          /\ reqs'[r] = [Awaiting(r, "grant") EXCEPT !.login = handoffs[c].loginId]
      BY <3>1, <3>2, Zenon
    <3>4. PICK p : p = Awaiting(r, "grant")
      OBVIOUS
    <3>5. reqs'[r] = [p EXCEPT !.login = handoffs[c].loginId]
      BY <3>3, <3>4, Zenon
    <3>6. p \in Request /\ p.pc = "grant" /\ p.code = c /\ p.clientId = q.clientId
      BY <3>4, AwaitingFields DEF Awaits
    <3>7. /\ reqs'[r].pc = "grant" /\ reqs'[r].code = c
          /\ reqs'[r].login = handoffs[c].loginId /\ reqs'[r].clientId = q.clientId
      BY <3>5, <3>6 DEF Request
    <3>. QED  BY <3>3, <3>7
  <2>5. /\ \A t \in Tokens : appSessions[t].row # "unused" => appSessions[t].code # c
        /\ \A s \in Requests : reqs[s].pc = "grant"
                => reqs[s].code # c /\ reqs[s].code \in Codes
    BY <2>1 DEF TableInv, SessionMatchesHandoff, GrantHeld, TypeInv, RequestsOK, RequestOK
  <2>6. CascadeHolds'
    <3>1. CascadeHolds /\ UNCHANGED <<loginSessions, appSessions>>
      BY <2>2 DEF TableInv
    <3>. QED  BY <2>3, <3>1 DEF CascadeHolds
  <2>7. OneSessionPerCode' /\ OneLoginPerFlow' /\ FlowsSpent'
    BY <2>2 DEF TableInv, OneSessionPerCode, OneLoginPerFlow, FlowsSpent
  <2>8. SessionMatchesHandoff'
    <3>1. SessionMatchesHandoff /\ UNCHANGED appSessions
      BY <2>2 DEF TableInv
    <3>. QED  BY <2>3, <3>1, UsedRow DEF SessionMatchesHandoff
  <2>9. GrantHeld'
    <3>1. GrantHeld /\ UNCHANGED appSessions
      BY <2>2 DEF TableInv
    <3>. QED  BY <2>1, <2>3, <2>4, <2>5, <3>1 DEF GrantHeld
  <2>10. FlowHeld'
    BY <2>2, <2>4 DEF TableInv, FlowHeld
  <2>. QED  BY <2>6, <2>7, <2>8, <2>9, <2>10 DEF TableInv
<1>18. CASE GrantSession(r)
  <2>1. PICK t \in Tokens :
           /\ appSessions[t].row = "unused"
           /\ appSessions'[t].row = "present"
           /\ appSessions'[t].loginId = q.login
           /\ appSessions'[t].clientId = q.clientId
           /\ appSessions'[t].code = q.code
           /\ \A u \in Tokens : u # t => appSessions'[u] = appSessions[u]
           /\ Advance(r, [Awaiting(r, "confirm") EXCEPT !.token = t])
    <3>1. PICK t \in Tokens :
             /\ appSessions[t] = NoSession
             /\ appSessions' = [appSessions EXCEPT ![t] =
                   [row |-> "present", loginId |-> q.login,
                    clientId |-> q.clientId, code |-> q.code]]
             /\ Advance(r, [Awaiting(r, "confirm") EXCEPT !.token = t])
      BY <1>18 DEF GrantSession
    <3>2. /\ appSessions[t].row = "unused"
          /\ appSessions'[t].row = "present"
          /\ appSessions'[t].loginId = q.login
          /\ appSessions'[t].clientId = q.clientId
          /\ appSessions'[t].code = q.code
          /\ \A u \in Tokens : u # t => appSessions'[u] = appSessions[u]
      BY <3>1 DEF NoSession, TypeInv, TypeOK
    <3>. QED  BY <3>1, <3>2
  <2>2. /\ \A s \in Requests : s # r => reqs'[s] = reqs[s]
        /\ reqs'[r].pc = "confirm"
    <3>1. ASSUME NEW p, p = Awaiting(r, "confirm"), NEW k,
                 NEW u, u = [p EXCEPT !.token = k]
          PROVE  u.pc = "confirm"
      BY <3>1, AwaitingFields DEF Awaits, Request
    <3>2. ASSUME NEW u, Advance(r, u)
          PROVE  /\ \A s \in Requests : s # r => reqs'[s] = reqs[s]
                 /\ reqs'[r] = u
      BY <3>2 DEF Advance, TypeInv, TypeOK
    <3>. QED  BY <2>1, <3>1, <3>2
  <2>3. /\ UNCHANGED <<loginSessions, handoffs, loginFlows>>
        /\ loginSessions[q.login].row = "present"
    BY <1>18 DEF GrantSession, LiveLogin, Present
  <2>4. /\ q.code \in Codes
        /\ handoffs[q.code].row = "deleted"
        /\ handoffs[q.code].loginId = q.login
        /\ handoffs[q.code].clientId = q.clientId
        /\ \A u \in Tokens : appSessions[u].row # "unused"
              => appSessions[u].code # q.code
        /\ \A s \in Requests : reqs[s].pc = "grant" /\ s # r
              => reqs[s].code # q.code
    BY <1>1, <1>18 DEF GrantSession, TableInv, GrantHeld, RequestOK
  <2>5. CascadeHolds'
    BY <2>1, <2>3 DEF TableInv, CascadeHolds
  <2>6. OneSessionPerCode'
    BY <2>1, <2>4, UsedRow DEF TableInv, OneSessionPerCode
  <2>7. SessionMatchesHandoff'
    BY <2>1, <2>3, <2>4 DEF TableInv, SessionMatchesHandoff
  <2>8. GrantHeld'
    BY <2>1, <2>2, <2>3, <2>4 DEF TableInv, GrantHeld
  <2>9. OneLoginPerFlow' /\ FlowHeld' /\ FlowsSpent'
    BY <2>2, <2>3 DEF TableInv, OneLoginPerFlow, FlowHeld, FlowsSpent
  <2>. QED  BY <2>5, <2>6, <2>7, <2>8, <2>9 DEF TableInv
<1>. QED  BY <1>4, <1>5, <1>6, <1>7, <1>8, <1>9, <1>11, <1>13, <1>14,
             <1>15, <1>16, <1>17, <1>18 DEF Step

\* Empty tables agree.
LEMMA InitTables == Init => TableInv
BY DEF Init, TableInv, CascadeHolds, OneSessionPerCode, SessionMatchesHandoff,
       OneLoginPerFlow, GrantHeld, FlowHeld, FlowsSpent, NoLogin, NoHandoff,
       NoSession, NoFlow, Idle

\* The arrival of a request keeps the tables in agreement: it writes nothing and
\* holds neither a code nor a flow.
LEMMA BeginTables ==
    ASSUME TypeInv, TableInv, NEW r \in Requests, Arrive(r)
    PROVE  TableInv'
<1>1. PICK q \in Request : /\ q.pc \notin {"grant", "findDevice", "createLogin"}
                           /\ Begin(r, q)
  BY ArriveRequest
<1>. QED  BY <1>1, RequestFrame DEF Begin

\* A request that stops gives up what it held, and the tables still agree.
LEMMA FailTables ==
    ASSUME TypeInv, TableInv, NEW r \in Requests, Fail(r)
    PROVE  TableInv'
<1>1. Idle.pc \notin {"grant", "findDevice", "createLogin"}
  BY DEF Idle
<1>. QED  BY <1>1, RequestFrame DEF Fail, Finish, Advance

\* The two sweeps keep the tables in agreement: a login goes with its children.
LEMMA SweepTables ==
    ASSUME TypeInv, TableInv, Cleanup \/ CleanupAgentFlows
    PROVE  TableInv'
<1>1. CASE Cleanup
  BY <1>1, DeleteFrame DEF Cleanup
<1>2. CASE CleanupAgentFlows
  <2>1. /\ loginSessions' = Purge(loginSessions, {})
        /\ appSessions' = Purge(appSessions, ChildrenOf(appSessions, {}))
        /\ handoffs' = Purge(handoffs, ChildrenOf(handoffs, {}) \cup {})
    BY <1>2 DEF CleanupAgentFlows, Purge, ChildrenOf, TypeInv, TypeOK
  <2>2. DeleteLogins({})
    BY <2>1 DEF DeleteLogins
  <2>. QED  BY <1>2, <2>1, <2>2, DeleteFrame DEF CleanupAgentFlows
<1>. QED  BY <1>1, <1>2

\* Every step keeps the tables in agreement.
LEMMA NextTables ==
    ASSUME TypeInv, TableInv, [Next]_vars
    PROVE  TableInv'
<1>1. CASE UNCHANGED tables /\ UNCHANGED reqs
  BY <1>1 DEF TableInv, CascadeHolds, OneSessionPerCode, SessionMatchesHandoff,
              OneLoginPerFlow, GrantHeld, FlowHeld, FlowsSpent, tables
<1>. QED  BY <1>1, BeginTables, StepTables, FailTables, SweepTables
          DEF Next, Tick, Redeploy, vars

-------------------------------------------------------------------------------
(* The safety properties *)

\* The session tables always agree with each other and with the requests that
\* are between two of their writes (sessions.ts:75-131, openauth.ts:80-120).
THEOREM TablesAgree == Spec => []TableInv
<1>1. TypeInv /\ TableInv /\ [Next]_vars => TableInv'
  BY NextTables
<1>. QED  BY <1>1, InitTables, TypeCorrect, PTL DEF Spec

\* Every table and every request in flight keeps its type.
THEOREM TypesHold == Spec => []TypeOK
<1>1. TypeInv => TypeOK
  BY DEF TypeInv
<1>. QED  BY <1>1, TypeCorrect, PTL

\* Nothing is ever present below a login that is gone.
THEOREM LogoutCascades == Spec => []CascadeHolds
<1>1. TableInv => CascadeHolds
  BY DEF TableInv
<1>. QED  BY <1>1, TablesAgree, PTL

\* However many exchanges race, a code gives at most one session.
THEOREM CodesAreSingleUse == Spec => []OneSessionPerCode
<1>1. TableInv => OneSessionPerCode
  BY DEF TableInv
<1>. QED  BY <1>1, TablesAgree, PTL

\* However many callbacks race, a login flow gives at most one login.
THEOREM FlowsAreSingleUse == Spec => []OneLoginPerFlow
<1>1. TableInv => OneLoginPerFlow
  BY DEF TableInv
<1>. QED  BY <1>1, TablesAgree, PTL

\* A session is the one its code was issued for.
THEOREM SessionsMatch == Spec => []SessionMatchesHandoff
<1>1. TableInv => SessionMatchesHandoff
  BY DEF TableInv
<1>. QED  BY <1>1, TablesAgree, PTL

\* Which statements take a request to its answer "authenticated" and into an
\* exchange: only the ones that have checked the session and taken the code.
LEMMA StepAnswers ==
    ASSUME TypeInv, NEW r \in Requests, Step(r), ~ Authenticate(r)
    PROVE  /\ reqs'[r].pc # "authenticated"
           /\ \A s \in Requests : s # r => reqs'[s] = reqs[s]
           /\ reqs'[r].pc = "grant" => ConsumeHandoff(r)
<1>0. ASSUME NEW q, Advance(r, q), q.pc # "authenticated"
      PROVE  /\ reqs'[r].pc # "authenticated"
             /\ \A s \in Requests : s # r => reqs'[s] = reqs[s]
  BY <1>0 DEF Advance, TypeInv, TypeOK
<1>1. ASSUME NEW q, Advance(r, q), q.pc \notin {"authenticated", "grant"}
      PROVE  /\ reqs'[r].pc \notin {"authenticated", "grant"}
             /\ \A s \in Requests : s # r => reqs'[s] = reqs[s]
  BY <1>1 DEF Advance, TypeInv, TypeOK
<1>2. ASSUME NEW a \in (Awaits \cup Answered) \ {"authenticated", "grant"}, Goto(r, a)
      PROVE  /\ reqs'[r].pc \notin {"authenticated", "grant"}
             /\ \A s \in Requests : s # r => reqs'[s] = reqs[s]
  BY <1>1, <1>2, AwaitingFields DEF Goto
<1>3. ASSUME Finish(r)
      PROVE  /\ reqs'[r].pc \notin {"authenticated", "grant"}
             /\ \A s \in Requests : s # r => reqs'[s] = reqs[s]
  BY <1>1, <1>3 DEF Finish, Idle
<1>4. CASE LoginFound(r) \/ NoAgentFlow(r) \/ ConsumeAgentFlow(r) \/ FindDevice(r)
  BY <1>2, <1>3, <1>4 DEF LoginFound, NoAgentFlow, ConsumeAgentFlow, FindDevice, Awaits
<1>5. CASE StartFlow(r) \/ StartAgentFlow(r) \/ CreateHandoff(r) \/ FlowGone(r)
           \/ HandoffRefused(r) \/ GrantRefused(r) \/ Reject(r)
           \/ RevokeSession(r) \/ RevokeLogin(r)
  BY <1>3, <1>5 DEF StartFlow, StartAgentFlow, CreateHandoff, FlowGone,
     HandoffRefused, GrantRefused, Reject, RevokeSession, RevokeLogin
<1>6. CASE LoginNotFound(r)
  <2>1. ASSUME NEW p, p = Awaiting(r, "startFlow"),
               NEW u, u = [p EXCEPT !.login = Null]
        PROVE  u.pc = "startFlow"
    BY <2>1, AwaitingFields DEF Awaits, Request
  <2>. QED  BY <1>1, <1>3, <1>6, <2>1 DEF LoginNotFound
<1>7. CASE ConsumeFlow(r)
  <2>1. ASSUME NEW p, p = Awaiting(r, "createLogin"), NEW k, NEW v,
               NEW u, u = [p EXCEPT !.clientId = k, !.verifier = v]
        PROVE  u.pc = "createLogin"
    BY <2>1, AwaitingFields DEF Awaits, Request
  <2>2. Finish(r) \/ Advance(r, [Awaiting(r, "createLogin") EXCEPT
                            !.clientId = loginFlows[reqs[r].flow].clientId,
                            !.verifier = loginFlows[reqs[r].flow].challenge])
    BY <1>7 DEF ConsumeFlow
  <2>. QED  BY <1>1, <1>3, <2>1, <2>2
<1>8. CASE CreateLogin(r)
  <2>1. ASSUME NEW p, p = Awaiting(r, "createHandoff"), NEW k,
               NEW u, u = [p EXCEPT !.login = k, !.flow = Null]
        PROVE  u.pc = "createHandoff"
    BY <2>1, AwaitingFields DEF Awaits, Request
  <2>2. Finish(r) \/ \E k \in Logins :
           Advance(r, [Awaiting(r, "createHandoff") EXCEPT !.login = k, !.flow = Null])
    BY <1>8 DEF CreateLogin
  <2>. QED  BY <1>1, <1>3, <2>1, <2>2
<1>9. CASE ConsumeHandoff(r)
  <2>1. ASSUME NEW p, p = Awaiting(r, "grant"), NEW k,
               NEW u, u = [p EXCEPT !.login = k]
        PROVE  u.pc = "grant"
    BY <2>1, AwaitingFields DEF Awaits, Request
  <2>2. Advance(r, [Awaiting(r, "grant") EXCEPT !.login = handoffs[reqs[r].code].loginId])
    BY <1>9 DEF ConsumeHandoff
  <2>. QED  BY <1>0, <1>9, <2>1, <2>2
<1>10. CASE GrantSession(r)
  <2>1. ASSUME NEW p, p = Awaiting(r, "confirm"), NEW k,
               NEW u, u = [p EXCEPT !.token = k]
        PROVE  u.pc = "confirm"
    BY <2>1, AwaitingFields DEF Awaits, Request
  <2>2. \E k \in Tokens : Advance(r, [Awaiting(r, "confirm") EXCEPT !.token = k])
    BY <1>10 DEF GrantSession
  <2>. QED  BY <1>1, <2>1, <2>2
<1>. QED  BY <1>4, <1>5, <1>6, <1>7, <1>8, <1>9, <1>10 DEF Step

-------------------------------------------------------------------------------
(* The promise of SingleSignOn *)

\* The abstract variables are functions, and a table that stays is mapped to the
\* same value.
LEMMA Views ==
    /\ ssoLogin = [l \in Logins |-> ssoLogin[l]]
    /\ ssoLogin' = [l \in Logins |-> ssoLogin'[l]]
    /\ ssoCode = [c \in Codes |-> ssoCode[c]]
    /\ ssoCode' = [c \in Codes |-> ssoCode'[c]]
    /\ ssoSession = [t \in Tokens |-> ssoSession[t]]
    /\ ssoSession' = [t \in Tokens |-> ssoSession'[t]]
    /\ UNCHANGED loginSessions => UNCHANGED ssoLogin
    /\ UNCHANGED appSessions => UNCHANGED ssoSession
<1>1. /\ ssoLogin = [l \in Logins |-> ssoLogin[l]]
      /\ ssoLogin' = [l \in Logins |-> ssoLogin'[l]]
  BY DEF ssoLogin
<1>5. UNCHANGED loginSessions => UNCHANGED ssoLogin
  BY DEF ssoLogin
<1>2. /\ ssoCode = [c \in Codes |-> ssoCode[c]]
      /\ ssoCode' = [c \in Codes |-> ssoCode'[c]]
  BY DEF ssoCode
<1>3. /\ ssoSession = [t \in Tokens |-> ssoSession[t]]
      /\ ssoSession' = [t \in Tokens |-> ssoSession'[t]]
  BY DEF ssoSession
<1>4. UNCHANGED appSessions => UNCHANGED ssoSession
  BY DEF ssoSession
<1>. QED  BY <1>1, <1>2, <1>3, <1>4, <1>5

\* A request outside the exchange moves on: every exchange stays as it was.
LEMMA OtherExchanges ==
    ASSUME NEW r \in Requests, reqs[r].pc # "grant", reqs'[r].pc # "grant",
           \A s \in Requests : s # r => reqs'[s] = reqs[s]
    PROVE  \A c \in Codes : InExchange(c)' <=> InExchange(c)
BY DEF InExchange

\* A code whose row and exchange stay is mapped to the same state.
LEMMA KeptCode ==
    ASSUME NEW c \in Codes, handoffs'[c] = handoffs[c], InExchange(c)' <=> InExchange(c)
    PROVE  ssoCode'[c] = ssoCode[c]
BY DEF ssoCode

\* While a request holds a code, the code is open; when it lets go, closed.
LEMMA HeldCode ==
    ASSUME TypeInv, TableInv, NEW r \in Requests, reqs[r].pc = "grant",
           reqs'[r].pc # "grant", \A s \in Requests : s # r => reqs'[s] = reqs[s],
           UNCHANGED handoffs
    PROVE  LET c == reqs[r].code IN
           /\ c \in Codes
           /\ ssoCode[c] = [state |-> "open", login |-> reqs[r].login,
                            client |-> reqs[r].clientId]
           /\ ssoCode'[c] = [state |-> "closed", login |-> reqs[r].login,
                             client |-> reqs[r].clientId]
           /\ \A d \in Codes : d # c => ssoCode'[d] = ssoCode[d]
<1>1. PICK c \in Codes : /\ c = reqs[r].code /\ handoffs[c].row = "deleted"
                        /\ handoffs[c].loginId = reqs[r].login
                        /\ handoffs[c].clientId = reqs[r].clientId
                        /\ \A q \in Requests : reqs[q].pc = "grant" /\ reqs[q].code = c
                              => q = r
  BY DEF TableInv, GrantHeld, TypeInv, RequestsOK, RequestOK
<1>2. InExchange(c) /\ ~ InExchange(c)'
  BY <1>1 DEF InExchange
<1>3. \A d \in Codes : d # c => (InExchange(d)' <=> InExchange(d))
  BY <1>1 DEF InExchange
<1>4. \A d \in Codes : d # c => ssoCode'[d] = ssoCode[d]
  BY <1>3, KeptCode
<1>5. /\ ssoCode[c] = [state |-> "open", login |-> reqs[r].login,
                        client |-> reqs[r].clientId]
      /\ ssoCode'[c] = [state |-> "closed", login |-> reqs[r].login,
                         client |-> reqs[r].clientId]
  BY <1>1, <1>2 DEF ssoCode
<1>. QED  BY <1>1, <1>4, <1>5

\* An exchange that gives up voids its code.
LEMMA GiveUp ==
    ASSUME TypeInv, TableInv, NEW r \in Requests, reqs[r].pc = "grant",
           reqs'[r].pc # "grant", \A s \in Requests : s # r => reqs'[s] = reqs[s],
           UNCHANGED <<loginSessions, handoffs, appSessions>>
    PROVE  SSO!Next
<1>. DEFINE c == reqs[r].code
<1>1. /\ c \in Codes /\ ssoCode[c].state = "open"
      /\ ssoCode'[c] = [ssoCode[c] EXCEPT !.state = "closed"]
      /\ \A d \in Codes : d # c => ssoCode'[d] = ssoCode[d]
  <2>1. PICK k : k = ssoCode[c]
    OBVIOUS
  <2>2. k = [state |-> "open", login |-> reqs[r].login, client |-> reqs[r].clientId]
    BY <2>1, HeldCode
  <2>. QED  BY <2>1, <2>2, HeldCode
<1>2. SSO!Void({c})
  BY <1>1, Views DEF SSO!Void
<1>3. UNCHANGED <<ssoLogin, ssoSession>>
  BY Views
<1>. QED  BY <1>1, <1>2, <1>3 DEF SSO!Next

\* A request that is not in an exchange moves on without touching the tables of
\* logins, codes and sessions.
LEMMA NothingSeen ==
    ASSUME NEW r \in Requests, reqs[r].pc # "grant", reqs'[r].pc # "grant",
           \A s \in Requests : s # r => reqs'[s] = reqs[s],
           UNCHANGED <<loginSessions, handoffs, appSessions>>
    PROVE  UNCHANGED SSO!vars
<1>1. \A c \in Codes : ssoCode'[c] = ssoCode[c]
  BY OtherExchanges, KeptCode
<1>. QED  BY <1>1, Views DEF SSO!vars

\* A login is created: Open.
LEMMA OpenStep ==
    ASSUME TypeInv, NEW r \in Requests, CreateLogin(r), UNCHANGED ssoCode
    PROVE  SSO!Next
<1>1. PICK l \in Logins :
         /\ loginSessions[l].row = "unused" /\ loginSessions'[l].row = "present"
         /\ \A m \in Logins : m # l => loginSessions'[m] = loginSessions[m]
  BY DEF CreateLogin, NoLogin, TypeInv, TypeOK
<1>2. /\ ssoLogin[l] = "none" /\ ssoLogin'[l] = "live"
      /\ \A m \in Logins : m # l => ssoLogin'[m] = ssoLogin[m]
  BY <1>1 DEF ssoLogin, StateOf
<1>3. UNCHANGED ssoSession
  BY Views DEF CreateLogin
<1>4. SSO!Open(l)
  BY <1>2, <1>3, Views DEF SSO!Open
<1>. QED  BY <1>4 DEF SSO!Next

\* A handoff is inserted below a login that is there: Issue.
LEMMA IssueStep ==
    ASSUME TypeInv, TableInv, NEW r \in Requests, CreateHandoff(r),
           \A c \in Codes : InExchange(c)' <=> InExchange(c)
    PROVE  SSO!Next
<1>1. PICK c \in Codes :
         /\ handoffs[c] = NoHandoff
         /\ handoffs'[c].row = "present"
         /\ handoffs'[c].loginId = reqs[r].login
         /\ handoffs'[c].clientId = reqs[r].clientId
         /\ \A d \in Codes : d # c => handoffs'[d] = handoffs[d]
  BY DEF CreateHandoff, TypeInv, TypeOK
<1>2. PICK l \in Logins, client \in Clients :
         /\ l = reqs[r].login /\ client = reqs[r].clientId
         /\ loginSessions[l].row = "present"
  BY DEF CreateHandoff, At, Present, TypeInv, RequestsOK, RequestOK
<1>3. ssoLogin[l] = "live"
  BY <1>2 DEF ssoLogin, StateOf
<1>4. /\ ssoCode[c] = SSO!NoCode
      /\ ssoCode'[c] = [state |-> "open", login |-> l, client |-> client]
  BY <1>1, <1>2 DEF ssoCode, SSO!NoCode, NoHandoff
<1>5. \A d \in Codes : d # c => ssoCode'[d] = ssoCode[d]
  BY <1>1, KeptCode
<1>6. UNCHANGED <<ssoLogin, ssoSession>>
  BY Views DEF CreateHandoff
<1>7. SSO!Issue(c, l, client)
  BY <1>3, <1>4, <1>5, <1>6, Views DEF SSO!Issue
<1>. QED  BY <1>7 DEF SSO!Next

\* A code is deleted by the exchange that will redeem it: nothing is seen yet.
LEMMA TakeStep ==
    ASSUME TypeInv, TableInv, TableInv', NEW r \in Requests, ConsumeHandoff(r),
           reqs'[r].pc = "grant", reqs'[r].code = reqs[r].code,
           \A s \in Requests : s # r => reqs'[s] = reqs[s]
    PROVE  UNCHANGED SSO!vars
<1>1. PICK c \in Codes : /\ c = reqs[r].code /\ handoffs[c].row = "present"
                        /\ handoffs' = Purge(handoffs, {c})
  BY DEF ConsumeHandoff, HandoffMatches, Present, TakeHandoff, At, TypeInv,
         RequestsOK, RequestOK
<1>2. /\ handoffs'[c].row = "deleted"
      /\ handoffs'[c].loginId = handoffs[c].loginId
      /\ handoffs'[c].clientId = handoffs[c].clientId
  BY <1>1, PurgeRow, ZenonT(30)
<1>3. \A d \in Codes : d # c => handoffs'[d] = handoffs[d]
  BY <1>1 DEF Purge, TypeInv, TypeOK
<1>4. InExchange(c)'
  BY <1>1 DEF InExchange
<1>5. \A d \in Codes : d # c => (InExchange(d)' <=> InExchange(d))
  BY <1>1 DEF InExchange, ConsumeHandoff, At
<1>6. ssoCode'[c] = ssoCode[c]
  BY <1>1, <1>2, <1>4 DEF ssoCode
<1>7. \A d \in Codes : ssoCode'[d] = ssoCode[d]
  BY <1>3, <1>5, <1>6, KeptCode
<1>. QED  BY <1>7, Views DEF SSO!vars, ConsumeHandoff

\* The session is inserted from a login that is live: Redeem.
LEMMA RedeemStep ==
    ASSUME TypeInv, TableInv, NEW r \in Requests, GrantSession(r),
           reqs'[r].pc # "grant", \A s \in Requests : s # r => reqs'[s] = reqs[s]
    PROVE  SSO!Next
<1>1. PICK c \in Codes, l \in Logins, client \in Clients :
         c = reqs[r].code /\ l = reqs[r].login /\ client = reqs[r].clientId
  BY DEF GrantSession, At, TypeInv, RequestsOK, RequestOK
<1>2. PICK t \in Tokens :
         /\ appSessions[t] = NoSession
         /\ appSessions'[t] = [row |-> "present", loginId |-> l, clientId |-> client,
                               code |-> c]
         /\ \A u \in Tokens : u # t => appSessions'[u] = appSessions[u]
  BY <1>1 DEF GrantSession, TypeInv, TypeOK
<1>3. loginSessions[l].row = "present" /\ ssoLogin[l] = "live"
  BY <1>1 DEF GrantSession, LiveLogin, Present, ssoLogin, StateOf
<1>4. /\ ssoSession[t] = SSO!NoSession
      /\ ssoSession'[t] = [state |-> "live", login |-> l, client |-> client]
      /\ \A u \in Tokens : u # t => ssoSession'[u] = ssoSession[u]
  BY <1>2 DEF ssoSession, StateOf, SSO!NoSession, NoSession
<1>5. /\ ssoCode[c] = [state |-> "open", login |-> l, client |-> client]
      /\ ssoCode'[c] = [state |-> "closed", login |-> l, client |-> client]
      /\ \A d \in Codes : d # c => ssoCode'[d] = ssoCode[d]
  BY <1>1, HeldCode DEF GrantSession, At
<1>6. UNCHANGED ssoLogin
  BY Views DEF GrantSession
<1>7. SSO!Redeem(c, t)
  <2>1. /\ ssoCode[c].state = "open" /\ ssoCode[c].login = l
        /\ ssoCode[c].client = client
        /\ ssoCode'[c] = [ssoCode[c] EXCEPT !.state = "closed"]
    BY <1>5
  <2>2. ssoCode' = [ssoCode EXCEPT ![c].state = "closed"]
    BY <1>5, <2>1, Views
  <2>3. ssoSession' = [ssoSession EXCEPT ![t] =
             [state |-> "live", login |-> l, client |-> client]]
    BY <1>4, Views
  <2>. QED  BY <1>3, <1>4, <1>6, <2>1, <2>2, <2>3 DEF SSO!Redeem
<1>. QED  BY <1>7 DEF SSO!Next

\* A present code is held by no exchange; what an exchange holds is deleted.
LEMMA PresentNotHeld ==
    ASSUME TypeInv, TableInv, NEW c \in Codes, handoffs[c].row = "present"
    PROVE  ~ InExchange(c)
BY DEF InExchange, TableInv, GrantHeld

\* Logins are deleted with their children, by a logout or the sweep: End and Void
\* in one step.  The cascade has left no session of an earlier login to end.
LEMMA EndStep ==
    ASSUME TypeInv, TableInv, NEW D, NEW H, DeleteLogins(D),
           handoffs' = Purge(handoffs, ChildrenOf(handoffs, D) \cup H),
           \A c \in Codes : InExchange(c)' <=> InExchange(c)
    PROVE  SSO!Next
<1>1. PICK L \in SUBSET Logins :
         \A l \in Logins : l \in L <=> l \in D /\ loginSessions[l].row = "present"
  <2>. WITNESS {l \in Logins : l \in D /\ loginSessions[l].row = "present"}
                \in SUBSET Logins
  <2>. QED  OBVIOUS
<1>2. PICK S \in SUBSET Codes :
         \A c \in Codes :
            c \in S <=> handoffs[c].row = "present" /\ (handoffs[c].loginId \in D \/ c \in H)
  <2>. WITNESS {c \in Codes : /\ handoffs[c].row = "present"
                              /\ handoffs[c].loginId \in D \/ c \in H}
                \in SUBSET Codes
  <2>. QED  OBVIOUS
<1>3. /\ \A l \in L : ssoLogin[l] = "live"
      /\ \A l \in Logins : ssoLogin'[l] = IF l \in L THEN "ended" ELSE ssoLogin[l]
  BY <1>1, PurgeRow DEF DeleteLogins, ssoLogin, StateOf
<1>4. \A t \in Tokens : ssoSession'[t] =
         IF ssoSession[t].state = "live" /\ ssoSession[t].login \in L
           THEN [ssoSession[t] EXCEPT !.state = "ended"] ELSE ssoSession[t]
  <2>. SUFFICES ASSUME NEW t \in Tokens
               PROVE  ssoSession'[t] =
                   IF ssoSession[t].state = "live" /\ ssoSession[t].login \in L
                     THEN [ssoSession[t] EXCEPT !.state = "ended"] ELSE ssoSession[t]
    OBVIOUS
  <2>1. PICK row, l, client : /\ row = appSessions[t].row
                              /\ l = appSessions[t].loginId
                              /\ client = appSessions[t].clientId
    OBVIOUS
  <2>2. appSessions'[t].row = (IF row = "present" /\ l \in D THEN "deleted" ELSE row)
        /\ appSessions'[t].loginId = l /\ appSessions'[t].clientId = client
    BY <2>1, PurgeRow DEF DeleteLogins, ChildrenOf, TypeInv, TypeOK
  <2>3. row = "present" => (l \in L <=> l \in D)
    BY <1>1, <2>1, UsedRow DEF TableInv, CascadeHolds
  <2>4. PICK s : s = ssoSession[t]
    OBVIOUS
  <2>5. s = [state |-> StateOf(row), login |-> l, client |-> client]
    BY <2>1, <2>4 DEF ssoSession
  <2>6. ssoSession'[t] =
           [state |-> StateOf(IF row = "present" /\ l \in D THEN "deleted" ELSE row),
            login |-> l, client |-> client]
    BY <2>2 DEF ssoSession, StateOf
  <2>7. ssoSession'[t] = IF s.state = "live" /\ s.login \in L
                          THEN [s EXCEPT !.state = "ended"] ELSE s
    BY <2>3, <2>5, <2>6 DEF StateOf
  <2>. QED  BY <2>4, <2>7
<1>5. \A c \in S : /\ ssoCode[c].state = "open"
                  /\ ssoCode'[c] = [ssoCode[c] EXCEPT !.state = "closed"]
  <2>. SUFFICES ASSUME NEW c \in S
               PROVE  /\ ssoCode[c].state = "open"
                      /\ ssoCode'[c] = [ssoCode[c] EXCEPT !.state = "closed"]
    OBVIOUS
  <2>1. c \in Codes /\ handoffs[c].row = "present"
    BY <1>2
  <2>2. /\ handoffs'[c].row = "deleted"
        /\ handoffs'[c].loginId = handoffs[c].loginId
        /\ handoffs'[c].clientId = handoffs[c].clientId
    BY <1>2, PurgeRow DEF ChildrenOf, TypeInv, TypeOK
  <2>3. ~ InExchange(c) /\ ~ InExchange(c)'
    BY <2>1, PresentNotHeld
  <2>4. PICK k : k = ssoCode[c]
    OBVIOUS
  <2>5. k = [state |-> "open", login |-> handoffs[c].loginId,
             client |-> handoffs[c].clientId]
    BY <2>1, <2>4 DEF ssoCode
  <2>6. ssoCode'[c] = [state |-> "closed", login |-> handoffs[c].loginId,
                      client |-> handoffs[c].clientId]
    BY <2>1, <2>2, <2>3 DEF ssoCode
  <2>. QED  BY <2>4, <2>5, <2>6
<1>6. \A c \in Codes : c \notin S => ssoCode'[c] = ssoCode[c]
  <2>. SUFFICES ASSUME NEW c \in Codes, c \notin S PROVE ssoCode'[c] = ssoCode[c]
    OBVIOUS
  <2>1. handoffs'[c] = handoffs[c]
    BY <1>2 DEF Purge, ChildrenOf, TypeInv, TypeOK
  <2>. QED  BY <2>1, KeptCode
<1>7. SSO!End(L)
  BY <1>3, <1>4, Views DEF SSO!End
<1>8. SSO!Void(S)
  BY <1>5, <1>6, Views DEF SSO!Void
<1>. QED  BY <1>7, <1>8 DEF SSO!Next

\* Every statement of a request is a step of the promise, or is not seen.
LEMMA StepImplements ==
    ASSUME TypeInv, TableInv, TableInv', NEW r \in Requests, Step(r)
    PROVE  SSO!Next \/ UNCHANGED SSO!vars
<1>. USE DEF At
<1>1. CASE Authenticate(r)
  <2>1. Awaiting(r, "authenticated").pc = "authenticated"
    BY AwaitingFields DEF Answered
  <2>2. /\ reqs[r].pc # "grant" /\ reqs'[r].pc # "grant"
        /\ \A s \in Requests : s # r => reqs'[s] = reqs[s]
    BY <1>1, <2>1 DEF Authenticate, Goto, Advance, TypeInv, TypeOK
  <2>. QED  BY <1>1, <2>2, NothingSeen DEF Authenticate, tables
<1>. SUFFICES ASSUME ~ Authenticate(r)
             PROVE  SSO!Next \/ UNCHANGED SSO!vars
  BY <1>1
<1>2. /\ \A s \in Requests : s # r => reqs'[s] = reqs[s]
      /\ reqs'[r].pc = "grant" => ConsumeHandoff(r)
  BY StepAnswers
<1>3. CASE \/ LoginFound(r) \/ LoginNotFound(r) \/ StartFlow(r) \/ StartAgentFlow(r)
           \/ ConsumeAgentFlow(r) \/ NoAgentFlow(r) \/ FindDevice(r)
           \/ ConsumeFlow(r) \/ FlowGone(r) \/ HandoffRefused(r) \/ Reject(r)
  <2>1. reqs[r].pc \notin {"grant"} /\ UNCHANGED <<loginSessions, handoffs, appSessions>>
    BY <1>3 DEF LoginFound, LoginNotFound, StartFlow, StartAgentFlow,
       ConsumeAgentFlow, NoAgentFlow, FindDevice, ConsumeFlow, FlowGone,
       HandoffRefused, Reject, tables
  <2>2. ~ ConsumeHandoff(r) \/ HandoffRefused(r)
    BY <1>3 DEF ConsumeHandoff, LoginFound, LoginNotFound, StartFlow, StartAgentFlow,
       ConsumeAgentFlow, NoAgentFlow, FindDevice, ConsumeFlow, FlowGone, Reject
  <2>3. HandoffRefused(r) => reqs'[r].pc # "grant"
    BY DEF HandoffRefused, Finish, Advance, Idle, TypeInv, TypeOK
  <2>. QED  BY <1>2, <2>1, <2>2, <2>3, NothingSeen
<1>4. CASE CreateLogin(r)
  <2>1. reqs[r].pc # "grant" /\ reqs'[r].pc # "grant" /\ UNCHANGED handoffs
    BY <1>2, <1>4 DEF CreateLogin, ConsumeHandoff
  <2>2. UNCHANGED ssoCode
    BY <1>2, <2>1, OtherExchanges, KeptCode, Views
  <2>. QED  BY <1>4, <2>2, OpenStep
<1>5. CASE CreateHandoff(r)
  <2>1. reqs[r].pc # "grant" /\ reqs'[r].pc # "grant"
    BY <1>2, <1>5 DEF CreateHandoff, ConsumeHandoff
  <2>. QED  BY <1>2, <1>5, <2>1, OtherExchanges, IssueStep
<1>6. CASE ConsumeHandoff(r)
  <2>1. PICK p : p = Awaiting(r, "grant")
    OBVIOUS
  <2>2. reqs'[r] = [p EXCEPT !.login = handoffs[reqs[r].code].loginId]
    BY <1>6, <2>1 DEF ConsumeHandoff, Advance, TypeInv, TypeOK
  <2>3. p \in Request /\ p.pc = "grant" /\ p.code = reqs[r].code
    BY <2>1, AwaitingFields DEF Awaits
  <2>4. reqs'[r].pc = "grant" /\ reqs'[r].code = reqs[r].code
    BY <2>2, <2>3 DEF Request
  <2>. QED  BY <1>2, <1>6, <2>4, TakeStep
<1>7. CASE GrantSession(r)
  <2>1. reqs'[r].pc # "grant"
    BY <1>2, <1>7 DEF GrantSession, ConsumeHandoff
  <2>. QED  BY <1>2, <1>7, <2>1, RedeemStep
<1>8. CASE GrantRefused(r)
  <2>1. reqs'[r].pc # "grant" /\ reqs[r].pc = "grant"
    BY <1>2, <1>8 DEF GrantRefused, ConsumeHandoff
  <2>. QED  BY <1>2, <1>8, <2>1, GiveUp DEF GrantRefused, tables
<1>9. CASE RevokeSession(r) \/ RevokeLogin(r)
  <2>1. reqs'[r].pc # "grant" /\ reqs[r].pc # "grant"
    BY <1>2, <1>9 DEF RevokeSession, RevokeLogin, ConsumeHandoff
  <2>2. PICK D : DeleteLogins(D) /\ handoffs' = Purge(handoffs, ChildrenOf(handoffs, D))
    BY <1>9 DEF RevokeSession, RevokeLogin
  <2>3. ChildrenOf(handoffs, D) = ChildrenOf(handoffs, D) \cup {}
    OBVIOUS
  <2>4. handoffs' = Purge(handoffs, ChildrenOf(handoffs, D) \cup {})
    BY <2>2, <2>3
  <2>. QED  BY <1>2, <2>1, <2>2, <2>4, OtherExchanges, EndStep
<1>. QED  BY <1>3, <1>4, <1>5, <1>6, <1>7, <1>8, <1>9 DEF Step

\* Every step of the Worker, the sweeps and the clock, too.
LEMMA NextImplements ==
    ASSUME TypeInv, TableInv, TableInv', [Next]_vars
    PROVE  [SSO!Next]_(SSO!vars)
<1>1. CASE UNCHANGED tables /\ UNCHANGED reqs
  <2>1. \A c \in Codes : InExchange(c)' <=> InExchange(c)
    BY <1>1 DEF InExchange
  <2>2. \A c \in Codes : ssoCode'[c] = ssoCode[c]
    BY <1>1, <2>1, KeptCode DEF tables
  <2>. QED  BY <1>1, <2>2, Views DEF SSO!vars, tables
<1>2. ASSUME NEW r \in Requests, Arrive(r)
      PROVE  UNCHANGED SSO!vars
  <2>1. PICK q \in Request : q.pc # "grant" /\ Begin(r, q)
    BY <1>2, ArriveRequest
  <2>2. /\ reqs[r].pc # "grant" /\ reqs'[r].pc # "grant"
        /\ \A s \in Requests : s # r => reqs'[s] = reqs[s]
    BY <2>1 DEF Begin, Answered, TypeInv, TypeOK
  <2>. QED  BY <2>1, <2>2, NothingSeen DEF Begin, tables
<1>3. ASSUME NEW r \in Requests, Fail(r)
      PROVE  SSO!Next \/ UNCHANGED SSO!vars
  <2>1. /\ reqs'[r].pc # "grant"
        /\ \A s \in Requests : s # r => reqs'[s] = reqs[s]
    BY <1>3 DEF Fail, Finish, Advance, Idle, TypeInv, TypeOK
  <2>. QED  BY <1>3, <2>1, GiveUp, NothingSeen DEF Fail, tables
<1>4. CASE Cleanup
  <2>1. \A c \in Codes : InExchange(c)' <=> InExchange(c)
    BY <1>4 DEF Cleanup, InExchange
  <2>. QED  BY <1>4, <2>1, EndStep DEF Cleanup
<1>5. CASE CleanupAgentFlows
  <2>1. \A c \in Codes : InExchange(c)' <=> InExchange(c)
    BY <1>5 DEF CleanupAgentFlows, InExchange
  <2>2. \A c \in Codes : ssoCode'[c] = ssoCode[c]
    BY <1>5, <2>1, KeptCode DEF CleanupAgentFlows
  <2>. QED  BY <1>5, <2>2, Views DEF SSO!vars, CleanupAgentFlows
<1>. QED  BY <1>1, <1>2, <1>3, <1>4, <1>5, StepImplements
          DEF Next, Tick, Redeploy, vars

\* The Worker with its tables, requests, sweeps and failures does what SingleSignOn
\* promises: whatever interleaves, a code gives one session below a live login,
\* and the end of a login ends all it has given in the same step.
THEOREM SignOnImplemented == Spec => ImplementsSingleSignOn
<1>1. Init => SSO!Init
  BY DEF Init, SSO!Init, SSO!NoCode, SSO!NoSession, ssoLogin, ssoCode, ssoSession,
         StateOf, NoLogin, NoHandoff, NoSession
<1>2. TypeInv /\ TableInv /\ TableInv' /\ [Next]_vars => [SSO!Next]_(SSO!vars)
  BY NextImplements
<1>. QED  BY <1>1, <1>2, TypeCorrect, TablesAgree, PTL
          DEF Spec, ImplementsSingleSignOn, SSO!Spec

===============================================================================
