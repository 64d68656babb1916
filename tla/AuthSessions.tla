----------------------------- MODULE AuthSessions -----------------------------
(***************************************************************************)
(* The Auth Worker's browser sessions: the D1 tables login_sessions,       *)
(* handoffs, app_sessions, login_flows and agent_login_flows, and the      *)
(* requests that read and write them.  A request is a sequence of D1       *)
(* statements with awaits in between; each statement is atomic and the     *)
(* requests interleave at the awaits.  A request may stop at any await (a  *)
(* D1 or RPC failure, a lost isolate), leaving what it has written.        *)
(*                                                                         *)
(* Random tokens and their hashes are identifiers taken from a set and     *)
(* never taken twice.  A row that has been deleted keeps its columns in    *)
(* the model, so that properties can speak of where it came from; no       *)
(* statement reads a deleted row.                                          *)
(*                                                                         *)
(* A statement that compares with Date.now() uses the instant at which it  *)
(* was built, somewhere between the end of the previous await and now.     *)
(***************************************************************************)
EXTENDS Naturals

CONSTANTS
    Logins,       \* login session tokens, the value of the SSO cookie
    Codes,        \* handoff codes
    Tokens,       \* app session tokens
    Flows,        \* login flow tokens
    Requests,     \* requests in flight
    Clients,      \* (client id, origin) pairs
    Verifiers,    \* PKCE verifiers; a challenge is the verifier it hides
    Emails,
    Envs,         \* deployed configurations: OWNER_EMAIL and ALLOWED_CLIENTS
    Null,
    SessionTtl, HandoffTtl, LoginTtl,   \* SESSION_TTL, HANDOFF_TTL, LOGIN_TTL
    MaxTime       \* bound on the clock

ASSUME SessionsAssumption ==
    /\ SessionTtl \in Nat /\ HandoffTtl \in Nat /\ LoginTtl \in Nat
    /\ MaxTime \in Nat
    /\ Envs \subseteq [owner : Emails, allowed : SUBSET Clients]
    /\ Envs # {}
    /\ Null \notin Logins \cup Codes \cup Tokens \cup Flows \cup Clients
                          \cup Verifiers \cup Emails \cup Envs

VARIABLES
    now, env,
    loginSessions, handoffs, appSessions, loginFlows,
    reqs

tables == <<loginSessions, handoffs, appSessions, loginFlows>>
vars   == <<now, env, tables, reqs>>

-------------------------------------------------------------------------------
(* Rows and requests *)

NoLogin   == [row |-> "unused", email |-> Null, expiresAt |-> 0, flow |-> Null]
NoHandoff == [row |-> "unused", loginId |-> Null, clientId |-> Null,
              challenge |-> Null, expiresAt |-> 0]
NoSession == [row |-> "unused", loginId |-> Null, clientId |-> Null, code |-> Null]
NoFlow    == [row |-> "unused", table |-> Null, clientId |-> Null,
              challenge |-> Null, expiresAt |-> 0]

Used == {"present", "deleted"}

\* flow and code are not columns: they record which login flow produced the
\* login and which handoff code was exchanged for the session.
LoginRow   == {NoLogin} \cup
    [row : Used, email : Emails, expiresAt : Nat, flow : Flows]
HandoffRow == {NoHandoff} \cup
    [row : Used, loginId : Logins, clientId : Clients, challenge : Verifiers,
     expiresAt : Nat]
SessionRow == {NoSession} \cup
    [row : Used, loginId : Logins, clientId : Clients, code : Codes]
\* One flow token space over two tables, as the flow cookie has it.
FlowRow    == {NoFlow} \cup
    [row : Used, table : {"login_flows"}, clientId : Clients,
     challenge : Verifiers, expiresAt : Nat] \cup
    [row : Used, table : {"agent_login_flows"}, clientId : {Null},
     challenge : {Null}, expiresAt : Nat]

\* What a request awaits next.  "idle" is every reply that is not a session,
\* "authenticated" the reply { kind: "authenticated" }.
Awaits == {"lookup", "startFlow", "startAgentFlow", "consumeAgentFlow",
           "findDevice", "consumeFlow", "createLogin", "createHandoff",
           "consume", "grant", "confirm", "revokeSession", "revokeLogin"}
Answered == {"idle", "authenticated"}

Request == [pc : Awaits \cup Answered, env : Envs \cup {Null}, since : Nat,
            clientId : Clients \cup {Null}, verifier : Verifiers \cup {Null},
            login : Logins \cup {Null}, code : Codes \cup {Null},
            token : Tokens \cup {Null}, flow : Flows \cup {Null}]

Idle == [pc |-> "idle", env |-> Null, since |-> 0, clientId |-> Null,
         verifier |-> Null, login |-> Null, code |-> Null, token |-> Null,
         flow |-> Null]

TypeOK ==
    /\ now \in Nat
    /\ env \in Envs
    /\ loginSessions \in [Logins -> LoginRow]
    /\ handoffs \in [Codes -> HandoffRow]
    /\ appSessions \in [Tokens -> SessionRow]
    /\ loginFlows \in [Flows -> FlowRow]
    /\ reqs \in [Requests -> Request]

Init ==
    /\ now = 0
    /\ env \in Envs
    /\ loginSessions = [l \in Logins |-> NoLogin]
    /\ handoffs      = [c \in Codes |-> NoHandoff]
    /\ appSessions   = [t \in Tokens |-> NoSession]
    /\ loginFlows    = [f \in Flows |-> NoFlow]
    /\ reqs          = [r \in Requests |-> Idle]

-------------------------------------------------------------------------------
(* Statements *)

Present(table, id) == id \in DOMAIN table /\ table[id].row = "present"

\* The instants Date.now() may have had when r built its pending statement.
Stamps(r) == reqs[r].since .. now

\* r is waiting at a, and owns the deployment it started under.
At(r, a) == reqs[r].pc = a

\* A free request slot begins a request whose first await is q.pc.
Begin(r, q) ==
    /\ reqs[r].pc \in Answered
    /\ reqs' = [reqs EXCEPT ![r] = q]
    /\ UNCHANGED <<now, env, tables>>

\* The request runs on, with what it now knows, to its next await.
Awaiting(r, a) == [reqs[r] EXCEPT !.pc = a, !.since = now]
Advance(r, q)  == reqs' = [reqs EXCEPT ![r] = q]
Goto(r, a)     == Advance(r, Awaiting(r, a))
Finish(r)      == Advance(r, Idle)

New(a) == [pc |-> a, env |-> env, since |-> now, clientId |-> Null,
           verifier |-> Null, login |-> Null, code |-> Null, token |-> Null,
           flow |-> Null]

\* isAllowedClient under the request's own deployment
Allowed(e, client) == client \in e.allowed

\* DELETE FROM table WHERE id IN doomed
Purge(table, doomed) ==
    [id \in DOMAIN table |->
        IF id \in doomed /\ table[id].row = "present"
          THEN [table[id] EXCEPT !.row = "deleted"] ELSE table[id]]

\* ON DELETE CASCADE from login_sessions to handoffs and app_sessions
ChildrenOf(table, doomed) == {id \in DOMAIN table : table[id].loginId \in doomed}


DeleteLogins(doomed) ==
    /\ loginSessions' = Purge(loginSessions, doomed)
    /\ appSessions' = Purge(appSessions, ChildrenOf(appSessions, doomed))

\* Mutant: a login kept in a cache outlives its row.
LiveLogin_Cached(l, owner, stamp) ==
    /\ loginSessions[l].email = owner
    /\ loginSessions[l].expiresAt > stamp

\* WHERE token_hash = l AND email = owner AND expires_at > stamp
LiveLogin(l, owner, stamp) ==
    /\ Present(loginSessions, l)
    /\ loginSessions[l].email = owner
    /\ loginSessions[l].expiresAt > stamp

-------------------------------------------------------------------------------
(* GET /authorize: reuse the browser's login, or start one with Google *)

\* The browser presents an SSO cookie of a login that exists or existed.
BeginAuthorize(r) ==
    \E client \in env.allowed, v \in Verifiers, l \in Logins :
        /\ loginSessions[l].row # "unused"
        /\ Begin(r, [New("lookup") EXCEPT !.clientId = client, !.verifier = v,
                                          !.login = l])

\* Without a cookie there is no query: straight to the login flow.
BeginLogin(r) ==
    \E client \in env.allowed, v \in Verifiers :
        Begin(r, [New("startFlow") EXCEPT !.clientId = client, !.verifier = v])

LoginFound(r) ==
    /\ At(r, "lookup")
    /\ \E stamp \in Stamps(r) : LiveLogin(reqs[r].login, reqs[r].env.owner, stamp)
    /\ Goto(r, "createHandoff")
    /\ UNCHANGED <<now, env, tables>>

\* auto=1 answers no_session; otherwise the Google login starts.
LoginNotFound(r) ==
    /\ At(r, "lookup")
    /\ \E stamp \in Stamps(r) : ~ LiveLogin(reqs[r].login, reqs[r].env.owner, stamp)
    /\ \/ Finish(r)
       \/ Advance(r, [Awaiting(r, "startFlow") EXCEPT !.login = Null])
    /\ UNCHANGED <<now, env, tables>>

\* INSERT INTO login_flows
StartFlow(r) ==
    /\ At(r, "startFlow")
    /\ \E f \in Flows, stamp \in Stamps(r) :
        /\ loginFlows[f] = NoFlow
        /\ loginFlows' = [loginFlows EXCEPT ![f] =
               [row |-> "present", table |-> "login_flows",
                clientId |-> reqs[r].clientId,
                challenge |-> reqs[r].verifier, expiresAt |-> stamp + LoginTtl]]
    /\ Finish(r)
    /\ UNCHANGED <<now, env, loginSessions, handoffs, appSessions>>

\* GET /agent/authorize without a login: the same, for approving a device
BeginAgentLogin(r) == Begin(r, New("startAgentFlow"))

StartAgentFlow(r) ==
    /\ At(r, "startAgentFlow")
    /\ \E f \in Flows, stamp \in Stamps(r) :
        /\ loginFlows[f] = NoFlow
        /\ loginFlows' = [loginFlows EXCEPT ![f] =
               [row |-> "present", table |-> "agent_login_flows",
                clientId |-> Null, challenge |-> Null,
                expiresAt |-> stamp + LoginTtl]]
    /\ Finish(r)
    /\ UNCHANGED <<now, env, loginSessions, handoffs, appSessions>>

\* INSERT INTO handoffs; the foreign key needs the login to be there still.
CreateHandoff(r) ==
    /\ At(r, "createHandoff")
    /\ Present(loginSessions, reqs[r].login)
    /\ \E c \in Codes, stamp \in Stamps(r) :
        /\ handoffs[c] = NoHandoff
        /\ handoffs' = [handoffs EXCEPT ![c] =
               [row |-> "present", loginId |-> reqs[r].login,
                clientId |-> reqs[r].clientId, challenge |-> reqs[r].verifier,
                expiresAt |-> stamp + HandoffTtl]]
    /\ Finish(r)
    /\ UNCHANGED <<now, env, loginSessions, appSessions, loginFlows>>

-------------------------------------------------------------------------------
(* POST /google/callback: OpenAuth's success handler *)

\* The callback, or its replay, carries the flow cookie of a started flow.
BeginCallback(r) ==
    \E f \in Flows :
        /\ loginFlows[f].row # "unused"
        /\ Begin(r, [New("consumeAgentFlow") EXCEPT !.flow = f])

LiveFlow(table, f, stamp) ==
    /\ Present(loginFlows, f)
    /\ loginFlows[f].table = table
    /\ loginFlows[f].expiresAt > stamp

\* DELETE FROM agent_login_flows ... RETURNING
ConsumeAgentFlow(r) ==
    /\ At(r, "consumeAgentFlow")
    /\ \E stamp \in Stamps(r) : LiveFlow("agent_login_flows", reqs[r].flow, stamp)
    /\ loginFlows' = Purge(loginFlows, {reqs[r].flow})
    /\ Goto(r, "findDevice")
    /\ UNCHANGED <<now, env, loginSessions, handoffs, appSessions>>

NoAgentFlow(r) ==
    /\ At(r, "consumeAgentFlow")
    /\ \E stamp \in Stamps(r) : ~ LiveFlow("agent_login_flows", reqs[r].flow, stamp)
    /\ Goto(r, "consumeFlow")
    /\ UNCHANGED <<now, env, tables>>

\* The device request is still pending, or not: DeviceAuthorization decides.
FindDevice(r) ==
    /\ At(r, "findDevice")
    /\ Goto(r, "createLogin") \/ Finish(r)
    /\ UNCHANGED <<now, env, tables>>

\* Mutant: the flow is read, and left to expire.
TakeFlow_Reread(f) == loginFlows' = loginFlows

TakeFlow(f) == loginFlows' = Purge(loginFlows, {f})

\* DELETE FROM login_flows ... RETURNING; a removed client has lost its login.
ConsumeFlow(r) ==
    LET f == reqs[r].flow IN
    /\ At(r, "consumeFlow")
    /\ \E stamp \in Stamps(r) : LiveFlow("login_flows", f, stamp)
    /\ TakeFlow(f)
    /\ \/ /\ Allowed(reqs[r].env, loginFlows[f].clientId)
          /\ Advance(r, [Awaiting(r, "createLogin") EXCEPT
                            !.clientId = loginFlows[f].clientId,
                            !.verifier = loginFlows[f].challenge])
       \/ /\ ~ Allowed(reqs[r].env, loginFlows[f].clientId)
          /\ Finish(r)
    /\ UNCHANGED <<now, env, loginSessions, handoffs, appSessions>>

FlowGone(r) ==
    /\ At(r, "consumeFlow")
    /\ \E stamp \in Stamps(r) : ~ LiveFlow("login_flows", reqs[r].flow, stamp)
    /\ Finish(r)
    /\ UNCHANGED <<now, env, tables>>

\* Mutant: the agent's branch does not return and runs into the handoff.
ForApp_Always(r) == TRUE

\* The callback consumed an app's flow, which names a client.
ForApp(r) == reqs[r].clientId # Null

\* INSERT INTO login_sessions for the owner Google has just identified.  An
\* agent's login ends here; an app's goes on to its handoff.
CreateLogin(r) ==
    /\ At(r, "createLogin")
    /\ \E l \in Logins, stamp \in Stamps(r) :
        /\ loginSessions[l] = NoLogin
        /\ loginSessions' = [loginSessions EXCEPT ![l] =
               [row |-> "present", email |-> reqs[r].env.owner,
                expiresAt |-> stamp + SessionTtl, flow |-> reqs[r].flow]]
        /\ \/ /\ ForApp(r)
              /\ Advance(r, [Awaiting(r, "createHandoff") EXCEPT
                                !.login = l, !.flow = Null])
           \/ /\ ~ ForApp(r)
              /\ Finish(r)
    /\ UNCHANGED <<now, env, handoffs, appSessions, loginFlows>>

-------------------------------------------------------------------------------
(* exchangeCode: an app's callback trades the code for a session *)

BeginExchange(r) ==
    \E client \in env.allowed, c \in Codes, v \in Verifiers :
        /\ handoffs[c].row # "unused"
        /\ Begin(r, [New("consume") EXCEPT !.clientId = client, !.code = c,
                                           !.verifier = v])

\* Mutant: the code is not bound to the app it was issued for.
HandoffMatches_AnyClient(q, stamp) ==
    /\ Present(handoffs, q.code)
    /\ handoffs[q.code].challenge = q.verifier
    /\ handoffs[q.code].expiresAt > stamp

HandoffMatches(q, stamp) ==
    /\ Present(handoffs, q.code)
    /\ handoffs[q.code].challenge = q.verifier
    /\ handoffs[q.code].clientId = q.clientId
    /\ handoffs[q.code].expiresAt > stamp

\* Mutant: the handoff is read, and left to expire.
TakeHandoff_Reread(c) == handoffs' = handoffs

TakeHandoff(c) == handoffs' = Purge(handoffs, {c})

\* DELETE FROM handoffs ... RETURNING
ConsumeHandoff(r) ==
    LET c == reqs[r].code IN
    /\ At(r, "consume")
    /\ \E stamp \in Stamps(r) : HandoffMatches(reqs[r], stamp)
    /\ TakeHandoff(c)
    /\ Advance(r, [Awaiting(r, "grant") EXCEPT !.login = handoffs[c].loginId])
    /\ UNCHANGED <<now, env, loginSessions, appSessions, loginFlows>>

HandoffRefused(r) ==
    /\ At(r, "consume")
    /\ \E stamp \in Stamps(r) : ~ HandoffMatches(reqs[r], stamp)
    /\ Finish(r)
    /\ UNCHANGED <<now, env, tables>>

\* INSERT INTO app_sessions SELECT ... FROM login_sessions
GrantSession(r) ==
    /\ At(r, "grant")
    /\ \E stamp \in Stamps(r) : LiveLogin(reqs[r].login, reqs[r].env.owner, stamp)
    /\ \E t \in Tokens :
        /\ appSessions[t] = NoSession
        /\ appSessions' = [appSessions EXCEPT ![t] =
               [row |-> "present", loginId |-> reqs[r].login,
                clientId |-> reqs[r].clientId, code |-> reqs[r].code]]
        /\ Advance(r, [Awaiting(r, "confirm") EXCEPT !.token = t])
    /\ UNCHANGED <<now, env, loginSessions, handoffs, loginFlows>>

GrantRefused(r) ==
    /\ At(r, "grant")
    /\ \E stamp \in Stamps(r) : ~ LiveLogin(reqs[r].login, reqs[r].env.owner, stamp)
    /\ Finish(r)
    /\ UNCHANGED <<now, env, tables>>

-------------------------------------------------------------------------------
(* validateSession, alone or as the last step of an exchange *)

BeginValidate(r) ==
    \E client \in env.allowed, t \in Tokens :
        /\ appSessions[t].row # "unused"
        /\ Begin(r, [New("confirm") EXCEPT !.clientId = client, !.token = t])

SessionValid(q, stamp) ==
    /\ Present(appSessions, q.token)
    /\ appSessions[q.token].clientId = q.clientId
    /\ LiveLogin(appSessions[q.token].loginId, q.env.owner, stamp)

Authenticate(r) ==
    /\ At(r, "confirm")
    /\ \E stamp \in Stamps(r) : SessionValid(reqs[r], stamp)
    /\ Goto(r, "authenticated")
    /\ UNCHANGED <<now, env, tables>>

Reject(r) ==
    /\ At(r, "confirm")
    /\ \E stamp \in Stamps(r) : ~ SessionValid(reqs[r], stamp)
    /\ Finish(r)
    /\ UNCHANGED <<now, env, tables>>

-------------------------------------------------------------------------------
(* Logout, from an app (revokeSession) or from the Auth home (revokeLogin) *)

BeginRevokeSession(r) ==
    \E client \in env.allowed, t \in Tokens :
        /\ appSessions[t].row # "unused"
        /\ Begin(r, [New("revokeSession") EXCEPT !.clientId = client, !.token = t])

\* The login above the presented session, if the session is still there.
ParentOf(q) ==
    {l \in Logins : /\ Present(appSessions, q.token)
                    /\ appSessions[q.token].clientId = q.clientId
                    /\ appSessions[q.token].loginId = l}

\* Mutant: logging out of one app deletes that app's session only.
RevokeSession_Local(r) ==
    /\ At(r, "revokeSession")
    /\ appSessions' = Purge(appSessions, {reqs[r].token})
    /\ Finish(r)
    /\ UNCHANGED <<now, env, loginSessions, handoffs, loginFlows>>

RevokeSession(r) ==
    LET doomed == ParentOf(reqs[r]) IN
    /\ At(r, "revokeSession")
    /\ DeleteLogins(doomed)
    /\ handoffs' = Purge(handoffs, ChildrenOf(handoffs, doomed))
    /\ Finish(r)
    /\ UNCHANGED <<now, env, loginFlows>>

BeginRevokeLogin(r) ==
    \E l \in Logins :
        /\ loginSessions[l].row # "unused"
        /\ Begin(r, [New("revokeLogin") EXCEPT !.login = l])

RevokeLogin(r) ==
    LET doomed == {reqs[r].login} IN
    /\ At(r, "revokeLogin")
    /\ DeleteLogins(doomed)
    /\ handoffs' = Purge(handoffs, ChildrenOf(handoffs, doomed))
    /\ Finish(r)
    /\ UNCHANGED <<now, env, loginFlows>>

-------------------------------------------------------------------------------
(* The scheduled sweep, the clock, redeployment and failures *)

Expired(table) == {id \in DOMAIN table : table[id].expiresAt <= now}
InTable(table) == {f \in Flows : loginFlows[f].table = table}

\* One D1 batch, hence one transaction.
Cleanup ==
    /\ DeleteLogins(Expired(loginSessions))
    /\ handoffs' = Purge(handoffs, ChildrenOf(handoffs, Expired(loginSessions))
                                     \cup Expired(handoffs))
    /\ loginFlows' = Purge(loginFlows, Expired(loginFlows) \cap InTable("login_flows"))
    /\ UNCHANGED <<now, env, reqs>>

\* The device store's own batch, sent after the first one has been answered.
CleanupAgentFlows ==
    /\ loginFlows' = Purge(loginFlows,
                           Expired(loginFlows) \cap InTable("agent_login_flows"))
    /\ UNCHANGED <<now, env, loginSessions, handoffs, appSessions, reqs>>

Tick ==
    /\ now < MaxTime
    /\ now' = now + 1
    /\ UNCHANGED <<env, tables, reqs>>

\* A new deployment; requests in flight keep the bindings they started with.
Redeploy ==
    /\ env' \in Envs
    /\ UNCHANGED <<now, tables, reqs>>

\* D1 or RPC unavailable, or the isolate is lost: the caller sees a 503 or
\* nothing, and what the request has written stays.
Fail(r) ==
    /\ reqs[r].pc \in Awaits
    /\ Finish(r)
    /\ UNCHANGED <<now, env, tables>>

-------------------------------------------------------------------------------

Step(r) ==
    \/ LoginFound(r) \/ LoginNotFound(r) \/ StartFlow(r) \/ CreateHandoff(r)
    \/ StartAgentFlow(r) \/ ConsumeAgentFlow(r) \/ NoAgentFlow(r) \/ FindDevice(r)
    \/ ConsumeFlow(r) \/ FlowGone(r) \/ CreateLogin(r)
    \/ ConsumeHandoff(r) \/ HandoffRefused(r) \/ GrantSession(r) \/ GrantRefused(r)
    \/ Authenticate(r) \/ Reject(r) \/ RevokeSession(r) \/ RevokeLogin(r)

Arrive(r) ==
    \/ BeginAuthorize(r) \/ BeginLogin(r) \/ BeginAgentLogin(r)
    \/ BeginCallback(r) \/ BeginExchange(r)
    \/ BeginValidate(r) \/ BeginRevokeSession(r) \/ BeginRevokeLogin(r)

Next ==
    \/ \E r \in Requests : Arrive(r) \/ Step(r) \/ Fail(r)
    \/ Cleanup \/ CleanupAgentFlows \/ Tick \/ Redeploy

Spec == Init /\ [][Next]_vars

-------------------------------------------------------------------------------
(* Properties *)

\* Logout racing an exchange or an /authorize leaves nothing behind: no handoff
\* and no app session is ever present below a login that is gone
\* (sessions.ts:100, the insert checks its parent at the write boundary).
CascadeHolds ==
    /\ \A t \in Tokens : appSessions[t].row = "present" =>
           loginSessions[appSessions[t].loginId].row = "present"
    /\ \A c \in Codes : handoffs[c].row = "present" =>
           loginSessions[handoffs[c].loginId].row = "present"

\* A handoff code gives at most one app session, whatever the number of
\* simultaneous or repeated exchanges (sessions.ts:85).
OneSessionPerCode ==
    \A t, u \in Tokens :
        appSessions[t].row # "unused" /\ appSessions[t].code = appSessions[u].code
            => t = u

\* A Google callback, replayed or doubled, gives at most one login per login
\* flow the browser started (openauth.ts:94).
OneLoginPerFlow ==
    \A l, m \in Logins :
        loginSessions[l].row # "unused" /\ loginSessions[l].flow = loginSessions[m].flow
            => l = m

\* An app session belongs to the login and to the client its code was issued
\* for, and that code is spent: three tables written by three statements agree.
SessionMatchesHandoff ==
    \A t \in Tokens : appSessions[t].row # "unused" =>
        LET h == handoffs[appSessions[t].code] IN
        /\ h.row = "deleted"
        /\ h.loginId = appSessions[t].loginId
        /\ h.clientId = appSessions[t].clientId


\* The tables and requests implement the single sign-on promise.  A code is
\* still open while an exchange that has deleted its row may yet redeem it.
InExchange(c) == \E r \in Requests : reqs[r].pc = "grant" /\ reqs[r].code = c

StateOf(row) ==
    IF row = "unused" THEN "none" ELSE IF row = "present" THEN "live" ELSE "ended"

ssoLogin == [l \in Logins |-> StateOf(loginSessions[l].row)]

ssoCode == [c \in Codes |->
    [state |-> IF handoffs[c].row = "unused" THEN "none"
               ELSE IF handoffs[c].row = "present" \/ InExchange(c) THEN "open"
               ELSE "closed",
     login |-> handoffs[c].loginId, client |-> handoffs[c].clientId]]

ssoSession == [t \in Tokens |->
    [state |-> StateOf(appSessions[t].row),
     login |-> appSessions[t].loginId, client |-> appSessions[t].clientId]]

SSO == INSTANCE SingleSignOn WITH
           login <- ssoLogin, code <- ssoCode, session <- ssoSession

ImplementsSingleSignOn == SSO!Spec

-------------------------------------------------------------------------------
(* What makes the properties inductive *)

\* A request carries the columns its pending statement needs.
RequestOK(q) ==
    /\ q.since <= now
    /\ q.pc \in Awaits => q.env \in Envs
    /\ q.pc \in {"lookup", "startFlow", "createHandoff", "consume", "grant",
                 "confirm", "revokeSession"} => q.clientId \in Clients
    /\ q.pc \in {"lookup", "startFlow", "createHandoff", "consume"}
           => q.verifier \in Verifiers
    /\ q.pc \in {"lookup", "createHandoff", "grant", "revokeLogin"}
           => q.login \in Logins
    /\ q.pc \in {"consume", "grant"} => q.code \in Codes
    /\ q.pc \in {"confirm", "revokeSession"} => q.token \in Tokens
    /\ q.pc \in {"consumeAgentFlow", "findDevice", "consumeFlow", "createLogin"}
           => q.flow \in Flows
    /\ q.pc \in {"consumeAgentFlow", "findDevice"} => q.clientId = Null
    /\ q.pc = "createLogin" /\ q.clientId # Null => q.verifier \in Verifiers

RequestsOK == \A r \in Requests : RequestOK(reqs[r])

\* An exchange between its two writes holds a code that nobody else holds and
\* that has given no session: the grant is its alone to make.
GrantHeld ==
    \A r \in Requests : reqs[r].pc = "grant" =>
        LET h == handoffs[reqs[r].code] IN
        /\ h.row = "deleted"
        /\ h.loginId = reqs[r].login
        /\ h.clientId = reqs[r].clientId
        /\ \A t \in Tokens : appSessions[t].row # "unused" =>
               appSessions[t].code # reqs[r].code
        /\ \A q \in Requests : reqs[q].pc = "grant" /\ reqs[q].code = reqs[r].code
               => q = r

\* Likewise a callback between the consumption of its flow and its login.
FlowHeld ==
    \A r \in Requests : reqs[r].pc \in {"findDevice", "createLogin"} =>
        /\ loginFlows[reqs[r].flow].row = "deleted"
        /\ \A l \in Logins : loginSessions[l].row # "unused" =>
               loginSessions[l].flow # reqs[r].flow
        /\ \A q \in Requests :
               /\ reqs[q].pc \in {"findDevice", "createLogin"}
               /\ reqs[q].flow = reqs[r].flow
               => q = r

\* The flow a login came from is spent.
FlowsSpent ==
    \A l \in Logins : loginSessions[l].row # "unused" =>
        loginFlows[loginSessions[l].flow].row = "deleted"

TypeInv  == TypeOK /\ RequestsOK
TableInv == /\ CascadeHolds /\ OneSessionPerCode /\ SessionMatchesHandoff
            /\ OneLoginPerFlow /\ GrantHeld /\ FlowHeld /\ FlowsSpent

===============================================================================
