--------------------------- MODULE DiscordGateway ---------------------------
(* The durable object that keeps the bot's one connection to the Discord     *)
(* gateway (src/apps/discord/src/gateway/durable-object.ts) and the cron      *)
(* trigger that starts it (src/apps/discord/src/router.ts).                   *)
(*                                                                            *)
(* A durable object lets no event in while it waits for its own storage, so   *)
(* a method runs in one step from one network wait to the next.  The waits    *)
(* are two fetches of connectInternal (the gateway's address, the websocket   *)
(* upgrade) and the webhook to which a message is forwarded.  Two calls of    *)
(* connectInternal may be under way at once, one made by the alarm and one    *)
(* by startGateway; each keeps the state it loaded when it began.             *)
(*                                                                            *)
(* Left out: the length of delays and reconnectAttempts (an alarm that is set *)
(* is due at some later time); sockets that are no longer upstream, whose     *)
(* events the listeners ignore; and the flags suppressReconnect and           *)
(* reconnectPlanned, which are set only together with upstream := null and    *)
(* reset when a socket opens, so that no listener of the upstream sees them.  *)
EXTENDS Integers, Sequences

CONSTANTS
  MaxMessages,  \* bound: messages that wait in the queue
  MaxIncidents  \* bound: refusals, closes, losses, evictions, calls of the operator

ASSUME BoundsAreNat == MaxMessages \in Nat /\ MaxIncidents \in Nat

Callers == {"alarm", "start"}

\* GatewayState.  url: is wsUrl set?  beat: is heartbeatIntervalMs set?
\* session: what canResumeGateway says of strategy, sessionId and sequence.
\* spent: sessionStartRemaining is 0.  cooling: identifyCooldownUntil is to come.
States == [{"url", "beat", "session", "spent", "cooling", "disabled"} -> BOOLEAN]
Empty == [f \in {"url", "beat", "session", "spent", "cooling", "disabled"} |-> FALSE]
Idle == [at |-> "idle", state |-> Empty]

VARIABLES
  stored,      \* gateway_state in the object's storage
  creds,       \* are there gateway_credentials?
  alarm,       \* the object's alarm: "none", "due", or "cooldown"
  link,        \* the socket upstream as the network has it, "null" for none
  down,        \* the in-memory flag reconnectDisabled
  silent,      \* intervals an alarm began with a heartbeat since lastHeartbeatAck
  queue,       \* messageQueue: events received and not yet handled
  forwarding,  \* is the queue held by a webhook call?
  call,        \* the calls of connectInternal under way
  asked,       \* is a startGateway call on its way?
  said,        \* requests sent on upstream that Discord has not answered
  incidents

vars == <<stored, creds, alarm, link, down, silent, queue, forwarding, call, asked, said, incidents>>

-----------------------------------------------------------------------------
Incident == incidents < MaxIncidents /\ incidents' = incidents + 1
Quiet == UNCHANGED incidents

Connected == link # "null"    \* upstream is a socket, dead or alive
Alive == link \in {"greeted", "live"}

\* What a reconnect leaves in the state: the session is forgotten when fresh.
Dropped(fresh) ==
  [stored EXCEPT !.url = FALSE, !.beat = FALSE, !.session = @ /\ ~fresh]

\* upstream = null
Hangup == link' = "null" /\ said' = <<>>

\* reconnectWithBackoff, reconnectSoon and the end of handleInvalidSession
Reconnect(fresh) == stored' = Dropped(fresh) /\ Hangup /\ alarm' = "due"

Ends(who) == call' = [call EXCEPT ![who] = Idle]

\* connectInternal from the identify cooldown to the upgrade: st is the state
\* it holds, base what storage holds, al the alarm so far.
Admit(who, st, base, al) ==
  \/ /\ ~st.session /\ st.cooling
     /\ stored' = base /\ alarm' = "cooldown"
     /\ Ends(who)
     /\ UNCHANGED silent
  \/ /\ ~st.session /\ ~st.cooling /\ st.spent
     /\ stored' = [st EXCEPT !.cooling = TRUE, !.url = FALSE]
     /\ alarm' = "cooldown"
     /\ Ends(who)
     /\ UNCHANGED silent
  \/ /\ st.session \/ ~(st.cooling \/ st.spent)
     /\ stored' = [st EXCEPT !.url = TRUE, !.beat = FALSE, !.disabled = FALSE]
     /\ alarm' = al
     /\ call' = [call EXCEPT ![who] = [at |-> "upgrade", state |-> stored']]
     /\ silent' = 0

\* connectInternal up to its first wait.
Connect(who, base, al, keys) ==
  \/ /\ Connected \/ base.disabled \/ ~keys
     /\ stored' = base /\ alarm' = al
     /\ UNCHANGED <<call, silent>>
  \/ /\ ~Connected /\ ~base.disabled /\ keys
     /\ ~base.url                        \* a session may have no resumeGatewayUrl
     /\ stored' = base /\ alarm' = al
     /\ call' = [call EXCEPT ![who] = [at |-> "info", state |-> base]]
     /\ UNCHANGED silent
  \/ /\ ~Connected /\ ~base.disabled /\ keys
     /\ base.session \/ base.url
     /\ Admit(who, base, base, al)

\* identifyOrResume, but for the alarm it sets when it may not identify.
Introduce(st) ==
  \/ /\ ~Connected \/ ~creds
     /\ stored' = st
     /\ UNCHANGED <<said, incidents>>
  \/ /\ Connected /\ creds /\ st.session
     /\ stored' = st
     /\ said' = Append(said, "resume")
     /\ Quiet
  \/ /\ Connected /\ creds /\ ~st.session /\ (st.cooling \/ st.spent)
     /\ stored' = IF st.cooling THEN st ELSE [st EXCEPT !.cooling = TRUE, !.url = FALSE]
     /\ UNCHANGED <<said, incidents>>
  \/ /\ Connected /\ creds /\ ~st.session /\ ~(st.cooling \/ st.spent)
     /\ \/ stored' = st /\ Quiet
        \/ stored' = [st EXCEPT !.spent = TRUE] /\ Incident   \* the last of the day
     /\ said' = Append(said, "identify")

-----------------------------------------------------------------------------
\* Mutant: a gateway whose address is stored counts as connected.
CronTick_Address ==
  /\ ~asked /\ call["start"] = Idle
  /\ ~Connected /\ ~stored.disabled /\ ~stored.url
  /\ asked' = TRUE
  /\ UNCHANGED <<stored, creds, alarm, link, down, silent, queue, forwarding, call, said, incidents>>

\* ensureGatewayConnected asks for the status and starts the gateway unless
\* it is connected or disabled; the two are separate calls of the object.
CronTick ==
  /\ ~asked /\ call["start"] = Idle
  /\ ~Connected /\ ~stored.disabled
  /\ asked' = TRUE
  /\ UNCHANGED <<stored, creds, alarm, link, down, silent, queue, forwarding, call, said, incidents>>

\* POST /admin/gateway/connect
OperatorConnect ==
  /\ ~asked /\ call["start"] = Idle
  /\ Incident
  /\ asked' = TRUE
  /\ UNCHANGED <<stored, creds, alarm, link, down, silent, queue, forwarding, call, said>>

StartGateway ==
  /\ asked
  /\ asked' = FALSE
  /\ creds' = TRUE
  /\ down' = FALSE
  /\ Connect("start", [stored EXCEPT !.disabled = FALSE], alarm, TRUE)
  /\ UNCHANGED <<link, queue, forwarding, said, incidents>>

\* POST /admin/gateway/disconnect
Disconnect ==
  /\ Incident
  /\ Hangup
  /\ stored' = Empty
  /\ down' = FALSE
  /\ alarm' = "none"
  /\ creds' = FALSE
  /\ UNCHANGED <<silent, queue, forwarding, call, asked>>

\* The answer to GET /gateway/bot: the address and whether sessions may still
\* be started, an error worth a retry, or another error.
InfoAnswered(who, spent) ==
  /\ call[who].at = "info"
  /\ IF spent THEN Incident ELSE Quiet
  /\ Admit(who, [call[who].state EXCEPT !.spent = spent], stored, alarm)
  /\ UNCHANGED <<creds, link, down, queue, forwarding, asked, said>>

InfoRefused(who) ==
  /\ call[who].at = "info"
  /\ Incident
  /\ Ends(who)
  /\ UNCHANGED <<stored, creds, alarm, link, down, silent, queue, forwarding, asked, said>>

\* A fetch that failed in a way worth a retry: whatever socket is upstream by
\* now is closed too.
Retried(who) ==
  /\ call[who].at \in {"info", "upgrade"}
  /\ Incident
  /\ Reconnect(FALSE)
  /\ Ends(who)
  /\ UNCHANGED <<creds, down, silent, queue, forwarding, asked>>

\* openWebSocket: a socket that was upstream before is left to itself.
Opened(who) ==
  /\ call[who].at = "upgrade"
  /\ link' = "open" /\ said' = <<>>
  /\ Ends(who)
  /\ UNCHANGED <<stored, creds, alarm, down, silent, queue, forwarding, asked, incidents>>

\* Not retryable: the state connectInternal holds is saved over what is stored.
UpgradeRefused(who) ==
  /\ call[who].at = "upgrade"
  /\ Incident
  /\ stored' = [call[who].state EXCEPT !.url = FALSE]
  /\ Ends(who)
  /\ UNCHANGED <<creds, alarm, link, down, silent, queue, forwarding, asked, said>>

-----------------------------------------------------------------------------
\* alarmInternal, one action for each of its returns.  No second alarm runs
\* before the first has returned.
Fires == alarm = "due" /\ call["alarm"] = Idle
Active == Fires /\ ~down /\ ~stored.disabled /\ ~stored.cooling

AlarmIgnored ==
  /\ Fires /\ (down \/ stored.disabled)
  /\ down' = TRUE
  /\ alarm' = "none"
  /\ UNCHANGED <<stored, creds, link, silent, queue, forwarding, call, asked, said, incidents>>

AlarmCoolsDown ==
  /\ Fires /\ ~down /\ ~stored.disabled /\ stored.cooling
  /\ alarm' = "cooldown"
  /\ UNCHANGED <<stored, creds, link, down, silent, queue, forwarding, call, asked, said, incidents>>

AlarmConnects ==
  /\ Active /\ (~stored.url \/ ~Connected)
  /\ Connect("alarm", [stored EXCEPT !.url = FALSE, !.beat = @ /\ ~stored.url], "none", creds)
  /\ UNCHANGED <<creds, link, down, queue, forwarding, asked, said, incidents>>

AlarmIntroduces ==
  /\ Active /\ stored.url /\ Connected /\ ~stored.beat
  /\ Introduce(stored)
  /\ alarm' = IF stored'.cooling THEN "cooldown" ELSE "none"
  /\ UNCHANGED <<creds, link, down, silent, queue, forwarding, call, asked>>

\* The alarm after two heartbeats without an answer finds the second interval over.
AlarmGivesUp ==
  /\ Active /\ stored.url /\ Connected /\ stored.beat /\ silent = 2
  /\ Reconnect(FALSE)
  /\ UNCHANGED <<creds, down, silent, queue, forwarding, call, asked, incidents>>

\* Mutant: a heartbeat that was sent counts as answered.
AlarmBeats_Fresh ==
  /\ Active /\ stored.url /\ Connected /\ stored.beat /\ silent < 2
  /\ silent' = 0
  /\ alarm' = "due"
  /\ UNCHANGED <<stored, creds, link, down, queue, forwarding, call, asked, said, incidents>>

\* Mutant: a heartbeat is sent after the second interval, too.
AlarmBeats_Late ==
  /\ Active /\ stored.url /\ Connected /\ stored.beat /\ silent < 3
  /\ silent' = IF link # "dead" /\ ~forwarding THEN 0 ELSE silent + 1
  /\ alarm' = "due"
  /\ UNCHANGED <<stored, creds, link, down, queue, forwarding, call, asked, said, incidents>>

\* A heartbeat; Discord's answer is handled before the next one is due unless
\* the peer is gone or a webhook call holds the queue.
AlarmBeats ==
  /\ Active /\ stored.url /\ Connected /\ stored.beat /\ silent < 2
  /\ silent' = IF link # "dead" /\ ~forwarding THEN 0 ELSE silent + 1
  /\ alarm' = "due"
  /\ UNCHANGED <<stored, creds, link, down, queue, forwarding, call, asked, said, incidents>>

Alarm == \/ AlarmIgnored \/ AlarmCoolsDown \/ AlarmConnects
         \/ AlarmIntroduces \/ AlarmGivesUp \/ AlarmBeats

\* The identify cooldown is over.
CooldownEnds ==
  /\ stored.cooling \/ alarm = "cooldown"
  /\ stored' = [stored EXCEPT !.cooling = FALSE]
  /\ call' = [who \in Callers |-> [call[who] EXCEPT !.state.cooling = FALSE]]
  /\ alarm' = IF alarm = "cooldown" THEN "due" ELSE alarm
  /\ UNCHANGED <<creds, link, down, silent, queue, forwarding, asked, said, incidents>>

-----------------------------------------------------------------------------
\* handleGatewayMessage, one action for each kind of event.  An event may come
\* from a socket that is no longer upstream.
Handles(kind) == queue # <<>> /\ ~forwarding /\ Head(queue) = kind /\ queue' = Tail(queue)

\* handleHello sets the alarm after identifyOrResume has.
HandleHello ==
  /\ Handles("hello")
  /\ Introduce([stored EXCEPT !.beat = TRUE])
  /\ alarm' = "due"
  /\ silent' = 0
  /\ UNCHANGED <<creds, link, down, forwarding, call, asked>>

HandleReady ==
  /\ Handles("ready")
  /\ stored' = [stored EXCEPT !.session = TRUE, !.cooling = FALSE, !.disabled = FALSE]
  /\ UNCHANGED <<creds, alarm, link, down, silent, forwarding, call, asked, said, incidents>>

HandleMessage ==
  /\ Handles("message")
  /\ forwarding' = creds
  /\ UNCHANGED <<stored, creds, alarm, link, down, silent, call, asked, said, incidents>>

\* Op 1 asks for a heartbeat at once, whatever is unanswered: sendHeartbeat changes
\* no state, and no alarm; a peer that is there answers this heartbeat, too.
HandleHeartbeat ==
  /\ Handles("heartbeat")
  /\ silent' = IF Alive THEN 0 ELSE silent
  /\ UNCHANGED <<stored, creds, alarm, link, down, forwarding, call, asked, said, incidents>>

HandleReconnect ==
  /\ \/ (Handles("reconnect") \/ Handles("invalid")) /\ Reconnect(FALSE)
     \/ Handles("invalid-fresh") /\ Reconnect(TRUE)
  /\ UNCHANGED <<creds, down, silent, forwarding, call, asked, incidents>>

Handle == HandleHello \/ HandleReady \/ HandleMessage \/ HandleHeartbeat \/ HandleReconnect

\* forwardEvent returns: delivered, refused, or given up after its retries.
\* The heartbeats that were answered in the meantime are handled now.
Forwarded ==
  /\ forwarding
  /\ forwarding' = FALSE
  /\ silent' = IF Alive THEN 0 ELSE silent
  /\ UNCHANGED <<stored, creds, alarm, link, down, queue, call, asked, said, incidents>>

-----------------------------------------------------------------------------
\* Discord and the network (external).
Greet ==
  /\ link = "open"
  /\ link' = "greeted"
  /\ queue' = Append(queue, "hello")
  /\ UNCHANGED <<stored, creds, alarm, down, silent, forwarding, call, asked, said, incidents>>

\* The close listener: how is what classifyGatewayClose makes of the code.
Closed(how) ==
  /\ Hangup
  /\ \/ /\ how = "terminal"
        /\ stored' = [stored EXCEPT !.url = FALSE, !.beat = FALSE, !.disabled = TRUE]
        /\ down' = TRUE
        /\ alarm' = "none"
     \/ /\ how # "terminal"
        /\ stored' = Dropped(how = "fresh")
        /\ alarm' = "due"
        /\ UNCHANGED down
  /\ UNCHANGED <<creds, silent, queue, forwarding, call, asked>>

\* Discord closes the socket, or the connection breaks with an error.
Close(how) == Connected /\ link # "dead" /\ Incident /\ Closed(how)

\* Discord closes a socket whose owner does not identify or no longer sends
\* heartbeats.
Neglected ==
  /\ Alive /\ said = <<>> /\ queue = <<>> /\ ~forwarding
  /\ link = "greeted" \/ (alarm = "none" /\ call["alarm"] = Idle)
  /\ Quiet
  /\ Closed("resume")

\* The peer is gone without a word.
Vanish ==
  /\ Alive
  /\ Incident
  /\ link' = "dead"
  /\ said' = <<>>
  /\ UNCHANGED <<stored, creds, alarm, down, silent, queue, forwarding, call, asked>>

\* Discord answers the first request on a socket; a second one it answers
\* with close code 4005.
Answer ==
  /\ link = "greeted" /\ said # <<>>
  /\ link' = "live"
  /\ said' = Tail(said)
  /\ queue' = IF Head(said) = "identify" THEN Append(queue, "ready") ELSE queue
  /\ UNCHANGED <<stored, creds, alarm, down, silent, forwarding, call, asked, incidents>>

Invalidate ==
  /\ link = "greeted" /\ said # <<>> /\ Head(said) = "resume"
  /\ Incident
  /\ said' = Tail(said)
  /\ queue' = Append(queue, "invalid-fresh")
  /\ UNCHANGED <<stored, creds, alarm, link, down, silent, forwarding, call, asked>>

AlreadyAuthenticated == link = "live" /\ said # <<>> /\ Quiet /\ Closed("resume")

Message ==
  /\ link = "live" /\ Len(queue) < MaxMessages
  /\ queue' = Append(queue, "message")
  /\ UNCHANGED <<stored, creds, alarm, link, down, silent, forwarding, call, asked, said, incidents>>

\* Discord asks for a heartbeat (op 1) or a reconnect (op 7), or declares the
\* session invalid (op 9).
Disturb(kind) ==
  /\ link = "live"
  /\ Incident
  /\ queue' = Append(queue, kind)
  /\ UNCHANGED <<stored, creds, alarm, link, down, silent, forwarding, call, asked, said>>

\* The object is evicted: storage and alarm survive, an alarm that was running
\* is retried, the socket closes.
Evict ==
  /\ Incident
  /\ Hangup
  /\ down' = FALSE
  /\ queue' = <<>>
  /\ forwarding' = FALSE
  /\ call' = [who \in Callers |-> Idle]
  /\ alarm' = IF call["alarm"] # Idle /\ alarm = "none" THEN "due" ELSE alarm
  /\ UNCHANGED <<stored, creds, silent, asked>>

-----------------------------------------------------------------------------
Init ==
  /\ stored = Empty /\ creds = FALSE /\ alarm = "none" /\ link = "null" /\ down = FALSE
  /\ silent = 0 /\ queue = <<>> /\ forwarding = FALSE
  /\ call = [who \in Callers |-> Idle] /\ asked = FALSE /\ said = <<>>
  /\ incidents = 0

Fetched(who) == InfoAnswered(who, FALSE) \/ Opened(who)

Next ==
  \/ CronTick \/ OperatorConnect \/ StartGateway \/ Disconnect
  \/ Alarm \/ CooldownEnds \/ Handle \/ Forwarded \/ Evict
  \/ \E who \in Callers : \/ Fetched(who) \/ InfoAnswered(who, TRUE) \/ InfoRefused(who)
                          \/ Retried(who) \/ UpgradeRefused(who)
  \/ Greet \/ Answer \/ Invalidate \/ AlreadyAuthenticated \/ Neglected \/ Message \/ Vanish
  \/ \E how \in {"resume", "fresh", "terminal"} : Close(how)
  \/ \E kind \in {"heartbeat", "reconnect", "invalid", "invalid-fresh"} : Disturb(kind)

Spec == Init /\ [][Next]_vars

FairSpec ==
  /\ Spec
  /\ WF_vars(CronTick) /\ WF_vars(StartGateway) /\ WF_vars(Alarm)
  /\ WF_vars(CooldownEnds) /\ WF_vars(Handle) /\ WF_vars(Forwarded)
  /\ \A who \in Callers : WF_vars(Fetched(who))
  /\ WF_vars(Greet) /\ WF_vars(Answer) /\ WF_vars(Neglected) /\ WF_vars(AlreadyAuthenticated)

-----------------------------------------------------------------------------
\* Every variable has its type; the alarm begins at most two intervals with a heartbeat
\* before it is answered or the connection given up.  (A heartbeat that Discord asks for
\* with op 1 goes out besides, and begins no interval.)
TypeOK ==
  /\ stored \in States /\ creds \in BOOLEAN /\ alarm \in {"none", "due", "cooldown"}
  /\ link \in {"null", "open", "greeted", "live", "dead"}
  /\ down \in BOOLEAN /\ silent \in 0..2
  /\ queue \in Seq({"hello", "ready", "message", "heartbeat",
                    "reconnect", "invalid", "invalid-fresh"})
  /\ forwarding \in BOOLEAN /\ asked \in BOOLEAN
  /\ call \in [Callers -> [at: {"idle", "info", "upgrade"}, state: States]]
  /\ said \in Seq({"identify", "resume"})
  /\ incidents \in 0..MaxIncidents

\* The gateway is to be up: it was started, and neither the operator nor a
\* terminal close code has stopped it.
Wanted == creds /\ ~stored.disabled

\* Whatever fails while it connects, and however the alarm and the cron trigger
\* interfere with each other, a gateway that is wanted comes to hold a socket
\* with a session; unless the peer of that socket is gone without a word.
ComesOnline == Wanted ~> (link \in {"live", "dead"} \/ ~Wanted)

\* A peer that is gone without a word is noticed as long as an alarm is set and
\* the address is stored.  (Without the address the alarm calls connectInternal,
\* which returns without setting another one because there is a socket.)
SilenceIsNoticed ==
  (link = "dead" /\ stored.url /\ alarm # "none") ~> (link # "dead" \/ ~stored.url \/ down)
=============================================================================
