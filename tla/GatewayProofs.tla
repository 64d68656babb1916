----------------------------- MODULE GatewayProofs -----------------------------
(* What DiscordGateway does for every number of messages and incidents. *)
EXTENDS DiscordGateway, SequenceTheorems, TLAPS

Kinds  == {"hello", "ready", "message", "heartbeat", "reconnect", "invalid", "invalid-fresh"}
Calls  == [at : {"idle", "info", "upgrade"}, state : States]
Alarms == {"none", "due", "cooldown"}
Links  == {"null", "open", "greeted", "live", "dead"}

-------------------------------------------------------------------------------
(* The parts of the steps.  A field of the state that is set leaves a state.    *)

LEMMA FieldSet ==
    ASSUME NEW st \in States, NEW f, NEW b \in BOOLEAN
    PROVE  [st EXCEPT ![f] = b] \in States
BY DEF States

LEMMA FieldHas == ASSUME NEW st \in States PROVE st.session \in BOOLEAN /\ st.beat \in BOOLEAN
BY DEF States

LEMMA NothingIsStored == Empty \in States /\ Idle \in Calls
BY DEF Empty, States, Idle, Calls

LEMMA DroppedIsState ==
    ASSUME stored \in States, NEW fresh \in BOOLEAN
    PROVE  Dropped(fresh) \in States
BY DEF States, Dropped

LEMMA CallSet ==
    ASSUME call \in [Callers -> Calls], NEW who \in Callers, NEW c \in Calls
    PROVE  [call EXCEPT ![who] = c] \in [Callers -> Calls]
OBVIOUS

LEMMA IncidentCounts ==
    ASSUME incidents \in 0..MaxIncidents, Incident \/ Quiet
    PROVE  incidents' \in 0..MaxIncidents
BY BoundsAreNat DEF Incident, Quiet

LEMMA AdmitTypes ==
    ASSUME TypeOK, NEW who \in Callers, NEW st \in States, NEW base \in States,
           NEW al \in Alarms, Admit(who, st, base, al)
    PROVE  stored' \in States /\ alarm' \in Alarms
           /\ call' \in [Callers -> Calls] /\ silent' \in 0..2
<1>1. call \in [Callers -> Calls] /\ silent \in 0..2
  BY DEF TypeOK, Calls
<1>2. CASE stored' = base /\ alarm' = "cooldown" /\ Ends(who) /\ UNCHANGED silent
  BY <1>1, <1>2, CallSet, NothingIsStored DEF Ends, Alarms
<1>3. CASE /\ stored' = [st EXCEPT !.cooling = TRUE, !.url = FALSE]
           /\ alarm' = "cooldown" /\ Ends(who) /\ UNCHANGED silent
  <2>1. stored' \in States
    BY <1>3 DEF States
  <2>. QED  BY <1>1, <1>3, <2>1, CallSet, NothingIsStored DEF Ends, Alarms
<1>4. CASE /\ stored' = [st EXCEPT !.url = TRUE, !.beat = FALSE, !.disabled = FALSE]
           /\ alarm' = al
           /\ call' = [call EXCEPT ![who] = [at |-> "upgrade", state |-> stored']]
           /\ silent' = 0
  <2>1. stored' \in States
    BY <1>4 DEF States
  <2>2. [at |-> "upgrade", state |-> stored'] \in Calls
    BY <2>1 DEF Calls
  <2>. QED  BY <1>1, <1>4, <2>1, <2>2, CallSet
<1>. QED  BY <1>2, <1>3, <1>4 DEF Admit

LEMMA ConnectTypes ==
    ASSUME TypeOK, NEW who \in Callers, NEW base \in States, NEW al \in Alarms,
           NEW keys \in BOOLEAN, Connect(who, base, al, keys)
    PROVE  stored' \in States /\ alarm' \in Alarms
           /\ call' \in [Callers -> Calls] /\ silent' \in 0..2
<1>1. call \in [Callers -> Calls] /\ silent \in 0..2
  BY DEF TypeOK, Calls
<1>2. CASE stored' = base /\ alarm' = al /\ UNCHANGED <<call, silent>>
  BY <1>1, <1>2
<1>3. CASE /\ stored' = base /\ alarm' = al /\ UNCHANGED silent
           /\ call' = [call EXCEPT ![who] = [at |-> "info", state |-> base]]
  <2>1. [at |-> "info", state |-> base] \in Calls
    BY DEF Calls
  <2>. QED  BY <1>1, <1>3, <2>1, CallSet
<1>4. CASE Admit(who, base, base, al)
  BY <1>4, AdmitTypes
<1>. QED  BY <1>2, <1>3, <1>4 DEF Connect

LEMMA IntroduceTypes ==
    ASSUME TypeOK, NEW st \in States, Introduce(st)
    PROVE  stored' \in States /\ said' \in Seq({"identify", "resume"})
           /\ incidents' \in 0..MaxIncidents
<1>1. said \in Seq({"identify", "resume"}) /\ incidents \in 0..MaxIncidents
  BY DEF TypeOK
<1>2. CASE stored' = st /\ UNCHANGED <<said, incidents>>
  BY <1>1, <1>2
<1>3. CASE stored' = st /\ said' = Append(said, "resume") /\ Quiet
  BY <1>1, <1>3 DEF Quiet
<1>4. CASE /\ stored' = IF st.cooling THEN st ELSE [st EXCEPT !.cooling = TRUE, !.url = FALSE]
           /\ UNCHANGED <<said, incidents>>
  <2>1. stored' \in States
    BY <1>4 DEF States
  <2>. QED  BY <1>1, <1>4, <2>1
<1>5. CASE /\ \/ stored' = st /\ Quiet
              \/ stored' = [st EXCEPT !.spent = TRUE] /\ Incident
           /\ said' = Append(said, "identify")
  <2>1. stored' \in States
    BY <1>5 DEF States
  <2>. QED  BY <1>1, <1>5, <2>1, IncidentCounts
<1>. QED  BY <1>2, <1>3, <1>4, <1>5 DEF Introduce

LEMMA ReconnectTypes ==
    ASSUME TypeOK, NEW fresh \in BOOLEAN, Reconnect(fresh)
    PROVE  stored' \in States /\ link' \in Links /\ alarm' \in Alarms
           /\ said' \in Seq({"identify", "resume"})
<1>1. stored \in States
  BY DEF TypeOK
<1>2. <<>> \in Seq({"identify", "resume"})
  OBVIOUS
<1>. QED  BY <1>1, <1>2, DroppedIsState DEF Reconnect, Hangup, Links, Alarms

LEMMA HandlesTypes ==
    ASSUME TypeOK, NEW kind, Handles(kind)
    PROVE  queue' \in Seq(Kinds)
<1>1. queue \in Seq(Kinds) /\ queue # <<>> /\ queue' = Tail(queue)
  BY DEF TypeOK, Handles, Kinds
<1>. QED  BY <1>1

LEMMA ClosedTypes ==
    ASSUME TypeOK, NEW how, Closed(how)
    PROVE  stored' \in States /\ link' \in Links /\ alarm' \in Alarms /\ down' \in BOOLEAN
           /\ said' \in Seq({"identify", "resume"})
<1>1. stored \in States /\ down \in BOOLEAN
  BY DEF TypeOK
<1>2. link' \in Links /\ said' \in Seq({"identify", "resume"})
  BY DEF Closed, Hangup, Links
<1>3. [stored EXCEPT !.url = FALSE, !.beat = FALSE, !.disabled = TRUE] \in States
  BY <1>1 DEF States
<1>4. Dropped(how = "fresh") \in States
  BY <1>1, DroppedIsState
<1>. QED  BY <1>1, <1>2, <1>3, <1>4 DEF Closed, Alarms

-------------------------------------------------------------------------------
(* Every step keeps the types.                                                  *)

\* The types, variable by variable.
Typed ==
    /\ stored \in States /\ creds \in BOOLEAN /\ alarm \in Alarms
    /\ link \in Links /\ down \in BOOLEAN /\ silent \in 0..2
    /\ queue \in Seq(Kinds) /\ forwarding \in BOOLEAN /\ asked \in BOOLEAN
    /\ call \in [Callers -> Calls] /\ said \in Seq({"identify", "resume"})
    /\ incidents \in 0..MaxIncidents

LEMMA TypesAreTyped == TypeOK <=> Typed
BY DEF TypeOK, Typed, Alarms, Links, Kinds, Calls

LEMMA TypedNext == Typed' => TypeOK'
BY DEF TypeOK, Typed, Alarms, Links, Kinds, Calls

LEMMA GatewayInit == Init => TypeOK
<1> SUFFICES ASSUME Init PROVE TypeOK
  OBVIOUS
<1>1. stored \in States /\ call \in [Callers -> Calls]
  BY NothingIsStored DEF Init
<1>2. queue \in Seq(Kinds) /\ said \in Seq({"identify", "resume"})
  BY DEF Init
<1>3. incidents \in 0..MaxIncidents /\ silent \in 0..2
  BY BoundsAreNat DEF Init
<1>4. alarm \in Alarms /\ link \in Links
  BY DEF Init, Alarms, Links
<1>5. Typed
  BY <1>1, <1>2, <1>3, <1>4 DEF Init, Typed
<1>. QED  BY <1>5, TypesAreTyped

LEMMA OperatorKeeps ==
    ASSUME TypeOK, CronTick \/ OperatorConnect \/ StartGateway \/ Disconnect
    PROVE  Typed'
<1>. USE TypesAreTyped
<1>1. CASE CronTick
  BY <1>1 DEF CronTick, Typed
<1>2. CASE OperatorConnect
  BY <1>2, IncidentCounts DEF OperatorConnect, Typed
<1>3. CASE StartGateway
  <2>1. [stored EXCEPT !.disabled = FALSE] \in States /\ alarm \in Alarms /\ "start" \in Callers
    BY DEF Typed, States, Callers
  <2>2. Connect("start", [stored EXCEPT !.disabled = FALSE], alarm, TRUE)
    BY <1>3 DEF StartGateway
  <2>3. stored' \in States /\ alarm' \in Alarms /\ call' \in [Callers -> Calls] /\ silent' \in 0..2
    BY <2>1, <2>2, ConnectTypes
  <2>. QED  BY <1>3, <2>3 DEF StartGateway, Typed
<1>4. CASE Disconnect
  <2>1. stored' \in States /\ incidents' \in 0..MaxIncidents
    BY <1>4, NothingIsStored, IncidentCounts DEF Disconnect, Typed
  <2>2. link' \in Links /\ said' \in Seq({"identify", "resume"}) /\ alarm' \in Alarms
    BY <1>4 DEF Disconnect, Hangup, Links, Alarms
  <2>. QED  BY <1>4, <2>1, <2>2 DEF Disconnect, Typed
<1>. QED  BY <1>1, <1>2, <1>3, <1>4

LEMMA FetchKeeps ==
    ASSUME TypeOK, NEW who \in Callers,
           \/ \E spent \in BOOLEAN : InfoAnswered(who, spent)
           \/ InfoRefused(who) \/ Retried(who) \/ Opened(who) \/ UpgradeRefused(who)
    PROVE  Typed'
<1>. USE TypesAreTyped
<1>1. ASSUME NEW spent \in BOOLEAN, InfoAnswered(who, spent)
      PROVE  Typed'
  <2>1. incidents' \in 0..MaxIncidents
    BY <1>1, IncidentCounts DEF InfoAnswered, Typed
  <2>2. call[who].state \in States /\ stored \in States /\ alarm \in Alarms
    BY DEF Typed, Calls
  <2>3. [call[who].state EXCEPT !.spent = spent] \in States
    BY <2>2 DEF States
  <2>4. Admit(who, [call[who].state EXCEPT !.spent = spent], stored, alarm)
    BY <1>1 DEF InfoAnswered
  <2>5. stored' \in States /\ alarm' \in Alarms /\ call' \in [Callers -> Calls] /\ silent' \in 0..2
    BY <2>2, <2>3, <2>4, AdmitTypes
  <2>. QED  BY <1>1, <2>1, <2>5 DEF InfoAnswered, Typed
<1>2. CASE InfoRefused(who)
  <2>1. incidents' \in 0..MaxIncidents /\ call' \in [Callers -> Calls]
    BY <1>2, IncidentCounts, CallSet, NothingIsStored DEF InfoRefused, Ends, Typed
  <2>. QED  BY <1>2, <2>1 DEF InfoRefused, Typed
<1>3. CASE Retried(who)
  <2>1. incidents' \in 0..MaxIncidents /\ call' \in [Callers -> Calls]
    BY <1>3, IncidentCounts, CallSet, NothingIsStored DEF Retried, Ends, Typed
  <2>2. /\ stored' \in States /\ link' \in Links /\ alarm' \in Alarms
        /\ said' \in Seq({"identify", "resume"})
    BY <1>3, ReconnectTypes DEF Retried
  <2>. QED  BY <1>3, <2>1, <2>2 DEF Retried, Typed
<1>4. CASE Opened(who)
  <2>1. call' \in [Callers -> Calls]
    BY <1>4, CallSet, NothingIsStored DEF Opened, Ends, Typed
  <2>2. link' \in Links /\ said' \in Seq({"identify", "resume"})
    BY <1>4 DEF Opened, Links
  <2>. QED  BY <1>4, <2>1, <2>2 DEF Opened, Typed
<1>5. CASE UpgradeRefused(who)
  <2>1. incidents' \in 0..MaxIncidents /\ call' \in [Callers -> Calls]
    BY <1>5, IncidentCounts, CallSet, NothingIsStored DEF UpgradeRefused, Ends, Typed
  <2>2. call[who].state \in States
    BY DEF Typed, Calls
  <2>3. stored' \in States
    BY <1>5, <2>2 DEF UpgradeRefused, States
  <2>. QED  BY <1>5, <2>1, <2>3 DEF UpgradeRefused, Typed
<1>. QED  BY <1>1, <1>2, <1>3, <1>4, <1>5

\* The alarm sends a heartbeat while fewer than two of its own are unanswered.
LEMMA AlarmKeeps == ASSUME TypeOK, Alarm \/ CooldownEnds PROVE Typed'
<1>. USE TypesAreTyped
<1>1. CASE AlarmIgnored
  BY <1>1 DEF AlarmIgnored, Typed, Alarms
<1>2. CASE AlarmCoolsDown
  BY <1>2 DEF AlarmCoolsDown, Typed, Alarms
<1>3. CASE AlarmConnects
  <2>1. stored \in States /\ "alarm" \in Callers /\ creds \in BOOLEAN /\ "none" \in Alarms
    BY DEF Typed, Callers, Alarms
  <2>2. [stored EXCEPT !.url = FALSE, !.beat = @ /\ ~stored.url] \in States
    BY <2>1 DEF States
  <2>3. Connect("alarm", [stored EXCEPT !.url = FALSE, !.beat = @ /\ ~stored.url], "none", creds)
    BY <1>3 DEF AlarmConnects
  <2>4. stored' \in States /\ alarm' \in Alarms /\ call' \in [Callers -> Calls] /\ silent' \in 0..2
    BY <2>1, <2>2, <2>3, ConnectTypes
  <2>. QED  BY <1>3, <2>4 DEF AlarmConnects, Typed
<1>4. CASE AlarmIntroduces
  <2>1. stored \in States
    BY DEF Typed
  <2>2. /\ stored' \in States /\ said' \in Seq({"identify", "resume"})
        /\ incidents' \in 0..MaxIncidents
    BY <1>4, <2>1, IntroduceTypes DEF AlarmIntroduces
  <2>3. alarm' \in Alarms
    BY <1>4 DEF AlarmIntroduces, Alarms
  <2>. QED  BY <1>4, <2>2, <2>3 DEF AlarmIntroduces, Typed
<1>5. CASE AlarmGivesUp
  <2>1. /\ stored' \in States /\ link' \in Links /\ alarm' \in Alarms
        /\ said' \in Seq({"identify", "resume"})
    BY <1>5, ReconnectTypes DEF AlarmGivesUp
  <2>. QED  BY <1>5, <2>1 DEF AlarmGivesUp, Typed
<1>6. CASE AlarmBeats
  <2>1. silent \in 0..2 /\ silent < 2
    BY <1>6 DEF AlarmBeats, Typed
  <2>2. silent' \in 0..2 /\ alarm' \in Alarms
    BY <1>6, <2>1 DEF AlarmBeats, Alarms
  <2>. QED  BY <1>6, <2>2 DEF AlarmBeats, Typed
<1>7. CASE CooldownEnds
  <2>1. stored \in States /\ \A who \in Callers : call[who] \in Calls
    BY DEF Typed
  <2>2. stored' \in States
    BY <1>7, <2>1 DEF CooldownEnds, States
  <2>3. ASSUME NEW who \in Callers
        PROVE  [call[who] EXCEPT !.state.cooling = FALSE] \in Calls
    BY <2>1 DEF Calls, States
  <2>4. call' \in [Callers -> Calls]
    BY <1>7, <2>3 DEF CooldownEnds
  <2>5. alarm' \in Alarms
    BY <1>7 DEF CooldownEnds, Typed, Alarms
  <2>. QED  BY <1>7, <2>2, <2>4, <2>5 DEF CooldownEnds, Typed
<1>. QED  BY <1>1, <1>2, <1>3, <1>4, <1>5, <1>6, <1>7 DEF Alarm

LEMMA HandleKeeps == ASSUME TypeOK, Handle \/ Forwarded PROVE Typed'
<1>. USE TypesAreTyped
<1>1. CASE HandleHello
  <2>1. [stored EXCEPT !.beat = TRUE] \in States
    BY DEF Typed, States
  <2>2. /\ stored' \in States /\ said' \in Seq({"identify", "resume"})
        /\ incidents' \in 0..MaxIncidents
    BY <1>1, <2>1, IntroduceTypes DEF HandleHello
  <2>3. queue' \in Seq(Kinds)
    BY <1>1, HandlesTypes DEF HandleHello
  <2>4. alarm' \in Alarms /\ silent' \in 0..2
    BY <1>1 DEF HandleHello, Alarms
  <2>. QED  BY <1>1, <2>2, <2>3, <2>4 DEF HandleHello, Typed
<1>2. CASE HandleReady
  <2>1. queue' \in Seq(Kinds)
    BY <1>2, HandlesTypes DEF HandleReady
  <2>2. stored' \in States
    BY <1>2 DEF HandleReady, Typed, States
  <2>. QED  BY <1>2, <2>1, <2>2 DEF HandleReady, Typed
<1>3. CASE HandleMessage
  <2>1. queue' \in Seq(Kinds)
    BY <1>3, HandlesTypes DEF HandleMessage
  <2>. QED  BY <1>3, <2>1 DEF HandleMessage, Typed
<1>4. CASE HandleReconnect
  <2>1. queue' \in Seq(Kinds)
    BY <1>4, HandlesTypes DEF HandleReconnect
  <2>2. /\ stored' \in States /\ link' \in Links /\ alarm' \in Alarms
        /\ said' \in Seq({"identify", "resume"})
    BY <1>4, ReconnectTypes DEF HandleReconnect
  <2>. QED  BY <1>4, <2>1, <2>2 DEF HandleReconnect, Typed
<1>5. CASE Forwarded
  <2>1. silent' \in 0..2
    BY <1>5 DEF Forwarded, Typed
  <2>2. /\ forwarding' = FALSE
        /\ UNCHANGED <<stored, creds, alarm, link, down, queue, call, asked, said, incidents>>
    BY <1>5 DEF Forwarded
  <2>. QED  BY <2>1, <2>2 DEF Typed
<1>6. CASE HandleHeartbeat
  <2>1. queue' \in Seq(Kinds)
    BY <1>6, HandlesTypes DEF HandleHeartbeat
  <2>2. silent' \in 0..2
    BY <1>6 DEF HandleHeartbeat, Typed
  <2>. QED  BY <1>6, <2>1, <2>2 DEF HandleHeartbeat, Typed
<1>. QED  BY <1>1, <1>2, <1>3, <1>4, <1>5, <1>6 DEF Handle

LEMMA ReceivedTypes ==
    ASSUME TypeOK, NEW kind \in Kinds
    PROVE  Append(queue, kind) \in Seq(Kinds)
BY DEF TypeOK, Kinds

LEMMA SocketKeeps ==
    ASSUME TypeOK,
           \/ Neglected \/ AlreadyAuthenticated \/ Vanish \/ Evict
           \/ \E how \in {"resume", "fresh", "terminal"} : Close(how)
    PROVE  Typed'
<1>. USE TypesAreTyped
<1>1. ASSUME NEW how, Closed(how), Incident \/ Quiet
      PROVE  Typed'
  <2>1. incidents' \in 0..MaxIncidents
    BY <1>1, IncidentCounts DEF Typed
  <2>2. /\ stored' \in States /\ link' \in Links /\ alarm' \in Alarms /\ down' \in BOOLEAN
        /\ said' \in Seq({"identify", "resume"})
    BY <1>1, ClosedTypes
  <2>3. UNCHANGED <<creds, silent, queue, forwarding, call, asked>>
    BY <1>1 DEF Closed
  <2>. QED  BY <2>1, <2>2, <2>3 DEF Typed
<1>2. CASE \/ Neglected \/ AlreadyAuthenticated
           \/ \E how \in {"resume", "fresh", "terminal"} : Close(how)
  BY <1>1, <1>2 DEF Neglected, AlreadyAuthenticated, Close
<1>3. CASE Vanish
  <2>1. incidents' \in 0..MaxIncidents
    BY <1>3, IncidentCounts DEF Vanish, Typed
  <2>2. link' \in Links /\ said' \in Seq({"identify", "resume"})
    BY <1>3 DEF Vanish, Links
  <2>. QED  BY <1>3, <2>1, <2>2 DEF Vanish, Typed
<1>4. CASE Evict
  <2>1. incidents' \in 0..MaxIncidents
    BY <1>4, IncidentCounts DEF Evict, Typed
  <2>2. link' \in Links /\ said' \in Seq({"identify", "resume"}) /\ queue' \in Seq(Kinds)
    BY <1>4 DEF Evict, Hangup, Links
  <2>3. call' \in [Callers -> Calls]
    BY <1>4, NothingIsStored DEF Evict
  <2>4. alarm' \in Alarms
    BY <1>4 DEF Evict, Typed, Alarms
  <2>. QED  BY <1>4, <2>1, <2>2, <2>3, <2>4 DEF Evict, Typed
<1>. QED  BY <1>2, <1>3, <1>4

LEMMA DiscordKeeps ==
    ASSUME TypeOK,
           \/ Greet \/ Answer \/ Invalidate \/ Message
           \/ \E kind \in {"heartbeat", "reconnect", "invalid", "invalid-fresh"} : Disturb(kind)
    PROVE  Typed'
<1>. USE TypesAreTyped
<1>1. CASE Greet
  <2>1. queue' \in Seq(Kinds) /\ link' \in Links
    BY <1>1, ReceivedTypes DEF Greet, Kinds, Links
  <2>. QED  BY <1>1, <2>1 DEF Greet, Typed
<1>2. CASE Answer
  <2>1. said' \in Seq({"identify", "resume"})
    BY <1>2 DEF Answer, Typed
  <2>2. Append(queue, "ready") \in Seq(Kinds)
    BY ReceivedTypes DEF Kinds
  <2>3. queue' \in Seq(Kinds) /\ link' \in Links
    BY <1>2, <2>2 DEF Answer, Typed, Links
  <2>. QED  BY <1>2, <2>1, <2>3 DEF Answer, Typed
<1>3. CASE Invalidate
  <2>1. said' \in Seq({"identify", "resume"}) /\ incidents' \in 0..MaxIncidents
    BY <1>3, IncidentCounts DEF Invalidate, Typed
  <2>2. queue' \in Seq(Kinds)
    BY <1>3, ReceivedTypes DEF Invalidate, Kinds
  <2>. QED  BY <1>3, <2>1, <2>2 DEF Invalidate, Typed
<1>4. CASE Message
  <2>1. queue' \in Seq(Kinds)
    BY <1>4, ReceivedTypes DEF Message, Kinds
  <2>. QED  BY <1>4, <2>1 DEF Message, Typed
<1>5. ASSUME NEW kind \in {"heartbeat", "reconnect", "invalid", "invalid-fresh"}, Disturb(kind)
      PROVE  Typed'
  <2>1. queue' \in Seq(Kinds) /\ incidents' \in 0..MaxIncidents
    BY <1>5, ReceivedTypes, IncidentCounts DEF Disturb, Kinds, Typed
  <2>. QED  BY <1>5, <2>1 DEF Disturb, Typed
<1>. QED  BY <1>1, <1>2, <1>3, <1>4, <1>5

LEMMA GatewayStep == TypeOK /\ [Next]_vars => TypeOK'
<1> SUFFICES ASSUME TypeOK, [Next]_vars PROVE TypeOK'
  OBVIOUS
<1>1. CASE UNCHANGED vars
  BY <1>1 DEF vars, TypeOK
<1>2. CASE CronTick \/ OperatorConnect \/ StartGateway \/ Disconnect
  BY <1>2, OperatorKeeps, TypedNext
<1>3. CASE \E who \in Callers : \/ Fetched(who) \/ InfoAnswered(who, TRUE) \/ InfoRefused(who)
                                \/ Retried(who) \/ UpgradeRefused(who)
  <2>1. Typed'
    BY <1>3, FetchKeeps DEF Fetched
  <2>. QED  BY <2>1, TypedNext
<1>4. CASE Alarm \/ CooldownEnds
  BY <1>4, AlarmKeeps, TypedNext
<1>5. CASE Handle \/ Forwarded
  BY <1>5, HandleKeeps, TypedNext
<1>6. CASE \/ Neglected \/ AlreadyAuthenticated \/ Vanish \/ Evict
           \/ \E how \in {"resume", "fresh", "terminal"} : Close(how)
  <2>1. Typed'
    BY <1>6, SocketKeeps
  <2>. QED  BY <2>1, TypedNext
<1>7. CASE \/ Greet \/ Answer \/ Invalidate \/ Message
           \/ \E kind \in {"heartbeat", "reconnect", "invalid", "invalid-fresh"} : Disturb(kind)
  <2>1. Typed'
    BY <1>7, DiscordKeeps
  <2>. QED  BY <2>1, TypedNext
<1>. QED  BY <1>1, <1>2, <1>3, <1>4, <1>5, <1>6, <1>7 DEF Next

\* Whatever alarms, calls and events of sockets old and new come together, the state has its
\* types, and the alarm sends a heartbeat only while at most one that it sent is unanswered
\* (alarmInternal); what op 1 asks for is sent besides.
THEOREM GatewayTypes == Spec => []TypeOK
<1>. QED  BY GatewayInit, GatewayStep, PTL DEF Spec

===============================================================================
