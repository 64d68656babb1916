----------------------------- MODULE SyncProtocol -----------------------------
(***************************************************************************)
(* Chat's sync protocol: the event log and the command journal of the      *)
(* Durable Object, and the browsers that follow it over a WebSocket.       *)
(*                                                                         *)
(* Up a socket go a hello, with the browser's cursor and the operations    *)
(* that have no answer yet, and commands; down come the hello's answer,    *)
(* acks, events and snapshots, each direction in order.  The server        *)
(* handles an envelope without an await between its reads and its sends,   *)
(* so that an envelope is a step.  A browser handles what has arrived in   *)
(* batches, one per animation frame, and frames wait while the tab is      *)
(* hidden: what has arrived survives the socket it came by.                *)
(*                                                                         *)
(* The events of one command are written in one transaction and broadcast  *)
(* back to back; they are one event here, named after the operation.       *)
(***************************************************************************)
EXTENDS Integers, Sequences, SequencesExt

CONSTANTS
    Clients,        \* browsers
    Ops,            \* operations, each dispatched once
    ResetOps,       \* those that are reset_storage
    Refusable,      \* those whose handler may throw ("Thread not found")
    Deltas,         \* events that no command writes: pieces of an answer's text
    Boot,           \* the event of the first hello of all
    MaxIncidents    \* bound: sockets lost, pages reloaded, backups restored, deltas
                    \* and refused commands, all together

ASSUME SyncAssumption ==
    /\ ResetOps \subseteq Ops /\ Refusable \subseteq Ops
    /\ Deltas \cap Ops = {} /\ Boot \notin Ops \cup Deltas
    /\ MaxIncidents \in Nat

VARIABLES
    log,        \* events, in the order of seq
    acked,      \* commands: the seq an operation was acked with, 0 without a row
    link,       \* clients whose socket is open
    up, down,   \* what is under way on the socket; down also what waits for a frame
    cursor,     \* lastServerSeq of a client
    shown,      \* events whose rows a client's collections have
    outbox,     \* pendingOps, in the order of dispatch
    cache,      \* rows and cursor in IndexedDB
    told,       \* what the author of an operation has been told
    done,       \* operations ever applied
    era,        \* 1 + the number of times the log was replaced
    sound,      \* the era of the last snapshot of a client, 0 if it has lost its place
    incidents   \* of those that MaxIncidents bounds

server  == <<log, acked, done, era>>
browser == <<cursor, shown, outbox, cache, told>>
vars    == <<server, browser, link, up, down, sound, incidents>>

-------------------------------------------------------------------------------

Events == Ops \cup Deltas \cup {Boot}

\* The elements of a sequence that are in a set, in their order: SelectSeq, as a
\* function of the length, which proofs by induction need.
Among(s, S) ==
    LET first[n \in 0..Len(s)] ==
            IF n = 0 THEN <<>>
            ELSE IF s[n] \in S THEN Append(first[n - 1], s[n]) ELSE first[n - 1]
    IN  first[Len(s)]

\* What goes up, and what comes down.  What was sent by a socket since lost is
\* still executed (live = FALSE), but its answer has nowhere to go.  The era of a
\* snapshot is known to the properties only.
Hello(c)         == [kind |-> "hello", cursor |-> cursor[c], unacked |-> outbox[c],
                     live |-> TRUE]
Command(o, live) == [kind |-> "command", op |-> o, live |-> live]
HelloAck         == [kind |-> "hello_ack"]
Ack(o, n)        == [kind |-> "ack", op |-> o, seq |-> n]
Event(e, n)      == [kind |-> "event", event |-> e, seq |-> n]

Snapshot_Early(entries, initial, n) ==     \* dated two events before its last
    [kind |-> "sync_reset", initial |-> initial, rows |-> ToSet(entries),
     seq |-> Len(entries) - 2, era |-> n]

Snapshot(entries, initial, n) ==
    [kind |-> "sync_reset", initial |-> initial, rows |-> ToSet(entries),
     seq |-> Len(entries), era |-> n]

Upward ==
    [kind : {"hello"}, cursor : Nat, unacked : Seq(Ops), live : BOOLEAN]
    \cup [kind : {"command"}, op : Ops, live : BOOLEAN]

Downward ==
    [kind : {"hello_ack"}] \cup [kind : {"ack"}, op : Ops, seq : Nat]
    \cup [kind : {"event"}, event : Events, seq : Nat]
    \cup [kind : {"sync_reset"}, initial : BOOLEAN, rows : SUBSET Events,
          seq : Nat, era : Nat]

NoCache == [shown |-> {}, cursor |-> 0]

\* What the variables are; a snapshot is never dated before the log begins.
TypeOK ==
    /\ log \in Seq(Events)
    /\ acked \in [Ops -> Nat]
    /\ link \subseteq Clients
    /\ up \in [Clients -> Seq(Upward)]
    /\ down \in [Clients -> Seq(Downward)]
    /\ cursor \in [Clients -> Nat]
    /\ shown \in [Clients -> SUBSET Events]
    /\ outbox \in [Clients -> Seq(Ops)]
    /\ cache \in [Clients -> [shown : SUBSET Events, cursor : Nat]]
    /\ told \in [Ops -> {"unused", "pending", "confirmed", "dropped"}]
    /\ done \subseteq Ops
    /\ era \in Nat /\ sound \in [Clients -> Nat] /\ incidents \in Nat

Init ==
    /\ log = <<>> /\ acked = [o \in Ops |-> 0]
    /\ link = {}
    /\ up = [c \in Clients |-> <<>>] /\ down = [c \in Clients |-> <<>>]
    /\ cursor = [c \in Clients |-> 0] /\ shown = [c \in Clients |-> {}]
    /\ outbox = [c \in Clients |-> <<>>] /\ cache = [c \in Clients |-> NoCache]
    /\ told = [o \in Ops |-> "unused"]
    /\ done = {} /\ era = 1 /\ sound = [c \in Clients |-> 1] /\ incidents = 0

-------------------------------------------------------------------------------
\* The server.

\* The bound of what need not happen.
Incident == incidents < MaxIncidents /\ incidents' = incidents + 1

\* Off by one: the event at the cursor's successor is skipped.
Replay_Skips(entries, after) ==
    [i \in 1..(Len(entries) - after - 1) |-> Event(entries[after + i + 1], after + i + 1)]

\* The events after a cursor; a cursor at or past the head has none.
Replay(entries, after) ==
    [i \in 1..(Len(entries) - after) |-> Event(entries[after + i], after + i)]

\* No operation of the hello is answered.
Answers_None(ops) == <<>>

\* Every operation named is acked, with the head.
Answers_All(ops) == [i \in DOMAIN ops |-> Ack(ops[i], Len(log))]

\* getCommandAck for each operation the hello names.
Answers(ops) ==
    LET known == Among(ops, {o \in Ops : acked[o] # 0})
    IN  [i \in DOMAIN known |-> Ack(known[i], acked[known[i]])]

\* An envelope for every open socket.
Broadcast(envelopes) ==
    down' = [c \in Clients |-> IF c \in link THEN down[c] \o envelopes ELSE down[c]]

Receives(c, kind) ==
    /\ up[c] # <<>> /\ Head(up[c]).kind = kind
    /\ up' = [up EXCEPT ![c] = Tail(@)]

\* hello.  The first of all writes the default workspace before anything is read,
\* and does not broadcast it.
HandleHello(c) ==
    /\ Receives(c, "hello")
    /\ LET hello   == Head(up[c])
           entries == IF log = <<>> THEN <<Boot>> ELSE log
           state   == IF hello.cursor <= 0 THEN <<Snapshot(entries, TRUE, era)>>
                      ELSE Replay(entries, hello.cursor)
       IN  /\ log' = entries
           /\ down' = IF hello.live
                      THEN [down EXCEPT ![c] =
                               @ \o <<HelloAck>> \o state \o Answers(hello.unacked)]
                      ELSE down
    /\ UNCHANGED <<acked, done, era, browser, link, sound, incidents>>

\* The journal is not asked.
Fresh_Always(o) == TRUE

\* An operation is applied if the journal does not have it.
Fresh(o) == acked[o] = 0

\* One transaction writes the events and the journal's row; the ack and the event
\* are then broadcast to everybody, in this order.
Execute(c) ==
    /\ Receives(c, "command")
    /\ \E o \in Ops :
          LET entries == IF o \in ResetOps THEN <<o>> ELSE Append(log, o)
              n       == Len(entries)
          IN  /\ o = Head(up[c]).op /\ Fresh(o)
              /\ log' = entries
              /\ acked' = IF o \in ResetOps THEN [p \in Ops |-> IF p = o THEN n ELSE 0]
                          ELSE [acked EXCEPT ![o] = n]
              /\ done' = done \cup {o}
              /\ era' = IF o \in ResetOps THEN era + 1 ELSE era
              /\ Broadcast(<<Ack(o, n), Event(o, n)>>)
    /\ UNCHANGED <<browser, link, sound, incidents>>

\* An operation that the journal has is not answered: its ack is returned to the
\* caller, and webSocketMessage drops it.
IgnoreDuplicate(c) ==
    /\ Receives(c, "command")
    /\ ~Fresh(Head(up[c]).op)
    /\ UNCHANGED <<server, browser, link, down, sound, incidents>>

\* The handler throws: the transaction is rolled back and the socket that sent the
\* command is given a snapshot.
Refuse(c) ==
    /\ Receives(c, "command")
    /\ Head(up[c]).op \in Refusable /\ Fresh(Head(up[c]).op)
    /\ down' = IF Head(up[c]).live
               THEN [down EXCEPT ![c] = Append(@, Snapshot(log, FALSE, era))] ELSE down
    /\ Incident
    /\ UNCHANGED <<server, browser, link, sound>>

\* An event of an assistant turn, or of anything else that the server does itself.
Emit(e) ==
    /\ Incident
    /\ log # <<>> /\ e \notin ToSet(log)
    /\ log' = Append(log, e)
    /\ Broadcast(<<Event(e, Len(log) + 1)>>)
    /\ UNCHANGED <<acked, done, era, browser, link, up, sound>>

\* A backup of this Chat that was exported when the log had n events replaces log and
\* journal; everybody who is connected is given the restored state.
RestoreBackup(n) ==
    /\ Incident
    /\ log' = SubSeq(log, 1, n)
    /\ acked' = [o \in Ops |-> IF acked[o] <= n THEN acked[o] ELSE 0]
    /\ Broadcast(<<Snapshot(log', FALSE, era + 1)>>)
    /\ era' = era + 1
    /\ UNCHANGED <<done, browser, link, up, sound>>

-------------------------------------------------------------------------------
\* The browsers.

\* processEnvelopes on the first k envelopes that have arrived.  An event moves the
\* cursor to its own seq, forwards or back; an ack only forwards; a snapshot
\* replaces rows and cursor, and clears the outbox unless it is the initial one.
Envelopes(c, k, kind) == {i \in 1..k : down[c][i].kind = kind}
Clears(c, k) == {i \in Envelopes(c, k, "sync_reset") : ~down[c][i].initial}

ShownAfter(c, k) ==
    LET resets == Envelopes(c, k, "sync_reset")
        from   == IF resets = {} THEN 0 ELSE Max(resets)
    IN  (IF resets = {} THEN shown[c] ELSE down[c][from].rows) \cup
        {down[c][i].event : i \in {j \in Envelopes(c, k, "event") : j > from}}

Moves(c, k) == Envelopes(c, k, "sync_reset") \cup Envelopes(c, k, "event")

CursorAfter(c, k) ==
    LET from == IF Moves(c, k) = {} THEN 0 ELSE Max(Moves(c, k))
        base == IF from = 0 THEN cursor[c] ELSE down[c][from].seq
        acks == {down[c][i].seq : i \in {j \in Envelopes(c, k, "ack") : j > from}}
    IN  Max({base} \cup acks)

\* Operations whose ack is processed before the envelope at position n.
AckedBefore(c, k, n) ==
    {down[c][i].op : i \in {j \in Envelopes(c, k, "ack") : j < n}}

\* Pending operations that the batch confirms, and that it drops: an ack that
\* comes after the clearing finds nothing to confirm.
Confirmed(c, k) ==
    {o \in ToSet(outbox[c]) : \E i \in Envelopes(c, k, "ack") :
        down[c][i].op = o /\ \A j \in Clears(c, k) : i < j}
Dropped(c, k) ==
    IF Clears(c, k) = {} THEN {} ELSE ToSet(outbox[c]) \ Confirmed(c, k)

\* hello_ack: flushAll sends what is pending at that point, if the socket is open.
Resent(c, k) ==
    IF c \notin link THEN <<>>
    ELSE Among(outbox[c], {o \in Ops :
            \E i \in Envelopes(c, k, "hello_ack") :
                /\ o \notin AckedBefore(c, k, i)
                /\ \A j \in Clears(c, k) : i < j})

SnapshotEra(c, k) ==
    LET resets == Envelopes(c, k, "sync_reset")
    IN  IF resets = {} THEN sound[c] ELSE down[c][Max(resets)].era

\* The rows and the cursor are cached together, when a batch has changed more than
\* the text of an answer.
Cacheable(c, k) ==
    \/ Envelopes(c, k, "sync_reset") # {}
    \/ \E i \in Envelopes(c, k, "event") : down[c][i].event \notin Deltas

Flush(c, k) ==
    /\ shown' = [shown EXCEPT ![c] = ShownAfter(c, k)]
    /\ cursor' = [cursor EXCEPT ![c] = CursorAfter(c, k)]
    /\ cache' = IF Cacheable(c, k)
                THEN [cache EXCEPT ![c] = [shown |-> shown'[c], cursor |-> cursor'[c]]]
                ELSE cache
    /\ outbox' = [outbox EXCEPT ![c] =
          Among(@, Ops \ (Confirmed(c, k) \cup Dropped(c, k)))]
    /\ told' = [o \in Ops |-> IF o \in Confirmed(c, k) THEN "confirmed"
                              ELSE IF o \in Dropped(c, k) THEN "dropped" ELSE told[o]]
    /\ LET resent == Resent(c, k)
       IN  up' = [up EXCEPT ![c] = @ \o [i \in DOMAIN resent |-> Command(resent[i], TRUE)]]
    /\ down' = [down EXCEPT ![c] = SubSeq(@, k + 1, Len(@))]
    /\ sound' = [sound EXCEPT ![c] = SnapshotEra(c, k)]
    /\ UNCHANGED <<server, link, incidents>>

\* The socket opens; the hello is the first thing it sends.
Connect(c) ==
    /\ c \notin link
    /\ link' = link \cup {c}
    /\ up' = [up EXCEPT ![c] = Append(@, Hello(c))]
    /\ UNCHANGED <<server, browser, down, sound, incidents>>

\* An operation is kept in the outbox and sent if the socket is open, also before
\* the hello's answer has come.
Dispatch(c, o) ==
    /\ told[o] = "unused"
    /\ told' = [told EXCEPT ![o] = "pending"]
    /\ outbox' = [outbox EXCEPT ![c] = Append(@, o)]
    /\ up' = IF c \in link THEN [up EXCEPT ![c] = Append(@, Command(o, TRUE))] ELSE up
    /\ UNCHANGED <<server, cursor, shown, cache, link, down, sound, incidents>>

\* What the server has received of a lost socket.
Received(c, j) == [i \in 1..j |-> [up[c][i] EXCEPT !.live = FALSE]]

\* The cursor stands past an event whose rows are not there.
Overtaken(rows, position) == \E n \in DOMAIN log : n <= position /\ log[n] \notin rows

\* The socket is lost.  The first j envelopes on the way up have been received, the
\* first k on the way down have arrived and wait for their frame.  The next hello
\* names the cursor as it stands before all of them are drawn, or some, or none.
Lose(c, j, k) ==
    /\ c \in link /\ Incident
    /\ link' = link \ {c}
    /\ up' = [up EXCEPT ![c] = Received(c, j)]
    /\ LET cut == \/ \E m \in 0..k : Overtaken(ShownAfter(c, k), CursorAfter(c, m))
                  \/ SnapshotEra(c, k) # sound[c]
       IN  /\ sound' = IF cut THEN [sound EXCEPT ![c] = 0] ELSE sound
           /\ down' = [down EXCEPT ![c] = [i \in 1..k |->
                 IF cut /\ @[i].kind = "sync_reset" THEN [@[i] EXCEPT !.era = 0] ELSE @[i]]]
    /\ UNCHANGED <<server, browser>>

\* The page is loaded again: rows and cursor come from the cache, without which the
\* cursor is 0; the pending operations from localStorage.
Reload(c, j) ==
    /\ Incident
    /\ link' = link \ {c}
    /\ up' = [up EXCEPT ![c] = Received(c, j)]
    /\ down' = [down EXCEPT ![c] = <<>>]
    /\ shown' = [shown EXCEPT ![c] = cache[c].shown]
    /\ cursor' = [cursor EXCEPT ![c] = cache[c].cursor]
    /\ sound' = IF Overtaken(cache[c].shown, cache[c].cursor)
                THEN [sound EXCEPT ![c] = 0] ELSE sound
    /\ UNCHANGED <<server, outbox, cache, told>>

-------------------------------------------------------------------------------

Serve(c) == HandleHello(c) \/ Execute(c) \/ IgnoreDuplicate(c) \/ Refuse(c)
Frame(c) == \E k \in DOMAIN down[c] : Flush(c, k)

Next ==
    \/ \E c \in Clients :
          \/ Serve(c) \/ Frame(c) \/ Connect(c)
          \/ \E o \in Ops : Dispatch(c, o)
          \/ \E j \in 0..Len(up[c]) : Reload(c, j) \/ \E k \in 0..Len(down[c]) : Lose(c, j, k)
    \/ \E e \in Deltas : Emit(e)
    \/ \E n \in DOMAIN log : RestoreBackup(n)

Spec == Init /\ [][Next]_vars

\* Timers reconnect a browser and frames are drawn; the Durable Object serves what
\* it is sent.
FairSpec == Spec /\ \A c \in Clients :
    WF_vars(Connect(c)) /\ WF_vars(Serve(c)) /\ WF_vars(Frame(c))

-------------------------------------------------------------------------------

\* An operation is applied once, however often it is sent: the log that one journal
\* covers has no event twice, and the journal knows exactly the operations in it.
AtMostOnce ==
    /\ \A m, n \in DOMAIN log : log[m] = log[n] => m = n
    /\ \A o \in Ops : acked[o] # 0 <=> o \in ToSet(log)

\* A browser that has nothing under way on its socket shows the log, and its cursor
\* is not past the head, whatever sockets and pages were lost before: unless
\*   - its socket was lost while the cursor stood past an event that had not arrived;
\*   - a backup was restored while it was away or had not drawn a frame; or
\*   - the storage was reset, whether or not the browser was there to see it.
\* A reset sends events and no snapshot (command-handlers.ts:470), so that the rows it
\* deleted stay where they are shown, and come back from IndexedDB when the page is
\* loaded again (actions.ts:826): CaughtUp says nothing of a browser from then until
\* its next snapshot.  The cursor may stand before the head: events that a lost
\* socket replayed take it back when they are drawn, and the hello sent before that
\* has already named a later one.
CaughtUp ==
    \A c \in link :
        up[c] = <<>> /\ down[c] = <<>> /\ sound[c] = era
            => shown[c] = ToSet(log) /\ cursor[c] <= Len(log)

\* Every operation is confirmed, or dropped with a snapshot, in the end: also when
\* its first ack was lost and the server no longer answers it.  (A time comes at which
\* none waits, since each is dispatched once.)
EveryOperationIsAnswered ==
    (\E o \in Ops : told[o] = "pending") ~> (\A o \in Ops : told[o] # "pending")

\* The protocol implements OperationLog.
Promise == INSTANCE OperationLog WITH journal <- {o \in Ops : acked[o] # 0}
ImplementsOperationLog == Promise!Spec
===============================================================================
