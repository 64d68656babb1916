---------------------------- MODULE AssistantTurns ----------------------------
(***************************************************************************)
(* Chat's assistant turns in the sync Durable Object: the messages that    *)
(* wait for an answer, the promises that stream it, the pending_turns rows *)
(* and the alarm that start an interrupted turn again.                     *)
(*                                                                         *)
(* Whatever is written between two awaits is one step: the messages table, *)
(* pending_turns and the alarm are written through together.  An eviction  *)
(* takes everything that is in memory: the promises, the controllers and   *)
(* activeTurnMessageIds; an alarm whose handler it interrupts fires again. *)
(*                                                                         *)
(* A message is <<a, k>>: the k-th attempt at answering what the user      *)
(* asked with a.  Asks have threads of their own.                          *)
(***************************************************************************)
EXTENDS Integers, FiniteSets

CONSTANTS
    Asks,           \* what users ask: create_user_message, retry, edit, comparison
    MaxAttempts,    \* bound: attempts beyond the first
    MaxIncidents    \* bound: evictions, turns whose writes fail, threads deleted, storage
                    \* reset and backups exported, all together

ASSUME TurnsAssumption == MaxAttempts \in Nat /\ MaxIncidents \in Nat

VARIABLES
    status,     \* messages: what the row says
    rows,       \* pending_turns
    alarm,      \* an alarm is scheduled
    group,      \* asks: those asked with it, one followUp for all
    active,     \* activeTurnMessageIds
    run,        \* messages: where runAssistantTurn stands
    aborted,    \* controllers that have been aborted
    committed,  \* commands whose transaction is over and whose followUp is to start
    handler,    \* the alarm handler
    restoring,  \* a restore that has found no turn active reads its body
    backup,     \* the statuses of an exported backup
    stranded,   \* history: messages left without a row, see Evict and Restore
    robbed,     \* history: a recovered turn took the alarm away from other rows
    incidents   \* of those that MaxIncidents bounds

durable == <<status, rows, alarm>>
memory  == <<active, run, aborted, committed, handler, restoring>>
history == <<stranded, robbed>>
vars    == <<durable, group, memory, backup, history, incidents>>

-------------------------------------------------------------------------------

Messages == Asks \X (0..MaxAttempts)
First(S) == S \X {0}

Unfinished == {"pending", "streaming"}
Terminal   == {"completed", "failed"}
Statuses   == {"none", "gone"} \cup Unfinished \cup Terminal

\* "answered" and "broken": the stream is over, well or not, and its outcome is still
\* to be written; "ended" and "thrown": the promise has settled.
Runs    == {"no", "setup", "stream", "answered", "broken", "ended", "thrown"}
Over    == {"ended", "thrown"}
Running == {m \in Messages : run[m] \in {"setup", "stream", "answered", "broken"}}

NoBackup == [m \in {} |-> "none"]

\* The rows the handler has not come to, and the recovered turn it waits for.
Idle == [on |-> FALSE, todo |-> {}, wait |-> {}]

\* What the variables are; a message that is gone, or was never there, has no other
\* status than that, and the handler waits for one turn at a time.
TypeOK ==
    /\ status \in [Messages -> Statuses]
    /\ rows \subseteq Messages /\ active \subseteq Messages /\ aborted \subseteq Messages
    /\ stranded \subseteq Messages
    /\ alarm \in BOOLEAN /\ restoring \in BOOLEAN
    /\ group \in [Asks -> SUBSET Asks]
    /\ run \in [Messages -> Runs]
    /\ committed \in SUBSET SUBSET Asks
    /\ handler \in [on : BOOLEAN, todo : SUBSET Messages, wait : SUBSET Messages]
    /\ Cardinality(handler.wait) <= 1
    /\ backup \in [Messages -> Statuses] \cup {NoBackup}
    /\ robbed \in BOOLEAN /\ incidents \in 0..MaxIncidents

Init ==
    /\ status = [m \in Messages |-> "none"] /\ rows = {} /\ alarm = FALSE
    /\ group = [a \in Asks |-> {}]
    /\ active = {} /\ run = [m \in Messages |-> "no"] /\ aborted = {}
    /\ committed = {} /\ handler = Idle /\ restoring = FALSE
    /\ backup = NoBackup /\ stranded = {} /\ robbed = FALSE /\ incidents = 0

\* The bound of what need not happen.
Incident == incidents < MaxIncidents /\ incidents' = incidents + 1

Exists(m) == status[m] \notin {"none", "gone"}

SetStatus(m, s) == status' = [status EXCEPT ![m] = s]
Goto(m, pc)     == run' = [run EXCEPT ![m] = pc]

-------------------------------------------------------------------------------
\* Commands.

\* The transaction of a command that asks: one question, or a comparison.
Ask(S) ==
    /\ S # {} /\ \A a \in S : group[a] = {}
    /\ group' = [a \in Asks |-> IF a \in S THEN S ELSE group[a]]
    /\ status' = [m \in Messages |-> IF m \in First(S) THEN "pending" ELSE status[m]]
    /\ committed' = committed \cup {S}
    /\ UNCHANGED <<rows, alarm, active, run, aborted, handler, restoring, backup,
                   history, incidents>>

\* The followUp starts the turns, up to their first await; then the rows are saved.
Track(S) ==
    /\ committed' = committed \ {S}
    /\ run' = [m \in Messages |-> IF m \in First(S) THEN "setup" ELSE run[m]]
    /\ rows' = rows \cup First(S)
    /\ active' = active \cup First(S)
    /\ stranded' = stranded \ First(S)
    /\ alarm' = TRUE
    /\ UNCHANGED <<status, group, aborted, handler, restoring, backup, robbed, incidents>>

\* The browser offers it for a message that it sees unfinished, whatever has become of
\* it since.
Cancel(m) ==
    /\ Exists(m)
    /\ SetStatus(m, "failed")
    /\ aborted' = IF m \in Running THEN aborted \cup {m} ELSE aborted
    /\ UNCHANGED <<rows, alarm, group, active, run, committed, handler, restoring,
                   backup, history, incidents>>

\* Marked, in a way that nobody reads.
Gone_Marked(S) == [m \in Messages |-> IF m \in S /\ Exists(m) THEN "deleted" ELSE status[m]]

Gone(S) == [m \in Messages |-> IF m \in S /\ Exists(m) THEN "gone" ELSE status[m]]

\* Neither removes rows of pending_turns.
DeleteThread(a) ==
    /\ Incident
    /\ \E m \in {a} \X (0..MaxAttempts) : Exists(m)
    /\ status' = Gone({a} \X (0..MaxAttempts))
    /\ UNCHANGED <<rows, alarm, group, memory, backup, history>>

ResetStorage ==
    /\ Incident
    /\ \E m \in Messages : Exists(m)
    /\ status' = Gone(Messages)
    /\ UNCHANGED <<rows, alarm, group, memory, backup, history>>

-------------------------------------------------------------------------------
\* A turn.

\* The thread is read; without it the turn is over.
Begin(m) ==
    /\ run[m] = "setup"
    /\ Goto(m, IF Exists(m) THEN "stream" ELSE "ended")
    /\ UNCHANGED <<durable, group, active, aborted, committed, handler, restoring,
                   backup, history, incidents>>

\* Text is written as it comes, and once more when the stream breaks; whatever the row
\* says by then.
Delta(m) ==
    /\ run[m] \in {"stream", "broken"} /\ Exists(m)
    /\ SetStatus(m, "streaming")
    /\ UNCHANGED <<rows, alarm, group, memory, backup, history, incidents>>

\* The stream is over: answered, or broken by the provider, a tool or an abort; what
\* goes wrong before it ends the turn in the same way.
EndStream(m, outcome) ==
    /\ run[m] = "stream" \/ (run[m] = "setup" /\ outcome = "broken")
    /\ Goto(m, outcome)
    /\ UNCHANGED <<durable, group, active, aborted, committed, handler, restoring,
                   backup, history, incidents>>

\* message_completed, without a look at the row.
Complete(m) ==
    /\ run[m] = "answered"
    /\ IF Exists(m) THEN SetStatus(m, "completed") ELSE UNCHANGED status
    /\ Goto(m, "ended")
    /\ UNCHANGED <<rows, alarm, group, active, aborted, committed, handler, restoring,
                   backup, history, incidents>>

\* message_failed, unless the row has been decided.
Fail(m) ==
    /\ run[m] = "broken"
    /\ IF status[m] \in Unfinished THEN SetStatus(m, "failed") ELSE UNCHANGED status
    /\ Goto(m, "ended")
    /\ UNCHANGED <<rows, alarm, group, active, aborted, committed, handler, restoring,
                   backup, history, incidents>>

\* Its last write fails: the turn is over and the row undecided.
Collapse(m) ==
    /\ run[m] \in {"answered", "broken"}
    /\ Goto(m, "thrown")
    /\ Incident
    /\ UNCHANGED <<durable, group, active, aborted, committed, handler, restoring,
                   backup, history>>

\* Cleared whatever became of the message.
Settled_All(m) == TRUE

\* A row is kept until its message is decided.
Settled(m) == status[m] \in Terminal

\* The alarm is taken away with the turn.
Rearm_Never(left) == FALSE

\* The alarm is there for the rows that are left.
Rearm(left) == left # {}

\* settleTrackedTurns, when all turns of a command are over.
Settle(a) ==
    /\ group[a] # {} /\ \A m \in First(group[a]) : run[m] \in Over
    /\ LET done == First(group[a])
       IN  /\ active' = active \ done
           /\ rows' = rows \ {m \in done : Settled(m)}
           /\ run' = [m \in Messages |-> IF m \in done THEN "no" ELSE run[m]]
           /\ aborted' = aborted \ done
    /\ alarm' = Rearm(rows')
    /\ UNCHANGED <<status, group, committed, handler, restoring, backup, history, incidents>>

-------------------------------------------------------------------------------
\* The alarm.

\* A turn is started again although it runs.
Interrupted_Running(m) == status[m] \in Unfinished

\* The message waits for an answer and no promise of this instance works on it.
Interrupted(m) == m \notin active /\ status[m] \in Unfinished

\* What the handler does with the rows it has not come to, from one await to the next;
\* kept, busy and due are what rows, active and alarm are when it goes on.  The row of a
\* turn that runs is kept, and the alarm scheduled again; the row of a message that is
\* decided or gone is cleared; the message of any other fails, and a new one takes its
\* place, has its own row, and is waited for.
\* Its thread and its question are there as long as the message is: deletions
\* take them together.
Cleared(S, kept, busy) == kept \ (S \ busy)

ScanToEnd(todo, kept, busy, due) ==
    /\ \A m \in todo : ~Interrupted(m)
    /\ rows' = Cleared(todo, kept, busy)
    /\ active' = busy
    /\ alarm' = (due \/ todo \cap busy # {})
    /\ handler' = Idle
    /\ UNCHANGED status

\* The message that takes the place of m has a new id.
Successor(m, n) ==
    /\ n[1] = m[1] /\ status[n] = "none"
    /\ \A k \in 0..MaxAttempts : k < n[2] => status[<<n[1], k>>] # "none"

Recover(m, n, passed, todo, kept, busy) ==
    /\ Interrupted(m) /\ \A p \in passed : ~Interrupted(p)
    /\ Successor(m, n)
    /\ status' = [status EXCEPT ![m] = "failed", ![n] = "pending"]
    /\ rows' = Cleared(passed, kept, busy) \cup {n}
    /\ active' = busy \cup {n}
    /\ alarm' = TRUE
    /\ handler' = [on |-> TRUE, todo |-> todo \ (passed \cup {m}), wait |-> {n}]

\* alarm(): the slot is empty from when the handler starts.
Fire ==
    /\ alarm /\ ~handler.on
    /\ \/ ScanToEnd(rows, rows, active, FALSE) /\ UNCHANGED run
       \/ \E m \in rows, n \in Messages, passed \in SUBSET rows :
             Recover(m, n, passed, rows, rows, active) /\ Goto(n, "setup")
    /\ UNCHANGED <<group, aborted, committed, restoring, backup, history, incidents>>

\* recoverTurn's finally, and on with the rows that had been read; if the turn has
\* thrown, the handler has, and the alarm fires again.
FinishRecovery(n) ==
    /\ run[n] \in Over
    /\ LET kept == IF Settled(n) THEN rows \ {n} ELSE rows
           busy == active \ {n}
           due  == IF Settled(n) THEN FALSE ELSE alarm
           todo == handler.todo
       IN  IF run[n] = "thrown"
           THEN /\ rows' = kept /\ active' = busy /\ alarm' = TRUE /\ handler' = Idle
                /\ Goto(n, "no")
                /\ UNCHANGED status
           ELSE \/ ScanToEnd(todo, kept, busy, due) /\ Goto(n, "no")
                \/ \E m \in todo, p \in Messages, passed \in SUBSET todo :
                      /\ Recover(m, p, passed, todo, kept, busy)
                      /\ run' = [run EXCEPT ![n] = "no", ![p] = "setup"]
    /\ aborted' = aborted \ {n}
    /\ robbed' = (robbed \/ (~alarm' /\ rows' # {}))
    /\ UNCHANGED <<group, committed, restoring, backup, stranded, incidents>>

\* A socket closes while turns run.
CloseSocket ==
    /\ active # {}
    /\ alarm' = TRUE
    /\ UNCHANGED <<status, rows, group, memory, backup, history, incidents>>

-------------------------------------------------------------------------------
\* Backups, of which a behaviour has one.

Export ==
    /\ Incident
    /\ backup = NoBackup /\ \E m \in Messages : Exists(m)
    /\ backup' = status
    /\ UNCHANGED <<durable, group, memory, history>>

\* Rejected while a turn is active; then the body is read.
BeginRestore ==
    /\ ~restoring /\ active = {} /\ Running = {}
    /\ backup # NoBackup
    /\ restoring' = TRUE
    /\ UNCHANGED <<durable, group, active, run, aborted, committed, handler, backup,
                   history, incidents>>

\* The messages are those of the backup, and pending_turns is empty: also for those of
\* them that wait for an answer, and for those whose turn has begun since BeginRestore
\* and may still write to them.
Restore ==
    /\ restoring
    /\ restoring' = FALSE
    /\ status' = [m \in Messages |->
          IF backup[m] # "none" THEN backup[m]
          ELSE IF status[m] = "none" THEN "none" ELSE "gone"]
    /\ rows' = {}
    /\ stranded' = {m \in Messages :
          backup[m] \in Unfinished \/ (backup[m] # "none" /\ run[m] # "no")}
    /\ UNCHANGED <<alarm, group, active, run, aborted, committed, handler, backup, robbed,
                   incidents>>

\* What was asked by commands whose transaction is over and whose rows are not written.
Untracked == UNION {First(S) : S \in committed}

\* The instance is evicted; a command between its transaction and saveTurnParams is
\* not run again, because the journal has it.
Evict ==
    /\ Incident
    /\ active' = {} /\ run' = [m \in Messages |-> "no"] /\ aborted' = {}
    /\ committed' = {} /\ handler' = Idle /\ restoring' = FALSE
    /\ alarm' = (alarm \/ handler.on)
    /\ stranded' = stranded \cup Untracked
    /\ UNCHANGED <<status, rows, group, backup, robbed>>

-------------------------------------------------------------------------------

Advance(m) ==
    \/ Begin(m) \/ EndStream(m, "answered") \/ EndStream(m, "broken")
    \/ Complete(m) \/ Fail(m) \/ Collapse(m)

\* What is ready goes on: committed commands, streams, settled promises; and the alarm.
Work ==
    \/ \E S \in committed : Track(S)
    \/ \E m \in Messages : Advance(m)
    \/ \E a \in Asks : Settle(a)

Handle == Fire \/ \E n \in handler.wait : FinishRecovery(n)

Next ==
    \/ \E S \in SUBSET Asks : Ask(S)
    \/ \E m \in Messages : Delta(m) \/ Cancel(m)
    \/ \E a \in Asks : DeleteThread(a)
    \/ Work \/ Handle \/ ResetStorage \/ CloseSocket
    \/ Export \/ BeginRestore \/ Restore
    \/ Evict

Spec == Init /\ [][Next]_vars

FairSpec == Spec /\ WF_vars(Work) /\ WF_vars(Handle)

-------------------------------------------------------------------------------

\* What a user asks has at most one answer, and at most one turn at work on it: a turn
\* that runs is not started again, nor one that has its answer.
OneAnswerPerAsk ==
    \A a \in Asks, j, k \in 0..MaxAttempts :
        LET Counts(m) == m \in Running \/ status[m] = "completed"
        IN  Counts(<<a, j>>) /\ Counts(<<a, k>>) => j = k

\* A message that waits for an answer has its row, or gets it in the step that starts
\* its turn, so that the turn can be started again whenever the instance is lost: also
\* when the turn's own last write failed, and when the message was cancelled and text
\* came after.  It does not hold of the messages that are stranded: those whose command
\* was committed when the instance was evicted, before saveTurnParams
\* (sync-engine.ts:455-569), and those that a restored backup has waiting, or running,
\* whose rows the restore deletes (backup-restorer.ts:47).  They wait for ever.
TurnsAreRecoverable ==
    \A m \in Messages :
        status[m] \in Unfinished => m \in rows \cup Untracked \cup stranded

\* And in the end what was asked has its answer, or has failed; unless it is stranded,
\* or the end of a recovered turn has deleted the alarm that other rows still needed
\* (robbed), which AlarmFollowsTurns is about.
TurnsEnd ==
    \A a \in Asks :
        LET Waits == \E m \in {a} \X (0..MaxAttempts) :
                        status[m] \in Unfinished /\ m \notin stranded
        IN  Waits ~> (~Waits \/ robbed)

\* "The alarm fires every 30 seconds as long as there are pending turns"
\* (03-authoring-route.md:633): outside of its handler, an alarm is scheduled as long
\* as pending_turns has the row of a message that waits.
AlarmFollowsTurns ==
    (\E m \in rows : status[m] \in Unfinished) /\ ~handler.on => alarm
===============================================================================
