------------------------------ MODULE TurnsProofs ------------------------------
(* What AssistantTurns does for every set of asks and every number of attempts, *)
(* evictions, failed writes, deletions and restores.                            *)
EXTENDS AssistantTurns, FiniteSetTheorems, TLAPS

\* A promise that has not been settled is in activeTurnMessageIds.
PromisesAreActive == \A m \in Messages : run[m] # "no" => m \in active

\* A message that waits, or that a promise may still write to, has its row; or it has
\* none yet, or is stranded without.
Owed(m)     == status[m] \in Unfinished \/ (run[m] # "no" /\ Exists(m))
RowsAreKept == \A m \in Messages : Owed(m) => m \in rows \cup Untracked \cup stranded

\* Only messages that were written have rows, are listed or waited for by the handler,
\* or to be started; those of a backup had been written, too.
AskedFor   == \A m \in Messages : status[m] # "none" => group[m[1]] # {}
RowsExist  == \A m \in rows : status[m] # "none"
ListExists == \A m \in handler.todo : status[m] # "none"
ToStart    == \A S \in committed : \A m \in First(S) : status[m] # "none"
BackupIsOld == backup = NoBackup \/ \A m \in Messages : backup[m] # "none" => status[m] # "none"
Written == AskedFor /\ RowsExist /\ ListExists /\ ToStart /\ BackupIsOld

\* The turn that the handler waits for is not among the rows it has read, and a restore
\* has something to restore.
Apart == handler.wait \cap handler.todo = {} /\ (restoring => backup # NoBackup)

TurnsInv == TypeOK /\ PromisesAreActive /\ RowsAreKept /\ Written /\ Apart

-------------------------------------------------------------------------------

LEMMA FirstType == ASSUME NEW S \in SUBSET Asks PROVE First(S) \subseteq Messages
BY TurnsAssumption DEF First, Messages

LEMMA NoneWaits == Idle \in [on : BOOLEAN, todo : SUBSET Messages, wait : SUBSET Messages]
                   /\ Cardinality(Idle.wait) <= 1
BY FS_EmptySet DEF Idle

LEMMA TurnsInit == Init => TurnsInv
<1> SUFFICES ASSUME Init PROVE TurnsInv
  OBVIOUS
<1>1. TypeOK
  <2>1. status \in [Messages -> Statuses] /\ run \in [Messages -> Runs]
    BY DEF Init, Statuses, Runs
  <2>2. handler \in [on : BOOLEAN, todo : SUBSET Messages, wait : SUBSET Messages]
        /\ Cardinality(handler.wait) <= 1
    BY NoneWaits DEF Init
  <2>3. group \in [Asks -> SUBSET Asks] /\ incidents \in 0..MaxIncidents
    BY TurnsAssumption DEF Init
  <2>4. alarm \in BOOLEAN /\ restoring \in BOOLEAN /\ robbed \in BOOLEAN
    BY DEF Init
  <2>5. /\ rows \subseteq Messages /\ active \subseteq Messages /\ aborted \subseteq Messages
        /\ stranded \subseteq Messages /\ committed \in SUBSET SUBSET Asks
        /\ backup \in [Messages -> Statuses] \cup {NoBackup}
    BY DEF Init
  <2>. QED  BY <2>1, <2>2, <2>3, <2>4, <2>5 DEF TypeOK
<1>2. PromisesAreActive /\ RowsAreKept
  BY DEF Init, PromisesAreActive, RowsAreKept, Owed, Unfinished
<1>3. Written
  BY DEF Init, Written, AskedFor, RowsExist, ListExists, ToStart, BackupIsOld, Idle
<1>4. Apart
  BY DEF Init, Apart, Idle
<1>. QED  BY <1>1, <1>2, <1>3, <1>4 DEF TurnsInv

\* Nothing is forgotten: a message that was written stays so, deleted or not.
LEMMA WrittenStays ==
    ASSUME TypeOK, Written,
           \A m \in Messages : status'[m] = "none" <=> status[m] = "none",
           UNCHANGED <<group, backup>>,
           rows' \subseteq rows,
           handler'.todo \subseteq handler.todo, committed' \subseteq committed
    PROVE  Written'
<1>1. AskedFor'
  BY DEF Written, AskedFor
<1>2. RowsExist' /\ ListExists'
  BY DEF TypeOK, Written, RowsExist, ListExists
<1>3. ToStart'
  BY FirstType DEF TypeOK, Written, ToStart
<1>4. BackupIsOld'
  BY DEF Written, BackupIsOld
<1>. QED  BY <1>1, <1>2, <1>3, <1>4 DEF Written

\* Commands.
LEMMA AskStep == ASSUME TurnsInv, NEW S \in SUBSET Asks, Ask(S) PROVE TurnsInv'
<1> USE DEF TurnsInv
<1>1. First(S) \subseteq Messages /\ \A m \in First(S) : m[1] \in S
  BY FirstType DEF First
<1>2. TypeOK'
  BY <1>1 DEF Ask, TypeOK, Statuses, Unfinished, history
<1>3. \A m \in First(S) : status[m] = "none" /\ m \notin rows \cup handler.todo
  BY <1>1 DEF Ask, Written, AskedFor, RowsExist, ListExists, TypeOK
<1>4. PromisesAreActive' /\ RowsAreKept'
  <2>1. First(S) \subseteq Untracked' /\ Untracked \subseteq Untracked'
    BY DEF Ask, Untracked
  <2>2. \A m \in Messages \ First(S) : Owed(m)' => Owed(m)
    BY DEF Ask, Owed, Exists, TypeOK
  <2>. QED  BY <2>1, <2>2 DEF Ask, PromisesAreActive, RowsAreKept, history
<1>5. Written'
  <2>1. \A m \in Messages : m[1] \in Asks
    BY DEF Messages
  <2>2. AskedFor'
    BY <1>1, <2>1 DEF Ask, Written, AskedFor, TypeOK
  <2>3. RowsExist' /\ ListExists'
    BY <1>1, <1>3 DEF Ask, Written, RowsExist, ListExists, TypeOK, history
  <2>4. ToStart'
    BY <1>1, FirstType DEF Ask, Written, ToStart, TypeOK
  <2>5. BackupIsOld'
    BY <1>1 DEF Ask, Written, BackupIsOld, TypeOK
  <2>. QED  BY <2>2, <2>3, <2>4, <2>5 DEF Written
<1>6. Apart'
  BY DEF Ask, Apart
<1>. QED  BY <1>2, <1>4, <1>5, <1>6

LEMMA TrackStep == ASSUME TurnsInv, NEW S \in committed, Track(S) PROVE TurnsInv'
<1> USE DEF TurnsInv
<1>1. S \in SUBSET Asks /\ First(S) \subseteq Messages
  BY FirstType DEF TypeOK
<1>2. TypeOK'
  BY <1>1 DEF Track, TypeOK, Runs
<1>3. PromisesAreActive' /\ RowsAreKept'
  <2>1. Untracked \subseteq Untracked' \cup First(S) /\ First(S) \subseteq rows'
    BY DEF Track, Untracked
  <2>2. \A m \in Messages \ First(S) : Owed(m)' => Owed(m)
    BY DEF Track, Owed, Exists, TypeOK
  <2>. QED  BY <1>1, <2>1, <2>2 DEF Track, PromisesAreActive, RowsAreKept, TypeOK
<1>4. Written'
  <2>1. \A m \in First(S) : status[m] # "none"
    BY DEF Written, ToStart
  <2>2. RowsExist' /\ ListExists'
    BY <2>1 DEF Track, Written, RowsExist, ListExists
  <2>3. AskedFor' /\ ToStart' /\ BackupIsOld'
    BY DEF Track, Written, AskedFor, ToStart, BackupIsOld
  <2>. QED  BY <2>2, <2>3 DEF Written
<1>. QED  BY <1>2, <1>3, <1>4 DEF Track, Apart

LEMMA CancelStep == ASSUME TurnsInv, NEW m \in Messages, Cancel(m) PROVE TurnsInv'
<1> USE DEF TurnsInv
<1>1. /\ Exists(m) /\ status[m] # "none" /\ status' = [status EXCEPT ![m] = "failed"]
      /\ UNCHANGED <<rows, alarm, group, active, run, committed, handler, restoring,
                     backup, stranded, robbed, incidents>>
  BY DEF Cancel, Exists, SetStatus, history
<1>2. aborted' \subseteq Messages
  BY DEF Cancel, TypeOK
<1>3. TypeOK'
  BY <1>1, <1>2 DEF TypeOK, Statuses, Terminal
<1>4. PromisesAreActive' /\ RowsAreKept'
  BY <1>1 DEF PromisesAreActive, RowsAreKept, Owed, Exists, Untracked, TypeOK, Unfinished
<1>5. Written'
  BY <1>1, WrittenStays DEF TypeOK
<1>. QED  BY <1>1, <1>3, <1>4, <1>5 DEF Apart

LEMMA DeletionStep ==
    ASSUME TurnsInv, (\E a \in Asks : DeleteThread(a)) \/ ResetStorage
    PROVE  TurnsInv'
<1> USE DEF TurnsInv
<1>1. PICK S : status' = Gone(S)
  BY DEF DeleteThread, ResetStorage
<1>2. /\ UNCHANGED <<rows, alarm, group, active, run, aborted, committed, handler,
                     restoring, backup, stranded, robbed>>
      /\ incidents' \in 0..MaxIncidents
  <2>1. incidents \in 0..MaxIncidents /\ Incident
    BY DEF DeleteThread, ResetStorage, TypeOK
  <2>2. incidents' \in 0..MaxIncidents
    BY <2>1, TurnsAssumption DEF Incident
  <2>. QED  BY <2>2 DEF DeleteThread, ResetStorage, memory, history
<1>3. /\ status' \in [Messages -> Statuses]
      /\ \A m \in Messages : status'[m] = status[m] \/ (status'[m] = "gone" /\ status[m] # "none")
  BY <1>1 DEF Gone, Exists, TypeOK, Statuses
<1>4. TypeOK'
  BY <1>2, <1>3 DEF TypeOK
<1>5. PromisesAreActive' /\ RowsAreKept'
  BY <1>2, <1>3 DEF PromisesAreActive, RowsAreKept, Owed, Exists, Untracked, TypeOK, Unfinished
<1>6. Written'
  BY <1>2, <1>3, WrittenStays
<1>. QED  BY <1>2, <1>4, <1>5, <1>6 DEF Apart

\* A turn.
LEMMA AdvanceStep == ASSUME TurnsInv, NEW m \in Messages, Advance(m) \/ Delta(m) PROVE TurnsInv'
<1> USE DEF TurnsInv
<1>1. /\ UNCHANGED <<rows, alarm, group, active, aborted, committed, handler,
                     restoring, backup, stranded, robbed>>
      /\ incidents' \in 0..MaxIncidents
  BY TurnsAssumption
     DEF Advance, Begin, EndStream, Complete, Fail, Collapse, Delta, Incident, durable,
         memory, history, TypeOK
<1>2. /\ run[m] # "no"
      /\ \E pc \in Runs : run' = [run EXCEPT ![m] = pc]
      /\ status' = status \/ \E st \in Statuses \ {"none"} :
            Exists(m) /\ status[m] # "none" /\ status' = [status EXCEPT ![m] = st]
  <2>1. CASE Begin(m) \/ Collapse(m) \/ EndStream(m, "answered") \/ EndStream(m, "broken")
    BY <2>1 DEF Begin, Collapse, EndStream, Goto, durable, Runs
  <2>2. CASE Complete(m) \/ Fail(m)
    BY <2>2 DEF Complete, Fail, Goto, SetStatus, Exists, Runs, Statuses, Terminal, Unfinished
  <2>3. CASE Delta(m)
    <3>1. run' = [run EXCEPT ![m] = run[m]] /\ run[m] \in Runs
      BY <2>3 DEF Delta, memory, TypeOK
    <3>. QED  BY <2>3, <3>1 DEF Delta, SetStatus, Exists, Statuses, Unfinished
  <2>. QED  BY <2>1, <2>2, <2>3 DEF Advance
<1>3. /\ run' \in [Messages -> Runs] /\ status' \in [Messages -> Statuses]
      /\ \A n \in Messages : n # m => run'[n] = run[n] /\ status'[n] = status[n]
      /\ \A n \in Messages : status'[n] = "none" <=> status[n] = "none"
  BY <1>2 DEF TypeOK
<1>4. TypeOK'
  BY <1>1, <1>3 DEF TypeOK
<1>5. PromisesAreActive' /\ RowsAreKept'
  <2>1. \A n \in Messages : Owed(n)' => Owed(n)
    BY <1>2, <1>3 DEF Owed, Exists
  <2>. QED  BY <1>1, <1>2, <1>3, <2>1 DEF PromisesAreActive, RowsAreKept, Untracked, TypeOK
<1>6. Written'
  BY <1>1, <1>3, WrittenStays
<1>. QED  BY <1>1, <1>4, <1>5, <1>6 DEF Apart

LEMMA SettleStep == ASSUME TurnsInv, NEW a \in Asks, Settle(a) PROVE TurnsInv'
<1> USE DEF TurnsInv
<1> DEFINE done == First(group[a])
<1>1. /\ UNCHANGED <<status, group, committed, handler, restoring, backup, stranded, robbed,
                     incidents>>
      /\ active' = active \ done /\ aborted' = aborted \ done
      /\ rows' = rows \ {m \in done : Settled(m)}
      /\ run' = [m \in Messages |-> IF m \in done THEN "no" ELSE run[m]]
      /\ alarm' \in BOOLEAN
  BY DEF Settle, Rearm, history
<1> HIDE DEF done
<1>2. TypeOK'
  BY <1>1 DEF TypeOK, Runs
<1>3. \A m \in Messages : m \in done /\ Settled(m) => status[m] \notin Unfinished
  BY DEF Settled, Unfinished, Terminal
<1>4. PromisesAreActive' /\ RowsAreKept'
  <2>1. \A m \in Messages : Owed(m)' => Owed(m) /\ ~(m \in done /\ Settled(m))
    BY <1>1, <1>3 DEF Owed, Exists
  <2>. QED  BY <1>1, <2>1 DEF PromisesAreActive, RowsAreKept, Untracked, TypeOK
<1>5. Written'
  BY <1>1, WrittenStays
<1>. QED  BY <1>1, <1>2, <1>4, <1>5 DEF Apart

-------------------------------------------------------------------------------

\* What the handler does up to its next await, whether it has just started or the turn
\* it waited for is over: it goes on with rows that are kept and promises that are
\* active, and its list holds no promise that has just ended.
GoesOn(todo, kept, busy) ==
    /\ todo \subseteq Messages /\ \A m \in todo : status[m] # "none"
    /\ kept \subseteq rows /\ busy \subseteq active /\ todo \cap active \subseteq busy
    /\ \A m \in Messages : Owed(m) /\ (status[m] \in Unfinished \/ m \in busy)
          => m \in kept \cup Untracked \cup stranded

\* What no part of the handler touches.
Untouched == /\ UNCHANGED <<group, committed, restoring, backup, stranded, incidents>>
             /\ aborted' \subseteq aborted /\ robbed' \in BOOLEAN

LEMMA ScanStep ==
    ASSUME TurnsInv, NEW todo, NEW kept, NEW busy, NEW due \in BOOLEAN,
           GoesOn(todo, kept, busy), ScanToEnd(todo, kept, busy, due), Untouched,
           run' \in [Messages -> Runs],
           \A m \in Messages : run'[m] # "no" => m \in busy /\ run'[m] = run[m]
    PROVE  TurnsInv'
<1> USE DEF TurnsInv
<1>1. /\ rows' = kept \ (todo \ busy) /\ active' = busy /\ handler' = Idle
      /\ UNCHANGED status
      /\ \A m \in todo : m \in active \/ status[m] \notin Unfinished
  BY DEF ScanToEnd, Cleared, Interrupted
<1>2. alarm' \in BOOLEAN
  BY DEF ScanToEnd
<1>3. TypeOK'
  BY <1>1, <1>2, NoneWaits DEF TypeOK, GoesOn, Untouched
<1>4. PromisesAreActive'
  BY <1>1 DEF PromisesAreActive
<1>5. RowsAreKept'
  <2> SUFFICES ASSUME NEW m \in Messages, Owed(m)'
               PROVE  m \in rows' \cup Untracked \cup stranded
    BY DEF RowsAreKept, Untracked, Untouched
  <2>1. run'[m] # "no" => m \in busy /\ run[m] # "no"
    OBVIOUS
  <2>2. Owed(m) /\ (status[m] \in Unfinished \/ m \in busy)
    BY <1>1, <2>1 DEF Owed, Exists
  <2>3. m \in kept \cup Untracked \cup stranded
    BY <2>2 DEF GoesOn
  <2>4. m \in todo => m \in busy
    BY <1>1, <2>2 DEF GoesOn
  <2>. QED  BY <1>1, <2>3, <2>4
<1>6. Written'
  BY <1>1, WrittenStays DEF GoesOn, Untouched, Idle
<1>7. Apart'
  BY <1>1 DEF Apart, Idle, Untouched
<1>. QED  BY <1>3, <1>4, <1>5, <1>6, <1>7

LEMMA RecoverStep ==
    ASSUME TurnsInv, NEW todo, NEW kept, NEW busy, GoesOn(todo, kept, busy), Untouched,
           NEW m \in todo, NEW n \in Messages, NEW passed \in SUBSET todo,
           Recover(m, n, passed, todo, kept, busy),
           run' \in [Messages -> Runs],
           \A q \in Messages \ {n} : run'[q] # "no" => q \in busy /\ run'[q] = run[q]
    PROVE  TurnsInv'
<1> USE DEF TurnsInv
<1>1. /\ status[m] \in Unfinished
      /\ \A p \in passed : p \in active \/ status[p] \notin Unfinished
      /\ n[1] = m[1] /\ status[n] = "none"
      /\ status' = [status EXCEPT ![m] = "failed", ![n] = "pending"]
      /\ rows' = (kept \ (passed \ busy)) \cup {n}
      /\ active' = busy \cup {n} /\ alarm' = TRUE
      /\ handler' = [on |-> TRUE, todo |-> todo \ (passed \cup {m}), wait |-> {n}]
  BY DEF Recover, Cleared, Interrupted, Successor
<1>2. m \in Messages /\ m # n /\ n \notin rows \cup todo
  BY <1>1 DEF GoesOn, Unfinished, Written, RowsExist
<1>3. /\ status' \in [Messages -> Statuses] /\ status'[m] = "failed" /\ status'[n] = "pending"
      /\ \A q \in Messages \ {m, n} : status'[q] = status[q]
  BY <1>1, <1>2 DEF TypeOK, Statuses, Terminal, Unfinished
<1>4. TypeOK'
  <2>1. handler' \in [on : BOOLEAN, todo : SUBSET Messages, wait : SUBSET Messages]
    BY <1>1 DEF GoesOn
  <2>2. Cardinality(handler'.wait) <= 1
    <3>1. handler'.wait = {n}
      BY <1>1
    <3>2. Cardinality({n}) = 1
      BY FS_Singleton
    <3>. QED  BY <3>1, <3>2
  <2>3. active' \subseteq Messages /\ rows' \subseteq Messages
    BY <1>1 DEF GoesOn, TypeOK
  <2>4. alarm' \in BOOLEAN
    BY <1>1
  <2>. QED  BY <1>3, <2>1, <2>2, <2>3, <2>4 DEF TypeOK, Untouched
<1>5. PromisesAreActive'
  BY <1>1 DEF PromisesAreActive
<1>6. RowsAreKept'
  <2> SUFFICES ASSUME NEW q \in Messages, Owed(q)'
               PROVE  q \in rows' \cup Untracked \cup stranded
    BY DEF RowsAreKept, Untracked, Untouched
  <2>1. CASE q = n
    BY <1>1, <2>1
  <2>2. CASE q # n
    <3>1. run'[q] # "no" => q \in busy /\ run[q] # "no"
      BY <2>2
    <3>2. /\ status'[q] \in Unfinished => status[q] \in Unfinished
          /\ Exists(q)' => Exists(q)
      BY <1>1, <1>3, <2>2 DEF Unfinished, Exists
    <3>3. Owed(q) /\ (status[q] \in Unfinished \/ q \in busy)
      BY <3>1, <3>2 DEF Owed
    <3>4. q \in kept \cup Untracked \cup stranded
      BY <3>3 DEF GoesOn
    <3>5. q \in passed => q \in busy
      BY <1>1, <3>3 DEF GoesOn
    <3>. QED  BY <1>1, <3>4, <3>5
  <2>. QED  BY <2>1, <2>2
<1>7. Written'
  <2>1. AskedFor'
    BY <1>1, <1>2, <1>3 DEF Written, AskedFor, Untouched, Unfinished
  <2>2. RowsExist'
    BY <1>1, <1>2, <1>3 DEF Written, RowsExist, GoesOn, TypeOK
  <2>3. ListExists'
    <3> SUFFICES ASSUME NEW q \in handler'.todo  PROVE status'[q] # "none"
      BY DEF ListExists
    <3>1. q \in todo /\ q \in Messages /\ q # n /\ status[q] # "none"
      BY <1>1, <1>2 DEF GoesOn
    <3>. QED  BY <1>3, <3>1
  <2>4. ToStart'
    BY <1>2, <1>3, FirstType DEF Written, ToStart, Untouched, TypeOK
  <2>5. BackupIsOld'
    BY <1>2, <1>3 DEF Written, BackupIsOld, Untouched
  <2>. QED  BY <2>1, <2>2, <2>3, <2>4, <2>5 DEF Written
<1>8. Apart'
  BY <1>1, <1>2 DEF Apart, Untouched
<1>. QED  BY <1>4, <1>5, <1>6, <1>7, <1>8

LEMMA FireStep == ASSUME TurnsInv, Fire PROVE TurnsInv'
<1> USE DEF TurnsInv
<1>1. GoesOn(rows, rows, active)
  BY DEF GoesOn, TypeOK, Written, RowsExist, RowsAreKept
<1>2. Untouched
  BY DEF Fire, Untouched, TypeOK, history
<1>3. CASE ScanToEnd(rows, rows, active, FALSE) /\ UNCHANGED run
  <2>1. run' \in [Messages -> Runs]
    BY <1>3 DEF TypeOK
  <2>2. \A m \in Messages : run'[m] # "no" => m \in active /\ run'[m] = run[m]
    BY <1>3 DEF PromisesAreActive
  <2>. QED  BY <1>1, <1>2, <1>3, <2>1, <2>2, ScanStep
<1>4. CASE \E m \in rows, n \in Messages, passed \in SUBSET rows :
             Recover(m, n, passed, rows, rows, active) /\ Goto(n, "setup")
  <2>1. PICK m \in rows, n \in Messages, passed \in SUBSET rows :
             Recover(m, n, passed, rows, rows, active) /\ run' = [run EXCEPT ![n] = "setup"]
    BY <1>4 DEF Goto
  <2>2. run' \in [Messages -> Runs]
    BY <2>1 DEF TypeOK, Runs
  <2>3. \A q \in Messages \ {n} : run'[q] # "no" => q \in active /\ run'[q] = run[q]
    BY <2>1 DEF PromisesAreActive, TypeOK
  <2>. QED  BY <1>1, <1>2, <2>1, <2>2, <2>3, RecoverStep
<1>. QED  BY <1>3, <1>4 DEF Fire

LEMMA FinishStep == ASSUME TurnsInv, NEW n \in handler.wait, FinishRecovery(n) PROVE TurnsInv'
<1> USE DEF TurnsInv
<1> DEFINE kept == IF Settled(n) THEN rows \ {n} ELSE rows
           busy == active \ {n}
           due  == IF Settled(n) THEN FALSE ELSE alarm
           todo == handler.todo
<1>1. n \in Messages /\ n \notin todo /\ run[n] \in Over
  BY DEF TypeOK, Apart, FinishRecovery
<1>2. GoesOn(todo, kept, busy)
  <2>1. Settled(n) => status[n] \notin Unfinished
    BY DEF Settled, Unfinished, Terminal
  <2>. QED  BY <1>1, <2>1 DEF GoesOn, TypeOK, Written, ListExists, RowsAreKept
<1>3. Untouched
  <2>1. robbed' \in BOOLEAN
    BY DEF FinishRecovery
  <2>. QED  BY <2>1 DEF FinishRecovery, Untouched
<1>4. due \in BOOLEAN
  BY DEF TypeOK
<1>5. CASE /\ rows' = kept /\ active' = busy /\ alarm' = TRUE /\ handler' = Idle
           /\ run' = [run EXCEPT ![n] = "no"] /\ UNCHANGED status
  <2>1. TypeOK'
    <3>1. rows' \subseteq Messages /\ active' \subseteq Messages /\ run' \in [Messages -> Runs]
      BY <1>5 DEF TypeOK, Runs
    <3>2. handler' = Idle /\ alarm' \in BOOLEAN
      BY <1>5
    <3>. QED  BY <1>3, <1>5, <3>1, <3>2, NoneWaits DEF TypeOK, Untouched
  <2>2. \A m \in Messages : run'[m] # "no" => m # n /\ run'[m] = run[m]
    BY <1>1, <1>5 DEF TypeOK
  <2>3. PromisesAreActive'
    BY <1>5, <2>2 DEF PromisesAreActive
  <2>4. RowsAreKept'
    <3> SUFFICES ASSUME NEW m \in Messages, Owed(m)'
                 PROVE  m \in kept \cup Untracked \cup stranded
      BY <1>3, <1>5 DEF RowsAreKept, Untracked, Untouched
    <3>1. run'[m] # "no" => m \in busy /\ run[m] # "no"
      BY <2>2 DEF PromisesAreActive
    <3>2. Owed(m) /\ (status[m] \in Unfinished \/ m \in busy)
      BY <1>5, <3>1 DEF Owed, Exists
    <3>. QED  BY <1>2, <3>2 DEF GoesOn
  <2>5. Written'
    BY <1>3, <1>5, WrittenStays DEF Untouched, Idle
  <2>6. Apart'
    BY <1>3, <1>5 DEF Apart, Untouched, Idle
  <2>. QED  BY <2>1, <2>3, <2>4, <2>5, <2>6
<1>6. CASE ScanToEnd(todo, kept, busy, due) /\ run' = [run EXCEPT ![n] = "no"]
  <2>1. run' \in [Messages -> Runs]
    BY <1>6 DEF TypeOK, Runs
  <2>2. \A m \in Messages : run'[m] # "no" => m \in busy /\ run'[m] = run[m]
    BY <1>1, <1>6 DEF PromisesAreActive, TypeOK
  <2> HIDE DEF kept, busy, due, todo
  <2>. QED  BY <1>2, <1>3, <1>4, <1>6, <2>1, <2>2, ScanStep
<1>7. CASE \E m \in todo, p \in Messages, passed \in SUBSET todo :
                /\ Recover(m, p, passed, todo, kept, busy)
                /\ run' = [run EXCEPT ![n] = "no", ![p] = "setup"]
  <2>1. PICK m \in todo, p \in Messages, passed \in SUBSET todo :
                /\ Recover(m, p, passed, todo, kept, busy)
                /\ run' = [run EXCEPT ![n] = "no", ![p] = "setup"]
    BY <1>7
  <2>2. run' \in [Messages -> Runs]
    BY <2>1 DEF TypeOK, Runs
  <2>3. \A q \in Messages \ {p} : run'[q] # "no" => q \in busy /\ run'[q] = run[q]
    BY <1>1, <2>1 DEF PromisesAreActive, TypeOK
  <2> HIDE DEF kept, busy, due, todo
  <2>. QED  BY <1>2, <1>3, <2>1, <2>2, <2>3, RecoverStep
<1>. QED  BY <1>5, <1>6, <1>7 DEF FinishRecovery, Goto

-------------------------------------------------------------------------------

\* Sockets, backups and evictions.
LEMMA RestoreStep == ASSUME TurnsInv, Restore PROVE TurnsInv'
<1> USE DEF TurnsInv
<1>1. /\ backup # NoBackup /\ backup \in [Messages -> Statuses]
      /\ status' = [m \in Messages |->
                       IF backup[m] # "none" THEN backup[m]
                       ELSE IF status[m] = "none" THEN "none" ELSE "gone"]
      /\ rows' = {} /\ restoring' = FALSE
      /\ stranded' = {m \in Messages :
             backup[m] \in Unfinished \/ (backup[m] # "none" /\ run[m] # "no")}
      /\ UNCHANGED <<alarm, group, active, run, aborted, committed, handler, backup, robbed,
                     incidents>>
  BY DEF Restore, Apart, TypeOK
<1>2. /\ status' \in [Messages -> Statuses]
      /\ \A m \in Messages : status'[m] = "none" <=> status[m] = "none"
  BY <1>1 DEF Statuses, Written, BackupIsOld
<1>3. restoring' \in BOOLEAN
  BY <1>1
<1>4. TypeOK'
  BY <1>1, <1>2, <1>3 DEF TypeOK
<1>5. PromisesAreActive' /\ RowsAreKept'
  <2>1. \A m \in Messages : Owed(m)' => m \in stranded'
    BY <1>1 DEF Owed, Exists, Unfinished
  <2>. QED  BY <1>1, <2>1 DEF PromisesAreActive, RowsAreKept
<1>6. Written'
  BY <1>1, <1>2, WrittenStays
<1>. QED  BY <1>1, <1>4, <1>5, <1>6 DEF Apart

LEMMA OtherStep ==
    ASSUME TurnsInv, CloseSocket \/ Export \/ BeginRestore \/ Evict
    PROVE  TurnsInv'
<1> USE DEF TurnsInv
<1>1. CASE CloseSocket
  <2>1. UNCHANGED <<status, rows, group, memory, backup, history, incidents>> /\ alarm' = TRUE
    BY <1>1 DEF CloseSocket
  <2>2. TypeOK'
    BY <2>1 DEF TypeOK, memory, history
  <2>. QED  BY <2>1, <2>2, WrittenStays
            DEF memory, history, PromisesAreActive, RowsAreKept, Owed, Exists, Untracked, Apart
<1>2. CASE Export
  <2>1. /\ UNCHANGED <<status, rows, alarm, group, active, run, aborted, committed, handler,
                       restoring, stranded, robbed>>
        /\ backup = NoBackup /\ backup' = status
    BY <1>2 DEF Export, durable, memory, history
  <2>2. incidents' \in 0..MaxIncidents
    BY <1>2, TurnsAssumption DEF Export, Incident, TypeOK
  <2>3. TypeOK'
    BY <2>1, <2>2 DEF TypeOK
  <2>4. Written'
    BY <2>1 DEF Written, AskedFor, RowsExist, ListExists, ToStart, BackupIsOld
  <2>. QED  BY <2>1, <2>3, <2>4 DEF PromisesAreActive, RowsAreKept, Owed, Exists, Untracked, Apart
<1>3. CASE BeginRestore
  <2>1. /\ UNCHANGED <<durable, group, active, run, aborted, committed, handler, backup,
                       history, incidents>>
        /\ backup # NoBackup /\ restoring' = TRUE
    BY <1>3 DEF BeginRestore
  <2>2. TypeOK'
    BY <2>1 DEF TypeOK, durable, history
  <2>. QED  BY <2>1, <2>2, WrittenStays
            DEF durable, history, PromisesAreActive, RowsAreKept, Owed, Exists, Untracked, Apart
<1>4. CASE Evict
  <2>1. /\ UNCHANGED <<status, rows, group, backup, robbed>>
        /\ stranded' = stranded \cup Untracked
        /\ active' = {} /\ run' = [m \in Messages |-> "no"] /\ aborted' = {}
        /\ committed' = {} /\ handler' = Idle /\ restoring' = FALSE
    BY <1>4 DEF Evict, history
  <2>2. incidents' \in 0..MaxIncidents
    BY <1>4, TurnsAssumption DEF Evict, Incident, TypeOK
  <2>3. alarm' \in BOOLEAN /\ restoring' \in BOOLEAN
    BY <1>4 DEF Evict
  <2>4. run' \in [Messages -> Runs]
    BY <2>1 DEF Runs
  <2>5. TypeOK'
    <3>1. Untracked \subseteq Messages
      BY FirstType DEF Untracked, TypeOK
    <3>. QED  BY <2>1, <2>2, <2>3, <2>4, <3>1, NoneWaits DEF TypeOK
  <2>6. PromisesAreActive' /\ RowsAreKept'
    BY <2>1 DEF PromisesAreActive, RowsAreKept, Owed
  <2>7. Written'
    BY <2>1, WrittenStays DEF Idle
  <2>. QED  BY <2>1, <2>5, <2>6, <2>7 DEF Apart, Idle
<1>. QED  BY <1>1, <1>2, <1>3, <1>4

-------------------------------------------------------------------------------

\* Promises, rows and the handler's list agree in every reachable state: the inductive
\* invariant.
THEOREM TurnsAgree == Spec => []TurnsInv
<1>1. TurnsInv /\ [Next]_vars => TurnsInv'
  <2> SUFFICES ASSUME TurnsInv, [Next]_vars PROVE TurnsInv'
    OBVIOUS
  <2>1. CASE \E S \in SUBSET Asks : Ask(S)
    BY <2>1, AskStep
  <2>2. CASE \E m \in Messages : Delta(m) \/ Cancel(m)
    BY <2>2, AdvanceStep, CancelStep
  <2>3. CASE (\E a \in Asks : DeleteThread(a)) \/ ResetStorage
    BY <2>3, DeletionStep
  <2>4. CASE Work
    BY <2>4, TrackStep, AdvanceStep, SettleStep DEF Work
  <2>5. CASE Handle
    BY <2>5, FireStep, FinishStep DEF Handle
  <2>6. CASE CloseSocket \/ Export \/ BeginRestore \/ Evict
    BY <2>6, OtherStep
  <2>7. CASE Restore
    BY <2>7, RestoreStep
  <2>8. CASE UNCHANGED vars
    BY <2>8, WrittenStays
       DEF vars, durable, memory, history, TurnsInv, TypeOK, PromisesAreActive, RowsAreKept,
           Owed, Exists, Untracked, Apart
  <2>. QED  BY <2>1, <2>2, <2>3, <2>4, <2>5, <2>6, <2>7, <2>8 DEF Next
<1>. QED  BY TurnsInit, <1>1, PTL DEF Spec

\* Every variable keeps its type, for any asks and attempts.
THEOREM TurnsTypesHold == Spec => []TypeOK
BY TurnsAgree, PTL DEF TurnsInv

\* Whatever is cancelled, deleted or broken off, and wherever the instance is lost: a
\* message that waits for its answer has the row from which alarm() starts its turn
\* again (sync-engine.ts:394, 670), unless it was lost between the commit of its command
\* and saveTurnParams or comes from a restored backup that had it waiting or running.
THEOREM TurnsStayRecoverable == Spec => []TurnsAreRecoverable
<1>1. TurnsInv => TurnsAreRecoverable
  BY DEF TurnsInv, RowsAreKept, Owed, TurnsAreRecoverable
<1>. QED  BY TurnsAgree, <1>1, PTL

-------------------------------------------------------------------------------
(* Why what a user asks is answered once: the invariant that OneAnswerPerAsk     *)
(* rests on.                                                                     *)

Live == Unfinished \cup {"completed"}

\* Two attempts at one ask.
Rivals(m, n) == m # n /\ m[1] = n[1]

\* Of the attempts at one ask, one at most waits, streams or has completed.
OneLive(f) == \A m, n \in Messages : Rivals(m, n) => f[m] \notin Live \/ f[n] \notin Live

\* A later attempt is made only after the first.
FirstIsFirst == \A m \in Messages : status[m] # "none" => status[<<m[1], 0>>] # "none"

\* A promise beyond the first attempt is the one that the handler waits for, and the
\* first attempt runs only before there are others.
RunsAlone ==
    /\ \A m \in Messages : run[m] # "no" => status[m] # "none" /\ (m[2] # 0 => m \in handler.wait)
    /\ \A m, n \in Messages : run[m] # "no" /\ m[2] = 0 /\ Rivals(m, n) => status[n] = "none"

\* The handler waits for one turn, of a later attempt, and only while it is on.
WaitsForOne ==
    /\ \A m, n \in handler.wait : m = n
    /\ \A m \in handler.wait : m[2] # 0
    /\ ~handler.on => handler.wait = {}

\* What a command is about to start has not run and has no row, and nothing has been
\* tried in its place.
NotStarted ==
    /\ \A S, T \in committed : S # T => S \cap T = {}
    /\ \A S \in committed : \A m \in First(S) :
          /\ run[m] = "no" /\ m \notin rows \cup handler.todo
          /\ status[m] # "completed" /\ (backup # NoBackup => backup[m] # "completed")
          /\ \A n \in Messages : Rivals(m, n) => status[n] = "none"

\* No promise works on an ask that has its answer; a promise whose message exists has no
\* rival that waits or has completed.
RunsForNothingElse ==
    \A m \in Running, n \in Messages :
        /\ m[1] = n[1] => status[n] # "completed"
        /\ Rivals(m, n) /\ Exists(m) => status[n] \notin Live

\* A restore brings no answer back that has a rival.
BackupFits ==
    backup # NoBackup =>
        /\ OneLive(backup)
        /\ \A m, n \in Messages : backup[m] = "completed" /\ m[1] = n[1] =>
              n \notin Running /\ status[n] \notin Unfinished
        /\ restoring => \A m \in Running : m[2] # 0 => backup[m] = "none"

AnswersInv == /\ OneLive(status) /\ FirstIsFirst /\ RunsAlone /\ WaitsForOne
              /\ NotStarted /\ RunsForNothingElse /\ BackupFits

-------------------------------------------------------------------------------

LEMMA FirstExists == ASSUME NEW m \in Messages PROVE <<m[1], 0>> \in Messages
BY TurnsAssumption DEF Messages

LEMMA AnswersInit == Init => AnswersInv
<1> SUFFICES ASSUME Init PROVE AnswersInv
  OBVIOUS
<1>1. \A m \in Messages : status[m] = "none" /\ run[m] = "no"
  BY DEF Init
<1>2. handler.wait = {} /\ committed = {} /\ backup = NoBackup
  BY DEF Init, Idle
<1>. QED  BY <1>1, <1>2
          DEF AnswersInv, OneLive, Live, Unfinished, FirstIsFirst, RunsAlone, WaitsForOne, NotStarted,
              RunsForNothingElse, Running, BackupFits

\* A step that starts nothing, brings nothing back and lets nobody else be waited for.
LEMMA Quieter ==
    ASSUME TurnsInv, AnswersInv,
           \A m \in Messages : \/ status'[m] = status[m]
                               \/ status'[m] = "gone" /\ status[m] # "none"
                               \/ status'[m] = "failed" /\ Exists(m),
           \A m \in Messages : (run'[m] # "no" => run[m] # "no")
                               /\ (m \in Running' => m \in Running),
           committed' \subseteq committed, rows' \subseteq rows,
           handler'.todo \subseteq handler.todo,
           handler' = handler
             \/ (handler'.wait = {} /\ \A m \in Messages : run'[m] # "no" => m[2] = 0),
           restoring' => restoring, backup' = backup
    PROVE  AnswersInv'
<1> USE DEF AnswersInv
<1>1. /\ \A m \in Messages : status'[m] \in Live => status'[m] = status[m]
      /\ \A m \in Messages : status'[m] = "none" <=> status[m] = "none"
      /\ \A m \in Messages : Exists(m)' => Exists(m)
  BY DEF Live, Unfinished, Exists
<1>2. OneLive(status)'
  BY <1>1 DEF OneLive
<1>3. RunsAlone'
  BY <1>1 DEF RunsAlone
<1>4. WaitsForOne' /\ FirstIsFirst'
  <2>1. WaitsForOne'
    BY DEF WaitsForOne
  <2>2. FirstIsFirst'
    BY <1>1, FirstExists DEF FirstIsFirst
  <2>. QED  BY <2>1, <2>2
<1>5. NotStarted'
  <2> SUFFICES ASSUME NEW S \in committed', NEW m \in First(S)
               PROVE  /\ run'[m] = "no" /\ m \notin rows' \cup handler'.todo
                      /\ status'[m] # "completed"
                      /\ backup' # NoBackup => backup'[m] # "completed"
                      /\ \A n \in Messages : Rivals(m, n) => status'[n] = "none"
    BY DEF NotStarted
  <2>1. S \in committed /\ m \in Messages
    BY FirstType DEF TurnsInv, TypeOK
  <2>2. /\ run[m] = "no" /\ m \notin rows \cup handler.todo
        /\ status[m] # "completed" /\ (backup # NoBackup => backup[m] # "completed")
        /\ \A n \in Messages : Rivals(m, n) => status[n] = "none"
    BY <2>1 DEF NotStarted
  <2>. QED  BY <1>1, <2>1, <2>2 DEF Live
<1>6. RunsForNothingElse'
  <2> SUFFICES ASSUME NEW m \in Running', NEW n \in Messages
               PROVE  /\ m[1] = n[1] => status'[n] # "completed"
                      /\ Rivals(m, n) /\ Exists(m)' => status'[n] \notin Live
    BY DEF RunsForNothingElse
  <2>1. m \in Messages /\ m \in Running
    BY DEF Running
  <2>. QED  BY <1>1, <2>1 DEF RunsForNothingElse, Live
<1>7. BackupFits'
  <2>1. \A m \in Running' : m \in Messages /\ m \in Running
    BY DEF Running
  <2>2. \A n \in Messages : status'[n] \in Unfinished => status[n] \in Unfinished
    BY <1>1 DEF Live, Unfinished
  <2>. QED  BY <2>1, <2>2 DEF BackupFits, OneLive
<1>. QED  BY <1>2, <1>3, <1>4, <1>5, <1>6, <1>7

-------------------------------------------------------------------------------

LEMMA AskAnswers == ASSUME TurnsInv, AnswersInv, NEW S \in SUBSET Asks, Ask(S) PROVE AnswersInv'
<1> USE DEF AnswersInv
<1>1. /\ UNCHANGED <<rows, run, handler, restoring, backup>>
      /\ committed' = committed \cup {S}
      /\ status' = [m \in Messages |-> IF m \in First(S) THEN "pending" ELSE status[m]]
      /\ First(S) \subseteq Messages
  BY FirstType DEF Ask
<1>2. \A m \in Messages : m[1] \in S => status[m] = "none" /\ run[m] = "no"
  BY DEF Ask, TurnsInv, Written, AskedFor, RunsAlone
<1>3. \A m \in First(S) : m[1] \in S /\ m \in Messages /\ m[2] = 0
  BY <1>1 DEF First
<1>4. \A m, n \in First(S) : ~Rivals(m, n)
  BY <1>3 DEF First, Rivals
<1>5. OneLive(status)'
  BY <1>1, <1>2, <1>3, <1>4 DEF OneLive, Live, Unfinished, Rivals
<1>6. RunsAlone'
  BY <1>1, <1>2, <1>3 DEF RunsAlone, Rivals
<1>7. WaitsForOne' /\ FirstIsFirst'
  <2>1. WaitsForOne'
    BY <1>1 DEF WaitsForOne
  <2>2. FirstIsFirst'
    <3> SUFFICES ASSUME NEW m \in Messages, status'[m] # "none"
                 PROVE  status'[<<m[1], 0>>] # "none"
      BY DEF FirstIsFirst
    <3>1. <<m[1], 0>> \in Messages
      BY FirstExists
    <3>2. CASE m \in First(S)
      BY <1>1, <3>1, <3>2 DEF First
    <3>3. CASE m \notin First(S)
      BY <1>1, <3>1, <3>3 DEF FirstIsFirst
    <3>. QED  BY <3>2, <3>3
  <2>. QED  BY <2>1, <2>2
<1>8. NotStarted'
  <2>1. \A T \in committed : S \cap T = {}
    <3> SUFFICES ASSUME NEW T \in committed, NEW a \in S \cap T PROVE FALSE
      OBVIOUS
    <3>1. <<a, 0>> \in First(T) /\ <<a, 0>> \in Messages
      BY <1>3 DEF First
    <3>2. status[<<a, 0>>] # "none"
      BY <3>1 DEF TurnsInv, Written, ToStart
    <3>. QED  BY <1>2, <3>1, <3>2
  <2>2. \A T, U \in committed' : T # U => T \cap U = {}
    BY <1>1, <2>1 DEF NotStarted
  <2>3. ASSUME NEW T \in committed, NEW m \in First(T)
        PROVE  /\ run'[m] = "no" /\ m \notin rows' \cup handler'.todo
               /\ status'[m] # "completed" /\ (backup' # NoBackup => backup'[m] # "completed")
               /\ \A n \in Messages : Rivals(m, n) => status'[n] = "none"
    <3>1. m \in Messages /\ m[1] \in T
      BY FirstType DEF First, TurnsInv, TypeOK
    <3>2. m[1] \notin S
      BY <2>1, <3>1
    <3>. QED  BY <1>1, <1>3, <3>1, <3>2 DEF NotStarted, Rivals
  <2>4. ASSUME NEW m \in First(S)
        PROVE  /\ run'[m] = "no" /\ m \notin rows' \cup handler'.todo
               /\ status'[m] # "completed" /\ (backup' # NoBackup => backup'[m] # "completed")
               /\ \A n \in Messages : Rivals(m, n) => status'[n] = "none"
    <3>1. m \in Messages /\ status[m] = "none" /\ run[m] = "no"
      BY <1>2, <1>3
    <3>2. m \notin rows \cup handler.todo
      BY <3>1 DEF TurnsInv, Written, RowsExist, ListExists
    <3>3. backup # NoBackup => backup[m] = "none"
      BY <3>1 DEF TurnsInv, Written, BackupIsOld
    <3>. QED  BY <1>1, <1>2, <1>3, <1>4, <3>1, <3>2, <3>3 DEF Rivals
  <2>. QED  BY <1>1, <2>2, <2>3, <2>4 DEF NotStarted
<1>9. RunsForNothingElse'
  <2>1. \A m \in Running : m \in Messages /\ m[1] \notin S
    BY <1>2 DEF Running
  <2>. QED  BY <1>1, <1>3, <2>1 DEF RunsForNothingElse, Running, Rivals, Exists
<1>10. BackupFits'
  <2>1. \A m \in First(S), n \in Messages : backup # NoBackup /\ n[1] = m[1] => backup[n] = "none"
    BY <1>2, <1>3 DEF TurnsInv, Written, BackupIsOld
  <2>. QED  BY <1>1, <1>3, <2>1 DEF BackupFits, OneLive, Running, Unfinished
<1>. QED  BY <1>5, <1>6, <1>7, <1>8, <1>9, <1>10

LEMMA TrackAnswers ==
    ASSUME TurnsInv, AnswersInv, NEW S \in committed, Track(S) PROVE AnswersInv'
<1> USE DEF AnswersInv
<1>1. /\ UNCHANGED <<status, handler, restoring, backup>>
      /\ committed' = committed \ {S} /\ rows' = rows \cup First(S)
      /\ run' = [m \in Messages |-> IF m \in First(S) THEN "setup" ELSE run[m]]
  BY DEF Track
<1>2. \A m \in First(S) : m \in Messages /\ m[2] = 0 /\ m[1] \in S
  BY FirstType DEF First, TurnsInv, TypeOK
<1>3. \A m \in First(S) :
         /\ status[m] # "none" /\ status[m] # "completed"
         /\ backup # NoBackup => backup[m] # "completed"
         /\ \A n \in Messages : Rivals(m, n) => status[n] = "none"
  BY DEF TurnsInv, Written, ToStart, NotStarted
<1>4. RunsAlone'
  BY <1>1, <1>2, <1>3 DEF RunsAlone
<1>5. NotStarted'
  <2>1. \A T \in committed' : \A m \in First(T) : m \notin First(S) /\ m \in Messages
    BY <1>1, FirstType DEF NotStarted, First, TurnsInv, TypeOK
  <2>. QED  BY <1>1, <2>1 DEF NotStarted
<1>6. \A m \in Running' : m \in Messages /\ (m \in Running \/ m \in First(S))
  BY <1>1 DEF Running
<1>7. RunsForNothingElse'
  BY <1>1, <1>3, <1>6 DEF RunsForNothingElse, Exists, Rivals, Live, Unfinished
<1>8. BackupFits'
  <2> SUFFICES ASSUME backup # NoBackup
               PROVE  /\ \A m, n \in Messages : backup[m] = "completed" /\ m[1] = n[1] =>
                            n \notin Running'
                      /\ restoring => \A m \in Running' : m[2] # 0 => backup[m] = "none"
    BY <1>1 DEF BackupFits, OneLive
  <2>1. \A m \in First(S), n \in Messages : m[1] = n[1] => backup[n] # "completed"
    BY <1>3 DEF TurnsInv, Written, BackupIsOld, Rivals
  <2>. QED  BY <1>2, <1>6, <2>1 DEF BackupFits
<1>. QED  BY <1>1, <1>4, <1>5, <1>7, <1>8 DEF OneLive, FirstIsFirst, WaitsForOne

LEMMA DeltaAnswers ==
    ASSUME TurnsInv, AnswersInv, NEW m \in Messages, Delta(m) \/ Complete(m) PROVE AnswersInv'
<1> USE DEF AnswersInv
<1>1. UNCHANGED <<rows, handler, committed, restoring, backup>> /\ m \in Running
  BY DEF Delta, Complete, memory, Running
<1>2. CASE ~Exists(m)
  <2>1. UNCHANGED status /\ run' = [run EXCEPT ![m] = "ended"]
    BY <1>2 DEF Delta, Complete, Goto
  <2>2. \A n \in Messages : (run'[n] # "no" => run[n] # "no") /\ (n \in Running' => n \in Running)
    BY <1>1, <2>1 DEF Running, TurnsInv, TypeOK
  <2>. QED  BY <1>1, <2>1, <2>2, Quieter
<1>3. CASE Exists(m)
  <2>1. PICK st \in {"streaming", "completed"} :
           /\ status' = [status EXCEPT ![m] = st]
           /\ st = "completed" => run' = [run EXCEPT ![m] = "ended"]
           /\ st # "completed" => UNCHANGED run
    BY <1>3 DEF Delta, Complete, SetStatus, Goto, memory
  <2>2. /\ \A n \in Messages : n # m => status'[n] = status[n] /\ run'[n] = run[n]
        /\ status'[m] = st
        /\ st = "completed" => run'[m] = "ended"
        /\ st # "completed" => run'[m] = run[m]
    BY <2>1 DEF TurnsInv, TypeOK
  <2>3. \A n \in Messages : Rivals(m, n) => status[n] \notin Live
    BY <1>1, <1>3 DEF RunsForNothingElse
  <2>4. \A n \in Messages : (run'[n] # "no" => run[n] # "no") /\ (n \in Running' => n \in Running)
    BY <1>1, <2>2 DEF Running
  <2>5. \A n \in Messages : status'[n] = "none" <=> status[n] = "none"
    BY <1>3, <2>2 DEF Exists
  <2>6. OneLive(status)'
    BY <2>2, <2>3 DEF OneLive, Rivals
  <2>7. RunsAlone'
    BY <1>1, <2>4, <2>5 DEF RunsAlone
  <2>8. NotStarted'
    <3>1. \A S \in committed : \A n \in First(S) : n # m /\ n \in Messages
      BY <1>1, FirstType DEF NotStarted, Running, TurnsInv, TypeOK
    <3>. QED  BY <1>1, <2>2, <2>5, <3>1 DEF NotStarted
  <2>9. \A n \in Running : Rivals(m, n) => FALSE
    <3> SUFFICES ASSUME NEW n \in Running, Rivals(m, n) PROVE FALSE
      OBVIOUS
    <3>1. n \in Messages /\ run[m] # "no" /\ run[n] # "no" /\ status[m] # "none" /\ status[n] # "none"
      BY <1>1 DEF Running, RunsAlone
    <3>2. m[2] # 0 /\ n[2] # 0
      BY <3>1 DEF RunsAlone, Rivals
    <3>3. m \in handler.wait /\ n \in handler.wait
      BY <3>1, <3>2 DEF RunsAlone
    <3>. QED  BY <3>3 DEF WaitsForOne, Rivals
  <2>10. RunsForNothingElse'
    <3> SUFFICES ASSUME NEW p \in Running', NEW n \in Messages, p[1] = n[1]
                 PROVE  /\ status'[n] # "completed"
                        /\ Rivals(p, n) /\ Exists(p)' => status'[n] \notin Live
      BY DEF RunsForNothingElse, Rivals
    <3>1. p \in Messages /\ p \in Running
      BY <2>4 DEF Running
    <3>2. CASE p = m
      <4>1. st # "completed"
        BY <2>2, <3>2 DEF Running
      <4>2. n # m => status[n] \notin Live /\ status'[n] = status[n]
        BY <2>2, <2>3, <3>2 DEF Rivals
      <4>. QED  BY <2>2, <3>2, <4>1, <4>2 DEF Live, Rivals
    <3>3. CASE p # m
      <4>1. n # m
        BY <2>9, <3>1, <3>3 DEF Rivals
      <4>. QED  BY <2>2, <3>1, <3>3, <4>1 DEF RunsForNothingElse, Exists
    <3>. QED  BY <3>2, <3>3
  <2>11. BackupFits'
    <3> SUFFICES ASSUME backup # NoBackup
                 PROVE  /\ \A p, n \in Messages : backup[p] = "completed" /\ p[1] = n[1] =>
                              n \notin Running' /\ status'[n] \notin Unfinished
                        /\ restoring => \A n \in Running' : n[2] # 0 => backup[n] = "none"
      BY <1>1 DEF BackupFits, OneLive
    <3>1. \A n \in Running' : n \in Messages /\ n \in Running
      BY <2>4 DEF Running
    <3>2. \A p \in Messages : backup[p] = "completed" => p[1] # m[1]
      BY <1>1 DEF BackupFits
    <3>. QED  BY <2>2, <3>1, <3>2 DEF BackupFits
  <2>12. FirstIsFirst'
    BY <2>5, FirstExists DEF FirstIsFirst
  <2>. QED  BY <1>1, <2>6, <2>7, <2>8, <2>10, <2>11, <2>12 DEF WaitsForOne
<1>. QED  BY <1>2, <1>3

-------------------------------------------------------------------------------

\* The handler starts an interrupted turn again: no promise is left that it did not
\* wait for, and m is not the one that it has just waited for.
LEMMA RecoverAnswers ==
    ASSUME TurnsInv, AnswersInv, NEW todo, NEW kept, NEW busy, GoesOn(todo, kept, busy),
           NEW m \in todo, NEW n \in Messages, NEW passed \in SUBSET todo,
           Recover(m, n, passed, todo, kept, busy),
           todo = rows \/ todo = handler.todo,
           \A q \in handler.wait : q # n => run'[q] = "no",
           \A q \in Messages : q # n => run'[q] = run[q] \/ run'[q] = "no",
           UNCHANGED <<committed, restoring, backup>>
    PROVE  AnswersInv'
<1> USE DEF AnswersInv
<1>1. /\ status[m] \in Unfinished /\ m \notin active
      /\ n[1] = m[1] /\ n[2] # 0 /\ status[n] = "none"
      /\ status' = [status EXCEPT ![m] = "failed", ![n] = "pending"]
      /\ rows' \subseteq rows \cup {n}
      /\ handler' = [on |-> TRUE, todo |-> todo \ (passed \cup {m}), wait |-> {n}]
  <2>1. m \in Messages
    BY DEF GoesOn
  <2>2. status[m] \in Unfinished /\ m \notin active /\ n[1] = m[1] /\ status[n] = "none"
    BY DEF Recover, Interrupted, Successor
  <2>3. n[2] # 0
    <3>1. status[<<m[1], 0>>] # "none"
      BY <2>1, <2>2 DEF FirstIsFirst, Unfinished
    <3>2. n = <<n[1], n[2]>>
      BY DEF Messages
    <3>. QED  BY <2>2, <3>1, <3>2
  <2>4. rows' \subseteq rows \cup {n}
    BY DEF Recover, Cleared, GoesOn
  <2>. QED  BY <2>2, <2>3, <2>4 DEF Recover
<1>2. m \in Messages /\ m # n /\ status[m] # "none"
  BY <1>1 DEF GoesOn, Unfinished
<1>3. /\ status'[m] = "failed" /\ status'[n] = "pending"
      /\ \A q \in Messages \ {m, n} : status'[q] = status[q]
      /\ \A q \in Messages \ {n} : status'[q] = "none" <=> status[q] = "none"
  BY <1>1, <1>2 DEF TurnsInv, TypeOK
<1>4. \A q \in Messages \ {m, n} : q[1] = n[1] => status[q] \notin Live
  BY <1>1, <1>2 DEF OneLive, Rivals, Live
<1>5. \A q \in Messages \ {n} : run'[q] # "no" => run'[q] = run[q] /\ q[2] = 0 /\ q[1] # n[1]
  <2> SUFFICES ASSUME NEW q \in Messages \ {n}, run'[q] # "no"
               PROVE  run'[q] = run[q] /\ q[2] = 0 /\ q[1] # n[1]
    OBVIOUS
  <2>1. run'[q] = run[q] /\ q \notin handler.wait
    OBVIOUS
  <2>2. q[2] = 0 /\ q \in active
    BY <2>1 DEF RunsAlone, TurnsInv, PromisesAreActive
  <2>. QED  BY <1>1, <1>2, <2>1, <2>2 DEF RunsAlone, Rivals
<1>6. OneLive(status)' /\ FirstIsFirst'
  <2>1. OneLive(status)'
    <3> SUFFICES ASSUME NEW p \in Messages, NEW q \in Messages, Rivals(p, q),
                        status'[p] \in Live, status'[q] \in Live
                 PROVE  FALSE
      BY DEF OneLive
    <3>1. p # m /\ q # m
      BY <1>3 DEF Live, Unfinished
    <3>2. p # n /\ q # n
      BY <1>3, <1>4, <3>1 DEF Rivals
    <3>. QED  BY <1>3, <3>1, <3>2 DEF OneLive
  <2>2. FirstIsFirst'
    <3> SUFFICES ASSUME NEW q \in Messages, status'[q] # "none"
                 PROVE  status'[<<q[1], 0>>] # "none"
      BY DEF FirstIsFirst
    <3>1. <<q[1], 0>> \in Messages /\ <<q[1], 0>>[2] = 0
      BY FirstExists
    <3>2. <<q[1], 0>> # n
      BY <1>1, <3>1
    <3>3. status[<<q[1], 0>>] # "none"
      <4>1. CASE q = n
        BY <1>1, <1>2, <4>1 DEF FirstIsFirst
      <4>2. CASE q # n
        BY <1>3, <4>2 DEF FirstIsFirst
      <4>. QED  BY <4>1, <4>2
    <3>. QED  BY <1>3, <3>1, <3>2, <3>3
  <2>. QED  BY <2>1, <2>2
<1>7. RunsAlone'
  <2>1. ASSUME NEW q \in Messages, run'[q] # "no"
        PROVE  status'[q] # "none" /\ (q[2] # 0 => q \in handler'.wait)
    <3>1. CASE q = n
      BY <1>1, <1>3, <3>1
    <3>2. CASE q # n
      BY <1>3, <1>5, <2>1, <3>2 DEF RunsAlone
    <3>. QED  BY <3>1, <3>2
  <2>2. ASSUME NEW q \in Messages, NEW p \in Messages,
               run'[q] # "no", q[2] = 0, Rivals(q, p)
        PROVE  status'[p] = "none"
    <3>1. q # n
      BY <1>1, <2>2
    <3>2. run[q] # "no" /\ q[1] # n[1]
      BY <1>5, <2>2, <3>1
    <3>3. status[p] = "none" /\ p # n
      BY <2>2, <3>2 DEF RunsAlone, Rivals
    <3>. QED  BY <1>3, <3>3
  <2>. QED  BY <2>1, <2>2 DEF RunsAlone
<1>8. WaitsForOne'
  BY <1>1 DEF WaitsForOne
<1>9. NotStarted'
  <2> SUFFICES ASSUME NEW S \in committed, NEW q \in First(S)
               PROVE  /\ run'[q] = "no" /\ q \notin rows' \cup handler'.todo
                      /\ status'[q] # "completed" /\ (backup # NoBackup => backup[q] # "completed")
                      /\ \A p \in Messages : Rivals(q, p) => status'[p] = "none"
    BY DEF NotStarted
  <2>1. q \in Messages /\ q[2] = 0
    BY FirstType DEF First, TurnsInv, TypeOK
  <2>2. /\ run[q] = "no" /\ q \notin rows \cup handler.todo
        /\ status[q] # "completed" /\ (backup # NoBackup => backup[q] # "completed")
        /\ \A p \in Messages : Rivals(q, p) => status[p] = "none"
    BY DEF NotStarted
  <2>3. q # m /\ q # n /\ q[1] # m[1]
    BY <1>1, <1>2, <2>1, <2>2 DEF Rivals
  <2>. QED  BY <1>1, <1>3, <2>1, <2>2, <2>3, ZenonT(30) DEF Rivals
<1>10. \A p \in Running' : p \in Messages /\ (p = n \/ (p \in Running /\ p[1] # n[1] /\ p[2] = 0))
  BY <1>5 DEF Running
<1>11. RunsForNothingElse'
  <2> SUFFICES ASSUME NEW p \in Running', NEW q \in Messages, p[1] = q[1]
               PROVE  /\ status'[q] # "completed"
                      /\ Rivals(p, q) /\ Exists(p)' => status'[q] \notin Live
    BY DEF RunsForNothingElse, Rivals
  <2>1. CASE p = n
    BY <1>3, <1>4, <2>1 DEF Rivals, Live, Unfinished
  <2>2. CASE p # n
    <3>1. p \in Running /\ p \in Messages /\ p[1] # n[1] /\ p[1] # m[1]
      BY <1>1, <1>10, <2>2
    <3>. QED  BY <1>3, <3>1 DEF RunsForNothingElse, Exists
  <2>. QED  BY <2>1, <2>2
<1>12. BackupFits'
  <2> SUFFICES ASSUME backup # NoBackup
               PROVE  /\ \A p, q \in Messages : backup[p] = "completed" /\ p[1] = q[1] =>
                            q \notin Running' /\ status'[q] \notin Unfinished
                      /\ restoring => \A q \in Running' : q[2] # 0 => backup[q] = "none"
    BY DEF BackupFits, OneLive
  <2>1. \A p \in Messages : backup[p] = "completed" => p[1] # n[1]
    BY <1>1, <1>2 DEF BackupFits
  <2>2. backup[n] = "none"
    BY <1>1 DEF TurnsInv, Written, BackupIsOld
  <2>3. ASSUME NEW p \in Messages, NEW q \in Messages, backup[p] = "completed", p[1] = q[1]
        PROVE  q \notin Running' /\ status'[q] \notin Unfinished
    <3>1. q[1] # n[1] /\ q # n /\ q # m
      BY <1>1, <2>1, <2>3
    <3>2. q \notin Running /\ status[q] \notin Unfinished
      BY <2>3 DEF BackupFits
    <3>. QED  BY <1>3, <1>10, <3>1, <3>2
  <2>4. ASSUME restoring, NEW q \in Running', q[2] # 0 PROVE backup[q] = "none"
    BY <1>10, <2>2, <2>4 DEF BackupFits
  <2>. QED  BY <2>3, <2>4
<1>. QED  BY <1>6, <1>7, <1>8, <1>9, <1>11, <1>12

LEMMA FireAnswers == ASSUME TurnsInv, AnswersInv, Fire PROVE AnswersInv'
<1>1. handler.wait = {}
  BY DEF Fire, AnswersInv, WaitsForOne
<1>2. UNCHANGED <<committed, restoring, backup>>
  BY DEF Fire
<1>3. GoesOn(rows, rows, active)
  BY DEF GoesOn, TurnsInv, TypeOK, Written, RowsExist, RowsAreKept
<1>4. CASE ScanToEnd(rows, rows, active, FALSE) /\ UNCHANGED run
  <2>1. UNCHANGED <<status, run>> /\ rows' \subseteq rows /\ handler'.todo = {} /\ handler'.wait = {}
    BY <1>4 DEF ScanToEnd, Cleared, Idle
  <2>2. \A m \in Messages : run'[m] # "no" => m[2] = 0
    BY <1>1, <2>1 DEF AnswersInv, RunsAlone
  <2>. QED  BY <1>2, <2>1, <2>2, Quieter DEF Running
<1>5. CASE \E m \in rows, n \in Messages, passed \in SUBSET rows :
             Recover(m, n, passed, rows, rows, active) /\ Goto(n, "setup")
  <2>1. PICK m \in rows, n \in Messages, passed \in SUBSET rows :
             Recover(m, n, passed, rows, rows, active) /\ run' = [run EXCEPT ![n] = "setup"]
    BY <1>5 DEF Goto
  <2>2. \A q \in Messages : q # n => run'[q] = run[q]
    BY <2>1 DEF TurnsInv, TypeOK
  <2>. QED  BY <1>1, <1>2, <1>3, <2>1, <2>2, RecoverAnswers
<1>. QED  BY <1>4, <1>5 DEF Fire

LEMMA FinishAnswers ==
    ASSUME TurnsInv, AnswersInv, NEW n \in handler.wait, FinishRecovery(n) PROVE AnswersInv'
<1> DEFINE kept == IF Settled(n) THEN rows \ {n} ELSE rows
           busy == active \ {n}
           due  == IF Settled(n) THEN FALSE ELSE alarm
           todo == handler.todo
<1>1. n \in Messages /\ n \notin todo /\ run[n] \in Over /\ n[2] # 0
  BY DEF TurnsInv, TypeOK, Apart, FinishRecovery, AnswersInv, WaitsForOne
<1>2. UNCHANGED <<committed, restoring, backup>>
  BY DEF FinishRecovery
<1>3. \A q \in handler.wait : q = n
  BY DEF AnswersInv, WaitsForOne
<1>4. GoesOn(todo, kept, busy)
  <2>1. Settled(n) => status[n] \notin Unfinished
    BY DEF Settled, Unfinished, Terminal
  <2>. QED  BY <1>1, <2>1 DEF GoesOn, TurnsInv, TypeOK, Written, ListExists, RowsAreKept
<1>5. CASE /\ UNCHANGED status /\ run' = [run EXCEPT ![n] = "no"]
           /\ rows' \subseteq rows /\ handler' = Idle
  <2>1. run'[n] = "no" /\ \A q \in Messages : q # n => run'[q] = run[q]
    BY <1>1, <1>5 DEF TurnsInv, TypeOK
  <2>2. \A q \in Messages : (run'[q] # "no" => run[q] # "no") /\ (q \in Running' => q \in Running)
    BY <2>1 DEF Running
  <2>3. \A q \in Messages : run'[q] # "no" => q[2] = 0
    BY <1>3, <2>1 DEF AnswersInv, RunsAlone
  <2>4. handler'.todo = {} /\ handler'.wait = {}
    BY <1>5 DEF Idle
  <2>. QED  BY <1>2, <1>5, <2>2, <2>3, <2>4, Quieter
<1>6. CASE \E m \in todo, p \in Messages, passed \in SUBSET todo :
                /\ Recover(m, p, passed, todo, kept, busy)
                /\ run' = [run EXCEPT ![n] = "no", ![p] = "setup"]
  <2>1. PICK m \in todo, p \in Messages, passed \in SUBSET todo :
                /\ Recover(m, p, passed, todo, kept, busy)
                /\ run' = [run EXCEPT ![n] = "no", ![p] = "setup"]
    BY <1>6
  <2>2. \A q \in Messages : q # p => run'[q] = IF q = n THEN "no" ELSE run[q]
    BY <2>1 DEF TurnsInv, TypeOK
  <2>3. \A q \in handler.wait : q # p => run'[q] = "no"
    BY <1>1, <1>3, <2>2
  <2>4. \A q \in Messages : q # p => run'[q] = run[q] \/ run'[q] = "no"
    BY <2>2
  <2>5. todo = rows \/ todo = handler.todo
    OBVIOUS
  <2> HIDE DEF kept, busy, due, todo
  <2>. QED  BY <1>2, <1>4, <2>1, <2>3, <2>4, <2>5, RecoverAnswers, ZenonT(30)
<1>7. CASE ScanToEnd(todo, kept, busy, due) /\ run' = [run EXCEPT ![n] = "no"]
  <2>1. UNCHANGED status /\ rows' \subseteq rows /\ handler' = Idle
    BY <1>7 DEF ScanToEnd, Cleared
  <2>. QED  BY <1>5, <1>7, <2>1
<1>. QED  BY <1>5, <1>6, <1>7 DEF FinishRecovery, Goto

-------------------------------------------------------------------------------

LEMMA ExportAnswers == ASSUME TurnsInv, AnswersInv, Export PROVE AnswersInv'
<1>1. /\ UNCHANGED <<status, rows, run, committed, handler, restoring>>
      /\ backup = NoBackup /\ backup' = status
  BY DEF Export, durable, memory
<1>2. ~restoring
  BY <1>1 DEF TurnsInv, Apart
<1>3. NotStarted'
  BY <1>1 DEF AnswersInv, NotStarted
<1>4. BackupFits'
  <2>1. \A m, n \in Messages : status[m] = "completed" /\ m[1] = n[1] =>
            n \notin Running /\ status[n] \notin Unfinished
    BY DEF AnswersInv, RunsForNothingElse, OneLive, Live, Unfinished, Rivals
  <2>. QED  BY <1>1, <1>2, <2>1 DEF AnswersInv, BackupFits, OneLive, Running
<1>. QED  BY <1>1, <1>3, <1>4
          DEF AnswersInv, OneLive, FirstIsFirst, RunsAlone, WaitsForOne, RunsForNothingElse,
              Running, Exists

LEMMA BeginRestoreAnswers == ASSUME TurnsInv, AnswersInv, BeginRestore PROVE AnswersInv'
<1>1. UNCHANGED <<status, rows, run, committed, handler, backup>> /\ Running = {}
  BY DEF BeginRestore, durable
<1>2. Running' = {}
  BY <1>1 DEF Running
<1>. QED  BY <1>1, <1>2
          DEF AnswersInv, OneLive, FirstIsFirst, RunsAlone, WaitsForOne, NotStarted,
              RunsForNothingElse, BackupFits

LEMMA RestoreAnswers == ASSUME TurnsInv, AnswersInv, Restore PROVE AnswersInv'
<1> USE DEF AnswersInv
<1>1. /\ backup # NoBackup /\ restoring /\ rows' = {} /\ restoring' = FALSE
      /\ status' = [m \in Messages |->
                       IF backup[m] # "none" THEN backup[m]
                       ELSE IF status[m] = "none" THEN "none" ELSE "gone"]
      /\ UNCHANGED <<run, committed, handler, backup>>
  BY DEF Restore, TurnsInv, Apart
<1>2. /\ \A m \in Messages : backup[m] # "none" => status[m] # "none"
      /\ \A m \in Messages : status'[m] = "none" <=> status[m] = "none"
      /\ \A m \in Messages : status'[m] \in Live => backup[m] = status'[m]
      /\ \A m \in Messages : Exists(m)' => backup[m] # "none"
  BY <1>1 DEF TurnsInv, Written, BackupIsOld, Live, Unfinished, Exists
<1>3. /\ OneLive(backup)
      /\ \A m, n \in Messages : backup[m] = "completed" /\ m[1] = n[1] => n \notin Running
      /\ \A m \in Running : m[2] # 0 => backup[m] = "none"
  BY <1>1 DEF BackupFits
<1>4. OneLive(status)' /\ FirstIsFirst'
  <2>1. OneLive(status)'
    BY <1>2, <1>3 DEF OneLive
  <2>2. FirstIsFirst'
    BY <1>2, FirstExists DEF FirstIsFirst
  <2>. QED  BY <2>1, <2>2
<1>5. RunsAlone' /\ WaitsForOne'
  BY <1>1, <1>2 DEF RunsAlone, WaitsForOne
<1>6. NotStarted'
  <2>1. \A S \in committed : \A m \in First(S) : m \in Messages
    BY FirstType DEF TurnsInv, TypeOK
  <2>. QED  BY <1>1, <1>2, <2>1 DEF NotStarted, Live
<1>7. RunsForNothingElse'
  <2> SUFFICES ASSUME NEW m \in Running, NEW n \in Messages, m[1] = n[1]
               PROVE  /\ status'[n] # "completed"
                      /\ Rivals(m, n) /\ Exists(m)' => status'[n] \notin Live
    BY <1>1 DEF RunsForNothingElse, Rivals, Running
  <2>1. m \in Messages /\ run[m] # "no"
    BY DEF Running
  <2>2. status'[n] # "completed"
    BY <1>2, <1>3, <2>1 DEF Live
  <2>3. ASSUME Rivals(m, n), Exists(m)' PROVE status'[n] \notin Live
    <3>1. m[2] = 0
      BY <1>2, <1>3, <2>1, <2>3
    <3>2. status'[n] = "none"
      BY <1>2, <2>1, <2>3, <3>1 DEF RunsAlone
    <3>. QED  BY <3>2 DEF Live, Unfinished
  <2>. QED  BY <2>2, <2>3
<1>8. BackupFits'
  BY <1>1, <1>2 DEF BackupFits, OneLive, Running, Live, Unfinished, Rivals
<1>. QED  BY <1>4, <1>5, <1>6, <1>7, <1>8

\* What ends, is decided or is lost, one lemma for all.
LEMMA OtherAnswers ==
    ASSUME TurnsInv, AnswersInv,
           \/ \E m \in Messages : \/ Cancel(m) \/ Begin(m) \/ Fail(m) \/ Collapse(m)
                                  \/ EndStream(m, "answered") \/ EndStream(m, "broken")
           \/ \E a \in Asks : DeleteThread(a) \/ Settle(a)
           \/ ResetStorage \/ CloseSocket \/ Evict \/ UNCHANGED vars
    PROVE  AnswersInv'
<1>1. CASE Evict
  <2>1. /\ UNCHANGED <<status, rows, backup>> /\ run' = [m \in Messages |-> "no"]
        /\ committed' = {} /\ restoring' = FALSE /\ handler'.todo = {} /\ handler'.wait = {}
    BY <1>1 DEF Evict, Idle
  <2>. QED  BY <2>1, Quieter DEF Running
<1> SUFFICES ASSUME ~Evict PROVE AnswersInv'
  BY <1>1
<1>2. UNCHANGED <<committed, handler, restoring, backup>> /\ rows' \subseteq rows
  <2>1. CASE \E m \in Messages : \/ Cancel(m) \/ Begin(m) \/ Fail(m) \/ Collapse(m)
                                \/ EndStream(m, "answered") \/ EndStream(m, "broken")
    BY <2>1 DEF Cancel, Begin, Fail, Collapse, EndStream, durable
  <2>2. CASE \E a \in Asks : DeleteThread(a) \/ Settle(a)
    BY <2>2 DEF DeleteThread, Settle, memory
  <2>3. CASE ResetStorage \/ CloseSocket \/ UNCHANGED vars
    BY <2>3 DEF ResetStorage, CloseSocket, vars, durable, memory
  <2>. QED  BY <2>1, <2>2, <2>3
<1>3. \A m \in Messages : (run'[m] # "no" => run[m] # "no") /\ (m \in Running' => m \in Running)
  <2>1. CASE UNCHANGED run
    BY <2>1 DEF Running
  <2>2. CASE \E m \in Messages : Begin(m) \/ Fail(m) \/ Collapse(m)
                                 \/ EndStream(m, "answered") \/ EndStream(m, "broken")
    <3>1. PICK m \in Messages, pc \in Runs : m \in Running /\ run' = [run EXCEPT ![m] = pc]
      BY <2>2 DEF Begin, Fail, Collapse, EndStream, Goto, Runs, Running
    <3>. QED  BY <3>1 DEF Running, TurnsInv, TypeOK
  <2>3. CASE \E a \in Asks : Settle(a)
    BY <2>3 DEF Settle, Running
  <2>. QED  BY <2>1, <2>2, <2>3 DEF Cancel, DeleteThread, ResetStorage, CloseSocket, vars, memory
<1>4. \A m \in Messages : \/ status'[m] = status[m]
                          \/ status'[m] = "gone" /\ status[m] # "none"
                          \/ status'[m] = "failed" /\ Exists(m)
  <2>1. CASE UNCHANGED status
    BY <2>1
  <2>2. CASE (\E a \in Asks : DeleteThread(a)) \/ ResetStorage
    BY <2>2 DEF DeleteThread, ResetStorage, Gone, Exists
  <2>3. CASE \E m \in Messages : Cancel(m) \/ Fail(m)
    BY <2>3 DEF Cancel, Fail, SetStatus, Exists, Unfinished, TurnsInv, TypeOK
  <2>. QED  BY <2>1, <2>2, <2>3
            DEF Begin, Collapse, EndStream, Settle, CloseSocket, vars, durable
<1>. QED  BY <1>2, <1>3, <1>4, Quieter

-------------------------------------------------------------------------------

\* The inductive invariant.
THEOREM AnswersAgree == Spec => [](TurnsInv /\ AnswersInv)
<1>1. TurnsInv /\ AnswersInv /\ [Next]_vars => AnswersInv'
  <2> SUFFICES ASSUME TurnsInv, AnswersInv, [Next]_vars PROVE AnswersInv'
    OBVIOUS
  <2>1. CASE \E S \in SUBSET Asks : Ask(S)
    BY <2>1, AskAnswers
  <2>2. CASE \E S \in committed : Track(S)
    BY <2>2, TrackAnswers
  <2>3. CASE \E m \in Messages : Delta(m) \/ Complete(m)
    BY <2>3, DeltaAnswers
  <2>4. CASE Handle
    BY <2>4, FireAnswers, FinishAnswers DEF Handle
  <2>5. CASE Export \/ BeginRestore \/ Restore
    BY <2>5, ExportAnswers, BeginRestoreAnswers, RestoreAnswers
  <2>6. CASE \/ \E m \in Messages : \/ Cancel(m) \/ Begin(m) \/ Fail(m) \/ Collapse(m)
                                    \/ EndStream(m, "answered") \/ EndStream(m, "broken")
             \/ \E a \in Asks : DeleteThread(a) \/ Settle(a)
             \/ ResetStorage \/ CloseSocket \/ Evict \/ UNCHANGED vars
    BY <2>6, OtherAnswers
  <2>. QED  BY <2>1, <2>2, <2>3, <2>4, <2>5, <2>6 DEF Next, Work, Advance
<1>. QED  BY <1>1, AnswersInit, TurnsAgree, PTL DEF Spec

\* However often the turns of an ask are interrupted, cancelled, recovered, backed up and
\* restored: one answer at most, and one turn at most that works on it
\* (sync-engine.ts:670-730).
THEOREM AskedOnceAnsweredOnce == Spec => []OneAnswerPerAsk
<1>1. TurnsInv /\ AnswersInv => OneAnswerPerAsk
  <2> SUFFICES ASSUME TurnsInv, AnswersInv,
                      NEW a \in Asks, NEW j \in 0..MaxAttempts, NEW k \in 0..MaxAttempts,
                      <<a, j>> \in Running \/ status[<<a, j>>] = "completed",
                      <<a, k>> \in Running \/ status[<<a, k>>] = "completed",
                      j # k
               PROVE  FALSE
    BY DEF OneAnswerPerAsk
  <2>1. <<a, j>> \in Messages /\ <<a, k>> \in Messages /\ Rivals(<<a, j>>, <<a, k>>)
    BY DEF Messages, Rivals
  <2>2. CASE <<a, j>> \in Running /\ <<a, k>> \in Running
    <3>1. /\ run[<<a, j>>] # "no" /\ status[<<a, j>>] # "none"
          /\ run[<<a, k>>] # "no" /\ status[<<a, k>>] # "none"
      BY <2>1, <2>2 DEF Running, AnswersInv, RunsAlone
    <3>2. j # 0 /\ k # 0
      BY <2>1, <3>1 DEF AnswersInv, RunsAlone, Rivals
    <3>3. <<a, j>> \in handler.wait /\ <<a, k>> \in handler.wait
      BY <2>1, <3>1, <3>2 DEF AnswersInv, RunsAlone
    <3>. QED  BY <3>3 DEF AnswersInv, WaitsForOne
  <2>3. CASE <<a, j>> \in Running /\ status[<<a, k>>] = "completed"
    BY <2>1, <2>3 DEF AnswersInv, RunsForNothingElse
  <2>4. CASE status[<<a, j>>] = "completed" /\ <<a, k>> \in Running
    BY <2>1, <2>4 DEF AnswersInv, RunsForNothingElse
  <2>5. CASE status[<<a, j>>] = "completed" /\ status[<<a, k>>] = "completed"
    BY <2>1, <2>5 DEF AnswersInv, OneLive, Live
  <2>. QED  BY <2>2, <2>3, <2>4, <2>5
<1>. QED  BY AnswersAgree, <1>1, PTL
===============================================================================
