----------------------------- MODULE MoneyHistory -----------------------------
(***************************************************************************)
(* Shedflare Money: the browser's undo history over the commands it sends.  *)
(*                                                                          *)
(* The browser keeps two stacks of entries, each a command and the command  *)
(* that takes it back (src/apps/money/src/lib/undo-stack.ts).  A command is  *)
(* one POST; its handler reads the database, decides, and writes one D1      *)
(* batch, which is a transaction.  Between the read and the batch any other  *)
(* request may be served, and an answer may be lost while the handler goes   *)
(* on: then the browser shows a failure, and the user tries again.           *)
(*                                                                          *)
(* A CSV import is the one command that is made to be repeated: its dialog   *)
(* keeps the request's id, and a receipt stored under that id remembers the  *)
(* rows it wrote and whether they have been taken back.  The other commands  *)
(* (a transaction added, edited or deleted, a payment of a schedule) are     *)
(* applied each time they arrive.                                           *)
(*                                                                          *)
(* An entry of a payment takes the next date back to the one the browser     *)
(* showed, which comes from a GET of the schedules: after a payment's answer *)
(* the button is enabled again at once, and the list is fetched anew.        *)
(*                                                                          *)
(* A row of the ledger is <<n, l>>: the call that made its id, and the line  *)
(* of the file, or Single.  The schedule's next date is the number of        *)
(* occurrences behind it.                                                    *)
(***************************************************************************)
EXTENDS Naturals, Sequences, FiniteSets, SequencesExt

CONSTANTS
    Files,          \* the import dialogs that are opened, each with its request id
    Lines,          \* the lines of a file
    Single,         \* the one row of a command that makes one row
    Occurrences,    \* the schedule is finished after that many payments
    MaxCalls,       \* bound: requests the browser sends
    MaxIncidents    \* bound: answers lost and imports refused by a check of theirs

ASSUME LinesAreRows == Single \notin Lines
ASSUME BoundsAreNat == Occurrences \in Nat /\ MaxCalls \in Nat /\ MaxIncidents \in Nat

VARIABLES
    receipts,   \* [Files -> [state, rows]]: the table transaction_imports
    ledger,     \* the rows of the table transactions
    cleared,    \* the rows whose cleared mark differs from when they were written
    due,        \* the schedule's next date
    calls,      \* the requests sent, in order
    undo, redo, \* the browser's stacks, the last entry on top
    dialog,     \* [Files -> "new" | "saving" | "failed" | "saved"]
    shown,      \* the next date the browser shows
    incidents,
    deleted,    \* history: rows deleted one by one since they were written
    calm,       \* history: no answer lost, no two requests at once, no row deleted by hand
    stale       \* history: while calm, a payment was recorded with another date shown

server  == <<receipts, ledger, cleared, due, deleted>>
browser == <<undo, redo, dialog, shown>>
vars    == <<server, calls, browser, incidents, calm, stale>>

-----------------------------------------------------------------------------
(* Commands, entries and calls.                                             *)

Command(do, on, to) == [do |-> do, on |-> on, to |-> to]
Entry(forward, inverse) == [forward |-> forward, inverse |-> inverse]

Unread == [state |-> "none", rows |-> {}]

\* What the browser is told: whether it worked, and the rows the answer names.
Told(ok, rows) == [ok |-> ok, rows |-> rows]

\* A request: its command, who waits for it, how far its handler is, what the
\* handler has read, and its answer.
NewCall(command, from, entry) ==
    [command |-> command, from |-> from, entry |-> entry, awaited |-> TRUE, step |-> "sent",
     receipt |-> Unread, date |-> 0, told |-> Told(FALSE, {})]

Row(n) == <<n, Single>>
Rows == (1..MaxCalls) \X (Lines \union {Single})
InFlight == {n \in DOMAIN calls : calls[n].awaited}
HistoryBusy == \E n \in InFlight : calls[n].from # "save"

Send(command, from, entry) ==
    /\ Len(calls) < MaxCalls
    /\ calls' = Append(calls, NewCall(command, from, entry))
    /\ calm' = (calm /\ InFlight = {} /\ ~(from = "save" /\ command.do = "delete"))
    /\ stale' = (calm' /\ (stale \/ (from = "save" /\ command.do = "pay" /\ shown # due)))
    /\ UNCHANGED <<server, incidents>>

Incident == incidents < MaxIncidents /\ incidents' = incidents + 1

-----------------------------------------------------------------------------
Init ==
    /\ receipts = [f \in Files |-> Unread]
    /\ ledger = {} /\ cleared = {} /\ due = 0 /\ deleted = {}
    /\ calls = <<>>
    /\ undo = <<>> /\ redo = <<>>
    /\ dialog = [f \in Files |-> "new"]
    /\ shown = 0
    /\ incidents = 0
    /\ calm = TRUE /\ stale = FALSE

-----------------------------------------------------------------------------
(* The user.                                                                *)

Save(command) == Send(command, "save", Entry(command, command))

\* Save in the import dialog, and Retry: the attempt keeps its request id.
SaveImport(f) ==
    /\ dialog[f] \in {"new", "failed"}
    /\ dialog' = [dialog EXCEPT ![f] = "saving"]
    /\ Save(Command("import", f, 0))
    /\ UNCHANGED <<undo, redo, shown>>

\* A transaction is added, deleted, or marked cleared or not; a payment is recorded.
Dispatch ==
    /\ \/ Save(Command("add", Row(0), 0))
       \/ \E x \in ledger : Save(Command("delete", x, 0))
       \/ \E x \in ledger : Save(Command("mark", x, IF x \in cleared THEN 0 ELSE 1))
       \/ Save(Command("pay", Row(0), shown))
    /\ UNCHANGED browser

Undo ==
    /\ ~HistoryBusy /\ undo # <<>>
    /\ undo' = Front(undo)
    /\ redo' = Append(redo, Last(undo))
    /\ Send(Last(undo).inverse, "undo", Last(undo))
    /\ UNCHANGED <<dialog, shown>>

Redo ==
    /\ ~HistoryBusy /\ redo # <<>>
    /\ redo' = Front(redo)
    /\ undo' = Append(undo, Last(redo))
    /\ Send(Last(redo).forward, "redo", Last(redo))
    /\ UNCHANGED <<dialog, shown>>

-----------------------------------------------------------------------------
(* The handlers: what each reads and refuses, then its batch.               *)

Refuse(n) == calls' = [calls EXCEPT ![n].step = "done"]

Reply(n, rows) == calls' = [calls EXCEPT ![n].step = "done", ![n].told = Told(TRUE, rows)]

GoOn(n) == calls' = [calls EXCEPT ![n].step = "read", ![n].date = due]

\* undo_transaction_import compares the rows with the receipt's.
Untouched(f) == receipts[f].rows \subseteq ledger \ cleared

ReadImport(n, f) ==
    LET saved == receipts[f]
    IN  \/ /\ saved.state = "active"
           /\ Reply(n, saved.rows)
           /\ UNCHANGED incidents
        \/ /\ saved.state # "active"
           /\ calls' = [calls EXCEPT ![n].step = "read", ![n].receipt = saved]
           /\ UNCHANGED incidents
        \* The account is closed, a row is invalid, a category has gone.
        \/ saved.state # "active" /\ Refuse(n) /\ Incident

ReadUndoImport(n, f) ==
    CASE receipts[f].state = "none"   -> Refuse(n)
      [] receipts[f].state = "undone" -> Reply(n, {})
      [] OTHER -> IF Untouched(f)
                    THEN calls' = [calls EXCEPT ![n].step = "read", ![n].receipt = receipts[f]]
                    ELSE Refuse(n)

\* Mutant: a finished schedule is paid on.
ReadOther_Finished(n, c) ==
    IF c.do \in {"mark", "unpay"} /\ c.on \notin ledger THEN Refuse(n) ELSE GoOn(n)

ReadOther(n, c) ==
    IF \/ c.do \in {"mark", "unpay"} /\ c.on \notin ledger
       \/ c.do = "pay" /\ due >= Occurrences
      THEN Refuse(n)
      ELSE GoOn(n)

Read(n) ==
    LET c == calls[n].command
    IN  /\ calls[n].step = "sent"
        /\ CASE c.do = "import"   -> ReadImport(n, c.on)
             [] c.do = "unimport" -> ReadUndoImport(n, c.on) /\ UNCHANGED incidents
             [] OTHER             -> ReadOther(n, c) /\ UNCHANGED incidents
        /\ UNCHANGED <<server, browser, calm, stale>>

\* The receipt's id is the primary key: with a receipt of that id the batch fails as a whole.
Receives(f, expected) == receipts[f].state = expected

Receipt(f, state, rows) == receipts' = [receipts EXCEPT ![f] = [state |-> state, rows |-> rows]]

\* Mutant: the receipt is written over whatever is there.
WriteImport_Upsert(n, f) ==
    \E lines \in SUBSET Lines :
        LET rows == {n} \X lines
        IN  /\ Receipt(f, "active", rows)
            /\ ledger' = ledger \union rows
            /\ Reply(n, rows)
            /\ UNCHANGED deleted

\* Mutant: a second attempt answers with its own rows.
WriteImport_Own(n, f) ==
    \E lines \in SUBSET Lines :
        LET rows == {n} \X lines
        IN  /\ Reply(n, rows)
            /\ IF Receives(f, "none")
                 THEN Receipt(f, "active", rows) /\ ledger' = ledger \union rows
                 ELSE UNCHANGED <<receipts, ledger>>
            /\ UNCHANGED deleted

\* The first import: its rows are those of the file that the account does not
\* have yet.  When the batch fails, the receipt of another attempt is the answer.
WriteImport(n, f) ==
    \/ /\ Receives(f, "none")
       /\ \E lines \in SUBSET Lines :
             LET rows == {n} \X lines
             IN  /\ Receipt(f, "active", rows)
                 /\ ledger' = ledger \union rows
                 /\ Reply(n, rows)
       /\ UNCHANGED deleted
    \/ /\ ~Receives(f, "none")
       /\ IF receipts[f].state = "active" THEN Reply(n, receipts[f].rows) ELSE Refuse(n)
       /\ UNCHANGED <<receipts, ledger, deleted>>

\* An import that had been taken back: the receipt's rows are written again.
WriteAgain(n, f) ==
    LET rows == calls[n].receipt.rows
    IN  IF Receives(f, "undone")
          THEN /\ Receipt(f, "active", rows)
               /\ ledger' = ledger \union rows
               /\ deleted' = deleted \ rows
               /\ Reply(n, rows)
          ELSE Refuse(n) /\ UNCHANGED <<receipts, ledger, deleted>>

WriteUndoImport(n, f) ==
    LET rows == calls[n].receipt.rows
    IN  IF Receives(f, "active")
          THEN /\ Receipt(f, "undone", rows)
               /\ ledger' = ledger \ rows
               /\ Reply(n, {})
               /\ UNCHANGED deleted
          ELSE Refuse(n) /\ UNCHANGED <<receipts, ledger, deleted>>

\* Of the rows that are gone no mark is left; a row written again starts without.
Import(n) ==
    LET c == calls[n].command
    IN  /\ \/ c.do = "unimport" /\ WriteUndoImport(n, c.on)
           \/ /\ c.do = "import" /\ calls[n].receipt.state = "undone"
              /\ WriteAgain(n, c.on)
           \/ /\ c.do = "import" /\ calls[n].receipt.state # "undone"
              /\ WriteImport(n, c.on)
        /\ cleared' = cleared \intersect ledger'
        /\ UNCHANGED due

Add(n) ==
    /\ calls[n].command.do = "add"
    /\ ledger' = ledger \union {Row(n)}
    /\ Reply(n, {Row(n)})
    /\ UNCHANGED <<receipts, cleared, due, deleted>>

\* Deleting a row that is not there succeeds too.
Delete(n) ==
    LET x == calls[n].command.on
    IN  /\ calls[n].command.do = "delete"
        /\ ledger' = ledger \ {x}
        /\ cleared' = cleared \ {x}
        /\ deleted' = deleted \union ({x} \intersect ledger)
        /\ Reply(n, {x})
        /\ UNCHANGED <<receipts, due>>

Mark(n) ==
    LET x == calls[n].command.on
    IN  /\ calls[n].command.do = "mark"
        /\ cleared' = IF calls[n].command.to = 1
                        THEN cleared \union ({x} \intersect ledger)
                        ELSE cleared \ {x}
        /\ Reply(n, {x})
        /\ UNCHANGED <<receipts, ledger, due, deleted>>

\* The transaction and the next date together; the next date follows the one that was read.
Pay(n) ==
    /\ calls[n].command.do = "pay"
    /\ ledger' = ledger \union {Row(n)}
    /\ due' = calls[n].date + 1
    /\ Reply(n, {Row(n)})
    /\ UNCHANGED <<receipts, cleared, deleted>>

\* Both are restored: the next date is the one the browser showed when it paid.
Unpay(n) ==
    LET x == calls[n].command.on
    IN  /\ calls[n].command.do = "unpay"
        /\ ledger' = ledger \ {x}
        /\ cleared' = cleared \ {x}
        /\ due' = calls[n].command.to
        /\ Reply(n, {})
        /\ UNCHANGED <<receipts, deleted>>

Write(n) ==
    /\ calls[n].step = "read"
    /\ Import(n) \/ Add(n) \/ Delete(n) \/ Mark(n) \/ Pay(n) \/ Unpay(n)
    /\ UNCHANGED <<browser, incidents, calm, stale>>

-----------------------------------------------------------------------------
(* The browser gets the answer, or gives it up.                             *)

TheRow(rows) == CHOOSE x \in rows : TRUE

\* What takes a saved command back; an import that wrote no row is not pushed.
TakenBackBy(c, rows) ==
    CASE c.do = "import" -> Command("unimport", c.on, 0)
      [] c.do = "add"    -> Command("delete", TheRow(rows), 0)
      [] c.do = "delete" -> Command("add", Row(0), 0)
      [] c.do = "mark"   -> Command("mark", c.on, 1 - c.to)
      [] c.do = "pay"    -> Command("unpay", TheRow(rows), c.to)

Push(c, rows) ==
    IF c.do = "import" /\ rows = {}
      THEN UNCHANGED <<undo, redo>>
      ELSE undo' = Append(undo, Entry(c, TakenBackBy(c, rows))) /\ redo' = <<>>

Dialog(n, state) ==
    IF calls[n].command.do = "import" /\ calls[n].from = "save"
      THEN dialog' = [dialog EXCEPT ![calls[n].command.on] = state]
      ELSE UNCHANGED dialog

\* Mutant: only what undo makes again is renamed.
Retarget_Undo(e, from, rows) ==
    IF from = "undo" /\ e.forward.do = "delete" THEN [e EXCEPT !.forward.on = TheRow(rows)] ELSE e

\* A row made again has a new id, which the entry's command that removes it must name.
Retarget(e, from, rows) ==
    CASE from = "redo" /\ e.inverse.do \in {"unpay", "delete"} ->
            [e EXCEPT !.inverse.on = TheRow(rows)]
      [] from = "undo" /\ e.forward.do = "delete" -> [e EXCEPT !.forward.on = TheRow(rows)]
      [] OTHER -> e

\* The top of the other stack is replaced, whatever is there by then.
Replaced(stack, e) == Append(IF stack = <<>> THEN stack ELSE Front(stack), e)

Retargeted(call, stack) ==
    LET e == Retarget(call.entry, call.from, call.told.rows)
    IN  IF e = call.entry THEN stack ELSE Replaced(stack, e)

Popped(stack) == IF stack = <<>> THEN stack ELSE Front(stack)

\* emitMoneyDataChanged only asks for the list again (Refetch): the date shown stays
\* what it was, while the button is enabled already.
Worked(n) ==
    LET call == calls[n]
    IN  /\ CASE call.from = "save" -> Push(call.command, call.told.rows)
             [] call.from = "undo" -> redo' = Retargeted(call, redo) /\ UNCHANGED undo
             [] call.from = "redo" -> undo' = Retargeted(call, undo) /\ UNCHANGED redo
        /\ Dialog(n, "saved")
        /\ UNCHANGED shown

\* A refusal, an error and a lost connection look alike: the entry goes back.
Failed(n) ==
    LET call == calls[n]
    IN  /\ CASE call.from = "save" -> UNCHANGED <<undo, redo>>
             [] call.from = "undo" -> undo' = Append(undo, call.entry) /\ redo' = Popped(redo)
             [] call.from = "redo" -> redo' = Append(redo, call.entry) /\ undo' = Popped(undo)
        /\ Dialog(n, "failed")
        /\ UNCHANGED shown

Answer(n) ==
    /\ calls[n].awaited /\ calls[n].step = "done"
    /\ calls' = [calls EXCEPT ![n].awaited = FALSE]
    /\ IF calls[n].told.ok THEN Worked(n) ELSE Failed(n)
    /\ UNCHANGED <<server, incidents, calm, stale>>

\* The connection is lost; a handler that has the request goes on.
Lose(n) ==
    /\ calls[n].awaited
    /\ calls' = [calls EXCEPT ![n].awaited = FALSE]
    /\ Failed(n)
    /\ Incident
    /\ calm' = FALSE
    /\ UNCHANGED <<server, stale>>

\* The list of schedules that was fetched anew arrives: any time after the answer that
\* asked for it, or never.  GET is served in the same step, since in between the date
\* changes only under a request in flight.  (While the last GET has failed the list is
\* empty, and nothing can be paid.)
Refetch ==
    /\ shown # due
    /\ shown' = due
    /\ UNCHANGED <<server, calls, undo, redo, dialog, incidents, calm, stale>>

-----------------------------------------------------------------------------
Next ==
    \/ \E f \in Files : SaveImport(f)
    \/ Dispatch
    \/ Undo
    \/ Redo
    \/ Refetch
    \/ \E n \in DOMAIN calls : Read(n) \/ Write(n) \/ Answer(n) \/ Lose(n)

Spec == Init /\ [][Next]_vars

-----------------------------------------------------------------------------
(* Properties.                                                              *)

Imported == {x \in Rows : x[2] \in Lines}

\* What the variables are; only a row that is there is marked, a schedule is not paid
\* beyond its end, and the history waits for at most one answer.
TypeOK ==
    /\ receipts \in [Files -> [state : {"none", "active", "undone"}, rows : SUBSET Imported]]
    /\ ledger \subseteq Rows /\ cleared \subseteq ledger /\ deleted \subseteq Rows
    /\ due \in 0..Occurrences /\ shown \in 0..Occurrences
    /\ dialog \in [Files -> {"new", "saving", "failed", "saved"}]
    /\ Len(calls) <= MaxCalls
    /\ Cardinality({n \in InFlight : calls[n].from # "save"}) <= 1

\* The rows that the active receipts name.
Named == UNION {receipts[f].rows : f \in {g \in Files : receipts[g].state = "active"}}

\* However often an import, its undo and its redo are sent, in whatever order
\* their handlers run and whatever answers are lost: the imported rows of the
\* ledger are those of the active receipts, less what was deleted row by row.
ReceiptsTellTheLedger == ledger \intersect Imported = Named \ deleted

\* "Retries after an interrupted response return the same import"
\* (apps/money/README.md:63): every answer to an import names its receipt's rows.
RetriesReturnTheSameImport ==
    \A n \in DOMAIN calls :
        LET c == calls[n]
        IN  c.command.do = "import" /\ c.step = "done" /\ c.told.ok =>
                c.told.rows = receipts[c.command.on].rows

\* The rows an entry stands for.
Stands(e) ==
    CASE e.forward.do = "import" -> receipts[e.forward.on].rows
      [] e.forward.do \in {"add", "pay"} -> {e.inverse.on}
      [] OTHER -> {}

Entries(stack) == {stack[i] : i \in DOMAIN stack}

Payments == {i \in DOMAIN undo : undo[i].forward.do = "pay"}

\* While one request is made at a time, every answer arrives, no row is deleted by
\* hand and no payment is recorded before the list shows the next date that the one
\* before it left, the undo stack explains the ledger, after any sequence of saves,
\* undos, redos and refusals: its rows are those of the entries, and the next date
\* counts the payments.  So "undo restores both" (apps/money/README.md:31), with the
\* exception of stale: the button is enabled before the list has been fetched again,
\* and a second payment's entry then takes the next date back over the first one, too.
HistoryExplainsTheLedger ==
    calm /\ ~stale /\ InFlight = {} =>
        /\ ledger = UNION {Stands(e) : e \in Entries(undo)}
        /\ due = Cardinality(Payments)

=============================================================================
