------------------------------ MODULE MoneyProofs ------------------------------
(* What MoneyHistory does for every set of import dialogs and lines, and every  *)
(* number of requests, occurrences and lost answers.                            *)
EXTENDS MoneyHistory, FiniteSetTheorems, SequenceTheorems, TLAPS

Singles == Nat \X {Single}
Places  == Files \union Rows \union Singles

Saved == {"import", "add", "delete", "mark", "pay"}
Kinds == Saved \union {"unimport", "unpay"}

\* A request about an import names its dialog, a payment taken back names its one row,
\* and the dates and marks that are asked for are dates and marks.
Commands ==
    {c \in [do : Kinds, on : Places, to : Nat] :
        /\ c.do \in {"import", "unimport"} => c.on \in Files
        /\ c.do \in {"pay", "unpay"} => c.to \in 0..Occurrences
        /\ c.do = "mark" => c.to \in 0..1
        /\ c.do = "unpay" => c.on \in Singles}

TakesBack(c, d) ==
    \/ c.do = "import" /\ d.do = "unimport"
    \/ c.do = "add"    /\ d.do = "delete"
    \/ c.do = "delete" /\ d.do = "add"
    \/ c.do = "mark"   /\ d.do = "mark"
    \/ c.do = "pay"    /\ d.do = "unpay"

\* The entries of the two stacks.
Kept == {e \in [forward : Commands, inverse : Commands] : TakesBack(e.forward, e.inverse)}

Receipts == [state : {"none", "active", "undone"}, rows : SUBSET Imported]

\* The requests: a saved one is not the inverse of another, and one of the history is
\* a side of its entry.
Requests ==
    {c \in [command : Commands, from : {"save", "undo", "redo"},
            entry : [forward : Commands, inverse : Commands], awaited : BOOLEAN,
            step : {"sent", "read", "done"}, receipt : Receipts, date : Nat,
            told : [ok : BOOLEAN, rows : SUBSET Places]] :
        /\ c.from = "save" => c.command.do \in Saved
        /\ c.from = "undo" => c.entry \in Kept /\ c.command = c.entry.inverse
        /\ c.from = "redo" => c.entry \in Kept /\ c.command = c.entry.forward}

TablesTyped ==
    /\ receipts \in [Files -> Receipts]
    /\ ledger \subseteq Rows /\ cleared \subseteq ledger /\ deleted \subseteq Rows
    /\ due \in 0..Occurrences

BrowserTyped ==
    /\ undo \in Seq(Kept) /\ redo \in Seq(Kept)
    /\ shown \in 0..Occurrences
    /\ dialog \in [Files -> {"new", "saving", "failed", "saved"}]

\* A payment goes on only before the schedule's end, and a command that makes one row
\* answers with it.
CallsTyped ==
    /\ calls \in Seq(Requests) /\ Len(calls) <= MaxCalls
    /\ \A m \in DOMAIN calls :
          /\ calls[m].told.ok => calls[m].step = "done"
          /\ calls[m].step = "read" /\ calls[m].command.do = "pay" =>
                calls[m].date < Occurrences
          /\ /\ calls[m].step = "done" /\ calls[m].told.ok
             /\ calls[m].command.do \in {"add", "pay"}
             => calls[m].told.rows = {Row(m)}

\* The history waits for one answer at a time.
OneAtATime ==
    \A m, k \in DOMAIN calls :
        /\ calls[m].awaited /\ calls[m].from # "save"
        /\ calls[k].awaited /\ calls[k].from # "save"
        => m = k

Shape == TablesTyped /\ BrowserTyped /\ CallsTyped /\ OneAtATime

-------------------------------------------------------------------------------
(* Sequences.                                                                   *)

LEMMA AppendFacts ==
    ASSUME NEW S, NEW s \in Seq(S), NEW x \in S
    PROVE  /\ Append(s, x) \in Seq(S) /\ Len(Append(s, x)) = Len(s) + 1
           /\ DOMAIN Append(s, x) = DOMAIN s \union {Len(s) + 1}
           /\ \A i \in DOMAIN s : Append(s, x)[i] = s[i] /\ i <= Len(s)
           /\ Append(s, x)[Len(s) + 1] = x
  OBVIOUS

LEMMA FrontFacts ==
    ASSUME NEW S, NEW s \in Seq(S), s # <<>>
    PROVE  Front(s) \in Seq(S) /\ Last(s) \in S
<1>1. Len(s) \in Nat /\ Len(s) # 0
  OBVIOUS
<1>2. Last(s) \in S
  BY <1>1 DEF Last
<1>3. Front(s) \in Seq(S)
  BY <1>1 DEF Front
<1>. QED  BY <1>2, <1>3

LEMMA UpdateFacts ==
    ASSUME NEW S, NEW s \in Seq(S), NEW i \in DOMAIN s, NEW x \in S
    PROVE  LET t == [s EXCEPT ![i] = x]
           IN  /\ t \in Seq(S) /\ Len(t) = Len(s) /\ DOMAIN t = DOMAIN s
               /\ t[i] = x /\ \A j \in DOMAIN s : j # i => t[j] = s[j]
  BY ExceptSeq

-------------------------------------------------------------------------------
(* The requests and their updates.                                              *)

LEMMA RequestFields ==
    ASSUME NEW c \in Requests
    PROVE  /\ c.command \in Commands /\ c.from \in {"save", "undo", "redo"}
           /\ c.entry \in [forward : Commands, inverse : Commands]
           /\ c.awaited \in BOOLEAN /\ c.step \in {"sent", "read", "done"}
           /\ c.receipt \in Receipts /\ c.date \in Nat
           /\ c.told \in [ok : BOOLEAN, rows : SUBSET Places]
           /\ c.from = "save" => c.command.do \in Saved
           /\ c.from = "undo" => c.entry \in Kept /\ c.command = c.entry.inverse
           /\ c.from = "redo" => c.entry \in Kept /\ c.command = c.entry.forward
  BY DEF Requests

LEMMA CommandFields ==
    ASSUME NEW c \in Commands
    PROVE  /\ c.do \in Kinds /\ c.on \in Places /\ c.to \in Nat
           /\ c.do \in {"import", "unimport"} => c.on \in Files
           /\ c.do \in {"pay", "unpay"} => c.to \in 0..Occurrences
           /\ c.do = "mark" => c.to \in 0..1
           /\ c.do = "unpay" => c.on \in Singles
  BY DEF Commands

LEMMA NewRequest ==
    ASSUME NEW command \in Commands, NEW from \in {"save", "undo", "redo"},
           NEW entry \in [forward : Commands, inverse : Commands],
           /\ from = "save" => command.do \in Saved
           /\ from = "undo" => entry \in Kept /\ command = entry.inverse
           /\ from = "redo" => entry \in Kept /\ command = entry.forward
    PROVE  /\ NewCall(command, from, entry) \in Requests
           /\ NewCall(command, from, entry).step = "sent"
           /\ NewCall(command, from, entry).from = from
<1>1. Unread \in Receipts /\ Told(FALSE, {}) \in [ok : BOOLEAN, rows : SUBSET Places]
  BY DEF Unread, Told, Receipts
<1>2. NewCall(command, from, entry) \in Requests
  BY <1>1 DEF NewCall, Requests
<1>. QED  BY <1>2 DEF NewCall

LEMMA SendStep ==
    ASSUME Shape, NEW command \in Commands, NEW from \in {"save", "undo", "redo"},
           NEW entry \in [forward : Commands, inverse : Commands],
           from = "save" => command.do \in Saved,
           from = "undo" => entry \in Kept /\ command = entry.inverse,
           from = "redo" => entry \in Kept /\ command = entry.forward,
           from # "save" => ~HistoryBusy,
           Send(command, from, entry)
    PROVE  TablesTyped' /\ CallsTyped' /\ OneAtATime'
<1> DEFINE c == NewCall(command, from, entry)
<1>1. /\ c \in Requests /\ c.step = "sent" /\ c.from = from /\ c.told.ok = FALSE
  <2>1. /\ from = "save" => command.do \in Saved
        /\ from = "undo" => entry \in Kept /\ command = entry.inverse
        /\ from = "redo" => entry \in Kept /\ command = entry.forward
    OBVIOUS
  <2>2. /\ NewCall(command, from, entry) \in Requests
        /\ NewCall(command, from, entry).step = "sent"
        /\ NewCall(command, from, entry).from = from
    BY <2>1, NewRequest
  <2>3. NewCall(command, from, entry).told.ok = FALSE
    BY DEF NewCall, Told
  <2>. QED  BY <2>2, <2>3
<1> HIDE DEF c
<1>2. calls \in Seq(Requests) /\ Len(calls) < MaxCalls /\ calls' = Append(calls, c)
  BY DEF Shape, CallsTyped, Send, c
<1>3. /\ calls' \in Seq(Requests) /\ Len(calls') = Len(calls) + 1
      /\ DOMAIN calls' = DOMAIN calls \union {Len(calls) + 1}
      /\ \A i \in DOMAIN calls : calls'[i] = calls[i] /\ i <= Len(calls)
      /\ calls'[Len(calls) + 1] = c
  BY <1>1, <1>2, AppendFacts
<1>4. CallsTyped'
  <2>1. Len(calls') <= MaxCalls
    BY <1>2, <1>3, BoundsAreNat
  <2>2. ASSUME NEW m \in DOMAIN calls'
        PROVE  /\ calls'[m].told.ok => calls'[m].step = "done"
               /\ calls'[m].step = "read" /\ calls'[m].command.do = "pay" =>
                     calls'[m].date < Occurrences
               /\ /\ calls'[m].step = "done" /\ calls'[m].told.ok
                  /\ calls'[m].command.do \in {"add", "pay"}
                  => calls'[m].told.rows = {Row(m)}
    <3>1. CASE m \in DOMAIN calls
      BY <3>1, <1>3 DEF Shape, CallsTyped
    <3>2. CASE m = Len(calls) + 1
      BY <3>2, <1>1, <1>3
    <3>. QED  BY <3>1, <3>2, <1>3, <2>2
  <2>3. \A m : Row(m)' = Row(m)
    BY DEF Row
  <2>. QED  BY <1>3, <2>1, <2>2, <2>3 DEF CallsTyped
<1>5. OneAtATime'
  <2> SUFFICES ASSUME NEW m \in DOMAIN calls', NEW k \in DOMAIN calls',
                      calls'[m].awaited, calls'[m].from # "save",
                      calls'[k].awaited, calls'[k].from # "save"
               PROVE  m = k
    BY DEF OneAtATime
  <2>1. CASE from = "save"
    <3>1. m \in DOMAIN calls /\ k \in DOMAIN calls
      BY <2>1, <1>1, <1>3
    <3>. QED  BY <3>1, <1>3 DEF Shape, OneAtATime
  <2>2. CASE from # "save"
    <3>1. \A j \in DOMAIN calls : ~(calls[j].awaited /\ calls[j].from # "save")
      BY <2>2 DEF HistoryBusy, InFlight
    <3>. QED  BY <3>1, <1>3
  <2>. QED  BY <2>1, <2>2
<1>6. TablesTyped'
  BY DEF Shape, TablesTyped, Send, server
<1>. QED  BY <1>4, <1>5, <1>6

\* What an update of a request leaves of the requests.
Others(n) ==
    /\ DOMAIN calls' = DOMAIN calls
    /\ \A j \in DOMAIN calls : j # n => calls'[j] = calls[j]
    /\ calls'[n].command = calls[n].command

LEMMA CallStep ==
    ASSUME Shape, NEW n \in DOMAIN calls, NEW c \in Requests,
           calls' = [calls EXCEPT ![n] = c],
           c.command = calls[n].command, c.from = calls[n].from,
           c.awaited => calls[n].awaited,
           c.told.ok => c.step = "done",
           c.step = "read" /\ c.command.do = "pay" => c.date < Occurrences,
           /\ c.step = "done" /\ c.told.ok /\ c.command.do \in {"add", "pay"}
           => c.told.rows = {Row(n)}
    PROVE  CallsTyped' /\ OneAtATime' /\ Others(n) /\ calls'[n] = c
<1>1. /\ calls' \in Seq(Requests) /\ Len(calls') = Len(calls) /\ DOMAIN calls' = DOMAIN calls
      /\ calls'[n] = c /\ \A j \in DOMAIN calls : j # n => calls'[j] = calls[j]
  <2>1. calls \in Seq(Requests)
    BY DEF Shape, CallsTyped
  <2>. QED  BY <2>1, UpdateFacts
<1>2. CallsTyped'
  <2>1. Len(calls') <= MaxCalls
    BY <1>1 DEF Shape, CallsTyped
  <2>2. ASSUME NEW m \in DOMAIN calls'
        PROVE  /\ calls'[m].told.ok => calls'[m].step = "done"
               /\ calls'[m].step = "read" /\ calls'[m].command.do = "pay" =>
                     calls'[m].date < Occurrences
               /\ /\ calls'[m].step = "done" /\ calls'[m].told.ok
                  /\ calls'[m].command.do \in {"add", "pay"}
                  => calls'[m].told.rows = {Row(m)}
    <3>1. CASE m # n
      BY <3>1, <1>1 DEF Shape, CallsTyped
    <3>2. CASE m = n
      BY <3>2, <1>1
    <3>. QED  BY <3>1, <3>2
  <2>3. \A m : Row(m)' = Row(m)
    BY DEF Row
  <2>. QED  BY <1>1, <2>1, <2>2, <2>3 DEF CallsTyped
<1>3. OneAtATime'
  <2> SUFFICES ASSUME NEW m \in DOMAIN calls', NEW k \in DOMAIN calls',
                      calls'[m].awaited, calls'[m].from # "save",
                      calls'[k].awaited, calls'[k].from # "save"
               PROVE  m = k
    BY DEF OneAtATime
  <2>1. \A j \in DOMAIN calls : /\ calls'[j].from = calls[j].from
                                /\ calls'[j].awaited => calls[j].awaited
    BY <1>1
  <2>. QED  BY <2>1, <1>1 DEF Shape, OneAtATime
<1>4. Others(n) /\ calls'[n] = c
  BY <1>1 DEF Others
<1>. QED  BY <1>2, <1>3, <1>4

LEMMA RowFacts ==
    /\ \A m \in Nat : Row(m) \in Singles
    /\ \A m \in 1..MaxCalls : Row(m) \in Rows
    /\ Rows \subseteq Places /\ Singles \subseteq Places /\ Imported \subseteq Rows
  BY BoundsAreNat DEF Row, Singles, Rows, Places, Imported

LEMMA TheRowOf == ASSUME NEW x PROVE TheRow({x}) = x
  BY DEF TheRow

LEMMA MakeCommand ==
    ASSUME NEW do \in Kinds, NEW on \in Places, NEW to \in Nat,
           do \in {"import", "unimport"} => on \in Files,
           do \in {"pay", "unpay"} => to \in 0..Occurrences,
           do = "mark" => to \in 0..1,
           do = "unpay" => on \in Singles
    PROVE  Command(do, on, to) \in Commands /\ Command(do, on, to).do = do
  BY DEF Command, Commands

\* What takes a saved command back is its inverse.
LEMMA TakenBackFacts ==
    ASSUME NEW c \in Commands, c.do \in Saved, NEW rows, NEW x \in Singles,
           c.do \in {"add", "pay"} => rows = {x}
    PROVE  Entry(c, TakenBackBy(c, rows)) \in Kept
<1> DEFINE d == TakenBackBy(c, rows)
<1>0. x \in Places /\ Row(0) \in Places /\ \A f \in Files : f \in Places
  BY RowFacts DEF Places
<1>1. d \in Commands /\ TakesBack(c, d)
  <2>1. CASE c.do = "import"
    <3>1. d = Command("unimport", c.on, 0) /\ c.on \in Files
      BY <2>1, CommandFields DEF TakenBackBy
    <3>2. Command("unimport", c.on, 0) \in [do : Kinds, on : Places, to : Nat]
      BY <3>1, <1>0 DEF Command, Kinds
    <3>. QED  BY <2>1, <3>1, <3>2 DEF Command, Commands, TakesBack
  <2>2. CASE c.do = "add"
    <3>1. d = Command("delete", x, 0)
      BY <2>2, TheRowOf DEF TakenBackBy
    <3>2. Command("delete", x, 0) \in [do : Kinds, on : Places, to : Nat]
      BY <1>0 DEF Command, Kinds, Saved
    <3>. QED  BY <2>2, <3>1, <3>2 DEF Command, Commands, TakesBack
  <2>3. CASE c.do = "delete"
    <3>1. d = Command("add", Row(0), 0)
      BY <2>3 DEF TakenBackBy
    <3>2. Command("add", Row(0), 0) \in [do : Kinds, on : Places, to : Nat]
      BY <1>0 DEF Command, Kinds, Saved
    <3>. QED  BY <2>3, <3>1, <3>2 DEF Command, Commands, TakesBack
  <2>4. CASE c.do = "mark"
    <3>1. d = Command("mark", c.on, 1 - c.to) /\ c.on \in Places /\ 1 - c.to \in 0..1
      BY <2>4, CommandFields DEF TakenBackBy
    <3>2. Command("mark", c.on, 1 - c.to) \in [do : Kinds, on : Places, to : Nat]
      BY <3>1 DEF Command, Kinds, Saved
    <3>. QED  BY <2>4, <3>1, <3>2 DEF Command, Commands, TakesBack
  <2>5. CASE c.do = "pay"
    <3>1. d = Command("unpay", x, c.to) /\ c.to \in 0..Occurrences /\ c.to \in Nat
      BY <2>5, TheRowOf, CommandFields DEF TakenBackBy
    <3>2. Command("unpay", x, c.to) \in [do : Kinds, on : Places, to : Nat]
      BY <3>1, <1>0 DEF Command, Kinds
    <3>. QED  BY <2>5, <3>1, <3>2 DEF Command, Commands, TakesBack
  <2>. QED  BY <2>1, <2>2, <2>3, <2>4, <2>5 DEF Saved
<1>. QED  BY <1>1 DEF Entry, Kept

\* An entry whose row is made again stays an entry.
LEMMA RetargetFacts ==
    ASSUME NEW e \in Kept, NEW from \in {"undo", "redo"}, NEW rows, NEW x \in Singles,
           /\ from = "redo" /\ e.forward.do \in {"add", "pay"} => rows = {x}
           /\ from = "undo" /\ e.inverse.do \in {"add", "pay"} => rows = {x}
    PROVE  Retarget(e, from, rows) \in Kept
<1>0. /\ x \in Places /\ e.forward \in Commands /\ e.inverse \in Commands
      /\ e = [forward |-> e.forward, inverse |-> e.inverse] /\ TakesBack(e.forward, e.inverse)
  BY RowFacts DEF Kept
<1>1. CASE from = "redo" /\ e.inverse.do \in {"unpay", "delete"}
  <2>1. TheRow(rows) = x
    BY <1>0, <1>1, TheRowOf DEF TakesBack
  <2>2. Retarget(e, from, rows) = [forward |-> e.forward, inverse |-> [e.inverse EXCEPT !.on = x]]
    BY <1>0, <1>1, <2>1 DEF Retarget
  <2>3. [e.inverse EXCEPT !.on = x] \in Commands
        /\ [e.inverse EXCEPT !.on = x].do = e.inverse.do
    BY <1>0, <1>1 DEF Commands
  <2>4. \A d \in Commands : d.do = e.inverse.do => [forward |-> e.forward, inverse |-> d] \in Kept
    BY <1>0 DEF Kept, TakesBack
  <2>. QED  BY <2>2, <2>3, <2>4
<1>2. CASE from = "undo" /\ e.forward.do = "delete"
  <2>1. TheRow(rows) = x
    BY <1>0, <1>2, TheRowOf DEF TakesBack
  <2>2. Retarget(e, from, rows) = [forward |-> [e.forward EXCEPT !.on = x], inverse |-> e.inverse]
    BY <1>0, <1>2, <2>1 DEF Retarget
  <2>3. [e.forward EXCEPT !.on = x] \in Commands
        /\ [e.forward EXCEPT !.on = x].do = e.forward.do
    BY <1>0, <1>2 DEF Commands
  <2>4. \A d \in Commands : d.do = e.forward.do => [forward |-> d, inverse |-> e.inverse] \in Kept
    BY <1>0 DEF Kept, TakesBack
  <2>. QED  BY <2>2, <2>3, <2>4
<1>3. CASE /\ ~(from = "redo" /\ e.inverse.do \in {"unpay", "delete"})
           /\ ~(from = "undo" /\ e.forward.do = "delete")
  BY <1>3 DEF Retarget
<1>. QED  BY <1>1, <1>2, <1>3

\* The stacks stay stacks, whatever is on top of them.
LEMMA StackFacts ==
    ASSUME NEW stack \in Seq(Kept), NEW e \in Kept
    PROVE  /\ Append(stack, e) \in Seq(Kept)
           /\ Popped(stack) \in Seq(Kept)
           /\ Replaced(stack, e) \in Seq(Kept)
<1>1. Popped(stack) \in Seq(Kept)
  BY FrontFacts DEF Popped
<1>. QED  BY <1>1, AppendFacts DEF Popped, Replaced

\* An update of a request that leaves its command, its origin and its entry is a request.
LEMMA Finished ==
    ASSUME NEW o \in Requests
    PROVE  LET c == [o EXCEPT !.step = "done"]
           IN  /\ c \in Requests /\ c.command = o.command /\ c.from = o.from
               /\ c.awaited = o.awaited /\ c.step = "done" /\ c.told = o.told
  BY DEF Requests

LEMMA Answered ==
    ASSUME NEW o \in Requests, NEW told \in [ok : BOOLEAN, rows : SUBSET Places]
    PROVE  LET c == [o EXCEPT !.step = "done", !.told = told]
           IN  /\ c \in Requests /\ c.command = o.command /\ c.from = o.from
               /\ c.awaited = o.awaited /\ c.step = "done" /\ c.told = told
  BY DEF Requests

LEMMA ReceiptRead ==
    ASSUME NEW o \in Requests, NEW receipt \in Receipts
    PROVE  LET c == [o EXCEPT !.step = "read", !.receipt = receipt]
           IN  /\ c \in Requests /\ c.command = o.command /\ c.from = o.from
               /\ c.awaited = o.awaited /\ c.step = "read" /\ c.told = o.told
               /\ c.receipt = receipt
  BY DEF Requests

LEMMA DateRead ==
    ASSUME NEW o \in Requests, NEW date \in Nat
    PROVE  LET c == [o EXCEPT !.step = "read", !.date = date]
           IN  /\ c \in Requests /\ c.command = o.command /\ c.from = o.from
               /\ c.awaited = o.awaited /\ c.step = "read" /\ c.told = o.told
               /\ c.date = date
  BY DEF Requests

LEMMA Settled ==
    ASSUME NEW o \in Requests
    PROVE  LET c == [o EXCEPT !.awaited = FALSE]
           IN  /\ c \in Requests /\ c.command = o.command /\ c.from = o.from
               /\ c.awaited = FALSE /\ c.step = o.step /\ c.told = o.told
               /\ c.receipt = o.receipt /\ c.date = o.date
  BY DEF Requests

LEMMA RefuseFacts ==
    ASSUME Shape, NEW n \in DOMAIN calls, calls[n].step # "done", Refuse(n)
    PROVE  /\ CallsTyped' /\ OneAtATime' /\ Others(n)
           /\ calls'[n].step = "done" /\ ~calls'[n].told.ok
<1> DEFINE c == [calls[n] EXCEPT !.step = "done"]
<1>1. calls[n] \in Requests /\ ~calls[n].told.ok
  BY DEF Shape, CallsTyped
<1>2. /\ c \in Requests /\ c.command = calls[n].command /\ c.from = calls[n].from
      /\ c.awaited = calls[n].awaited /\ c.step = "done" /\ c.told = calls[n].told
  BY <1>1, Finished
<1>3. calls' = [calls EXCEPT ![n] = c]
  BY DEF Refuse
<1> HIDE DEF c
<1>. QED  BY <1>1, <1>2, <1>3, CallStep

LEMMA ReplyFacts ==
    ASSUME Shape, NEW n \in DOMAIN calls, NEW rows \in SUBSET Places, Reply(n, rows),
           calls[n].command.do \in {"add", "pay"} => rows = {Row(n)}
    PROVE  /\ CallsTyped' /\ OneAtATime' /\ Others(n)
           /\ calls'[n].step = "done" /\ calls'[n].told.rows = rows
<1> DEFINE t == Told(TRUE, rows)
           c == [calls[n] EXCEPT !.step = "done", !.told = t]
<1>1. calls[n] \in Requests
  BY DEF Shape, CallsTyped
<1>2. t \in [ok : BOOLEAN, rows : SUBSET Places] /\ t.rows = rows
  BY DEF Told
<1>3. calls' = [calls EXCEPT ![n] = c]
  BY <1>1 DEF Reply
<1> HIDE DEF t
<1>4. /\ c \in Requests /\ c.command = calls[n].command /\ c.from = calls[n].from
      /\ c.awaited = calls[n].awaited /\ c.step = "done" /\ c.told = t
  BY <1>1, <1>2, Answered
<1> HIDE DEF c
<1>. QED  BY <1>2, <1>3, <1>4, CallStep

\* The handler has read the receipt and goes on.
LEMMA ReceiptFacts ==
    ASSUME Shape, NEW n \in DOMAIN calls, calls[n].step = "sent",
           NEW receipt \in Receipts, calls[n].command.do # "pay",
           calls' = [calls EXCEPT ![n] = [calls[n] EXCEPT !.step = "read", !.receipt = receipt]]
    PROVE  /\ CallsTyped' /\ OneAtATime' /\ Others(n)
           /\ calls'[n].step = "read" /\ calls'[n].receipt = receipt
<1> DEFINE c == [calls[n] EXCEPT !.step = "read", !.receipt = receipt]
<1>1. calls[n] \in Requests /\ ~calls[n].told.ok
  BY DEF Shape, CallsTyped
<1>2. /\ c \in Requests /\ c.command = calls[n].command /\ c.from = calls[n].from
      /\ c.awaited = calls[n].awaited /\ c.step = "read" /\ c.told = calls[n].told
      /\ c.receipt = receipt
  BY <1>1, ReceiptRead
<1>3. calls' = [calls EXCEPT ![n] = c]
  OBVIOUS
<1> HIDE DEF c
<1>4. /\ ~c.told.ok /\ c.step # "done"
      /\ c.command.do = "pay" => c.date < Occurrences
  BY <1>1, <1>2
<1>5. CallsTyped' /\ OneAtATime' /\ Others(n) /\ calls'[n] = c
  BY <1>2, <1>3, <1>4, CallStep
<1>. QED  BY <1>2, <1>5

\* The handler has read the next date and goes on.
LEMMA DateFacts ==
    ASSUME Shape, NEW n \in DOMAIN calls, calls[n].step = "sent",
           NEW date \in Nat, calls[n].command.do = "pay" => date < Occurrences,
           calls' = [calls EXCEPT ![n] = [calls[n] EXCEPT !.step = "read", !.date = date]]
    PROVE  /\ CallsTyped' /\ OneAtATime' /\ Others(n)
           /\ calls'[n].step = "read"
<1> DEFINE c == [calls[n] EXCEPT !.step = "read", !.date = date]
<1>1. calls[n] \in Requests /\ ~calls[n].told.ok
  BY DEF Shape, CallsTyped
<1>2. /\ c \in Requests /\ c.command = calls[n].command /\ c.from = calls[n].from
      /\ c.awaited = calls[n].awaited /\ c.step = "read" /\ c.told = calls[n].told
      /\ c.date = date
  BY <1>1, DateRead
<1>3. calls' = [calls EXCEPT ![n] = c]
  OBVIOUS
<1> HIDE DEF c
<1>4. /\ ~c.told.ok /\ c.step # "done"
      /\ c.command.do = "pay" => c.date < Occurrences
  BY <1>1, <1>2
<1>5. CallsTyped' /\ OneAtATime' /\ Others(n) /\ calls'[n] = c
  BY <1>2, <1>3, <1>4, CallStep
<1>. QED  BY <1>2, <1>5

\* The browser no longer waits.
LEMMA SettleFacts ==
    ASSUME Shape, NEW n \in DOMAIN calls, calls' = [calls EXCEPT ![n].awaited = FALSE]
    PROVE  /\ CallsTyped' /\ OneAtATime' /\ Others(n)
           /\ calls'[n].step = calls[n].step /\ calls'[n].told = calls[n].told
           /\ calls'[n].receipt = calls[n].receipt
<1> DEFINE c == [calls[n] EXCEPT !.awaited = FALSE]
<1>1. calls[n] \in Requests
  BY DEF Shape, CallsTyped
<1>2. /\ c \in Requests /\ c.command = calls[n].command /\ c.from = calls[n].from
      /\ c.awaited = FALSE /\ c.step = calls[n].step /\ c.told = calls[n].told
      /\ c.receipt = calls[n].receipt /\ c.date = calls[n].date
  BY <1>1, Settled
<1>3. calls' = [calls EXCEPT ![n] = c]
  OBVIOUS
<1>4. /\ c.told.ok => c.step = "done"
      /\ c.step = "read" /\ c.command.do = "pay" => c.date < Occurrences
      /\ /\ c.step = "done" /\ c.told.ok /\ c.command.do \in {"add", "pay"}
         => c.told.rows = {Row(n)}
  BY <1>2 DEF Shape, CallsTyped
<1> HIDE DEF c
<1>. QED  BY <1>2, <1>3, <1>4, CallStep

-------------------------------------------------------------------------------
(* Every step keeps the shape.                                                  *)

LEMMA ShapeInit == Init => Shape
<1> SUFFICES ASSUME Init PROVE Shape
  OBVIOUS
<1>1. TablesTyped
  BY BoundsAreNat DEF Init, TablesTyped, Receipts, Unread
<1>2. BrowserTyped
  BY BoundsAreNat DEF Init, BrowserTyped
<1>3. CallsTyped /\ OneAtATime
  BY BoundsAreNat DEF Init, CallsTyped, OneAtATime
<1>. QED  BY <1>1, <1>2, <1>3 DEF Shape

\* A saved command, whatever it is.
LEMMA SaveStep ==
    ASSUME Shape, NEW command \in Commands, command.do \in Saved, Save(command)
    PROVE  TablesTyped' /\ CallsTyped' /\ OneAtATime'
<1>1. Entry(command, command) \in [forward : Commands, inverse : Commands]
  BY DEF Entry
<1>. QED  BY <1>1, SendStep DEF Save

LEMMA SaveImportShape ==
    ASSUME Shape, NEW f \in Files, SaveImport(f) PROVE Shape'
<1>1. Command("import", f, 0) \in Commands /\ Command("import", f, 0).do \in Saved
  BY MakeCommand DEF Kinds, Saved, Places
<1>2. TablesTyped' /\ CallsTyped' /\ OneAtATime'
  BY <1>1, SaveStep DEF SaveImport
<1>3. BrowserTyped'
  BY DEF Shape, BrowserTyped, SaveImport
<1>. QED  BY <1>2, <1>3 DEF Shape

LEMMA DispatchShape == ASSUME Shape, Dispatch PROVE Shape'
<1>1. Row(0) \in Places /\ ledger \subseteq Places
  BY RowFacts DEF Shape, TablesTyped
<1>2. PICK command \in Commands : command.do \in Saved /\ Save(command)
  <2>1. CASE Save(Command("add", Row(0), 0))
    BY <2>1, <1>1, MakeCommand DEF Kinds, Saved
  <2>2. ASSUME NEW x \in ledger, Save(Command("delete", x, 0))
        PROVE  \E command \in Commands : command.do \in Saved /\ Save(command)
    BY <2>2, <1>1, MakeCommand DEF Kinds, Saved
  <2>3. ASSUME NEW x \in ledger, Save(Command("mark", x, IF x \in cleared THEN 0 ELSE 1))
        PROVE  \E command \in Commands : command.do \in Saved /\ Save(command)
    BY <2>3, <1>1, MakeCommand DEF Kinds, Saved
  <2>4. CASE Save(Command("pay", Row(0), shown))
    <3>1. shown \in 0..Occurrences /\ shown \in Nat
      BY BoundsAreNat DEF Shape, BrowserTyped
    <3>. QED  BY <2>4, <3>1, <1>1, MakeCommand DEF Kinds, Saved
  <2>. QED  BY <2>1, <2>2, <2>3, <2>4 DEF Dispatch
<1>3. TablesTyped' /\ CallsTyped' /\ OneAtATime'
  BY <1>2, SaveStep
<1>4. BrowserTyped'
  BY DEF Shape, BrowserTyped, Dispatch, browser
<1>. QED  BY <1>3, <1>4 DEF Shape

LEMMA UndoShape == ASSUME Shape, Undo PROVE Shape'
<1>1. undo \in Seq(Kept) /\ redo \in Seq(Kept) /\ undo # <<>>
  BY DEF Shape, BrowserTyped, Undo
<1>2. Front(undo) \in Seq(Kept) /\ Last(undo) \in Kept
  BY <1>1, FrontFacts
<1>3. Last(undo).inverse \in Commands /\ Last(undo) \in [forward : Commands, inverse : Commands]
  BY <1>2 DEF Kept
<1>4. TablesTyped' /\ CallsTyped' /\ OneAtATime'
  <2>1. ~HistoryBusy /\ Send(Last(undo).inverse, "undo", Last(undo))
    BY DEF Undo
  <2>. QED  BY <1>2, <1>3, <2>1, SendStep
<1>5. BrowserTyped'
  BY <1>1, <1>2, AppendFacts DEF Shape, BrowserTyped, Undo
<1>. QED  BY <1>4, <1>5 DEF Shape

LEMMA RedoShape == ASSUME Shape, Redo PROVE Shape'
<1>1. undo \in Seq(Kept) /\ redo \in Seq(Kept) /\ redo # <<>>
  BY DEF Shape, BrowserTyped, Redo
<1>2. Front(redo) \in Seq(Kept) /\ Last(redo) \in Kept
  BY <1>1, FrontFacts
<1>3. Last(redo).forward \in Commands /\ Last(redo) \in [forward : Commands, inverse : Commands]
  BY <1>2 DEF Kept
<1>4. TablesTyped' /\ CallsTyped' /\ OneAtATime'
  <2>1. ~HistoryBusy /\ Send(Last(redo).forward, "redo", Last(redo))
    BY DEF Redo
  <2>. QED  BY <1>2, <1>3, <2>1, SendStep
<1>5. BrowserTyped'
  BY <1>1, <1>2, AppendFacts DEF Shape, BrowserTyped, Redo
<1>. QED  BY <1>4, <1>5 DEF Shape

\* What a handler that reads leaves of the requests: it refuses, answers an import with
\* the rows of its receipt, or goes on with the receipt that it has read.
ReadOf(n) ==
    LET f == calls[n].command.on
        c == calls'[n]
    IN  \/ c.step = "done" /\ ~c.told.ok
        \/ /\ c.step = "done" /\ c.told.rows = receipts[f].rows /\ receipts[f].state = "active"
           /\ calls[n].command.do = "import"
        \/ c.step = "done" /\ calls[n].command.do = "unimport"
        \/ /\ c.step = "read" /\ calls[n].command.do \in {"import", "unimport"}
           /\ c.receipt = receipts[f]
           /\ calls[n].command.do = "unimport" => receipts[f].state = "active"
        \/ c.step = "read" /\ calls[n].command.do \notin {"import", "unimport"}

LEMMA ReadFacts ==
    ASSUME Shape, NEW n \in DOMAIN calls, Read(n)
    PROVE  CallsTyped' /\ OneAtATime' /\ Others(n) /\ ReadOf(n)
<1> DEFINE o == calls[n]
           f == o.command.on
<1>1. /\ o \in Requests /\ o.command \in Commands /\ o.step = "sent" /\ o.step # "done"
      /\ o.command.do \in Kinds
  BY RequestFields, CommandFields DEF Shape, CallsTyped, Read
<1>2. CASE Refuse(n)
  BY <1>1, <1>2, RefuseFacts DEF ReadOf
<1>3. CASE o.command.do = "import"
  <2>1. f \in Files /\ receipts[f] \in Receipts /\ receipts[f].rows \in SUBSET Places
    BY <1>1, <1>3, CommandFields, RowFacts DEF Shape, TablesTyped, Receipts
  <2>2. CASE receipts[f].state = "active" /\ Reply(n, receipts[f].rows)
    <3>1. /\ CallsTyped' /\ OneAtATime' /\ Others(n)
          /\ calls'[n].step = "done" /\ calls'[n].told.rows = receipts[f].rows
      BY <2>1, <2>2, <1>3, ReplyFacts
    <3>. QED  BY <3>1, <2>2, <1>3 DEF ReadOf
  <2>3. CASE calls' = [calls EXCEPT ![n].step = "read", ![n].receipt = receipts[f]]
    <3>1. calls' = [calls EXCEPT ![n] = [calls[n] EXCEPT !.step = "read", !.receipt = receipts[f]]]
      BY <2>3
    <3>2. /\ CallsTyped' /\ OneAtATime' /\ Others(n)
          /\ calls'[n].step = "read" /\ calls'[n].receipt = receipts[f]
      BY <3>1, <2>1, <1>1, <1>3, ReceiptFacts
    <3>. QED  BY <3>2, <1>3 DEF ReadOf
  <2>. QED  BY <1>2, <1>3, <2>2, <2>3 DEF Read, ReadImport
<1>4. CASE o.command.do = "unimport"
  <2>1. f \in Files /\ receipts[f] \in Receipts /\ {} \in SUBSET Places
    BY <1>1, <1>4, CommandFields DEF Shape, TablesTyped
  <2>2. CASE Reply(n, {})
    <3>1. /\ CallsTyped' /\ OneAtATime' /\ Others(n) /\ calls'[n].step = "done"
      BY <2>1, <2>2, <1>4, ReplyFacts
    <3>. QED  BY <3>1, <1>4 DEF ReadOf
  <2>3. CASE /\ calls' = [calls EXCEPT ![n].step = "read", ![n].receipt = receipts[f]]
             /\ receipts[f].state = "active"
    <3>1. calls' = [calls EXCEPT ![n] = [calls[n] EXCEPT !.step = "read", !.receipt = receipts[f]]]
      BY <2>3
    <3>2. /\ CallsTyped' /\ OneAtATime' /\ Others(n)
          /\ calls'[n].step = "read" /\ calls'[n].receipt = receipts[f]
      BY <3>1, <2>1, <1>1, <1>4, ReceiptFacts
    <3>. QED  BY <3>2, <2>3, <1>4 DEF ReadOf
  <2>4. receipts[f].state \in {"none", "active", "undone"}
    BY <2>1 DEF Receipts
  <2>. QED  BY <1>2, <1>4, <2>2, <2>3, <2>4 DEF Read, ReadUndoImport
<1>5. CASE o.command.do \notin {"import", "unimport"}
  <2>1. ReadOther(n, o.command)
    BY <1>5 DEF Read
  <2>2. CASE GoOn(n) /\ ~(o.command.do = "pay" /\ due >= Occurrences)
    <3>1. due \in Nat /\ (o.command.do = "pay" => due < Occurrences)
      BY <2>2, BoundsAreNat DEF Shape, TablesTyped
    <3>2. calls' = [calls EXCEPT ![n] = [calls[n] EXCEPT !.step = "read", !.date = due]]
      BY <2>2 DEF GoOn
    <3>3. CallsTyped' /\ OneAtATime' /\ Others(n) /\ calls'[n].step = "read"
      BY <3>1, <3>2, <1>1, DateFacts, BoundsAreNat DEF Shape, TablesTyped
    <3>. QED  BY <3>3, <1>5 DEF ReadOf
  <2>. QED  BY <1>2, <2>1, <2>2 DEF ReadOther
<1>. QED  BY <1>3, <1>4, <1>5

LEMMA ReadShape == ASSUME Shape, NEW n \in DOMAIN calls, Read(n) PROVE Shape'
<1>1. TablesTyped'
  BY DEF Shape, TablesTyped, Read, server
<1>2. BrowserTyped'
  BY DEF Shape, BrowserTyped, Read, browser
<1>. QED  BY <1>1, <1>2, ReadFacts DEF Shape

\* A batch of an import, of its repetition and of its undo: the receipt it leaves.
Settles(n) ==
    LET f == calls[n].command.on
        c == calls'[n]
    IN  \/ ~c.told.ok /\ UNCHANGED receipts
        \/ /\ calls[n].command.do = "import" /\ receipts[f].state = "active"
           /\ c.told.rows = receipts[f].rows /\ UNCHANGED receipts
        \/ /\ calls[n].command.do = "import" /\ receipts'[f].state = "active"
           /\ c.told.rows = receipts'[f].rows
        \/ calls[n].command.do = "unimport"

\* Mentioned rows are those of the table, so every answer is well-formed.
LEMMA RefuseWrites ==
    ASSUME Shape, NEW n \in DOMAIN calls, calls[n].step = "read", Refuse(n)
    PROVE  /\ CallsTyped' /\ OneAtATime' /\ Others(n) /\ calls'[n].step = "done"
           /\ ~calls'[n].told.ok
  BY RefuseFacts

LEMMA ReadReceipt ==
    ASSUME Shape, NEW n \in DOMAIN calls
    PROVE  /\ calls[n] \in Requests /\ calls[n].command \in Commands
           /\ calls[n].receipt.rows \in SUBSET Imported /\ n \in 1..MaxCalls
           /\ Row(n) \in Rows /\ Row(n) \in Singles /\ Imported \subseteq Places
<1>1. calls \in Seq(Requests) /\ Len(calls) <= MaxCalls
  BY DEF Shape, CallsTyped
<1>2. calls[n] \in Requests /\ n \in 1..MaxCalls
  BY <1>1, BoundsAreNat
<1>3. calls[n].command \in Commands /\ calls[n].receipt \in Receipts
  BY <1>2, RequestFields
<1>. QED  BY <1>2, <1>3, RowFacts, BoundsAreNat DEF Receipts

\* The tables after an import: the rows that are written are rows of the table.
LEMMA ImportTables ==
    ASSUME Shape, NEW n \in DOMAIN calls, NEW rows \in SUBSET Imported,
           \/ receipts' = receipts
           \/ \E f \in Files, state \in {"active", "undone"} : Receipt(f, state, rows),
           ledger' \subseteq ledger \union rows, deleted' \subseteq deleted,
           cleared' = cleared \intersect ledger', UNCHANGED due
    PROVE  TablesTyped'
<1>1. receipts' \in [Files -> Receipts]
  BY DEF Shape, TablesTyped, Receipt, Receipts
<1>2. ledger' \subseteq Rows /\ cleared' \subseteq ledger' /\ deleted' \subseteq Rows
  BY RowFacts DEF Shape, TablesTyped
<1>3. due' \in 0..Occurrences
  BY DEF Shape, TablesTyped
<1>4. (Receipts)' = Receipts /\ (Rows)' = Rows
  BY DEF Receipts, Imported, Rows
<1>. QED  BY <1>1, <1>2, <1>3 DEF TablesTyped

LEMMA NewRows ==
    ASSUME Shape, NEW n \in DOMAIN calls, NEW lines \in SUBSET Lines
    PROVE  {n} \X lines \in SUBSET Imported
  BY ReadReceipt, LinesAreRows DEF Imported, Rows

LEMMA ImportShape ==
    ASSUME Shape, NEW n \in DOMAIN calls, calls[n].step = "read", Import(n)
    PROVE  /\ TablesTyped' /\ CallsTyped' /\ OneAtATime' /\ Others(n)
           /\ calls'[n].step = "done" /\ Settles(n)
<1> DEFINE f == calls[n].command.on
<1>1. /\ calls[n] \in Requests /\ calls[n].command \in Commands
      /\ calls[n].receipt.rows \in SUBSET Imported /\ n \in 1..MaxCalls
      /\ Imported \subseteq Places
  BY ReadReceipt
<1>2. /\ calls[n].command.do \in {"import", "unimport"}
      /\ cleared' = cleared \intersect ledger' /\ UNCHANGED due
  BY DEF Import
<1>3. f \in Files /\ receipts[f] \in Receipts /\ receipts[f].rows \in SUBSET Imported
  BY <1>1, <1>2, CommandFields DEF Shape, TablesTyped, Receipts
<1>4. CASE Refuse(n) /\ UNCHANGED <<receipts, ledger, deleted>>
  <2>1. TablesTyped'
    BY <1>2, <1>4 DEF Shape, TablesTyped
  <2>. QED  BY <2>1, <1>4, RefuseWrites DEF Settles
<1>5. CASE /\ calls[n].command.do = "import" /\ receipts[f].state = "active"
           /\ Reply(n, receipts[f].rows)
           /\ UNCHANGED <<receipts, ledger, deleted>>
  <2>1. TablesTyped'
    BY <1>2, <1>5 DEF Shape, TablesTyped
  <2>2. /\ CallsTyped' /\ OneAtATime' /\ Others(n)
        /\ calls'[n].step = "done" /\ calls'[n].told.rows = receipts[f].rows
    BY <1>1, <1>3, <1>5, ReplyFacts
  <2>. QED  BY <2>1, <2>2, <1>5 DEF Settles
<1>6. ASSUME NEW rows \in SUBSET Imported,
             calls[n].command.do = "import", Receipt(f, "active", rows),
             ledger' = ledger \union rows, deleted' \subseteq deleted, Reply(n, rows)
      PROVE  /\ TablesTyped' /\ CallsTyped' /\ OneAtATime' /\ Others(n)
             /\ calls'[n].step = "done" /\ Settles(n)
  <2>1. TablesTyped'
    BY <1>2, <1>3, <1>6, ImportTables
  <2>2. /\ CallsTyped' /\ OneAtATime' /\ Others(n)
        /\ calls'[n].step = "done" /\ calls'[n].told.rows = rows
    BY <1>1, <1>6, ReplyFacts
  <2>3. receipts'[f] = [state |-> "active", rows |-> rows]
    BY <1>3, <1>6 DEF Receipt, Shape, TablesTyped
  <2>. QED  BY <2>1, <2>2, <2>3, <1>6 DEF Settles
<1>7. CASE /\ calls[n].command.do = "unimport" /\ Receipt(f, "undone", calls[n].receipt.rows)
           /\ ledger' = ledger \ calls[n].receipt.rows
           /\ Reply(n, {}) /\ UNCHANGED deleted
  <2>1. TablesTyped'
    BY <1>1, <1>2, <1>3, <1>7, ImportTables
  <2>2. /\ CallsTyped' /\ OneAtATime' /\ Others(n) /\ calls'[n].step = "done"
    BY <1>7, ReplyFacts
  <2>. QED  BY <2>1, <2>2, <1>7 DEF Settles
<1>8. CASE calls[n].command.do = "unimport"
  <2>1. WriteUndoImport(n, f)
    BY <1>8 DEF Import
  <2>2. CASE Receives(f, "active")
    BY <2>1, <2>2, <1>7, <1>8 DEF WriteUndoImport
  <2>3. CASE ~Receives(f, "active")
    BY <2>1, <2>3, <1>4 DEF WriteUndoImport
  <2>. QED  BY <2>2, <2>3
<1>9. CASE calls[n].command.do = "import" /\ calls[n].receipt.state = "undone"
  <2>1. WriteAgain(n, f)
    BY <1>9 DEF Import
  <2>2. CASE Receives(f, "undone")
    <3>1. /\ Receipt(f, "active", calls[n].receipt.rows)
          /\ ledger' = ledger \union calls[n].receipt.rows
          /\ deleted' \subseteq deleted /\ Reply(n, calls[n].receipt.rows)
      BY <2>1, <2>2 DEF WriteAgain
    <3>. QED  BY <3>1, <1>1, <1>6, <1>9
  <2>. QED  BY <2>1, <2>2, <1>4 DEF WriteAgain
<1>10. CASE calls[n].command.do = "import" /\ calls[n].receipt.state # "undone"
  <2>1. WriteImport(n, f)
    BY <1>10 DEF Import
  <2>2. ASSUME NEW lines \in SUBSET Lines, Receipt(f, "active", {n} \X lines),
               ledger' = ledger \union ({n} \X lines), Reply(n, {n} \X lines),
               UNCHANGED deleted
        PROVE  /\ TablesTyped' /\ CallsTyped' /\ OneAtATime' /\ Others(n)
               /\ calls'[n].step = "done" /\ Settles(n)
    <3>1. {n} \X lines \in SUBSET Imported
      BY NewRows
    <3>. QED  BY <3>1, <2>2, <1>6, <1>10
  <2>. QED  BY <2>1, <2>2, <1>4, <1>5, <1>10 DEF WriteImport
<1>. QED  BY <1>2, <1>8, <1>9, <1>10

LEMMA OneRowShape ==
    ASSUME Shape, NEW n \in DOMAIN calls, calls[n].step = "read",
           Add(n) \/ Delete(n) \/ Mark(n) \/ Pay(n) \/ Unpay(n)
    PROVE  /\ TablesTyped' /\ CallsTyped' /\ OneAtATime' /\ Others(n)
           /\ calls'[n].step = "done" /\ UNCHANGED receipts
<1> DEFINE c == calls[n].command
<1>1. /\ calls[n] \in Requests /\ c \in Commands /\ n \in 1..MaxCalls
      /\ Row(n) \in Rows /\ Row(n) \in Singles /\ Rows \subseteq Places
  BY ReadReceipt, RowFacts
<1>2. c.on \in Places /\ c.to \in Nat /\ (c.do \in {"pay", "unpay"} => c.to \in 0..Occurrences)
  BY <1>1, CommandFields
<1>3. {} \in SUBSET Places /\ {c.on} \in SUBSET Places /\ {Row(n)} \in SUBSET Places
  BY <1>1, <1>2
<1>4. CASE Add(n)
  <2>1. TablesTyped'
    BY <1>1, <1>4 DEF Shape, TablesTyped, Add
  <2>2. CallsTyped' /\ OneAtATime' /\ Others(n) /\ calls'[n].step = "done"
    BY <1>3, <1>4, ReplyFacts DEF Add
  <2>. QED  BY <2>1, <2>2, <1>4 DEF Add
<1>5. CASE Delete(n)
  <2>1. TablesTyped'
    BY <1>1, <1>5 DEF Shape, TablesTyped, Delete
  <2>2. CallsTyped' /\ OneAtATime' /\ Others(n) /\ calls'[n].step = "done"
    BY <1>3, <1>5, ReplyFacts DEF Delete
  <2>. QED  BY <2>1, <2>2, <1>5 DEF Delete
<1>6. CASE Mark(n)
  <2>1. TablesTyped'
    BY <1>1, <1>6 DEF Shape, TablesTyped, Mark
  <2>2. CallsTyped' /\ OneAtATime' /\ Others(n) /\ calls'[n].step = "done"
    BY <1>3, <1>6, ReplyFacts DEF Mark
  <2>. QED  BY <2>1, <2>2, <1>6 DEF Mark
<1>7. CASE Pay(n)
  <2>1. calls[n].date + 1 \in 0..Occurrences
    <3>1. calls[n].date \in Nat /\ calls[n].date < Occurrences
      BY <1>1, <1>7, RequestFields DEF Shape, CallsTyped, Pay
    <3>. QED  BY <3>1, BoundsAreNat
  <2>2. TablesTyped'
    BY <1>1, <1>7, <2>1 DEF Shape, TablesTyped, Pay
  <2>3. CallsTyped' /\ OneAtATime' /\ Others(n) /\ calls'[n].step = "done"
    BY <1>3, <1>7, ReplyFacts DEF Pay
  <2>. QED  BY <2>2, <2>3, <1>7 DEF Pay
<1>8. CASE Unpay(n)
  <2>1. TablesTyped'
    BY <1>1, <1>2, <1>8 DEF Shape, TablesTyped, Unpay
  <2>2. CallsTyped' /\ OneAtATime' /\ Others(n) /\ calls'[n].step = "done"
    BY <1>3, <1>8, ReplyFacts DEF Unpay
  <2>. QED  BY <2>1, <2>2, <1>8 DEF Unpay
<1>. QED  BY <1>4, <1>5, <1>6, <1>7, <1>8

LEMMA WriteShape == ASSUME Shape, NEW n \in DOMAIN calls, Write(n) PROVE Shape'
<1>1. TablesTyped' /\ CallsTyped' /\ OneAtATime'
  BY ImportShape, OneRowShape DEF Write
<1>2. BrowserTyped'
  BY DEF Shape, BrowserTyped, Write, browser
<1>. QED  BY <1>1, <1>2 DEF Shape

LEMMA FailedBrowser ==
    ASSUME Shape, NEW n \in DOMAIN calls, Failed(n) PROVE BrowserTyped'
<1>1. undo \in Seq(Kept) /\ redo \in Seq(Kept) /\ calls[n] \in Requests
  BY DEF Shape, BrowserTyped, CallsTyped
<1>2. undo' \in Seq(Kept) /\ redo' \in Seq(Kept)
  <2>1. CASE calls[n].from = "save"
    BY <2>1, <1>1 DEF Failed
  <2>2. CASE calls[n].from = "undo"
    <3>1. calls[n].entry \in Kept
      BY <2>2, <1>1, RequestFields
    <3>. QED  BY <3>1, <2>2, <1>1, StackFacts DEF Failed
  <2>3. CASE calls[n].from = "redo"
    <3>1. calls[n].entry \in Kept
      BY <2>3, <1>1, RequestFields
    <3>. QED  BY <3>1, <2>3, <1>1, StackFacts DEF Failed
  <2>. QED  BY <2>1, <2>2, <2>3, <1>1, RequestFields
<1>3. /\ shown' \in 0..Occurrences
      /\ dialog' \in [Files -> {"new", "saving", "failed", "saved"}]
  BY DEF Failed, Dialog, Shape, BrowserTyped
<1>. QED  BY <1>2, <1>3 DEF BrowserTyped

LEMMA WorkedBrowser ==
    ASSUME Shape, NEW n \in DOMAIN calls, calls[n].step = "done", calls[n].told.ok, Worked(n)
    PROVE  BrowserTyped'
<1> DEFINE o == calls[n]
           rows == o.told.rows
<1>1. /\ undo \in Seq(Kept) /\ redo \in Seq(Kept) /\ o \in Requests
      /\ o.command.do \in {"add", "pay"} => rows = {Row(n)}
  BY DEF Shape, BrowserTyped, CallsTyped
<1>2. Row(n) \in Singles /\ o.command \in Commands
  BY ReadReceipt
<1>3. undo' \in Seq(Kept) /\ redo' \in Seq(Kept)
  <2>1. CASE o.from = "save"
    <3>1. Entry(o.command, TakenBackBy(o.command, rows)) \in Kept
      BY <2>1, <1>1, <1>2, RequestFields, TakenBackFacts
    <3>2. Push(o.command, rows)
      BY <2>1 DEF Worked
    <3>3. Append(undo, Entry(o.command, TakenBackBy(o.command, rows))) \in Seq(Kept)
          /\ <<>> \in Seq(Kept)
      BY <3>1, <1>1, AppendFacts
    <3>. QED  BY <3>2, <3>3, <1>1 DEF Push
  <2>2. CASE o.from = "undo"
    <3>1. o.entry \in Kept /\ o.command = o.entry.inverse
      BY <2>2, <1>1, RequestFields
    <3>2. Retarget(o.entry, o.from, rows) \in Kept
      BY <2>2, <3>1, <1>1, <1>2, RetargetFacts
    <3>3. Retargeted(o, redo) \in Seq(Kept)
      BY <3>2, <1>1, StackFacts DEF Retargeted
    <3>. QED  BY <3>3, <2>2, <1>1 DEF Worked
  <2>3. CASE o.from = "redo"
    <3>1. o.entry \in Kept /\ o.command = o.entry.forward
      BY <2>3, <1>1, RequestFields
    <3>2. Retarget(o.entry, o.from, rows) \in Kept
      BY <2>3, <3>1, <1>1, <1>2, RetargetFacts
    <3>3. Retargeted(o, undo) \in Seq(Kept)
      BY <3>2, <1>1, StackFacts DEF Retargeted
    <3>. QED  BY <3>3, <2>3, <1>1 DEF Worked
  <2>. QED  BY <2>1, <2>2, <2>3, <1>1, RequestFields
<1>4. /\ shown' \in 0..Occurrences
      /\ dialog' \in [Files -> {"new", "saving", "failed", "saved"}]
  BY DEF Worked, Dialog, Shape, BrowserTyped
<1>. QED  BY <1>3, <1>4 DEF BrowserTyped

LEMMA AnswerShape == ASSUME Shape, NEW n \in DOMAIN calls, Answer(n) PROVE Shape'
<1>1. CallsTyped' /\ OneAtATime'
  BY SettleFacts DEF Answer
<1>2. TablesTyped'
  BY DEF Shape, TablesTyped, Answer, server
<1>3. BrowserTyped'
  BY FailedBrowser, WorkedBrowser DEF Answer
<1>. QED  BY <1>1, <1>2, <1>3 DEF Shape

LEMMA LoseShape == ASSUME Shape, NEW n \in DOMAIN calls, Lose(n) PROVE Shape'
<1>1. CallsTyped' /\ OneAtATime'
  BY SettleFacts DEF Lose
<1>2. TablesTyped'
  BY DEF Shape, TablesTyped, Lose, server
<1>3. BrowserTyped'
  BY FailedBrowser DEF Lose
<1>. QED  BY <1>1, <1>2, <1>3 DEF Shape

\* The list that was fetched arrives: only the date the browser shows is touched.
LEMMA ListShape == ASSUME Shape, Refetch PROVE Shape'
<1>1. due \in 0..Occurrences /\ shown \in 0..Occurrences
  BY DEF Shape, TablesTyped, BrowserTyped
<1>2. /\ UNCHANGED <<receipts, ledger, cleared, due, deleted, calls, undo, redo, dialog>>
      /\ shown' \in 0..Occurrences
  BY <1>1 DEF Refetch, server
<1>. QED  BY <1>2 DEF Shape, TablesTyped, BrowserTyped, CallsTyped, OneAtATime, Row

LEMMA ShapeStep == Shape /\ [Next]_vars => Shape'
<1> SUFFICES ASSUME Shape, [Next]_vars PROVE Shape'
  OBVIOUS
<1>1. CASE \E f \in Files : SaveImport(f)
  BY <1>1, SaveImportShape
<1>2. CASE Dispatch
  BY <1>2, DispatchShape
<1>3. CASE Undo
  BY <1>3, UndoShape
<1>4. CASE Redo
  BY <1>4, RedoShape
<1>5. CASE \E n \in DOMAIN calls : Read(n) \/ Write(n) \/ Answer(n) \/ Lose(n)
  BY <1>5, ReadShape, WriteShape, AnswerShape, LoseShape
<1>6. CASE UNCHANGED vars
  BY <1>6 DEF Shape, TablesTyped, BrowserTyped, CallsTyped, OneAtATime, vars, server, browser, Row
<1>7. CASE Refetch
  BY <1>7, ListShape
<1>. QED  BY <1>1, <1>2, <1>3, <1>4, <1>5, <1>6, <1>7 DEF Next

\* However often it is saved, undone, redone and lost: the tables, the browser and the
\* requests hold what they should, and the history waits for at most one answer.
THEOREM MoneyTypesHold == Spec => []TypeOK
<1>1. ASSUME Shape PROVE TypeOK
  <2>1. Cardinality({n \in InFlight : calls[n].from # "save"}) <= 1
    <3> DEFINE W == {n \in InFlight : calls[n].from # "save"}
    <3>1. CASE W = {}
      BY <3>1, FS_EmptySet
    <3>2. CASE W # {}
      <4>1. PICK n \in W : TRUE
        BY <3>2
      <4>2. W = {n}
        BY <4>1, <1>1 DEF Shape, OneAtATime, InFlight
      <4>. QED  BY <4>2, FS_Singleton
    <3>. QED  BY <3>1, <3>2
  <2>. QED  BY <1>1, <2>1 DEF Shape, TablesTyped, BrowserTyped, CallsTyped, Receipts, TypeOK
<1>. QED  BY <1>1, ShapeInit, ShapeStep, PTL DEF Spec

-------------------------------------------------------------------------------
(* Receipts, rows and answers.                                                  *)

\* A receipt that was there when a handler read it is there still, with its rows: only
\* its state changes.
ReadStillThere ==
    \A m \in DOMAIN calls :
        LET f == calls[m].command.on
        IN  calls[m].step = "read" /\ calls[m].command.do \in {"import", "unimport"} =>
              /\ calls[m].command.do = "unimport" => calls[m].receipt.state # "none"
              /\ calls[m].receipt.state # "none" =>
                    receipts[f].state # "none" /\ calls[m].receipt.rows = receipts[f].rows

\* What an import was told is still what its receipt says.
ToldStillTrue ==
    \A m \in DOMAIN calls :
        LET f == calls[m].command.on
        IN  calls[m].command.do = "import" /\ calls[m].step = "done" /\ calls[m].told.ok =>
              receipts[f].state # "none" /\ calls[m].told.rows = receipts[f].rows

\* The rows of a receipt were made by a request of its dialog that has been answered.
ReceiptsHaveRequests ==
    \A f \in Files : \A x \in receipts[f].rows :
        /\ x[1] \in DOMAIN calls
        /\ calls[x[1]].command.do = "import" /\ calls[x[1]].command.on = f
        /\ calls[x[1]].step = "done"

\* Every row, deleted ones included, was made by a request that has been answered.
RowsHaveRequests ==
    \A x \in ledger \union deleted : x[1] \in DOMAIN calls /\ calls[x[1]].step = "done"

Records == ReadStillThere /\ ToldStillTrue /\ ReceiptsHaveRequests /\ RowsHaveRequests

MoneyInv == Shape /\ Records /\ ReceiptsTellTheLedger

LEMMA RecordsInit == Init => Records /\ ReceiptsTellTheLedger
<1> SUFFICES ASSUME Init PROVE Records /\ ReceiptsTellTheLedger
  OBVIOUS
<1>1. ReadStillThere /\ ToldStillTrue /\ RowsHaveRequests
  BY DEF Init, ReadStillThere, ToldStillTrue, RowsHaveRequests
<1>2. ReceiptsHaveRequests
  BY DEF Init, Unread, ReceiptsHaveRequests
<1>3. ReceiptsTellTheLedger
  <2>1. {g \in Files : receipts[g].state = "active"} = {}
    BY DEF Init, Unread
  <2>. QED  BY <2>1 DEF Init, ReceiptsTellTheLedger, Named
<1>. QED  BY <1>1, <1>2, <1>3 DEF Records

LEMMA TellsUnchanged ==
    ASSUME ReceiptsTellTheLedger, UNCHANGED <<receipts, ledger, deleted>>
    PROVE  ReceiptsTellTheLedger'
  BY DEF ReceiptsTellTheLedger, Named, Imported, Rows

\* A new request has not read, told or made anything.
LEMMA SendRecords ==
    ASSUME MoneyInv, NEW command, NEW from, NEW entry, Send(command, from, entry),
           calls' \in Seq(Requests)
    PROVE  Records' /\ ReceiptsTellTheLedger'
<1> DEFINE c == NewCall(command, from, entry)
<1>0. c.step = "sent"
  BY DEF NewCall
<1> HIDE DEF c
<1>1. calls \in Seq(Requests) /\ calls' = Append(calls, c) /\ UNCHANGED <<receipts, ledger, deleted>>
  BY DEF MoneyInv, Shape, CallsTyped, Send, server, c
<1>2. /\ DOMAIN calls' = DOMAIN calls \union {Len(calls) + 1}
      /\ \A i \in DOMAIN calls : calls'[i] = calls[i]
      /\ calls'[Len(calls) + 1].step = "sent"
  BY <1>0, <1>1
<1>3. ReadStillThere' /\ ToldStillTrue'
  BY <1>1, <1>2 DEF MoneyInv, Records, ReadStillThere, ToldStillTrue
<1>4. ReceiptsHaveRequests' /\ RowsHaveRequests'
  BY <1>1, <1>2 DEF MoneyInv, Records, ReceiptsHaveRequests, RowsHaveRequests
<1>. QED  BY <1>1, <1>3, <1>4, TellsUnchanged DEF MoneyInv, Records

\* A request that has not written keeps every row's request.
LEMMA RequestsStay ==
    ASSUME Records, NEW n \in DOMAIN calls, Others(n),
           calls[n].step = "done" => calls'[n].step = "done",
           UNCHANGED <<receipts, ledger, deleted>>
    PROVE  ReceiptsHaveRequests' /\ RowsHaveRequests'
<1>1. \A m \in DOMAIN calls : /\ m \in DOMAIN calls' /\ calls'[m].command = calls[m].command
                              /\ calls[m].step = "done" => calls'[m].step = "done"
  BY DEF Others
<1>. QED  BY <1>1 DEF Records, ReceiptsHaveRequests, RowsHaveRequests

LEMMA ReadRecords ==
    ASSUME MoneyInv, NEW n \in DOMAIN calls, Read(n)
    PROVE  Records' /\ ReceiptsTellTheLedger'
<1> DEFINE f == calls[n].command.on
<1>1. /\ Others(n) /\ ReadOf(n) /\ calls[n].step = "sent"
      /\ UNCHANGED <<receipts, ledger, deleted>>
  BY ReadFacts DEF MoneyInv, Read, server
<1>2. ReadStillThere'
  <2> SUFFICES ASSUME NEW m \in DOMAIN calls, calls'[m].step = "read",
                      calls[m].command.do \in {"import", "unimport"}
               PROVE  /\ calls[m].command.do = "unimport" => calls'[m].receipt.state # "none"
                      /\ calls'[m].receipt.state # "none" =>
                            /\ receipts[calls[m].command.on].state # "none"
                            /\ calls'[m].receipt.rows = receipts[calls[m].command.on].rows
    <3>1. DOMAIN calls' = DOMAIN calls /\ \A k \in DOMAIN calls : calls'[k].command = calls[k].command
      BY <1>1 DEF Others
    <3>. QED  BY <1>1, <3>1 DEF ReadStillThere
  <2>1. CASE m = n
    BY <2>1, <1>1 DEF ReadOf
  <2>2. CASE m # n
    BY <2>2, <1>1 DEF Others, MoneyInv, Records, ReadStillThere
  <2>. QED  BY <2>1, <2>2
<1>3. ToldStillTrue'
  <2> SUFFICES ASSUME NEW m \in DOMAIN calls, calls'[m].step = "done", calls'[m].told.ok,
                      calls[m].command.do = "import"
               PROVE  /\ receipts[calls[m].command.on].state # "none"
                      /\ calls'[m].told.rows = receipts[calls[m].command.on].rows
    <3>1. DOMAIN calls' = DOMAIN calls /\ \A k \in DOMAIN calls : calls'[k].command = calls[k].command
      BY <1>1 DEF Others
    <3>. QED  BY <1>1, <3>1 DEF ToldStillTrue
  <2>1. CASE m = n
    BY <2>1, <1>1 DEF ReadOf
  <2>2. CASE m # n
    BY <2>2, <1>1 DEF Others, MoneyInv, Records, ToldStillTrue
  <2>. QED  BY <2>1, <2>2
<1>4. ReceiptsHaveRequests' /\ RowsHaveRequests'
  BY <1>1, RequestsStay DEF MoneyInv
<1>. QED  BY <1>1, <1>2, <1>3, <1>4, TellsUnchanged DEF MoneyInv, Records

LEMMA SettleRecords ==
    ASSUME MoneyInv, NEW n \in DOMAIN calls, calls' = [calls EXCEPT ![n].awaited = FALSE],
           UNCHANGED server
    PROVE  Records' /\ ReceiptsTellTheLedger'
<1>1. /\ Others(n) /\ calls'[n].step = calls[n].step /\ calls'[n].told = calls[n].told
      /\ calls'[n].receipt = calls[n].receipt /\ UNCHANGED <<receipts, ledger, deleted>>
  BY SettleFacts DEF MoneyInv, server
<1>2. DOMAIN calls' = DOMAIN calls
      /\ \A m \in DOMAIN calls :
            /\ calls'[m].command = calls[m].command /\ calls'[m].step = calls[m].step
            /\ calls'[m].told = calls[m].told /\ calls'[m].receipt = calls[m].receipt
  BY <1>1 DEF Others
<1>3. ReadStillThere' /\ ToldStillTrue'
  BY <1>1, <1>2 DEF MoneyInv, Records, ReadStillThere, ToldStillTrue
<1>4. ReceiptsHaveRequests' /\ RowsHaveRequests'
  BY <1>1, RequestsStay DEF MoneyInv
<1>. QED  BY <1>1, <1>3, <1>4, TellsUnchanged DEF MoneyInv, Records

\* The four outcomes of an import's batch.
Nothing == UNCHANGED <<receipts, ledger, deleted>>

WroteFirst(n, f) ==
    \E lines \in SUBSET Lines :
        /\ receipts[f].state = "none" /\ Receipt(f, "active", {n} \X lines)
        /\ ledger' = ledger \union ({n} \X lines) /\ UNCHANGED deleted

WroteAgain(f) ==
    /\ receipts[f].state = "undone" /\ Receipt(f, "active", receipts[f].rows)
    /\ ledger' = ledger \union receipts[f].rows /\ deleted' = deleted \ receipts[f].rows

TookBack(f) ==
    /\ receipts[f].state = "active" /\ Receipt(f, "undone", receipts[f].rows)
    /\ ledger' = ledger \ receipts[f].rows /\ UNCHANGED deleted

LEMMA ImportOutcomes ==
    ASSUME MoneyInv, NEW n \in DOMAIN calls, calls[n].step = "read", Import(n)
    PROVE  LET f == calls[n].command.on
           IN  /\ f \in Files /\ calls[n].command.do \in {"import", "unimport"}
               /\ \/ Nothing
                  \/ calls[n].command.do = "import" /\ WroteFirst(n, f)
                  \/ WroteAgain(f)
                  \/ TookBack(f)
<1> DEFINE f == calls[n].command.on
           r == calls[n].receipt
<1>1. f \in Files /\ calls[n].command.do \in {"import", "unimport"}
  BY ReadReceipt, CommandFields DEF MoneyInv, Import
<1>2. r.state # "none" => r.rows = receipts[f].rows
  BY <1>1 DEF MoneyInv, Records, ReadStillThere
<1>3. CASE calls[n].command.do = "unimport" /\ WriteUndoImport(n, f)
  <2>1. r.state # "none"
    BY <1>3 DEF MoneyInv, Records, ReadStillThere
  <2>2. CASE Receives(f, "active")
    BY <1>1, <1>2, <1>3, <2>1, <2>2 DEF WriteUndoImport, Receives, TookBack
  <2>3. CASE ~Receives(f, "active")
    BY <1>1, <1>3, <2>3 DEF WriteUndoImport, Nothing
  <2>. QED  BY <1>1, <2>2, <2>3
<1>4. CASE r.state = "undone" /\ WriteAgain(n, f)
  <2>1. CASE Receives(f, "undone")
    BY <1>1, <1>2, <1>4, <2>1 DEF WriteAgain, Receives, WroteAgain
  <2>2. CASE ~Receives(f, "undone")
    BY <1>1, <1>4, <2>2 DEF WriteAgain, Nothing
  <2>. QED  BY <1>1, <2>1, <2>2
<1>5. CASE calls[n].command.do = "import" /\ WriteImport(n, f)
  BY <1>1, <1>5 DEF WriteImport, Receives, WroteFirst, Nothing
<1>. QED  BY <1>1, <1>3, <1>4, <1>5 DEF Import

\* An outcome leaves the other receipts alone, and a receipt that was there keeps its rows.
LEMMA OutcomeFacts ==
    ASSUME MoneyInv, NEW n \in DOMAIN calls, calls[n].step = "read", Import(n)
    PROVE  \A g \in Files :
              /\ receipts[g].state # "none" =>
                    receipts'[g].state # "none" /\ receipts'[g].rows = receipts[g].rows
              /\ g # calls[n].command.on => receipts'[g] = receipts[g]
              /\ \A x \in receipts'[g].rows :
                    \/ x \in receipts[g].rows
                    \/ /\ x[1] = n /\ g = calls[n].command.on
                       /\ calls[n].command.do = "import"
<1> DEFINE f == calls[n].command.on
<1>1. receipts \in [Files -> Receipts] /\ f \in Files
  BY ImportOutcomes DEF MoneyInv, Shape, TablesTyped
<1>2. CASE Nothing
  BY <1>2 DEF Nothing
<1>3. ASSUME NEW lines \in SUBSET Lines, calls[n].command.do = "import",
             receipts[f].state = "none", Receipt(f, "active", {n} \X lines)
      PROVE  \A g \in Files :
                /\ receipts[g].state # "none" =>
                      receipts'[g].state # "none" /\ receipts'[g].rows = receipts[g].rows
                /\ g # f => receipts'[g] = receipts[g]
                /\ \A x \in receipts'[g].rows :
                      x \in receipts[g].rows \/ (x[1] = n /\ g = f)
  BY <1>1, <1>3 DEF Receipt
<1>4. CASE WroteAgain(f)
  BY <1>1, <1>4 DEF WroteAgain, Receipt
<1>5. CASE TookBack(f)
  BY <1>1, <1>5 DEF TookBack, Receipt
<1>. QED  BY <1>2, <1>3, <1>4, <1>5, ImportOutcomes DEF WroteFirst

LEMMA ImportRecords ==
    ASSUME MoneyInv, NEW n \in DOMAIN calls, calls[n].step = "read", Import(n)
    PROVE  Records'
<1> DEFINE f == calls[n].command.on
<1>1. /\ Others(n) /\ calls'[n].step = "done" /\ Settles(n)
      /\ f \in Files /\ calls[n].command.do \in {"import", "unimport"}
  BY ImportShape, ImportOutcomes DEF MoneyInv
<1>2. /\ DOMAIN calls' = DOMAIN calls
      /\ \A m \in DOMAIN calls : calls'[m].command = calls[m].command
      /\ \A m \in DOMAIN calls : m # n => calls'[m] = calls[m]
      /\ \A m \in DOMAIN calls : calls[m].step = "done" => calls'[m].step = "done"
  BY <1>1 DEF Others
<1>3. \A m \in DOMAIN calls : calls[m].command.do \in {"import", "unimport"} =>
                                  calls[m].command.on \in Files
  BY ReadReceipt, CommandFields DEF MoneyInv
<1>4. \A g \in Files : receipts[g].state # "none" =>
            receipts'[g].state # "none" /\ receipts'[g].rows = receipts[g].rows
  BY OutcomeFacts
<1>5. ReadStillThere'
  <2> SUFFICES ASSUME NEW m \in DOMAIN calls, m # n, calls[m].step = "read",
                      calls[m].command.do \in {"import", "unimport"}
               PROVE  /\ calls[m].command.do = "unimport" => calls[m].receipt.state # "none"
                      /\ calls[m].receipt.state # "none" =>
                            /\ receipts'[calls[m].command.on].state # "none"
                            /\ calls[m].receipt.rows = receipts'[calls[m].command.on].rows
    BY <1>1, <1>2 DEF ReadStillThere
  <2>. QED  BY <1>3, <1>4 DEF MoneyInv, Records, ReadStillThere
<1>6. ToldStillTrue'
  <2> SUFFICES ASSUME NEW m \in DOMAIN calls, calls'[m].step = "done", calls'[m].told.ok,
                      calls[m].command.do = "import"
               PROVE  /\ receipts'[calls[m].command.on].state # "none"
                      /\ calls'[m].told.rows = receipts'[calls[m].command.on].rows
    BY <1>2 DEF ToldStillTrue
  <2>1. CASE m # n
    BY <2>1, <1>2, <1>3, <1>4 DEF MoneyInv, Records, ToldStillTrue
  <2>2. CASE m = n
    BY <2>2, <1>1 DEF Settles
  <2>. QED  BY <2>1, <2>2
<1>7. ReceiptsHaveRequests'
  <2> SUFFICES ASSUME NEW g \in Files, NEW x \in receipts'[g].rows
               PROVE  /\ x[1] \in DOMAIN calls' /\ calls'[x[1]].command.do = "import"
                      /\ calls'[x[1]].command.on = g /\ calls'[x[1]].step = "done"
    BY DEF ReceiptsHaveRequests
  <2>1. CASE x \in receipts[g].rows
    BY <2>1, <1>2 DEF MoneyInv, Records, ReceiptsHaveRequests
  <2>2. CASE x[1] = n /\ g = f /\ calls[n].command.do = "import"
    BY <2>2, <1>1, <1>2
  <2>. QED  BY <2>1, <2>2, OutcomeFacts
<1>8. RowsHaveRequests'
  <2> SUFFICES ASSUME NEW x \in ledger' \union deleted'
               PROVE  x[1] \in DOMAIN calls' /\ calls'[x[1]].step = "done"
    BY DEF RowsHaveRequests
  <2>1. CASE x \in ledger \union deleted
    BY <2>1, <1>2 DEF MoneyInv, Records, RowsHaveRequests
  <2>2. CASE x \in receipts[f].rows
    BY <2>2, <1>1, <1>2 DEF MoneyInv, Records, ReceiptsHaveRequests
  <2>3. CASE x[1] = n
    BY <2>3, <1>1, <1>2
  <2>4. x \in ledger \union deleted \/ x \in receipts[f].rows \/ x[1] = n
    <3>1. CASE Nothing \/ WroteAgain(f) \/ TookBack(f)
      BY <3>1 DEF Nothing, WroteAgain, TookBack
    <3>2. CASE WroteFirst(n, f)
      BY <3>2 DEF WroteFirst
    <3>. QED  BY <3>1, <3>2, ImportOutcomes
  <2>. QED  BY <2>1, <2>2, <2>3, <2>4
<1>. QED  BY <1>5, <1>6, <1>7, <1>8 DEF Records

LEMMA ImportTells ==
    ASSUME MoneyInv, NEW n \in DOMAIN calls, calls[n].step = "read", Import(n)
    PROVE  ReceiptsTellTheLedger'
<1> DEFINE f == calls[n].command.on
<1>1. /\ f \in Files /\ receipts \in [Files -> Receipts] /\ ledger \subseteq Rows
      /\ \A g \in Files : receipts[g].rows \subseteq Imported
  BY ImportOutcomes DEF MoneyInv, Shape, TablesTyped, Receipts
<1>2. ledger \intersect Imported = Named \ deleted
  BY DEF MoneyInv, ReceiptsTellTheLedger
<1>3. SUFFICES (ledger \intersect Imported = Named \ deleted)'
  BY DEF ReceiptsTellTheLedger
<1>4. CASE Nothing
  BY <1>4, TellsUnchanged DEF Nothing, MoneyInv, ReceiptsTellTheLedger
<1>5. ASSUME NEW lines \in SUBSET Lines,
             receipts[f].state = "none", Receipt(f, "active", {n} \X lines),
             ledger' = ledger \union ({n} \X lines), UNCHANGED deleted
      PROVE  (ledger \intersect Imported = Named \ deleted)'
  <2>1. Named' = Named \union ({n} \X lines)
    BY <1>1, <1>5 DEF Named, Receipt
  <2>2. ({n} \X lines) \subseteq Imported /\ Imported' = Imported
    BY NewRows DEF MoneyInv, Imported, Rows
  <2>3. \A x \in {n} \X lines : x \notin deleted
    BY DEF MoneyInv, Records, RowsHaveRequests
  <2>. QED  BY <1>2, <1>5, <2>1, <2>2, <2>3
<1>6. CASE WroteAgain(f)
  <2>1. Named' = Named \union receipts[f].rows
    BY <1>1, <1>6 DEF Named, Receipt, WroteAgain
  <2>2. receipts[f].rows \subseteq Imported /\ Imported' = Imported
    BY <1>1 DEF Imported, Rows
  <2>. QED  BY <1>2, <1>6, <2>1, <2>2 DEF WroteAgain
<1>7. CASE TookBack(f)
  <2>1. \A g \in Files \ {f} : receipts[g].rows \intersect receipts[f].rows = {}
    BY <1>1 DEF MoneyInv, Records, ReceiptsHaveRequests
  <2>2. Named' = Named \ receipts[f].rows
    BY <1>1, <1>7, <2>1 DEF Named, Receipt, TookBack
  <2>3. Imported' = Imported
    BY DEF Imported, Rows
  <2>. QED  BY <1>2, <1>7, <2>2, <2>3 DEF TookBack
<1>. QED  BY <1>4, <1>5, <1>6, <1>7, ImportOutcomes DEF WroteFirst

\* The commands that make, delete or mark one row.
LEMMA OneRowRecords ==
    ASSUME MoneyInv, NEW n \in DOMAIN calls, calls[n].step = "read",
           Add(n) \/ Delete(n) \/ Mark(n) \/ Pay(n) \/ Unpay(n)
    PROVE  Records' /\ ReceiptsTellTheLedger'
<1>1. /\ Others(n) /\ calls'[n].step = "done" /\ UNCHANGED receipts
      /\ calls[n].command.do \notin {"import", "unimport"}
  BY OneRowShape DEF MoneyInv, Add, Delete, Mark, Pay, Unpay
<1>2. /\ DOMAIN calls' = DOMAIN calls
      /\ \A m \in DOMAIN calls : calls'[m].command = calls[m].command
      /\ \A m \in DOMAIN calls : m # n => calls'[m] = calls[m]
      /\ \A m \in DOMAIN calls : calls[m].step = "done" => calls'[m].step = "done"
  BY <1>1 DEF Others
<1>3. \A x \in ledger' \union deleted' : x \in ledger \union deleted \/ x = Row(n)
  BY DEF Add, Delete, Mark, Pay, Unpay
<1>4. ReadStillThere' /\ ToldStillTrue' /\ ReceiptsHaveRequests'
  BY <1>1, <1>2 DEF MoneyInv, Records, ReadStillThere, ToldStillTrue, ReceiptsHaveRequests
<1>5. RowsHaveRequests'
  BY <1>1, <1>2, <1>3 DEF MoneyInv, Records, RowsHaveRequests, Row
<1>6. ReceiptsTellTheLedger'
  <2>1. Imported' = Imported /\ \A x \in Singles : x \notin Imported
    BY LinesAreRows DEF Imported, Rows, Singles
  <2>2. Row(n) \notin Imported
    BY <2>1, ReadReceipt DEF MoneyInv
  <2>3. ledger' \intersect Imported = (ledger \intersect Imported) \ deleted'
        /\ deleted \subseteq deleted' /\ deleted' \subseteq deleted \union ledger
        /\ \A x \in deleted' \ deleted : x \notin ledger'
    <3>1. CASE Unpay(n)
      <4>1. calls[n].command.on \in Singles
        BY <3>1, ReadReceipt, CommandFields DEF MoneyInv, Unpay
      <4>. QED  BY <3>1, <4>1, <2>1 DEF Unpay, MoneyInv, ReceiptsTellTheLedger
    <3>2. CASE Add(n) \/ Pay(n) \/ Mark(n)
      BY <3>2, <2>2 DEF Add, Pay, Mark, MoneyInv, ReceiptsTellTheLedger
    <3>3. CASE Delete(n)
      BY <3>3 DEF Delete, MoneyInv, ReceiptsTellTheLedger
    <3>. QED  BY <3>1, <3>2, <3>3
  <2>4. Named' = Named
    BY <1>1 DEF Named
  <2>. QED  BY <2>1, <2>3, <2>4 DEF MoneyInv, ReceiptsTellTheLedger
<1>. QED  BY <1>4, <1>5, <1>6 DEF Records

LEMMA MoneyInit == Init => MoneyInv
BY ShapeInit, RecordsInit DEF MoneyInv

LEMMA MoneyStep == MoneyInv /\ [Next]_vars => MoneyInv'
<1> SUFFICES ASSUME MoneyInv, [Next]_vars PROVE MoneyInv'
  OBVIOUS
<1>1. Shape'
  BY ShapeStep DEF MoneyInv
<1>2. SUFFICES Records' /\ ReceiptsTellTheLedger'
  BY <1>1 DEF MoneyInv
<1>3. calls' \in Seq(Requests)
  BY <1>1 DEF Shape, CallsTyped
<1>4. CASE \E f \in Files : SaveImport(f)
  BY <1>3, <1>4, SendRecords DEF SaveImport, Save
<1>5. CASE Dispatch
  BY <1>3, <1>5, SendRecords DEF Dispatch, Save
<1>6. CASE Undo
  BY <1>3, <1>6, SendRecords DEF Undo
<1>7. CASE Redo
  BY <1>3, <1>7, SendRecords DEF Redo
<1>8. ASSUME NEW n \in DOMAIN calls, Read(n) \/ Write(n) \/ Answer(n) \/ Lose(n)
      PROVE  Records' /\ ReceiptsTellTheLedger'
  BY <1>8, ReadRecords, ImportRecords, ImportTells, OneRowRecords, SettleRecords
     DEF Write, Answer, Lose
<1>9. CASE Refetch \/ UNCHANGED vars
  <2>1. UNCHANGED <<receipts, ledger, deleted, calls>>
    BY <1>9 DEF Refetch, vars, server
  <2>2. Records'
    BY <2>1 DEF MoneyInv, Records, ReadStillThere, ToldStillTrue, ReceiptsHaveRequests,
                RowsHaveRequests
  <2>. QED  BY <2>1, <2>2, TellsUnchanged DEF MoneyInv
<1>. QED  BY <1>4, <1>5, <1>6, <1>7, <1>8, <1>9 DEF Next

\* Every answer that an import has ever had names the rows of its receipt, however often
\* it was sent, undone and sent again.
THEOREM RetriesAgree == Spec => []RetriesReturnTheSameImport
<1>1. MoneyInv => RetriesReturnTheSameImport
  BY DEF MoneyInv, Records, ToldStillTrue, RetriesReturnTheSameImport
<1>. QED  BY <1>1, MoneyInit, MoneyStep, PTL DEF Spec

\* The imported rows of the ledger are those of the active receipts, less what was
\* deleted row by row, whatever requests run side by side and whatever answers are lost.
THEOREM ReceiptsAreTrue == Spec => []ReceiptsTellTheLedger
<1>1. MoneyInv => ReceiptsTellTheLedger
  BY DEF MoneyInv
<1>. QED  BY <1>1, MoneyInit, MoneyStep, PTL DEF Spec

-------------------------------------------------------------------------------
(* The two stacks as one line of entries, from the oldest to the one undone     *)
(* first: undoing and redoing move the place where the line is cut.             *)

Maker(e)    == e.forward.do \in {"add", "pay"}
Importer(e) == e.forward.do = "import"

PaysOf(s) == {i \in DOMAIN s : s[i].forward.do = "pay"}
PaysBefore(w, i) == {j \in PaysOf(w) : j < i}

Line(u, r) ==
    [i \in 1..(Len(u) + Len(r)) |->
        IF i <= Len(u) THEN u[i] ELSE r[Len(u) + Len(r) + 1 - i]]

\* No entry deletes; the date to which a payment goes back counts the payments before
\* it; and a file is imported by one entry, which takes that import back.
InOrder(w) ==
    /\ \A i \in DOMAIN w : w[i].forward.do # "delete"
    /\ \A i \in PaysOf(w) : w[i].inverse.to = Cardinality(PaysBefore(w, i))
    /\ \A i, j \in DOMAIN w :
          Importer(w[i]) /\ Importer(w[j]) /\ w[i].forward.on = w[j].forward.on => i = j
    /\ \A i \in DOMAIN w : Importer(w[i]) => w[i].inverse.on = w[i].forward.on

\* The rows an entry stands for under the receipts rec, and those of a stack.
StandsIn(rec, e) ==
    CASE Importer(e) -> rec[e.forward.on].rows
      [] Maker(e)    -> {e.inverse.on}
      [] OTHER       -> {}

RowsOf(rec, u) == UNION {StandsIn(rec, u[i]) : i \in DOMAIN u}

\* The stacks u and r explain the rows led, the next date du and the receipts rec.
Explains(u, r, led, du, rec) ==
    /\ u \in Seq(Kept) /\ r \in Seq(Kept)
    /\ InOrder(Line(u, r))
    /\ led = RowsOf(rec, u)
    /\ du = Cardinality(PaysOf(u))
    /\ \A i \in DOMAIN u : Maker(u[i]) => u[i].inverse.on \in Singles
    /\ \A i, j \in DOMAIN u :
          Maker(u[i]) /\ Maker(u[j]) /\ u[i].inverse.on = u[j].inverse.on => i = j
    /\ \A i \in DOMAIN u : Importer(u[i]) => rec[u[i].forward.on].state = "active"
    /\ \A i \in DOMAIN r : Importer(r[i]) => rec[r[i].forward.on].state = "undone"

LEMMA EntryFields ==
    ASSUME NEW e \in Kept
    PROVE  /\ e.forward \in Commands /\ e.inverse \in Commands /\ TakesBack(e.forward, e.inverse)
           /\ e = [forward |-> e.forward, inverse |-> e.inverse]
           /\ Importer(e) => e.forward.on \in Files
           /\ e.forward.do \in Saved
  BY DEF Kept, TakesBack, Importer, Commands, Saved

LEMMA LineFacts ==
    ASSUME NEW u \in Seq(Kept), NEW r \in Seq(Kept)
    PROVE  /\ DOMAIN Line(u, r) = 1..(Len(u) + Len(r))
           /\ \A i \in DOMAIN u : Line(u, r)[i] = u[i] /\ i \in 1..Len(u)
           /\ \A i \in DOMAIN r : /\ Len(u) + Len(r) + 1 - i \in DOMAIN Line(u, r)
                                  /\ Len(u) + Len(r) + 1 - i > Len(u)
                                  /\ Line(u, r)[Len(u) + Len(r) + 1 - i] = r[i]
           /\ \A i \in DOMAIN Line(u, r) : i > Len(u) => Len(u) + Len(r) + 1 - i \in DOMAIN r
           /\ \A i \in DOMAIN Line(u, r) : Line(u, r)[i] \in Kept /\ i \in Nat
<1>1. /\ DOMAIN u = 1..Len(u) /\ Len(u) \in Nat /\ DOMAIN r = 1..Len(r) /\ Len(r) \in Nat
      /\ \A i \in DOMAIN u : u[i] \in Kept
      /\ \A i \in DOMAIN r : r[i] \in Kept
  OBVIOUS
<1>2. DOMAIN Line(u, r) = 1..(Len(u) + Len(r))
  BY DEF Line
<1>3. \A i \in DOMAIN u : Line(u, r)[i] = u[i] /\ i \in 1..Len(u)
  BY <1>1 DEF Line
<1>4. \A i \in DOMAIN r : /\ Len(u) + Len(r) + 1 - i \in DOMAIN Line(u, r)
                          /\ Len(u) + Len(r) + 1 - i > Len(u)
  BY <1>1, <1>2
<1>5. \A i \in DOMAIN r : Line(u, r)[Len(u) + Len(r) + 1 - i] = r[i]
  <2> TAKE i \in DOMAIN r
  <2> DEFINE k == Len(u) + Len(r) + 1 - i
  <2>1. k \in 1..(Len(u) + Len(r)) /\ k > Len(u) /\ Len(u) + Len(r) + 1 - k = i
    BY <1>1
  <2>. QED  BY <2>1, <1>1 DEF Line
<1>6. \A i \in DOMAIN Line(u, r) : i > Len(u) => Len(u) + Len(r) + 1 - i \in DOMAIN r
  BY <1>1, <1>2
<1>7. \A i \in DOMAIN Line(u, r) : Line(u, r)[i] \in Kept /\ i \in Nat
  BY <1>1, <1>2 DEF Line
<1>. QED  BY <1>2, <1>3, <1>4, <1>5, <1>6, <1>7

\* An undo and a redo that change no entry leave the line as it is.
LEMMA LineStays ==
    ASSUME NEW u \in Seq(Kept), NEW r \in Seq(Kept), NEW e \in Kept
    PROVE  Line(Append(u, e), r) = Line(u, Append(r, e))
<1> DEFINE n == Len(u)
           m == Len(r)
           v == Append(u, e)
           q == Append(r, e)
<1>1. /\ n \in Nat /\ m \in Nat /\ Len(v) = n + 1 /\ Len(q) = m + 1
      /\ v[n + 1] = e /\ q[m + 1] = e
      /\ \A i \in 1..n : v[i] = u[i]
      /\ \A i \in 1..m : q[i] = r[i]
  OBVIOUS
<1> HIDE DEF n, m, v, q
<1>2. Line(v, r) = [i \in 1..(Len(v) + m) |-> IF i <= Len(v) THEN v[i] ELSE r[Len(v) + m + 1 - i]]
  BY DEF Line, m
<1>3. Line(u, q) = [i \in 1..(n + Len(q)) |-> IF i <= n THEN u[i] ELSE q[n + Len(q) + 1 - i]]
  BY DEF Line, n
<1>4. Len(v) + m = n + Len(q)
  BY <1>1
<1>5. ASSUME NEW i \in 1..(n + Len(q))
      PROVE  (IF i <= Len(v) THEN v[i] ELSE r[Len(v) + m + 1 - i])
                = (IF i <= n THEN u[i] ELSE q[n + Len(q) + 1 - i])
  <2>1. CASE i <= n
    BY <2>1, <1>1
  <2>2. CASE i = n + 1
    <3>1. n + Len(q) + 1 - i = m + 1 /\ i <= Len(v) /\ ~(i <= n)
      BY <2>2, <1>1
    <3>. QED  BY <3>1, <2>2, <1>1
  <2>3. CASE i > n + 1
    <3>1. /\ n + Len(q) + 1 - i = Len(v) + m + 1 - i /\ Len(v) + m + 1 - i \in 1..m
          /\ ~(i <= Len(v)) /\ ~(i <= n)
      BY <2>3, <1>1
    <3>. QED  BY <3>1, <1>1
  <2>. QED  BY <2>1, <2>2, <2>3, <1>1
<1>6. Line(v, r) = Line(u, q)
  BY <1>2, <1>3, <1>4, <1>5
<1>. QED  BY <1>6 DEF v, q

\* The entry on top of the undo stack, in the line.
LEMMA LineTop ==
    ASSUME NEW u \in Seq(Kept), NEW r \in Seq(Kept), NEW e \in Kept
    PROVE  LET w == Line(Append(u, e), r)
           IN  /\ Len(u) + 1 \in DOMAIN w /\ w[Len(u) + 1] = e
               /\ DOMAIN w = 1..(Len(u) + 1 + Len(r))
               /\ \A i \in DOMAIN u : i \in DOMAIN w /\ w[i] = u[i] /\ i < Len(u) + 1
               /\ PaysBefore(w, Len(u) + 1) = PaysOf(u)
<1> DEFINE v == Append(u, e)
           w == Line(v, r)
<1>1. /\ v \in Seq(Kept) /\ Len(v) = Len(u) + 1 /\ DOMAIN v = DOMAIN u \union {Len(u) + 1}
      /\ \A i \in DOMAIN u : v[i] = u[i] /\ i <= Len(u)
      /\ v[Len(u) + 1] = e
  BY AppendFacts
<1> HIDE DEF v
<1>2. /\ DOMAIN w = 1..(Len(v) + Len(r))
      /\ \A i \in DOMAIN v : w[i] = v[i] /\ i \in 1..Len(v)
  BY <1>1, LineFacts
<1> HIDE DEF w
<1>3. Len(u) \in Nat /\ Len(r) \in Nat /\ DOMAIN u = 1..Len(u)
  OBVIOUS
<1>4. /\ Len(u) + 1 \in DOMAIN w /\ w[Len(u) + 1] = e
      /\ DOMAIN w = 1..(Len(u) + 1 + Len(r))
      /\ \A i \in DOMAIN u : i \in DOMAIN w /\ w[i] = u[i] /\ i < Len(u) + 1
  BY <1>1, <1>2, <1>3
<1>5. PaysBefore(w, Len(u) + 1) = PaysOf(u)
  <2>1. \A i \in DOMAIN w : i < Len(u) + 1 <=> i \in DOMAIN u
    BY <1>3, <1>4
  <2>. QED  BY <1>4, <2>1 DEF PaysBefore, PaysOf
<1>. QED  BY <1>4, <1>5 DEF w, v

\* Renaming the row of one entry changes no order.
LEMMA OrderStays ==
    ASSUME NEW u \in Seq(Kept), NEW r \in Seq(Kept), NEW e \in Kept, NEW d \in Kept,
           d.forward = e.forward, d.inverse.to = e.inverse.to,
           Importer(e) => d.inverse.on = e.inverse.on,
           InOrder(Line(Append(u, e), r))
    PROVE  InOrder(Line(Append(u, d), r))
<1> DEFINE w == Line(Append(u, e), r)
           v == Line(Append(u, d), r)
<1>1. DOMAIN v = DOMAIN w
  BY LineTop
<1>2. \A i \in DOMAIN w : /\ v[i].forward = w[i].forward /\ v[i].inverse.to = w[i].inverse.to
                          /\ Importer(w[i]) => v[i].inverse.on = w[i].inverse.on
  <2> TAKE i \in DOMAIN w
  <2>1. CASE i = Len(u) + 1
    BY <2>1, LineTop
  <2>2. CASE i \in DOMAIN u
    BY <2>2, LineTop
  <2>3. CASE i > Len(u) + 1
    <3>1. Len(Append(u, e)) = Len(u) + 1 /\ Len(Append(u, d)) = Len(u) + 1
      OBVIOUS
    <3>2. ~(i <= Len(u) + 1) /\ i \in 1..(Len(u) + 1 + Len(r))
      BY <2>3, LineTop
    <3>. QED  BY <3>1, <3>2 DEF Line
  <2>4. i \in 1..(Len(u) + 1 + Len(r)) /\ Len(u) \in Nat /\ DOMAIN u = 1..Len(u)
    BY LineTop
  <2>. QED  BY <2>1, <2>2, <2>3, <2>4
<1> HIDE DEF v, w
<1>3. InOrder(w)
  BY DEF w
<1>4. PaysOf(v) = PaysOf(w)
  BY <1>1, <1>2 DEF PaysOf
<1>5. \A i \in DOMAIN w : PaysBefore(v, i) = PaysBefore(w, i)
  BY <1>4 DEF PaysBefore
<1>6. InOrder(v)
  <2>1. \A i \in PaysOf(v) : v[i].inverse.to = Cardinality(PaysBefore(v, i))
    BY <1>1, <1>2, <1>3, <1>4, <1>5 DEF InOrder, PaysOf
  <2>2. \A i \in DOMAIN v : v[i].forward.do # "delete"
    BY <1>1, <1>2, <1>3 DEF InOrder
  <2>3. \A i, j \in DOMAIN v :
           Importer(v[i]) /\ Importer(v[j]) /\ v[i].forward.on = v[j].forward.on => i = j
    BY <1>1, <1>2, <1>3 DEF InOrder, Importer
  <2>4. \A i \in DOMAIN v : Importer(v[i]) => v[i].inverse.on = v[i].forward.on
    BY <1>1, <1>2, <1>3 DEF InOrder, Importer
  <2>. QED  BY <2>1, <2>2, <2>3, <2>4 DEF InOrder
<1>. QED  BY <1>6 DEF v

\* A new entry in the place of what had been undone, of which nothing is left in q.
LEMMA OrderGrows ==
    ASSUME NEW u \in Seq(Kept), NEW r \in Seq(Kept), NEW e \in Kept,
           NEW q \in Seq(Kept), Len(q) = 0,
           InOrder(Line(u, r)), e.forward.do # "delete",
           e.forward.do = "pay" => e.inverse.to = Cardinality(PaysOf(u)),
           Importer(e) => e.inverse.on = e.forward.on,
           Importer(e) => \A i \in DOMAIN u : Importer(u[i]) => u[i].forward.on # e.forward.on
    PROVE  InOrder(Line(Append(u, e), q))
<1> DEFINE w == Line(Append(u, e), q)
           l == Line(u, r)
           k == Len(u) + 1
<1>0. /\ Len(q) = 0 /\ Len(u) \in Nat /\ DOMAIN u = 1..Len(u)
      /\ Len(r) \in Nat
  OBVIOUS
<1>1. /\ DOMAIN w = DOMAIN u \union {k} /\ w[k] = e
      /\ \A i \in DOMAIN u : w[i] = u[i] /\ i < k
      /\ PaysBefore(w, k) = PaysOf(u)
  <2>1. \A p \in Seq(Kept) :
           LET x == Line(Append(u, e), p)
           IN  /\ DOMAIN x = 1..(Len(u) + 1 + Len(p)) /\ x[Len(u) + 1] = e
               /\ \A i \in DOMAIN u : x[i] = u[i] /\ i < Len(u) + 1
               /\ PaysBefore(x, Len(u) + 1) = PaysOf(u)
    BY LineTop
  <2>2. /\ DOMAIN w = 1..(Len(u) + 1 + Len(q)) /\ w[k] = e
        /\ \A i \in DOMAIN u : w[i] = u[i] /\ i < k
        /\ PaysBefore(w, k) = PaysOf(u)
    BY <2>1, Zenon
  <2>3. 1..(Len(u) + 1 + Len(q)) = DOMAIN u \union {k}
    BY <1>0
  <2>. QED  BY <2>2, <2>3
<1>2. \A i \in DOMAIN u : i \in DOMAIN l /\ l[i] = u[i]
  <2>1. /\ DOMAIN l = 1..(Len(u) + Len(r))
        /\ \A i \in DOMAIN u : l[i] = u[i] /\ i \in 1..Len(u)
    BY LineFacts
  <2> HIDE DEF l
  <2>. QED  BY <1>0, <2>1
<1>3. \A i \in DOMAIN l : i \in Nat /\ (i \in DOMAIN u \/ i > Len(u))
  BY <1>0, LineFacts
<1>4. \A i \in DOMAIN u : PaysBefore(w, i) = PaysBefore(l, i)
  <2> TAKE i \in DOMAIN u
  <2>1. \A j \in DOMAIN w : j < i => j \in DOMAIN u
    BY <1>0, <1>1
  <2>2. \A j \in DOMAIN l : j < i => j \in DOMAIN u
    BY <1>0, <1>3
  <2>. QED  BY <1>1, <1>2, <2>1, <2>2 DEF PaysBefore, PaysOf
<1> HIDE DEF w, l, k
<1>5. InOrder(l)
  BY DEF l
<1>6. \A i \in DOMAIN w : w[i].forward.do # "delete"
  BY <1>1, <1>2, <1>5 DEF InOrder
<1>7. \A i \in PaysOf(w) : w[i].inverse.to = Cardinality(PaysBefore(w, i))
  <2> SUFFICES ASSUME NEW i \in DOMAIN w, w[i].forward.do = "pay"
               PROVE  w[i].inverse.to = Cardinality(PaysBefore(w, i))
    BY DEF PaysOf
  <2>1. CASE i = k
    BY <2>1, <1>1
  <2>2. CASE i \in DOMAIN u
    <3>1. i \in PaysOf(l)
      BY <2>2, <1>1, <1>2 DEF PaysOf
    <3>. QED  BY <3>1, <2>2, <1>1, <1>2, <1>4, <1>5 DEF InOrder
  <2>. QED  BY <2>1, <2>2, <1>1
<1>8. \A i, j \in DOMAIN w :
         Importer(w[i]) /\ Importer(w[j]) /\ w[i].forward.on = w[j].forward.on => i = j
  BY <1>1, <1>2, <1>5 DEF InOrder
<1>9. \A i \in DOMAIN w : Importer(w[i]) => w[i].inverse.on = w[i].forward.on
  BY <1>1, <1>2, <1>5 DEF InOrder
<1>. QED  BY <1>6, <1>7, <1>8, <1>9 DEF InOrder, w

LEMMA CountPays ==
    ASSUME NEW u \in Seq(Kept), NEW e \in Kept
    PROVE  /\ e.forward.do = "pay" =>
                 Cardinality(PaysOf(Append(u, e))) = Cardinality(PaysOf(u)) + 1
           /\ e.forward.do # "pay" => PaysOf(Append(u, e)) = PaysOf(u)
           /\ Cardinality(PaysOf(u)) \in Nat
<1> DEFINE v == Append(u, e)
           k == Len(u) + 1
<1>1. /\ DOMAIN v = DOMAIN u \union {k} /\ v[k] = e
      /\ \A i \in DOMAIN u : v[i] = u[i] /\ i <= Len(u)
      /\ Len(u) \in Nat /\ DOMAIN u = 1..Len(u)
  BY AppendFacts
<1>2. k \notin DOMAIN u
  BY <1>1
<1> HIDE DEF v, k
<1>3. IsFiniteSet(PaysOf(u))
  <2>1. IsFiniteSet(1..Len(u))
    BY <1>1, FS_Interval
  <2>2. PaysOf(u) \subseteq 1..Len(u)
    BY <1>1 DEF PaysOf
  <2>. QED  BY <2>1, <2>2, FS_Subset
<1>4. Cardinality(PaysOf(u)) \in Nat
  BY <1>3, FS_CardinalityType
<1>5. CASE e.forward.do = "pay"
  <2>1. PaysOf(v) = PaysOf(u) \union {k} /\ k \notin PaysOf(u)
    BY <1>1, <1>2, <1>5 DEF PaysOf
  <2>2. Cardinality(PaysOf(v)) = Cardinality(PaysOf(u)) + 1
    BY <2>1, <1>3, FS_AddElement
  <2>. QED  BY <2>2, <1>4, <1>5 DEF v
<1>6. CASE e.forward.do # "pay"
  <2>1. PaysOf(v) = PaysOf(u)
    BY <1>1, <1>2, <1>6 DEF PaysOf
  <2>. QED  BY <2>1, <1>4, <1>6 DEF v
<1>. QED  BY <1>5, <1>6

-------------------------------------------------------------------------------
(* What an undo and a redo do to the tables, and to what the stacks explain.    *)

Apart(rec) ==
    /\ rec \in [Files -> Receipts]
    /\ \A f, g \in Files : f # g => rec[f].rows \intersect rec[g].rows = {}

\* The receipts were rec and are rec2: no other receipt than that of e has changed.
OthersStay(e, rec, rec2) ==
    IF Importer(e) THEN \A g \in Files : g # e.forward.on => rec2[g] = rec[g] ELSE rec2 = rec

LEMMA RowsGrow ==
    ASSUME NEW u \in Seq(Kept), NEW e \in Kept, NEW rec
    PROVE  RowsOf(rec, Append(u, e)) = RowsOf(rec, u) \union StandsIn(rec, e)
<1> DEFINE v == Append(u, e)
<1>1. /\ DOMAIN v = DOMAIN u \union {Len(u) + 1}
      /\ \A i \in DOMAIN u : v[i] = u[i]
      /\ v[Len(u) + 1] = e
  BY AppendFacts
<1> HIDE DEF v
<1>2. RowsOf(rec, v) = RowsOf(rec, u) \union StandsIn(rec, e)
  BY <1>1 DEF RowsOf
<1>. QED  BY <1>2 DEF v

\* What the entries below one stand for is none of its rows.
LEMMA TopApart ==
    ASSUME NEW u \in Seq(Kept), NEW r \in Seq(Kept), NEW e \in Kept,
           NEW led, NEW du, NEW rec, Apart(rec), Explains(Append(u, e), r, led, du, rec)
    PROVE  RowsOf(rec, u) \intersect StandsIn(rec, e) = {}
<1> DEFINE v == Append(u, e)
           w == Line(v, r)
           k == Len(u) + 1
<1>1. /\ DOMAIN v = DOMAIN u \union {k} /\ v[k] = e
      /\ \A i \in DOMAIN u : v[i] = u[i] /\ i <= Len(u)
      /\ Len(u) \in Nat
  BY AppendFacts
<1>2. /\ k \in DOMAIN w /\ w[k] = e
      /\ \A i \in DOMAIN u : i \in DOMAIN w /\ w[i] = u[i] /\ i < k
  BY LineTop
<1> HIDE DEF v, w, k
<1>3. /\ InOrder(w)
      /\ \A i \in DOMAIN v : Maker(v[i]) => v[i].inverse.on \in Singles
      /\ \A i, j \in DOMAIN v :
            Maker(v[i]) /\ Maker(v[j]) /\ v[i].inverse.on = v[j].inverse.on => i = j
  BY DEF Explains, v, w
<1>4. ASSUME NEW i \in DOMAIN u PROVE StandsIn(rec, u[i]) \intersect StandsIn(rec, e) = {}
  <2>0. i # k /\ u[i] \in Kept
    BY <1>1, <1>2
  <2>1. \A f \in Files : rec[f].rows \subseteq Imported
    BY DEF Apart, Receipts
  <2>2. \A x \in Singles : x \notin Imported
    BY LinesAreRows DEF Imported, Rows, Singles
  <2>3. CASE Importer(u[i]) /\ Importer(e)
    <3>1. u[i].forward.on # e.forward.on
      BY <1>2, <1>3, <2>0, <2>3 DEF InOrder
    <3>2. u[i].forward.on \in Files /\ e.forward.on \in Files
      BY <2>0, <2>3, EntryFields
    <3>3. rec[u[i].forward.on].rows \intersect rec[e.forward.on].rows = {}
      BY <3>1, <3>2 DEF Apart
    <3>. QED  BY <2>3, <3>3 DEF StandsIn, Importer, Maker
  <2>4. CASE Importer(u[i]) /\ Maker(e)
    <3>1. e.inverse.on \in Singles /\ u[i].forward.on \in Files
      BY <1>1, <1>3, <2>0, <2>4, EntryFields
    <3>. QED  BY <2>1, <2>2, <2>4, <3>1 DEF StandsIn, Importer, Maker
  <2>5. CASE Maker(u[i]) /\ Importer(e)
    <3>1. u[i].inverse.on \in Singles /\ e.forward.on \in Files
      BY <1>1, <1>3, <2>0, <2>5, EntryFields
    <3>. QED  BY <2>1, <2>2, <2>5, <3>1 DEF StandsIn, Importer, Maker
  <2>6. CASE Maker(u[i]) /\ Maker(e)
    <3>1. u[i].inverse.on # e.inverse.on
      BY <1>1, <1>3, <2>0, <2>6
    <3>. QED  BY <2>6, <3>1 DEF StandsIn, Importer, Maker
  <2>7. CASE ~Importer(u[i]) /\ ~Maker(u[i])
    BY <2>7 DEF StandsIn
  <2>8. CASE ~Importer(e) /\ ~Maker(e)
    BY <2>8 DEF StandsIn
  <2>. QED  BY <2>3, <2>4, <2>5, <2>6, <2>7, <2>8
<1>. QED  BY <1>4 DEF RowsOf

\* An entry is taken back: what the undo stack still has explains what is left.
LEMMA TakingBackExplains ==
    ASSUME NEW u \in Seq(Kept), NEW r \in Seq(Kept), NEW e \in Kept,
           NEW led, NEW du, NEW rec, NEW du2, NEW rec2,
           Apart(rec), Explains(Append(u, e), r, led, du, rec),
           IF e.forward.do = "pay" THEN du2 = e.inverse.to ELSE du2 = du,
           OthersStay(e, rec, rec2),
           Importer(e) => rec2[e.forward.on].state = "undone"
    PROVE  Explains(u, Append(r, e), led \ StandsIn(rec, e), du2, rec2)
<1> DEFINE v == Append(u, e)
           w == Line(v, r)
           q == Append(r, e)
           k == Len(u) + 1
<1>1. /\ DOMAIN v = DOMAIN u \union {k} /\ v[k] = e
      /\ \A i \in DOMAIN u : v[i] = u[i]
      /\ DOMAIN q = DOMAIN r \union {Len(r) + 1} /\ q[Len(r) + 1] = e
      /\ \A i \in DOMAIN r : q[i] = r[i]
      /\ q \in Seq(Kept)
  BY AppendFacts
<1>2. /\ k \in DOMAIN w /\ w[k] = e /\ PaysBefore(w, k) = PaysOf(u)
      /\ \A i \in DOMAIN u : i \in DOMAIN w /\ w[i] = u[i] /\ i < k
  BY LineTop
<1>3. \A i \in DOMAIN r : \E j \in DOMAIN w : j > k /\ w[j] = r[i]
  <2>1. v \in Seq(Kept) /\ Len(v) = k
    BY AppendFacts
  <2> HIDE DEF v, k
  <2>. QED  BY <2>1, LineFacts
<1>4. /\ InOrder(w) /\ led = RowsOf(rec, v) /\ du = Cardinality(PaysOf(v))
      /\ \A i \in DOMAIN v : Maker(v[i]) => v[i].inverse.on \in Singles
      /\ \A i, j \in DOMAIN v :
            Maker(v[i]) /\ Maker(v[j]) /\ v[i].inverse.on = v[j].inverse.on => i = j
      /\ \A i \in DOMAIN v : Importer(v[i]) => rec[v[i].forward.on].state = "active"
      /\ \A i \in DOMAIN r : Importer(r[i]) => rec[r[i].forward.on].state = "undone"
  BY DEF Explains
<1>5. InOrder(Line(u, q))
  BY <1>4, LineStays
<1>6. led \ StandsIn(rec, e) = RowsOf(rec2, u)
  <2>1. led \ StandsIn(rec, e) = RowsOf(rec, u)
    BY <1>4, RowsGrow, TopApart
  <2>2. \A i \in DOMAIN u : StandsIn(rec2, u[i]) = StandsIn(rec, u[i])
    <3> TAKE i \in DOMAIN u
    <3>1. Importer(u[i]) /\ Importer(e) =>
             u[i].forward.on # e.forward.on /\ u[i].forward.on \in Files
      <4>1. Importer(u[i]) /\ Importer(e) => u[i].forward.on # e.forward.on
        BY <1>2, <1>4 DEF InOrder
      <4>2. u[i] \in Kept
        OBVIOUS
      <4>. QED  BY <4>1, <4>2, EntryFields
    <3>. QED  BY <3>1 DEF StandsIn, OthersStay
  <2>3. RowsOf(rec2, u) = RowsOf(rec, u)
    BY <2>2 DEF RowsOf
  <2>. QED  BY <2>1, <2>3
<1>7. du2 = Cardinality(PaysOf(u))
  <2>1. CASE e.forward.do = "pay"
    <3>1. k \in PaysOf(w)
      BY <2>1, <1>2 DEF PaysOf
    <3>. QED  BY <3>1, <2>1, <1>2, <1>4 DEF InOrder
  <2>2. CASE e.forward.do # "pay"
    BY <2>2, <1>4, CountPays
  <2>. QED  BY <2>1, <2>2
<1>8. \A i \in DOMAIN u : Importer(u[i]) => rec2[u[i].forward.on].state = "active"
  <2> SUFFICES ASSUME NEW i \in DOMAIN u, Importer(u[i])
               PROVE  rec2[u[i].forward.on].state = "active"
    OBVIOUS
  <2>1. rec[u[i].forward.on].state = "active"
    BY <1>1, <1>4
  <2>2. u[i].forward.on \in Files
    <3>1. u[i] \in Kept
      OBVIOUS
    <3>. QED  BY <3>1, EntryFields
  <2>3. Importer(e) => u[i].forward.on # e.forward.on
    BY <1>2, <1>4 DEF InOrder
  <2>. QED  BY <2>1, <2>2, <2>3 DEF OthersStay
<1>9. \A i \in DOMAIN q : Importer(q[i]) => rec2[q[i].forward.on].state = "undone"
  <2> SUFFICES ASSUME NEW i \in DOMAIN r, Importer(r[i])
               PROVE  rec2[r[i].forward.on].state = "undone"
    BY <1>1
  <2>1. rec[r[i].forward.on].state = "undone"
    BY <1>4
  <2>2. r[i].forward.on \in Files
    <3>1. r[i] \in Kept
      OBVIOUS
    <3>. QED  BY <3>1, EntryFields
  <2>3. Importer(e) => r[i].forward.on # e.forward.on
    <3>1. PICK j \in DOMAIN w : j > k /\ w[j] = r[i]
      BY <1>3
    <3>2. j # k
      BY <3>1
    <3>. QED  BY <3>1, <3>2, <1>2, <1>4 DEF InOrder
  <2>. QED  BY <2>1, <2>2, <2>3 DEF OthersStay
<1>10. /\ \A i \in DOMAIN u : Maker(u[i]) => u[i].inverse.on \in Singles
       /\ \A i, j \in DOMAIN u :
             Maker(u[i]) /\ Maker(u[j]) /\ u[i].inverse.on = u[j].inverse.on => i = j
  BY <1>1, <1>4
<1> HIDE DEF v, w, q, k
<1>. QED  BY <1>1, <1>5, <1>6, <1>7, <1>8, <1>9, <1>10 DEF Explains, q

\* An entry is made, for the first time or again: what it stands for is new.
LEMMA MakingExplains ==
    ASSUME NEW u \in Seq(Kept), NEW r \in Seq(Kept), NEW q \in Seq(Kept), NEW e \in Kept,
           NEW led, NEW du, NEW rec, NEW du2, NEW rec2,
           Explains(u, r, led, du, rec), InOrder(Line(Append(u, e), q)),
           IF e.forward.do = "pay" THEN du2 = du + 1 ELSE du2 = du,
           OthersStay(e, rec, rec2),
           Importer(e) => rec2[e.forward.on].state = "active",
           Maker(e) => e.inverse.on \in Singles /\ e.inverse.on \notin led,
           \A i \in DOMAIN q : Importer(q[i]) => rec[q[i].forward.on].state = "undone"
    PROVE  Explains(Append(u, e), q, led \union StandsIn(rec2, e), du2, rec2)
<1> DEFINE v == Append(u, e)
           w == Line(v, q)
           k == Len(u) + 1
<1>1. /\ v \in Seq(Kept) /\ Len(v) = k /\ DOMAIN v = DOMAIN u \union {k} /\ v[k] = e
      /\ \A i \in DOMAIN u : v[i] = u[i]
  BY AppendFacts
<1>2. /\ k \in DOMAIN w /\ w[k] = e
      /\ \A i \in DOMAIN u : i \in DOMAIN w /\ w[i] = u[i] /\ i < k
  BY LineTop
<1>3. \A i \in DOMAIN q : \E j \in DOMAIN w : j > k /\ w[j] = q[i]
  <2> HIDE DEF v, k
  <2>. QED  BY <1>1, LineFacts
<1>4. /\ InOrder(w) /\ led = RowsOf(rec, u) /\ du = Cardinality(PaysOf(u))
      /\ \A i \in DOMAIN u : Maker(u[i]) => u[i].inverse.on \in Singles
      /\ \A i, j \in DOMAIN u :
            Maker(u[i]) /\ Maker(u[j]) /\ u[i].inverse.on = u[j].inverse.on => i = j
      /\ \A i \in DOMAIN u : Importer(u[i]) => rec[u[i].forward.on].state = "active"
  BY DEF Explains
<1>5. \A i \in DOMAIN u : Importer(u[i]) =>
         u[i].forward.on \in Files /\ (Importer(e) => u[i].forward.on # e.forward.on)
  <2> SUFFICES ASSUME NEW i \in DOMAIN u, Importer(u[i])
               PROVE  u[i].forward.on \in Files /\ (Importer(e) => u[i].forward.on # e.forward.on)
    OBVIOUS
  <2>1. u[i] \in Kept
    OBVIOUS
  <2>2. Importer(e) => u[i].forward.on # e.forward.on
    BY <1>2, <1>4 DEF InOrder
  <2>. QED  BY <2>1, <2>2, EntryFields
<1>6. \A i \in DOMAIN q : Importer(q[i]) =>
         q[i].forward.on \in Files /\ (Importer(e) => q[i].forward.on # e.forward.on)
  <2> SUFFICES ASSUME NEW i \in DOMAIN q, Importer(q[i])
               PROVE  q[i].forward.on \in Files /\ (Importer(e) => q[i].forward.on # e.forward.on)
    OBVIOUS
  <2>1. q[i] \in Kept
    OBVIOUS
  <2>2. PICK j \in DOMAIN w : j > k /\ w[j] = q[i]
    BY <1>3
  <2>3. j # k
    BY <2>2
  <2>4. Importer(e) => q[i].forward.on # e.forward.on
    BY <2>2, <2>3, <1>2, <1>4 DEF InOrder
  <2>. QED  BY <2>1, <2>4, EntryFields
<1> HIDE DEF w, k
<1>7. RowsOf(rec2, u) = led
  <2>1. \A i \in DOMAIN u : StandsIn(rec2, u[i]) = StandsIn(rec, u[i])
    BY <1>5 DEF StandsIn, OthersStay
  <2>. QED  BY <2>1, <1>4 DEF RowsOf
<1>8. led \union StandsIn(rec2, e) = RowsOf(rec2, v)
  BY <1>7, RowsGrow
<1>9. du2 = Cardinality(PaysOf(v))
  BY <1>4, CountPays
<1> HIDE DEF v
<1>10. \A i \in DOMAIN v : Maker(v[i]) => v[i].inverse.on \in Singles
  BY <1>1, <1>4
<1>11. \A i, j \in DOMAIN v :
          Maker(v[i]) /\ Maker(v[j]) /\ v[i].inverse.on = v[j].inverse.on => i = j
  <2>1. \A i \in DOMAIN u : Maker(u[i]) => u[i].inverse.on \in led
    <3>1. \A i \in DOMAIN u : Maker(u[i]) => StandsIn(rec, u[i]) = {u[i].inverse.on}
      BY DEF StandsIn, Maker, Importer
    <3>. QED  BY <3>1, <1>4 DEF RowsOf
  <2>. QED  BY <2>1, <1>1, <1>4
<1>12. \A i \in DOMAIN v : Importer(v[i]) => rec2[v[i].forward.on].state = "active"
  BY <1>1, <1>4, <1>5 DEF OthersStay
<1>13. \A i \in DOMAIN q : Importer(q[i]) => rec2[q[i].forward.on].state = "undone"
  BY <1>6 DEF OthersStay
<1>. QED
  BY <1>1, <1>4, <1>8, <1>9, <1>10, <1>11, <1>12, <1>13 DEF Explains, v, w

\* A redo, with the row that it has made.
LEMMA RedoExplains ==
    ASSUME NEW u \in Seq(Kept), NEW r \in Seq(Kept), NEW e \in Kept, NEW d \in Kept,
           NEW led, NEW du, NEW rec, NEW du2, NEW rec2,
           Explains(u, Append(r, e), led, du, rec),
           d.forward = e.forward, d.inverse.to = e.inverse.to,
           Importer(e) => d.inverse.on = e.inverse.on,
           IF e.forward.do = "pay" THEN du2 = du + 1 ELSE du2 = du,
           OthersStay(e, rec, rec2),
           Importer(e) => rec2[e.forward.on].state = "active",
           Maker(e) => d.inverse.on \in Singles /\ d.inverse.on \notin led
    PROVE  Explains(Append(u, d), r, led \union StandsIn(rec2, d), du2, rec2)
<1>1. Append(r, e) \in Seq(Kept) /\ DOMAIN Append(r, e) = DOMAIN r \union {Len(r) + 1}
      /\ \A i \in DOMAIN r : Append(r, e)[i] = r[i]
  BY AppendFacts
<1>2. InOrder(Line(Append(u, e), r))
  BY LineStays DEF Explains
<1>3. InOrder(Line(Append(u, d), r))
  BY <1>2, OrderStays
<1>4. \A i \in DOMAIN r : Importer(r[i]) => rec[r[i].forward.on].state = "undone"
  BY <1>1 DEF Explains
<1>5. /\ Importer(d) = Importer(e) /\ Maker(d) = Maker(e)
      /\ OthersStay(d, rec, rec2)
      /\ Importer(d) => rec2[d.forward.on].state = "active"
      /\ IF d.forward.do = "pay" THEN du2 = du + 1 ELSE du2 = du
  BY DEF Importer, Maker, OthersStay
<1> DEFINE p == Append(r, e)
<1>6. p \in Seq(Kept) /\ Explains(u, p, led, du, rec)
  BY <1>1
<1> HIDE DEF p
<1>. QED  BY <1>3, <1>4, <1>5, <1>6, MakingExplains

\* A saved command, which ends what could be redone.
LEMMA SaveExplains ==
    ASSUME NEW u \in Seq(Kept), NEW r \in Seq(Kept), NEW e \in Kept,
           NEW q \in Seq(Kept), Len(q) = 0,
           NEW led, NEW du, NEW rec, NEW du2, NEW rec2,
           Explains(u, r, led, du, rec), e.forward.do # "delete",
           e.forward.do = "pay" => e.inverse.to = du,
           IF e.forward.do = "pay" THEN du2 = du + 1 ELSE du2 = du,
           OthersStay(e, rec, rec2),
           Importer(e) =>
              /\ e.inverse.on = e.forward.on
              /\ rec[e.forward.on].state = "none" /\ rec2[e.forward.on].state = "active",
           Maker(e) => e.inverse.on \in Singles /\ e.inverse.on \notin led
    PROVE  Explains(Append(u, e), q, led \union StandsIn(rec2, e), du2, rec2)
<1>1. Importer(e) => \A i \in DOMAIN u : Importer(u[i]) => u[i].forward.on # e.forward.on
  BY DEF Explains
<1>2. InOrder(Line(u, r)) /\ du = Cardinality(PaysOf(u))
  BY DEF Explains
<1>3. InOrder(Line(Append(u, e), q))
  BY <1>1, <1>2, OrderGrows
<1>4. \A i \in DOMAIN q : Importer(q[i]) => rec[q[i].forward.on].state = "undone"
  OBVIOUS
<1>. QED  BY <1>3, <1>4, MakingExplains

\* An import that wrote no row leaves what is explained as it is.
LEMMA SkipExplains ==
    ASSUME NEW u \in Seq(Kept), NEW r \in Seq(Kept), NEW led, NEW du, NEW rec, NEW rec2,
           NEW f \in Files, Explains(u, r, led, du, rec), rec[f].state = "none",
           \A g \in Files : g # f => rec2[g] = rec[g]
    PROVE  Explains(u, r, led, du, rec2)
<1>1. \A i \in DOMAIN u : Importer(u[i]) => rec2[u[i].forward.on] = rec[u[i].forward.on]
  <2> SUFFICES ASSUME NEW i \in DOMAIN u, Importer(u[i])
               PROVE  rec2[u[i].forward.on] = rec[u[i].forward.on]
    OBVIOUS
  <2>1. u[i] \in Kept /\ rec[u[i].forward.on].state = "active"
    BY DEF Explains
  <2>. QED  BY <2>1, EntryFields
<1>2. \A i \in DOMAIN r : Importer(r[i]) => rec2[r[i].forward.on] = rec[r[i].forward.on]
  <2> SUFFICES ASSUME NEW i \in DOMAIN r, Importer(r[i])
               PROVE  rec2[r[i].forward.on] = rec[r[i].forward.on]
    OBVIOUS
  <2>1. r[i] \in Kept /\ rec[r[i].forward.on].state = "undone"
    BY DEF Explains
  <2>. QED  BY <2>1, EntryFields
<1>3. RowsOf(rec2, u) = RowsOf(rec, u)
  <2>1. \A i \in DOMAIN u : StandsIn(rec2, u[i]) = StandsIn(rec, u[i])
    BY <1>1 DEF StandsIn
  <2>. QED  BY <2>1 DEF RowsOf
<1>. QED  BY <1>1, <1>2, <1>3 DEF Explains

-------------------------------------------------------------------------------
(* The history while requests are under way.                                    *)

\* The stacks u and r after the answer that c has by now: an answer that has not
\* worked puts them back.
Pushes(c) == c.told.ok /\ ~(c.command.do = "import" /\ c.told.rows = {})

UndoThen(c, u) ==
    IF c.from = "save"
      THEN IF Pushes(c)
             THEN Append(u, Entry(c.command, TakenBackBy(c.command, c.told.rows)))
             ELSE u
      ELSE IF c.from = "undo"
             THEN IF c.told.ok THEN u ELSE Append(u, c.entry)
             ELSE IF c.told.ok THEN Retargeted(c, u) ELSE Popped(u)

RedoThen(c, r) ==
    IF c.from = "save"
      THEN IF Pushes(c) THEN <<>> ELSE r
      ELSE IF c.from = "undo"
             THEN IF c.told.ok THEN Retargeted(c, r) ELSE Popped(r)
             ELSE IF c.told.ok THEN r ELSE Append(r, c.entry)

\* What a request under way may rely on, until its batch: an import saved in a dialog
\* has no receipt, and a payment is of the next date.
MayRely(n) ==
    LET c == calls[n]
    IN  /\ c.from = "save" /\ c.command.do = "import" =>
              receipts[c.command.on].state = "none"
        /\ c.from = "save" /\ c.command.do = "pay" => c.command.to = due
        /\ c.step = "read" /\ c.command.do = "pay" => c.date = due

Fits(n) ==
    LET c == calls[n]
    IN  /\ c.from = "save" => c.command.do # "delete"
        /\ c.from = "save" /\ c.command.do = "import" => dialog[c.command.on] = "saving"
        /\ c.from = "undo" => redo # <<>> /\ Last(redo) = c.entry
        /\ c.from = "redo" => undo # <<>> /\ Last(undo) = c.entry
        /\ ~c.told.ok => MayRely(n)
        /\ Explains(UndoThen(c, undo), RedoThen(c, redo), ledger, due, receipts)

Calm ==
    /\ \A m \in DOMAIN calls : calls[m].awaited \/ calls[m].step = "done"
    /\ \A m, k \in InFlight : m = k
    /\ \A f \in Files : dialog[f] \in {"new", "failed"} => receipts[f].state = "none"
    /\ InFlight = {} => Explains(undo, redo, ledger, due, receipts)
    /\ \A n \in InFlight : Fits(n)

History == calm /\ ~stale => Calm

LEMMA StackEnds ==
    ASSUME NEW S, NEW s \in Seq(S), s # <<>>
    PROVE  /\ Front(s) \in Seq(S) /\ Last(s) \in S /\ Append(Front(s), Last(s)) = s
<1>1. Len(s) \in Nat /\ Len(s) # 0 /\ DOMAIN s = 1..Len(s)
  OBVIOUS
<1>2. Front(s) \in Seq(S) /\ Last(s) \in S
  BY FrontFacts
<1>3. Len(Front(s)) = Len(s) - 1 /\ \A i \in 1..(Len(s) - 1) : Front(s)[i] = s[i]
  BY <1>1 DEF Front
<1>4. Last(s) = s[Len(s)]
  BY DEF Last
<1> DEFINE f == Front(s)
           l == Last(s)
           t == Append(f, l)
<1>5. /\ t \in Seq(S) /\ Len(t) = Len(f) + 1 /\ t[Len(f) + 1] = l
      /\ \A i \in 1..Len(f) : t[i] = f[i]
  <2> HIDE DEF f, l
  <2>1. f \in Seq(S) /\ l \in S
    BY <1>2 DEF f, l
  <2>. QED  BY <2>1
<1> HIDE DEF t
<1>6. Len(t) = Len(s) /\ \A i \in 1..Len(s) : t[i] = s[i]
  <2>1. Len(t) = Len(s)
    BY <1>1, <1>3, <1>5
  <2>2. ASSUME NEW i \in 1..Len(s) PROVE t[i] = s[i]
    <3>1. CASE i = Len(s)
      BY <3>1, <1>1, <1>3, <1>4, <1>5
    <3>2. CASE i # Len(s)
      <4>0. \A m \in Nat : \A j \in 1..m : j # m => j \in 1..(m - 1)
        OBVIOUS
      <4>1. i \in 1..(Len(s) - 1)
        BY <3>2, <4>0, <1>1, Zenon
      <4>2. f[i] = s[i] /\ Len(f) = Len(s) - 1
        BY <4>1, <1>3
      <4> HIDE DEF f
      <4>. QED  BY <4>1, <4>2, <1>5
    <3>. QED  BY <3>1, <3>2
  <2>. QED  BY <2>1, <2>2
<1>7. t = s
  BY <1>5, <1>6
<1>. QED  BY <1>2, <1>7 DEF t

LEMMA AppendEnds ==
    ASSUME NEW S, NEW s \in Seq(S), NEW x \in S
    PROVE  LET t == Append(s, x) IN t # <<>> /\ Front(t) = s /\ Last(t) = x
<1> DEFINE t == Append(s, x)
<1>1. /\ t \in Seq(S) /\ Len(t) = Len(s) + 1 /\ t[Len(s) + 1] = x /\ Len(s) \in Nat
      /\ \A i \in 1..Len(s) : t[i] = s[i]
  OBVIOUS
<1> HIDE DEF t
<1>2. t # <<>> /\ Last(t) = x
  BY <1>1 DEF Last
<1>3. Front(t) = s
  <2>1. /\ Front(t) \in Seq(S) /\ Len(Front(t)) = Len(s)
        /\ \A i \in 1..Len(s) : Front(t)[i] = t[i]
    BY <1>1 DEF Front
  <2>. QED  BY <1>1, <2>1
<1>. QED  BY <1>2, <1>3 DEF t

\* A step of the handler of n: what it leaves of the requests.
Same(n) ==
    /\ DOMAIN calls' = DOMAIN calls
    /\ \A m \in DOMAIN calls : m # n => calls'[m] = calls[m]
    /\ calls'[n].command = calls[n].command /\ calls'[n].from = calls[n].from
    /\ calls'[n].entry = calls[n].entry /\ calls'[n].awaited = calls[n].awaited

LEMMA RefuseCall ==
    ASSUME Shape, NEW n \in DOMAIN calls, Refuse(n)
    PROVE  Same(n) /\ calls'[n].told = calls[n].told /\ calls'[n].step = "done"
<1>1. calls \in Seq(Requests) /\ calls[n] \in Requests
  BY DEF Shape, CallsTyped
<1>2. calls' = [calls EXCEPT ![n] = [calls[n] EXCEPT !.step = "done"]]
  BY DEF Refuse
<1>3. /\ DOMAIN calls' = DOMAIN calls
      /\ \A m \in DOMAIN calls : m # n => calls'[m] = calls[m]
      /\ calls'[n] = [calls[n] EXCEPT !.step = "done"]
  BY <1>1, <1>2
<1>. QED  BY <1>1, <1>3 DEF Same, Requests

LEMMA ReplyCall ==
    ASSUME Shape, NEW n \in DOMAIN calls, NEW rows, Reply(n, rows)
    PROVE  Same(n) /\ calls'[n].told = Told(TRUE, rows) /\ calls'[n].step = "done"
<1> DEFINE t == Told(TRUE, rows)
<1>1. calls \in Seq(Requests) /\ calls[n] \in Requests
  BY DEF Shape, CallsTyped
<1>2. calls' = [calls EXCEPT ![n] = [calls[n] EXCEPT !.step = "done", !.told = t]]
  BY <1>1 DEF Reply
<1> HIDE DEF t
<1>3. /\ DOMAIN calls' = DOMAIN calls
      /\ \A m \in DOMAIN calls : m # n => calls'[m] = calls[m]
      /\ calls'[n] = [calls[n] EXCEPT !.step = "done", !.told = t]
  BY <1>1, <1>2
<1>4. Same(n) /\ calls'[n].told = t /\ calls'[n].step = "done"
  BY <1>1, <1>3 DEF Same, Requests
<1>. QED  BY <1>4 DEF t

LEMMA GoOnCall ==
    ASSUME Shape, NEW n \in DOMAIN calls, GoOn(n)
    PROVE  Same(n) /\ calls'[n].told = calls[n].told /\ calls'[n].date = due
<1>1. calls \in Seq(Requests) /\ calls[n] \in Requests
  BY DEF Shape, CallsTyped
<1>2. calls' = [calls EXCEPT ![n] = [calls[n] EXCEPT !.step = "read", !.date = due]]
  BY <1>1 DEF GoOn
<1>3. /\ DOMAIN calls' = DOMAIN calls
      /\ \A m \in DOMAIN calls : m # n => calls'[m] = calls[m]
      /\ calls'[n] = [calls[n] EXCEPT !.step = "read", !.date = due]
  BY <1>1, <1>2
<1>. QED  BY <1>1, <1>3 DEF Same, Requests

LEMMA ReceiptCall ==
    ASSUME Shape, NEW n \in DOMAIN calls, NEW receipt,
           calls' = [calls EXCEPT ![n].step = "read", ![n].receipt = receipt]
    PROVE  Same(n) /\ calls'[n].told = calls[n].told
<1>1. calls \in Seq(Requests) /\ calls[n] \in Requests
  BY DEF Shape, CallsTyped
<1>2. calls' = [calls EXCEPT ![n] = [calls[n] EXCEPT !.step = "read", !.receipt = receipt]]
  BY <1>1
<1>3. /\ DOMAIN calls' = DOMAIN calls
      /\ \A m \in DOMAIN calls : m # n => calls'[m] = calls[m]
      /\ calls'[n] = [calls[n] EXCEPT !.step = "read", !.receipt = receipt]
  BY <1>1, <1>2
<1>. QED  BY <1>1, <1>3 DEF Same, Requests

LEMMA FlightStays ==
    ASSUME NEW n \in DOMAIN calls, Same(n)
    PROVE  InFlight' = InFlight /\ \A m \in DOMAIN calls : calls'[m].awaited = calls[m].awaited
<1>1. \A m \in DOMAIN calls : calls'[m].awaited = calls[m].awaited
  BY DEF Same
<1>. QED  BY <1>1 DEF InFlight, Same

\* The handler of n takes a step while the browser waits for it alone.
LEMMA HandlerCalm ==
    ASSUME Calm, NEW n \in InFlight, Same(n), UNCHANGED browser, Fits(n)',
           \A f \in Files : dialog[f] \in {"new", "failed"} => receipts'[f].state = "none"
    PROVE  Calm'
<1>1. n \in DOMAIN calls /\ n \in DOMAIN calls'
  BY DEF InFlight, Same
<1>2. InFlight' = InFlight /\ InFlight = {n}
  BY <1>1, FlightStays DEF Calm
<1>3. \A m \in DOMAIN calls' : calls'[m].awaited \/ calls'[m].step = "done"
  <2>1. \A m \in DOMAIN calls : m # n => calls'[m] = calls[m]
    BY DEF Same
  <2>2. calls'[n].awaited
    BY DEF Same, InFlight
  <2>3. DOMAIN calls' = DOMAIN calls
    BY DEF Same
  <2>. QED  BY <2>1, <2>2, <2>3 DEF Calm
<1>4. dialog' = dialog
  BY DEF browser
<1>5. \A m \in InFlight' : Fits(m)'
  BY <1>2
<1>. QED  BY <1>2, <1>3, <1>4, <1>5 DEF Calm

LEMMA ThenSame ==
    ASSUME NEW c, NEW d, c.command = d.command, c.from = d.from, c.entry = d.entry,
           c.told = d.told, NEW s
    PROVE  UndoThen(c, s) = UndoThen(d, s) /\ RedoThen(c, s) = RedoThen(d, s)
  BY DEF UndoThen, RedoThen, Pushes, Retargeted

\* A read, and a batch that is refused, leave what the request fits.
LEMMA FitsStays ==
    ASSUME NEW n \in DOMAIN calls, Same(n), Fits(n), calls'[n].told = calls[n].told,
           UNCHANGED <<undo, redo, dialog, ledger, due, receipts>>,
           calls'[n].step = "read" /\ calls'[n].command.do = "pay" => calls'[n].date = due
    PROVE  Fits(n)'
<1>1. /\ UndoThen(calls'[n], undo) = UndoThen(calls[n], undo)
      /\ RedoThen(calls'[n], redo) = RedoThen(calls[n], redo)
  BY ThenSame DEF Same
<1>2. Explains(UndoThen(calls'[n], undo'), RedoThen(calls'[n], redo'), ledger', due', receipts')
  BY <1>1 DEF Fits
<1>3. ~calls'[n].told.ok => MayRely(n)'
  BY DEF Fits, MayRely, Same
<1>. QED  BY <1>2, <1>3 DEF Fits, Same

\* The request that the browser waits for, before its batch.
LEMMA UnderWay ==
    ASSUME MoneyInv, Calm, NEW n \in DOMAIN calls, calls[n].step # "done"
    PROVE  /\ n \in InFlight /\ Fits(n) /\ MayRely(n) /\ ~calls[n].told.ok
           /\ calls[n] \in Requests
<1>1. calls[n] \in Requests /\ ~calls[n].told.ok
  BY DEF MoneyInv, Shape, CallsTyped
<1>2. n \in InFlight
  BY DEF Calm, InFlight
<1>. QED  BY <1>1, <1>2 DEF Calm, Fits

\* What the receipt of an import says when it is asked for again or taken back.
LEMMA ReceiptUnderWay ==
    ASSUME MoneyInv, Calm, NEW n \in DOMAIN calls, calls[n].step # "done"
    PROVE  /\ calls[n].command.do = "import" =>
                 receipts[calls[n].command.on].state =
                    IF calls[n].from = "save" THEN "none" ELSE "undone"
           /\ calls[n].command.do = "unimport" =>
                 receipts[calls[n].command.on].state = "active"
<1> DEFINE c == calls[n]
           e == c.entry
<1>1. Fits(n) /\ MayRely(n) /\ ~c.told.ok /\ c \in Requests
  BY UnderWay
<1>2. CASE c.from = "save"
  BY <1>1, <1>2, RequestFields DEF MayRely, Saved
<1>3. CASE c.from = "undo"
  <2>1. e \in Kept /\ c.command = e.inverse /\ TakesBack(e.forward, e.inverse)
    BY <1>1, <1>3, RequestFields, EntryFields
  <2>2. Explains(Append(undo, e), RedoThen(c, redo), ledger, due, receipts)
    BY <1>1, <1>3 DEF Fits, UndoThen
  <2>3. undo \in Seq(Kept)
    BY DEF MoneyInv, Shape, BrowserTyped
  <2>4. Len(undo) + 1 \in DOMAIN Append(undo, e) /\ Append(undo, e)[Len(undo) + 1] = e
    BY <2>1, <2>3, AppendFacts
  <2>5. Importer(e) => receipts[e.forward.on].state = "active"
    BY <2>2, <2>4 DEF Explains
  <2>6. e.inverse.do # "import" /\ (e.inverse.do = "unimport" => Importer(e))
    BY <2>1 DEF TakesBack, Importer
  <2>7. Importer(e) => e.inverse.on = e.forward.on
    <3>1. Explains(Append(undo, e), RedoThen(c, redo), ledger, due, receipts)
      BY <2>2
    <3>2. RedoThen(c, redo) \in Seq(Kept) /\ InOrder(Line(Append(undo, e), RedoThen(c, redo)))
      BY <3>1 DEF Explains
    <3> DEFINE w == Line(Append(undo, e), RedoThen(c, redo))
    <3>3. Len(undo) + 1 \in DOMAIN w /\ w[Len(undo) + 1] = e
      BY <2>1, <2>3, <3>2, LineTop
    <3> HIDE DEF w
    <3>4. InOrder(w)
      BY <3>2 DEF w
    <3>. QED  BY <3>3, <3>4 DEF InOrder
  <2>. QED  BY <2>1, <2>5, <2>6, <2>7
<1>4. CASE c.from = "redo"
  <2>1. e \in Kept /\ c.command = e.forward /\ e.forward.do \in Saved
    BY <1>1, <1>4, RequestFields, EntryFields
  <2>2. Explains(UndoThen(c, undo), Append(redo, e), ledger, due, receipts)
    BY <1>1, <1>4 DEF Fits, RedoThen
  <2>3. redo \in Seq(Kept)
    BY DEF MoneyInv, Shape, BrowserTyped
  <2>4. Len(redo) + 1 \in DOMAIN Append(redo, e) /\ Append(redo, e)[Len(redo) + 1] = e
    BY <2>1, <2>3, AppendFacts
  <2>5. Importer(e) => receipts[e.forward.on].state = "undone"
    BY <2>2, <2>4 DEF Explains
  <2>. QED  BY <1>4, <2>1, <2>5 DEF Importer, Saved
<1>. QED  BY <1>1, <1>2, <1>3, <1>4, RequestFields

-------------------------------------------------------------------------------
(* The batch of the request under way.                                          *)

\* The batches that have worked, with the rows they are answered with.
Did(n, rows) ==
    LET c == calls[n].command
    IN  \/ c.do = "import" /\ receipts[c.on].state = "active"
        \/ /\ c.do = "import"
           /\ receipts' = [receipts EXCEPT ![c.on] = [state |-> "active", rows |-> rows]]
           /\ ledger' = ledger \union rows /\ due' = due
        \/ /\ c.do = "unimport"
           /\ receipts' = [receipts EXCEPT ![c.on] =
                               [state |-> "undone", rows |-> receipts[c.on].rows]]
           /\ ledger' = ledger \ receipts[c.on].rows /\ due' = due
        \/ /\ c.do = "add" /\ rows = {Row(n)} /\ ledger' = ledger \union {Row(n)}
           /\ UNCHANGED <<receipts, due>>
        \/ /\ c.do = "delete" /\ ledger' = ledger \ {c.on}
           /\ UNCHANGED <<receipts, due>>
        \/ c.do = "mark" /\ UNCHANGED <<receipts, ledger, due>>
        \/ /\ c.do = "pay" /\ rows = {Row(n)} /\ ledger' = ledger \union {Row(n)}
           /\ due' = calls[n].date + 1 /\ receipts' = receipts
        \/ /\ c.do = "unpay" /\ ledger' = ledger \ {c.on} /\ due' = c.to /\ receipts' = receipts

Refused(n) == calls'[n].told = calls[n].told /\ UNCHANGED <<receipts, ledger, due>>

LEMMA ImportDoes ==
    ASSUME MoneyInv, NEW n \in DOMAIN calls, calls[n].step = "read", Import(n)
    PROVE  /\ Same(n) /\ calls'[n].step = "done"
           /\ Refused(n) \/ \E rows : calls'[n].told = Told(TRUE, rows) /\ Did(n, rows)
<1> DEFINE c == calls[n].command
           f == c.on
           r == calls[n].receipt
<1>1. /\ f \in Files /\ c.do \in {"import", "unimport"} /\ due' = due /\ Shape
      /\ receipts \in [Files -> Receipts]
  BY ImportOutcomes DEF MoneyInv, Shape, TablesTyped, Import
<1>2. r.state # "none" => r.rows = receipts[f].rows
  BY <1>1 DEF MoneyInv, Records, ReadStillThere
<1>3. ASSUME Refuse(n), UNCHANGED <<receipts, ledger, deleted>>
      PROVE  Same(n) /\ calls'[n].step = "done" /\ Refused(n)
  BY <1>1, <1>3, RefuseCall DEF Refused
<1>4. ASSUME NEW rows, Reply(n, rows), Did(n, rows)
      PROVE  /\ Same(n) /\ calls'[n].step = "done"
             /\ \E x : calls'[n].told = Told(TRUE, x) /\ Did(n, x)
  BY <1>1, <1>4, ReplyCall
<1>5. CASE c.do = "unimport"
  <2>1. WriteUndoImport(n, f)
    BY <1>5 DEF Import
  <2>2. CASE Receives(f, "active")
    <3>1. r.state # "none"
      BY <1>5 DEF MoneyInv, Records, ReadStillThere
    <3>2. Reply(n, {}) /\ Did(n, {})
      BY <1>1, <1>2, <1>5, <2>1, <2>2, <3>1 DEF WriteUndoImport, Receipt, Did
    <3>. QED  BY <1>4, <3>2
  <2>3. CASE ~Receives(f, "active")
    BY <1>3, <2>1, <2>3 DEF WriteUndoImport
  <2>. QED  BY <2>2, <2>3
<1>6. CASE c.do = "import" /\ r.state = "undone"
  <2>1. WriteAgain(n, f)
    BY <1>6 DEF Import
  <2>2. CASE Receives(f, "undone")
    <3>1. Reply(n, r.rows) /\ Did(n, r.rows)
      BY <1>1, <1>6, <2>1, <2>2 DEF WriteAgain, Receipt, Did
    <3>. QED  BY <1>4, <3>1
  <2>3. CASE ~Receives(f, "undone")
    BY <1>3, <2>1, <2>3 DEF WriteAgain
  <2>. QED  BY <2>2, <2>3
<1>7. CASE c.do = "import" /\ r.state # "undone"
  <2>1. WriteImport(n, f)
    BY <1>7 DEF Import
  <2>2. ASSUME NEW lines \in SUBSET Lines, Receipt(f, "active", {n} \X lines),
               ledger' = ledger \union ({n} \X lines), Reply(n, {n} \X lines)
        PROVE  /\ Same(n) /\ calls'[n].step = "done"
               /\ \E x : calls'[n].told = Told(TRUE, x) /\ Did(n, x)
    <3>1. Did(n, {n} \X lines)
      BY <1>1, <1>7, <2>2 DEF Receipt, Did
    <3>. QED  BY <1>4, <2>2, <3>1
  <2>3. CASE receipts[f].state = "active" /\ Reply(n, receipts[f].rows)
    <3>1. Did(n, receipts[f].rows)
      BY <1>7, <2>3 DEF Did
    <3>. QED  BY <1>4, <2>3, <3>1
  <2>. QED  BY <1>3, <2>1, <2>2, <2>3 DEF WriteImport
<1>. QED  BY <1>1, <1>5, <1>6, <1>7

LEMMA WriteDoes ==
    ASSUME MoneyInv, NEW n \in DOMAIN calls, Write(n)
    PROVE  /\ Same(n) /\ calls'[n].step = "done"
           /\ Refused(n) \/ \E rows : calls'[n].told = Told(TRUE, rows) /\ Did(n, rows)
<1>0. calls[n].step = "read" /\ Shape
  BY DEF Write, MoneyInv
<1>1. ASSUME NEW rows, Reply(n, rows), Did(n, rows)
      PROVE  /\ Same(n) /\ calls'[n].step = "done"
             /\ \E x : calls'[n].told = Told(TRUE, x) /\ Did(n, x)
  BY <1>0, <1>1, ReplyCall
<1>2. CASE Import(n)
  BY <1>0, <1>2, ImportDoes
<1>3. CASE Add(n)
  <2>1. Reply(n, {Row(n)}) /\ Did(n, {Row(n)})
    BY <1>3 DEF Add, Did
  <2>. QED  BY <1>1, <2>1
<1>4. CASE Delete(n)
  <2>1. Reply(n, {calls[n].command.on}) /\ Did(n, {calls[n].command.on})
    BY <1>4 DEF Delete, Did
  <2>. QED  BY <1>1, <2>1
<1>5. CASE Mark(n)
  <2>1. Reply(n, {calls[n].command.on}) /\ Did(n, {calls[n].command.on})
    BY <1>5 DEF Mark, Did
  <2>. QED  BY <1>1, <2>1
<1>6. CASE Pay(n)
  <2>1. Reply(n, {Row(n)}) /\ Did(n, {Row(n)})
    BY <1>6 DEF Pay, Did
  <2>. QED  BY <1>1, <2>1
<1>7. CASE Unpay(n)
  <2>1. Reply(n, {}) /\ Did(n, {})
    BY <1>7 DEF Unpay, Did
  <2>. QED  BY <1>1, <2>1
<1>. QED  BY <1>2, <1>3, <1>4, <1>5, <1>6, <1>7 DEF Write

LEMMA ReceiptsApart == ASSUME MoneyInv PROVE Apart(receipts)
<1>1. receipts \in [Files -> Receipts]
  BY DEF MoneyInv, Shape, TablesTyped
<1>2. \A f, g \in Files : f # g => receipts[f].rows \intersect receipts[g].rows = {}
  BY DEF MoneyInv, Records, ReceiptsHaveRequests
<1>. QED  BY <1>1, <1>2 DEF Apart

\* A row that is made is new.
LEMMA RowIsNew ==
    ASSUME MoneyInv, NEW n \in DOMAIN calls, calls[n].step # "done"
    PROVE  Row(n) \in Singles /\ Row(n) \notin ledger
<1>1. Row(n)[1] = n
  BY DEF Row
<1>. QED  BY <1>1, ReadReceipt DEF MoneyInv, Records, RowsHaveRequests

\* An undo has worked.
LEMMA UndoWorks ==
    ASSUME MoneyInv, Calm, NEW n \in DOMAIN calls, calls[n].step # "done",
           calls[n].from = "undo", NEW rows, Did(n, rows)
    PROVE  Explains(undo, redo, ledger', due', receipts') /\ calls[n].entry.forward.do # "delete"
<1> DEFINE e == calls[n].entry
           r == Popped(redo)
<1>1. Fits(n) /\ ~calls[n].told.ok /\ calls[n] \in Requests
  BY UnderWay
<1>2. e \in Kept /\ calls[n].command = e.inverse
  BY <1>1, RequestFields
<1>3. undo \in Seq(Kept) /\ redo \in Seq(Kept)
  BY DEF MoneyInv, Shape, BrowserTyped
<1>4. redo # <<>> /\ Last(redo) = e
  BY <1>1 DEF Fits
<1>5. r \in Seq(Kept) /\ Append(r, e) = redo
  BY <1>3, <1>4, StackEnds DEF Popped
<1>6. Explains(Append(undo, e), r, ledger, due, receipts)
  BY <1>1 DEF Fits, UndoThen, RedoThen
<1>7. /\ e.forward.do # "delete" /\ (Importer(e) => e.inverse.on = e.forward.on)
      /\ TakesBack(e.forward, e.inverse) /\ e.forward.do \in Saved
      /\ Importer(e) => e.forward.on \in Files
  <2>1. InOrder(Line(Append(undo, e), r))
    BY <1>6 DEF Explains
  <2> DEFINE w == Line(Append(undo, e), r)
  <2>2. Len(undo) + 1 \in DOMAIN w /\ w[Len(undo) + 1] = e
    BY <1>2, <1>3, <1>5, LineTop
  <2> HIDE DEF w
  <2>3. InOrder(w)
    BY <2>1 DEF w
  <2>. QED  BY <2>2, <2>3, <1>2, EntryFields DEF InOrder
<1> HIDE DEF e, r
<1>8. Apart(receipts) /\ receipts \in [Files -> Receipts]
  BY ReceiptsApart DEF Apart
<1>9. /\ ledger' = ledger \ StandsIn(receipts, e)
      /\ IF e.forward.do = "pay" THEN due' = e.inverse.to ELSE due' = due
      /\ OthersStay(e, receipts, receipts')
      /\ Importer(e) => receipts'[e.forward.on].state = "undone"
  <2>1. CASE e.forward.do = "import"
    <3>1. e.inverse.do = "unimport"
      BY <2>1, <1>7 DEF TakesBack
    <3>2. /\ receipts' = [receipts EXCEPT ![e.forward.on] =
                              [state |-> "undone", rows |-> receipts[e.forward.on].rows]]
          /\ ledger' = ledger \ receipts[e.forward.on].rows /\ due' = due
      BY <2>1, <3>1, <1>2, <1>7 DEF Did, Importer
    <3>. QED  BY <2>1, <3>2, <1>7, <1>8 DEF OthersStay, StandsIn, Importer, Maker
  <2>2. CASE e.forward.do = "add"
    <3>1. e.inverse.do = "delete"
      BY <2>2, <1>7 DEF TakesBack
    <3>2. ledger' = ledger \ {e.inverse.on} /\ UNCHANGED <<receipts, due>>
      BY <3>1, <1>2 DEF Did
    <3>. QED  BY <2>2, <3>2 DEF OthersStay, StandsIn, Importer, Maker
  <2>3. CASE e.forward.do = "mark"
    <3>1. e.inverse.do = "mark"
      BY <2>3, <1>7 DEF TakesBack
    <3>2. UNCHANGED <<receipts, ledger, due>>
      BY <3>1, <1>2 DEF Did
    <3>. QED  BY <2>3, <3>2 DEF OthersStay, StandsIn, Importer, Maker
  <2>4. CASE e.forward.do = "pay"
    <3>1. e.inverse.do = "unpay"
      BY <2>4, <1>7 DEF TakesBack
    <3>2. ledger' = ledger \ {e.inverse.on} /\ due' = e.inverse.to /\ receipts' = receipts
      BY <3>1, <1>2 DEF Did
    <3>. QED  BY <2>4, <3>2 DEF OthersStay, StandsIn, Importer, Maker
  <2>. QED  BY <2>1, <2>2, <2>3, <2>4, <1>7 DEF Saved
<1>10. Explains(undo, Append(r, e), ledger', due', receipts')
  <2>1. Explains(undo, Append(r, e), ledger \ StandsIn(receipts, e), due', receipts')
    BY <1>2, <1>3, <1>5, <1>6, <1>8, <1>9, TakingBackExplains DEF e, r
  <2>. QED  BY <2>1, <1>9
<1>. QED  BY <1>5, <1>7, <1>10 DEF e, r

\* A redo has worked: the entry on the undo stack is named after the row that it made.
LEMMA RedoWorks ==
    ASSUME MoneyInv, Calm, NEW n \in DOMAIN calls, calls[n].step = "read",
           calls[n].from = "redo", NEW rows, Did(n, rows)
    PROVE  Explains(Append(Popped(undo), Retarget(calls[n].entry, "redo", rows)), redo,
                    ledger', due', receipts')
<1> DEFINE e == calls[n].entry
           u == Popped(undo)
           d == Retarget(e, "redo", rows)
<1>1. Fits(n) /\ MayRely(n) /\ ~calls[n].told.ok /\ calls[n] \in Requests
  BY UnderWay
<1>2. e \in Kept /\ calls[n].command = e.forward
  BY <1>1, RequestFields
<1>3. undo \in Seq(Kept) /\ redo \in Seq(Kept)
  BY DEF MoneyInv, Shape, BrowserTyped
<1>4. u \in Seq(Kept)
  BY <1>1, <1>3, FrontFacts DEF Fits, Popped
<1>5. Explains(u, Append(redo, e), ledger, due, receipts)
  BY <1>1 DEF Fits, UndoThen, RedoThen
<1>6. /\ TakesBack(e.forward, e.inverse) /\ e.forward.do \in Saved
      /\ Importer(e) => e.forward.on \in Files /\ receipts[e.forward.on].state # "active"
  <2>1. calls[n].command.do = "import" => receipts[calls[n].command.on].state # "active"
    BY ReceiptUnderWay
  <2>. QED  BY <2>1, <1>2, EntryFields DEF Importer
<1>7. e.forward.do # "delete"
  <2>1. InOrder(Line(u, Append(redo, e))) /\ Append(redo, e) \in Seq(Kept)
    BY <1>5 DEF Explains
  <2>2. InOrder(Line(Append(u, e), redo))
    BY <2>1, <1>2, <1>3, <1>4, LineStays
  <2> DEFINE w == Line(Append(u, e), redo)
  <2>3. Len(u) + 1 \in DOMAIN w /\ w[Len(u) + 1] = e
    BY <1>2, <1>3, <1>4, LineTop
  <2> HIDE DEF w
  <2>4. InOrder(w)
    BY <2>2 DEF w
  <2>. QED  BY <2>3, <2>4 DEF InOrder
<1>8. Row(n) \in Singles /\ Row(n) \notin ledger
  BY RowIsNew
<1>9. Maker(e) => rows = {Row(n)}
  BY <1>2 DEF Did, Maker
<1>10. d \in Kept
  BY <1>2, <1>8, <1>9, <1>6, RetargetFacts DEF Maker, TakesBack
<1>11. /\ d.forward = e.forward /\ d.inverse.to = e.inverse.to
       /\ Importer(e) => d.inverse.on = e.inverse.on
       /\ Maker(e) => d.inverse.on = Row(n)
  <2>1. CASE Maker(e)
    <3>1. e.inverse.do \in {"unpay", "delete"} /\ ~Importer(e)
      BY <2>1, <1>6 DEF TakesBack, Maker, Importer
    <3>2. d = [e EXCEPT !.inverse.on = Row(n)]
      BY <2>1, <3>1, <1>9, TheRowOf DEF Retarget
    <3>3. e.forward \in Commands /\ e.inverse \in Commands
          /\ e = [forward |-> e.forward, inverse |-> e.inverse]
      BY <1>2, EntryFields
    <3>4. d = [forward |-> e.forward, inverse |-> [e.inverse EXCEPT !.on = Row(n)]]
      BY <3>2, <3>3
    <3>. QED  BY <3>1, <3>3, <3>4 DEF Commands
  <2>2. CASE ~Maker(e)
    <3>1. e.inverse.do \notin {"unpay", "delete"}
      BY <2>2, <1>6 DEF TakesBack, Maker
    <3>2. d = e
      BY <3>1 DEF Retarget
    <3>. QED  BY <2>2, <3>2
  <2>. QED  BY <2>1, <2>2
<1> HIDE DEF e, u, d
<1>12. receipts \in [Files -> Receipts]
  BY DEF MoneyInv, Shape, TablesTyped
<1>13. /\ ledger' = ledger \union StandsIn(receipts', d)
       /\ IF e.forward.do = "pay" THEN due' = due + 1 ELSE due' = due
       /\ OthersStay(e, receipts, receipts')
       /\ Importer(e) => receipts'[e.forward.on].state = "active"
  <2>1. CASE e.forward.do = "import"
    <3>1. /\ receipts' = [receipts EXCEPT ![e.forward.on] = [state |-> "active", rows |-> rows]]
          /\ ledger' = ledger \union rows /\ due' = due
      BY <2>1, <1>2, <1>6 DEF Did, Importer, e
    <3>2. receipts'[e.forward.on] = [state |-> "active", rows |-> rows]
      BY <2>1, <3>1, <1>6, <1>12 DEF Importer
    <3>3. StandsIn(receipts', d) = rows
      BY <2>1, <3>2, <1>11 DEF StandsIn, Importer, Maker
    <3>4. OthersStay(e, receipts, receipts')
      BY <2>1, <3>1, <1>12 DEF OthersStay, Importer
    <3>. QED  BY <2>1, <3>1, <3>2, <3>3, <3>4
  <2>2. CASE e.forward.do = "add"
    <3>1. ledger' = ledger \union {Row(n)} /\ UNCHANGED <<receipts, due>>
      BY <2>2, <1>2 DEF Did, e
    <3>. QED  BY <2>2, <3>1, <1>11 DEF OthersStay, StandsIn, Importer, Maker
  <2>3. CASE e.forward.do = "mark"
    <3>1. UNCHANGED <<receipts, ledger, due>>
      BY <2>3, <1>2 DEF Did, e
    <3>. QED  BY <2>3, <3>1, <1>11 DEF OthersStay, StandsIn, Importer, Maker
  <2>4. CASE e.forward.do = "pay"
    <3>1. ledger' = ledger \union {Row(n)} /\ due' = calls[n].date + 1 /\ receipts' = receipts
      BY <2>4, <1>2 DEF Did, e
    <3>2. calls[n].date = due
      BY <2>4, <1>1, <1>2 DEF MayRely, e
    <3>. QED  BY <2>4, <3>1, <3>2, <1>11 DEF OthersStay, StandsIn, Importer, Maker
  <2>. QED  BY <2>1, <2>2, <2>3, <2>4, <1>6, <1>7 DEF Saved
<1>14. Explains(Append(u, d), redo, ledger \union StandsIn(receipts', d), due', receipts')
  <2>1. Maker(e) => d.inverse.on \in Singles /\ d.inverse.on \notin ledger
    BY <1>8, <1>11
  <2>2. e \in Kept /\ Explains(u, Append(redo, e), ledger, due, receipts)
    BY <1>2, <1>5 DEF e, u
  <2>3. u \in Seq(Kept) /\ d \in Kept
    BY <1>4, <1>10
  <2>. QED  BY <1>3, <1>11, <1>13, <2>1, <2>2, <2>3, RedoExplains
<1>. QED  BY <1>13, <1>14 DEF e, u, d

\* A saved command has worked, and is pushed unless it is an import without a row.
LEMMA SaveWorks ==
    ASSUME MoneyInv, Calm, NEW n \in DOMAIN calls, calls[n].step = "read",
           calls[n].from = "save", NEW rows, Did(n, rows)
    PROVE  LET c == calls[n].command
           IN  IF c.do = "import" /\ rows = {}
                 THEN Explains(undo, redo, ledger', due', receipts')
                 ELSE Explains(Append(undo, Entry(c, TakenBackBy(c, rows))), <<>>,
                               ledger', due', receipts')
<1> DEFINE c == calls[n].command
           e == Entry(c, TakenBackBy(c, rows))
<1>1. Fits(n) /\ MayRely(n) /\ ~calls[n].told.ok /\ calls[n] \in Requests
  BY UnderWay
<1>2. c \in Commands /\ c.do \in Saved /\ c.do # "delete"
  BY <1>1, RequestFields DEF Fits
<1>3. undo \in Seq(Kept) /\ redo \in Seq(Kept) /\ receipts \in [Files -> Receipts]
  BY DEF MoneyInv, Shape, BrowserTyped, TablesTyped
<1>4. Explains(undo, redo, ledger, due, receipts)
  BY <1>1 DEF Fits, UndoThen, RedoThen, Pushes
<1>5. c.do = "import" => c.on \in Files /\ receipts[c.on].state = "none"
  BY <1>1, <1>2, CommandFields DEF MayRely
<1>6. Row(n) \in Singles /\ Row(n) \notin ledger
  BY RowIsNew
<1>7. c.do \in {"add", "pay"} => rows = {Row(n)}
  BY DEF Did
<1>8. e \in Kept
  BY <1>2, <1>6, <1>7, TakenBackFacts
<1>9. e.forward = c /\ e.inverse = TakenBackBy(c, rows)
  BY DEF Entry
<1>10. /\ c.do \in {"add", "pay"} => e.inverse.on = Row(n)
       /\ c.do = "import" => e.inverse.on = c.on
       /\ c.do = "pay" => e.inverse.to = c.to
  <2>1. c.do \in {"add", "pay"} => TheRow(rows) = Row(n)
    BY <1>7, TheRowOf
  <2> HIDE DEF c
  <2>. QED  BY <1>9, <2>1 DEF TakenBackBy, Command
<1>11. CASE c.do = "import"
  <2>1. /\ receipts' = [receipts EXCEPT ![c.on] = [state |-> "active", rows |-> rows]]
        /\ ledger' = ledger \union rows /\ due' = due
    BY <1>5, <1>11 DEF Did
  <2>2. receipts'[c.on] = [state |-> "active", rows |-> rows]
        /\ \A g \in Files : g # c.on => receipts'[g] = receipts[g]
    BY <2>1, <1>3, <1>5, <1>11
  <2>3. CASE rows = {}
    <3>1. Explains(undo, redo, ledger, due, receipts')
      BY <1>3, <1>4, <1>5, <1>11, <2>2, SkipExplains
    <3>2. ledger' = ledger
      BY <2>1, <2>3
    <3>. QED  BY <2>1, <2>3, <3>1, <3>2, <1>11
  <2>4. CASE rows # {}
    <3>1. StandsIn(receipts', e) = rows /\ OthersStay(e, receipts, receipts')
      BY <1>9, <1>11, <2>2 DEF StandsIn, OthersStay, Importer, Maker
    <3>2. /\ <<>> \in Seq(Kept) /\ Len(<<>>) = 0 /\ e.forward.do # "pay" /\ ~Maker(e)
          /\ Importer(e)
      BY <1>9, <1>11 DEF Maker, Importer
    <3>3. /\ e.inverse.on = e.forward.on
          /\ receipts[e.forward.on].state = "none" /\ receipts'[e.forward.on].state = "active"
      BY <1>5, <1>9, <1>10, <1>11, <2>2
    <3>4. e.forward.do # "delete"
      BY <1>2, <1>9
    <3> HIDE DEF e
    <3>5. Explains(Append(undo, e), <<>>, ledger \union StandsIn(receipts', e), due', receipts')
      BY <1>3, <1>4, <1>8, <2>1, <3>1, <3>2, <3>3, <3>4, SaveExplains
    <3>. QED  BY <2>1, <2>4, <3>1, <3>5 DEF e
  <2>. QED  BY <2>3, <2>4
<1>12. CASE c.do # "import"
  <2>1. /\ ledger' = ledger \union StandsIn(receipts', e)
        /\ IF e.forward.do = "pay" THEN due' = due + 1 ELSE due' = due
        /\ receipts' = receipts
    <3>1. CASE c.do = "add"
      <4>1. ledger' = ledger \union {Row(n)} /\ UNCHANGED <<receipts, due>>
        BY <3>1 DEF Did
      <4>. QED  BY <3>1, <4>1, <1>9, <1>10 DEF StandsIn, Importer, Maker
    <3>2. CASE c.do = "mark"
      <4>1. UNCHANGED <<receipts, ledger, due>>
        BY <3>2 DEF Did
      <4>. QED  BY <3>2, <4>1, <1>9 DEF StandsIn, Importer, Maker
    <3>3. CASE c.do = "pay"
      <4>1. ledger' = ledger \union {Row(n)} /\ due' = calls[n].date + 1 /\ receipts' = receipts
        BY <3>3 DEF Did
      <4>2. calls[n].date = due
        BY <3>3, <1>1 DEF MayRely
      <4>. QED  BY <3>3, <4>1, <4>2, <1>9, <1>10 DEF StandsIn, Importer, Maker
    <3>. QED  BY <1>2, <1>12, <3>1, <3>2, <3>3 DEF Saved
  <2>2. /\ <<>> \in Seq(Kept) /\ Len(<<>>) = 0 /\ ~Importer(e) /\ e.forward.do # "delete"
        /\ OthersStay(e, receipts, receipts')
    BY <1>2, <1>9, <1>12, <2>1 DEF Importer, OthersStay
  <2>3. e.forward.do = "pay" => e.inverse.to = due
    BY <1>1, <1>9, <1>10 DEF MayRely
  <2>4. Maker(e) => e.inverse.on \in Singles /\ e.inverse.on \notin ledger
    BY <1>6, <1>9, <1>10 DEF Maker
  <2> HIDE DEF e
  <2>5. Explains(Append(undo, e), <<>>, ledger \union StandsIn(receipts', e), due', receipts')
    BY <1>3, <1>4, <1>8, <2>1, <2>2, <2>3, <2>4, SaveExplains
  <2>. QED  BY <2>1, <2>5, <1>12 DEF e
<1>. QED  BY <1>11, <1>12

\* The batch of the request under way, whatever comes of it.
LEMMA WriteCalm ==
    ASSUME MoneyInv, Calm, NEW n \in DOMAIN calls, Write(n)
    PROVE  Calm'
<1>1. /\ calls[n].step = "read" /\ UNCHANGED <<undo, redo, dialog>> /\ UNCHANGED browser
  BY DEF Write, browser
<1>2. n \in InFlight /\ Fits(n) /\ MayRely(n) /\ ~calls[n].told.ok /\ calls[n] \in Requests
  BY <1>1, UnderWay
<1>3. Same(n) /\ calls'[n].step = "done"
  BY WriteDoes
<1>4. CASE Refused(n)
  <2>1. Fits(n)'
    BY <1>1, <1>2, <1>3, <1>4, FitsStays DEF Refused
  <2>2. \A f \in Files : dialog[f] \in {"new", "failed"} => receipts'[f].state = "none"
    BY <1>4 DEF Refused, Calm
  <2>. QED  BY <1>1, <1>2, <1>3, <2>1, <2>2, HandlerCalm
<1>5. ASSUME NEW rows, calls'[n].told = Told(TRUE, rows), Did(n, rows)
      PROVE  Calm'
  <2> DEFINE c == calls'[n]
  <2>1. /\ c.told.ok /\ c.told.rows = rows /\ c.command = calls[n].command
        /\ c.from = calls[n].from /\ c.entry = calls[n].entry
    BY <1>3, <1>5 DEF Told, Same
  <2> HIDE DEF c
  <2>2. Explains(UndoThen(c, undo), RedoThen(c, redo), ledger', due', receipts')
    <3>1. CASE c.from = "save"
      BY <3>1, <1>1, <1>5, <2>1, SaveWorks DEF UndoThen, RedoThen, Pushes
    <3>2. CASE c.from = "undo"
      <4>1. /\ Explains(undo, redo, ledger', due', receipts')
            /\ c.entry.forward.do # "delete"
        BY <3>2, <1>1, <1>5, <2>1, UndoWorks
      <4>2. Retargeted(c, redo) = redo
        BY <3>2, <4>1 DEF Retargeted, Retarget
      <4>. QED  BY <3>2, <4>1, <4>2, <2>1 DEF UndoThen, RedoThen
    <3>3. CASE c.from = "redo"
      <4> DEFINE d == Retarget(c.entry, "redo", rows)
      <4>1. Explains(Append(Popped(undo), d), redo, ledger', due', receipts')
        BY <3>3, <1>1, <1>5, <2>1, RedoWorks
      <4>2. undo \in Seq(Kept) /\ undo # <<>> /\ Last(undo) = c.entry
        BY <3>3, <1>2, <2>1 DEF Fits, MoneyInv, Shape, BrowserTyped
      <4>3. Append(Front(undo), c.entry) = undo
        BY <4>2, StackEnds
      <4>4. Retargeted(c, undo) = Append(Popped(undo), d)
        BY <3>3, <2>1, <4>2, <4>3 DEF Retargeted, Replaced, Popped
      <4>. QED  BY <3>3, <4>1, <4>4, <2>1 DEF UndoThen, RedoThen
    <3>. QED  BY <3>1, <3>2, <3>3, <1>2, <2>1, RequestFields
  <2>3. Fits(n)'
    BY <1>1, <1>2, <2>1, <2>2 DEF Fits, c
  <2>4. \A f \in Files : dialog[f] \in {"new", "failed"} => receipts'[f].state = "none"
    <3>1. CASE UNCHANGED receipts
      BY <3>1 DEF Calm
    <3>2. ASSUME NEW f \in Files, NEW x, receipts' = [receipts EXCEPT ![f] = x],
                 f = calls[n].command.on, calls[n].command.do \in {"import", "unimport"}
          PROVE  \A g \in Files : dialog[g] \in {"new", "failed"} => receipts'[g].state = "none"
      <4>1. receipts \in [Files -> Receipts]
        BY DEF MoneyInv, Shape, TablesTyped
      <4>2. dialog[f] \notin {"new", "failed"}
        <5>1. CASE receipts[f].state = "none"
          <6>1. calls[n].command.do = "import"
            BY <1>1, <3>2, <5>1, ReceiptUnderWay
          <6>2. calls[n].from = "save"
            BY <1>1, <3>2, <5>1, <6>1, ReceiptUnderWay
          <6>. QED  BY <1>2, <3>2, <6>1, <6>2 DEF Fits
        <5>2. CASE receipts[f].state # "none"
          BY <5>2 DEF Calm
        <5>. QED  BY <5>1, <5>2
      <4>. QED  BY <3>2, <4>1, <4>2 DEF Calm
    <3>3. calls[n].command \in Commands
      BY <1>2, RequestFields
    <3>4. calls[n].command.do \in {"import", "unimport"} => calls[n].command.on \in Files
      BY <3>3, CommandFields
    <3>5. calls[n].command.do = "import" => receipts[calls[n].command.on].state # "active"
      BY <1>1, ReceiptUnderWay
    <3>. QED  BY <1>5, <3>1, <3>2, <3>4, <3>5 DEF Did
  <2>. QED  BY <1>1, <1>2, <1>3, <2>1, <2>3, <2>4, HandlerCalm DEF c
<1>. QED  BY <1>4, <1>5, WriteDoes

\* A handler reads: what it may answer already is not what it may rely on.
LEMMA ReadCalm ==
    ASSUME MoneyInv, Calm, NEW n \in DOMAIN calls, Read(n)
    PROVE  Calm'
<1> DEFINE c == calls[n].command
<1>1. /\ calls[n].step = "sent" /\ calls[n].step # "done" /\ UNCHANGED browser
      /\ UNCHANGED <<undo, redo, dialog, ledger, due, receipts>>
  BY DEF Read, browser, server
<1>2. n \in InFlight /\ Fits(n) /\ ~calls[n].told.ok /\ calls[n] \in Requests
  BY <1>1, UnderWay
<1>3. /\ c.do = "import" => receipts[c.on].state # "active"
      /\ c.do = "unimport" => receipts[c.on].state = "active"
  BY <1>1, ReceiptUnderWay
<1>4. /\ Same(n) /\ calls'[n].told = calls[n].told
      /\ calls'[n].step = "read" /\ calls'[n].command.do = "pay" => calls'[n].date = due
  <2>0. Shape
    BY DEF MoneyInv
  <2>1. CASE Refuse(n)
    BY <2>0, <2>1, RefuseCall
  <2>2. CASE GoOn(n)
    BY <2>0, <2>2, GoOnCall
  <2>3. CASE /\ calls' = [calls EXCEPT ![n].step = "read", ![n].receipt = receipts[c.on]]
             /\ c.do # "pay"
    BY <2>0, <2>3, ReceiptCall DEF Same
  <2>4. \/ Refuse(n)
        \/ GoOn(n)
        \/ /\ calls' = [calls EXCEPT ![n].step = "read", ![n].receipt = receipts[c.on]]
           /\ c.do # "pay"
    <3>1. CASE c.do = "import"
      BY <3>1, <1>3 DEF Read, ReadImport
    <3>2. CASE c.do = "unimport"
      BY <3>2, <1>3 DEF Read, ReadUndoImport
    <3>3. CASE c.do \notin {"import", "unimport"}
      BY <3>3 DEF Read, ReadOther
    <3>. QED  BY <3>1, <3>2, <3>3
  <2>. QED  BY <2>1, <2>2, <2>3, <2>4
<1>5. Fits(n)'
  BY <1>1, <1>2, <1>4, FitsStays
<1>6. \A f \in Files : dialog[f] \in {"new", "failed"} => receipts'[f].state = "none"
  BY <1>1 DEF Calm
<1>. QED  BY <1>1, <1>2, <1>4, <1>5, <1>6, HandlerCalm

\* The answer arrives, and the stacks are what they were going to be.
LEMMA AnswerCalm ==
    ASSUME MoneyInv, Calm, NEW n \in DOMAIN calls, Answer(n)
    PROVE  Calm'
<1> DEFINE c == calls[n]
<1>1. /\ c.awaited /\ c.step = "done" /\ calls' = [calls EXCEPT ![n].awaited = FALSE]
      /\ UNCHANGED <<ledger, due, receipts>>
      /\ IF c.told.ok THEN Worked(n) ELSE Failed(n)
  BY DEF Answer, server
<1>2. n \in InFlight /\ Fits(n) /\ InFlight = {n} /\ c \in Requests
  BY <1>1 DEF InFlight, Calm, MoneyInv, Shape, CallsTyped
<1>3. /\ DOMAIN calls' = DOMAIN calls
      /\ \A m \in DOMAIN calls : m # n => calls'[m] = calls[m]
      /\ calls'[n] = [c EXCEPT !.awaited = FALSE]
  <2>1. calls \in Seq(Requests)
    BY DEF MoneyInv, Shape, CallsTyped
  <2>. QED  BY <1>1, <2>1
<1>4. ~calls'[n].awaited /\ calls'[n].step = "done"
  BY <1>1, <1>2, <1>3 DEF Requests
<1>5. InFlight' = {}
  BY <1>2, <1>3, <1>4 DEF InFlight
<1>6. c.from \in {"save", "undo", "redo"} /\ c.command \in Commands
  BY <1>2, RequestFields
<1>7. undo' = UndoThen(c, undo) /\ redo' = RedoThen(c, redo)
  <2> HIDE DEF c
  <2>1. CASE c.told.ok
    <3>1. Worked(n)
      BY <1>1, <2>1
    <3>2. CASE c.from = "save"
      BY <2>1, <3>1, <3>2 DEF Worked, Push, UndoThen, RedoThen, Pushes, c
    <3>3. CASE c.from = "undo"
      BY <2>1, <3>1, <3>3 DEF Worked, UndoThen, RedoThen, c
    <3>4. CASE c.from = "redo"
      BY <2>1, <3>1, <3>4 DEF Worked, UndoThen, RedoThen, c
    <3>. QED  BY <1>6, <3>2, <3>3, <3>4
  <2>2. CASE ~c.told.ok
    <3>1. Failed(n)
      BY <1>1, <2>2
    <3>2. CASE c.from = "save"
      BY <2>2, <3>1, <3>2 DEF Failed, UndoThen, RedoThen, Pushes, c
    <3>3. CASE c.from = "undo"
      BY <2>2, <3>1, <3>3 DEF Failed, UndoThen, RedoThen, c
    <3>4. CASE c.from = "redo"
      BY <2>2, <3>1, <3>4 DEF Failed, UndoThen, RedoThen, c
    <3>. QED  BY <1>6, <3>2, <3>3, <3>4
  <2>. QED  BY <2>1, <2>2
<1>8. Explains(undo', redo', ledger', due', receipts')
  BY <1>1, <1>2, <1>7 DEF Fits
<1>9. \A f \in Files : dialog'[f] \in {"new", "failed"} => receipts'[f].state = "none"
  <2>1. dialog \in [Files -> {"new", "saving", "failed", "saved"}]
    BY DEF MoneyInv, Shape, BrowserTyped
  <2>2. CASE c.command.do = "import" /\ c.from = "save"
    <3>1. c.command.on \in Files
      BY <1>6, <2>2, CommandFields
    <3>2. CASE c.told.ok
      <4>1. dialog' = [dialog EXCEPT ![c.command.on] = "saved"]
        BY <1>1, <2>2, <3>2 DEF Worked, Dialog
      <4>. QED  BY <1>1, <2>1, <3>1, <4>1 DEF Calm
    <3>3. CASE ~c.told.ok
      <4>1. dialog' = [dialog EXCEPT ![c.command.on] = "failed"]
        BY <1>1, <2>2, <3>3 DEF Failed, Dialog
      <4>2. receipts[c.command.on].state = "none"
        BY <1>2, <2>2, <3>3 DEF Fits, MayRely
      <4>. QED  BY <1>1, <2>1, <3>1, <4>1, <4>2 DEF Calm
    <3>. QED  BY <3>2, <3>3
  <2>3. CASE ~(c.command.do = "import" /\ c.from = "save")
    <3>1. dialog' = dialog
      BY <1>1, <2>3 DEF Worked, Failed, Dialog
    <3>. QED  BY <1>1, <3>1 DEF Calm
  <2>. QED  BY <2>2, <2>3
<1>10. \A m \in DOMAIN calls' : calls'[m].awaited \/ calls'[m].step = "done"
  BY <1>3, <1>4 DEF Calm
<1>. QED  BY <1>5, <1>8, <1>9, <1>10 DEF Calm

\* A request is sent while nothing is under way.
LEMMA SendCalm ==
    ASSUME MoneyInv, Calm, InFlight = {}, NEW command, NEW from, NEW entry,
           Send(command, from, entry),
           from = "save" => command.do # "delete",
           from = "save" /\ command.do = "import" =>
              dialog'[command.on] = "saving" /\ receipts[command.on].state = "none",
           from = "save" /\ command.do = "pay" => command.to = due,
           from = "undo" => redo' # <<>> /\ Last(redo') = entry,
           from = "redo" => undo' # <<>> /\ Last(undo') = entry,
           \A f \in Files : dialog'[f] \in {"new", "failed"} => dialog[f] \in {"new", "failed"},
           Explains(UndoThen(NewCall(command, from, entry), undo'),
                    RedoThen(NewCall(command, from, entry), redo'), ledger, due, receipts)
    PROVE  Calm'
<1> DEFINE c == NewCall(command, from, entry)
<1>0. PICK n : n = Len(calls) + 1
  OBVIOUS
<1>1. /\ c.command = command /\ c.from = from /\ c.entry = entry /\ c.awaited /\ c.step = "sent"
      /\ ~c.told.ok
  BY DEF NewCall, Told
<1>2. calls \in Seq(Requests) /\ calls' = Append(calls, c) /\ UNCHANGED <<ledger, due, receipts>>
  BY DEF MoneyInv, Shape, CallsTyped, Send, server
<1>3. /\ DOMAIN calls' = DOMAIN calls \union {n} /\ calls'[n] = c /\ n \notin DOMAIN calls
      /\ \A m \in DOMAIN calls : calls'[m] = calls[m]
  BY <1>0, <1>2
<1> HIDE DEF c
<1>4. InFlight' = {n}
  BY <1>1, <1>3 DEF InFlight
<1>5. Fits(n)'
  <2>1. Explains(UndoThen(calls'[n], undo'), RedoThen(calls'[n], redo'), ledger', due', receipts')
    BY <1>2, <1>3 DEF c
  <2>2. MayRely(n)'
    BY <1>1, <1>2, <1>3 DEF MayRely
  <2>. QED  BY <1>1, <1>2, <1>3, <2>1, <2>2 DEF Fits
<1>6. \A m \in DOMAIN calls' : calls'[m].awaited \/ calls'[m].step = "done"
  BY <1>1, <1>3 DEF Calm
<1>7. \A f \in Files : dialog'[f] \in {"new", "failed"} => receipts'[f].state = "none"
  BY <1>2 DEF Calm
<1>. QED  BY <1>4, <1>5, <1>6, <1>7 DEF Calm

\* What was calm before a request is sent: a payment is of the next date.
LEMMA SendWasCalm ==
    ASSUME History, NEW command, NEW from, NEW entry, Send(command, from, entry), calm', ~stale'
    PROVE  /\ Calm /\ InFlight = {}
           /\ from = "save" => command.do # "delete"
           /\ from = "save" /\ command.do = "pay" => shown = due
<1>1. calm /\ InFlight = {} /\ ~(from = "save" /\ command.do = "delete")
  BY DEF Send
<1>2. ~(stale \/ (from = "save" /\ command.do = "pay" /\ shown # due))
  BY DEF Send
<1>. QED  BY <1>1, <1>2 DEF History

\* The stacks that a request without an answer would leave.
LEMMA NewCallThen ==
    \A command, entry, s :
       /\ UndoThen(NewCall(command, "save", entry), s) = s
       /\ RedoThen(NewCall(command, "save", entry), s) = s
       /\ UndoThen(NewCall(command, "undo", entry), s) = Append(s, entry)
       /\ RedoThen(NewCall(command, "undo", entry), s) = Popped(s)
       /\ UndoThen(NewCall(command, "redo", entry), s) = Popped(s)
       /\ RedoThen(NewCall(command, "redo", entry), s) = Append(s, entry)
  BY DEF NewCall, Told, UndoThen, RedoThen, Pushes

LEMMA SaveImportHistory ==
    ASSUME MoneyInv, History, NEW f \in Files, SaveImport(f)
    PROVE  History'
<1> SUFFICES ASSUME calm', ~stale' PROVE Calm'
  BY DEF History
<1> DEFINE command == Command("import", f, 0)
           entry == Entry(command, command)
<1>1. Send(command, "save", entry)
  BY DEF SaveImport, Save
<1>2. Calm /\ InFlight = {}
  BY <1>1, SendWasCalm
<1>3. command.do = "import" /\ command.on = f
  BY DEF Command
<1>4. /\ UNCHANGED <<undo, redo>> /\ dialog' = [dialog EXCEPT ![f] = "saving"]
      /\ dialog[f] \in {"new", "failed"}
  BY DEF SaveImport
<1>5. dialog \in [Files -> {"new", "saving", "failed", "saved"}]
  BY DEF MoneyInv, Shape, BrowserTyped
<1>6. /\ dialog'[f] = "saving" /\ receipts[f].state = "none"
      /\ \A g \in Files : dialog'[g] \in {"new", "failed"} => dialog[g] \in {"new", "failed"}
  BY <1>2, <1>4, <1>5 DEF Calm
<1>7. Explains(undo, redo, ledger, due, receipts)
  BY <1>2 DEF Calm
<1> HIDE DEF command, entry
<1>8. Explains(UndoThen(NewCall(command, "save", entry), undo'),
               RedoThen(NewCall(command, "save", entry), redo'), ledger, due, receipts)
  BY <1>4, <1>7, NewCallThen
<1>. QED  BY <1>1, <1>2, <1>3, <1>4, <1>6, <1>8, SendCalm

LEMMA DispatchHistory ==
    ASSUME MoneyInv, History, Dispatch
    PROVE  History'
<1> SUFFICES ASSUME calm', ~stale' PROVE Calm'
  BY DEF History
<1>1. UNCHANGED <<undo, redo, dialog>>
  BY DEF Dispatch, browser
<1>2. ASSUME NEW command, Save(command), command.do # "import",
             command.do = "pay" => command.to = shown
      PROVE  Calm'
  <2> DEFINE entry == Entry(command, command)
  <2>1. Send(command, "save", entry)
    BY <1>2 DEF Save
  <2> HIDE DEF entry
  <2>2. /\ Calm /\ InFlight = {} /\ command.do # "delete"
        /\ command.do = "pay" => shown = due
    BY <2>1, SendWasCalm
  <2>3. Explains(undo, redo, ledger, due, receipts)
    BY <2>2 DEF Calm
  <2>4. Explains(UndoThen(NewCall(command, "save", entry), undo'),
                 RedoThen(NewCall(command, "save", entry), redo'), ledger, due, receipts)
    BY <1>1, <2>3, NewCallThen
  <2>. QED  BY <1>1, <1>2, <2>1, <2>2, <2>3, <2>4, SendCalm
<1>3. \A do, on, to : Command(do, on, to).do = do /\ Command(do, on, to).to = to
  BY DEF Command
<1>. QED  BY <1>2, <1>3 DEF Dispatch

LEMMA UndoHistory ==
    ASSUME MoneyInv, History, Undo
    PROVE  History'
<1> SUFFICES ASSUME calm', ~stale' PROVE Calm'
  BY DEF History
<1> DEFINE e == Last(undo)
<1>1. /\ undo # <<>> /\ undo' = Front(undo) /\ redo' = Append(redo, e)
      /\ Send(e.inverse, "undo", e) /\ UNCHANGED dialog
  BY DEF Undo
<1>2. Calm /\ InFlight = {}
  BY <1>1, SendWasCalm
<1>3. Explains(undo, redo, ledger, due, receipts)
  BY <1>2 DEF Calm
<1>4. undo \in Seq(Kept) /\ redo \in Seq(Kept)
  BY DEF MoneyInv, Shape, BrowserTyped
<1>5. Front(undo) \in Seq(Kept) /\ e \in Kept /\ Append(Front(undo), e) = undo
  BY <1>1, <1>4, StackEnds
<1> HIDE DEF e
<1>6. redo' # <<>> /\ Front(redo') = redo /\ Last(redo') = e
  BY <1>1, <1>4, <1>5, AppendEnds
<1>7. Explains(UndoThen(NewCall(e.inverse, "undo", e), undo'),
               RedoThen(NewCall(e.inverse, "undo", e), redo'), ledger, due, receipts)
  <2>1. /\ UndoThen(NewCall(e.inverse, "undo", e), undo') = Append(undo', e)
        /\ RedoThen(NewCall(e.inverse, "undo", e), redo') = Popped(redo')
    BY NewCallThen
  <2>2. Append(undo', e) = undo /\ Popped(redo') = redo
    BY <1>1, <1>5, <1>6 DEF Popped
  <2>. QED  BY <1>3, <2>1, <2>2
<1>. QED  BY <1>1, <1>2, <1>6, <1>7, SendCalm

LEMMA RedoHistory ==
    ASSUME MoneyInv, History, Redo
    PROVE  History'
<1> SUFFICES ASSUME calm', ~stale' PROVE Calm'
  BY DEF History
<1> DEFINE e == Last(redo)
<1>1. /\ redo # <<>> /\ redo' = Front(redo) /\ undo' = Append(undo, e)
      /\ Send(e.forward, "redo", e) /\ UNCHANGED dialog
  BY DEF Redo
<1>2. Calm /\ InFlight = {}
  BY <1>1, SendWasCalm
<1>3. Explains(undo, redo, ledger, due, receipts)
  BY <1>2 DEF Calm
<1>4. undo \in Seq(Kept) /\ redo \in Seq(Kept)
  BY DEF MoneyInv, Shape, BrowserTyped
<1>5. Front(redo) \in Seq(Kept) /\ e \in Kept /\ Append(Front(redo), e) = redo
  BY <1>1, <1>4, StackEnds
<1> HIDE DEF e
<1>6. undo' # <<>> /\ Front(undo') = undo /\ Last(undo') = e
  BY <1>1, <1>4, <1>5, AppendEnds
<1>7. Explains(UndoThen(NewCall(e.forward, "redo", e), undo'),
               RedoThen(NewCall(e.forward, "redo", e), redo'), ledger, due, receipts)
  <2>1. /\ RedoThen(NewCall(e.forward, "redo", e), redo') = Append(redo', e)
        /\ UndoThen(NewCall(e.forward, "redo", e), undo') = Popped(undo')
    BY NewCallThen
  <2>2. Append(redo', e) = redo /\ Popped(undo') = undo
    BY <1>1, <1>5, <1>6 DEF Popped
  <2>. QED  BY <1>3, <2>1, <2>2
<1>. QED  BY <1>1, <1>2, <1>6, <1>7, SendCalm

LEMMA HistoryInit == Init => History
<1> SUFFICES ASSUME Init PROVE Calm
  BY DEF History
<1>1. /\ calls = <<>> /\ undo = <<>> /\ redo = <<>> /\ ledger = {} /\ due = 0
      /\ \A f \in Files : receipts[f].state = "none"
  BY DEF Init, Unread
<1>2. DOMAIN calls = {} /\ InFlight = {}
  BY <1>1 DEF InFlight
<1>3. Explains(undo, redo, ledger, due, receipts)
  <2>1. /\ undo \in Seq(Kept) /\ redo \in Seq(Kept) /\ Len(undo) = 0 /\ Len(redo) = 0
        /\ DOMAIN undo = {} /\ DOMAIN redo = {}
    BY <1>1
  <2>2. DOMAIN Line(undo, redo) = {}
    BY <2>1 DEF Line
  <2>3. InOrder(Line(undo, redo))
    BY <2>2 DEF InOrder, PaysOf
  <2>4. PaysOf(undo) = {} /\ RowsOf(receipts, undo) = {}
    BY <2>1 DEF PaysOf, RowsOf
  <2>5. Cardinality(PaysOf(undo)) = 0
    BY <2>4, FS_EmptySet
  <2>. QED  BY <1>1, <2>1, <2>3, <2>4, <2>5 DEF Explains
<1>. QED  BY <1>1, <1>2, <1>3 DEF Calm

LEMMA HistoryStep == MoneyInv /\ History /\ [Next]_vars => History'
<1> SUFFICES ASSUME MoneyInv, History, [Next]_vars PROVE History'
  OBVIOUS
<1>1. CASE \E f \in Files : SaveImport(f)
  BY <1>1, SaveImportHistory
<1>2. CASE Dispatch
  BY <1>2, DispatchHistory
<1>3. CASE Undo
  BY <1>3, UndoHistory
<1>4. CASE Redo
  BY <1>4, RedoHistory
<1>5. ASSUME NEW n \in DOMAIN calls, Read(n) \/ Write(n) \/ Answer(n)
      PROVE  History'
  <2>1. calm' = calm /\ stale' = stale
    BY <1>5 DEF Read, Write, Answer
  <2>. QED  BY <1>5, <2>1, ReadCalm, WriteCalm, AnswerCalm DEF History
<1>6. ASSUME NEW n \in DOMAIN calls, Lose(n)
      PROVE  History'
  BY <1>6 DEF Lose, History
<1>7. CASE Refetch \/ UNCHANGED vars
  <2>1. /\ UNCHANGED <<receipts, ledger, due, calls, undo, redo, dialog, calm, stale>>
        /\ InFlight' = InFlight
    BY <1>7 DEF Refetch, vars, server, browser, InFlight
  <2>. QED  BY <2>1 DEF History, Calm, Fits, MayRely
<1>. QED  BY <1>1, <1>2, <1>3, <1>4, <1>5, <1>6, <1>7 DEF Next

\* While one request is made at a time, every answer arrives, no row is deleted by hand and
\* every payment is recorded with the schedule's next date shown, the undo stack explains
\* the ledger and the next date, however much has been saved, undone, redone and refused.
THEOREM HistoryExplains == Spec => []HistoryExplainsTheLedger
<1>1. MoneyInv /\ History => HistoryExplainsTheLedger
  <2> SUFFICES ASSUME History, calm, ~stale, InFlight = {}
               PROVE  /\ ledger = UNION {Stands(e) : e \in Entries(undo)}
                      /\ due = Cardinality(Payments)
    BY DEF HistoryExplainsTheLedger
  <2>1. Explains(undo, redo, ledger, due, receipts)
    BY DEF History, Calm
  <2>2. \A e : Stands(e) = StandsIn(receipts, e)
    BY DEF Stands, StandsIn, Importer, Maker
  <2>3. UNION {Stands(e) : e \in Entries(undo)} = RowsOf(receipts, undo)
    BY <2>2 DEF Entries, RowsOf
  <2>. QED  BY <2>1, <2>3 DEF Explains, PaysOf, Payments
<1>2. Init => MoneyInv /\ History
  BY MoneyInit, HistoryInit
<1>3. (MoneyInv /\ History) /\ [Next]_vars => (MoneyInv /\ History)'
  BY MoneyStep, HistoryStep
<1>. QED  BY <1>1, <1>2, <1>3, PTL DEF Spec

===============================================================================
