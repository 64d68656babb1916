------------------------------ MODULE MoneyBudget ------------------------------
(***************************************************************************)
(* Shedflare Money: the envelope budget.                                    *)
(*                                                                          *)
(* The table budgets holds what a month assigns to a category, and whether  *)
(* the category carries its overspending; budget_months holds the money     *)
(* held back for the next month.  Everything else is computed on the fly:   *)
(* computeMonthBudget rolls the balances forward from the first month with  *)
(* any data (src/apps/money/src/server/budget-engine.ts).                    *)
(*                                                                          *)
(* A command is one request (command-handlers/budget.ts).  Most of them are *)
(* one statement or one D1 batch, after checks that nothing here changes;   *)
(* the others read rows first, or write row by row, and other requests and  *)
(* failures come in between.                                                *)
(*                                                                          *)
(* A month is the integer YYYYMM of the code, an amount is in cents.        *)
(***************************************************************************)
EXTENDS Integers, FiniteSets, FiniteSetsExt, Functions

CONSTANTS
    Months,         \* consecutive months, as integers YYYYMM
    Expense,        \* the expense categories
    Income,         \* the income categories
    Hidden,         \* the categories that are not shown
    Goals,          \* the categories with a monthly target
    GoalAmount,     \* their target
    Requests,       \* the slots for commands that take several steps
    Cents,          \* the amounts a command assigns, holds or moves
    Spans,          \* the numbers of months that are averaged
    Entries,        \* the amounts of transactions and opening balances, of either sign
    MaxSteps,       \* bound: commands, transactions and accounts
    NoRow, Idle

NextMonth(m) == IF m % 100 = 12 THEN m + 89 ELSE m + 1

ASSUME MonthsFollow ==
    /\ Months # {} /\ IsFiniteSet(Months)
    /\ \A m \in Months : m \in Nat /\ m % 100 \in 1..12
    /\ \A m \in Months : NextMonth(m) \in Months \/ \A k \in Months : k <= m
ASSUME CategoriesFit == Expense \intersect Income = {} /\ IsFiniteSet(Expense \union Income)
ASSUME AmountsFit ==
    /\ Cents \subseteq Nat /\ Entries \subseteq Nat /\ GoalAmount \in Nat \ {0}
    /\ NoRow \notin [amount : Int, carryover : BOOLEAN]
    /\ Spans \subseteq Nat \ {0} /\ MaxSteps \in Nat

Categories == Expense \union Income
Visible    == Categories \ Hidden

VARIABLES
    budgets,    \* [Months -> [Categories -> [amount, carryover] or NoRow]]
    buffers,    \* [Months -> cents]: the table budget_months
    activity,   \* [Months -> [Categories -> cents]]: the transactions of each
    openings,   \* [Months -> cents]: the opening balances of the accounts added
    reqs,       \* [Requests -> a command under way, or Idle]
    steps

money == <<activity, openings>>
vars  == <<budgets, buffers, money, reqs, steps>>

-------------------------------------------------------------------------------
(* The engine.                                                               *)

Row(amount, carryover) == [amount |-> amount, carryover |-> carryover]

AmountIn(row) == IF row = NoRow THEN 0 ELSE row.amount

Amount(m, c)    == AmountIn(budgets[m][c])
Carryover(m, c) == budgets[m][c] # NoRow /\ budgets[m][c].carryover

AtLeastZero(n) == IF n < 0 THEN 0 ELSE n

HasData(m) ==
    \/ buffers[m] # 0 \/ openings[m] # 0
    \/ \E c \in Categories : budgets[m][c] # NoRow \/ activity[m][c] # 0

StartMonth(m) == Min({m} \union {k \in Months : k <= m /\ HasData(k)})

\* Mutant: last month's overspending is taken from the categories that carry it, too.
Overspent_Twice(m, before) ==
    SumFunction([c \in Expense |-> AtLeastZero(-before[c])])

\* What the categories that do not carry their overspending owe of last month.
Overspent(m, before) ==
    SumFunction([c \in {d \in Expense : ~Carryover(m, d)} |-> AtLeastZero(-before[c])])

\* Mutant: whatever the balance, it goes on.
Carried_Always(m, c, before) == before[c]

Carried(m, c, before) == IF Carryover(m, c) THEN before[c] ELSE AtLeastZero(before[c])

Nothing == [toBudget |-> 0, buffered |-> 0, leftover |-> [c \in Expense |-> 0]]

\* One month after the one before it.
Roll(before, m) ==
    [toBudget |-> before.toBudget + before.buffered
                    + SumFunction([c \in Income |-> activity[m][c]])
                    + openings[m]
                    - Overspent(m, before.leftover)
                    - SumFunction([c \in Categories |-> Amount(m, c)])
                    - buffers[m],
     buffered |-> buffers[m],
     leftover |-> [c \in Expense |->
                     Amount(m, c) + activity[m][c] + Carried(m, c, before.leftover)]]

MonthBefore(m) == CHOOSE k \in Months : NextMonth(k) = m

computeMonthBudget(month) ==
    LET start == StartMonth(month)
        figures[m \in {k \in Months : start <= k /\ k <= month}] ==
            IF m = start THEN Roll(Nothing, m)
                         ELSE LET before == figures[MonthBefore(m)] IN Roll(before, m)
    IN  figures[month]

-------------------------------------------------------------------------------
Init ==
    /\ budgets = [m \in Months |-> [c \in Categories |-> NoRow]]
    /\ buffers = [m \in Months |-> 0]
    /\ activity = [m \in Months |-> [c \in Categories |-> 0]]
    /\ openings = [m \in Months |-> 0]
    /\ reqs = [r \in Requests |-> Idle]
    /\ steps = 0

Signed(S) == S \union {-a : a \in S}

Step == steps < MaxSteps /\ steps' = steps + 1

Put(m, c, row) == budgets' = [budgets EXCEPT ![m][c] = row]

\* INSERT .. ON CONFLICT DO UPDATE SET amount: the flag of a row that is there stays.
Upserted(row, amount) ==
    IF row = NoRow THEN Row(amount, FALSE) ELSE [row EXCEPT !.amount = amount]

\* A batch: some rows of one month are changed together.
PutAll(m, change) ==
    budgets' = [budgets EXCEPT ![m] = [c \in Categories |->
                   IF c \in DOMAIN change THEN change[c] ELSE @[c]]]

-------------------------------------------------------------------------------
(* What comes from outside the budget: a transaction, an account.            *)

Record ==
    /\ Step
    /\ \E m \in Months, c \in Categories, a \in Signed(Entries) :
          activity' = [activity EXCEPT ![m][c] = @ + a]
    /\ UNCHANGED <<budgets, buffers, openings, reqs>>

AddAccount ==
    /\ Step
    /\ \E m \in Months, a \in Signed(Entries) : openings' = [openings EXCEPT ![m] = @ + a]
    /\ UNCHANGED <<budgets, buffers, activity, reqs>>

-------------------------------------------------------------------------------
(* The commands of one statement or one batch.                               *)

SetAmount ==
    /\ Step
    /\ \E m \in Months, c \in Categories, a \in Cents :
          Put(m, c, Upserted(budgets[m][c], a))
    /\ UNCHANGED <<buffers, money, reqs>>

\* A plan is for visible expense categories, each at most once.
Planned == SUBSET (Expense \intersect Visible) \ {{}}

SetPlan ==
    /\ Step
    /\ \E m \in Months, S \in Planned : \E plan \in [S -> Cents] :
          PutAll(m, [c \in S |-> Upserted(budgets[m][c], plan[c])])
    /\ UNCHANGED <<buffers, money, reqs>>

\* Targets are funded by what they lack, and taken back by the same amounts.
Allocate ==
    /\ Step
    /\ \E m \in Months, S \in Planned :
       \E plan \in [S -> Signed(Cents) \ {0}] :
          PutAll(m, [c \in S |-> Upserted(budgets[m][c], Amount(m, c) + plan[c])])
    /\ UNCHANGED <<buffers, money, reqs>>

\* An UPDATE: without a row nothing happens.
SetCarryover ==
    /\ Step
    /\ \E m \in Months, c \in Categories, carryover \in BOOLEAN :
          /\ budgets[m][c] # NoRow
          /\ Put(m, c, [budgets[m][c] EXCEPT !.carryover = carryover])
    /\ UNCHANGED <<buffers, money, reqs>>

\* set_buffer and hold_for_next_month.
SetBuffer ==
    /\ Step
    /\ \E m \in Months, a \in Cents : buffers' = [buffers EXCEPT ![m] = a]
    /\ UNCHANGED <<budgets, money, reqs>>

-------------------------------------------------------------------------------
(* The commands of several steps, each a record of its payload and of what it *)
(* has read; "todo" are the categories still to come.                         *)

Begin(r, command) == reqs[r] = Idle /\ Step /\ reqs' = [reqs EXCEPT ![r] = command]

Finish(r) == reqs' = [reqs EXCEPT ![r] = Idle]

Doing(r, do) == reqs[r] # Idle /\ reqs[r].do = do

Done(r, c) ==
    IF reqs[r].todo = {c} THEN Finish(r) ELSE reqs' = [reqs EXCEPT ![r].todo = @ \ {c}]

\* transfer_budget and cover_overspending: both rows are read, then changed in a batch.
\* The two SELECTs are one step: each is used for its own row alone.
BeginMove(r) ==
    /\ \E m \in Months, from, to \in Expense \intersect Visible, a \in Cents :
          /\ from # to /\ a > 0
          /\ Begin(r, [do |-> "move", month |-> m, from |-> from, to |-> to, amount |-> a,
                       fromRow |-> budgets[m][from], toRow |-> budgets[m][to]])
    /\ UNCHANGED <<budgets, buffers, money>>

\* Mutant: the amounts that were read are written back.
MovedRow_Stale(row, read, delta) ==
    IF read = NoRow THEN Row(delta, FALSE) ELSE [read EXCEPT !.amount = @ + delta]

\* A row that is there is changed by the amount; a new one starts from what was read.
MovedRow(row, read, delta) ==
    LET from == IF row = NoRow THEN read ELSE row
    IN  IF from = NoRow THEN Row(delta, FALSE) ELSE [from EXCEPT !.amount = @ + delta]

Move(r) ==
    LET q    == reqs[r]
        rows == budgets[q.month]
    IN  /\ Doing(r, "move")
        /\ PutAll(q.month, [c \in {q.from, q.to} |->
               IF c = q.from THEN MovedRow(rows[c], q.fromRow, -q.amount)
                             ELSE MovedRow(rows[c], q.toRow, q.amount)])
        /\ Finish(r)
        /\ UNCHANGED <<buffers, money, steps>>

\* copy_previous_month: last month's rows are read, then inserted where there is none.
BeginCopy(r) ==
    /\ \E k, m \in Months :
          /\ NextMonth(k) = m
          /\ Begin(r, [do |-> "copy", month |-> m, prevBudgets |-> budgets[k]])
    /\ UNCHANGED <<budgets, buffers, money>>

Copy(r) ==
    LET q    == reqs[r]
        rows == budgets[q.month]
    IN  /\ Doing(r, "copy")
        /\ PutAll(q.month, [c \in Categories |->
               IF rows[c] = NoRow THEN q.prevBudgets[c] ELSE rows[c]])
        /\ Finish(r)
        /\ UNCHANGED <<buffers, money, steps>>

\* set_zero: the month's rows are deleted, then written one by one.
BeginZero(r) ==
    /\ \E m \in Months :
          /\ Begin(r, [do |-> "zero", month |-> m, todo |-> Visible])
          /\ PutAll(m, [c \in Categories |-> NoRow])
    /\ UNCHANGED <<buffers, money>>

\* The INSERT has no conflict clause: a row written meanwhile ends the command.
Zero(r) ==
    LET q == reqs[r]
    IN  /\ Doing(r, "zero")
        /\ \E c \in q.todo :
              IF budgets[q.month][c] = NoRow
                THEN Put(q.month, c, Row(0, FALSE)) /\ Done(r, c)
                ELSE Finish(r) /\ UNCHANGED budgets
        /\ UNCHANGED <<buffers, money, steps>>

\* apply_goal_templates, for targets of a fixed monthly amount.
BeginGoals(r) ==
    /\ Goals \intersect Visible # {}
    /\ \E m \in Months :
          Begin(r, [do |-> "goals", month |-> m, todo |-> Goals \intersect Visible])
    /\ UNCHANGED <<budgets, buffers, money>>

ApplyGoal(r) ==
    LET q == reqs[r]
    IN  /\ Doing(r, "goals")
        /\ \E c \in q.todo : /\ Put(q.month, c, Upserted(budgets[q.month][c], GoalAmount))
                             /\ Done(r, c)
        /\ UNCHANGED <<buffers, money, steps>>

\* set_3month_avg and set_nmonth_avg: for each category the rows of the months before are
\* read one by one, then their average is written.
Average(m, n, todo) ==
    [do |-> "average", month |-> m, span |-> n, todo |-> todo,
     cat |-> NoRow, next |-> 1, sum |-> 0, count |-> 0]

BeginAverage(r) ==
    /\ \E m \in Months, n \in Spans : Begin(r, Average(m, n, Visible))
    /\ UNCHANGED <<budgets, buffers, money>>

\* The month i before, as the handlers count: only the year's own "month 0" is corrected.
Back(month, i) ==
    LET m == month - i IN IF m % 100 = 0 THEN (m \div 100 - 1) * 100 + 12 ELSE m

\* Math.round: halves go up.
Rounded(sum, n) == (2 * sum + n) \div (2 * n)

ReadAmount(r) ==
    LET q      == reqs[r]
        before == Back(q.month, q.next)
    IN  /\ Doing(r, "average") /\ q.next <= q.span
        /\ \E c \in IF q.cat = NoRow THEN q.todo ELSE {q.cat} :
              LET b == IF before \in Months THEN budgets[before][c] ELSE NoRow
              IN  reqs' = [reqs EXCEPT ![r] =
                      [q EXCEPT !.cat = c, !.next = @ + 1, !.sum = @ + AmountIn(b),
                                !.count = IF b = NoRow THEN @ ELSE @ + 1]]
        /\ UNCHANGED <<budgets, buffers, money, steps>>

WriteAverage(r) ==
    LET q == reqs[r]
    IN  /\ Doing(r, "average") /\ q.next > q.span
        /\ IF q.count = 0
             THEN UNCHANGED budgets
             ELSE Put(q.month, q.cat,
                      Upserted(budgets[q.month][q.cat], Rounded(q.sum, q.count)))
        /\ IF q.todo = {q.cat}
             THEN Finish(r)
             ELSE reqs' = [reqs EXCEPT ![r] = Average(q.month, q.span, q.todo \ {q.cat})]
        /\ UNCHANGED <<buffers, money, steps>>

\* A statement fails, or the isolate is lost: what is written stays.
Fail(r) ==
    /\ reqs[r] # Idle
    /\ Finish(r)
    /\ UNCHANGED <<budgets, buffers, money, steps>>

-------------------------------------------------------------------------------
Next ==
    \/ Record \/ AddAccount
    \/ SetAmount \/ SetPlan \/ Allocate \/ SetCarryover \/ SetBuffer
    \/ \E r \in Requests :
          \/ BeginMove(r) \/ Move(r) \/ BeginCopy(r) \/ Copy(r)
          \/ BeginZero(r) \/ Zero(r) \/ BeginGoals(r) \/ ApplyGoal(r)
          \/ BeginAverage(r) \/ ReadAmount(r) \/ WriteAverage(r) \/ Fail(r)

Spec == Init /\ [][Next]_vars

-------------------------------------------------------------------------------
(* Properties.                                                               *)

Through(m) == {k \in Months : k <= m}

\* Every cent that has come in or gone out by the end of a month is to be assigned, held
\* back or in an envelope, exactly once, whatever has been assigned, carried, zeroed,
\* copied or half done: overspending is either carried by its category or taken from the
\* next month's To assign (README.md:50-51, budget-engine.ts:100-104).  Only what was
\* assigned to an income category, which no envelope holds, is missing.
EveryCentIsSomewhere ==
    \A m \in Months :
        LET b == computeMonthBudget(m)
        IN  b.toBudget + b.buffered + SumFunction(b.leftover)
              = SumFunction([k \in Through(m) |->
                    openings[k] + SumFunction(activity[k])
                                - SumFunction([c \in Income |-> Amount(k, c)])])

\* What is left in a category, without rolling: the best of the sums of its assignments
\* and activity since the first month or since a month that did not carry overspending.
LeftoverIsTheBestRun ==
    \A m \in Months, c \in Expense :
        LET since == {k \in Through(m) : k = Min(Months) \/ ~Carryover(k, c)}
            run(k) == SumFunction([i \in {j \in Through(m) : k <= j} |->
                                      Amount(i, c) + activity[i][c]])
        IN  computeMonthBudget(m).leftover[c] = Max({run(k) : k \in since})

\* A move "conserves assigned money" (budget-moves.test.ts:77) and touches two categories
\* of one month, whatever was assigned between its reads and its batch, unless a row that
\* it had read was deleted meanwhile.
MovesConserve ==
    [][\A r \in Requests :
        LET q    == reqs[r]
            rows == budgets[q.month]
        IN  /\ Move(r)
            /\ q.fromRow # NoRow => rows[q.from] # NoRow
            /\ q.toRow # NoRow => rows[q.to] # NoRow
            => /\ AmountIn(budgets'[q.month][q.from]) + AmountIn(budgets'[q.month][q.to])
                    = AmountIn(rows[q.from]) + AmountIn(rows[q.to])
               /\ \A m \in Months, c \in Categories :
                     budgets'[m][c] = budgets[m][c] \/ (m = q.month /\ c \in {q.from, q.to})
      ]_vars

===============================================================================
